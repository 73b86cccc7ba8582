-------------------------- MODULE Sqlite3RecordsProofs --------------------------
(****************************************************************************)
(* What dbi_sqlite3 objects do with their data, for any number of objects,  *)
(* ids, files, sizes of results and bounds: the types, fetch as a           *)
(* refinement of DbiFetch, the methods on records, and import.              *)
(****************************************************************************)
EXTENDS Sqlite3Records, FiniteSetTheorems, TLAPS

(* A table of the database: ids that have to be unique (u) are.             *)
Sound(u, t) == t \in Tables /\ (u => \A id \in Ids : Len(t[id]) <= 1)

DataInv ==
    /\ unique \in BOOLEAN
    /\ Sound(unique, work) /\ Sound(unique, kept)
    /\ txn \in {"none", "user", "import"}
    /\ txn = "none" => work = kept

SetInv == setting = NoSet \/ setting \in [on : {TRUE}, o : Obj, id : Ids]

(* The result of an object, and where fetch is in it: as long as it has not *)
(* strayed, the position of fetch is a line, it is the one that the         *)
(* statement stands on, if any, and once the end is known it is the last.   *)
Result == [res : 0 .. 2, len : Sizes, tuple : -1 .. MaxPos, ntuples : -1 .. MaxPos,
           at : -1 .. MaxPos, writes : Ids \cup {NoWrite}, strayed : BOOLEAN]

Position(r) ==
    /\ r.at < r.len
    /\ ~r.strayed =>
          /\ r.at >= 0 => r.tuple = r.at \/ (r.at = 0 /\ r.tuple = -1)
          /\ r.tuple < r.len
          /\ r.ntuples # -1 => r.ntuples = r.tuple /\ r.tuple = r.len - 1

ResultInv == obj \in [Obj -> Result] /\ \A o \in Obj : Position(obj[o])

RecordsInv == DataInv /\ SetInv /\ ResultInv

-----------------------------------------------------------------------------------
(* Natural numbers. *)

(* A set with 0 and with the successors of its numbers has all of them:     *)
(* otherwise one of the sets 0 .. n-1 with n missing would be the least.    *)
LEMMA AllNumbers ==
    ASSUME NEW S, 0 \in S, \A n \in Nat : n \in S => n + 1 \in S
    PROVE  \A n \in Nat : n \in S
<1> DEFINE Below == {0 .. n - 1 : n \in Nat \ S}
<1> SUFFICES ASSUME Nat \ S # {} PROVE FALSE
  OBVIOUS
<1>1. Below \subseteq FiniteSubsetsOf(Nat) /\ Below # {}
  <2>1. \A n \in Nat : 0 .. n - 1 \subseteq Nat /\ IsFiniteSet(0 .. n - 1)
    BY FS_Interval
  <2> QED
    BY <2>1 DEF FiniteSubsetsOf
<1>2. PICK T \in Below : \A U \in Below : <<U, T>> \notin StrictSubsetOrdering(Nat)
  <2> HIDE DEF Below
  <2> QED
    BY <1>1, FS_StrictSubsetOrderingWellFounded, WFMin
<1>3. PICK m \in Nat \ S : T = 0 .. m - 1
  OBVIOUS
<1>4. m - 1 \in Nat \ S
  OBVIOUS
<1>5. 0 .. (m - 1) - 1 \in Below
  BY <1>4
<1>6. 0 .. (m - 1) - 1 \subseteq T /\ 0 .. (m - 1) - 1 # T
  BY <1>3, <1>4
<1> QED
  BY <1>1, <1>2, <1>5, <1>6 DEF StrictSubsetOrdering, FiniteSubsetsOf

LEMMA SizesFacts == MaxLines \in Sizes /\ MaxLines <= MaxPos /\ Sizes \subseteq 0 .. MaxPos
<1> DEFINE Greatest(n) == n \in Sizes /\ \A m \in Sizes : m <= n
           S == {k \in Nat : (\E n \in Sizes : n >= MaxPos - k) => \E n \in Sizes : Greatest(n)}
<1>1. Sizes \subseteq 0 .. MaxPos /\ MaxPos \in Nat
  BY RecordsAssumption
<1>2. 0 \in S
  BY <1>1
<1>3. ASSUME NEW k \in Nat, k \in S PROVE k + 1 \in S
  <2> SUFFICES ASSUME NEW n \in Sizes, n >= MaxPos - (k + 1)
               PROVE  \E m \in Sizes : Greatest(m)
    OBVIOUS
  <2>1. CASE \E m \in Sizes : m >= MaxPos - k
    BY <1>3, <2>1
  <2>2. CASE \A m \in Sizes : m < MaxPos - k
    <3>1. \A m \in Sizes : m <= n
      BY <1>1, <2>2
    <3> QED
      BY <3>1
  <2> QED
    BY <1>1, <2>1, <2>2
<1>4. MaxPos \in S
  <2> HIDE DEF S
  <2> QED
    BY <1>1, <1>2, <1>3, AllNumbers
<1>5. \E n \in Sizes : \A m \in Sizes : m <= n
  BY <1>1, <1>4, RecordsAssumption
<1>6. MaxLines \in Sizes
  BY <1>5 DEF MaxLines
<1> QED
  BY <1>1, <1>6

-----------------------------------------------------------------------------------
(* The table. *)

LEMMA CellFacts ==
    \A s : s \in UNION {[1 .. n -> Values] : n \in 0 .. MaxCopies}
           <=> s \in Seq(Values) /\ Len(s) <= MaxCopies
<1>1. MaxCopies \in Nat
  BY RecordsAssumption
<1>2. ASSUME NEW n \in 0 .. MaxCopies, NEW s \in [1 .. n -> Values]
      PROVE  s \in Seq(Values) /\ Len(s) <= MaxCopies
  BY <1>1
<1>3. ASSUME NEW s \in Seq(Values), Len(s) <= MaxCopies
      PROVE  Len(s) \in 0 .. MaxCopies /\ s \in [1 .. Len(s) -> Values]
  BY <1>1, <1>3
<1> QED
  BY <1>2, <1>3

(* The changes that statements make of a table. *)
LEMMA RowAdded ==
    ASSUME unique \in BOOLEAN, NEW t, Sound(unique, t), NEW id \in Ids, NEW v \in Values,
           Len(t[id]) < MaxCopies, ~Clashes(t, id)
    PROVE  Sound(unique, WithRow(t, id, v)) /\ WithRow(t, id, v)[id] # <<>>
<1> DEFINE s == Append(t[id], v)
<1>1. \A i \in Ids : t[i] \in Seq(Values) /\ Len(t[i]) <= MaxCopies
  BY CellFacts DEF Sound, Tables
<1>2. s \in Seq(Values) /\ Len(s) = Len(t[id]) + 1 /\ s # <<>>
  BY <1>1
<1>3. Len(s) <= MaxCopies
  BY <1>1, <1>2, RecordsAssumption
<1>4. unique => Len(s) = 1
  BY <1>1, <1>2 DEF Clashes
<1>5. WithRow(t, id, v) = [t EXCEPT ![id] = s]
  BY DEF WithRow
<1> HIDE DEF s
<1> QED
  BY <1>1, <1>2, <1>3, <1>4, <1>5, CellFacts DEF Sound, Tables

LEMMA RowsChanged ==
    ASSUME unique \in BOOLEAN, NEW t, Sound(unique, t), NEW id \in Ids, NEW v \in Values
    PROVE  /\ Sound(unique, AllRows(t, id, v))
           /\ Len(AllRows(t, id, v)[id]) = Len(t[id])
           /\ \A i \in DOMAIN AllRows(t, id, v)[id] : AllRows(t, id, v)[id][i] = v
           /\ Len(t[id]) = 0 => AllRows(t, id, v) = t
<1> DEFINE s == [i \in DOMAIN t[id] |-> v]
<1>1. \A i \in Ids : t[i] \in Seq(Values) /\ Len(t[i]) <= MaxCopies
  BY CellFacts DEF Sound, Tables
<1>2. s \in Seq(Values) /\ Len(s) = Len(t[id]) /\ DOMAIN s = 1 .. Len(s)
  BY <1>1
<1>3. Len(t[id]) = 0 => s = t[id]
  BY <1>1
<1>4. AllRows(t, id, v) = [t EXCEPT ![id] = s]
  BY DEF AllRows
<1>5. \A i \in DOMAIN s : s[i] = v
  OBVIOUS
<1> HIDE DEF s
<1> QED
  BY <1>1, <1>2, <1>3, <1>4, <1>5, CellFacts DEF Sound, Tables

LEMMA RowsDeleted ==
    ASSUME unique \in BOOLEAN, NEW t, Sound(unique, t), NEW id \in Ids
    PROVE  /\ Sound(unique, [t EXCEPT ![id] = <<>>])
           /\ [t EXCEPT ![id] = <<>>][id] = <<>>
           /\ Len(t[id]) = 0 => [t EXCEPT ![id] = <<>>] = t
<1>1. \A i \in Ids : t[i] \in Seq(Values) /\ Len(t[i]) <= MaxCopies
  BY CellFacts DEF Sound, Tables
<1>2. PICK s \in Seq(Values) : s = <<>> /\ Len(s) = 0 /\ Len(s) <= MaxCopies
  <2>1. <<>> \in Seq(Values) /\ Len(<<>>) = 0 /\ 0 <= MaxCopies
    BY RecordsAssumption
  <2> QED
    BY <2>1, Zenon
<1>3. Len(t[id]) = 0 => t[id] = s
  BY <1>1, <1>2
<1>4. [t EXCEPT ![id] = <<>>] = [t EXCEPT ![id] = s]
  BY <1>2
<1> QED
  BY <1>1, <1>2, <1>3, <1>4, CellFacts DEF Sound, Tables

LEMMA SourcesSound == \A t \in Sources : Sound(unique, t)
<1>1. /\ <<>> \in Seq(Values) /\ Len(<<>>) = 0
      /\ <<"text">> \in Seq(Values) /\ Len(<<"text">>) = 1
      /\ 0 <= MaxCopies /\ 1 <= MaxCopies
  BY RecordsAssumption DEF Values
<1>2. ASSUME NEW s \in Seq(Values), Len(s) <= 1, Len(s) <= MaxCopies
      PROVE  Sound(unique, [id \in Ids |-> s])
  BY <1>2, CellFacts DEF Sound, Tables
<1>3. Sound(unique, [id \in Ids |-> <<>>])
  <2>1. Len(<<>>) <= 1 /\ Len(<<>>) <= MaxCopies
    BY <1>1
  <2> QED
    BY <1>1, <1>2, <2>1, Zenon
<1>4. Sound(unique, [id \in Ids |-> <<"text">>])
  <2>1. Len(<<"text">>) <= 1 /\ Len(<<"text">>) <= MaxCopies
    BY <1>1
  <2> QED
    BY <1>1, <1>2, <2>1, Zenon
<1> QED
  BY <1>3, <1>4 DEF Sources, Empty

(* A statement has changed the table into t. *)
LEMMA ChangeSound ==
    ASSUME DataInv, NEW t, Sound(unique, t), Changed(t), UNCHANGED <<unique, txn>>
    PROVE  DataInv'
BY DEF DataInv, Changed, Sound

-----------------------------------------------------------------------------------
(* import: the loop over the lines of a file. *)

Tab == [Ids -> Seq(Values)]
Imported == [tab : Tab, failed : BOOLEAN]
Before == [tab |-> work, failed |-> FALSE]

(* What the loop has done with the first n lines of the file is s: unless   *)
(* it has failed, each of them has its row, and no id has lost its rows.    *)
HasRows(file, n, s) ==
    /\ s \in Imported
    /\ unique => \A id \in Ids : Len(s.tab[id]) <= 1
    /\ \A id \in Ids : work[id] # <<>> => s.tab[id] # <<>>
    /\ ~s.failed => \A i \in 1 .. n : file[i] \in Ids /\ s.tab[file[i]] # <<>>

LEMMA ImportedFields ==
    ASSUME NEW T, NEW s \in [tab : T, failed : BOOLEAN], NEW t
    PROVE  /\ [s EXCEPT !.tab = t] = [tab |-> t, failed |-> s.failed]
           /\ [s EXCEPT !.failed = t] = [tab |-> s.tab, failed |-> t]
OBVIOUS

LEMMA LineImported ==
    ASSUME unique \in BOOLEAN, NEW s \in Imported, NEW line \in Ids \cup {"wide"}, NEW algorithm,
           unique => \A id \in Ids : Len(s.tab[id]) <= 1
    PROVE  LET v == OneLine(line, algorithm, s)
           IN  /\ v \in Imported
               /\ unique => \A id \in Ids : Len(v.tab[id]) <= 1
               /\ \A id \in Ids : s.tab[id] # <<>> => v.tab[id] # <<>>
               /\ ~v.failed => ~s.failed /\ line \in Ids /\ v.tab[line] # <<>>
<1> DEFINE v == OneLine(line, algorithm, s)
<1>1. s.tab \in Tab /\ s.failed \in BOOLEAN /\ s = [tab |-> s.tab, failed |-> s.failed]
  BY DEF Imported
<1>2. \A t : [s EXCEPT !.tab = t] = [tab |-> t, failed |-> s.failed]
  BY ImportedFields DEF Imported
<1>3. [s EXCEPT !.failed = TRUE] = [tab |-> s.tab, failed |-> TRUE]
  BY ImportedFields DEF Imported
<1>4. CASE s.failed
  BY <1>1, <1>4 DEF OneLine
<1>5. CASE ~s.failed /\ line = "wide"
  BY <1>1, <1>3, <1>5 DEF OneLine, Imported
<1>6. CASE ~s.failed /\ line # "wide" /\ ~Clashes(s.tab, line)
  <2> DEFINE t == WithRow(s.tab, line, "text")
             a == Append(s.tab[line], "text")
  <2>1. line \in Ids /\ s.tab[line] \in Seq(Values) /\ "text" \in Values
    BY <1>1, <1>6 DEF Tab, Values
  <2>2. a \in Seq(Values) /\ Len(a) = Len(s.tab[line]) + 1 /\ a # <<>>
    BY <2>1
  <2>3. unique => Len(a) = 1
    BY <1>6, <2>1, <2>2 DEF Clashes
  <2>4. t = [s.tab EXCEPT ![line] = a]
    BY DEF WithRow
  <2> HIDE DEF a
  <2>5. t \in Tab /\ t[line] = a /\ \A id \in Ids \ {line} : t[id] = s.tab[id]
    BY <1>1, <2>1, <2>2, <2>4 DEF Tab
  <2>6. v = [tab |-> t, failed |-> FALSE]
    <3>1. v = [s EXCEPT !.tab = t]
      BY <1>6 DEF OneLine
    <3> HIDE DEF t, v
    <3> QED
      BY <1>1, <1>2, <1>6, <2>5, <3>1
  <2> HIDE DEF t, v
  <2> QED
    BY <1>1, <1>6, <2>1, <2>2, <2>3, <2>5, <2>6 DEF Imported, v
<1>7. CASE ~s.failed /\ line # "wide" /\ Clashes(s.tab, line) /\ algorithm = "ignore"
  BY <1>1, <1>7 DEF OneLine, Clashes
<1>8. CASE ~s.failed /\ line # "wide" /\ Clashes(s.tab, line) /\ algorithm = "replace"
  <2> DEFINE a == <<"text">>
             t == [s.tab EXCEPT ![line] = a]
  <2>1. line \in Ids /\ a \in Seq(Values) /\ a # <<>> /\ Len(a) = 1
    BY <1>1, <1>8 DEF Tab, Values
  <2> HIDE DEF a
  <2>2. t \in Tab /\ t[line] = a /\ \A id \in Ids \ {line} : t[id] = s.tab[id]
    BY <1>1, <2>1 DEF Tab
  <2>3. v = [tab |-> t, failed |-> s.failed]
    <3>1. v = [s EXCEPT !.tab = t]
      BY <1>8 DEF OneLine, a
    <3> HIDE DEF t, v
    <3> QED
      BY <1>1, <1>2, <1>8, <2>2, <3>1
  <2> HIDE DEF t, v
  <2> QED
    <3>1. v \in Imported /\ v.tab = t /\ v.failed = s.failed
      BY <1>1, <2>2, <2>3 DEF Imported
    <3>2. ASSUME NEW id \in Ids, Len(s.tab[id]) <= 1 PROVE Len(t[id]) <= 1
      <4>1. CASE id = line
        <5>1. Len(t[id]) = 1
          BY <2>1, <2>2, <4>1, Zenon
        <5> QED
          BY <5>1
      <4>2. CASE id # line
        BY <2>2, <3>2, <4>2
      <4> QED
        BY <4>1, <4>2
    <3>3. \A id \in Ids : s.tab[id] # <<>> => t[id] # <<>>
      BY <2>1, <2>2
    <3> QED
      BY <1>8, <2>1, <2>2, <3>1, <3>2, <3>3 DEF v
<1>9. CASE /\ ~s.failed /\ line # "wide" /\ Clashes(s.tab, line)
           /\ algorithm # "ignore" /\ algorithm # "replace"
  BY <1>1, <1>3, <1>9 DEF OneLine, Imported
<1> QED
  BY <1>4, <1>5, <1>6, <1>7, <1>8, <1>9

(* The loop comes to an end. *)
LEMMA LoopRuns ==
    ASSUME unique \in BOOLEAN, Sound(unique, work),
           NEW file \in Seq(Ids \cup {"wide"}), NEW algorithm
    PROVE  \E f : /\ f = [i \in 0 .. Len(file) |-> IF i = 0 THEN Before
                                                   ELSE OneLine(file[i], algorithm, f[i - 1])]
                  /\ AllLines(file, algorithm) = f[Len(file)]
<1> DEFINE Step(f, i) == IF i = 0 THEN Before ELSE OneLine(file[i], algorithm, f[i - 1])
           Runs(n) == \E f : f = [i \in 0 .. n |-> Step(f, i)]
           S == {n \in Nat : Runs(n)}
<1>1. 0 \in S
  <2> DEFINE f == [i \in 0 .. 0 |-> Before]
  <2>1. f = [i \in 0 .. 0 |-> Step(f, i)]
    OBVIOUS
  <2> QED
    BY <2>1
<1>2. ASSUME NEW n \in Nat, n \in S PROVE n + 1 \in S
  <2>1. PICK f : f = [i \in 0 .. n |-> Step(f, i)]
    BY <1>2
  <2> DEFINE g == [i \in 0 .. n + 1 |-> IF i = n + 1 THEN OneLine(file[i], algorithm, f[n]) ELSE f[i]]
  <2>2. \A i \in 0 .. n : g[i] = f[i]
    OBVIOUS
  <2>3. \A i \in 0 .. n : f[i] = Step(f, i)
    BY <2>1
  <2>4. \A i \in 0 .. n : Step(f, i) = Step(g, i)
    BY <2>2
  <2>5. g[n + 1] = OneLine(file[n + 1], algorithm, f[n]) /\ n + 1 # 0 /\ (n + 1) - 1 = n
    OBVIOUS
  <2>6. g[n + 1] = Step(g, n + 1)
    BY <2>2, <2>5
  <2>7. g = [i \in 0 .. n + 1 |-> g[i]]
    OBVIOUS
  <2>8. \A i \in 0 .. n + 1 : g[i] = Step(g, i)
    BY <2>2, <2>3, <2>4, <2>6
  <2> HIDE DEF g, Step
  <2>9. g = [i \in 0 .. n + 1 |-> Step(g, i)]
    BY <2>7, <2>8
  <2> QED
    BY <2>9
<1>3. Len(file) \in S
  <2> HIDE DEF S
  <2> QED
    BY <1>1, <1>2, AllNumbers
<1>4. \E f : f = [i \in 0 .. Len(file) |-> Step(f, i)]
  BY <1>3
<1> DEFINE F == CHOOSE f : f = [i \in 0 .. Len(file) |-> Step(f, i)]
<1>5. F = [i \in 0 .. Len(file) |-> Step(F, i)]
  BY <1>4
<1>6. AllLines(file, algorithm) = F[Len(file)]
  BY DEF AllLines, Before
<1> QED
  BY <1>5, <1>6

LEMMA FileImported ==
    ASSUME unique \in BOOLEAN, Sound(unique, work),
           NEW file \in Seq(Ids \cup {"wide"}), NEW algorithm
    PROVE  HasRows(file, Len(file), AllLines(file, algorithm))
<1>1. PICK f : /\ f = [i \in 0 .. Len(file) |-> IF i = 0 THEN Before
                                                ELSE OneLine(file[i], algorithm, f[i - 1])]
               /\ AllLines(file, algorithm) = f[Len(file)]
  BY LoopRuns
<1>2. f[0] = Before /\ \A i \in 1 .. Len(file) : f[i] = OneLine(file[i], algorithm, f[i - 1])
  <2>1. 0 \in 0 .. Len(file) /\ \A i \in 1 .. Len(file) : i \in 0 .. Len(file) /\ i # 0
    OBVIOUS
  <2> QED
    BY <1>1, <2>1
<1> DEFINE S == {n \in Nat : n <= Len(file) => HasRows(file, n, f[n])}
<1>3. 0 \in S
  <2>1. work \in Tab /\ (unique => \A id \in Ids : Len(work[id]) <= 1)
    BY CellFacts DEF Sound, Tables, Tab
  <2>2. HasRows(file, 0, Before)
    BY <2>1 DEF HasRows, Before, Imported
  <2> QED
    BY <1>2, <2>2
<1>4. ASSUME NEW n \in Nat, n \in S PROVE n + 1 \in S
  <2> SUFFICES ASSUME n + 1 <= Len(file) PROVE HasRows(file, n + 1, f[n + 1])
    OBVIOUS
  <2> DEFINE s == f[n]
             v == OneLine(file[n + 1], algorithm, s)
  <2>1. HasRows(file, n, s) /\ file[n + 1] \in Ids \cup {"wide"}
    BY <1>4
  <2>2. f[n + 1] = v
    BY <1>2
  <2> HIDE DEF s
  <2>3. /\ v \in Imported
        /\ unique => \A id \in Ids : Len(v.tab[id]) <= 1
        /\ \A id \in Ids : s.tab[id] # <<>> => v.tab[id] # <<>>
        /\ ~v.failed => ~s.failed /\ file[n + 1] \in Ids /\ v.tab[file[n + 1]] # <<>>
    BY <2>1, LineImported DEF HasRows
  <2> HIDE DEF v
  <2>4. HasRows(file, n + 1, v)
    BY <2>1, <2>3 DEF HasRows
  <2> QED
    BY <2>2, <2>4
<1>5. Len(file) \in S
  <2> HIDE DEF S
  <2> QED
    BY <1>3, <1>4, AllNumbers
<1> QED
  BY <1>1, <1>5

-----------------------------------------------------------------------------------
(* The result of an object. *)

(* Records that differ in one position or the other. *)
Same(r, s) == /\ s.res = r.res /\ s.len = r.len /\ s.writes = r.writes
              /\ (s.strayed <=> r.strayed)

LEMMA ResultTypes ==
    ASSUME NEW r \in Result
    PROVE  /\ r.res \in 0 .. 2 /\ r.len \in 0 .. MaxPos /\ r.tuple \in -1 .. MaxPos
           /\ r.ntuples \in -1 .. MaxPos /\ r.at \in -1 .. MaxPos
           /\ r.strayed \in BOOLEAN /\ MaxPos \in Nat
BY SizesFacts, RecordsAssumption DEF Result

LEMMA StartedFields ==
    ASSUME NEW r \in Result
    PROVE  LET s == Started(r)
           IN  /\ s \in Result /\ Same(r, s) /\ s.at = r.at /\ s.ntuples = r.ntuples
               /\ s.tuple = IF r.tuple = -1 THEN 0 ELSE r.tuple
<1>1. 0 \in -1 .. MaxPos
  BY RecordsAssumption
<1> QED
  BY <1>1 DEF Started, Same, Result

LEMMA MovedFields ==
    ASSUME NEW r \in Result, NEW k \in Nat, r.tuple + k <= MaxPos, r.at + k <= MaxPos
    PROVE  LET s == Moved(r, k)
           IN  /\ s \in Result /\ Same(r, s) /\ s.ntuples = r.ntuples
               /\ s.at = r.at + k /\ s.tuple = r.tuple + k
<1>1. r.tuple + k \in -1 .. MaxPos /\ r.at + k \in -1 .. MaxPos
  BY ResultTypes
<1> DEFINE a == r.tuple + k
           b == r.at + k
<1>2. Moved(r, k) = [r EXCEPT !.tuple = a, !.at = b]
  BY DEF Moved
<1> HIDE DEF a, b
<1> QED
  BY <1>1, <1>2 DEF Same, Result, a, b

LEMMA FinishedFields ==
    ASSUME NEW r \in Result, r.at < r.len, r.tuple + LinesLeft(r) <= MaxPos
    PROVE  LET s == Finished(r)
           IN  /\ s \in Result /\ Same(r, s) /\ s.at = -1
               /\ s.tuple = r.tuple + (r.len - 1 - r.at) /\ s.ntuples = s.tuple
<1> DEFINE a == r.tuple + LinesLeft(r)
<1>1. a \in -1 .. MaxPos /\ -1 \in -1 .. MaxPos /\ a = r.tuple + (r.len - 1 - r.at)
  BY ResultTypes DEF LinesLeft
<1>2. Finished(r) = [r EXCEPT !.tuple = a, !.ntuples = a, !.at = -1]
  BY DEF Finished
<1> HIDE DEF a
<1> QED
  BY <1>1, <1>2 DEF Same, Result

LEMMA FailedFields ==
    ASSUME NEW r \in Result, NEW k \in Nat, r.tuple + k <= MaxPos
    PROVE  LET s == StepFailed(r, k)
           IN  /\ s \in Result /\ Same(r, s) /\ s.ntuples = r.ntuples
               /\ s.at = -1 /\ s.tuple = r.tuple + k
<1> DEFINE a == r.tuple + k
<1>1. a \in -1 .. MaxPos /\ -1 \in -1 .. MaxPos
  BY ResultTypes
<1>2. StepFailed(r, k) = [r EXCEPT !.tuple = a, !.at = -1]
  BY DEF StepFailed
<1> HIDE DEF a
<1> QED
  BY <1>1, <1>2 DEF Same, Result, a

(* A statement that stands on no line is executed again, and then fetch has *)
(* strayed.                                                                 *)
LEMMA AtStepFields ==
    ASSUME NEW r \in Result, NEW s \in AtStep(r)
    PROVE  /\ s \in Result /\ s.res = r.res /\ s.at = r.at /\ s.tuple = r.tuple
           /\ r.at # -1 => s = r
           /\ r.at = -1 => s.strayed
<1>1. CASE r.at = -1
  <2>1. PICK n \in Sizes : s = [r EXCEPT !.len = n, !.strayed = TRUE]
    BY <1>1, RecordsAssumption DEF AtStep, Restarted
  <2> QED
    BY <1>1, <2>1 DEF Result
<1>2. CASE r.at # -1
  BY <1>2 DEF AtStep
<1> QED
  BY <1>1, <1>2

LEMMA StrayedFields ==
    ASSUME NEW r \in Result
    PROVE  LET s == [r EXCEPT !.strayed = @ \/ r.at = -1]
           IN  /\ s \in Result /\ s.res = r.res /\ s.len = r.len /\ s.at = r.at
               /\ s.tuple = r.tuple /\ s.ntuples = r.ntuples
               /\ s.strayed <=> (r.strayed \/ r.at = -1)
<1> DEFINE d == r.strayed \/ r.at = -1
<1>1. d \in BOOLEAN
  OBVIOUS
<1> HIDE DEF d
<1>2. [r EXCEPT !.strayed = @ \/ r.at = -1] = [r EXCEPT !.strayed = d]
  BY DEF d
<1>3. LET s == [r EXCEPT !.strayed = d]
      IN  /\ s \in Result /\ s.res = r.res /\ s.len = r.len /\ s.at = r.at
          /\ s.tuple = r.tuple /\ s.ntuples = r.ntuples
          /\ s.strayed = d
  BY <1>1 DEF Result
<1> QED
  BY <1>2, <1>3 DEF d

(* No result: nothing to fetch. *)
LEMMA NoResultSound ==
    /\ NoResult \in Result /\ Position(NoResult)
    /\ NoResult.res = 0 /\ NoResult.len = 0 /\ NoResult.tuple = -1 /\ NoResult.ntuples = -1
    /\ NoResult.at = -1 /\ ~NoResult.strayed
<1>1. 0 \in Sizes /\ -1 \in -1 .. MaxPos /\ NoWrite \in Ids \cup {NoWrite}
  BY RecordsAssumption
<1> QED
  BY <1>1 DEF NoResult, Result, Position

Anew(res, len, at, writes) ==
    [NoResult EXCEPT !.res = res, !.len = len, !.at = at, !.writes = writes]

LEMMA NewFields ==
    ASSUME NEW a, NEW b, NEW c, NEW d
    PROVE  LET s == Anew(a, b, c, d)
           IN  /\ s.res = a /\ s.len = b /\ s.tuple = -1 /\ s.ntuples = -1
               /\ s.at = c /\ ~s.strayed
               /\ a \in 0 .. 2 /\ b \in Sizes /\ c \in -1 .. MaxPos /\ d \in Ids \cup {NoWrite}
                     => s \in Result
<1>1. -1 \in -1 .. MaxPos
  BY RecordsAssumption
<1> QED
  BY <1>1 DEF Anew, NoResult, Result

LEMMA NewResultSound ==
    ASSUME NEW r \in Result, NEW n \in Sizes, NEW id \in Ids \cup {NoWrite}
    PROVE  LET s == NewResult(r, n, id)
           IN  /\ s \in Result /\ Position(s)
               /\ s.res # 0 /\ s.res # r.res /\ s.len = n /\ s.tuple = -1 /\ ~s.strayed
<1> DEFINE at == IF n = 0 THEN -1 ELSE 0
           res == Another(r.res)
           s == NewResult(r, n, id)
<1>1. n \in 0 .. MaxPos /\ MaxPos \in Nat
  BY SizesFacts, RecordsAssumption
<1>2. at \in -1 .. MaxPos /\ at < n
  BY <1>1
<1>3. res \in 0 .. 2 /\ res # 0 /\ res # r.res
  BY DEF Another, Result
<1>4. s = Anew(res, n, at, id)
  BY DEF NewResult, Anew
<1> HIDE DEF at, res, s
<1>5. /\ s.tuple = -1 /\ s.res = res /\ s.len = n /\ s.ntuples = -1
      /\ s.at = at /\ ~s.strayed /\ s \in Result
  BY <1>2, <1>3, <1>4, NewFields
<1>6. at = -1 \/ at = 0
  BY DEF at
<1>7. Position(s)
  BY <1>1, <1>2, <1>5, <1>6 DEF Position
<1> QED
  BY <1>3, <1>5, <1>7 DEF s

LEMMA ClearedSound ==
    ASSUME ResultInv, NEW o \in Obj, NEW r \in Result, Position(r)
    PROVE  /\ ClearResult(o) \in [Obj -> Result]
           /\ \A p \in Obj : Position(ClearResult(o)[p])
           /\ \A p \in Obj : ClearResult(o)[p] \in {NoResult, obj[p]}
           /\ [ClearResult(o) EXCEPT ![o] = r] \in [Obj -> Result]
           /\ \A p \in Obj : Position([ClearResult(o) EXCEPT ![o] = r][p])
           /\ [ClearResult(o) EXCEPT ![o] = r][o] = r
           /\ \A p \in Obj \ {o} : [ClearResult(o) EXCEPT ![o] = r][p] \in {NoResult, obj[p]}
           /\ ClearResult(o)[o] = NoResult
<1>1. \A p \in Obj : ClearResult(o)[p] = IF p \in Hears(o) THEN NoResult ELSE obj[p]
  BY DEF ClearResult
<1>2. ClearResult(o) \in [Obj -> Result]
  BY NoResultSound DEF ResultInv, ClearResult
<1>3. o \in Hears(o)
  BY DEF Hears
<1>4. \A p \in Obj : Position(ClearResult(o)[p])
  BY <1>1, NoResultSound DEF ResultInv
<1>5. \A p \in Obj : ClearResult(o)[p] \in {NoResult, obj[p]}
  BY <1>1
<1> DEFINE c == ClearResult(o)
<1> HIDE DEF c
<1>6. /\ [c EXCEPT ![o] = r] \in [Obj -> Result]
      /\ [c EXCEPT ![o] = r][o] = r
      /\ \A p \in Obj \ {o} : [c EXCEPT ![o] = r][p] = c[p]
  BY <1>2 DEF c
<1>7. \A p \in Obj : Position([c EXCEPT ![o] = r][p])
  BY <1>4, <1>6 DEF c
<1> QED
  BY <1>1, <1>2, <1>3, <1>4, <1>5, <1>6, <1>7 DEF c

-----------------------------------------------------------------------------------
(* fetch: what a call says of the result r of its object, and leaves of it. *)

GivenLine(r, n, a, s) ==
    /\ r.res # 0 /\ n \in 0 .. r.len - 1
    /\ reply'.is = "line" /\ reply'.asked = a /\ reply'.n = n /\ reply'.res = r.res
    /\ s.tuple = n
RefusedLine(r, n, a, s) ==
    /\ reply'.is = "refused" /\ reply'.asked = a
    /\ \/ s = r /\ (r.res = 0 \/ n < 0)
       \/ /\ n >= 0 /\ (n >= r.len \/ (a # -1 /\ n <= r.tuple))
          /\ s.tuple = r.tuple \/ s.tuple = r.len - 1
BrokenResult(r, s) ==
    r.res # 0 /\ reply'.is = "failed" /\ s.tuple \in r.tuple .. r.len - 1

Fetched(r, n, a, s) ==
    /\ s \in Result /\ Position(s)
    /\ ~s.strayed => /\ s.res = r.res /\ s.len = r.len
                     /\ GivenLine(r, n, a, s) \/ RefusedLine(r, n, a, s) \/ BrokenResult(r, s)

LEMMA AskedFacts ==
    ASSUME ResultInv, NEW o \in Obj, NEW q \in -2 .. MaxLines
    PROVE  \/ Asked(o, q) = -1 /\ Wanted(o, q) = obj[o].tuple + 1
           \/ Asked(o, q) = -2 /\ Wanted(o, q) = -2
           \/ Asked(o, q) \in 0 .. MaxPos /\ Wanted(o, q) = Asked(o, q)
<1>1. obj[o].tuple \in -1 .. MaxPos /\ MaxPos \in Nat
  BY ResultTypes DEF ResultInv
<1>2. MaxLines \in Nat /\ MaxLines <= MaxPos
  BY SizesFacts
<1> QED
  BY <1>1, <1>2 DEF Asked, Wanted

(* The answers of fetch. *)
LEMMA Answers ==
    ASSUME NEW o \in Obj, NEW q
    PROVE  /\ GivesNo(o, q) => /\ reply'.to = o /\ reply'.of = "fetch" /\ reply'.is = "refused"
                               /\ reply'.asked = Asked(o, q)
           /\ Gives(o, q) => /\ reply'.to = o /\ reply'.of = "fetch" /\ reply'.is = "line"
                             /\ reply'.asked = Asked(o, q)
                             /\ reply'.n = obj'[o].at /\ reply'.res = obj[o].res
           /\ \A m, is : reply' = Answer(o, m, is) =>
                 reply'.to = o /\ reply'.of = m /\ reply'.is = is
BY DEF GivesNo, Gives, Answer, NoReply

(* A step of the statement, as s finds it. *)
LEMMA Stepped ==
    ASSUME ResultInv, NEW o \in Obj, NEW q \in -2 .. MaxLines,
           NEW s \in AtStep(Started(obj[o])),
           obj[o].res # 0, Wanted(o, q) > Started(obj[o]).tuple,
           ~KnownPast(Started(obj[o]), Wanted(o, q))
    PROVE  LET r == obj[o]
               t == Started(r)
               n == Wanted(o, q)
               d == n - t.tuple
           IN  /\ d <= LinesLeft(s) /\ n <= MaxPos /\ obj'[o] = Moved(s, d) /\ Gives(o, q)
                     => Fetched(r, n, Asked(o, q), obj'[o])
               /\ d > LinesLeft(s) /\ Finished(s).tuple <= MaxPos
                  /\ obj'[o] = Finished(s) /\ GivesNo(o, q)
                     => Fetched(r, n, Asked(o, q), obj'[o])
               /\ \A k \in 0 .. d - 1 :
                     /\ k <= LinesLeft(s) /\ t.tuple + k <= MaxPos
                     /\ obj'[o] = StepFailed(s, k) /\ reply' = Answer(o, "fetch", "failed")
                     => Fetched(r, n, Asked(o, q), obj'[o])
<1> DEFINE r == obj[o]
           t == Started(r)
           n == Wanted(o, q)
           a == Asked(o, q)
           d == n - t.tuple
           v == obj'[o]
<1>1. r \in Result /\ Position(r)
  BY DEF ResultInv
<1>2. /\ t \in Result /\ Same(r, t) /\ t.at = r.at /\ t.ntuples = r.ntuples
      /\ t.tuple = IF r.tuple = -1 THEN 0 ELSE r.tuple
  BY <1>1, StartedFields
<1>3. /\ s \in Result /\ s.res = t.res /\ s.at = t.at /\ s.tuple = t.tuple
      /\ t.at # -1 => s = t
      /\ t.at = -1 => s.strayed
  BY <1>2, AtStepFields
<1>4. /\ r.res \in 0 .. 2 /\ r.len \in 0 .. MaxPos /\ r.tuple \in -1 .. MaxPos
      /\ r.ntuples \in -1 .. MaxPos /\ r.at \in -1 .. MaxPos
      /\ r.strayed \in BOOLEAN /\ MaxPos \in Nat
      /\ s.len \in 0 .. MaxPos /\ s.strayed \in BOOLEAN
  BY <1>1, <1>3, ResultTypes
<1>5. n \in Int /\ n > t.tuple /\ n > 0 /\ d \in Nat \ {0}
  BY <1>2, <1>4, AskedFacts
<1>6. s.at < s.len
  BY <1>1, <1>2, <1>3, <1>4 DEF Position, Same
(* While fetch has not strayed, the end is not known yet. *)
<1>7. ~s.strayed => /\ s = t /\ t.at = t.tuple /\ s.len = r.len /\ s.res = r.res
                    /\ r.ntuples = -1 /\ t.tuple < r.len /\ r.tuple <= t.tuple
  <2> SUFFICES ASSUME ~s.strayed
               PROVE  /\ s = t /\ t.at = t.tuple /\ s.len = r.len /\ s.res = r.res
                      /\ r.ntuples = -1 /\ t.tuple < r.len /\ r.tuple <= t.tuple
    OBVIOUS
  <2>1. s = t /\ t.at # -1 /\ ~r.strayed /\ s.len = r.len /\ s.res = r.res
    BY <1>2, <1>3 DEF Same
  <2>2. t.at = t.tuple /\ t.tuple < r.len
    BY <1>1, <1>2, <1>4, <2>1 DEF Position
  <2>3. r.ntuples = -1
    BY <1>1, <1>2, <1>4, <1>5, <2>1 DEF Position, KnownPast
  <2> QED
    BY <1>2, <1>4, <2>1, <2>2, <2>3
<1>8. LinesLeft(s) = s.len - 1 - s.at
  BY DEF LinesLeft
<1> HIDE DEF r, t, n, a, d
<1>9. ASSUME d <= LinesLeft(s), n <= MaxPos, v = Moved(s, d), Gives(o, q)
      PROVE  Fetched(r, n, a, v)
  <2>1. s.tuple + d = n /\ s.at + d < s.len /\ s.at + d <= MaxPos
    BY <1>2, <1>3, <1>4, <1>5, <1>8, <1>9 DEF d
  <2>2. /\ v \in Result /\ Same(s, v) /\ v.ntuples = s.ntuples
        /\ v.at = s.at + d /\ v.tuple = n
    BY <1>3, <1>5, <1>9, <2>1, MovedFields
  <2>3. v.at < v.len
    BY <2>1, <2>2 DEF Same
  <2>4. ASSUME ~v.strayed PROVE Position(v) /\ GivenLine(r, n, a, v) /\ v.res = r.res /\ v.len = r.len
    <3>1. ~s.strayed /\ v.res = r.res /\ v.len = r.len /\ v.ntuples = -1
      BY <1>2, <1>7, <2>2, <2>4 DEF Same
    <3>2. v.at = n
      BY <1>3, <1>7, <2>1, <2>2, <3>1
    <3>3. Position(v)
      BY <1>5, <2>2, <2>3, <3>1, <3>2 DEF Position
    <3>4. n \in 0 .. r.len - 1
      BY <1>4, <1>5, <2>3, <3>1, <3>2
    <3>5. reply'.is = "line" /\ reply'.asked = a /\ reply'.n = v.at /\ reply'.res = r.res
      BY <1>9, Answers DEF a, r
    <3>6. r.res # 0
      BY DEF r
    <3> QED
      BY <2>2, <3>1, <3>2, <3>3, <3>4, <3>5, <3>6 DEF GivenLine
  <2> QED
    BY <2>2, <2>3, <2>4 DEF Fetched, Position
<1>10. ASSUME d > LinesLeft(s), Finished(s).tuple <= MaxPos, v = Finished(s), GivesNo(o, q)
       PROVE  Fetched(r, n, a, v)
  <2>0. s.tuple + LinesLeft(s) <= MaxPos
    <3>1. Finished(s).tuple = s.tuple + LinesLeft(s)
      BY <1>3 DEF Finished, Result
    <3> QED
      BY <1>10, <3>1
  <2>1. /\ v \in Result /\ Same(s, v) /\ v.at = -1
        /\ v.tuple = s.tuple + (s.len - 1 - s.at) /\ v.ntuples = v.tuple
    BY <1>3, <1>6, <1>10, <2>0, FinishedFields
  <2>2. v.at < v.len
    BY <1>4, <2>1 DEF Same
  <2>3. ASSUME ~v.strayed PROVE Position(v) /\ RefusedLine(r, n, a, v) /\ v.res = r.res /\ v.len = r.len
    <3>1. ~s.strayed /\ v.res = r.res /\ v.len = r.len
      BY <1>2, <1>7, <2>1, <2>3 DEF Same
    <3>2. v.tuple = r.len - 1 /\ v.ntuples = r.len - 1
      BY <1>2, <1>3, <1>4, <1>7, <2>1, <3>1
    <3>3. n >= r.len
      BY <1>2, <1>3, <1>4, <1>5, <1>7, <1>8, <1>10, <3>1 DEF d
    <3>4. Position(v)
      BY <1>4, <2>1, <2>2, <3>1, <3>2 DEF Position
    <3>5. reply'.is = "refused" /\ reply'.asked = a
      BY <1>10, Answers DEF a
    <3> QED
      BY <1>5, <3>1, <3>2, <3>3, <3>4, <3>5 DEF RefusedLine
  <2> QED
    BY <2>1, <2>2, <2>3 DEF Fetched, Position
<1>11. ASSUME NEW k \in 0 .. d - 1, k <= LinesLeft(s), t.tuple + k <= MaxPos,
              v = StepFailed(s, k), reply' = Answer(o, "fetch", "failed")
       PROVE  Fetched(r, n, a, v)
  <2>1. k \in Nat /\ s.tuple + k <= MaxPos
    BY <1>3, <1>5, <1>11
  <2>2. /\ v \in Result /\ Same(s, v) /\ v.ntuples = s.ntuples
        /\ v.at = -1 /\ v.tuple = s.tuple + k
    BY <1>3, <1>11, <2>1, FailedFields
  <2>3. v.at < v.len
    BY <1>4, <2>2 DEF Same
  <2>4. ASSUME ~v.strayed PROVE Position(v) /\ BrokenResult(r, v) /\ v.res = r.res /\ v.len = r.len
    <3>1. ~s.strayed /\ v.res = r.res /\ v.len = r.len /\ v.ntuples = -1
      BY <1>2, <1>7, <2>2, <2>4 DEF Same
    <3>2. v.tuple \in r.tuple .. r.len - 1
      BY <1>2, <1>3, <1>4, <1>7, <1>8, <1>11, <2>1, <2>2, <3>1
    <3>3. Position(v)
      BY <1>4, <2>2, <2>3, <3>1, <3>2 DEF Position
    <3>4. reply'.is = "failed"
      BY <1>11, Answers
    <3>5. r.res # 0
      BY DEF r
    <3> QED
      BY <3>1, <3>2, <3>3, <3>4, <3>5 DEF BrokenResult
  <2> QED
    BY <2>2, <2>3, <2>4 DEF Fetched, Position
<1> QED
  BY <1>9, <1>10, <1>11 DEF r, t, n, a, d

(* A call of fetch, whatever it asks for. *)
LEMMA FetchFacts ==
    ASSUME ResultInv, NEW o \in Obj, NEW q \in -2 .. MaxLines, Fetch(o, q)
    PROVE  /\ reply'.to = o /\ reply'.of = "fetch"
           /\ obj' \in [Obj -> Result] /\ \A p \in Obj \ {o} : obj'[p] = obj[p]
           /\ Fetched(obj[o], Wanted(o, q), Asked(o, q), obj'[o])
<1> DEFINE r == obj[o]
           t == Started(r)
           n == Wanted(o, q)
           a == Asked(o, q)
           v == obj'[o]
           Alone(s) == obj' = [obj EXCEPT ![o] = s]
           Goal == /\ reply'.to = o /\ reply'.of = "fetch"
                   /\ obj' \in [Obj -> Result] /\ \A p \in Obj \ {o} : obj'[p] = obj[p]
                   /\ Fetched(r, n, a, v)
<1>1. obj \in [Obj -> Result] /\ r \in Result /\ Position(r)
  BY DEF ResultInv
<1>2. /\ t \in Result /\ Same(r, t) /\ t.at = r.at /\ t.ntuples = r.ntuples
      /\ t.tuple = IF r.tuple = -1 THEN 0 ELSE r.tuple
  BY <1>1, StartedFields
<1>3. /\ r.len \in 0 .. MaxPos /\ r.tuple \in -1 .. MaxPos
      /\ r.ntuples \in -1 .. MaxPos /\ r.at \in -1 .. MaxPos
      /\ r.strayed \in BOOLEAN /\ MaxPos \in Nat
  BY <1>1, ResultTypes
<1>4. \/ a = -1 /\ n = r.tuple + 1
      \/ a = -2 /\ n = -2
      \/ a \in 0 .. MaxPos /\ n = a
  BY AskedFacts
<1>5. ASSUME NEW s, Alone(s)
      PROVE  v = s /\ (s \in Result => obj' \in [Obj -> Result]) /\ \A p \in Obj \ {o} : obj'[p] = obj[p]
  BY <1>1, <1>5
<1> USE DEF NoResultFor
<1>6. CASE NoResultFor(o, q) /\ GivesNo(o, q) /\ UNCHANGED obj
  <2>1. reply'.to = o /\ reply'.of = "fetch" /\ reply'.is = "refused" /\ reply'.asked = a
    BY <1>6, Answers
  <2>2. v = r /\ obj' = obj
    BY <1>6
  <2>3. RefusedLine(r, n, a, v)
    BY <1>6, <2>1, <2>2 DEF RefusedLine
  <2> QED
    BY <1>1, <2>1, <2>2, <2>3 DEF Fetched
<1>7. CASE ~NoResultFor(o, q) /\ (KnownPast(t, n) \/ Backwards(t, n)) /\ Alone(t) /\ GivesNo(o, q)
  <2>1. reply'.to = o /\ reply'.of = "fetch" /\ reply'.is = "refused" /\ reply'.asked = a
    BY <1>7, Answers
  <2>2. v = t /\ obj' \in [Obj -> Result] /\ \A p \in Obj \ {o} : obj'[p] = obj[p]
    BY <1>2, <1>5, <1>7
  <2>3. t.at < t.len
    BY <1>1, <1>2 DEF Position, Same
  <2>4. ASSUME ~t.strayed PROVE Position(t) /\ RefusedLine(r, n, a, t) /\ t.res = r.res /\ t.len = r.len
    <3>1. ~r.strayed /\ t.res = r.res /\ t.len = r.len
      BY <1>2, <2>4 DEF Same
    <3>2. n >= 0
      BY <1>3, <1>4, <1>7
    <3>3. r.tuple # -1
      BY <1>1, <1>2, <1>3, <1>4, <1>7, <3>1, <3>2 DEF Position, KnownPast, Backwards
    <3>4. t.tuple = r.tuple /\ Position(t)
      BY <1>1, <1>2, <3>1, <3>3 DEF Position
    <3>5. n >= r.len \/ (a # -1 /\ n <= r.tuple)
      BY <1>1, <1>2, <1>3, <1>4, <1>7, <3>1, <3>2, <3>3, <3>4 DEF Position, KnownPast, Backwards
    <3> QED
      BY <2>1, <3>1, <3>2, <3>4, <3>5 DEF RefusedLine
  <2> QED
    BY <1>2, <2>1, <2>2, <2>3, <2>4 DEF Fetched, Position
<1>8. CASE /\ ~NoResultFor(o, q) /\ ~KnownPast(t, n) /\ ~Backwards(t, n) /\ n <= t.tuple
           /\ Alone([t EXCEPT !.strayed = @ \/ t.at = -1]) /\ Gives(o, q)
  <2> DEFINE s == [t EXCEPT !.strayed = @ \/ t.at = -1]
  <2>1. /\ s \in Result /\ s.res = t.res /\ s.len = t.len /\ s.at = t.at
        /\ s.tuple = t.tuple /\ s.ntuples = t.ntuples
        /\ s.strayed <=> (t.strayed \/ t.at = -1)
    BY <1>2, StrayedFields
  <2>2. v = s /\ obj' \in [Obj -> Result] /\ \A p \in Obj \ {o} : obj'[p] = obj[p]
    BY <1>5, <1>8, <2>1
  <2> HIDE DEF s
  <2>3. /\ reply'.to = o /\ reply'.of = "fetch" /\ reply'.is = "line" /\ reply'.asked = a
        /\ reply'.n = s.at /\ reply'.res = r.res
    BY <1>8, <2>2, Answers
  <2>4. s.at < s.len
    BY <1>1, <1>2, <2>1 DEF Position, Same
  <2>5. ASSUME ~s.strayed PROVE Position(s) /\ GivenLine(r, n, a, s) /\ s.res = r.res /\ s.len = r.len
    <3>1. ~r.strayed /\ r.at >= 0 /\ s.res = r.res /\ s.len = r.len
      BY <1>2, <1>3, <2>1, <2>5 DEF Same
    <3>2. n = t.tuple
      BY <1>2, <1>3, <1>4, <1>8 DEF Backwards
    <3>3. t.at = t.tuple
      BY <1>1, <1>2, <3>1 DEF Position
    <3>4. r.ntuples = -1
      BY <1>1, <1>2, <1>3, <1>8, <3>1, <3>2 DEF Position, KnownPast
    <3>5. Position(s)
      BY <1>2, <2>1, <2>4, <3>3, <3>4 DEF Position
    <3>6. n \in 0 .. r.len - 1
      BY <1>2, <1>3, <1>4, <2>1, <2>4, <3>1, <3>2, <3>3
    <3>7. r.res # 0
      BY <1>8
    <3> QED
      BY <2>1, <2>3, <3>1, <3>2, <3>3, <3>5, <3>6, <3>7 DEF GivenLine
  <2> QED
    BY <2>1, <2>2, <2>3, <2>4, <2>5 DEF Fetched, Position
<1>9. CASE ~NoResultFor(o, q) /\ ~KnownPast(t, n) /\ n > t.tuple /\ StepTo(o, q, t, n)
  <2> DEFINE d == n - t.tuple
  <2>1. PICK s \in AtStep(t) :
          \/ d <= LinesLeft(s) /\ n <= MaxPos /\ Alone(Moved(s, d)) /\ Gives(o, q)
          \/ /\ d > LinesLeft(s) /\ Finished(s).tuple <= MaxPos /\ Alone(Finished(s))
             /\ GivesNo(o, q)
          \/ /\ \E k \in 0 .. d - 1 : /\ k <= LinesLeft(s) /\ t.tuple + k <= MaxPos
                                      /\ Alone(StepFailed(s, k))
             /\ reply' = Answer(o, "fetch", "failed")
    BY <1>9 DEF StepTo
  <2>2. reply'.to = o /\ reply'.of = "fetch"
    BY <2>1, Answers
  <2>3. Fetched(r, n, a, v)
    <3>1. r.res # 0
      BY <1>9
    <3> HIDE DEF Alone, d, v
    <3>2. /\ d <= LinesLeft(s) /\ n <= MaxPos /\ v = Moved(s, d) /\ Gives(o, q)
                => Fetched(r, n, a, v)
          /\ d > LinesLeft(s) /\ Finished(s).tuple <= MaxPos /\ v = Finished(s) /\ GivesNo(o, q)
                => Fetched(r, n, a, v)
          /\ \A k \in 0 .. d - 1 :
                /\ k <= LinesLeft(s) /\ t.tuple + k <= MaxPos
                /\ v = StepFailed(s, k) /\ reply' = Answer(o, "fetch", "failed")
                => Fetched(r, n, a, v)
      BY <1>9, <3>1, Stepped DEF d, v
    <3>3. \A x : Alone(x) => v = x
      BY <1>5 DEF Alone
    <3> QED
      BY <2>1, <3>2, <3>3
  <2>4. PICK x : Alone(x)
    BY <2>1
  <2> QED
    BY <1>5, <2>2, <2>3, <2>4 DEF Fetched
<1> QED
  BY <1>6, <1>7, <1>8, <1>9 DEF Fetch

-----------------------------------------------------------------------------------
(* The steps: what each leaves of the table and of the results. *)

LEMMA Replies ==
    ASSUME NEW o, NEW m, NEW id, NEW is
    PROVE  /\ About(o, m, id, is) => reply'.of = m /\ reply'.is = is /\ reply'.id = id
           /\ reply' = Answer(o, m, is) => reply'.to = o /\ reply'.of = m /\ reply'.is = is
           /\ Done(o, m) => reply'.of = m /\ reply'.is = "ok"
           /\ NoReply.of = "none" /\ NoReply.is = "none"
BY DEF About, Answer, Done, NoReply

(* A method that is not an exec or a fetch only takes results away. *)
OnlyClears == obj' = obj \/ \E o \in Obj : Cleared(o)

LEMMA ClearsSound ==
    ASSUME ResultInv, OnlyClears
    PROVE  ResultInv' /\ \A p \in Obj : obj'[p] \in {NoResult, obj[p]}
<1>1. CASE obj' = obj
  BY <1>1 DEF ResultInv
<1>2. ASSUME NEW o \in Obj, Cleared(o)
      PROVE  ResultInv' /\ \A p \in Obj : obj'[p] \in {NoResult, obj[p]}
  BY <1>2, ClearedSound, NoResultSound DEF Cleared, ResultInv
<1> QED
  BY <1>1, <1>2 DEF OnlyClears

(* The insert of a statement. *)
LEMMA InsertedRow ==
    ASSUME DataInv, NEW id \in Ids, NEW v \in Values, Fits(id), ~Clashes(work, id),
           Changed(WithRow(work, id, v)), UNCHANGED <<unique, txn>>
    PROVE  DataInv' /\ work'[id] # <<>>
<1>1. Sound(unique, WithRow(work, id, v)) /\ WithRow(work, id, v)[id] # <<>>
  BY RowAdded DEF DataInv, Fits
<1> QED
  BY <1>1, ChangeSound DEF Changed

LEMMA UnchangedSound ==
    ASSUME DataInv, Unchanged, UNCHANGED <<unique, txn>>
    PROVE  DataInv'
BY DEF DataInv, Unchanged, Sound

LEMMA ValuesFacts == "text" \in Values /\ "null" \in Values /\ \A nv : Stored(nv) \in Values
BY DEF Values, Stored

LEMMA ExecStep ==
    ASSUME RecordsInv, NEW o \in Obj, Exec(o)
    PROVE  /\ RecordsInv'
           /\ reply'.to = o /\ reply'.of = "exec"
           /\ \/ reply'.is = "failed" /\ OnlyClears
              \/ /\ reply'.is = "ok"
                 /\ \/ obj'[o] = NoResult
                    \/ /\ obj'[o].res # 0 /\ obj'[o].res # obj[o].res
                       /\ obj'[o].len \in 0 .. MaxPos /\ obj'[o].tuple = -1
                 /\ \A p \in Obj \ {o} : obj'[p] \in {NoResult, obj[p]}
<1> DEFINE Results ==
             /\ ResultInv'
             /\ \/ obj'[o] = NoResult
                \/ /\ obj'[o].res # 0 /\ obj'[o].res # obj[o].res
                   /\ obj'[o].len \in 0 .. MaxPos /\ obj'[o].tuple = -1
             /\ \A p \in Obj \ {o} : obj'[p] \in {NoResult, obj[p]}
<1>1. DataInv /\ SetInv /\ ResultInv /\ obj[o] \in Result
  BY DEF RecordsInv, ResultInv
<1>2. UNCHANGED <<unique, txn, setting>> /\ SetInv'
  BY <1>1 DEF Exec, SetInv
<1>3. ASSUME Cleared(o) PROVE Results /\ OnlyClears
  <2>1. obj'[o] = NoResult /\ \A p \in Obj : obj'[p] \in {NoResult, obj[p]}
    BY <1>1, <1>3, ClearedSound, NoResultSound DEF Cleared
  <2>2. OnlyClears /\ ResultInv'
    BY <1>1, <1>3, ClearsSound DEF OnlyClears
  <2> QED
    BY <2>1, <2>2
<1>4. ASSUME NEW n \in Sizes, NEW id \in Ids \cup {NoWrite},
             obj' = [ClearResult(o) EXCEPT ![o] = NewResult(obj[o], n, id)]
      PROVE  Results
  <2> DEFINE r == NewResult(obj[o], n, id)
  <2>1. r \in Result /\ Position(r) /\ r.res # 0 /\ r.res # obj[o].res /\ r.len = n /\ r.tuple = -1
    BY <1>1, NewResultSound
  <2>2. n \in 0 .. MaxPos
    BY SizesFacts
  <2> HIDE DEF r
  <2>3. /\ obj' \in [Obj -> Result] /\ \A p \in Obj : Position(obj'[p])
        /\ obj'[o] = r /\ \A p \in Obj \ {o} : obj'[p] \in {NoResult, obj[p]}
    BY <1>1, <1>4, <2>1, ClearedSound DEF r
  <2> QED
    BY <2>1, <2>2, <2>3 DEF ResultInv
<1>5. CASE ExecFails(o)
  <2>1. OnlyClears /\ DataInv'
    BY <1>1, <1>2, <1>5, UnchangedSound DEF ExecFails, OnlyClears
  <2> QED
    BY <1>1, <1>2, <1>5, <2>1, ClearsSound, Replies DEF ExecFails, RecordsInv
<1>6. ASSUME NEW fetch \in BOOLEAN, ExecSelect(o, fetch)
      PROVE  Results /\ DataInv' /\ reply'.to = o /\ reply'.of = "exec" /\ reply'.is = "ok"
  <2>1. DataInv' /\ reply'.to = o /\ reply'.of = "exec" /\ reply'.is = "ok"
    BY <1>1, <1>2, <1>6, UnchangedSound, Replies DEF ExecSelect
  <2>2. Results
    <3>1. CASE fetch
      BY <1>4, <1>6, <3>1 DEF ExecSelect
    <3>2. CASE ~fetch
      BY <1>3, <1>6, <3>2 DEF ExecSelect, Cleared
    <3> QED
      BY <3>1, <3>2
  <2> QED
    BY <2>1, <2>2
<1>7. ASSUME NEW fetch \in BOOLEAN, NEW id \in Ids, ExecInsert(o, id, fetch)
      PROVE  Results /\ DataInv' /\ reply'.to = o /\ reply'.of = "exec" /\ reply'.is = "ok"
  <2>1. DataInv' /\ reply'.to = o /\ reply'.of = "exec" /\ reply'.is = "ok"
    BY <1>1, <1>2, <1>7, InsertedRow, ValuesFacts, Replies DEF ExecInsert
  <2>2. Results
    <3>1. CASE fetch
      BY <1>4, <1>7, <3>1, RecordsAssumption DEF ExecInsert
    <3>2. CASE ~fetch
      BY <1>3, <1>7, <3>2 DEF ExecInsert, Cleared
    <3> QED
      BY <3>1, <3>2
  <2> QED
    BY <2>1, <2>2
<1> QED
  BY <1>2, <1>5, <1>6, <1>7 DEF Exec, RecordsInv

(* A step of a fetch may execute the insert of the object's exec again.     *)
LEMMA FetchStep ==
    ASSUME RecordsInv, NEW o \in Obj, NEW q \in -2 .. MaxLines, Fetch(o, q)
    PROVE  RecordsInv'
<1>1. DataInv /\ SetInv /\ ResultInv
  BY DEF RecordsInv
<1>2. UNCHANGED <<unique, txn, setting>> /\ SetInv'
  BY <1>1 DEF Fetch, SetInv
<1>3. ResultInv'
  <2>1. /\ obj' \in [Obj -> Result] /\ \A p \in Obj \ {o} : obj'[p] = obj[p]
        /\ Position(obj'[o])
    BY <1>1, FetchFacts DEF Fetched
  <2> QED
    BY <1>1, <2>1 DEF ResultInv
<1>4. DataInv'
  <2> DEFINE r == Started(obj[o])
  <2>1. r \in Result
    BY <1>1, StartedFields DEF ResultInv
  <2>2. CASE Unchanged
    BY <1>1, <1>2, <2>2, UnchangedSound
  <2>3. CASE ExecutedAgain(r)
    <3> HIDE DEF r
    <3>1. CASE r.at = -1 /\ r.writes # NoWrite
      <4>1. r.writes \in Ids
        BY <2>1, <3>1 DEF Result
      <4> QED
        BY <1>1, <1>2, <2>3, <3>1, <4>1, InsertedRow, ValuesFacts DEF ExecutedAgain
    <3>2. CASE ~(r.at = -1 /\ r.writes # NoWrite)
      BY <2>2, <2>3, <3>2 DEF ExecutedAgain
    <3> QED
      BY <3>1, <3>2
  <2>4. Unchanged \/ ExecutedAgain(r)
    <3>1. UNCHANGED <<obj, work, kept>> => Unchanged
      BY DEF Unchanged
    <3> QED
      BY <3>1 DEF Fetch, StepTo
  <2> QED
    BY <2>2, <2>3, <2>4
<1> QED
  BY <1>2, <1>3, <1>4 DEF RecordsInv

(* What the other methods leave: the results, at most taken away, and an    *)
(* answer that is not that of a fetch or of an exec that succeeds.          *)
Quiet == OnlyClears /\ reply'.of \notin {"exec", "fetch", "lines"}

(* Whether a method on records has done what it reports.                    *)
Truthful ==
    LET id == reply'.id
    IN  reply'.of \in {"insert", "set", "unset", "delete"} =>
           /\ reply'.is = "ok" => Does(reply'.of, id)
           /\ reply'.is = "failed" /\ unique => work' = work /\ kept' = kept

(* Whether an import has ended as it reports.                               *)
Whole ==
    reply'.of = "import" =>
        /\ reply'.is = "refused" => work' = work /\ kept' = kept /\ txn' = txn
        /\ reply'.is = "failed"  => kept' = kept /\ work' = kept /\ txn' = "none"
        /\ reply'.is = "ok"      => kept' \in {kept, work'}

LEMMA RowCount ==
    ASSUME DataInv, NEW id \in Ids
    PROVE  /\ work[id] \in Seq(Values) /\ Len(work[id]) \in Nat
           /\ unique => Len(work[id]) <= 1
           /\ Len(work[id]) = 0 <=> work[id] = <<>>
<1>1. work[id] \in Seq(Values) /\ (unique => Len(work[id]) <= 1)
  BY CellFacts DEF DataInv, Sound, Tables
<1> QED
  BY <1>1

LEMMA NoRows == \A s : Len(s) = 1 => s # <<>>
<1>1. Len(<<>>) = 0 /\ 0 # 1
  OBVIOUS
<1> QED
  BY <1>1, Zenon

LEMMA InsertStep ==
    ASSUME RecordsInv, NEW o \in Obj, NEW id \in Ids, NEW v \in Values,
           NEW method \in {"insert", "set"}, InsertRow(o, method, id, v), UNCHANGED <<unique, txn>>
    PROVE  DataInv' /\ ResultInv' /\ Quiet /\ Truthful /\ Whole
<1>1. DataInv /\ ResultInv
  BY DEF RecordsInv
<1>2. OnlyClears /\ ResultInv'
  BY <1>1, ClearsSound DEF InsertRow, OnlyClears
<1>3. CASE Unchanged /\ About(o, method, id, "failed")
  <2>1. reply'.of = method /\ reply'.is = "failed"
    BY <1>3, Replies
  <2>2. DataInv'
    BY <1>1, <1>3, UnchangedSound
  <2> QED
    BY <1>2, <1>3, <2>1, <2>2 DEF Quiet, Truthful, Whole, Unchanged
<1>4. CASE /\ Fits(id) /\ ~Clashes(work, id)
           /\ Changed(WithRow(work, id, v)) /\ About(o, method, id, "ok")
  <2>1. reply'.of = method /\ reply'.is = "ok" /\ reply'.id = id
    BY <1>4, Replies
  <2>2. DataInv' /\ work'[id] # <<>>
    BY <1>1, <1>4, InsertedRow
  <2>3. Does(method, id)
    BY <2>2 DEF Does
  <2> QED
    BY <1>2, <2>1, <2>2, <2>3 DEF Quiet, Truthful, Whole
<1> QED
  BY <1>3, <1>4 DEF InsertRow

LEMMA SetUpdateStep ==
    ASSUME RecordsInv, NEW o \in Obj, NEW id \in Ids, NEW nv \in BOOLEAN, SetUpdate(o, id, nv)
    PROVE  RecordsInv' /\ Quiet /\ Truthful /\ Whole
<1> DEFINE t == AllRows(work, id, Stored(nv))
<1>1. DataInv /\ SetInv /\ ResultInv /\ UNCHANGED <<unique, txn>>
  BY DEF RecordsInv, SetUpdate
<1>2. OnlyClears /\ ResultInv'
  BY <1>1, ClearsSound DEF SetUpdate, OnlyClears
<1>3. Sound(unique, t) /\ Len(t[id]) = Len(work[id])
  BY <1>1, RowsChanged, ValuesFacts DEF DataInv
<1> HIDE DEF t
<1>4. CASE Unchanged /\ About(o, "set", id, "failed") /\ UNCHANGED setting
  <2>1. reply'.of = "set" /\ reply'.is = "failed"
    BY <1>4, Replies
  <2>2. DataInv' /\ SetInv'
    BY <1>1, <1>4, UnchangedSound DEF SetInv
  <2> QED
    BY <1>2, <1>4, <2>1, <2>2 DEF Quiet, Truthful, Whole, Unchanged, RecordsInv
<1>5. CASE /\ Changed(t) /\ Missed(Len(work[id]))
           /\ setting' = [on |-> TRUE, o |-> o, id |-> id] /\ About(o, "setting", id, "ok")
  <2>1. reply'.of = "setting"
    BY <1>5, Replies
  <2>2. DataInv' /\ SetInv'
    BY <1>1, <1>3, <1>5, ChangeSound DEF SetInv
  <2> QED
    BY <1>2, <2>1, <2>2 DEF Quiet, Truthful, Whole, RecordsInv
<1>6. CASE /\ Changed(t) /\ ~Missed(Len(work[id]))
           /\ About(o, "set", id, "ok") /\ UNCHANGED setting
  <2>1. reply'.of = "set" /\ reply'.is = "ok" /\ reply'.id = id
    BY <1>6, Replies
  <2>2. DataInv' /\ SetInv'
    BY <1>1, <1>3, <1>6, ChangeSound DEF SetInv
  <2>3. Len(work'[id]) = 1
    BY <1>3, <1>6 DEF Changed, Missed
  <2>4. work'[id] # <<>>
    BY <2>3, NoRows
  <2> QED
    BY <1>2, <2>1, <2>2, <2>4 DEF Quiet, Truthful, Whole, Does, RecordsInv
<1> QED
  BY <1>4, <1>5, <1>6 DEF SetUpdate, t

(* Where ids are unique, a statement that has missed has changed nothing.   *)
LEMMA NoneMissed == \A n \in Nat : n <= 1 /\ Missed(n) => n = 0
BY DEF Missed

LEMMA MissedNothing ==
    ASSUME DataInv, NEW id \in Ids, Missed(Len(work[id])), unique,
           NEW t, Changed(t), Len(work[id]) = 0 => t = work
    PROVE  work' = work /\ kept' = kept
<1>1. Len(work[id]) \in Nat /\ Len(work[id]) <= 1
  BY RowCount
<1>2. Len(work[id]) = 0
  BY <1>1, NoneMissed, Zenon
<1> QED
  BY <1>2 DEF Changed, DataInv

LEMMA UnsetStep ==
    ASSUME RecordsInv, NEW o \in Obj, NEW id \in Ids, Unset(o, id)
    PROVE  RecordsInv' /\ Quiet /\ Truthful /\ Whole
<1> DEFINE t == AllRows(work, id, "null")
<1>1. DataInv /\ SetInv /\ ResultInv /\ UNCHANGED <<unique, txn>> /\ SetInv'
  BY DEF RecordsInv, Unset, SetInv
<1>2. OnlyClears /\ ResultInv'
  BY <1>1, ClearsSound DEF Unset, OnlyClears
<1>3. /\ Sound(unique, t)
      /\ \A i \in DOMAIN t[id] : t[id][i] = "null"
      /\ Len(work[id]) = 0 => t = work
      /\ Len(t[id]) = Len(work[id])
  BY <1>1, RowsChanged, ValuesFacts DEF DataInv
<1> HIDE DEF t
<1>4. CASE Unchanged /\ About(o, "unset", id, "failed")
  <2>1. reply'.of = "unset" /\ reply'.is = "failed"
    BY <1>4, Replies
  <2>2. DataInv'
    BY <1>1, <1>4, UnchangedSound
  <2> QED
    BY <1>1, <1>2, <1>4, <2>1, <2>2 DEF Quiet, Truthful, Whole, Unchanged, RecordsInv
<1>5. CASE Changed(t) /\ Missed(Len(work[id])) /\ About(o, "unset", id, "failed")
  <2>1. reply'.of = "unset" /\ reply'.is = "failed"
    BY <1>5, Replies
  <2>2. DataInv'
    BY <1>1, <1>3, <1>5, ChangeSound
  <2>3. unique => work' = work /\ kept' = kept
    BY <1>1, <1>3, <1>5, MissedNothing
  <2> QED
    BY <1>1, <1>2, <2>1, <2>2, <2>3 DEF Quiet, Truthful, Whole, RecordsInv
<1>6. CASE Changed(t) /\ ~Missed(Len(work[id])) /\ About(o, "unset", id, "ok")
  <2>1. reply'.of = "unset" /\ reply'.is = "ok" /\ reply'.id = id
    BY <1>6, Replies
  <2>2. DataInv'
    BY <1>1, <1>3, <1>6, ChangeSound
  <2>3. Len(work'[id]) = 1 /\ \A i \in DOMAIN work'[id] : work'[id][i] = "null"
    BY <1>3, <1>6 DEF Changed, Missed
  <2>4. work'[id] # <<>>
    BY <2>3, NoRows
  <2> QED
    BY <1>1, <1>2, <2>1, <2>2, <2>3, <2>4 DEF Quiet, Truthful, Whole, Does, RecordsInv
<1> QED
  BY <1>4, <1>5, <1>6 DEF Unset, t

LEMMA DeleteStep ==
    ASSUME RecordsInv, NEW o \in Obj, NEW id \in Ids, Delete(o, id)
    PROVE  RecordsInv' /\ Quiet /\ Truthful /\ Whole
<1> DEFINE t == [work EXCEPT ![id] = <<>>]
<1>1. DataInv /\ SetInv /\ ResultInv /\ UNCHANGED <<unique, txn>> /\ SetInv'
  BY DEF RecordsInv, Delete, SetInv
<1>2. OnlyClears /\ ResultInv'
  BY <1>1, ClearsSound DEF Delete, OnlyClears
<1>3. Sound(unique, t) /\ t[id] = <<>> /\ (Len(work[id]) = 0 => t = work)
  BY <1>1, RowsDeleted DEF DataInv
<1> HIDE DEF t
<1>4. CASE Unchanged /\ About(o, "delete", id, "failed")
  <2>1. reply'.of = "delete" /\ reply'.is = "failed"
    BY <1>4, Replies
  <2>2. DataInv'
    BY <1>1, <1>4, UnchangedSound
  <2> QED
    BY <1>1, <1>2, <1>4, <2>1, <2>2 DEF Quiet, Truthful, Whole, Unchanged, RecordsInv
<1>5. CASE /\ Changed(t)
           /\ About(o, "delete", id, IF Missed(Len(work[id])) THEN "failed" ELSE "ok")
  <2>1. /\ reply'.of = "delete" /\ reply'.id = id
        /\ reply'.is = IF Missed(Len(work[id])) THEN "failed" ELSE "ok"
    BY <1>5, Replies
  <2>2. DataInv'
    BY <1>1, <1>3, <1>5, ChangeSound
  <2>3. Missed(Len(work[id])) /\ unique => work' = work /\ kept' = kept
    BY <1>1, <1>3, <1>5, MissedNothing
  <2>4. work'[id] = <<>>
    BY <1>3, <1>5 DEF Changed
  <2>5. Does("delete", id)
    BY <2>4 DEF Does
  <2> QED
    BY <1>1, <1>2, <2>1, <2>2, <2>3, <2>5 DEF Quiet, Truthful, Whole, RecordsInv
<1> QED
  BY <1>4, <1>5 DEF Delete, t

LEMMA ImportStep ==
    ASSUME RecordsInv, NEW o \in Obj, NEW file \in Files, NEW algorithm,
           NEW refused \in BOOLEAN, Import(o, file, algorithm, refused)
    PROVE  RecordsInv' /\ Quiet /\ Truthful /\ Whole
<1> DEFINE s == AllLines(file, algorithm)
<1>1. DataInv /\ SetInv /\ ResultInv /\ UNCHANGED <<unique, setting, obj>>
  BY DEF RecordsInv, Import
<1>2. SetInv' /\ OnlyClears /\ ResultInv'
  BY <1>1, ClearsSound DEF OnlyClears, SetInv
<1>3. /\ s.tab \in Tab /\ s.failed \in BOOLEAN
      /\ unique => \A id \in Ids : Len(s.tab[id]) <= 1
  <2>1. file \in Seq(Ids \cup {"wide"})
    BY RecordsAssumption
  <2>2. HasRows(file, Len(file), s)
    BY <1>1, <2>1, FileImported DEF DataInv
  <2> HIDE DEF s
  <2> QED
    BY <2>2 DEF HasRows, Imported
<1>4. /\ Bounded(s.tab) /\ EndsImport(s, refused)
      /\ reply' = Answer(o, "import", IF s.failed THEN "failed" ELSE "ok")
  BY DEF Import
<1> HIDE DEF s
<1>5. Sound(unique, s.tab)
  BY <1>3, <1>4, CellFacts DEF Sound, Tables, Tab, Bounded
<1>6. /\ reply'.of = "import"
      /\ reply'.is = IF s.failed THEN "failed" ELSE "ok"
  BY <1>4, Replies
<1>7. DataInv'
  BY <1>1, <1>4, <1>5 DEF DataInv, Sound, EndsImport
<1>8. Whole
  BY <1>4, <1>6 DEF Whole, EndsImport
<1> QED
  BY <1>2, <1>6, <1>7, <1>8 DEF RecordsInv, Quiet, Truthful

(* begin, commit and rollback.                                              *)
LEMMA TransactionStep ==
    ASSUME RecordsInv, NEW o \in Obj, NEW refused \in BOOLEAN,
           Begin(o, refused) \/ Commit(o, refused) \/ Rollback(o)
    PROVE  RecordsInv' /\ Quiet /\ Truthful /\ Whole
<1>1. /\ DataInv /\ SetInv /\ ResultInv
      /\ UNCHANGED <<unique, setting>> /\ Cleared(o)
  BY DEF RecordsInv, Begin, Commit, Rollback
<1>2. SetInv' /\ OnlyClears /\ ResultInv'
  BY <1>1, ClearsSound DEF OnlyClears, SetInv
<1>3. DataInv'
  BY <1>1 DEF DataInv, Sound, Begin, Commit, Rollback
<1>4. reply'.of \in {"begin", "commit", "rollback"}
  BY Replies DEF Begin, Commit, Rollback
<1> QED
  BY <1>2, <1>3, <1>4 DEF RecordsInv, Quiet, Truthful, Whole

(* Calls that leave the table as it is.                                     *)
LEMMA IdleStep ==
    ASSUME RecordsInv, NEW o \in Obj, NEW id,
           BadCall(o) \/ Get(o, id) \/ ImportRefused(o) \/ Backup(o)
    PROVE  RecordsInv' /\ Quiet /\ Truthful /\ Whole
<1>1. /\ DataInv /\ SetInv /\ ResultInv
      /\ UNCHANGED <<unique, setting, work, kept, txn>> /\ OnlyClears
  BY DEF RecordsInv, BadCall, Get, ImportRefused, Backup, OnlyClears
<1>2. SetInv' /\ ResultInv' /\ DataInv'
  BY <1>1, ClearsSound DEF SetInv, DataInv, Sound
<1>3. reply'.of \in {"badcall", "get", "import", "backup"}
  BY Replies DEF BadCall, Get, ImportRefused, Backup
<1>4. reply'.of = "import" => reply'.is = "refused"
  BY Replies DEF BadCall, Get, ImportRefused, Backup
<1> QED
  BY <1>1, <1>2, <1>3, <1>4 DEF RecordsInv, Quiet, Truthful, Whole

LEMMA RestoreStep ==
    ASSUME RecordsInv, NEW o \in Obj, NEW source \in Sources, NEW busy, Restore(o, source, busy)
    PROVE  RecordsInv' /\ Quiet /\ Truthful /\ Whole
<1>1. /\ DataInv /\ SetInv /\ ResultInv
      /\ UNCHANGED <<unique, setting, txn, obj>> /\ OnlyClears
  BY DEF RecordsInv, Restore, OnlyClears
<1>2. SetInv' /\ ResultInv'
  BY <1>1, ClearsSound DEF SetInv
<1>3. DataInv'
  BY <1>1, SourcesSound, ChangeSound, UnchangedSound DEF Restore
<1>4. reply'.of = "restore"
  BY Replies DEF Restore
<1> QED
  BY <1>1, <1>2, <1>3, <1>4 DEF RecordsInv, Quiet, Truthful, Whole

LEMMA ElsewhereStep ==
    ASSUME RecordsInv, NEW id \in Ids, Elsewhere(id)
    PROVE  RecordsInv' /\ Quiet /\ Truthful /\ Whole
<1>1. /\ DataInv /\ SetInv /\ ResultInv
      /\ UNCHANGED <<unique, setting, txn, obj>> /\ OnlyClears
  BY DEF RecordsInv, Elsewhere, OnlyClears
<1>2. SetInv' /\ ResultInv'
  BY <1>1, ClearsSound DEF SetInv
<1>3. DataInv'
  <2>1. CASE Fits(id) /\ ~Clashes(work, id) /\ Changed(WithRow(work, id, "text"))
    BY <1>1, <2>1, InsertedRow, ValuesFacts
  <2>2. CASE Changed([work EXCEPT ![id] = <<>>])
    BY <1>1, <2>2, RowsDeleted, ChangeSound DEF DataInv
  <2> QED
    BY <2>1, <2>2 DEF Elsewhere
<1>4. reply'.of = "none"
  BY Replies DEF Elsewhere
<1> QED
  BY <1>1, <1>2, <1>3, <1>4 DEF RecordsInv, Quiet, Truthful, Whole

(* insert, and the insert of a set.                                         *)
LEMMA RowStep ==
    ASSUME RecordsInv,
           SetInsert \/ \E o \in Obj, id \in Ids, nv \in BOOLEAN : Insert(o, id, nv)
    PROVE  RecordsInv' /\ Quiet /\ Truthful /\ Whole
<1>1. CASE SetInsert
  <2>1. setting.o \in Obj /\ setting.id \in Ids
    <3>1. ~NoSet.on
      BY DEF NoSet
    <3>2. setting \in [on : {TRUE}, o : Obj, id : Ids]
      BY <1>1, <3>1, Zenon DEF SetInsert, RecordsInv, SetInv
    <3> QED
      BY <3>2
  <2>2. SetInv'
    BY <1>1 DEF SetInsert, SetInv
  <2> QED
    BY <1>1, <2>1, <2>2, InsertStep, ValuesFacts DEF SetInsert, RecordsInv
<1>2. ASSUME NEW o \in Obj, NEW id \in Ids, NEW nv \in BOOLEAN, Insert(o, id, nv)
      PROVE  RecordsInv' /\ Quiet /\ Truthful /\ Whole
  <2>1. SetInv'
    BY <1>2 DEF Insert, RecordsInv, SetInv
  <2> QED
    BY <1>2, <2>1, InsertStep, ValuesFacts DEF Insert, RecordsInv
<1> QED
  BY <1>1, <1>2

-----------------------------------------------------------------------------------
(* The inductive invariant. *)

LEMMA RecordsStart == Init => RecordsInv
<1> SUFFICES ASSUME Init PROVE RecordsInv
  OBVIOUS
<1>1. Sound(unique, Empty)
  BY SourcesSound DEF Sources
<1>2. ResultInv
  BY NoResultSound DEF Init, ResultInv
<1> QED
  BY <1>1, <1>2 DEF Init, RecordsInv, DataInv, SetInv

Asking == \E o \in Obj : \/ Exec(o)
                         \/ \E q \in -2 .. MaxLines : Fetch(o, q)

LEMMA StepFacts ==
    ASSUME RecordsInv, Next
    PROVE  RecordsInv' /\ (Quiet \/ Asking) /\ Truthful /\ Whole
<1> DEFINE Goal == RecordsInv' /\ (Quiet \/ Asking) /\ Truthful /\ Whole
<1>1. ASSUME NEW o \in Obj, Exec(o) PROVE Goal
  BY <1>1, ExecStep DEF Asking, Truthful, Whole
<1>2. ASSUME NEW o \in Obj, NEW q \in -2 .. MaxLines, Fetch(o, q) PROVE Goal
  <2>1. reply'.of = "fetch"
    BY <1>2, FetchFacts DEF RecordsInv
  <2> QED
    BY <1>2, <2>1, FetchStep DEF Asking, Truthful, Whole
<1>3. ASSUME NEW o \in Obj, NEW id \in Ids,
             \/ Unset(o, id) \/ Delete(o, id)
             \/ \E nv \in BOOLEAN : SetUpdate(o, id, nv)
      PROVE  Goal
  BY <1>3, UnsetStep, DeleteStep, SetUpdateStep
<1>4. ASSUME SetInsert \/ \E o \in Obj, id \in Ids, nv \in BOOLEAN : Insert(o, id, nv)
      PROVE  Goal
  BY <1>4, RowStep
<1>5. ASSUME NEW o \in Obj, NEW refused \in BOOLEAN,
             \/ Begin(o, refused) \/ Commit(o, refused)
             \/ \E file \in Files, a \in Algorithms : Import(o, file, a, refused)
      PROVE  Goal
  BY <1>5, TransactionStep, ImportStep
<1>6. ASSUME NEW o \in Obj, Rollback(o) PROVE Goal
  BY <1>6, TransactionStep
<1>7. ASSUME NEW o \in Obj, BadCall(o) \/ ImportRefused(o) \/ Backup(o) \/ \E id \in Ids : Get(o, id)
      PROVE  Goal
  BY <1>7, IdleStep
<1>8. ASSUME NEW o \in Obj, NEW source \in Sources, NEW busy, Restore(o, source, busy) PROVE Goal
  BY <1>8, RestoreStep
<1>9. ASSUME NEW id \in Ids, Elsewhere(id) PROVE Goal
  BY <1>9, ElsewhereStep
<1> HIDE DEF Goal
<1>10. Goal
  BY <1>1, <1>2, <1>3, <1>4, <1>5, <1>6, <1>7, <1>8, <1>9, Zenon DEF Next
<1> QED
  BY <1>10 DEF Goal

LEMMA RecordsStep == RecordsInv /\ [Next]_vars => RecordsInv'
<1> SUFFICES ASSUME RecordsInv, [Next]_vars PROVE RecordsInv'
  OBVIOUS
<1>1. CASE Next
  BY <1>1, StepFacts
<1>2. CASE UNCHANGED vars
  BY <1>2 DEF vars, RecordsInv, DataInv, SetInv, ResultInv, Sound
<1> QED
  BY <1>1, <1>2

LEMMA TypesHold == RecordsInv => TypeOK
<1> SUFFICES ASSUME RecordsInv PROVE TypeOK
  OBVIOUS
<1>1. DataInv /\ ResultInv
  BY DEF RecordsInv
<1>2. ASSUME NEW o \in Obj
      PROVE  /\ obj[o].at \in -1 .. obj[o].len - 1
             /\ obj[o].tuple \in -1 .. MaxPos
             /\ obj[o].len = 0 /\ ~obj[o].strayed => obj[o].tuple = -1
             /\ obj[o].at >= 0 /\ ~obj[o].strayed =>
                   obj[o].tuple = obj[o].at \/ (obj[o].at = 0 /\ obj[o].tuple = -1)
  <2> DEFINE r == obj[o]
  <2>1. r \in Result /\ Position(r)
    BY <1>1 DEF ResultInv
  <2>2. /\ r.len \in 0 .. MaxPos /\ r.tuple \in -1 .. MaxPos
        /\ r.at \in -1 .. MaxPos /\ MaxPos \in Nat
    BY <2>1, ResultTypes
  <2> HIDE DEF r
  <2>3. /\ r.at \in -1 .. r.len - 1
        /\ r.len = 0 /\ ~r.strayed => r.tuple = -1
        /\ r.at >= 0 /\ ~r.strayed => r.tuple = r.at \/ (r.at = 0 /\ r.tuple = -1)
    BY <2>1, <2>2 DEF Position
  <2> QED
    BY <2>2, <2>3 DEF r
<1> QED
  BY <1>1, <1>2 DEF TypeOK, DataInv, Sound

(* The table, what is committed, the transaction and every fetch have their *)
(* forms, and the position of fetch is that of its statement unless it has  *)
(* strayed, is past the end or has failed (dbi_Sqlite3_Fetch).              *)
THEOREM RecordsTypes == Spec => []TypeOK
<1>1. Spec => []RecordsInv
  BY RecordsStart, RecordsStep, PTL DEF Spec
<1> QED
  BY <1>1, TypesHold, PTL

(* A set, insert, unset or delete that reports success has done it to the   *)
(* row with this id, and one that reports failure has done nothing, when    *)
(* ids are unique; whatever another process does between the update and the *)
(* insert of a set (dbi_Sqlite3_Set, Insert, Unset and Delete).             *)
THEOREM RecordsKept == Spec => RecordKept
<1> DEFINE Kept == LET id == reply'.id
                   IN  reply'.of \in {"insert", "set", "unset", "delete"} =>
                          /\ reply'.is = "ok" => Does(reply'.of, id)
                          /\ reply'.is = "failed" /\ unique => work' = work /\ kept' = kept
<1>1. RecordsInv /\ [Next]_vars => [Kept]_vars
  BY StepFacts DEF Truthful
<1>2. Spec => []RecordsInv
  BY RecordsStart, RecordsStep, PTL DEF Spec
<1> HIDE DEF Kept
<1>3. Spec => [][Kept]_vars
  BY <1>1, <1>2, PTL DEF Spec
<1> QED
  BY <1>3 DEF RecordKept, Kept

(* Nothing of a file is committed unless all of it is, and an import that   *)
(* fails takes back what it has done and never commits the transaction of   *)
(* the user (dbi_Sqlite3_Import).                                           *)
THEOREM RecordsImport == Spec => ImportWhole
<1>1. RecordsInv /\ [Next]_vars => [Whole]_vars
  BY StepFacts
<1>2. Spec => []RecordsInv
  BY RecordsStart, RecordsStep, PTL DEF Spec
<1>3. Spec => [][Whole]_vars
  BY <1>1, <1>2, PTL DEF Spec
<1> QED
  BY <1>3 DEF ImportWhole, Whole

-----------------------------------------------------------------------------------
(* fetch does what the manual promises of it, unless it has strayed. *)

LEMMA FetchImplements ==
    ASSUME RecordsInv, NEW o \in Obj, NEW q \in -2 .. MaxLines, Fetch(o, q), ~obj'[o].strayed
    PROVE  DbiFetch!Fetch(o)
<1> DEFINE r == obj[o]
           s == obj'[o]
           n == Wanted(o, q)
           a == Asked(o, q)
           Others == \A p \in Obj \ {o} : obj'[p] = obj[p]
<1>1. /\ reply'.to = o /\ reply'.of = "fetch" /\ Others
      /\ Fetched(r, n, a, s)
  BY FetchFacts DEF RecordsInv
<1>2. /\ s.res = r.res /\ s.len = r.len
      /\ GivenLine(r, n, a, s) \/ RefusedLine(r, n, a, s) \/ BrokenResult(r, s)
  BY <1>1 DEF Fetched
<1>3. /\ r.len \in 0 .. MaxPos /\ r.tuple \in -1 .. MaxPos /\ s.tuple \in -1 .. MaxPos
      /\ MaxPos \in Nat
  BY <1>1, ResultTypes DEF RecordsInv, ResultInv, Fetched
<1>4. \/ a = -1 /\ n = r.tuple + 1
      \/ a = -2 /\ n = -2
      \/ a \in 0 .. MaxPos /\ n = a
  BY AskedFacts DEF RecordsInv
<1>5. /\ [p \in Obj |-> obj[p].res]' = [p \in Obj |-> obj[p].res]
      /\ [p \in Obj |-> obj[p].len]' = [p \in Obj |-> obj[p].len]
      /\ \A p \in Obj \ {o} : [x \in Obj |-> obj[x].tuple + 1]'[p] = [x \in Obj |-> obj[x].tuple + 1][p]
      /\ s = r => [x \in Obj |-> obj[x].tuple + 1]' = [x \in Obj |-> obj[x].tuple + 1]
  BY <1>1, <1>2
<1> HIDE DEF n, a
<1>6. CASE GivenLine(r, n, a, s)
  <2>1. PICK k \in 0 .. MaxPos :
           /\ r.res # 0 /\ n = k /\ k < r.len
           /\ reply'.is = "line" /\ reply'.n = k /\ reply'.res = r.res /\ reply'.asked = a
           /\ s.tuple + 1 = k + 1
    BY <1>3, <1>6 DEF GivenLine
  <2>2. DbiFetch!Line(o, k)
    BY <1>5, <2>1 DEF DbiFetch!Line
  <2>3. CASE a = -1
    <3>1. k = [x \in Obj |-> obj[x].tuple + 1][o]
      BY <1>4, <2>1, <2>3
    <3> QED
      BY <1>1, <1>5, <2>1, <2>3, <3>1 DEF DbiFetch!Fetch, DbiFetch!Line
  <2>4. CASE a = k
    BY <1>1, <2>1, <2>2, <2>4 DEF DbiFetch!Fetch
  <2> QED
    BY <1>4, <2>1, <2>3, <2>4
<1>7. CASE RefusedLine(r, n, a, s) /\ a # -2
  <2>1. reply'.is = "refused" /\ reply'.asked = a /\ n >= 0
    BY <1>3, <1>4, <1>7 DEF RefusedLine
  <2>2. \/ r.res = 0
        \/ n >= r.len
        \/ a # -1 /\ n < r.tuple + 1
    BY <1>3, <1>4, <1>7, <2>1 DEF RefusedLine
  <2>3. s.tuple + 1 = r.tuple + 1 \/ s.tuple + 1 = r.len
    BY <1>3, <1>7 DEF RefusedLine
  <2>4. CASE a = -1
    <3>1. n = [x \in Obj |-> obj[x].tuple + 1][o]
      BY <1>4, <2>4
    <3>2. DbiFetch!Refused(o, n, FALSE)
      BY <1>5, <2>1, <2>2, <2>3, <2>4 DEF DbiFetch!Refused
    <3>3. DbiFetch!Refused(o, [x \in Obj |-> obj[x].tuple + 1][o], FALSE)
      BY <3>1, <3>2, Zenon
    <3> QED
      BY <1>1, <2>1, <2>4, <3>3, Zenon DEF DbiFetch!Fetch
  <2>5. CASE a # -1
    <3>1. a \in 0 .. MaxPos /\ n = a
      BY <1>4, <1>7, <2>5
    <3>2. DbiFetch!Refused(o, n, TRUE)
      BY <1>5, <2>1, <2>2, <2>3 DEF DbiFetch!Refused
    <3> QED
      BY <1>1, <2>1, <3>1, <3>2, Zenon DEF DbiFetch!Fetch
  <2> QED
    BY <2>4, <2>5
<1>8. CASE RefusedLine(r, n, a, s) /\ a = -2
  <2>1. reply'.is = "refused" /\ reply'.asked = -2 /\ s = r
    BY <1>4, <1>8 DEF RefusedLine
  <2> QED
    BY <1>1, <1>5, <2>1 DEF DbiFetch!Fetch
<1>9. CASE BrokenResult(r, s)
  <2>1. r.res # 0 /\ reply'.is = "failed" /\ s.tuple + 1 \in r.tuple + 1 .. r.len
    BY <1>3, <1>9 DEF BrokenResult
  <2>2. DbiFetch!Broken(o)
    BY <1>5, <2>1 DEF DbiFetch!Broken
  <2> QED
    BY <1>1, <2>2 DEF DbiFetch!Fetch
<1> QED
  BY <1>2, <1>6, <1>7, <1>8, <1>9

(* Results that stay as they are or are taken away. *)
LEMMA KeptOrLost ==
    ASSUME NEW p \in Obj, obj'[p] \in {NoResult, obj[p]}
    PROVE  DbiFetch!Keep(p) \/ DbiFetch!Lose(p)
BY NoResultSound DEF DbiFetch!Keep, DbiFetch!Lose

LEMMA ExecImplements ==
    ASSUME RecordsInv, NEW o \in Obj, Exec(o)
    PROVE  DbiFetch!Exec(o) \/ DbiFetch!Other
<1>1. reply'.to = o /\ reply'.of = "exec"
  BY ExecStep
<1>2. CASE reply'.is = "failed" /\ OnlyClears
  <2>1. \A p \in Obj : DbiFetch!Keep(p) \/ DbiFetch!Lose(p)
    BY <1>2, ClearsSound, KeptOrLost DEF RecordsInv
  <2> QED
    BY <1>1, <1>2, <2>1 DEF DbiFetch!Other
<1>3. CASE /\ reply'.is = "ok"
           /\ \/ obj'[o] = NoResult
              \/ /\ obj'[o].res # 0 /\ obj'[o].res # obj[o].res
                 /\ obj'[o].len \in 0 .. MaxPos /\ obj'[o].tuple = -1
           /\ \A p \in Obj \ {o} : obj'[p] \in {NoResult, obj[p]}
  <2>1. \A p \in Obj \ {o} : DbiFetch!Keep(p) \/ DbiFetch!Lose(p)
    BY <1>3, KeptOrLost
  <2>2. obj'[o] = NoResult => DbiFetch!Lose(o)
    BY NoResultSound DEF DbiFetch!Lose
  <2>3. /\ obj'[o].res # 0 /\ obj'[o].res # obj[o].res
        /\ obj'[o].len \in 0 .. MaxPos /\ obj'[o].tuple = -1
        => DbiFetch!Gain(o)
    BY DEF DbiFetch!Gain
  <2> QED
    BY <1>1, <1>3, <2>1, <2>2, <2>3 DEF DbiFetch!Exec
<1> QED
  BY <1>2, <1>3, ExecStep

LEMMA FetchStepImplements ==
    ASSUME RecordsInv, Next
    PROVE  DbiFetch!Next \/ \E o \in Obj : obj'[o].strayed
<1>1. Quiet \/ Asking
  BY StepFacts
<1>2. CASE Quiet
  <2>1. \A p \in Obj : DbiFetch!Keep(p) \/ DbiFetch!Lose(p)
    BY <1>2, ClearsSound, KeptOrLost DEF RecordsInv, Quiet
  <2>2. DbiFetch!Other
    BY <1>2, <2>1 DEF DbiFetch!Other, Quiet
  <2> QED
    BY <2>2 DEF DbiFetch!Next
<1>3. ASSUME NEW o \in Obj, Exec(o) PROVE DbiFetch!Next
  BY <1>3, ExecImplements DEF DbiFetch!Next
<1>4. ASSUME NEW o \in Obj, NEW q \in -2 .. MaxLines, Fetch(o, q)
      PROVE  DbiFetch!Next \/ obj'[o].strayed
  BY <1>4, FetchImplements DEF DbiFetch!Next
<1> QED
  BY <1>1, <1>2, <1>3, <1>4 DEF Asking

(* Every line that fetch gives is the line of the object's own result that  *)
(* was asked for, or the next one, and fetch refuses only what is not there *)
(* or has been passed; excused are a result without lines, of which fetch   *)
(* gives one, and one whose statement has failed (dbi_Sqlite3_Fetch).       *)
THEOREM RecordsFetch == Spec => ImplementsFetch
<1> DEFINE Strays == \E o \in Obj : obj'[o].strayed
<1>1. Init => DbiFetch!Init
  BY NoResultSound DEF Init, DbiFetch!Init, NoReply
<1>2. RecordsInv /\ [Next]_vars => [DbiFetch!Next \/ Strays]_(DbiFetch!vars)
  <2>1. CASE Next /\ RecordsInv
    BY <2>1, FetchStepImplements
  <2>2. CASE UNCHANGED vars
    BY <2>2 DEF vars, DbiFetch!vars
  <2> QED
    BY <2>1, <2>2
<1>3. Spec => []RecordsInv
  BY RecordsStart, RecordsStep, PTL DEF Spec
<1>4. Spec => DbiFetch!Init
  BY <1>1 DEF Spec
<1> HIDE DEF Strays
<1>5. Spec => [][DbiFetch!Next \/ Strays]_(DbiFetch!vars)
  BY <1>2, <1>3, PTL DEF Spec
<1> QED
  BY <1>4, <1>5 DEF ImplementsFetch, Strays

(* An import that succeeds has a row for every line of its file, whichever  *)
(* conflicts its algorithm has passed over, and no id loses its rows: a     *)
(* row is replaced, never deleted (the loop of dbi_Sqlite3_Import).         *)
THEOREM RecordsImportComplete ==
    ASSUME RecordsInv, NEW o \in Obj, NEW file \in Files, NEW algorithm \in Algorithms,
           NEW refused \in BOOLEAN, Import(o, file, algorithm, refused), reply'.is = "ok"
    PROVE  /\ \A i \in 1 .. Len(file) : file[i] \in Ids /\ work'[file[i]] # <<>>
           /\ \A id \in Ids : work[id] # <<>> => work'[id] # <<>>
<1> DEFINE s == AllLines(file, algorithm)
<1>1. HasRows(file, Len(file), s)
  <2>1. file \in Seq(Ids \cup {"wide"})
    BY RecordsAssumption
  <2> QED
    BY <2>1, FileImported DEF RecordsInv, DataInv
<1>2. /\ EndsImport(s, refused)
      /\ reply' = Answer(o, "import", IF s.failed THEN "failed" ELSE "ok")
  BY DEF Import
<1> HIDE DEF s
<1>3. ~s.failed
  BY <1>2, Replies
<1>4. work' = s.tab
  BY <1>2, <1>3 DEF EndsImport
<1> QED
  BY <1>1, <1>3, <1>4 DEF HasRows

=================================================================================
