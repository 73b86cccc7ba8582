------------------------------ MODULE Sqlite3Records ------------------------------
(****************************************************************************)
(* What dbi_sqlite3 objects do with the data once they are open             *)
(* (sqlite3/generic/sqlite.c, dbi_sqlite_import.c): fetch from a statement  *)
(* that only goes forward; get, insert, set, unset and delete of an object  *)
(* by its id; import, backup and restore.  An object and its clones share   *)
(* one connection.  exec is here only what it gives fetch and what it       *)
(* writes; its phases are in Sqlite3Exec.                                   *)
(****************************************************************************)
EXTENDS Integers, Sequences

CONSTANTS
    Obj,        \* open objects: Root and its clones
    Root,
    Ids,        \* values of the field id
    Files,      \* files to import: sequences of ids and "wide" lines
    Sizes,      \* bound: the numbers of lines that results have
    MaxCopies,  \* bound: rows with the same id
    MaxPos      \* bound: the position of fetch

ASSUME RecordsAssumption ==
    /\ Root \in Obj
    /\ Files \subseteq Seq(Ids \cup {"wide"})
    /\ Sizes \subseteq Nat /\ 0 \in Sizes
    /\ MaxCopies \in Nat \ {0} /\ MaxPos \in Nat
    /\ \A n \in Sizes : n <= MaxPos

VARIABLES
    unique,     \* the table has a unique constraint on id
    work,       \* the table as the connection sees it: id -> values of its rows
    kept,       \* the table as committed
    txn,        \* the transaction of the connection and who began it
    setting,    \* a set between its update and its insert
    obj,        \* the records of the objects
    reply       \* the answer of the last method

vars == <<unique, work, kept, txn, setting, obj, reply>>

(* "text" is what the user gives for a field, and also what he may give as  *)
(* -nullvalue.                                                              *)
Values == {"text", "null"}
Tables == [Ids -> UNION {[1 .. n -> Values] : n \in 0 .. MaxCopies}]
Empty == [id \in Ids |-> <<>>]
MaxLines == CHOOSE n \in Sizes : \A m \in Sizes : m <= n

(* res: the result (0: nfields is -1); len: the lines the statement gives;  *)
(* at: the line it stands on, -1 if on none: the next sqlite3_step then     *)
(* executes it again; writes: the id it inserts when executed.  strayed: a  *)
(* fetch has gone on from a statement that stands on no line.               *)
NoWrite == "none"
NoResult == [res |-> 0, len |-> 0, tuple |-> -1, ntuples |-> -1, at |-> -1,
             writes |-> NoWrite, strayed |-> FALSE]

NoReply == [to |-> Root, of |-> "none", is |-> "none", asked |-> 0, n |-> 0, res |-> 0,
            id |-> NoWrite]
Answer(o, method, ended) == [NoReply EXCEPT !.to = o, !.of = method, !.is = ended]

NoSet == [on |-> FALSE]
Idle == ~setting.on

Init == /\ unique \in BOOLEAN
        /\ work = Empty /\ kept = Empty
        /\ txn = "none"
        /\ setting = NoSet
        /\ obj = [o \in Obj |-> NoResult]
        /\ reply = NoReply

(* dbi_Sqlite3_ClearResult: the result of an object and those of its        *)
(* clones.  The position, which stays, is not read before exec sets it.     *)
Hears(o) == IF o = Root THEN Obj ELSE {o}
ClearResult(o) == [p \in Obj |-> IF p \in Hears(o) THEN NoResult ELSE obj[p]]
Cleared(o) == obj' = ClearResult(o)

(* A statement has changed the table into t: outside a transaction that is  *)
(* a commit.                                                                *)
Changed(t) == /\ work' = t
              /\ kept' = IF txn = "none" THEN t ELSE kept
Unchanged == UNCHANGED <<work, kept>>

Fits(id) == Len(work[id]) < MaxCopies
Clashes(t, id) == unique /\ t[id] # <<>>
WithRow(t, id, v) == [t EXCEPT ![id] = Append(@, v)]
AllRows(t, id, v) == [t EXCEPT ![id] = [i \in DOMAIN @ |-> v]]

-----------------------------------------------------------------------------------
(* exec with -usefetch or without: a select or an insert, or a failure. *)

Another(r) == IF r = 1 THEN 2 ELSE 1
NewResult_PositionKept(r, n, id) ==
    [NoResult EXCEPT !.res = Another(r.res), !.len = n, !.at = IF n = 0 THEN -1 ELSE 0,
                     !.tuple = r.tuple, !.writes = id]
NewResult(r, n, id) ==
    [NoResult EXCEPT !.res = Another(r.res), !.len = n, !.at = IF n = 0 THEN -1 ELSE 0, !.writes = id]

ExecSelect(o, fetch) ==
    /\ \E n \in IF fetch THEN Sizes ELSE {0} :
          obj' = IF fetch THEN [ClearResult(o) EXCEPT ![o] = NewResult(obj[o], n, NoWrite)]
                 ELSE ClearResult(o)
    /\ Unchanged
    /\ reply' = Answer(o, "exec", "ok")

ExecInsert(o, id, fetch) ==
    /\ Fits(id) /\ ~Clashes(work, id)
    /\ Changed(WithRow(work, id, "text"))
    /\ obj' = IF fetch THEN [ClearResult(o) EXCEPT ![o] = NewResult(obj[o], 0, id)] ELSE ClearResult(o)
    /\ reply' = Answer(o, "exec", "ok")

ExecFails(o) == Cleared(o) /\ Unchanged /\ reply' = Answer(o, "exec", "failed")

Exec(o) ==
    /\ Idle
    /\ \/ ExecFails(o)
       \/ \E fetch \in BOOLEAN : \/ ExecSelect(o, fetch)
                                 \/ \E id \in Ids : ExecInsert(o, id, fetch)
    /\ UNCHANGED <<unique, txn, setting>>

-----------------------------------------------------------------------------------
(* fetch of the next line (-1), of the current one (-2) or of a given one.  *)

Asked(o, q) == IF q = -2 /\ obj[o].tuple >= 0 THEN obj[o].tuple ELSE q
Wanted(o, q) == IF q = -1 THEN obj[o].tuple + 1 ELSE Asked(o, q)
Started(r) == [r EXCEPT !.tuple = IF @ = -1 THEN 0 ELSE @]

(* Refused without a step: no result, no current line, a line that is known *)
(* to be past the end, or one before the current line.                      *)
NoResultFor(o, q) == obj[o].res = 0 \/ Wanted(o, q) < 0
KnownPast(r, n) == r.ntuples # -1 /\ n >= r.ntuples
Backwards_OneBack(r, n) == n < r.tuple - 1
Backwards(r, n) == n < r.tuple

GivesNo(o, q) == reply' = [Answer(o, "fetch", "refused") EXCEPT !.asked = Asked(o, q)]
Gives(o, q)   == reply' = [Answer(o, "fetch", "line") EXCEPT
                              !.asked = Asked(o, q), !.n = obj'[o].at, !.res = obj[o].res]

(* The statement as the first step finds it: one that stands on no line is  *)
(* executed again.                                                          *)
Restarted(r) == {[r EXCEPT !.len = n, !.strayed = TRUE] : n \in IF r.writes = NoWrite THEN Sizes ELSE {0}}
AtStep(r) == IF r.at = -1 THEN Restarted(r) ELSE {r}
LinesLeft(r) == r.len - 1 - r.at
Moved(r, k) == [r EXCEPT !.tuple = @ + k, !.at = @ + k]
Finished(r) == [r EXCEPT !.tuple = @ + LinesLeft(r), !.ntuples = r.tuple + LinesLeft(r), !.at = -1]
StepFailed(r, k) == [r EXCEPT !.tuple = @ + k, !.at = -1]

(* The insert of exec -usefetch, done again by the step. *)
ExecutedAgain(r) ==
    IF r.at = -1 /\ r.writes # NoWrite
    THEN /\ Fits(r.writes) /\ ~Clashes(work, r.writes)
         /\ Changed(WithRow(work, r.writes, "text"))
    ELSE Unchanged

StepTo(o, q, r, n) ==
    LET d == n - r.tuple
    IN \E s \in AtStep(r) :
          \/ /\ d <= LinesLeft(s) /\ n <= MaxPos
             /\ obj' = [obj EXCEPT ![o] = Moved(s, d)]
             /\ Gives(o, q) /\ Unchanged
          \/ /\ d > LinesLeft(s) /\ Finished(s).tuple <= MaxPos
             /\ obj' = [obj EXCEPT ![o] = Finished(s)]
             /\ GivesNo(o, q) /\ ExecutedAgain(r)
          \/ /\ \E k \in 0 .. d - 1 : k <= LinesLeft(s) /\ r.tuple + k <= MaxPos /\ obj' = [obj EXCEPT ![o] = StepFailed(s, k)]
             /\ reply' = Answer(o, "fetch", "failed") /\ Unchanged

Fetch(o, q) ==
    LET r == Started(obj[o])
        n == Wanted(o, q)
    IN /\ Idle
       /\ \/ NoResultFor(o, q) /\ GivesNo(o, q) /\ UNCHANGED <<obj, work, kept>>
          \/ /\ ~NoResultFor(o, q)
             /\ \/ /\ KnownPast(r, n) \/ Backwards(r, n)
                   /\ obj' = [obj EXCEPT ![o] = r]
                   /\ GivesNo(o, q) /\ Unchanged
                \/ /\ ~KnownPast(r, n) /\ ~Backwards(r, n) /\ n <= r.tuple
                   /\ obj' = [obj EXCEPT ![o] = [r EXCEPT !.strayed = @ \/ r.at = -1]]
                   /\ Gives(o, q) /\ Unchanged
                \/ /\ ~KnownPast(r, n) /\ n > r.tuple
                   /\ StepTo(o, q, r, n)
       /\ UNCHANGED <<unique, txn, setting>>

-----------------------------------------------------------------------------------
(* get, insert, set, unset and delete.  Each statement may fail, and then   *)
(* changes nothing.                                                         *)

Done(o, method)  == reply' = Answer(o, method, "ok")
About(o, method, id, r) == reply' = [Answer(o, method, r) EXCEPT !.id = id]

(* Wrong arguments: some are found before anything is done. *)
BadCall(o) ==
    /\ Idle
    /\ Cleared(o) \/ UNCHANGED obj
    /\ reply' = Answer(o, "badcall", "failed")
    /\ UNCHANGED <<unique, work, kept, txn, setting>>

Get(o, id) ==
    /\ Idle /\ Cleared(o)
    /\ \E is \in {"ok", "failed"} : (is = "ok" => work[id] # <<>>) /\ About(o, "get", id, is)
    /\ UNCHANGED <<unique, work, kept, txn, setting>>

(* nv: the value is also given as -nullvalue. *)
Stored(nv) == IF nv THEN "null" ELSE "text"

InsertRow(o, method, id, v) ==
    /\ Cleared(o)
    /\ \/ Unchanged /\ About(o, method, id, "failed")
       \/ /\ Fits(id) /\ ~Clashes(work, id)
          /\ Changed(WithRow(work, id, v)) /\ About(o, method, id, "ok")

Insert(o, id, nv) ==
    /\ Idle /\ InsertRow(o, "insert", id, Stored(nv))
    /\ UNCHANGED <<unique, txn, setting>>

(* set: an update, and unless it has changed one row an insert, for which   *)
(* -nullvalue is not passed on.                                             *)
Missed_None(n) == FALSE
Missed(n) == n # 1

SetUpdate(o, id, nv) ==
    LET changes == Len(work[id])
    IN /\ Idle /\ Cleared(o)
       /\ \/ /\ Unchanged /\ About(o, "set", id, "failed") /\ UNCHANGED setting
          \/ /\ Changed(AllRows(work, id, Stored(nv)))
             /\ IF Missed(changes)
                THEN setting' = [on |-> TRUE, o |-> o, id |-> id] /\ About(o, "setting", id, "ok")
                ELSE About(o, "set", id, "ok") /\ UNCHANGED setting
       /\ UNCHANGED <<unique, txn>>

SetInsert ==
    /\ setting.on
    /\ InsertRow(setting.o, "set", setting.id, "text")
    /\ setting' = NoSet
    /\ UNCHANGED <<unique, txn>>

(* unset leaves the result when it succeeds.  Both report an object that    *)
(* has several rows as not found, after changing them.                      *)
Unset(o, id) ==
    /\ Idle
    /\ \/ Cleared(o) /\ Unchanged /\ About(o, "unset", id, "failed")
       \/ /\ Changed(AllRows(work, id, "null"))
          /\ IF Missed(Len(work[id]))
             THEN Cleared(o) /\ About(o, "unset", id, "failed")
             ELSE UNCHANGED obj /\ About(o, "unset", id, "ok")
    /\ UNCHANGED <<unique, txn, setting>>

Delete(o, id) ==
    /\ Idle /\ Cleared(o)
    /\ \/ Unchanged /\ About(o, "delete", id, "failed")
       \/ /\ Changed([work EXCEPT ![id] = <<>>])
          /\ About(o, "delete", id, IF Missed(Len(work[id])) THEN "failed" ELSE "ok")
    /\ UNCHANGED <<unique, txn, setting>>

-----------------------------------------------------------------------------------
(* begin, commit and rollback; a commit may be refused, and begin goes on   *)
(* all the same.                                                            *)

Begin(o, refused) ==
    /\ Idle /\ Cleared(o)
    /\ IF txn # "none" /\ refused
       THEN reply' = Answer(o, "begin", "failed") /\ UNCHANGED <<kept, txn>>
       ELSE kept' = work /\ txn' = "user" /\ Done(o, "begin")
    /\ UNCHANGED <<unique, work, setting>>

Commit(o, refused) ==
    /\ Idle /\ Cleared(o)
    /\ IF txn # "none" /\ refused
       THEN reply' = Answer(o, "commit", "failed") /\ UNCHANGED <<kept, txn>>
       ELSE kept' = work /\ txn' = "none" /\ Done(o, "commit")
    /\ UNCHANGED <<unique, work, setting>>

Rollback(o) ==
    /\ Idle /\ Cleared(o)
    /\ work' = kept /\ txn' = "none" /\ Done(o, "rollback")
    /\ UNCHANGED <<unique, kept, setting>>

-----------------------------------------------------------------------------------
(* import *)

(* One line of the file, on s = [tab, failed].  A line with too many fields *)
(* and a conflict end the loop, unless the algorithm is ignore or replace.  *)
OneLine(line, algorithm, s) ==
    IF s.failed THEN s
    ELSE IF line = "wide" THEN [s EXCEPT !.failed = TRUE]
    ELSE IF ~Clashes(s.tab, line) THEN [s EXCEPT !.tab = WithRow(@, line, "text")]
    ELSE IF algorithm = "ignore" THEN s
    ELSE IF algorithm = "replace" THEN [s EXCEPT !.tab = [@ EXCEPT ![line] = <<"text">>]]
    ELSE [s EXCEPT !.failed = TRUE]

AllLines(file, algorithm) ==
    LET after[i \in 0 .. Len(file)] ==
            IF i = 0 THEN [tab |-> work, failed |-> FALSE]
            ELSE OneLine(file[i], algorithm, after[i - 1])
    IN after[Len(file)]

Bounded(t) == \A id \in Ids : Len(t[id]) <= MaxCopies

(* The end of the loop: COMMIT, the result of which is not looked at, or    *)
(* ROLLBACK.  BEGIN fails inside a transaction, and that is not looked at   *)
(* either: the transaction that ends is then the user's.                    *)
EndsImport_AlwaysCommits(s, refused) ==
    work' = s.tab /\ kept' = s.tab /\ txn' = "none"
EndsImport(s, refused) ==
    IF s.failed THEN work' = kept /\ kept' = kept /\ txn' = "none"
    ELSE /\ work' = s.tab
         /\ IF refused THEN kept' = kept /\ txn' = (IF txn = "none" THEN "import" ELSE txn)
            ELSE kept' = s.tab /\ txn' = "none"

Import(o, file, algorithm, refused) ==
    LET s == AllLines(file, algorithm)
    IN /\ Idle /\ Bounded(s.tab)
       /\ EndsImport(s, refused)
       /\ reply' = Answer(o, "import", IF s.failed THEN "failed" ELSE "ok")
       /\ UNCHANGED <<unique, setting, obj>>

(* The file, the table or the algorithm is not there. *)
ImportRefused(o) ==
    /\ Idle
    /\ reply' = Answer(o, "import", "refused")
    /\ UNCHANGED <<unique, work, kept, txn, setting, obj>>

Algorithms == {"abort", "ignore", "replace"}   \* rollback and fail end like abort

-----------------------------------------------------------------------------------
(* backup and restore.  The library copies a database only while no         *)
(* transaction of the connection has written to it, and over one only while *)
(* no statement of the connection is at work.                               *)
Backup(o) ==
    /\ Idle
    /\ \E is \in {"ok", "failed"} :
          (is = "ok" => txn = "none" \/ work = kept) /\ reply' = Answer(o, "backup", is)
    /\ UNCHANGED <<unique, work, kept, txn, setting, obj>>

(* restore waits three times for a source that is busy. *)
MaxBusy == 3
InUse == txn # "none" \/ \E o \in Obj : obj[o].at >= 0
Restore(o, source, busy) ==
    /\ Idle
    /\ IF busy <= MaxBusy /\ ~InUse
       THEN Changed(source) /\ reply' = Answer(o, "restore", "ok")
       ELSE Unchanged /\ reply' = Answer(o, "restore", "failed")
    /\ UNCHANGED <<unique, txn, setting, obj>>

Sources == {Empty, [id \in Ids |-> <<"text">>]}

-----------------------------------------------------------------------------------
(* Another process changes the table, also between the two statements of a  *)
(* set; the connection has no transaction then.                             *)
Elsewhere(id) ==
    /\ txn = "none"
    /\ \/ Fits(id) /\ ~Clashes(work, id) /\ Changed(WithRow(work, id, "text"))
       \/ work[id] # <<>> /\ Changed([work EXCEPT ![id] = <<>>])
    /\ reply' = NoReply
    /\ UNCHANGED <<unique, txn, setting, obj>>

Next ==
    \/ SetInsert
    \/ \E id \in Ids : Elsewhere(id)
    \/ \E o \in Obj :
        \/ Exec(o) \/ BadCall(o)
        \/ \E q \in -2 .. MaxLines : Fetch(o, q)
        \/ \E id \in Ids :
              \/ Get(o, id) \/ Unset(o, id) \/ Delete(o, id)
              \/ \E nv \in BOOLEAN : Insert(o, id, nv) \/ SetUpdate(o, id, nv)
        \/ \E refused \in BOOLEAN :
              \/ Begin(o, refused) \/ Commit(o, refused)
              \/ \E file \in Files, a \in Algorithms : Import(o, file, a, refused)
        \/ Rollback(o) \/ ImportRefused(o) \/ Backup(o)
        \/ \E source \in Sources, busy \in {0, MaxBusy, MaxBusy + 1} : Restore(o, source, busy)

Spec == Init /\ [][Next]_vars

-----------------------------------------------------------------------------------
(* Properties *)

(* The table, the transaction and the positions of fetch have their forms;  *)
(* what is committed differs from what the connection sees only in a        *)
(* transaction, and the position of fetch and that of its statement differ  *)
(* only where fetch has strayed, is past the end or has failed.             *)
TypeOK ==
    /\ unique \in BOOLEAN
    /\ work \in Tables /\ kept \in Tables
    /\ unique => \A id \in Ids : Len(work[id]) <= 1
    /\ txn \in {"none", "user", "import"}
    /\ txn = "none" => work = kept
    /\ \A o \in Obj : /\ obj[o].at \in -1 .. obj[o].len - 1
                      /\ obj[o].tuple \in -1 .. MaxPos
                      /\ obj[o].len = 0 /\ ~obj[o].strayed => obj[o].tuple = -1
                      /\ obj[o].at >= 0 /\ ~obj[o].strayed =>
                            obj[o].tuple = obj[o].at \/ (obj[o].at = 0 /\ obj[o].tuple = -1)

(* Every line that fetch gives is the line of the object's own result that  *)
(* was asked for, or the next one, and fetch refuses only what is not there *)
(* or has been passed, whatever the other objects and methods of the        *)
(* connection do in between.  Excused is a result without lines, of which   *)
(* fetch gives one, and one whose statement has failed: the next step       *)
(* executes the statement again (dbi_Sqlite3_Fetch).                        *)
DbiFetch == INSTANCE DbiFetch WITH
    res <- [o \in Obj |-> obj[o].res], len <- [o \in Obj |-> obj[o].len],
    next <- [o \in Obj |-> obj[o].tuple + 1], forward <- TRUE, MaxLines <- MaxPos
ImplementsFetch ==
    DbiFetch!Init /\ [][DbiFetch!Next \/ \E o \in Obj : obj'[o].strayed]_(DbiFetch!vars)

(* A set, insert, unset or delete that reports success has done it to the   *)
(* row with this id, and one that reports failure has done nothing, when    *)
(* ids are unique; another process may come in between the two statements   *)
(* of a set.                                                                *)
Does(method, id) ==
    CASE method \in {"insert", "set"} -> work'[id] # <<>>
      [] method = "unset"  -> work'[id] # <<>> /\ \A i \in DOMAIN work'[id] : work'[id][i] = "null"
      [] method = "delete" -> work'[id] = <<>>
RecordKept ==
    [][LET id == reply'.id
       IN reply'.of \in {"insert", "set", "unset", "delete"} =>
             /\ reply'.is = "ok" => Does(reply'.of, id)
             /\ reply'.is = "failed" /\ unique => work' = work /\ kept' = kept]_vars

(* Nothing of a file is ever committed unless all of it is, and an import   *)
(* that fails takes back what it has done; it may end the transaction of    *)
(* the user, but never commits it when it reports failure.                  *)
ImportWhole ==
    [][reply'.of = "import" =>
          /\ reply'.is = "refused" => work' = work /\ kept' = kept /\ txn' = txn
          /\ reply'.is = "failed"  => kept' = kept /\ work' = kept /\ txn' = "none"
          /\ reply'.is = "ok"      => kept' \in {kept, work'}]_vars
===================================================================================
