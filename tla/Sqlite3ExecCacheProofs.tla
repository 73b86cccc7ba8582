------------------------ MODULE Sqlite3ExecCacheProofs ------------------------
(****************************************************************************)
(* Which prepared statements of a dbi_sqlite3 object are alive: theorems    *)
(* about the cache, the current statement and double finalization, for any  *)
(* texts, failures and bounds.                                              *)
(****************************************************************************)
EXTENDS Sqlite3ExecProofs

(* A statement in the cache is open, it is the first command of one text,   *)
(* and only the text of the last call, if that was with -cache, has one     *)
(* that the call has prepared.                                              *)
UniqueInv ==
    \A t, u \in Texts : prepared[t] = prepared[u] /\ prepared[t] # Null => t = u

PreparedInv ==
    \A t \in Texts : prepared[t] # Null =>
        /\ prepared[t] \in open
        /\ prepared[t][1] <= x.id /\ prepared[t][2] = 1
        /\ prepared[t][1] = x.id => x.cache /\ t = x.text

(* The object's current statement is open; it is a first command when it is *)
(* marked as cached, and else a statement of the last call, which was       *)
(* without -cache, between calls or when reading the rows has failed.       *)
CurrentInv ==
    h.cur # Null =>
        /\ h.cur \in open /\ h.cur[1] <= x.id
        /\ h.cached  => h.cur[2] = 1 /\ (h.cur[1] = x.id => x.cache)
        /\ ~h.cached => /\ h.cur[1] = x.id /\ ~x.cache
                        /\ \/ pc = "idle"
                           \/ pc = "fail" /\ RowFaults /\ x.last = "row" /\ ~x.fetch

(* The two statements of the running call are open and its own, the first   *)
(* one with -cache excepted; when they are the same one, there is no text   *)
(* left to prepare.                                                         *)
RunningInv ==
    pc # "idle" =>
        /\ x.stmt \in Id => /\ x.stmt \in open /\ x.stmt[1] <= x.id /\ x.stmt[2] > 0
                            /\ ~x.cache => x.stmt[1] = x.id
                            /\ x.cache => x.stmt[2] = 1
        /\ x.stmt2 \in Id => x.stmt2 \in open /\ x.stmt2[1] = x.id /\ x.stmt2[2] > 1
        /\ x.stmt = x.stmt2 /\ x.stmt \in Id => pc = "again" \/ ~x.text.tail
        /\ x.entry = "new" => /\ x.cache /\ pc \in {"prepare", "first", "fail"}
                              /\ pc = "first" => x.stmt[1] = x.id
        /\ x.entry = "hit" => x.cache
        /\ pc = "prepare" => x.stmt = Null
        /\ pc \in {"prepare", "first", "commit", "deliver"} => x.stmt2 = Null
        /\ pc = "again" => ~x.cache /\ x.stmt2 = (IF x.stmt = Bad THEN Null ELSE x.stmt)
        /\ pc = "step" /\ x.cache => x.stmt2 = Null

CacheInv == UniqueInv /\ PreparedInv /\ CurrentInv /\ RunningInv /\ KnownDoubleFinalize

LEMMA PrefixFacts ==
    /\ \A s \in Id : s[1] \in Nat /\ s[2] \in Nat /\ s = <<s[1], s[2]>>
    /\ \A i, j \in Nat : <<i, j>>[1] = i /\ <<i, j>>[2] = j
BY DEF Id

LEMMA CallCache ==
    ASSUME ExecInv, CacheInv, ~misuse,
           NEW t \in Texts, NEW c \in BOOLEAN, NEW f \in BOOLEAN, Call(t, c, f)
    PROVE  CacheInv'
<1> USE IdFacts, TypeParts, PrefixFacts DEF ExecInv, CacheInv
<1> DEFINE hit == c /\ prepared[t] # Null
<1>1. /\ pc = "idle" /\ pc' = IF hit THEN "first" ELSE "prepare"
      /\ prepared' = prepared /\ h' = Cleared /\ Finalize({ClearVictim})
      /\ x'.id = x.id + 1 /\ x'.text = t /\ x'.cache = c
      /\ x'.stmt = IF hit THEN prepared[t] ELSE Null
      /\ x'.stmt2 = Null
      /\ x'.entry = IF hit THEN "hit" ELSE IF c THEN "new" ELSE "none"
  BY DEF Call, ClearResult
<1>2. x.id \in Nat /\ h \in Handle
  BY DEF Locals
<1>3. open' = open \ {ClearVictim} /\ ~misuse'
  <2>1. ClearVictim = Null \/ ClearVictim \in open
    BY DEF ClearVictim, CurrentInv
  <2> QED
    BY <1>1, <2>1 DEF Finalize
<1>4. \A u \in Texts : prepared[u] # Null => prepared[u] \in Id /\ prepared[u] # ClearVictim
  BY <1>2 DEF PreparedInv, CurrentInv, ClearVictim, Handle
<1>5. PreparedInv' /\ UniqueInv'
  BY <1>1, <1>2, <1>3, <1>4 DEF PreparedInv, UniqueInv
<1>6. CurrentInv'
  <2>1. ASSUME h'.cur # Null
        PROVE  h.cached /\ h'.cur = h.cur /\ h'.cached /\ ClearVictim = Null /\ h.cur \in Id
    BY <1>1, <1>2, <2>1 DEF Cleared, ClearVictim, Handle
  <2> QED
    BY <1>1, <1>2, <1>3, <2>1 DEF CurrentInv
<1>7. RunningInv'
  <2>1. hit => prepared[t] \in Id /\ prepared[t] \in open' /\ prepared[t][1] <= x.id /\ prepared[t][2] = 1
    BY <1>3, <1>4 DEF PreparedInv
  <2> QED
    BY <1>1, <1>2, <2>1 DEF RunningInv
<1> QED
  BY <1>3, <1>5, <1>6, <1>7 DEF KnownDoubleFinalize

LEMMA PrepareCache ==
    ASSUME ExecInv, CacheInv, ~misuse, PrepareFirst
    PROVE  CacheInv'
<1> USE IdFacts, TypeParts, PrefixFacts DEF ExecInv, CacheInv
<1>0. pc = "prepare" /\ x \in Locals /\ x.id \in Nat
  BY DEF PrepareFirst, Locals
<1>1. CASE UNCHANGED vars
  BY <1>1 DEF vars, UniqueInv, PreparedInv, CurrentInv, RunningInv, KnownDoubleFinalize
<1>2. CASE /\ x' = [x EXCEPT !.stmt = <<x.id, 1>>] /\ open' = open \cup {<<x.id, 1>>}
           /\ pc' = "first"
           /\ UNCHANGED <<h, prepared, misuse, conn, status>>
  <2>1. /\ x'.stmt = <<x.id, 1>> /\ x'.stmt2 = x.stmt2 /\ x'.id = x.id /\ x'.text = x.text
        /\ x'.cache = x.cache /\ x'.entry = x.entry
    BY <1>0, <1>2 DEF Locals
  <2>2. <<x.id, 1>> \in Id
    BY <1>0
  <2>3. UniqueInv' /\ PreparedInv' /\ KnownDoubleFinalize'
    BY <1>2, <2>1 DEF UniqueInv, PreparedInv, KnownDoubleFinalize
  <2>4. CurrentInv'
    BY <1>0, <1>2, <2>1 DEF CurrentInv
  <2>5. RunningInv'
    BY <1>0, <1>2, <2>1, <2>2 DEF RunningInv
  <2> QED
    BY <2>3, <2>4, <2>5
<1>3. CASE pc' = "fail" /\ UNCHANGED <<x, h, prepared, open, misuse, conn, status>>
  <2>1. UniqueInv' /\ PreparedInv' /\ KnownDoubleFinalize'
    BY <1>3 DEF UniqueInv, PreparedInv, KnownDoubleFinalize
  <2>2. CurrentInv'
    BY <1>0, <1>3 DEF CurrentInv
  <2>3. RunningInv'
    BY <1>0, <1>3 DEF RunningInv
  <2> QED
    BY <2>1, <2>2, <2>3
<1> QED
  BY <1>1, <1>2, <1>3 DEF PrepareFirst

(* The variables of a call that do not change while it runs.                *)
SameCall == /\ x'.id = x.id /\ x'.text = x.text /\ x'.cache = x.cache
            /\ x'.fetch = x.fetch /\ x'.user = x.user

(* The look ahead fails on the error that the preparation before left; or   *)
(* on a second command, with -cache; or it goes on to run the first one.    *)
LEMMA LookAheadCases ==
    ASSUME ExecInv, LookAhead
    PROVE  \/ pc' = "fail" /\ x.stmt = Bad /\ UNCHANGED <<x, h, prepared, open, misuse, conn, status>>
           \/ /\ x.stmt \in Id /\ SameCall /\ x'.stmt = x.stmt /\ x'.last = x.last
              /\ UNCHANGED <<h, misuse, status>>
              /\ \E s \in Ahead :
                    /\ x'.stmt2 = s
                    /\ open' = IF MoreText /\ s \in Id THEN open \cup {s} ELSE open
                    /\ \/ /\ x.cache /\ s # Null
                          /\ pc' = "fail" /\ x'.entry = x.entry /\ x'.toclose = x.toclose
                          /\ UNCHANGED <<prepared, conn>>
                       \/ /\ ~(x.cache /\ s # Null)
                          /\ pc' = "step"
                          /\ prepared' = IF x.entry = "new" THEN [prepared EXCEPT ![x.text] = x.stmt]
                                                            ELSE prepared
                          /\ x'.entry = IF x.entry = "new" THEN "none" ELSE x.entry
                          /\ x'.toclose = (x.toclose \/ (pc = "first" /\ s # Null /\ conn.txn = "none"))
                          /\ conn' = IF pc = "first" /\ s # Null THEN Started("exec") ELSE conn
<1> USE IdFacts
<1>0. x \in Locals /\ pc \in {"first", "again"} /\ x.toclose \in BOOLEAN
  BY TypeParts DEF ExecInv, LookAhead, Locals
<1>1. CASE SyntaxError
  BY <1>1 DEF LookAhead, SyntaxError
<1>2. CASE ~SyntaxError
  <2>1. x.stmt \in Id
    BY <1>0, <1>2 DEF ExecInv, StmtInv, SyntaxError
  <2>2. PICK s \in Ahead :
          /\ open' = IF MoreText /\ s \in Id THEN open \cup {s} ELSE open
          /\ UNCHANGED <<h, misuse, status>>
          /\ IF x.cache /\ s # Null
             THEN /\ pc' = "fail"
                  /\ x' = [x EXCEPT !.stmt2 = s]
                  /\ UNCHANGED <<prepared, conn>>
             ELSE LET begins == pc = "first" /\ s # Null
                  IN /\ pc' = "step"
                     /\ prepared' = IF x.entry = "new"
                                    THEN [prepared EXCEPT ![x.text] = x.stmt]
                                    ELSE prepared
                     /\ x' = [x EXCEPT !.stmt2 = s,
                                       !.entry = IF @ = "new" THEN "none" ELSE @,
                                       !.toclose = @ \/ (begins /\ conn.txn = "none")]
                     /\ conn' = IF begins THEN Started("exec") ELSE conn
    BY <1>2 DEF LookAhead
  <2>3. CASE x.cache /\ s # Null
    <3>1. x' = [x EXCEPT !.stmt2 = s]
      BY <2>2, <2>3
    <3>2. /\ SameCall /\ x'.stmt = x.stmt /\ x'.last = x.last /\ x'.stmt2 = s
          /\ x'.entry = x.entry /\ x'.toclose = x.toclose
      BY <1>0, <3>1 DEF Locals, SameCall
    <3> QED
      BY <2>1, <2>2, <2>3, <3>2
  <2>4. CASE ~(x.cache /\ s # Null)
    <3>1. PICK b \in BOOLEAN : b = (pc = "first" /\ s # Null /\ conn.txn = "none")
      OBVIOUS
    <3>2. PICK d \in BOOLEAN : d = (x.toclose \/ b)
      OBVIOUS
    <3>3. x' = [x EXCEPT !.stmt2 = s, !.entry = IF x.entry = "new" THEN "none" ELSE x.entry,
                         !.toclose = d]
      BY <2>2, <2>4, <3>1, <3>2
    <3>4. /\ SameCall /\ x'.stmt = x.stmt /\ x'.last = x.last /\ x'.stmt2 = s
          /\ x'.entry = (IF x.entry = "new" THEN "none" ELSE x.entry) /\ x'.toclose = d
      BY <1>0, <3>3 DEF Locals, SameCall
    <3>5. x'.toclose = (x.toclose \/ (pc = "first" /\ s # Null /\ conn.txn = "none"))
      BY <3>1, <3>2, <3>4
    <3>6. /\ pc' = "step"
          /\ prepared' = IF x.entry = "new" THEN [prepared EXCEPT ![x.text] = x.stmt] ELSE prepared
          /\ conn' = IF pc = "first" /\ s # Null THEN Started("exec") ELSE conn
      BY <2>2, <2>4
    <3> QED
      BY <2>1, <2>2, <2>4, <3>4, <3>5, <3>6
  <2> QED
    BY <2>3, <2>4
<1> QED
  BY <1>1, <1>2

LEMMA LookAheadCache ==
    ASSUME ExecInv, CacheInv, ~misuse, LookAhead
    PROVE  CacheInv'
<1> USE IdFacts, TypeParts, PrefixFacts DEF ExecInv, CacheInv
<1>0. /\ pc \in {"first", "again"} /\ x \in Locals /\ x.id \in Nat /\ x.cache \in BOOLEAN
      /\ x.text.n \in Nat /\ x.text.tail \in BOOLEAN /\ x.entry \in {"none", "hit", "new"}
  BY DEF LookAhead, Locals
<1>1. CASE pc' = "fail" /\ UNCHANGED <<x, h, prepared, open, misuse, conn, status>> /\ x.stmt = Bad
  <2>1. UniqueInv' /\ PreparedInv' /\ KnownDoubleFinalize'
    BY <1>1 DEF UniqueInv, PreparedInv, KnownDoubleFinalize
  <2>2. CurrentInv'
    BY <1>0, <1>1 DEF CurrentInv
  <2>3. RunningInv'
    BY <1>0, <1>1 DEF RunningInv
  <2> QED
    BY <2>1, <2>2, <2>3
<1>2. ASSUME x.stmt \in Id, NEW s \in Ahead,
             open' = IF MoreText /\ s \in Id THEN open \cup {s} ELSE open
      PROVE  /\ x.stmt \in open'
             /\ s \in Id => s \in open' /\ s[1] = x.id /\ s[2] > 1
             /\ x.stmt = s => ~x.text.tail
             /\ open \subseteq open'
  <2>1. x.stmt \in Id /\ x.stmt \in open /\ open \subseteq open'
    BY <1>0, <1>2 DEF RunningInv
  <2>2. CASE ~MoreText
    <3>1. s = x.stmt2
      BY <1>2, <2>2 DEF Ahead
    <3>2. s \in Id => s \in open' /\ s[1] = x.id /\ s[2] > 1
      BY <1>0, <1>2, <2>1, <3>1 DEF RunningInv
    <3>3. x.stmt = s => ~x.text.tail
      <4>1. ASSUME x.stmt = s PROVE ~x.text.tail
        <5>1. pc = "again"
          BY <1>0, <2>1, <3>1, <4>1 DEF RunningInv
        <5>2. x.entry # "hit"
          BY <1>0, <5>1 DEF RunningInv
        <5> QED
          BY <1>0, <2>2, <5>2 DEF MoreText
      <4> QED
        BY <4>1
    <3> QED
      BY <2>1, <3>2, <3>3
  <2>3. CASE MoreText
    <3>1. s \in {<<x.id, x.stmt[2] + 1>>, Bad, Null}
      BY <1>2, <2>3 DEF Ahead
    <3>2. x.stmt[2] \in Nat
      BY <2>1
    <3>3. x.stmt # s
      BY <2>1, <3>1, <3>2
    <3>4. s \in Id => s = <<x.id, x.stmt[2] + 1>>
      BY <3>1
    <3>5. x.stmt[2] > 0
      <4>1. CASE x.cache
        BY <1>0, <2>1, <4>1 DEF RunningInv
      <4>2. CASE pc = "again"
        BY <1>0, <2>1, <4>2 DEF RunningInv
      <4>3. CASE pc = "first" /\ ~x.cache
        BY <1>0, <2>1, <4>3 DEF RunningInv
      <4> QED
        BY <1>0, <4>1, <4>2, <4>3
    <3>6. s \in Id => s \in open' /\ s[1] = x.id /\ s[2] > 1
      BY <1>0, <1>2, <2>3, <3>2, <3>4, <3>5
    <3> QED
      BY <2>1, <3>3, <3>6
  <2> QED
    BY <2>2, <2>3
<1>3. CASE x.stmt \in Id
  <2>1. PICK s \in Ahead :
          /\ SameCall /\ x'.stmt = x.stmt /\ UNCHANGED <<h, misuse, status>>
          /\ x'.stmt2 = s
          /\ open' = IF MoreText /\ s \in Id THEN open \cup {s} ELSE open
          /\ \/ pc' = "fail" /\ x.cache /\ x'.entry = x.entry /\ prepared' = prepared
             \/ /\ pc' = "step" /\ ~(x.cache /\ s # Null)
                /\ prepared' = IF x.entry = "new" THEN [prepared EXCEPT ![x.text] = x.stmt]
                                                  ELSE prepared
                /\ x'.entry = IF x.entry = "new" THEN "none" ELSE x.entry
    BY <1>3, LookAheadCases
  <2>2. /\ x.stmt \in open'
        /\ s \in Id => s \in open' /\ s[1] = x.id /\ s[2] > 1
        /\ x.stmt = s => ~x.text.tail
        /\ open \subseteq open'
    BY <1>2, <1>3, <2>1
  <2>3. PreparedInv' /\ UniqueInv'
    <3>1. CASE prepared' # prepared
      <4>1. x.entry = "new" /\ x.cache /\ x.stmt[1] = x.id /\ x.stmt[2] = 1
        BY <1>0, <1>3, <2>1, <3>1 DEF RunningInv
      <4>2. prepared' = [prepared EXCEPT ![x.text] = x.stmt]
        BY <2>1, <3>1
      <4>3. ASSUME NEW t \in Texts, prepared'[t] # Null
            PROVE  /\ prepared'[t] \in open'
                   /\ prepared'[t][1] <= x.id /\ prepared'[t][2] = 1
                   /\ prepared'[t][1] = x.id => x.cache /\ t = x.text
        <5>1. CASE t = x.text
          <6>1. prepared'[t] = x.stmt
            BY <4>2, <5>1
          <6> QED
            BY <1>0, <2>2, <4>1, <5>1, <6>1
        <5>2. CASE t # x.text
          <6>1. prepared'[t] = prepared[t]
            BY <4>2, <5>2
          <6> QED
            BY <2>2, <4>3, <6>1 DEF PreparedInv
        <5> QED
          BY <5>1, <5>2
      <4>4. PreparedInv'
        BY <2>1, <4>3 DEF PreparedInv, SameCall
      <4>5. ASSUME NEW t \in Texts, NEW u \in Texts,
                   prepared'[t] = prepared'[u], prepared'[t] # Null, t # x.text
            PROVE  t = u
        <5>1. prepared'[t] = prepared[t] /\ prepared'[t][1] # x.id
          BY <4>2, <4>3, <4>5 DEF PreparedInv
        <5>2. u # x.text
          BY <4>1, <4>2, <4>5, <5>1
        <5>3. prepared'[u] = prepared[u]
          BY <4>2, <5>2
        <5>4. prepared[t] = prepared[u] /\ prepared[t] # Null
          BY <4>5, <5>1, <5>3, Zenon
        <5> QED
          BY <5>4, Zenon DEF UniqueInv
      <4>6. ASSUME NEW t \in Texts, NEW u \in Texts,
                   prepared'[t] = prepared'[u], prepared'[t] # Null
            PROVE  t = u
        <5>1. CASE t # x.text
          BY <4>5, <4>6, <5>1
        <5>2. CASE u # x.text
          BY <4>5, <4>6, <5>2
        <5> QED
          BY <5>1, <5>2
      <4> QED
        BY <4>4, <4>6 DEF UniqueInv
    <3>2. CASE prepared' = prepared
      BY <2>1, <2>2, <3>2 DEF PreparedInv, UniqueInv, SameCall
    <3> QED
      BY <3>1, <3>2
  <2>4. KnownDoubleFinalize'
    BY <2>1 DEF KnownDoubleFinalize
  <2>5. CurrentInv'
    BY <1>0, <2>1, <2>2 DEF CurrentInv, SameCall
  <2>6. RunningInv'
    BY <1>0, <1>3, <2>1, <2>2 DEF RunningInv, SameCall
  <2> QED
    BY <2>3, <2>4, <2>5, <2>6
<1> QED
  BY <1>1, <1>3, LookAheadCases

(* A step of the command takes nothing from the statements but the pointer. *)
LEMMA AdvancedCache ==
    ASSUME ExecInv, CacheInv, ~misuse, pc = "step", NEW l \in {"done", "row", "soft"}, Advanced(l)
    PROVE  CacheInv'
<1> USE IdFacts, TypeParts, PrefixFacts DEF ExecInv, CacheInv
<1>1. x \in Locals /\ x.stmt \in Id /\ x.stmt2 \in Statement \cup {Bad} /\ x.cache \in BOOLEAN /\ x.id \in Nat
  BY DEF StmtInv, Locals
<1>2. /\ pc' = IF x.stmt2 = Null THEN "commit" ELSE "again"
      /\ UNCHANGED <<h, prepared, open, misuse, status>>
      /\ x'.id = x.id /\ x'.text = x.text /\ x'.cache = x.cache /\ x'.entry = x.entry
      /\ x'.stmt = IF x.stmt2 = Null THEN x.stmt ELSE x.stmt2
      /\ x'.stmt2 = IF x.stmt2 = Bad THEN Null ELSE x.stmt2
  BY <1>1 DEF Advanced, Locals
<1>3. UniqueInv' /\ PreparedInv' /\ KnownDoubleFinalize'
  BY <1>2 DEF UniqueInv, PreparedInv, KnownDoubleFinalize
<1>4. CurrentInv'
  BY <1>1, <1>2 DEF CurrentInv
<1>5. RunningInv'
  <2>1. CASE x.stmt2 = Null
    BY <1>1, <1>2, <2>1 DEF RunningInv
  <2>2. CASE x.stmt2 # Null
    BY <1>1, <1>2, <2>2 DEF RunningInv
  <2> QED
    BY <2>1, <2>2
<1> QED
  BY <1>3, <1>4, <1>5

LEMMA StepCache ==
    ASSUME ExecInv, CacheInv, ~misuse, StepDone \/ StepRow \/ StepError \/ StepSoft
    PROVE  CacheInv'
<1>1. CASE StepDone \/ StepRow \/ StepSoft
  BY <1>1, AdvancedCache DEF StepDone, StepRow, StepSoft
<1>2. CASE StepError
  <2>1. pc = "step" /\ pc' = "fail" /\ UNCHANGED <<x, h, prepared, open, misuse, conn, status>>
    BY <1>2 DEF StepError
  <2>2. UniqueInv' /\ PreparedInv' /\ KnownDoubleFinalize'
    BY <2>1 DEF CacheInv, UniqueInv, PreparedInv, KnownDoubleFinalize
  <2>3. CurrentInv'
    BY <2>1 DEF CacheInv, CurrentInv
  <2>4. RunningInv'
    BY <2>1 DEF CacheInv, RunningInv
  <2> QED
    BY <2>2, <2>3, <2>4 DEF CacheInv
<1> QED
  BY <1>1, <1>2

LEMMA AutoCommitCache ==
    ASSUME ExecInv, CacheInv, ~misuse, AutoCommit
    PROVE  CacheInv'
<1> USE IdFacts, TypeParts, PrefixFacts DEF ExecInv, CacheInv
<1>1. pc = "commit" /\ pc' \in {"fail", "deliver"} /\ UNCHANGED <<x, prepared, status>>
  BY DEF AutoCommit
<1>2. UNCHANGED <<open, misuse>> /\ (h' = h \/ h' = Cleared)
  <2>1. CASE ClearResult
    <3>1. ClearVictim = Null
      BY <1>1 DEF ClearVictim, CurrentInv
    <3> QED
      BY <2>1, <3>1 DEF ClearResult, Finalize
  <2> QED
    BY <2>1 DEF AutoCommit
<1>3. h \in Handle /\ (h'.cur # Null => h'.cur = h.cur /\ h'.cached = h.cached)
  BY <1>2 DEF Cleared
<1>4. UniqueInv' /\ PreparedInv' /\ KnownDoubleFinalize'
  BY <1>1, <1>2 DEF UniqueInv, PreparedInv, KnownDoubleFinalize
<1>5. CurrentInv'
  BY <1>1, <1>2, <1>3 DEF CurrentInv
<1>6. RunningInv'
  BY <1>1, <1>2 DEF RunningInv
<1> QED
  BY <1>4, <1>5, <1>6

LEMMA DeliverCache ==
    ASSUME ExecInv, CacheInv, ~misuse, Deliver
    PROVE  CacheInv'
<1> USE IdFacts, TypeParts, PrefixFacts DEF ExecInv, CacheInv
<1>0. /\ pc = "deliver" /\ x.stmt \in Id /\ x.cache \in BOOLEAN /\ x.id \in Nat
      /\ x.stmt \in open /\ x.stmt[1] <= x.id /\ x.stmt2 = Null
      /\ ~x.cache => x.stmt[1] = x.id
      /\ x.cache => x.stmt[2] = 1
      /\ UNCHANGED <<x, prepared, conn>>
  BY DEF Deliver, StmtInv, Locals, RunningInv
<1>1. CASE /\ pc' = "idle" /\ UNCHANGED <<open, misuse>>
           /\ h' = [cur |-> x.stmt, cached |-> x.cache, fields |-> TRUE]
  <2>1. UniqueInv' /\ PreparedInv' /\ KnownDoubleFinalize'
    BY <1>0, <1>1 DEF UniqueInv, PreparedInv, KnownDoubleFinalize
  <2>2. CurrentInv'
    BY <1>0, <1>1 DEF CurrentInv
  <2>3. RunningInv'
    BY <1>1 DEF RunningInv
  <2> QED
    BY <2>1, <2>2, <2>3
<1>2. CASE /\ pc' = "idle"
           /\ h' = [cur |-> IF x.cache THEN x.stmt ELSE Null,
                    cached |-> x.cache, fields |-> FALSE]
           /\ Finalize({IF x.cache THEN Null ELSE x.stmt})
  <2>1. /\ open' = open \ {IF x.cache THEN Null ELSE x.stmt} /\ ~misuse'
    BY <1>0, <1>2 DEF Finalize
  <2>2. PreparedInv' /\ UniqueInv'
    <3>1. CASE x.cache
      BY <1>0, <2>1, <3>1 DEF PreparedInv, UniqueInv
    <3>2. CASE ~x.cache
      BY <1>0, <2>1, <3>2 DEF PreparedInv, UniqueInv
    <3> QED
      BY <3>1, <3>2
  <2>3. CurrentInv'
    BY <1>0, <1>2, <2>1 DEF CurrentInv
  <2>4. RunningInv' /\ KnownDoubleFinalize'
    BY <1>2, <2>1 DEF RunningInv, KnownDoubleFinalize
  <2> QED
    BY <2>2, <2>3, <2>4
<1>3. CASE /\ ~x.fetch /\ RowFaults /\ x.last = "row"
           /\ h' = [h EXCEPT !.cur = x.stmt, !.cached = x.cache]
           /\ pc' = "fail" /\ UNCHANGED <<open, misuse, status>>
  <2>1. h'.cur = x.stmt /\ h'.cached = x.cache
    BY <1>3 DEF Handle
  <2>2. UniqueInv' /\ PreparedInv' /\ KnownDoubleFinalize'
    BY <1>0, <1>3 DEF UniqueInv, PreparedInv, KnownDoubleFinalize
  <2>3. CurrentInv'
    BY <1>0, <1>3, <2>1 DEF CurrentInv
  <2>4. RunningInv'
    BY <1>0, <1>3 DEF RunningInv
  <2> QED
    BY <2>2, <2>3, <2>4
<1> QED
  BY <1>1, <1>2, <1>3 DEF Deliver

LEMMA FailCache ==
    ASSUME ExecInv, CacheInv, ~misuse, Fail
    PROVE  CacheInv'
<1> USE IdFacts, TypeParts, PrefixFacts DEF ExecInv, CacheInv
<1> DEFINE first == IF x.cache THEN Null ELSE x.stmt
<1>0. /\ pc = "fail" /\ pc' = "idle" /\ status' = "error" /\ h' = Cleared /\ x' = x
      /\ x.cache \in BOOLEAN /\ x.id \in Nat /\ h \in Handle /\ x.text \in Texts
      /\ x.stmt \in Statement \cup {Bad} /\ x.stmt2 \in Statement \cup {Bad}
      /\ prepared' = IF x.entry # "none" THEN [prepared EXCEPT ![x.text] = Null] ELSE prepared
      /\ open' = open \ {first, x.stmt2, ClearVictim}
      /\ misuse' = \/ \E s \in {first, x.stmt2, ClearVictim} \cap Id : s \notin open
                   \/ first \in Id /\ first \in {x.stmt2, ClearVictim}
                   \/ x.stmt2 \in Id /\ x.stmt2 = ClearVictim
  BY DEF Fail, Locals
<1>1. /\ first \in Id => first \in open /\ first[1] = x.id /\ ~x.cache /\ first = x.stmt
      /\ x.stmt2 \in Id => x.stmt2 \in open /\ x.stmt2[1] = x.id /\ x.stmt2[2] > 1
      /\ ClearVictim # Null => /\ ClearVictim \in Id /\ ClearVictim \in open /\ ClearVictim[1] = x.id
                               /\ ~x.cache /\ RowFaults /\ x.last = "row" /\ ~x.fetch
  <2>1. first \in Id => first \in open /\ first[1] = x.id /\ ~x.cache /\ first = x.stmt
    BY <1>0 DEF RunningInv
  <2>2. x.stmt2 \in Id => x.stmt2 \in open /\ x.stmt2[1] = x.id /\ x.stmt2[2] > 1
    BY <1>0 DEF RunningInv
  <2>3. ClearVictim # Null => h.cur # Null /\ ~h.cached /\ ClearVictim = h.cur
    BY DEF ClearVictim
  <2> QED
    BY <1>0, <2>1, <2>2, <2>3 DEF CurrentInv
<1>2. KnownDoubleFinalize'
  <2>1. SUFFICES ASSUME misuse'
                 PROVE  /\ ~x.cache
                        /\ \/ RowFaults /\ x.last = "row" /\ ~x.fetch
                           \/ ~x.text.tail /\ x.stmt = x.stmt2
    BY <1>0 DEF KnownDoubleFinalize
  <2>2. CASE ClearVictim # Null
    BY <1>1, <2>2
  <2>3. CASE ClearVictim = Null
    <3>1. first \in Id /\ first = x.stmt2
      <4>1. ~(x.stmt2 \in Id /\ x.stmt2 = ClearVictim)
        BY <2>3
      <4>2. ~\E s \in {first, x.stmt2, ClearVictim} \cap Id : s \notin open
        BY <1>1, <2>3
      <4>3. first \in Id /\ first \in {x.stmt2, ClearVictim}
        BY <1>0, <2>1, <4>1, <4>2
      <4> QED
        BY <2>3, <4>3
    <3> QED
      BY <1>0, <1>1, <3>1 DEF RunningInv
  <2> QED
    BY <2>2, <2>3
<1>3. PreparedInv' /\ UniqueInv'
  <2>1. ASSUME NEW t \in Texts, prepared'[t] # Null
        PROVE  prepared'[t] = prepared[t] /\ prepared[t] \in Id /\ prepared[t] \in open'
    <3>1. prepared'[t] = prepared[t] /\ prepared[t] \in Id
      BY <1>0, <2>1
    <3>2. prepared[t] \in open /\ prepared[t][2] = 1 /\ (prepared[t][1] = x.id => x.cache)
      BY <2>1, <3>1 DEF PreparedInv
    <3>3. prepared[t] \notin {first, x.stmt2, ClearVictim}
      BY <1>1, <3>1, <3>2
    <3> QED
      BY <1>0, <3>1, <3>2, <3>3
  <2> QED
    BY <1>0, <2>1 DEF PreparedInv, UniqueInv
<1>4. CurrentInv'
  <2>1. ASSUME h'.cur # Null
        PROVE  h.cached /\ h'.cur = h.cur /\ h'.cached /\ h.cur \in Id
    BY <1>0, <2>1 DEF Cleared, Handle
  <2>2. ASSUME h'.cur # Null
        PROVE  h.cur \notin {first, x.stmt2, ClearVictim}
    BY <1>0, <1>1, <2>1, <2>2 DEF CurrentInv
  <2> QED
    BY <1>0, <2>1, <2>2 DEF CurrentInv
<1>5. RunningInv'
  BY <1>0 DEF RunningInv
<1> QED
  BY <1>2, <1>3, <1>4, <1>5

LEMMA UserCache ==
    ASSUME ExecInv, CacheInv, ~misuse, UserBegin \/ UserCommit \/ UserRollback
    PROVE  CacheInv'
<1> USE IdFacts, TypeParts, PrefixFacts DEF ExecInv, CacheInv
<1>1. pc = "idle" /\ UNCHANGED <<pc, x, prepared, status>> /\ h' = Cleared /\ Finalize({ClearVictim})
  BY DEF UserBegin, UserCommit, UserRollback, ClearResult
<1>2. open' = open \ {ClearVictim} /\ ~misuse'
  <2>1. ClearVictim = Null \/ ClearVictim \in open
    BY DEF ClearVictim, CurrentInv
  <2> QED
    BY <1>1, <2>1 DEF Finalize
<1>3. \A u \in Texts : prepared[u] # Null => prepared[u] # ClearVictim
  BY DEF PreparedInv, CurrentInv, ClearVictim
<1>4. PreparedInv' /\ UniqueInv'
  BY <1>1, <1>2, <1>3 DEF PreparedInv, UniqueInv
<1>5. CurrentInv'
  <2>1. ASSUME h'.cur # Null
        PROVE  h.cached /\ h'.cur = h.cur /\ h'.cached /\ ClearVictim = Null
    BY <1>1, <2>1 DEF Cleared, ClearVictim, Handle
  <2> QED
    BY <1>1, <1>2, <2>1 DEF CurrentInv
<1>6. RunningInv' /\ KnownDoubleFinalize'
  BY <1>1, <1>2 DEF RunningInv, KnownDoubleFinalize
<1> QED
  BY <1>4, <1>5, <1>6

LEMMA CacheStepInv == ExecInv /\ CacheInv /\ [Next]_vars => CacheInv'
<1> SUFFICES ASSUME ExecInv, CacheInv, [Next]_vars PROVE CacheInv'
  OBVIOUS
<1>1. CASE UNCHANGED vars
  BY <1>1 DEF vars, CacheInv, UniqueInv, PreparedInv, CurrentInv, RunningInv, KnownDoubleFinalize
<1>2. CASE Next
  <2>0. ~misuse
    BY <1>2 DEF Next
  <2>1. ASSUME NEW t \in Texts, NEW c \in BOOLEAN, NEW f \in BOOLEAN, Call(t, c, f)
        PROVE  CacheInv'
    BY <2>0, <2>1, CallCache
  <2>2. CASE ExecStep
    BY <2>0, <2>2, PrepareCache, LookAheadCache, StepCache, AutoCommitCache, DeliverCache, FailCache
       DEF ExecStep
  <2>3. CASE UserBegin \/ UserCommit \/ UserRollback
    BY <2>0, <2>3, UserCache
  <2> QED
    BY <1>2, <2>1, <2>2, <2>3 DEF Next
<1> QED
  BY <1>1, <1>2

LEMMA CacheAlways == Spec => [](ExecInv /\ CacheInv)
<1>1. Init => CacheInv
  BY DEF Init, NoCall, CacheInv, UniqueInv, PreparedInv, CurrentInv, RunningInv, KnownDoubleFinalize
<1> QED
  BY <1>1, CacheStepInv, ExecAlways, PTL DEF Spec

------------------------------------------------------------------------------
(* The statement cache of dbi_Sqlite3_Exec never names a statement that the *)
(* error exit or the clearing of a result has finalized, and never names    *)
(* one statement for two texts.                                             *)
THEOREM ExecCacheLive == Spec => []CacheLive
<1>1. CacheInv => CacheLive
  BY DEF CacheInv, UniqueInv, PreparedInv, CacheLive
<1> QED
  BY <1>1, CacheAlways, PTL

(* The statement that fetch steps and reads has not been finalized, and is  *)
(* in the cache only if it is marked as cached, so that clearing a result   *)
(* never takes a statement from the cache.                                  *)
THEOREM ExecCurrentLive == Spec => []CurrentLive
<1>1. ExecInv /\ CacheInv => CurrentLive
  BY IdFacts DEF CacheInv, PreparedInv, CurrentInv, CurrentLive
<1> QED
  BY <1>1, CacheAlways, PTL

(* dbi_Sqlite3_Exec finalizes a statement twice in the two situations named *)
(* in KnownDoubleFinalize and in no other, whatever fails and in which      *)
(* phase.                                                                   *)
THEOREM ExecDoubleFinalize == Spec => []KnownDoubleFinalize
<1>1. CacheInv => KnownDoubleFinalize
  BY DEF CacheInv
<1> QED
  BY <1>1, CacheAlways, PTL
===============================================================================
