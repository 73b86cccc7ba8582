-------------------------- MODULE Sqlite3SerialProofs --------------------------
(* Theorems about Sqlite3Serial, for any number of processes, attempts and  *)
(* calls, with their proofs.  BaseInv holds whatever happens; ExclInv, on   *)
(* top of it, when no process is robbed of the lock while it is at work     *)
(* (Disciplined).                                                           *)
EXTENDS Sqlite3Serial, TLAPS

------------------------------------------------------------------------------
(* The inductive invariant, in named parts. *)

Forced(p) == pc[p] \in {"forced select", "forced unlock", "commit"}
HasRead(p) == pc[p] \in {"unlock", "forced unlock", "commit"}

(* Who has written in a transaction, and where that is certain. *)
WriterInv ==
    /\ writer # Nobody => writer \in Proc /\ txn[writer]
    /\ \A p \in Proc :
        /\ pc[p] = "forced update" => txn[p]
        /\ Forced(p) => writer = p
        /\ InLock(p) /\ txn[p] => writer = p

(* A transaction never lowers the serial; a number is covered by the row of *)
(* the database that it was returned from, or is about to be.               *)
Covered(g) == IF g.final THEN g.n <= row.serial
              ELSE writer = g.proc /\ g.n <= draft.serial
DraftAbove == writer # Nobody => row.serial <= draft.serial
GivenInv   == \A g \in given : Covered(g)
CurrentInv == \A p \in Proc : HasRead(p) => current[p] <= Seen(p).serial

BaseInv == TypeOK /\ WriterInv /\ DraftAbove /\ GivenInv /\ CurrentInv

------------------------------------------------------------------------------
(* Facts about rows, types and writes. *)

LEMMA RowFacts ==
    /\ \A r \in Row : /\ r.serial \in Nat /\ r.locked \in BOOLEAN
                      /\ [r EXCEPT !.serial = @ + 1] \in Row
                      /\ [r EXCEPT !.serial = @ + 1].serial = r.serial + 1
                      /\ [r EXCEPT !.serial = @ + 1].locked = r.locked
                      /\ [r EXCEPT !.locked = FALSE] \in Row
                      /\ [r EXCEPT !.locked = FALSE].serial = r.serial
    /\ \A n \in Nat : [serial |-> n, locked |-> TRUE] \in Row
    /\ \A n : [serial |-> n, locked |-> TRUE].serial = n
    /\ \A n : [serial |-> n, locked |-> TRUE].locked = TRUE
    /\ NoDraft \in Row
<1>1. \A r \in Row : r.serial \in Nat /\ r.locked \in BOOLEAN
  BY DEF Row
<1>2. \A r \in Row : [r EXCEPT !.serial = @ + 1] \in Row
  BY DEF Row
<1>3. \A r \in Row : [r EXCEPT !.locked = FALSE] \in Row
  BY DEF Row
<1>4. \A r \in Row : /\ [r EXCEPT !.serial = @ + 1].serial = r.serial + 1
                     /\ [r EXCEPT !.serial = @ + 1].locked = r.locked
                     /\ [r EXCEPT !.locked = FALSE].serial = r.serial
  BY DEF Row
<1>5. \A n \in Nat : [serial |-> n, locked |-> TRUE] \in Row
  BY DEF Row
<1>6. \A n : /\ [serial |-> n, locked |-> TRUE].serial = n
             /\ [serial |-> n, locked |-> TRUE].locked = TRUE
  OBVIOUS
<1>7. NoDraft \in Row
  BY DEF Row, NoDraft
<1> QED
  BY <1>1, <1>2, <1>3, <1>4, <1>5, <1>6, <1>7

LEMMA Types ==
    ASSUME TypeOK
    PROVE  /\ row \in Row /\ draft \in Row
           /\ row.serial \in Nat /\ draft.serial \in Nat
           /\ \A p \in Proc : Seen(p) \in Row /\ Seen(p).serial \in Nat
           /\ \A p \in Proc : current[p] \in Nat /\ txn[p] \in BOOLEAN
           /\ \A g \in given : g.n \in Nat /\ g.final \in BOOLEAN /\ g.proc \in Proc
<1>1. row \in Row /\ draft \in Row
  BY DEF TypeOK
<1>2. \A g \in given : g.n \in Nat /\ g.final \in BOOLEAN /\ g.proc \in Proc
  BY DEF TypeOK, Number
<1>3. \A p \in Proc : current[p] \in Nat /\ txn[p] \in BOOLEAN
  BY DEF TypeOK
<1>4. \A p \in Proc : Seen(p) \in Row
  BY <1>1 DEF Seen
<1> QED
  BY <1>1, <1>2, <1>3, <1>4, RowFacts

LEMMA WriteFacts ==
    ASSUME NEW p \in Proc, NEW r, Write(p, r)
    PROVE  /\ writer \in {Nobody, p} /\ writer' = IF txn[p] THEN p ELSE writer
           /\ row' = IF txn[p] THEN row ELSE r
           /\ draft' = IF txn[p] THEN r ELSE draft
BY DEF Write, CanWrite

(* Which row each of the writing actions writes. *)
LEMMA Writes ==
    ASSUME TypeOK, NEW p \in Proc,
           Lock(p) \/ Miss(p) \/ Unlock(p) \/ ForceUpdate(p) \/ ForceUnlock(p) \/ Insert(p)
    PROVE  \E r \in Row :
              /\ Write(p, r)
              /\ Seen(p).serial <= r.serial
              /\ Insert(p) => r.serial = Seen(p).serial + 1
<1>1. Seen(p) \in Row /\ Seen(p).serial \in Nat /\ Seen(p).serial + 1 \in Nat
  BY Types
<1>2. CASE Lock(p)
  <2> DEFINE r == [serial |-> Seen(p).serial + 1, locked |-> TRUE]
  <2>1. Write(p, r) /\ ~Insert(p)
    BY <1>2 DEF Lock, Insert
  <2>2. r \in Row /\ r.serial = Seen(p).serial + 1
    BY <1>1, RowFacts
  <2> HIDE DEF r
  <2> QED
    BY <1>1, <2>1, <2>2
<1>3. CASE Miss(p)
  BY <1>1, <1>3 DEF Miss, Insert
<1>4. CASE Unlock(p) \/ ForceUnlock(p)
  <2> DEFINE r == [Seen(p) EXCEPT !.locked = FALSE]
  <2>1. Write(p, r) /\ ~Insert(p)
    BY <1>4 DEF Unlock, ForceUnlock, Insert
  <2>2. r \in Row /\ r.serial = Seen(p).serial
    BY <1>1, RowFacts
  <2> HIDE DEF r
  <2> QED
    BY <1>1, <2>1, <2>2
<1>5. CASE ForceUpdate(p) \/ Insert(p)
  <2> DEFINE r == [Seen(p) EXCEPT !.serial = @ + 1]
  <2>1. Write(p, r)
    BY <1>5 DEF ForceUpdate, Insert
  <2>2. r \in Row /\ r.serial = Seen(p).serial + 1
    BY <1>1, RowFacts
  <2> HIDE DEF r
  <2> QED
    BY <1>1, <2>1, <2>2
<1> QED
  BY <1>2, <1>3, <1>4, <1>5

------------------------------------------------------------------------------
(* The types. *)

LEMMA TypeStep == TypeOK /\ [Next]_vars => TypeOK'
<1> SUFFICES ASSUME TypeOK, [Next]_vars
             PROVE  TypeOK'
  OBVIOUS
<1>1. pc' \in [Proc -> Phase] /\ txn' \in [Proc -> BOOLEAN] /\ user' \in [Proc -> BOOLEAN]
  <2> USE DEF Next, vars, Step, Progress, Call, Lock, Miss, Select, Unlock, ForceBegin, ForceUpdate,
              ForceUnlock, ForceCommit, Error, Insert, UserBegin, UserCommit, UserRollback, Crash
  <2>1. pc' \in [Proc -> Phase]
    BY DEF TypeOK, Phase
  <2>2. txn' \in [Proc -> BOOLEAN] /\ user' \in [Proc -> BOOLEAN]
    BY DEF TypeOK
  <2> QED
    BY <2>1, <2>2
<1>2. tries' \in [Proc -> Nat]
  <2>1. ASSUME NEW p \in Proc, Call(p) PROVE tries' \in [Proc -> Nat]
    BY <2>1 DEF Call, TypeOK
  <2>2. ASSUME NEW p \in Proc, Miss(p) PROVE tries' \in [Proc -> Nat]
    BY <2>2 DEF Miss, TypeOK
  <2> QED
    BY <2>1, <2>2
    DEF TypeOK, Next, vars, Step, Progress, Lock, Select, Unlock, ForceBegin, ForceUpdate, ForceUnlock,
        ForceCommit, Error, Insert, UserBegin, UserCommit, UserRollback, Crash
<1>3. calls' \in [Proc -> Nat]
  <2>1. ASSUME NEW p \in Proc, Call(p) \/ Insert(p) PROVE calls' \in [Proc -> Nat]
    BY <2>1 DEF Call, Insert, TypeOK
  <2> QED
    BY <2>1
    DEF TypeOK, Next, vars, Step, Progress, Lock, Miss, Select, Unlock, ForceBegin, ForceUpdate,
        ForceUnlock, ForceCommit, Error, UserBegin, UserCommit, UserRollback, Crash
<1>4. current' \in [Proc -> Nat]
  BY Types DEF TypeOK, Next, vars, Step, Progress, Call, Lock, Miss, Select, Unlock, ForceBegin,
     ForceUpdate, ForceUnlock, ForceCommit, Error, Insert, UserBegin, UserCommit, UserRollback,
     Crash
<1>5. row' \in Row /\ draft' \in Row /\ writer' \in Proc \cup {Nobody}
  <2>1. ASSUME NEW p \in Proc,
               Lock(p) \/ Miss(p) \/ Unlock(p) \/ ForceUpdate(p) \/ ForceUnlock(p) \/ Insert(p)
        PROVE  row' \in Row /\ draft' \in Row /\ writer' \in Proc \cup {Nobody}
    <3>1. PICK r \in Row : Write(p, r)
      BY <2>1, Writes
    <3> QED
      BY <3>1, WriteFacts DEF TypeOK
  <2>2. ASSUME NEW p \in Proc, CommitRow(p) \/ DropDraft(p)
        PROVE  row' \in Row /\ draft' \in Row /\ writer' \in Proc \cup {Nobody}
    BY <2>2, Types, RowFacts DEF CommitRow, DropDraft, TypeOK
  <2> QED
    BY <2>1, <2>2
    DEF TypeOK, Next, vars, Step, Progress, Call, Select, ForceBegin, ForceCommit, Error, UserBegin,
        UserCommit, UserRollback, Crash
<1>6. given' \subseteq Number
  <2>1. ASSUME NEW p \in Proc PROVE Final(p) \subseteq Number
    BY DEF Mine, Final, Number, TypeOK
  <2>2. ASSUME NEW p \in Proc, NEW n \in Nat, NEW f \in BOOLEAN
        PROVE  Return(p, n, f) \in Number
    BY DEF Return, Number, TypeOK
  <2>3. ASSUME NEW p \in Proc
        PROVE  current[p] \in Nat /\ (~txn[p]) \in BOOLEAN /\ Seen(p).serial + 1 \in Nat
    BY Types
  <2>4. ASSUME NEW p \in Proc, Unlock(p) \/ ForceCommit(p) \/ Insert(p)
        PROVE  given' \subseteq Number
    <3>1. given \subseteq Number
      BY DEF TypeOK
    <3>2. CASE Unlock(p)
      BY <2>2, <2>3, <3>1, <3>2 DEF Unlock
    <3>3. CASE ForceCommit(p)
      BY <2>1, <2>2, <2>3, <3>3 DEF ForceCommit
    <3>4. CASE Insert(p)
      BY <2>2, <2>3, <3>1, <3>4 DEF Insert
    <3> QED
      BY <2>4, <3>2, <3>3, <3>4
  <2> QED
    BY <2>1, <2>4
    DEF TypeOK, Next, vars, Step, Progress, Call, Lock, Miss, Select, ForceBegin, ForceUpdate,
        ForceUnlock, Error, DropDraft, UserBegin, UserCommit, UserRollback, Crash
<1> QED
  BY <1>1, <1>2, <1>3, <1>4, <1>5, <1>6 DEF TypeOK

(* Who has written. *)
LEMMA WriterStep == TypeOK /\ WriterInv /\ [Next]_vars => WriterInv'
<1> SUFFICES ASSUME TypeOK, WriterInv, [Next]_vars
             PROVE  WriterInv'
  OBVIOUS
<1> USE SerialAssumption DEF WriterInv, Forced, InLock
<1>0. pc \in [Proc -> Phase] /\ txn \in [Proc -> BOOLEAN]
  BY DEF TypeOK
<1>1. ASSUME NEW p \in Proc, Call(p) PROVE WriterInv'
  BY <1>0, <1>1 DEF Call
<1>2. ASSUME NEW p \in Proc, Lock(p) PROVE WriterInv'
  BY <1>0, <1>2, WriteFacts DEF Lock
<1>3. ASSUME NEW p \in Proc, Miss(p) PROVE WriterInv'
  BY <1>0, <1>3, WriteFacts DEF Miss
<1>4. ASSUME NEW p \in Proc, Select(p) PROVE WriterInv'
  BY <1>0, <1>4 DEF Select
<1>5. ASSUME NEW p \in Proc, Unlock(p) PROVE WriterInv'
  BY <1>0, <1>5, WriteFacts DEF Unlock
<1>6. ASSUME NEW p \in Proc, ForceBegin(p) PROVE WriterInv'
  BY <1>0, <1>6 DEF ForceBegin, CommitRow
<1>7. ASSUME NEW p \in Proc, ForceUpdate(p) PROVE WriterInv'
  BY <1>0, <1>7, WriteFacts DEF ForceUpdate
<1>8. ASSUME NEW p \in Proc, ForceUnlock(p) PROVE WriterInv'
  BY <1>0, <1>8, WriteFacts DEF ForceUnlock
<1>9. ASSUME NEW p \in Proc, ForceCommit(p) PROVE WriterInv'
  BY <1>0, <1>9 DEF ForceCommit, CommitRow
<1>10. ASSUME NEW p \in Proc, Error(p) PROVE WriterInv'
  BY <1>0, <1>10 DEF Error
<1>11. ASSUME NEW p \in Proc, Insert(p) PROVE WriterInv'
  BY <1>0, <1>11, WriteFacts DEF Insert
<1>12. ASSUME NEW p \in Proc, UserBegin(p) PROVE WriterInv'
  BY <1>0, <1>12 DEF UserBegin, CommitRow
<1>13. ASSUME NEW p \in Proc, UserCommit(p) PROVE WriterInv'
  BY <1>0, <1>13 DEF UserCommit, CommitRow
<1>14. ASSUME NEW p \in Proc, UserRollback(p) PROVE WriterInv'
  BY <1>0, <1>14 DEF UserRollback, DropDraft
<1>15. ASSUME NEW p \in Proc, Crash(p) PROVE WriterInv'
  BY <1>0, <1>15 DEF Crash, DropDraft
<1>16. CASE UNCHANGED vars
  BY <1>16 DEF vars
<1> QED
  BY <1>1, <1>2, <1>3, <1>4, <1>5, <1>6, <1>7, <1>8, <1>9,
     <1>10, <1>11, <1>12, <1>13, <1>14, <1>15, <1>16 DEF Next, Step, Progress

------------------------------------------------------------------------------
(* What writing, committing and rolling back do to the serial: for every    *)
(* process it is raised or stays.                                           *)

Raised(p) == Seen(p).serial <= Seen(p)'.serial

LEMMA SeenAbove ==
    ASSUME TypeOK, DraftAbove, NEW p \in Proc
    PROVE  row.serial <= Seen(p).serial
<1>1. CASE writer = p
  BY <1>1, SerialAssumption DEF DraftAbove, Seen
<1>2. CASE writer # p
  BY <1>2, Types DEF Seen
<1> QED
  BY <1>1, <1>2

LEMMA WriteCovers ==
    ASSUME BaseInv, NEW p \in Proc, NEW r \in Row, Write(p, r),
           Seen(p).serial <= r.serial
    PROVE  /\ DraftAbove' /\ \A g \in given : Covered(g)'
           /\ \A q \in Proc : Raised(q)
           /\ Seen(p)' = r
<1> USE SerialAssumption
<1>1. /\ TypeOK /\ WriterInv /\ DraftAbove /\ GivenInv
      /\ r.serial \in Nat /\ row.serial \in Nat /\ draft.serial \in Nat
      /\ Seen(p).serial \in Nat
  BY RowFacts, Types DEF BaseInv
<1>2. row.serial <= Seen(p).serial
  BY <1>1, SeenAbove
<1>3. row.serial <= r.serial
  BY <1>1, <1>2
<1>4. CASE txn[p]
  <2>1. row' = row /\ draft' = r /\ writer' = p /\ writer \in {Nobody, p}
    BY <1>4, WriteFacts
  <2>2. ASSUME NEW g \in given PROVE Covered(g)'
    <3>1. g.n \in Nat /\ g.final \in BOOLEAN /\ g.proc \in Proc /\ Covered(g)
      BY <1>1, Types DEF GivenInv
    <3>2. CASE g.final
      BY <2>1, <3>1, <3>2 DEF Covered
    <3>3. CASE ~g.final
      <4>1. writer = p /\ g.proc = p /\ g.n <= draft.serial
        BY <2>1, <3>1, <3>3 DEF Covered
      <4>2. g.n <= r.serial
        BY <1>1, <3>1, <4>1 DEF Seen
      <4> QED
        BY <2>1, <3>3, <4>1, <4>2 DEF Covered
    <3> QED
      BY <3>2, <3>3
  <2>3. ASSUME NEW q \in Proc PROVE Raised(q)
    <3>1. CASE q = p
      <4>1. Seen(q)' = r
        BY <2>1, <3>1 DEF Seen
      <4> QED
        BY <3>1, <4>1 DEF Raised
    <3>2. CASE q # p
      <4>1. Seen(q)' = row /\ Seen(q) = row
        BY <2>1, <3>2 DEF Seen
      <4> QED
        BY <1>1, <4>1 DEF Raised
    <3> QED
      BY <3>1, <3>2
  <2> QED
    BY <1>3, <2>1, <2>2, <2>3 DEF Seen, DraftAbove
<1>5. CASE ~txn[p]
  <2>1. row' = r /\ draft' = draft /\ writer' = Nobody /\ writer = Nobody
    BY <1>1, <1>5, WriteFacts DEF WriterInv
  <2>2. ASSUME NEW g \in given PROVE Covered(g)'
    <3>1. g.n \in Nat /\ g.final /\ g.n <= row.serial
      BY <1>1, <2>1, Types DEF GivenInv, Covered
    <3>2. g.n <= r.serial
      BY <1>1, <1>3, <3>1
    <3> QED
      BY <2>1, <3>1, <3>2 DEF Covered
  <2>3. \A q \in Proc : Seen(q)' = r /\ Seen(q) = row
    BY <2>1 DEF Seen
  <2> QED
    BY <1>3, <2>1, <2>2, <2>3 DEF DraftAbove, Raised
<1> QED
  BY <1>4, <1>5, <1>1, Types

LEMMA CommitCovers ==
    ASSUME BaseInv, NEW p \in Proc, CommitRow(p)
    PROVE  /\ DraftAbove'
           /\ \A g \in Final(p) : Covered(g)'
           /\ \A q \in Proc : Raised(q)
           /\ Seen(p)' = Seen(p)
<1> USE SerialAssumption
<1>1. /\ TypeOK /\ WriterInv /\ DraftAbove /\ GivenInv
      /\ row.serial \in Nat /\ draft.serial \in Nat
  BY Types DEF BaseInv
<1>2. CASE writer = p
  <2>1. row' = draft /\ writer' = Nobody /\ row.serial <= draft.serial
    BY <1>1, <1>2 DEF CommitRow, Seen, DraftAbove
  <2>2. ASSUME NEW g \in given \ Mine(p) PROVE Covered(g)'
    <3>1. g.final /\ g.n \in Nat /\ g.n <= row.serial
      BY <1>1, <1>2, Types DEF Mine, GivenInv, Covered
    <3>2. g.n <= draft.serial
      BY <1>1, <2>1, <3>1
    <3> QED
      BY <2>1, <3>1, <3>2 DEF Covered
  <2>3. ASSUME NEW g \in Final(p) \ (given \ Mine(p)) PROVE Covered(g)'
    <3>1. PICK h \in given : ~h.final /\ g = [h EXCEPT !.final = TRUE]
      BY DEF Final, Mine
    <3>2. g.n = h.n /\ g.final
      BY <1>1, <3>1 DEF TypeOK, Number
    <3>3. h.n <= draft.serial
      BY <1>1, <3>1 DEF GivenInv, Covered
    <3> QED
      BY <2>1, <3>2, <3>3 DEF Covered
  <2>4. ASSUME NEW q \in Proc PROVE Raised(q)
    <3>1. Seen(q)' = draft
      BY <2>1 DEF Seen
    <3>2. Seen(q) \in {row, draft}
      BY DEF Seen
    <3> QED
      BY <1>1, <2>1, <3>1, <3>2 DEF Raised
  <2> QED
    BY <1>2, <2>1, <2>2, <2>3, <2>4 DEF Seen, DraftAbove
<1>3. CASE writer # p
  <2>1. row' = row /\ writer' = writer /\ draft' = draft
    BY <1>3 DEF CommitRow, Seen
  <2>2. Mine(p) = {}
    BY <1>1, <1>3, Types DEF Mine, GivenInv, Covered
  <2>3. Final(p) = given
    BY <2>2 DEF Final
  <2>4. \A g \in given : Covered(g)'
    BY <1>1, <2>1 DEF GivenInv, Covered
  <2>5. \A q \in Proc : Seen(q)' = Seen(q)
    BY <2>1 DEF Seen
  <2>6. \A q \in Proc : Raised(q)
    BY <1>1, <2>5, Types DEF Raised
  <2> QED
    BY <1>1, <2>1, <2>3, <2>4, <2>5, <2>6 DEF DraftAbove
<1> QED
  BY <1>2, <1>3

LEMMA DropCovers ==
    ASSUME BaseInv, NEW p \in Proc, DropDraft(p)
    PROVE  /\ DraftAbove' /\ GivenInv'
           /\ \A q \in Proc \ {p} : Seen(q)' = Seen(q)
<1> USE SerialAssumption
<1>1. TypeOK /\ DraftAbove /\ GivenInv /\ row' = row /\ given' = given \ Mine(p)
  BY DEF BaseInv, DropDraft
<1>2. CASE writer = p
  <2>1. writer' = Nobody
    BY <1>2 DEF DropDraft
  <2>2. \A g \in given' : g.final /\ g.n <= row.serial
    BY <1>1, <1>2, Types DEF Mine, GivenInv, Covered
  <2> QED
    BY <1>1, <1>2, <2>1, <2>2 DEF DraftAbove, GivenInv, Covered, Seen
<1>3. CASE writer # p
  <2>1. writer' = writer /\ draft' = draft
    BY <1>3 DEF DropDraft
  <2> QED
    BY <1>1, <2>1 DEF DraftAbove, GivenInv, Covered, Seen
<1> QED
  BY <1>2, <1>3

------------------------------------------------------------------------------
(* Every step keeps the invariant. *)

LEMMA CurrentKept ==
    ASSUME BaseInv, TypeOK',
           \A q \in Proc : HasRead(q)' =>
               HasRead(q) /\ current'[q] = current[q] /\ Raised(q)
    PROVE  CurrentInv'
<1> SUFFICES ASSUME NEW q \in Proc, HasRead(q)' PROVE current'[q] <= Seen(q)'.serial
    BY DEF CurrentInv
<1>1. current[q] <= Seen(q).serial /\ Seen(q).serial <= Seen(q)'.serial
  BY DEF BaseInv, CurrentInv, Raised
<1>2. current[q] \in Nat /\ Seen(q).serial \in Nat
  BY Types DEF BaseInv
<1>3. Seen(q)'.serial \in Nat
  <2>1. Seen(q)' \in Row
    BY DEF TypeOK, Seen
  <2> QED
    BY <2>1, RowFacts
<1> QED
  BY <1>1, <1>2, <1>3

(* The numbers handed out stay covered. *)
LEMMA GivenStep ==
    ASSUME BaseInv, TypeOK', [Next]_vars
    PROVE  DraftAbove' /\ GivenInv'
<1> USE SerialAssumption DEF BaseInv
<1>1. ASSUME NEW p \in Proc, Lock(p) \/ Miss(p) \/ ForceUpdate(p) \/ ForceUnlock(p)
      PROVE  DraftAbove' /\ GivenInv'
  <2>1. PICK r \in Row : Write(p, r) /\ Seen(p).serial <= r.serial
    BY <1>1, Writes
  <2>2. given' = given
    BY <1>1 DEF Lock, Miss, ForceUpdate, ForceUnlock
  <2> QED
    BY <2>1, <2>2, WriteCovers DEF GivenInv
<1>2. ASSUME NEW p \in Proc, Unlock(p) \/ Insert(p) PROVE DraftAbove' /\ GivenInv'
  <2>1. PICK r \in Row : /\ Write(p, r) /\ Seen(p).serial <= r.serial
                         /\ Insert(p) => r.serial = Seen(p).serial + 1
    BY <1>2, Writes
  <2>2. PICK n : given' = given \cup {Return(p, n, ~txn[p])} /\ n <= r.serial
    <3>1. CASE Unlock(p)
      <4>1. HasRead(p)
        BY <3>1 DEF Unlock, HasRead
      <4>2. current[p] <= Seen(p).serial
        BY <4>1 DEF CurrentInv
      <4>3. current[p] \in Nat /\ Seen(p).serial \in Nat /\ r.serial \in Nat
        BY Types, RowFacts
      <4>4. current[p] <= r.serial
        BY <2>1, <4>2, <4>3
      <4> QED
        BY <3>1, <4>4 DEF Unlock
    <3>2. CASE Insert(p)
      <4>1. r.serial \in Nat
        BY RowFacts
      <4>2. Seen(p).serial + 1 <= r.serial
        BY <2>1, <3>2, <4>1
      <4> QED
        BY <3>2, <4>2 DEF Insert
    <3> QED
      BY <1>2, <3>1, <3>2
  <2>3. DraftAbove' /\ \A g \in given : Covered(g)'
    BY <2>1, WriteCovers
  <2>4. IF txn[p] THEN writer' = p /\ draft' = r ELSE row' = r
    BY <2>1, WriteFacts
  <2>5. ASSUME NEW g \in given' PROVE Covered(g)'
    <3>1. CASE g \in given
      BY <2>3, <3>1
    <3>2. CASE g \notin given
      <4>1. g.proc = p /\ g.n = n /\ g.final = ~txn[p]
        BY <2>2, <3>2 DEF Return
      <4> QED
        BY <2>2, <2>4, <4>1 DEF Covered
    <3> QED
      BY <3>1, <3>2
  <2> QED
    BY <2>3, <2>5 DEF GivenInv
<1>3. ASSUME NEW p \in Proc, ForceBegin(p) \/ UserBegin(p) \/ UserCommit(p)
      PROVE  DraftAbove' /\ GivenInv'
  BY <1>3, CommitCovers DEF ForceBegin, UserBegin, UserCommit, GivenInv
<1>4. ASSUME NEW p \in Proc, ForceCommit(p) PROVE DraftAbove' /\ GivenInv'
  <2>1. CommitRow(p) /\ given' = Final(p) \cup {Return(p, current[p], TRUE)} /\ Forced(p) /\ HasRead(p)
    BY <1>4 DEF ForceCommit, Forced, HasRead
  <2>2. DraftAbove' /\ \A g \in Final(p) : Covered(g)'
    BY <2>1, CommitCovers
  <2>3. row' = Seen(p) /\ writer = p /\ writer' = Nobody /\ row' = draft
    BY <2>1 DEF CommitRow, WriterInv, Seen
  <2>4. current[p] <= row'.serial
    BY <2>1, <2>3 DEF CurrentInv
  <2>5. ASSUME NEW g \in given' PROVE Covered(g)'
    <3>1. CASE g \in Final(p)
      BY <2>2, <3>1
    <3>2. CASE g \notin Final(p)
      <4>1. g.n = current[p] /\ g.final = TRUE
        BY <2>1, <3>2 DEF Return
      <4> QED
        BY <2>4, <4>1 DEF Covered
    <3> QED
      BY <3>1, <3>2
  <2> QED
    BY <2>2, <2>5 DEF GivenInv
<1>5. ASSUME NEW p \in Proc, UserRollback(p) \/ Crash(p) PROVE DraftAbove' /\ GivenInv'
  BY <1>5, DropCovers DEF UserRollback, Crash
<1>6. ASSUME NEW p \in Proc, Call(p) \/ Select(p) \/ Error(p) PROVE DraftAbove' /\ GivenInv'
  BY <1>6 DEF Call, Select, Error, DraftAbove, GivenInv, Covered
<1>7. CASE UNCHANGED vars
  BY <1>7 DEF vars, DraftAbove, GivenInv, Covered
<1> QED
  BY <1>1, <1>2, <1>3, <1>4, <1>5, <1>6, <1>7 DEF Next, Step, Progress

(* So does the number that a process has read and not returned. *)
LEMMA CurrentStep ==
    ASSUME BaseInv, TypeOK', [Next]_vars
    PROVE  CurrentInv'
<1> USE SerialAssumption
<1>0. TypeOK /\ pc \in [Proc -> Phase] /\ current \in [Proc -> Nat]
  BY DEF BaseInv, TypeOK
<1>1. ASSUME NEW p \in Proc,
             Lock(p) \/ Miss(p) \/ Unlock(p) \/ ForceUpdate(p) \/ ForceUnlock(p) \/ Insert(p)
      PROVE  CurrentInv'
  <2>1. PICK r \in Row : Write(p, r) /\ Seen(p).serial <= r.serial
    BY <1>0, <1>1, Writes
  <2>2. \A q \in Proc : Raised(q)
    BY <2>1, WriteCovers
  <2>3. \A q \in Proc : HasRead(q)' => HasRead(q) /\ current'[q] = current[q]
    BY <1>0, <1>1 DEF HasRead, Lock, Miss, Unlock, ForceUpdate, ForceUnlock, Insert
  <2> QED
    BY <2>2, <2>3, CurrentKept
<1>2. ASSUME NEW p \in Proc,
             ForceBegin(p) \/ ForceCommit(p) \/ UserBegin(p) \/ UserCommit(p)
      PROVE  CurrentInv'
  <2>1. \A q \in Proc : Raised(q)
    BY <1>2, CommitCovers DEF ForceBegin, ForceCommit, UserBegin, UserCommit
  <2>2. \A q \in Proc : HasRead(q)' => HasRead(q) /\ current'[q] = current[q]
    BY <1>0, <1>2 DEF HasRead, ForceBegin, ForceCommit, UserBegin, UserCommit
  <2> QED
    BY <2>1, <2>2, CurrentKept
<1>3. ASSUME NEW p \in Proc, UserRollback(p) \/ Crash(p) PROVE CurrentInv'
  <2>1. \A q \in Proc \ {p} : Seen(q)' = Seen(q)
    BY <1>3, DropCovers DEF UserRollback, Crash
  <2>2. \A q \in Proc : HasRead(q)' => q # p /\ HasRead(q) /\ current'[q] = current[q]
    BY <1>0, <1>3 DEF HasRead, UserRollback, Crash
  <2>3. \A q \in Proc \ {p} : Raised(q)
    BY <1>0, <2>1, Types DEF Raised
  <2> QED
    BY <2>2, <2>3, CurrentKept
<1>4. ASSUME NEW p \in Proc, Select(p) PROVE CurrentInv'
  <2>1. \A q \in Proc : Seen(q)' = Seen(q)
    BY <1>4 DEF Select, Seen
  <2>2. \A q \in Proc \ {p} : HasRead(q)' => HasRead(q) /\ current'[q] = current[q]
    BY <1>0, <1>4 DEF HasRead, Select
  <2>3. current'[p] = Seen(p).serial
    BY <1>0, <1>4 DEF Select
  <2>4. ASSUME NEW q \in Proc, HasRead(q)' PROVE current'[q] <= Seen(q)'.serial
    <3>1. CASE q = p
      BY <1>0, <2>1, <2>3, <3>1, Types
    <3>2. CASE q # p
      BY <2>1, <2>2, <2>4, <3>2 DEF BaseInv, CurrentInv
    <3> QED
      BY <3>1, <3>2
  <2> QED
    BY <2>4 DEF CurrentInv
<1>5. ASSUME NEW p \in Proc, Call(p) \/ Error(p) PROVE CurrentInv'
  <2>1. \A q \in Proc : Seen(q)' = Seen(q) /\ current'[q] = current[q]
    BY <1>5 DEF Call, Error, Seen
  <2>2. \A q \in Proc : HasRead(q)' => HasRead(q)
    BY <1>0, <1>5 DEF HasRead, Call, Error
  <2> QED
    BY <2>1, <2>2 DEF BaseInv, CurrentInv
<1>6. CASE UNCHANGED vars
  BY <1>6 DEF vars, BaseInv, CurrentInv, HasRead, Seen
<1> QED
  BY <1>1, <1>2, <1>3, <1>4, <1>5, <1>6 DEF Next, Step, Progress

LEMMA InitBase == Init => BaseInv
<1> USE SerialAssumption
<1>1. Init => TypeOK
  BY DEF Init, TypeOK, Row, NoDraft, Phase, Number
<1>2. Init => WriterInv /\ DraftAbove /\ GivenInv /\ CurrentInv
  BY DEF Init, WriterInv, DraftAbove, GivenInv, CurrentInv, Forced, InLock, HasRead
<1> QED
  BY <1>1, <1>2 DEF BaseInv

LEMMA BaseStep == BaseInv /\ [Next]_vars => BaseInv'
BY TypeStep, WriterStep, GivenStep, CurrentStep DEF BaseInv

LEMMA BaseInvariant == Spec => []BaseInv
BY InitBase, BaseStep, PTL DEF Spec

(* Every variable keeps its type, for any processes and any bounds. *)
THEOREM SerialTypes == Spec => []TypeOK
<1>1. BaseInv => TypeOK
  BY DEF BaseInv
<1> QED
  BY <1>1, BaseInvariant, PTL

(* Whatever the users, the failures and the processes that break the lock   *)
(* do, a final number is covered by the committed serial.                   *)
THEOREM SerialCovered == Spec => []GivenCovered
<1>1. BaseInv => GivenCovered
  BY DEF BaseInv, GivenInv, Covered, GivenCovered
<1> QED
  BY <1>1, BaseInvariant, PTL

------------------------------------------------------------------------------
(* The lock.  It holds as long as nobody breaks it under a process at work  *)
(* and no insert takes a number past it.                                    *)

Disciplined == ~Overlap /\ ~Inserts

Busy(p) == InLock(p) \/ Forced(p)

(* One process at a time works on the row, locked or by force; who locked   *)
(* it sees it locked, and nobody who sees another row has changed it.       *)
Alone  == \A p, q \in Proc : Busy(p) /\ Busy(q) => p = q
Locked == \A p \in Proc : InLock(p) =>
              Seen(p).locked /\ (writer \notin {Nobody, p} => draft = row)

(* The number that it takes is above all that were handed out. *)
Above(p) == \A g \in given : g.n < Seen(p).serial
NewInv   == \A p \in Proc : Busy(p) => Above(p)
ReadInv  == \A p \in Proc : HasRead(p) => current[p] = Seen(p).serial

ExclInv == Alone /\ Locked /\ NewInv /\ ReadInv /\ UniqueSerial

(* A process that may write sees the row that the holder of the lock sees,  *)
(* and no process is at work by force.                                      *)
LEMMA HolderSees ==
    ASSUME WriterInv, Locked, NEW p \in Proc, NEW q \in Proc, p # q, Busy(q), CanWrite(p)
    PROVE  InLock(q) /\ Seen(q) = row /\ Seen(p) = row /\ Seen(q).locked
<1> USE SerialAssumption
<1>1. writer \in {Nobody, p}
  BY DEF CanWrite
<1>2. InLock(q)
  BY <1>1 DEF Busy, WriterInv
<1> QED
  BY <1>1, <1>2 DEF Locked, Seen

LEMMA SeenWrite ==
    ASSUME WriterInv, NEW p \in Proc, NEW r, Write(p, r)
    PROVE  Seen(p)' = r /\ CanWrite(p) /\ writer' \in {Nobody, p}
<1> USE SerialAssumption
<1>1. CASE txn[p]
  BY <1>1, WriteFacts DEF Seen, CanWrite
<1>2. CASE ~txn[p]
  <2>1. writer = Nobody
    BY <1>2, WriteFacts DEF WriterInv
  <2> QED
    BY <1>2, <2>1, WriteFacts DEF Seen, CanWrite
<1> QED
  BY <1>1, <1>2

LEMMA LockAlone ==
    ASSUME BaseInv, Locked, Disciplined, NEW p \in Proc, Lock(p) \/ ForceUpdate(p)
    PROVE  \A q \in Proc : ~Busy(q)
<1> SUFFICES ASSUME NEW q \in Proc, Busy(q) PROVE FALSE
  OBVIOUS
<1>1. CanWrite(p) /\ pc[p] \in {"try", "forced update"}
  BY DEF Lock, ForceUpdate, Write
<1>2. q # p
  BY <1>1 DEF Busy, InLock, Forced
<1>3. InLock(q) /\ Seen(q) = row /\ Seen(p) = row /\ Seen(q).locked
  BY <1>1, <1>2, HolderSees DEF BaseInv
<1> QED
  BY <1>3 DEF Lock, ForceUpdate, Disciplined

(* Which processes are at work after a step. *)
LEMMA BusyStep ==
    ASSUME TypeOK, [Next]_vars, NEW q \in Proc, Busy(q)'
    PROVE  \/ Busy(q) /\ (InLock(q)' => InLock(q))
           \/ Lock(q) \/ ForceUpdate(q)
<1> DEFINE Goal == (Busy(q) /\ (InLock(q)' => InLock(q))) \/ Lock(q) \/ ForceUpdate(q)
<1> SUFFICES Goal
  OBVIOUS
<1>1. pc \in [Proc -> Phase]
  BY DEF TypeOK
<1>2. CASE pc'[q] = pc[q]
  BY <1>2 DEF Busy, InLock, Forced
<1>3. ASSUME NEW p \in Proc, Call(p) \/ Lock(p) \/ Miss(p) \/ Select(p) \/ Unlock(p)
      PROVE  Goal
  <2>1. CASE p # q
    BY <1>1, <1>2, <1>3, <2>1 DEF Call, Lock, Miss, Select, Unlock
  <2>2. CASE p = q
    BY <1>1, <1>3, <2>2 DEF Busy, InLock, Forced, Call, Lock, Miss, Select, Unlock
  <2> QED
    BY <2>1, <2>2
<1>4. ASSUME NEW p \in Proc, ForceBegin(p) \/ ForceUpdate(p) \/ ForceUnlock(p) \/ ForceCommit(p)
      PROVE  Goal
  <2>1. CASE p # q
    BY <1>1, <1>2, <1>4, <2>1 DEF ForceBegin, ForceUpdate, ForceUnlock, ForceCommit
  <2>2. CASE p = q
    BY <1>1, <1>4, <2>2
    DEF Busy, InLock, Forced, ForceBegin, ForceUpdate, ForceUnlock, ForceCommit
  <2> QED
    BY <2>1, <2>2
<1>5. ASSUME NEW p \in Proc, Error(p) \/ Crash(p)
      PROVE  Goal
  <2>1. CASE p # q
    BY <1>1, <1>2, <1>5, <2>1 DEF Error, Crash
  <2>2. CASE p = q
    BY <1>1, <1>5, <2>2 DEF Busy, InLock, Forced, Error, Crash
  <2> QED
    BY <2>1, <2>2
<1>6. ASSUME NEW p \in Proc, Insert(p) \/ UserBegin(p) \/ UserCommit(p) \/ UserRollback(p)
      PROVE  Goal
  BY <1>2, <1>6 DEF Insert, UserBegin, UserCommit, UserRollback
<1>7. CASE UNCHANGED vars
  BY <1>2, <1>7 DEF vars
<1> HIDE DEF Goal
<1> QED
  BY <1>3, <1>4, <1>5, <1>6, <1>7 DEF Next, Step, Progress

LEMMA AloneStep ==
    ASSUME BaseInv, ExclInv, Disciplined, [Next]_vars
    PROVE  Alone'
<1> SUFFICES ASSUME NEW p \in Proc, NEW q \in Proc, Busy(p)', Busy(q)', p # q
             PROVE  FALSE
  BY DEF Alone
<1>1. ASSUME NEW u \in Proc, NEW v \in Proc, u # v, Lock(u) \/ ForceUpdate(u), Busy(v)'
      PROVE  FALSE
  <2>1. ~Busy(v)
    BY <1>1, LockAlone DEF ExclInv
  <2>2. pc[v]' = pc[v]
    BY <1>1 DEF Lock, ForceUpdate, BaseInv, TypeOK
  <2> QED
    BY <1>1, <2>1, <2>2 DEF Busy, InLock, Forced
<1>2. Busy(p) \/ Lock(p) \/ ForceUpdate(p)
  BY BusyStep DEF BaseInv
<1>3. Busy(q) \/ Lock(q) \/ ForceUpdate(q)
  BY BusyStep DEF BaseInv
<1> QED
  BY <1>1, <1>2, <1>3 DEF ExclInv, Alone

(* What a process at work sees, other processes do not change. *)
LEMMA OthersKeep ==
    ASSUME BaseInv, ExclInv, NEW p \in Proc, NEW q \in Proc, p # q, Busy(q),
           \/ Miss(p) \/ CommitRow(p) \/ DropDraft(p)
    PROVE  /\ Seen(q)' = Seen(q)
           /\ InLock(q) /\ writer' \notin {Nobody, q} => draft' = row'
<1> USE SerialAssumption DEF BaseInv, ExclInv
<1>1. CASE Miss(p)
  <2>1. Write(p, Seen(p)) /\ CanWrite(p)
    BY <1>1 DEF Miss, Write
  <2>2. Seen(p) = row /\ Seen(q) = row /\ InLock(q)
    BY <2>1, HolderSees
  <2>3. row' = row /\ writer' \in {Nobody, p}
    BY <2>1, <2>2, WriteFacts, SeenWrite
  <2>4. writer' = p => draft' = row
    <3>1. CASE txn[p]
      BY <2>1, <2>2, <3>1, WriteFacts
    <3>2. CASE ~txn[p]
      BY <2>1, <3>2, WriteFacts DEF WriterInv
    <3> QED
      BY <3>1, <3>2
  <2> QED
    BY <2>2, <2>3, <2>4 DEF Seen
<1>2. CASE writer = p /\ (CommitRow(p) \/ DropDraft(p))
  <2>1. CanWrite(p) /\ writer' = Nobody
    BY <1>2 DEF CanWrite, CommitRow, DropDraft
  <2>2. InLock(q) /\ Seen(q) = row /\ Seen(p) = row
    BY <2>1, HolderSees
  <2>3. row' = row
    BY <1>2, <2>2 DEF CommitRow, DropDraft
  <2> QED
    BY <2>1, <2>2, <2>3 DEF Seen
<1>3. CASE writer # p /\ (CommitRow(p) \/ DropDraft(p))
  <2>1. row' = row /\ writer' = writer /\ draft' = draft
    BY <1>3 DEF CommitRow, DropDraft, Seen
  <2> QED
    BY <2>1 DEF Seen, Locked
<1> QED
  BY <1>1, <1>2, <1>3


LEMMA HolderStep ==
    ASSUME BaseInv, ExclInv, Disciplined, NEW p \in Proc, NEW q \in Proc, p # q, Busy(q),
           \/ Call(p) \/ Step(p) \/ Insert(p)
           \/ UserBegin(p) \/ UserCommit(p) \/ UserRollback(p) \/ Crash(p)
    PROVE  /\ Seen(q)' = Seen(q)
           /\ InLock(q) /\ writer' \notin {Nobody, q} => draft' = row'
           /\ ~Unlock(p) /\ ~ForceCommit(p)
<1>1. ~Lock(p) /\ ~ForceUpdate(p) /\ ~Insert(p)
  BY LockAlone DEF ExclInv, Disciplined, Insert
<1>2. ~Unlock(p) /\ ~ForceUnlock(p) /\ ~ForceCommit(p)
  BY DEF ExclInv, Alone, Busy, InLock, Forced, Unlock, ForceUnlock, ForceCommit
<1>3. CASE Miss(p) \/ CommitRow(p) \/ DropDraft(p)
  BY <1>2, <1>3, OthersKeep
<1>4. CASE Call(p) \/ Select(p) \/ Error(p)
  <2>1. row' = row /\ writer' = writer /\ draft' = draft
    BY <1>4 DEF Call, Select, Error
  <2>2. Seen(q)' = Seen(q)
    BY <2>1 DEF Seen
  <2>3. InLock(q) /\ writer' \notin {Nobody, q} => draft' = row'
    BY <2>1 DEF ExclInv, Locked
  <2> QED
    BY <1>2, <2>2, <2>3
<1> QED
  BY <1>1, <1>2, <1>3, <1>4
  DEF Step, Progress, ForceBegin, UserBegin, UserCommit, UserRollback, Crash

(* What a process at work does itself, without ceasing to be at work. *)
LEMMA OwnStep ==
    ASSUME TypeOK, NEW q \in Proc, Busy(q), Busy(q)',
           \/ Call(q) \/ Step(q) \/ Insert(q)
           \/ UserBegin(q) \/ UserCommit(q) \/ UserRollback(q) \/ Crash(q)
    PROVE  Select(q) \/ ForceUnlock(q)
<1>1. pc \in [Proc -> Phase]
  BY DEF TypeOK
<1>2. ~Call(q) /\ ~Lock(q) /\ ~Miss(q) /\ ~ForceBegin(q) /\ ~ForceUpdate(q)
  BY DEF Busy, InLock, Forced, Call, Lock, Miss, ForceBegin, ForceUpdate
<1>3. ~Unlock(q) /\ ~ForceCommit(q)
  BY <1>1 DEF Busy, InLock, Forced, Unlock, ForceCommit
<1>4. ~Error(q) /\ ~Crash(q)
  BY <1>1 DEF Busy, InLock, Forced, Error, Crash
<1>5. ~Insert(q) /\ ~UserBegin(q) /\ ~UserCommit(q) /\ ~UserRollback(q)
  BY DEF Busy, InLock, Forced, Insert, UserBegin, UserCommit, UserRollback
<1> QED
  BY <1>2, <1>3, <1>4, <1>5 DEF Step, Progress

(* A process that stays at work sees the same serial. *)
LEMMA SerialKept ==
    ASSUME BaseInv, ExclInv, Disciplined, [Next]_vars, NEW q \in Proc, Busy(q), Busy(q)'
    PROVE  /\ Seen(q)'.serial = Seen(q).serial
           /\ InLock(q)' => Seen(q)'.locked /\ (writer' \notin {Nobody, q} => draft' = row')
           /\ \A p \in Proc : ~Unlock(p) /\ ~ForceCommit(p)
<1>0. TypeOK /\ Locked
  BY DEF BaseInv, ExclInv
<1>1. InLock(q)' => InLock(q)
  BY <1>0, BusyStep DEF Lock, ForceUpdate, Busy, InLock, Forced
<1>2. ASSUME NEW p \in Proc PROVE ~Unlock(p) /\ ~ForceCommit(p)
  <2>1. CASE p # q
    BY <2>1 DEF ExclInv, Alone, Busy, InLock, Forced, Unlock, ForceCommit
  <2>2. CASE p = q
    BY <1>0, <2>2 DEF TypeOK, Busy, InLock, Forced, Unlock, ForceCommit
  <2> QED
    BY <2>1, <2>2
<1>3. ASSUME NEW p \in Proc, p # q,
             \/ Call(p) \/ Step(p) \/ Insert(p)
             \/ UserBegin(p) \/ UserCommit(p) \/ UserRollback(p) \/ Crash(p)
      PROVE  /\ Seen(q)'.serial = Seen(q).serial
             /\ InLock(q)' => Seen(q)'.locked /\ (writer' \notin {Nobody, q} => draft' = row')
  BY <1>0, <1>1, <1>3, HolderStep DEF Locked
<1>4. CASE Select(q) \/ UNCHANGED vars
  <2>1. row' = row /\ writer' = writer /\ draft' = draft
    BY <1>4 DEF Select, vars
  <2>2. Seen(q)' = Seen(q)
    BY <2>1 DEF Seen
  <2> QED
    BY <1>0, <1>1, <1>2, <2>1, <2>2 DEF Locked
<1>5. CASE ForceUnlock(q)
  <2> DEFINE r == [Seen(q) EXCEPT !.locked = FALSE]
  <2>1. Write(q, r) /\ ~InLock(q)
    BY <1>5 DEF ForceUnlock, InLock
  <2>2. r.serial = Seen(q).serial
    BY <1>0, Types, RowFacts
  <2>3. WriterInv
    BY DEF BaseInv
  <2> HIDE DEF r
  <2>4. Seen(q)' = r
    BY <2>1, <2>3, SeenWrite
  <2> QED
    BY <1>1, <1>2, <2>1, <2>2, <2>4
<1> QED
  <2>1. \/ \E p \in Proc \ {q} : \/ Call(p) \/ Step(p) \/ Insert(p)
                                 \/ UserBegin(p) \/ UserCommit(p) \/ UserRollback(p) \/ Crash(p)
        \/ Select(q) \/ ForceUnlock(q) \/ UNCHANGED vars
    BY <1>0, OwnStep DEF Next
  <2> QED
    BY <1>3, <1>4, <1>5, <1>2, <2>1

(* A process that may write sees a serial that covers all the numbers       *)
(* handed out.                                                              *)
LEMMA GivenBelow ==
    ASSUME BaseInv, NEW q \in Proc, CanWrite(q), NEW g \in given
    PROVE  g.n <= Seen(q).serial
<1>0. TypeOK /\ DraftAbove /\ GivenInv
  BY DEF BaseInv
<1>1. g.n \in Nat /\ g.final \in BOOLEAN /\ g.proc \in Proc /\ Covered(g) /\ row.serial \in Nat
  BY <1>0, Types DEF GivenInv
<1>2. row.serial <= Seen(q).serial /\ Seen(q).serial \in Nat
  BY <1>0, SeenAbove, Types
<1>3. CASE g.final
  BY <1>1, <1>2, <1>3 DEF Covered
<1>4. CASE ~g.final
  BY <1>1, <1>4, SerialAssumption DEF Covered, CanWrite, Seen
<1> QED
  BY <1>1, <1>3, <1>4

(* A process that starts to work on the row takes the next number.          *)
LEMMA Taken ==
    ASSUME BaseInv, NEW q \in Proc, Lock(q) \/ ForceUpdate(q)
    PROVE  /\ Seen(q)'.serial = Seen(q).serial + 1 /\ CanWrite(q)
           /\ writer' \in {Nobody, q}
           /\ Lock(q) => Seen(q)'.locked
           /\ given' = given
<1>0. WriterInv /\ Seen(q) \in Row /\ Seen(q).serial \in Nat /\ Seen(q).serial + 1 \in Nat
  BY Types DEF BaseInv
<1>1. given' = given
  BY DEF Lock, ForceUpdate
<1>2. CASE Lock(q)
  <2> DEFINE r == [serial |-> Seen(q).serial + 1, locked |-> TRUE]
  <2>1. Write(q, r)
    BY <1>2 DEF Lock
  <2>2. r.serial = Seen(q).serial + 1 /\ r.locked = TRUE
    BY <1>0, RowFacts
  <2> HIDE DEF r
  <2>3. Seen(q)' = r /\ CanWrite(q) /\ writer' \in {Nobody, q}
    BY <1>0, <2>1, SeenWrite
  <2> QED
    BY <1>1, <2>2, <2>3
<1>3. CASE ForceUpdate(q)
  <2> DEFINE r == [Seen(q) EXCEPT !.serial = @ + 1]
  <2>1. Write(q, r) /\ ~Lock(q)
    BY <1>3 DEF ForceUpdate, Lock
  <2>2. r.serial = Seen(q).serial + 1
    BY <1>0, RowFacts
  <2> HIDE DEF r
  <2>3. Seen(q)' = r /\ CanWrite(q) /\ writer' \in {Nobody, q}
    BY <1>0, <2>1, SeenWrite
  <2> QED
    BY <1>1, <2>1, <2>2, <2>3
<1> QED
  BY <1>2, <1>3

LEMMA LockedStep ==
    ASSUME BaseInv, ExclInv, Disciplined, [Next]_vars
    PROVE  Locked'
<1> SUFFICES ASSUME NEW q \in Proc, InLock(q)'
             PROVE  Seen(q)'.locked /\ (writer' \notin {Nobody, q} => draft' = row')
  BY DEF Locked
<1>1. Busy(q)' /\ ~ForceUpdate(q)
  BY DEF Busy, InLock, ForceUpdate, BaseInv, TypeOK
<1>2. CASE Busy(q)
  BY <1>1, <1>2, SerialKept
<1>3. CASE Lock(q)
  BY <1>3, Taken
<1> QED
  BY <1>1, <1>2, <1>3, BusyStep DEF BaseInv

(* What a step does to the numbers handed out: they remain, become final or *)
(* are taken back, and only a return adds one.                              *)
Kept(S) == \A g \in S : \E h \in given : h.n = g.n /\ h.proc = g.proc /\ h.call = g.call

LEMMA KeptFinal ==
    ASSUME TypeOK, NEW p \in Proc
    PROVE  Kept(given) /\ Kept(Final(p)) /\ Kept(given \ Mine(p))
<1>1. Kept(given) /\ Kept(given \ Mine(p))
  BY DEF Kept
<1>2. ASSUME NEW g \in Final(p)
      PROVE  \E h \in given : h.n = g.n /\ h.proc = g.proc /\ h.call = g.call
  <2>1. CASE g \in given
    BY <2>1
  <2>2. CASE g \notin given
    <3>1. PICK h \in given : g = [h EXCEPT !.final = TRUE]
      BY <2>2 DEF Final, Mine
    <3>2. h \in Number
      BY DEF TypeOK
    <3>3. h.n = g.n /\ h.proc = g.proc /\ h.call = g.call
      BY <3>1, <3>2 DEF Number
    <3> QED
      BY <3>3
  <2> QED
    BY <2>1, <2>2
<1> QED
  BY <1>1, <1>2 DEF Kept

LEMMA GivenChanges ==
    ASSUME TypeOK, Disciplined, [Next]_vars
    PROVE  \/ Kept(given')
           \/ \E p \in Proc : /\ Unlock(p) \/ ForceCommit(p)
                              /\ \E S, f : given' = S \cup {Return(p, current[p], f)} /\ Kept(S)
<1>1. ASSUME NEW p \in Proc,
             \/ Call(p) \/ Lock(p) \/ Miss(p) \/ Select(p) \/ ForceUpdate(p)
             \/ ForceUnlock(p) \/ Error(p)
      PROVE  given' = given
  BY <1>1 DEF Call, Lock, Miss, Select, ForceUpdate, ForceUnlock, Error
<1>2. ASSUME NEW p \in Proc,
             ForceBegin(p) \/ UserBegin(p) \/ UserCommit(p) \/ UserRollback(p) \/ Crash(p)
      PROVE  Kept(given')
  BY <1>2, KeptFinal DEF ForceBegin, UserBegin, UserCommit, UserRollback, Crash, DropDraft
<1>3. ASSUME NEW p \in Proc, Unlock(p) \/ ForceCommit(p)
      PROVE  \E S, f : given' = S \cup {Return(p, current[p], f)} /\ Kept(S)
  BY <1>3, KeptFinal DEF Unlock, ForceCommit
<1>4. ASSUME NEW p \in Proc PROVE ~Insert(p)
  BY DEF Insert, Disciplined
<1>5. CASE UNCHANGED vars
  BY <1>5 DEF vars, Kept
<1>6. CASE Next
  BY <1>1, <1>2, <1>3, <1>4, <1>6 DEF Next, Step, Progress, Kept
<1> QED
  BY <1>5, <1>6

LEMMA NewStep ==
    ASSUME BaseInv, BaseInv', ExclInv, Disciplined, [Next]_vars
    PROVE  NewInv'
<1> SUFFICES ASSUME NEW q \in Proc, Busy(q)', NEW g \in given'
             PROVE  g.n < Seen(q)'.serial
  BY DEF NewInv, Above
<1>0. TypeOK /\ Seen(q).serial \in Nat /\ \A h \in given : h.n \in Nat
  BY Types DEF BaseInv
<1>1. CASE Busy(q)
  <2>1. Seen(q)'.serial = Seen(q).serial /\ \A p \in Proc : ~Unlock(p) /\ ~ForceCommit(p)
    BY <1>1, SerialKept
  <2>2. PICK h \in given : h.n = g.n
    BY <1>0, <2>1, GivenChanges DEF Kept
  <2> QED
    BY <1>1, <2>1, <2>2 DEF ExclInv, NewInv, Above
<1>2. CASE Lock(q) \/ ForceUpdate(q)
  <2>1. Seen(q)'.serial = Seen(q).serial + 1 /\ CanWrite(q) /\ given' = given
    BY <1>2, Taken
  <2>2. g.n <= Seen(q).serial
    BY <2>1, GivenBelow
  <2> QED
    BY <1>0, <2>1, <2>2
<1> QED
  BY <1>0, <1>1, <1>2, BusyStep

LEMMA ReadStep ==
    ASSUME BaseInv, ExclInv, Disciplined, [Next]_vars
    PROVE  ReadInv'
<1> SUFFICES ASSUME NEW q \in Proc, HasRead(q)'
             PROVE  current'[q] = Seen(q)'.serial
  BY DEF ReadInv
<1>0. TypeOK /\ pc \in [Proc -> Phase] /\ current \in [Proc -> Nat]
  BY DEF BaseInv, TypeOK
<1>1. Busy(q)' /\ ~Lock(q) /\ ~ForceUpdate(q)
  BY <1>0 DEF HasRead, Busy, InLock, Forced, Lock, ForceUpdate
<1>2. Busy(q) /\ Seen(q)'.serial = Seen(q).serial
  BY <1>0, <1>1, BusyStep, SerialKept
<1>3. CASE Select(q)
  BY <1>0, <1>2, <1>3 DEF Select
<1>4. CASE pc'[q] = pc[q] /\ current'[q] = current[q]
  BY <1>2, <1>4 DEF HasRead, ExclInv, ReadInv
<1>5. CASE ForceUnlock(q)
  BY <1>0, <1>2, <1>5 DEF ForceUnlock, HasRead, ExclInv, ReadInv
<1>6. ASSUME NEW p \in Proc, p # q,
             \/ Call(p) \/ Step(p) \/ Insert(p)
             \/ UserBegin(p) \/ UserCommit(p) \/ UserRollback(p) \/ Crash(p)
      PROVE  pc'[q] = pc[q] /\ current'[q] = current[q]
  BY <1>0, <1>6 DEF Step, Progress, Call, Lock, Miss, Select, Unlock, ForceBegin, ForceUpdate, ForceUnlock,
     ForceCommit, Error, Insert, UserBegin, UserCommit, UserRollback, Crash
<1>7. CASE UNCHANGED vars
  BY <1>4, <1>7 DEF vars
<1>8. CASE Next
  <2>1. PICK p \in Proc : \/ Call(p) \/ Step(p) \/ Insert(p)
                          \/ UserBegin(p) \/ UserCommit(p) \/ UserRollback(p) \/ Crash(p)
    BY <1>8 DEF Next
  <2>2. CASE p # q
    BY <1>4, <1>6, <2>1, <2>2
  <2>3. CASE p = q
    BY <1>0, <1>1, <1>2, <1>3, <1>5, <2>1, <2>3, OwnStep
  <2> QED
    BY <2>2, <2>3
<1> QED
  BY <1>7, <1>8

LEMMA UniqueStep ==
    ASSUME BaseInv, ExclInv, Disciplined, [Next]_vars
    PROVE  UniqueSerial'
<1> SUFFICES ASSUME NEW g \in given', NEW h \in given', g.n = h.n
             PROVE  g.proc = h.proc /\ g.call = h.call
  BY DEF UniqueSerial
<1>0. TypeOK /\ UniqueSerial /\ \A k \in given : k.n \in Nat
  BY Types DEF BaseInv, ExclInv
<1>1. ASSUME NEW S, Kept(S), g \in S, h \in S
      PROVE  g.proc = h.proc /\ g.call = h.call
  BY <1>0, <1>1 DEF Kept, UniqueSerial
<1>2. ASSUME NEW p \in Proc, Unlock(p) \/ ForceCommit(p),
             NEW S, NEW f, given' = S \cup {Return(p, current[p], f)}, Kept(S)
      PROVE  g.proc = h.proc /\ g.call = h.call
  <2> DEFINE new == Return(p, current[p], f)
  <2>1. Busy(p) /\ HasRead(p)
    BY <1>2 DEF Unlock, ForceCommit, Busy, HasRead, InLock, Forced
  <2>2. current[p] = Seen(p).serial /\ Above(p) /\ Seen(p).serial \in Nat
    BY <1>0, <2>1, Types DEF ExclInv, ReadInv, NewInv
  <2>3. new.n = current[p]
    BY DEF Return
  <2>4. ASSUME NEW k \in S PROVE k.n # new.n
    <3>1. PICK m \in given : m.n = k.n
      BY <1>2 DEF Kept
    <3> QED
      BY <1>0, <2>2, <2>3, <3>1 DEF Above
  <2> HIDE DEF new
  <2>5. (g \in S \/ g = new) /\ (h \in S \/ h = new)
    BY <1>2 DEF new
  <2> QED
    BY <1>1, <1>2, <2>4, <2>5
<1> QED
  BY <1>0, <1>1, <1>2, GivenChanges

LEMMA InitExcl == Init => ExclInv
BY DEF Init, ExclInv, Alone, Locked, NewInv, ReadInv, UniqueSerial, Busy, InLock, Forced,
       HasRead, Above

LEMMA ExclInvariant == Disciplined => (Spec => []ExclInv)
<1> SUFFICES ASSUME Disciplined PROVE Spec => []ExclInv
  OBVIOUS
<1>1. BaseInv /\ BaseInv' /\ ExclInv /\ [Next]_vars => ExclInv'
  BY AloneStep, LockedStep, NewStep, ReadStep, UniqueStep DEF ExclInv
<1> QED
  BY <1>1, InitExcl, BaseInvariant, PTL DEF Spec

(* As long as nobody breaks the lock under a process at work and no insert  *)
(* takes a number past it, serial next never returns a number twice.        *)
THEOREM SerialUnique == Disciplined => (Spec => []UniqueSerial)
<1>1. ExclInv => UniqueSerial
  BY DEF ExclInv
<1> QED
  BY <1>1, ExclInvariant, PTL

(* ... and one process at a time holds the lock.                            *)
THEOREM SerialLock == Disciplined => (Spec => []LockExclusive)
<1>1. ExclInv => LockExclusive
  BY DEF ExclInv, Alone, Busy, LockExclusive
<1> QED
  BY <1>1, ExclInvariant, PTL
=============================================================================
