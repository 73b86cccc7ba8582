----------------------------- MODULE Sqlite3Serial -----------------------------
(****************************************************************************)
(* "serial next" of dbi_sqlite3 (sqlite3/lib/init.tcl, serial_next): a      *)
(* serial is a row of the table _dbi_serials, shared by all the processes   *)
(* that have the database open.  A process locks the row and increments it  *)
(* in one update, reads the number, and unlocks the row.  A row that stays  *)
(* locked is taken by force, in a transaction.  Every exec of SQL is one    *)
(* action here: SQLite makes it atomic, and refuses it (SQLITE_BUSY) while  *)
(* another connection has written in a transaction that is still open.      *)
(****************************************************************************)
EXTENDS Integers, FiniteSets

CONSTANTS
    Proc,       \* the processes, each with one connection
    Nobody,     \* no process
    MaxTries,   \* attempts to lock the row (199 in the code)
    Overlap,    \* can a process be waited for in vain and still be at work?
    Inserts,    \* are there inserts that take their number by the trigger?
    UserTxns,   \* do users open transactions?
    MaxCalls    \* bound: numbers asked for, by each process

ASSUME SerialAssumption ==
    /\ Nobody \notin Proc
    /\ MaxTries \in Nat \ {0}
    /\ Overlap \in BOOLEAN /\ Inserts \in BOOLEAN /\ UserTxns \in BOOLEAN
    /\ MaxCalls \in Nat

VARIABLES
    row,        \* the row of _dbi_serials, as committed
    writer,     \* the process whose transaction has written, or Nobody
    draft,      \* the row in that transaction
    txn,        \* the connection of a process is in a transaction
    user,       \* ... which its user has opened and not ended
    pc,         \* where a process is in serial_next
    tries,      \* its variable num
    current,    \* its variable current
    calls,      \* numbers it asked for
    given       \* the numbers handed out, by whom, and whether they are final

vars == <<row, writer, draft, txn, user, pc, tries, current, calls, given>>

Row     == [serial : Nat, locked : BOOLEAN]
NoDraft == [serial |-> 0, locked |-> FALSE]

Init ==
    /\ row = [serial |-> 0, locked |-> FALSE]
    /\ writer = Nobody /\ draft = NoDraft
    /\ txn = [p \in Proc |-> FALSE]
    /\ user = [p \in Proc |-> FALSE]
    /\ pc = [p \in Proc |-> "idle"]
    /\ tries = [p \in Proc |-> 0]
    /\ current = [p \in Proc |-> 0]
    /\ calls = [p \in Proc |-> 0]
    /\ given = {}

------------------------------------------------------------------------------
(* The database, as one connection sees and changes it. *)

Seen(p) == IF writer = p THEN draft ELSE row

CanWrite(p) == writer \in {Nobody, p}

Write(p, r) ==
    /\ CanWrite(p)
    /\ IF txn[p] THEN writer' = p /\ draft' = r /\ UNCHANGED row
                 ELSE row' = r /\ UNCHANGED <<writer, draft>>

(* The end of a transaction.  A number that was handed out in it becomes    *)
(* final, or was never handed out.                                          *)
Mine(p)  == {g \in given : g.proc = p /\ ~g.final}
Final(p) == (given \ Mine(p)) \cup {[g EXCEPT !.final = TRUE] : g \in Mine(p)}

CommitRow_RolledBack(p) ==
    /\ writer' = IF writer = p THEN Nobody ELSE writer
    /\ draft' = IF writer = p THEN NoDraft ELSE draft
    /\ UNCHANGED row

CommitRow(p) ==
    /\ row' = Seen(p)
    /\ writer' = IF writer = p THEN Nobody ELSE writer
    /\ draft' = IF writer = p THEN NoDraft ELSE draft

DropDraft(p) ==
    /\ writer' = IF writer = p THEN Nobody ELSE writer
    /\ draft' = IF writer = p THEN NoDraft ELSE draft
    /\ given' = given \ Mine(p)
    /\ UNCHANGED row

Return(p, n, final) == [proc |-> p, call |-> calls[p], n |-> n, final |-> final]

------------------------------------------------------------------------------
(* serial_next, exec by exec.  A definition named after another one, with   *)
(* an underscore, is a slip that could be made in it; with it in place a    *)
(* property must fail.                                                      *)

Call(p) ==
    /\ pc[p] = "idle" /\ calls[p] < MaxCalls
    /\ pc' = [pc EXCEPT ![p] = "try"]
    /\ tries' = [tries EXCEPT ![p] = 1]
    /\ calls' = [calls EXCEPT ![p] = @ + 1]
    /\ UNCHANGED <<row, writer, draft, txn, user, current, given>>

(* update ... set serial = serial+1, locked = 1 where ... and locked = 0 *)
Lock_Locked(p) ==
    /\ pc[p] = "try"
    /\ Write(p, [serial |-> Seen(p).serial + 1, locked |-> TRUE])
    /\ pc' = [pc EXCEPT ![p] = "select"]
    /\ UNCHANGED <<txn, user, tries, current, calls, given>>

Lock_NotSet(p) ==
    /\ pc[p] = "try" /\ ~Seen(p).locked
    /\ Write(p, [Seen(p) EXCEPT !.serial = @ + 1])
    /\ pc' = [pc EXCEPT ![p] = "select"]
    /\ UNCHANGED <<txn, user, tries, current, calls, given>>

Lock(p) ==
    /\ pc[p] = "try" /\ ~Seen(p).locked
    /\ Write(p, [serial |-> Seen(p).serial + 1, locked |-> TRUE])
    /\ pc' = [pc EXCEPT ![p] = "select"]
    /\ UNCHANGED <<txn, user, tries, current, calls, given>>

(* The update finds no unlocked row.  In a transaction it has written all   *)
(* the same: the connection keeps the others from writing.                  *)
Miss_NotCounted(p) ==
    /\ pc[p] = "try" /\ Seen(p).locked
    /\ Write(p, Seen(p))
    /\ pc' = [pc EXCEPT ![p] = IF tries[p] < MaxTries THEN "try" ELSE "begin"]
    /\ UNCHANGED <<txn, user, tries, current, calls, given>>

Miss_CountedDown(p) ==
    /\ pc[p] = "try" /\ Seen(p).locked
    /\ Write(p, Seen(p))
    /\ tries' = [tries EXCEPT ![p] = @ - 1]
    /\ pc' = [pc EXCEPT ![p] = IF tries[p] < MaxTries THEN "try" ELSE "begin"]
    /\ UNCHANGED <<txn, user, current, calls, given>>

Miss(p) ==
    /\ pc[p] = "try" /\ Seen(p).locked
    /\ Write(p, Seen(p))
    /\ tries' = [tries EXCEPT ![p] = @ + 1]
    /\ pc' = [pc EXCEPT ![p] = IF tries[p] < MaxTries THEN "try" ELSE "begin"]
    /\ UNCHANGED <<txn, user, current, calls, given>>

Select(p) ==
    /\ pc[p] \in {"select", "forced select"}
    /\ current' = [current EXCEPT ![p] = Seen(p).serial]
    /\ pc' = [pc EXCEPT ![p] = IF @ = "select" THEN "unlock" ELSE "forced unlock"]
    /\ UNCHANGED <<row, writer, draft, txn, user, tries, calls, given>>

(* The row is unlocked and the number returned. *)
Unlock(p) ==
    /\ pc[p] = "unlock"
    /\ Write(p, [Seen(p) EXCEPT !.locked = FALSE])
    /\ given' = given \cup {Return(p, current[p], ~txn[p])}
    /\ pc' = [pc EXCEPT ![p] = "idle"]
    /\ UNCHANGED <<txn, user, tries, current, calls>>

(* The row is taken by force.  "$db begin" commits what is open. *)
ForceBegin(p) ==
    /\ pc[p] = "begin"
    /\ CommitRow(p)
    /\ given' = Final(p)
    /\ txn' = [txn EXCEPT ![p] = TRUE]
    /\ pc' = [pc EXCEPT ![p] = "forced update"]
    /\ UNCHANGED <<user, tries, current, calls>>

InLock(p) == pc[p] \in {"select", "unlock"}

ForceUpdate(p) ==
    /\ pc[p] = "forced update"
    /\ Overlap \/ \A q \in Proc : ~InLock(q)
    /\ Write(p, [Seen(p) EXCEPT !.serial = @ + 1])
    /\ pc' = [pc EXCEPT ![p] = "forced select"]
    /\ UNCHANGED <<txn, user, tries, current, calls, given>>

ForceUnlock(p) ==
    /\ pc[p] = "forced unlock"
    /\ Write(p, [Seen(p) EXCEPT !.locked = FALSE])
    /\ pc' = [pc EXCEPT ![p] = "commit"]
    /\ UNCHANGED <<txn, user, tries, current, calls, given>>

ForceCommit(p) ==
    /\ pc[p] = "commit"
    /\ CommitRow(p)
    /\ txn' = [txn EXCEPT ![p] = FALSE]
    /\ given' = Final(p) \cup {Return(p, current[p], TRUE)}
    /\ pc' = [pc EXCEPT ![p] = "idle"]
    /\ UNCHANGED <<user, tries, current, calls>>

(* Any exec may fail, with SQLITE_BUSY or an error of the disk: serial_next *)
(* ends there, whatever it has locked or begun.                             *)
Error(p) ==
    /\ pc[p] # "idle"
    /\ pc' = [pc EXCEPT ![p] = "idle"]
    /\ UNCHANGED <<row, writer, draft, txn, user, tries, current, calls, given>>

Progress(p) == \/ Lock(p) \/ Miss(p) \/ Select(p) \/ Unlock(p)
               \/ ForceBegin(p) \/ ForceUpdate(p) \/ ForceUnlock(p) \/ ForceCommit(p)

Step(p) == Progress(p) \/ Error(p)

(* The error that must come: an exec that writes while another connection   *)
(* has written is refused.                                                  *)
Refused(p) ==
    /\ pc[p] \in {"try", "unlock", "forced update", "forced unlock"}
    /\ ~CanWrite(p)
    /\ Error(p)

------------------------------------------------------------------------------
(* What else happens to the row: the trigger that serial_add makes, the     *)
(* transactions of users, and processes that die.                           *)

(* Before the insert of a row without a number the trigger increments the   *)
(* serial and reads it, in the transaction of the insert.                   *)
Insert(p) ==
    /\ Inserts /\ pc[p] = "idle" /\ calls[p] < MaxCalls
    /\ Write(p, [Seen(p) EXCEPT !.serial = @ + 1])
    /\ calls' = [calls EXCEPT ![p] = @ + 1]
    /\ given' = given \cup {Return(p, Seen(p).serial + 1, ~txn[p])}
    /\ UNCHANGED <<txn, user, pc, tries, current>>

(* begin commits a transaction that is still open. *)
UserBegin(p) ==
    /\ UserTxns /\ pc[p] = "idle"
    /\ CommitRow(p)
    /\ given' = Final(p)
    /\ txn' = [txn EXCEPT ![p] = TRUE]
    /\ user' = [user EXCEPT ![p] = TRUE]
    /\ UNCHANGED <<pc, tries, current, calls>>

UserCommit(p) ==
    /\ UserTxns /\ pc[p] = "idle"
    /\ CommitRow(p)
    /\ given' = Final(p)
    /\ txn' = [txn EXCEPT ![p] = FALSE]
    /\ user' = [user EXCEPT ![p] = FALSE]
    /\ UNCHANGED <<pc, tries, current, calls>>

UserRollback(p) ==
    /\ UserTxns /\ pc[p] = "idle"
    /\ DropDraft(p)
    /\ txn' = [txn EXCEPT ![p] = FALSE]
    /\ user' = [user EXCEPT ![p] = FALSE]
    /\ UNCHANGED <<pc, tries, current, calls>>

(* A process dies, or destroys its object, and comes back: its transaction  *)
(* is rolled back, a row that it has locked stays locked.                   *)
Crash(p) ==
    /\ DropDraft(p)
    /\ txn' = [txn EXCEPT ![p] = FALSE]
    /\ user' = [user EXCEPT ![p] = FALSE]
    /\ pc' = [pc EXCEPT ![p] = "idle"]
    /\ UNCHANGED <<tries, current, calls>>

Next == \E p \in Proc : \/ Call(p) \/ Step(p) \/ Insert(p)
                        \/ UserBegin(p) \/ UserCommit(p) \/ UserRollback(p) \/ Crash(p)

Spec == Init /\ [][Next]_vars

(* serial_next is a procedure that runs on while its process lives; errors  *)
(* other than a refusal need not happen.                                    *)
FairSpec == Spec /\ \A p \in Proc : WF_vars(Progress(p) \/ Refused(p))

------------------------------------------------------------------------------
(* Properties. *)

Phase == {"idle", "try", "select", "unlock", "begin", "forced update",
          "forced select", "forced unlock", "commit"}

Number == [proc : Proc, call : Nat, n : Nat, final : BOOLEAN]

(* Every variable keeps its type. *)
TypeOK ==
    /\ row \in Row /\ draft \in Row
    /\ writer \in Proc \cup {Nobody}
    /\ txn \in [Proc -> BOOLEAN] /\ user \in [Proc -> BOOLEAN]
    /\ pc \in [Proc -> Phase]
    /\ tries \in [Proc -> Nat]
    /\ current \in [Proc -> Nat]
    /\ calls \in [Proc -> Nat]
    /\ given \in SUBSET Number

(* serial next never returns a number twice, to the same process or to two, *)
(* whatever locks crashes and failures have left behind.  (Numbers returned *)
(* in a transaction that is rolled back were never handed out.)             *)
UniqueSerial == \A g, h \in given : g.n = h.n => g.proc = h.proc /\ g.call = h.call

(* One process at a time is between the update that locks the row and the   *)
(* one that unlocks it.                                                     *)
LockExclusive == \A p, q \in Proc : InLock(p) /\ InLock(q) => p = q

(* A final number is covered by the committed serial, so that no crash can  *)
(* make the serial return it again: what is returned early is never lost.   *)
GivenCovered == \A g \in given : g.final => g.n <= row.serial

(* A call of serial next comes back, also when the process that locked the  *)
(* row has died.                                                            *)
NextReturns == \A p \in Proc : pc[p] = "try" ~> pc[p] = "idle"
=============================================================================
