------------------------------ MODULE Sqlite3Exec ------------------------------
(****************************************************************************)
(* The exec method of one dbi_sqlite3 object (sqlite3/generic/sqlite.c,     *)
(* dbi_Sqlite3_Exec), one action per phase of the handler: the SQL text is  *)
(* split by preparing one statement ahead, a text of several commands is    *)
(* wrapped in a transaction of its own, each command is stepped once, and   *)
(* the last statement delivers the rows or is kept for fetch.               *)
(*                                                                          *)
(* A text is abstracted to the number of its commands and whether any       *)
(* character (a newline, say) follows the last one.  What a command does is *)
(* the choice of the step that runs it.  A statement is named by the call   *)
(* that prepared it and the command of the text it holds, an effect on the  *)
(* database by the call that ran the command and the command.               *)
(****************************************************************************)
EXTENDS Integers, Sequences, FiniteSets

CONSTANTS
    Texts,      \* the SQL texts the user passes to exec
    Soft,       \* sqlite3_step results that are neither row, done nor error
    RowFaults,  \* may sqlite3_step fail after it has returned a row?
    CommitBusy, \* may COMMIT be refused (SQLITE_BUSY)?
    MaxCalls,   \* bound: calls of exec
    MaxRuns     \* bound: effects on the database (a call may repeat a command)

SoftResult == {"constraint", "rollback"}

ASSUME ExecAssumption ==
    /\ Texts \subseteq [n : Nat, tail : BOOLEAN]
    /\ Soft \subseteq SoftResult
    /\ RowFaults \in BOOLEAN
    /\ CommitBusy \in BOOLEAN
    /\ MaxCalls \in Nat
    /\ MaxRuns \in Nat

VARIABLES
    pc,         \* the phase of dbi_Sqlite3_Exec, "idle" between calls
    x,          \* its local variables (of the last call, when idle)
    h,          \* the object: dbdata->stmt, dbdata->cached, nfields # -1
    prepared,   \* dbdata->preparedhash: text -> statement, Null when absent
    open,       \* prepared statements the library has not finalized
    misuse,     \* a statement was finalized a second time
    conn,       \* the connection: its transaction, pending and durable effects
    status      \* result of the last call: "none", "ok" or "error"

vars == <<pc, x, h, prepared, open, misuse, conn, status>>

Id   == Nat \X Nat
Null == <<-1, -1>>      \* a NULL statement pointer
Bad  == <<-2, -2>>      \* NULL too, with sqlite3_prepare_v2's error in error2

NoCall == [id |-> 0, text |-> [n |-> 1, tail |-> TRUE], cache |-> FALSE,
           fetch |-> FALSE, stmt |-> Null, stmt2 |-> Null, entry |-> "none",
           last |-> "done", soft |-> FALSE, toclose |-> FALSE, user |-> FALSE]

Init ==
    /\ pc = "idle"
    /\ x = NoCall
    /\ h = [cur |-> Null, cached |-> FALSE, fields |-> FALSE]
    /\ prepared = [t \in Texts |-> Null]
    /\ open = {}
    /\ misuse = FALSE
    /\ conn = [txn |-> "none", pend |-> <<>>, done |-> <<>>]
    /\ status = "none"

------------------------------------------------------------------------------
(* A definition named after another one, with an underscore, is a slip that *)
(* could be made in it; with it in place a property must fail.              *)

(* dbi_Sqlite3_ClearResult: the current statement is finalized, unless it   *)
(* came from the cache: then it is reset and stays current.                 *)

Cleared_PointerKept == [h EXCEPT !.fields = FALSE]
Cleared_MarkLost    == [h EXCEPT !.fields = FALSE, !.cached = FALSE]

Cleared     == [cur    |-> IF h.cached THEN h.cur ELSE Null,
                cached |-> h.cached,
                fields |-> FALSE]

ClearVictim_Always == h.cur
ClearVictim == IF h.cached THEN Null ELSE h.cur

Finalize(victims) ==
    /\ open' = open \ victims
    /\ misuse' = (misuse \/ \E s \in victims \ {Null, Bad} : s \notin open)

ClearResult == h' = Cleared /\ Finalize({ClearVictim})

(* dbi_Sqlite3_Transaction_Start, _Commit and _Rollback.  Committing or     *)
(* rolling back without a transaction is not an error for the extension.    *)

Started_Nothing(owner)  == conn
Started_Anyway(owner)   == [conn EXCEPT !.txn = owner]
Started(owner) == IF conn.txn = "none" THEN [conn EXCEPT !.txn = owner] ELSE conn
Committed  == [txn |-> "none", pend |-> <<>>, done |-> conn.done \o conn.pend]
RolledBack == [txn |-> "none", pend |-> <<>>, done |-> conn.done]

------------------------------------------------------------------------------
(* The phases of dbi_Sqlite3_Exec. *)

(* Entry: the previous result is cleared; with -cache the text is looked up *)
(* and a hit skips both the preparation and the search for more commands.   *)
Call(t, cache, fetch) ==
    /\ pc = "idle"
    /\ x.id < MaxCalls
    /\ ClearResult
    /\ LET hit == cache /\ prepared[t] # Null
       IN /\ x' = [id |-> x.id + 1, text |-> t, cache |-> cache, fetch |-> fetch,
                   stmt |-> IF hit THEN prepared[t] ELSE Null,
                   stmt2 |-> Null,
                   entry |-> IF hit THEN "hit" ELSE IF cache THEN "new" ELSE "none",
                   last |-> "done", soft |-> FALSE, toclose |-> FALSE,
                   user |-> conn.txn # "none"]
          /\ pc' = IF hit THEN "first" ELSE "prepare"
    /\ UNCHANGED <<prepared, conn, status>>

(* The loop that prepares the first command.  A text without one leaves the *)
(* pointer NULL without an error, and the loop goes round.                  *)
PrepareFirst ==
    /\ pc = "prepare"
    /\ \/ /\ x.text.n = 0
          /\ UNCHANGED vars
       \/ /\ x.text.n > 0
          /\ x' = [x EXCEPT !.stmt = <<x.id, 1>>]
          /\ open' = open \cup {<<x.id, 1>>}
          /\ pc' = "first"
          /\ UNCHANGED <<h, prepared, misuse, conn, status>>
       \/ /\ x.text.n > 0     \* a syntax error
          /\ pc' = "fail"
          /\ UNCHANGED <<x, h, prepared, open, misuse, conn, status>>

(* *nextsql: is there text after the command that stmt holds? *)
MoreText == /\ x.entry # "hit"
            /\ x.stmt[2] < x.text.n \/ x.text.tail

(* What preparing that text can leave in stmt2 (and error2).  Without more  *)
(* text nothing is prepared and stmt2 keeps its value.                      *)
Ahead ==
    IF ~MoreText THEN {x.stmt2}
    ELSE IF x.stmt[2] < x.text.n THEN {<<x.id, x.stmt[2] + 1>>, Bad}
    ELSE {Null}

(* The error of the preparation ahead counts when its turn comes. *)
SyntaxError_Ignored == FALSE
SyntaxError == x.stmt = Bad

(* One command is prepared ahead, to learn whether there is another one; if *)
(* the first look ahead finds one, the exec opens a transaction.            *)
LookAhead ==
    /\ pc \in {"first", "again"}
    /\ IF SyntaxError
       THEN /\ pc' = "fail"
            /\ UNCHANGED <<x, h, prepared, open, misuse, conn, status>>
       ELSE \E s \in Ahead :
            /\ open' = IF MoreText /\ s \in Id THEN open \cup {s} ELSE open
            /\ UNCHANGED <<h, misuse, status>>
            /\ IF x.cache /\ s # Null
               THEN /\ pc' = "fail"
                    /\ x' = [x EXCEPT !.stmt2 = s]
                    /\ UNCHANGED <<prepared, conn>>
               ELSE LET begins == pc = "first" /\ s # Null
                    IN /\ pc' = "step"
                       /\ prepared' = IF x.entry = "new"
                                      THEN [prepared EXCEPT ![x.text] = x.stmt]
                                      ELSE prepared
                       /\ x' = [x EXCEPT !.stmt2 = s,
                                         !.entry = IF @ = "new" THEN "none" ELSE @,
                                         !.toclose = @ \/ (begins /\ conn.txn = "none")]
                       /\ conn' = IF begins THEN Started("exec") ELSE conn

(* Where the loop goes after a step that is not an error. *)
Advanced_SameStatement(last) ==
    /\ pc' = IF x.stmt2 = Null THEN "commit" ELSE "again"
    /\ x' = [x EXCEPT !.last = last, !.soft = @ \/ last = "soft"]
    /\ UNCHANGED <<h, prepared, open, misuse, status>>

Advanced_AllRows(last) ==
    /\ pc' = IF x.stmt2 = Null /\ last # "row" THEN "commit" ELSE "again"
    /\ x' = [x EXCEPT !.last  = last,
                      !.soft  = @ \/ last = "soft",
                      !.stmt  = IF x.stmt2 = Null THEN @ ELSE x.stmt2,
                      !.stmt2 = IF @ = Bad THEN Null ELSE @]
    /\ UNCHANGED <<h, prepared, open, misuse, status>>

Advanced(last) ==
    /\ pc' = IF x.stmt2 = Null THEN "commit" ELSE "again"
    /\ x' = [x EXCEPT !.last  = last,
                      !.soft  = @ \/ last = "soft",
                      !.stmt  = IF x.stmt2 = Null THEN @ ELSE x.stmt2,
                      !.stmt2 = IF @ = Bad THEN Null ELSE @]
    /\ UNCHANGED <<h, prepared, open, misuse, status>>

(* Bind the arguments and step.  Only SQLITE_ERROR and SQLITE_MISUSE leave  *)
(* the loop; any other failure is looked at when the last command has run.  *)
StepDone ==       \* a command that changes the database completes
    /\ pc = "step"
    /\ Len(conn.done) + Len(conn.pend) < MaxRuns
    /\ LET effect == <<x.id, x.stmt[2]>>
       IN conn' = IF conn.txn = "none" THEN [conn EXCEPT !.done = Append(@, effect)]
                                       ELSE [conn EXCEPT !.pend = Append(@, effect)]
    /\ Advanced("done")

StepRow ==        \* a query returns its first row
    /\ pc = "step"
    /\ UNCHANGED conn
    /\ Advanced("row")

StepError ==      \* too few arguments, or SQLITE_ERROR
    /\ pc = "step"
    /\ pc' = "fail"
    /\ UNCHANGED <<x, h, prepared, open, misuse, conn, status>>

StepSoft ==       \* a constraint or a busy database; some end the transaction
    /\ pc = "step"
    /\ \E s \in Soft : conn' = IF s = "rollback" THEN RolledBack ELSE conn
    /\ Advanced("soft")

(* The commit of the exec's own transaction, then the result of the last    *)
(* step is examined.                                                        *)
AutoCommit ==
    /\ pc = "commit"
    /\ \/ /\ conn' = IF x.toclose THEN Committed ELSE conn
          /\ pc' = IF x.last = "soft" THEN "fail" ELSE "deliver"
          /\ UNCHANGED <<h, open, misuse>>
       \/ /\ conn.txn = "exec" /\ CommitBusy
          /\ pc' = "fail"
          /\ ClearResult
          /\ UNCHANGED conn
    /\ UNCHANGED <<x, prepared, status>>

(* The statement becomes the object's current one.  It is kept for fetch,   *)
(* or its rows are collected and the result is cleared; collecting stops at *)
(* a row that fails.                                                        *)
Deliver ==
    /\ pc = "deliver"
    /\ \/ /\ x.fetch
          /\ h' = [cur |-> x.stmt, cached |-> x.cache, fields |-> TRUE]
          /\ pc' = "idle" /\ status' = "ok"
          /\ UNCHANGED <<open, misuse>>
       \/ /\ ~x.fetch
          /\ h' = [cur |-> IF x.cache THEN x.stmt ELSE Null,
                   cached |-> x.cache, fields |-> FALSE]
          /\ Finalize({IF x.cache THEN Null ELSE x.stmt})
          /\ pc' = "idle" /\ status' = "ok"
       \/ /\ ~x.fetch /\ RowFaults /\ x.last = "row"
          /\ h' = [h EXCEPT !.cur = x.stmt, !.cached = x.cache]
          /\ pc' = "fail"
          /\ UNCHANGED <<open, misuse, status>>
    /\ UNCHANGED <<x, prepared, conn>>

OwnRolledBack_Forgotten == conn
OwnRolledBack_Committed == IF x.toclose THEN Committed ELSE conn
OwnRolledBack == IF x.toclose THEN RolledBack ELSE conn

(* The error exit: roll back the exec's own transaction, forget the cache   *)
(* entry, finalize or reset the two statements and clear the result.        *)
Fail ==
    /\ pc = "fail"
    /\ conn' = OwnRolledBack
    /\ prepared' = IF x.entry # "none" THEN [prepared EXCEPT ![x.text] = Null]
                                       ELSE prepared
    /\ LET first == IF x.cache THEN Null ELSE x.stmt
       IN /\ open' = open \ {first, x.stmt2, ClearVictim}
          /\ misuse' = \/ misuse
                       \/ \E s \in {first, x.stmt2, ClearVictim} \cap Id : s \notin open
                       \/ first \in Id /\ first \in {x.stmt2, ClearVictim}
                       \/ x.stmt2 \in Id /\ x.stmt2 = ClearVictim
    /\ h' = Cleared
    /\ pc' = "idle"
    /\ status' = "error"
    /\ UNCHANGED x

------------------------------------------------------------------------------
(* The transaction methods of the object. *)

(* begin commits first and drops the error of that commit: when the commit  *)
(* was refused the transaction is still open and cannot be started again.   *)
UserBegin ==
    /\ pc = "idle"
    /\ ClearResult
    /\ \/ conn' = [Committed EXCEPT !.txn = "user"]
       \/ conn.txn = "user" /\ CommitBusy /\ UNCHANGED conn
    /\ UNCHANGED <<pc, x, prepared, status>>

UserCommit ==
    /\ pc = "idle"
    /\ ClearResult
    /\ \/ conn' = Committed
       \/ conn.txn = "user" /\ CommitBusy /\ UNCHANGED conn
    /\ UNCHANGED <<pc, x, prepared, status>>

UserRollback ==
    /\ pc = "idle"
    /\ ClearResult
    /\ conn' = RolledBack
    /\ UNCHANGED <<pc, x, prepared, status>>

ExecStep ==
    \/ PrepareFirst \/ LookAhead \/ StepDone \/ StepRow \/ StepError
    \/ StepSoft \/ AutoCommit \/ Deliver \/ Fail

(* A double finalization is undefined behaviour: nothing is claimed of what *)
(* follows it.                                                              *)
Next ==
    /\ ~misuse
    /\ \/ \E t \in Texts, cache, fetch \in BOOLEAN : Call(t, cache, fetch)
       \/ ExecStep
       \/ UserBegin \/ UserCommit \/ UserRollback

Spec == Init /\ [][Next]_vars

(* exec is a C function: once called it runs on. *)
FairSpec == Spec /\ WF_vars(ExecStep)

------------------------------------------------------------------------------
(* Properties. *)

Statement == Id \cup {Null}
Phase == {"idle", "prepare", "first", "again", "step", "commit", "deliver", "fail"}

(* Every variable keeps its type; the statement pointers hold a statement   *)
(* of some call or NULL.                                                    *)
TypeOK ==
    /\ pc \in Phase
    /\ x \in [id : Nat, text : [n : Nat, tail : BOOLEAN], cache : BOOLEAN,
              fetch : BOOLEAN, stmt : Statement \cup {Bad},
              stmt2 : Statement \cup {Bad}, entry : {"none", "hit", "new"},
              last : {"done", "row", "soft"}, soft : BOOLEAN,
              toclose : BOOLEAN, user : BOOLEAN]
    /\ x.id = 0 \/ x.text \in Texts
    /\ pc # "idle" => x.id > 0
    /\ h \in [cur : Statement, cached : BOOLEAN, fields : BOOLEAN]
    /\ prepared \in [Texts -> Statement]
    /\ open \in SUBSET Id
    /\ misuse \in BOOLEAN
    /\ conn \in [txn : {"none", "user", "exec"}, pend : Seq(Id), done : Seq(Id)]
    /\ status \in {"none", "ok", "error"}

(* A statement the cache can hand out has not been finalized, and no two    *)
(* texts share one: the error exit and the clearing of results never        *)
(* finalize what the hash table still names.                                *)
CacheLive ==
    /\ \A t \in Texts : prepared[t] # Null => prepared[t] \in open
    /\ \A t, u \in Texts : prepared[t] = prepared[u] /\ prepared[t] # Null => t = u

(* The object's current statement, which fetch steps and reads, has not     *)
(* been finalized, and it belongs to the cache exactly when it is marked    *)
(* so or has been dropped from it.                                          *)
CurrentLive ==
    ~misuse /\ h.cur # Null =>
        /\ h.cur \in open
        /\ ~h.cached => \A t \in Texts : prepared[t] # h.cur

(* The transaction that exec opens around several commands never outlives   *)
(* the call, whichever phase the call fails in and also when its commit is  *)
(* refused.                                                                 *)
NoStrayTransaction == pc = "idle" => conn.txn # "exec"

(* A statement is finalized twice in two situations only: a query without   *)
(* -cache fails after its first row, and an exec fails while it repeats the *)
(* last command of a text that ends with that command.                      *)
KnownDoubleFinalize ==
    misuse => /\ status = "error" /\ ~x.cache
              /\ \/ RowFaults /\ x.last = "row" /\ ~x.fetch
                 \/ ~x.text.tail /\ x.stmt = x.stmt2

(* Of each call the commands take effect in the order of the text and at    *)
(* most once.                                                               *)
EffectsInOrder ==
    LET all == conn.done \o conn.pend
    IN \A i, j \in DOMAIN all :
          i < j => \/ all[i][1] < all[j][1]
                   \/ all[i][1] = all[j][1] /\ all[i][2] < all[j][2]

(* While the user's explicit transaction is open an exec never commits any  *)
(* of it: the transaction stays open with all its work, or a command that   *)
(* fails rolls the whole of it back.                                        *)
UserTransactionKept ==
    [][pc # "idle" /\ conn.txn = "user" =>
          \/ conn'.txn = "user" /\ conn'.done = conn.done /\ 
             SubSeq(conn'.pend, 1, Len(conn.pend)) = conn.pend
          \/ pc = "step" /\ conn' = RolledBack]_vars

(* exec comes back: the loops over the text end. *)
Returns == pc # "idle" ~> pc = "idle"

(* What the manual says of an SQL error: all changes of the current exec    *)
(* are rolled back when no explicit transaction was started ...             *)
SqlErrorUndone ==
    pc = "idle" /\ x.soft /\ ~x.user =>
        \A i \in DOMAIN conn.done : conn.done[i][1] # x.id

(* ... also when it is reading the rows of the last query that fails.       *)
FailedExecUndone ==
    pc = "idle" /\ status = "error" /\ ~x.user =>
        \A i \in DOMAIN conn.done : conn.done[i][1] # x.id

(* The abstract exec: a call publishes its effects at once or not at all.   *)
Atomic == INSTANCE AtomicExec WITH
    phase <- IF pc = "idle" THEN "idle" ELSE "running",
    log <- conn.done,
    published <- pc # "idle" /\ \E i \in DOMAIN conn.done : conn.done[i][1] = x.id,
    outcome <- status

ImplementsAtomicExec == Atomic!Spec
=============================================================================
