--------------------------- MODULE Sqlite3ExecProofs ---------------------------
(* Theorems about Sqlite3Exec, for any texts, failures and bounds. *)
EXTENDS Sqlite3Exec, TLAPS

Locals == [id : Nat, text : [n : Nat, tail : BOOLEAN], cache : BOOLEAN,
           fetch : BOOLEAN, stmt : Statement \cup {Bad},
           stmt2 : Statement \cup {Bad}, entry : {"none", "hit", "new"},
           last : {"done", "row", "soft"}, soft : BOOLEAN,
           toclose : BOOLEAN, user : BOOLEAN]
Handle == [cur : Statement, cached : BOOLEAN, fields : BOOLEAN]
Connection == [txn : {"none", "user", "exec"}, pend : Seq(Id), done : Seq(Id)]

LEMMA TypeParts ==
    TypeOK <=> /\ pc \in Phase
               /\ x \in Locals
               /\ x.id = 0 \/ x.text \in Texts
               /\ pc # "idle" => x.id > 0
               /\ h \in Handle
               /\ prepared \in [Texts -> Statement]
               /\ open \in SUBSET Id
               /\ misuse \in BOOLEAN
               /\ conn \in Connection
               /\ status \in {"none", "ok", "error"}
BY DEF TypeOK, Locals, Handle, Connection

LEMMA ConnTypes ==
    ASSUME conn \in Connection
    PROVE  /\ Committed \in Connection
           /\ RolledBack \in Connection
           /\ [Committed EXCEPT !.txn = "user"] \in Connection
           /\ Started("exec") \in Connection
           /\ \A e \in Id : [conn EXCEPT !.done = Append(@, e)] \in Connection
           /\ \A e \in Id : [conn EXCEPT !.pend = Append(@, e)] \in Connection
<1>1. conn.done \in Seq(Id) /\ conn.pend \in Seq(Id) /\ conn.txn \in {"none", "user", "exec"}
  BY DEF Connection
<1>2. conn.done \o conn.pend \in Seq(Id) /\ <<>> \in Seq(Id)
  BY <1>1
<1>3. Committed \in Connection
  BY <1>2 DEF Committed, Connection
<1>4. RolledBack \in Connection
  BY <1>1, <1>2 DEF RolledBack, Connection
<1>5. [Committed EXCEPT !.txn = "user"] \in Connection
  BY <1>3 DEF Connection
<1>6. Started("exec") \in Connection
  BY DEF Started, Connection
<1>7. ASSUME NEW e \in Id
      PROVE  [conn EXCEPT !.done = Append(@, e)] \in Connection /\ [conn EXCEPT !.pend = Append(@, e)] \in Connection
  <2>1. Append(conn.done, e) \in Seq(Id) /\ Append(conn.pend, e) \in Seq(Id)
    BY <1>1
  <2> QED
    BY <2>1 DEF Connection
<1> QED
  BY <1>3, <1>4, <1>5, <1>6, <1>7

LEMMA HandleTypes ==
    ASSUME h \in Handle
    PROVE  /\ Cleared \in Handle /\ ClearVictim \in Statement
           /\ \A s \in Statement, c, f \in BOOLEAN : [cur |-> s, cached |-> c, fields |-> f] \in Handle
           /\ \A s \in Statement, c \in BOOLEAN : [h EXCEPT !.cur = s, !.cached = c] \in Handle
<1>1. Null \in Statement
  BY DEF Statement
<1> QED
  BY <1>1 DEF Handle, Cleared, ClearVictim

LEMMA LocalsTypes ==
    ASSUME x \in Locals
    PROVE  /\ \A s \in Statement \cup {Bad}, e \in {"none", "hit", "new"}, c \in BOOLEAN :
                 [x EXCEPT !.stmt2 = s, !.entry = e, !.toclose = c] \in Locals
           /\ \A s \in Statement \cup {Bad} : [x EXCEPT !.stmt2 = s] \in Locals
           /\ \A s \in Statement \cup {Bad} : [x EXCEPT !.stmt = s] \in Locals
           /\ \A l \in {"done", "row", "soft"}, b \in BOOLEAN,
                 s, s2 \in Statement \cup {Bad} :
                 [x EXCEPT !.last = l, !.soft = b, !.stmt = s, !.stmt2 = s2] \in Locals
BY DEF Locals

------------------------------------------------------------------------------
(* The invariant: what the pointer to the current command is in each phase, *)
(* and that a transaction of exec's own is known to the call that runs.     *)

StmtInv == /\ pc \in {"first", "step", "commit", "deliver"} => x.stmt \in Id
           /\ pc = "again" => x.stmt \in Id \cup {Bad}

OwnInv == conn.txn = "exec" =>
              x.toclose /\ pc \in {"step", "again", "commit", "fail"}

UserInv == conn.txn = "user" /\ pc # "idle" => ~x.toclose

ExecInv == TypeOK /\ StmtInv /\ OwnInv /\ UserInv

LEMMA IdFacts ==
    /\ Null \notin Id /\ Bad \notin Id /\ Null # Bad
    /\ Id \subseteq Statement /\ Null \in Statement
    /\ \A s \in Statement : s # Null => s \in Id
    /\ \A s \in Statement \cup {Bad} : s \notin {Null, Bad} => s \in Id
    /\ \A i, j \in Nat : <<i, j>> \in Id
    /\ \A s \in Id : s[2] \in Nat
BY DEF Id, Null, Bad, Statement

(* A statement taken, the object's record and the misuse mark keep their    *)
(* types when statements are finalized.                                     *)
LEMMA FinalizeTypes ==
    ASSUME open \in SUBSET Id, misuse \in BOOLEAN, NEW V, Finalize(V)
    PROVE  open' \in SUBSET Id /\ misuse' \in BOOLEAN
BY DEF Finalize

LEMMA CallStep ==
    ASSUME ExecInv, NEW t \in Texts, NEW c \in BOOLEAN, NEW f \in BOOLEAN, Call(t, c, f)
    PROVE  ExecInv'
<1> USE IdFacts, TypeParts DEF ExecInv
<1> DEFINE hit == c /\ prepared[t] # Null
<1>1. /\ pc = "idle" /\ pc' = IF hit THEN "first" ELSE "prepare"
      /\ prepared' = prepared /\ conn' = conn /\ status' = status /\ h' = Cleared
      /\ Finalize({ClearVictim})
      /\ x' = [id |-> x.id + 1, text |-> t, cache |-> c, fetch |-> f,
               stmt |-> IF hit THEN prepared[t] ELSE Null, stmt2 |-> Null,
               entry |-> IF hit THEN "hit" ELSE IF c THEN "new" ELSE "none",
               last |-> "done", soft |-> FALSE, toclose |-> FALSE,
               user |-> conn.txn # "none"]
  BY DEF Call, ClearResult
<1>2. x' \in Locals /\ x'.id > 0 /\ x'.text = t /\ ~x'.toclose
  <2>1. t \in [n : Nat, tail : BOOLEAN] /\ x.id \in Nat /\ prepared[t] \in Statement
    BY ExecAssumption DEF Locals
  <2>2. (conn.txn # "none") \in BOOLEAN
    OBVIOUS
  <2> QED
    BY <1>1, <2>1, <2>2 DEF Locals
<1>3. StmtInv'
  <2>1. hit => prepared[t] \in Id /\ x'.stmt = prepared[t]
    BY <1>1
  <2> QED
    BY <1>1, <2>1 DEF StmtInv
<1>4. OwnInv' /\ UserInv'
  BY <1>1, <1>2 DEF OwnInv, UserInv
<1>5. TypeOK'
  <2>1. h' \in Handle /\ open' \in SUBSET Id /\ misuse' \in BOOLEAN
    BY <1>1, HandleTypes, FinalizeTypes
  <2>2. pc' \in Phase
    BY <1>1 DEF Phase
  <2> QED
    BY <1>1, <1>2, <2>1, <2>2 DEF TypeOK, Locals, Handle, Connection
<1> QED
  BY <1>3, <1>4, <1>5

LEMMA PrepareStep ==
    ASSUME ExecInv, PrepareFirst
    PROVE  ExecInv'
<1> USE IdFacts, TypeParts DEF ExecInv
<1>1. CASE UNCHANGED vars
  BY <1>1 DEF vars, TypeOK, StmtInv, OwnInv, UserInv
<1>2. CASE /\ x' = [x EXCEPT !.stmt = <<x.id, 1>>] /\ open' = open \cup {<<x.id, 1>>}
           /\ pc' = "first"
           /\ UNCHANGED <<h, prepared, misuse, conn, status>>
  <2>1. x.id \in Nat /\ <<x.id, 1>> \in Id
    BY DEF Locals
  <2>2. x' \in Locals
    BY <1>2, <2>1, LocalsTypes
  <2>3. /\ x'.stmt = <<x.id, 1>> /\ x'.id = x.id /\ x'.text = x.text
        /\ x'.toclose = x.toclose
    BY <1>2 DEF Locals
  <2>4. pc = "prepare"
    BY DEF PrepareFirst
  <2>5. TypeOK'
    BY <1>2, <2>1, <2>2, <2>3, <2>4 DEF TypeOK, Locals, Handle, Connection, Phase
  <2>6. StmtInv' /\ OwnInv' /\ UserInv'
    BY <1>2, <2>1, <2>2, <2>3, <2>4 DEF StmtInv, OwnInv, UserInv
  <2> QED
    BY <2>5, <2>6
<1>3. CASE pc' = "fail" /\ UNCHANGED <<x, h, prepared, open, misuse, conn, status>>
  <2>1. pc = "prepare"
    BY DEF PrepareFirst
  <2> QED
    BY <1>3, <2>1 DEF TypeOK, Phase, StmtInv, OwnInv, UserInv
<1> QED
  BY <1>1, <1>2, <1>3 DEF PrepareFirst

LEMMA AheadTypes ==
    ASSUME x \in Locals, x.stmt \in Id, NEW s \in Ahead
    PROVE  s \in Statement \cup {Bad}
<1> USE IdFacts
<1>1. x.id \in Nat /\ x.stmt[2] + 1 \in Nat /\ x.stmt2 \in Statement \cup {Bad}
  BY DEF Locals
<1>2. <<x.id, x.stmt[2] + 1>> \in Id
  BY <1>1
<1> QED
  BY <1>1, <1>2 DEF Ahead

LEMMA LookAheadStep ==
    ASSUME ExecInv, LookAhead
    PROVE  ExecInv'
<1> USE IdFacts, TypeParts DEF ExecInv
<1>0. pc \in {"first", "again"} /\ x \in Locals /\ x.id > 0
  BY DEF LookAhead
<1>1. CASE pc' = "fail" /\ UNCHANGED <<x, h, prepared, open, misuse, conn, status>>
  BY <1>0, <1>1 DEF TypeOK, Phase, StmtInv, OwnInv, UserInv
<1>2. ASSUME ~SyntaxError, NEW s \in Ahead,
             open' = IF MoreText /\ s \in Id THEN open \cup {s} ELSE open,
             UNCHANGED <<h, misuse, status>>,
             pc' = "fail", x' = [x EXCEPT !.stmt2 = s], UNCHANGED <<prepared, conn>>
      PROVE  ExecInv'
  <2>1. x.stmt \in Id /\ s \in Statement \cup {Bad}
    BY <1>0, <1>2, AheadTypes DEF StmtInv, SyntaxError
  <2>2. x' \in Locals
    BY <1>0, <1>2, <2>1, LocalsTypes
  <2>3. x'.id = x.id /\ x'.text = x.text /\ x'.toclose = x.toclose
    BY <1>0, <1>2 DEF Locals
  <2>4. open' \in SUBSET Id
    BY <1>2
  <2>5. TypeOK'
    BY <1>0, <1>2, <2>2, <2>3, <2>4 DEF TypeOK, Locals, Phase
  <2>6. StmtInv' /\ OwnInv' /\ UserInv'
    BY <1>0, <1>2, <2>3 DEF StmtInv, OwnInv, UserInv
  <2> QED
    BY <2>5, <2>6
<1>3. ASSUME ~SyntaxError, NEW s \in Ahead,
             open' = IF MoreText /\ s \in Id THEN open \cup {s} ELSE open,
             UNCHANGED <<h, misuse, status>>, NEW begins \in BOOLEAN,
             pc' = "step",
             prepared' = IF x.entry = "new" THEN [prepared EXCEPT ![x.text] = x.stmt] ELSE prepared,
             x' = [x EXCEPT !.stmt2 = s,
                            !.entry = IF @ = "new" THEN "none" ELSE @,
                            !.toclose = @ \/ (begins /\ conn.txn = "none")],
             conn' = IF begins THEN Started("exec") ELSE conn
      PROVE  ExecInv'
  <2>1. x.stmt \in Id /\ s \in Statement \cup {Bad}
    BY <1>0, <1>3, AheadTypes DEF StmtInv, SyntaxError
  <2>2. /\ x.entry \in {"none", "hit", "new"} /\ x.toclose \in BOOLEAN
        /\ (x.toclose \/ (begins /\ conn.txn = "none")) \in BOOLEAN
    BY <1>0 DEF Locals
  <2>3. x' \in Locals
    BY <1>0, <1>3, <2>1, <2>2, LocalsTypes
  <2>4. /\ x'.id = x.id /\ x'.text = x.text /\ x'.stmt = x.stmt
        /\ x'.toclose = (x.toclose \/ (begins /\ conn.txn = "none"))
    BY <1>0, <1>3 DEF Locals
  <2>5. conn' \in Connection
    BY <1>3, ConnTypes
  <2>6. prepared' \in [Texts -> Statement]
    BY <1>3, <2>1
  <2>7. TypeOK'
    BY <1>0, <1>3, <2>3, <2>4, <2>5, <2>6 DEF TypeOK, Locals, Connection, Phase
  <2>8. StmtInv'
    BY <1>3, <2>1, <2>4 DEF StmtInv
  <2>9. conn'.txn = IF begins /\ conn.txn = "none" THEN "exec" ELSE conn.txn
    BY <1>3 DEF Started, Connection
  <2>10. OwnInv' /\ UserInv'
    BY <1>0, <1>3, <2>4, <2>9 DEF OwnInv, UserInv
  <2> QED
    BY <2>7, <2>8, <2>10
<1> QED
  <2>1. CASE SyntaxError
    BY <1>1, <2>1 DEF LookAhead
  <2>2. CASE ~SyntaxError
    BY <1>2, <1>3, <2>2 DEF LookAhead
  <2> QED
    BY <2>1, <2>2

(* What a step of the command leaves to the loop.                           *)
LEMMA AdvancedTypes ==
    ASSUME ExecInv, pc = "step", NEW l \in {"done", "row", "soft"}, Advanced(l),
           conn' \in Connection,
           conn'.txn = conn.txn \/ conn'.txn = "none"
    PROVE  ExecInv'
<1> USE IdFacts, TypeParts DEF ExecInv
<1>1. /\ x \in Locals /\ x.stmt \in Statement \cup {Bad} /\ x.stmt2 \in Statement \cup {Bad}
      /\ (x.soft \/ l = "soft") \in BOOLEAN
      /\ (IF x.stmt2 = Null THEN x.stmt ELSE x.stmt2) \in Statement \cup {Bad}
      /\ (IF x.stmt2 = Bad THEN Null ELSE x.stmt2) \in Statement \cup {Bad}
  BY DEF Locals
<1>2. x' \in Locals
  BY <1>1, LocalsTypes DEF Advanced
<1>3. /\ x'.id = x.id /\ x'.text = x.text /\ x'.toclose = x.toclose
      /\ x'.stmt = IF x.stmt2 = Null THEN x.stmt ELSE x.stmt2
  BY <1>1 DEF Advanced, Locals
<1>4. /\ pc' = IF x.stmt2 = Null THEN "commit" ELSE "again"
      /\ UNCHANGED <<h, prepared, open, misuse, status>>
  BY DEF Advanced
<1>5. StmtInv'
  BY <1>1, <1>3, <1>4 DEF StmtInv
<1>6. OwnInv' /\ UserInv'
  BY <1>3, <1>4 DEF OwnInv, UserInv
<1>7. TypeOK'
  BY <1>2, <1>3, <1>4 DEF TypeOK, Locals, Connection, Phase
<1> QED
  BY <1>5, <1>6, <1>7

LEMMA StepStep ==
    ASSUME ExecInv, StepDone \/ StepRow \/ StepError \/ StepSoft
    PROVE  ExecInv'
<1> USE IdFacts, TypeParts DEF ExecInv
<1>1. CASE StepDone
  <2>1. pc = "step" /\ x.stmt \in Id /\ x.id \in Nat
    BY <1>1 DEF StepDone, StmtInv, Locals
  <2>2. <<x.id, x.stmt[2]>> \in Id
    BY <2>1
  <2>3. conn' \in Connection /\ conn'.txn = conn.txn
    BY <1>1, <2>2, ConnTypes DEF StepDone, Connection
  <2> QED
    BY <1>1, <2>1, <2>3, AdvancedTypes DEF StepDone
<1>2. CASE StepRow
  BY <1>2, AdvancedTypes DEF StepRow
<1>3. CASE StepError
  BY <1>3 DEF StepError, TypeOK, Phase, StmtInv, OwnInv, UserInv
<1>4. CASE StepSoft
  <2>1. conn' \in {conn, RolledBack} /\ RolledBack.txn = "none"
    BY <1>4 DEF StepSoft, RolledBack
  <2>2. conn' \in Connection /\ (conn'.txn = conn.txn \/ conn'.txn = "none")
    BY <2>1, ConnTypes
  <2> QED
    BY <1>4, <2>2, AdvancedTypes DEF StepSoft
<1> QED
  BY <1>1, <1>2, <1>3, <1>4

LEMMA AutoCommitStep ==
    ASSUME ExecInv, AutoCommit
    PROVE  ExecInv'
<1> USE IdFacts, TypeParts DEF ExecInv
<1>0. pc = "commit" /\ UNCHANGED <<x, prepared, status>>
  BY DEF AutoCommit
<1>1. CASE /\ conn' = IF x.toclose THEN Committed ELSE conn
           /\ pc' = IF x.last = "soft" THEN "fail" ELSE "deliver"
           /\ UNCHANGED <<h, open, misuse>>
  <2>1. Committed.txn = "none"
    BY DEF Committed
  <2>2. conn' \in Connection
    BY <1>1, ConnTypes
  <2>3. conn'.txn # "exec" /\ (conn'.txn = "user" => conn'.txn = conn.txn)
    BY <1>1, <2>1 DEF OwnInv
  <2>4. TypeOK'
    BY <1>0, <1>1, <2>2 DEF TypeOK, Connection, Phase
  <2>5. StmtInv' /\ OwnInv' /\ UserInv'
    BY <1>0, <1>1, <2>3 DEF StmtInv, OwnInv, UserInv
  <2> QED
    BY <2>4, <2>5
<1>2. CASE conn.txn = "exec" /\ pc' = "fail" /\ ClearResult /\ UNCHANGED conn
  <2>1. h' \in Handle /\ open' \in SUBSET Id /\ misuse' \in BOOLEAN
    BY <1>2, HandleTypes, FinalizeTypes DEF ClearResult
  <2>2. TypeOK'
    BY <1>0, <1>2, <2>1 DEF TypeOK, Handle, Phase
  <2>3. StmtInv' /\ OwnInv' /\ UserInv'
    BY <1>0, <1>2 DEF StmtInv, OwnInv, UserInv
  <2> QED
    BY <2>2, <2>3
<1> QED
  BY <1>1, <1>2 DEF AutoCommit

LEMMA DeliverStep ==
    ASSUME ExecInv, Deliver
    PROVE  ExecInv'
<1> USE IdFacts, TypeParts DEF ExecInv
<1>0. /\ pc = "deliver" /\ x.stmt \in Id /\ x.cache \in BOOLEAN /\ conn.txn # "exec"
      /\ UNCHANGED <<x, prepared, conn>>
  BY DEF Deliver, StmtInv, OwnInv, Locals
<1>1. pc' \in {"idle", "fail"} /\ status' \in {"none", "ok", "error"}
  BY DEF Deliver
<1>2. h' \in Handle /\ open' \in SUBSET Id /\ misuse' \in BOOLEAN
  <2>1. (IF x.cache THEN x.stmt ELSE Null) \in Statement /\ x.stmt \in Statement
    BY <1>0
  <2>2. CASE h' = [cur |-> x.stmt, cached |-> x.cache, fields |-> TRUE] /\ UNCHANGED <<open, misuse>>
    BY <1>0, <2>1, <2>2, HandleTypes
  <2>3. CASE /\ h' = [cur |-> IF x.cache THEN x.stmt ELSE Null,
                      cached |-> x.cache, fields |-> FALSE]
             /\ Finalize({IF x.cache THEN Null ELSE x.stmt})
    <3>1. h' \in Handle
      BY <1>0, <2>1, <2>3, HandleTypes
    <3> QED
      BY <2>3, <3>1, FinalizeTypes
  <2>4. CASE /\ h' = [h EXCEPT !.cur = x.stmt, !.cached = x.cache]
             /\ UNCHANGED <<open, misuse>>
    BY <1>0, <2>1, <2>4, HandleTypes
  <2> QED
    BY <2>2, <2>3, <2>4 DEF Deliver
<1>3. TypeOK'
  BY <1>0, <1>1, <1>2 DEF TypeOK, Handle, Phase
<1>4. StmtInv' /\ OwnInv' /\ UserInv'
  BY <1>0, <1>1 DEF StmtInv, OwnInv, UserInv
<1> QED
  BY <1>3, <1>4

LEMMA FailStep ==
    ASSUME ExecInv, Fail
    PROVE  ExecInv'
<1> USE IdFacts, TypeParts DEF ExecInv
<1>0. pc = "fail" /\ pc' = "idle" /\ status' = "error" /\ h' = Cleared /\ x' = x
  BY DEF Fail
<1>1. conn' \in Connection /\ conn'.txn # "exec"
  <2>1. conn' = IF x.toclose THEN RolledBack ELSE conn
    BY DEF Fail, OwnRolledBack
  <2>2. RolledBack.txn = "none"
    BY DEF RolledBack
  <2> QED
    BY <2>1, <2>2, ConnTypes DEF OwnInv
<1>2. prepared' \in [Texts -> Statement]
  BY DEF Fail
<1>3. open' \in SUBSET Id
  BY DEF Fail
<1>4. misuse' \in BOOLEAN
  BY DEF Fail
<1>5. h' \in Handle
  BY <1>0, HandleTypes
<1>6. TypeOK'
  BY <1>0, <1>1, <1>2, <1>3, <1>4, <1>5 DEF TypeOK, Handle, Connection, Phase
<1>7. StmtInv' /\ OwnInv' /\ UserInv'
  BY <1>0, <1>1 DEF StmtInv, OwnInv, UserInv
<1> QED
  BY <1>6, <1>7

LEMMA UserStep ==
    ASSUME ExecInv, UserBegin \/ UserCommit \/ UserRollback
    PROVE  ExecInv'
<1> USE IdFacts, TypeParts DEF ExecInv
<1>0. pc = "idle" /\ UNCHANGED <<pc, x, prepared, status>> /\ ClearResult
  BY DEF UserBegin, UserCommit, UserRollback
<1>1. h' \in Handle /\ open' \in SUBSET Id /\ misuse' \in BOOLEAN
  BY <1>0, HandleTypes, FinalizeTypes DEF ClearResult
<1>2. conn' \in {[Committed EXCEPT !.txn = "user"], Committed, RolledBack, conn}
  BY DEF UserBegin, UserCommit, UserRollback
<1>3. conn' \in Connection
  BY <1>2, ConnTypes
<1>4. conn.txn # "exec" => conn'.txn # "exec"
  <2>1. Committed \in Connection /\ Committed.txn = "none" /\ RolledBack.txn = "none"
    BY ConnTypes DEF Committed, RolledBack
  <2>2. [Committed EXCEPT !.txn = "user"].txn = "user"
    BY <2>1 DEF Connection
  <2> QED
    BY <1>2, <2>1, <2>2
<1>5. TypeOK'
  BY <1>0, <1>1, <1>3 DEF TypeOK, Handle, Connection
<1>6. StmtInv' /\ OwnInv' /\ UserInv'
  BY <1>0, <1>4 DEF StmtInv, OwnInv, UserInv
<1> QED
  BY <1>5, <1>6

LEMMA InitExec == Init => ExecInv
<1> SUFFICES ASSUME Init PROVE ExecInv
  OBVIOUS
<1> USE IdFacts, TypeParts DEF Init
<1>1. pc \in Phase /\ status \in {"none", "ok", "error"}
  BY DEF Phase
<1>2. x \in Locals /\ x.id = 0
  <2>1. [n |-> 1, tail |-> TRUE] \in [n : Nat, tail : BOOLEAN]
    OBVIOUS
  <2> QED
    BY <2>1 DEF Locals, NoCall
<1>3. h \in Handle
  BY DEF Handle
<1>4. conn \in Connection /\ conn.txn = "none"
  BY DEF Connection
<1>5. prepared \in [Texts -> Statement] /\ open \in SUBSET Id /\ misuse \in BOOLEAN
  OBVIOUS
<1>6. TypeOK
  BY <1>1, <1>2, <1>3, <1>4, <1>5 DEF TypeOK, Locals, Handle, Connection
<1>7. StmtInv /\ OwnInv /\ UserInv
  BY <1>4 DEF StmtInv, OwnInv, UserInv
<1> QED
  BY <1>6, <1>7 DEF ExecInv

LEMMA ExecStepInv == ExecInv /\ [Next]_vars => ExecInv'
<1> SUFFICES ASSUME ExecInv, [Next]_vars PROVE ExecInv'
  OBVIOUS
<1>1. CASE UNCHANGED vars
  BY <1>1 DEF vars, ExecInv, TypeOK, StmtInv, OwnInv, UserInv
<1>2. CASE Next
  <2>1. ASSUME NEW t \in Texts, NEW c \in BOOLEAN, NEW f \in BOOLEAN, Call(t, c, f)
        PROVE  ExecInv'
    BY <2>1, CallStep
  <2>2. CASE ExecStep
    BY <2>2, PrepareStep, LookAheadStep, StepStep, AutoCommitStep, DeliverStep, FailStep
       DEF ExecStep
  <2>3. CASE UserBegin \/ UserCommit \/ UserRollback
    BY <2>3, UserStep
  <2> QED
    BY <1>2, <2>1, <2>2, <2>3 DEF Next
<1> QED
  BY <1>1, <1>2

LEMMA ExecAlways == Spec => []ExecInv
BY InitExec, ExecStepInv, PTL DEF Spec

(* Type correctness of exec: whatever the texts, the failures and the order *)
(* of the calls, a statement pointer of dbi_Sqlite3_Exec holds NULL or a    *)
(* statement that a call prepared.                                          *)
THEOREM ExecTypes == Spec => []TypeOK
<1>1. ExecInv => TypeOK
  BY DEF ExecInv
<1> QED
  BY <1>1, ExecAlways, PTL

(* The transaction dbi_Sqlite3_Exec opens around the commands of a text     *)
(* never outlives the call, however many commands there are, whichever of   *)
(* them fails and also when the commit is refused.                          *)
THEOREM ExecNoStray == Spec => []NoStrayTransaction
<1>1. ExecInv => NoStrayTransaction
  BY DEF ExecInv, OwnInv, NoStrayTransaction
<1> QED
  BY <1>1, ExecAlways, PTL

------------------------------------------------------------------------------
(* The user's transaction. *)

LEMMA OneMore ==
    ASSUME NEW s \in Seq(Id), NEW e \in Id
    PROVE  SubSeq(Append(s, e), 1, Len(s)) = s /\ SubSeq(s, 1, Len(s)) = s
<1>1. /\ SubSeq(s, 1, Len(s)) \in Seq(Id) /\ Append(s, e) \in Seq(Id)
      /\ Len(Append(s, e)) = Len(s) + 1 /\ Len(s) \in Nat
  OBVIOUS
<1>2. SubSeq(Append(s, e), 1, Len(s)) = s
  BY <1>1
<1>3. SubSeq(s, 1, Len(s)) = s
  BY <1>1
<1> QED
  BY <1>2, <1>3

(* The transaction of the user is open and goes on with all its work.       *)
Kept == conn'.txn = "user" /\ conn'.done = conn.done /\
        SubSeq(conn'.pend, 1, Len(conn.pend)) = conn.pend

LEMMA KeptSame ==
    ASSUME conn \in Connection, conn.txn = "user", conn' = conn
    PROVE  Kept
<1>1. conn.pend \in Seq(Id)
  BY DEF Connection
<1>2. SubSeq(conn.pend, 1, Len(conn.pend)) = conn.pend
  BY <1>1
<1> QED
  BY <1>2 DEF Kept

LEMMA UserKeptStep ==
    ASSUME ExecInv, Next, pc # "idle", conn.txn = "user"
    PROVE  Kept \/ (pc = "step" /\ conn' = RolledBack)
<1> USE IdFacts, TypeParts DEF ExecInv
<1>1. conn \in Connection /\ ~x.toclose /\ x \in Locals
  BY DEF UserInv
<1>2. CASE StepDone
  <2>1. pc = "step" /\ x.stmt \in Id /\ x.id \in Nat
    BY <1>2 DEF StepDone, StmtInv, Locals
  <2>2. <<x.id, x.stmt[2]>> \in Id /\ conn.pend \in Seq(Id)
    BY <1>1, <2>1 DEF Connection
  <2>3. conn' = [conn EXCEPT !.pend = Append(@, <<x.id, x.stmt[2]>>)]
    BY <1>2 DEF StepDone
  <2>4. /\ conn'.txn = "user" /\ conn'.done = conn.done
        /\ conn'.pend = Append(conn.pend, <<x.id, x.stmt[2]>>)
    BY <1>1, <2>3 DEF Connection
  <2> QED
    BY <2>2, <2>4, OneMore DEF Kept
<1>3. CASE StepSoft
  BY <1>1, <1>3, KeptSame DEF StepSoft
<1>4. CASE conn' = conn
  BY <1>1, <1>4, KeptSame
<1>5. CASE LookAhead
  <2>1. conn' \in {conn, Started("exec")}
    BY <1>5 DEF LookAhead
  <2> QED
    BY <1>1, <2>1, KeptSame DEF Started
<1>6. CASE AutoCommit
  BY <1>1, <1>4, <1>6 DEF AutoCommit
<1>7. CASE Fail
  BY <1>1, <1>4, <1>7 DEF Fail, OwnRolledBack
<1>8. PrepareFirst \/ StepRow \/ StepError \/ Deliver => conn' = conn
  BY DEF PrepareFirst, vars, StepRow, StepError, Deliver
<1>9. ExecStep
  BY DEF Next, Call, UserBegin, UserCommit, UserRollback
<1> QED
  BY <1>2, <1>3, <1>4, <1>5, <1>6, <1>7, <1>8, <1>9 DEF ExecStep

(* While the user's explicit transaction is open no phase of                *)
(* dbi_Sqlite3_Exec commits it or drops a part of it: it goes on with all   *)
(* its work, or a command that fails has the library roll all of it back.   *)
THEOREM ExecUserKept == Spec => UserTransactionKept
<1>1. ExecInv /\ [Next]_vars => [pc # "idle" /\ conn.txn = "user" =>
          \/ conn'.txn = "user" /\ conn'.done = conn.done /\
             SubSeq(conn'.pend, 1, Len(conn.pend)) = conn.pend
          \/ pc = "step" /\ conn' = RolledBack]_vars
  BY UserKeptStep DEF Kept
<1> QED
  BY <1>1, ExecAlways, PTL DEF Spec, UserTransactionKept
=============================================================================
