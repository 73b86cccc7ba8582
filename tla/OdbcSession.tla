------------------------------- MODULE OdbcSession -------------------------------
(****************************************************************************)
(* Objects of dbi_odbc (odbc/generic/odbc.c, odbc_result.c).  The driver    *)
(* never commits by itself; the backend keeps "autocommit" and "trans" at   *)
(* the root and ends the transaction after, or before, every exec.  The     *)
(* result is read from the driver line by line, forward only.  One action   *)
(* is one method; the driver is one that keeps cursors open over the end of *)
(* a transaction.                                                           *)
(****************************************************************************)
EXTENDS SqlServer

VARIABLES obj, srv, reply

vars == <<obj, srv, reply>>

(* hdbc stands for hasconn too; known is ntuples (-1: not known), tuple the *)
(* line that is in the buffer.  begun is no field of the C record: it is    *)
(* TRUE from a begin on this connection to its commit or rollback, and only *)
(* the properties read it.                                                  *)
Absent == [alive |-> FALSE, parent |-> NoObj, clones |-> {}, hdbc |-> 0, auto |-> TRUE,
           trans |-> FALSE, begun |-> FALSE, res |-> 0, len |-> 0, known |-> -1, tuple |-> -1]
Fresh  == [Absent EXCEPT !.alive = TRUE]

Init == /\ obj = [o \in Obj |-> Absent]
        /\ srv = [c \in Conn |-> Silent]
        /\ reply = NoReply

IsClone(o) == obj[o].parent # NoObj
Root(o) == IF IsClone(o) THEN obj[o].parent ELSE o
Connected(o) == obj[o].alive /\ obj[o].hdbc # 0

(* dbi_odbc_autocommit_state, dbi_odbc_trans_state: those of the root. *)
Autocommit(o) == obj[Root(o)].auto
Trans(o) == obj[Root(o)].trans

(* The records S with flag trans of o's root set to b. *)
WithTrans(S, o, b) == [S EXCEPT ![Root(o)].trans = b]

(* The connection after SQLEndTran: a new transaction begins by itself. *)
EndTran(s, commits) == Begun(IF commits THEN Committed(s) ELSE RolledBack(s))

New(o) ==
    /\ ~obj[o].alive
    /\ obj' = [obj EXCEPT ![o] = Fresh]
    /\ reply' = Answer(o, "new", "ok")
    /\ UNCHANGED srv

(* open: autocommit and trans are left as they are.  An open that gets its  *)
(* connection but no statement handle is left out: it fails with hasconn    *)
(* set and the handle undefined.                                            *)
Open(o) ==
    /\ obj[o].alive /\ ~IsClone(o) /\ obj[o].hdbc = 0
    /\ \/ /\ \E c \in {d \in Conn : srv[d].link = "unused"} :
                /\ obj' = [obj EXCEPT ![o].hdbc = c]
                /\ srv' = [srv EXCEPT ![c] = Begun(Linked(@))]
          /\ reply' = Answer(o, "open", "ok")
       \/ reply' = Answer(o, "open", "failed") /\ UNCHANGED <<obj, srv>>

(* dbi_odbc_clearresult *)
Clearresult(r) == [r EXCEPT !.res = 0, !.len = 0, !.known = -1, !.tuple = -1]

(* dbi_odbc_bindresult: a driver may know the number of lines or not. *)
Bindresult_TupleKept(r, rows, counted) ==
    [r EXCEPT !.res = Another(@), !.len = rows, !.known = IF counted THEN rows ELSE -1]
Bindresult(r, rows, counted) ==
    [r EXCEPT !.res = Another(@), !.len = rows, !.known = IF counted THEN rows ELSE -1,
              !.tuple = -1]

(* dbi_odbc_Transaction_Rollback: only in autocommit mode.  A driver does   *)
(* not refuse to roll back (a refusal would leave the work pending with     *)
(* trans cleared).                                                          *)
RollbackIfAuto_Always(o, s) == EndTran(s, FALSE)
RollbackIfAuto(o, s) == IF Autocommit(o) THEN EndTran(s, FALSE) ELSE s

(* exec.  First what an earlier exec -usefetch has left is committed; the   *)
(* commands are executed; without -usefetch, or without rows, what they did *)
(* is committed.  Either commit may be refused, which rolls back.           *)
ExecStart(o, s) == IF Autocommit(o) /\ Trans(o) THEN EndTran(s, TRUE) ELSE s
EndsItself(o, t, fetch) == Autocommit(o) /\ ~(fetch /\ Selects(t))

(* The connection when n commands of t have been executed. *)
Done(o, t, n) ==
    LET s == srv[obj[o].hdbc]
    IN Written(ExecStart(o, Given(s, t)), Writes(s, t, n))
Executing(o, ended, t) == Executed(o, ended, Writes(srv[obj[o].hdbc], t, Len(t)))

ExecOk(o, t, fetch) ==
    LET done == Done(o, t, Len(t))
        ends == EndsItself(o, t, fetch)
    IN /\ srv' = [srv EXCEPT ![obj[o].hdbc] = IF ends THEN EndTran(done, TRUE) ELSE done]
       /\ \E rows \in IF fetch THEN Rows(t) ELSE {0}, counted \in {Selects(t), FALSE} :
             obj' = WithTrans([obj EXCEPT ![o] =
                 IF fetch /\ Selects(t) THEN Bindresult(@, rows, counted) ELSE Clearresult(@)],
                 o, ~ends)
       /\ reply' = Executing(o, "ok", t)

ExecFails(o, t, n) ==
    /\ srv' = [srv EXCEPT ![obj[o].hdbc] = RollbackIfAuto(o, Done(o, t, n))]
    /\ obj' = WithTrans([obj EXCEPT ![o] = Clearresult(@)], o, ~Autocommit(o))
    /\ reply' = Executing(o, "failed", t)

(* The commit of what was left is refused. *)
ExecStartFails(o, t) ==
    /\ Autocommit(o) /\ Trans(o)
    /\ srv' = [srv EXCEPT ![obj[o].hdbc] = EndTran(Given(@, t), FALSE)]
    /\ obj' = WithTrans([obj EXCEPT ![o] = Clearresult(@)], o, FALSE)
    /\ reply' = Executing(o, "failed", t)

Exec(o, t, fetch, args) ==
    /\ Connected(o)
    /\ IF t = <<>> THEN reply' = Executed(o, "nothing", {}) /\ UNCHANGED <<obj, srv>>
       ELSE LET n == IF args THEN UpToError(t) ELSE 0
            IN /\ Fits(srv[obj[o].hdbc], t)
               /\ \/ ExecStartFails(o, t)
                  \/ n < Len(t) /\ ExecFails(o, t, n)
                  \/ n = Len(t) /\ ExecOk(o, t, fetch)
                  \/ n = Len(t) /\ EndsItself(o, t, fetch) /\ ExecFails(o, t, n)

(* fetch of the next line (-1), of the current one (-2) or of a given one.  *)
(* The first fetch goes to the first line, before anything is compared;     *)
(* running into the end makes the last line the number of lines.            *)
Asked(o, q) == IF q = -2 /\ obj[o].tuple >= 0 THEN obj[o].tuple ELSE q
Wanted(o, q) == IF q = -1 THEN obj[o].tuple + 1 ELSE Asked(o, q)
First(r) == IF r.tuple = -1 THEN 0 ELSE r.tuple

FetchAt(o, q, line) ==
    LET r == obj[o]
        at == First(r)
    IN IF r.res = 0 \/ line < 0
       THEN reply' = NoLine(o, Asked(o, q)) /\ UNCHANGED obj
       ELSE IF r.len = 0
       THEN /\ obj' = [obj EXCEPT ![o].known = -1]
            /\ reply' = NoLine(o, Asked(o, q))
       ELSE IF (r.known # -1 /\ line > r.known) \/ line < at
       THEN /\ obj' = [obj EXCEPT ![o].tuple = at]
            /\ reply' = NoLine(o, Asked(o, q))
       ELSE IF line >= r.len
       THEN /\ obj' = [obj EXCEPT ![o].tuple = r.len - 1, ![o].known = r.len - 1]
            /\ reply' = NoLine(o, Asked(o, q))
       ELSE /\ obj' = [obj EXCEPT ![o].tuple = line]
            /\ reply' = GivenLine(o, Asked(o, q), line, r.res)

Fetch(o, q) ==
    /\ Connected(o)
    /\ FetchAt(o, q, Wanted(o, q))
    /\ UNCHANGED srv

(* SQLFetch fails on the way to the line: in autocommit mode what is not    *)
(* committed is rolled back.                                                *)
FetchError(o, q) ==
    /\ Connected(o) /\ obj[o].res # 0 /\ Wanted(o, q) > obj[o].tuple
    /\ \E k \in obj[o].tuple .. obj[o].len - 1 :
          obj' = WithTrans([obj EXCEPT ![o].tuple = k], o, Trans(o) /\ ~Autocommit(o))
    /\ srv' = [srv EXCEPT ![obj[o].hdbc] = IF Trans(o) THEN RollbackIfAuto(o, @) ELSE @]
    /\ reply' = [Answer(o, "fetch", "failed") EXCEPT !.asked = Asked(o, q)]

FetchLines(o) ==
    /\ Connected(o)
    /\ reply' = IF obj[o].res = 0 \/ obj[o].known = -1 THEN Answer(o, "lines", "refused")
                ELSE Count(o, obj[o].known)
    /\ UNCHANGED <<obj, srv>>

FetchClear(o) ==
    /\ Connected(o)
    /\ obj' = [obj EXCEPT ![o] = Clearresult(@)]
    /\ reply' = Answer(o, "clear", IF obj[o].res = 0 THEN "failed" ELSE "ok")
    /\ UNCHANGED srv

(* begin commits what an earlier exec has left and then turns autocommit    *)
(* off; commit and rollback turn it on first, since they act in autocommit  *)
(* mode only.                                                               *)
Mode(S, o, b, t) ==
    [S EXCEPT ![Root(o)].auto = b, ![Root(o)].trans = t, ![Root(o)].begun = ~b]

Begin(o) ==
    /\ Connected(o)
    /\ \/ /\ obj' = Mode(obj, o, FALSE, TRUE)
          /\ srv' = [srv EXCEPT ![obj[o].hdbc] = ExecStart(o, @)]
          /\ reply' = Answer(o, "begin", "ok")
       \/ /\ Autocommit(o) /\ Trans(o)
          /\ obj' = WithTrans(obj, o, FALSE)
          /\ srv' = [srv EXCEPT ![obj[o].hdbc] = EndTran(@, FALSE)]
          /\ reply' = Answer(o, "begin", "failed")

EndsTran(o, method, commits) ==
    /\ obj' = Mode(obj, o, TRUE, FALSE)
    /\ srv' = [srv EXCEPT ![obj[o].hdbc] = IF Trans(o) THEN EndTran(@, commits) ELSE @]
    /\ reply' = Answer(o, method, IF method = "commit" /\ ~commits THEN "failed" ELSE "ok")

Commit(o)   == Connected(o) /\ \/ EndsTran(o, "commit", TRUE)
                               \/ Trans(o) /\ EndsTran(o, "commit", FALSE)
Rollback(o) == Connected(o) /\ EndsTran(o, "rollback", FALSE)

(* dbi_odbc_Close ends an open transaction, that of the family when the     *)
(* object is a clone.  Autocommit is not restored.                          *)
ClosedRecords(o) ==
    LET S == WithTrans(obj, o, FALSE)
    IN IF IsClone(o) THEN [S EXCEPT ![obj[o].parent].clones = @ \ {o}, ![o] = Absent]
       ELSE [p \in Obj |->
                IF p = o THEN [Clearresult(S[o]) EXCEPT !.clones = {}, !.hdbc = 0, !.begun = FALSE]
                ELSE IF p \in obj[o].clones THEN Absent
                ELSE S[p]]
ClosedServer(o) ==
    LET c == obj[o].hdbc
        s == IF Trans(o) THEN EndTran(srv[c], FALSE) ELSE srv[c]
    IN [srv EXCEPT ![c] = IF IsClone(o) THEN s ELSE HungUp(s)]

Close(o) ==
    /\ Connected(o)
    /\ obj' = ClosedRecords(o) /\ srv' = ClosedServer(o)
    /\ reply' = Answer(o, "close", "ok")

Destroy(o) ==
    /\ obj[o].alive
    /\ IF obj[o].hdbc = 0 THEN obj' = [obj EXCEPT ![o] = Absent] /\ UNCHANGED srv
       ELSE obj' = [ClosedRecords(o) EXCEPT ![o] = Absent] /\ srv' = ClosedServer(o)
    /\ reply' = Answer(o, "destroy", "ok")

(* The name is a new one: a clone given the name of its own root, or one    *)
(* that gets no statement handle, goes on with records already freed.       *)
Clone(o, n) ==
    /\ Connected(o) /\ ~obj[n].alive
    /\ LET r == Root(o)
       IN obj' = [obj EXCEPT ![n] = [Fresh EXCEPT !.parent = r, !.hdbc = obj[r].hdbc],
                             ![r].clones = @ \cup {n}]
    /\ reply' = Answer(n, "clone", "ok")
    /\ UNCHANGED srv

Next ==
    \E o \in Obj :
        \/ New(o) \/ Open(o)
        \/ \E t \in Texts : \/ \E fetch \in BOOLEAN : Exec(o, t, fetch, TRUE)
                           \/ Exec(o, t, FALSE, FALSE)
        \/ \E q \in -2 .. MaxLines : Fetch(o, q) \/ FetchError(o, q)
        \/ FetchLines(o) \/ FetchClear(o)
        \/ Begin(o) \/ Commit(o) \/ Rollback(o)
        \/ \E n \in Obj : Clone(o, n)
        \/ Close(o) \/ Destroy(o)

TypeOK ==
    obj \in [Obj -> [alive : BOOLEAN, parent : Obj \cup {NoObj}, clones : SUBSET Obj,
                     hdbc : Conn \cup {0}, auto : BOOLEAN, trans : BOOLEAN, begun : BOOLEAN,
                     res : 0 .. 2, len : 0 .. MaxLines, known : -1 .. MaxLines, tuple : -1 .. MaxLines]]
==================================================================================
