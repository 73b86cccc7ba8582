---------------------------- MODULE PostgresqlSession ----------------------------
(****************************************************************************)
(* Objects of dbi_postgresql (postgresql/generic/postgresql.c).  A text is  *)
(* one PQexec, whatever commands it has, which the server runs as one       *)
(* transaction; a failed command makes the open transaction useless.  The   *)
(* result is a whole in memory.  One action is one method.                  *)
(****************************************************************************)
EXTENDS SqlServer

VARIABLES obj, srv, reply

vars == <<obj, srv, reply>>

(* conn is the connection, res the PGresult kept for fetch, respos the      *)
(* position in it (a position past the end is len).                         *)
Absent == [alive |-> FALSE, parent |-> NoObj, clones |-> {}, conn |-> 0,
           res |-> 0, len |-> 0, respos |-> -1]
Fresh  == [Absent EXCEPT !.alive = TRUE]

Init == /\ obj = [o \in Obj |-> Absent]
        /\ srv = [c \in Conn |-> Silent]
        /\ reply = NoReply

IsClone(o) == obj[o].parent # NoObj
Connected(o) == obj[o].alive /\ obj[o].conn # 0

New(o) ==
    /\ ~obj[o].alive
    /\ obj' = [obj EXCEPT ![o] = Fresh]
    /\ reply' = Answer(o, "new", "ok")
    /\ UNCHANGED srv

(* open: the pointer is set only when the connection is good. *)
Open(o) ==
    /\ obj[o].alive /\ ~IsClone(o) /\ obj[o].conn = 0
    /\ \/ /\ \E c \in {d \in Conn : srv[d].link = "unused"} :
                /\ obj' = [obj EXCEPT ![o].conn = c]
                /\ srv' = [srv EXCEPT ![c] = Linked(@)]
          /\ reply' = Answer(o, "open", "ok")
       \/ reply' = Answer(o, "open", "failed") /\ UNCHANGED <<obj, srv>>

(* PQexec of text t: all of its commands or none; the server refuses        *)
(* everything in a transaction in which a command has failed.               *)
PQexecWorks(s, t) == Len(t) > 0 /\ s.txn # "aborted" /\ UpToError(t) = Len(t)
PQexec(s, t) ==
    IF PQexecWorks(s, t) THEN Written(Given(s, t), Writes(s, t, Len(t)))
    ELSE IF s.txn = "none" \/ t = <<>> THEN Given(s, t)
    ELSE [s EXCEPT !.txn = "aborted", !.pending = {}]

(* The result is replaced only when the command has succeeded; -usefetch    *)
(* keeps the result of a command without rows too.                          *)
Replaced(r, fetch, rows) ==
    [r EXCEPT !.res = IF fetch THEN Another(@) ELSE 0, !.len = rows, !.respos = -1]

Exec(o, t, fetch, args) ==
    /\ Connected(o)
    /\ LET c == obj[o].conn
           ok == args /\ PQexecWorks(srv[c], t)
       IN /\ Fits(srv[c], t)
          /\ srv' = [srv EXCEPT ![c] = IF args THEN PQexec(@, t) ELSE Given(@, t)]
          /\ \E rows \in IF fetch THEN Rows(t) ELSE {0} :
                obj' = [obj EXCEPT ![o] = IF ok THEN Replaced(@, fetch, rows) ELSE @]
          /\ reply' = Executed(o, IF ok THEN "ok" ELSE "failed", Writes(srv[c], t, Len(t)))

(* begin, commit and rollback are texts for exec as well, so that success   *)
(* takes the object's own result.  Committing what has failed rolls back.   *)
Command(o, method, after) ==
    /\ Connected(o)
    /\ srv' = [srv EXCEPT ![obj[o].conn] = after]
    /\ obj' = [obj EXCEPT ![o] = Replaced(@, FALSE, 0)]
    /\ reply' = Answer(o, method, "ok")

Transaction_Start(o) ==
    IF Connected(o) /\ srv[obj[o].conn].txn = "aborted"
    THEN reply' = Answer(o, "begin", "failed") /\ UNCHANGED <<obj, srv>>
    ELSE Command(o, "begin", Begun(srv[obj[o].conn]))
Transaction_Commit(o)   == Command(o, "commit", Committed(srv[obj[o].conn]))
Transaction_Rollback(o) == Command(o, "rollback", RolledBack(srv[obj[o].conn]))

(* fetch of the next line (-1), of the current one (-2) or of a given one:  *)
(* the position moves before it is compared with the number of lines.       *)
Asked(o, q) == IF q = -2 /\ obj[o].respos >= 0 THEN obj[o].respos ELSE q
Wanted(o, q) == IF q = -1 THEN obj[o].respos + 1 ELSE Asked(o, q)
Moved(r, line) == [r EXCEPT !.respos = IF line > r.len THEN r.len ELSE line]

Fetch_NegativeLine(o, q) ==
    LET line == Wanted(o, q)
    IN /\ Connected(o)
       /\ IF obj[o].res = 0
          THEN reply' = NoLine(o, Asked(o, q)) /\ UNCHANGED obj
          ELSE /\ obj' = [obj EXCEPT ![o] = Moved(@, line)]
               /\ reply' = IF line >= obj[o].len THEN NoLine(o, Asked(o, q))
                           ELSE GivenLine(o, Asked(o, q), line, obj[o].res)
       /\ UNCHANGED srv

Fetch(o, q) ==
    LET line == Wanted(o, q)
    IN /\ Connected(o)
       /\ IF obj[o].res = 0 \/ line < 0
          THEN reply' = NoLine(o, Asked(o, q)) /\ UNCHANGED obj
          ELSE /\ obj' = [obj EXCEPT ![o] = Moved(@, line)]
               /\ reply' = IF line >= obj[o].len THEN NoLine(o, Asked(o, q))
                           ELSE GivenLine(o, Asked(o, q), line, obj[o].res)
       /\ UNCHANGED srv

FetchLines(o) ==
    /\ Connected(o)
    /\ reply' = IF obj[o].res = 0 THEN Answer(o, "lines", "refused")
                ELSE Count(o, obj[o].len)
    /\ UNCHANGED <<obj, srv>>

FetchClear(o) ==
    /\ Connected(o)
    /\ obj' = [obj EXCEPT ![o].res = 0, ![o].len = 0]
    /\ reply' = Answer(o, "clear", IF obj[o].res = 0 THEN "failed" ELSE "ok")
    /\ UNCHANGED srv

(* close of a root destroys its clones; its result stays. *)
CloseRoot(o) == [p \in Obj |->
    IF p = o THEN [obj[o] EXCEPT !.clones = {}, !.conn = 0]
    ELSE IF p \in obj[o].clones THEN Absent
    ELSE obj[p]]
DestroyClone_StillListed(o) == [obj EXCEPT ![o] = Absent]
DestroyClone(o) ==
    [obj EXCEPT ![obj[o].parent].clones = @ \ {o}, ![o] = Absent]
Finished(o) == [c \in Conn |->
    IF c = obj[o].conn /\ ~IsClone(o) THEN HungUp(srv[c]) ELSE srv[c]]

Close(o) ==
    /\ Connected(o)
    /\ obj' = IF IsClone(o) THEN DestroyClone(o) ELSE CloseRoot(o)
    /\ srv' = Finished(o)
    /\ reply' = Answer(o, "close", "ok")

Destroy(o) ==
    /\ obj[o].alive
    /\ obj' = IF IsClone(o) THEN DestroyClone(o) ELSE [CloseRoot(o) EXCEPT ![o] = Absent]
    /\ srv' = Finished(o)
    /\ reply' = Answer(o, "destroy", "ok")

Root(o) == IF IsClone(o) THEN obj[o].parent ELSE o

(* The name is a new one: with the name of its own root the code would use  *)
(* a record freed.                                                          *)
Clone(o, n) ==
    /\ Connected(o) /\ ~obj[n].alive
    /\ LET r == Root(o)
       IN obj' = [obj EXCEPT ![n] = [Fresh EXCEPT !.parent = r, !.conn = obj[r].conn],
                             ![r].clones = @ \cup {n}]
    /\ reply' = Answer(n, "clone", "ok")
    /\ UNCHANGED srv

Next ==
    \E o \in Obj :
        \/ New(o) \/ Open(o)
        \/ \E t \in Texts : \/ \E fetch \in BOOLEAN : Exec(o, t, fetch, TRUE)
                           \/ Exec(o, t, FALSE, FALSE)
        \/ \E q \in -2 .. MaxLines : Fetch(o, q)
        \/ FetchLines(o) \/ FetchClear(o)
        \/ Transaction_Start(o) \/ Transaction_Commit(o) \/ Transaction_Rollback(o)
        \/ \E n \in Obj : Clone(o, n)
        \/ Close(o) \/ Destroy(o)

TypeOK ==
    obj \in [Obj -> [alive : BOOLEAN, parent : Obj \cup {NoObj}, clones : SUBSET Obj,
                     conn : Conn \cup {0}, res : 0 .. 2, len : 0 .. MaxLines,
                     respos : -1 .. MaxLines]]
==================================================================================
