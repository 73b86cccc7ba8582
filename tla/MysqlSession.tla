------------------------------ MODULE MysqlSession ------------------------------
(****************************************************************************)
(* Objects of dbi_mysql (mysql/generic/mysql.c).  The result is a whole in  *)
(* memory (mysql_store_result), fetch moves a position in it, a text of     *)
(* several commands is sent one by one with no transaction around it.  One  *)
(* action is one method.                                                    *)
(****************************************************************************)
EXTENDS SqlServer

VARIABLES
    obj,        \* the C records of the objects
    srv,        \* the connections, as the server sees them
    reply       \* what the last method answered

vars == <<obj, srv, reply>>

(* db is the connection behind the MYSQL handle, database the name that     *)
(* stands for "connected"; res is 0 when there is no result, len its        *)
(* ntuples.                                                                 *)
Absent == [alive |-> FALSE, parent |-> NoObj, clones |-> {}, db |-> 0,
           database |-> FALSE, res |-> 0, len |-> 0, tuple |-> -1]
Fresh  == [Absent EXCEPT !.alive = TRUE]

Init == /\ obj = [o \in Obj |-> Absent]
        /\ srv = [c \in Conn |-> Silent]
        /\ reply = NoReply

IsClone(o) == obj[o].parent # NoObj
Connected(o) == obj[o].alive /\ obj[o].database

New(o) ==
    /\ ~obj[o].alive
    /\ obj' = [obj EXCEPT ![o] = Fresh]
    /\ reply' = Answer(o, "new", "ok")
    /\ UNCHANGED srv

(* open: the name is set before the connection is made and reset when that  *)
(* fails, which it does on a handle that is still connected.                *)
Open(o) ==
    /\ obj[o].alive /\ ~IsClone(o) /\ ~obj[o].database
    /\ \/ /\ obj[o].db = 0
          /\ \E c \in {d \in Conn : srv[d].link = "unused"} :
                /\ obj' = [obj EXCEPT ![o].db = c, ![o].database = TRUE]
                /\ srv' = [srv EXCEPT ![c] = Linked(@)]
          /\ reply' = Answer(o, "open", "ok")
       \/ reply' = Answer(o, "open", "failed") /\ UNCHANGED <<obj, srv>>

(* dbi_Mysql_Clearresult; the position stays. *)
Clearresult(r) == [r EXCEPT !.res = 0, !.len = 0]

(* What dbi_Mysql_SplitSQL makes of a text: of several commands it leaves   *)
(* out the last one unless a semicolon closes it.                           *)
SplitSQL(t, closed) ==
    IF closed \/ Len(t) <= 1 THEN t ELSE SubSeq(t, 1, Len(t) - 1)

(* The commands are sent one after the other.  The rows of a select that is *)
(* not the last one are never read, so the library refuses every command    *)
(* after it, for ever.                                                      *)
Unread(t) == {i \in 1 .. Len(t) - 1 : t[i] = "select"}
Sent(s, t) ==
    LET n == UpToError(t)
    IN IF s.stuck THEN 0
       ELSE IF \E i \in Unread(t) : i <= n
            THEN CHOOSE i \in Unread(t) : \A j \in Unread(t) : i <= j
            ELSE n

(* The connection after n of the commands sent, which are those of t or the *)
(* first of them, and the record with the new result.                       *)
Queried(s, t, sent, n, sticks) ==
    [Written(Given(s, t), Writes(s, sent, n)) EXCEPT !.stuck = @ \/ sticks]
NewResult(r, rows) == [r EXCEPT !.res = Another(@), !.len = rows, !.tuple = -1]

Exec(o, t, closed, fetch, args) ==
    /\ Connected(o)
    /\ IF t = <<>> THEN reply' = Executed(o, "nothing", {}) /\ UNCHANGED <<obj, srv>>
       ELSE LET c == obj[o].db
                lines == SplitSQL(t, closed)
                n == IF args THEN Sent(srv[c], lines) ELSE 0    \* arguments do not match
                ok == n = Len(lines)
                ids == Writes(srv[c], t, Len(t))
            IN /\ Fits(srv[c], t)
               /\ srv' = [srv EXCEPT ![c] =
                     Queried(@, t, lines, n, args /\ \E i \in Unread(lines) : i <= n)]
               /\ \E rows \in IF fetch THEN Rows(lines) ELSE {0} :
                     obj' = [obj EXCEPT ![o] =
                        IF ok /\ fetch /\ Selects(lines) THEN NewResult(@, rows)
                        ELSE Clearresult(@)]
               /\ reply' = ExecutedPart(o, IF ok THEN "ok" ELSE "failed", ids,
                                        ids \ Writes(srv[c], lines, Len(lines)))

(* fetch of the next line (-1), of the current one (-2) or of a given one.  *)
Asked(o, q) == IF q = -2 /\ obj[o].tuple >= 0 THEN obj[o].tuple ELSE q
Wanted(o, q) == IF q = -1 THEN obj[o].tuple + 1 ELSE Asked(o, q)

Fetch(o, q) ==
    LET line == Wanted(o, q)
    IN /\ Connected(o)
       /\ IF obj[o].res = 0 \/ line < 0 \/ line >= obj[o].len
          THEN reply' = NoLine(o, Asked(o, q)) /\ UNCHANGED obj
          ELSE /\ reply' = GivenLine(o, Asked(o, q), line, obj[o].res)
               /\ obj' = [obj EXCEPT ![o].tuple = line]
       /\ UNCHANGED srv

FetchLines(o) ==
    /\ Connected(o)
    /\ reply' = IF obj[o].res = 0 THEN Answer(o, "lines", "refused")
                ELSE Count(o, obj[o].len)
    /\ UNCHANGED <<obj, srv>>

(* begin, commit and rollback are queries; begin commits first. *)
Query(o, method, after) ==
    /\ Connected(o)
    /\ LET c == obj[o].db
       IN IF srv[c].stuck
          THEN reply' = Answer(o, method, "failed") /\ UNCHANGED srv
          ELSE reply' = Answer(o, method, "ok") /\ srv' = [srv EXCEPT ![c] = after]
    /\ UNCHANGED obj

Transaction_Start(o)    == Query(o, "begin", Begun(Committed(srv[obj[o].db])))
Transaction_Commit(o)   == Query(o, "commit", Committed(srv[obj[o].db]))
Transaction_Rollback(o) == Query(o, "rollback", RolledBack(srv[obj[o].db]))

(* close of a root destroys the clones and forgets the name, after which    *)
(* the test for a connection fails: the connection stays.                   *)
CloseRoot(o) ==
    [p \in Obj |->
        IF p = o THEN [obj[o] EXCEPT !.clones = {}, !.database = FALSE, !.res = 0]
        ELSE IF p \in obj[o].clones THEN Absent
        ELSE obj[p]]

DestroyClone(o) ==
    [obj EXCEPT ![obj[o].parent].clones = @ \ {o}, ![o] = Absent]

Close(o) ==
    /\ Connected(o)
    /\ obj' = IF IsClone(o) THEN DestroyClone(o) ELSE CloseRoot(o)
    /\ reply' = Answer(o, "close", "ok")
    /\ UNCHANGED srv

(* drop closes the object and deletes a file of the database's name. *)
Dropdb(o) ==
    /\ Connected(o)
    /\ IF IsClone(o) THEN reply' = Answer(o, "drop", "failed") /\ UNCHANGED obj
       ELSE reply' = Answer(o, "drop", "ok") /\ obj' = CloseRoot(o)
    /\ UNCHANGED srv

Destroy(o) ==
    /\ obj[o].alive
    /\ obj' = IF IsClone(o) THEN DestroyClone(o)
              ELSE [IF obj[o].database THEN CloseRoot(o) ELSE obj EXCEPT ![o] = Absent]
    /\ reply' = Answer(o, "destroy", "ok")
    /\ UNCHANGED srv

(* A clone is attached to the root and has its handle.  The name is a new   *)
(* one: a clone given the name of its own root deletes that root and then   *)
(* uses its record, which is undefined.                                     *)
Root(o) == IF IsClone(o) THEN obj[o].parent ELSE o

Clone(o, n) ==
    /\ Connected(o) /\ ~obj[n].alive
    /\ LET r == Root(o)
       IN obj' = [obj EXCEPT
            ![n] = [Fresh EXCEPT !.parent = r, !.db = obj[r].db,
                                 !.database = obj[r].database],
            ![r].clones = @ \cup {n}]
    /\ reply' = Answer(n, "clone", "ok")
    /\ UNCHANGED srv

Next ==
    \E o \in Obj :
        \/ New(o) \/ Open(o)
        \/ \E t \in Texts, closed \in BOOLEAN :
               \/ \E fetch \in BOOLEAN : Exec(o, t, closed, fetch, TRUE)
               \/ Exec(o, t, closed, FALSE, FALSE)
        \/ \E q \in -2 .. MaxLines : Fetch(o, q)
        \/ FetchLines(o)
        \/ Transaction_Start(o) \/ Transaction_Commit(o) \/ Transaction_Rollback(o)
        \/ \E n \in Obj : Clone(o, n)
        \/ Close(o) \/ Dropdb(o) \/ Destroy(o)

TypeOK ==
    /\ obj \in [Obj -> [alive : BOOLEAN, parent : Obj \cup {NoObj}, clones : SUBSET Obj,
                        db : Conn \cup {0}, database : BOOLEAN, res : 0 .. 2,
                        len : 0 .. MaxLines, tuple : -1 .. MaxLines]]
=================================================================================
