------------------------------ MODULE SqliteSession ------------------------------
(****************************************************************************)
(* Objects of dbi_sqlite, SQLite 2 (sqlite/generic/sqlite.c).  In           *)
(* autocommit mode exec puts a transaction of its own around the text; the  *)
(* flags autocommit and intransaction are those of the root.  The result is *)
(* a whole in memory, and the same record serves get, insert, set, unset    *)
(* and delete.  One action is one method.                                   *)
(****************************************************************************)
EXTENDS SqlServer

VARIABLES obj, srv, reply

vars == <<obj, srv, reply>>

(* left: dbdata->result is an empty list that no exec has made. *)
Absent == [alive |-> FALSE, parent |-> NoObj, clones |-> {}, db |-> 0,
           database |-> FALSE, auto |-> TRUE, intrans |-> FALSE,
           res |-> 0, len |-> 0, tuple |-> -1, left |-> FALSE]
Fresh  == [Absent EXCEPT !.alive = TRUE]

Init == /\ obj = [o \in Obj |-> Absent]
        /\ srv = [c \in Conn |-> Silent]
        /\ reply = NoReply

IsClone(o) == obj[o].parent # NoObj
Root(o) == IF IsClone(o) THEN obj[o].parent ELSE o
Opened(o) == obj[o].alive /\ obj[o].db # 0

(* dbi_Sqlite_autocommit_state, dbi_Sqlite_intrans *)
Autocommit(o) == obj[Root(o)].auto
InTrans(o) == obj[Root(o)].intrans

New(o) ==
    /\ ~obj[o].alive
    /\ obj' = [obj EXCEPT ![o] = Fresh]
    /\ reply' = Answer(o, "new", "ok")
    /\ UNCHANGED srv

(* open: intransaction stays as an earlier connection has left it. *)
Open(o) ==
    /\ obj[o].alive /\ ~IsClone(o) /\ obj[o].db = 0
    /\ \/ /\ \E c \in {d \in Conn : srv[d].link = "unused"} :
                /\ obj' = [obj EXCEPT ![o].db = c, ![o].database = TRUE, ![o].auto = TRUE]
                /\ srv' = [srv EXCEPT ![c] = Linked(@)]
          /\ reply' = Answer(o, "open", "ok")
       \/ /\ obj' = [obj EXCEPT ![o].database = FALSE, ![o].auto = TRUE]
          /\ reply' = Answer(o, "open", "failed")
          /\ UNCHANGED srv

(* create opens the file and closes it; the name stays. *)
Createdb(o) ==
    /\ obj[o].alive /\ obj[o].db = 0
    /\ \E made \in BOOLEAN :
          /\ obj' = [obj EXCEPT ![o].database = made, ![o].auto = TRUE]
          /\ reply' = Answer(o, "create", IF made THEN "ok" ELSE "failed")
    /\ UNCHANGED srv

ClearResult(r) == [r EXCEPT !.res = 0, !.len = 0, !.left = FALSE]

(* "begin transaction _dbi_exec" and "end transaction _dbi_exec", the       *)
(* results of which nobody looks at: Ended is the set of what may be left.  *)
BeginExec(o, s) == IF Autocommit(o) /\ s.txn = "none" THEN Begun(s) ELSE s
Ended(o, s) == {s} \cup {r \in {Committed(s)} : Autocommit(o) /\ s.txn = "open"}
RollbackExec_Never(o, s) == s
RollbackExec(o, s) == IF Autocommit(o) THEN RolledBack(s) ELSE s

NewResult(r, rows) == [ClearResult(r) EXCEPT !.res = Another(r.res), !.len = rows, !.tuple = -1]

Exec(o, t, fetch, args) ==
    LET c == obj[o].db
        n == UpToError(t)
        done == Written(BeginExec(o, Given(srv[c], t)), Writes(srv[c], t, n))
        ids == Writes(srv[c], t, Len(t))
    IN /\ Opened(o) /\ Fits(srv[c], t)
       /\ \/ /\ ~args                          \* wrong number of arguments
             /\ srv' = [srv EXCEPT ![c] = Given(@, t)] /\ UNCHANGED obj
             /\ reply' = Executed(o, "failed", ids)
          \/ /\ args /\ n = Len(t)
             /\ \E s \in Ended(o, done) : srv' = [srv EXCEPT ![c] = s]
             /\ \E rows \in IF fetch THEN Rows(t) ELSE {0} :
                   obj' = [obj EXCEPT ![o] = IF fetch THEN NewResult(@, rows) ELSE ClearResult(@)]
             /\ reply' = Executed(o, "ok", ids)
          \/ /\ args /\ n < Len(t)
             /\ srv' = [srv EXCEPT ![c] = RollbackExec(o, done)]
             /\ obj' = [obj EXCEPT ![o] = ClearResult(@)]
             /\ reply' = Executed(o, "failed", ids)

(* fetch of the next line (-1), of the current one (-2) or of a given one.  *)
(* Only the next line moves the position before the comparison.             *)
Asked(o, q) == IF q = -2 /\ obj[o].tuple >= 0 THEN obj[o].tuple ELSE q
NextTuple(r) == IF r.tuple < r.len THEN r.tuple + 1 ELSE r.len

Fetch(o, q) ==
    LET r == obj[o]
        line == IF q = -1 THEN NextTuple(r) ELSE Asked(o, q)
    IN /\ Opened(o)
       /\ IF r.res = 0 \/ line < 0
          THEN reply' = NoLine(o, Asked(o, q)) /\ UNCHANGED obj
          ELSE IF line >= r.len
          THEN /\ reply' = NoLine(o, Asked(o, q))
               /\ obj' = [obj EXCEPT ![o].tuple = IF q = -1 THEN line ELSE @]
          ELSE /\ reply' = GivenLine(o, Asked(o, q), line, r.res)
               /\ obj' = [obj EXCEPT ![o].tuple = line]
       /\ UNCHANGED srv

FetchLines(o) ==
    /\ Opened(o)
    /\ reply' = IF obj[o].res # 0 THEN Count(o, obj[o].len)
                ELSE IF obj[o].left THEN Count(o, 0)
                ELSE Answer(o, "lines", "refused")
    /\ UNCHANGED <<obj, srv>>

(* get, insert, set, unset and delete.  Each of their statements is         *)
(* executed alone, without a transaction of its own; "end transaction"      *)
(* follows one that works all the same.                                     *)
Get(o) ==
    /\ Opened(o)
    /\ obj' = [obj EXCEPT ![o] = ClearResult(@)]
    /\ \E s \in Ended(o, srv[obj[o].db]) : srv' = [srv EXCEPT ![obj[o].db] = s]
    /\ \E is \in {"ok", "failed"} : reply' = Answer(o, "get", is)

(* A statement of a modification: hit, it has changed rows; ends, "end      *)
(* transaction" has followed.                                               *)
Modify(o, hit, ends, ended) ==
    LET c == obj[o].db
        one == <<"write">>
        ids == Writes(srv[c], one, 1)
        done == IF hit THEN Written(Given(srv[c], one), ids) ELSE Given(srv[c], one)
    IN /\ Opened(o) /\ Fits(srv[c], one)
       /\ \E s \in IF ends THEN Ended(o, done) ELSE {done} : srv' = [srv EXCEPT ![c] = s]
       /\ reply' = [Answer(o, "modify", ended) EXCEPT !.ids = ids]

Cleared(o) == obj' = [obj EXCEPT ![o] = ClearResult(@)]
Insert(o) ==
    /\ Cleared(o)
    /\ Modify(o, TRUE, TRUE, "ok") \/ Modify(o, FALSE, FALSE, "failed")

(* unset and delete fail as well when the number of rows is not one, but    *)
(* then several rows may have been changed already.  unset that succeeds    *)
(* leaves its empty result behind.                                          *)
Delete(o) ==
    /\ Cleared(o)
    /\ \/ Modify(o, TRUE, TRUE, "ok")
       \/ \E hit \in BOOLEAN : Modify(o, hit, TRUE, "failed")
Unset(o)  ==
    \/ Cleared(o) /\ \E hit \in BOOLEAN : Modify(o, hit, TRUE, "failed")
    \/ /\ obj' = [obj EXCEPT ![o] = [ClearResult(@) EXCEPT !.left = TRUE]]
       /\ Modify(o, TRUE, TRUE, "ok")

(* set updates one row, or else (none, or several: hit) inserts one.        *)
SetInserts(o, hit, works) ==
    LET c == obj[o].db
        s == srv[c]
        t == IF hit THEN <<"write", "write">> ELSE <<"write">>
        ids == Writes(s, t, Len(t))
        updates == IF hit THEN Writes(s, t, 1) ELSE {}
    IN /\ Opened(o) /\ Fits(s, t)
       /\ \E u \in Ended(o, Written(Given(s, t), updates)) :
          \E i \in IF works THEN Ended(o, Written(u, ids \ updates)) ELSE {u} :
             srv' = [srv EXCEPT ![c] = i]
       /\ reply' = [Answer(o, "modify", IF works THEN "ok" ELSE "failed") EXCEPT !.ids = ids]

Set(o) ==
    /\ Cleared(o)
    /\ \/ Modify(o, TRUE, TRUE, "ok")
       \/ Modify(o, FALSE, FALSE, "failed")
       \/ \E hit, works \in BOOLEAN : SetInserts(o, hit, works)

(* dbi_Sqlite_Transaction_Commit, _Rollback and _Start; may: the database   *)
(* is able to do it.                                                        *)
CommitWorks(o, may) == ~InTrans(o) \/ (may /\ srv[obj[o].db].txn = "open")
RollbackWorks(o)    == ~InTrans(o) \/ srv[obj[o].db].txn = "open"
AfterCommit(o) == IF InTrans(o) THEN Committed(srv[obj[o].db]) ELSE srv[obj[o].db]

WithFlags(o, auto, intrans) ==
    [obj EXCEPT ![Root(o)].auto = auto, ![Root(o)].intrans = intrans]

(* begin commits what the user has begun before. *)
Begin(o, may) ==
    /\ Opened(o)
    /\ IF ~CommitWorks(o, may)
       THEN reply' = Answer(o, "begin", "failed") /\ UNCHANGED <<obj, srv>>
       ELSE IF AfterCommit(o).txn = "open"      \* left by an exec without end
       THEN reply' = Answer(o, "begin", "failed") /\ UNCHANGED <<obj, srv>>
       ELSE /\ srv' = [srv EXCEPT ![obj[o].db] = Begun(AfterCommit(o))]
            /\ obj' = WithFlags(o, FALSE, TRUE)
            /\ reply' = Answer(o, "begin", "ok")

(* commit and rollback: autocommit is turned on whether they work or not.   *)
Commit(o, may) ==
    /\ Opened(o)
    /\ IF CommitWorks(o, may)
       THEN /\ srv' = [srv EXCEPT ![obj[o].db] = AfterCommit(o)]
            /\ obj' = WithFlags(o, TRUE, FALSE)
            /\ reply' = Answer(o, "commit", "ok")
       ELSE /\ obj' = WithFlags(o, TRUE, InTrans(o))
            /\ reply' = Answer(o, "commit", "failed")
            /\ UNCHANGED srv

Rollback(o) ==
    /\ Opened(o)
    /\ IF RollbackWorks(o)
       THEN /\ srv' = [srv EXCEPT ![obj[o].db] = IF InTrans(o) THEN RolledBack(@) ELSE @]
            /\ obj' = WithFlags(o, TRUE, FALSE)
            /\ reply' = Answer(o, "rollback", "ok")
       ELSE /\ obj' = WithFlags(o, TRUE, InTrans(o))
            /\ reply' = Answer(o, "rollback", "failed")
            /\ UNCHANGED srv

(* dbi_Sqlite_Close: a clone leaves the list of its root, a root destroys   *)
(* its clones and closes the database; its flags stay.                      *)
ClosedRecords(o) ==
    IF IsClone(o) THEN [obj EXCEPT ![obj[o].parent].clones = @ \ {o}, ![o] = Absent]
    ELSE [p \in Obj |->
            IF p = o THEN [ClearResult(obj[o]) EXCEPT !.clones = {}, !.db = 0, !.database = FALSE]
            ELSE IF p \in obj[o].clones THEN Absent
            ELSE obj[p]]
ClosedServer(o) == [c \in Conn |->
    IF c = obj[o].db /\ ~IsClone(o) THEN HungUp(srv[c]) ELSE srv[c]]

Close(o) ==
    /\ Opened(o)
    /\ obj' = ClosedRecords(o) /\ srv' = ClosedServer(o)
    /\ reply' = Answer(o, "close", "ok")

Dropdb(o) ==
    /\ Opened(o)
    /\ IF IsClone(o)
       THEN reply' = Answer(o, "drop", "failed") /\ UNCHANGED <<obj, srv>>
       ELSE /\ obj' = ClosedRecords(o) /\ srv' = ClosedServer(o)
            /\ reply' = Answer(o, "drop", "ok")

(* Only an object that has a database name is closed first. *)
Destroy(o) ==
    /\ obj[o].alive
    /\ obj' = [IF obj[o].database THEN ClosedRecords(o) ELSE obj EXCEPT ![o] = Absent]
    /\ srv' = ClosedServer(o)
    /\ reply' = Answer(o, "destroy", "ok")

(* A clone is attached to the root and has its database.  The name is a new *)
(* one: with the name of its own root the code would use a record freed.    *)
Clone(o, n) ==
    /\ Opened(o) /\ ~obj[n].alive
    /\ LET r == Root(o)
       IN obj' = [obj EXCEPT ![n] = [Fresh EXCEPT !.parent = r, !.db = obj[r].db,
                                                  !.database = obj[r].database],
                             ![r].clones = @ \cup {n}]
    /\ reply' = Answer(n, "clone", "ok")
    /\ UNCHANGED srv

Next ==
    \E o \in Obj :
        \/ New(o) \/ Open(o) \/ Createdb(o)
        \/ \E t \in Texts : \/ \E fetch \in BOOLEAN : Exec(o, t, fetch, TRUE)
                           \/ Exec(o, t, FALSE, FALSE)
        \/ \E q \in -2 .. MaxLines : Fetch(o, q)
        \/ FetchLines(o)
        \/ Get(o) \/ Insert(o) \/ Set(o) \/ Unset(o) \/ Delete(o)
        \/ \E may \in BOOLEAN : Begin(o, may) \/ Commit(o, may)
        \/ Rollback(o)
        \/ \E n \in Obj : Clone(o, n)
        \/ Close(o) \/ Dropdb(o) \/ Destroy(o)

TypeOK ==
    obj \in [Obj -> [alive : BOOLEAN, parent : Obj \cup {NoObj}, clones : SUBSET Obj,
                     db : Conn \cup {0}, database : BOOLEAN, auto : BOOLEAN,
                     intrans : BOOLEAN, res : 0 .. 2, len : 0 .. MaxLines,
                     tuple : -1 .. MaxLines, left : BOOLEAN]]
==================================================================================
