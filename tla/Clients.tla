--------------------------------- MODULE Clients ---------------------------------
(****************************************************************************)
(* The backends whose commands all run on a connection that the objects of  *)
(* a family share: MySQL, PostgreSQL, ODBC and SQLite 2.  A program uses    *)
(* one of them, "kind"; what it sees has to be the same interface           *)
(* (docs/man/interface_dbi.n).                                              *)
(****************************************************************************)
EXTENDS SqlServer

VARIABLES
    kind,       \* the backend
    obj, srv, reply

vars == <<kind, obj, srv, reply>>

Kinds == {"mysql", "postgresql", "odbc", "sqlite"}

Mysql      == INSTANCE MysqlSession
Postgresql == INSTANCE PostgresqlSession
Odbc       == INSTANCE OdbcSession
Sqlite     == INSTANCE SqliteSession

Init ==
    /\ kind \in Kinds
    /\ CASE kind = "mysql"      -> Mysql!Init
         [] kind = "postgresql" -> Postgresql!Init
         [] kind = "odbc"       -> Odbc!Init
         [] kind = "sqlite"     -> Sqlite!Init

Next ==
    /\ kind' = kind
    /\ \/ kind = "mysql"      /\ Mysql!Next
       \/ kind = "postgresql" /\ Postgresql!Next
       \/ kind = "odbc"       /\ Odbc!Next
       \/ kind = "sqlite"     /\ Sqlite!Next

Spec == Init /\ [][Next]_vars

-----------------------------------------------------------------------------------
(* What the backends have in common. *)

(* The connection of object o, and the objects of a family. *)
ConnOf(o) == CASE kind = "mysql"      -> obj[o].db
               [] kind = "postgresql" -> obj[o].conn
               [] kind = "odbc"       -> obj[o].hdbc
               [] kind = "sqlite"     -> obj[o].db

(* The line that fetch without a line number goes to; all positions past    *)
(* the end are alike.                                                       *)
NextLine(o) ==
    LET after == CASE kind = "postgresql" -> obj[o].respos + 1
                   [] OTHER               -> obj[o].tuple + 1
    IN IF kind \in {"postgresql", "sqlite"} /\ after > obj[o].len THEN obj[o].len ELSE after

(* A transaction that the user has begun is open on connection c. *)
UserTransaction(c) ==
    CASE kind \in {"mysql", "postgresql"} -> srv[c].txn # "none"
      [] kind = "odbc" ->
            \E o \in Obj : obj[o].hdbc = c /\ ~Odbc!IsClone(o) /\ obj[o].begun
      [] kind = "sqlite" ->
            \E o \in Obj : obj[o].db = c /\ ~Sqlite!IsClone(o) /\ obj[o].intrans /\ ~obj[o].auto

-----------------------------------------------------------------------------------
(* Properties *)

(* The records, the connections and the answers have the forms that the     *)
(* backend of this kind gives them.                                         *)
TypeOK ==
    /\ kind \in Kinds
    /\ kind = "mysql"      => Mysql!TypeOK
    /\ kind = "postgresql" => Postgresql!TypeOK
    /\ kind = "odbc"       => Odbc!TypeOK
    /\ kind = "sqlite"     => Sqlite!TypeOK
    /\ srv \in [Conn -> [link : {"unused", "open", "closed"}, txn : {"none", "open", "aborted"},
                         stuck : BOOLEAN, pending : SUBSET Work, durable : SUBSET Work]]
    /\ reply \in [to : Obj \cup {NoObj}, of : Methods, is : Endings, asked : -2 .. MaxLines,
                  n : 0 .. MaxLines, res : 0 .. 2, ids : SUBSET Work, unsent : SUBSET Work]

(* The list of clones of an object and the parent pointers of the clones    *)
(* say the same at all times, so that no list holds an object that is gone  *)
(* and none is missed when the root goes; clones are attached to a root and *)
(* have its connection (clone, close and destroy of the four backends).     *)
CloneTree ==
    /\ \A o, p \in Obj : p \in obj[o].clones <=> obj[p].alive /\ obj[p].parent = o
    /\ \A p \in Obj : obj[p].alive /\ obj[p].parent # NoObj =>
          /\ obj[obj[p].parent].alive /\ obj[obj[p].parent].parent = NoObj
          /\ ConnOf(p) = ConnOf(obj[p].parent)

(* What the manual promises of an exec that fails outside a transaction     *)
(* that the user has begun: nothing of it is left, to be committed now or   *)
(* later (docs/man/interface_dbi.n:43-45).                                  *)
Undone(r) ==
    LET s == srv[ConnOf(r.to)]
    IN r.is = "failed" /\ ~UserTransaction(ConnOf(r.to)) =>
          r.ids \cap (s.pending \cup s.durable) = {}

(* The object commits nothing by itself although the user has begun nothing *)
(* on this connection: closed in a transaction and opened again (ODBC).     *)
AutocommitLost(o) ==
    kind = "odbc" /\ ~Odbc!Autocommit(o) /\ ~UserTransaction(ConnOf(o))

(* What holds of exec in these backends.  Of one that fails outside a       *)
(* user's transaction nothing is left, except after AutocommitLost, and     *)
(* except in MySQL, which sends the commands one by one: there, no command  *)
(* is done after one that is not.  Of an exec, or a modification of an      *)
(* object (SQLite 2), that succeeds no command that was sent is lost: what  *)
(* it did is durable, unless the transaction is the user's, is kept open    *)
(* for the lines of exec -usefetch or by AutocommitLost (ODBC), or could    *)
(* not be ended (SQLite 2).  Nothing is said of a modification that fails:  *)
(* it may have changed rows (sqlite.c:1046, 1089).                          *)
Atomic(r) ==
    LET c == ConnOf(r.to)
        s == srv[c]
        sent == r.ids \ r.unsent
    IN /\ r.of = "exec" /\ kind # "mysql" /\ ~AutocommitLost(r.to) => Undone(r)
       /\ r.is = "failed" /\ kind = "mysql" /\ ~UserTransaction(c) =>
             \A i, j \in r.ids : i < j /\ j \in s.durable => i \in s.durable
       /\ r.is = "ok" =>
             /\ sent \subseteq s.pending \cup s.durable
             /\ \/ UserTransaction(c)
                \/ kind = "odbc" /\ Odbc!Trans(r.to)
                \/ kind = "sqlite" /\ s.txn = "open"
                \/ sent \subseteq s.durable

ExecAtomic == [][reply'.of \in {"exec", "modify"} /\ reply'.ids # {} => Atomic(reply)']_vars

(* What was done in a transaction of the user is committed or undone only   *)
(* by begin, commit, rollback, close, drop or destroy, never by an exec, a  *)
(* fetch or any other method that fails or succeeds; only PostgreSQL itself *)
(* gives a transaction up in which a command has failed.                    *)
UserWorkKept ==
    [][\A c \in Conn :
          /\ UserTransaction(c)
          /\ reply'.of \notin {"begin", "commit", "rollback", "close", "drop", "destroy"}
          => \/ srv[c].pending \subseteq srv'[c].pending
             \/ kind = "postgresql" /\ srv'[c].txn = "aborted"]_vars

(* No line of a result is given twice or passed over, none comes from a     *)
(* result that a later exec has replaced, whichever the backend: each of    *)
(* them implements the fetch of the manual.                                 *)
DbiFetch == INSTANCE DbiFetch WITH
    res <- [o \in Obj |-> obj[o].res], len <- [o \in Obj |-> obj[o].len],
    next <- [o \in Obj |-> NextLine(o)], forward <- (kind = "odbc")
ImplementsFetch == DbiFetch!Spec
==================================================================================
