----------------------------- MODULE Sqlite3Session -----------------------------
(****************************************************************************)
(* The life of dbi_sqlite3 objects (sqlite3/generic/sqlite.c): objects are  *)
(* Tcl commands with a C record behind them.  A root object opens and       *)
(* closes a connection, its clones share the connection, and every object   *)
(* has its own current statement, statement cache and result.  Each action  *)
(* is a whole method of the object; Tcl runs them one at a time, in any     *)
(* order the script likes.                                                  *)
(*                                                                          *)
(* What the extension does to itself in a method is abstracted from         *)
(* Sqlite3Exec: a text is one of a few, a statement is the text it was      *)
(* prepared from.  After a use of freed memory ("fault") nothing more is    *)
(* claimed.                                                                 *)
(****************************************************************************)
EXTENDS Naturals, FiniteSets

CONSTANTS
    Obj,        \* names of Tcl commands for dbi objects
    NoObj,      \* a NULL parent
    Text,       \* SQL texts that are used with the statement cache
    NoStmt,     \* dbdata->stmt is NULL
    Plain,      \* it is a statement that is not in the cache
    Gone,       \* it is a cached statement of a connection already given up
    MaxConn     \* bound: connections ever made by sqlite3_open

ASSUME SessionAssumption ==
    /\ NoObj \notin Obj
    /\ {NoStmt, Plain, Gone} \cap Text = {}
    /\ NoStmt # Plain /\ NoStmt # Gone /\ Plain # Gone
    /\ MaxConn \in Nat

Conn == 1 .. MaxConn        \* 0 stands for a NULL sqlite3 pointer
Pointer == {NoStmt, Plain, Gone} \cup Text

VARIABLES
    obj,        \* the C records of the objects
    con,        \* the connections, as the library sees them
    fault       \* "none", or the freed memory that was used

vars == <<obj, con, fault>>

(* The record behind a command that does not exist, and a fresh one. *)
Absent == [alive |-> FALSE, parent |-> NoObj, clones |-> {}, db |-> 0,
           database |-> FALSE, stmt |-> NoStmt, cached |-> {}, result |-> FALSE,
           blob |-> 0]
Fresh  == [Absent EXCEPT !.alive = TRUE]

(* A connection: its state; whether it has statements that no object can    *)
(* reach; the objects whose callbacks (function, collate, progress) it      *)
(* holds, and whether one of those was freed.                               *)
Unused == [link |-> "unused", lost |-> FALSE, calls |-> {}, stale |-> FALSE]

Init == /\ obj = [o \in Obj |-> Absent]
        /\ con = [c \in Conn |-> Unused]
        /\ fault = "none"

------------------------------------------------------------------------------
(* Parts of the methods, as functions of the objects S and connections C.   *)

(* A definition named after another one, with an underscore, is a slip that *)
(* could be made in it; with it in place a property must fail.              *)

(* dbi_Sqlite3_ClearResult: of the object and then of all its clones.       *)
Cleared_FieldsKept(r) == [r EXCEPT !.stmt = IF @ = Plain THEN NoStmt ELSE @]
Cleared(r) == [r EXCEPT !.result = FALSE, !.stmt = IF @ = Plain THEN NoStmt ELSE @]

ClearResult_Family(S, o) ==
    [p \in Obj |-> IF p = o \/ p = S[o].parent \/ p \in S[o].clones
                   THEN Cleared(S[p]) ELSE S[p]]

ClearResult(S, o) ==
    [p \in Obj |-> IF p = o \/ p \in S[o].clones THEN Cleared(S[p]) ELSE S[p]]

(* A clone is destroyed: dbi_Sqlite3_Destroy, and dbi_Sqlite3_Close if it   *)
(* has a database name.  Its cache is emptied, except for the statement it  *)
(* uses last, which is only reset; its blob channels are closed.            *)
DestroyClones_Listed(S, K) == [p \in Obj |-> IF p \in K THEN Absent ELSE S[p]]

DestroyClones(S, K) ==
    [p \in Obj |->
        IF p \in K THEN Absent
        ELSE [S[p] EXCEPT !.clones = @ \ {k \in K : S[k].database}]]

ClonesGone(S, C, K) ==
    [c \in Conn |->
        LET here == {k \in K : S[k].db = c}
        IN [C[c] EXCEPT !.lost  = @ \/ \E k \in here : S[k].stmt \in Text,
                        !.stale = @ \/ \E k \in here : k \in C[c].calls,
                        !.calls = @ \ here]]

(* dbi_Sqlite3_Close of a root object.  sqlite3_close refuses to close a    *)
(* connection that still has statements or blob handles; the pointer is     *)
(* forgotten all the same.                                                  *)
Busy(S, C, o, c) == \/ ClonesGone(S, C, S[o].clones)[c].lost
                    \/ S[o].stmt \in Text
                    \/ S[o].blob = c

Closed_PointerKept(r) ==
    [Cleared(r) EXCEPT !.clones = {}, !.database = FALSE, !.cached = {},
                       !.stmt = IF @ \in Text THEN Gone ELSE @]

Closed(r) ==
    [Cleared(r) EXCEPT !.clones = {}, !.db = 0, !.database = FALSE, !.cached = {},
                       !.stmt = IF @ \in Text THEN Gone ELSE @]

CloseRoot(S, o) == [DestroyClones(S, S[o].clones) EXCEPT ![o] = Closed(@)]

RootClosed(S, C, o) ==
    [c \in Conn |->
        IF c = S[o].db
        THEN IF Busy(S, C, o, c)
             THEN [ClonesGone(S, C, S[o].clones)[c] EXCEPT !.link = "leaked"]
             ELSE [Unused EXCEPT !.link = "closed"]
        ELSE C[c]]

(* dbi_Sqlite3_Destroy of any object: the connection is closed only if the  *)
(* object has a database name.                                              *)
IsClone(S, o) == S[o].parent # NoObj

DestroyObject(S, o) ==
    IF IsClone(S, o) THEN DestroyClones(S, {o})
    ELSE IF S[o].database THEN [CloseRoot(S, o) EXCEPT ![o] = Absent]
    ELSE [S EXCEPT ![o] = Absent]

ObjectGone_NotClosed(S, C, o) ==
    IF IsClone(S, o) THEN ClonesGone(S, C, {o}) ELSE C

ObjectGone(S, C, o) ==
    IF IsClone(S, o) THEN ClonesGone(S, C, {o})
    ELSE IF S[o].database THEN RootClosed(S, C, o)
    ELSE C

(* A root without a database name that has clones leaves them without       *)
(* parent: they keep a pointer to its freed record.                         *)
Abandons(S, o) == ~IsClone(S, o) /\ ~S[o].database /\ S[o].clones # {}

------------------------------------------------------------------------------
(* The methods. *)

Alive(o) == fault = "none" /\ obj[o].alive

(* dbi_sqlite3 name: Tcl deletes a command of that name first. *)
New(o) ==
    /\ fault = "none"
    /\ IF Abandons(obj, o)
       THEN fault' = "parent" /\ UNCHANGED <<obj, con>>
       ELSE /\ obj' = [DestroyObject(obj, o) EXCEPT ![o] = Fresh]
            /\ con' = ObjectGone(obj, con, o)
            /\ UNCHANGED fault

(* open: open_test may refuse the file name, which changes nothing;         *)
(* sqlite3_open may fail, which closes the connection but keeps the         *)
(* pointer.  (A failing update of the serials table leaves the connection   *)
(* open.)                                                                   *)
Open(o) ==
    /\ Alive(o) /\ ~IsClone(obj, o) /\ obj[o].db = 0
    /\ \E c \in {d \in Conn : con[d].link = "unused"}, ok \in BOOLEAN :
          /\ obj' = [obj EXCEPT ![o].db = c, ![o].database = ok]
          /\ con' = [con EXCEPT ![c].link = IF ok THEN "open" ELSE "closed"]
    /\ UNCHANGED fault

(* create: opens the file and closes it again; fails as open does. *)
Createdb(o) ==
    /\ Alive(o) /\ obj[o].db = 0
    /\ \E c \in {d \in Conn : con[d].link = "unused"}, ok \in BOOLEAN :
          /\ obj' = [obj EXCEPT ![o].db = IF ok THEN 0 ELSE c, ![o].database = ok]
          /\ con' = [con EXCEPT ![c].link = "closed"]
    /\ UNCHANGED fault

(* Methods that need the library: they are refused without a connection,    *)
(* and use freed memory when the connection was closed behind the pointer.  *)
Uses(o) == Alive(o) /\ obj[o].db # 0

OnClosed(o) == /\ con[obj[o].db].link = "closed"
               /\ fault' = "connection"
               /\ UNCHANGED <<obj, con>>
Usable(o) == Uses(o) /\ con[obj[o].db].link # "closed"

(* exec that succeeds: without -cache the statements of a text of several   *)
(* commands are lost, except the last; with it the statement is shared with *)
(* the cache.                                                               *)
ExecPlain(o, fetch, several) ==
    /\ Usable(o)
    /\ obj' = [ClearResult(obj, o) EXCEPT ![o].stmt = IF fetch THEN Plain ELSE NoStmt,
                                          ![o].result = fetch]
    /\ con' = [con EXCEPT ![obj[o].db].lost = @ \/ several]
    /\ UNCHANGED fault

ExecCached_Previous(o, t, fetch) ==
    /\ Usable(o)
    /\ obj' = [ClearResult(obj, o) EXCEPT ![o].stmt = t, ![o].result = fetch,
                                          ![o].cached = @ \cup {obj[o].stmt}]
    /\ UNCHANGED <<con, fault>>

ExecCached(o, t, fetch) ==
    /\ Usable(o)
    /\ obj' = [ClearResult(obj, o) EXCEPT ![o].stmt = t, ![o].result = fetch,
                                          ![o].cached = @ \cup {t}]
    /\ UNCHANGED <<con, fault>>

(* exec that fails.  A text found in the cache is dropped from it, and its  *)
(* statement is lost; so are those already prepared of a text of several    *)
(* commands.                                                                *)
ExecError(o, several) ==
    /\ Usable(o)
    /\ obj' = ClearResult(obj, o)
    /\ con' = [con EXCEPT ![obj[o].db].lost = @ \/ several]
    /\ UNCHANGED fault

ExecCachedError(o, t) ==
    /\ Usable(o) /\ t \in obj[o].cached
    /\ obj' = [ClearResult(obj, o) EXCEPT ![o].cached = @ \ {t}]
    /\ con' = [con EXCEPT ![obj[o].db].lost = TRUE]
    /\ UNCHANGED fault

(* get, set, insert, unset and delete prepare through the cache and clear   *)
(* the result; a successful unset does not clear it.                        *)
ObjectMethod(o, T, clears) ==
    /\ Usable(o)
    /\ obj' = [IF clears THEN ClearResult(obj, o) ELSE obj EXCEPT ![o].cached = @ \cup T]
    /\ UNCHANGED <<con, fault>>

(* begin, commit and rollback clear the result before anything else. *)
Transaction(o) ==
    /\ Usable(o)
    /\ obj' = ClearResult(obj, o)
    /\ UNCHANGED <<con, fault>>

(* function, collate and progress hand the connection a pointer to a record *)
(* of the object (or to the object); later SQL on the connection calls it.  *)
Callback(o) ==
    /\ Usable(o)
    /\ con' = [con EXCEPT ![obj[o].db].calls = @ \cup {o}]
    /\ UNCHANGED <<obj, fault>>

RunCallback(o) ==
    /\ Usable(o) /\ con[obj[o].db].stale
    /\ fault' = "callback"
    /\ UNCHANGED <<obj, con>>

(* incrblob opens a channel on a blob; closing the channel closes the blob. *)
IncrBlob(o) ==
    /\ Usable(o) /\ obj[o].blob = 0
    /\ obj' = [obj EXCEPT ![o].blob = obj[o].db]
    /\ UNCHANGED <<con, fault>>

CloseBlob(o) ==
    /\ Alive(o) /\ obj[o].blob # 0
    /\ obj' = [obj EXCEPT ![o].blob = 0]
    /\ UNCHANGED <<con, fault>>

(* clone: the new object is attached to the root.  The name may be that of  *)
(* an existing object, which Tcl deletes before the clone is made.          *)
Root(o) == IF IsClone(obj, o) THEN obj[o].parent ELSE o

Clone(o, n) ==
    /\ Uses(o)
    /\ LET r == Root(o)
       IN IF n = r \/ Abandons(obj, n)
          THEN fault' = "parent" /\ UNCHANGED <<obj, con>>
          ELSE LET S == DestroyObject(obj, n)
               IN /\ obj' = [S EXCEPT
                        ![n] = [Fresh EXCEPT !.parent = r, !.db = obj[r].db,
                                             !.database = obj[r].database],
                        ![r].clones = @ \cup {n}]
                  /\ con' = ObjectGone(obj, con, n)
                  /\ UNCHANGED fault

(* close (and drop, which also deletes the file); closing a clone is        *)
(* destroying it.                                                           *)
Close(o) ==
    /\ Uses(o)
    /\ IF IsClone(obj, o)
       THEN obj' = DestroyObject(obj, o) /\ con' = ObjectGone(obj, con, o) /\ UNCHANGED fault
       ELSE /\ con[obj[o].db].link # "closed"
            /\ obj' = CloseRoot(obj, o) /\ con' = RootClosed(obj, con, o) /\ UNCHANGED fault

Destroy(o) ==
    /\ Alive(o)
    /\ IF Abandons(obj, o)
       THEN fault' = "parent" /\ UNCHANGED <<obj, con>>
       ELSE /\ obj' = DestroyObject(obj, o)
            /\ con' = ObjectGone(obj, con, o)
            /\ UNCHANGED fault

(* Any of them on a connection that was closed behind the pointer. *)
UseClosed(o) == Uses(o) /\ OnClosed(o)

Next ==
    \E o \in Obj :
        \/ New(o) \/ Open(o) \/ Createdb(o)
        \/ \E fetch, several \in BOOLEAN : ExecPlain(o, fetch, several)
        \/ \E t \in Text, fetch \in BOOLEAN : ExecCached(o, t, fetch)
        \/ \E several \in BOOLEAN : ExecError(o, several)
        \/ \E t \in Text : ExecCachedError(o, t)
        \/ \E T \in SUBSET Text, clears \in BOOLEAN : ObjectMethod(o, T, clears)
        \/ Transaction(o)
        \/ Callback(o) \/ RunCallback(o)
        \/ IncrBlob(o) \/ CloseBlob(o)
        \/ \E n \in Obj : Clone(o, n)
        \/ Close(o) \/ Destroy(o) \/ UseClosed(o)

Spec == Init /\ [][Next]_vars

------------------------------------------------------------------------------
(* Properties. *)

(* Every variable keeps its type. *)
TypeOK ==
    /\ obj \in [Obj -> [alive : BOOLEAN, parent : Obj \cup {NoObj}, clones : SUBSET Obj,
                        db : Conn \cup {0}, database : BOOLEAN, stmt : Pointer,
                        cached : SUBSET Text, result : BOOLEAN, blob : Conn \cup {0}]]
    /\ con \in [Conn -> [link : {"unused", "open", "closed", "leaked"}, lost : BOOLEAN,
                         calls : SUBSET Obj, stale : BOOLEAN]]
    /\ fault \in {"none", "connection", "callback", "parent"}

(* Clones and parents point at each other: whatever order objects are made, *)
(* replaced, closed and destroyed in, a clone's parent is a live root that  *)
(* lists it and has the same connection, and a listed clone is alive.  (A   *)
(* clone made after a failed sqlite3_open has no database name, and its     *)
(* parent is not told when it is destroyed.)                                *)
CloneTree ==
    \A o \in Obj :
        /\ ~obj[o].alive => obj[o] = Absent
        /\ obj[o].database =>
              \A k \in obj[o].clones : obj[k].alive /\ obj[k].parent = o
        /\ IsClone(obj, o) =>
              LET r == obj[o].parent
              IN /\ o \in obj[r].clones /\ obj[r].alive /\ ~IsClone(obj, r)
                 /\ obj[o].db = obj[r].db /\ obj[o].database = obj[r].database

(* An object with a database name is never left with a pointer to a closed  *)
(* connection; the pointers that are come from a failed sqlite3_open.       *)
NoDeadConnection ==
    \A o \in Obj : obj[o].db # 0 =>
        con[obj[o].db].link = IF obj[o].database THEN "open" ELSE "closed"

(* A connection that is open belongs to exactly one root object, the others *)
(* that use it are the clones of that root: nobody else can close it.       *)
OneOwner ==
    \A c \in Conn : con[c].link = "open" =>
        \E r \in Obj : \A o \in Obj :
            obj[o].db = c <=> o = r \/ obj[o].parent = r

(* What fetch reads is there: a result comes with a statement that the      *)
(* object's cache or the object itself keeps, on an open connection.        *)
ResultOwned ==
    \A o \in Obj : obj[o].result =>
        /\ obj[o].stmt \in obj[o].cached \cup {Plain}
        /\ \E c \in Conn : c = obj[o].db /\ con[c].link = "open"

(* Work on a clone leaves the result of the object it was cloned from for   *)
(* fetch: a root loses its result only in a step after which none of its    *)
(* clones has one either (sqlite.c:990), as when a method of the root       *)
(* clears it; a method that leaves a clone with a result never takes the    *)
(* root's.                                                                  *)
CloneKeepsParentResult ==
    [][\A r \in Obj : obj[r].result /\ ~obj'[r].result =>
          \A k \in obj'[r].clones : ~obj'[k].result]_vars

(* "Closes the current database connection": no connection outlives the     *)
(* object that opened it.                                                   *)
CloseCloses == \A c \in Conn : con[c].link # "leaked"
=============================================================================
