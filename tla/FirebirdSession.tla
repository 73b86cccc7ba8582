----------------------------- MODULE FirebirdSession -----------------------------
(****************************************************************************)
(* Objects of dbi_firebird (firebird/generic/firebird.c).  The clones of an *)
(* object have its attachment and its transaction; a result is a cursor of  *)
(* the server, which a full commit closes and a retaining commit keeps.  In *)
(* autocommit mode every exec ends the transaction of the exec before it,   *)
(* whichever object that was of.  When a call finds the connection lost,    *)
(* the error handler attaches again.  One action is one method; the         *)
(* functions of the C code are operators on w = [obj, srv, is], where "is"  *)
(* tells how they ended.  A text has its select, if any, at the end.        *)
(****************************************************************************)
EXTENDS SqlServer

VARIABLES
    kind,       \* the driver, "firebird" or the copy of it that is "interbase"
    obj,        \* the C records of the objects
    srv,        \* the connections, as the server sees them
    reply       \* what the last method answered

(* The error handler rolls back before it looks whether the connection is   *)
(* lost; dbi_Interbase_Error attaches again first, and returns.             *)
RollsBackLost == kind = "firebird"

(* db is the attachment of the handle (0: NULL), trans the attachment in    *)
(* which the transaction of the family is (only that of the root is used),  *)
(* cursor the flag cursor_open, live whether the server has the cursor      *)
(* open, out whether out_sqlda describes any column, known is ntuples, blob *)
(* the blob_handle: "dead" when it is set but its transaction is over.      *)
Absent == [alive |-> FALSE, parent |-> NoObj, clones |-> {}, db |-> 0,
           database |-> FALSE, auto |-> TRUE, trans |-> 0, cursor |-> FALSE,
           live |-> FALSE, out |-> FALSE, res |-> 0, len |-> 0, tuple |-> -1,
           known |-> -1, blob |-> "none"]

(* tuple is not initialized. *)
Garbage == {-1, 0}
Fresh(garbage) == [Absent EXCEPT !.alive = TRUE, !.tuple = garbage]

Init == /\ kind \in {"firebird", "interbase"}
        /\ obj = [o \in Obj |-> Absent]
        /\ srv = [c \in Conn |-> Silent]
        /\ reply = NoReply

IsClone(o) == obj[o].parent # NoObj
Root(o) == IF IsClone(o) THEN obj[o].parent ELSE o
Family(o) == {Root(o)} \cup obj[Root(o)].clones

(* What an object does whose parent's record is freed is not defined. *)
Usable(o) == obj[o].alive /\ obj[Root(o)].alive

(* What every method but open and destroy asks for. *)
Opened(o) == Usable(o) /\ obj[o].db # 0

Now == [obj |-> obj, srv |-> srv, is |-> "ok"]
Ok(w) == w.is = "ok"
Fails(w) == [w EXCEPT !.is = "failed"]
Ends(w, r) == obj' = w.obj /\ srv' = w.srv /\ reply' = r

(* The connections that an attach call may make; 0: it is refused.            *)
Attaches == {0} \cup Lowest({c \in Conn : srv[c].link = "unused"}, 1)

(* dbi_Firebird_autocommit_state and dbi_Firebird_trans: those of the root. *)
AutocommitState(w, o) == w.obj[Root(o)].auto
Trans(w, o) == w.obj[Root(o)].trans
SetAuto(w, o, b) == [w EXCEPT !.obj[Root(o)].auto = b]

(* A call with the statement of o and the transaction of its family works,  *)
(* or fails with SQLCODE -902 if a connection is lost.                      *)
IsOpen(w, c) == c # 0 /\ w.srv[c].link = "open"
IsLost(w, c) == c # 0 /\ w.srv[c].link = "lost"
CallWorks(w, o) == IsOpen(w, w.obj[o].db) /\ Trans(w, o) = w.obj[o].db
CallLost(w, o) == IsLost(w, w.obj[o].db) \/ IsLost(w, Trans(w, o))

(* What a method of o can attach to again, when a connection of it is lost. *)
AttachesAgain(o) == IF CallLost(Now, o) THEN Attaches ELSE {0}

(* dbi_Firebird_Free_Stmt *)
FreeStmt(w, o) ==
    [w EXCEPT !.obj[o] = [@ EXCEPT !.cursor = FALSE, !.live = FALSE, !.out = FALSE]]
CloseCursor(w, o) == IF w.obj[o].cursor THEN FreeStmt(w, o) ELSE w

(* The objects of set S lose what the server kept for them. *)
Bereft(w, S) ==
    [p \in Obj |-> IF p \in S
                   THEN [w.obj[p] EXCEPT !.live = FALSE,
                                         !.blob = IF @ = "open" THEN "dead" ELSE @]
                   ELSE w.obj[p]]

(* The end of the transaction of a family; a transaction may be rolled back *)
(* when its connection is gone.                                             *)
TransOver(w, o)  == [w EXCEPT !.obj = [Bereft(w, Family(o)) EXCEPT ![Root(o)].trans = 0]]
FullCommit(w, o) == [TransOver(w, o) EXCEPT !.srv[Trans(w, o)] = Committed(@)]
Retaining(w, o)  == [w EXCEPT !.srv[Trans(w, o)] = Begun(Committed(@))]
Undo(w, o)       == IF Trans(w, o) = 0 THEN w
                    ELSE [TransOver(w, o) EXCEPT !.srv[Trans(w, o)] = RolledBack(@)]

(* dbi_Firebird_Reconnect; c is the new attachment.  Clones get the handle  *)
(* of the object that attaches again and a new statement; only its own      *)
(* transaction handle, and not that of its family, is set to NULL.          *)
Reconnect(w, o, c) ==
    LET d == w.obj[o].db
        again == IF c = 0 THEN {} ELSE obj[o].clones
        left == FreeStmt([w EXCEPT !.obj =
                    Bereft(w, again \cup {p \in Family(o) : w.obj[p].db = d})], o)
        gone == [left EXCEPT !.srv[d] = HungUp(@), !.obj[o].db = 0, !.obj[o].trans = 0]
    IN IF d = 0 THEN Fails(w)
       ELSE IF c = 0 THEN Fails(gone)
       ELSE [is  |-> "ok",
             srv |-> [gone.srv EXCEPT ![c] = Linked(@)],
             obj |-> [p \in Obj |-> IF p = o \/ p \in obj[o].clones
                                    THEN [gone.obj[p] EXCEPT !.db = c] ELSE gone.obj[p]]]

(* dbi_Firebird_Error: in autocommit mode the transaction is rolled back,   *)
(* which the other objects of the family work in as well.  lost: the call   *)
(* that failed has found the connection lost; dbi_interbase then attaches   *)
(* again and leaves the transaction.  Every caller fails then.  That the    *)
(* handler calls the Tcl proc errorclean matters for the violation of a key *)
(* only: KeyError, below.                                                   *)
Error_Anyway(w, o, lost, c) ==
    LET v == CloseCursor(Undo(w, o), o)
    IN Fails(IF lost THEN Reconnect(v, o, c) ELSE v)
Error(w, o, lost, c) ==
    LET undoes == AutocommitState(w, o) /\ (lost => RollsBackLost)
        v == CloseCursor(IF undoes THEN Undo(w, o) ELSE w, o)
    IN Fails(IF lost THEN Reconnect(v, o, c) ELSE v)

(* dbi_Firebird_Transaction_Commit.  A full commit would take the results   *)
(* of others away, so that it is retained while any other object of the     *)
(* family has a cursor, or any a blob.                                      *)
Retained_NotForParent(w, o) ==
    \/ w.obj[o].blob # "none"
    \/ \E p \in obj[Root(o)].clones : w.obj[p].blob # "none" \/ (p # o /\ w.obj[p].cursor)
Retained(w, o) ==
    \/ w.obj[o].blob # "none"
    \/ IsClone(o) /\ (w.obj[Root(o)].cursor \/ w.obj[Root(o)].blob # "none")
    \/ \E p \in obj[Root(o)].clones : w.obj[p].blob # "none" \/ (p # o /\ w.obj[p].cursor)

Transaction_Commit(w, o, noretain, refused, c) ==
    IF refused \/ ~IsOpen(w, Trans(w, o)) THEN Error(w, o, IsLost(w, Trans(w, o)), c)
    ELSE IF noretain \/ ~Retained(w, o) THEN FullCommit(w, o)
    ELSE Retaining(w, o)
CommitIfAny(w, o, noretain, refused, c) ==
    IF Trans(w, o) = 0 THEN w ELSE Transaction_Commit(w, o, noretain, refused, c)

(* dbi_Firebird_Transaction_Start: when the connection is lost, it attaches *)
(* again and tries once more.                                               *)
Started(w, o) == [w EXCEPT !.obj[Root(o)].trans = w.obj[o].db, !.srv[w.obj[o].db] = Begun(@)]
Transaction_Start(w, o, c) ==
    IF Trans(w, o) # 0 THEN w
    ELSE IF IsOpen(w, w.obj[o].db) THEN Started(w, o)
    ELSE IF ~IsLost(w, w.obj[o].db) THEN Error(w, o, FALSE, c)
    ELSE LET v == Reconnect(w, o, c) IN IF Ok(v) THEN Started(v, o) ELSE v

(* dbi_Firebird_autocommit, before every exec and every blob. *)
Autocommit(w, o, refused, c) ==
    LET v == CloseCursor(w, o)
        u == CommitIfAny(v, o, FALSE, refused, c)
    IN IF ~AutocommitState(w, o) THEN v
       ELSE IF Ok(u) THEN Transaction_Start(u, o, c) ELSE u

(* The error exit of dbi_Firebird_Exec *)
ExecError_Kept(w, o) == Fails(w)
ExecError(w, o) ==
    Fails(IF AutocommitState(w, o) /\ Trans(w, o) # 0 THEN Undo(CloseCursor(w, o), o) ELSE w)

-----------------------------------------------------------------------------------
(* Objects and connections *)

New(o) ==
    /\ ~obj[o].alive /\ \A p \in Obj : obj[p].parent # o
    /\ \E garbage \in Garbage : obj' = [obj EXCEPT ![o] = Fresh(garbage)]
    /\ reply' = Answer(o, "new", "ok")
    /\ UNCHANGED srv

Open(o) ==
    /\ obj[o].alive /\ ~IsClone(o) /\ obj[o].db = 0
    /\ \E c \in Attaches :
          /\ obj' = [obj EXCEPT ![o] = [@ EXCEPT !.db = c, !.database = (c # 0),
                                                 !.auto = TRUE, !.trans = 0]]
          /\ srv' = IF c = 0 THEN srv ELSE [srv EXCEPT ![c] = Linked(@)]
          /\ reply' = Answer(o, "open", IF c = 0 THEN "failed" ELSE "ok")

(* The server or the network ends a connection: the server rolls back. *)
ConnectionLost(c) ==
    /\ srv[c].link = "open"
    /\ srv' = [srv EXCEPT ![c] = [RolledBack(@) EXCEPT !.link = "lost"]]
    /\ obj' = [o \in Obj |-> IF obj[Root(o)].trans = c THEN [obj[o] EXCEPT !.live = FALSE]
                             ELSE obj[o]]
    /\ reply' = Answer(NoObj, "lost", "ok")

(* When the root is not attached cloning fails, and then frees the clone    *)
(* twice; with the name of its own root the clone deletes that root and     *)
(* then uses its record: neither is defined.                                *)
Clone(o, n) ==
    LET r == Root(o)
    IN /\ Opened(o) /\ IsOpen(Now, obj[r].db)
       /\ ~obj[n].alive /\ \A p \in Obj : obj[p].parent # n
       /\ \E garbage \in Garbage :
             obj' = [obj EXCEPT ![n] = [Fresh(garbage) EXCEPT !.parent = r, !.db = obj[r].db,
                                                              !.database = TRUE],
                                ![r].clones = @ \cup {n}]
       /\ reply' = Answer(n, "clone", "ok")
       /\ UNCHANGED srv

DestroyClone_StillListed(o) == [Now EXCEPT !.obj[o] = Absent]
DestroyClone(o) == [Now EXCEPT !.obj[Root(o)].clones = @ \ {o}, !.obj[o] = Absent]

CloseRoot(o) ==
    LET over == Undo(FreeStmt(Now, o), o)
    IN [is  |-> IF obj[o].db # 0 /\ srv[obj[o].db].link = "closed" THEN "failed" ELSE "ok",
        srv |-> IF obj[o].db = 0 THEN over.srv ELSE [over.srv EXCEPT ![obj[o].db] = HungUp(@)],
        obj |-> [p \in Obj |->
                    IF p \in obj[o].clones THEN Absent
                    ELSE IF p = o THEN [over.obj[o] EXCEPT !.clones = {}, !.db = 0, !.database = FALSE]
                    ELSE over.obj[p]]]

Close(o) ==
    /\ Opened(o)
    /\ LET w == IF IsClone(o) THEN DestroyClone(o) ELSE CloseRoot(o)
       IN Ends(w, Answer(o, "close", w.is))

Destroy(o) ==
    /\ Usable(o)
    /\ LET w == IF IsClone(o) THEN DestroyClone(o)
                ELSE IF obj[o].database THEN CloseRoot(o) ELSE Now
       IN Ends([w EXCEPT !.obj[o] = Absent], Answer(o, "destroy", "ok"))

Drop(o) ==
    /\ Opened(o)
    /\ IF IsClone(o)
       THEN Ends(Now, Answer(o, "drop", "refused"))
       ELSE \/ /\ srv[obj[o].db].link = "open"
               /\ Ends(CloseRoot(o), Answer(o, "drop", "ok"))
            \/ \E c \in AttachesAgain(o) :
                  Ends(Error(Now, o, IsLost(Now, obj[o].db), c), Answer(o, "drop", "failed"))

-----------------------------------------------------------------------------------
(* exec *)

(* The numbers that the writes of a text get are durable no more. *)
Numbered(w, ids) == [w EXCEPT !.srv = [c \in Conn |-> [w.srv[c] EXCEPT !.durable = @ \ ids]]]

(* The first n commands have been executed, the next one is prepared. *)
Processed_FlagUnset(w, o, t, n, ids) ==
    LET all == n = Len(t)
        r == w.obj[o]
        prepared == [r EXCEPT !.out = (t[IF all THEN n ELSE n + 1] = "select")]
    IN [w EXCEPT !.srv[Trans(w, o)] = Written(@, Lowest(ids, Effects(t, n))),
                 !.obj[o] = IF all /\ Selects(t)
                            THEN [prepared EXCEPT !.live = TRUE, !.res = Another(@)]
                            ELSE prepared]
Processed(w, o, t, n, ids) ==
    LET all == n = Len(t)
        r == w.obj[o]
        prepared == [r EXCEPT !.out = (t[IF all THEN n ELSE n + 1] = "select")]
    IN [w EXCEPT !.srv[Trans(w, o)] = Written(@, Lowest(ids, Effects(t, n))),
                 !.obj[o] = IF all /\ Selects(t)
                            THEN [prepared EXCEPT !.cursor = TRUE, !.live = TRUE, !.res = Another(@)]
                            ELSE prepared]

ForFetch(w, o, rows) == [w EXCEPT !.obj[o] = [@ EXCEPT !.tuple = -1, !.known = -1, !.len = rows]]

CommitAtEnd(w, o, refused, c) ==
    IF AutocommitState(w, o) THEN CommitIfAny(w, o, FALSE, refused, c) ELSE w

(* n commands work; the next one is a bad one, or one that has been given   *)
(* the wrong number of arguments.  A commit may be refused, that before or  *)
(* that after the commands.  The commands are those that SplitSQL finds: it *)
(* leaves out the last one of several when no semicolon closes it.          *)
ExecText(o, t, fetch, n, ids, rows, refused, c) ==
    LET begun == Numbered(Autocommit(CloseCursor(Now, o), o, refused = "first", c), ids)
        done == Processed(begun, o, t, n, ids)
    IN IF ~Ok(begun) THEN ExecError(begun, o)
       ELSE IF ~CallWorks(begun, o) THEN ExecError(Error(begun, o, CallLost(begun, o), c), o)
       ELSE IF n < UpToError(t) THEN ExecError(done, o)
       ELSE IF n < Len(t) THEN ExecError(Error(done, o, FALSE, c), o)
       ELSE IF Selects(t) /\ fetch THEN ForFetch(done, o, rows)
       ELSE CommitAtEnd(CloseCursor(done, o), o, refused = "last", c)

(* The numbers that nothing pending has once exec has begun, which ends the *)
(* transaction of the family in autocommit mode.                            *)
Free(o) ==
    {i \in Work : \A c \in Conn :
        i \in srv[c].pending => AutocommitState(Now, o) /\ Trans(Now, o) = c}

(* The commits of exec that may be refused, if it gets to them. *)
Refusals(o, t, n) ==
    LET auto == AutocommitState(Now, o)
    IN {"none"} \cup (IF auto /\ Trans(Now, o) # 0 /\ n = 0 THEN {"first"} ELSE {})
                \cup (IF auto /\ n = Len(t) THEN {"last"} ELSE {})

Exec(o, t, fetch) ==
    /\ Opened(o)
    /\ IF t = <<>> THEN Ends(Now, Executed(o, "nothing", {}))
       ELSE LET ids == Lowest(Free(o), Effects(t, Len(t)))
            IN /\ Cardinality(ids) = Effects(t, Len(t))
               /\ \E c \in AttachesAgain(o), n \in 0 .. UpToError(t) :
                  \E rows \in IF fetch /\ n = Len(t) THEN Rows(t) ELSE {0},
                     refused \in Refusals(o, t, n) :
                     \E w \in {ExecText(o, t, fetch, n, ids, rows, refused, c)} :
                        Ends(w, Executed(o, w.is, ids))

(* When a command violates a key, the error handler calls errorclean, which *)
(* looks the key up (index_info): with two or three selects, given to exec  *)
(* of this very object, each after one that worked.  Exec begins and ends   *)
(* a transaction in autocommit mode, where a commit may be refused; a third *)
(* select finds and leaves what the second does.                            *)
Selected(begun, o, refused) ==
    IF ~Ok(begun) THEN ExecError(begun, o)
    ELSE IF ~CallWorks(begun, o) THEN ExecError(Error(begun, o, CallLost(begun, o), 0), o)
    ELSE CommitAtEnd(CloseCursor(Processed(begun, o, <<"select">>, 1, {}), o),
                     o, refused = "last", 0)
Query(w, o, refused) ==
    IF Ok(w) THEN Selected(Autocommit(CloseCursor(w, o), o, refused = "first", 0), o, refused)
    ELSE w
IndexInfo(w, o, refused, refusedThen) == Query(Query(w, o, refused), o, refusedThen)

(* dbi_firebird rolls back before it calls errorclean, dbi_interbase after. *)
UndoIfAuto(w, o, driver) ==
    IF kind = driver /\ AutocommitState(w, o) THEN Undo(w, o) ELSE w
KeyError(w, o, refused, refusedThen) ==
    LET looked == CloseCursor(
            IndexInfo(UndoIfAuto(w, o, "firebird"), o, refused, refusedThen), o)
    IN Fails(UndoIfAuto(looked, o, "interbase"))

(* exec of a text whose first command that fails violates a key.  The looks *)
(* end with the first that fails, and commit in autocommit mode only.       *)
ExecViolates(o, t, refused, refusedThen) ==
    LET n == UpToError(t)
        ids == Lowest(Free(o), Effects(t, Len(t)))
    IN /\ Opened(o)
       /\ n < Len(t) /\ Cardinality(ids) = Effects(t, Len(t))
       /\ refused = "none" \/ refusedThen = "none"
       /\ {refused, refusedThen} # {"none"} => AutocommitState(Now, o)
       /\ \E c \in AttachesAgain(o) :
             LET begun == Numbered(Autocommit(CloseCursor(Now, o), o, FALSE, c), ids)
                 done == Processed(begun, o, t, n, ids)
                 w == ExecError(KeyError(done, o, refused, refusedThen), o)
             IN /\ Ok(begun) /\ CallWorks(begun, o)
                /\ Ends(w, Executed(o, "violation", ids))

(* exec of a transaction statement, which sets the mode; the mode is set    *)
(* back even if the statement fails.                                        *)
Statement(w, o, command, refused, c) ==
    IF command = "begin"
    THEN LET v == Transaction_Commit(w, o, TRUE, refused, c)
         IN IF Ok(v) THEN SetAuto(Started(v, o), o, FALSE) ELSE v
    ELSE IF refused THEN Error(SetAuto(w, o, TRUE), o, FALSE, c)
    ELSE SetAuto(IF command = "commit" THEN FullCommit(w, o) ELSE Undo(w, o), o, TRUE)

ExecTransaction(o, command, refused) ==
    /\ Opened(o)
    /\ \E c \in AttachesAgain(o) :
          LET begun == Autocommit(CloseCursor(Now, o), o, FALSE, c)
              prepared == [begun EXCEPT !.obj[o].out = FALSE]
              w == IF ~Ok(begun) THEN begun
                   ELSE IF ~CallWorks(begun, o) THEN Error(begun, o, CallLost(begun, o), c)
                   ELSE Statement(prepared, o, command, refused, c)
          IN Ends(IF Ok(w) THEN w ELSE ExecError(w, o), Answer(o, "transaction", w.is))

-----------------------------------------------------------------------------------
(* fetch of the next line (-1), of the current one (-2) or of a given one.  *)
(* The first fetch goes to the first line, before anything is compared. The *)
(* current line is in the buffers of out_sqlda, and is given from there.    *)

Asked(o, q) == IF q = -2 /\ obj[o].tuple >= 0 THEN obj[o].tuple ELSE q
Wanted(o, q) == IF q = -1 THEN obj[o].tuple + 1 ELSE Asked(o, q)

(* Lines are read until line is in the buffers, or no more can be read. *)
ReadTo_PastLast(r, line) == IF r.live /\ line < r.len THEN line
                            ELSE IF r.live /\ r.len > 0 THEN r.len ELSE r.tuple
ReadTo(r, line) == IF r.live /\ line < r.len THEN line
                   ELSE IF r.live /\ r.len > r.tuple THEN r.len - 1 ELSE r.tuple

(* Below, at is the record with the first line read. *)
FetchAt(o, q, line) ==
    LET r == obj[o]
        first == ReadTo(r, 0)
        at == [r EXCEPT !.tuple = IF @ = -1 THEN first ELSE @]
        reached == ReadTo(at, line)
        end == [at EXCEPT !.tuple = reached, !.known = reached]
    IN IF line < 0 THEN obj' = obj /\ reply' = NoLine(o, Asked(o, q))
       ELSE IF at.tuple = -1
       THEN obj' = [obj EXCEPT ![o].known = -1] /\ reply' = NoLine(o, Asked(o, q))
       ELSE IF (r.known # -1 /\ line > r.known) \/ line < at.tuple
       THEN obj' = [obj EXCEPT ![o] = at] /\ reply' = NoLine(o, Asked(o, q))
       ELSE IF line > at.tuple /\ reached < line
       THEN obj' = [obj EXCEPT ![o] = end] /\ reply' = NoLine(o, Asked(o, q))
       ELSE /\ obj' = [obj EXCEPT ![o] = [at EXCEPT !.tuple = line]]
            /\ reply' = GivenLine(o, Asked(o, q), line, r.res)

Fetch(o, q) ==
    /\ Opened(o)
    /\ IF obj[o].out THEN FetchAt(o, q, Wanted(o, q))
       ELSE obj' = obj /\ reply' = NoLine(o, q)
    /\ UNCHANGED srv

-----------------------------------------------------------------------------------
(* begin, commit and rollback *)

Method(o, method, W(_)) ==
    /\ Opened(o)
    /\ \E c \in AttachesAgain(o) : LET w == W(c) IN Ends(w, Answer(o, method, w.is))

BeginWith(o, refused, c) ==
    LET v == CommitIfAny(Now, o, TRUE, refused, c)
        u == IF Ok(v) THEN Transaction_Start(v, o, c) ELSE v
    IN IF Ok(u) THEN SetAuto(u, o, FALSE) ELSE u
CommitWith(o, refused, c) == CommitIfAny(CloseCursor(SetAuto(Now, o, TRUE), o), o, TRUE, refused, c)

Begin(o, refused)  == Method(o, "begin",  LAMBDA c : BeginWith(o, refused, c))
Commit(o, refused) == Method(o, "commit", LAMBDA c : CommitWith(o, refused, c))
Rollback(o) == Method(o, "rollback", LAMBDA c : Undo(CloseCursor(SetAuto(Now, o, TRUE), o), o))

-----------------------------------------------------------------------------------
(* blob open, get or skip, and close *)

(* isc_close_blob.  A handle whose transaction is over cannot be closed. *)
CloseBlob(w, o, c) ==
    CASE w.obj[o].blob = "none" -> w
      [] w.obj[o].blob = "dead" -> Error(w, o, FALSE, c)
      [] OTHER -> IF CallLost(w, o) THEN Error(w, o, TRUE, c) ELSE [w EXCEPT !.obj[o].blob = "none"]

(* found: there is a blob with the given blobid. *)
OpenBlob(o, found, c) ==
    LET closed == CloseBlob(Now, o, c)
        begun == Autocommit(closed, o, FALSE, c)
    IN IF ~Ok(closed) THEN closed
       ELSE IF ~Ok(begun) THEN begun
       ELSE IF found /\ CallWorks(begun, o) THEN [begun EXCEPT !.obj[o].blob = "open"]
       ELSE Error(begun, o, CallLost(begun, o), c)

BlobOpen(o, found) ==
    /\ Opened(o)
    /\ \E c \in AttachesAgain(o) :
          LET w == OpenBlob(o, found, c) IN Ends(w, Answer(o, "blob open", w.is))

BlobGet(o) ==
    /\ Opened(o)
    /\ IF obj[o].blob = "open" /\ ~CallLost(Now, o) THEN Ends(Now, Answer(o, "blob get", "ok"))
       ELSE \E c \in AttachesAgain(o) :
               Ends(Error(Now, o, obj[o].blob = "open", c), Answer(o, "blob get", "failed"))

BlobClose(o) ==
    /\ Opened(o)
    /\ \E c \in AttachesAgain(o) :
          LET w == CloseBlob(Now, o, c) IN Ends(w, Answer(o, "blob close", w.is))

-----------------------------------------------------------------------------------

FirebirdNext ==
    \/ \E o \in Obj :
        \/ New(o) \/ Open(o) \/ Close(o) \/ Destroy(o) \/ Drop(o)
        \/ \E n \in Obj : Clone(o, n)
        \/ \E t \in Texts : \E fetch \in {Selects(t), FALSE} : Exec(o, t, fetch)
        \/ \E t \in Texts, refused, refusedThen \in {"none", "first", "last"} :
              ExecViolates(o, t, refused, refusedThen)
        \/ \E command \in {"begin", "commit", "rollback"}, refused \in BOOLEAN :
              ExecTransaction(o, command, refused)
        \/ \E q \in -2 .. MaxLines : Fetch(o, q)
        \/ \E refused \in BOOLEAN : Begin(o, refused) \/ Commit(o, refused)
        \/ Rollback(o)
        \/ \E found \in BOOLEAN : BlobOpen(o, found)
        \/ BlobGet(o) \/ BlobClose(o)
    \/ \E c \in Conn : ConnectionLost(c)

RecordsOK ==
    obj \in [Obj -> [alive : BOOLEAN, parent : Obj \cup {NoObj}, clones : SUBSET Obj,
                     db : Conn \cup {0}, database : BOOLEAN, auto : BOOLEAN,
                     trans : Conn \cup {0}, cursor : BOOLEAN, live : BOOLEAN, out : BOOLEAN,
                     res : 0 .. 2, len : 0 .. MaxLines, tuple : -1 .. MaxLines - 1,
                     known : -1 .. MaxLines - 1, blob : {"none", "open", "dead"}]]
==================================================================================
