---------------------------- MODULE InterbaseSession ----------------------------
(****************************************************************************)
(* Objects of dbi_interbase (interbase/generic/interbase.c).  The driver    *)
(* began as a copy of that of Firebird, and most of its methods still do    *)
(* the same.  It differs in three places: the error handler attaches again  *)
(* to a database that is lost before, and instead of, rolling back          *)
(* (RollsBackLost); it looks up a key that is violated before it rolls back *)
(* (KeyError); and fetch, once it knows the last line, refuses that line    *)
(* itself too.                                                              *)
(****************************************************************************)
EXTENDS FirebirdSession

-----------------------------------------------------------------------------------
(* What both drivers do. *)

IbNew(o)      == New(o)
IbOpen(o)     == Open(o)
IbClone(o, n) == Clone(o, n)
IbClose(o)    == Close(o)
IbDestroy(o)  == Destroy(o)
IbDrop(o)     == Drop(o)

IbExec(o, t, fetch)                    == Exec(o, t, fetch)
IbExecViolates(o, t, refused, refusedThen) == ExecViolates(o, t, refused, refusedThen)
IbExecTransaction(o, command, refused) == ExecTransaction(o, command, refused)

IbBegin(o, refused)  == Begin(o, refused)
IbCommit(o, refused) == Commit(o, refused)
IbRollback(o)        == Rollback(o)

IbBlobOpen(o, found) == BlobOpen(o, found)
IbBlobGet(o)         == BlobGet(o)
IbBlobClose(o)       == BlobClose(o)

-----------------------------------------------------------------------------------
(* fetch *)

PastEnd_Unknown(o, q) == Wanted(o, q) >= obj[o].known
PastEnd(o, q) == obj[o].known # -1 /\ Wanted(o, q) >= obj[o].known

IbFetch(o, q) ==
    IF obj[o].out /\ Wanted(o, q) >= 0 /\ PastEnd(o, q)
    THEN /\ Opened(o)
         /\ reply' = NoLine(o, Asked(o, q))
         /\ UNCHANGED <<obj, srv>>
    ELSE Fetch(o, q)

-----------------------------------------------------------------------------------

InterbaseNext ==
    \/ \E o \in Obj :
        \/ IbNew(o) \/ IbOpen(o) \/ IbClose(o) \/ IbDestroy(o) \/ IbDrop(o)
        \/ \E n \in Obj : IbClone(o, n)
        \/ \E t \in Texts : \E fetch \in {Selects(t), FALSE} : IbExec(o, t, fetch)
        \/ \E t \in Texts, refused, refusedThen \in {"none", "first", "last"} :
              IbExecViolates(o, t, refused, refusedThen)
        \/ \E command \in {"begin", "commit", "rollback"}, refused \in BOOLEAN :
              IbExecTransaction(o, command, refused)
        \/ \E q \in -2 .. MaxLines : IbFetch(o, q)
        \/ \E refused \in BOOLEAN : IbBegin(o, refused) \/ IbCommit(o, refused)
        \/ IbRollback(o)
        \/ \E found \in BOOLEAN : IbBlobOpen(o, found)
        \/ IbBlobGet(o) \/ IbBlobClose(o)
    \/ \E c \in Conn : ConnectionLost(c)
==================================================================================
