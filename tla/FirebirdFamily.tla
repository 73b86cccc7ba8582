----------------------------- MODULE FirebirdFamily -----------------------------
(****************************************************************************)
(* The backends whose results are cursors in a transaction that a family of *)
(* objects shares: Firebird and InterBase.                                  *)
(****************************************************************************)
EXTENDS InterbaseSession

vars == <<kind, obj, srv, reply>>

Next ==
    /\ kind' = kind
    /\ \/ kind = "firebird"  /\ FirebirdNext
       \/ kind = "interbase" /\ InterbaseNext

Spec == Init /\ [][Next]_vars

-----------------------------------------------------------------------------------
(* Properties *)

(* The records, the connections and the answers have their forms. *)
TypeOK ==
    /\ kind \in {"firebird", "interbase"}
    /\ RecordsOK
    /\ srv \in [Conn -> [link : {"unused", "open", "lost", "closed"}, txn : {"none", "open"},
                         stuck : {FALSE}, pending : SUBSET Work, durable : SUBSET Work]]
    /\ reply \in [to : Obj \cup {NoObj}, of : Methods, is : Endings, asked : -2 .. MaxLines,
                  n : 0 .. MaxLines, res : 0 .. 2, ids : SUBSET Work, unsent : SUBSET Work]

(* What the C record says of the server is never too little: an open cursor *)
(* has its flag cursor_open and its columns, an open blob its handle, and   *)
(* both are in the transaction whose handle the root holds, which is the    *)
(* transaction that is open there.  Too little would make a commit drop the *)
(* result of another object (firebird.c:1275-1293).                         *)
HandlesKnown ==
    \A o \in Obj : Usable(o) =>
        /\ obj[o].live => obj[o].cursor /\ obj[o].out
        /\ \/ obj[o].live
           \/ obj[o].blob = "open" /\ srv[obj[o].db].link = "open"
           => obj[Root(o)].trans = obj[o].db
        /\ \A c \in Conn : obj[Root(o)].trans = c /\ srv[c].link = "open"
              => srv[c].txn = "open"

(* Every parent is attached: no attach that should make a lost connection   *)
(* again is refused.  Otherwise open of the parent, or its reconnection,    *)
(* sets the handle of the transaction to NULL that a clone which has        *)
(* attached again by itself works in, and HandlesKnown ends there.          *)
ParentsAttached == \A o \in Obj : obj[o].clones # {} => obj[o].db # 0

(* The clones that an object lists are the live objects whose parent it is; *)
(* none is missed when it goes, none is listed that is gone.                *)
CloneTree ==
    \A o, p \in Obj : obj[o].alive =>
        (p \in obj[o].clones <=> obj[p].alive /\ obj[p].parent = o)

(* What an object has open survives what succeeds on other objects: an exec *)
(* or a blob open in autocommit mode commits, but retains the transaction   *)
(* that the cursor or the blob of another object is in.                     *)
ResultsSurvive ==
    [][\A o, p \in Obj :
          /\ reply'.to = o /\ p # o
          /\ reply'.of \in {"exec", "blob open"} /\ reply'.is = "ok"
          => /\ obj[p].live => obj'[p].live
             /\ obj[p].blob = "open" => obj'[p].blob = "open"]_vars

(* A text that fails in autocommit mode leaves nothing that would be        *)
(* committed later, and nothing durable, whichever command or commit fails, *)
(* and whether the connection has been made again or not.  When it fails by *)
(* a violated key that holds of dbi_firebird, although its error handler    *)
(* executes further texts; in dbi_interbase these may have made what the    *)
(* commands before did durable, but leave nothing pending.                  *)
LeftPending(ids) == \E c \in Conn : ids \cap srv[c].pending # {}
LeftDurable(ids) == \E c \in Conn : ids \cap srv[c].durable # {}

FailedExecUndone ==
    [][/\ reply'.of = "exec" /\ reply'.is \in {"failed", "violation"}
       /\ obj[Root(reply'.to)].auto
       => /\ ~LeftPending(reply.ids)'
          /\ reply'.is = "failed" \/ kind = "firebird" => ~LeftDurable(reply.ids)']_vars

(* What was done in a transaction of the user is committed or undone by the *)
(* methods and statements for that, by close, drop and destroy, or with the *)
(* connection: by no exec, fetch or blob that fails.                        *)
UserWorkKept ==
    [][\A o \in Obj, c \in Conn :
          /\ Usable(o) /\ ~IsClone(o) /\ ~obj[o].auto /\ obj[o].trans = c
          /\ reply'.of \notin {"begin", "commit", "rollback", "transaction", "close", "drop",
                               "destroy", "lost"}
          => srv[c].pending \subseteq srv'[c].pending]_vars

(* Lines come in order, none twice and none left out, from the result of    *)
(* the last exec: both implement the fetch of the manual.                   *)
DbiFetch == INSTANCE DbiFetch WITH
    res <- [o \in Obj |-> IF obj[o].live THEN obj[o].res ELSE 0],
    len <- [o \in Obj |-> obj[o].len],
    next <- [o \in Obj |-> obj[o].tuple + 1], forward <- TRUE
ImplementsFetch == DbiFetch!Spec
==================================================================================
