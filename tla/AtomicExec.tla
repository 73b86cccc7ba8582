------------------------------- MODULE AtomicExec -------------------------------
(****************************************************************************)
(* What the interface promises of exec (docs/man/interface_dbi.n): a call   *)
(* outside an explicit transaction publishes the effects of all its         *)
(* commands in one step, and a call that reports an error has published     *)
(* nothing.  The log is the durable content of the database, as the         *)
(* sequence of the effects that made it.                                    *)
(****************************************************************************)
EXTENDS Sequences, Naturals

VARIABLES
    phase,      \* "idle" or "running"
    log,        \* the durable effects
    published,  \* the running call has published its effects
    outcome     \* how the last call ended

vars == <<phase, log, published, outcome>>

Init == phase = "idle" /\ log = <<>> /\ published = FALSE /\ outcome = "none"

Extends == /\ Len(log') > Len(log)
           /\ SubSeq(log', 1, Len(log)) = log

Start == /\ phase = "idle" /\ phase' = "running"
         /\ UNCHANGED <<log, published, outcome>>

Publish == /\ phase = "running" /\ ~published
           /\ Extends /\ published' = TRUE
           /\ UNCHANGED <<phase, outcome>>

ReturnOk == /\ phase = "running" /\ phase' = "idle"
            /\ outcome' = "ok" /\ published' = FALSE
            /\ UNCHANGED log

ReturnError == /\ phase = "running" /\ ~published
               /\ phase' = "idle" /\ outcome' = "error"
               /\ UNCHANGED <<log, published>>

(* The user ends an explicit transaction. *)
UserCommit == /\ phase = "idle" /\ Extends
              /\ UNCHANGED <<phase, published, outcome>>

Next == Start \/ Publish \/ ReturnOk \/ ReturnError \/ UserCommit

Spec == Init /\ [][Next]_vars
=============================================================================
