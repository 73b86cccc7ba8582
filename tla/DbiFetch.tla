-------------------------------- MODULE DbiFetch --------------------------------
(****************************************************************************)
(* What the manual promises of fetch (docs/man/interface_dbi.n, exec and    *)
(* fetch): a line of data is a line of the result of the object's last      *)
(* successful exec -usefetch, the one that was asked for, or the next one;  *)
(* a successful exec takes the earlier result away; and fetch refuses only  *)
(* what the result does not have.  After a refusal nothing may be left to   *)
(* fetch but lines asked for by number.  A line is never given twice to one *)
(* who asks for the next.                                                   *)
(****************************************************************************)
EXTENDS Integers

CONSTANTS Obj, MaxLines

VARIABLES
    res,        \* the result an object has for fetch, 0 if none
    len,        \* its number of lines
    next,       \* the line that fetch gives next
    forward,    \* earlier lines cannot be fetched again
    reply       \* the answer of the last method

vars == <<res, len, next, forward, reply>>

Init == /\ res = [o \in Obj |-> 0]
        /\ len = [o \in Obj |-> 0]
        /\ next = [o \in Obj |-> 0]
        /\ forward \in BOOLEAN
        /\ reply.is = "none"

Keep(o) == res'[o] = res[o] /\ len'[o] = len[o] /\ next'[o] = next[o]
Lose(o) == res'[o] = 0
Gain(o) == /\ res'[o] # 0 /\ res'[o] # res[o]
           /\ len'[o] \in 0 .. MaxLines /\ next'[o] = 0

(* exec that succeeds: the object's result is a new one or none. *)
Exec(o) ==
    /\ reply'.to = o /\ reply'.of = "exec" /\ reply'.is = "ok"
    /\ Lose(o) \/ Gain(o)
    /\ \A p \in Obj \ {o} : Keep(p) \/ Lose(p)

(* Any other method, and exec that fails, may only take results away. *)
Other ==
    /\ reply'.of \notin {"fetch", "lines"}
    /\ ~(reply'.of = "exec" /\ reply'.is = "ok")
    /\ \A p \in Obj : Keep(p) \/ Lose(p)

(* fetch of line n. *)
Line(o, n) ==
    /\ res[o] # 0 /\ n < len[o]
    /\ reply'.is = "line" /\ reply'.n = n /\ reply'.res = res[o]
    /\ next'[o] = n + 1
    /\ UNCHANGED <<res, len>>
    /\ \A p \in Obj \ {o} : next'[p] = next[p]

(* fetch that is refused: of line n, or of the next line. *)
Refused(o, n, asked) ==
    /\ reply'.is = "refused"
    /\ \/ res[o] = 0
       \/ n >= len[o]
       \/ asked /\ forward /\ n < next[o]
    /\ \/ next'[o] = next[o] \/ next'[o] = len[o]
       \/ forward /\ next[o] = 0 /\ next'[o] = 1  \* the first line is passed over
    /\ UNCHANGED <<res, len>>
    /\ \A p \in Obj \ {o} : next'[p] = next[p]

(* fetch that the database makes fail: lines may be passed over. *)
Broken(o) ==
    /\ res[o] # 0 /\ reply'.is = "failed"
    /\ next'[o] \in next[o] .. len[o]
    /\ UNCHANGED <<res, len>>
    /\ \A p \in Obj \ {o} : next'[p] = next[p]

(* The current line, when its result is gone: what is given then is not     *)
(* promised to be a line of anything.                                       *)
Again(o, n) ==
    /\ res[o] = 0 /\ next[o] = n + 1
    /\ reply'.is = "line" /\ reply'.n = n
    /\ UNCHANGED <<res, len, next>>

Fetch(o) ==
    /\ reply'.to = o /\ reply'.of = "fetch"
    /\ \/ reply'.asked = -1 /\ (Line(o, next[o]) \/ Refused(o, next[o], FALSE))
       \/ \E n \in 0 .. MaxLines :
             /\ reply'.asked = n
             /\ Line(o, n) \/ Refused(o, n, TRUE) \/ Again(o, n)
       \/ /\ reply'.asked = -2 /\ reply'.is = "refused"     \* no current line
          /\ UNCHANGED <<res, len, next>>
       \/ Broken(o)

(* fetch lines, where it is supported; only the count of a result that is   *)
(* in memory is promised.                                                   *)
Lines(o) ==
    /\ reply'.to = o /\ reply'.of = "lines"
    /\ \/ reply'.is = "refused"
       \/ res[o] # 0 /\ reply'.is = "count" /\ (forward \/ reply'.n = len[o])
       \/ res[o] = 0 /\ reply'.is = "count" /\ reply'.n = 0
    /\ UNCHANGED <<res, len, next>>

Next == /\ forward' = forward
        /\ Other \/ \E o \in Obj : Exec(o) \/ Fetch(o) \/ Lines(o)

Spec == Init /\ [][Next]_vars
=================================================================================
