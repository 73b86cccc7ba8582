------------------------------- MODULE MCFirebird -------------------------------
(* The instance of FirebirdAttached that TLC checks: an object and a clone,   *)
(* one connection that may be lost and one more to attach to.               *)
EXTENDS FirebirdAttached, TLC

MCTexts == {<<"select">>, <<"write", "select">>, <<"write", "bad">>, <<>>}
MCSizes == {0, 2}
Symmetry == Permutations(Obj)

(* Families do not touch one another: there is one at a time.               *)
OneFamily == Cardinality({o \in Obj : obj[o].alive /\ obj[o].parent = NoObj}) <= 1

(* What a blob does to the transaction of the family is the same for both   *)
(* kinds, and is followed up with Firebird only, one blob at a time.        *)
BlobsOnce == Cardinality({o \in Obj : obj[o].blob # "none"}) <= IF kind = "firebird" THEN 1 ELSE 0

(* States that differ in the last answer, or in what is durable already,    *)
(* are the same: the properties look at the answer of the step and at the   *)
(* writes of the step, which are durable only if that step makes them so.   *)
(* So are states that differ in the names 1 and 2 of the results, in a      *)
(* result that is gone, or in the line of it that is left in the buffers.   *)
Seen(r) == IF r.live THEN [r EXCEPT !.res = 1]
           ELSE [r EXCEPT !.res = 0, !.len = 0, !.known = -1,
                          !.tuple = IF @ = -1 THEN -1 ELSE 0]
View == <<kind, attached, [o \in Obj |-> Seen(obj[o])], [c \in Conn |-> [srv[c] EXCEPT !.durable = {}]]>>
==================================================================================
