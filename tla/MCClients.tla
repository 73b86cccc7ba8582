-------------------------------- MODULE MCClients --------------------------------
(* The instance of Clients that TLC checks: an object, a clone of it, and   *)
(* texts that work, that fail first or between two writes, and that have    *)
(* their select where it is not read.                                       *)
EXTENDS Clients, TLC

MCTexts == {<<"write">>, <<"select">>, <<"bad">>, <<"write", "bad", "write">>, <<"select", "write">>, <<>>}
Symmetry == Permutations(Obj)

MCSizes == {0, 2}

(* Families do not touch one another: there is one at a time.               *)
OneFamily == Cardinality({o \in Obj : obj[o].alive /\ obj[o].parent = NoObj}) <= 1

(* States that differ in the last answer, in the names 1 and 2 of the       *)
(* results, or in what is durable already, are the same: the properties     *)
(* look at the answer of the step and at the writes of the step, not at     *)
(* those before it.                                                         *)
(* Whether it was that of "lines" is kept: a step that changes nothing but  *)
(* the answer is then checked from a state where it is no stuttering.       *)
View == <<kind, [o \in Obj |-> [obj[o] EXCEPT !.res = IF @ = 0 THEN 0 ELSE 1]],
          [c \in Conn |-> [srv[c] EXCEPT !.durable = {}]], reply.of = "lines">>
==================================================================================
