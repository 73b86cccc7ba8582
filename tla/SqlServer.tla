-------------------------------- MODULE SqlServer --------------------------------
(****************************************************************************)
(* The database server as the client libraries show it to the backends      *)
(* (external code): connections with at most one transaction each.  A text  *)
(* given to exec is a sequence of commands; a "write" is known by a number, *)
(* which is in the pending set of the connection while its transaction is   *)
(* open and in its durable set once committed; a number is used again.      *)
(****************************************************************************)
EXTENDS Integers, Sequences, FiniteSets

CONSTANTS
    Obj,        \* names of Tcl commands for dbi objects
    NoObj,      \* a NULL parent
    Texts,      \* the SQL texts given to exec
    MaxConn,    \* bound: connections ever made
    MaxWork,    \* bound: writes of a transaction
    Sizes       \* bound: the numbers of lines that results have

ASSUME ServerAssumption ==
    /\ NoObj \notin Obj
    /\ Texts \subseteq Seq({"write", "select", "bad"})
    /\ MaxConn \in Nat /\ MaxWork \in Nat
    /\ Sizes \subseteq Nat /\ 0 \in Sizes /\ Sizes # {0}
    /\ \E n \in Sizes : \A m \in Sizes : m <= n

Conn == 1 .. MaxConn        \* 0 stands for no connection
Work == 1 .. MaxWork
MaxLines == CHOOSE n \in Sizes : \A m \in Sizes : m <= n

Silent == [link |-> "unused", txn |-> "none", stuck |-> FALSE,
           pending |-> {}, durable |-> {}]

(* A connection made, and given up by either side. *)
Linked(s) == [s EXCEPT !.link = "open"]

(* Commands with the numbers ids have been executed. *)
Written(s, ids) == IF s.txn = "none" THEN [s EXCEPT !.durable = @ \cup ids]
                   ELSE [s EXCEPT !.pending = @ \cup ids]

Begun(s)      == [s EXCEPT !.txn = "open"]
Committed(s)  == [s EXCEPT !.txn = "none", !.durable = @ \cup s.pending, !.pending = {}]
RolledBack(s) == [s EXCEPT !.txn = "none", !.pending = {}]
HungUp(s)     == [Silent EXCEPT !.link = "closed"]

(* The writes among the first n commands of text t have the lowest numbers  *)
(* that nothing pending has; Given makes the numbers of a text free.        *)
Unused(s) == Work \ s.pending
Lowest(S, k) == {i \in S : Cardinality({j \in S : j <= i}) <= k}
Effects(t, n) == Cardinality({i \in 1 .. n : t[i] = "write"})
Writes(s, t, n) == Lowest(Unused(s), Effects(t, n))
Fits(s, t) == Effects(t, Len(t)) <= Cardinality(Unused(s))
Given(s, t) == [s EXCEPT !.durable = @ \ Writes(s, t, Len(t))]

(* How many commands are executed before the first one that fails. *)
UpToError(t) == LET bad == {i \in 1 .. Len(t) : t[i] = "bad"}
                IN IF bad = {} THEN Len(t)
                   ELSE (CHOOSE i \in bad : \A j \in bad : i <= j) - 1

(* The text ends with a select; the numbers of lines it can give. *)
Selects(t) == Len(t) > 0 /\ t[Len(t)] = "select"
Rows(t) == IF Selects(t) THEN Sizes ELSE {0}

(* The answer of a method: the object, the method, how it ended; for fetch  *)
(* the line asked for (-1: the next one), the line and the result it came   *)
(* from; for exec the writes of the text, and those among them that were    *)
(* never sent to the server.                                                *)
Methods == {"none", "new", "create", "open", "lost", "exec", "transaction", "fetch", "lines",
            "clear", "begin", "commit", "rollback", "get", "modify", "blob open", "blob get",
            "blob close", "clone", "close", "drop", "destroy"}
Endings == {"none", "ok", "failed", "violation", "refused", "nothing", "line", "count"}
NoReply == [to |-> NoObj, of |-> "none", is |-> "none", asked |-> 0, n |-> 0,
            res |-> 0, ids |-> {}, unsent |-> {}]
Answer(o, method, ended) == [NoReply EXCEPT !.to = o, !.of = method, !.is = ended]
Executed(o, ended, ids)  == [Answer(o, "exec", ended) EXCEPT !.ids = ids]
ExecutedPart(o, ended, ids, unsent) == [Executed(o, ended, ids) EXCEPT !.unsent = unsent]
GivenLine(o, q, n, r)    == [Answer(o, "fetch", "line") EXCEPT !.asked = q, !.n = n, !.res = r]
NoLine(o, q)             == [Answer(o, "fetch", "refused") EXCEPT !.asked = q]
Count(o, n)              == [Answer(o, "lines", "count") EXCEPT !.n = n]

(* A result that differs from the one before it. *)
Another(r) == IF r = 1 THEN 2 ELSE 1
=================================================================================
