------------------------ MODULE Sqlite3ExecEffectProofs ------------------------
(****************************************************************************)
(* When the effects of an exec become durable, and in which order: theorems *)
(* for any number of texts, calls and effects.                              *)
(****************************************************************************)
EXTENDS Sqlite3ExecCacheProofs

(* The effects on the connection, those of its open transaction last.       *)
All == conn.done \o conn.pend

(* Effects are compared by call and command.                                *)
Before(d, e) == d[1] < e[1] \/ (d[1] = e[1] /\ d[2] < e[2])
Ordered(s)   == \A i, j \in DOMAIN s : i < j => Before(s[i], s[j])
Above(s, e)  == \A i \in DOMAIN s : Before(s[i], e)
CallsOf(s)   == {s[i][1] : i \in DOMAIN s}

(* A sequence of effects: what appending and concatenating do to its order  *)
(* and to the calls it comes from.                                          *)
LEMMA OrderFacts ==
    ASSUME NEW s \in Seq(Id), NEW e \in Id
    PROVE  /\ Ordered(s) /\ Above(s, e) => Ordered(Append(s, e))
           /\ \A f \in Id : Above(s, e) /\ Before(e, f) => Above(s, f) /\ Above(Append(s, e), f)
<1> USE PrefixFacts
<1>1. /\ Append(s, e) \in Seq(Id) /\ Len(s) \in Nat /\ DOMAIN s = 1 .. Len(s)
      /\ Len(Append(s, e)) = Len(s) + 1
      /\ DOMAIN Append(s, e) = 1 .. Len(s) + 1
      /\ \A i \in 1 .. Len(s) : Append(s, e)[i] = s[i] /\ s[i] \in Id
      /\ Append(s, e)[Len(s) + 1] = e
  OBVIOUS
<1>2. ASSUME Ordered(s), Above(s, e), NEW i \in 1 .. Len(s) + 1, NEW j \in 1 .. Len(s) + 1, i < j
      PROVE  Before(Append(s, e)[i], Append(s, e)[j])
  <2>1. i \in 1 .. Len(s) /\ Append(s, e)[i] = s[i]
    BY <1>1, <1>2
  <2>2. CASE j = Len(s) + 1
    BY <1>1, <1>2, <2>1, <2>2 DEF Above
  <2>3. CASE j \in 1 .. Len(s)
    BY <1>1, <1>2, <2>1, <2>3 DEF Ordered
  <2> QED
    BY <1>1, <2>2, <2>3
<1>3. ASSUME NEW f \in Id, Above(s, e), Before(e, f)
      PROVE  Above(s, f) /\ Above(Append(s, e), f)
  <2>1. ASSUME NEW i \in 1 .. Len(s) PROVE Before(s[i], f)
    <3>1. s[i] \in Id /\ Before(s[i], e)
      BY <1>1, <1>3 DEF Above
    <3>2. /\ s[i][1] \in Nat /\ s[i][2] \in Nat /\ e[1] \in Nat /\ e[2] \in Nat
          /\ f[1] \in Nat /\ f[2] \in Nat
      BY <3>1
    <3> QED
      BY <1>3, <3>1, <3>2 DEF Before
  <2>2. Above(s, f)
    BY <1>1, <2>1 DEF Above
  <2>3. ASSUME NEW i \in 1 .. Len(s) + 1 PROVE Before(Append(s, e)[i], f)
    <3>1. CASE i = Len(s) + 1
      BY <1>1, <1>3, <3>1
    <3>2. CASE i \in 1 .. Len(s)
      BY <1>1, <2>1, <3>2
    <3> QED
      BY <1>1, <3>1, <3>2
  <2> QED
    BY <1>1, <2>2, <2>3 DEF Above
<1> QED
  BY <1>1, <1>2, <1>3 DEF Ordered

LEMMA ConcatAppend ==
    \A s, t \in Seq(Id), e \in Id : s \o Append(t, e) = Append(s \o t, e)
OBVIOUS

LEMMA ConcatFacts ==
    ASSUME NEW s \in Seq(Id), NEW t \in Seq(Id)
    PROVE  /\ s \o t \in Seq(Id) /\ s \o <<>> = s /\ <<>> \in Seq(Id)
           /\ \A e \in Id : Above(s \o t, e) => Above(s, e)
           /\ Ordered(s \o t) => Ordered(s)
<1>1. /\ s \o t \in Seq(Id) /\ s \o <<>> = s /\ <<>> \in Seq(Id)
      /\ Len(s) \in Nat /\ Len(t) \in Nat
      /\ Len(s \o t) = Len(s) + Len(t)
      /\ DOMAIN s = 1 .. Len(s) /\ DOMAIN (s \o t) = 1 .. Len(s) + Len(t)
      /\ \A i \in 1 .. Len(s) : (s \o t)[i] = s[i]
  OBVIOUS

<1>3. 1 .. Len(s) \subseteq 1 .. Len(s) + Len(t)
  BY <1>1
<1>4. ASSUME NEW e \in Id, Above(s \o t, e) PROVE Above(s, e)
  BY <1>1, <1>3, <1>4 DEF Above
<1>5. Ordered(s \o t) => Ordered(s)
  BY <1>1, <1>3 DEF Ordered
<1> QED
  BY <1>1, <1>4, <1>5

LEMMA CallsFacts ==
    ASSUME NEW s \in Seq(Id), NEW t \in Seq(Id), NEW e \in Id
    PROVE  /\ CallsOf(<<>>) = {} /\ CallsOf(s) \subseteq Nat
           /\ CallsOf(Append(s, e)) = CallsOf(s) \cup {e[1]}
           /\ CallsOf(s \o t) = CallsOf(s) \cup CallsOf(t)
           /\ CallsOf(s) = {} => s = <<>>
<1>1. /\ Len(s) \in Nat /\ Len(t) \in Nat
      /\ DOMAIN s = 1 .. Len(s) /\ DOMAIN t = 1 .. Len(t)
      /\ Len(s \o t) = Len(s) + Len(t) /\ DOMAIN (s \o t) = 1 .. Len(s) + Len(t)
      /\ \A i \in 1 .. Len(s) : (s \o t)[i] = s[i]
      /\ \A i \in 1 .. Len(t) : (s \o t)[Len(s) + i] = t[i]
      /\ DOMAIN Append(s, e) = 1 .. Len(s) + 1
      /\ \A i \in 1 .. Len(s) : Append(s, e)[i] = s[i] /\ s[i] \in Id
      /\ Append(s, e)[Len(s) + 1] = e
      /\ DOMAIN <<>> = {}
  OBVIOUS
<1>2. CallsOf(<<>>) = {}
  BY <1>1 DEF CallsOf
<1>3. CallsOf(s) \subseteq Nat
  BY <1>1, PrefixFacts DEF CallsOf
<1>4. CallsOf(Append(s, e)) = CallsOf(s) \cup {e[1]}
  <2>1. 1 .. Len(s) + 1 = (1 .. Len(s)) \cup {Len(s) + 1}
    BY <1>1
  <2> QED
    BY <1>1, <2>1 DEF CallsOf
<1>5. CallsOf(s \o t) = CallsOf(s) \cup CallsOf(t)
  <2>1. \A i \in 1 .. Len(s) + Len(t) : i \in 1 .. Len(s) \/ \E k \in 1 .. Len(t) : i = Len(s) + k
    <3> TAKE i \in 1 .. Len(s) + Len(t)
    <3>1. CASE i <= Len(s)
      BY <1>1, <3>1
    <3>2. CASE i > Len(s)
      <4>1. i - Len(s) \in 1 .. Len(t) /\ i = Len(s) + (i - Len(s))
        BY <1>1, <3>2
      <4> QED
        BY <4>1
    <3> QED
      BY <1>1, <3>1, <3>2
  <2>2. /\ \A i \in 1 .. Len(s) : i \in 1 .. Len(s) + Len(t)
        /\ \A k \in 1 .. Len(t) : Len(s) + k \in 1 .. Len(s) + Len(t)
    BY <1>1
  <2>3. CallsOf(s \o t) \subseteq CallsOf(s) \cup CallsOf(t)
    <3>1. ASSUME NEW i \in 1 .. Len(s) + Len(t)
          PROVE  (s \o t)[i][1] \in CallsOf(s) \cup CallsOf(t)
      <4>1. CASE i \in 1 .. Len(s)
        BY <1>1, <4>1 DEF CallsOf
      <4>2. ASSUME NEW k \in 1 .. Len(t), i = Len(s) + k
            PROVE  (s \o t)[i][1] \in CallsOf(s) \cup CallsOf(t)
        <5>1. (s \o t)[i] = t[k]
          BY <1>1, <4>2
        <5> QED
          BY <1>1, <5>1 DEF CallsOf
      <4> QED
        BY <2>1, <4>1, <4>2
    <3> QED
      BY <1>1, <3>1 DEF CallsOf
  <2>4. CallsOf(s) \cup CallsOf(t) \subseteq CallsOf(s \o t)
    <3>1. ASSUME NEW i \in 1 .. Len(s) PROVE s[i][1] \in CallsOf(s \o t)
      BY <1>1, <2>2 DEF CallsOf
    <3>2. ASSUME NEW i \in 1 .. Len(t) PROVE t[i][1] \in CallsOf(s \o t)
      <4>1. (s \o t)[Len(s) + i] = t[i] /\ Len(s) + i \in DOMAIN (s \o t)
        BY <1>1, <2>2
      <4> QED
        BY <4>1 DEF CallsOf
    <3> QED
      BY <1>1, <3>1, <3>2 DEF CallsOf
  <2> QED
    BY <2>3, <2>4
<1>6. CallsOf(s) = {} => s = <<>>
  <2>1. ASSUME s # <<>> PROVE 1 \in DOMAIN s
    BY <1>1, <2>1
  <2> QED
    BY <2>1 DEF CallsOf
<1> QED
  BY <1>2, <1>3, <1>4, <1>5, <1>6

(* What the end of a transaction makes of the effects.                      *)
LEMMA ConnFacts ==
    ASSUME conn \in Connection
    PROVE  /\ conn.done \in Seq(Id) /\ conn.pend \in Seq(Id) /\ All \in Seq(Id)
           /\ Committed.txn = "none" /\ Committed.done = All /\ Committed.pend = <<>>
           /\ RolledBack.txn = "none" /\ RolledBack.done = conn.done /\ RolledBack.pend = <<>>
           /\ LET C == [Committed EXCEPT !.txn = "user"]
              IN C.txn = "user" /\ C.done = All /\ C.pend = <<>>
           /\ Started("exec").done = conn.done /\ Started("exec").pend = conn.pend
           /\ Started("exec").txn = IF conn.txn = "none" THEN "exec" ELSE conn.txn
BY ConcatFacts DEF Connection, Committed, RolledBack, Started, All

------------------------------------------------------------------------------
(* Order. *)

(* A transaction that is not open has nothing pending.                      *)
IdleConn == conn.txn = "none" => conn.pend = <<>>

LEMMA AllStep ==
    ASSUME ExecInv, IdleConn, [Next]_vars
    PROVE  /\ IdleConn' /\ All' \in Seq(Id)
           /\ \/ All' = All
              \/ All' = conn.done
              \/ StepDone /\ All' = Append(All, <<x.id, x.stmt[2]>>)
<1> USE IdFacts, TypeParts, ConnFacts, ConcatFacts DEF ExecInv
<1>0. conn \in Connection /\ conn.txn \in {"none", "user", "exec"}
  BY DEF Connection
<1>1. CASE conn' = conn
  BY <1>0, <1>1 DEF IdleConn, All
<1>2. CASE conn' = RolledBack
  BY <1>0, <1>2 DEF IdleConn, All
<1>3. CASE conn' \in {Committed, [Committed EXCEPT !.txn = "user"]}
  <2>1. conn'.done = All /\ conn'.pend = <<>> /\ All \in Seq(Id)
    BY <1>0, <1>3
  <2>2. All' = All
    <3>1. All' = conn'.done \o conn'.pend
      BY DEF All
    <3>2. All \o <<>> = All
      BY <2>1
    <3> QED
      BY <2>1, <3>1, <3>2
  <2> QED
    BY <2>1, <2>2 DEF IdleConn
<1>4. CASE conn' = Started("exec")
  BY <1>0, <1>4 DEF IdleConn, All
<1>5. CASE StepDone
  <2>1. pc = "step" /\ x.stmt \in Id /\ x.id \in Nat
    BY <1>5 DEF StepDone, StmtInv, Locals
  <2>2. PICK e \in Id : e = <<x.id, x.stmt[2]>>
    BY <2>1
  <2>3. CASE conn.txn = "none"
    <3>1. conn' = [conn EXCEPT !.done = Append(@, e)]
      BY <1>5, <2>2, <2>3 DEF StepDone
    <3>2. conn'.done = Append(conn.done, e) /\ conn'.pend = <<>> /\ All = conn.done
      BY <1>0, <2>3, <3>1 DEF Connection, IdleConn, All
    <3>3. Append(conn.done, e) \in Seq(Id)
      BY <1>0
    <3>4. All' = Append(All, e)
      BY <3>2, <3>3 DEF All
    <3> QED
      BY <1>5, <2>2, <3>2, <3>3, <3>4 DEF IdleConn
  <2>4. CASE conn.txn # "none"
    <3>1. conn' = [conn EXCEPT !.pend = Append(@, e)]
      BY <1>5, <2>2, <2>4 DEF StepDone
    <3>2. /\ conn'.pend = Append(conn.pend, e) /\ conn'.done = conn.done
          /\ conn'.txn = conn.txn
      BY <1>0, <3>1 DEF Connection
    <3>3. All' = Append(All, e) /\ Append(All, e) \in Seq(Id)
      <4>1. conn.done \in Seq(Id) /\ conn.pend \in Seq(Id) /\ All \in Seq(Id)
        BY <1>0
      <4>2. conn.done \o Append(conn.pend, e) = Append(conn.done \o conn.pend, e)
        <5> HIDE IdFacts, TypeParts, ConnFacts, ConcatFacts DEF ExecInv
        <5> QED
          BY <4>1, ConcatAppend, Zenon
      <4>3. All' = Append(All, e)
        BY <3>2, <4>2 DEF All
      <4> QED
        BY <4>1, <4>3
    <3> QED
      BY <1>5, <2>2, <2>4, <3>2, <3>3 DEF IdleConn
  <2> QED
    BY <2>3, <2>4
<1>6. CASE UNCHANGED vars
  BY <1>1, <1>6 DEF vars
<1>7. ASSUME NEW t \in Texts, NEW c \in BOOLEAN, NEW f \in BOOLEAN, Call(t, c, f)
      PROVE  conn' = conn
  BY <1>7 DEF Call
<1>8. CASE ExecStep
  <2>1. PrepareFirst \/ StepRow \/ StepError \/ Deliver => conn' = conn
    BY DEF PrepareFirst, vars, StepRow, StepError, Deliver
  <2>2. LookAhead => conn' \in {conn, Started("exec")}
    BY DEF LookAhead
  <2>3. StepSoft => conn' \in {conn, RolledBack}
    BY DEF StepSoft
  <2>4. AutoCommit => conn' \in {conn, Committed}
    BY DEF AutoCommit
  <2>5. Fail => conn' \in {conn, RolledBack}
    BY DEF Fail, OwnRolledBack
  <2> QED
    BY <1>1, <1>2, <1>3, <1>4, <1>5, <1>8, <2>1, <2>2, <2>3, <2>4, <2>5 DEF ExecStep
<1>9. UserBegin \/ UserCommit \/ UserRollback =>
          conn' \in {conn, Committed, [Committed EXCEPT !.txn = "user"], RolledBack}
  BY DEF UserBegin, UserCommit, UserRollback
<1> QED
  BY <1>1, <1>2, <1>3, <1>6, <1>7, <1>8, <1>9 DEF Next

(* The effects so far are in order, and the command that a phase is about   *)
(* to run comes after them.                                                 *)
OrderInv ==
    /\ IdleConn
    /\ Ordered(All)
    /\ Above(All, <<x.id + 1, 0>>)
    /\ pc = "prepare" => Above(All, <<x.id, 1>>)
    /\ pc \in {"first", "step"} \/ (pc = "again" /\ x.stmt \in Id) =>
          Above(All, <<x.id, x.stmt[2]>>)
    /\ pc = "step" /\ x.stmt2 \in Id => x.stmt2[2] > x.stmt[2]

(* Every text goes on after its last command, if only by a newline.         *)
Tailed == \A t \in Texts : t.tail

LEMMA NextIds ==
    \A n \in Nat : <<n + 1, 0>> \in Id /\ <<n + 1, 1>> \in Id /\ <<n + 2, 0>> \in Id
BY DEF Id

LEMMA OrderKept ==
    ASSUME ExecInv, OrderInv, ~StepDone, [Next]_vars
    PROVE  /\ IdleConn' /\ Ordered(All')
           /\ \A e \in Id : Above(All, e) => Above(All', e)
<1>1. /\ IdleConn' /\ (All' = All \/ All' = conn.done)
      /\ conn.done \in Seq(Id) /\ conn.pend \in Seq(Id)
  BY AllStep, ConnFacts, TypeParts DEF ExecInv, OrderInv
<1>2. Ordered(conn.done \o conn.pend) => Ordered(conn.done)
  BY <1>1, ConcatFacts
<1>3. \A e \in Id : Above(conn.done \o conn.pend, e) => Above(conn.done, e)
  BY <1>1, ConcatFacts
<1> QED
  BY <1>1, <1>2, <1>3 DEF OrderInv, All

LEMMA CallOrder ==
    ASSUME ExecInv, CacheInv, OrderInv,
           NEW t \in Texts, NEW c \in BOOLEAN, NEW f \in BOOLEAN, Call(t, c, f), [Next]_vars
    PROVE  OrderInv'
<1> USE IdFacts, PrefixFacts
<1>1. /\ pc = "idle" /\ pc' \in {"first", "prepare"}
      /\ x'.id = x.id + 1
      /\ pc' = "first" => prepared[t] # Null /\ x'.stmt = prepared[t]
  BY DEF Call
<1>2. x.id \in Nat /\ All \in Seq(Id)
  BY TypeParts, ConnFacts DEF ExecInv, Locals
<1>3. ~StepDone
  BY <1>1 DEF StepDone
<1>4. IdleConn' /\ Ordered(All') /\ Above(All', <<x.id + 1, 0>>) /\ All' \in Seq(Id)
  <2>1. <<x.id + 1, 0>> \in Id
    BY <1>2, NextIds
  <2> QED
    BY <1>3, <2>1, OrderKept, AllStep DEF OrderInv
<1>5. pc' = "first" => x'.stmt[2] = 1
  BY <1>1 DEF CacheInv, PreparedInv
<1>6. Above(All', <<x.id + 1, 1>>) /\ Above(All', <<x.id + 2, 0>>)
  <2>1. PICK a \in Id : a = <<x.id + 1, 0>>
    BY <1>2, NextIds
  <2>2. PICK b \in Id : b = <<x.id + 1, 1>>
    BY <1>2, NextIds
  <2>3. PICK d \in Id : d = <<x.id + 2, 0>>
    BY <1>2, NextIds
  <2>4. Before(a, b) /\ Before(a, d)
    BY <1>2, <2>1, <2>2, <2>3 DEF Before
  <2> QED
    BY <1>4, <2>1, <2>2, <2>3, <2>4, OrderFacts
<1> QED
  <2>1. Above(All', <<x'.id + 1, 0>>)
    BY <1>1, <1>2, <1>6
  <2>2. pc' = "prepare" => Above(All', <<x'.id, 1>>)
    BY <1>1, <1>6
  <2>3. pc' = "first" => Above(All', <<x'.id, x'.stmt[2]>>)
    BY <1>1, <1>5, <1>6
  <2> QED
    BY <1>1, <1>4, <2>1, <2>2, <2>3 DEF OrderInv

LEMMA LookAheadOrder ==
    ASSUME ExecInv, CacheInv, OrderInv, Tailed, LookAhead, [Next]_vars
    PROVE  OrderInv'
<1> USE IdFacts, PrefixFacts
<1>0. pc \in {"first", "again"} /\ x \in Locals /\ x.id > 0 /\ (x.id = 0 \/ x.text \in Texts)
  BY TypeParts DEF LookAhead, ExecInv
<1>1. /\ pc \in {"first", "again"} /\ x \in Locals /\ x.id \in Nat
      /\ x.cache \in BOOLEAN /\ x.text.n \in Nat /\ x.text \in Texts
  BY <1>0 DEF Locals
<1>2. ~StepDone
  BY <1>1 DEF StepDone
<1>3. IdleConn' /\ Ordered(All') /\ \A e \in Id : Above(All, e) => Above(All', e)
  BY <1>2, OrderKept
<1>4. x'.id = x.id /\ pc' \in {"fail", "step"}
  BY LookAheadCases DEF SameCall
<1>5. ASSUME pc' = "step"
      PROVE  /\ x.stmt \in Id /\ x'.stmt = x.stmt
             /\ x'.stmt2 \in Id => x'.stmt2[2] > x.stmt[2]
  <2>1. x.stmt \in Id /\ x'.stmt = x.stmt
    BY <1>5, LookAheadCases
  <2>2. PICK s \in Ahead : x'.stmt2 = s
    BY <1>5, LookAheadCases
  <2>3. x.stmt[2] \in Nat
    BY <2>1
  <2>4. CASE MoreText
    <3>1. s \in {<<x.id, x.stmt[2] + 1>>, Bad, Null}
      BY <2>2, <2>4 DEF Ahead
    <3>2. s \in Id => s[2] = x.stmt[2] + 1
      BY <1>1, <2>3, <3>1
    <3> QED
      BY <2>1, <2>2, <2>3, <3>2
  <2>5. CASE ~MoreText
    <3>1. s = x.stmt2 /\ x.entry = "hit"
      BY <1>1, <2>2, <2>5 DEF Ahead, MoreText, Tailed
    <3>2. x.stmt2 = Null
      BY <1>1, <3>1 DEF CacheInv, RunningInv
    <3> QED
      BY <2>1, <2>2, <3>1, <3>2
  <2> QED
    BY <2>4, <2>5
<1>6. Above(All', <<x.id + 1, 0>>)
  <2>1. <<x.id + 1, 0>> \in Id
    BY <1>1, NextIds
  <2> QED
    BY <1>3, <2>1 DEF OrderInv
<1>7. ASSUME pc' = "step" PROVE Above(All', <<x'.id, x'.stmt[2]>>)
  <2>1. PICK e \in Id : e = <<x.id, x.stmt[2]>>
    BY <1>1, <1>5, <1>7
  <2>2. Above(All, e)
    BY <1>1, <1>5, <1>7, <2>1 DEF OrderInv
  <2> QED
    BY <1>3, <1>4, <1>5, <1>7, <2>1, <2>2
<1> QED
  BY <1>3, <1>4, <1>5, <1>6, <1>7 DEF OrderInv

LEMMA AdvancedOrder ==
    ASSUME ExecInv, OrderInv, [Next]_vars, pc = "step", NEW l, Advanced(l)
    PROVE  OrderInv'
<1> USE IdFacts, PrefixFacts
<1>1. /\ x \in Locals /\ x.id \in Nat /\ x.stmt \in Id /\ x.stmt[2] \in Nat
      /\ x.stmt2 \in Statement \cup {Bad} /\ All \in Seq(Id) /\ All' \in Seq(Id)
  BY TypeParts, ConnFacts, AllStep DEF Locals, ExecInv, StmtInv, OrderInv
<1>2. /\ pc' = IF x.stmt2 = Null THEN "commit" ELSE "again" 
      /\ x'.id = x.id
      /\ x'.stmt = IF x.stmt2 = Null THEN x.stmt ELSE x.stmt2
  BY <1>1 DEF Advanced, Locals
<1>3. PICK e \in Id : e = <<x.id, x.stmt[2]>>
  BY <1>1
<1>4. Ordered(All) /\ Above(All, e)
  BY <1>3 DEF OrderInv
<1>5. /\ IdleConn' /\ Ordered(All')
      /\ \A f \in Id : Before(e, f) => Above(All', f)
  <2>1. CASE StepDone
    <3>1. IdleConn' /\ (All' = All \/ All' = conn.done \/ All' = Append(All, e))
      BY <1>3, AllStep DEF OrderInv
    <3>2. CASE All' = Append(All, e)
      BY <1>1, <1>4, <3>1, <3>2, OrderFacts
    <3>3. CASE All' = All
      BY <1>1, <1>4, <3>1, <3>3, OrderFacts
    <3>4. CASE All' = conn.done
      <4>1. conn.done \in Seq(Id) /\ conn.pend \in Seq(Id)
        BY TypeParts, ConnFacts DEF ExecInv
      <4>2. Ordered(conn.done) /\ Above(conn.done, e)
        BY <1>4, <4>1, ConcatFacts DEF All
      <4> QED
        BY <1>1, <3>1, <3>4, <4>1, <4>2, OrderFacts
    <3> QED
      BY <3>1, <3>2, <3>3, <3>4
  <2>2. CASE ~StepDone
    <3>1. IdleConn' /\ Ordered(All') /\ Above(All', e)
      BY <1>4, <2>2, OrderKept
    <3> QED
      BY <1>1, <3>1, OrderFacts
  <2> QED
    BY <2>1, <2>2
<1>6. Above(All', <<x.id + 1, 0>>)
  <2>1. PICK f \in Id : f = <<x.id + 1, 0>>
    BY <1>1, NextIds
  <2>2. Before(e, f)
    BY <1>1, <1>3, <2>1 DEF Before
  <2> QED
    BY <1>5, <2>1, <2>2
<1>7. ASSUME pc' = "again", x'.stmt \in Id
      PROVE  Above(All', <<x'.id, x'.stmt[2]>>)
  <2>1. x'.stmt = x.stmt2 /\ x.stmt2 \in Id /\ x.stmt2[2] > x.stmt[2] /\ x.stmt2[2] \in Nat
    BY <1>2, <1>7 DEF OrderInv
  <2>2. PICK f \in Id : f = <<x.id, x.stmt2[2]>>
    BY <1>1, <2>1
  <2>3. Before(e, f)
    BY <1>1, <1>3, <2>1, <2>2 DEF Before
  <2> QED
    BY <1>2, <1>5, <2>1, <2>2, <2>3
<1> QED
  BY <1>2, <1>5, <1>6, <1>7 DEF OrderInv

LEMMA OrderStep == Tailed /\ ExecInv /\ CacheInv /\ OrderInv /\ [Next]_vars => OrderInv'
<1> SUFFICES ASSUME Tailed, ExecInv, CacheInv, OrderInv, [Next]_vars PROVE OrderInv'
  OBVIOUS
<1>1. x.id \in Nat /\ x \in Locals
  BY TypeParts DEF ExecInv, Locals
<1>2. ASSUME ~StepDone, x'.id = x.id, pc' \in {"idle", "commit", "deliver", "fail"}
      PROVE  OrderInv'
  <2>1. <<x.id + 1, 0>> \in Id
    BY <1>1, NextIds
  <2>2. IdleConn' /\ Ordered(All') /\ Above(All', <<x.id + 1, 0>>)
    BY <1>2, <2>1, OrderKept DEF OrderInv
  <2> QED
    BY <1>2, <2>2 DEF OrderInv
<1>3. CASE UNCHANGED vars
  BY <1>3 DEF vars, OrderInv, IdleConn, All
<1>4. CASE Next
  <2>1. ASSUME NEW t \in Texts, NEW c \in BOOLEAN, NEW f \in BOOLEAN, Call(t, c, f)
        PROVE  OrderInv'
    BY <2>1, CallOrder
  <2>2. CASE PrepareFirst
    <3>1. pc = "prepare" /\ ~StepDone
      BY <2>2 DEF PrepareFirst, StepDone
    <3>2. CASE pc' = "first" /\ x' = [x EXCEPT !.stmt = <<x.id, 1>>] /\ conn' = conn
      <4>1. x'.id = x.id /\ x'.stmt = <<x.id, 1>> /\ x'.stmt[2] = 1
        BY <1>1, <3>2, PrefixFacts DEF Locals
      <4> QED
        BY <1>1, <3>1, <3>2, <4>1 DEF OrderInv, IdleConn, All
    <3> QED
      BY <1>2, <1>3, <2>2, <3>1, <3>2 DEF PrepareFirst
  <2>3. CASE LookAhead
    BY <2>3, LookAheadOrder
  <2>4. CASE StepDone \/ StepRow \/ StepSoft
    BY <2>4, AdvancedOrder DEF StepDone, StepRow, StepSoft
  <2>5. CASE StepError \/ AutoCommit \/ Deliver \/ Fail
    <3>1. ~StepDone /\ x'.id = x.id /\ pc' \in {"idle", "commit", "deliver", "fail"}
      BY <2>5 DEF StepError, AutoCommit, Deliver, Fail, StepDone, Advanced
    <3> QED
      BY <1>2, <3>1
  <2>6. CASE UserBegin \/ UserCommit \/ UserRollback
    <3>1. ~StepDone /\ x'.id = x.id /\ pc' = "idle"
      BY <2>6 DEF UserBegin, UserCommit, UserRollback, StepDone
    <3> QED
      BY <1>2, <3>1
  <2> QED
    BY <1>4, <2>1, <2>2, <2>3, <2>4, <2>5, <2>6 DEF Next, ExecStep
<1> QED
  BY <1>3, <1>4

(* Of each exec the commands take effect in the order of the text and at    *)
(* most once, also when some fail and their transaction is rolled back,     *)
(* provided that every text goes on after its last command (without that    *)
(* dbi_Sqlite3_Exec repeats the last command).                              *)
THEOREM ExecInOrder == Tailed => (Spec => []EffectsInOrder)
<1> SUFFICES ASSUME Tailed PROVE Spec => []EffectsInOrder
  OBVIOUS
<1>1. Init => OrderInv
  <2> SUFFICES ASSUME Init PROVE OrderInv
    OBVIOUS
  <2>1. conn.done = <<>> /\ conn.pend = <<>> /\ pc = "idle"
    BY DEF Init
  <2>2. All = <<>> /\ DOMAIN All = {}
    BY <2>1 DEF All
  <2> QED
    BY <2>1, <2>2 DEF OrderInv, IdleConn, Ordered, Above
<1>2. OrderInv => EffectsInOrder
  BY DEF OrderInv, Ordered, Before, All, EffectsInOrder
<1>3. ExecInv /\ CacheInv /\ OrderInv /\ [Next]_vars => OrderInv'
  BY OrderStep
<1> QED
  BY <1>1, <1>2, <1>3, CacheAlways, PTL DEF Spec

------------------------------------------------------------------------------
(* Atomicity, when a failure of a command is SQLITE_ERROR and comes before  *)
(* its first row: those are the failures after which dbi_Sqlite3_Exec goes  *)
(* to its error exit before it commits (sqlite.c:1685; the run exec_soft    *)
(* shows what becomes of the others).                                       *)
NoLateFailure == Soft = {} /\ ~RowFaults

Done    == CallsOf(conn.done)
Pending == CallsOf(conn.pend)

(* Until a call commits, what it has done is pending in its own transaction *)
(* or in the user's, or it is the one command of its text.                  *)
EffectInv ==
    /\ IdleConn
    /\ Done \cup Pending \subseteq 0 .. x.id
    /\ pc \in {"prepare", "first"} => x.id \notin Done \cup Pending /\ ~x.toclose
    /\ conn.txn = "exec" => Pending \subseteq {x.id}
    /\ pc # "idle" => (conn.txn = "user" <=> x.user)
    /\ pc \in {"step", "again", "commit"} /\ x.toclose => conn.txn = "exec"
    /\ pc = "again" \/ (pc = "step" /\ x.stmt2 # Null) => conn.txn # "none"
    /\ x.last # "soft"
    /\ pc # "idle" /\ x.id \in Done => pc \in {"commit", "deliver"} /\ conn.txn = "none"
    /\ pc = "idle" /\ status = "error" /\ ~x.user => x.id \notin Done \cup Pending

LEMMA DoneFacts ==
    ASSUME conn \in Connection
    PROVE  /\ Done \subseteq Nat /\ Pending \subseteq Nat
           /\ Pending = {} <=> conn.pend = <<>>
           /\ conn' = conn \/ conn' = Started("exec") => Done' = Done /\ Pending' = Pending
           /\ conn' = RolledBack => Done' = Done /\ Pending' = {}
           /\ conn' \in {Committed, [Committed EXCEPT !.txn = "user"]} =>
                 Done' = Done \cup Pending /\ Pending' = {}
<1>1. conn.done \in Seq(Id) /\ conn.pend \in Seq(Id)
  BY ConnFacts
<1>2. <<0, 0>> \in Id
  BY IdFacts
<1>3. /\ CallsOf(<<>>) = {} /\ CallsOf(conn.done) \subseteq Nat /\ CallsOf(conn.pend) \subseteq Nat
      /\ CallsOf(conn.done \o conn.pend) = CallsOf(conn.done) \cup CallsOf(conn.pend)
      /\ CallsOf(conn.pend) = {} => conn.pend = <<>>
  BY <1>1, <1>2, CallsFacts
<1>4. conn' = conn \/ conn' = Started("exec") => Done' = Done /\ Pending' = Pending
  BY ConnFacts DEF Done, Pending
<1>5. conn' = RolledBack => Done' = Done /\ Pending' = {}
  BY <1>3, ConnFacts DEF Done, Pending
<1>6. conn' \in {Committed, [Committed EXCEPT !.txn = "user"]} =>
          Done' = Done \cup Pending /\ Pending' = {}
  BY <1>3, ConnFacts DEF Done, Pending, All
<1> QED
  BY <1>3, <1>4, <1>5, <1>6 DEF Done, Pending

LEMMA StepDoneFacts ==
    ASSUME ExecInv, IdleConn, StepDone
    PROVE  /\ conn'.txn = conn.txn
           /\ conn.txn = "none" => /\ Done' = Done \cup {x.id} /\ Pending' = Pending
                                   /\ \E e \in Id : conn'.done = Append(conn.done, e)
           /\ conn.txn # "none" => /\ Done' = Done /\ Pending' = Pending \cup {x.id}
                                   /\ conn'.done = conn.done
<1>1. x.stmt \in Id /\ x.id \in Nat /\ conn \in Connection
  BY TypeParts DEF StepDone, ExecInv, StmtInv, Locals
<1>2. PICK e \in Id : e = <<x.id, x.stmt[2]>> /\ e[1] = x.id
  BY <1>1, IdFacts, PrefixFacts
<1>3. conn.done \in Seq(Id) /\ conn.pend \in Seq(Id)
  BY <1>1, ConnFacts
<1>4. CASE conn.txn = "none"
  <2>1. conn' = [conn EXCEPT !.done = Append(@, e)]
    BY <1>2, <1>4 DEF StepDone
  <2>2. conn'.txn = conn.txn /\ conn'.pend = conn.pend /\ conn'.done = Append(conn.done, e)
    BY <1>1, <2>1 DEF Connection
  <2>3. CallsOf(Append(conn.done, e)) = CallsOf(conn.done) \cup {x.id}
    BY <1>2, <1>3, CallsFacts
  <2> QED
    BY <1>4, <2>2, <2>3 DEF Done, Pending
<1>5. CASE conn.txn # "none"
  <2>1. conn' = [conn EXCEPT !.pend = Append(@, e)]
    BY <1>2, <1>5 DEF StepDone
  <2>2. conn'.txn = conn.txn /\ conn'.done = conn.done /\ conn'.pend = Append(conn.pend, e)
    BY <1>1, <2>1 DEF Connection
  <2>3. CallsOf(Append(conn.pend, e)) = CallsOf(conn.pend) \cup {x.id}
    BY <1>2, <1>3, CallsFacts
  <2> QED
    BY <1>5, <2>2, <2>3 DEF Done, Pending
<1> QED
  BY <1>4, <1>5

LEMMA CallEffect ==
    ASSUME ExecInv, EffectInv, IdleConn',
           NEW t \in Texts, NEW c \in BOOLEAN, NEW f \in BOOLEAN, Call(t, c, f)
    PROVE  EffectInv'
<1>1. /\ pc = "idle" /\ pc' \in {"first", "prepare"} /\ conn' = conn
      /\ x'.id = x.id + 1 /\ x'.last = "done" /\ ~x'.toclose
  BY DEF Call
<1>2. x'.user <=> conn.txn # "none"
  BY DEF Call
<1>3. x.id \in Nat /\ conn \in Connection /\ conn.txn \in {"none", "user", "exec"}
  BY TypeParts DEF ExecInv, Locals, Connection
<1>4. Done' = Done /\ Pending' = Pending /\ conn.txn # "exec"
  BY <1>1, <1>3, DoneFacts DEF ExecInv, OwnInv
<1>5. x.id + 1 \notin Done \cup Pending
  BY <1>3 DEF EffectInv
<1> QED
  BY <1>1, <1>2, <1>3, <1>4, <1>5 DEF EffectInv

LEMMA LookAheadEffect ==
    ASSUME ExecInv, EffectInv, IdleConn', LookAhead
    PROVE  EffectInv'
<1>0. /\ pc \in {"first", "again"} /\ conn \in Connection /\ x \in Locals
      /\ conn.txn \in {"none", "user", "exec"} /\ x.id \in Nat
      /\ pc = "first" => conn.txn # "exec"
  BY TypeParts DEF LookAhead, ExecInv, OwnInv, Locals, Connection
<1>1. CASE pc' = "fail" /\ x' = x /\ conn' = conn
  BY <1>0, <1>1, DoneFacts DEF EffectInv
<1>2. CASE pc' = "fail" /\ SameCall /\ x'.last = x.last /\ conn' = conn
  BY <1>0, <1>2, DoneFacts DEF EffectInv, SameCall
<1>3. ASSUME NEW s \in Ahead, SameCall, x'.last = x.last, pc' = "step", x'.stmt2 = s,
             x'.toclose = (x.toclose \/ (pc = "first" /\ s # Null /\ conn.txn = "none")),
             conn' = IF pc = "first" /\ s # Null THEN Started("exec") ELSE conn
      PROVE  EffectInv'
  <2>1. Done' = Done /\ Pending' = Pending
    BY <1>0, <1>3, DoneFacts
  <2>2. conn'.txn = IF pc = "first" /\ s # Null /\ conn.txn = "none" THEN "exec" ELSE conn.txn
    BY <1>0, <1>3, ConnFacts
  <2>3. x.id \notin Done
    BY <1>0 DEF EffectInv
  <2>4. conn'.txn = "exec" => Pending \subseteq {x.id}
    <3>1. CASE conn.txn = "exec"
      BY <3>1 DEF EffectInv
    <3>2. CASE conn.txn = "none"
      <4>1. Pending = {}
        BY <1>0, <3>2, DoneFacts DEF EffectInv, IdleConn
      <4> QED
        BY <4>1
    <3> QED
      BY <2>2, <3>1, <3>2
  <2>5. x'.toclose => conn'.txn = "exec"
    BY <1>0, <1>3, <2>2 DEF EffectInv
  <2>6. x'.stmt2 # Null => conn'.txn # "none"
    BY <1>0, <1>3, <2>2 DEF EffectInv
  <2>7. conn'.txn = "user" <=> x'.user
    BY <1>0, <1>3, <2>2 DEF EffectInv, SameCall
  <2> QED
    BY <1>0, <1>3, <2>1, <2>3, <2>4, <2>5, <2>6, <2>7 DEF EffectInv, SameCall
<1> QED
  BY <1>1, <1>2, <1>3, LookAheadCases

LEMMA AdvancedEffect ==
    ASSUME ExecInv, EffectInv, IdleConn', StepDone \/ StepRow
    PROVE  EffectInv'
<1>0. /\ pc = "step" /\ conn \in Connection /\ x \in Locals /\ x.id \in Nat
      /\ conn.txn \in {"none", "user", "exec"}
  BY TypeParts DEF StepDone, StepRow, ExecInv, Locals, Connection
<1>1. /\ pc' = IF x.stmt2 = Null THEN "commit" ELSE "again"
      /\ x'.last # "soft" /\ x'.id = x.id /\ x'.user = x.user /\ x'.toclose = x.toclose
  BY <1>0 DEF StepDone, StepRow, Advanced, Locals
<1>2. CASE StepRow
  <2>1. conn' = conn /\ Done' = Done /\ Pending' = Pending
    BY <1>0, <1>2, DoneFacts DEF StepRow
  <2> QED
    BY <1>0, <1>1, <2>1 DEF EffectInv
<1>3. CASE StepDone
  <2>1. conn'.txn = conn.txn
    BY <1>3, StepDoneFacts DEF EffectInv
  <2>2. CASE conn.txn = "none"
    <3>1. Done' = Done \cup {x.id} /\ Pending' = Pending
      BY <1>3, <2>2, StepDoneFacts DEF EffectInv
    <3>2. x.stmt2 = Null /\ pc' = "commit" /\ ~x.toclose
      BY <1>0, <1>1, <2>2 DEF EffectInv
    <3> QED
      BY <1>0, <1>1, <2>1, <2>2, <3>1, <3>2 DEF EffectInv
  <2>3. CASE conn.txn # "none"
    <3>1. Done' = Done /\ Pending' = Pending \cup {x.id}
      BY <1>3, <2>3, StepDoneFacts DEF EffectInv
    <3> QED
      BY <1>0, <1>1, <2>1, <2>3, <3>1 DEF EffectInv
  <2> QED
    BY <2>2, <2>3
<1> QED
  BY <1>2, <1>3

LEMMA EndEffect ==
    ASSUME NoLateFailure, ExecInv, EffectInv, IdleConn', StepError \/ AutoCommit \/ Deliver \/ Fail
    PROVE  EffectInv'
<1>0. /\ conn \in Connection /\ x \in Locals /\ x.id \in Nat /\ x' = x
      /\ conn.txn \in {"none", "user", "exec"}
  BY TypeParts DEF ExecInv, Locals, Connection, StepError, AutoCommit, Deliver, Fail
<1>1. CASE StepError
  <2>1. pc = "step" /\ pc' = "fail" /\ conn' = conn /\ Done' = Done /\ Pending' = Pending
    BY <1>0, <1>1, DoneFacts DEF StepError
  <2> QED
    BY <1>0, <2>1 DEF EffectInv
<1>2. CASE AutoCommit
  <2>1. pc = "commit" /\ pc' \in {"deliver", "fail"}
    BY <1>2 DEF AutoCommit
  <2>2. CASE conn' = conn /\ (pc' = "deliver" \/ conn.txn = "exec")
    <3>1. Done' = Done /\ Pending' = Pending
      BY <1>0, <2>2, DoneFacts
    <3> QED
      BY <1>0, <2>1, <2>2, <3>1 DEF EffectInv
  <2>3. CASE conn' = Committed /\ x.toclose /\ pc' = "deliver"
    <3>1. Done' = Done \cup Pending /\ Pending' = {} /\ conn'.txn = "none"
      BY <1>0, <2>3, DoneFacts, ConnFacts
    <3>2. conn.txn = "exec"
      BY <2>1, <2>3 DEF EffectInv
    <3> QED
      BY <1>0, <2>1, <2>3, <3>1, <3>2 DEF EffectInv
  <2> QED
    BY <1>2, <2>2, <2>3 DEF AutoCommit, EffectInv
<1>3. CASE Deliver
  <2>1. /\ pc = "deliver" /\ pc' = "idle" /\ status' = "ok" /\ conn' = conn
        /\ Done' = Done /\ Pending' = Pending
    BY <1>0, <1>3, DoneFacts DEF Deliver, NoLateFailure
  <2> QED
    BY <1>0, <2>1 DEF EffectInv
<1>4. CASE Fail
  <2>1. pc = "fail" /\ pc' = "idle" /\ status' = "error"
    BY <1>4 DEF Fail
  <2>2. x.id \notin Done
    BY <2>1 DEF EffectInv
  <2>3. CASE x.toclose
    <3>1. conn' = RolledBack
      BY <1>4, <2>3 DEF Fail, OwnRolledBack
    <3>2. Done' = Done /\ Pending' = {} /\ conn'.txn = "none"
      BY <1>0, <3>1, DoneFacts, ConnFacts
    <3> QED
      BY <1>0, <2>1, <2>2, <3>2 DEF EffectInv
  <2>4. CASE ~x.toclose
    <3>1. conn' = conn /\ Done' = Done /\ Pending' = Pending
      BY <1>0, <1>4, <2>4, DoneFacts DEF Fail, OwnRolledBack
    <3>2. conn.txn # "exec"
      BY <2>4 DEF ExecInv, OwnInv
    <3>3. ~x.user => Pending = {}
      <4>1. ~x.user => conn.txn = "none"
        BY <1>0, <2>1, <3>2 DEF EffectInv
      <4> QED
        BY <1>0, <4>1, DoneFacts DEF EffectInv, IdleConn
    <3> QED
      BY <1>0, <2>1, <2>2, <3>1, <3>2, <3>3 DEF EffectInv
  <2> QED
    BY <2>3, <2>4
<1> QED
  BY <1>1, <1>2, <1>3, <1>4

LEMMA EffectStep == NoLateFailure /\ ExecInv /\ EffectInv /\ [Next]_vars => EffectInv'
<1> SUFFICES ASSUME NoLateFailure, ExecInv, EffectInv, [Next]_vars PROVE EffectInv'
  OBVIOUS
<1>0. IdleConn' /\ conn \in Connection /\ x \in Locals /\ x.id \in Nat
  BY AllStep, TypeParts DEF ExecInv, EffectInv, Locals
<1>1. CASE UNCHANGED vars
  BY <1>1 DEF vars, EffectInv, IdleConn, Done, Pending
<1>2. CASE Next
  <2>1. ASSUME NEW t \in Texts, NEW c \in BOOLEAN, NEW f \in BOOLEAN, Call(t, c, f)
        PROVE  EffectInv'
    BY <1>0, <2>1, CallEffect
  <2>2. CASE PrepareFirst
    <3>1. pc = "prepare" /\ (UNCHANGED vars \/ (conn' = conn /\ pc' \in {"first", "fail"}))
      BY <2>2 DEF PrepareFirst
    <3>2. /\ x'.id = x.id /\ x'.user = x.user /\ x'.toclose = x.toclose /\ x'.last = x.last
      BY <1>0, <2>2 DEF PrepareFirst, Locals, vars
    <3>3. conn' = conn /\ Done' = Done /\ Pending' = Pending
      BY <1>0, <3>1, DoneFacts DEF vars
    <3> QED
      BY <1>0, <1>1, <3>1, <3>2, <3>3 DEF EffectInv
  <2>3. CASE LookAhead
    BY <1>0, <2>3, LookAheadEffect
  <2>4. CASE StepDone \/ StepRow
    BY <1>0, <2>4, AdvancedEffect
  <2>5. CASE StepError \/ AutoCommit \/ Deliver \/ Fail
    BY <1>0, <2>5, EndEffect
  <2>6. ~StepSoft
    BY DEF StepSoft, NoLateFailure
  <2>7. CASE UserBegin \/ UserCommit \/ UserRollback
    <3>1. /\ pc = "idle" /\ pc' = "idle" /\ x' = x /\ status' = status /\ conn.txn # "exec"
      BY <2>7 DEF UserBegin, UserCommit, UserRollback, ExecInv, OwnInv
    <3>2. conn' \in {conn, Committed, [Committed EXCEPT !.txn = "user"], RolledBack}
      BY <2>7 DEF UserBegin, UserCommit, UserRollback
    <3>3. conn'.txn # "exec" /\ Done' \cup Pending' \subseteq Done \cup Pending
      BY <1>0, <3>1, <3>2, DoneFacts, ConnFacts
    <3> QED
      BY <1>0, <3>1, <3>3 DEF EffectInv
  <2> QED
    BY <1>2, <2>1, <2>2, <2>3, <2>4, <2>5, <2>6, <2>7 DEF Next, ExecStep
<1> QED
  BY <1>1, <1>2

LEMMA EffectAlways == NoLateFailure => (Spec => [](ExecInv /\ EffectInv))
<1> SUFFICES ASSUME NoLateFailure PROVE Spec => [](ExecInv /\ EffectInv)
  OBVIOUS
<1>1. Init => EffectInv
  <2> SUFFICES ASSUME Init PROVE EffectInv
    OBVIOUS
  <2>1. /\ conn.done = <<>> /\ conn.pend = <<>> /\ conn.txn = "none"
        /\ pc = "idle" /\ x.last = "done" /\ status = "none"
    BY DEF Init, NoCall
  <2>2. Done = {} /\ Pending = {}
    <3>1. <<>> \in Seq(Id) /\ <<0, 0>> \in Id
      BY IdFacts
    <3> QED
      BY <2>1, <3>1, CallsFacts DEF Done, Pending
  <2> QED
    BY <2>1, <2>2 DEF EffectInv, IdleConn
<1>2. ExecInv /\ EffectInv /\ [Next]_vars => EffectInv'
  BY EffectStep
<1> QED
  BY <1>1, <1>2, ExecAlways, PTL DEF Spec

(* An exec that reports an error outside the user's transaction has left    *)
(* nothing in the database, whichever command failed and also when the      *)
(* commit was refused, if no failure comes late.                            *)
THEOREM ExecFailedUndone == NoLateFailure => (Spec => []FailedExecUndone)
<1> SUFFICES ASSUME NoLateFailure PROVE Spec => []FailedExecUndone
  OBVIOUS
<1>1. EffectInv => FailedExecUndone
  BY DEF EffectInv, FailedExecUndone, Done, CallsOf
<1> QED
  BY <1>1, EffectAlways, PTL

------------------------------------------------------------------------------
(* The refinement of AtomicExec. *)

Published == pc # "idle" /\ x.id \in Done

LEMMA ExtendFacts ==
    ASSUME NEW s \in Seq(Id), NEW t \in Seq(Id), NEW e \in Id
    PROVE  /\ Len(Append(s, e)) > Len(s) /\ SubSeq(Append(s, e), 1, Len(s)) = s
           /\ t # <<>> => Len(s \o t) > Len(s) /\ SubSeq(s \o t, 1, Len(s)) = s
           /\ s \o <<>> = s
<1>1. Len(Append(s, e)) > Len(s) /\ SubSeq(Append(s, e), 1, Len(s)) = s
  BY OneMore
<1>2. SubSeq(s \o t, 1, Len(s)) = s
  <2>1. /\ s \o t \in Seq(Id) /\ Len(s \o t) = Len(s) + Len(t) /\ Len(s) \in Nat /\ Len(t) \in Nat
        /\ \A i \in 1 .. Len(s) : (s \o t)[i] = s[i]
    OBVIOUS
  <2> QED
    BY <2>1
<1>3. t # <<>> => Len(s \o t) > Len(s)
  OBVIOUS
<1> QED
  BY <1>1, <1>2, <1>3

LEMMA PublishedIs ==
    (pc # "idle" /\ \E i \in DOMAIN conn.done : conn.done[i][1] = x.id) = Published
BY DEF Published, Done, CallsOf

(* A step of the object is a step of AtomicExec, or none.                   *)
AtomicStep ==
    LET idle == pc = "idle"
        running == pc' # "idle"
        same == conn'.done = conn.done
    IN \/ (idle <=> ~running) /\ same /\ (Published' <=> Published) /\ status' = status
       \/ idle /\ running /\ same /\ ~Published /\ ~Published' /\ status' = status
       \/ ~idle /\ running /\ Atomic!Extends /\ ~Published /\ Published' /\ status' = status
       \/ ~idle /\ ~running /\ same /\ ~Published' /\ status' = "ok"
       \/ ~idle /\ ~running /\ same /\ ~Published /\ ~Published' /\ status' = "error"
       \/ idle /\ ~running /\ Atomic!Extends /\ ~Published /\ ~Published' /\ status' = status

LEMMA CommittedExtends ==
    ASSUME conn \in Connection, conn'.done = All
    PROVE  IF conn.pend = <<>> THEN conn'.done = conn.done ELSE Atomic!Extends
<1>1. conn.done \in Seq(Id) /\ conn.pend \in Seq(Id) /\ <<0, 0>> \in Id
  BY ConnFacts, IdFacts
<1>2. CASE conn.pend = <<>>
  BY <1>1, <1>2, ExtendFacts DEF All
<1>3. CASE conn.pend # <<>>
  <2>1. Len(conn.done \o conn.pend) > Len(conn.done) /\ SubSeq(conn.done \o conn.pend, 1, Len(conn.done)) = conn.done
    <3> HIDE <1>3
    <3>1. conn.pend # <<>> => Len(conn.done \o conn.pend) > Len(conn.done) /\ SubSeq(conn.done \o conn.pend, 1, Len(conn.done)) = conn.done
      BY <1>1, ExtendFacts, Zenon
    <3> QED
      BY <1>3, <3>1
  <2>2. conn'.done = conn.done \o conn.pend
    BY DEF All
  <2>3. Len(conn'.done) > Len(conn.done) /\ SubSeq(conn'.done, 1, Len(conn.done)) = conn.done
    <3> HIDE <1>1, <1>3
    <3> QED
      BY <2>1, <2>2, Zenon
  <2> QED
    BY <1>3, <2>3 DEF Atomic!Extends
<1> QED
  BY <1>2, <1>3

LEMMA SimulatesNext == NoLateFailure /\ ExecInv /\ EffectInv /\ EffectInv' /\ [Next]_vars => AtomicStep
<1> SUFFICES ASSUME NoLateFailure, ExecInv, EffectInv, EffectInv', [Next]_vars PROVE AtomicStep
  OBVIOUS
<1>0. conn \in Connection /\ x \in Locals /\ x.id \in Nat
  BY TypeParts DEF ExecInv, Locals
<1>1. CASE UNCHANGED vars
  BY <1>1 DEF vars, AtomicStep, Published, Done
<1>2. ASSUME pc # "idle", pc' # "idle", x'.id = x.id, status' = status, conn'.done = conn.done
      PROVE  AtomicStep
  BY <1>2 DEF AtomicStep, Published, Done
<1>3. CASE Next
  <2>1. ASSUME NEW t \in Texts, NEW c \in BOOLEAN, NEW f \in BOOLEAN, Call(t, c, f)
        PROVE  AtomicStep
    <3>1. pc = "idle" /\ pc' \in {"first", "prepare"} /\ conn' = conn /\ status' = status
      BY <2>1 DEF Call
    <3>2. ~Published /\ ~Published'
      BY <3>1 DEF Published, EffectInv
    <3> QED
      BY <3>1, <3>2 DEF AtomicStep
  <2>2. CASE PrepareFirst
    <3>1. CASE ~UNCHANGED vars
      <4>1. /\ pc = "prepare" /\ pc' \in {"first", "fail"} /\ x'.id = x.id
            /\ status' = status /\ conn' = conn
        BY <1>0, <2>2, <3>1 DEF PrepareFirst, Locals
      <4> QED
        BY <1>2, <4>1
    <3> QED
      BY <1>1, <3>1
  <2>3. CASE LookAhead
    <3>1. /\ pc \in {"first", "again"} /\ pc' \in {"fail", "step"} /\ x'.id = x.id /\ status' = status
          /\ conn' \in {conn, Started("exec")}
      BY <2>3, LookAheadCases DEF LookAhead, SameCall
    <3>2. conn'.done = conn.done
      BY <1>0, <3>1, ConnFacts
    <3> QED
      BY <1>2, <3>1, <3>2
  <2>4. CASE StepRow \/ StepError
    <3>1. /\ pc = "step" /\ pc' \in {"commit", "again", "fail"} /\ x'.id = x.id
          /\ status' = status /\ conn' = conn
      BY <1>0, <2>4 DEF StepRow, StepError, Advanced, Locals
    <3> QED
      BY <1>2, <3>1
  <2>5. CASE StepDone
    <3>1. pc = "step" /\ pc' \in {"commit", "again"} /\ x'.id = x.id /\ status' = status
      BY <1>0, <2>5 DEF StepDone, Advanced, Locals
    <3>2. CASE conn.txn # "none"
      BY <1>2, <2>5, <3>1, <3>2, StepDoneFacts DEF EffectInv
    <3>3. CASE conn.txn = "none"
      <4>1. PICK e \in Id : conn'.done = Append(conn.done, e) /\ Done' = Done \cup {x.id}
        BY <2>5, <3>3, StepDoneFacts DEF EffectInv
      <4>2. Atomic!Extends
        BY <1>0, <4>1, ConnFacts, ExtendFacts DEF Atomic!Extends
      <4>3. ~Published /\ Published'
        BY <3>1, <4>1 DEF Published, EffectInv
      <4> QED
        BY <3>1, <4>2, <4>3 DEF AtomicStep
    <3> QED
      BY <3>2, <3>3
  <2>6. CASE AutoCommit
    <3>1. pc = "commit" /\ pc' \in {"deliver", "fail"} /\ x' = x /\ status' = status
      BY <2>6 DEF AutoCommit
    <3>2. CASE conn' = conn
      BY <1>2, <3>1, <3>2
    <3>3. CASE conn' = Committed /\ x.toclose
      <4>1. conn.txn = "exec" /\ x.id \notin Done /\ conn'.done = All
        BY <1>0, <3>1, <3>3, ConnFacts DEF EffectInv
      <4>2. CASE conn.pend = <<>>
        BY <1>0, <1>2, <3>1, <4>1, <4>2, CommittedExtends
      <4>3. CASE conn.pend # <<>>
        <5>1. Pending = {x.id}
          BY <1>0, <4>1, <4>3, DoneFacts DEF EffectInv
        <5>2. Done' = Done \cup Pending
          BY <1>0, <3>3, DoneFacts
        <5>3. ~Published /\ Published'
          BY <3>1, <4>1, <5>1, <5>2 DEF Published
        <5>4. Atomic!Extends
          BY <1>0, <4>1, <4>3, CommittedExtends
        <5> QED
          BY <3>1, <5>3, <5>4 DEF AtomicStep
      <4> QED
        BY <4>2, <4>3
    <3> QED
      BY <2>6, <3>2, <3>3 DEF AutoCommit
  <2>7. CASE Deliver
    <3>1. pc = "deliver" /\ pc' = "idle" /\ status' = "ok" /\ conn' = conn
      BY <2>7 DEF Deliver, NoLateFailure
    <3>2. ~Published'
      BY <3>1 DEF Published
    <3> QED
      BY <3>1, <3>2 DEF AtomicStep
  <2>8. CASE Fail
    <3>1. pc = "fail" /\ pc' = "idle" /\ status' = "error"
      BY <2>8 DEF Fail
    <3>2. conn'.done = conn.done
      BY <1>0, <2>8, ConnFacts DEF Fail, OwnRolledBack
    <3>3. ~Published /\ ~Published'
      BY <3>1 DEF Published, EffectInv
    <3> QED
      BY <3>1, <3>2, <3>3 DEF AtomicStep
  <2>9. CASE UserBegin \/ UserCommit \/ UserRollback
    <3>1. pc = "idle" /\ pc' = "idle" /\ status' = status
      BY <2>9 DEF UserBegin, UserCommit, UserRollback
    <3>2. conn' \in {conn, Committed, [Committed EXCEPT !.txn = "user"], RolledBack}
      BY <2>9 DEF UserBegin, UserCommit, UserRollback
    <3>3. conn'.done = conn.done \/ Atomic!Extends
      <4>1. conn'.done = conn.done \/ conn'.done = All
        BY <1>0, <3>2, ConnFacts
      <4> QED
        BY <1>0, <4>1, CommittedExtends
    <3>4. ~Published /\ ~Published'
      BY <3>1 DEF Published
    <3> QED
      BY <3>1, <3>3, <3>4 DEF AtomicStep
  <2>10. ~StepSoft
    BY DEF StepSoft, NoLateFailure
  <2> QED
    BY <1>3, <2>1, <2>2, <2>3, <2>4, <2>5, <2>6, <2>7, <2>8, <2>9, <2>10 DEF Next, ExecStep
<1> QED
  BY <1>1, <1>3

(* The steps of AtomicExec, with its variables replaced.                    *)
LEMMA AtomicStepIs == AtomicStep => [Atomic!Next]_(Atomic!vars)
<1> DEFINE phase == IF pc = "idle" THEN "idle" ELSE "running"
           published == pc # "idle" /\ \E i \in DOMAIN conn.done : conn.done[i][1] = x.id
<1>1. published <=> Published
  BY PublishedIs
<1>2. published' <=> Published'
  BY <1>1, PTL
<1>3. published \in BOOLEAN /\ published' \in BOOLEAN
  OBVIOUS
<1>4. /\ pc = "idle" => phase = "idle"
      /\ pc # "idle" => phase = "running"
      /\ pc' = "idle" => phase' = "idle"
      /\ pc' # "idle" => phase' = "running"
  OBVIOUS
<1>5. (pc = "idle")' <=> pc' = "idle"
  OBVIOUS
<1> SUFFICES ASSUME AtomicStep PROVE [Atomic!Next]_(Atomic!vars)
  OBVIOUS
<1>6. CASE (pc = "idle" <=> ~(pc' # "idle")) /\ conn'.done = conn.done
           /\ (Published' <=> Published) /\ status' = status
  <2>1. published' = published
    BY <1>1, <1>2, <1>3, <1>6
  <2>2. phase' = phase
    BY <1>4, <1>6
  <2>3. UNCHANGED <<phase, conn.done, published, status>>
    BY <1>6, <2>1, <2>2
  <2> QED
    BY <2>3 DEF Atomic!vars
<1>7. CASE pc = "idle" /\ pc' # "idle" /\ conn'.done = conn.done
           /\ ~Published /\ ~Published' /\ status' = status
  <2>1. published' = published
    BY <1>1, <1>2, <1>3, <1>7
  <2>2. phase = "idle" /\ phase' = "running" /\ UNCHANGED <<conn.done, published, status>>
    BY <1>4, <1>7, <2>1
  <2> QED
    BY <2>2 DEF Atomic!Next, Atomic!Start
<1>8. CASE pc # "idle" /\ pc' # "idle" /\ Atomic!Extends
           /\ ~Published /\ Published' /\ status' = status
  <2>1. ~published /\ published' = TRUE
    BY <1>1, <1>2, <1>3, <1>8
  <2>2. phase = "running" /\ UNCHANGED <<phase, status>>
    BY <1>4, <1>8
  <2> QED
    BY <1>8, <2>1, <2>2 DEF Atomic!Next, Atomic!Publish
<1>9. CASE pc # "idle" /\ pc' = "idle" /\ conn'.done = conn.done
           /\ ~Published' /\ status' = "ok"
  <2>1. published' = FALSE
    BY <1>1, <1>2, <1>3, <1>9
  <2>2. phase = "running" /\ phase' = "idle" /\ UNCHANGED conn.done
    BY <1>4, <1>9
  <2> QED
    BY <1>9, <2>1, <2>2 DEF Atomic!Next, Atomic!ReturnOk
<1>10. CASE pc # "idle" /\ pc' = "idle" /\ conn'.done = conn.done
            /\ ~Published /\ ~Published' /\ status' = "error"
  <2>1. ~published /\ published' = published
    BY <1>1, <1>2, <1>3, <1>10
  <2>2. phase = "running" /\ phase' = "idle" /\ UNCHANGED <<conn.done, published>>
    BY <1>4, <1>10, <2>1
  <2> QED
    BY <1>10, <2>1, <2>2 DEF Atomic!Next, Atomic!ReturnError
<1>11. CASE pc = "idle" /\ pc' = "idle" /\ Atomic!Extends
            /\ ~Published /\ ~Published' /\ status' = status
  <2>1. published' = published
    BY <1>1, <1>2, <1>3, <1>11
  <2>2. phase = "idle" /\ UNCHANGED <<phase, published, status>>
    BY <1>4, <1>11, <2>1
  <2> QED
    BY <1>11, <2>2 DEF Atomic!Next, Atomic!UserCommit
<1> QED
  BY <1>6, <1>7, <1>8, <1>9, <1>10, <1>11 DEF AtomicStep

(* exec implements the atomic exec of the manual: a call outside an         *)
(* explicit transaction publishes the effects of all its commands in one    *)
(* step, or reports an error and publishes none, if no failure comes late.  *)
THEOREM ExecRefinesAtomic == NoLateFailure => (Spec => ImplementsAtomicExec)
<1> SUFFICES ASSUME NoLateFailure PROVE Spec => ImplementsAtomicExec
  OBVIOUS
<1>1. Init => Atomic!Init
  BY DEF Init, Atomic!Init
<1>2. AtomicStep => [Atomic!Next]_(Atomic!vars)
  BY AtomicStepIs
<1>3. ExecInv /\ EffectInv /\ EffectInv' /\ [Next]_vars => [Atomic!Next]_(Atomic!vars)
  BY <1>2, SimulatesNext
<1> QED
  BY <1>1, <1>3, EffectAlways, PTL DEF Spec, ImplementsAtomicExec, Atomic!Spec
================================================================================
