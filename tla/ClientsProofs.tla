------------------------------ MODULE ClientsProofs ------------------------------
(****************************************************************************)
(* What the four backends of Clients have in common holds for any number of *)
(* objects, texts, connections, writes and sizes of results.                *)
(*                                                                          *)
(* The tree of clones is the same in all four, so what a method does to it  *)
(* is stated once, of the records S, the connections D that they have and   *)
(* the state C of those: a method leaves the families alone, changes or     *)
(* ends a root, attaches a clone or detaches one.                           *)
(*                                                                          *)
(* Then come the steps: what the user has done is kept, a text is executed  *)
(* as a whole, and fetch is that of the manual.                             *)
(****************************************************************************)
EXTENDS Clients, FiniteSetTheorems, WellFoundedInduction, TLAPS

Server == [link : {"unused", "open", "closed"}, txn : {"none", "open", "aborted"},
           stuck : BOOLEAN, pending : SUBSET Work, durable : SUBSET Work]
Reply  == [to : Obj \cup {NoObj}, of : Methods, is : Endings, asked : -2 .. MaxLines,
           n : 0 .. MaxLines, res : 0 .. 2, ids : SUBSET Work, unsent : SUBSET Work]

(* CloneTree and what it needs: an object without a connection has no       *)
(* clones, and only one family has a connection.                            *)
Kin(S, o) == IF S[o].parent # NoObj THEN S[o].parent ELSE o

Family(S, D, C) ==
    /\ \A o \in Obj : /\ S[o].clones \subseteq Obj
                      /\ S[o].parent \in Obj \cup {NoObj}
                      /\ D[o] \in Conn \cup {0}
    /\ \A o, p \in Obj : p \in S[o].clones <=> (S[p].alive /\ S[p].parent = o)
    /\ \A p \in Obj : S[p].alive /\ S[p].parent # NoObj =>
          /\ S[S[p].parent].alive /\ S[S[p].parent].parent = NoObj
          /\ D[p] = D[S[p].parent]
    /\ \A o \in Obj : ~S[o].alive => D[o] = 0 /\ S[o].parent = NoObj
    /\ \A o \in Obj : D[o] = 0 => S[o].clones = {}
    /\ \A o \in Obj : D[o] # 0 => C[D[o]].link # "unused"
    /\ \A o, p \in Obj : D[o] # 0 /\ D[o] = D[p] => Kin(S, o) = Kin(S, p)

-----------------------------------------------------------------------------------
(* The server. *)

LEMMA LinesFacts == MaxLines \in Nat /\ 0 \in 0 .. MaxLines
<1>1. MaxLines \in Sizes /\ \A m \in Sizes : m <= MaxLines
  BY ServerAssumption DEF MaxLines
<1> QED
  BY <1>1, ServerAssumption

LEMMA RowsFacts == \A t : Rows(t) \subseteq 0 .. MaxLines /\ {0} \subseteq 0 .. MaxLines
<1>1. \A m \in Sizes : m <= MaxLines
  BY ServerAssumption DEF MaxLines
<1> QED
  BY <1>1, LinesFacts, ServerAssumption DEF Rows

LEMMA WritesFacts ==
    \A s, t, n : Writes(s, t, n) \subseteq Work /\ Writes(s, t, n) \cap s.pending = {}
BY DEF Writes, Lowest, Unused

(* What the server makes of a connection. *)
LEMMA SilentFacts == Silent \in Server /\ Silent.txn = "none"
BY DEF Silent, Server

LEMMA ServerFacts ==
    ASSUME NEW s \in Server
    PROVE  /\ Linked(s) \in Server /\ Linked(s).link = "open"
           /\ Linked(s).txn = s.txn /\ Linked(s).pending = s.pending
           /\ Begun(s) \in Server /\ Begun(s).link = s.link /\ Begun(s).txn = "open"
           /\ Begun(s).pending = s.pending /\ Begun(s).durable = s.durable
           /\ Committed(s) \in Server /\ Committed(s).link = s.link
           /\ Committed(s).txn = "none" /\ Committed(s).pending = {}
           /\ Committed(s).durable = s.durable \cup s.pending
           /\ RolledBack(s) \in Server /\ RolledBack(s).link = s.link
           /\ RolledBack(s).txn = "none" /\ RolledBack(s).pending = {}
           /\ RolledBack(s).durable = s.durable
           /\ HungUp(s) \in Server /\ HungUp(s).link = "closed" /\ HungUp(s).txn = "none"
<1>1. /\ Linked(s) \in Server /\ Linked(s).link = "open"
      /\ Linked(s).txn = s.txn /\ Linked(s).pending = s.pending
  BY DEF Server, Linked
<1>2. /\ Begun(s) \in Server /\ Begun(s).link = s.link /\ Begun(s).txn = "open"
      /\ Begun(s).pending = s.pending /\ Begun(s).durable = s.durable
  BY DEF Server, Begun
<1>3. /\ Committed(s) \in Server /\ Committed(s).link = s.link
      /\ Committed(s).txn = "none" /\ Committed(s).pending = {}
      /\ Committed(s).durable = s.durable \cup s.pending
  BY DEF Server, Committed
<1>4. /\ RolledBack(s) \in Server /\ RolledBack(s).link = s.link
      /\ RolledBack(s).txn = "none" /\ RolledBack(s).pending = {}
      /\ RolledBack(s).durable = s.durable
  BY DEF Server, RolledBack
<1>5. HungUp(s) \in Server /\ HungUp(s).link = "closed" /\ HungUp(s).txn = "none"
  BY SilentFacts DEF Server, HungUp
<1> QED
  BY <1>1, <1>2, <1>3, <1>4, <1>5

LEMMA WrittenFacts ==
    ASSUME NEW s \in Server, NEW ids \in SUBSET Work
    PROVE  LET w == Written(s, ids)
           IN /\ w \in Server /\ w.link = s.link /\ w.txn = s.txn
              /\ w.pending = IF s.txn = "none" THEN s.pending ELSE s.pending \cup ids
              /\ w.durable = IF s.txn = "none" THEN s.durable \cup ids ELSE s.durable
BY DEF Server, Written

LEMMA GivenFacts ==
    ASSUME NEW s \in Server, NEW t
    PROVE  LET g == Given(s, t)
           IN /\ g \in Server /\ g.link = s.link /\ g.txn = s.txn
              /\ g.pending = s.pending /\ g.durable = s.durable \ Writes(s, t, Len(t))
BY DEF Server, Given

LEMMA ReplyFacts ==
    /\ NoReply \in Reply
    /\ \A o \in Obj, m \in Methods, e \in Endings : Answer(o, m, e) \in Reply
    /\ \A o \in Obj, e \in Endings, ids \in SUBSET Work : Executed(o, e, ids) \in Reply
    /\ \A o \in Obj, e \in Endings, ids \in SUBSET Work, unsent \in SUBSET Work :
          ExecutedPart(o, e, ids, unsent) \in Reply
    /\ \A o \in Obj, q \in -2 .. MaxLines : NoLine(o, q) \in Reply
    /\ \A o \in Obj, q \in -2 .. MaxLines, n \in 0 .. MaxLines, r \in 0 .. 2 :
          GivenLine(o, q, n, r) \in Reply
    /\ \A o \in Obj, n \in 0 .. MaxLines : Count(o, n) \in Reply
<1>1. NoReply \in Reply
  BY LinesFacts DEF NoReply, Reply, Methods, Endings
<1>2. ASSUME NEW o \in Obj, NEW m \in Methods, NEW e \in Endings
      PROVE  Answer(o, m, e) \in Reply
  <2> DEFINE r == NoReply
  <2>1. r \in Reply
    BY <1>1
  <2> HIDE DEF r
  <2>2. [r EXCEPT !.to = o, !.of = m, !.is = e] \in Reply
    BY <2>1 DEF Reply
  <2> QED
    BY <2>2 DEF Answer, r
<1>3. ASSUME NEW o \in Obj, NEW e \in Endings, NEW ids \in SUBSET Work
      PROVE  Executed(o, e, ids) \in Reply
  <2>1. Answer(o, "exec", e) \in Reply
    BY <1>2 DEF Methods
  <2> QED
    BY <2>1 DEF Executed, Reply
<1>4. ASSUME NEW o \in Obj, NEW q \in -2 .. MaxLines PROVE NoLine(o, q) \in Reply
  <2>1. Answer(o, "fetch", "refused") \in Reply
    BY <1>2 DEF Methods, Endings
  <2> QED
    BY <2>1 DEF NoLine, Reply
<1>5. ASSUME NEW o \in Obj, NEW q \in -2 .. MaxLines, NEW n \in 0 .. MaxLines, NEW r \in 0 .. 2
      PROVE  GivenLine(o, q, n, r) \in Reply
  <2>1. Answer(o, "fetch", "line") \in Reply
    BY <1>2 DEF Methods, Endings
  <2> QED
    BY <2>1 DEF GivenLine, Reply
<1>6. ASSUME NEW o \in Obj, NEW n \in 0 .. MaxLines PROVE Count(o, n) \in Reply
  <2>1. Answer(o, "lines", "count") \in Reply
    BY <1>2 DEF Methods, Endings
  <2> QED
    BY <2>1 DEF Count, Reply
<1>7. ASSUME NEW o \in Obj, NEW e \in Endings, NEW ids \in SUBSET Work, NEW unsent \in SUBSET Work
      PROVE  ExecutedPart(o, e, ids, unsent) \in Reply
  <2> DEFINE r == Executed(o, e, ids)
  <2>1. r \in Reply
    BY <1>3
  <2> HIDE DEF r
  <2>2. [r EXCEPT !.unsent = unsent] \in Reply
    BY <2>1 DEF Reply
  <2> QED
    BY <2>2 DEF ExecutedPart, r
<1> QED
  BY <1>1, <1>2, <1>3, <1>4, <1>5, <1>6, <1>7

-----------------------------------------------------------------------------------
(* The families. *)

(* The families are the same, and no connection is unused again. *)
SameObject(S, T, D, E, p) ==
    /\ T[p].alive = S[p].alive /\ T[p].parent = S[p].parent
    /\ T[p].clones = S[p].clones /\ E[p] = D[p]
NoneUnused(C, G) == \A c \in Conn : C[c].link # "unused" => G[c].link # "unused"

LEMMA FamilySame ==
    ASSUME NEW S, NEW D, NEW C, NEW T, NEW E, NEW G, Family(S, D, C),
           NoneUnused(C, G), \A p \in Obj : SameObject(S, T, D, E, p)
    PROVE  Family(T, E, G)
BY DEF Family, SameObject, NoneUnused, Kin

(* An object that is no clone changes and loses its clones: it is made,     *)
(* opened with a new connection, closed or destroyed.                       *)
RootStep(S, D, C, T, E, G, o) ==
    /\ Family(S, D, C) /\ NoneUnused(C, G) /\ o \in Obj
    /\ S[o].parent = NoObj /\ T[o].parent = NoObj /\ T[o].clones = {}
    /\ ~T[o].alive => E[o] = 0
    /\ \/ E[o] \in {0, D[o]}
       \/ E[o] \in Conn /\ C[E[o]].link = "unused" /\ G[E[o]].link # "unused"
    /\ \A p \in Obj \ {o} :
          IF p \in S[o].clones
          THEN ~T[p].alive /\ T[p].parent = NoObj /\ T[p].clones = {} /\ E[p] = 0
          ELSE SameObject(S, T, D, E, p)

LEMMA FamilyRoot ==
    ASSUME NEW S, NEW D, NEW C, NEW T, NEW E, NEW G, NEW o,
           RootStep(S, D, C, T, E, G, o)
    PROVE  Family(T, E, G)
<1> USE DEF RootStep
<1> DEFINE K == S[o].clones
<1>1. K \subseteq Obj /\ o \notin K /\ \A p \in K : S[p].parent = o
  BY ServerAssumption DEF Family
<1>2. \A p \in Obj \ (K \cup {o}) : SameObject(S, T, D, E, p) /\ S[p].parent # o /\ T[p].parent # o
  BY <1>1, ServerAssumption DEF Family, SameObject
<1>3. \A p \in Obj \ (K \cup {o}) : S[p].parent \notin K
  BY <1>1, ServerAssumption DEF Family
<1>4. \A p \in Obj \ (K \cup {o}) : S[p].clones \cap (K \cup {o}) = {}
  BY <1>1, ServerAssumption DEF Family
<1>5. \A p \in Obj : /\ T[p].clones \subseteq Obj /\ T[p].parent \in Obj \cup {NoObj}
                     /\ E[p] \in Conn \cup {0}
  BY <1>1, <1>2 DEF Family, SameObject
<1>6. \A q, p \in Obj : p \in T[q].clones <=> (T[p].alive /\ T[p].parent = q)
  <2>1. ASSUME NEW q \in Obj, NEW p \in Obj
        PROVE  p \in T[q].clones <=> (T[p].alive /\ T[p].parent = q)
    <3>1. CASE q \in K \cup {o}
      BY <1>1, <1>2, <1>3, <3>1, ServerAssumption DEF SameObject
    <3>2. CASE q \notin K \cup {o} /\ p \in K \cup {o}
      BY <1>1, <1>2, <1>4, <3>2, ServerAssumption DEF SameObject
    <3>3. CASE q \notin K \cup {o} /\ p \notin K \cup {o}
      BY <1>2, <3>3 DEF SameObject, Family
    <3> QED
      BY <3>1, <3>2, <3>3
  <2> QED
    BY <2>1
<1>7. \A p \in Obj : T[p].alive /\ T[p].parent # NoObj =>
         /\ T[T[p].parent].alive /\ T[T[p].parent].parent = NoObj
         /\ E[p] = E[T[p].parent]
  <2>1. ASSUME NEW p \in Obj, T[p].alive, T[p].parent # NoObj
        PROVE  /\ T[T[p].parent].alive /\ T[T[p].parent].parent = NoObj
               /\ E[p] = E[T[p].parent]
    <3>1. p \notin K \cup {o}
      BY <2>1
    <3>2. S[p].parent \in Obj \ (K \cup {o})
      BY <1>2, <1>3, <2>1, <3>1 DEF SameObject, Family
    <3> QED
      BY <1>2, <2>1, <3>1, <3>2 DEF SameObject, Family
  <2> QED
    BY <2>1
<1>8. \A p \in Obj : ~T[p].alive => E[p] = 0 /\ T[p].parent = NoObj
  BY <1>2 DEF SameObject, Family
<1>9. \A p \in Obj : E[p] = 0 => T[p].clones = {}
  BY <1>2 DEF SameObject, Family
<1>10. \A p \in Obj : E[p] # 0 => G[E[p]].link # "unused"
  BY <1>2 DEF SameObject, Family, NoneUnused
<1>11. \A p, q \in Obj : E[p] # 0 /\ E[p] = E[q] => Kin(T, p) = Kin(T, q)
  <2>1. ASSUME NEW p \in Obj, E[p] # 0 PROVE p \notin K
    BY <1>1, <2>1
  <2>2. ASSUME NEW p \in Obj, E[p] # 0, p # o PROVE E[p] # E[o]
    <3>1. p \notin K /\ SameObject(S, T, D, E, p) /\ S[p].parent # o
      BY <1>2, <2>1, <2>2
    <3>2. CASE E[o] = D[o]
      <4>1. Kin(S, p) # o
        BY <3>1, <2>2 DEF Kin
      <4>2. Kin(S, o) = o
        BY DEF Kin
      <4> QED
        BY <2>2, <3>1, <3>2, <4>1, <4>2 DEF Family, SameObject
    <3> QED
      BY <2>2, <3>1, <3>2 DEF Family, SameObject
  <2>3. ASSUME NEW p \in Obj, NEW q \in Obj, E[p] # 0, E[p] = E[q], p # o, q # o
        PROVE  Kin(T, p) = Kin(T, q)
    BY <1>2, <2>1, <2>3 DEF SameObject, Family, Kin
  <2> QED
    BY <2>2, <2>3
<1> QED
  BY <1>5, <1>6, <1>7, <1>8, <1>9, <1>10, <1>11 DEF Family

(* A clone n is attached to the root r. *)
CloneStep(S, D, C, T, E, G, r, n) ==
    /\ Family(S, D, C) /\ NoneUnused(C, G) /\ r \in Obj /\ n \in Obj
    /\ S[r].alive /\ S[r].parent = NoObj /\ D[r] # 0 /\ ~S[n].alive
    /\ T[n].alive /\ T[n].parent = r /\ T[n].clones = {} /\ E[n] = D[r]
    /\ T[r].alive /\ T[r].parent = NoObj /\ T[r].clones = S[r].clones \cup {n}
    /\ E[r] = D[r]
    /\ \A p \in Obj \ {r, n} : SameObject(S, T, D, E, p)

LEMMA FamilyClone ==
    ASSUME NEW S, NEW D, NEW C, NEW T, NEW E, NEW G,
           NEW r, NEW n, CloneStep(S, D, C, T, E, G, r, n)
    PROVE  Family(T, E, G)
<1> USE DEF CloneStep
<1>1. n # r /\ S[n].parent = NoObj /\ D[n] = 0 /\ \A q \in Obj : n \notin S[q].clones
  BY DEF Family
<1>2. \A p \in Obj : S[p].parent # n
  BY <1>1, ServerAssumption DEF Family
<1>3. S[n].clones = {}
  BY <1>1 DEF Family
<1>4. \A q, p \in Obj : p \in T[q].clones <=> (T[p].alive /\ T[p].parent = q)
  <2>1. ASSUME NEW q \in Obj, NEW p \in Obj
        PROVE  p \in T[q].clones <=> (T[p].alive /\ T[p].parent = q)
    <3>0. p \in S[q].clones <=> (S[p].alive /\ S[p].parent = q)
      BY DEF Family
    <3>1. CASE p = n
      BY <1>1, <3>0, <3>1, ServerAssumption DEF SameObject
    <3>2. CASE p # n /\ q = n
      BY <1>1, <1>2, <3>0, <3>2, ServerAssumption DEF SameObject
    <3>3. CASE p # n /\ q # n
      BY <1>1, <3>0, <3>3 DEF SameObject
    <3> QED
      BY <3>1, <3>2, <3>3
  <2> QED
    BY <2>1
<1>5. \A p \in Obj : T[p].alive /\ T[p].parent # NoObj =>
         /\ T[T[p].parent].alive /\ T[T[p].parent].parent = NoObj
         /\ E[p] = E[T[p].parent]
  BY <1>1, <1>2 DEF SameObject, Family
<1>6. \A p, q \in Obj : E[p] # 0 /\ E[p] = E[q] => Kin(T, p) = Kin(T, q)
  <2>1. \A p \in Obj \ {n} : Kin(T, p) = Kin(S, p) /\ E[p] = D[p]
    BY DEF SameObject, Kin
  <2>2. Kin(T, n) = r /\ Kin(S, r) = r
    BY ServerAssumption DEF Kin
  <2> QED
    BY <1>1, <2>1, <2>2 DEF Family
<1>7. /\ \A p \in Obj : /\ T[p].clones \subseteq Obj /\ T[p].parent \in Obj \cup {NoObj}
                        /\ E[p] \in Conn \cup {0}
      /\ \A p \in Obj : ~T[p].alive => E[p] = 0 /\ T[p].parent = NoObj
      /\ \A p \in Obj : E[p] = 0 => T[p].clones = {}
      /\ \A p \in Obj : E[p] # 0 => G[E[p]].link # "unused"
  BY <1>1 DEF SameObject, Family, NoneUnused
<1> QED
  BY <1>4, <1>5, <1>6, <1>7 DEF Family

(* A clone o is detached from the root r. *)
UncloneStep(S, D, C, T, E, G, r, o) ==
    /\ Family(S, D, C) /\ NoneUnused(C, G) /\ r \in Obj /\ o \in Obj
    /\ S[o].alive /\ S[o].parent = r
    /\ ~T[o].alive /\ T[o].parent = NoObj /\ T[o].clones = {} /\ E[o] = 0
    /\ T[r].alive = S[r].alive /\ T[r].parent = S[r].parent
    /\ T[r].clones = S[r].clones \ {o} /\ E[r] = D[r]
    /\ \A p \in Obj \ {r, o} : SameObject(S, T, D, E, p)

LEMMA FamilyUnclone ==
    ASSUME NEW S, NEW D, NEW C, NEW T, NEW E, NEW G,
           NEW r, NEW o, UncloneStep(S, D, C, T, E, G, r, o)
    PROVE  Family(T, E, G)
<1> USE DEF UncloneStep
<1>1. o # r /\ S[r].alive /\ S[r].parent = NoObj /\ \A q \in Obj \ {r} : o \notin S[q].clones
  BY ServerAssumption DEF Family
<1>2. \A p \in Obj : S[p].parent # o
  BY <1>1, ServerAssumption DEF Family
<1>3. \A q, p \in Obj : p \in T[q].clones <=> (T[p].alive /\ T[p].parent = q)
  <2>1. ASSUME NEW q \in Obj, NEW p \in Obj
        PROVE  p \in T[q].clones <=> (T[p].alive /\ T[p].parent = q)
    <3>0. p \in S[q].clones <=> (S[p].alive /\ S[p].parent = q)
      BY DEF Family
    <3>1. CASE p = o
      BY <1>1, <3>0, <3>1 DEF SameObject
    <3>2. CASE p # o /\ q = o
      BY <1>1, <1>2, <3>0, <3>2 DEF SameObject
    <3>3. CASE p # o /\ q # o
      BY <1>1, <3>0, <3>3 DEF SameObject
    <3> QED
      BY <3>1, <3>2, <3>3
  <2> QED
    BY <2>1
<1>4. \A p \in Obj : T[p].alive /\ T[p].parent # NoObj =>
         /\ T[T[p].parent].alive /\ T[T[p].parent].parent = NoObj
         /\ E[p] = E[T[p].parent]
  <2>1. ASSUME NEW p \in Obj, T[p].alive, T[p].parent # NoObj
        PROVE  /\ T[T[p].parent].alive /\ T[T[p].parent].parent = NoObj
               /\ E[p] = E[T[p].parent]
    <3>1. p # o /\ p # r
      BY <1>1, <2>1
    <3>2. /\ S[p].alive /\ S[p].parent = T[p].parent /\ E[p] = D[p]
          /\ S[p].parent \in Obj /\ S[p].parent # o
      BY <1>2, <2>1, <3>1 DEF SameObject, Family
    <3>3. /\ S[S[p].parent].alive /\ S[S[p].parent].parent = NoObj
          /\ D[p] = D[S[p].parent]
      BY <2>1, <3>2 DEF Family
    <3>4. CASE S[p].parent = r
      BY <3>2, <3>3, <3>4
    <3>5. CASE S[p].parent # r
      <4>1. SameObject(S, T, D, E, S[p].parent)
        BY <3>2, <3>5
      <4> QED
        BY <3>2, <3>3, <4>1 DEF SameObject
    <3> QED
      BY <3>4, <3>5
  <2> QED
    BY <2>1
<1>5. \A p, q \in Obj : E[p] # 0 /\ E[p] = E[q] => Kin(T, p) = Kin(T, q)
  <2>1. \A p \in Obj \ {o} : Kin(T, p) = Kin(S, p) /\ E[p] = D[p]
    BY DEF SameObject, Kin
  <2> QED
    BY <1>1, <2>1 DEF Family
<1>6. \A p \in Obj : /\ T[p].clones \subseteq Obj /\ T[p].parent \in Obj \cup {NoObj}
                     /\ E[p] \in Conn \cup {0}
  BY <1>1 DEF SameObject, Family
<1>7. ASSUME NEW p \in Obj, ~T[p].alive PROVE E[p] = 0 /\ T[p].parent = NoObj
  <2>1. CASE p = r
    BY <1>1, <1>7, <2>1
  <2>2. CASE p # r /\ p # o
    BY <1>7, <2>2 DEF SameObject, Family
  <2> QED
    BY <2>1, <2>2
<1>8. \A p \in Obj : E[p] = 0 => T[p].clones = {}
  <2>1. D[r] = 0 => S[r].clones = {}
    BY DEF Family
  <2> QED
    BY <2>1 DEF SameObject, Family
<1>9. \A p \in Obj : E[p] # 0 => G[E[p]].link # "unused"
  BY <1>1 DEF SameObject, Family, NoneUnused
<1> QED
  BY <1>3, <1>4, <1>5, <1>6, <1>7, <1>8, <1>9 DEF Family

-----------------------------------------------------------------------------------
(* Steps of the server and of the records. *)

NoneAborted(C) == \A c \in Conn : C[c].txn # "aborted"
ServerMoves(C, G) == G \in [Conn -> Server] /\ NoneUnused(C, G)
ServerStep(C, G)  == ServerMoves(C, G) /\ (NoneAborted(C) => NoneAborted(G))

LEMMA ServerSame == ASSUME NEW C \in [Conn -> Server] PROVE ServerStep(C, C)
BY DEF ServerStep, ServerMoves, NoneUnused

(* The connection c, if it is one, becomes s. *)
LEMMA ServerChange ==
    ASSUME NEW C \in [Conn -> Server], NEW c, NEW s,
           c \in Conn => s \in Server /\ (C[c].link # "unused" => s.link # "unused")
    PROVE  /\ ServerMoves(C, [C EXCEPT ![c] = s])
           /\ (c \in Conn /\ C[c].txn # "aborted" => s.txn # "aborted")
                 => ServerStep(C, [C EXCEPT ![c] = s])
<1>1. [C EXCEPT ![c] = s] \in [Conn -> Server]
  OBVIOUS
<1>2. \A d \in Conn : [C EXCEPT ![c] = s][d] = IF d = c THEN s ELSE C[d]
  OBVIOUS
<1> QED
  BY <1>1, <1>2 DEF ServerStep, ServerMoves, NoneUnused, NoneAborted

(* A result has another number than the one before it. *)
LEMMA AnotherFacts == \A r \in 0 .. 2 : Another(r) \in 1 .. 2 /\ Another(r) # r
BY DEF Another

LEMMA AnswerFacts ==
    \A o \in Obj, m \in Methods, e \in Endings : Answer(o, m, e) \in Reply
BY ReplyFacts

(* What the four backends do to the records when a clone n of r is made,    *)
(* with the record s, and when a clone o goes.                              *)
Attached(S, T, r, n, s)  == T = [S EXCEPT ![n] = s, ![r].clones = @ \cup {n}]
Detached(S, T, r, o, gone) == T = [S EXCEPT ![r].clones = @ \ {o}, ![o] = gone]

LEMMA AnswerOf ==
    /\ \A o, m, e : Answer(o, m, e).to = o /\ Answer(o, m, e).of = m /\ Answer(o, m, e).is = e
    /\ \A o, e, ids : /\ Executed(o, e, ids).to = o /\ Executed(o, e, ids).of = "exec"
                      /\ Executed(o, e, ids).is = e /\ Executed(o, e, ids).ids = ids
    /\ \A o, e, ids, unsent :
          LET r == ExecutedPart(o, e, ids, unsent)
          IN r.to = o /\ r.of = "exec" /\ r.is = e /\ r.ids = ids /\ r.unsent = unsent
    /\ \A o, q : /\ NoLine(o, q).to = o /\ NoLine(o, q).of = "fetch"
                 /\ NoLine(o, q).is = "refused" /\ NoLine(o, q).asked = q
    /\ \A o, q, n, r : /\ GivenLine(o, q, n, r).to = o /\ GivenLine(o, q, n, r).of = "fetch"
                       /\ GivenLine(o, q, n, r).is = "line" /\ GivenLine(o, q, n, r).asked = q
                       /\ GivenLine(o, q, n, r).n = n /\ GivenLine(o, q, n, r).res = r
    /\ \A o, n : /\ Count(o, n).to = o /\ Count(o, n).of = "lines"
                 /\ Count(o, n).is = "count" /\ Count(o, n).n = n
    /\ \A o, m, e : Answer(o, m, e).ids = {}
BY DEF Answer, Executed, ExecutedPart, NoLine, GivenLine, Count, NoReply

-----------------------------------------------------------------------------------
(* MySQL. *)

(* MysqlSession sees the same server. *)
LEMMA MysqlServer ==
    /\ Mysql!Conn = Conn /\ Mysql!MaxLines = MaxLines
    /\ Mysql!Silent = Silent /\ Mysql!NoReply = NoReply
    /\ \A s : /\ Mysql!Linked(s) = Linked(s) /\ Mysql!Begun(s) = Begun(s)
              /\ Mysql!Committed(s) = Committed(s) /\ Mysql!RolledBack(s) = RolledBack(s)
              /\ Mysql!HungUp(s) = HungUp(s)
    /\ \A s, ids : Mysql!Written(s, ids) = Written(s, ids)
    /\ \A s, t, n : Mysql!Writes(s, t, n) = Writes(s, t, n)
    /\ \A s, t : Mysql!Given(s, t) = Given(s, t)
    /\ \A t : /\ Mysql!UpToError(t) = UpToError(t) /\ Mysql!Rows(t) = Rows(t)
              /\ Mysql!Selects(t) <=> Selects(t)
    /\ \A r : Mysql!Another(r) = Another(r)
    /\ \A o, m, e : Mysql!Answer(o, m, e) = Answer(o, m, e)
    /\ \A o, e, ids : Mysql!Executed(o, e, ids) = Executed(o, e, ids)
    /\ \A o, e, ids, unsent :
          Mysql!ExecutedPart(o, e, ids, unsent) = ExecutedPart(o, e, ids, unsent)
    /\ \A o, q : Mysql!NoLine(o, q) = NoLine(o, q)
    /\ \A o, q, n, r : Mysql!GivenLine(o, q, n, r) = GivenLine(o, q, n, r)
    /\ \A o, n : Mysql!Count(o, n) = Count(o, n)
<1>1. \A S : Mysql!Cardinality(S) = Cardinality(S)
  <2>1. \A S : Mysql!IsFiniteSet(S) = IsFiniteSet(S)
    BY DEF Mysql!IsFiniteSet, IsFiniteSet
  <2> QED
    BY <2>1 DEF Mysql!Cardinality, Cardinality
<1>2. \A s, t, n : Mysql!Writes(s, t, n) = Writes(s, t, n)
  <2>1. \A s : Mysql!Unused(s) = Unused(s)
    BY DEF Mysql!Unused, Unused, Mysql!Work, Work
  <2>2. \A t, n : Mysql!Effects(t, n) = Effects(t, n)
    BY <1>1 DEF Mysql!Effects, Effects
  <2>3. \A S, k : Mysql!Lowest(S, k) = Lowest(S, k)
    BY <1>1 DEF Mysql!Lowest, Lowest
  <2> QED
    BY <2>1, <2>2, <2>3 DEF Mysql!Writes, Writes
<1>3. \A s, t : Mysql!Given(s, t) = Given(s, t)
  BY <1>2 DEF Mysql!Given, Given
<1>4. /\ Mysql!Conn = Conn /\ Mysql!MaxLines = MaxLines
      /\ Mysql!Silent = Silent /\ Mysql!NoReply = NoReply
  BY DEF Mysql!Conn, Conn, Mysql!MaxLines, MaxLines, Mysql!Silent, Silent, Mysql!NoReply, NoReply
<1>5. \A s : /\ Mysql!Linked(s) = Linked(s) /\ Mysql!Begun(s) = Begun(s)
             /\ Mysql!Committed(s) = Committed(s) /\ Mysql!RolledBack(s) = RolledBack(s)
             /\ Mysql!HungUp(s) = HungUp(s)
  BY <1>4 DEF Mysql!Linked, Linked, Mysql!Begun, Begun, Mysql!Committed, Committed,
              Mysql!RolledBack, RolledBack, Mysql!HungUp, HungUp
<1>6. \A s, ids : Mysql!Written(s, ids) = Written(s, ids)
  BY DEF Mysql!Written, Written
<1>7. \A t : /\ Mysql!UpToError(t) = UpToError(t) /\ Mysql!Rows(t) = Rows(t)
             /\ Mysql!Selects(t) <=> Selects(t)
  <2>1. \A t : Mysql!UpToError(t) = UpToError(t)
    BY DEF Mysql!UpToError, UpToError
  <2>2. \A t : Mysql!Selects(t) <=> Selects(t)
    BY DEF Mysql!Selects, Selects
  <2> QED
    BY <2>1, <2>2 DEF Mysql!Rows, Rows
<1>8. \A r : Mysql!Another(r) = Another(r)
  BY DEF Mysql!Another, Another
<1>9. \A o, m, e : Mysql!Answer(o, m, e) = Answer(o, m, e)
  BY <1>4 DEF Mysql!Answer, Answer
<1>10. /\ \A o, e, ids : Mysql!Executed(o, e, ids) = Executed(o, e, ids)
       /\ \A o, q : Mysql!NoLine(o, q) = NoLine(o, q)
       /\ \A o, q, n, r : Mysql!GivenLine(o, q, n, r) = GivenLine(o, q, n, r)
       /\ \A o, n : Mysql!Count(o, n) = Count(o, n)
  BY <1>9 DEF Mysql!Executed, Executed, Mysql!NoLine, NoLine, Mysql!GivenLine, GivenLine,
              Mysql!Count, Count
<1>11. \A o, e, ids, unsent :
          Mysql!ExecutedPart(o, e, ids, unsent) = ExecutedPart(o, e, ids, unsent)
  BY <1>10 DEF Mysql!ExecutedPart, ExecutedPart
<1> QED
  BY <1>2, <1>3, <1>4, <1>5, <1>6, <1>7, <1>8, <1>9, <1>10, <1>11

MysqlRecord ==
    [alive : BOOLEAN, parent : Obj \cup {NoObj}, clones : SUBSET Obj,
     db : Conn \cup {0}, database : BOOLEAN, res : 0 .. 2, len : 0 .. MaxLines,
     tuple : -1 .. MaxLines]

DbOf(S) == [o \in Obj |-> S[o].db]

(* An object that has clones has the name of its database, and then it has  *)
(* a connection, which its clones have too.                                 *)
MysqlInv ==
    /\ obj \in [Obj -> MysqlRecord] /\ srv \in [Conn -> Server] /\ reply \in Reply
    /\ Family(obj, DbOf(obj), srv)
    /\ \A o \in Obj : obj[o].clones # {} => obj[o].database
    /\ \A o \in Obj : obj[o].database => obj[o].db # 0
    /\ NoneAborted(srv)

LEMMA MysqlAbsent ==
    /\ Mysql!Absent \in MysqlRecord
    /\ Mysql!Absent.alive = FALSE /\ Mysql!Absent.parent = NoObj
    /\ Mysql!Absent.clones = {} /\ Mysql!Absent.db = 0 /\ Mysql!Absent.database = FALSE
    /\ Mysql!Absent.res = 0
    /\ Mysql!Fresh \in MysqlRecord
    /\ Mysql!Fresh.alive = TRUE /\ Mysql!Fresh.parent = NoObj
    /\ Mysql!Fresh.clones = {} /\ Mysql!Fresh.db = 0 /\ Mysql!Fresh.database = FALSE
    /\ Mysql!Fresh.res = 0
<1>1. /\ Mysql!Absent \in MysqlRecord
      /\ Mysql!Absent.alive = FALSE /\ Mysql!Absent.parent = NoObj
      /\ Mysql!Absent.clones = {} /\ Mysql!Absent.db = 0 /\ Mysql!Absent.database = FALSE
      /\ Mysql!Absent.res = 0
  BY LinesFacts DEF Mysql!Absent, MysqlRecord
<1>2. PICK b \in BOOLEAN : b = TRUE
  OBVIOUS
<1>3. Mysql!Fresh = [Mysql!Absent EXCEPT !.alive = b]
  BY <1>2 DEF Mysql!Fresh
<1>4. /\ Mysql!Fresh \in MysqlRecord
      /\ Mysql!Fresh.alive = b /\ Mysql!Fresh.parent = NoObj
      /\ Mysql!Fresh.clones = {} /\ Mysql!Fresh.db = 0 /\ Mysql!Fresh.database = FALSE
      /\ Mysql!Fresh.res = 0
  BY <1>1, <1>3 DEF MysqlRecord
<1> QED
  BY <1>1, <1>2, <1>4

(* Only the result of an object changes. *)
LEMMA MysqlChange ==
    ASSUME MysqlInv, NEW o \in Obj, NEW r \in MysqlRecord,
           r.alive = obj[o].alive, r.parent = obj[o].parent, r.clones = obj[o].clones,
           r.db = obj[o].db, r.database = obj[o].database,
           obj' = [obj EXCEPT ![o] = r], ServerStep(srv, srv'), reply' \in Reply
    PROVE  MysqlInv'
<1>1. obj' \in [Obj -> MysqlRecord]
  BY DEF MysqlInv
<1>2. \A p \in Obj : /\ SameObject(obj, obj', DbOf(obj), DbOf(obj'), p)
                     /\ obj'[p].database = obj[p].database /\ obj'[p].db = obj[p].db
  BY DEF MysqlInv, SameObject, DbOf
<1>3. Family(obj', DbOf(obj'), srv')
  BY <1>2, FamilySame DEF MysqlInv, ServerStep, ServerMoves
<1>4. \A p \in Obj : /\ obj'[p].clones # {} => obj'[p].database
                     /\ obj'[p].database => obj'[p].db # 0
  BY <1>2 DEF MysqlInv, SameObject
<1> QED
  BY <1>1, <1>3, <1>4 DEF MysqlInv, ServerStep, ServerMoves, DbOf

(* No record changes. *)
LEMMA MysqlSame ==
    ASSUME MysqlInv, obj' = obj, ServerStep(srv, srv'), reply' \in Reply
    PROVE  MysqlInv'
<1>1. \A p \in Obj : SameObject(obj, obj', DbOf(obj), DbOf(obj'), p)
  BY DEF SameObject
<1>2. Family(obj', DbOf(obj'), srv')
  BY <1>1, FamilySame DEF MysqlInv, ServerStep, ServerMoves
<1> QED
  BY <1>2 DEF MysqlInv, ServerStep, ServerMoves, DbOf

(* The roots. *)
LEMMA MysqlRoot ==
    ASSUME MysqlInv, NEW o \in Obj, NEW r \in MysqlRecord, obj[o].parent = NoObj,
           r.parent = NoObj, r.clones = {}, ~r.alive => r.db = 0, r.database => r.db # 0,
           \/ r.db \in {0, obj[o].db}
           \/ r.db \in Conn /\ srv[r.db].link = "unused" /\ srv'[r.db].link # "unused",
           obj' = [p \in Obj |-> IF p = o THEN r
                                 ELSE IF p \in obj[o].clones THEN Mysql!Absent ELSE obj[p]],
           ServerStep(srv, srv'), reply' \in Reply
    PROVE  MysqlInv'
<1>1. obj' \in [Obj -> MysqlRecord]
  BY MysqlAbsent DEF MysqlInv
<1>2. /\ obj'[o] = r
      /\ \A p \in Obj \ {o} : obj'[p] = IF p \in obj[o].clones THEN Mysql!Absent ELSE obj[p]
  OBVIOUS
<1>3. \A p \in Obj \ {o} :
         IF p \in obj[o].clones
         THEN ~obj'[p].alive /\ obj'[p].parent = NoObj /\ obj'[p].clones = {} /\ DbOf(obj')[p] = 0
         ELSE SameObject(obj, obj', DbOf(obj), DbOf(obj'), p)
  BY <1>2, MysqlAbsent DEF SameObject, DbOf
<1>4. DbOf(obj')[o] = r.db /\ DbOf(obj)[o] = obj[o].db
  BY <1>2 DEF DbOf
<1>5. Family(obj', DbOf(obj'), srv')
  <2>1. RootStep(obj, DbOf(obj), srv, obj', DbOf(obj'), srv', o)
    BY <1>2, <1>3, <1>4 DEF RootStep, ServerStep, ServerMoves, MysqlInv
  <2> QED
    BY <2>1, FamilyRoot, Zenon
<1>6. \A p \in Obj : /\ obj'[p].clones # {} => obj'[p].database
                     /\ obj'[p].database => obj'[p].db # 0
  BY <1>2, MysqlAbsent DEF MysqlInv
<1> QED
  BY <1>1, <1>5, <1>6 DEF MysqlInv, ServerStep, ServerMoves, DbOf

(* A clone is attached, and detached. *)
LEMMA MysqlAttach ==
    ASSUME MysqlInv, NEW r \in Obj, NEW n \in Obj, NEW s \in MysqlRecord,
           obj[r].alive, obj[r].parent = NoObj, obj[r].database, ~obj[n].alive,
           s.alive, s.parent = r, s.clones = {}, s.db = obj[r].db, s.database = obj[r].database,
           Attached(obj, obj', r, n, s),
           ServerStep(srv, srv'), reply' \in Reply
    PROVE  MysqlInv'
<1>1. n # r
  OBVIOUS
<1>2. /\ obj'[n] = s /\ obj'[r] = [obj[r] EXCEPT !.clones = @ \cup {n}]
      /\ \A p \in Obj \ {n, r} : obj'[p] = obj[p]
      /\ DOMAIN obj' = Obj
  BY <1>1 DEF MysqlInv, Attached
<1>3. /\ obj'[r] \in MysqlRecord /\ obj'[r].clones = obj[r].clones \cup {n}
      /\ obj'[r].alive = obj[r].alive /\ obj'[r].parent = obj[r].parent
      /\ obj'[r].db = obj[r].db /\ obj'[r].database = obj[r].database
  <2>1. obj[r] \in MysqlRecord
    BY DEF MysqlInv
  <2>2. PICK M \in SUBSET Obj : M = obj[r].clones \cup {n}
    BY <2>1 DEF MysqlRecord
  <2>3. obj'[r] = [obj[r] EXCEPT !.clones = M]
    BY <1>2, <2>2
  <2> QED
    BY <2>1, <2>2, <2>3 DEF MysqlRecord
<1>4. obj' \in [Obj -> MysqlRecord]
  <2>1. ASSUME NEW p \in Obj PROVE obj'[p] \in MysqlRecord
    <3>1. CASE p = r \/ p = n
      BY <1>2, <1>3, <3>1
    <3>2. CASE p # r /\ p # n
      BY <1>2, <3>2 DEF MysqlInv
    <3> QED
      BY <3>1, <3>2
  <2> QED
    BY <2>1 DEF MysqlInv, Attached
<1>5. Family(obj', DbOf(obj'), srv')
  <2>1. \A p \in Obj \ {r, n} : SameObject(obj, obj', DbOf(obj), DbOf(obj'), p)
    BY <1>2 DEF SameObject, DbOf
  <2>2. DbOf(obj)[r] # 0 /\ DbOf(obj')[n] = DbOf(obj)[r] /\ DbOf(obj')[r] = DbOf(obj)[r]
    BY <1>2, <1>3 DEF DbOf, MysqlInv
  <2>3. CloneStep(obj, DbOf(obj), srv, obj', DbOf(obj'), srv', r, n)
    BY <1>2, <1>3, <2>1, <2>2 DEF CloneStep, ServerStep, ServerMoves, MysqlInv
  <2> QED
    BY <2>3, FamilyClone, Zenon
<1>6. ASSUME NEW p \in Obj
      PROVE  /\ obj'[p].clones # {} => obj'[p].database
             /\ obj'[p].database => obj'[p].db # 0
  <2>1. CASE p = r
    BY <1>3, <2>1 DEF MysqlInv
  <2>2. CASE p = n
    BY <1>2, <2>2 DEF MysqlInv
  <2>3. CASE p # r /\ p # n
    BY <1>2, <2>3 DEF MysqlInv
  <2> QED
    BY <2>1, <2>2, <2>3
<1> QED
  BY <1>4, <1>5, <1>6 DEF MysqlInv, ServerStep, ServerMoves, DbOf

LEMMA MysqlDetach ==
    ASSUME MysqlInv, NEW o \in Obj, NEW r \in Obj, obj[o].alive, obj[o].parent = r,
           Detached(obj, obj', r, o, Mysql!Absent),
           ServerStep(srv, srv'), reply' \in Reply
    PROVE  MysqlInv'
<1>1. r # o
  BY ServerAssumption DEF MysqlInv, Family
<1>2. /\ obj'[o] = Mysql!Absent /\ obj'[r] = [obj[r] EXCEPT !.clones = @ \ {o}]
      /\ \A p \in Obj \ {o, r} : obj'[p] = obj[p]
      /\ DOMAIN obj' = Obj
  BY <1>1 DEF MysqlInv, Detached
<1>3. /\ obj'[r] \in MysqlRecord /\ obj'[r].clones = obj[r].clones \ {o}
      /\ obj'[r].alive = obj[r].alive /\ obj'[r].parent = obj[r].parent
      /\ obj'[r].db = obj[r].db /\ obj'[r].database = obj[r].database
  BY <1>2 DEF MysqlInv, MysqlRecord
<1>4. obj' \in [Obj -> MysqlRecord]
  <2>1. ASSUME NEW p \in Obj PROVE obj'[p] \in MysqlRecord
    <3>1. CASE p = r \/ p = o
      BY <1>2, <1>3, <3>1, MysqlAbsent
    <3>2. CASE p # r /\ p # o
      BY <1>2, <3>2 DEF MysqlInv
    <3> QED
      BY <3>1, <3>2
  <2> QED
    BY <2>1 DEF MysqlInv, Detached
<1>5. Family(obj', DbOf(obj'), srv')
  <2>1. ASSUME NEW p \in Obj \ {r, o}
        PROVE  SameObject(obj, obj', DbOf(obj), DbOf(obj'), p)
    <3>1. obj'[p] = obj[p]
      BY <1>2
    <3> QED
      BY <3>1 DEF SameObject, DbOf
  <2>2. DbOf(obj')[o] = 0 /\ DbOf(obj')[r] = DbOf(obj)[r]
    BY <1>2, <1>3, MysqlAbsent DEF DbOf
  <2>3. UncloneStep(obj, DbOf(obj), srv, obj', DbOf(obj'), srv', r, o)
    BY <1>1, <1>2, <1>3, <2>1, <2>2, MysqlAbsent DEF UncloneStep, ServerStep, ServerMoves, MysqlInv
  <2> QED
    BY <2>3, FamilyUnclone, Zenon
<1>6. ASSUME NEW p \in Obj
      PROVE  /\ obj'[p].clones # {} => obj'[p].database
             /\ obj'[p].database => obj'[p].db # 0
  <2>1. CASE p = r
    BY <1>3, <2>1 DEF MysqlInv
  <2>2. CASE p = o
    BY <1>2, <2>2, MysqlAbsent
  <2>3. CASE p # r /\ p # o
    BY <1>2, <2>3 DEF MysqlInv
  <2> QED
    BY <2>1, <2>2, <2>3
<1> QED
  BY <1>4, <1>5, <1>6 DEF MysqlInv, ServerStep, ServerMoves, DbOf

LEMMA MysqlBase ==
    ASSUME MysqlInv, NEW o \in Obj
    PROVE  /\ obj[o] \in MysqlRecord
           /\ ~obj[o].alive => obj[o].db = 0 /\ obj[o].parent = NoObj
           /\ obj[o].db = 0 => obj[o].clones = {}
           /\ obj[o].db = 0 => ~obj[o].database
           /\ obj[o].parent # NoObj => obj[o].parent \in Obj /\ obj[o].clones = {}
<1>1. obj[o] \in MysqlRecord
  BY DEF MysqlInv
<1>2. DbOf(obj)[o] = obj[o].db
  BY DEF DbOf
<1>3. obj[o].parent # NoObj => obj[o].parent \in Obj /\ obj[o].clones = {}
  BY ServerAssumption DEF MysqlInv, Family
<1> QED
  BY <1>1, <1>2, <1>3 DEF MysqlInv, Family

LEMMA MysqlNew ==
    ASSUME MysqlInv, NEW o \in Obj, Mysql!New(o)
    PROVE  MysqlInv'
<1>1. /\ ~obj[o].alive /\ obj' = [obj EXCEPT ![o] = Mysql!Fresh]
      /\ reply' = Answer(o, "new", "ok") /\ srv' = srv
  BY MysqlServer DEF Mysql!New
<1>2. obj[o].clones = {} /\ obj[o].parent = NoObj /\ obj[o].db = 0
  BY <1>1, MysqlBase
<1>3. reply' \in Reply /\ ServerStep(srv, srv')
  BY <1>1, AnswerFacts, ServerSame DEF MysqlInv, Methods, Endings
<1>4. obj' = [p \in Obj |-> IF p = o THEN Mysql!Fresh
                           ELSE IF p \in obj[o].clones THEN Mysql!Absent ELSE obj[p]]
  BY <1>1, <1>2 DEF MysqlInv
<1> QED
  BY <1>2, <1>3, <1>4, MysqlAbsent, MysqlRoot

LEMMA MysqlOpen ==
    ASSUME MysqlInv, NEW o \in Obj, Mysql!Open(o)
    PROVE  MysqlInv'
<1>1. /\ reply' \in Reply
      /\ obj[o].alive /\ obj[o].parent = NoObj
  BY AnswerFacts, MysqlServer DEF Mysql!Open, Mysql!IsClone, Methods, Endings
<1>2. CASE obj' = obj /\ srv' = srv
  BY <1>1, <1>2, ServerSame, MysqlSame DEF MysqlInv
<1>3. ASSUME NEW c \in Conn, srv[c].link = "unused", obj[o].db = 0,
             obj' = [obj EXCEPT ![o].db = c, ![o].database = TRUE],
             srv' = [srv EXCEPT ![c] = Linked(@)]
      PROVE  MysqlInv'
  <2>1. PICK b \in BOOLEAN : b = TRUE
    OBVIOUS
  <2>2. PICK r : r = [obj[o] EXCEPT !.db = c, !.database = b]
    OBVIOUS
  <2>3. obj[o] \in MysqlRecord /\ obj[o].clones = {}
    BY <1>3, MysqlBase
  <2>4. /\ r \in MysqlRecord /\ r.db = c /\ r.database = b
        /\ r.alive = obj[o].alive /\ r.parent = obj[o].parent /\ r.clones = {}
    BY <2>2, <2>3 DEF MysqlRecord
  <2>5. obj' = [p \in Obj |-> IF p = o THEN r
                             ELSE IF p \in obj[o].clones THEN Mysql!Absent ELSE obj[p]]
    BY <1>3, <2>1, <2>2, <2>3 DEF MysqlInv
  <2>6. srv[c] \in Server
    BY DEF MysqlInv
  <2>7. ServerStep(srv, srv') /\ srv'[c].link # "unused"
    <3>1. /\ Linked(srv[c]) \in Server /\ Linked(srv[c]).link = "open"
          /\ Linked(srv[c]).txn = srv[c].txn
      BY <2>6, ServerFacts
    <3>2. srv \in [Conn -> Server]
      BY DEF MysqlInv
    <3>3. ServerStep(srv, [srv EXCEPT ![c] = Linked(srv[c])])
      BY <3>1, <3>2, ServerChange
    <3> QED
      BY <1>3, <3>1, <3>2, <3>3
  <2>8. /\ obj[o].parent = NoObj /\ r.parent = NoObj /\ r.alive /\ r.database => r.db # 0
        /\ r.db \in Conn /\ srv[r.db].link = "unused" /\ srv'[r.db].link # "unused"
    BY <1>1, <1>3, <2>4, <2>7 DEF Conn
  <2> QED
    BY <1>1, <2>4, <2>5, <2>7, <2>8, MysqlRoot
<1> QED
  BY <1>2, <1>3, MysqlServer DEF Mysql!Open

(* What exec does to the connection. *)
LEMMA MysqlQueried ==
    ASSUME NEW s \in Server, NEW t, NEW u, NEW n, NEW sticks \in BOOLEAN
    PROVE  LET q == Mysql!Queried(s, t, u, n, sticks)
               w == Written(Given(s, t), Writes(s, u, n))
           IN /\ q \in Server /\ q.link = s.link /\ q.txn = s.txn
              /\ q.pending = w.pending /\ q.durable = w.durable
<1> DEFINE w == Written(Given(s, t), Writes(s, u, n))
<1>1. w \in Server /\ w.link = s.link /\ w.txn = s.txn
  <2>1. Given(s, t) \in Server /\ Given(s, t).link = s.link /\ Given(s, t).txn = s.txn
    BY GivenFacts
  <2>2. Writes(s, u, n) \in SUBSET Work
    BY WritesFacts
  <2> QED
    BY <2>1, <2>2, WrittenFacts
<1>2. PICK b \in BOOLEAN : b = (w.stuck \/ sticks)
  OBVIOUS
<1>3. Mysql!Queried(s, t, u, n, sticks) = [w EXCEPT !.stuck = b]
  BY <1>2, MysqlServer DEF Mysql!Queried
<1> HIDE DEF w
<1>4. LET q == [w EXCEPT !.stuck = b]
      IN /\ q \in Server /\ q.link = w.link /\ q.txn = w.txn
         /\ q.pending = w.pending /\ q.durable = w.durable
  BY <1>1 DEF Server
<1> QED
  BY <1>1, <1>3, <1>4 DEF w

(* What exec does to the record. *)
LEMMA MysqlResults ==
    \A r \in MysqlRecord :
        /\ LET c == Mysql!Clearresult(r)
           IN /\ c \in MysqlRecord /\ c.alive = r.alive /\ c.parent = r.parent
              /\ c.clones = r.clones /\ c.db = r.db /\ c.database = r.database
              /\ c.res = 0 /\ c.len = 0 /\ c.tuple = r.tuple
        /\ \A rows \in 0 .. MaxLines :
              LET n == Mysql!NewResult(r, rows)
              IN /\ n \in MysqlRecord /\ n.alive = r.alive /\ n.parent = r.parent
                 /\ n.clones = r.clones /\ n.db = r.db /\ n.database = r.database
                 /\ n.res \in 1 .. 2 /\ n.res # r.res /\ n.len = rows /\ n.tuple = -1
<1>1. ASSUME NEW r \in MysqlRecord
      PROVE  LET c == Mysql!Clearresult(r)
             IN /\ c \in MysqlRecord /\ c.alive = r.alive /\ c.parent = r.parent
                /\ c.clones = r.clones /\ c.db = r.db /\ c.database = r.database
                /\ c.res = 0 /\ c.len = 0 /\ c.tuple = r.tuple
  <2>1. PICK z \in 0 .. MaxLines : z = 0
    BY LinesFacts
  <2>0. PICK k \in 0 .. 2 : k = 0
    OBVIOUS
  <2>2. Mysql!Clearresult(r) = [r EXCEPT !.res = k, !.len = z]
    BY <2>1, <2>0 DEF Mysql!Clearresult
  <2>3. Mysql!Clearresult(r) \in MysqlRecord
    BY <2>2 DEF MysqlRecord
  <2> QED
    BY <2>1, <2>0, <2>2, <2>3 DEF MysqlRecord
<1>2. ASSUME NEW r \in MysqlRecord, NEW rows \in 0 .. MaxLines
      PROVE  LET n == Mysql!NewResult(r, rows)
             IN /\ n \in MysqlRecord /\ n.alive = r.alive /\ n.parent = r.parent
                /\ n.clones = r.clones /\ n.db = r.db /\ n.database = r.database
                /\ n.res \in 1 .. 2 /\ n.res # r.res /\ n.len = rows /\ n.tuple = -1
  <2>1. r.res \in 0 .. 2
    BY DEF MysqlRecord
  <2>2. PICK k \in 0 .. 2 : k = Mysql!Another(r.res) /\ k # r.res /\ k \in 1 .. 2
    BY <2>1, AnotherFacts, MysqlServer
  <2>3. PICK z \in -1 .. MaxLines : z = -1
    BY LinesFacts
  <2>4. Mysql!NewResult(r, rows) = [r EXCEPT !.res = k, !.len = rows, !.tuple = z]
    BY <2>2, <2>3 DEF Mysql!NewResult
  <2>5. Mysql!NewResult(r, rows) \in MysqlRecord
    BY <2>4 DEF MysqlRecord
  <2> QED
    BY <2>2, <2>3, <2>4, <2>5 DEF MysqlRecord
<1> QED
  BY <1>1, <1>2

LEMMA MysqlExec ==
    ASSUME MysqlInv, NEW o \in Obj, NEW t, NEW closed \in BOOLEAN, NEW fetch \in BOOLEAN,
           NEW args \in BOOLEAN, Mysql!Exec(o, t, closed, fetch, args)
    PROVE  MysqlInv'
<1>1. CASE t = <<>>
  BY <1>1, ReplyFacts, ServerSame, MysqlServer, MysqlSame DEF Mysql!Exec, Endings, MysqlInv
<1>2. CASE t # <<>>
  <2> DEFINE c == obj[o].db
             u == Mysql!SplitSQL(t, closed)
             n == IF args THEN Mysql!Sent(srv[c], u) ELSE 0
             sticks == args /\ \E i \in Mysql!Unread(u) : i <= n
             ids == Writes(srv[c], t, Len(t))
             unsent == ids \ Writes(srv[c], u, Len(u))
  <2>1. /\ srv' = [srv EXCEPT ![c] = Mysql!Queried(@, t, u, n, sticks)]
        /\ \E rows \in IF fetch THEN Rows(u) ELSE {0} :
              \/ obj' = [obj EXCEPT ![o] = Mysql!NewResult(@, rows)]
              \/ obj' = [obj EXCEPT ![o] = Mysql!Clearresult(@)]
        /\ \/ reply' = ExecutedPart(o, "ok", ids, unsent)
           \/ reply' = ExecutedPart(o, "failed", ids, unsent)
    BY <1>2, MysqlServer DEF Mysql!Exec
  <2>2. reply' \in Reply
    <3>1. ids \in SUBSET Work /\ unsent \in SUBSET Work
      BY WritesFacts
    <3> HIDE DEF ids, unsent
    <3> QED
      BY <2>1, <3>1, ReplyFacts DEF Endings
  <2> HIDE DEF ids, unsent, u
  <2>3. ServerStep(srv, srv')
    <3>1. srv \in [Conn -> Server] /\ sticks \in BOOLEAN
      BY DEF MysqlInv
    <3> DEFINE q == Mysql!Queried(srv[c], t, u, n, sticks)
    <3>2. c \in Conn => srv[c] \in Server
      BY <3>1
    <3>3. srv' = [srv EXCEPT ![c] = q]
      BY <2>1
    <3> HIDE DEF n, sticks, c
    <3>4. c \in Conn => q \in Server /\ q.link = srv[c].link /\ q.txn = srv[c].txn
      BY <3>1, <3>2, MysqlQueried
    <3> HIDE DEF q
    <3>5. ServerStep(srv, [srv EXCEPT ![c] = q])
      BY <3>1, <3>4, ServerChange
    <3> QED
      BY <3>3, <3>5
  <2>4. obj[o] \in MysqlRecord
    BY DEF MysqlInv
  <2>5. ASSUME NEW rows \in 0 .. MaxLines, obj' = [obj EXCEPT ![o] = Mysql!NewResult(@, rows)]
        PROVE  MysqlInv'
    <3> DEFINE r == Mysql!NewResult(obj[o], rows)
    <3>1. /\ r \in MysqlRecord
          /\ r.alive = obj[o].alive /\ r.parent = obj[o].parent /\ r.clones = obj[o].clones
          /\ r.db = obj[o].db /\ r.database = obj[o].database
      BY <2>4, MysqlResults
    <3> HIDE DEF r
    <3>2. obj' = [obj EXCEPT ![o] = r]
      BY <2>5 DEF r
    <3> QED
      BY <2>2, <2>3, <3>1, <3>2, MysqlChange
  <2>6. ASSUME obj' = [obj EXCEPT ![o] = Mysql!Clearresult(@)]
        PROVE  MysqlInv'
    <3> DEFINE r == Mysql!Clearresult(obj[o])
    <3>1. /\ r \in MysqlRecord
          /\ r.alive = obj[o].alive /\ r.parent = obj[o].parent /\ r.clones = obj[o].clones
          /\ r.db = obj[o].db /\ r.database = obj[o].database
      BY <2>4, MysqlResults
    <3> HIDE DEF r
    <3>2. obj' = [obj EXCEPT ![o] = r]
      BY <2>6 DEF r
    <3> QED
      BY <2>2, <2>3, <3>1, <3>2, MysqlChange
  <2> QED
    BY <2>1, <2>5, <2>6, RowsFacts
<1> QED
  BY <1>1, <1>2

LEMMA MysqlFetch ==
    ASSUME MysqlInv, NEW o \in Obj, NEW q \in -2 .. MaxLines, Mysql!Fetch(o, q)
    PROVE  MysqlInv'
<1> DEFINE line == Mysql!Wanted(o, q)
<1>1. obj[o] \in MysqlRecord /\ srv' = srv /\ ServerStep(srv, srv')
  BY ServerSame DEF MysqlInv, Mysql!Fetch
<1>2. Mysql!Asked(o, q) \in -2 .. MaxLines
  BY <1>1 DEF Mysql!Asked, MysqlRecord
<1>3. CASE reply' = NoLine(o, Mysql!Asked(o, q)) /\ obj' = obj
  BY <1>1, <1>2, <1>3, ReplyFacts, MysqlSame
<1>4. ASSUME line >= 0, line < obj[o].len,
             reply' = GivenLine(o, Mysql!Asked(o, q), line, obj[o].res),
             obj' = [obj EXCEPT ![o].tuple = line]
      PROVE  MysqlInv'
  <2>1. line \in 0 .. MaxLines
    BY <1>1, <1>2, <1>4, LinesFacts DEF Mysql!Wanted, MysqlRecord
  <2> HIDE DEF line
  <2>2. reply' \in Reply
    BY <1>1, <1>2, <1>4, <2>1, ReplyFacts DEF MysqlRecord
  <2>3. PICK r : r = [obj[o] EXCEPT !.tuple = line]
    OBVIOUS
  <2>4. /\ r \in MysqlRecord
        /\ r.alive = obj[o].alive /\ r.parent = obj[o].parent /\ r.clones = obj[o].clones
        /\ r.db = obj[o].db /\ r.database = obj[o].database
    BY <1>1, <2>1, <2>3 DEF MysqlRecord
  <2>5. obj' = [obj EXCEPT ![o] = r]
    BY <1>4, <2>3
  <2> QED
    BY <1>1, <2>2, <2>4, <2>5, MysqlChange
<1>5. line \in Int /\ obj[o].len \in 0 .. MaxLines
  BY <1>1, <1>2 DEF Mysql!Wanted, MysqlRecord
<1> HIDE DEF line
<1>6. \/ reply' = NoLine(o, Mysql!Asked(o, q)) /\ obj' = obj
      \/ /\ line >= 0 /\ line < obj[o].len
         /\ reply' = GivenLine(o, Mysql!Asked(o, q), line, obj[o].res)
         /\ obj' = [obj EXCEPT ![o].tuple = line]
  BY <1>5, MysqlServer DEF Mysql!Fetch, line
<1> QED
  BY <1>3, <1>4, <1>6

LEMMA MysqlLines ==
    ASSUME MysqlInv, NEW o \in Obj, Mysql!FetchLines(o)
    PROVE  MysqlInv'
<1>1. obj[o].len \in 0 .. MaxLines
  BY DEF MysqlInv, MysqlRecord
<1>2. reply' \in Reply
  BY <1>1, ReplyFacts, MysqlServer DEF Mysql!FetchLines, Methods, Endings
<1> QED
  BY <1>2, ServerSame, MysqlSame DEF Mysql!FetchLines, MysqlInv

(* begin, commit and rollback. *)
LEMMA MysqlQuery ==
    ASSUME MysqlInv, NEW o \in Obj,
           \/ Mysql!Transaction_Start(o) \/ Mysql!Transaction_Commit(o)
           \/ Mysql!Transaction_Rollback(o)
    PROVE  MysqlInv'
<1> DEFINE c == obj[o].db
           s == srv[c]
<1>1. PICK method \in Methods, after \in {Begun(Committed(s)), Committed(s), RolledBack(s)} :
         Mysql!Query(o, method, after)
  BY MysqlServer DEF Mysql!Transaction_Start, Mysql!Transaction_Commit,
     Mysql!Transaction_Rollback, Methods
<1>2. reply' \in Reply /\ obj' = obj
  BY <1>1, AnswerFacts, MysqlServer DEF Mysql!Query, Endings
<1>3. srv' = srv \/ srv' = [srv EXCEPT ![c] = after]
  BY <1>1 DEF Mysql!Query
<1>4. srv \in [Conn -> Server]
  BY DEF MysqlInv
<1>5. c \in Conn => after \in Server /\ after.link = s.link /\ after.txn # "aborted"
  <2>1. c \in Conn => s \in Server
    BY <1>4
  <2> HIDE DEF s, c
  <2> QED
    BY <1>1, <2>1, ServerFacts
<1> HIDE DEF c
<1>6. ServerStep(srv, [srv EXCEPT ![c] = after])
  BY <1>4, <1>5, ServerChange
<1> QED
  BY <1>2, <1>3, <1>4, <1>6, ServerSame, MysqlSame

LEMMA MysqlClone ==
    ASSUME MysqlInv, NEW o \in Obj, NEW n \in Obj, Mysql!Clone(o, n)
    PROVE  MysqlInv'
<1>1. PICK r \in Obj : /\ r = Mysql!Root(o) /\ obj[r].alive /\ obj[r].parent = NoObj
                       /\ obj[r].database
  <2>1. CASE obj[o].parent = NoObj
    BY <2>1 DEF Mysql!Clone, Mysql!Root, Mysql!IsClone, Mysql!Connected
  <2>2. CASE obj[o].parent # NoObj
    <3>1. obj[o].parent \in Obj /\ obj[o].alive
      BY <2>2, MysqlBase DEF Mysql!Clone, Mysql!Connected
    <3>2. /\ o \in obj[obj[o].parent].clones /\ obj[obj[o].parent].alive
          /\ obj[obj[o].parent].parent = NoObj
      BY <2>2, <3>1 DEF MysqlInv, Family
    <3>3. obj[obj[o].parent].database
      BY <3>1, <3>2 DEF MysqlInv
    <3> QED
      BY <2>2, <3>1, <3>2, <3>3 DEF Mysql!Root, Mysql!IsClone
  <2> QED
    BY <2>1, <2>2
<1>2. PICK s : s = [Mysql!Fresh EXCEPT !.parent = r, !.db = obj[r].db,
                                      !.database = obj[r].database]
  OBVIOUS
<1>3. obj[r] \in MysqlRecord
  BY DEF MysqlInv
<1>4. /\ s \in MysqlRecord /\ s.alive /\ s.parent = r /\ s.clones = {}
      /\ s.db = obj[r].db /\ s.database = obj[r].database
  BY <1>2, <1>3, MysqlAbsent DEF MysqlRecord
<1>5. /\ Attached(obj, obj', r, n, s) /\ ~obj[n].alive
      /\ reply' = Answer(n, "clone", "ok") /\ srv' = srv
  BY <1>1, <1>2, MysqlServer DEF Mysql!Clone, Attached
<1>6. reply' \in Reply /\ ServerStep(srv, srv')
  BY <1>5, AnswerFacts, ServerSame DEF MysqlInv, Methods, Endings
<1> QED
  BY <1>1, <1>4, <1>5, <1>6, MysqlAttach

LEMMA MysqlDestroyClone ==
    ASSUME MysqlInv, NEW o \in Obj, obj[o].alive, Mysql!IsClone(o),
           obj' = Mysql!DestroyClone(o), srv' = srv, reply' \in Reply
    PROVE  MysqlInv'
<1>1. PICK r \in Obj : r = obj[o].parent
  BY MysqlBase DEF Mysql!IsClone
<1>2. Detached(obj, obj', r, o, Mysql!Absent)
  BY <1>1 DEF Detached, Mysql!DestroyClone
<1>3. ServerStep(srv, srv')
  BY ServerSame DEF MysqlInv
<1> QED
  BY <1>1, <1>2, <1>3, MysqlDetach

LEMMA MysqlCloseRoot ==
    ASSUME MysqlInv, NEW o \in Obj, ~Mysql!IsClone(o), obj[o].alive,
           \/ obj' = Mysql!CloseRoot(o)
           \/ obj' = [Mysql!CloseRoot(o) EXCEPT ![o] = Mysql!Absent]
           \/ ~obj[o].database /\ obj' = [obj EXCEPT ![o] = Mysql!Absent],
           srv' = srv, reply' \in Reply
    PROVE  MysqlInv'
<1>1. ServerStep(srv, srv') /\ obj[o] \in MysqlRecord /\ obj[o].parent = NoObj
  BY ServerSame DEF MysqlInv, Mysql!IsClone
<1>2. ASSUME NEW r \in MysqlRecord, r.parent = NoObj, r.clones = {},
             ~r.alive => r.db = 0, ~r.database, r.db \in {0, obj[o].db},
             obj' = [p \in Obj |-> IF p = o THEN r
                                   ELSE IF p \in obj[o].clones THEN Mysql!Absent ELSE obj[p]]
      PROVE  MysqlInv'
  BY <1>1, <1>2, MysqlRoot
<1>3. CASE obj' = Mysql!CloseRoot(o)
  <2>1. PICK b \in BOOLEAN : b = FALSE
    OBVIOUS
  <2>0. PICK k \in 0 .. 2 : k = 0
    OBVIOUS
  <2>2. PICK r : r = [obj[o] EXCEPT !.clones = {}, !.database = b, !.res = k]
    OBVIOUS
  <2>3. /\ r \in MysqlRecord /\ r.parent = obj[o].parent /\ r.clones = {}
        /\ r.alive = obj[o].alive /\ r.database = b /\ r.db = obj[o].db
    <3>1. obj[o] \in MysqlRecord
      BY <1>1
    <3>2. r \in MysqlRecord
      BY <2>2, <3>1 DEF MysqlRecord
    <3> QED
      BY <2>2, <3>1, <3>2 DEF MysqlRecord
  <2>4. obj' = [p \in Obj |-> IF p = o THEN r
                              ELSE IF p \in obj[o].clones THEN Mysql!Absent ELSE obj[p]]
    BY <1>3, <2>1, <2>0, <2>2 DEF Mysql!CloseRoot
  <2> QED
    BY <1>1, <1>2, <2>1, <2>3, <2>4
<1>4. CASE obj' = [Mysql!CloseRoot(o) EXCEPT ![o] = Mysql!Absent]
  <2>1. obj' = [p \in Obj |-> IF p = o THEN Mysql!Absent
                              ELSE IF p \in obj[o].clones THEN Mysql!Absent ELSE obj[p]]
    BY <1>4 DEF Mysql!CloseRoot
  <2> QED
    BY <1>2, <2>1, MysqlAbsent
<1>5. CASE ~obj[o].database /\ obj' = [obj EXCEPT ![o] = Mysql!Absent]
  <2>1. obj[o].clones = {}
    BY <1>5 DEF MysqlInv
  <2>2. obj' = [p \in Obj |-> IF p = o THEN Mysql!Absent
                              ELSE IF p \in obj[o].clones THEN Mysql!Absent ELSE obj[p]]
    BY <1>5, <2>1 DEF MysqlInv
  <2> QED
    BY <1>2, <2>2, MysqlAbsent
<1> QED
  BY <1>3, <1>4, <1>5

LEMMA MysqlClose ==
    ASSUME MysqlInv, NEW o \in Obj,
           Mysql!Close(o) \/ Mysql!Dropdb(o) \/ Mysql!Destroy(o)
    PROVE  MysqlInv'
<1>1. PICK m \in Methods, e \in Endings : reply' = Answer(o, m, e)
  BY MysqlServer DEF Mysql!Close, Mysql!Dropdb, Mysql!Destroy, Methods, Endings
<1>2. reply' \in Reply /\ srv' = srv /\ obj[o].alive
  BY <1>1, AnswerFacts DEF Mysql!Close, Mysql!Dropdb, Mysql!Destroy, Mysql!Connected
<1>3. CASE obj' = obj
  BY <1>2, <1>3, ServerSame, MysqlSame DEF MysqlInv
<1>4. CASE Mysql!IsClone(o) /\ obj' = Mysql!DestroyClone(o)
  BY <1>2, <1>4, MysqlDestroyClone
<1>5. CASE ~Mysql!IsClone(o) /\ \/ obj' = Mysql!CloseRoot(o)
                                \/ obj' = [Mysql!CloseRoot(o) EXCEPT ![o] = Mysql!Absent]
                                \/ ~obj[o].database /\ obj' = [obj EXCEPT ![o] = Mysql!Absent]
  BY <1>2, <1>5, MysqlCloseRoot
<1> QED
  BY <1>3, <1>4, <1>5 DEF Mysql!Close, Mysql!Dropdb, Mysql!Destroy

LEMMA MysqlStep == MysqlInv /\ Mysql!Next => MysqlInv'
<1> SUFFICES ASSUME MysqlInv, Mysql!Next PROVE MysqlInv'
  OBVIOUS
<1>1. ASSUME NEW o \in Obj, Mysql!New(o) \/ Mysql!Open(o) PROVE MysqlInv'
  BY <1>1, MysqlNew, MysqlOpen
<1>2. ASSUME NEW o \in Obj, NEW t, NEW closed \in BOOLEAN, NEW fetch \in BOOLEAN,
             NEW args \in BOOLEAN, Mysql!Exec(o, t, closed, fetch, args)
      PROVE  MysqlInv'
  BY <1>2, MysqlExec
<1>3. ASSUME NEW o \in Obj, NEW q \in -2 .. MaxLines, Mysql!Fetch(o, q) PROVE MysqlInv'
  BY <1>3, MysqlFetch
<1>4. ASSUME NEW o \in Obj,
             \/ Mysql!FetchLines(o) \/ Mysql!Transaction_Start(o)
             \/ Mysql!Transaction_Commit(o) \/ Mysql!Transaction_Rollback(o)
             \/ Mysql!Close(o) \/ Mysql!Dropdb(o) \/ Mysql!Destroy(o)
      PROVE  MysqlInv'
  BY <1>4, MysqlLines, MysqlQuery, MysqlClose
<1>5. ASSUME NEW o \in Obj, NEW n \in Obj, Mysql!Clone(o, n) PROVE MysqlInv'
  BY <1>5, MysqlClone
<1> QED
  BY <1>1, <1>2, <1>3, <1>4, <1>5, MysqlServer DEF Mysql!Next

LEMMA MysqlStart == Mysql!Init => MysqlInv
<1> SUFFICES ASSUME Mysql!Init PROVE MysqlInv
  OBVIOUS
<1>1. /\ obj = [o \in Obj |-> Mysql!Absent] /\ srv = [c \in Conn |-> Silent]
      /\ reply = NoReply
  BY MysqlServer DEF Mysql!Init
<1>2. obj \in [Obj -> MysqlRecord] /\ srv \in [Conn -> Server] /\ reply \in Reply
  BY <1>1, MysqlAbsent, SilentFacts, ReplyFacts
<1>3. Family(obj, DbOf(obj), srv)
  BY <1>1, MysqlAbsent, ServerAssumption DEF Family, DbOf
<1>4. NoneAborted(srv)
  BY <1>1, SilentFacts DEF NoneAborted
<1> QED
  BY <1>1, <1>2, <1>3, <1>4, MysqlAbsent DEF MysqlInv

-----------------------------------------------------------------------------------
(* PostgreSQL. *)

(* PostgresqlSession sees the same server. *)
LEMMA PostgresqlServer ==
    /\ Postgresql!Conn = Conn /\ Postgresql!MaxLines = MaxLines
    /\ Postgresql!Silent = Silent /\ Postgresql!NoReply = NoReply
    /\ \A s : /\ Postgresql!Linked(s) = Linked(s) /\ Postgresql!Begun(s) = Begun(s)
              /\ Postgresql!Committed(s) = Committed(s) /\ Postgresql!RolledBack(s) = RolledBack(s)
              /\ Postgresql!HungUp(s) = HungUp(s)
    /\ \A s, ids : Postgresql!Written(s, ids) = Written(s, ids)
    /\ \A s, t, n : Postgresql!Writes(s, t, n) = Writes(s, t, n)
    /\ \A s, t : Postgresql!Given(s, t) = Given(s, t)
    /\ \A t : /\ Postgresql!UpToError(t) = UpToError(t) /\ Postgresql!Rows(t) = Rows(t)
              /\ Postgresql!Selects(t) <=> Selects(t)
    /\ \A r : Postgresql!Another(r) = Another(r)
    /\ \A o, m, e : Postgresql!Answer(o, m, e) = Answer(o, m, e)
    /\ \A o, e, ids : Postgresql!Executed(o, e, ids) = Executed(o, e, ids)
    /\ \A o, q : Postgresql!NoLine(o, q) = NoLine(o, q)
    /\ \A o, q, n, r : Postgresql!GivenLine(o, q, n, r) = GivenLine(o, q, n, r)
    /\ \A o, n : Postgresql!Count(o, n) = Count(o, n)
<1>1. \A S : Postgresql!Cardinality(S) = Cardinality(S)
  <2>1. \A S : Postgresql!IsFiniteSet(S) = IsFiniteSet(S)
    BY DEF Postgresql!IsFiniteSet, IsFiniteSet
  <2> QED
    BY <2>1 DEF Postgresql!Cardinality, Cardinality
<1>2. \A s, t, n : Postgresql!Writes(s, t, n) = Writes(s, t, n)
  <2>1. \A s : Postgresql!Unused(s) = Unused(s)
    BY DEF Postgresql!Unused, Unused, Postgresql!Work, Work
  <2>2. \A t, n : Postgresql!Effects(t, n) = Effects(t, n)
    BY <1>1 DEF Postgresql!Effects, Effects
  <2>3. \A S, k : Postgresql!Lowest(S, k) = Lowest(S, k)
    BY <1>1 DEF Postgresql!Lowest, Lowest
  <2> QED
    BY <2>1, <2>2, <2>3 DEF Postgresql!Writes, Writes
<1>3. \A s, t : Postgresql!Given(s, t) = Given(s, t)
  BY <1>2 DEF Postgresql!Given, Given
<1>4. /\ Postgresql!Conn = Conn /\ Postgresql!MaxLines = MaxLines
      /\ Postgresql!Silent = Silent /\ Postgresql!NoReply = NoReply
  BY DEF Postgresql!Conn, Conn, Postgresql!MaxLines, MaxLines, Postgresql!Silent, Silent, Postgresql!NoReply, NoReply
<1>5. \A s : /\ Postgresql!Linked(s) = Linked(s) /\ Postgresql!Begun(s) = Begun(s)
             /\ Postgresql!Committed(s) = Committed(s) /\ Postgresql!RolledBack(s) = RolledBack(s)
             /\ Postgresql!HungUp(s) = HungUp(s)
  BY <1>4 DEF Postgresql!Linked, Linked, Postgresql!Begun, Begun, Postgresql!Committed, Committed,
              Postgresql!RolledBack, RolledBack, Postgresql!HungUp, HungUp
<1>6. \A s, ids : Postgresql!Written(s, ids) = Written(s, ids)
  BY DEF Postgresql!Written, Written
<1>7. \A t : /\ Postgresql!UpToError(t) = UpToError(t) /\ Postgresql!Rows(t) = Rows(t)
             /\ Postgresql!Selects(t) <=> Selects(t)
  <2>1. \A t : Postgresql!UpToError(t) = UpToError(t)
    BY DEF Postgresql!UpToError, UpToError
  <2>2. \A t : Postgresql!Selects(t) <=> Selects(t)
    BY DEF Postgresql!Selects, Selects
  <2> QED
    BY <2>1, <2>2 DEF Postgresql!Rows, Rows
<1>8. \A r : Postgresql!Another(r) = Another(r)
  BY DEF Postgresql!Another, Another
<1>9. \A o, m, e : Postgresql!Answer(o, m, e) = Answer(o, m, e)
  BY <1>4 DEF Postgresql!Answer, Answer
<1>10. /\ \A o, e, ids : Postgresql!Executed(o, e, ids) = Executed(o, e, ids)
       /\ \A o, q : Postgresql!NoLine(o, q) = NoLine(o, q)
       /\ \A o, q, n, r : Postgresql!GivenLine(o, q, n, r) = GivenLine(o, q, n, r)
       /\ \A o, n : Postgresql!Count(o, n) = Count(o, n)
  BY <1>9 DEF Postgresql!Executed, Executed, Postgresql!NoLine, NoLine, Postgresql!GivenLine, GivenLine,
              Postgresql!Count, Count
<1> QED
  BY <1>2, <1>3, <1>4, <1>5, <1>6, <1>7, <1>8, <1>9, <1>10

PostgresqlRecord ==
    [alive : BOOLEAN, parent : Obj \cup {NoObj}, clones : SUBSET Obj,
     conn : Conn \cup {0}, res : 0 .. 2, len : 0 .. MaxLines, respos : -1 .. MaxLines]

ConnsOf(S) == [o \in Obj |-> S[o].conn]

PostgresqlInv ==
    /\ obj \in [Obj -> PostgresqlRecord] /\ srv \in [Conn -> Server] /\ reply \in Reply
    /\ Family(obj, ConnsOf(obj), srv)

LEMMA PostgresqlAbsent ==
    /\ Postgresql!Absent \in PostgresqlRecord
    /\ Postgresql!Absent.alive = FALSE /\ Postgresql!Absent.parent = NoObj
    /\ Postgresql!Absent.clones = {} /\ Postgresql!Absent.conn = 0
    /\ Postgresql!Absent.res = 0
    /\ Postgresql!Fresh \in PostgresqlRecord
    /\ Postgresql!Fresh.alive = TRUE /\ Postgresql!Fresh.parent = NoObj
    /\ Postgresql!Fresh.clones = {} /\ Postgresql!Fresh.conn = 0
    /\ Postgresql!Fresh.res = 0
<1>1. /\ Postgresql!Absent \in PostgresqlRecord
      /\ Postgresql!Absent.alive = FALSE /\ Postgresql!Absent.parent = NoObj
      /\ Postgresql!Absent.clones = {} /\ Postgresql!Absent.conn = 0
      /\ Postgresql!Absent.res = 0
  BY LinesFacts DEF Postgresql!Absent, PostgresqlRecord
<1>2. PICK b \in BOOLEAN : b = TRUE
  OBVIOUS
<1>3. Postgresql!Fresh = [Postgresql!Absent EXCEPT !.alive = b]
  BY <1>2 DEF Postgresql!Fresh
<1>4. /\ Postgresql!Fresh \in PostgresqlRecord
      /\ Postgresql!Fresh.alive = b /\ Postgresql!Fresh.parent = NoObj
      /\ Postgresql!Fresh.clones = {} /\ Postgresql!Fresh.conn = 0
      /\ Postgresql!Fresh.res = 0
  BY <1>1, <1>3 DEF PostgresqlRecord
<1> QED
  BY <1>1, <1>2, <1>4

(* Only the result of an object changes. *)
LEMMA PostgresqlChange ==
    ASSUME PostgresqlInv, NEW o \in Obj, NEW r \in PostgresqlRecord,
           r.alive = obj[o].alive, r.parent = obj[o].parent, r.clones = obj[o].clones,
           r.conn = obj[o].conn,
           obj' = [obj EXCEPT ![o] = r], ServerMoves(srv, srv'), reply' \in Reply
    PROVE  PostgresqlInv'
<1>1. obj' \in [Obj -> PostgresqlRecord]
  BY DEF PostgresqlInv
<1>2. \A p \in Obj : SameObject(obj, obj', ConnsOf(obj), ConnsOf(obj'), p)
  BY DEF PostgresqlInv, SameObject, ConnsOf
<1>3. Family(obj', ConnsOf(obj'), srv')
  BY <1>2, FamilySame DEF PostgresqlInv, ServerMoves
<1> QED
  BY <1>1, <1>3 DEF PostgresqlInv, ServerMoves, ConnsOf

(* No record changes. *)
LEMMA PostgresqlSame ==
    ASSUME PostgresqlInv, obj' = obj, ServerMoves(srv, srv'), reply' \in Reply
    PROVE  PostgresqlInv'
<1>1. \A p \in Obj : SameObject(obj, obj', ConnsOf(obj), ConnsOf(obj'), p)
  BY DEF SameObject
<1>2. Family(obj', ConnsOf(obj'), srv')
  BY <1>1, FamilySame DEF PostgresqlInv, ServerMoves
<1> QED
  BY <1>2 DEF PostgresqlInv, ServerMoves, ConnsOf

(* The roots. *)
LEMMA PostgresqlRoot ==
    ASSUME PostgresqlInv, NEW o \in Obj, NEW r \in PostgresqlRecord, obj[o].parent = NoObj,
           r.parent = NoObj, r.clones = {}, ~r.alive => r.conn = 0,
           \/ r.conn \in {0, obj[o].conn}
           \/ r.conn \in Conn /\ srv[r.conn].link = "unused" /\ srv'[r.conn].link # "unused",
           obj' = [p \in Obj |-> IF p = o THEN r
                                 ELSE IF p \in obj[o].clones THEN Postgresql!Absent ELSE obj[p]],
           ServerMoves(srv, srv'), reply' \in Reply
    PROVE  PostgresqlInv'
<1>1. obj' \in [Obj -> PostgresqlRecord]
  BY PostgresqlAbsent DEF PostgresqlInv
<1>2. /\ obj'[o] = r
      /\ \A p \in Obj \ {o} : obj'[p] = IF p \in obj[o].clones THEN Postgresql!Absent ELSE obj[p]
  OBVIOUS
<1>3. \A p \in Obj \ {o} :
         IF p \in obj[o].clones
         THEN ~obj'[p].alive /\ obj'[p].parent = NoObj /\ obj'[p].clones = {} /\ ConnsOf(obj')[p] = 0
         ELSE SameObject(obj, obj', ConnsOf(obj), ConnsOf(obj'), p)
  BY <1>2, PostgresqlAbsent DEF SameObject, ConnsOf
<1>4. ConnsOf(obj')[o] = r.conn /\ ConnsOf(obj)[o] = obj[o].conn
  BY <1>2 DEF ConnsOf
<1>5. Family(obj', ConnsOf(obj'), srv')
  <2>1. RootStep(obj, ConnsOf(obj), srv, obj', ConnsOf(obj'), srv', o)
    BY <1>2, <1>3, <1>4 DEF RootStep, ServerMoves, PostgresqlInv
  <2> QED
    BY <2>1, FamilyRoot, Zenon
<1> QED
  BY <1>1, <1>5 DEF PostgresqlInv, ServerMoves, ConnsOf

(* A clone is attached, and detached. *)
LEMMA PostgresqlAttach ==
    ASSUME PostgresqlInv, NEW r \in Obj, NEW n \in Obj, NEW s \in PostgresqlRecord,
           obj[r].alive, obj[r].parent = NoObj, obj[r].conn # 0, ~obj[n].alive,
           s.alive, s.parent = r, s.clones = {}, s.conn = obj[r].conn,
           Attached(obj, obj', r, n, s),
           ServerMoves(srv, srv'), reply' \in Reply
    PROVE  PostgresqlInv'
<1>1. n # r
  OBVIOUS
<1>2. /\ obj'[n] = s /\ obj'[r] = [obj[r] EXCEPT !.clones = @ \cup {n}]
      /\ \A p \in Obj \ {n, r} : obj'[p] = obj[p]
      /\ DOMAIN obj' = Obj
  BY <1>1 DEF PostgresqlInv, Attached
<1>3. /\ obj'[r] \in PostgresqlRecord /\ obj'[r].clones = obj[r].clones \cup {n}
      /\ obj'[r].alive = obj[r].alive /\ obj'[r].parent = obj[r].parent
      /\ obj'[r].conn = obj[r].conn
  <2>1. obj[r] \in PostgresqlRecord
    BY DEF PostgresqlInv
  <2>2. PICK M \in SUBSET Obj : M = obj[r].clones \cup {n}
    BY <2>1 DEF PostgresqlRecord
  <2>3. obj'[r] = [obj[r] EXCEPT !.clones = M]
    BY <1>2, <2>2
  <2> QED
    BY <2>1, <2>2, <2>3 DEF PostgresqlRecord
<1>4. obj' \in [Obj -> PostgresqlRecord]
  <2>1. ASSUME NEW p \in Obj PROVE obj'[p] \in PostgresqlRecord
    <3>1. CASE p = r \/ p = n
      BY <1>2, <1>3, <3>1
    <3>2. CASE p # r /\ p # n
      BY <1>2, <3>2 DEF PostgresqlInv
    <3> QED
      BY <3>1, <3>2
  <2> QED
    BY <2>1 DEF PostgresqlInv, Attached
<1>5. Family(obj', ConnsOf(obj'), srv')
  <2>1. \A p \in Obj \ {r, n} : SameObject(obj, obj', ConnsOf(obj), ConnsOf(obj'), p)
    BY <1>2 DEF SameObject, ConnsOf
  <2>2. ConnsOf(obj)[r] # 0 /\ ConnsOf(obj')[n] = ConnsOf(obj)[r] /\ ConnsOf(obj')[r] = ConnsOf(obj)[r]
    BY <1>2, <1>3 DEF ConnsOf, PostgresqlInv
  <2>3. CloneStep(obj, ConnsOf(obj), srv, obj', ConnsOf(obj'), srv', r, n)
    BY <1>2, <1>3, <2>1, <2>2 DEF CloneStep, ServerMoves, PostgresqlInv
  <2> QED
    BY <2>3, FamilyClone, Zenon
<1> QED
  BY <1>4, <1>5 DEF PostgresqlInv, ServerMoves, ConnsOf

LEMMA PostgresqlDetach ==
    ASSUME PostgresqlInv, NEW o \in Obj, NEW r \in Obj, obj[o].alive, obj[o].parent = r,
           Detached(obj, obj', r, o, Postgresql!Absent),
           ServerMoves(srv, srv'), reply' \in Reply
    PROVE  PostgresqlInv'
<1>1. r # o
  BY ServerAssumption DEF PostgresqlInv, Family
<1>2. /\ obj'[o] = Postgresql!Absent /\ obj'[r] = [obj[r] EXCEPT !.clones = @ \ {o}]
      /\ \A p \in Obj \ {o, r} : obj'[p] = obj[p]
      /\ DOMAIN obj' = Obj
  BY <1>1 DEF PostgresqlInv, Detached
<1>3. /\ obj'[r] \in PostgresqlRecord /\ obj'[r].clones = obj[r].clones \ {o}
      /\ obj'[r].alive = obj[r].alive /\ obj'[r].parent = obj[r].parent
      /\ obj'[r].conn = obj[r].conn
  BY <1>2 DEF PostgresqlInv, PostgresqlRecord
<1>4. obj' \in [Obj -> PostgresqlRecord]
  <2>1. ASSUME NEW p \in Obj PROVE obj'[p] \in PostgresqlRecord
    <3>1. CASE p = r \/ p = o
      BY <1>2, <1>3, <3>1, PostgresqlAbsent
    <3>2. CASE p # r /\ p # o
      BY <1>2, <3>2 DEF PostgresqlInv
    <3> QED
      BY <3>1, <3>2
  <2> QED
    BY <2>1 DEF PostgresqlInv, Detached
<1>5. Family(obj', ConnsOf(obj'), srv')
  <2>1. ASSUME NEW p \in Obj \ {r, o}
        PROVE  SameObject(obj, obj', ConnsOf(obj), ConnsOf(obj'), p)
    <3>1. obj'[p] = obj[p]
      BY <1>2
    <3> QED
      BY <3>1 DEF SameObject, ConnsOf
  <2>2. ConnsOf(obj')[o] = 0 /\ ConnsOf(obj')[r] = ConnsOf(obj)[r]
    BY <1>2, <1>3, PostgresqlAbsent DEF ConnsOf
  <2>3. UncloneStep(obj, ConnsOf(obj), srv, obj', ConnsOf(obj'), srv', r, o)
    BY <1>1, <1>2, <1>3, <2>1, <2>2, PostgresqlAbsent DEF UncloneStep, ServerMoves, PostgresqlInv
  <2> QED
    BY <2>3, FamilyUnclone, Zenon
<1> QED
  BY <1>4, <1>5 DEF PostgresqlInv, ServerMoves, ConnsOf

LEMMA PostgresqlBase ==
    ASSUME PostgresqlInv, NEW o \in Obj
    PROVE  /\ obj[o] \in PostgresqlRecord
           /\ ~obj[o].alive => obj[o].conn = 0 /\ obj[o].parent = NoObj
           /\ obj[o].conn = 0 => obj[o].clones = {}
           /\ obj[o].parent # NoObj => obj[o].parent \in Obj /\ obj[o].clones = {}
<1>1. obj[o] \in PostgresqlRecord
  BY DEF PostgresqlInv
<1>2. ConnsOf(obj)[o] = obj[o].conn
  BY DEF ConnsOf
<1>3. obj[o].parent # NoObj => obj[o].parent \in Obj /\ obj[o].clones = {}
  BY ServerAssumption DEF PostgresqlInv, Family
<1> QED
  BY <1>1, <1>2, <1>3 DEF PostgresqlInv, Family

LEMMA PostgresqlNew ==
    ASSUME PostgresqlInv, NEW o \in Obj, Postgresql!New(o)
    PROVE  PostgresqlInv'
<1>1. /\ ~obj[o].alive /\ obj' = [obj EXCEPT ![o] = Postgresql!Fresh]
      /\ reply' = Answer(o, "new", "ok") /\ srv' = srv
  BY PostgresqlServer DEF Postgresql!New
<1>2. obj[o].clones = {} /\ obj[o].parent = NoObj /\ obj[o].conn = 0
  BY <1>1, PostgresqlBase
<1>3. reply' \in Reply /\ ServerMoves(srv, srv')
  BY <1>1, AnswerFacts, ServerSame DEF PostgresqlInv, ServerStep, Methods, Endings
<1>4. obj' = [p \in Obj |-> IF p = o THEN Postgresql!Fresh
                           ELSE IF p \in obj[o].clones THEN Postgresql!Absent ELSE obj[p]]
  BY <1>1, <1>2 DEF PostgresqlInv
<1> QED
  BY <1>2, <1>3, <1>4, PostgresqlAbsent, PostgresqlRoot

LEMMA PostgresqlOpen ==
    ASSUME PostgresqlInv, NEW o \in Obj, Postgresql!Open(o)
    PROVE  PostgresqlInv'
<1>1. /\ reply' \in Reply
      /\ obj[o].alive /\ obj[o].parent = NoObj
  BY AnswerFacts, PostgresqlServer DEF Postgresql!Open, Postgresql!IsClone, Methods, Endings
<1>2. CASE obj' = obj /\ srv' = srv
  BY <1>1, <1>2, ServerSame, PostgresqlSame DEF PostgresqlInv, ServerStep
<1>3. ASSUME NEW c \in Conn, srv[c].link = "unused", obj[o].conn = 0,
             obj' = [obj EXCEPT ![o].conn = c],
             srv' = [srv EXCEPT ![c] = Linked(@)]
      PROVE  PostgresqlInv'
  <2>2. PICK r : r = [obj[o] EXCEPT !.conn = c]
    OBVIOUS
  <2>3. obj[o] \in PostgresqlRecord /\ obj[o].clones = {}
    BY <1>3, PostgresqlBase
  <2>4. /\ r \in PostgresqlRecord /\ r.conn = c
        /\ r.alive = obj[o].alive /\ r.parent = obj[o].parent /\ r.clones = {}
    BY <2>2, <2>3 DEF PostgresqlRecord
  <2>5. obj' = [p \in Obj |-> IF p = o THEN r
                             ELSE IF p \in obj[o].clones THEN Postgresql!Absent ELSE obj[p]]
    BY <1>3, <2>2, <2>3 DEF PostgresqlInv
  <2>6. srv[c] \in Server
    BY DEF PostgresqlInv
  <2>7. ServerMoves(srv, srv') /\ srv'[c].link # "unused"
    <3>1. Linked(srv[c]) \in Server /\ Linked(srv[c]).link = "open"
      BY <2>6, ServerFacts
    <3>2. srv \in [Conn -> Server]
      BY DEF PostgresqlInv
    <3>3. ServerMoves(srv, [srv EXCEPT ![c] = Linked(srv[c])])
      BY <3>1, <3>2, ServerChange
    <3> QED
      BY <1>3, <3>1, <3>2, <3>3
  <2>8. /\ obj[o].parent = NoObj /\ r.parent = NoObj /\ r.alive
        /\ r.conn \in Conn /\ srv[r.conn].link = "unused" /\ srv'[r.conn].link # "unused"
    BY <1>1, <1>3, <2>4, <2>7
  <2> QED
    BY <1>1, <2>4, <2>5, <2>7, <2>8, PostgresqlRoot
<1> QED
  BY <1>2, <1>3, PostgresqlServer DEF Postgresql!Open

(* What exec does to the connection. *)
LEMMA PostgresqlPQexec ==
    ASSUME NEW s \in Server, NEW t
    PROVE  LET w == Postgresql!PQexec(s, t)
           IN /\ w \in Server /\ w.link = s.link
              /\ s.pending \subseteq w.pending \/ w.txn = "aborted"
<1>1. /\ Given(s, t) \in Server /\ Given(s, t).link = s.link /\ Given(s, t).txn = s.txn
      /\ Given(s, t).pending = s.pending
  BY GivenFacts
<1>2. CASE Postgresql!PQexec(s, t) = Written(Given(s, t), Writes(s, t, Len(t)))
  <2>1. Writes(s, t, Len(t)) \in SUBSET Work
    BY WritesFacts
  <2> DEFINE g == Given(s, t)
             w == Written(g, Writes(s, t, Len(t)))
  <2>2. /\ w \in Server /\ w.link = g.link
        /\ w.pending = IF g.txn = "none" THEN g.pending ELSE g.pending \cup Writes(s, t, Len(t))
    BY <1>1, <2>1, WrittenFacts
  <2> QED
    BY <1>1, <1>2, <2>2
<1>3. CASE Postgresql!PQexec(s, t) = Given(s, t)
  BY <1>1, <1>3
<1>4. CASE Postgresql!PQexec(s, t) = [s EXCEPT !.txn = "aborted", !.pending = {}]
  BY <1>4 DEF Server
<1> QED
  BY <1>2, <1>3, <1>4, PostgresqlServer DEF Postgresql!PQexec

(* What exec does to the record. *)
LEMMA PostgresqlReplaced ==
    ASSUME NEW r \in PostgresqlRecord, NEW fetch \in BOOLEAN, NEW rows \in 0 .. MaxLines
    PROVE  LET n == Postgresql!Replaced(r, fetch, rows)
           IN /\ n \in PostgresqlRecord /\ n.alive = r.alive /\ n.parent = r.parent
              /\ n.clones = r.clones /\ n.conn = r.conn /\ n.len = rows /\ n.respos = -1
              /\ n.res = IF fetch THEN Another(r.res) ELSE 0
<1>1. r.res \in 0 .. 2
  BY DEF PostgresqlRecord
<1>2. PICK k \in 0 .. 2 : k = IF fetch THEN Another(r.res) ELSE 0
  BY <1>1, AnotherFacts
<1>3. PICK z \in -1 .. MaxLines : z = -1
  BY LinesFacts
<1>4. Postgresql!Replaced(r, fetch, rows) = [r EXCEPT !.res = k, !.len = rows, !.respos = z]
  BY <1>2, <1>3, PostgresqlServer DEF Postgresql!Replaced
<1>5. Postgresql!Replaced(r, fetch, rows) \in PostgresqlRecord
  BY <1>4 DEF PostgresqlRecord
<1> QED
  BY <1>2, <1>3, <1>4, <1>5 DEF PostgresqlRecord

(* A record that is replaced, or not. *)
LEMMA PostgresqlReplace ==
    ASSUME PostgresqlInv, NEW o \in Obj, NEW fetch \in BOOLEAN, NEW rows \in 0 .. MaxLines,
           obj' = [obj EXCEPT ![o] = Postgresql!Replaced(@, fetch, rows)],
           ServerMoves(srv, srv'), reply' \in Reply
    PROVE  PostgresqlInv'
<1> DEFINE r == Postgresql!Replaced(obj[o], fetch, rows)
<1>1. obj[o] \in PostgresqlRecord
  BY DEF PostgresqlInv
<1>2. /\ r \in PostgresqlRecord
      /\ r.alive = obj[o].alive /\ r.parent = obj[o].parent /\ r.clones = obj[o].clones
      /\ r.conn = obj[o].conn
  BY <1>1, PostgresqlReplaced
<1>3. obj' = [obj EXCEPT ![o] = r]
  OBVIOUS
<1> HIDE DEF r
<1> QED
  BY <1>2, <1>3, PostgresqlChange

LEMMA PostgresqlExec ==
    ASSUME PostgresqlInv, NEW o \in Obj, NEW t, NEW fetch \in BOOLEAN, NEW args \in BOOLEAN,
           Postgresql!Exec(o, t, fetch, args)
    PROVE  PostgresqlInv'
<1> DEFINE c == obj[o].conn
           after == IF args THEN Postgresql!PQexec(srv[c], t) ELSE Given(srv[c], t)
<1>1. /\ srv' = [srv EXCEPT ![c] = after]
      /\ \E rows \in IF fetch THEN Rows(t) ELSE {0} :
            \/ obj' = [obj EXCEPT ![o] = Postgresql!Replaced(@, fetch, rows)]
            \/ obj' = [obj EXCEPT ![o] = @]
      /\ \/ reply' = Executed(o, "ok", Writes(srv[c], t, Len(t)))
         \/ reply' = Executed(o, "failed", Writes(srv[c], t, Len(t)))
  BY PostgresqlServer DEF Postgresql!Exec
<1>2. reply' \in Reply
  BY <1>1, ReplyFacts, WritesFacts DEF Endings
<1>3. ServerMoves(srv, srv')
  <2>1. srv \in [Conn -> Server]
    BY DEF PostgresqlInv
  <2>2. c \in Conn => srv[c] \in Server
    BY <2>1
  <2>3. c \in Conn => after \in Server /\ after.link = srv[c].link
    BY <2>2, PostgresqlPQexec, GivenFacts
  <2> HIDE DEF after, c
  <2>4. ServerMoves(srv, [srv EXCEPT ![c] = after])
    BY <2>1, <2>3, ServerChange
  <2> QED
    BY <1>1, <2>4
<1>4. CASE obj' = [obj EXCEPT ![o] = @]
  <2>1. obj' = obj
    BY <1>4 DEF PostgresqlInv
  <2> QED
    BY <1>2, <1>3, <2>1, PostgresqlSame
<1> QED
  BY <1>1, <1>2, <1>3, <1>4, RowsFacts, PostgresqlReplace

LEMMA PostgresqlFetch ==
    ASSUME PostgresqlInv, NEW o \in Obj, NEW q \in -2 .. MaxLines, Postgresql!Fetch(o, q)
    PROVE  PostgresqlInv'
<1> DEFINE line == Postgresql!Wanted(o, q)
           asked == Postgresql!Asked(o, q)
<1>1. obj[o] \in PostgresqlRecord /\ srv' = srv /\ ServerMoves(srv, srv')
  BY ServerSame DEF PostgresqlInv, Postgresql!Fetch, ServerStep
<1>2. asked \in -2 .. MaxLines
  BY <1>1 DEF Postgresql!Asked, PostgresqlRecord
<1>3. line \in Int /\ obj[o].len \in 0 .. MaxLines /\ obj[o].res \in 0 .. 2
  BY <1>1, <1>2 DEF Postgresql!Wanted, PostgresqlRecord
<1>4. /\ \/ reply' = NoLine(o, asked)
         \/ line < obj[o].len /\ line >= 0 /\ reply' = GivenLine(o, asked, line, obj[o].res)
      /\ \/ obj' = obj
         \/ line >= 0 /\ obj' = [obj EXCEPT ![o] = Postgresql!Moved(@, line)]
  <2> HIDE DEF asked
  <2>1. CASE obj[o].res = 0 \/ line < 0
    BY <2>1, PostgresqlServer DEF Postgresql!Fetch, asked
  <2>2. CASE ~(obj[o].res = 0 \/ line < 0)
    <3>1. /\ obj' = [obj EXCEPT ![o] = Postgresql!Moved(@, line)]
          /\ reply' = IF line >= obj[o].len THEN NoLine(o, asked)
                      ELSE GivenLine(o, asked, line, obj[o].res)
      BY <2>2, PostgresqlServer DEF Postgresql!Fetch, asked
    <3> HIDE DEF line
    <3> QED
      BY <1>3, <2>2, <3>1
  <2> QED
    BY <2>1, <2>2
<1> HIDE DEF line, asked
<1>5. reply' \in Reply
  BY <1>2, <1>3, <1>4, ReplyFacts, LinesFacts
<1>6. CASE obj' = obj
  BY <1>1, <1>5, <1>6, PostgresqlSame
<1>7. ASSUME line >= 0, obj' = [obj EXCEPT ![o] = Postgresql!Moved(@, line)]
      PROVE  PostgresqlInv'
  <2>1. PICK k \in -1 .. MaxLines : k = IF line > obj[o].len THEN obj[o].len ELSE line
    BY <1>3, <1>7, LinesFacts
  <2>2. PICK r : r = [obj[o] EXCEPT !.respos = k]
    OBVIOUS
  <2>3. /\ r \in PostgresqlRecord
        /\ r.alive = obj[o].alive /\ r.parent = obj[o].parent /\ r.clones = obj[o].clones
        /\ r.conn = obj[o].conn
    BY <1>1, <2>2 DEF PostgresqlRecord
  <2>4. obj' = [obj EXCEPT ![o] = r]
    BY <1>7, <2>1, <2>2 DEF Postgresql!Moved
  <2> QED
    BY <1>1, <1>5, <2>3, <2>4, PostgresqlChange
<1> QED
  BY <1>4, <1>6, <1>7

LEMMA PostgresqlLines ==
    ASSUME PostgresqlInv, NEW o \in Obj, Postgresql!FetchLines(o)
    PROVE  PostgresqlInv'
<1>1. obj[o].len \in 0 .. MaxLines
  BY DEF PostgresqlInv, PostgresqlRecord
<1>2. reply' \in Reply
  BY <1>1, ReplyFacts, PostgresqlServer DEF Postgresql!FetchLines, Methods, Endings
<1> QED
  BY <1>2, ServerSame, PostgresqlSame DEF Postgresql!FetchLines, PostgresqlInv, ServerStep

LEMMA PostgresqlClear ==
    ASSUME PostgresqlInv, NEW o \in Obj, Postgresql!FetchClear(o)
    PROVE  PostgresqlInv'
<1>1. obj[o] \in PostgresqlRecord /\ ServerMoves(srv, srv')
  BY ServerSame DEF PostgresqlInv, Postgresql!FetchClear, ServerStep
<1>2. reply' \in Reply
  BY ReplyFacts, PostgresqlServer DEF Postgresql!FetchClear, Methods, Endings
<1>3. PICK z \in 0 .. MaxLines : z = 0
  BY LinesFacts
<1>4. PICK k \in 0 .. 2 : k = 0
  OBVIOUS
<1>5. PICK r : r = [obj[o] EXCEPT !.res = k, !.len = z]
  OBVIOUS
<1>6. r \in PostgresqlRecord
  BY <1>1, <1>5 DEF PostgresqlRecord
<1>7. /\ r.alive = obj[o].alive /\ r.parent = obj[o].parent /\ r.clones = obj[o].clones
      /\ r.conn = obj[o].conn
  BY <1>1, <1>5 DEF PostgresqlRecord
<1>8. obj' = [obj EXCEPT ![o] = r]
  BY <1>3, <1>4, <1>5 DEF Postgresql!FetchClear, PostgresqlInv
<1> QED
  BY <1>1, <1>2, <1>6, <1>7, <1>8, PostgresqlChange

(* begin, commit and rollback. *)
LEMMA PostgresqlTransaction ==
    ASSUME PostgresqlInv, NEW o \in Obj,
           \/ Postgresql!Transaction_Start(o) \/ Postgresql!Transaction_Commit(o)
           \/ Postgresql!Transaction_Rollback(o)
    PROVE  PostgresqlInv'
<1> DEFINE c == obj[o].conn
           s == srv[c]
<1>1. CASE reply' = Answer(o, "begin", "failed") /\ obj' = obj /\ srv' = srv
  BY <1>1, AnswerFacts, ServerSame, PostgresqlSame DEF PostgresqlInv, ServerStep, Methods, Endings
<1>2. ASSUME NEW method \in Methods, NEW after \in {Begun(s), Committed(s), RolledBack(s)},
             Postgresql!Command(o, method, after)
      PROVE  PostgresqlInv'
  <2>1. reply' \in Reply
    BY <1>2, AnswerFacts, PostgresqlServer DEF Postgresql!Command, Endings
  <2>2. /\ srv' = [srv EXCEPT ![c] = after]
        /\ obj' = [obj EXCEPT ![o] = Postgresql!Replaced(@, FALSE, 0)]
    BY <1>2 DEF Postgresql!Command
  <2>3. srv \in [Conn -> Server]
    BY DEF PostgresqlInv
  <2>4. c \in Conn => after \in Server /\ after.link = s.link
    <3>1. c \in Conn => s \in Server
      BY <2>3
    <3> HIDE DEF s, c
    <3> QED
      BY <1>2, <3>1, ServerFacts
  <2> HIDE DEF c
  <2>5. ServerMoves(srv, [srv EXCEPT ![c] = after])
    BY <2>3, <2>4, ServerChange
  <2> QED
    BY <2>1, <2>2, <2>5, LinesFacts, PostgresqlReplace
<1> QED
  BY <1>1, <1>2, PostgresqlServer DEF Postgresql!Transaction_Start, Postgresql!Transaction_Commit,
     Postgresql!Transaction_Rollback, Methods

LEMMA PostgresqlClone ==
    ASSUME PostgresqlInv, NEW o \in Obj, NEW n \in Obj, Postgresql!Clone(o, n)
    PROVE  PostgresqlInv'
<1>1. PICK r \in Obj : /\ r = Postgresql!Root(o) /\ obj[r].alive /\ obj[r].parent = NoObj
                       /\ obj[r].conn # 0
  <2>1. CASE obj[o].parent = NoObj
    BY <2>1 DEF Postgresql!Clone, Postgresql!Root, Postgresql!IsClone, Postgresql!Connected
  <2>2. CASE obj[o].parent # NoObj
    <3>1. obj[o].parent \in Obj /\ obj[o].alive /\ obj[o].conn # 0
      BY <2>2, PostgresqlBase DEF Postgresql!Clone, Postgresql!Connected
    <3>2. /\ obj[obj[o].parent].alive /\ obj[obj[o].parent].parent = NoObj
          /\ ConnsOf(obj)[obj[o].parent] = ConnsOf(obj)[o]
      BY <2>2, <3>1 DEF PostgresqlInv, Family
    <3> QED
      BY <2>2, <3>1, <3>2 DEF Postgresql!Root, Postgresql!IsClone, ConnsOf
  <2> QED
    BY <2>1, <2>2
<1>2. PICK s : s = [Postgresql!Fresh EXCEPT !.parent = r, !.conn = obj[r].conn]
  OBVIOUS
<1>3. obj[r] \in PostgresqlRecord
  BY DEF PostgresqlInv
<1>4. /\ s \in PostgresqlRecord /\ s.alive /\ s.parent = r /\ s.clones = {}
      /\ s.conn = obj[r].conn
  BY <1>2, <1>3, PostgresqlAbsent DEF PostgresqlRecord
<1>5. /\ Attached(obj, obj', r, n, s) /\ ~obj[n].alive
      /\ reply' = Answer(n, "clone", "ok") /\ srv' = srv
  BY <1>1, <1>2, PostgresqlServer DEF Postgresql!Clone, Attached
<1>6. reply' \in Reply /\ ServerMoves(srv, srv')
  BY <1>5, AnswerFacts, ServerSame DEF PostgresqlInv, ServerStep, Methods, Endings
<1> QED
  BY <1>1, <1>4, <1>5, <1>6, PostgresqlAttach

LEMMA PostgresqlFinished ==
    ASSUME PostgresqlInv, NEW o \in Obj, srv' = Postgresql!Finished(o)
    PROVE  ServerMoves(srv, srv')
<1>1. srv \in [Conn -> Server]
  BY DEF PostgresqlInv
<1>2. \A s \in Server : HungUp(s) \in Server /\ HungUp(s).link = "closed"
  BY ServerFacts
<1>3. \A c \in Conn : srv'[c] = HungUp(srv[c]) \/ srv'[c] = srv[c]
  BY PostgresqlServer DEF Postgresql!Finished
<1>4. srv' = [c \in Conn |-> srv'[c]]
  BY PostgresqlServer DEF Postgresql!Finished
<1> QED
  BY <1>1, <1>2, <1>3, <1>4 DEF ServerMoves, NoneUnused

LEMMA PostgresqlClose ==
    ASSUME PostgresqlInv, NEW o \in Obj, Postgresql!Close(o) \/ Postgresql!Destroy(o)
    PROVE  PostgresqlInv'
<1>1. PICK m \in Methods, e \in Endings : reply' = Answer(o, m, e)
  BY PostgresqlServer DEF Postgresql!Close, Postgresql!Destroy, Methods, Endings
<1>2. reply' \in Reply /\ ServerMoves(srv, srv') /\ obj[o].alive
  BY <1>1, AnswerFacts, PostgresqlFinished
     DEF Postgresql!Close, Postgresql!Destroy, Postgresql!Connected
<1>3. obj[o] \in PostgresqlRecord
  BY DEF PostgresqlInv
<1>4. CASE Postgresql!IsClone(o) /\ obj' = Postgresql!DestroyClone(o)
  <2>1. PICK r \in Obj : r = obj[o].parent
    BY <1>4, PostgresqlBase DEF Postgresql!IsClone
  <2>2. Detached(obj, obj', r, o, Postgresql!Absent)
    BY <1>4, <2>1 DEF Detached, Postgresql!DestroyClone
  <2> QED
    BY <1>2, <2>1, <2>2, PostgresqlDetach
<1>5. CASE ~Postgresql!IsClone(o) /\ obj' = Postgresql!CloseRoot(o)
  <2>1. PICK d \in Conn \cup {0} : d = 0
    OBVIOUS
  <2>2. PICK r : r = [obj[o] EXCEPT !.clones = {}, !.conn = d]
    OBVIOUS
  <2>3. r \in PostgresqlRecord
    BY <1>3, <2>2 DEF PostgresqlRecord
  <2>4. /\ r.parent = obj[o].parent /\ r.clones = {}
        /\ r.alive = obj[o].alive /\ r.conn = d
    BY <1>3, <2>2 DEF PostgresqlRecord
  <2>5. obj' = [p \in Obj |-> IF p = o THEN r
                              ELSE IF p \in obj[o].clones THEN Postgresql!Absent ELSE obj[p]]
    BY <1>5, <2>1, <2>2 DEF Postgresql!CloseRoot
  <2> QED
    BY <1>2, <1>5, <2>1, <2>3, <2>4, <2>5, PostgresqlRoot DEF Postgresql!IsClone
<1>6. CASE ~Postgresql!IsClone(o) /\ obj' = [Postgresql!CloseRoot(o) EXCEPT ![o] = Postgresql!Absent]
  <2>1. obj' = [p \in Obj |-> IF p = o THEN Postgresql!Absent
                              ELSE IF p \in obj[o].clones THEN Postgresql!Absent ELSE obj[p]]
    BY <1>6 DEF Postgresql!CloseRoot
  <2> QED
    BY <1>2, <1>6, <2>1, PostgresqlAbsent, PostgresqlRoot DEF Postgresql!IsClone
<1> QED
  BY <1>4, <1>5, <1>6 DEF Postgresql!Close, Postgresql!Destroy

LEMMA PostgresqlStep == PostgresqlInv /\ Postgresql!Next => PostgresqlInv'
<1> SUFFICES ASSUME PostgresqlInv, Postgresql!Next PROVE PostgresqlInv'
  OBVIOUS
<1>1. ASSUME NEW o \in Obj, Postgresql!New(o) \/ Postgresql!Open(o) PROVE PostgresqlInv'
  BY <1>1, PostgresqlNew, PostgresqlOpen
<1>2. ASSUME NEW o \in Obj, NEW t, NEW fetch \in BOOLEAN, NEW args \in BOOLEAN,
             Postgresql!Exec(o, t, fetch, args)
      PROVE  PostgresqlInv'
  BY <1>2, PostgresqlExec
<1>3. ASSUME NEW o \in Obj, NEW q \in -2 .. MaxLines, Postgresql!Fetch(o, q) PROVE PostgresqlInv'
  BY <1>3, PostgresqlFetch
<1>4. ASSUME NEW o \in Obj,
             \/ Postgresql!FetchLines(o) \/ Postgresql!FetchClear(o)
             \/ Postgresql!Transaction_Start(o) \/ Postgresql!Transaction_Commit(o)
             \/ Postgresql!Transaction_Rollback(o)
             \/ Postgresql!Close(o) \/ Postgresql!Destroy(o)
      PROVE  PostgresqlInv'
  BY <1>4, PostgresqlLines, PostgresqlClear, PostgresqlTransaction, PostgresqlClose
<1>5. ASSUME NEW o \in Obj, NEW n \in Obj, Postgresql!Clone(o, n) PROVE PostgresqlInv'
  BY <1>5, PostgresqlClone
<1> QED
  BY <1>1, <1>2, <1>3, <1>4, <1>5, PostgresqlServer DEF Postgresql!Next

LEMMA PostgresqlStart == Postgresql!Init => PostgresqlInv
<1> SUFFICES ASSUME Postgresql!Init PROVE PostgresqlInv
  OBVIOUS
<1>1. /\ obj = [o \in Obj |-> Postgresql!Absent] /\ srv = [c \in Conn |-> Silent]
      /\ reply = NoReply
  BY PostgresqlServer DEF Postgresql!Init
<1>2. obj \in [Obj -> PostgresqlRecord] /\ srv \in [Conn -> Server] /\ reply \in Reply
  BY <1>1, PostgresqlAbsent, SilentFacts, ReplyFacts
<1>3. Family(obj, ConnsOf(obj), srv)
  BY <1>1, PostgresqlAbsent, ServerAssumption DEF Family, ConnsOf
<1> QED
  BY <1>2, <1>3 DEF PostgresqlInv

-----------------------------------------------------------------------------------
(* ODBC. *)

(* OdbcSession sees the same server. *)
LEMMA OdbcServer ==
    /\ Odbc!Conn = Conn /\ Odbc!MaxLines = MaxLines
    /\ Odbc!Silent = Silent /\ Odbc!NoReply = NoReply
    /\ \A s : /\ Odbc!Linked(s) = Linked(s) /\ Odbc!Begun(s) = Begun(s)
              /\ Odbc!Committed(s) = Committed(s) /\ Odbc!RolledBack(s) = RolledBack(s)
              /\ Odbc!HungUp(s) = HungUp(s)
    /\ \A s, ids : Odbc!Written(s, ids) = Written(s, ids)
    /\ \A s, t, n : Odbc!Writes(s, t, n) = Writes(s, t, n)
    /\ \A s, t : Odbc!Given(s, t) = Given(s, t)
    /\ \A t : /\ Odbc!UpToError(t) = UpToError(t) /\ Odbc!Rows(t) = Rows(t)
              /\ Odbc!Selects(t) <=> Selects(t)
    /\ \A r : Odbc!Another(r) = Another(r)
    /\ \A o, m, e : Odbc!Answer(o, m, e) = Answer(o, m, e)
    /\ \A o, e, ids : Odbc!Executed(o, e, ids) = Executed(o, e, ids)
    /\ \A o, q : Odbc!NoLine(o, q) = NoLine(o, q)
    /\ \A o, q, n, r : Odbc!GivenLine(o, q, n, r) = GivenLine(o, q, n, r)
    /\ \A o, n : Odbc!Count(o, n) = Count(o, n)
<1>1. \A S : Odbc!Cardinality(S) = Cardinality(S)
  <2>1. \A S : Odbc!IsFiniteSet(S) = IsFiniteSet(S)
    BY DEF Odbc!IsFiniteSet, IsFiniteSet
  <2> QED
    BY <2>1 DEF Odbc!Cardinality, Cardinality
<1>2. \A s, t, n : Odbc!Writes(s, t, n) = Writes(s, t, n)
  <2>1. \A s : Odbc!Unused(s) = Unused(s)
    BY DEF Odbc!Unused, Unused, Odbc!Work, Work
  <2>2. \A t, n : Odbc!Effects(t, n) = Effects(t, n)
    BY <1>1 DEF Odbc!Effects, Effects
  <2>3. \A S, k : Odbc!Lowest(S, k) = Lowest(S, k)
    BY <1>1 DEF Odbc!Lowest, Lowest
  <2> QED
    BY <2>1, <2>2, <2>3 DEF Odbc!Writes, Writes
<1>3. \A s, t : Odbc!Given(s, t) = Given(s, t)
  BY <1>2 DEF Odbc!Given, Given
<1>4. /\ Odbc!Conn = Conn /\ Odbc!MaxLines = MaxLines
      /\ Odbc!Silent = Silent /\ Odbc!NoReply = NoReply
  BY DEF Odbc!Conn, Conn, Odbc!MaxLines, MaxLines, Odbc!Silent, Silent, Odbc!NoReply, NoReply
<1>5. \A s : /\ Odbc!Linked(s) = Linked(s) /\ Odbc!Begun(s) = Begun(s)
             /\ Odbc!Committed(s) = Committed(s) /\ Odbc!RolledBack(s) = RolledBack(s)
             /\ Odbc!HungUp(s) = HungUp(s)
  BY <1>4 DEF Odbc!Linked, Linked, Odbc!Begun, Begun, Odbc!Committed, Committed,
              Odbc!RolledBack, RolledBack, Odbc!HungUp, HungUp
<1>6. \A s, ids : Odbc!Written(s, ids) = Written(s, ids)
  BY DEF Odbc!Written, Written
<1>7. \A t : /\ Odbc!UpToError(t) = UpToError(t) /\ Odbc!Rows(t) = Rows(t)
             /\ Odbc!Selects(t) <=> Selects(t)
  <2>1. \A t : Odbc!UpToError(t) = UpToError(t)
    BY DEF Odbc!UpToError, UpToError
  <2>2. \A t : Odbc!Selects(t) <=> Selects(t)
    BY DEF Odbc!Selects, Selects
  <2> QED
    BY <2>1, <2>2 DEF Odbc!Rows, Rows
<1>8. \A r : Odbc!Another(r) = Another(r)
  BY DEF Odbc!Another, Another
<1>9. \A o, m, e : Odbc!Answer(o, m, e) = Answer(o, m, e)
  BY <1>4 DEF Odbc!Answer, Answer
<1>10. /\ \A o, e, ids : Odbc!Executed(o, e, ids) = Executed(o, e, ids)
       /\ \A o, q : Odbc!NoLine(o, q) = NoLine(o, q)
       /\ \A o, q, n, r : Odbc!GivenLine(o, q, n, r) = GivenLine(o, q, n, r)
       /\ \A o, n : Odbc!Count(o, n) = Count(o, n)
  BY <1>9 DEF Odbc!Executed, Executed, Odbc!NoLine, NoLine, Odbc!GivenLine, GivenLine,
              Odbc!Count, Count
<1> QED
  BY <1>2, <1>3, <1>4, <1>5, <1>6, <1>7, <1>8, <1>9, <1>10

OdbcRecord ==
    [alive : BOOLEAN, parent : Obj \cup {NoObj}, clones : SUBSET Obj,
     hdbc : Conn \cup {0}, auto : BOOLEAN, trans : BOOLEAN, begun : BOOLEAN,
     res : 0 .. 2, len : 0 .. MaxLines, known : -1 .. MaxLines, tuple : -1 .. MaxLines]

HdbcsOf(S) == [o \in Obj |-> S[o].hdbc]

(* A number of lines that the driver knows is not too small: only the last  *)
(* line may be missing in it.  In a transaction of the user autocommit is   *)
(* off.                                                                     *)
Sound(r) == (r.known = -1 \/ r.known >= r.len - 1) /\ (r.begun => ~r.auto)

(* The driver has a transaction open on the connection of every object.     *)
OdbcGood(S, C) ==
    /\ S \in [Obj -> OdbcRecord] /\ C \in [Conn -> Server]
    /\ Family(S, HdbcsOf(S), C)
    /\ \A o \in Obj : Sound(S[o])
    /\ \A o \in Obj : S[o].hdbc # 0 => C[S[o].hdbc].txn = "open"
    /\ NoneAborted(C)
OdbcInv == OdbcGood(obj, srv) /\ reply \in Reply

(* A record that differs from r in its flags and its result only, and what  *)
(* becomes of the connections of objects that remain.                       *)
OdbcAlike(r, s) ==
    /\ s \in OdbcRecord /\ (Sound(r) => Sound(s))
    /\ s.alive = r.alive /\ s.parent = r.parent /\ s.clones = r.clones /\ s.hdbc = r.hdbc
OdbcMoves(C, G) == ServerStep(C, G) /\ \A c \in Conn : C[c].txn = "open" => G[c].txn = "open"

LEMMA OdbcAbsent ==
    /\ Odbc!Absent \in OdbcRecord /\ Sound(Odbc!Absent)
    /\ Odbc!Absent.alive = FALSE /\ Odbc!Absent.parent = NoObj
    /\ Odbc!Absent.clones = {} /\ Odbc!Absent.hdbc = 0 /\ Odbc!Absent.res = 0
    /\ Odbc!Absent.auto = TRUE /\ Odbc!Absent.trans = FALSE
    /\ Odbc!Fresh \in OdbcRecord /\ Sound(Odbc!Fresh)
    /\ Odbc!Fresh.alive = TRUE /\ Odbc!Fresh.parent = NoObj
    /\ Odbc!Fresh.clones = {} /\ Odbc!Fresh.hdbc = 0 /\ Odbc!Fresh.res = 0
<1>1. /\ Odbc!Absent \in OdbcRecord /\ Sound(Odbc!Absent)
      /\ Odbc!Absent.alive = FALSE /\ Odbc!Absent.parent = NoObj
      /\ Odbc!Absent.clones = {} /\ Odbc!Absent.hdbc = 0 /\ Odbc!Absent.res = 0
      /\ Odbc!Absent.auto = TRUE /\ Odbc!Absent.trans = FALSE /\ Odbc!Absent.known = -1
      /\ Odbc!Absent.begun = FALSE
  BY LinesFacts DEF Odbc!Absent, OdbcRecord, Sound
<1>2. PICK b \in BOOLEAN : b = TRUE
  OBVIOUS
<1>3. Odbc!Fresh = [Odbc!Absent EXCEPT !.alive = b]
  BY <1>2 DEF Odbc!Fresh
<1>4. /\ Odbc!Fresh \in OdbcRecord /\ Odbc!Fresh.known = -1 /\ Odbc!Fresh.begun = FALSE
      /\ Odbc!Fresh.alive = b /\ Odbc!Fresh.parent = NoObj
      /\ Odbc!Fresh.clones = {} /\ Odbc!Fresh.hdbc = 0 /\ Odbc!Fresh.res = 0
  BY <1>1, <1>3 DEF OdbcRecord
<1> QED
  BY <1>1, <1>2, <1>4 DEF Sound

LEMMA OdbcBase ==
    ASSUME NEW S, NEW C, OdbcGood(S, C), NEW o \in Obj
    PROVE  /\ S[o] \in OdbcRecord
           /\ ~S[o].alive => S[o].hdbc = 0 /\ S[o].parent = NoObj
           /\ S[o].hdbc = 0 => S[o].clones = {}
           /\ S[o].parent # NoObj =>
                 /\ S[o].parent \in Obj /\ S[o].clones = {}
                 /\ S[S[o].parent].alive /\ S[S[o].parent].parent = NoObj
                 /\ S[S[o].parent].hdbc = S[o].hdbc
           /\ \A p \in Obj : S[o].hdbc # 0 /\ S[o].hdbc = S[p].hdbc => Kin(S, o) = Kin(S, p)
<1>1. S[o] \in OdbcRecord
  BY DEF OdbcGood
<1>2. \A p \in Obj : HdbcsOf(S)[p] = S[p].hdbc
  BY DEF HdbcsOf
<1>3. Family(S, HdbcsOf(S), C)
  BY DEF OdbcGood
<1>4. ASSUME S[o].parent # NoObj
      PROVE  /\ S[o].parent \in Obj /\ S[o].clones = {} /\ S[o].alive
             /\ S[S[o].parent].alive /\ S[S[o].parent].parent = NoObj
             /\ HdbcsOf(S)[S[o].parent] = HdbcsOf(S)[o]
  BY <1>3, <1>4, ServerAssumption DEF Family
<1>5. \A p \in Obj : HdbcsOf(S)[o] # 0 /\ HdbcsOf(S)[o] = HdbcsOf(S)[p] => Kin(S, o) = Kin(S, p)
  BY <1>3 DEF Family
<1>6. /\ ~S[o].alive => HdbcsOf(S)[o] = 0 /\ S[o].parent = NoObj
      /\ HdbcsOf(S)[o] = 0 => S[o].clones = {}
  BY <1>3 DEF Family
<1> QED
  BY <1>1, <1>2, <1>4, <1>5, <1>6

(* Flags and results change. *)
LEMMA OdbcChange ==
    ASSUME NEW S, NEW C, OdbcGood(S, C), NEW o \in Obj, NEW r, OdbcAlike(S[o], r)
    PROVE  OdbcGood([S EXCEPT ![o] = r], C)
<1> DEFINE T == [S EXCEPT ![o] = r]
<1>1. T \in [Obj -> OdbcRecord]
  BY DEF OdbcGood, OdbcAlike
<1>2. \A p \in Obj : T[p] = IF p = o THEN r ELSE S[p]
  BY DEF OdbcGood
<1> HIDE DEF T
<1>3. \A p \in Obj : /\ SameObject(S, T, HdbcsOf(S), HdbcsOf(T), p)
                     /\ T[p].hdbc = S[p].hdbc /\ Sound(T[p])
  BY <1>2 DEF OdbcGood, SameObject, HdbcsOf, OdbcAlike
<1>4. NoneUnused(C, C)
  BY DEF NoneUnused
<1>5. Family(T, HdbcsOf(T), C)
  BY <1>3, <1>4, FamilySame DEF OdbcGood
<1>6. OdbcGood(T, C)
  BY <1>1, <1>3, <1>5 DEF OdbcGood
<1> QED
  BY <1>6 DEF T

(* The connections change. *)
LEMMA OdbcMove ==
    ASSUME NEW S, NEW C, NEW G, OdbcGood(S, C), OdbcMoves(C, G)
    PROVE  OdbcGood(S, G)
<1>1. \A p \in Obj : SameObject(S, S, HdbcsOf(S), HdbcsOf(S), p)
  BY DEF SameObject
<1>2. Family(S, HdbcsOf(S), G)
  BY <1>1, FamilySame DEF OdbcGood, OdbcMoves, ServerStep, ServerMoves
<1>3. \A o \in Obj : S[o].hdbc # 0 => S[o].hdbc \in Conn
  BY OdbcBase DEF OdbcRecord
<1> QED
  BY <1>2, <1>3 DEF OdbcGood, OdbcMoves, ServerStep, ServerMoves

LEMMA OdbcServerSame == ASSUME NEW C \in [Conn -> Server] PROVE OdbcMoves(C, C)
BY ServerSame DEF OdbcMoves

LEMMA OdbcServerChange ==
    ASSUME NEW C \in [Conn -> Server], NEW c, NEW s,
           c \in Conn => /\ s \in Server /\ (C[c].link # "unused" => s.link # "unused")
                         /\ s.txn = "open"
    PROVE  OdbcMoves(C, [C EXCEPT ![c] = s])
<1>1. ServerStep(C, [C EXCEPT ![c] = s])
  BY ServerChange
<1>2. \A d \in Conn : [C EXCEPT ![c] = s][d] = IF d = c THEN s ELSE C[d]
  OBVIOUS
<1> QED
  BY <1>1, <1>2 DEF OdbcMoves

(* The roots: r replaces the record of o, whose connection may be closed.   *)
LEMMA OdbcRoot ==
    ASSUME NEW S, NEW C, NEW T, NEW G, OdbcGood(S, C),
           NEW o \in Obj, NEW r \in OdbcRecord, Sound(r), S[o].parent = NoObj,
           r.parent = NoObj, r.clones = {}, ~r.alive => r.hdbc = 0,
           \/ r.hdbc \in {0, S[o].hdbc}
           \/ r.hdbc \in Conn /\ C[r.hdbc].link = "unused" /\ G[r.hdbc].link # "unused",
           r.hdbc # 0 => G[r.hdbc].txn = "open",
           ServerStep(C, G),
           \A c \in Conn : c # S[o].hdbc /\ C[c].txn = "open" => G[c].txn = "open",
           T = [p \in Obj |-> IF p = o THEN r
                              ELSE IF p \in S[o].clones THEN Odbc!Absent ELSE S[p]]
    PROVE  OdbcGood(T, G)
<1>1. T \in [Obj -> OdbcRecord]
  BY OdbcAbsent DEF OdbcGood
<1>2. /\ T[o] = r
      /\ \A p \in Obj \ {o} : T[p] = IF p \in S[o].clones THEN Odbc!Absent ELSE S[p]
  OBVIOUS
<1>3. \A p \in Obj \ {o} :
         IF p \in S[o].clones
         THEN ~T[p].alive /\ T[p].parent = NoObj /\ T[p].clones = {} /\ HdbcsOf(T)[p] = 0
         ELSE SameObject(S, T, HdbcsOf(S), HdbcsOf(T), p)
  BY <1>2, OdbcAbsent DEF SameObject, HdbcsOf
<1>4. HdbcsOf(T)[o] = r.hdbc /\ HdbcsOf(S)[o] = S[o].hdbc
  BY <1>2 DEF HdbcsOf
<1>5. Family(T, HdbcsOf(T), G)
  <2>1. RootStep(S, HdbcsOf(S), C, T, HdbcsOf(T), G, o)
    BY <1>2, <1>3, <1>4 DEF RootStep, ServerStep, ServerMoves, OdbcGood
  <2> QED
    BY <2>1, FamilyRoot, Zenon
<1>6. \A p \in Obj : Sound(T[p])
  BY <1>2, OdbcAbsent DEF OdbcGood
<1>7. ASSUME NEW p \in Obj, T[p].hdbc # 0 PROVE G[T[p].hdbc].txn = "open"
  <2>1. CASE p = o
    BY <1>2, <1>7, <2>1
  <2>2. CASE p # o
    <3>1. p \notin S[o].clones /\ T[p] = S[p]
      BY <1>2, <1>7, <2>2, OdbcAbsent
    <3>2. S[p].parent # o
      <4>1. S[p].parent = o => S[p].alive
        BY ServerAssumption DEF OdbcGood, Family
      <4> QED
        BY <3>1, <4>1 DEF OdbcGood, Family
    <3>3. S[p].hdbc # S[o].hdbc
      BY <1>7, <2>2, <3>1, <3>2, OdbcBase DEF Kin
    <3>4. S[p].hdbc \in Conn
      BY <1>7, <3>1, OdbcBase DEF OdbcRecord
    <3> QED
      BY <1>7, <3>1, <3>3, <3>4 DEF OdbcGood
  <2> QED
    BY <2>1, <2>2
<1> QED
  BY <1>1, <1>5, <1>6, <1>7 DEF OdbcGood, ServerStep, ServerMoves

(* A clone is attached, and detached. *)
LEMMA OdbcAttach ==
    ASSUME NEW S, NEW C, NEW T, OdbcGood(S, C),
           NEW r \in Obj, NEW n \in Obj, NEW s \in OdbcRecord, Sound(s),
           S[r].alive, S[r].parent = NoObj, S[r].hdbc # 0, ~S[n].alive,
           s.alive, s.parent = r, s.clones = {}, s.hdbc = S[r].hdbc,
           Attached(S, T, r, n, s)
    PROVE  OdbcGood(T, C)
<1>1. n # r
  OBVIOUS
<1>2. /\ T[n] = s /\ T[r] = [S[r] EXCEPT !.clones = @ \cup {n}]
      /\ \A p \in Obj \ {n, r} : T[p] = S[p]
      /\ DOMAIN T = Obj
  BY <1>1 DEF OdbcGood, Attached
<1>3. /\ T[r] \in OdbcRecord /\ T[r].clones = S[r].clones \cup {n}
      /\ T[r].alive = S[r].alive /\ T[r].parent = S[r].parent
      /\ T[r].hdbc = S[r].hdbc /\ Sound(T[r])
  <2>1. S[r] \in OdbcRecord /\ Sound(S[r])
    BY DEF OdbcGood
  <2>2. PICK M \in SUBSET Obj : M = S[r].clones \cup {n}
    BY <2>1 DEF OdbcRecord
  <2>3. T[r] = [S[r] EXCEPT !.clones = M]
    BY <1>2, <2>2
  <2>4. LET v == [S[r] EXCEPT !.clones = M]
        IN /\ v \in OdbcRecord /\ v.clones = M
           /\ v.alive = S[r].alive /\ v.parent = S[r].parent
           /\ v.hdbc = S[r].hdbc /\ v.known = S[r].known /\ v.len = S[r].len
           /\ v.begun = S[r].begun /\ v.auto = S[r].auto
    BY <2>1 DEF OdbcRecord
  <2> QED
    BY <2>1, <2>2, <2>3, <2>4 DEF Sound
<1>4. T \in [Obj -> OdbcRecord]
  <2>1. ASSUME NEW p \in Obj PROVE T[p] \in OdbcRecord
    <3>1. CASE p = r \/ p = n
      BY <1>2, <1>3, <3>1
    <3>2. CASE p # r /\ p # n
      BY <1>2, <3>2 DEF OdbcGood
    <3> QED
      BY <3>1, <3>2
  <2> QED
    BY <2>1 DEF OdbcGood, Attached
<1>5. Family(T, HdbcsOf(T), C)
  <2>1. \A p \in Obj \ {r, n} : SameObject(S, T, HdbcsOf(S), HdbcsOf(T), p)
    BY <1>2 DEF SameObject, HdbcsOf
  <2>2. HdbcsOf(S)[r] # 0 /\ HdbcsOf(T)[n] = HdbcsOf(S)[r] /\ HdbcsOf(T)[r] = HdbcsOf(S)[r]
    BY <1>2, <1>3 DEF HdbcsOf
  <2>3. CloneStep(S, HdbcsOf(S), C, T, HdbcsOf(T), C, r, n)
    BY <1>2, <1>3, <2>1, <2>2 DEF CloneStep, NoneUnused, OdbcGood
  <2> QED
    BY <2>3, FamilyClone, Zenon
<1>6. ASSUME NEW p \in Obj
      PROVE  Sound(T[p]) /\ (T[p].hdbc # 0 => C[T[p].hdbc].txn = "open")
  <2>1. CASE p = r
    BY <1>3, <2>1 DEF OdbcGood
  <2>2. CASE p = n
    BY <1>2, <2>2 DEF OdbcGood
  <2>3. CASE p # r /\ p # n
    BY <1>2, <2>3 DEF OdbcGood
  <2> QED
    BY <2>1, <2>2, <2>3
<1> QED
  BY <1>4, <1>5, <1>6 DEF OdbcGood

LEMMA OdbcDetach ==
    ASSUME NEW S, NEW C, NEW T, OdbcGood(S, C),
           NEW o \in Obj, NEW r \in Obj, S[o].alive, S[o].parent = r,
           Detached(S, T, r, o, Odbc!Absent)
    PROVE  OdbcGood(T, C)
<1>1. r # o
  BY ServerAssumption DEF OdbcGood, Family
<1>2. /\ T[o] = Odbc!Absent /\ T[r] = [S[r] EXCEPT !.clones = @ \ {o}]
      /\ \A p \in Obj \ {o, r} : T[p] = S[p]
      /\ DOMAIN T = Obj
  BY <1>1 DEF OdbcGood, Detached
<1>3. /\ T[r] \in OdbcRecord /\ T[r].clones = S[r].clones \ {o}
      /\ T[r].alive = S[r].alive /\ T[r].parent = S[r].parent
      /\ T[r].hdbc = S[r].hdbc /\ Sound(T[r])
  <2>1. S[r] \in OdbcRecord /\ Sound(S[r])
    BY DEF OdbcGood
  <2>2. PICK M \in SUBSET Obj : M = S[r].clones \ {o}
    BY <2>1 DEF OdbcRecord
  <2>3. T[r] = [S[r] EXCEPT !.clones = M]
    BY <1>2, <2>2
  <2>4. LET v == [S[r] EXCEPT !.clones = M]
        IN /\ v \in OdbcRecord /\ v.clones = M
           /\ v.alive = S[r].alive /\ v.parent = S[r].parent
           /\ v.hdbc = S[r].hdbc /\ v.known = S[r].known /\ v.len = S[r].len
           /\ v.begun = S[r].begun /\ v.auto = S[r].auto
    BY <2>1 DEF OdbcRecord
  <2> QED
    BY <2>1, <2>2, <2>3, <2>4 DEF Sound
<1>4. T \in [Obj -> OdbcRecord]
  <2>1. ASSUME NEW p \in Obj PROVE T[p] \in OdbcRecord
    <3>1. CASE p = r \/ p = o
      BY <1>2, <1>3, <3>1, OdbcAbsent
    <3>2. CASE p # r /\ p # o
      BY <1>2, <3>2 DEF OdbcGood
    <3> QED
      BY <3>1, <3>2
  <2> QED
    BY <2>1 DEF OdbcGood, Detached
<1>5. Family(T, HdbcsOf(T), C)
  <2>1. ASSUME NEW p \in Obj \ {r, o}
        PROVE  SameObject(S, T, HdbcsOf(S), HdbcsOf(T), p)
    <3>1. T[p] = S[p]
      BY <1>2
    <3> QED
      BY <3>1 DEF SameObject, HdbcsOf
  <2>2. HdbcsOf(T)[o] = 0 /\ HdbcsOf(T)[r] = HdbcsOf(S)[r]
    BY <1>2, <1>3, OdbcAbsent DEF HdbcsOf
  <2>3. UncloneStep(S, HdbcsOf(S), C, T, HdbcsOf(T), C, r, o)
    BY <1>1, <1>2, <1>3, <2>1, <2>2, OdbcAbsent DEF UncloneStep, NoneUnused, OdbcGood
  <2> QED
    BY <2>3, FamilyUnclone, Zenon
<1>6. ASSUME NEW p \in Obj
      PROVE  Sound(T[p]) /\ (T[p].hdbc # 0 => C[T[p].hdbc].txn = "open")
  <2>1. CASE p = r
    BY <1>3, <2>1 DEF OdbcGood
  <2>2. CASE p = o
    BY <1>2, <2>2, OdbcAbsent
  <2>3. CASE p # r /\ p # o
    BY <1>2, <2>3 DEF OdbcGood
  <2> QED
    BY <2>1, <2>2, <2>3
<1> QED
  BY <1>4, <1>5, <1>6 DEF OdbcGood

(* What a method does to the flags, to the result and to the connection.    *)
LEMMA OdbcFlag ==
    ASSUME NEW r \in OdbcRecord, Sound(r), NEW b \in BOOLEAN, NEW t \in BOOLEAN,
           NEW g \in BOOLEAN, g => ~b
    PROVE  /\ OdbcAlike(r, [r EXCEPT !.trans = t])
           /\ OdbcAlike(r, [r EXCEPT !.auto = b, !.trans = t, !.begun = g])
<1>1. OdbcAlike(r, [r EXCEPT !.trans = t])
  <2> DEFINE s == [r EXCEPT !.trans = t]
  <2>1. s \in OdbcRecord
    BY DEF OdbcRecord
  <2>2. /\ s.alive = r.alive /\ s.parent = r.parent /\ s.clones = r.clones /\ s.hdbc = r.hdbc
        /\ s.known = r.known /\ s.len = r.len /\ s.begun = r.begun /\ s.auto = r.auto
    BY DEF OdbcRecord
  <2> QED
    BY <2>1, <2>2 DEF OdbcAlike, Sound
<1>2. OdbcAlike(r, [r EXCEPT !.auto = b, !.trans = t, !.begun = g])
  <2> DEFINE s == [r EXCEPT !.auto = b, !.trans = t, !.begun = g]
  <2>1. s \in OdbcRecord
    BY DEF OdbcRecord
  <2>2. /\ s.alive = r.alive /\ s.parent = r.parent /\ s.clones = r.clones /\ s.hdbc = r.hdbc
        /\ s.known = r.known /\ s.len = r.len /\ s.begun = g /\ s.auto = b
    BY DEF OdbcRecord
  <2> QED
    BY <2>1, <2>2 DEF OdbcAlike, Sound
<1> QED
  BY <1>1, <1>2

LEMMA OdbcRootObject ==
    ASSUME NEW C, OdbcGood(obj, C), NEW o \in Obj
    PROVE  /\ Odbc!Root(o) \in Obj /\ obj[Odbc!Root(o)].hdbc = obj[o].hdbc
           /\ obj[Odbc!Root(o)].parent = NoObj
           /\ obj[o].alive => obj[Odbc!Root(o)].alive
           /\ Odbc!Autocommit(o) \in BOOLEAN /\ Odbc!Trans(o) \in BOOLEAN
<1>1. /\ Odbc!Root(o) \in Obj /\ obj[Odbc!Root(o)].hdbc = obj[o].hdbc
      /\ obj[Odbc!Root(o)].parent = NoObj
      /\ obj[o].alive => obj[Odbc!Root(o)].alive
  BY OdbcBase DEF Odbc!Root, Odbc!IsClone
<1>2. obj[Odbc!Root(o)] \in OdbcRecord
  BY <1>1 DEF OdbcGood
<1> QED
  BY <1>1, <1>2 DEF OdbcRecord, Odbc!Autocommit, Odbc!Trans

LEMMA OdbcFlags ==
    ASSUME NEW S, NEW C, OdbcGood(S, C), OdbcGood(obj, srv), NEW o \in Obj,
           NEW b \in BOOLEAN, NEW t \in BOOLEAN
    PROVE  OdbcGood(Odbc!WithTrans(S, o, t), C) /\ OdbcGood(Odbc!Mode(S, o, b, t), C)
<1>1. PICK r \in Obj : r = Odbc!Root(o)
  BY OdbcRootObject
<1>2. S[r] \in OdbcRecord /\ Sound(S[r])
  BY DEF OdbcGood
<1>3. OdbcGood([S EXCEPT ![r] = [S[r] EXCEPT !.trans = t]], C)
  BY <1>2, OdbcFlag, OdbcChange
<1>0. PICK g \in BOOLEAN : g = ~b
  OBVIOUS
<1>4. OdbcGood([S EXCEPT ![r] = [S[r] EXCEPT !.auto = b, !.trans = t, !.begun = g]], C)
  BY <1>0, <1>2, OdbcFlag, OdbcChange
<1>5. Odbc!WithTrans(S, o, t) = [S EXCEPT ![r] = [S[r] EXCEPT !.trans = t]]
  BY <1>1 DEF Odbc!WithTrans
<1>6. Odbc!Mode(S, o, b, t) = [S EXCEPT ![r] = [S[r] EXCEPT !.auto = b, !.trans = t, !.begun = g]]
  BY <1>0, <1>1 DEF Odbc!Mode, OdbcGood
<1> QED
  BY <1>3, <1>4, <1>5, <1>6

LEMMA OdbcCleared ==
    ASSUME NEW r \in OdbcRecord
    PROVE  /\ OdbcAlike(r, Odbc!Clearresult(r)) /\ Odbc!Clearresult(r).res = 0
           /\ Odbc!Clearresult(r).auto = r.auto /\ Odbc!Clearresult(r).trans = r.trans
<1>1. PICK z \in 0 .. MaxLines : z = 0
  BY LinesFacts
<1>2. PICK m \in -1 .. MaxLines : m = -1
  BY LinesFacts
<1>3. PICK k \in 0 .. 2 : k = 0
  OBVIOUS
<1>4. Odbc!Clearresult(r) = [r EXCEPT !.res = k, !.len = z, !.known = m, !.tuple = m]
  BY <1>1, <1>2, <1>3 DEF Odbc!Clearresult
<1> DEFINE s == [r EXCEPT !.res = k, !.len = z, !.known = m, !.tuple = m]
<1>5. s \in OdbcRecord
  BY DEF OdbcRecord
<1>6. /\ s.alive = r.alive /\ s.parent = r.parent /\ s.clones = r.clones /\ s.hdbc = r.hdbc
      /\ s.auto = r.auto /\ s.trans = r.trans /\ s.begun = r.begun /\ s.res = k /\ s.known = m
  BY DEF OdbcRecord
<1> HIDE DEF s
<1> QED
  BY <1>2, <1>3, <1>4, <1>5, <1>6 DEF OdbcAlike, Sound, s

LEMMA OdbcBound ==
    ASSUME NEW r \in OdbcRecord, NEW rows \in 0 .. MaxLines, NEW counted \in BOOLEAN
    PROVE  LET n == Odbc!Bindresult(r, rows, counted)
           IN /\ OdbcAlike(r, n) /\ n.res \in 1 .. 2 /\ n.res # r.res /\ n.len = rows
              /\ n.tuple = -1
<1>1. r.res \in 0 .. 2
  BY DEF OdbcRecord
<1>2. PICK k \in 0 .. 2 : k = Another(r.res) /\ k # r.res /\ k \in 1 .. 2
  BY <1>1, AnotherFacts
<1>3. PICK z \in -1 .. MaxLines : z = -1
  BY LinesFacts
<1>4. PICK m \in -1 .. MaxLines : m = IF counted THEN rows ELSE -1
  BY LinesFacts
<1> DEFINE s == [r EXCEPT !.res = k, !.len = rows, !.known = m, !.tuple = z]
<1>5. Odbc!Bindresult(r, rows, counted) = s
  BY <1>2, <1>3, <1>4, OdbcServer DEF Odbc!Bindresult
<1>6. s \in OdbcRecord
  BY DEF OdbcRecord
<1>7. /\ s.alive = r.alive /\ s.parent = r.parent /\ s.clones = r.clones /\ s.hdbc = r.hdbc
      /\ s.res = k /\ s.len = rows /\ s.known = m /\ s.tuple = z
      /\ s.begun = r.begun /\ s.auto = r.auto
  BY DEF OdbcRecord
<1> HIDE DEF s
<1> QED
  BY <1>2, <1>3, <1>4, <1>5, <1>6, <1>7, LinesFacts DEF OdbcAlike, Sound

LEMMA OdbcEndTran ==
    ASSUME NEW s \in Server, NEW commits \in BOOLEAN
    PROVE  LET e == Odbc!EndTran(s, commits)
           IN /\ e \in Server /\ e.link = s.link /\ e.txn = "open" /\ e.pending = {}
              /\ e.durable = IF commits THEN s.durable \cup s.pending ELSE s.durable
<1> DEFINE x == IF commits THEN Committed(s) ELSE RolledBack(s)
<1>1. /\ x \in Server /\ x.link = s.link /\ x.pending = {}
      /\ x.durable = IF commits THEN s.durable \cup s.pending ELSE s.durable
  BY ServerFacts
<1>2. Odbc!EndTran(s, commits) = Begun(x)
  BY OdbcServer DEF Odbc!EndTran
<1> HIDE DEF x
<1> QED
  BY <1>1, <1>2, ServerFacts

(* What has been done to an open connection when n commands have run, for   *)
(* exec, and when it ends the transaction or not.                           *)
OpenAt(s, c) == s \in Server /\ s.link = srv[c].link /\ s.txn = "open"

LEMMA OdbcStaysOpen ==
    ASSUME NEW c, NEW s, OpenAt(s, c)
    PROVE  /\ \A commits \in BOOLEAN : OpenAt(Odbc!EndTran(s, commits), c)
           /\ \A o : /\ OpenAt(Odbc!ExecStart(o, s), c)
                     /\ OpenAt(Odbc!RollbackIfAuto(o, s), c)
<1>1. ASSUME NEW commits \in BOOLEAN PROVE OpenAt(Odbc!EndTran(s, commits), c)
  <2>1. s \in Server /\ s.link = srv[c].link
    BY DEF OpenAt
  <2> DEFINE e == Odbc!EndTran(s, commits)
  <2>2. e \in Server /\ e.link = s.link /\ e.txn = "open"
    BY <2>1, OdbcEndTran
  <2> HIDE DEF e
  <2>3. OpenAt(e, c)
    BY <2>1, <2>2 DEF OpenAt
  <2> QED
    BY <2>3 DEF e
<1> QED
  BY <1>1 DEF Odbc!ExecStart, Odbc!RollbackIfAuto

LEMMA OdbcDone ==
    ASSUME OdbcInv, NEW o \in Obj, Odbc!Connected(o), NEW t, NEW n
    PROVE  /\ obj[o].hdbc \in Conn /\ srv[obj[o].hdbc] \in Server
           /\ srv[obj[o].hdbc].txn = "open"
           /\ OpenAt(Given(srv[obj[o].hdbc], t), obj[o].hdbc)
           /\ OpenAt(Odbc!ExecStart(o, srv[obj[o].hdbc]), obj[o].hdbc)
           /\ OpenAt(Odbc!Done(o, t, n), obj[o].hdbc)
<1> DEFINE c == obj[o].hdbc
<1>1. c \in Conn /\ srv[c].txn = "open"
  BY OdbcBase DEF OdbcInv, OdbcGood, Odbc!Connected, OdbcRecord
<1> HIDE DEF c
<1>2. srv[c] \in Server
  BY <1>1 DEF OdbcInv, OdbcGood
<1>3. OpenAt(Given(srv[c], t), c)
  BY <1>1, <1>2, GivenFacts DEF OpenAt
<1>4. ASSUME NEW s, OpenAt(s, c) PROVE OpenAt(Odbc!ExecStart(o, s), c)
  BY <1>4, OdbcStaysOpen
<1>5. ASSUME NEW s, OpenAt(s, c), NEW ids \in SUBSET Work PROVE OpenAt(Written(s, ids), c)
  BY <1>5, WrittenFacts DEF OpenAt
<1>6. OpenAt(srv[c], c)
  BY <1>1, <1>2 DEF OpenAt
<1>7. Odbc!Done(o, t, n) = Written(Odbc!ExecStart(o, Given(srv[c], t)), Writes(srv[c], t, n))
  BY OdbcServer DEF Odbc!Done, c
<1>8. Writes(srv[c], t, n) \in SUBSET Work
  BY WritesFacts
<1>9. OpenAt(Odbc!Done(o, t, n), c)
  BY <1>3, <1>4, <1>5, <1>7, <1>8
<1> QED
  BY <1>1, <1>2, <1>3, <1>4, <1>6, <1>9 DEF c

(* A method that leaves the connection open as s and the records as T.      *)
LEMMA OdbcOpenStep ==
    ASSUME OdbcInv, NEW o \in Obj, NEW s, OpenAt(s, obj[o].hdbc), NEW T,
           OdbcGood(T, srv), obj' = T, srv' = [srv EXCEPT ![obj[o].hdbc] = s], reply' \in Reply
    PROVE  OdbcInv'
<1>1. srv \in [Conn -> Server]
  BY DEF OdbcInv, OdbcGood
<1> DEFINE c == obj[o].hdbc
<1>2. s \in Server /\ s.link = srv[c].link /\ s.txn = "open" /\ srv' = [srv EXCEPT ![c] = s]
  BY DEF OpenAt
<1> HIDE DEF c
<1>3. OdbcMoves(srv, [srv EXCEPT ![c] = s])
  BY <1>1, <1>2, OdbcServerChange
<1>4. OdbcGood(T, [srv EXCEPT ![c] = s])
  BY <1>3, OdbcMove
<1> QED
  BY <1>2, <1>4 DEF OdbcInv

(* A method that leaves the connections alone. *)
LEMMA OdbcQuietStep ==
    ASSUME OdbcInv, OdbcGood(obj', srv), srv' = srv, reply' \in Reply
    PROVE  OdbcInv'
BY DEF OdbcInv

LEMMA OdbcNew ==
    ASSUME OdbcInv, NEW o \in Obj, Odbc!New(o)
    PROVE  OdbcInv'
<1>1. /\ ~obj[o].alive /\ obj' = [obj EXCEPT ![o] = Odbc!Fresh]
      /\ reply' = Answer(o, "new", "ok") /\ srv' = srv
  BY OdbcServer DEF Odbc!New
<1>2. obj[o].clones = {} /\ obj[o].parent = NoObj /\ obj[o].hdbc = 0
  BY <1>1, OdbcBase DEF OdbcInv
<1>3. reply' \in Reply /\ ServerStep(srv, srv)
  BY <1>1, AnswerFacts, ServerSame DEF OdbcInv, OdbcGood, Methods, Endings
<1>4. obj' = [p \in Obj |-> IF p = o THEN Odbc!Fresh
                           ELSE IF p \in obj[o].clones THEN Odbc!Absent ELSE obj[p]]
  BY <1>1, <1>2 DEF OdbcInv, OdbcGood
<1>5. OdbcGood(obj', srv)
  BY <1>2, <1>3, <1>4, OdbcAbsent, OdbcRoot DEF OdbcInv
<1> QED
  BY <1>1, <1>3, <1>5, OdbcQuietStep

LEMMA OdbcOpen ==
    ASSUME OdbcInv, NEW o \in Obj, Odbc!Open(o)
    PROVE  OdbcInv'
<1>1. /\ reply' \in Reply
      /\ obj[o].alive /\ obj[o].parent = NoObj
  BY AnswerFacts, OdbcServer DEF Odbc!Open, Odbc!IsClone, Methods, Endings
<1>2. CASE obj' = obj /\ srv' = srv
  BY <1>1, <1>2 DEF OdbcInv
<1>3. ASSUME NEW c \in Conn, srv[c].link = "unused", obj[o].hdbc = 0,
             obj' = [obj EXCEPT ![o].hdbc = c],
             srv' = [srv EXCEPT ![c] = Begun(Linked(@))]
      PROVE  OdbcInv'
  <2>1. PICK r : r = [obj[o] EXCEPT !.hdbc = c]
    OBVIOUS
  <2>2. obj[o] \in OdbcRecord /\ obj[o].clones = {} /\ Sound(obj[o])
    BY <1>3, OdbcBase DEF OdbcInv, OdbcGood
  <2>3. /\ r \in OdbcRecord /\ r.hdbc = c /\ r.known = obj[o].known /\ r.len = obj[o].len
        /\ r.alive = obj[o].alive /\ r.parent = obj[o].parent /\ r.clones = {}
        /\ r.begun = obj[o].begun /\ r.auto = obj[o].auto
    BY <2>1, <2>2 DEF OdbcRecord
  <2>4. obj' = [p \in Obj |-> IF p = o THEN r
                             ELSE IF p \in obj[o].clones THEN Odbc!Absent ELSE obj[p]]
    BY <1>3, <2>1, <2>2 DEF OdbcInv, OdbcGood
  <2>5. srv \in [Conn -> Server] /\ srv[c] \in Server
    BY DEF OdbcInv, OdbcGood
  <2>6. PICK s : s = Begun(Linked(srv[c]))
    OBVIOUS
  <2>7. s \in Server /\ s.link = "open" /\ s.txn = "open"
    <3>1. Linked(srv[c]) \in Server /\ Linked(srv[c]).link = "open"
      BY <2>5, ServerFacts
    <3> QED
      BY <2>6, <3>1, ServerFacts
  <2>8. OdbcMoves(srv, srv') /\ srv'[c] = s
    BY <1>3, <2>5, <2>6, <2>7, OdbcServerChange
  <2>9. Sound(r)
    BY <2>2, <2>3 DEF Sound
  <2>10. OdbcGood(obj', srv')
    <3>1. /\ \A d \in Conn : d # obj[o].hdbc /\ srv[d].txn = "open" => srv'[d].txn = "open"
          /\ ServerStep(srv, srv')
      BY <2>8 DEF OdbcMoves
    <3> QED
      <4>1. r.hdbc \in Conn /\ srv[r.hdbc].link = "unused" /\ srv'[r.hdbc].link # "unused"
        BY <1>3, <2>3, <2>7, <2>8
      <4>2. srv'[r.hdbc].txn = "open" /\ r.alive /\ r.parent = NoObj
        BY <1>1, <2>3, <2>7, <2>8
      <4>3. OdbcGood(obj, srv)
        BY DEF OdbcInv
      <4> QED
        BY <1>1, <2>3, <2>4, <2>9, <3>1, <4>1, <4>2, <4>3, OdbcRoot
  <2> QED
    BY <1>1, <2>10 DEF OdbcInv
<1> QED
  BY <1>2, <1>3, OdbcServer DEF Odbc!Open

LEMMA OdbcExec ==
    ASSUME OdbcInv, NEW o \in Obj, NEW t, NEW fetch \in BOOLEAN, NEW args \in BOOLEAN,
           Odbc!Exec(o, t, fetch, args)
    PROVE  OdbcInv'
<1> DEFINE c == obj[o].hdbc
<1>1. OdbcGood(obj, srv) /\ Odbc!Connected(o) /\ obj[o] \in OdbcRecord
  BY OdbcBase DEF OdbcInv, Odbc!Exec
<1>2. CASE reply' = Executed(o, "nothing", {}) /\ obj' = obj /\ srv' = srv
  BY <1>1, <1>2, ReplyFacts, OdbcQuietStep DEF Endings
<1>3. \A e \in Endings : Odbc!Executing(o, e, t) \in Reply
  BY ReplyFacts, WritesFacts, OdbcServer DEF Odbc!Executing
<1>4. OdbcGood([obj EXCEPT ![o] = Odbc!Clearresult(@)], srv)
  BY <1>1, OdbcCleared, OdbcChange
<1>5. ASSUME Odbc!ExecStartFails(o, t) PROVE OdbcInv'
  <2>1. /\ srv' = [srv EXCEPT ![c] = Odbc!EndTran(Given(srv[c], t), FALSE)]
        /\ obj' = Odbc!WithTrans([obj EXCEPT ![o] = Odbc!Clearresult(@)], o, FALSE)
        /\ reply' = Odbc!Executing(o, "failed", t)
    BY <1>5, OdbcServer DEF Odbc!ExecStartFails
  <2>2. OdbcGood(obj', srv)
    BY <1>1, <1>4, <2>1, OdbcFlags
  <2>3. OpenAt(Odbc!EndTran(Given(srv[c], t), FALSE), c)
    BY <1>1, OdbcDone, OdbcStaysOpen
  <2> QED
    BY <1>3, <2>1, <2>2, <2>3, OdbcOpenStep DEF Endings
<1>6. ASSUME NEW n, Odbc!ExecFails(o, t, n) PROVE OdbcInv'
  <2>1. /\ srv' = [srv EXCEPT ![c] = Odbc!RollbackIfAuto(o, Odbc!Done(o, t, n))]
        /\ obj' = Odbc!WithTrans([obj EXCEPT ![o] = Odbc!Clearresult(@)], o, ~Odbc!Autocommit(o))
        /\ reply' = Odbc!Executing(o, "failed", t)
    BY <1>6 DEF Odbc!ExecFails
  <2>2. OdbcGood(obj', srv)
    BY <1>1, <1>4, <2>1, OdbcFlags
  <2>3. OpenAt(Odbc!RollbackIfAuto(o, Odbc!Done(o, t, n)), c)
    BY <1>1, OdbcDone, OdbcStaysOpen
  <2> QED
    BY <1>3, <2>1, <2>2, <2>3, OdbcOpenStep DEF Endings
<1>7. ASSUME Odbc!ExecOk(o, t, fetch) PROVE OdbcInv'
  <2> DEFINE done == Odbc!Done(o, t, Len(t))
             ends == Odbc!EndsItself(o, t, fetch)
             s == IF ends THEN Odbc!EndTran(done, TRUE) ELSE done
  <2>1. PICK rows \in IF fetch THEN Rows(t) ELSE {0}, counted \in {Selects(t), FALSE} :
             obj' = Odbc!WithTrans([obj EXCEPT ![o] =
                 IF fetch /\ Selects(t) THEN Odbc!Bindresult(@, rows, counted)
                 ELSE Odbc!Clearresult(@)], o, ~ends)
    BY <1>7, OdbcServer DEF Odbc!ExecOk
  <2>2. srv' = [srv EXCEPT ![c] = s] /\ reply' = Odbc!Executing(o, "ok", t)
    BY <1>7 DEF Odbc!ExecOk
  <2>3. OpenAt(s, c)
    BY <1>1, OdbcDone, OdbcStaysOpen
  <2> HIDE DEF s, ends
  <2>4. rows \in 0 .. MaxLines /\ counted \in BOOLEAN
    BY <2>1, RowsFacts DEF Selects
  <2>5. ASSUME NEW r, OdbcAlike(obj[o], r),
               obj' = Odbc!WithTrans([obj EXCEPT ![o] = r], o, ~ends)
        PROVE  OdbcGood(obj', srv)
    <3>1. OdbcGood([obj EXCEPT ![o] = r], srv)
      BY <1>1, <2>5, OdbcChange
    <3> QED
      BY <1>1, <2>5, <3>1, OdbcFlags
  <2>6. OdbcGood(obj', srv)
    BY <1>1, <2>1, <2>4, <2>5, OdbcCleared, OdbcBound
  <2> QED
    BY <1>3, <2>2, <2>3, <2>6, OdbcOpenStep DEF Endings
<1> QED
  BY <1>2, <1>5, <1>6, <1>7, OdbcServer DEF Odbc!Exec

LEMMA OdbcFetchAt ==
    ASSUME OdbcInv, NEW o \in Obj, NEW q \in -2 .. MaxLines, Odbc!Fetch(o, q)
    PROVE  OdbcInv'
<1> DEFINE line == Odbc!Wanted(o, q)
           asked == Odbc!Asked(o, q)
           r == obj[o]
           at == Odbc!First(r)
<1>1. OdbcGood(obj, srv) /\ r \in OdbcRecord /\ Sound(r) /\ srv' = srv
  BY DEF OdbcInv, OdbcGood, Odbc!Fetch
<1>2. asked \in -2 .. MaxLines
  BY <1>1 DEF Odbc!Asked, OdbcRecord
<1>3. line \in Int /\ r.len \in 0 .. MaxLines /\ r.res \in 0 .. 2 /\ at \in 0 .. MaxLines
  BY <1>1, <1>2, LinesFacts DEF Odbc!Wanted, OdbcRecord, Odbc!First
<1>4. \/ reply' = NoLine(o, asked) /\ obj' = obj
      \/ reply' = NoLine(o, asked) /\ obj' = [obj EXCEPT ![o].known = -1]
      \/ reply' = NoLine(o, asked) /\ obj' = [obj EXCEPT ![o].tuple = at]
      \/ /\ r.len # 0 /\ reply' = NoLine(o, asked)
         /\ obj' = [obj EXCEPT ![o].tuple = r.len - 1, ![o].known = r.len - 1]
      \/ /\ line >= 0 /\ line < r.len /\ reply' = GivenLine(o, asked, line, r.res)
         /\ obj' = [obj EXCEPT ![o].tuple = line]
  <2> HIDE DEF asked, line, at
  <2> DEFINE later == (r.known # -1 /\ line > r.known) \/ line < at
  <2>1. IF r.res = 0 \/ line < 0
        THEN reply' = NoLine(o, asked) /\ obj' = obj
        ELSE IF r.len = 0
        THEN reply' = NoLine(o, asked) /\ obj' = [obj EXCEPT ![o].known = -1]
        ELSE IF later
        THEN reply' = NoLine(o, asked) /\ obj' = [obj EXCEPT ![o].tuple = at]
        ELSE IF line >= r.len
        THEN /\ reply' = NoLine(o, asked)
             /\ obj' = [obj EXCEPT ![o].tuple = r.len - 1, ![o].known = r.len - 1]
        ELSE /\ reply' = GivenLine(o, asked, line, r.res)
             /\ obj' = [obj EXCEPT ![o].tuple = line]
    BY OdbcServer DEF Odbc!Fetch, Odbc!FetchAt, asked, line, at
  <2> HIDE DEF later
  <2> QED
    BY <1>3, <2>1
<1> HIDE DEF line, asked, at
<1>5. reply' \in Reply
  <2>1. NoLine(o, asked) \in Reply
    BY <1>2, ReplyFacts
  <2>2. line >= 0 /\ line < r.len => GivenLine(o, asked, line, r.res) \in Reply
    BY <1>2, <1>3, ReplyFacts, LinesFacts
  <2> QED
    BY <1>4, <2>1, <2>2
<1>6. ASSUME NEW k \in -1 .. MaxLines, obj' = [obj EXCEPT ![o].tuple = k]
      PROVE  OdbcInv'
  <2>1. PICK s : s = [r EXCEPT !.tuple = k]
    OBVIOUS
  <2>2. /\ s \in OdbcRecord /\ s.known = r.known /\ s.len = r.len
        /\ s.begun = r.begun /\ s.auto = r.auto
        /\ s.alive = r.alive /\ s.parent = r.parent /\ s.clones = r.clones /\ s.hdbc = r.hdbc
    BY <1>1, <2>1 DEF OdbcRecord
  <2>3. OdbcAlike(r, s) /\ obj' = [obj EXCEPT ![o] = s]
    BY <1>1, <1>6, <2>1, <2>2 DEF OdbcAlike, Sound
  <2> QED
    BY <1>1, <1>5, <2>3, OdbcChange, OdbcQuietStep
<1>7. CASE obj' = [obj EXCEPT ![o].known = -1]
  <2>0. PICK m \in -1 .. MaxLines : m = -1
    BY LinesFacts
  <2>1. PICK s : s = [r EXCEPT !.known = m]
    OBVIOUS
  <2>2. /\ s \in OdbcRecord /\ s.known = m /\ s.begun = r.begun /\ s.auto = r.auto
        /\ s.alive = r.alive /\ s.parent = r.parent /\ s.clones = r.clones /\ s.hdbc = r.hdbc
    BY <1>1, <2>1 DEF OdbcRecord
  <2>3. OdbcAlike(r, s) /\ obj' = [obj EXCEPT ![o] = s]
    BY <1>1, <1>7, <2>0, <2>1, <2>2 DEF OdbcAlike, Sound
  <2> QED
    BY <1>1, <1>5, <2>3, OdbcChange, OdbcQuietStep
<1>8. CASE r.len # 0 /\ obj' = [obj EXCEPT ![o].tuple = r.len - 1, ![o].known = r.len - 1]
  <2>0. PICK m \in -1 .. MaxLines : m = r.len - 1
    BY <1>3, <1>8, LinesFacts
  <2>1. PICK s : s = [r EXCEPT !.tuple = m, !.known = m]
    OBVIOUS
  <2>2. s \in OdbcRecord
    BY <1>1, <2>1 DEF OdbcRecord
  <2>3. /\ s.known = m /\ s.len = r.len /\ s.begun = r.begun /\ s.auto = r.auto
        /\ s.alive = r.alive /\ s.parent = r.parent /\ s.clones = r.clones /\ s.hdbc = r.hdbc
    BY <1>1, <2>1 DEF OdbcRecord
  <2>4. Sound(s)
    BY <1>1, <1>3, <2>0, <2>3 DEF Sound
  <2>5. obj' = [obj EXCEPT ![o] = s]
    BY <1>1, <1>8, <2>0, <2>1 DEF OdbcGood
  <2>6. OdbcAlike(r, s)
    BY <2>2, <2>3, <2>4 DEF OdbcAlike
  <2> QED
    BY <1>1, <1>5, <2>5, <2>6, OdbcChange, OdbcQuietStep
<1>9. CASE obj' = obj
  BY <1>1, <1>5, <1>9, OdbcQuietStep
<1>10. at \in -1 .. MaxLines
  BY <1>3, LinesFacts
<1>11. line >= 0 /\ line < r.len => line \in -1 .. MaxLines
  BY <1>3, LinesFacts
<1> QED
  BY <1>4, <1>6, <1>7, <1>8, <1>9, <1>10, <1>11

LEMMA OdbcFetchError ==
    ASSUME OdbcInv, NEW o \in Obj, NEW q \in -2 .. MaxLines, Odbc!FetchError(o, q)
    PROVE  OdbcInv'
<1> DEFINE c == obj[o].hdbc
           asked == Odbc!Asked(o, q)
           b == Odbc!Trans(o) /\ ~Odbc!Autocommit(o)
           s == IF Odbc!Trans(o) THEN Odbc!RollbackIfAuto(o, srv[c]) ELSE srv[c]
<1>1. OdbcGood(obj, srv) /\ Odbc!Connected(o) /\ obj[o] \in OdbcRecord /\ Sound(obj[o])
  BY DEF OdbcInv, OdbcGood, Odbc!FetchError
<1>2. asked \in -2 .. MaxLines
  BY <1>1 DEF Odbc!Asked, OdbcRecord
<1>3. PICK k \in obj[o].tuple .. obj[o].len - 1 :
         obj' = Odbc!WithTrans([obj EXCEPT ![o].tuple = k], o, b)
  BY DEF Odbc!FetchError
<1>4. /\ srv' = [srv EXCEPT ![c] = s]
      /\ reply' = [Answer(o, "fetch", "failed") EXCEPT !.asked = asked]
  BY OdbcServer DEF Odbc!FetchError
<1>5. OpenAt(s, c)
  <2>1. srv[c] \in Server /\ srv[c].txn = "open"
    BY <1>1, OdbcDone
  <2> QED
    BY <2>1, OdbcEndTran DEF OpenAt, Odbc!RollbackIfAuto
<1> HIDE DEF asked, b, s
<1>6. reply' \in Reply
  <2>1. Answer(o, "fetch", "failed") \in Reply
    BY AnswerFacts DEF Methods, Endings
  <2> QED
    BY <1>2, <1>4, <2>1 DEF Reply
<1>7. k \in -1 .. MaxLines
  <2>1. obj[o].tuple \in -1 .. MaxLines /\ obj[o].len \in 0 .. MaxLines
    BY <1>1 DEF OdbcRecord
  <2> QED
    BY <2>1, LinesFacts
<1>8. OdbcGood(obj', srv)
  <2>1. PICK r : r = [obj[o] EXCEPT !.tuple = k]
    OBVIOUS
  <2>2. /\ r \in OdbcRecord /\ r.known = obj[o].known /\ r.len = obj[o].len
        /\ r.alive = obj[o].alive /\ r.parent = obj[o].parent /\ r.clones = obj[o].clones
        /\ r.hdbc = obj[o].hdbc /\ r.begun = obj[o].begun /\ r.auto = obj[o].auto
    BY <1>1, <1>7, <2>1 DEF OdbcRecord
  <2>3. OdbcAlike(obj[o], r)
    BY <1>1, <2>2 DEF OdbcAlike, Sound
  <2>4. OdbcGood([obj EXCEPT ![o] = r], srv)
    BY <1>1, <2>3, OdbcChange
  <2>5. obj' = Odbc!WithTrans([obj EXCEPT ![o] = r], o, b)
    BY <1>3, <2>1
  <2> QED
    BY <1>1, <2>4, <2>5, OdbcFlags DEF b
<1> QED
  BY <1>4, <1>5, <1>6, <1>8, OdbcOpenStep

LEMMA OdbcLines ==
    ASSUME OdbcInv, NEW o \in Obj, Odbc!FetchLines(o) \/ Odbc!FetchClear(o)
    PROVE  OdbcInv'
<1>1. OdbcGood(obj, srv) /\ obj[o] \in OdbcRecord /\ srv' = srv
  BY DEF OdbcInv, OdbcGood, Odbc!FetchLines, Odbc!FetchClear
<1>2. CASE Odbc!FetchLines(o)
  <2>1. obj[o].known # -1 => obj[o].known \in 0 .. MaxLines
    BY <1>1 DEF OdbcRecord
  <2>2. reply' = Answer(o, "lines", "refused") \/ (obj[o].known # -1 /\ reply' = Count(o, obj[o].known))
    BY <1>2, OdbcServer DEF Odbc!FetchLines
  <2>3. reply' \in Reply
    BY <2>1, <2>2, ReplyFacts DEF Methods, Endings
  <2> QED
    BY <1>1, <1>2, <2>3, OdbcQuietStep DEF Odbc!FetchLines
<1>3. CASE Odbc!FetchClear(o)
  <2>1. reply' \in Reply
    BY <1>3, AnswerFacts, OdbcServer DEF Odbc!FetchClear, Methods, Endings
  <2>2. OdbcGood(obj', srv)
    BY <1>1, <1>3, OdbcCleared, OdbcChange DEF Odbc!FetchClear
  <2> QED
    BY <1>1, <2>1, <2>2, OdbcQuietStep
<1> QED
  BY <1>2, <1>3

(* begin, commit and rollback. *)
LEMMA OdbcTransaction ==
    ASSUME OdbcInv, NEW o \in Obj, Odbc!Begin(o) \/ Odbc!Commit(o) \/ Odbc!Rollback(o)
    PROVE  OdbcInv'
<1> DEFINE c == obj[o].hdbc
<1>1. OdbcGood(obj, srv) /\ Odbc!Connected(o)
  BY DEF OdbcInv, Odbc!Begin, Odbc!Commit, Odbc!Rollback
<1>2. /\ OpenAt(Odbc!ExecStart(o, srv[c]), c) /\ OpenAt(srv[c], c)
      /\ \A commits \in BOOLEAN : OpenAt(Odbc!EndTran(srv[c], commits), c)
  <2>1. OpenAt(srv[c], c)
    BY <1>1, OdbcDone DEF OpenAt
  <2> QED
    BY <2>1, OdbcStaysOpen
<1>3. ASSUME NEW method \in {"commit", "rollback"}, NEW commits \in BOOLEAN,
             Odbc!EndsTran(o, method, commits)
      PROVE  OdbcInv'
  <2> DEFINE s == IF Odbc!Trans(o) THEN Odbc!EndTran(srv[c], commits) ELSE srv[c]
  <2>1. obj' = Odbc!Mode(obj, o, TRUE, FALSE) /\ srv' = [srv EXCEPT ![c] = s]
    BY <1>3 DEF Odbc!EndsTran
  <2>2. OpenAt(s, c)
    BY <1>2
  <2>3. reply' \in Reply
    <3>1. /\ method \in Methods
          /\ \/ reply' = Answer(o, method, "failed") \/ reply' = Answer(o, method, "ok")
      BY <1>3, OdbcServer DEF Odbc!EndsTran, Methods
    <3> QED
      BY <3>1, AnswerFacts DEF Endings
  <2>4. OdbcGood(obj', srv)
    BY <1>1, <2>1, OdbcFlags
  <2> HIDE DEF s
  <2> QED
    BY <2>1, <2>2, <2>3, <2>4, OdbcOpenStep
<1>4. CASE Odbc!Begin(o)
  <2>1. reply' \in Reply
    BY <1>4, AnswerFacts, OdbcServer DEF Odbc!Begin, Methods, Endings
  <2>2. CASE obj' = Odbc!Mode(obj, o, FALSE, TRUE) /\ srv' = [srv EXCEPT ![c] = Odbc!ExecStart(o, @)]
    BY <1>1, <1>2, <2>1, <2>2, OdbcFlags, OdbcOpenStep
  <2>3. CASE obj' = Odbc!WithTrans(obj, o, FALSE) /\ srv' = [srv EXCEPT ![c] = Odbc!EndTran(@, FALSE)]
    BY <1>1, <1>2, <2>1, <2>3, OdbcFlags, OdbcOpenStep
  <2> QED
    BY <1>4, <2>2, <2>3 DEF Odbc!Begin
<1> QED
  BY <1>3, <1>4 DEF Odbc!Commit, Odbc!Rollback

LEMMA OdbcClone ==
    ASSUME OdbcInv, NEW o \in Obj, NEW n \in Obj, Odbc!Clone(o, n)
    PROVE  OdbcInv'
<1>1. OdbcGood(obj, srv) /\ Odbc!Connected(o) /\ ~obj[n].alive
  BY DEF OdbcInv, Odbc!Clone
<1>2. PICK r \in Obj : /\ r = Odbc!Root(o) /\ obj[r].alive /\ obj[r].parent = NoObj
                       /\ obj[r].hdbc # 0
  BY <1>1, OdbcRootObject DEF Odbc!Connected
<1>3. PICK s : s = [Odbc!Fresh EXCEPT !.parent = r, !.hdbc = obj[r].hdbc]
  OBVIOUS
<1>4. obj[r] \in OdbcRecord
  BY <1>1 DEF OdbcGood
<1>5. s \in OdbcRecord
  BY <1>3, <1>4, OdbcAbsent DEF OdbcRecord
<1>6. /\ s.alive = Odbc!Fresh.alive /\ s.parent = r /\ s.clones = Odbc!Fresh.clones
      /\ s.hdbc = obj[r].hdbc /\ s.known = Odbc!Fresh.known /\ s.len = Odbc!Fresh.len
      /\ s.begun = Odbc!Fresh.begun /\ s.auto = Odbc!Fresh.auto
  BY <1>3, <1>4, OdbcAbsent DEF OdbcRecord
<1>7. /\ Attached(obj, obj', r, n, s)
      /\ reply' = Answer(n, "clone", "ok") /\ srv' = srv
  BY <1>2, <1>3, OdbcServer DEF Odbc!Clone, Attached
<1>8. reply' \in Reply
  BY <1>7, AnswerFacts DEF Methods, Endings
<1>9. OdbcGood(obj', srv)
  <2>1. Sound(s) /\ s.alive /\ s.clones = {}
    BY <1>6, OdbcAbsent DEF Sound
  <2> QED
    BY <1>1, <1>2, <1>5, <1>6, <1>7, <2>1, OdbcAttach
<1> QED
  BY <1>7, <1>8, <1>9, OdbcQuietStep

LEMMA OdbcCloseClone ==
    ASSUME OdbcInv, NEW o \in Obj, Odbc!Connected(o), Odbc!IsClone(o), reply' \in Reply,
           obj' = Odbc!ClosedRecords(o), srv' = Odbc!ClosedServer(o)
    PROVE  OdbcInv'
<1> DEFINE c == obj[o].hdbc
           s == IF Odbc!Trans(o) THEN Odbc!EndTran(srv[c], FALSE) ELSE srv[c]
<1>1. OdbcGood(obj, srv) /\ obj[o].parent # NoObj /\ obj[o].alive
  BY DEF OdbcInv, Odbc!IsClone, Odbc!Connected
<1>2. PICK r \in Obj : r = obj[o].parent
  BY <1>1, OdbcBase
<1>3. PICK S : S = Odbc!WithTrans(obj, o, FALSE)
  OBVIOUS
<1>4. OdbcGood(S, srv)
  BY <1>1, <1>3, OdbcFlags
<1>5. S[o].alive /\ S[o].parent = r
  <2>1. r # o
    BY <1>1, <1>2, OdbcBase
  <2> QED
    BY <1>1, <1>2, <1>3, <2>1 DEF Odbc!WithTrans, Odbc!Root, Odbc!IsClone, OdbcGood
<1>6. Detached(S, obj', r, o, Odbc!Absent)
  BY <1>2, <1>3 DEF Detached, Odbc!ClosedRecords
<1>7. OdbcGood(obj', srv)
  BY <1>4, <1>5, <1>6, OdbcDetach
<1>8. OpenAt(s, c)
  BY <1>1, OdbcDone, OdbcEndTran DEF OpenAt
<1>9. srv' = [srv EXCEPT ![c] = s]
  BY DEF Odbc!ClosedServer
<1> HIDE DEF s
<1> QED
  BY <1>7, <1>8, <1>9, OdbcOpenStep

(* A root that has no connection has no clones to be destroyed with it. *)
LEMMA OdbcCloseRoot ==
    ASSUME OdbcInv, NEW o \in Obj, obj[o].alive, ~Odbc!IsClone(o), reply' \in Reply,
           \/ /\ Odbc!Connected(o) /\ srv' = Odbc!ClosedServer(o)
              /\ \/ obj' = Odbc!ClosedRecords(o)
                 \/ obj' = [Odbc!ClosedRecords(o) EXCEPT ![o] = Odbc!Absent]
           \/ /\ obj[o].hdbc = 0 /\ srv' = srv
              /\ obj' = [obj EXCEPT ![o] = Odbc!Absent]
    PROVE  OdbcInv'
<1> DEFINE c == obj[o].hdbc
           S == Odbc!WithTrans(obj, o, FALSE)
<1>1. OdbcGood(obj, srv) /\ obj[o].parent = NoObj /\ srv \in [Conn -> Server]
  BY DEF OdbcInv, OdbcGood, Odbc!IsClone
<1>2. OdbcGood(S, srv)
  BY <1>1, OdbcFlags
<1>3. /\ S[o].parent = NoObj /\ S[o].clones = obj[o].clones /\ S[o].hdbc = c /\ S[o].alive
      /\ \A p \in Obj \ {o} : S[p] = obj[p]
  <2>1. /\ \A p \in Obj \ {o} : S[p] = obj[p]
        /\ S[o] = [obj[o] EXCEPT !.trans = FALSE]
    BY <1>1 DEF Odbc!WithTrans, Odbc!Root, Odbc!IsClone, OdbcGood
  <2>2. OdbcAlike(obj[o], [obj[o] EXCEPT !.trans = FALSE])
    BY <1>1, OdbcFlag DEF OdbcGood
  <2> QED
    BY <1>1, <2>1, <2>2 DEF OdbcAlike
<1> HIDE DEF S
<1>4. ASSUME Odbc!Connected(o), srv' = Odbc!ClosedServer(o)
      PROVE  /\ ServerStep(srv, srv')
             /\ \A d \in Conn : d # c /\ srv[d].txn = "open" => srv'[d].txn = "open"
  <2>1. c \in Conn /\ srv[c] \in Server
    BY <1>1, <1>4, OdbcDone
  <2> DEFINE s == IF Odbc!Trans(o) THEN Odbc!EndTran(srv[c], FALSE) ELSE srv[c]
             h == HungUp(s)
  <2>2. s \in Server
    BY <2>1, OdbcEndTran
  <2>3. srv' = [srv EXCEPT ![c] = h]
    BY <1>1, <1>4, OdbcServer DEF Odbc!ClosedServer, Odbc!IsClone
  <2> HIDE DEF s
  <2>4. h \in Server /\ h.link = "closed" /\ h.txn = "none"
    BY <2>2, ServerFacts
  <2> HIDE DEF h, c
  <2>5. ServerStep(srv, [srv EXCEPT ![c] = h])
    BY <1>1, <2>1, <2>4, ServerChange
  <2> QED
    BY <1>1, <2>3, <2>5
<1>5. ASSUME NEW r \in OdbcRecord, Sound(r), r.parent = NoObj, r.clones = {}, r.hdbc = 0,
             Odbc!Connected(o), srv' = Odbc!ClosedServer(o),
             obj' = [p \in Obj |-> IF p = o THEN r
                                   ELSE IF p \in S[o].clones THEN Odbc!Absent ELSE S[p]]
      PROVE  OdbcInv'
  <2>1. OdbcGood(obj', srv')
    BY <1>2, <1>3, <1>4, <1>5, OdbcRoot
  <2> QED
    BY <2>1 DEF OdbcInv
<1>6. CASE /\ Odbc!Connected(o) /\ srv' = Odbc!ClosedServer(o)
           /\ obj' = Odbc!ClosedRecords(o)
  <2> DEFINE u == Odbc!Clearresult(S[o])
  <2>1. PICK d \in Conn \cup {0} : d = 0
    OBVIOUS
  <2>0. PICK g \in BOOLEAN : g = FALSE
    OBVIOUS
  <2>2. PICK r : r = [u EXCEPT !.clones = {}, !.hdbc = d, !.begun = g]
    OBVIOUS
  <2>3. u \in OdbcRecord /\ Sound(u) /\ u.parent = NoObj
    BY <1>2, <1>3, OdbcCleared DEF OdbcGood, OdbcAlike
  <2>4. obj' = [p \in Obj |-> IF p = o THEN r
                              ELSE IF p \in S[o].clones THEN Odbc!Absent ELSE S[p]]
    BY <1>1, <1>3, <1>6, <2>0, <2>1, <2>2 DEF Odbc!ClosedRecords, S, Odbc!IsClone
  <2> HIDE DEF u
  <2>5. r \in OdbcRecord
    BY <2>2, <2>3 DEF OdbcRecord
  <2>6. /\ r.parent = u.parent /\ r.clones = {} /\ r.hdbc = d
        /\ r.known = u.known /\ r.len = u.len /\ r.begun = g
    BY <2>2, <2>3 DEF OdbcRecord
  <2> QED
    BY <1>5, <1>6, <2>0, <2>1, <2>3, <2>4, <2>5, <2>6 DEF Sound
<1>7. CASE /\ Odbc!Connected(o) /\ srv' = Odbc!ClosedServer(o)
           /\ obj' = [Odbc!ClosedRecords(o) EXCEPT ![o] = Odbc!Absent]
  <2>1. obj' = [p \in Obj |-> IF p = o THEN Odbc!Absent
                              ELSE IF p \in S[o].clones THEN Odbc!Absent ELSE S[p]]
    BY <1>1, <1>3, <1>7 DEF Odbc!ClosedRecords, S, Odbc!IsClone
  <2> QED
    BY <1>5, <1>7, <2>1, OdbcAbsent
<1>8. CASE obj[o].hdbc = 0 /\ srv' = srv /\ obj' = [obj EXCEPT ![o] = Odbc!Absent]
  <2>1. obj[o].clones = {}
    BY <1>1, <1>8, OdbcBase
  <2>2. obj' = [p \in Obj |-> IF p = o THEN Odbc!Absent
                              ELSE IF p \in obj[o].clones THEN Odbc!Absent ELSE obj[p]]
    BY <1>1, <1>8, <2>1 DEF OdbcGood
  <2>3. OdbcGood(obj', srv)
    BY <1>1, <2>2, OdbcAbsent, OdbcRoot, ServerSame
  <2> QED
    BY <1>8, <2>3, OdbcQuietStep
<1> QED
  BY <1>6, <1>7, <1>8

LEMMA OdbcClose ==
    ASSUME OdbcInv, NEW o \in Obj, Odbc!Close(o) \/ Odbc!Destroy(o)
    PROVE  OdbcInv'
<1>1. reply' \in Reply /\ obj[o].alive
  BY AnswerFacts, OdbcServer
     DEF Odbc!Close, Odbc!Destroy, Odbc!Connected, Methods, Endings
<1>2. CASE Odbc!IsClone(o)
  <2>1. CASE Odbc!Connected(o)
    <3>1. [Odbc!ClosedRecords(o) EXCEPT ![o] = Odbc!Absent] = Odbc!ClosedRecords(o)
      BY <1>2, <2>1 DEF Odbc!ClosedRecords, Odbc!WithTrans, OdbcInv, OdbcGood
    <3>2. obj' = Odbc!ClosedRecords(o) /\ srv' = Odbc!ClosedServer(o)
      BY <2>1, <3>1 DEF Odbc!Close, Odbc!Destroy, Odbc!Connected
    <3> QED
      BY <1>1, <1>2, <2>1, <3>2, OdbcCloseClone
  <2>2. CASE ~Odbc!Connected(o)
    <3>1. obj[o].hdbc = 0 /\ obj[o].parent # NoObj
      BY <1>1, <1>2, <2>2 DEF Odbc!Connected, Odbc!IsClone
    <3>2. obj[obj[o].parent].hdbc = 0 /\ obj[o].parent \in Obj
      BY <3>1, OdbcBase DEF OdbcInv
    <3>3. obj[obj[o].parent].clones = {}
      BY <3>2, OdbcBase DEF OdbcInv
    <3> QED
      BY <1>1, <3>1, <3>2, <3>3 DEF OdbcInv, OdbcGood, Family
  <2> QED
    BY <2>1, <2>2
<1>3. CASE ~Odbc!IsClone(o)
  BY <1>1, <1>3, OdbcCloseRoot DEF Odbc!Close, Odbc!Destroy, Odbc!Connected
<1> QED
  BY <1>2, <1>3

LEMMA OdbcStep == OdbcInv /\ Odbc!Next => OdbcInv'
<1> SUFFICES ASSUME OdbcInv, Odbc!Next PROVE OdbcInv'
  OBVIOUS
<1>1. ASSUME NEW o \in Obj, Odbc!New(o) \/ Odbc!Open(o) PROVE OdbcInv'
  BY <1>1, OdbcNew, OdbcOpen
<1>2. ASSUME NEW o \in Obj, NEW t, NEW fetch \in BOOLEAN, NEW args \in BOOLEAN,
             Odbc!Exec(o, t, fetch, args)
      PROVE  OdbcInv'
  BY <1>2, OdbcExec
<1>3. ASSUME NEW o \in Obj, NEW q \in -2 .. MaxLines, Odbc!Fetch(o, q) \/ Odbc!FetchError(o, q)
      PROVE OdbcInv'
  BY <1>3, OdbcFetchAt, OdbcFetchError
<1>4. ASSUME NEW o \in Obj,
             \/ Odbc!FetchLines(o) \/ Odbc!FetchClear(o)
             \/ Odbc!Begin(o) \/ Odbc!Commit(o) \/ Odbc!Rollback(o)
             \/ Odbc!Close(o) \/ Odbc!Destroy(o)
      PROVE  OdbcInv'
  BY <1>4, OdbcLines, OdbcTransaction, OdbcClose
<1>5. ASSUME NEW o \in Obj, NEW n \in Obj, Odbc!Clone(o, n) PROVE OdbcInv'
  BY <1>5, OdbcClone
<1> QED
  BY <1>1, <1>2, <1>3, <1>4, <1>5, OdbcServer DEF Odbc!Next

LEMMA OdbcStart == Odbc!Init => OdbcInv
<1> SUFFICES ASSUME Odbc!Init PROVE OdbcInv
  OBVIOUS
<1>1. /\ obj = [o \in Obj |-> Odbc!Absent] /\ srv = [c \in Conn |-> Silent]
      /\ reply = NoReply
  BY OdbcServer DEF Odbc!Init
<1>2. obj \in [Obj -> OdbcRecord] /\ srv \in [Conn -> Server] /\ reply \in Reply
  BY <1>1, OdbcAbsent, SilentFacts, ReplyFacts
<1>3. Family(obj, HdbcsOf(obj), srv)
  BY <1>1, OdbcAbsent, ServerAssumption DEF Family, HdbcsOf
<1>4. NoneAborted(srv)
  BY <1>1, SilentFacts DEF NoneAborted
<1> QED
  BY <1>1, <1>2, <1>3, <1>4, OdbcAbsent DEF OdbcInv, OdbcGood

-----------------------------------------------------------------------------------
(* SQLite 2. *)

(* SqliteSession sees the same server. *)
LEMMA SqliteServer ==
    /\ Sqlite!Conn = Conn /\ Sqlite!MaxLines = MaxLines
    /\ Sqlite!Silent = Silent /\ Sqlite!NoReply = NoReply
    /\ \A s : /\ Sqlite!Linked(s) = Linked(s) /\ Sqlite!Begun(s) = Begun(s)
              /\ Sqlite!Committed(s) = Committed(s) /\ Sqlite!RolledBack(s) = RolledBack(s)
              /\ Sqlite!HungUp(s) = HungUp(s)
    /\ \A s, ids : Sqlite!Written(s, ids) = Written(s, ids)
    /\ \A s, t, n : Sqlite!Writes(s, t, n) = Writes(s, t, n)
    /\ \A s, t : Sqlite!Given(s, t) = Given(s, t)
    /\ \A t : /\ Sqlite!UpToError(t) = UpToError(t) /\ Sqlite!Rows(t) = Rows(t)
              /\ Sqlite!Selects(t) <=> Selects(t)
    /\ \A r : Sqlite!Another(r) = Another(r)
    /\ \A o, m, e : Sqlite!Answer(o, m, e) = Answer(o, m, e)
    /\ \A o, e, ids : Sqlite!Executed(o, e, ids) = Executed(o, e, ids)
    /\ \A o, q : Sqlite!NoLine(o, q) = NoLine(o, q)
    /\ \A o, q, n, r : Sqlite!GivenLine(o, q, n, r) = GivenLine(o, q, n, r)
    /\ \A o, n : Sqlite!Count(o, n) = Count(o, n)
<1>1. \A S : Sqlite!Cardinality(S) = Cardinality(S)
  <2>1. \A S : Sqlite!IsFiniteSet(S) = IsFiniteSet(S)
    BY DEF Sqlite!IsFiniteSet, IsFiniteSet
  <2> QED
    BY <2>1 DEF Sqlite!Cardinality, Cardinality
<1>2. \A s, t, n : Sqlite!Writes(s, t, n) = Writes(s, t, n)
  <2>1. \A s : Sqlite!Unused(s) = Unused(s)
    BY DEF Sqlite!Unused, Unused, Sqlite!Work, Work
  <2>2. \A t, n : Sqlite!Effects(t, n) = Effects(t, n)
    BY <1>1 DEF Sqlite!Effects, Effects
  <2>3. \A S, k : Sqlite!Lowest(S, k) = Lowest(S, k)
    BY <1>1 DEF Sqlite!Lowest, Lowest
  <2> QED
    BY <2>1, <2>2, <2>3 DEF Sqlite!Writes, Writes
<1>3. \A s, t : Sqlite!Given(s, t) = Given(s, t)
  BY <1>2 DEF Sqlite!Given, Given
<1>4. /\ Sqlite!Conn = Conn /\ Sqlite!MaxLines = MaxLines
      /\ Sqlite!Silent = Silent /\ Sqlite!NoReply = NoReply
  BY DEF Sqlite!Conn, Conn, Sqlite!MaxLines, MaxLines, Sqlite!Silent, Silent, Sqlite!NoReply, NoReply
<1>5. \A s : /\ Sqlite!Linked(s) = Linked(s) /\ Sqlite!Begun(s) = Begun(s)
             /\ Sqlite!Committed(s) = Committed(s) /\ Sqlite!RolledBack(s) = RolledBack(s)
             /\ Sqlite!HungUp(s) = HungUp(s)
  BY <1>4 DEF Sqlite!Linked, Linked, Sqlite!Begun, Begun, Sqlite!Committed, Committed,
              Sqlite!RolledBack, RolledBack, Sqlite!HungUp, HungUp
<1>6. \A s, ids : Sqlite!Written(s, ids) = Written(s, ids)
  BY DEF Sqlite!Written, Written
<1>7. \A t : /\ Sqlite!UpToError(t) = UpToError(t) /\ Sqlite!Rows(t) = Rows(t)
             /\ Sqlite!Selects(t) <=> Selects(t)
  <2>1. \A t : Sqlite!UpToError(t) = UpToError(t)
    BY DEF Sqlite!UpToError, UpToError
  <2>2. \A t : Sqlite!Selects(t) <=> Selects(t)
    BY DEF Sqlite!Selects, Selects
  <2> QED
    BY <2>1, <2>2 DEF Sqlite!Rows, Rows
<1>8. \A r : Sqlite!Another(r) = Another(r)
  BY DEF Sqlite!Another, Another
<1>9. \A o, m, e : Sqlite!Answer(o, m, e) = Answer(o, m, e)
  BY <1>4 DEF Sqlite!Answer, Answer
<1>10. /\ \A o, e, ids : Sqlite!Executed(o, e, ids) = Executed(o, e, ids)
       /\ \A o, q : Sqlite!NoLine(o, q) = NoLine(o, q)
       /\ \A o, q, n, r : Sqlite!GivenLine(o, q, n, r) = GivenLine(o, q, n, r)
       /\ \A o, n : Sqlite!Count(o, n) = Count(o, n)
  BY <1>9 DEF Sqlite!Executed, Executed, Sqlite!NoLine, NoLine, Sqlite!GivenLine, GivenLine,
              Sqlite!Count, Count
<1> QED
  BY <1>2, <1>3, <1>4, <1>5, <1>6, <1>7, <1>8, <1>9, <1>10

SqliteRecord ==
    [alive : BOOLEAN, parent : Obj \cup {NoObj}, clones : SUBSET Obj,
     db : Conn \cup {0}, database : BOOLEAN, auto : BOOLEAN, intrans : BOOLEAN,
     res : 0 .. 2, len : 0 .. MaxLines, tuple : -1 .. MaxLines, left : BOOLEAN]

(* An open database has a name, and autocommit is off in a transaction only. *)
Settled(r) == (r.db # 0 => r.database) /\ (~r.auto => r.intrans)

SqliteGood(S, C) ==
    /\ S \in [Obj -> SqliteRecord] /\ C \in [Conn -> Server]
    /\ Family(S, DbOf(S), C)
    /\ \A o \in Obj : Settled(S[o])
    /\ NoneAborted(C)
SqliteInv == SqliteGood(obj, srv) /\ reply \in Reply

(* A record that differs from r in its flags and its result only. *)
SqliteAlike(r, s) ==
    /\ s \in SqliteRecord /\ Settled(s)
    /\ s.alive = r.alive /\ s.parent = r.parent /\ s.clones = r.clones /\ s.db = r.db

LEMMA SqliteAbsent ==
    /\ Sqlite!Absent \in SqliteRecord /\ Settled(Sqlite!Absent)
    /\ Sqlite!Absent.alive = FALSE /\ Sqlite!Absent.parent = NoObj
    /\ Sqlite!Absent.clones = {} /\ Sqlite!Absent.db = 0 /\ Sqlite!Absent.res = 0
    /\ Sqlite!Absent.auto = TRUE /\ Sqlite!Absent.intrans = FALSE
    /\ Sqlite!Fresh \in SqliteRecord /\ Settled(Sqlite!Fresh)
    /\ Sqlite!Fresh.alive = TRUE /\ Sqlite!Fresh.parent = NoObj
    /\ Sqlite!Fresh.clones = {} /\ Sqlite!Fresh.db = 0 /\ Sqlite!Fresh.res = 0
<1>1. /\ Sqlite!Absent \in SqliteRecord /\ Settled(Sqlite!Absent)
      /\ Sqlite!Absent.alive = FALSE /\ Sqlite!Absent.parent = NoObj
      /\ Sqlite!Absent.clones = {} /\ Sqlite!Absent.db = 0 /\ Sqlite!Absent.res = 0
      /\ Sqlite!Absent.auto = TRUE /\ Sqlite!Absent.intrans = FALSE
  BY LinesFacts DEF Sqlite!Absent, SqliteRecord, Settled
<1>2. PICK b \in BOOLEAN : b = TRUE
  OBVIOUS
<1>3. Sqlite!Fresh = [Sqlite!Absent EXCEPT !.alive = b]
  BY <1>2 DEF Sqlite!Fresh
<1>4. /\ Sqlite!Fresh \in SqliteRecord /\ Sqlite!Fresh.auto = TRUE
      /\ Sqlite!Fresh.alive = b /\ Sqlite!Fresh.parent = NoObj
      /\ Sqlite!Fresh.clones = {} /\ Sqlite!Fresh.db = 0 /\ Sqlite!Fresh.res = 0
  BY <1>1, <1>3 DEF SqliteRecord
<1> QED
  BY <1>1, <1>2, <1>4 DEF Settled

LEMMA SqliteBase ==
    ASSUME NEW S, NEW C, SqliteGood(S, C), NEW o \in Obj
    PROVE  /\ S[o] \in SqliteRecord
           /\ ~S[o].alive => S[o].db = 0 /\ S[o].parent = NoObj
           /\ S[o].db = 0 => S[o].clones = {}
           /\ S[o].parent # NoObj =>
                 /\ S[o].parent \in Obj /\ S[o].clones = {}
                 /\ S[S[o].parent].alive /\ S[S[o].parent].parent = NoObj
                 /\ S[S[o].parent].db = S[o].db
           /\ \A p \in Obj : S[o].db # 0 /\ S[o].db = S[p].db => Kin(S, o) = Kin(S, p)
<1>1. S[o] \in SqliteRecord
  BY DEF SqliteGood
<1>2. \A p \in Obj : DbOf(S)[p] = S[p].db
  BY DEF DbOf
<1>3. Family(S, DbOf(S), C)
  BY DEF SqliteGood
<1>4. ASSUME S[o].parent # NoObj
      PROVE  /\ S[o].parent \in Obj /\ S[o].clones = {} /\ S[o].alive
             /\ S[S[o].parent].alive /\ S[S[o].parent].parent = NoObj
             /\ DbOf(S)[S[o].parent] = DbOf(S)[o]
  BY <1>3, <1>4, ServerAssumption DEF Family
<1>5. \A p \in Obj : DbOf(S)[o] # 0 /\ DbOf(S)[o] = DbOf(S)[p] => Kin(S, o) = Kin(S, p)
  BY <1>3 DEF Family
<1>6. /\ ~S[o].alive => DbOf(S)[o] = 0 /\ S[o].parent = NoObj
      /\ DbOf(S)[o] = 0 => S[o].clones = {}
  BY <1>3 DEF Family
<1> QED
  BY <1>1, <1>2, <1>4, <1>5, <1>6

(* Flags and results change. *)
LEMMA SqliteChange ==
    ASSUME NEW S, NEW C, SqliteGood(S, C), NEW o \in Obj, NEW r, SqliteAlike(S[o], r)
    PROVE  SqliteGood([S EXCEPT ![o] = r], C)
<1> DEFINE T == [S EXCEPT ![o] = r]
<1>1. T \in [Obj -> SqliteRecord]
  BY DEF SqliteGood, SqliteAlike
<1>2. \A p \in Obj : T[p] = IF p = o THEN r ELSE S[p]
  BY DEF SqliteGood
<1> HIDE DEF T
<1>3. \A p \in Obj : /\ SameObject(S, T, DbOf(S), DbOf(T), p)
                     /\ T[p].db = S[p].db /\ Settled(T[p])
  BY <1>2 DEF SqliteGood, SameObject, DbOf, SqliteAlike
<1>4. NoneUnused(C, C)
  BY DEF NoneUnused
<1>5. Family(T, DbOf(T), C)
  BY <1>3, <1>4, FamilySame DEF SqliteGood
<1>6. SqliteGood(T, C)
  BY <1>1, <1>3, <1>5 DEF SqliteGood
<1> QED
  BY <1>6 DEF T

(* The connections change. *)
LEMMA SqliteMove ==
    ASSUME NEW S, NEW C, NEW G, SqliteGood(S, C), ServerStep(C, G)
    PROVE  SqliteGood(S, G)
<1>1. \A p \in Obj : SameObject(S, S, DbOf(S), DbOf(S), p)
  BY DEF SameObject
<1>2. Family(S, DbOf(S), G)
  BY <1>1, FamilySame DEF SqliteGood, ServerStep, ServerMoves
<1> QED
  BY <1>2 DEF SqliteGood, ServerStep, ServerMoves

(* The roots: r replaces the record of o, whose connection may be closed.   *)
LEMMA SqliteRoot ==
    ASSUME NEW S, NEW C, NEW T, NEW G, SqliteGood(S, C),
           NEW o \in Obj, NEW r \in SqliteRecord, Settled(r), S[o].parent = NoObj,
           r.parent = NoObj, r.clones = {}, ~r.alive => r.db = 0,
           \/ r.db \in {0, S[o].db}
           \/ r.db \in Conn /\ C[r.db].link = "unused" /\ G[r.db].link # "unused",
           ServerStep(C, G),
           T = [p \in Obj |-> IF p = o THEN r
                              ELSE IF p \in S[o].clones THEN Sqlite!Absent ELSE S[p]]
    PROVE  SqliteGood(T, G)
<1>1. T \in [Obj -> SqliteRecord]
  BY SqliteAbsent DEF SqliteGood
<1>2. /\ T[o] = r
      /\ \A p \in Obj \ {o} : T[p] = IF p \in S[o].clones THEN Sqlite!Absent ELSE S[p]
  OBVIOUS
<1>3. \A p \in Obj \ {o} :
         IF p \in S[o].clones
         THEN ~T[p].alive /\ T[p].parent = NoObj /\ T[p].clones = {} /\ DbOf(T)[p] = 0
         ELSE SameObject(S, T, DbOf(S), DbOf(T), p)
  BY <1>2, SqliteAbsent DEF SameObject, DbOf
<1>4. DbOf(T)[o] = r.db /\ DbOf(S)[o] = S[o].db
  BY <1>2 DEF DbOf
<1>5. Family(T, DbOf(T), G)
  <2>1. RootStep(S, DbOf(S), C, T, DbOf(T), G, o)
    BY <1>2, <1>3, <1>4 DEF RootStep, ServerStep, ServerMoves, SqliteGood
  <2> QED
    BY <2>1, FamilyRoot, Zenon
<1>6. \A p \in Obj : Settled(T[p])
  BY <1>2, SqliteAbsent DEF SqliteGood
<1> QED
  BY <1>1, <1>5, <1>6 DEF SqliteGood, ServerStep, ServerMoves

(* A clone is attached, and detached. *)
LEMMA SqliteAttach ==
    ASSUME NEW S, NEW C, NEW T, SqliteGood(S, C),
           NEW r \in Obj, NEW n \in Obj, NEW s \in SqliteRecord, Settled(s),
           S[r].alive, S[r].parent = NoObj, S[r].db # 0, ~S[n].alive,
           s.alive, s.parent = r, s.clones = {}, s.db = S[r].db,
           Attached(S, T, r, n, s)
    PROVE  SqliteGood(T, C)
<1>1. n # r
  OBVIOUS
<1>2. /\ T[n] = s /\ T[r] = [S[r] EXCEPT !.clones = @ \cup {n}]
      /\ \A p \in Obj \ {n, r} : T[p] = S[p]
      /\ DOMAIN T = Obj
  BY <1>1 DEF SqliteGood, Attached
<1>3. /\ T[r] \in SqliteRecord /\ T[r].clones = S[r].clones \cup {n}
      /\ T[r].alive = S[r].alive /\ T[r].parent = S[r].parent
      /\ T[r].db = S[r].db /\ Settled(T[r])
  <2>1. S[r] \in SqliteRecord /\ Settled(S[r])
    BY DEF SqliteGood
  <2>2. PICK M \in SUBSET Obj : M = S[r].clones \cup {n}
    BY <2>1 DEF SqliteRecord
  <2>3. T[r] = [S[r] EXCEPT !.clones = M]
    BY <1>2, <2>2
  <2>4. LET v == [S[r] EXCEPT !.clones = M]
        IN /\ v \in SqliteRecord /\ v.clones = M
           /\ v.alive = S[r].alive /\ v.parent = S[r].parent
           /\ v.db = S[r].db /\ v.database = S[r].database
           /\ v.auto = S[r].auto /\ v.intrans = S[r].intrans
    BY <2>1 DEF SqliteRecord
  <2> QED
    BY <2>1, <2>2, <2>3, <2>4 DEF Settled
<1>4. T \in [Obj -> SqliteRecord]
  <2>1. ASSUME NEW p \in Obj PROVE T[p] \in SqliteRecord
    <3>1. CASE p = r \/ p = n
      BY <1>2, <1>3, <3>1
    <3>2. CASE p # r /\ p # n
      BY <1>2, <3>2 DEF SqliteGood
    <3> QED
      BY <3>1, <3>2
  <2> QED
    BY <2>1 DEF SqliteGood, Attached
<1>5. Family(T, DbOf(T), C)
  <2>1. \A p \in Obj \ {r, n} : SameObject(S, T, DbOf(S), DbOf(T), p)
    BY <1>2 DEF SameObject, DbOf
  <2>2. DbOf(S)[r] # 0 /\ DbOf(T)[n] = DbOf(S)[r] /\ DbOf(T)[r] = DbOf(S)[r]
    BY <1>2, <1>3 DEF DbOf
  <2>3. CloneStep(S, DbOf(S), C, T, DbOf(T), C, r, n)
    BY <1>2, <1>3, <2>1, <2>2 DEF CloneStep, NoneUnused, SqliteGood
  <2> QED
    BY <2>3, FamilyClone, Zenon
<1>6. ASSUME NEW p \in Obj
      PROVE  Settled(T[p])
  <2>1. CASE p = r
    BY <1>3, <2>1 DEF SqliteGood
  <2>2. CASE p = n
    BY <1>2, <2>2 DEF SqliteGood
  <2>3. CASE p # r /\ p # n
    BY <1>2, <2>3 DEF SqliteGood
  <2> QED
    BY <2>1, <2>2, <2>3
<1> QED
  BY <1>4, <1>5, <1>6 DEF SqliteGood

LEMMA SqliteDetach ==
    ASSUME NEW S, NEW C, NEW T, SqliteGood(S, C),
           NEW o \in Obj, NEW r \in Obj, S[o].alive, S[o].parent = r,
           Detached(S, T, r, o, Sqlite!Absent)
    PROVE  SqliteGood(T, C)
<1>1. r # o
  BY ServerAssumption DEF SqliteGood, Family
<1>2. /\ T[o] = Sqlite!Absent /\ T[r] = [S[r] EXCEPT !.clones = @ \ {o}]
      /\ \A p \in Obj \ {o, r} : T[p] = S[p]
      /\ DOMAIN T = Obj
  BY <1>1 DEF SqliteGood, Detached
<1>3. /\ T[r] \in SqliteRecord /\ T[r].clones = S[r].clones \ {o}
      /\ T[r].alive = S[r].alive /\ T[r].parent = S[r].parent
      /\ T[r].db = S[r].db /\ Settled(T[r])
  <2>1. S[r] \in SqliteRecord /\ Settled(S[r])
    BY DEF SqliteGood
  <2>2. PICK M \in SUBSET Obj : M = S[r].clones \ {o}
    BY <2>1 DEF SqliteRecord
  <2>3. T[r] = [S[r] EXCEPT !.clones = M]
    BY <1>2, <2>2
  <2>4. LET v == [S[r] EXCEPT !.clones = M]
        IN /\ v \in SqliteRecord /\ v.clones = M
           /\ v.alive = S[r].alive /\ v.parent = S[r].parent
           /\ v.db = S[r].db /\ v.database = S[r].database
           /\ v.auto = S[r].auto /\ v.intrans = S[r].intrans
    BY <2>1 DEF SqliteRecord
  <2> QED
    BY <2>1, <2>2, <2>3, <2>4 DEF Settled
<1>4. T \in [Obj -> SqliteRecord]
  <2>1. ASSUME NEW p \in Obj PROVE T[p] \in SqliteRecord
    <3>1. CASE p = r \/ p = o
      BY <1>2, <1>3, <3>1, SqliteAbsent
    <3>2. CASE p # r /\ p # o
      BY <1>2, <3>2 DEF SqliteGood
    <3> QED
      BY <3>1, <3>2
  <2> QED
    BY <2>1 DEF SqliteGood, Detached
<1>5. Family(T, DbOf(T), C)
  <2>1. ASSUME NEW p \in Obj \ {r, o}
        PROVE  SameObject(S, T, DbOf(S), DbOf(T), p)
    <3>1. T[p] = S[p]
      BY <1>2
    <3> QED
      BY <3>1 DEF SameObject, DbOf
  <2>2. DbOf(T)[o] = 0 /\ DbOf(T)[r] = DbOf(S)[r]
    BY <1>2, <1>3, SqliteAbsent DEF DbOf
  <2>3. UncloneStep(S, DbOf(S), C, T, DbOf(T), C, r, o)
    BY <1>1, <1>2, <1>3, <2>1, <2>2, SqliteAbsent DEF UncloneStep, NoneUnused, SqliteGood
  <2> QED
    BY <2>3, FamilyUnclone, Zenon
<1>6. ASSUME NEW p \in Obj
      PROVE  Settled(T[p])
  <2>1. CASE p = r
    BY <1>3, <2>1 DEF SqliteGood
  <2>2. CASE p = o
    BY <1>2, <2>2, SqliteAbsent
  <2>3. CASE p # r /\ p # o
    BY <1>2, <2>3 DEF SqliteGood
  <2> QED
    BY <2>1, <2>2, <2>3
<1> QED
  BY <1>4, <1>5, <1>6 DEF SqliteGood

LEMMA SqliteRootObject ==
    ASSUME NEW C, SqliteGood(obj, C), NEW o \in Obj
    PROVE  /\ Sqlite!Root(o) \in Obj /\ obj[Sqlite!Root(o)].db = obj[o].db
           /\ obj[Sqlite!Root(o)].parent = NoObj
           /\ obj[o].alive => obj[Sqlite!Root(o)].alive
           /\ Sqlite!Autocommit(o) \in BOOLEAN /\ Sqlite!InTrans(o) \in BOOLEAN
           /\ ~Sqlite!Autocommit(o) => Sqlite!InTrans(o)
<1>1. /\ Sqlite!Root(o) \in Obj /\ obj[Sqlite!Root(o)].db = obj[o].db
      /\ obj[Sqlite!Root(o)].parent = NoObj
      /\ obj[o].alive => obj[Sqlite!Root(o)].alive
  BY SqliteBase DEF Sqlite!Root, Sqlite!IsClone
<1>2. obj[Sqlite!Root(o)] \in SqliteRecord /\ Settled(obj[Sqlite!Root(o)])
  BY <1>1 DEF SqliteGood
<1> QED
  BY <1>1, <1>2 DEF SqliteRecord, Settled, Sqlite!Autocommit, Sqlite!InTrans

LEMMA SqliteFlags ==
    ASSUME SqliteGood(obj, srv), NEW o \in Obj, NEW b \in BOOLEAN, NEW t \in BOOLEAN, b \/ t
    PROVE  SqliteGood(Sqlite!WithFlags(o, b, t), srv)
<1>1. PICK r \in Obj : r = Sqlite!Root(o)
  BY SqliteRootObject
<1>2. obj[r] \in SqliteRecord /\ Settled(obj[r])
  BY DEF SqliteGood
<1>3. PICK s : s = [obj[r] EXCEPT !.auto = b, !.intrans = t]
  OBVIOUS
<1>4. s \in SqliteRecord
  BY <1>2, <1>3 DEF SqliteRecord
<1>5. /\ s.alive = obj[r].alive /\ s.parent = obj[r].parent /\ s.clones = obj[r].clones
      /\ s.db = obj[r].db /\ s.database = obj[r].database /\ s.auto = b /\ s.intrans = t
  BY <1>2, <1>3 DEF SqliteRecord
<1>6. SqliteGood([obj EXCEPT ![r] = s], srv)
  BY <1>2, <1>4, <1>5, SqliteChange DEF SqliteAlike, Settled
<1>7. Sqlite!WithFlags(o, b, t) = [obj EXCEPT ![r] = s]
  BY <1>1, <1>3 DEF Sqlite!WithFlags, SqliteGood
<1> QED
  BY <1>6, <1>7

LEMMA SqliteCleared ==
    ASSUME NEW r \in SqliteRecord, Settled(r)
    PROVE  /\ SqliteAlike(r, Sqlite!ClearResult(r)) /\ Sqlite!ClearResult(r).res = 0
           /\ Sqlite!ClearResult(r).auto = r.auto /\ Sqlite!ClearResult(r).intrans = r.intrans
<1>1. PICK z \in 0 .. MaxLines : z = 0
  BY LinesFacts
<1>2. PICK b \in BOOLEAN : b = FALSE
  OBVIOUS
<1>3. PICK k \in 0 .. 2 : k = 0
  OBVIOUS
<1>4. Sqlite!ClearResult(r) = [r EXCEPT !.res = k, !.len = z, !.left = b]
  BY <1>1, <1>2, <1>3 DEF Sqlite!ClearResult
<1> DEFINE s == [r EXCEPT !.res = k, !.len = z, !.left = b]
<1>5. s \in SqliteRecord
  BY DEF SqliteRecord
<1>6. /\ s.alive = r.alive /\ s.parent = r.parent /\ s.clones = r.clones /\ s.db = r.db
      /\ s.database = r.database /\ s.auto = r.auto /\ s.intrans = r.intrans /\ s.res = k
  BY DEF SqliteRecord
<1> HIDE DEF s
<1> QED
  BY <1>3, <1>4, <1>5, <1>6 DEF SqliteAlike, Settled, s

LEMMA SqliteResult ==
    ASSUME NEW r \in SqliteRecord, Settled(r), NEW rows \in 0 .. MaxLines
    PROVE  LET n == Sqlite!NewResult(r, rows)
           IN /\ SqliteAlike(r, n) /\ n.res \in 1 .. 2 /\ n.res # r.res /\ n.len = rows
              /\ n.tuple = -1
<1>1. r.res \in 0 .. 2
  BY DEF SqliteRecord
<1>2. PICK k \in 0 .. 2 : k = Another(r.res) /\ k # r.res /\ k \in 1 .. 2
  BY <1>1, AnotherFacts
<1>3. PICK z \in -1 .. MaxLines : z = -1
  BY LinesFacts
<1>4. PICK u : u = Sqlite!ClearResult(r)
  OBVIOUS
<1>5. SqliteAlike(r, u)
  BY <1>4, SqliteCleared
<1> DEFINE s == [u EXCEPT !.res = k, !.len = rows, !.tuple = z]
<1>6. Sqlite!NewResult(r, rows) = s
  BY <1>2, <1>3, <1>4, SqliteServer DEF Sqlite!NewResult
<1>7. u \in SqliteRecord
  BY <1>5 DEF SqliteAlike
<1>8. s \in SqliteRecord
  BY <1>7 DEF SqliteRecord
<1>9. /\ s.alive = u.alive /\ s.parent = u.parent /\ s.clones = u.clones /\ s.db = u.db
      /\ s.database = u.database /\ s.auto = u.auto /\ s.intrans = u.intrans
      /\ s.res = k /\ s.len = rows /\ s.tuple = z
  BY <1>7 DEF SqliteRecord
<1> HIDE DEF s
<1> QED
  BY <1>2, <1>3, <1>5, <1>6, <1>8, <1>9 DEF SqliteAlike, Settled

(* What a method makes of a connection. *)
KeptAt(s, c) == s \in Server /\ s.link = srv[c].link /\ s.txn # "aborted"

LEMMA SqliteKept ==
    ASSUME NEW c, NEW s, KeptAt(s, c), NEW o, NEW t, NEW ids \in SUBSET Work
    PROVE  /\ KeptAt(Given(s, t), c) /\ KeptAt(Written(s, ids), c)
           /\ KeptAt(Begun(s), c) /\ KeptAt(Committed(s), c) /\ KeptAt(RolledBack(s), c)
           /\ KeptAt(Sqlite!BeginExec(o, s), c) /\ KeptAt(Sqlite!RollbackExec(o, s), c)
           /\ \A r \in Sqlite!Ended(o, s) : KeptAt(r, c)
<1>1. s \in Server /\ s.link = srv[c].link /\ s.txn # "aborted"
  BY DEF KeptAt
<1>2. KeptAt(Given(s, t), c)
  <2>1. Given(s, t) \in Server /\ Given(s, t).link = s.link /\ Given(s, t).txn = s.txn
    BY <1>1, GivenFacts
  <2> QED
    BY <1>1, <2>1 DEF KeptAt
<1>3. KeptAt(Written(s, ids), c)
  <2>1. Written(s, ids) \in Server /\ Written(s, ids).link = s.link /\ Written(s, ids).txn = s.txn
    BY <1>1, WrittenFacts
  <2> QED
    BY <1>1, <2>1 DEF KeptAt
<1>4. KeptAt(Begun(s), c) /\ KeptAt(Committed(s), c) /\ KeptAt(RolledBack(s), c)
  BY <1>1, ServerFacts DEF KeptAt
<1>5. KeptAt(Sqlite!BeginExec(o, s), c) /\ KeptAt(Sqlite!RollbackExec(o, s), c)
  BY <1>4, SqliteServer DEF Sqlite!BeginExec, Sqlite!RollbackExec
<1>6. \A r \in Sqlite!Ended(o, s) : r = s \/ r = Committed(s)
  BY SqliteServer DEF Sqlite!Ended
<1> QED
  BY <1>2, <1>3, <1>4, <1>5, <1>6

(* The connection of an object. *)
LEMMA SqliteConn ==
    ASSUME SqliteInv, NEW o \in Obj, Sqlite!Opened(o)
    PROVE  obj[o].db \in Conn /\ KeptAt(srv[obj[o].db], obj[o].db)
<1>1. obj[o].db \in Conn
  BY SqliteBase DEF SqliteInv, Sqlite!Opened, SqliteRecord
<1> QED
  BY <1>1 DEF SqliteInv, SqliteGood, NoneAborted, KeptAt

(* A method that leaves the connection as s and the records as T.           *)
LEMMA SqliteMovedStep ==
    ASSUME SqliteInv, NEW o \in Obj, NEW s, KeptAt(s, obj[o].db), NEW T,
           SqliteGood(T, srv), obj' = T, srv' = [srv EXCEPT ![obj[o].db] = s], reply' \in Reply
    PROVE  SqliteInv'
<1>1. srv \in [Conn -> Server]
  BY DEF SqliteInv, SqliteGood
<1> DEFINE c == obj[o].db
<1>2. s \in Server /\ s.link = srv[c].link /\ s.txn # "aborted" /\ srv' = [srv EXCEPT ![c] = s]
  BY DEF KeptAt
<1> HIDE DEF c
<1>3. ServerStep(srv, [srv EXCEPT ![c] = s])
  BY <1>1, <1>2, ServerChange
<1>4. SqliteGood(T, [srv EXCEPT ![c] = s])
  BY <1>3, SqliteMove
<1> QED
  BY <1>2, <1>4 DEF SqliteInv

(* A method that leaves the connections alone. *)
LEMMA SqliteQuietStep ==
    ASSUME SqliteInv, SqliteGood(obj', srv), srv' = srv, reply' \in Reply
    PROVE  SqliteInv'
BY DEF SqliteInv

LEMMA SqliteNew ==
    ASSUME SqliteInv, NEW o \in Obj, Sqlite!New(o)
    PROVE  SqliteInv'
<1>1. /\ ~obj[o].alive /\ obj' = [obj EXCEPT ![o] = Sqlite!Fresh]
      /\ reply' = Answer(o, "new", "ok") /\ srv' = srv
  BY SqliteServer DEF Sqlite!New
<1>2. obj[o].clones = {} /\ obj[o].parent = NoObj /\ obj[o].db = 0
  BY <1>1, SqliteBase DEF SqliteInv
<1>3. reply' \in Reply /\ ServerStep(srv, srv)
  BY <1>1, AnswerFacts, ServerSame DEF SqliteInv, SqliteGood, Methods, Endings
<1>4. obj' = [p \in Obj |-> IF p = o THEN Sqlite!Fresh
                           ELSE IF p \in obj[o].clones THEN Sqlite!Absent ELSE obj[p]]
  BY <1>1, <1>2 DEF SqliteInv, SqliteGood
<1>5. SqliteGood(obj', srv)
  BY <1>2, <1>3, <1>4, SqliteAbsent, SqliteRoot DEF SqliteInv
<1> QED
  BY <1>1, <1>3, <1>5, SqliteQuietStep

(* The name of a file that is not open, and the flag autocommit. *)
LEMMA SqliteNamed ==
    ASSUME SqliteInv, NEW o \in Obj, obj[o].db = 0, NEW b \in BOOLEAN,
           obj' = [obj EXCEPT ![o].database = b, ![o].auto = TRUE]
    PROVE  SqliteGood(obj', srv)
<1>1. obj[o] \in SqliteRecord /\ Settled(obj[o])
  BY DEF SqliteInv, SqliteGood
<1>2. PICK a \in BOOLEAN : a = TRUE
  OBVIOUS
<1>3. PICK s : s = [obj[o] EXCEPT !.database = b, !.auto = a]
  OBVIOUS
<1>4. s \in SqliteRecord
  BY <1>1, <1>3 DEF SqliteRecord
<1>5. /\ s.alive = obj[o].alive /\ s.parent = obj[o].parent /\ s.clones = obj[o].clones
      /\ s.db = obj[o].db /\ s.auto = a
  BY <1>1, <1>3 DEF SqliteRecord
<1>6. SqliteAlike(obj[o], s)
  BY <1>2, <1>4, <1>5 DEF SqliteAlike, Settled
<1>7. obj' = [obj EXCEPT ![o] = s]
  BY <1>2, <1>3 DEF SqliteInv, SqliteGood
<1>8. SqliteGood(obj, srv)
  BY DEF SqliteInv
<1>9. SqliteGood([obj EXCEPT ![o] = s], srv)
  BY <1>6, <1>8, SqliteChange
<1> QED
  BY <1>7, <1>9, Zenon

LEMMA SqliteOpen ==
    ASSUME SqliteInv, NEW o \in Obj, Sqlite!Open(o)
    PROVE  SqliteInv'
<1>1. /\ reply' \in Reply
      /\ obj[o].alive /\ obj[o].parent = NoObj /\ obj[o].db = 0
  BY AnswerFacts, SqliteServer DEF Sqlite!Open, Sqlite!IsClone, Methods, Endings
<1>2. CASE obj' = [obj EXCEPT ![o].database = FALSE, ![o].auto = TRUE] /\ srv' = srv
  BY <1>1, <1>2, SqliteNamed, SqliteQuietStep
<1>3. ASSUME NEW c \in Conn, srv[c].link = "unused",
             obj' = [obj EXCEPT ![o].db = c, ![o].database = TRUE, ![o].auto = TRUE],
             srv' = [srv EXCEPT ![c] = Linked(@)]
      PROVE  SqliteInv'
  <2>0. PICK b \in BOOLEAN : b = TRUE
    OBVIOUS
  <2>1. PICK r : r = [obj[o] EXCEPT !.db = c, !.database = b, !.auto = b]
    OBVIOUS
  <2>2. obj[o] \in SqliteRecord /\ obj[o].clones = {}
    BY <1>1, SqliteBase DEF SqliteInv, SqliteGood
  <2>3. r \in SqliteRecord
    BY <2>1, <2>2 DEF SqliteRecord
  <2>4. /\ r.db = c /\ r.database = b /\ r.auto = b
        /\ r.alive = obj[o].alive /\ r.parent = obj[o].parent /\ r.clones = {}
    BY <2>1, <2>2 DEF SqliteRecord
  <2>5. obj' = [p \in Obj |-> IF p = o THEN r
                             ELSE IF p \in obj[o].clones THEN Sqlite!Absent ELSE obj[p]]
    BY <1>3, <2>0, <2>1, <2>2 DEF SqliteInv, SqliteGood
  <2>6. srv \in [Conn -> Server] /\ srv[c] \in Server
    BY DEF SqliteInv, SqliteGood
  <2>7. /\ Linked(srv[c]) \in Server /\ Linked(srv[c]).link = "open"
        /\ Linked(srv[c]).txn = srv[c].txn
    BY <2>6, ServerFacts
  <2>8. ServerStep(srv, srv') /\ srv'[c].link # "unused"
    <3>1. ServerStep(srv, [srv EXCEPT ![c] = Linked(srv[c])])
      BY <2>6, <2>7, ServerChange
    <3> QED
      BY <1>3, <2>6, <2>7, <3>1
  <2>9. Settled(r) /\ r.alive /\ r.parent = NoObj
    BY <1>1, <2>0, <2>4 DEF Settled
  <2>10. r.db \in Conn /\ srv[r.db].link = "unused" /\ srv'[r.db].link # "unused"
    BY <1>3, <2>4, <2>8
  <2>11. SqliteGood(obj, srv)
    BY DEF SqliteInv
  <2>12. SqliteGood(obj', srv')
    BY <1>1, <2>3, <2>4, <2>5, <2>8, <2>9, <2>10, <2>11, SqliteRoot
  <2> QED
    BY <1>1, <2>12 DEF SqliteInv
<1> QED
  BY <1>2, <1>3, SqliteServer DEF Sqlite!Open

LEMMA SqliteCreate ==
    ASSUME SqliteInv, NEW o \in Obj, Sqlite!Createdb(o)
    PROVE  SqliteInv'
<1>1. reply' \in Reply
  BY AnswerFacts, SqliteServer DEF Sqlite!Createdb, Methods, Endings
<1> QED
  BY <1>1, SqliteNamed, SqliteQuietStep DEF Sqlite!Createdb

LEMMA SqliteExec ==
    ASSUME SqliteInv, NEW o \in Obj, NEW t, NEW fetch \in BOOLEAN, NEW args \in BOOLEAN,
           Sqlite!Exec(o, t, fetch, args)
    PROVE  SqliteInv'
<1> DEFINE c == obj[o].db
           n == UpToError(t)
           done == Written(Sqlite!BeginExec(o, Given(srv[c], t)), Writes(srv[c], t, n))
           ids == Writes(srv[c], t, Len(t))
<1>1. SqliteGood(obj, srv) /\ Sqlite!Opened(o) /\ obj[o] \in SqliteRecord /\ Settled(obj[o])
  BY DEF SqliteInv, SqliteGood, Sqlite!Exec
<1>2. KeptAt(Given(srv[c], t), c) /\ KeptAt(done, c)
  <2>1. KeptAt(srv[c], c)
    BY <1>1, SqliteConn
  <2>2. Writes(srv[c], t, n) \in SUBSET Work /\ {} \in SUBSET Work
    BY WritesFacts
  <2> HIDE DEF c, n
  <2> QED
    BY <2>1, <2>2, SqliteKept
<1>3. \A e \in Endings : Executed(o, e, ids) \in Reply
  BY ReplyFacts, WritesFacts
<1>4. SqliteGood([obj EXCEPT ![o] = Sqlite!ClearResult(@)], srv)
  BY <1>1, SqliteCleared, SqliteChange
<1>5. CASE /\ srv' = [srv EXCEPT ![c] = Given(@, t)] /\ obj' = obj
           /\ reply' = Executed(o, "failed", ids)
  BY <1>1, <1>2, <1>3, <1>5, SqliteMovedStep DEF Endings
<1>6. CASE /\ srv' = [srv EXCEPT ![c] = Sqlite!RollbackExec(o, done)]
           /\ obj' = [obj EXCEPT ![o] = Sqlite!ClearResult(@)]
           /\ reply' = Executed(o, "failed", ids)
  <2> HIDE DEF done
  <2>1. KeptAt(Sqlite!RollbackExec(o, done), c)
    BY <1>2, SqliteKept
  <2> QED
    BY <1>3, <1>4, <1>6, <2>1, SqliteMovedStep DEF Endings
<1>7. ASSUME NEW s \in Sqlite!Ended(o, done), srv' = [srv EXCEPT ![c] = s],
             NEW rows \in 0 .. MaxLines,
             obj' = [obj EXCEPT ![o] = IF fetch THEN Sqlite!NewResult(@, rows)
                                       ELSE Sqlite!ClearResult(@)],
             reply' = Executed(o, "ok", ids)
      PROVE  SqliteInv'
  <2> HIDE DEF done
  <2>1. KeptAt(s, c)
    BY <1>2, <1>7, SqliteKept
  <2>2. SqliteGood([obj EXCEPT ![o] = Sqlite!NewResult(@, rows)], srv)
    BY <1>1, SqliteResult, SqliteChange
  <2>3. SqliteGood(obj', srv)
    BY <1>4, <1>7, <2>2
  <2> QED
    BY <1>3, <1>7, <2>1, <2>3, SqliteMovedStep DEF Endings
<1>8. \/ /\ srv' = [srv EXCEPT ![c] = Given(@, t)] /\ obj' = obj
         /\ reply' = Executed(o, "failed", ids)
      \/ /\ \E s \in Sqlite!Ended(o, done) : srv' = [srv EXCEPT ![c] = s]
         /\ \E rows \in IF fetch THEN Rows(t) ELSE {0} :
               obj' = [obj EXCEPT ![o] = IF fetch THEN Sqlite!NewResult(@, rows)
                                         ELSE Sqlite!ClearResult(@)]
         /\ reply' = Executed(o, "ok", ids)
      \/ /\ srv' = [srv EXCEPT ![c] = Sqlite!RollbackExec(o, done)]
         /\ obj' = [obj EXCEPT ![o] = Sqlite!ClearResult(@)]
         /\ reply' = Executed(o, "failed", ids)
  BY SqliteServer DEF Sqlite!Exec
<1>9. \A rows \in IF fetch THEN Rows(t) ELSE {0} : rows \in 0 .. MaxLines
  BY RowsFacts
<1> HIDE DEF done, ids, n, c
<1> QED
  BY <1>5, <1>6, <1>7, <1>8, <1>9

LEMMA SqliteFetch ==
    ASSUME SqliteInv, NEW o \in Obj, NEW q \in -2 .. MaxLines, Sqlite!Fetch(o, q)
    PROVE  SqliteInv'
<1> DEFINE r == obj[o]
           asked == Sqlite!Asked(o, q)
           line == IF q = -1 THEN Sqlite!NextTuple(r) ELSE asked
<1>1. SqliteGood(obj, srv) /\ r \in SqliteRecord /\ Settled(r) /\ srv' = srv
  BY DEF SqliteInv, SqliteGood, Sqlite!Fetch
<1>2. asked \in -2 .. MaxLines
  BY <1>1 DEF Sqlite!Asked, SqliteRecord
<1>3. line \in -2 .. MaxLines /\ r.len \in 0 .. MaxLines /\ r.res \in 0 .. 2
  <2>1. r.tuple \in -1 .. MaxLines /\ r.len \in 0 .. MaxLines /\ r.res \in 0 .. 2
    BY <1>1 DEF SqliteRecord
  <2> QED
    BY <1>2, <2>1, LinesFacts DEF Sqlite!NextTuple
<1>4. \/ reply' = NoLine(o, asked) /\ obj' = obj
      \/ /\ line >= 0 /\ reply' = NoLine(o, asked)
         /\ obj' = [obj EXCEPT ![o].tuple = IF q = -1 THEN line ELSE @]
      \/ /\ line >= 0 /\ line < r.len /\ reply' = GivenLine(o, asked, line, r.res)
         /\ obj' = [obj EXCEPT ![o].tuple = line]
  <2>1. IF r.res = 0 \/ line < 0
        THEN reply' = NoLine(o, asked) /\ obj' = obj
        ELSE IF line >= r.len
        THEN /\ reply' = NoLine(o, asked)
             /\ obj' = [obj EXCEPT ![o].tuple = IF q = -1 THEN line ELSE @]
        ELSE /\ reply' = GivenLine(o, asked, line, r.res)
             /\ obj' = [obj EXCEPT ![o].tuple = line]
    BY SqliteServer DEF Sqlite!Fetch
  <2> HIDE DEF asked, line
  <2> QED
    BY <1>3, <2>1
<1> HIDE DEF asked, line
<1>5. reply' \in Reply
  <2>1. NoLine(o, asked) \in Reply
    BY <1>2, ReplyFacts
  <2>2. line >= 0 /\ line < r.len => GivenLine(o, asked, line, r.res) \in Reply
    BY <1>2, <1>3, ReplyFacts, LinesFacts
  <2> QED
    BY <1>4, <2>1, <2>2
<1>6. ASSUME NEW k \in -1 .. MaxLines, obj' = [obj EXCEPT ![o].tuple = k]
      PROVE  SqliteInv'
  <2>1. PICK s : s = [r EXCEPT !.tuple = k]
    OBVIOUS
  <2>2. s \in SqliteRecord
    BY <1>1, <2>1 DEF SqliteRecord
  <2>3. /\ s.database = r.database /\ s.auto = r.auto /\ s.intrans = r.intrans
        /\ s.alive = r.alive /\ s.parent = r.parent /\ s.clones = r.clones /\ s.db = r.db
    BY <1>1, <2>1 DEF SqliteRecord
  <2>4. SqliteAlike(r, s) /\ obj' = [obj EXCEPT ![o] = s]
    BY <1>1, <1>6, <2>1, <2>2, <2>3 DEF SqliteAlike, Settled
  <2> QED
    BY <1>1, <1>5, <2>4, SqliteChange, SqliteQuietStep
<1>7. CASE obj' = obj
  BY <1>1, <1>5, <1>7, SqliteQuietStep
<1>8. line >= 0 => line \in -1 .. MaxLines
  BY <1>3
<1>9. CASE line >= 0 /\ obj' = [obj EXCEPT ![o].tuple = IF q = -1 THEN line ELSE @]
  <2>1. PICK k \in -1 .. MaxLines : k = IF q = -1 THEN line ELSE r.tuple
    BY <1>1, <1>8, <1>9 DEF SqliteRecord
  <2>2. obj' = [obj EXCEPT ![o].tuple = k]
    BY <1>9, <2>1
  <2> QED
    BY <1>6, <2>2
<1> QED
  BY <1>4, <1>6, <1>7, <1>8, <1>9

LEMMA SqliteLines ==
    ASSUME SqliteInv, NEW o \in Obj, Sqlite!FetchLines(o)
    PROVE  SqliteInv'
<1>1. obj[o].len \in 0 .. MaxLines
  BY DEF SqliteInv, SqliteGood, SqliteRecord
<1>2. reply' \in Reply
  BY <1>1, ReplyFacts, LinesFacts, SqliteServer DEF Sqlite!FetchLines, Methods, Endings
<1> QED
  BY <1>2 DEF Sqlite!FetchLines, SqliteInv

(* get, insert, set, unset and delete. *)
LEMMA SqliteModified ==
    ASSUME NEW o \in Obj, NEW e \in {"ok", "failed"}, NEW ids \in SUBSET Work
    PROVE  LET r == [Answer(o, "modify", e) EXCEPT !.ids = ids]
           IN /\ r \in Reply
              /\ r.to = o /\ r.of = "modify" /\ r.is = e /\ r.ids = ids
<1>1. PICK a \in Reply : a = Answer(o, "modify", e)
  BY AnswerFacts DEF Methods, Endings
<1>2. a.to = o /\ a.of = "modify" /\ a.is = e
  BY <1>1, AnswerOf
<1>3. LET r == [a EXCEPT !.ids = ids]
      IN r \in Reply /\ r.to = a.to /\ r.of = a.of /\ r.is = a.is /\ r.ids = ids
  BY DEF Reply
<1> QED
  BY <1>1, <1>2, <1>3

LEMMA SqliteModify ==
    ASSUME SqliteInv, NEW o \in Obj, SqliteGood(obj', srv),
           NEW hit \in BOOLEAN, NEW ends \in BOOLEAN, NEW ended \in {"ok", "failed"},
           Sqlite!Modify(o, hit, ends, ended)
    PROVE  SqliteInv'
<1> DEFINE c == obj[o].db
           one == <<"write">>
           ids == Writes(srv[c], one, 1)
           done == IF hit THEN Written(Given(srv[c], one), ids) ELSE Given(srv[c], one)
<1>1. /\ \E s \in IF ends THEN Sqlite!Ended(o, done) ELSE {done} : srv' = [srv EXCEPT ![c] = s]
      /\ reply' = [Answer(o, "modify", ended) EXCEPT !.ids = ids]
      /\ Sqlite!Opened(o)
  BY SqliteServer DEF Sqlite!Modify
<1>2. ids \in SUBSET Work
  BY WritesFacts
<1>3. KeptAt(srv[c], c)
  BY <1>1, SqliteConn
<1> HIDE DEF ids, c, one
<1>4. KeptAt(done, c)
  BY <1>2, <1>3, SqliteKept
<1> HIDE DEF done
<1>5. \A s \in Sqlite!Ended(o, done) : KeptAt(s, c)
  BY <1>2, <1>4, SqliteKept
<1>6. reply' \in Reply
  BY <1>1, <1>2, SqliteModified
<1>7. PICK s : KeptAt(s, c) /\ srv' = [srv EXCEPT ![c] = s]
  BY <1>1, <1>4, <1>5
<1> QED
  BY <1>6, <1>7, SqliteMovedStep DEF c

(* set that comes to its insert. *)
LEMMA SqliteSetInserts ==
    ASSUME SqliteInv, NEW o \in Obj, SqliteGood(obj', srv),
           NEW hit \in BOOLEAN, NEW works \in BOOLEAN, Sqlite!SetInserts(o, hit, works)
    PROVE  SqliteInv'
<1> DEFINE c == obj[o].db
           t == IF hit THEN <<"write", "write">> ELSE <<"write">>
           ids == Writes(srv[c], t, Len(t))
           updates == IF hit THEN Writes(srv[c], t, 1) ELSE {}
           b == Written(Given(srv[c], t), updates)
<1>1. /\ \E u \in Sqlite!Ended(o, b) :
         \E i \in IF works THEN Sqlite!Ended(o, Written(u, ids \ updates)) ELSE {u} :
            srv' = [srv EXCEPT ![c] = i]
      /\ reply' = [Answer(o, "modify", IF works THEN "ok" ELSE "failed") EXCEPT !.ids = ids]
      /\ Sqlite!Opened(o)
  BY SqliteServer DEF Sqlite!SetInserts
<1>2. ids \in SUBSET Work /\ updates \in SUBSET Work /\ ids \ updates \in SUBSET Work
  BY WritesFacts
<1>3. KeptAt(srv[c], c)
  BY <1>1, SqliteConn
<1> HIDE DEF ids, updates, c, t
<1>4. KeptAt(b, c)
  BY <1>2, <1>3, SqliteKept
<1> HIDE DEF b
<1>5. \A u \in Sqlite!Ended(o, b) : KeptAt(u, c)
  BY <1>2, <1>4, SqliteKept
<1>6. \A u : KeptAt(u, c) => KeptAt(Written(u, ids \ updates), c)
  BY <1>2, SqliteKept
<1>7. \A u : KeptAt(u, c) => \A i \in Sqlite!Ended(o, u) : KeptAt(i, c)
  BY <1>2, SqliteKept
<1>8. PICK s : KeptAt(s, c) /\ srv' = [srv EXCEPT ![c] = s]
  BY <1>1, <1>5, <1>6, <1>7
<1>9. reply' \in Reply
  BY <1>1, <1>2, SqliteModified
<1> QED
  BY <1>8, <1>9, SqliteMovedStep DEF c

LEMMA SqliteGet ==
    ASSUME SqliteInv, NEW o \in Obj,
           \/ Sqlite!Get(o) \/ Sqlite!Insert(o) \/ Sqlite!Set(o) \/ Sqlite!Unset(o)
           \/ Sqlite!Delete(o)
    PROVE  SqliteInv'
<1> DEFINE c == obj[o].db
           u == Sqlite!ClearResult(obj[o])
<1>1. SqliteGood(obj, srv) /\ obj[o] \in SqliteRecord /\ Settled(obj[o])
  BY DEF SqliteInv, SqliteGood
<1>2. SqliteAlike(obj[o], u)
  BY <1>1, SqliteCleared
<1>3. SqliteGood([obj EXCEPT ![o] = u], srv)
  BY <1>1, <1>2, SqliteChange
<1>4. CASE Sqlite!Get(o)
  <2>1. PICK s \in Sqlite!Ended(o, srv[c]) : srv' = [srv EXCEPT ![c] = s]
    BY <1>4 DEF Sqlite!Get
  <2>2. KeptAt(srv[c], c) /\ {} \in SUBSET Work
    BY <1>4, SqliteConn DEF Sqlite!Get
  <2>3. KeptAt(s, c)
    BY <2>2, SqliteKept
  <2>4. reply' \in Reply /\ obj' = [obj EXCEPT ![o] = u]
    BY <1>4, AnswerFacts, SqliteServer DEF Sqlite!Get, Methods, Endings
  <2> QED
    BY <1>3, <2>1, <2>3, <2>4, SqliteMovedStep
<1>5. ASSUME Sqlite!Cleared(o)
      PROVE  /\ \A hit, ends \in BOOLEAN : \A e \in {"ok", "failed"} :
                    Sqlite!Modify(o, hit, ends, e) => SqliteInv'
             /\ \A hit, works \in BOOLEAN : Sqlite!SetInserts(o, hit, works) => SqliteInv'
  <2>1. obj' = [obj EXCEPT ![o] = u]
    BY <1>5 DEF Sqlite!Cleared
  <2> QED
    BY <1>3, <2>1, SqliteModify, SqliteSetInserts
<1>6. ASSUME obj' = [obj EXCEPT ![o] = [Sqlite!ClearResult(@) EXCEPT !.left = TRUE]],
             Sqlite!Modify(o, TRUE, TRUE, "ok")
      PROVE  SqliteInv'
  <2>1. u \in SqliteRecord /\ Settled(u)
    BY <1>2 DEF SqliteAlike
  <2> HIDE DEF u
  <2>2. PICK b \in BOOLEAN : b = TRUE
    OBVIOUS
  <2>3. PICK s : s = [u EXCEPT !.left = b]
    OBVIOUS
  <2>4. s \in SqliteRecord
    BY <2>1, <2>3 DEF SqliteRecord
  <2>5. /\ s.alive = u.alive /\ s.parent = u.parent /\ s.clones = u.clones /\ s.db = u.db
        /\ s.database = u.database /\ s.auto = u.auto /\ s.intrans = u.intrans
    BY <2>1, <2>3 DEF SqliteRecord
  <2>6. SqliteAlike(obj[o], s)
    BY <1>2, <2>4, <2>5 DEF SqliteAlike, Settled
  <2>7. obj' = [obj EXCEPT ![o] = s]
    BY <1>6, <2>2, <2>3 DEF u
  <2>8. SqliteGood(obj', srv)
    BY <1>1, <2>6, <2>7, SqliteChange
  <2> QED
    BY <1>6, <2>8, SqliteModify
<1> HIDE DEF c, u
<1> QED
  BY <1>4, <1>5, <1>6 DEF Sqlite!Insert, Sqlite!Set, Sqlite!Unset, Sqlite!Delete

(* begin, commit and rollback. *)
LEMMA SqliteTransaction ==
    ASSUME SqliteInv, NEW o \in Obj, NEW may \in BOOLEAN,
           Sqlite!Begin(o, may) \/ Sqlite!Commit(o, may) \/ Sqlite!Rollback(o)
    PROVE  SqliteInv'
<1> DEFINE c == obj[o].db
           after == Sqlite!AfterCommit(o)
<1>1. SqliteGood(obj, srv) /\ Sqlite!Opened(o) /\ Sqlite!InTrans(o) \in BOOLEAN
  BY SqliteRootObject DEF SqliteInv, Sqlite!Begin, Sqlite!Commit, Sqlite!Rollback
<1>2. KeptAt(srv[c], c) /\ {} \in SUBSET Work
  BY <1>1, SqliteConn
<1>3. KeptAt(RolledBack(srv[c]), c) /\ KeptAt(after, c)
  BY <1>2, SqliteKept, SqliteServer DEF Sqlite!AfterCommit
<1>4. KeptAt(Begun(after), c)
  BY <1>2, <1>3, SqliteKept
<1> DEFINE rolled == IF Sqlite!InTrans(o) THEN RolledBack(srv[c]) ELSE srv[c]
<1>5. /\ SqliteGood(Sqlite!WithFlags(o, FALSE, TRUE), srv)
      /\ SqliteGood(Sqlite!WithFlags(o, TRUE, FALSE), srv)
      /\ SqliteGood(Sqlite!WithFlags(o, TRUE, Sqlite!InTrans(o)), srv)
  BY <1>1, SqliteFlags
<1>6. /\ reply' \in Reply
      /\ \/ obj' = obj /\ srv' = srv
         \/ obj' = Sqlite!WithFlags(o, TRUE, Sqlite!InTrans(o)) /\ srv' = srv
         \/ obj' = Sqlite!WithFlags(o, FALSE, TRUE) /\ srv' = [srv EXCEPT ![c] = Begun(after)]
         \/ obj' = Sqlite!WithFlags(o, TRUE, FALSE) /\ srv' = [srv EXCEPT ![c] = after]
         \/ obj' = Sqlite!WithFlags(o, TRUE, FALSE) /\ srv' = [srv EXCEPT ![c] = rolled]
  <2>1. /\ \A e \in Endings : /\ Answer(o, "begin", e) \in Reply /\ Answer(o, "commit", e) \in Reply
                              /\ Answer(o, "rollback", e) \in Reply
    BY AnswerFacts DEF Methods
  <2>2. CASE Sqlite!Begin(o, may)
    <3> HIDE DEF after, rolled
    <3> QED
      BY <2>1, <2>2, SqliteServer DEF Sqlite!Begin, Endings, after
  <2>3. CASE Sqlite!Commit(o, may)
    <3> HIDE DEF rolled
    <3> QED
      BY <2>1, <2>3, SqliteServer DEF Sqlite!Commit, Endings
  <2>4. CASE Sqlite!Rollback(o)
    <3> HIDE DEF after
    <3> QED
      BY <2>1, <2>4, SqliteServer DEF Sqlite!Rollback, Endings
  <2> QED
    BY <2>2, <2>3, <2>4
<1>7. KeptAt(rolled, c)
  BY <1>2, <1>3
<1> HIDE DEF after, rolled
<1> QED
  BY <1>1, <1>3, <1>4, <1>5, <1>6, <1>7, SqliteMovedStep, SqliteQuietStep

LEMMA SqliteClone ==
    ASSUME SqliteInv, NEW o \in Obj, NEW n \in Obj, Sqlite!Clone(o, n)
    PROVE  SqliteInv'
<1>1. SqliteGood(obj, srv) /\ Sqlite!Opened(o) /\ ~obj[n].alive
  BY DEF SqliteInv, Sqlite!Clone
<1>2. PICK r \in Obj : /\ r = Sqlite!Root(o) /\ obj[r].alive /\ obj[r].parent = NoObj
                       /\ obj[r].db # 0
  BY <1>1, SqliteRootObject DEF Sqlite!Opened
<1>3. PICK s : s = [Sqlite!Fresh EXCEPT !.parent = r, !.db = obj[r].db,
                                       !.database = obj[r].database]
  OBVIOUS
<1>4. obj[r] \in SqliteRecord /\ obj[r].database
  BY <1>1, <1>2 DEF SqliteGood, Settled
<1>5. s \in SqliteRecord
  BY <1>3, <1>4, SqliteAbsent DEF SqliteRecord
<1>6. /\ s.alive = Sqlite!Fresh.alive /\ s.parent = r /\ s.clones = Sqlite!Fresh.clones
      /\ s.db = obj[r].db /\ s.database = obj[r].database
      /\ s.auto = Sqlite!Fresh.auto /\ s.intrans = Sqlite!Fresh.intrans
  BY <1>3, <1>4, SqliteAbsent DEF SqliteRecord
<1>7. /\ Attached(obj, obj', r, n, s)
      /\ reply' = Answer(n, "clone", "ok") /\ srv' = srv
  BY <1>2, <1>3, SqliteServer DEF Sqlite!Clone, Attached
<1>8. reply' \in Reply
  BY <1>7, AnswerFacts DEF Methods, Endings
<1>9. SqliteGood(obj', srv)
  <2>1. Settled(s) /\ s.alive /\ s.clones = {}
    BY <1>4, <1>6, SqliteAbsent DEF Settled
  <2> QED
    BY <1>1, <1>2, <1>5, <1>6, <1>7, <2>1, SqliteAttach
<1> QED
  BY <1>7, <1>8, <1>9, SqliteQuietStep

LEMMA SqliteClosedServer ==
    ASSUME SqliteInv, NEW o \in Obj, srv' = Sqlite!ClosedServer(o)
    PROVE  ServerStep(srv, srv') /\ (Sqlite!IsClone(o) => srv' = srv)
<1>1. srv \in [Conn -> Server]
  BY DEF SqliteInv, SqliteGood
<1>2. \A s \in Server : HungUp(s) \in Server /\ HungUp(s).link = "closed" /\ HungUp(s).txn = "none"
  BY ServerFacts
<1>3. \A c \in Conn : srv'[c] = HungUp(srv[c]) \/ srv'[c] = srv[c]
  BY SqliteServer DEF Sqlite!ClosedServer
<1>4. srv' = [c \in Conn |-> srv'[c]]
  BY SqliteServer DEF Sqlite!ClosedServer
<1>5. Sqlite!IsClone(o) => srv' = srv
  BY <1>1, SqliteServer DEF Sqlite!ClosedServer
<1>6. \A c \in Conn : srv'[c] \in Server
  BY <1>1, <1>2, <1>3
<1>7. \A c \in Conn : /\ srv[c].link # "unused" => srv'[c].link # "unused"
                      /\ srv[c].txn # "aborted" => srv'[c].txn # "aborted"
  BY <1>1, <1>2, <1>3
<1> QED
  BY <1>4, <1>5, <1>6, <1>7 DEF ServerStep, ServerMoves, NoneUnused, NoneAborted

LEMMA SqliteCloseRoot ==
    ASSUME SqliteInv, NEW o \in Obj, obj[o].alive, ~Sqlite!IsClone(o), reply' \in Reply,
           srv' = Sqlite!ClosedServer(o),
           \/ obj' = Sqlite!ClosedRecords(o)
           \/ obj' = [Sqlite!ClosedRecords(o) EXCEPT ![o] = Sqlite!Absent]
           \/ ~obj[o].database /\ obj' = [obj EXCEPT ![o] = Sqlite!Absent]
    PROVE  SqliteInv'
<1>1. SqliteGood(obj, srv) /\ obj[o].parent = NoObj /\ ServerStep(srv, srv')
  BY SqliteClosedServer DEF SqliteInv, Sqlite!IsClone
<1>2. ASSUME NEW r \in SqliteRecord, Settled(r), r.parent = NoObj, r.clones = {}, r.db = 0,
             obj' = [p \in Obj |-> IF p = o THEN r
                                   ELSE IF p \in obj[o].clones THEN Sqlite!Absent ELSE obj[p]]
      PROVE  SqliteInv'
  <2>1. SqliteGood(obj', srv')
    BY <1>1, <1>2, SqliteRoot
  <2> QED
    BY <2>1 DEF SqliteInv
<1>3. CASE obj' = Sqlite!ClosedRecords(o)
  <2> DEFINE u == Sqlite!ClearResult(obj[o])
  <2>1. PICK d \in Conn \cup {0} : d = 0
    OBVIOUS
  <2>0. PICK b \in BOOLEAN : b = FALSE
    OBVIOUS
  <2>2. PICK r : r = [u EXCEPT !.clones = {}, !.db = d, !.database = b]
    OBVIOUS
  <2>3. u \in SqliteRecord /\ Settled(u) /\ u.parent = NoObj
    BY <1>1, SqliteCleared DEF SqliteGood, SqliteAlike
  <2>4. obj' = [p \in Obj |-> IF p = o THEN r
                              ELSE IF p \in obj[o].clones THEN Sqlite!Absent ELSE obj[p]]
    BY <1>1, <1>3, <2>0, <2>1, <2>2 DEF Sqlite!ClosedRecords, Sqlite!IsClone
  <2> HIDE DEF u
  <2>5. r \in SqliteRecord
    BY <2>2, <2>3 DEF SqliteRecord
  <2>6. /\ r.parent = u.parent /\ r.clones = {} /\ r.db = d
        /\ r.auto = u.auto /\ r.intrans = u.intrans
    BY <2>2, <2>3 DEF SqliteRecord
  <2> QED
    BY <1>2, <2>1, <2>3, <2>4, <2>5, <2>6 DEF Settled
<1>4. CASE obj' = [Sqlite!ClosedRecords(o) EXCEPT ![o] = Sqlite!Absent]
  <2>1. obj' = [p \in Obj |-> IF p = o THEN Sqlite!Absent
                              ELSE IF p \in obj[o].clones THEN Sqlite!Absent ELSE obj[p]]
    BY <1>1, <1>4 DEF Sqlite!ClosedRecords, Sqlite!IsClone
  <2> QED
    BY <1>2, <2>1, SqliteAbsent
<1>5. CASE ~obj[o].database /\ obj' = [obj EXCEPT ![o] = Sqlite!Absent]
  <2>1. obj[o].clones = {}
    BY <1>1, <1>5, SqliteBase DEF SqliteGood, Settled
  <2>2. obj' = [p \in Obj |-> IF p = o THEN Sqlite!Absent
                              ELSE IF p \in obj[o].clones THEN Sqlite!Absent ELSE obj[p]]
    BY <1>1, <1>5, <2>1 DEF SqliteGood
  <2> QED
    BY <1>2, <2>2, SqliteAbsent
<1> QED
  BY <1>3, <1>4, <1>5

LEMMA SqliteClose ==
    ASSUME SqliteInv, NEW o \in Obj, Sqlite!Close(o) \/ Sqlite!Dropdb(o) \/ Sqlite!Destroy(o)
    PROVE  SqliteInv'
<1>1. reply' \in Reply /\ obj[o].alive /\ SqliteGood(obj, srv)
  BY AnswerFacts, SqliteServer
     DEF Sqlite!Close, Sqlite!Dropdb, Sqlite!Destroy, Sqlite!Opened, Methods, Endings, SqliteInv
<1>2. CASE Sqlite!IsClone(o)
  <2>1. PICK r \in Obj : r = obj[o].parent
    BY <1>1, <1>2, SqliteBase DEF Sqlite!IsClone
  <2>2. obj[o].database
    <3>1. o \in obj[r].clones
      BY <1>1, <1>2, <2>1 DEF SqliteGood, Family, Sqlite!IsClone
    <3>2. obj[r].db # 0 /\ obj[r].db = obj[o].db
      BY <1>1, <1>2, <2>1, <3>1, SqliteBase DEF Sqlite!IsClone
    <3> QED
      BY <1>1, <3>2 DEF SqliteGood, Settled
  <2>3. [Sqlite!ClosedRecords(o) EXCEPT ![o] = Sqlite!Absent] = Sqlite!ClosedRecords(o)
    BY <1>1, <1>2 DEF Sqlite!ClosedRecords, SqliteGood
  <2>4. CASE obj' = obj /\ srv' = srv
    BY <1>1, <2>4, SqliteQuietStep
  <2>5. CASE obj' = Sqlite!ClosedRecords(o) /\ srv' = Sqlite!ClosedServer(o)
    <3>1. Detached(obj, obj', r, o, Sqlite!Absent)
      BY <1>2, <2>1, <2>5 DEF Detached, Sqlite!ClosedRecords
    <3>2. SqliteGood(obj', srv)
      BY <1>1, <2>1, <3>1, SqliteDetach
    <3>3. srv' = srv
      BY <1>2, <2>5, SqliteClosedServer
    <3> QED
      BY <1>1, <3>2, <3>3, SqliteQuietStep
  <2> QED
    BY <1>2, <2>2, <2>3, <2>4, <2>5 DEF Sqlite!Close, Sqlite!Dropdb, Sqlite!Destroy
<1>3. CASE ~Sqlite!IsClone(o)
  BY <1>1, <1>3, SqliteCloseRoot DEF Sqlite!Close, Sqlite!Dropdb, Sqlite!Destroy
<1> QED
  BY <1>2, <1>3

LEMMA SqliteStep == SqliteInv /\ Sqlite!Next => SqliteInv'
<1> SUFFICES ASSUME SqliteInv, Sqlite!Next PROVE SqliteInv'
  OBVIOUS
<1>1. ASSUME NEW o \in Obj, Sqlite!New(o) \/ Sqlite!Open(o) \/ Sqlite!Createdb(o) PROVE SqliteInv'
  BY <1>1, SqliteNew, SqliteOpen, SqliteCreate
<1>2. ASSUME NEW o \in Obj, NEW t, NEW fetch \in BOOLEAN, NEW args \in BOOLEAN,
             Sqlite!Exec(o, t, fetch, args)
      PROVE  SqliteInv'
  BY <1>2, SqliteExec
<1>3. ASSUME NEW o \in Obj, NEW q \in -2 .. MaxLines, Sqlite!Fetch(o, q) PROVE SqliteInv'
  BY <1>3, SqliteFetch
<1>4. ASSUME NEW o \in Obj,
             \/ Sqlite!FetchLines(o) \/ Sqlite!Get(o) \/ Sqlite!Insert(o) \/ Sqlite!Set(o)
             \/ Sqlite!Unset(o) \/ Sqlite!Delete(o)
             \/ Sqlite!Close(o) \/ Sqlite!Dropdb(o) \/ Sqlite!Destroy(o)
      PROVE  SqliteInv'
  BY <1>4, SqliteLines, SqliteGet, SqliteClose
<1>5. ASSUME NEW o \in Obj, NEW may \in BOOLEAN,
             Sqlite!Begin(o, may) \/ Sqlite!Commit(o, may) \/ Sqlite!Rollback(o)
      PROVE  SqliteInv'
  BY <1>5, SqliteTransaction
<1>6. ASSUME NEW o \in Obj, NEW n \in Obj, Sqlite!Clone(o, n) PROVE SqliteInv'
  BY <1>6, SqliteClone
<1> QED
  BY <1>1, <1>2, <1>3, <1>4, <1>5, <1>6, SqliteServer DEF Sqlite!Next

LEMMA SqliteStart == Sqlite!Init => SqliteInv
<1> SUFFICES ASSUME Sqlite!Init PROVE SqliteInv
  OBVIOUS
<1>1. /\ obj = [o \in Obj |-> Sqlite!Absent] /\ srv = [c \in Conn |-> Silent]
      /\ reply = NoReply
  BY SqliteServer DEF Sqlite!Init
<1>2. obj \in [Obj -> SqliteRecord] /\ srv \in [Conn -> Server] /\ reply \in Reply
  BY <1>1, SqliteAbsent, SilentFacts, ReplyFacts
<1>3. Family(obj, DbOf(obj), srv)
  BY <1>1, SqliteAbsent, ServerAssumption DEF Family, DbOf
<1>4. NoneAborted(srv)
  BY <1>1, SilentFacts DEF NoneAborted
<1> QED
  BY <1>1, <1>2, <1>3, <1>4, SqliteAbsent DEF SqliteInv, SqliteGood

-----------------------------------------------------------------------------------
(* The four backends. *)

ClientInv ==
    /\ kind \in Kinds
    /\ kind = "mysql"      => MysqlInv
    /\ kind = "postgresql" => PostgresqlInv
    /\ kind = "odbc"       => OdbcInv
    /\ kind = "sqlite"     => SqliteInv

LEMMA ClientStart == Init => ClientInv
<1> SUFFICES ASSUME Init PROVE ClientInv
  OBVIOUS
<1>1. /\ kind \in {"mysql", "postgresql", "odbc", "sqlite"}
      /\ kind = "mysql"      => Mysql!Init
      /\ kind = "postgresql" => Postgresql!Init
      /\ kind = "odbc"       => Odbc!Init
      /\ kind = "sqlite"     => Sqlite!Init
  BY DEF Init, Kinds
<1> QED
  BY <1>1, MysqlStart, PostgresqlStart, OdbcStart, SqliteStart DEF ClientInv, Kinds

LEMMA ClientStep == ClientInv /\ [Next]_vars => ClientInv'
<1> SUFFICES ASSUME ClientInv, [Next]_vars PROVE ClientInv'
  OBVIOUS
<1>1. CASE UNCHANGED vars
  <2>1. kind' = kind /\ obj' = obj /\ srv' = srv /\ reply' = reply
    BY <1>1 DEF vars
  <2>2. (MysqlInv => MysqlInv') /\ (PostgresqlInv => PostgresqlInv')
    BY <2>1 DEF MysqlInv, PostgresqlInv, ConnsOf, DbOf
  <2>3. (OdbcInv => OdbcInv') /\ (SqliteInv => SqliteInv')
    BY <2>1 DEF OdbcInv, SqliteInv
  <2> QED
    BY <2>1, <2>2, <2>3 DEF ClientInv
<1>2. CASE Next
  <2>1. kind' = kind
    BY <1>2 DEF Next
  <2>2. CASE kind = "mysql" /\ Mysql!Next
    BY <2>1, <2>2, MysqlStep DEF ClientInv
  <2>3. CASE kind = "postgresql" /\ Postgresql!Next
    BY <2>1, <2>3, PostgresqlStep DEF ClientInv
  <2>4. CASE kind = "odbc" /\ Odbc!Next
    BY <2>1, <2>4, OdbcStep DEF ClientInv
  <2>5. CASE kind = "sqlite" /\ Sqlite!Next
    BY <2>1, <2>5, SqliteStep DEF ClientInv
  <2> QED
    BY <1>2, <2>2, <2>3, <2>4, <2>5 DEF Next
<1> QED
  BY <1>1, <1>2

LEMMA ClientInvariant == Spec => []ClientInv
BY ClientStart, ClientStep, PTL DEF Spec

(* Whatever the backend, its records, the connections and the answers keep  *)
(* their forms through every method, so that no index, count or handle is   *)
(* ever outside what the C structures can mean.                             *)
THEOREM ClientTypes == Spec => []TypeOK
<1>1. ClientInv => TypeOK
  <2> SUFFICES ASSUME ClientInv PROVE TypeOK
    OBVIOUS
  <2>1. CASE kind = "mysql"
    BY <2>1, MysqlServer DEF ClientInv, MysqlInv, MysqlRecord, TypeOK, Mysql!TypeOK, Server, Reply
  <2>2. CASE kind = "postgresql"
    BY <2>2, PostgresqlServer
       DEF ClientInv, PostgresqlInv, PostgresqlRecord, TypeOK, Postgresql!TypeOK, Server, Reply
  <2>3. CASE kind = "odbc"
    BY <2>3, OdbcServer
       DEF ClientInv, OdbcInv, OdbcGood, OdbcRecord, TypeOK, Odbc!TypeOK, Server, Reply
  <2>4. CASE kind = "sqlite"
    BY <2>4, SqliteServer
       DEF ClientInv, SqliteInv, SqliteGood, SqliteRecord, TypeOK, Sqlite!TypeOK, Server, Reply
  <2> QED
    BY <2>1, <2>2, <2>3, <2>4 DEF ClientInv, Kinds
<1> QED
  BY <1>1, ClientInvariant, PTL

(* In every backend the list of clones of an object and the parent pointers *)
(* of the clones say the same, and a clone has the connection of its root,  *)
(* through any sequence of clone, close, drop and destroy of any objects.   *)
THEOREM ClientTree == Spec => []CloneTree
<1>1. ClientInv => CloneTree
  <2> SUFFICES ASSUME ClientInv PROVE CloneTree
    OBVIOUS
  <2> DEFINE D == [o \in Obj |-> ConnOf(o)]
  <2>1. Family(obj, D, srv)
    <3>1. CASE kind = "mysql"
      <4>1. D = DbOf(obj)
        BY <3>1 DEF ConnOf, DbOf
      <4> QED
        BY <3>1, <4>1 DEF ClientInv, MysqlInv
    <3>2. CASE kind = "postgresql"
      <4>1. D = ConnsOf(obj)
        BY <3>2 DEF ConnOf, ConnsOf
      <4> QED
        BY <3>2, <4>1 DEF ClientInv, PostgresqlInv
    <3>3. CASE kind = "odbc"
      <4>1. D = HdbcsOf(obj)
        BY <3>3 DEF ConnOf, HdbcsOf
      <4> QED
        BY <3>3, <4>1 DEF ClientInv, OdbcInv, OdbcGood
    <3>4. CASE kind = "sqlite"
      <4>1. D = DbOf(obj)
        BY <3>4 DEF ConnOf, DbOf
      <4> QED
        BY <3>4, <4>1 DEF ClientInv, SqliteInv, SqliteGood
    <3> QED
      BY <3>1, <3>2, <3>3, <3>4 DEF ClientInv, Kinds
  <2>2. \A o \in Obj : D[o] = ConnOf(o)
    OBVIOUS
  <2> HIDE DEF D
  <2> QED
    BY <2>1, <2>2 DEF Family, CloneTree
<1> QED
  BY <1>1, ClientInvariant, PTL

-----------------------------------------------------------------------------------
(* The work of the user. *)

Closing == {"begin", "commit", "rollback", "close", "drop", "destroy"}

(* The connections in U keep what is pending.                            *)
KeepsWork(U, C, G) == \A c \in U : C[c].pending \subseteq G[c].pending

LEMMA WorkSame == \A U, C : KeepsWork(U, C, C)
BY DEF KeepsWork

LEMMA WorkChange ==
    ASSUME NEW C \in [Conn -> Server], NEW U \in SUBSET Conn, NEW c, NEW s,
           c \in U => C[c].pending \subseteq s.pending
    PROVE  KeepsWork(U, C, [C EXCEPT ![c] = s])
BY DEF KeepsWork

(* Commands that are executed add to the work that is pending.              *)
LEMMA CommandsKeep ==
    ASSUME NEW s \in Server, NEW t, NEW u, NEW n
    PROVE  /\ s.pending \subseteq Given(s, t).pending
           /\ s.pending \subseteq Written(Given(s, t), Writes(s, u, n)).pending
<1>1. Given(s, t) \in Server /\ Given(s, t).pending = s.pending
  BY GivenFacts
<1>2. Writes(s, u, n) \in SUBSET Work
  BY WritesFacts
<1> DEFINE g == Given(s, t)
           w == Written(g, Writes(s, u, n))
<1> HIDE DEF g
<1>3. w.pending = IF g.txn = "none" THEN g.pending ELSE g.pending \cup Writes(s, u, n)
  BY <1>1, <1>2, WrittenFacts DEF g
<1> HIDE DEF w
<1>4. g.pending \subseteq w.pending
  BY <1>3
<1> QED
  BY <1>1, <1>4 DEF g, w

LEMMA MysqlWork ==
    ASSUME MysqlInv, Mysql!Next, reply'.of \notin Closing
    PROVE  KeepsWork(Conn, srv, srv')
<1>1. srv \in [Conn -> Server]
  BY DEF MysqlInv
<1>2. ASSUME NEW o \in Obj, NEW t, NEW closed \in BOOLEAN, NEW fetch \in BOOLEAN,
             NEW args \in BOOLEAN, Mysql!Exec(o, t, closed, fetch, args)
      PROVE  KeepsWork(Conn, srv, srv')
  <2> DEFINE c == obj[o].db
             u == Mysql!SplitSQL(t, closed)
             n == IF args THEN Mysql!Sent(srv[c], u) ELSE 0
             sticks == args /\ \E i \in Mysql!Unread(u) : i <= n
             q == Mysql!Queried(srv[c], t, u, n, sticks)
  <2>1. srv' = srv \/ srv' = [srv EXCEPT ![c] = q]
    BY <1>2 DEF Mysql!Exec
  <2>2. sticks \in BOOLEAN
    OBVIOUS
  <2> HIDE DEF n, sticks, c, u
  <2>3. ASSUME c \in Conn PROVE srv[c].pending \subseteq q.pending
    <3>1. srv[c] \in Server
      BY <1>1, <2>3
    <3>2. q.pending = Written(Given(srv[c], t), Writes(srv[c], u, n)).pending
      BY <2>2, <3>1, MysqlQueried
    <3> HIDE DEF q
    <3> QED
      BY <3>1, <3>2, CommandsKeep
  <2> HIDE DEF q
  <2> QED
    BY <1>1, <2>1, <2>3, WorkChange, WorkSame
<1>3. ASSUME NEW o \in Obj, Mysql!Open(o) PROVE KeepsWork(Conn, srv, srv')
  <2>1. srv' = srv \/ \E c \in Conn : srv' = [srv EXCEPT ![c] = Linked(srv[c])]
    BY <1>3, MysqlServer DEF Mysql!Open
  <2> QED
    BY <1>1, <2>1, ServerFacts, WorkChange, WorkSame
<1>4. ASSUME NEW o \in Obj, NEW m \in Closing, NEW after, Mysql!Query(o, m, after) PROVE FALSE
  <2>1. reply'.of = m
    BY <1>4, MysqlServer, AnswerOf DEF Mysql!Query
  <2> QED
    BY <2>1
<1>5. ASSUME NEW o \in Obj,
             \/ Mysql!Transaction_Start(o) \/ Mysql!Transaction_Commit(o)
             \/ Mysql!Transaction_Rollback(o)
      PROVE  FALSE
  BY <1>4, <1>5 DEF Mysql!Transaction_Start, Mysql!Transaction_Commit,
                    Mysql!Transaction_Rollback, Closing
<1>6. ASSUME NEW o \in Obj,
             \/ Mysql!New(o) \/ Mysql!FetchLines(o)
             \/ Mysql!Close(o) \/ Mysql!Dropdb(o) \/ Mysql!Destroy(o)
             \/ \E q \in -2 .. MaxLines : Mysql!Fetch(o, q)
             \/ \E n \in Obj : Mysql!Clone(o, n)
      PROVE  srv' = srv
  BY <1>6 DEF Mysql!New, Mysql!FetchLines, Mysql!Close, Mysql!Dropdb, Mysql!Destroy,
              Mysql!Fetch, Mysql!Clone
<1> QED
  BY <1>2, <1>3, <1>5, <1>6, WorkSame, MysqlServer, Zenon DEF Mysql!Next

(* PostgreSQL gives up a transaction in which a command has failed. *)
NotAborted == {c \in Conn : srv'[c].txn # "aborted"}

LEMMA PostgresqlWork ==
    ASSUME PostgresqlInv, Postgresql!Next, reply'.of \notin Closing
    PROVE  KeepsWork(NotAborted, srv, srv')
<1> DEFINE U == NotAborted
<1>1. srv \in [Conn -> Server] /\ U \in SUBSET Conn
  BY DEF PostgresqlInv, NotAborted
<1>2. ASSUME NEW o \in Obj, NEW t, NEW fetch \in BOOLEAN, NEW args \in BOOLEAN,
             Postgresql!Exec(o, t, fetch, args)
      PROVE  KeepsWork(U, srv, srv')
  <2> DEFINE c == obj[o].conn
             s == IF args THEN Postgresql!PQexec(srv[c], t) ELSE Given(srv[c], t)
  <2>1. srv' = [srv EXCEPT ![c] = s]
    BY <1>2, PostgresqlServer DEF Postgresql!Exec
  <2> HIDE DEF c
  <2>2. ASSUME c \in Conn PROVE srv[c].pending \subseteq s.pending \/ s.txn = "aborted"
    <3>1. srv[c] \in Server
      BY <1>1, <2>2
    <3> QED
      BY <3>1, PostgresqlPQexec, CommandsKeep
  <2> HIDE DEF s
  <2>3. c \in U => s.txn # "aborted"
    BY <1>1, <2>1 DEF NotAborted
  <2>4. c \in U => srv[c].pending \subseteq s.pending
    BY <1>1, <2>2, <2>3
  <2> HIDE DEF U
  <2> QED
    BY <1>1, <2>1, <2>4, WorkChange
<1>3. ASSUME NEW o \in Obj, Postgresql!Open(o) PROVE KeepsWork(U, srv, srv')
  <2>1. srv' = srv \/ \E c \in Conn : srv' = [srv EXCEPT ![c] = Linked(srv[c])]
    BY <1>3, PostgresqlServer DEF Postgresql!Open
  <2>2. ASSUME NEW c \in Conn PROVE srv[c].pending \subseteq Linked(srv[c]).pending
    BY <1>1, ServerFacts
  <2> HIDE DEF U
  <2> QED
    BY <1>1, <2>1, <2>2, WorkChange, WorkSame
<1>4. ASSUME NEW o \in Obj, NEW m \in Closing, NEW after, Postgresql!Command(o, m, after)
      PROVE  FALSE
  <2>1. reply'.of = m
    BY <1>4, PostgresqlServer, AnswerOf DEF Postgresql!Command
  <2> QED
    BY <2>1
<1>5. ASSUME NEW o \in Obj, Postgresql!Transaction_Start(o) PROVE FALSE
  <2>1. CASE reply' = Postgresql!Answer(o, "begin", "failed")
    <3>1. reply'.of = "begin"
      BY <2>1, PostgresqlServer, AnswerOf
    <3> QED
      BY <3>1 DEF Closing
  <2> QED
    BY <1>4, <1>5, <2>1 DEF Postgresql!Transaction_Start, Closing
<1>6. ASSUME NEW o \in Obj, Postgresql!Transaction_Commit(o) \/ Postgresql!Transaction_Rollback(o)
      PROVE  FALSE
  BY <1>4, <1>6 DEF Postgresql!Transaction_Commit, Postgresql!Transaction_Rollback, Closing
<1>7. ASSUME NEW o \in Obj, Postgresql!Close(o) \/ Postgresql!Destroy(o) PROVE FALSE
  <2>1. reply' = Answer(o, "close", "ok") \/ reply' = Answer(o, "destroy", "ok")
    BY <1>7, PostgresqlServer DEF Postgresql!Close, Postgresql!Destroy
  <2>2. reply'.of = "close" \/ reply'.of = "destroy"
    BY <2>1, AnswerOf
  <2> QED
    BY <2>2 DEF Closing
<1>8. ASSUME NEW o \in Obj,
             \/ Postgresql!New(o) \/ Postgresql!FetchLines(o) \/ Postgresql!FetchClear(o)
             \/ \E q \in -2 .. MaxLines : Postgresql!Fetch(o, q)
             \/ \E n \in Obj : Postgresql!Clone(o, n)
      PROVE  srv' = srv
  BY <1>8 DEF Postgresql!New, Postgresql!FetchLines, Postgresql!FetchClear, Postgresql!Fetch,
              Postgresql!Clone
<1> HIDE DEF U
<1> QED
  BY <1>2, <1>3, <1>5, <1>6, <1>7, <1>8, WorkSame, PostgresqlServer, Zenon DEF Postgresql!Next, U

(* The connections whose root has autocommit off, as it is in a transaction *)
(* of the user: the record that all clones of a family share.               *)
OdbcUser == {c \in Conn : \E o \in Obj : obj[o].hdbc = c /\ ~Odbc!IsClone(o) /\ ~obj[o].auto}

(* The root of every object that has the connection is the one that has     *)
(* turned autocommit off.                                                   *)
LEMMA OdbcUserMode ==
    ASSUME OdbcInv, NEW o \in Obj, obj[o].hdbc \in OdbcUser
    PROVE  ~Odbc!Autocommit(o)
<1>1. PICK r \in Obj : obj[r].hdbc = obj[o].hdbc /\ obj[r].parent = NoObj /\ ~obj[r].auto
  BY DEF OdbcUser, Odbc!IsClone
<1>2. obj[o].hdbc # 0
  BY DEF OdbcUser, Conn
<1>3. Kin(obj, r) = Kin(obj, o)
  BY <1>1, <1>2, OdbcBase DEF OdbcInv
<1>4. Odbc!Root(o) = r
  BY <1>1, <1>3 DEF Kin, Odbc!Root, Odbc!IsClone
<1> QED
  BY <1>1, <1>4 DEF Odbc!Autocommit

LEMMA OdbcWork ==
    ASSUME OdbcInv, Odbc!Next, reply'.of \notin Closing
    PROVE  KeepsWork(OdbcUser, srv, srv')
<1> DEFINE U == OdbcUser
<1>1. srv \in [Conn -> Server] /\ U \in SUBSET Conn
  BY DEF OdbcInv, OdbcGood, OdbcUser
<1>2. ASSUME NEW o \in Obj, NEW t, NEW fetch \in BOOLEAN, NEW args \in BOOLEAN,
             Odbc!Exec(o, t, fetch, args)
      PROVE  KeepsWork(U, srv, srv')
  <2> DEFINE c == obj[o].hdbc
  <2>1. ASSUME NEW n, c \in U PROVE srv[c].pending \subseteq Odbc!Done(o, t, n).pending
    <3>1. srv[c] \in Server /\ ~Odbc!Autocommit(o)
      BY <1>1, <2>1, OdbcUserMode
    <3>2. Odbc!Done(o, t, n) = Written(Given(srv[c], t), Writes(srv[c], t, n))
      BY <3>1, OdbcServer DEF Odbc!Done, Odbc!ExecStart
    <3> HIDE DEF c
    <3> QED
      BY <3>1, <3>2, CommandsKeep
  <2>2. ASSUME srv' = srv PROVE KeepsWork(U, srv, srv')
    BY <2>2, WorkSame
  <2>3. ASSUME Odbc!ExecStartFails(o, t) PROVE KeepsWork(U, srv, srv')
    <3>1. /\ c \notin U
          /\ srv' = [srv EXCEPT ![c] = Odbc!EndTran(Given(srv[c], t), FALSE)]
      BY <2>3, OdbcUserMode, OdbcServer DEF Odbc!ExecStartFails
    <3> HIDE DEF c, U
    <3> QED
      BY <1>1, <3>1, WorkChange
  <2>4. ASSUME NEW n, Odbc!ExecFails(o, t, n) PROVE KeepsWork(U, srv, srv')
    <3>1. srv' = [srv EXCEPT ![c] = Odbc!RollbackIfAuto(o, Odbc!Done(o, t, n))]
      BY <2>4 DEF Odbc!ExecFails
    <3>2. c \in U => Odbc!RollbackIfAuto(o, Odbc!Done(o, t, n)) = Odbc!Done(o, t, n)
      BY OdbcUserMode DEF Odbc!RollbackIfAuto
    <3>3. c \in U => srv[c].pending \subseteq Odbc!RollbackIfAuto(o, Odbc!Done(o, t, n)).pending
      BY <2>1, <3>2
    <3> HIDE DEF c, U
    <3> QED
      BY <1>1, <3>1, <3>3, WorkChange
  <2>5. ASSUME Odbc!ExecOk(o, t, fetch) PROVE KeepsWork(U, srv, srv')
    <3> DEFINE done == Odbc!Done(o, t, Len(t))
               s == IF Odbc!EndsItself(o, t, fetch) THEN Odbc!EndTran(done, TRUE) ELSE done
    <3>1. srv' = [srv EXCEPT ![c] = s]
      BY <2>5 DEF Odbc!ExecOk
    <3>2. c \in U => s = done
      BY OdbcUserMode DEF Odbc!EndsItself
    <3> HIDE DEF s
    <3>3. c \in U => srv[c].pending \subseteq s.pending
      BY <2>1, <3>2
    <3> HIDE DEF c, U
    <3> QED
      BY <1>1, <3>1, <3>3, WorkChange
  <2> QED
    BY <1>2, <2>2, <2>3, <2>4, <2>5, OdbcServer DEF Odbc!Exec
<1>3. ASSUME NEW o \in Obj, Odbc!Open(o) PROVE KeepsWork(U, srv, srv')
  <2>1. srv' = srv \/ \E c \in Conn : srv' = [srv EXCEPT ![c] = Begun(Linked(srv[c]))]
    BY <1>3, OdbcServer DEF Odbc!Open
  <2>2. ASSUME NEW c \in Conn PROVE srv[c].pending \subseteq Begun(Linked(srv[c])).pending
    <3>1. Linked(srv[c]) \in Server /\ Linked(srv[c]).pending = srv[c].pending
      BY <1>1, ServerFacts
    <3> QED
      BY <3>1, ServerFacts
  <2> HIDE DEF U
  <2> QED
    BY <1>1, <2>1, <2>2, WorkChange, WorkSame
<1>4. ASSUME NEW o \in Obj, NEW q, Odbc!FetchError(o, q) PROVE KeepsWork(U, srv, srv')
  <2> DEFINE c == obj[o].hdbc
             s == IF Odbc!Trans(o) THEN Odbc!RollbackIfAuto(o, srv[c]) ELSE srv[c]
  <2>1. srv' = [srv EXCEPT ![c] = s]
    BY <1>4 DEF Odbc!FetchError
  <2>2. c \in U => s = srv[c]
    BY OdbcUserMode DEF Odbc!RollbackIfAuto
  <2> HIDE DEF U, c, s
  <2> QED
    BY <1>1, <2>1, <2>2, WorkChange
<1>5. ASSUME NEW o \in Obj, Odbc!Begin(o) \/ Odbc!Commit(o) \/ Odbc!Rollback(o) PROVE FALSE
  <2>1. \E m \in Closing : \E e : reply' = Answer(o, m, e)
    BY <1>5, OdbcServer DEF Odbc!Begin, Odbc!Commit, Odbc!Rollback, Odbc!EndsTran, Closing
  <2> QED
    BY <2>1, AnswerOf
<1>6. ASSUME NEW o \in Obj, Odbc!Close(o) \/ Odbc!Destroy(o) PROVE FALSE
  <2>1. \E m \in Closing : \E e : reply' = Answer(o, m, e)
    BY <1>6, OdbcServer DEF Odbc!Close, Odbc!Destroy, Closing
  <2> QED
    BY <2>1, AnswerOf
<1>7. ASSUME NEW o \in Obj,
             \/ Odbc!New(o) \/ Odbc!FetchLines(o) \/ Odbc!FetchClear(o)
             \/ \E q \in -2 .. MaxLines : Odbc!Fetch(o, q)
             \/ \E n \in Obj : Odbc!Clone(o, n)
      PROVE  srv' = srv
  BY <1>7 DEF Odbc!New, Odbc!FetchLines, Odbc!FetchClear, Odbc!Fetch, Odbc!Clone
<1> HIDE DEF U
<1> QED
  BY <1>2, <1>3, <1>4, <1>5, <1>6, <1>7, WorkSame, OdbcServer, Zenon DEF Odbc!Next, U

(* The connections of the roots that begin has put out of autocommit. *)
SqliteUser ==
    {c \in Conn : \E o \in Obj : obj[o].db = c /\ ~Sqlite!IsClone(o) /\ ~obj[o].auto}

LEMMA SqliteUserMode ==
    ASSUME SqliteInv, NEW o \in Obj, obj[o].db \in SqliteUser
    PROVE  ~Sqlite!Autocommit(o)
<1>1. PICK r \in Obj : obj[r].db = obj[o].db /\ obj[r].parent = NoObj /\ ~obj[r].auto
  BY DEF SqliteUser, Sqlite!IsClone
<1>2. obj[o].db # 0
  BY DEF SqliteUser, Conn
<1>3. Kin(obj, r) = Kin(obj, o)
  BY <1>1, <1>2, SqliteBase DEF SqliteInv
<1>4. Sqlite!Root(o) = r
  BY <1>1, <1>3 DEF Kin, Sqlite!Root, Sqlite!IsClone
<1> QED
  BY <1>1, <1>4 DEF Sqlite!Autocommit

(* What the backend puts around a text does nothing then. *)
LEMMA SqliteUserKeeps ==
    ASSUME SqliteInv, NEW o \in Obj, obj[o].db \in SqliteUser, NEW s
    PROVE  /\ Sqlite!BeginExec(o, s) = s /\ Sqlite!RollbackExec(o, s) = s
           /\ \A r \in Sqlite!Ended(o, s) : r = s
BY SqliteUserMode DEF Sqlite!BeginExec, Sqlite!RollbackExec, Sqlite!Ended

LEMMA SqliteWork ==
    ASSUME SqliteInv, Sqlite!Next, reply'.of \notin Closing
    PROVE  KeepsWork(SqliteUser, srv, srv')
<1> DEFINE U == SqliteUser
<1>1. srv \in [Conn -> Server] /\ U \in SUBSET Conn
  BY DEF SqliteInv, SqliteGood, SqliteUser
<1>2. ASSUME NEW o \in Obj, NEW t, NEW fetch \in BOOLEAN, NEW args \in BOOLEAN,
             Sqlite!Exec(o, t, fetch, args)
      PROVE  KeepsWork(U, srv, srv')
  <2> DEFINE c == obj[o].db
             begun == Sqlite!BeginExec(o, Given(srv[c], t))
             done == Written(begun, Writes(srv[c], t, UpToError(t)))
  <2>1. ASSUME c \in U
        PROVE  /\ srv[c].pending \subseteq done.pending
               /\ srv[c].pending \subseteq Given(srv[c], t).pending
    <3>1. srv[c] \in Server /\ begun = Given(srv[c], t)
      BY <1>1, <2>1, SqliteUserKeeps
    <3> HIDE DEF c, begun
    <3> QED
      BY <3>1, CommandsKeep
  <2>2. \E s : /\ srv' = [srv EXCEPT ![c] = s]
               /\ \/ s = Given(srv[c], t)
                  \/ s \in Sqlite!Ended(o, done)
                  \/ s = Sqlite!RollbackExec(o, done)
    BY <1>2, SqliteServer DEF Sqlite!Exec
  <2>3. PICK s : /\ srv' = [srv EXCEPT ![c] = s]
                 /\ \/ s = Given(srv[c], t)
                    \/ s \in Sqlite!Ended(o, done)
                    \/ s = Sqlite!RollbackExec(o, done)
    BY <2>2
  <2> HIDE DEF done
  <2>4. c \in U => s = Given(srv[c], t) \/ s = done
    BY <2>3, SqliteUserKeeps
  <2> HIDE DEF c, U
  <2>5. c \in U => srv[c].pending \subseteq s.pending
    BY <2>1, <2>4
  <2> QED
    BY <1>1, <2>3, <2>5, WorkChange
<1>3. ASSUME NEW o \in Obj, Sqlite!Open(o) PROVE KeepsWork(U, srv, srv')
  <2>1. srv' = srv \/ \E c \in Conn : srv' = [srv EXCEPT ![c] = Linked(srv[c])]
    BY <1>3, SqliteServer DEF Sqlite!Open
  <2>2. ASSUME NEW c \in Conn PROVE srv[c].pending \subseteq Linked(srv[c]).pending
    BY <1>1, ServerFacts
  <2> HIDE DEF U
  <2> QED
    BY <1>1, <2>1, <2>2, WorkChange, WorkSame
<1>4. ASSUME NEW o \in Obj, Sqlite!Get(o) PROVE KeepsWork(U, srv, srv')
  <2> DEFINE c == obj[o].db
  <2>1. PICK s \in Sqlite!Ended(o, srv[c]) : srv' = [srv EXCEPT ![c] = s]
    BY <1>4 DEF Sqlite!Get
  <2>2. c \in U => s = srv[c]
    BY SqliteUserKeeps
  <2> HIDE DEF U, c
  <2> QED
    BY <1>1, <2>1, <2>2, WorkChange
<1>5. ASSUME NEW o \in Obj, NEW hit, NEW ends, NEW e, Sqlite!Modify(o, hit, ends, e)
      PROVE  KeepsWork(U, srv, srv')
  <2> DEFINE c == obj[o].db
             one == <<"write">>
             done == IF hit THEN Written(Given(srv[c], one), Writes(srv[c], one, 1))
                     ELSE Given(srv[c], one)
  <2>1. PICK s : /\ srv' = [srv EXCEPT ![c] = s]
                 /\ s = done \/ s \in Sqlite!Ended(o, done)
    BY <1>5, SqliteServer DEF Sqlite!Modify
  <2> HIDE DEF one
  <2>2. c \in U => srv[c].pending \subseteq done.pending
    BY <1>1, CommandsKeep
  <2> HIDE DEF done
  <2>3. c \in U => s = done
    BY <2>1, SqliteUserKeeps
  <2>4. c \in U => srv[c].pending \subseteq s.pending
    BY <2>2, <2>3
  <2> HIDE DEF U, c
  <2> QED
    BY <1>1, <2>1, <2>4, WorkChange
<1>10. ASSUME NEW o \in Obj, NEW hit, NEW works, Sqlite!SetInserts(o, hit, works)
       PROVE  KeepsWork(U, srv, srv')
  <2> DEFINE c == obj[o].db
             t == IF hit THEN <<"write", "write">> ELSE <<"write">>
             ids == Writes(srv[c], t, Len(t))
             updates == IF hit THEN Writes(srv[c], t, 1) ELSE {}
             b == Written(Given(srv[c], t), updates)
  <2>1. PICK u \in Sqlite!Ended(o, b) :
            \E s \in IF works THEN Sqlite!Ended(o, Written(u, ids \ updates)) ELSE {u} :
               srv' = [srv EXCEPT ![c] = s]
    BY <1>10, SqliteServer DEF Sqlite!SetInserts
  <2>2. PICK s : /\ srv' = [srv EXCEPT ![c] = s]
                 /\ s = u \/ s \in Sqlite!Ended(o, Written(u, ids \ updates))
    BY <2>1
  <2>3. updates \in SUBSET Work /\ ids \ updates \in SUBSET Work
    BY WritesFacts
  <2>4. c \in U => u = b /\ (s = b \/ s = Written(b, ids \ updates))
    BY <2>1, <2>2, SqliteUserKeeps
  <2> HIDE DEF t, ids, updates
  <2>5. c \in U => /\ b \in Server /\ srv[c].pending \subseteq b.pending
                   /\ b.pending \subseteq Written(b, ids \ updates).pending
    <3> SUFFICES ASSUME c \in U
                 PROVE  /\ b \in Server /\ srv[c].pending \subseteq b.pending
                        /\ b.pending \subseteq Written(b, ids \ updates).pending
      OBVIOUS
    <3> DEFINE g == Given(srv[c], t)
    <3>1. g \in Server /\ g.pending = srv[c].pending
      BY <1>1, GivenFacts
    <3> HIDE DEF g
    <3>2. \A x \in Server : \A m \in SUBSET Work :
             Written(x, m) \in Server /\ x.pending \subseteq Written(x, m).pending
      BY WrittenFacts
    <3> QED
      BY <2>3, <3>1, <3>2 DEF g
  <2> HIDE DEF b
  <2>6. c \in U => srv[c].pending \subseteq s.pending
    BY <2>4, <2>5
  <2> HIDE DEF U, c
  <2> QED
    BY <1>1, <2>2, <2>6, WorkChange
<1>6. ASSUME NEW o \in Obj, Sqlite!Insert(o) \/ Sqlite!Set(o) \/ Sqlite!Delete(o) \/ Sqlite!Unset(o)
      PROVE  KeepsWork(U, srv, srv')
  BY <1>5, <1>6, <1>10 DEF Sqlite!Insert, Sqlite!Set, Sqlite!Delete, Sqlite!Unset
<1>7. ASSUME NEW o \in Obj, NEW may,
             Sqlite!Begin(o, may) \/ Sqlite!Commit(o, may) \/ Sqlite!Rollback(o)
      PROVE  FALSE
  <2>1. \E m \in Closing : \E e : reply' = Answer(o, m, e)
    BY <1>7, SqliteServer DEF Sqlite!Begin, Sqlite!Commit, Sqlite!Rollback, Closing
  <2> QED
    BY <2>1, AnswerOf
<1>8. ASSUME NEW o \in Obj, Sqlite!Close(o) \/ Sqlite!Dropdb(o) \/ Sqlite!Destroy(o) PROVE FALSE
  <2>1. \E m \in Closing : \E e : reply' = Answer(o, m, e)
    BY <1>8, SqliteServer DEF Sqlite!Close, Sqlite!Dropdb, Sqlite!Destroy, Closing
  <2> QED
    BY <2>1, AnswerOf
<1>9. ASSUME NEW o \in Obj,
             \/ Sqlite!New(o) \/ Sqlite!Createdb(o) \/ Sqlite!FetchLines(o)
             \/ \E q \in -2 .. MaxLines : Sqlite!Fetch(o, q)
             \/ \E n \in Obj : Sqlite!Clone(o, n)
      PROVE  srv' = srv
  BY <1>9 DEF Sqlite!New, Sqlite!Createdb, Sqlite!FetchLines, Sqlite!Fetch, Sqlite!Clone
<1> HIDE DEF U
<1> QED
  BY <1>2, <1>3, <1>4, <1>6, <1>7, <1>8, <1>9, WorkSame, SqliteServer, Zenon DEF Sqlite!Next, U

(* The step of UserWorkKept. *)
WorkStep ==
    \A c \in Conn :
          /\ UserTransaction(c)
          /\ reply'.of \notin {"begin", "commit", "rollback", "close", "drop", "destroy"}
          => \/ srv[c].pending \subseteq srv'[c].pending
             \/ kind = "postgresql" /\ srv'[c].txn = "aborted"

(* In all four backends, for all parameters: what was done in a transaction *)
(* of the user, begun on this connection, is still pending after any method *)
(* but begin, commit, rollback, close, drop and destroy: dbi_*_Exec never   *)
(* commits or undoes it, whether the command succeeds or fails.  Only       *)
(* PostgreSQL itself gives a transaction up.                                *)
THEOREM ClientWorkKept == Spec => UserWorkKept
<1>1. ClientInv /\ [Next]_vars => [WorkStep]_vars
  <2> SUFFICES ASSUME ClientInv, Next, NEW c \in Conn, UserTransaction(c), reply'.of \notin Closing
               PROVE  \/ srv[c].pending \subseteq srv'[c].pending
                      \/ kind = "postgresql" /\ srv'[c].txn = "aborted"
    BY DEF WorkStep, Closing
  <2>1. CASE kind = "mysql" /\ Mysql!Next
    BY <2>1, MysqlWork DEF ClientInv, KeepsWork
  <2>2. CASE kind = "postgresql" /\ Postgresql!Next
    BY <2>2, PostgresqlWork DEF ClientInv, KeepsWork, NotAborted
  <2>3. CASE kind = "odbc" /\ Odbc!Next
    <3>1. c \in OdbcUser
      BY <2>3 DEF UserTransaction, OdbcUser, ClientInv, OdbcInv, OdbcGood, Sound
    <3> QED
      BY <2>3, <3>1, OdbcWork DEF ClientInv, KeepsWork
  <2>4. CASE kind = "sqlite" /\ Sqlite!Next
    <3>1. c \in SqliteUser
      BY <2>4 DEF UserTransaction, SqliteUser
    <3> QED
      BY <2>4, <3>1, SqliteWork DEF ClientInv, KeepsWork
  <2> QED
    BY <2>1, <2>2, <2>3, <2>4 DEF Next
<1>2. UserWorkKept <=> [][WorkStep]_vars
  BY DEF UserWorkKept, WorkStep
<1> QED
  BY <1>1, <1>2, ClientInvariant, PTL DEF Spec

-----------------------------------------------------------------------------------
(* Texts are executed as a whole. *)

(* Of the sets 0 .. n-1 with n in S one is the least. *)
LEMMA LeastNumber ==
    ASSUME NEW S \in SUBSET Nat, S # {}
    PROVE  \E n \in S : \A m \in S : n <= m
<1> DEFINE Below == {0 .. n - 1 : n \in S}
<1>1. Below \subseteq FiniteSubsetsOf(Nat) /\ Below # {}
  <2>1. \A n \in Nat : 0 .. n - 1 \subseteq Nat /\ IsFiniteSet(0 .. n - 1)
    BY FS_Interval
  <2> QED
    BY <2>1 DEF FiniteSubsetsOf
<1>2. PICK T \in Below : \A U \in Below : <<U, T>> \notin StrictSubsetOrdering(Nat)
  <2> HIDE DEF Below
  <2> QED
    BY <1>1, FS_StrictSubsetOrderingWellFounded, WFMin
<1>3. PICK n \in S : T = 0 .. n - 1
  OBVIOUS
<1>4. ASSUME NEW m \in S, m < n PROVE FALSE
  <2>1. 0 .. m - 1 \in Below /\ 0 .. m - 1 \subseteq T
    BY <1>3, <1>4
  <2>2. m \in T /\ m \notin 0 .. m - 1
    BY <1>3, <1>4
  <2> QED
    BY <1>1, <1>2, <2>1, <2>2 DEF StrictSubsetOrdering, FiniteSubsetsOf
<1> QED
  BY <1>4

(* How far a text gets. *)
LEMMA UpToErrorOf ==
    ASSUME NEW t, Len(t) \in Nat
    PROVE  UpToError(t) \in 0 .. Len(t)
<1> DEFINE bad == {i \in 1 .. Len(t) : t[i] = "bad"}
<1>1. Len(t) \in Nat
  OBVIOUS
<1>2. bad \subseteq 1 .. Len(t) /\ bad \subseteq Nat
  BY <1>1
<1> DEFINE first == CHOOSE i \in bad : \A j \in bad : i <= j
<1>3. UpToError(t) = IF bad = {} THEN Len(t) ELSE first - 1
  BY DEF UpToError
<1> HIDE DEF bad
<1>4. bad # {} => first \in bad
  BY <1>2, LeastNumber
<1> HIDE DEF first
<1>5. CASE bad = {}
  <2>1. UpToError(t) = Len(t)
    BY <1>3, <1>5
  <2> QED
    BY <1>1, <2>1
<1>6. CASE bad # {}
  <2>1. first \in 1 .. Len(t) /\ UpToError(t) = first - 1
    BY <1>2, <1>3, <1>4, <1>6
  <2> QED
    BY <1>1, <2>1
<1> QED
  BY <1>5, <1>6

LEMMA UpToErrorFacts ==
    ASSUME NEW t \in Texts
    PROVE  UpToError(t) \in 0 .. Len(t) /\ Len(t) \in Nat
<1>1. Len(t) \in Nat
  BY ServerAssumption
<1> QED
  BY <1>1, UpToErrorOf

LEMMA MysqlSplit ==
    ASSUME NEW t \in Texts, NEW closed \in BOOLEAN
    PROVE  Len(Mysql!SplitSQL(t, closed)) \in Nat
<1>1. t \in Seq({"write", "select", "bad"})
  BY ServerAssumption
<1>2. SubSeq(t, 1, Len(t) - 1) \in Seq({"write", "select", "bad"})
  BY <1>1
<1>3. Mysql!SplitSQL(t, closed) \in Seq({"write", "select", "bad"})
  BY <1>1, <1>2 DEF Mysql!SplitSQL
<1> QED
  BY <1>3

LEMMA MysqlSent ==
    ASSUME NEW t, Len(t) \in Nat, NEW s
    PROVE  Mysql!Sent(s, t) \in 0 .. Len(t)
<1> DEFINE unread == Mysql!Unread(t)
           first == CHOOSE i \in unread : \A j \in unread : i <= j
<1>1. Len(t) \in Nat /\ unread \subseteq Nat /\ unread \subseteq 0 .. Len(t)
  BY DEF Mysql!Unread
<1>2. Mysql!Sent(s, t) \in {0, UpToError(t)} \/ (unread # {} /\ Mysql!Sent(s, t) = first)
  BY MysqlServer DEF Mysql!Sent
<1> HIDE DEF unread
<1>3. unread # {} => first \in unread
  BY <1>1, LeastNumber
<1> HIDE DEF first
<1>4. 0 \in 0 .. Len(t) /\ UpToError(t) \in 0 .. Len(t)
  BY <1>1, UpToErrorOf
<1> QED
  BY <1>1, <1>2, <1>3, <1>4

(* The numbers that a text gets are taken from below. *)
LEMMA LowestFacts ==
    ASSUME NEW S \in SUBSET Work, NEW k \in Int, NEW i \in S, NEW j \in Lowest(S, k), i < j
    PROVE  i \in Lowest(S, k)
<1> DEFINE I == {x \in S : x <= i}
           J == {x \in S : x <= j}
<1>1. j \in S /\ Cardinality(J) <= k
  BY DEF Lowest
<1>2. IsFiniteSet(Work) /\ Work \subseteq Int
  BY ServerAssumption, FS_Interval DEF Work
<1>3. i \in Int /\ j \in Int /\ S \subseteq Int
  BY <1>1, <1>2
<1>4. I \subseteq J /\ J \subseteq Work
  <2>1. ASSUME NEW x \in S, x <= i PROVE x <= j
    <3>1. x \in Int
      BY <1>3
    <3> QED
      BY <1>3, <2>1, <3>1
  <2> QED
    BY <2>1
<1> HIDE DEF I, J
<1>5. IsFiniteSet(J)
  BY <1>2, <1>4, FS_Subset
<1>6. IsFiniteSet(I) /\ Cardinality(I) <= Cardinality(J)
  BY <1>4, <1>5, FS_Subset
<1>7. Cardinality(I) \in Int /\ Cardinality(J) \in Int
  BY <1>5, <1>6, FS_CardinalityType
<1>8. Cardinality(I) <= k
  BY <1>1, <1>6, <1>7
<1> QED
  BY <1>8 DEF Lowest, I

LEMMA WritesFromBelow ==
    ASSUME NEW s, NEW t, NEW n \in Int,
           NEW i \in Unused(s), NEW j \in Writes(s, t, n), i < j
    PROVE  i \in Writes(s, t, n)
<1>1. Effects(t, n) \in Int
  <2>1. IsFiniteSet({x \in 1 .. n : t[x] = "write"})
    BY FS_Interval, FS_Subset
  <2> QED
    BY <2>1, FS_CardinalityType DEF Effects
<1>2. Unused(s) \in SUBSET Work /\ i \in Unused(s)
  BY DEF Unused
<1>3. j \in Lowest(Unused(s), Effects(t, n))
  BY DEF Writes
<1>4. i \in Lowest(Unused(s), Effects(t, n))
  BY <1>1, <1>2, <1>3, LowestFacts
<1> QED
  BY <1>4 DEF Writes

(* What executing the commands makes of a connection. *)
LEMMA CommandsFacts ==
    ASSUME NEW s \in Server, NEW t, NEW ids \in SUBSET Work
    PROVE  /\ Given(s, t) \in Server /\ Given(s, t).txn = s.txn /\ Given(s, t).pending = s.pending
           /\ Given(s, t).durable = s.durable \ Writes(s, t, Len(t))
           /\ Written(Given(s, t), ids) \in Server /\ Written(Given(s, t), ids).txn = s.txn
           /\ s.txn = "none" => /\ Written(Given(s, t), ids).pending = s.pending
                                /\ Written(Given(s, t), ids).durable =
                                      (s.durable \ Writes(s, t, Len(t))) \cup ids
           /\ s.txn # "none" => /\ Written(Given(s, t), ids).pending = s.pending \cup ids
                                /\ Written(Given(s, t), ids).durable =
                                      s.durable \ Writes(s, t, Len(t))
<1> DEFINE new == Writes(s, t, Len(t))
           g   == Given(s, t)
           w   == Written(g, ids)
<1>1. new \in SUBSET Work /\ new \cap s.pending = {}
  BY WritesFacts
<1>2. /\ g \in Server /\ g.txn = s.txn /\ g.pending = s.pending
      /\ g.durable = s.durable \ new
  BY GivenFacts
<1> HIDE DEF g, new
<1>3. /\ w \in Server /\ w.txn = g.txn
      /\ w.pending = IF g.txn = "none" THEN g.pending ELSE g.pending \cup ids
      /\ w.durable = IF g.txn = "none" THEN g.durable \cup ids ELSE g.durable
  BY <1>2, WrittenFacts
<1> HIDE DEF w
<1>4. s.txn = "none" => w.pending = s.pending /\ w.durable = (s.durable \ new) \cup ids
  BY <1>2, <1>3
<1>5. s.txn # "none" => w.pending = s.pending \cup ids /\ w.durable = s.durable \ new
  BY <1>2, <1>3
<1> QED
  BY <1>2, <1>3, <1>4, <1>5 DEF g, w, new

(* The answers of the methods that are no exec and change no records.       *)
Executes(r) == r.of \in {"exec", "modify"}
Others == {"new", "create", "open", "lines", "clear", "begin", "commit", "rollback", "get",
           "clone", "close", "drop", "destroy"}

LEMMA NoExecAnswer ==
    /\ \A o, e : \A m \in Others : ~Executes(Answer(o, m, e))
    /\ \A o, q : ~Executes(NoLine(o, q))
    /\ \A o, q, n, r : ~Executes(GivenLine(o, q, n, r))
    /\ \A o, n : ~Executes(Count(o, n))
BY AnswerOf DEF Executes, Others

(* What Atomic says of the answer r and the connection s: user, whether the *)
(* user has a transaction; goes, whether a text without one stays open.     *)
AllDone(r, s) == r.ids \subseteq s.pending \cup s.durable
Whole(r, s, user, goes) ==
    /\ r.of = "exec" /\ r.is = "failed" /\ ~user => r.ids \cap (s.pending \cup s.durable) = {}
    /\ r.is = "ok" => AllDone(r, s) /\ (user \/ goes \/ r.ids \subseteq s.durable)
WholeOrFirst(r, s, user) ==
    /\ r.is = "failed" /\ ~user =>
          \A i, j \in r.ids : i < j /\ j \in s.durable => i \in s.durable
    /\ r.is = "ok" => /\ r.ids \ r.unsent \subseteq s.pending \cup s.durable
                      /\ user \/ r.ids \ r.unsent \subseteq s.durable

(* Atomic, in the terms of each backend. *)
MysqlWhole(r, s) == WholeOrFirst(r, s, s.txn # "none")

LEMMA MysqlAtomic ==
    ASSUME MysqlInv, Mysql!Next, Executes(reply'), reply'.ids # {}
    PROVE  MysqlWhole(reply', srv'[obj'[reply'.to].db])
<1> DEFINE Goal == MysqlWhole(reply', srv'[obj'[reply'.to].db])
<1>1. ASSUME NEW o \in Obj, NEW t \in Texts, NEW closed \in BOOLEAN, NEW fetch \in BOOLEAN,
             NEW args \in BOOLEAN, Mysql!Exec(o, t, closed, fetch, args)
      PROVE  Goal
  <2> DEFINE c == obj[o].db
             u == Mysql!SplitSQL(t, closed)
             n == IF args THEN Mysql!Sent(srv[c], u) ELSE 0
             sticks == args /\ \E i \in Mysql!Unread(u) : i <= n
             q == Mysql!Queried(srv[c], t, u, n, sticks)
             new == Writes(srv[c], t, Len(t))
             sent == Writes(srv[c], u, Len(u))
  <2>1. ~(reply' = Executed(o, "nothing", {}))
    BY AnswerOf
  <2>2. /\ reply' = ExecutedPart(o, IF n = Len(u) THEN "ok" ELSE "failed", new, new \ sent)
        /\ srv' = [srv EXCEPT ![c] = q]
        /\ \E rows \in IF fetch THEN Rows(u) ELSE {0} :
                 obj' = [obj EXCEPT ![o] =
                    IF n = Len(u) /\ fetch /\ Selects(u) THEN Mysql!NewResult(@, rows)
                    ELSE Mysql!Clearresult(@)]
        /\ Mysql!Connected(o)
    BY <1>1, <2>1, MysqlServer DEF Mysql!Exec
  <2>3. n \in 0 .. Len(u) /\ Len(u) \in Nat
    <3>1. Len(u) \in Nat
      BY MysqlSplit
    <3> HIDE DEF u
    <3> QED
      BY <3>1, MysqlSent
  <2> HIDE DEF u
  <2>4. sticks \in BOOLEAN
    OBVIOUS
  <2>5. c \in Conn /\ srv[c] \in Server /\ obj[o] \in MysqlRecord
    BY <2>2 DEF MysqlInv, MysqlRecord, Mysql!Connected
  <2>6. obj'[o].db = c
    <3>1. PICK rows \in IF fetch THEN Rows(u) ELSE {0} :
                 obj' = [obj EXCEPT ![o] =
                    IF n = Len(u) /\ fetch /\ Selects(u) THEN Mysql!NewResult(@, rows)
                    ELSE Mysql!Clearresult(@)]
      BY <2>2
    <3>2. rows \in 0 .. MaxLines
      BY RowsFacts
    <3>3. /\ Mysql!Clearresult(obj[o]).db = c /\ Mysql!NewResult(obj[o], rows).db = c
      BY <2>5, <3>2, MysqlResults
    <3>4. obj'[o] = Mysql!NewResult(obj[o], rows) \/ obj'[o] = Mysql!Clearresult(obj[o])
      BY <3>1 DEF MysqlInv
    <3> QED
      BY <3>3, <3>4
  <2>7. srv'[c] = q
    BY <2>2, <2>5 DEF MysqlInv
  <2>8. /\ reply'.to = o /\ reply'.is = (IF n = Len(u) THEN "ok" ELSE "failed")
        /\ reply'.ids = new /\ reply'.unsent = new \ sent
    BY <2>2, AnswerOf
  <2> HIDE DEF n, sticks, c
  <2> DEFINE some == Writes(srv[c], u, n)
  <2>9. /\ some \in SUBSET Work
        /\ q.txn = srv[c].txn
        /\ q.pending = Written(Given(srv[c], t), some).pending
        /\ q.durable = Written(Given(srv[c], t), some).durable
    BY <2>4, <2>5, MysqlQueried, WritesFacts
  <2>10. new \cap srv[c].pending = {} /\ (n = Len(u) => some = sent)
    BY WritesFacts
  <2>11. \A i \in new, j \in some : i < j => i \in some
    <3>1. new \subseteq Unused(srv[c])
      BY DEF Writes, Lowest
    <3> QED
      BY <2>3, <3>1, WritesFromBelow
  <2> HIDE DEF q, some, new, sent
  <2>12. /\ srv[c].txn = "none" => /\ q.pending = srv[c].pending
                                   /\ q.durable = (srv[c].durable \ new) \cup some
         /\ srv[c].txn # "none" => q.pending = srv[c].pending \cup some
    BY <2>5, <2>9, CommandsFacts DEF new
  <2>13. q.txn = "none" => \A i, j \in new : i < j /\ j \in q.durable => i \in q.durable
    BY <2>9, <2>11, <2>12
  <2>14. n = Len(u) => /\ new \cap sent \subseteq q.pending \cup q.durable
                       /\ q.txn # "none" \/ new \cap sent \subseteq q.durable
    BY <2>9, <2>10, <2>12
  <2>15. srv'[obj'[reply'.to].db] = q
    BY <2>6, <2>7, <2>8
  <2> HIDE DEF Goal
  <2> QED
    BY <2>8, <2>13, <2>14, <2>15 DEF Goal, MysqlWhole, WholeOrFirst
<1>2. ASSUME NEW o \in Obj,
             \/ Mysql!New(o) \/ Mysql!Open(o)
             \/ Mysql!Close(o) \/ Mysql!Dropdb(o) \/ Mysql!Destroy(o)
             \/ Mysql!Transaction_Start(o) \/ Mysql!Transaction_Commit(o)
             \/ Mysql!Transaction_Rollback(o)
             \/ \E n \in Obj : Mysql!Clone(o, n)
      PROVE  FALSE
  <2>1. \E m \in Others : \E p, e : reply' = Answer(p, m, e)
    BY <1>2, MysqlServer
       DEF Mysql!New, Mysql!Open, Mysql!Close, Mysql!Dropdb, Mysql!Destroy,
           Mysql!Transaction_Start, Mysql!Transaction_Commit, Mysql!Transaction_Rollback,
           Mysql!Query, Mysql!Clone, Others
  <2> QED
    BY <2>1, NoExecAnswer
<1>3. ASSUME NEW o \in Obj,
             Mysql!FetchLines(o) \/ \E q \in -2 .. MaxLines : Mysql!Fetch(o, q)
      PROVE  FALSE
  <2>1. ~Executes(Answer(o, "lines", "refused"))
    BY NoExecAnswer DEF Others
  <2> QED
    BY <1>3, <2>1, NoExecAnswer, MysqlServer DEF Mysql!FetchLines, Mysql!Fetch
<1> HIDE DEF Goal
<1>4. Goal
  BY <1>1, <1>2, <1>3, MysqlServer, Zenon DEF Mysql!Next
<1> QED
  BY <1>4 DEF Goal

PostgresqlWhole(r, s) == Whole(r, s, s.txn # "none", FALSE)

LEMMA PostgresqlAtomic ==
    ASSUME PostgresqlInv, Postgresql!Next, Executes(reply'), reply'.ids # {}
    PROVE  PostgresqlWhole(reply', srv'[obj'[reply'.to].conn])
<1> DEFINE Goal == PostgresqlWhole(reply', srv'[obj'[reply'.to].conn])
<1>1. ASSUME NEW o \in Obj, NEW t \in Texts, NEW fetch \in BOOLEAN, NEW args \in BOOLEAN,
             Postgresql!Exec(o, t, fetch, args)
      PROVE  Goal
  <2> DEFINE c == obj[o].conn
             ok == args /\ Postgresql!PQexecWorks(srv[c], t)
             q == IF args THEN Postgresql!PQexec(srv[c], t) ELSE Given(srv[c], t)
             new == Writes(srv[c], t, Len(t))
  <2>1. /\ reply' = Executed(o, IF ok THEN "ok" ELSE "failed", new)
        /\ srv' = [srv EXCEPT ![c] = q]
        /\ Postgresql!Connected(o)
    BY <1>1, PostgresqlServer DEF Postgresql!Exec
  <2>2. PICK rows \in IF fetch THEN Rows(t) ELSE {0} :
               obj' = [obj EXCEPT ![o] = IF ok THEN Postgresql!Replaced(@, fetch, rows) ELSE @]
    BY <1>1, PostgresqlServer DEF Postgresql!Exec
  <2>3. c \in Conn /\ srv[c] \in Server /\ obj[o] \in PostgresqlRecord
    BY <2>1 DEF PostgresqlInv, PostgresqlRecord, Postgresql!Connected
  <2>4. obj'[o].conn = c
    <3>1. rows \in 0 .. MaxLines
      BY RowsFacts
    <3>2. Postgresql!Replaced(obj[o], fetch, rows).conn = c
      BY <2>3, <3>1, PostgresqlReplaced
    <3>3. obj'[o] = Postgresql!Replaced(obj[o], fetch, rows) \/ obj'[o] = obj[o]
      BY <2>2 DEF PostgresqlInv
    <3> QED
      BY <3>2, <3>3
  <2>5. srv'[c] = q
    BY <2>1, <2>3 DEF PostgresqlInv
  <2>6. /\ reply'.to = o /\ reply'.is = (IF ok THEN "ok" ELSE "failed") /\ reply'.ids = new
    BY <2>1, AnswerOf
  <2>7. new \in SUBSET Work /\ new \cap srv[c].pending = {}
    BY WritesFacts
  <2>8. ASSUME q = Given(srv[c], t) PROVE new \cap (q.pending \cup q.durable) = {}
    <3>1. /\ Given(srv[c], t).pending = srv[c].pending
          /\ Given(srv[c], t).durable = srv[c].durable \ new
      BY <2>3, <2>7, CommandsFacts
    <3> HIDE DEF q, new
    <3> QED
      BY <2>7, <2>8, <3>1
  <2>9. ASSUME q = Written(Given(srv[c], t), new)
        PROVE  /\ new \subseteq q.pending \cup q.durable
               /\ q.txn # "none" \/ new \subseteq q.durable
    <3>1. /\ q.txn = srv[c].txn
          /\ q.txn = "none" => q.durable = (srv[c].durable \ new) \cup new
          /\ q.txn # "none" => q.pending = srv[c].pending \cup new
      BY <2>3, <2>7, <2>9, CommandsFacts
    <3> HIDE DEF q, new
    <3> QED
      BY <3>1
  <2>10. ok => q = Written(Given(srv[c], t), new)
    BY PostgresqlServer DEF Postgresql!PQexec
  <2>11. ~ok => q = Given(srv[c], t) \/ q.txn = "aborted"
    <3>1. [srv[c] EXCEPT !.txn = "aborted", !.pending = {}].txn = "aborted"
      BY <2>3 DEF Server
    <3> QED
      BY <3>1, PostgresqlServer DEF Postgresql!PQexec
  <2>12. srv'[obj'[reply'.to].conn] = q
    BY <2>4, <2>5, <2>6
  <2> HIDE DEF Goal, ok, q, new, c
  <2> QED
    BY <2>6, <2>8, <2>9, <2>10, <2>11, <2>12 DEF Goal, PostgresqlWhole, Whole, AllDone
<1>2. ASSUME NEW o \in Obj,
             \/ Postgresql!New(o) \/ Postgresql!Open(o) \/ Postgresql!FetchClear(o)
             \/ Postgresql!Close(o) \/ Postgresql!Destroy(o)
             \/ Postgresql!Transaction_Start(o) \/ Postgresql!Transaction_Commit(o)
             \/ Postgresql!Transaction_Rollback(o)
             \/ \E n \in Obj : Postgresql!Clone(o, n)
      PROVE  FALSE
  <2>1. \E m \in Others : \E p, e : reply' = Answer(p, m, e)
    BY <1>2, PostgresqlServer
       DEF Postgresql!New, Postgresql!Open, Postgresql!FetchClear, Postgresql!Close,
           Postgresql!Destroy, Postgresql!Transaction_Start, Postgresql!Transaction_Commit,
           Postgresql!Transaction_Rollback, Postgresql!Command, Postgresql!Clone, Others
  <2> QED
    BY <2>1, NoExecAnswer
<1>3. ASSUME NEW o \in Obj,
             Postgresql!FetchLines(o) \/ \E q \in -2 .. MaxLines : Postgresql!Fetch(o, q)
      PROVE  FALSE
  <2>1. ~Executes(Answer(o, "lines", "refused"))
    BY NoExecAnswer DEF Others
  <2> QED
    BY <1>3, <2>1, NoExecAnswer, PostgresqlServer DEF Postgresql!FetchLines, Postgresql!Fetch
<1> HIDE DEF Goal
<1>4. Goal
  BY <1>1, <1>2, <1>3, PostgresqlServer, Zenon DEF Postgresql!Next
<1> QED
  BY <1>4 DEF Goal

OdbcWhole ==
    LET s == srv[obj[reply.to].hdbc]
    IN /\ reply.is = "failed" /\ Odbc!Autocommit(reply.to) =>
             reply.ids \cap (s.pending \cup s.durable) = {}
       /\ reply.is = "ok" =>
             AllDone(reply, s) /\ (Odbc!Trans(reply.to) \/ reply.ids \subseteq s.durable)

(* exec leaves the mode of all objects as it is. *)
SameModes == \A p \in Obj : /\ obj'[p].parent = obj[p].parent /\ obj'[p].hdbc = obj[p].hdbc
                            /\ obj'[p].auto = obj[p].auto

LEMMA OdbcModes ==
    ASSUME OdbcInv, NEW o \in Obj, NEW x \in OdbcRecord, NEW b \in BOOLEAN,
           x.parent = obj[o].parent, x.hdbc = obj[o].hdbc, x.auto = obj[o].auto,
           obj' = Odbc!WithTrans([obj EXCEPT ![o] = x], o, b)
    PROVE  /\ SameModes
           /\ Odbc!Trans(o)' = b
           /\ Odbc!Autocommit(o)' = Odbc!Autocommit(o)
<1> DEFINE S == [obj EXCEPT ![o] = x]
           r == Odbc!Root(o)
<1>1. /\ r \in Obj /\ obj \in [Obj -> OdbcRecord]
      /\ obj[r].parent = NoObj /\ obj[r].hdbc = obj[o].hdbc
  BY OdbcRootObject DEF OdbcInv, OdbcGood
<1> HIDE DEF r
<1>2. S \in [Obj -> OdbcRecord]
  BY <1>1
<1>3. \A p \in Obj : /\ S[p].parent = obj[p].parent /\ S[p].hdbc = obj[p].hdbc
                     /\ S[p].auto = obj[p].auto
  BY <1>1
<1>4. obj' = [S EXCEPT ![r].trans = b]
  BY DEF Odbc!WithTrans, r
<1> HIDE DEF S
<1>5. [S[r] EXCEPT !.trans = b].trans = b
  BY <1>1, <1>2 DEF OdbcRecord
<1>6. LET y == [S[r] EXCEPT !.trans = b]
      IN y.parent = S[r].parent /\ y.hdbc = S[r].hdbc /\ y.auto = S[r].auto
  BY <1>1, <1>2 DEF OdbcRecord
<1>7. obj' = [S EXCEPT ![r] = [S[r] EXCEPT !.trans = b]]
  BY <1>1, <1>2, <1>4
<1>8. \A p \in Obj : obj'[p] = IF p = r THEN [S[r] EXCEPT !.trans = b] ELSE S[p]
  BY <1>1, <1>2, <1>7
<1>9. SameModes
  BY <1>3, <1>6, <1>8 DEF SameModes
<1>10. Odbc!Root(o)' = r
  BY <1>9 DEF SameModes, Odbc!Root, Odbc!IsClone, r
<1>11. Odbc!Trans(o)' = b
  BY <1>1, <1>5, <1>8, <1>10 DEF Odbc!Trans
<1>12. Odbc!Autocommit(o)' = Odbc!Autocommit(o)
  BY <1>1, <1>9, <1>10 DEF SameModes, Odbc!Autocommit, r
<1> QED
  BY <1>9, <1>11, <1>12

LEMMA OdbcResultModes ==
    ASSUME NEW r \in OdbcRecord, NEW rows \in 0 .. MaxLines, NEW counted \in BOOLEAN
    PROVE  /\ LET c == Odbc!Clearresult(r)
              IN c \in OdbcRecord /\ c.parent = r.parent /\ c.hdbc = r.hdbc /\ c.auto = r.auto
           /\ LET n == Odbc!Bindresult(r, rows, counted)
              IN n \in OdbcRecord /\ n.parent = r.parent /\ n.hdbc = r.hdbc /\ n.auto = r.auto
<1>1. LET c == Odbc!Clearresult(r)
      IN c \in OdbcRecord /\ c.parent = r.parent /\ c.hdbc = r.hdbc /\ c.auto = r.auto
  BY OdbcCleared DEF OdbcAlike
<1>2. LET n == Odbc!Bindresult(r, rows, counted)
      IN n \in OdbcRecord /\ n.parent = r.parent /\ n.hdbc = r.hdbc
  BY OdbcBound DEF OdbcAlike
<1>3. Odbc!Bindresult(r, rows, counted).auto = r.auto
  BY DEF Odbc!Bindresult, OdbcRecord
<1> QED
  BY <1>1, <1>2, <1>3

LEMMA OdbcAtomic ==
    ASSUME OdbcInv, Odbc!Next, Executes(reply'), reply'.ids # {}
    PROVE  OdbcWhole'
<1>1. ASSUME NEW o \in Obj, NEW t \in Texts, NEW fetch \in BOOLEAN, NEW args \in BOOLEAN,
             Odbc!Exec(o, t, fetch, args)
      PROVE  OdbcWhole'
  <2> DEFINE c == obj[o].hdbc
             s == srv[c]
             new == Writes(s, t, Len(t))
  <2>1. Odbc!Connected(o)
    BY <1>1 DEF Odbc!Exec
  <2>2. c \in Conn /\ s \in Server /\ s.txn = "open" /\ obj[o] \in OdbcRecord
    BY <2>1, OdbcDone DEF OdbcInv, OdbcGood
  <2>3. new \in SUBSET Work /\ new \cap s.pending = {}
    BY WritesFacts
  <2>4. Odbc!Autocommit(o) \in BOOLEAN /\ Odbc!Trans(o) \in BOOLEAN
    BY OdbcRootObject DEF OdbcInv
  <2>5. \A e : /\ Odbc!Executing(o, e, t).to = o /\ Odbc!Executing(o, e, t).is = e
               /\ Odbc!Executing(o, e, t).ids = new
    BY AnswerOf, OdbcServer DEF Odbc!Executing
  <2>6. \A q : srv' = [srv EXCEPT ![c] = q] => srv'[c] = q
    BY <2>2 DEF OdbcInv, OdbcGood
  (* the connection before the text, and the one rolled back after it *)
  <2>7. LET g == Given(s, t)
        IN /\ g \in Server /\ g.txn = "open" /\ g.pending = s.pending /\ g.durable = s.durable \ new
    BY <2>2, <2>3, CommandsFacts
  <2>8. ASSUME NEW x \in Server, x.durable \cap new = {}
        PROVE  LET e == Odbc!EndTran(x, FALSE)
               IN new \cap (e.pending \cup e.durable) = {}
    <3>1. LET e == Odbc!EndTran(x, FALSE) IN e.pending = {} /\ e.durable = x.durable
      BY OdbcEndTran
    <3> HIDE DEF new
    <3> QED
      BY <2>8, <3>1
  <2>9. LET b == Odbc!ExecStart(o, Given(s, t))
        IN b \in Server /\ b.txn = "open" /\ b.durable \cap new = {}
    <3> DEFINE g == Given(s, t)
               e == Odbc!EndTran(g, TRUE)
    <3>1. g \in Server /\ g.txn = "open" /\ g.pending = s.pending /\ g.durable = s.durable \ new
      BY <2>7
    <3> HIDE DEF g
    <3>2. e \in Server /\ e.txn = "open" /\ e.durable = g.durable \cup g.pending
      BY <3>1, OdbcEndTran
    <3>3. Odbc!ExecStart(o, g) = e \/ Odbc!ExecStart(o, g) = g
      BY DEF Odbc!ExecStart
    <3> HIDE DEF e, new, s
    <3>4. e.durable \cap new = {} /\ g.durable \cap new = {}
      BY <2>3, <3>1, <3>2
    <3> QED
      BY <3>1, <3>2, <3>3, <3>4 DEF g
  <2>10. ASSUME NEW n
         PROVE  LET d == Odbc!Done(o, t, n)
                IN /\ d \in Server /\ d.durable \cap new = {}
                   /\ n = Len(t) => new \subseteq d.pending
    <3> DEFINE b == Odbc!ExecStart(o, Given(s, t))
               some == Writes(s, t, n)
               d == Written(b, some)
    <3>1. b \in Server /\ b.txn = "open" /\ b.durable \cap new = {}
      BY <2>9
    <3>2. Odbc!Done(o, t, n) = d
      BY OdbcServer DEF Odbc!Done
    <3>3. some \in SUBSET Work /\ (n = Len(t) => some = new)
      BY WritesFacts
    <3> HIDE DEF b, some, new
    <3>4. d \in Server /\ d.pending = b.pending \cup some /\ d.durable = b.durable
      BY <3>1, <3>3, WrittenFacts
    <3> HIDE DEF d
    <3> QED
      BY <3>1, <3>2, <3>3, <3>4
  <2> HIDE DEF new, s
  <2>11. ASSUME Odbc!ExecStartFails(o, t) PROVE OdbcWhole'
    <3>1. /\ srv'[c] = Odbc!EndTran(Given(s, t), FALSE)
          /\ obj' = Odbc!WithTrans([obj EXCEPT ![o] = Odbc!Clearresult(@)], o, FALSE)
          /\ reply' = Odbc!Executing(o, "failed", t)
      BY <2>6, <2>11, OdbcServer DEF Odbc!ExecStartFails, s
    <3>2. new \cap (srv'[c].pending \cup srv'[c].durable) = {}
      <4>1. Given(s, t) \in Server /\ Given(s, t).durable \cap new = {}
        BY <2>7
      <4> QED
        BY <2>8, <3>1, <4>1
    <3>3. obj'[o].hdbc = c
      BY <2>2, <3>1, OdbcResultModes, OdbcModes, LinesFacts DEF SameModes
    <3>4. reply'.to = o /\ reply'.is = "failed" /\ reply'.ids = new
      BY <2>5, <3>1
    <3> HIDE DEF c
    <3> QED
      BY <3>2, <3>3, <3>4 DEF OdbcWhole
  <2>12. ASSUME NEW n, Odbc!ExecFails(o, t, n) PROVE OdbcWhole'
    <3>1. /\ srv'[c] = Odbc!RollbackIfAuto(o, Odbc!Done(o, t, n))
          /\ obj' = Odbc!WithTrans([obj EXCEPT ![o] = Odbc!Clearresult(@)], o, ~Odbc!Autocommit(o))
          /\ reply' = Odbc!Executing(o, "failed", t)
      BY <2>6, <2>12 DEF Odbc!ExecFails
    <3>2. Odbc!Autocommit(o) => new \cap (srv'[c].pending \cup srv'[c].durable) = {}
      BY <2>8, <2>10, <3>1 DEF Odbc!RollbackIfAuto
    <3>3. obj'[o].hdbc = c /\ Odbc!Autocommit(o)' = Odbc!Autocommit(o)
      BY <2>2, <2>4, <3>1, OdbcResultModes, OdbcModes, LinesFacts DEF SameModes
    <3>4. reply'.to = o /\ reply'.is = "failed" /\ reply'.ids = new
      BY <2>5, <3>1
    <3> HIDE DEF c
    <3> QED
      BY <3>2, <3>3, <3>4 DEF OdbcWhole
  <2>13. ASSUME Odbc!ExecOk(o, t, fetch) PROVE OdbcWhole'
    <3> DEFINE done == Odbc!Done(o, t, Len(t))
               ends == Odbc!EndsItself(o, t, fetch)
               q == IF ends THEN Odbc!EndTran(done, TRUE) ELSE done
    <3>1. PICK rows \in IF fetch THEN Rows(t) ELSE {0}, counted \in {Selects(t), FALSE} :
               obj' = Odbc!WithTrans([obj EXCEPT ![o] =
                   IF fetch /\ Selects(t) THEN Odbc!Bindresult(@, rows, counted)
                   ELSE Odbc!Clearresult(@)], o, ~ends)
      BY <2>13, OdbcServer DEF Odbc!ExecOk
    <3>2. srv'[c] = q /\ reply' = Odbc!Executing(o, "ok", t)
      BY <2>6, <2>13 DEF Odbc!ExecOk
    <3>3. done \in Server /\ new \subseteq done.pending
      BY <2>10
    <3> HIDE DEF done
    <3>4. ends => new \subseteq q.durable
      <4>1. Odbc!EndTran(done, TRUE).durable = done.durable \cup done.pending
        BY <3>3, OdbcEndTran
      <4> QED
        BY <3>3, <4>1
    <3>5. ~ends => new \subseteq q.pending
      BY <3>3
    <3>6. ends \in BOOLEAN
      BY DEF Odbc!EndsItself
    <3> HIDE DEF ends, q
    <3>7. rows \in 0 .. MaxLines /\ counted \in BOOLEAN
      BY <3>1, RowsFacts DEF Selects
    <3>8. obj'[o].hdbc = c /\ (Odbc!Trans(o)' = ~ends)
      <4> DEFINE x == IF fetch /\ Selects(t) THEN Odbc!Bindresult(obj[o], rows, counted)
                      ELSE Odbc!Clearresult(obj[o])
      <4>1. /\ x \in OdbcRecord
            /\ x.parent = obj[o].parent /\ x.hdbc = obj[o].hdbc /\ x.auto = obj[o].auto
        BY <2>2, <3>7, OdbcResultModes
      <4>2. obj' = Odbc!WithTrans([obj EXCEPT ![o] = x], o, ~ends)
        BY <3>1
      <4> HIDE DEF x
      <4>3. (~ends) \in BOOLEAN
        OBVIOUS
      <4> QED
        BY <3>6, <4>1, <4>2, <4>3, OdbcModes DEF SameModes
    <3>9. reply'.to = o /\ reply'.is = "ok" /\ reply'.ids = new
      BY <2>5, <3>2
    <3> HIDE DEF c
    <3> QED
      BY <3>2, <3>4, <3>5, <3>6, <3>8, <3>9 DEF OdbcWhole, AllDone
  <2>14. ~(reply' = Executed(o, "nothing", {}))
    BY AnswerOf
  <2> QED
    BY <1>1, <2>11, <2>12, <2>13, <2>14, OdbcServer DEF Odbc!Exec
<1>2. ASSUME NEW o \in Obj,
             \/ Odbc!New(o) \/ Odbc!Open(o) \/ Odbc!FetchClear(o)
             \/ Odbc!Close(o) \/ Odbc!Destroy(o)
             \/ Odbc!Begin(o) \/ Odbc!Commit(o) \/ Odbc!Rollback(o)
             \/ \E n \in Obj : Odbc!Clone(o, n)
      PROVE  FALSE
  <2>1. \E m \in Others : \E p, e : reply' = Answer(p, m, e)
    BY <1>2, OdbcServer
       DEF Odbc!New, Odbc!Open, Odbc!FetchClear, Odbc!Close, Odbc!Destroy, Odbc!Begin,
           Odbc!Commit, Odbc!Rollback, Odbc!EndsTran, Odbc!Clone, Others
  <2> QED
    BY <2>1, NoExecAnswer
<1>3. ASSUME NEW o \in Obj, NEW q \in -2 .. MaxLines, Odbc!Fetch(o, q) PROVE FALSE
  BY <1>3, NoExecAnswer, OdbcServer DEF Odbc!Fetch, Odbc!FetchAt
<1>4. ASSUME NEW o \in Obj, Odbc!FetchLines(o) PROVE FALSE
  <2>1. ~Executes(Answer(o, "lines", "refused"))
    BY NoExecAnswer DEF Others
  <2> QED
    BY <1>4, <2>1, NoExecAnswer, OdbcServer DEF Odbc!FetchLines
<1>5. ASSUME NEW o \in Obj, NEW q \in -2 .. MaxLines, Odbc!FetchError(o, q) PROVE FALSE
  <2>1. reply'.of = "fetch"
    BY <1>5, OdbcServer DEF Odbc!FetchError, Answer, NoReply
  <2> QED
    BY <2>1 DEF Executes
<1> QED
  BY <1>1, <1>2, <1>3, <1>4, <1>5, OdbcServer, Zenon DEF Odbc!Next

(* The transaction that the root of c has begun for the user. *)
SqliteHas(c) ==
    \E p \in Obj : obj[p].db = c /\ ~Sqlite!IsClone(p) /\ obj[p].intrans /\ ~obj[p].auto
SqliteWhole ==
    LET c == obj[reply.to].db
    IN Whole(reply, srv[c], SqliteHas(c), srv[c].txn = "open")

(* The result changes, not the mode. *)
LEMMA SqliteModes ==
    ASSUME SqliteInv, NEW o \in Obj, Sqlite!Opened(o), NEW x \in SqliteRecord,
           x.parent = obj[o].parent, x.db = obj[o].db, x.auto = obj[o].auto,
           x.intrans = obj[o].intrans, obj' = [obj EXCEPT ![o] = x]
    PROVE  /\ obj'[o].db = obj[o].db
           /\ ~Sqlite!Autocommit(o) => SqliteHas(obj[o].db)'
<1> DEFINE r == Sqlite!Root(o)
<1>1. /\ r \in Obj /\ obj \in [Obj -> SqliteRecord]
      /\ obj[r].parent = NoObj /\ obj[r].db = obj[o].db
      /\ ~Sqlite!Autocommit(o) => Sqlite!InTrans(o)
  BY SqliteRootObject DEF SqliteInv, SqliteGood
<1> HIDE DEF r
<1>2. /\ obj'[r].parent = obj[r].parent /\ obj'[r].db = obj[r].db
      /\ obj'[r].auto = obj[r].auto /\ obj'[r].intrans = obj[r].intrans
  BY <1>1
<1>3. ASSUME ~Sqlite!Autocommit(o) PROVE SqliteHas(obj[o].db)'
  <2>1. /\ ~obj'[r].auto /\ obj'[r].intrans
    BY <1>1, <1>2, <1>3 DEF Sqlite!Autocommit, Sqlite!InTrans, r
  <2>2. obj'[r].db = obj'[o].db /\ obj'[r].parent = NoObj
    BY <1>1, <1>2
  <2> QED
    BY <1>1, <2>1, <2>2 DEF SqliteHas, Sqlite!IsClone
<1> QED
  BY <1>1, <1>3

LEMMA SqliteResultModes ==
    ASSUME NEW r \in SqliteRecord, Settled(r), NEW rows \in 0 .. MaxLines
    PROVE  /\ LET c == Sqlite!ClearResult(r)
              IN /\ c \in SqliteRecord /\ c.parent = r.parent /\ c.db = r.db
                 /\ c.auto = r.auto /\ c.intrans = r.intrans
           /\ LET n == Sqlite!NewResult(r, rows)
              IN /\ n \in SqliteRecord /\ n.parent = r.parent /\ n.db = r.db
                 /\ n.auto = r.auto /\ n.intrans = r.intrans
<1> DEFINE c == Sqlite!ClearResult(r)
           n == Sqlite!NewResult(r, rows)
<1>1. /\ c \in SqliteRecord /\ c.parent = r.parent /\ c.db = r.db
      /\ c.auto = r.auto /\ c.intrans = r.intrans
  BY SqliteCleared DEF SqliteAlike
<1>2. n \in SqliteRecord /\ n.parent = r.parent /\ n.db = r.db
  BY SqliteResult DEF SqliteAlike
<1>3. n.auto = c.auto /\ n.intrans = c.intrans
  <2> HIDE DEF c
  <2>1. n = [c EXCEPT !.res = Sqlite!Another(r.res), !.len = rows, !.tuple = -1]
    BY DEF Sqlite!NewResult, c
  <2> HIDE DEF n
  <2> QED
    BY <1>1, <2>1 DEF SqliteRecord
<1> QED
  BY <1>1, <1>2, <1>3

(* What Ended may leave of a connection s on which the writes ids are done. *)
LEMMA SqliteEnds ==
    ASSUME NEW s \in Server, NEW o, NEW r \in Sqlite!Ended(o, s)
    PROVE  /\ r.pending \cup r.durable = s.pending \cup s.durable
           /\ s.txn = "none" => r = s
           /\ \/ r.txn = "open"
              \/ r.txn = s.txn
              \/ s.txn = "open" /\ r.durable = s.durable \cup s.pending
<1>1. r = s \/ (s.txn = "open" /\ r = Committed(s))
  BY SqliteServer DEF Sqlite!Ended
<1>2. Committed(s).pending = {} /\ Committed(s).durable = s.durable \cup s.pending
  BY ServerFacts
<1> QED
  BY <1>1, <1>2

(* The writes ids are done on connection s.                                 *)
Done(s, ids) == /\ ids \subseteq s.pending \cup s.durable
                /\ s.txn = "open" \/ ids \subseteq s.durable

LEMMA SqliteAllDone ==
    ASSUME NEW b \in Server, b.txn # "aborted", NEW old, NEW new \in SUBSET Work, NEW o,
           Done(b, old), NEW r \in Sqlite!Ended(o, Written(b, new))
    PROVE  Done(r, old \cup new)
<1> DEFINE d == Written(b, new)
<1>1. /\ d \in Server /\ d.txn = b.txn
      /\ b.txn = "none" => old \cup new \subseteq d.durable
      /\ b.txn # "none" => old \cup new \subseteq d.pending \cup d.durable
  <2>1. /\ d \in Server /\ d.txn = b.txn
        /\ b.txn = "none" => d.pending = b.pending /\ d.durable = b.durable \cup new
        /\ b.txn # "none" => d.pending = b.pending \cup new /\ d.durable = b.durable
    BY WrittenFacts
  <2> HIDE DEF d
  <2> QED
    BY <2>1 DEF Done
<1> HIDE DEF d
<1>2. b.txn \in {"none", "open"}
  BY DEF Server
<1>3. /\ r.pending \cup r.durable = d.pending \cup d.durable
      /\ d.txn = "none" => r = d
      /\ r.txn = "open" \/ r.txn = d.txn \/ (d.txn = "open" /\ r.durable = d.durable \cup d.pending)
  BY <1>1, SqliteEnds DEF d
<1>4. old \cup new \subseteq d.pending \cup d.durable
  BY <1>1
<1> QED
  BY <1>1, <1>2, <1>3, <1>4 DEF Done

LEMMA SqliteDone ==
    ASSUME NEW b \in Server, b.txn # "aborted", NEW new \in SUBSET Work, NEW o,
           NEW r \in Sqlite!Ended(o, Written(b, new))
    PROVE  Done(r, new)
<1>1. PICK old : old = {}
  OBVIOUS
<1>2. Done(b, old) /\ old \cup new = new
  BY <1>1 DEF Done
<1>3. Done(r, old \cup new)
  BY <1>2, SqliteAllDone
<1> QED
  BY <1>2, <1>3

LEMMA SqliteAtomic ==
    ASSUME SqliteInv, Sqlite!Next, Executes(reply'), reply'.ids # {}
    PROVE  SqliteWhole'
<1>1. ASSUME NEW o \in Obj, NEW t \in Texts, NEW fetch \in BOOLEAN, NEW args \in BOOLEAN,
             Sqlite!Exec(o, t, fetch, args)
      PROVE  SqliteWhole'
  <2> DEFINE c == obj[o].db
             s == srv[c]
             n == UpToError(t)
             b == Sqlite!BeginExec(o, Given(s, t))
             some == Writes(s, t, n)
             new == Writes(s, t, Len(t))
             done == Written(b, some)
  <2>1. Sqlite!Opened(o)
    BY <1>1 DEF Sqlite!Exec
  <2>2. /\ c \in Conn /\ s \in Server /\ s.txn # "aborted"
        /\ obj[o] \in SqliteRecord /\ Settled(obj[o])
    BY <2>1, SqliteConn DEF SqliteInv, SqliteGood, KeptAt
  <2>3. new \in SUBSET Work /\ new \cap s.pending = {} /\ some \in SUBSET Work
    BY WritesFacts
  <2>4. Sqlite!Autocommit(o) \in BOOLEAN
    BY SqliteRootObject DEF SqliteInv
  <2>5. \A q : srv' = [srv EXCEPT ![c] = q] => srv'[c] = q
    BY <2>2 DEF SqliteInv, SqliteGood
  <2>6. \A e : reply' = Executed(o, e, new) =>
                  reply'.to = o /\ reply'.is = e /\ reply'.ids = new
    BY AnswerOf
  <2>7. LET g == Given(s, t)
        IN /\ g \in Server /\ g.txn = s.txn /\ g.pending = s.pending
           /\ g.durable = s.durable \ new
    BY <2>2, <2>3, CommandsFacts
  <2>8. /\ b \in Server /\ b.txn # "aborted" /\ b.durable = s.durable \ new
        /\ Sqlite!Autocommit(o) => b.txn # "none"
    <3> DEFINE g == Given(s, t)
    <3>1. /\ g \in Server /\ g.txn # "aborted" /\ g.durable = s.durable \ new
      BY <2>2, <2>7
    <3>2. b = IF Sqlite!Autocommit(o) /\ g.txn = "none" THEN Begun(g) ELSE g
      BY SqliteServer DEF Sqlite!BeginExec
    <3> HIDE DEF g, b
    <3>3. Begun(g) \in Server /\ Begun(g).txn = "open" /\ Begun(g).durable = g.durable
      BY <3>1, ServerFacts
    <3> QED
      BY <3>1, <3>2, <3>3
  <2>9. ASSUME obj' = obj \/ \E rows \in 0 .. MaxLines :
                    \/ obj' = [obj EXCEPT ![o] = Sqlite!NewResult(@, rows)]
                    \/ obj' = [obj EXCEPT ![o] = Sqlite!ClearResult(@)]
        PROVE  obj'[o].db = c /\ (~Sqlite!Autocommit(o) => SqliteHas(obj[o].db)')
    <3>1. \E x \in SqliteRecord :
             /\ x.parent = obj[o].parent /\ x.db = obj[o].db /\ x.auto = obj[o].auto
             /\ x.intrans = obj[o].intrans /\ obj' = [obj EXCEPT ![o] = x]
      <4>1. obj \in [Obj -> SqliteRecord]
        BY DEF SqliteInv, SqliteGood
      <4>2. obj = [obj EXCEPT ![o] = obj[o]]
        BY <4>1
      <4>3. CASE obj' = obj
        BY <2>2, <4>2, <4>3
      <4>4. CASE \E rows \in 0 .. MaxLines :
                    \/ obj' = [obj EXCEPT ![o] = Sqlite!NewResult(@, rows)]
                    \/ obj' = [obj EXCEPT ![o] = Sqlite!ClearResult(@)]
        BY <2>2, <4>4, SqliteResultModes
      <4> QED
        BY <2>9, <4>3, <4>4
    <3> QED
      BY <2>1, <3>1, SqliteModes
  <2>10. /\ \/ /\ srv' = [srv EXCEPT ![c] = Given(s, t)] /\ obj' = obj
               /\ reply' = Executed(o, "failed", new)
            \/ /\ n = Len(t)
               /\ \E q \in Sqlite!Ended(o, done) : srv' = [srv EXCEPT ![c] = q]
               /\ \E rows \in IF fetch THEN Rows(t) ELSE {0} :
                     obj' = [obj EXCEPT ![o] = IF fetch THEN Sqlite!NewResult(@, rows)
                                               ELSE Sqlite!ClearResult(@)]
               /\ reply' = Executed(o, "ok", new)
            \/ /\ srv' = [srv EXCEPT ![c] = Sqlite!RollbackExec(o, done)]
               /\ obj' = [obj EXCEPT ![o] = Sqlite!ClearResult(@)]
               /\ reply' = Executed(o, "failed", new)
    BY <1>1, SqliteServer DEF Sqlite!Exec
  <2> HIDE DEF c, b
  <2>11. CASE /\ srv' = [srv EXCEPT ![c] = Given(s, t)] /\ obj' = obj
              /\ reply' = Executed(o, "failed", new)
    <3>1. new \cap (srv'[c].pending \cup srv'[c].durable) = {}
      <4>1. srv'[c] = Given(s, t)
        BY <2>5, <2>11
      <4> HIDE DEF s, new
      <4> QED
        BY <2>3, <2>7, <4>1
    <3> HIDE DEF new
    <3> QED
      BY <2>6, <2>9, <2>11, <3>1 DEF SqliteWhole, Whole
  <2>12. CASE /\ n = Len(t)
              /\ \E q \in Sqlite!Ended(o, done) : srv' = [srv EXCEPT ![c] = q]
              /\ \E rows \in IF fetch THEN Rows(t) ELSE {0} :
                     obj' = [obj EXCEPT ![o] = IF fetch THEN Sqlite!NewResult(@, rows)
                                               ELSE Sqlite!ClearResult(@)]
              /\ reply' = Executed(o, "ok", new)
    <3>1. srv'[c] \in Sqlite!Ended(o, Written(b, new))
      BY <2>5, <2>12
    <3>2. \A rows \in IF fetch THEN Rows(t) ELSE {0} : rows \in 0 .. MaxLines
      BY RowsFacts
    <3>3. obj'[o].db = c
      BY <2>9, <2>12, <3>2
    <3> HIDE DEF new
    <3>4. Done(srv'[c], new)
      BY <2>3, <2>8, <3>1, SqliteDone
    <3> QED
      BY <2>6, <2>12, <3>3, <3>4 DEF SqliteWhole, Whole, AllDone, Done
  <2>13. CASE /\ srv' = [srv EXCEPT ![c] = Sqlite!RollbackExec(o, done)]
              /\ obj' = [obj EXCEPT ![o] = Sqlite!ClearResult(@)]
              /\ reply' = Executed(o, "failed", new)
    <3>1. obj'[o].db = c /\ (~Sqlite!Autocommit(o) => SqliteHas(obj[o].db)')
      BY <2>9, <2>13, LinesFacts
    <3>2. ASSUME Sqlite!Autocommit(o)
          PROVE  new \cap (srv'[c].pending \cup srv'[c].durable) = {}
      <4>1. srv'[c] = RolledBack(done)
        BY <2>5, <2>13, <3>2, SqliteServer DEF Sqlite!RollbackExec
      <4> HIDE DEF some
      <4>2. done \in Server /\ done.durable = b.durable
        BY <2>3, <2>8, <3>2, WrittenFacts
      <4> HIDE DEF done
      <4>3. srv'[c].pending = {} /\ srv'[c].durable = done.durable
        BY <4>1, <4>2, ServerFacts
      <4> HIDE DEF new, s
      <4> QED
        BY <2>8, <4>2, <4>3
    <3> HIDE DEF new
    <3> QED
      BY <2>6, <2>13, <3>1, <3>2 DEF SqliteWhole, Whole
  <2> QED
    BY <2>10, <2>11, <2>12, <2>13
<1>2. ASSUME NEW o \in Obj, NEW hit \in BOOLEAN, NEW ends \in BOOLEAN,
             NEW ended \in {"ok", "failed"}, ended = "ok" => hit,
             Sqlite!Modify(o, hit, ends, ended), obj'[o].db = obj[o].db
      PROVE  SqliteWhole'
  <2> DEFINE c == obj[o].db
             s == srv[c]
             one == <<"write">>
             new == Writes(s, one, 1)
             g == Given(s, one)
             done == IF hit THEN Written(g, new) ELSE g
  <2>1. Sqlite!Opened(o)
    BY <1>2 DEF Sqlite!Modify
  <2>2. c \in Conn /\ s \in Server /\ s.txn # "aborted"
    BY <2>1, SqliteConn DEF KeptAt
  <2>3. /\ \E q \in IF ends THEN Sqlite!Ended(o, done) ELSE {done} : srv' = [srv EXCEPT ![c] = q]
        /\ reply' = [Answer(o, "modify", ended) EXCEPT !.ids = new]
    BY <1>2, SqliteServer DEF Sqlite!Modify
  <2>4. done \in Sqlite!Ended(o, done)
    BY DEF Sqlite!Ended
  <2>5. srv'[c] \in Sqlite!Ended(o, done)
    <3> HIDE DEF done, c
    <3> QED
      BY <2>2, <2>3, <2>4 DEF SqliteInv, SqliteGood, c
  <2>6. new \in SUBSET Work
    BY WritesFacts
  <2>7. g \in Server /\ g.txn = s.txn
    BY <2>2, GivenFacts
  <2> HIDE DEF g, new, s, c, one
  <2>8. ASSUME hit PROVE Done(srv'[c], new)
    <3>1. srv'[c] \in Sqlite!Ended(o, Written(g, new)) /\ g.txn # "aborted"
      BY <2>2, <2>5, <2>7, <2>8
    <3> QED
      BY <2>6, <2>7, <3>1, SqliteDone
  <2>9. /\ reply'.to = o /\ reply'.of = "modify" /\ reply'.is = ended /\ reply'.ids = new
    BY <2>3, <2>6, SqliteModified
  <2> HIDE DEF done
  <2>10. obj'[reply'.to].db = c
    BY <1>2, <2>9 DEF c
  <2> QED
    BY <1>2, <2>8, <2>9, <2>10 DEF SqliteWhole, Whole, AllDone, Done
<1>6. ASSUME NEW o \in Obj, NEW hit \in BOOLEAN, NEW works \in BOOLEAN,
             Sqlite!SetInserts(o, hit, works), obj'[o].db = obj[o].db
      PROVE  SqliteWhole'
  <2> DEFINE c == obj[o].db
             s == srv[c]
             t == IF hit THEN <<"write", "write">> ELSE <<"write">>
             ids == Writes(s, t, Len(t))
             updates == IF hit THEN Writes(s, t, 1) ELSE {}
             g == Given(s, t)
  <2>1. /\ \E u \in Sqlite!Ended(o, Written(g, updates)) :
           \E i \in IF works THEN Sqlite!Ended(o, Written(u, ids \ updates)) ELSE {u} :
              srv' = [srv EXCEPT ![c] = i]
        /\ reply' = [Answer(o, "modify", IF works THEN "ok" ELSE "failed") EXCEPT !.ids = ids]
        /\ Sqlite!Opened(o)
    BY <1>6, SqliteServer DEF Sqlite!SetInserts
  <2>2. c \in Conn /\ s \in Server /\ s.txn # "aborted"
    BY <2>1, SqliteConn DEF KeptAt
  <2>3. ids \in SUBSET Work /\ updates \in SUBSET Work /\ ids \ updates \in SUBSET Work
    BY WritesFacts
  <2>4. g \in Server /\ g.txn # "aborted"
    BY <2>2, GivenFacts
  <2>5. reply'.to = o /\ reply'.of = "modify" /\ reply'.ids = ids /\ (reply'.is = "ok" => works)
    <3> HIDE DEF ids
    <3> QED
      BY <2>1, <2>3, SqliteModified
  <2> HIDE DEF ids, updates, g, s, t, c
  <2>6. ASSUME works PROVE Done(srv'[c], ids)
    <3>1. PICK u \in Sqlite!Ended(o, Written(g, updates)) :
              \E i \in Sqlite!Ended(o, Written(u, ids \ updates)) : srv' = [srv EXCEPT ![c] = i]
      BY <2>1, <2>6
    <3>2. srv'[c] \in Sqlite!Ended(o, Written(u, ids \ updates))
      BY <2>2, <3>1 DEF SqliteInv, SqliteGood
    <3>4. Done(u, updates)
      BY <2>3, <2>4, SqliteDone
    <3>5. u \in Server /\ u.txn # "aborted"
      <4> DEFINE w == Written(g, updates)
      <4>1. w \in Server /\ w.txn # "aborted"
        BY <2>3, <2>4, WrittenFacts
      <4>2. u = w \/ u = Committed(w)
        BY SqliteServer DEF Sqlite!Ended
      <4> HIDE DEF w
      <4> QED
        BY <4>1, <4>2, ServerFacts
    <3> DEFINE rest == ids \ updates
    <3>6. rest \in SUBSET Work /\ srv'[c] \in Sqlite!Ended(o, Written(u, rest))
      BY <2>3, <3>2
    <3>7. ids \subseteq updates \cup rest
      OBVIOUS
    <3> HIDE DEF rest
    <3>8. Done(srv'[c], updates \cup rest)
      BY <2>3, <3>4, <3>5, <3>6, SqliteAllDone
    <3> QED
      BY <3>7, <3>8 DEF Done
  <2>7. obj'[reply'.to].db = c
    BY <1>6, <2>5 DEF c
  <2> QED
    BY <2>5, <2>6, <2>7 DEF SqliteWhole, Whole, AllDone, Done
<1>3. ASSUME NEW o \in Obj,
             Sqlite!Insert(o) \/ Sqlite!Set(o) \/ Sqlite!Delete(o) \/ Sqlite!Unset(o)
      PROVE  SqliteWhole'
  <2>1. /\ \/ \E hit, ends \in BOOLEAN : \E ended \in {"ok", "failed"} :
                  (ended = "ok" => hit) /\ Sqlite!Modify(o, hit, ends, ended)
           \/ \E hit, works \in BOOLEAN : Sqlite!SetInserts(o, hit, works)
        /\ \/ obj' = [obj EXCEPT ![o] = Sqlite!ClearResult(@)]
           \/ obj' = [obj EXCEPT ![o] = [Sqlite!ClearResult(@) EXCEPT !.left = TRUE]]
    BY <1>3, Zenon DEF Sqlite!Insert, Sqlite!Set, Sqlite!Delete, Sqlite!Unset, Sqlite!Cleared
  <2> DEFINE x == Sqlite!ClearResult(obj[o])
  <2>2. obj[o] \in SqliteRecord /\ Settled(obj[o]) /\ obj \in [Obj -> SqliteRecord]
    BY DEF SqliteInv, SqliteGood
  <2>3. x \in SqliteRecord /\ x.db = obj[o].db
    BY <2>2, SqliteResultModes, LinesFacts
  <2>4. obj'[o] = x \/ obj'[o] = [x EXCEPT !.left = TRUE]
    BY <2>1, <2>2
  <2> HIDE DEF x
  <2>5. obj'[o].db = obj[o].db
    BY <2>3, <2>4 DEF SqliteRecord
  <2> QED
    BY <1>2, <1>6, <2>1, <2>5
<1>4. ASSUME NEW o \in Obj,
             \/ Sqlite!New(o) \/ Sqlite!Open(o) \/ Sqlite!Createdb(o) \/ Sqlite!Get(o)
             \/ Sqlite!Close(o) \/ Sqlite!Dropdb(o) \/ Sqlite!Destroy(o)
             \/ \E may \in BOOLEAN : Sqlite!Begin(o, may) \/ Sqlite!Commit(o, may)
             \/ Sqlite!Rollback(o)
             \/ \E n \in Obj : Sqlite!Clone(o, n)
      PROVE  FALSE
  <2>1. \E m \in Others : \E p, e : reply' = Answer(p, m, e)
    BY <1>4, SqliteServer
       DEF Sqlite!New, Sqlite!Open, Sqlite!Createdb, Sqlite!Get, Sqlite!Close, Sqlite!Dropdb,
           Sqlite!Destroy, Sqlite!Begin, Sqlite!Commit, Sqlite!Rollback, Sqlite!Clone, Others
  <2> QED
    BY <2>1, NoExecAnswer
<1>5. ASSUME NEW o \in Obj,
             Sqlite!FetchLines(o) \/ \E q \in -2 .. MaxLines : Sqlite!Fetch(o, q)
      PROVE  FALSE
  <2>1. ~Executes(Answer(o, "lines", "refused"))
    BY NoExecAnswer DEF Others
  <2> QED
    BY <1>5, <2>1, NoExecAnswer, SqliteServer DEF Sqlite!FetchLines, Sqlite!Fetch
<1> QED
  BY <1>1, <1>3, <1>4, <1>5, SqliteServer, Zenon DEF Sqlite!Next

(* The step of ExecAtomic. *)
AtomicStep == reply'.of \in {"exec", "modify"} /\ reply'.ids # {} => Atomic(reply)'

(* For all parameters: of an exec that fails outside the user's transaction *)
(* nothing is left in PostgreSQL (whose transaction is implicit), ODBC and  *)
(* SQLite 2 (which roll back what they began), save on a connection of ODBC *)
(* where AutocommitLost; in MySQL, which sends the commands one by one,     *)
(* none of them is done after one that is not.  Of an exec, or of a         *)
(* modification of SQLite 2, that succeeds every command that was sent is   *)
(* durable, or pending in a transaction that goes on.                       *)
THEOREM ClientExecAtomic == Spec => ExecAtomic
<1>1. ClientInv /\ [Next]_vars => [AtomicStep]_vars
  <2> SUFFICES ASSUME ClientInv, Next, Executes(reply'), reply'.ids # {} PROVE Atomic(reply)'
    BY DEF AtomicStep, Executes
  <2>0. kind' = kind
    BY DEF Next
  <2>1. CASE kind = "mysql" /\ Mysql!Next
    <3>1. MysqlWhole(reply', srv'[obj'[reply'.to].db])
      BY <2>1, MysqlAtomic DEF ClientInv
    <3> QED
      BY <2>0, <2>1, <3>1
         DEF MysqlWhole, WholeOrFirst, AllDone, Atomic, ConnOf, UserTransaction
  <2>2. CASE kind = "postgresql" /\ Postgresql!Next
    <3>1. PostgresqlWhole(reply', srv'[obj'[reply'.to].conn])
      BY <2>2, PostgresqlAtomic DEF ClientInv
    <3> QED
      BY <2>0, <2>2, <3>1
         DEF PostgresqlWhole, Whole, AllDone, Atomic, Undone, ConnOf, UserTransaction
  <2>3. CASE kind = "odbc" /\ Odbc!Next
    <3>1. OdbcWhole'
      BY <2>3, OdbcAtomic DEF ClientInv
    <3> QED
      BY <2>0, <2>3, <3>1
         DEF OdbcWhole, AllDone, Atomic, Undone, AutocommitLost, ConnOf
  <2>4. CASE kind = "sqlite" /\ Sqlite!Next
    <3>1. SqliteWhole'
      BY <2>4, SqliteAtomic DEF ClientInv
    <3> QED
      BY <2>0, <2>4, <3>1
         DEF SqliteWhole, SqliteHas, Whole, AllDone, Atomic, Undone, ConnOf, UserTransaction
  <2> QED
    BY <2>1, <2>2, <2>3, <2>4 DEF Next
<1>2. ExecAtomic <=> [][AtomicStep]_vars
  BY DEF ExecAtomic, AtomicStep
<1> QED
  BY <1>1, <1>2, ClientInvariant, PTL DEF Spec

-----------------------------------------------------------------------------------
(* The fetch of the manual. *)

(* What a method does to the result of object p, as DbiFetch sees it.       *)
SameResult(p) == obj'[p].res = obj[p].res /\ obj'[p].len = obj[p].len
Same(p) == SameResult(p) /\ NextLine(p)' = NextLine(p)
Gone(p) == obj'[p].res = 0
Newer(p) == /\ obj'[p].res # 0 /\ obj'[p].res # obj[p].res
            /\ obj'[p].len \in 0 .. MaxLines /\ NextLine(p)' = 0

LEMMA FetchView ==
    ASSUME kind' = kind
    PROVE  /\ \A p \in Obj : Same(p) => DbiFetch!Keep(p)
           /\ \A p \in Obj : Gone(p) => DbiFetch!Lose(p)
           /\ \A p \in Obj : Newer(p) => DbiFetch!Gain(p)
BY DEF Same, SameResult, Gone, Newer, DbiFetch!Keep, DbiFetch!Lose, DbiFetch!Gain

LEMMA OtherImplements ==
    ASSUME kind' = kind, \A p \in Obj : Same(p) \/ Gone(p), reply'.of \notin {"fetch", "lines"},
           ~(reply'.of = "exec" /\ reply'.is = "ok")
    PROVE  DbiFetch!Next
<1>1. \A p \in Obj : DbiFetch!Keep(p) \/ DbiFetch!Lose(p)
  BY FetchView
<1>2. DbiFetch!Other
  BY <1>1 DEF DbiFetch!Other
<1> QED
  BY <1>2 DEF DbiFetch!Next

LEMMA ExecImplements ==
    ASSUME kind' = kind, NEW o \in Obj, \A p \in Obj \ {o} : Same(p) \/ Gone(p),
           Gone(o) \/ Newer(o), reply'.to = o, reply'.of = "exec", reply'.is = "ok"
    PROVE  DbiFetch!Next
<1>1. \A p \in Obj \ {o} : DbiFetch!Keep(p) \/ DbiFetch!Lose(p)
  BY FetchView
<1>2. DbiFetch!Lose(o) \/ DbiFetch!Gain(o)
  BY FetchView
<1>3. DbiFetch!Exec(o)
  BY <1>1, <1>2 DEF DbiFetch!Exec
<1> QED
  BY <1>3 DEF DbiFetch!Next

(* fetch of o changes nothing but the line that o fetches next. *)
OnlyNext(o) == /\ \A p \in Obj : SameResult(p)
               /\ \A p \in Obj \ {o} : NextLine(p)' = NextLine(p)
GivesLine(o, n) ==
    /\ obj[o].res # 0 /\ n < obj[o].len
    /\ reply'.is = "line" /\ reply'.n = n /\ reply'.res = obj[o].res
    /\ NextLine(o)' = n + 1
Refuses(o, n, asked) ==
    /\ reply'.is = "refused"
    /\ \/ obj[o].res = 0
       \/ n >= obj[o].len
       \/ asked /\ kind = "odbc" /\ n < NextLine(o)
    /\ \/ NextLine(o)' = NextLine(o) \/ NextLine(o)' = obj[o].len
       \/ kind = "odbc" /\ NextLine(o) = 0 /\ NextLine(o)' = 1

LEMMA FetchImplements ==
    ASSUME kind' = kind, NEW o \in Obj, OnlyNext(o), reply'.to = o, reply'.of = "fetch",
           \/ reply'.asked = -1 /\ (GivesLine(o, NextLine(o)) \/ Refuses(o, NextLine(o), FALSE))
           \/ \E n \in 0 .. MaxLines :
                 reply'.asked = n /\ (GivesLine(o, n) \/ Refuses(o, n, TRUE))
           \/ reply'.asked = -2 /\ reply'.is = "refused" /\ NextLine(o)' = NextLine(o)
           \/ /\ obj[o].res # 0 /\ reply'.is = "failed"
              /\ NextLine(o)' \in NextLine(o) .. obj[o].len
    PROVE  DbiFetch!Next
<1> DEFINE res == [p \in Obj |-> obj[p].res]
           len == [p \in Obj |-> obj[p].len]
           next == [p \in Obj |-> NextLine(p)]
<1>1. res' = res /\ len' = len /\ \A p \in Obj \ {o} : next'[p] = next[p]
  BY DEF OnlyNext, SameResult
<1>2. /\ res[o] = obj[o].res /\ len[o] = obj[o].len
      /\ next[o] = NextLine(o) /\ next'[o] = NextLine(o)'
  OBVIOUS
<1>3. NextLine(o)' = NextLine(o) => next' = next
  BY <1>1, <1>2
<1>4. \A n : GivesLine(o, n) => DbiFetch!Line(o, n)
  BY <1>1, <1>2 DEF GivesLine, DbiFetch!Line
<1>5. \A n : \A b \in BOOLEAN : Refuses(o, n, b) => DbiFetch!Refused(o, n, b)
  BY <1>1, <1>2 DEF Refuses, DbiFetch!Refused
<1>6. /\ obj[o].res # 0 /\ reply'.is = "failed" /\ NextLine(o)' \in NextLine(o) .. obj[o].len
      => DbiFetch!Broken(o)
  BY <1>1, <1>2 DEF DbiFetch!Broken
<1>7. DbiFetch!Fetch(o)
  BY <1>1, <1>2, <1>3, <1>4, <1>5, <1>6 DEF DbiFetch!Fetch
<1> QED
  BY <1>7 DEF DbiFetch!Next

LEMMA LinesImplement ==
    ASSUME kind' = kind, NEW o \in Obj, obj' = obj, reply'.to = o, reply'.of = "lines",
           \/ reply'.is = "refused"
           \/ obj[o].res # 0 /\ reply'.is = "count" /\ (kind = "odbc" \/ reply'.n = obj[o].len)
           \/ obj[o].res = 0 /\ reply'.is = "count" /\ reply'.n = 0
    PROVE  DbiFetch!Next
<1>1. DbiFetch!Lines(o)
  BY DEF DbiFetch!Lines, NextLine
<1> QED
  BY <1>1 DEF DbiFetch!Next

(* No answer of the other methods is one of exec or fetch. *)
LEMMA NoneAnswered ==
    /\ \A o, e : \A m \in Others : Answer(o, m, e).of \notin {"exec", "fetch"}
    /\ \A o, e : \A m \in Others \ {"lines"} : Answer(o, m, e).of # "lines"
BY AnswerOf DEF Others

(* Methods that are none of exec, modify, fetch and lines. *)
Silents == Others \ {"lines"}

LEMMA SilentImplements ==
    ASSUME kind' = kind, \A p \in Obj : Same(p) \/ Gone(p),
           \E m \in Silents : \E p, e : reply' = Answer(p, m, e)
    PROVE  DbiFetch!Next
<1>1. reply'.of \notin {"exec", "fetch", "lines"}
  BY NoneAnswered DEF Silents
<1> QED
  BY <1>1, OtherImplements

(* A clone that comes or goes changes only the lists of the others. *)
Relisted(r, t) == r = t \/ \E x : t = [r EXCEPT !.clones = x]

LEMMA AttachedOthers ==
    ASSUME NEW S, NEW T, DOMAIN S = Obj, NEW r \in Obj, NEW n \in Obj, NEW s, Attached(S, T, r, n, s)
    PROVE  \A p \in Obj : Relisted(S[p], T[p]) \/ Relisted(s, T[p])
<1>1. DOMAIN T = Obj
  BY DEF Attached
<1>2. ASSUME NEW p \in Obj, p # r PROVE T[p] = S[p] \/ T[p] = s
  BY <1>2 DEF Attached
<1>3. CASE n = r
  <2>1. \E x : T[r] = [s EXCEPT !.clones = x]
    BY <1>3 DEF Attached
  <2> QED
    BY <1>2, <2>1 DEF Relisted
<1>4. CASE n # r
  <2>1. T[r] = [S[r] EXCEPT !.clones = @ \cup {n}]
    BY <1>4 DEF Attached
  <2> QED
    BY <1>2, <2>1 DEF Relisted
<1> QED
  BY <1>3, <1>4

LEMMA DetachedOthers ==
    ASSUME NEW S, NEW T, DOMAIN S = Obj, NEW r, NEW o \in Obj, NEW gone, Detached(S, T, r, o, gone)
    PROVE  \A p \in Obj : Relisted(S[p], T[p]) \/ T[p] = gone
<1> DEFINE Q == [S EXCEPT ![r].clones = @ \ {o}]
<1>1. T = [Q EXCEPT ![o] = gone]
  BY DEF Detached
<1>2. DOMAIN Q = Obj /\ \A p \in Obj : Q[p] = S[p] \/ Q[p] = [S[p] EXCEPT !.clones = @ \ {o}]
  OBVIOUS
<1>3. \A p \in Obj : Relisted(S[p], Q[p])
  BY <1>2 DEF Relisted
<1> HIDE DEF Q
<1>4. \A p \in Obj : T[p] = Q[p] \/ T[p] = gone
  BY <1>1, <1>2
<1> QED
  BY <1>3, <1>4, Zenon

(* What the record t has of the result of r: all of it or nothing. *)
Like(r, t) == t.res = 0 \/ (t.res = r.res /\ t.len = r.len /\ t.tuple = r.tuple)

LEMMA MysqlRelisted == \A r \in MysqlRecord : \A t : Relisted(r, t) => Like(r, t)
BY DEF MysqlRecord, Relisted, Like

LEMMA MysqlNone ==
    \A r \in MysqlRecord : \A t : r.res = 0 /\ Relisted(r, t) => t.res = 0
BY DEF MysqlRecord, Relisted

LEMMA MysqlSilent ==
    ASSUME MysqlInv, kind = "mysql", kind' = kind, NEW o \in Obj,
           \/ Mysql!New(o) \/ Mysql!Open(o)
           \/ Mysql!Close(o) \/ Mysql!Dropdb(o) \/ Mysql!Destroy(o)
           \/ Mysql!Transaction_Start(o) \/ Mysql!Transaction_Commit(o)
           \/ Mysql!Transaction_Rollback(o)
           \/ \E n \in Obj : Mysql!Clone(o, n)
    PROVE  DbiFetch!Next
<1>1. /\ obj \in [Obj -> MysqlRecord] /\ DOMAIN obj = Obj
      /\ Mysql!Absent \in MysqlRecord /\ Mysql!Fresh \in MysqlRecord
      /\ Mysql!Absent.res = 0 /\ Mysql!Fresh.res = 0
  BY MysqlAbsent DEF MysqlInv
<1>2. \E m \in Silents : \E p, e : reply' = Answer(p, m, e)
  BY MysqlServer
     DEF Mysql!New, Mysql!Open, Mysql!Close, Mysql!Dropdb, Mysql!Destroy,
         Mysql!Transaction_Start, Mysql!Transaction_Commit, Mysql!Transaction_Rollback,
         Mysql!Query, Mysql!Clone, Others, Silents
<1>3. \A p \in Obj : Like(obj[p], obj'[p])
  <2>1. CASE obj' = obj
    BY <2>1 DEF Like
  <2>2. CASE obj' = [obj EXCEPT ![o] = Mysql!Fresh] \/ obj' = [obj EXCEPT ![o] = Mysql!Absent]
    BY <1>1, <2>2 DEF Like
  <2>3. ASSUME NEW c, NEW d, obj' = [obj EXCEPT ![o].db = c, ![o].database = d]
        PROVE  \A p \in Obj : Like(obj[p], obj'[p])
    <3>1. \A r \in MysqlRecord : Like(r, [r EXCEPT !.db = c, !.database = d])
      BY DEF MysqlRecord, Like
    <3>2. \A p \in Obj : obj'[p] = obj[p] \/ obj'[p] = [obj[p] EXCEPT !.db = c, !.database = d]
      BY <1>1, <2>3
    <3>3. \A p \in Obj : obj[p] \in MysqlRecord /\ Like(obj[p], obj[p])
      BY <1>1 DEF Like
    <3>4. ASSUME NEW p \in Obj PROVE Like(obj[p], obj'[p])
      BY <3>1, <3>2, <3>3
    <3> QED
      BY <3>4
  <2>4. CASE obj' = Mysql!DestroyClone(o)
    <3>1. Detached(obj, obj', obj[o].parent, o, Mysql!Absent)
      BY <2>4 DEF Mysql!DestroyClone, Detached
    <3>2. \A p \in Obj : Relisted(obj[p], obj'[p]) \/ obj'[p] = Mysql!Absent
      BY <1>1, <3>1, DetachedOthers
    <3>3. \A p \in Obj : obj[p] \in MysqlRecord
      BY <1>1
    <3>4. \A p \in Obj : obj'[p] = Mysql!Absent => Like(obj[p], obj'[p])
      BY <1>1 DEF Like
    <3> QED
      BY <3>2, <3>3, <3>4, MysqlRelisted, Zenon
  <2>5. ASSUME NEW S, S = Mysql!CloseRoot(o)
        PROVE  DOMAIN S = Obj /\ \A p \in Obj : S[p] = obj[p] \/ S[p].res = 0
    <3>1. \A r \in MysqlRecord :
             [r EXCEPT !.clones = {}, !.database = FALSE, !.res = 0].res = 0
      BY DEF MysqlRecord
    <3> QED
      BY <1>1, <2>5, <3>1 DEF Mysql!CloseRoot
  <2>6. CASE \/ obj' = Mysql!CloseRoot(o)
             \/ obj' = [Mysql!CloseRoot(o) EXCEPT ![o] = Mysql!Absent]
    <3> DEFINE S == Mysql!CloseRoot(o)
    <3>1. DOMAIN S = Obj /\ \A p \in Obj : S[p] = obj[p] \/ S[p].res = 0
      BY <2>5
    <3>2. obj' = S \/ obj' = [S EXCEPT ![o] = Mysql!Absent]
      BY <2>6
    <3> HIDE DEF S
    <3> QED
      BY <1>1, <3>1, <3>2 DEF Like
  <2>7. ASSUME NEW n \in Obj, Mysql!Clone(o, n) PROVE \A p \in Obj : Like(obj[p], obj'[p])
    <3> DEFINE r == Mysql!Root(o)
               s == [Mysql!Fresh EXCEPT !.parent = r, !.db = obj[r].db, !.database = obj[r].database]
    <3>1. Attached(obj, obj', r, n, s)
      BY <2>7 DEF Mysql!Clone, Attached
    <3>2. r \in Obj
      BY MysqlBase DEF Mysql!Root, Mysql!IsClone
    <3>3. s \in MysqlRecord /\ s.res = 0
      BY <1>1, <3>2 DEF MysqlRecord
    <3> HIDE DEF r, s
    <3>4. \A p \in Obj : Relisted(obj[p], obj'[p]) \/ Relisted(s, obj'[p])
      BY <1>1, <3>1, <3>2, AttachedOthers
    <3>5. \A p \in Obj : Relisted(s, obj'[p]) => Like(obj[p], obj'[p])
      BY <3>3, MysqlNone DEF Like
    <3>6. \A p \in Obj : obj[p] \in MysqlRecord
      BY <1>1
    <3> QED
      BY <3>4, <3>5, <3>6, MysqlRelisted, Zenon
  <2> QED
    BY <2>1, <2>2, <2>3, <2>4, <2>6, <2>7
       DEF Mysql!New, Mysql!Open, Mysql!Close, Mysql!Dropdb, Mysql!Destroy,
         Mysql!Transaction_Start, Mysql!Transaction_Commit, Mysql!Transaction_Rollback,
         Mysql!Query
<1>4. \A p \in Obj : Same(p) \/ Gone(p)
  BY <1>3 DEF Like, Same, SameResult, Gone, NextLine
<1> QED
  BY <1>2, <1>4, SilentImplements

LEMMA MysqlExecFetch ==
    ASSUME MysqlInv, kind = "mysql", kind' = kind, NEW o \in Obj, NEW t, NEW closed \in BOOLEAN,
           NEW fetch \in BOOLEAN, NEW args \in BOOLEAN, Mysql!Exec(o, t, closed, fetch, args)
    PROVE  DbiFetch!Next
<1>1. obj \in [Obj -> MysqlRecord] /\ DOMAIN obj = Obj /\ obj[o] \in MysqlRecord
  BY DEF MysqlInv
<1>2. CASE t = <<>>
  <2>1. obj' = obj /\ reply' = Executed(o, "nothing", {})
    BY <1>2, MysqlServer DEF Mysql!Exec
  <2>2. reply'.of = "exec" /\ reply'.is = "nothing"
    BY <2>1, AnswerOf
  <2>3. \A p \in Obj : Same(p)
    BY <2>1 DEF Same, SameResult, NextLine
  <2> QED
    BY <2>2, <2>3, OtherImplements
<1>3. CASE t # <<>>
  <2> DEFINE u == Mysql!SplitSQL(t, closed)
             n == IF args THEN Mysql!Sent(srv[obj[o].db], u) ELSE 0
             ids == Writes(srv[obj[o].db], t, Len(t))
             unsent == ids \ Writes(srv[obj[o].db], u, Len(u))
  <2>1. /\ \E rows \in IF fetch THEN Rows(u) ELSE {0} :
              obj' = [obj EXCEPT ![o] =
                        IF n = Len(u) /\ fetch /\ Selects(u) THEN Mysql!NewResult(obj[o], rows)
                        ELSE Mysql!Clearresult(obj[o])]
        /\ reply' = ExecutedPart(o, IF n = Len(u) THEN "ok" ELSE "failed", ids, unsent)
    BY <1>3, MysqlServer DEF Mysql!Exec
  <2> HIDE DEF n, ids, unsent, u
  <2>2. PICK rows \in 0 .. MaxLines :
           \/ n = Len(u) /\ obj' = [obj EXCEPT ![o] = Mysql!NewResult(obj[o], rows)]
           \/ obj' = [obj EXCEPT ![o] = Mysql!Clearresult(obj[o])]
    BY <2>1, RowsFacts
  <2>3. \A p \in Obj \ {o} : Same(p)
    BY <1>1, <2>2 DEF Same, SameResult, NextLine
  <2>4. Gone(o) \/ (n = Len(u) /\ Newer(o))
    <3>1. CASE obj' = [obj EXCEPT ![o] = Mysql!Clearresult(obj[o])]
      BY <1>1, <3>1, MysqlResults DEF Gone
    <3>2. CASE n = Len(u) /\ obj' = [obj EXCEPT ![o] = Mysql!NewResult(obj[o], rows)]
      <4>1. obj'[o] = Mysql!NewResult(obj[o], rows)
        BY <1>1, <3>2
      <4>2. /\ obj'[o].res \in 1 .. 2 /\ obj'[o].res # obj[o].res
            /\ obj'[o].len = rows /\ obj'[o].tuple = -1
        <5> DEFINE N == Mysql!NewResult(obj[o], rows)
        <5>1. /\ N.res \in 1 .. 2 /\ N.res # obj[o].res
              /\ N.len = rows /\ N.tuple = -1
          BY <1>1, MysqlResults
        <5> HIDE DEF N
        <5> QED
          BY <4>1, <5>1 DEF N
      <4> QED
        BY <3>2, <4>2 DEF Newer, NextLine
    <3> QED
      BY <2>2, <3>1, <3>2
  <2>5. /\ reply'.to = o /\ reply'.of = "exec"
        /\ n = Len(u) => reply'.is = "ok"
        /\ n # Len(u) => reply'.is = "failed"
    BY <2>1, AnswerOf
  <2>6. CASE n = Len(u)
    BY <2>3, <2>4, <2>5, <2>6, ExecImplements
  <2>7. CASE n # Len(u)
    <3>1. \A p \in Obj : Same(p) \/ Gone(p)
      BY <2>3, <2>4, <2>7
    <3> QED
      BY <3>1, <2>5, <2>7, OtherImplements
  <2> QED
    BY <2>6, <2>7
<1> QED
  BY <1>2, <1>3

LEMMA MysqlFetches ==
    ASSUME MysqlInv, kind = "mysql", kind' = kind, NEW o \in Obj,
           \/ \E q \in -2 .. MaxLines : Mysql!Fetch(o, q)
           \/ Mysql!FetchLines(o)
    PROVE  DbiFetch!Next
<1>1. obj \in [Obj -> MysqlRecord] /\ DOMAIN obj = Obj /\ obj[o] \in MysqlRecord
  BY DEF MysqlInv
<1>2. obj[o].len \in 0 .. MaxLines /\ obj[o].tuple \in -1 .. MaxLines /\ NextLine(o) = obj[o].tuple + 1
  BY <1>1 DEF MysqlRecord, NextLine
<1>3. ASSUME NEW q \in -2 .. MaxLines, Mysql!Fetch(o, q) PROVE DbiFetch!Next
  <2> DEFINE asked == Mysql!Asked(o, q)
             line == Mysql!Wanted(o, q)
  <2>1. /\ asked = -1 => line = NextLine(o)
        /\ asked >= 0 => line = asked
        /\ asked = -2 => line = -2
        /\ asked \in -2 .. MaxLines
        /\ asked # -2 => line >= 0
    BY <1>2, LinesFacts DEF Mysql!Asked, Mysql!Wanted
  <2>2. \/ /\ obj[o].res = 0 \/ line < 0 \/ line >= obj[o].len
           /\ reply' = NoLine(o, asked) /\ obj' = obj
        \/ /\ obj[o].res # 0 /\ line >= 0 /\ line < obj[o].len
           /\ reply' = GivenLine(o, asked, line, obj[o].res)
           /\ obj' = [obj EXCEPT ![o].tuple = line]
    BY <1>2, <1>3, <2>1, MysqlServer DEF Mysql!Fetch
  <2> HIDE DEF asked, line
  <2>3. CASE reply' = NoLine(o, asked) /\ obj' = obj /\ (obj[o].res = 0 \/ line < 0 \/ line >= obj[o].len)
    <3>1. /\ reply'.to = o /\ reply'.of = "fetch" /\ reply'.is = "refused" /\ reply'.asked = asked
          /\ NextLine(o)' = NextLine(o) /\ OnlyNext(o)
      BY <2>3, AnswerOf DEF NextLine, OnlyNext, SameResult
    <3>2. asked = -1 => Refuses(o, NextLine(o), FALSE)
      BY <1>2, <2>1, <2>3, <3>1 DEF Refuses
    <3>3. asked >= 0 => Refuses(o, asked, TRUE)
      BY <1>2, <2>1, <2>3, <3>1 DEF Refuses
    <3>4. asked = -2 \/ asked = -1 \/ (asked >= 0 /\ asked \in 0 .. MaxLines)
      BY <2>1, LinesFacts
    <3> QED
      BY <3>1, <3>2, <3>3, <3>4, FetchImplements
  <2>4. CASE /\ obj[o].res # 0 /\ line >= 0 /\ line < obj[o].len
             /\ reply' = GivenLine(o, asked, line, obj[o].res)
             /\ obj' = [obj EXCEPT ![o].tuple = line]
    <3>1. /\ reply'.to = o /\ reply'.of = "fetch" /\ reply'.is = "line" /\ reply'.asked = asked
          /\ reply'.n = line /\ reply'.res = obj[o].res
      BY <2>4, AnswerOf
    <3>2. /\ obj'[o] = [obj[o] EXCEPT !.tuple = line]
          /\ \A p \in Obj \ {o} : obj'[p] = obj[p]
      BY <1>1, <2>4
    <3>3. obj'[o].res = obj[o].res /\ obj'[o].len = obj[o].len /\ obj'[o].tuple = line
      BY <1>1, <3>2 DEF MysqlRecord
    <3>4. NextLine(o)' = line + 1 /\ OnlyNext(o)
      BY <3>2, <3>3 DEF NextLine, OnlyNext, SameResult
    <3>5. GivesLine(o, line)
      BY <2>4, <3>1, <3>4 DEF GivesLine
    <3>6. asked = -1 \/ (asked >= 0 /\ asked \in 0 .. MaxLines)
      BY <2>1, <2>4, LinesFacts
    <3> QED
      BY <2>1, <3>1, <3>4, <3>5, <3>6, FetchImplements
  <2> QED
    BY <2>2, <2>3, <2>4
<1>4. CASE Mysql!FetchLines(o)
  <2>1. /\ obj' = obj
        /\ obj[o].res = 0 => reply' = Answer(o, "lines", "refused")
        /\ obj[o].res # 0 => reply' = Count(o, obj[o].len)
    BY <1>4, MysqlServer DEF Mysql!FetchLines
  <2>2. /\ reply'.to = o /\ reply'.of = "lines"
        /\ \/ reply'.is = "refused"
           \/ obj[o].res # 0 /\ reply'.is = "count" /\ reply'.n = obj[o].len
    BY <2>1, AnswerOf
  <2> QED
    BY <2>1, <2>2, LinesImplement
<1> QED
  BY <1>3, <1>4

LEMMA MysqlImplements ==
    ASSUME MysqlInv, kind = "mysql", kind' = kind, Mysql!Next
    PROVE  DbiFetch!Next
BY MysqlSilent, MysqlExecFetch, MysqlFetches, MysqlServer, Zenon DEF Mysql!Next

(* PostgreSQL has respos where the others have tuple. *)
PostgresqlLike(r, t) == t.res = 0 \/ (t.res = r.res /\ t.len = r.len /\ t.respos = r.respos)

LEMMA PostgresqlRelisted ==
    \A r \in PostgresqlRecord : \A t : Relisted(r, t) => PostgresqlLike(r, t)
BY DEF PostgresqlRecord, Relisted, PostgresqlLike

LEMMA PostgresqlNone ==
    \A r \in PostgresqlRecord : \A t : r.res = 0 /\ Relisted(r, t) => t.res = 0
BY DEF PostgresqlRecord, Relisted

LEMMA PostgresqlSilent ==
    ASSUME PostgresqlInv, kind = "postgresql", kind' = kind, NEW o \in Obj,
           \/ Postgresql!New(o) \/ Postgresql!Open(o)
           \/ Postgresql!Close(o) \/ Postgresql!Destroy(o) \/ Postgresql!FetchClear(o)
           \/ Postgresql!Transaction_Start(o) \/ Postgresql!Transaction_Commit(o)
           \/ Postgresql!Transaction_Rollback(o)
           \/ \E n \in Obj : Postgresql!Clone(o, n)
    PROVE  DbiFetch!Next
<1>1. /\ obj \in [Obj -> PostgresqlRecord] /\ DOMAIN obj = Obj
      /\ Postgresql!Absent \in PostgresqlRecord /\ Postgresql!Fresh \in PostgresqlRecord
      /\ Postgresql!Absent.res = 0 /\ Postgresql!Fresh.res = 0
      /\ \A p \in Obj : obj[p] \in PostgresqlRecord
  BY PostgresqlAbsent DEF PostgresqlInv
<1>2. \E m \in Silents : \E p, e : reply' = Answer(p, m, e)
  <2>1. {"new", "open", "clear", "begin", "commit", "rollback", "clone", "close", "destroy"}
        \subseteq Silents
    BY DEF Others, Silents
  <2>2. \E m \in {"new", "open", "clear", "begin", "commit", "rollback", "clone", "close",
                  "destroy"} : \E p, e : reply' = Answer(p, m, e)
    BY PostgresqlServer
       DEF Postgresql!New, Postgresql!Open, Postgresql!Close, Postgresql!Destroy,
         Postgresql!FetchClear, Postgresql!Transaction_Start, Postgresql!Transaction_Commit,
         Postgresql!Transaction_Rollback, Postgresql!Command, Postgresql!Clone
  <2> QED
    BY <2>1, <2>2
<1>3. \A p \in Obj : PostgresqlLike(obj[p], obj'[p])
  <2>1. CASE obj' = obj
    BY <2>1 DEF PostgresqlLike
  <2>2. CASE \/ obj' = [obj EXCEPT ![o] = Postgresql!Fresh]
             \/ obj' = [obj EXCEPT ![o] = Postgresql!Absent]
    BY <1>1, <2>2 DEF PostgresqlLike
  <2>3. ASSUME NEW x, \A r \in PostgresqlRecord : PostgresqlLike(r, x) \/ r # obj[o],
               obj' = [obj EXCEPT ![o] = x]
        PROVE  \A p \in Obj : PostgresqlLike(obj[p], obj'[p])
    <3>1. PostgresqlLike(obj[o], x)
      BY <1>1, <2>3
    <3>2. \A p \in Obj : obj'[p] = obj[p] \/ (p = o /\ obj'[p] = x)
      BY <1>1, <2>3
    <3>3. \A p \in Obj : PostgresqlLike(obj[p], obj[p])
      BY DEF PostgresqlLike
    <3>4. ASSUME NEW p \in Obj PROVE PostgresqlLike(obj[p], obj'[p])
      BY <3>1, <3>2, <3>3
    <3> QED
      BY <3>4
  <2>4. CASE obj' = [obj EXCEPT ![o].res = 0, ![o].len = 0]
    <3>1. obj' = [obj EXCEPT ![o] = [obj[o] EXCEPT !.res = 0, !.len = 0]]
      BY <1>1, <2>4
    <3>2. \A r \in PostgresqlRecord : PostgresqlLike(r, [r EXCEPT !.res = 0, !.len = 0])
      BY DEF PostgresqlRecord, PostgresqlLike
    <3> QED
      BY <2>3, <3>1, <3>2
  <2>5. CASE \E c \in Conn : obj' = [obj EXCEPT ![o].conn = c]
    <3>1. PICK c \in Conn : obj' = [obj EXCEPT ![o].conn = c]
      BY <2>5
    <3>2. obj' = [obj EXCEPT ![o] = [obj[o] EXCEPT !.conn = c]]
      BY <1>1, <3>1
    <3>3. \A r \in PostgresqlRecord : PostgresqlLike(r, [r EXCEPT !.conn = c])
      BY DEF PostgresqlRecord, PostgresqlLike
    <3> QED
      BY <2>3, <3>2, <3>3
  <2>6. CASE obj' = [obj EXCEPT ![o] = Postgresql!Replaced(@, FALSE, 0)]
    <3> DEFINE x == Postgresql!Replaced(obj[o], FALSE, 0)
    <3>1. obj' = [obj EXCEPT ![o] = x]
      BY <1>1, <2>6
    <3>2. x.res = 0
      BY <1>1, LinesFacts, PostgresqlReplaced
    <3> HIDE DEF x
    <3> QED
      BY <2>3, <3>1, <3>2 DEF PostgresqlLike
  <2>7. CASE obj' = Postgresql!DestroyClone(o)
    <3>1. Detached(obj, obj', obj[o].parent, o, Postgresql!Absent)
      BY <2>7 DEF Postgresql!DestroyClone, Detached
    <3>2. \A p \in Obj : Relisted(obj[p], obj'[p]) \/ obj'[p] = Postgresql!Absent
      BY <1>1, <3>1, DetachedOthers
    <3>3. \A p \in Obj : obj'[p] = Postgresql!Absent => PostgresqlLike(obj[p], obj'[p])
      BY <1>1 DEF PostgresqlLike
    <3> QED
      BY <1>1, <3>2, <3>3, PostgresqlRelisted, Zenon
  <2>8. ASSUME NEW S, S = Postgresql!CloseRoot(o)
        PROVE  DOMAIN S = Obj /\ \A p \in Obj : PostgresqlLike(obj[p], S[p])
    <3>1. \A r \in PostgresqlRecord : PostgresqlLike(r, [r EXCEPT !.clones = {}, !.conn = 0])
      BY DEF PostgresqlRecord, PostgresqlLike
    <3>2. /\ DOMAIN S = Obj
          /\ \A p \in Obj : \/ S[p] = [obj[p] EXCEPT !.clones = {}, !.conn = 0]
                            \/ S[p] = Postgresql!Absent
                            \/ S[p] = obj[p]
      BY <2>8 DEF Postgresql!CloseRoot
    <3>3. \A p \in Obj : PostgresqlLike(obj[p], obj[p]) /\ PostgresqlLike(obj[p], Postgresql!Absent)
      BY <1>1 DEF PostgresqlLike
    <3>4. ASSUME NEW p \in Obj PROVE PostgresqlLike(obj[p], S[p])
      BY <1>1, <3>1, <3>2, <3>3
    <3> QED
      BY <3>2, <3>4
  <2>9. CASE \/ obj' = Postgresql!CloseRoot(o)
             \/ obj' = [Postgresql!CloseRoot(o) EXCEPT ![o] = Postgresql!Absent]
    <3> DEFINE S == Postgresql!CloseRoot(o)
    <3>1. DOMAIN S = Obj /\ \A p \in Obj : PostgresqlLike(obj[p], S[p])
      BY <2>8
    <3>2. obj' = S \/ obj' = [S EXCEPT ![o] = Postgresql!Absent]
      BY <2>9
    <3> HIDE DEF S
    <3>3. \A p \in Obj : obj'[p] = S[p] \/ obj'[p] = Postgresql!Absent
      BY <3>1, <3>2
    <3>4. \A p \in Obj : PostgresqlLike(obj[p], Postgresql!Absent)
      BY <1>1 DEF PostgresqlLike
    <3>5. ASSUME NEW p \in Obj PROVE PostgresqlLike(obj[p], obj'[p])
      BY <3>1, <3>3, <3>4
    <3> QED
      BY <3>5
  <2>10. ASSUME NEW n \in Obj, Postgresql!Clone(o, n)
         PROVE  \A p \in Obj : PostgresqlLike(obj[p], obj'[p])
    <3> DEFINE r == Postgresql!Root(o)
               s == [Postgresql!Fresh EXCEPT !.parent = r, !.conn = obj[r].conn]
    <3>1. Attached(obj, obj', r, n, s)
      BY <2>10 DEF Postgresql!Clone, Attached
    <3>2. r \in Obj
      BY PostgresqlBase DEF Postgresql!Root, Postgresql!IsClone
    <3>3. s \in PostgresqlRecord /\ s.res = 0
      BY <1>1, <3>2 DEF PostgresqlRecord
    <3> HIDE DEF r, s
    <3>4. \A p \in Obj : Relisted(obj[p], obj'[p]) \/ Relisted(s, obj'[p])
      BY <1>1, <3>1, <3>2, AttachedOthers
    <3>5. \A p \in Obj : Relisted(s, obj'[p]) => PostgresqlLike(obj[p], obj'[p])
      BY <3>3, PostgresqlNone DEF PostgresqlLike
    <3> QED
      BY <1>1, <3>4, <3>5, PostgresqlRelisted, Zenon
  <2> QED
    BY <2>1, <2>2, <2>4, <2>5, <2>6, <2>7, <2>9, <2>10, PostgresqlServer
       DEF Postgresql!New, Postgresql!Open, Postgresql!Close, Postgresql!Destroy,
         Postgresql!FetchClear, Postgresql!Transaction_Start, Postgresql!Transaction_Commit,
         Postgresql!Transaction_Rollback, Postgresql!Command
<1>4. \A p \in Obj : Same(p) \/ Gone(p)
  BY <1>3 DEF PostgresqlLike, Same, SameResult, Gone, NextLine
<1> QED
  BY <1>2, <1>4, SilentImplements

LEMMA PostgresqlExecFetch ==
    ASSUME PostgresqlInv, kind = "postgresql", kind' = kind, NEW o \in Obj, NEW t,
           NEW fetch \in BOOLEAN, NEW args \in BOOLEAN, Postgresql!Exec(o, t, fetch, args)
    PROVE  DbiFetch!Next
<1> DEFINE ok == args /\ Postgresql!PQexecWorks(srv[obj[o].conn], t)
           ids == Writes(srv[obj[o].conn], t, Len(t))
<1>1. obj \in [Obj -> PostgresqlRecord] /\ DOMAIN obj = Obj /\ obj[o] \in PostgresqlRecord
  BY DEF PostgresqlInv
<1>2. /\ \E rows \in IF fetch THEN Rows(t) ELSE {0} :
            obj' = [obj EXCEPT ![o] =
                      IF ok THEN Postgresql!Replaced(obj[o], fetch, rows) ELSE obj[o]]
      /\ reply' = Executed(o, IF ok THEN "ok" ELSE "failed", ids)
  BY PostgresqlServer DEF Postgresql!Exec
<1> HIDE DEF ok, ids
<1>3. /\ reply'.to = o /\ reply'.of = "exec"
      /\ ok => reply'.is = "ok"
      /\ ~ok => reply'.is = "failed"
  BY <1>2, AnswerOf
<1>4. PICK rows \in 0 .. MaxLines :
         obj' = [obj EXCEPT ![o] = IF ok THEN Postgresql!Replaced(obj[o], fetch, rows) ELSE obj[o]]
  BY <1>2, RowsFacts
<1>5. CASE ok
  <2> DEFINE N == Postgresql!Replaced(obj[o], fetch, rows)
  <2>1. /\ N.len = rows /\ N.respos = -1
        /\ N.res = IF fetch THEN Another(obj[o].res) ELSE 0
    BY <1>1, PostgresqlReplaced
  <2>2. obj'[o] = N /\ \A p \in Obj \ {o} : obj'[p] = obj[p]
    BY <1>1, <1>4, <1>5
  <2> HIDE DEF N
  <2>3. obj[o].res \in 0 .. 2
    BY <1>1 DEF PostgresqlRecord
  <2>4. N.res = 0 \/ (N.res # 0 /\ N.res # obj[o].res)
    BY <2>1, <2>3, AnotherFacts
  <2>5. NextLine(o)' = 0
    BY <2>1, <2>2 DEF NextLine
  <2>6. Gone(o) \/ Newer(o)
    BY <2>1, <2>2, <2>4, <2>5 DEF Gone, Newer
  <2>7. \A p \in Obj \ {o} : Same(p)
    BY <2>2 DEF Same, SameResult, NextLine
  <2> QED
    BY <1>3, <1>5, <2>6, <2>7, ExecImplements
<1>6. CASE ~ok
  <2>1. \A p \in Obj : obj'[p] = obj[p]
    BY <1>1, <1>4, <1>6
  <2>2. \A p \in Obj : Same(p)
    BY <2>1 DEF Same, SameResult, NextLine
  <2> QED
    BY <1>3, <1>6, <2>2, OtherImplements
<1> QED
  BY <1>5, <1>6

LEMMA PostgresqlMoved ==
    ASSUME NEW r \in PostgresqlRecord, NEW line \in Nat
    PROVE  /\ Postgresql!Moved(r, line).res = r.res /\ Postgresql!Moved(r, line).len = r.len
           /\ line > r.len => Postgresql!Moved(r, line).respos = r.len
           /\ ~(line > r.len) => Postgresql!Moved(r, line).respos = line
BY DEF PostgresqlRecord, Postgresql!Moved

LEMMA PostgresqlFetches ==
    ASSUME PostgresqlInv, kind = "postgresql", kind' = kind, NEW o \in Obj,
           \/ \E q \in -2 .. MaxLines : Postgresql!Fetch(o, q)
           \/ Postgresql!FetchLines(o)
    PROVE  DbiFetch!Next
<1>1. obj \in [Obj -> PostgresqlRecord] /\ DOMAIN obj = Obj /\ obj[o] \in PostgresqlRecord
  BY DEF PostgresqlInv
<1>2. /\ obj[o].len \in 0 .. MaxLines /\ obj[o].respos \in -1 .. MaxLines
      /\ obj[o].respos + 1 > obj[o].len => NextLine(o) = obj[o].len
      /\ ~(obj[o].respos + 1 > obj[o].len) => NextLine(o) = obj[o].respos + 1
  BY <1>1 DEF PostgresqlRecord, NextLine
<1>3. ASSUME NEW q \in -2 .. MaxLines, Postgresql!Fetch(o, q) PROVE DbiFetch!Next
  <2> DEFINE asked == Postgresql!Asked(o, q)
             line == Postgresql!Wanted(o, q)
             moved == Postgresql!Moved(obj[o], line)
  <2>1. /\ asked = -1 => line = obj[o].respos + 1
        /\ asked >= 0 => line = asked
        /\ asked = -2 => line = -2
        /\ asked \in -2 .. MaxLines
        /\ asked # -2 => line >= 0
        /\ line \in Int
    BY <1>2, LinesFacts DEF Postgresql!Asked, Postgresql!Wanted
  <2>2. \/ /\ obj[o].res = 0 \/ line < 0
           /\ reply' = NoLine(o, asked) /\ obj' = obj
        \/ /\ obj[o].res # 0 /\ ~(line < 0) /\ obj' = [obj EXCEPT ![o] = moved]
           /\ \/ line >= obj[o].len /\ reply' = NoLine(o, asked)
              \/ ~(line >= obj[o].len) /\ reply' = GivenLine(o, asked, line, obj[o].res)
    BY <1>3, PostgresqlServer DEF Postgresql!Fetch
  <2>3. asked = -2 \/ asked = -1 \/ (asked >= 0 /\ asked \in 0 .. MaxLines)
    BY <2>1, LinesFacts
  <2>4. ~(line < 0) => /\ moved.res = obj[o].res /\ moved.len = obj[o].len
                       /\ line > obj[o].len => moved.respos = obj[o].len
                       /\ ~(line > obj[o].len) => moved.respos = line
    <3>1. ~(line < 0) => line \in Nat
      BY <2>1
    <3> HIDE DEF line
    <3> QED
      BY <1>1, <3>1, PostgresqlMoved
  <2> HIDE DEF asked, line, moved
  <2>5. CASE reply' = NoLine(o, asked) /\ obj' = obj /\ (obj[o].res = 0 \/ line < 0)
    <3>1. /\ reply'.to = o /\ reply'.of = "fetch" /\ reply'.is = "refused" /\ reply'.asked = asked
          /\ NextLine(o)' = NextLine(o) /\ OnlyNext(o)
      BY <2>5, AnswerOf DEF NextLine, OnlyNext, SameResult
    <3>2. asked # -2 => obj[o].res = 0
      BY <2>1, <2>5
    <3>3. asked # -2 => Refuses(o, NextLine(o), FALSE) /\ Refuses(o, asked, TRUE)
      BY <3>1, <3>2 DEF Refuses
    <3> QED
      BY <2>3, <3>1, <3>3, FetchImplements
  <2>6. ASSUME obj[o].res # 0, ~(line < 0), obj' = [obj EXCEPT ![o] = moved]
        PROVE  /\ OnlyNext(o)
               /\ line >= obj[o].len => NextLine(o)' = obj[o].len
               /\ ~(line >= obj[o].len) => NextLine(o)' = line + 1
    <3>1. obj'[o] = moved /\ \A p \in Obj \ {o} : obj'[p] = obj[p]
      BY <1>1, <2>6
    <3>2. obj'[o].res = obj[o].res /\ obj'[o].len = obj[o].len
      BY <2>4, <2>6, <3>1
    <3>3. /\ obj'[o].respos + 1 > obj'[o].len => NextLine(o)' = obj'[o].len
          /\ ~(obj'[o].respos + 1 > obj'[o].len) => NextLine(o)' = obj'[o].respos + 1
      BY DEF NextLine
    <3>4. \A p \in Obj \ {o} : NextLine(p)' = NextLine(p)
      BY <3>1 DEF NextLine
    <3>5. OnlyNext(o)
      BY <3>1, <3>2, <3>4 DEF OnlyNext, SameResult
    <3>6. line >= obj[o].len => NextLine(o)' = obj[o].len
      BY <1>2, <2>1, <2>4, <2>6, <3>1, <3>2, <3>3, LinesFacts
    <3>7. ~(line >= obj[o].len) => NextLine(o)' = line + 1
      BY <1>2, <2>1, <2>4, <2>6, <3>1, <3>2, <3>3, LinesFacts
    <3> QED
      BY <3>5, <3>6, <3>7
  <2>7. asked # -2 => asked = -1 \/ line = asked
    BY <2>1, <2>3
  <2>8. ASSUME obj[o].res # 0, ~(line < 0), obj' = [obj EXCEPT ![o] = moved],
               line >= obj[o].len, reply' = NoLine(o, asked)
        PROVE  DbiFetch!Next
    <3>1. /\ reply'.to = o /\ reply'.of = "fetch" /\ reply'.is = "refused" /\ reply'.asked = asked
          /\ NextLine(o)' = obj[o].len /\ OnlyNext(o) /\ asked # -2
      BY <2>1, <2>6, <2>8, AnswerOf
    <3>2. asked = -1 => NextLine(o) >= obj[o].len
      BY <1>2, <2>1, <2>8, LinesFacts
    <3>3. asked = -1 => Refuses(o, NextLine(o), FALSE)
      BY <3>1, <3>2 DEF Refuses
    <3>4. asked >= 0 => Refuses(o, asked, TRUE)
      BY <2>1, <2>8, <3>1 DEF Refuses
    <3> QED
      BY <2>3, <3>1, <3>3, <3>4, FetchImplements
  <2>9. ASSUME obj[o].res # 0, ~(line < 0), obj' = [obj EXCEPT ![o] = moved],
               ~(line >= obj[o].len), reply' = GivenLine(o, asked, line, obj[o].res)
        PROVE  DbiFetch!Next
    <3>1. /\ reply'.to = o /\ reply'.of = "fetch" /\ reply'.is = "line" /\ reply'.asked = asked
          /\ reply'.n = line /\ reply'.res = obj[o].res
          /\ NextLine(o)' = line + 1 /\ OnlyNext(o) /\ asked # -2
      BY <2>1, <2>6, <2>9, AnswerOf
    <3>2. line < obj[o].len
      BY <1>2, <2>1, <2>9, LinesFacts
    <3>3. GivesLine(o, line)
      BY <2>9, <3>1, <3>2 DEF GivesLine
    <3>4. asked = -1 => line = NextLine(o)
      BY <1>2, <2>1, <3>2, LinesFacts
    <3>5. asked >= 0 => line = asked
      BY <2>1
    <3> QED
      BY <2>3, <3>1, <3>3, <3>4, <3>5, FetchImplements
  <2> QED
    BY <2>2, <2>5, <2>8, <2>9
<1>4. CASE Postgresql!FetchLines(o)
  <2>1. /\ obj' = obj
        /\ obj[o].res = 0 => reply' = Answer(o, "lines", "refused")
        /\ obj[o].res # 0 => reply' = Count(o, obj[o].len)
    BY <1>4, PostgresqlServer DEF Postgresql!FetchLines
  <2>2. /\ reply'.to = o /\ reply'.of = "lines"
        /\ \/ reply'.is = "refused"
           \/ obj[o].res # 0 /\ reply'.is = "count" /\ reply'.n = obj[o].len
    BY <2>1, AnswerOf
  <2> QED
    BY <2>1, <2>2, LinesImplement
<1> QED
  BY <1>3, <1>4

LEMMA PostgresqlImplements ==
    ASSUME PostgresqlInv, kind = "postgresql", kind' = kind, Postgresql!Next
    PROVE  DbiFetch!Next
BY PostgresqlSilent, PostgresqlExecFetch, PostgresqlFetches, PostgresqlServer, Zenon
   DEF Postgresql!Next

LEMMA LikeItself == \A r : Like(r, r)
BY DEF Like

LEMMA LikeChange ==
    ASSUME NEW S, DOMAIN S = Obj, \A p \in Obj : Like(obj[p], S[p]),
           NEW q, NEW x, q \in Obj => Like(obj[q], x)
    PROVE  \A p \in Obj : Like(obj[p], [S EXCEPT ![q] = x][p])
<1> DEFINE T == [S EXCEPT ![q] = x]
<1>1. \A p \in Obj : T[p] = S[p] \/ (p = q /\ T[p] = x)
  OBVIOUS
<1> HIDE DEF T
<1>2. ASSUME NEW p \in Obj PROVE Like(obj[p], T[p])
  BY <1>1
<1> QED
  BY <1>2 DEF T

LEMMA OdbcKeepResult ==
    \A r \in OdbcRecord :
        /\ \A t : Relisted(r, t) => Like(r, t) /\ (r.res = 0 => t.res = 0)
        /\ \A b : Like(r, [r EXCEPT !.trans = b])
        /\ \A b, c, d : Like(r, [r EXCEPT !.auto = b, !.trans = c, !.begun = d])
        /\ \A c : Like(r, [r EXCEPT !.hdbc = c])
<1> SUFFICES ASSUME NEW r \in OdbcRecord
             PROVE  /\ \A t : Relisted(r, t) => Like(r, t) /\ (r.res = 0 => t.res = 0)
                    /\ \A b : Like(r, [r EXCEPT !.trans = b])
                    /\ \A b, c, d : Like(r, [r EXCEPT !.auto = b, !.trans = c, !.begun = d])
                    /\ \A c : Like(r, [r EXCEPT !.hdbc = c])
  OBVIOUS
<1>1. \A t : Relisted(r, t) => Like(r, t) /\ (r.res = 0 => t.res = 0)
  BY DEF OdbcRecord, Like, Relisted
<1>2. \A b : Like(r, [r EXCEPT !.trans = b])
  BY DEF OdbcRecord, Like
<1>3. \A b, c, d : Like(r, [r EXCEPT !.auto = b, !.trans = c, !.begun = d])
  BY DEF OdbcRecord, Like
<1>4. \A c : Like(r, [r EXCEPT !.hdbc = c])
  BY DEF OdbcRecord, Like
<1> QED
  BY <1>1, <1>2, <1>3, <1>4

LEMMA OdbcSilent ==
    ASSUME OdbcInv, kind = "odbc", kind' = kind, NEW o \in Obj,
           \/ Odbc!New(o) \/ Odbc!Open(o)
           \/ Odbc!Close(o) \/ Odbc!Destroy(o) \/ Odbc!FetchClear(o)
           \/ Odbc!Begin(o) \/ Odbc!Commit(o) \/ Odbc!Rollback(o)
           \/ \E n \in Obj : Odbc!Clone(o, n)
    PROVE  DbiFetch!Next
<1>1. /\ obj \in [Obj -> OdbcRecord] /\ DOMAIN obj = Obj
      /\ Odbc!Absent \in OdbcRecord /\ Odbc!Fresh \in OdbcRecord
      /\ Odbc!Absent.res = 0 /\ Odbc!Fresh.res = 0
      /\ \A p \in Obj : obj[p] \in OdbcRecord /\ Like(obj[p], obj[p])
  BY OdbcAbsent, LikeItself DEF OdbcInv, OdbcGood
<1>2. \E m \in Silents : \E p, e : reply' = Answer(p, m, e)
  <2>1. {"new", "open", "clear", "begin", "commit", "rollback", "clone", "close", "destroy"}
        \subseteq Silents
    BY DEF Others, Silents
  <2>2. \E m \in {"new", "open", "clear", "begin", "commit", "rollback", "clone", "close",
                  "destroy"} : \E p, e : reply' = Answer(p, m, e)
    BY OdbcServer
       DEF Odbc!New, Odbc!Open, Odbc!Close, Odbc!Destroy, Odbc!FetchClear, Odbc!Begin,
         Odbc!Commit, Odbc!Rollback, Odbc!EndsTran, Odbc!Clone
  <2> QED
    BY <2>1, <2>2
<1>3. \A p \in Obj : Like(obj[p], obj'[p])
  <2> DEFINE r == Odbc!Root(o)
  <2>0. r \in Obj
    BY OdbcRootObject DEF OdbcInv
  <2>1. CASE obj' = obj
    BY <1>1, <2>1
  <2>2. ASSUME NEW q \in Obj, NEW x, Like(obj[q], x), obj' = [obj EXCEPT ![q] = x]
        PROVE  \A p \in Obj : Like(obj[p], obj'[p])
    BY <1>1, <2>2, LikeChange
  <2>3. CASE obj' = [obj EXCEPT ![o] = Odbc!Fresh] \/ obj' = [obj EXCEPT ![o] = Odbc!Absent]
    <3>1. Like(obj[o], Odbc!Fresh) /\ Like(obj[o], Odbc!Absent)
      BY <1>1 DEF Like
    <3> QED
      BY <2>2, <2>3, <3>1
  <2>4. CASE obj' = [obj EXCEPT ![o] = Odbc!Clearresult(obj[o])]
    <3>1. Like(obj[o], Odbc!Clearresult(obj[o]))
      BY <1>1, OdbcCleared DEF Like
    <3> QED
      BY <2>2, <2>4, <3>1
  <2>5. CASE \E c \in Conn : obj' = [obj EXCEPT ![o].hdbc = c]
    <3>1. PICK c \in Conn : obj' = [obj EXCEPT ![o] = [obj[o] EXCEPT !.hdbc = c]]
      BY <1>1, <2>5
    <3>2. Like(obj[o], [obj[o] EXCEPT !.hdbc = c])
      BY <1>1, OdbcKeepResult
    <3> QED
      BY <2>2, <3>1, <3>2
  <2>6. CASE \E b, c : obj' = Odbc!Mode(obj, o, b, c)
    <3>0. PICK b, c : obj' = Odbc!Mode(obj, o, b, c)
      BY <2>6
    <3> DEFINE d == ~b
    <3>1. obj' = [obj EXCEPT ![r] = [obj[r] EXCEPT !.auto = b, !.trans = c, !.begun = d]]
      BY <1>1, <2>0, <3>0 DEF Odbc!Mode
    <3> HIDE DEF d
    <3>2. Like(obj[r], [obj[r] EXCEPT !.auto = b, !.trans = c, !.begun = d])
      BY <1>1, <2>0, OdbcKeepResult
    <3> QED
      BY <2>0, <2>2, <3>1, <3>2
  <2> DEFINE W == Odbc!WithTrans(obj, o, FALSE)
  <2>7. DOMAIN W = Obj /\ W \in [Obj -> OdbcRecord] /\ \A p \in Obj : Like(obj[p], W[p])
    <3>1. W = [obj EXCEPT ![r] = [obj[r] EXCEPT !.trans = FALSE]]
      BY <1>1, <2>0 DEF Odbc!WithTrans
    <3>2. [obj[r] EXCEPT !.trans = FALSE] \in OdbcRecord
      BY <1>1, <2>0 DEF OdbcRecord
    <3>3. Like(obj[r], [obj[r] EXCEPT !.trans = FALSE])
      BY <1>1, <2>0, OdbcKeepResult
    <3>4. \A p \in Obj : Like(obj[p], W[p])
      BY <1>1, <3>1, <3>3, LikeChange
    <3> QED
      BY <1>1, <3>1, <3>2, <3>4
  <2>8. CASE obj' = W
    BY <2>7, <2>8
  <2>9. ASSUME Odbc!IsClone(o)
        PROVE  /\ DOMAIN Odbc!ClosedRecords(o) = Obj
               /\ \A p \in Obj : Like(obj[p], Odbc!ClosedRecords(o)[p])
    <3> DEFINE T == Odbc!ClosedRecords(o)
    <3>1. Detached(W, T, obj[o].parent, o, Odbc!Absent)
      BY <2>9 DEF Odbc!ClosedRecords, Detached
    <3>2. DOMAIN T = Obj
      BY <2>7, <3>1 DEF Detached
    <3> HIDE DEF W, T
    <3>3. \A p \in Obj : Relisted(W[p], T[p]) \/ T[p] = Odbc!Absent
      BY <2>7, <3>1, DetachedOthers
    <3>4. \A p \in Obj : Relisted(W[p], T[p]) => Like(W[p], T[p]) /\ (W[p].res = 0 => T[p].res = 0)
      BY <2>7, OdbcKeepResult
    <3>5. ASSUME NEW p \in Obj PROVE Like(obj[p], T[p])
      BY <1>1, <2>7, <3>3, <3>4 DEF Like
    <3> QED
      BY <3>2, <3>5 DEF T
  <2>10. ASSUME ~Odbc!IsClone(o)
         PROVE  /\ DOMAIN Odbc!ClosedRecords(o) = Obj
                /\ \A p \in Obj : Like(obj[p], Odbc!ClosedRecords(o)[p])
    <3> DEFINE T == Odbc!ClosedRecords(o)
    <3>1. /\ DOMAIN T = Obj
          /\ T[o] = [Odbc!Clearresult(W[o]) EXCEPT !.clones = {}, !.hdbc = 0, !.begun = FALSE]
          /\ \A p \in Obj \ {o} : T[p] = Odbc!Absent \/ T[p] = W[p]
      BY <2>10 DEF Odbc!ClosedRecords
    <3> HIDE DEF W, T
    <3>2. Odbc!Clearresult(W[o]) \in OdbcRecord /\ Odbc!Clearresult(W[o]).res = 0
      BY <2>7, OdbcCleared DEF OdbcAlike
    <3>3. \A c \in OdbcRecord :
             [c EXCEPT !.clones = {}, !.hdbc = 0, !.begun = FALSE].res = c.res
      BY DEF OdbcRecord
    <3>4. T[o].res = 0
      BY <3>1, <3>2, <3>3
    <3>5. ASSUME NEW p \in Obj PROVE Like(obj[p], T[p])
      BY <1>1, <2>7, <3>1, <3>4 DEF Like
    <3> QED
      BY <3>1, <3>5 DEF T
  <2>11. CASE \/ obj' = Odbc!ClosedRecords(o)
              \/ obj' = [Odbc!ClosedRecords(o) EXCEPT ![o] = Odbc!Absent]
    <3> DEFINE T == Odbc!ClosedRecords(o)
    <3>1. DOMAIN T = Obj /\ \A p \in Obj : Like(obj[p], T[p])
      BY <2>9, <2>10
    <3>2. Like(obj[o], Odbc!Absent)
      BY <1>1 DEF Like
    <3>3. obj' = T \/ obj' = [T EXCEPT ![o] = Odbc!Absent]
      BY <2>11
    <3> HIDE DEF T
    <3> QED
      BY <3>1, <3>2, <3>3, LikeChange
  <2>12. ASSUME NEW n \in Obj, Odbc!Clone(o, n) PROVE \A p \in Obj : Like(obj[p], obj'[p])
    <3> DEFINE s == [Odbc!Fresh EXCEPT !.parent = r, !.hdbc = obj[r].hdbc]
    <3>1. Attached(obj, obj', r, n, s)
      BY <2>12 DEF Odbc!Clone, Attached
    <3>2. s \in OdbcRecord /\ s.res = 0
      BY <1>1, <2>0 DEF OdbcRecord
    <3> HIDE DEF r, s
    <3>3. \A p \in Obj : Relisted(obj[p], obj'[p]) \/ Relisted(s, obj'[p])
      BY <1>1, <2>0, <3>1, AttachedOthers
    <3>4. \A p \in Obj : Relisted(s, obj'[p]) => Like(obj[p], obj'[p])
      BY <3>2, OdbcKeepResult DEF Like
    <3>5. \A p \in Obj : Relisted(obj[p], obj'[p]) => Like(obj[p], obj'[p])
      BY <1>1, OdbcKeepResult
    <3> QED
      BY <3>3, <3>4, <3>5, Zenon
  <2> HIDE DEF r
  <2>13. CASE Odbc!New(o) \/ Odbc!Open(o) \/ Odbc!FetchClear(o)
    BY <1>1, <2>1, <2>3, <2>4, <2>5, <2>13, OdbcServer DEF Odbc!New, Odbc!Open, Odbc!FetchClear
  <2>14. CASE Odbc!Begin(o) \/ Odbc!Commit(o) \/ Odbc!Rollback(o)
    BY <2>6, <2>8, <2>14, Zenon DEF Odbc!Begin, Odbc!Commit, Odbc!Rollback, Odbc!EndsTran
  <2>15. CASE Odbc!Close(o) \/ Odbc!Destroy(o)
    BY <2>3, <2>11, <2>15, Zenon DEF Odbc!Close, Odbc!Destroy
  <2> QED
    BY <2>12, <2>13, <2>14, <2>15
<1>4. \A p \in Obj : Same(p) \/ Gone(p)
  BY <1>3 DEF Like, Same, SameResult, Gone, NextLine
<1> QED
  BY <1>2, <1>4, SilentImplements

(* t has the result of r; and is at the same line. *)
SameResultOf(r, t) == t.res = r.res /\ t.len = r.len
SameLines(r, t) == SameResultOf(r, t) /\ t.tuple = r.tuple

LEMMA OdbcReplaced ==
    ASSUME OdbcInv, NEW o \in Obj, NEW x \in OdbcRecord, NEW b,
           obj' = Odbc!WithTrans([obj EXCEPT ![o] = x], o, b)
    PROVE  SameLines(x, obj'[o]) /\ \A p \in Obj \ {o} : SameLines(obj[p], obj'[p])
<1> DEFINE S == [obj EXCEPT ![o] = x]
           r == Odbc!Root(o)
<1>1. r \in Obj
  BY OdbcRootObject DEF OdbcInv
<1>2. S \in [Obj -> OdbcRecord] /\ S[o] = x /\ \A p \in Obj \ {o} : S[p] = obj[p]
  BY DEF OdbcInv, OdbcGood
<1>3. obj' = [S EXCEPT ![r].trans = b]
  BY DEF Odbc!WithTrans
<1> HIDE DEF S, r
<1>4. \A p \in Obj : obj'[p] = S[p] \/ obj'[p] = [S[p] EXCEPT !.trans = b]
  BY <1>1, <1>2, <1>3
<1>5. \A q \in OdbcRecord : SameLines(q, q) /\ SameLines(q, [q EXCEPT !.trans = b])
  BY DEF OdbcRecord, SameLines, SameResultOf
<1>6. ASSUME NEW p \in Obj PROVE SameLines(S[p], obj'[p])
  BY <1>2, <1>4, <1>5
<1> QED
  BY <1>2, <1>6

LEMMA OdbcExecFetch ==
    ASSUME OdbcInv, kind = "odbc", kind' = kind, NEW o \in Obj, NEW t,
           NEW fetch \in BOOLEAN, NEW args \in BOOLEAN, Odbc!Exec(o, t, fetch, args)
    PROVE  DbiFetch!Next
<1>1. /\ obj \in [Obj -> OdbcRecord] /\ DOMAIN obj = Obj /\ obj[o] \in OdbcRecord
  BY DEF OdbcInv, OdbcGood
<1> DEFINE ids == Writes(srv[obj[o].hdbc], t, Len(t))
<1>2. \A p \in Obj : SameLines(obj[p], obj'[p]) => Same(p)
  BY DEF SameLines, SameResultOf, Same, SameResult, NextLine
<1>3. CASE reply' = Executed(o, "nothing", {}) /\ obj' = obj
  <2>1. reply'.of = "exec" /\ reply'.is = "nothing"
    BY <1>3, AnswerOf
  <2>2. \A p \in Obj : Same(p)
    BY <1>3 DEF Same, SameResult, NextLine
  <2> QED
    BY <2>1, <2>2, OtherImplements
<1>4. ASSUME NEW b, obj' = Odbc!WithTrans([obj EXCEPT ![o] = Odbc!Clearresult(obj[o])], o, b)
      PROVE  Gone(o) /\ \A p \in Obj \ {o} : Same(p)
  <2> DEFINE x == Odbc!Clearresult(obj[o])
  <2>1. x \in OdbcRecord /\ x.res = 0
    BY <1>1, OdbcCleared DEF OdbcAlike
  <2> HIDE DEF x
  <2>2. SameLines(x, obj'[o]) /\ \A p \in Obj \ {o} : SameLines(obj[p], obj'[p])
    BY <1>4, <2>1, OdbcReplaced DEF x
  <2> QED
    BY <1>2, <2>1, <2>2 DEF SameLines, SameResultOf, Gone
<1>5. CASE Odbc!ExecStartFails(o, t) \/ \E n : Odbc!ExecFails(o, t, n)
  <2>1. /\ \E b : obj' = Odbc!WithTrans([obj EXCEPT ![o] = Odbc!Clearresult(obj[o])], o, b)
        /\ reply' = Executed(o, "failed", ids)
    BY <1>1, <1>5, OdbcServer DEF Odbc!ExecStartFails, Odbc!ExecFails, Odbc!Executing
  <2>2. \A p \in Obj : Same(p) \/ Gone(p)
    BY <1>4, <2>1
  <2>3. reply'.of = "exec" /\ reply'.is = "failed"
    BY <2>1, AnswerOf
  <2> QED
    BY <2>2, <2>3, OtherImplements
<1>6. CASE Odbc!ExecOk(o, t, fetch)
  <2>1. /\ \E rows \in IF fetch THEN Rows(t) ELSE {0} : \E counted \in {Selects(t), FALSE} : \E b :
              obj' = Odbc!WithTrans([obj EXCEPT ![o] =
                        IF fetch /\ Selects(t) THEN Odbc!Bindresult(obj[o], rows, counted)
                        ELSE Odbc!Clearresult(obj[o])], o, b)
        /\ reply' = Executed(o, "ok", ids)
    BY <1>1, <1>6, OdbcServer DEF Odbc!ExecOk, Odbc!Executing
  <2>2. Selects(t) \in BOOLEAN
    BY DEF Selects
  <2>3. PICK rows, counted, b :
           /\ rows \in 0 .. MaxLines /\ counted \in BOOLEAN
           /\ \/ obj' = Odbc!WithTrans(
                        [obj EXCEPT ![o] = Odbc!Bindresult(obj[o], rows, counted)], o, b)
              \/ obj' = Odbc!WithTrans([obj EXCEPT ![o] = Odbc!Clearresult(obj[o])], o, b)
    BY <2>1, <2>2, RowsFacts
  <2>4. (Gone(o) \/ Newer(o)) /\ \A p \in Obj \ {o} : Same(p)
    <3>1. CASE obj' = Odbc!WithTrans([obj EXCEPT ![o] = Odbc!Clearresult(obj[o])], o, b)
      BY <1>4, <3>1
    <3>2. CASE obj' = Odbc!WithTrans([obj EXCEPT ![o] = Odbc!Bindresult(obj[o], rows, counted)], o, b)
      <4> DEFINE x == Odbc!Bindresult(obj[o], rows, counted)
      <4>1. /\ x \in OdbcRecord /\ x.res \in 1 .. 2 /\ x.res # obj[o].res
            /\ x.len = rows /\ x.tuple = -1
        BY <1>1, <2>3, OdbcBound DEF OdbcAlike
      <4> HIDE DEF x
      <4>2. SameLines(x, obj'[o]) /\ \A p \in Obj \ {o} : SameLines(obj[p], obj'[p])
        BY <3>2, <4>1, OdbcReplaced DEF x
      <4> QED
        BY <1>2, <2>3, <4>1, <4>2 DEF SameLines, SameResultOf, Newer, NextLine
    <3> QED
      BY <2>3, <3>1, <3>2
  <2>5. reply'.to = o /\ reply'.of = "exec" /\ reply'.is = "ok"
    BY <2>1, AnswerOf
  <2> QED
    BY <2>4, <2>5, ExecImplements
<1> QED
  BY <1>3, <1>5, <1>6, OdbcServer DEF Odbc!Exec

LEMMA OdbcFetches ==
    ASSUME OdbcInv, kind = "odbc", kind' = kind, NEW o \in Obj, NEW q \in -2 .. MaxLines,
           Odbc!Fetch(o, q)
    PROVE  DbiFetch!Next
<1>1. /\ obj \in [Obj -> OdbcRecord] /\ DOMAIN obj = Obj /\ obj[o] \in OdbcRecord
      /\ Sound(obj[o])
  BY DEF OdbcInv, OdbcGood
<1>2. /\ obj[o].len \in 0 .. MaxLines /\ obj[o].tuple \in -1 .. MaxLines
      /\ obj[o].known \in -1 .. MaxLines /\ NextLine(o) = obj[o].tuple + 1
      /\ obj[o].known = -1 \/ obj[o].known >= obj[o].len - 1
  BY <1>1 DEF OdbcRecord, NextLine, Sound
<1> DEFINE asked == Odbc!Asked(o, q)
           line == Odbc!Wanted(o, q)
           at == Odbc!First(obj[o])
<1>3. /\ asked = -1 => line = NextLine(o)
      /\ asked >= 0 => line = asked
      /\ asked = -2 => line = -2
      /\ asked \in -2 .. MaxLines
      /\ asked # -2 => line >= 0
      /\ line \in Int
  BY <1>2, LinesFacts DEF Odbc!Asked, Odbc!Wanted
<1>4. asked = -2 \/ asked = -1 \/ (asked >= 0 /\ asked \in 0 .. MaxLines)
  BY <1>3, LinesFacts
<1>5. at \in 0 .. MaxLines /\ (obj[o].tuple = -1 => at = 0) /\ (obj[o].tuple # -1 => at = obj[o].tuple)
  BY <1>2, LinesFacts DEF Odbc!First
<1>6. \/ /\ obj[o].res = 0 \/ line < 0
         /\ reply' = NoLine(o, asked) /\ obj' = obj
      \/ /\ obj[o].res # 0 /\ ~(line < 0) /\ reply' = NoLine(o, asked)
         /\ \/ obj[o].len = 0 /\ obj' = [obj EXCEPT ![o].known = -1]
            \/ /\ (obj[o].known # -1 /\ line > obj[o].known) \/ line < at
               /\ obj' = [obj EXCEPT ![o].tuple = at]
            \/ /\ line >= obj[o].len
               /\ obj' = [obj EXCEPT ![o].tuple = obj[o].len - 1, ![o].known = obj[o].len - 1]
      \/ /\ obj[o].res # 0 /\ ~(line < 0) /\ ~(line >= obj[o].len)
         /\ obj' = [obj EXCEPT ![o].tuple = line]
         /\ reply' = GivenLine(o, asked, line, obj[o].res)
  BY OdbcServer DEF Odbc!Fetch, Odbc!FetchAt
<1> HIDE DEF asked, line, at
<1>7. \A r \in OdbcRecord : \A x, k :
         /\ SameResultOf(r, [r EXCEPT !.tuple = x]) /\ [r EXCEPT !.tuple = x].tuple = x
         /\ SameResultOf(r, [r EXCEPT !.tuple = x, !.known = k])
         /\ [r EXCEPT !.tuple = x, !.known = k].tuple = x
         /\ SameLines(r, [r EXCEPT !.known = k])
  BY DEF OdbcRecord, SameResultOf, SameLines
<1>8. ASSUME NEW r, obj' = [obj EXCEPT ![o] = r], SameResultOf(obj[o], r)
      PROVE  OnlyNext(o) /\ NextLine(o)' = r.tuple + 1
  <2>1. obj'[o] = r /\ \A p \in Obj \ {o} : obj'[p] = obj[p]
    BY <1>1, <1>8
  <2> QED
    BY <1>8, <2>1 DEF OnlyNext, SameResult, SameResultOf, NextLine
<1>9. CASE reply' = NoLine(o, asked) /\ obj' = obj /\ (obj[o].res = 0 \/ line < 0)
  <2>1. /\ reply'.to = o /\ reply'.of = "fetch" /\ reply'.is = "refused" /\ reply'.asked = asked
        /\ NextLine(o)' = NextLine(o) /\ OnlyNext(o)
    BY <1>9, AnswerOf DEF NextLine, OnlyNext, SameResult
  <2>2. asked # -2 => obj[o].res = 0
    BY <1>3, <1>9
  <2>3. asked # -2 => Refuses(o, NextLine(o), FALSE) /\ Refuses(o, asked, TRUE)
    BY <2>1, <2>2 DEF Refuses
  <2> QED
    BY <1>4, <2>1, <2>3, FetchImplements
<1>10. ASSUME ~(line < 0), reply' = NoLine(o, asked), OnlyNext(o),
              line >= obj[o].len \/ (asked # -1 /\ line < NextLine(o)),
              \/ NextLine(o)' = NextLine(o) \/ NextLine(o)' = obj[o].len
              \/ NextLine(o) = 0 /\ NextLine(o)' = 1
       PROVE  DbiFetch!Next
  <2>1. /\ reply'.to = o /\ reply'.of = "fetch" /\ reply'.is = "refused" /\ reply'.asked = asked
        /\ asked # -2
    BY <1>3, <1>10, AnswerOf
  <2>2. asked = -1 => Refuses(o, NextLine(o), FALSE)
    BY <1>3, <1>10, <2>1 DEF Refuses
  <2>3. asked >= 0 => Refuses(o, asked, TRUE)
    BY <1>3, <1>10, <2>1 DEF Refuses
  <2> QED
    BY <1>4, <1>10, <2>1, <2>2, <2>3, FetchImplements
<1>11. ASSUME obj[o].res # 0, ~(line < 0), reply' = NoLine(o, asked),
              obj[o].len = 0, obj' = [obj EXCEPT ![o].known = -1]
       PROVE  DbiFetch!Next
  <2> DEFINE r == [obj[o] EXCEPT !.known = -1]
  <2>1. obj' = [obj EXCEPT ![o] = r]
    BY <1>1, <1>11
  <2>2. SameLines(obj[o], r)
    BY <1>1, <1>7
  <2> HIDE DEF r
  <2>3. OnlyNext(o) /\ NextLine(o)' = NextLine(o)
    BY <1>2, <1>8, <2>1, <2>2 DEF SameLines, SameResultOf
  <2>4. line >= obj[o].len
    BY <1>3, <1>11
  <2> QED
    BY <1>10, <1>11, <2>3, <2>4
<1>12. ASSUME obj[o].res # 0, ~(line < 0), reply' = NoLine(o, asked),
              (obj[o].known # -1 /\ line > obj[o].known) \/ line < at,
              obj' = [obj EXCEPT ![o].tuple = at]
       PROVE  DbiFetch!Next
  <2> DEFINE r == [obj[o] EXCEPT !.tuple = at]
  <2>1. obj' = [obj EXCEPT ![o] = r]
    BY <1>1, <1>12
  <2>2. SameResultOf(obj[o], r) /\ r.tuple = at
    BY <1>1, <1>7
  <2> HIDE DEF r
  <2>3. OnlyNext(o) /\ NextLine(o)' = at + 1
    BY <1>8, <2>1, <2>2
  <2>4. NextLine(o)' = NextLine(o) \/ (NextLine(o) = 0 /\ NextLine(o)' = 1)
    BY <1>2, <1>5, <2>3
  <2>5. line >= obj[o].len \/ (asked # -1 /\ line < NextLine(o))
    BY <1>2, <1>3, <1>5, <1>12, LinesFacts
  <2> QED
    BY <1>10, <1>12, <2>3, <2>4, <2>5
<1>13. ASSUME obj[o].res # 0, ~(line < 0), reply' = NoLine(o, asked), line >= obj[o].len,
              obj' = [obj EXCEPT ![o].tuple = obj[o].len - 1, ![o].known = obj[o].len - 1]
       PROVE  DbiFetch!Next
  <2> DEFINE r == [obj[o] EXCEPT !.tuple = obj[o].len - 1, !.known = obj[o].len - 1]
  <2>1. obj' = [obj EXCEPT ![o] = r]
    BY <1>1, <1>13
  <2>2. SameResultOf(obj[o], r) /\ r.tuple = obj[o].len - 1
    BY <1>1, <1>7
  <2> HIDE DEF r
  <2>3. OnlyNext(o) /\ NextLine(o)' = obj[o].len
    <3>1. OnlyNext(o) /\ NextLine(o)' = r.tuple + 1
      BY <1>8, <2>1, <2>2
    <3>2. r.tuple + 1 = obj[o].len
      BY <1>2, <2>2, LinesFacts
    <3> QED
      BY <3>1, <3>2
  <2> QED
    BY <1>10, <1>13, <2>3
<1>14. ASSUME obj[o].res # 0, ~(line < 0), ~(line >= obj[o].len),
              obj' = [obj EXCEPT ![o].tuple = line],
              reply' = GivenLine(o, asked, line, obj[o].res)
       PROVE  DbiFetch!Next
  <2> DEFINE r == [obj[o] EXCEPT !.tuple = line]
  <2>1. obj' = [obj EXCEPT ![o] = r]
    BY <1>1, <1>14
  <2>2. SameResultOf(obj[o], r) /\ r.tuple = line
    BY <1>1, <1>7
  <2> HIDE DEF r
  <2>3. /\ reply'.to = o /\ reply'.of = "fetch" /\ reply'.is = "line" /\ reply'.asked = asked
        /\ reply'.n = line /\ reply'.res = obj[o].res
        /\ NextLine(o)' = line + 1 /\ OnlyNext(o) /\ asked # -2
    <3>1. OnlyNext(o) /\ NextLine(o)' = line + 1
      BY <1>8, <2>1, <2>2
    <3>2. asked # -2
      BY <1>3, <1>14
    <3> QED
      BY <1>14, <3>1, <3>2, AnswerOf
  <2>4. line < obj[o].len
    BY <1>2, <1>3, <1>14, LinesFacts
  <2>5. GivesLine(o, line)
    BY <1>14, <2>3, <2>4 DEF GivesLine
  <2> QED
    BY <1>3, <1>4, <2>3, <2>5, FetchImplements
<1> QED
  BY <1>6, <1>9, <1>11, <1>12, <1>13, <1>14

LEMMA OdbcOtherFetches ==
    ASSUME OdbcInv, kind = "odbc", kind' = kind, NEW o \in Obj,
           \/ \E q \in -2 .. MaxLines : Odbc!FetchError(o, q)
           \/ Odbc!FetchLines(o)
    PROVE  DbiFetch!Next
<1>1. /\ obj \in [Obj -> OdbcRecord] /\ DOMAIN obj = Obj /\ obj[o] \in OdbcRecord
  BY DEF OdbcInv, OdbcGood
<1>2. /\ obj[o].len \in 0 .. MaxLines /\ obj[o].tuple \in -1 .. MaxLines
      /\ NextLine(o) = obj[o].tuple + 1
  BY <1>1 DEF OdbcRecord, NextLine
<1>3. ASSUME NEW q \in -2 .. MaxLines, Odbc!FetchError(o, q) PROVE DbiFetch!Next
  <2>1. /\ obj[o].res # 0 /\ reply' = [Answer(o, "fetch", "failed") EXCEPT !.asked = Odbc!Asked(o, q)]
        /\ \E k \in obj[o].tuple .. obj[o].len - 1 : \E b :
              obj' = Odbc!WithTrans([obj EXCEPT ![o].tuple = k], o, b)
    BY <1>3, OdbcServer DEF Odbc!FetchError
  <2>2. PICK k, b :
           /\ k \in obj[o].tuple .. obj[o].len - 1
           /\ obj' = Odbc!WithTrans([obj EXCEPT ![o].tuple = k], o, b)
    BY <2>1
  <2> DEFINE x == [obj[o] EXCEPT !.tuple = k]
  <2>3. obj' = Odbc!WithTrans([obj EXCEPT ![o] = x], o, b)
    BY <1>1, <2>2
  <2>4. k \in -1 .. MaxLines
    BY <1>2, <2>2, LinesFacts
  <2>5. x \in OdbcRecord /\ x.res = obj[o].res /\ x.len = obj[o].len /\ x.tuple = k
    BY <1>1, <2>4 DEF OdbcRecord
  <2> HIDE DEF x
  <2>6. SameLines(x, obj'[o]) /\ \A p \in Obj \ {o} : SameLines(obj[p], obj'[p])
    BY <2>3, <2>5, OdbcReplaced
  <2>7. OnlyNext(o) /\ NextLine(o)' = k + 1
    BY <2>5, <2>6 DEF SameLines, SameResultOf, OnlyNext, SameResult, NextLine
  <2>8. NextLine(o)' \in NextLine(o) .. obj[o].len
    BY <1>2, <2>2, <2>7, LinesFacts
  <2>9. reply'.to = o /\ reply'.of = "fetch" /\ reply'.is = "failed"
    BY <2>1 DEF Answer, NoReply
  <2> QED
    BY <2>1, <2>7, <2>8, <2>9, FetchImplements
<1>4. CASE Odbc!FetchLines(o)
  <2>1. /\ obj' = obj
        /\ \/ reply' = Answer(o, "lines", "refused")
           \/ obj[o].res # 0 /\ reply' = Count(o, obj[o].known)
    BY <1>4, OdbcServer DEF Odbc!FetchLines
  <2>2. /\ reply'.to = o /\ reply'.of = "lines"
        /\ reply'.is = "refused" \/ (obj[o].res # 0 /\ reply'.is = "count")
    BY <2>1, AnswerOf
  <2> QED
    BY <2>1, <2>2, LinesImplement
<1> QED
  BY <1>3, <1>4

LEMMA OdbcImplements ==
    ASSUME OdbcInv, kind = "odbc", kind' = kind, Odbc!Next
    PROVE  DbiFetch!Next
BY OdbcSilent, OdbcExecFetch, OdbcFetches, OdbcOtherFetches, OdbcServer, Zenon DEF Odbc!Next

LEMMA SqliteKeepResult ==
    ASSUME NEW r \in SqliteRecord
    PROVE  /\ \A t : Relisted(r, t) => Like(r, t) /\ (r.res = 0 => t.res = 0)
           /\ \A b, c : Like(r, [r EXCEPT !.auto = b, !.intrans = c])
           /\ \A b, c : Like(r, [r EXCEPT !.database = b, !.auto = c])
           /\ \A d, b, c : Like(r, [r EXCEPT !.db = d, !.database = b, !.auto = c])
           /\ \A b : [r EXCEPT !.left = b].res = r.res
           /\ [r EXCEPT !.clones = {}, !.db = 0, !.database = FALSE].res = r.res
           /\ \A x : SameResultOf(r, [r EXCEPT !.tuple = x]) /\ [r EXCEPT !.tuple = x].tuple = x
<1>1. \A t : Relisted(r, t) => Like(r, t) /\ (r.res = 0 => t.res = 0)
  BY DEF SqliteRecord, Like, Relisted
<1>2. \A b, c : Like(r, [r EXCEPT !.auto = b, !.intrans = c])
  BY DEF SqliteRecord, Like
<1>3. \A b, c : Like(r, [r EXCEPT !.database = b, !.auto = c])
  BY DEF SqliteRecord, Like
<1>4. \A d, b, c : Like(r, [r EXCEPT !.db = d, !.database = b, !.auto = c])
  BY DEF SqliteRecord, Like
<1>5. \A b : [r EXCEPT !.left = b].res = r.res
  BY DEF SqliteRecord
<1>6. [r EXCEPT !.clones = {}, !.db = 0, !.database = FALSE].res = r.res
  BY DEF SqliteRecord
<1>7. \A x : SameResultOf(r, [r EXCEPT !.tuple = x]) /\ [r EXCEPT !.tuple = x].tuple = x
  BY DEF SqliteRecord, SameResultOf
<1> QED
  BY <1>1, <1>2, <1>3, <1>4, <1>5, <1>6, <1>7

LEMMA SqliteSilent ==
    ASSUME SqliteInv, kind = "sqlite", kind' = kind, NEW o \in Obj,
           \/ Sqlite!New(o) \/ Sqlite!Open(o) \/ Sqlite!Createdb(o)
           \/ Sqlite!Get(o) \/ Sqlite!Insert(o) \/ Sqlite!Set(o) \/ Sqlite!Unset(o)
           \/ Sqlite!Delete(o)
           \/ \E may \in BOOLEAN : Sqlite!Begin(o, may) \/ Sqlite!Commit(o, may)
           \/ Sqlite!Rollback(o)
           \/ \E n \in Obj : Sqlite!Clone(o, n)
           \/ Sqlite!Close(o) \/ Sqlite!Dropdb(o) \/ Sqlite!Destroy(o)
    PROVE  DbiFetch!Next
<1>1. /\ obj \in [Obj -> SqliteRecord] /\ DOMAIN obj = Obj
      /\ Sqlite!Absent \in SqliteRecord /\ Sqlite!Fresh \in SqliteRecord
      /\ Sqlite!Absent.res = 0 /\ Sqlite!Fresh.res = 0
      /\ \A p \in Obj : obj[p] \in SqliteRecord /\ Settled(obj[p]) /\ Like(obj[p], obj[p])
  BY SqliteAbsent, LikeItself DEF SqliteInv, SqliteGood
<1>2. reply'.of \notin {"exec", "fetch", "lines"}
  <2>1. CASE \/ Sqlite!Insert(o) \/ Sqlite!Set(o) \/ Sqlite!Unset(o) \/ Sqlite!Delete(o)
    <3>1. ASSUME NEW hit, NEW ends, NEW e, Sqlite!Modify(o, hit, ends, e)
          PROVE  reply'.of = "modify"
      <4>1. \E ids : reply' = [Answer(o, "modify", e) EXCEPT !.ids = ids]
        BY <3>1, SqliteServer, Zenon DEF Sqlite!Modify
      <4> QED
        BY <4>1 DEF Answer, NoReply
    <3>3. ASSUME NEW hit, NEW works, Sqlite!SetInserts(o, hit, works) PROVE reply'.of = "modify"
      <4>1. \E e, ids : reply' = [Answer(o, "modify", e) EXCEPT !.ids = ids]
        BY <3>3, SqliteServer, Zenon DEF Sqlite!SetInserts
      <4> QED
        BY <4>1 DEF Answer, NoReply
    <3>2. reply'.of = "modify"
      BY <2>1, <3>1, <3>3, Zenon DEF Sqlite!Insert, Sqlite!Set, Sqlite!Unset, Sqlite!Delete
    <3> QED
      BY <3>2
  <2>2. CASE ~(Sqlite!Insert(o) \/ Sqlite!Set(o) \/ Sqlite!Unset(o) \/ Sqlite!Delete(o))
    <3>1. {"new", "open", "create", "get", "begin", "commit", "rollback", "clone", "close",
           "drop", "destroy"} \subseteq Silents
      BY DEF Others, Silents
    <3>2. \E m \in {"new", "open", "create", "get", "begin", "commit", "rollback", "clone",
                    "close", "drop", "destroy"} : \E p, e : reply' = Answer(p, m, e)
      BY <2>2, SqliteServer
         DEF Sqlite!New, Sqlite!Open, Sqlite!Createdb, Sqlite!Get, Sqlite!Begin, Sqlite!Commit,
             Sqlite!Rollback, Sqlite!Clone, Sqlite!Close, Sqlite!Dropdb, Sqlite!Destroy
    <3> QED
      BY <3>1, <3>2, NoneAnswered DEF Silents
  <2> QED
    BY <2>1, <2>2
<1>3. \A p \in Obj : Like(obj[p], obj'[p])
  <2> DEFINE r == Sqlite!Root(o)
  <2>0. r \in Obj
    BY SqliteRootObject DEF SqliteInv
  <2>1. CASE obj' = obj
    BY <1>1, <2>1
  <2>2. ASSUME NEW q \in Obj, NEW x, Like(obj[q], x), obj' = [obj EXCEPT ![q] = x]
        PROVE  \A p \in Obj : Like(obj[p], obj'[p])
    BY <1>1, <2>2, LikeChange
  <2>3. CASE obj' = [obj EXCEPT ![o] = Sqlite!Fresh] \/ obj' = [obj EXCEPT ![o] = Sqlite!Absent]
    <3>1. Like(obj[o], Sqlite!Fresh) /\ Like(obj[o], Sqlite!Absent)
      BY <1>1 DEF Like
    <3> QED
      BY <2>2, <2>3, <3>1
  <2>4. CASE \/ obj' = [obj EXCEPT ![o] = Sqlite!ClearResult(obj[o])]
             \/ \E b : obj' = [obj EXCEPT ![o] = [Sqlite!ClearResult(obj[o]) EXCEPT !.left = b]]
    <3> DEFINE c == Sqlite!ClearResult(obj[o])
    <3>1. c \in SqliteRecord /\ c.res = 0
      BY <1>1, SqliteCleared DEF SqliteAlike
    <3> HIDE DEF c
    <3>2. Like(obj[o], c) /\ \A b : Like(obj[o], [c EXCEPT !.left = b])
      BY <3>1, SqliteKeepResult DEF Like
    <3> QED
      BY <2>2, <2>4, <3>2 DEF c
  <2>5. CASE \E d, b, c : obj' = [obj EXCEPT ![o].db = d, ![o].database = b, ![o].auto = c]
    <3>0. PICK d, b, c : obj' = [obj EXCEPT ![o].db = d, ![o].database = b, ![o].auto = c]
      BY <2>5, Zenon
    <3>1. obj' = [obj EXCEPT ![o] = [obj[o] EXCEPT !.db = d, !.database = b, !.auto = c]]
      BY <1>1, <3>0
    <3>2. Like(obj[o], [obj[o] EXCEPT !.db = d, !.database = b, !.auto = c])
      BY <1>1, SqliteKeepResult
    <3> QED
      BY <2>2, <3>1, <3>2
  <2>6. CASE \E b, c : obj' = [obj EXCEPT ![o].database = b, ![o].auto = c]
    <3>1. PICK b, c : obj' = [obj EXCEPT ![o] = [obj[o] EXCEPT !.database = b, !.auto = c]]
      BY <1>1, <2>6
    <3>2. Like(obj[o], [obj[o] EXCEPT !.database = b, !.auto = c])
      BY <1>1, SqliteKeepResult
    <3> QED
      BY <2>2, <3>1, <3>2
  <2>7. CASE \E b, c : obj' = Sqlite!WithFlags(o, b, c)
    <3>1. PICK b, c : obj' = [obj EXCEPT ![r] = [obj[r] EXCEPT !.auto = b, !.intrans = c]]
      BY <1>1, <2>0, <2>7 DEF Sqlite!WithFlags
    <3>2. Like(obj[r], [obj[r] EXCEPT !.auto = b, !.intrans = c])
      BY <1>1, <2>0, SqliteKeepResult
    <3> QED
      BY <2>0, <2>2, <3>1, <3>2
  <2> DEFINE T == Sqlite!ClosedRecords(o)
  <2>8. DOMAIN T = Obj /\ \A p \in Obj : Like(obj[p], T[p])
    <3>1. CASE Sqlite!IsClone(o)
      <4>1. Detached(obj, T, obj[o].parent, o, Sqlite!Absent)
        BY <3>1 DEF Sqlite!ClosedRecords, Detached
      <4>2. DOMAIN T = Obj
        BY <1>1, <4>1 DEF Detached
      <4> HIDE DEF T
      <4>3. \A p \in Obj : Relisted(obj[p], T[p]) \/ T[p] = Sqlite!Absent
        BY <1>1, <4>1, DetachedOthers
      <4>4. \A p \in Obj : Relisted(obj[p], T[p]) => Like(obj[p], T[p])
        BY <1>1, SqliteKeepResult
      <4>5. ASSUME NEW p \in Obj PROVE Like(obj[p], T[p])
        BY <1>1, <4>3, <4>4 DEF Like
      <4> QED
        BY <4>2, <4>5
    <3>2. CASE ~Sqlite!IsClone(o)
      <4> DEFINE c == Sqlite!ClearResult(obj[o])
      <4>1. /\ DOMAIN T = Obj
            /\ T[o] = [c EXCEPT !.clones = {}, !.db = 0, !.database = FALSE]
            /\ \A p \in Obj \ {o} : T[p] = Sqlite!Absent \/ T[p] = obj[p]
        BY <3>2 DEF Sqlite!ClosedRecords
      <4>2. c \in SqliteRecord /\ c.res = 0
        BY <1>1, SqliteCleared DEF SqliteAlike
      <4> HIDE DEF T, c
      <4>3. [c EXCEPT !.clones = {}, !.db = 0, !.database = FALSE].res = c.res
        BY <4>2, SqliteKeepResult, Zenon
      <4>4. T[o].res = 0
        BY <4>1, <4>2, <4>3, Zenon
      <4>5. ASSUME NEW p \in Obj PROVE Like(obj[p], T[p])
        BY <1>1, <4>1, <4>4 DEF Like
      <4> QED
        BY <4>1, <4>5
    <3> QED
      BY <3>1, <3>2
  <2> HIDE DEF T
  <2>9. CASE \/ obj' = T
             \/ obj' = [T EXCEPT ![o] = Sqlite!Absent]
    <3>1. Like(obj[o], Sqlite!Absent)
      BY <1>1 DEF Like
    <3> QED
      BY <2>8, <2>9, <3>1, LikeChange
  <2>10. ASSUME NEW n \in Obj, Sqlite!Clone(o, n) PROVE \A p \in Obj : Like(obj[p], obj'[p])
    <3> DEFINE s == [Sqlite!Fresh EXCEPT !.parent = r, !.db = obj[r].db,
                                         !.database = obj[r].database]
    <3>1. Attached(obj, obj', r, n, s)
      BY <2>10 DEF Sqlite!Clone, Attached
    <3>2. s \in SqliteRecord /\ s.res = 0
      BY <1>1, <2>0 DEF SqliteRecord
    <3> HIDE DEF r, s
    <3>3. \A p \in Obj : Relisted(obj[p], obj'[p]) \/ Relisted(s, obj'[p])
      BY <1>1, <2>0, <3>1, AttachedOthers
    <3>4. \A p \in Obj : Relisted(s, obj'[p]) => Like(obj[p], obj'[p])
      BY <3>2, SqliteKeepResult DEF Like
    <3>5. \A p \in Obj : Relisted(obj[p], obj'[p]) => Like(obj[p], obj'[p])
      BY <1>1, SqliteKeepResult
    <3> QED
      BY <3>3, <3>4, <3>5, Zenon
  <2> HIDE DEF r
  <2>11. CASE Sqlite!New(o) \/ Sqlite!Open(o) \/ Sqlite!Createdb(o)
    <3>1. CASE Sqlite!New(o)
      BY <2>3, <3>1 DEF Sqlite!New
    <3>2. CASE Sqlite!Createdb(o)
      BY <2>6, <3>2, Zenon DEF Sqlite!Createdb
    <3>3. CASE Sqlite!Open(o)
      <4>1. \/ \E c : obj' = [obj EXCEPT ![o].db = c, ![o].database = TRUE, ![o].auto = TRUE]
            \/ obj' = [obj EXCEPT ![o].database = FALSE, ![o].auto = TRUE]
        BY <3>3 DEF Sqlite!Open
      <4>2. CASE obj' = [obj EXCEPT ![o].database = FALSE, ![o].auto = TRUE]
        BY <2>6, <4>2, Zenon
      <4>3. ASSUME NEW c, obj' = [obj EXCEPT ![o].db = c, ![o].database = TRUE, ![o].auto = TRUE]
            PROVE  \A p \in Obj : Like(obj[p], obj'[p])
        BY <2>5, <4>3, Zenon
      <4> QED
        BY <4>1, <4>2, <4>3
    <3> QED
      BY <2>11, <3>1, <3>2, <3>3
  <2>12. CASE \/ Sqlite!Get(o) \/ Sqlite!Insert(o) \/ Sqlite!Set(o) \/ Sqlite!Unset(o)
              \/ Sqlite!Delete(o)
    BY <1>1, <2>4, <2>12
       DEF Sqlite!Get, Sqlite!Insert, Sqlite!Set, Sqlite!Unset, Sqlite!Delete, Sqlite!Cleared
  <2>13. CASE \/ \E may \in BOOLEAN : Sqlite!Begin(o, may) \/ Sqlite!Commit(o, may)
              \/ Sqlite!Rollback(o)
    BY <2>1, <2>7, <2>13 DEF Sqlite!Begin, Sqlite!Commit, Sqlite!Rollback
  <2>14. CASE Sqlite!Close(o) \/ Sqlite!Dropdb(o) \/ Sqlite!Destroy(o)
    BY <2>1, <2>3, <2>9, <2>14 DEF Sqlite!Close, Sqlite!Dropdb, Sqlite!Destroy, T
  <2> QED
    BY <2>10, <2>11, <2>12, <2>13, <2>14
<1>4. \A p \in Obj : Same(p) \/ Gone(p)
  BY <1>3 DEF Like, Same, SameResult, Gone, NextLine
<1> QED
  BY <1>2, <1>4, OtherImplements

LEMMA SqliteExecFetch ==
    ASSUME SqliteInv, kind = "sqlite", kind' = kind, NEW o \in Obj, NEW t,
           NEW fetch \in BOOLEAN, NEW args \in BOOLEAN, Sqlite!Exec(o, t, fetch, args)
    PROVE  DbiFetch!Next
<1>1. /\ obj \in [Obj -> SqliteRecord] /\ DOMAIN obj = Obj
      /\ obj[o] \in SqliteRecord /\ Settled(obj[o])
  BY DEF SqliteInv, SqliteGood
<1> DEFINE ids == Writes(srv[obj[o].db], t, Len(t))
           c == Sqlite!ClearResult(obj[o])
<1>2. c.res = 0
  BY <1>1, SqliteCleared
<1>3. \/ obj' = obj /\ reply' = Executed(o, "failed", ids)
      \/ obj' = [obj EXCEPT ![o] = c] /\ reply' = Executed(o, "failed", ids)
      \/ /\ \E rows \in IF fetch THEN Rows(t) ELSE {0} :
               obj' = [obj EXCEPT ![o] = IF fetch THEN Sqlite!NewResult(obj[o], rows) ELSE c]
         /\ reply' = Executed(o, "ok", ids)
  BY SqliteServer DEF Sqlite!Exec
<1> HIDE DEF ids, c
<1>4. ASSUME NEW x, obj' = [obj EXCEPT ![o] = x]
      PROVE  obj'[o] = x /\ \A p \in Obj \ {o} : Same(p)
  <2>1. obj'[o] = x /\ \A p \in Obj \ {o} : obj'[p] = obj[p]
    BY <1>1, <1>4
  <2> QED
    BY <2>1 DEF Same, SameResult, NextLine
<1>5. CASE /\ obj' = obj \/ obj' = [obj EXCEPT ![o] = c]
           /\ reply' = Executed(o, "failed", ids)
  <2>1. obj' = obj => \A p \in Obj : Same(p)
    BY DEF Same, SameResult, NextLine
  <2>2. obj' = [obj EXCEPT ![o] = c] => Gone(o) /\ \A p \in Obj \ {o} : Same(p)
    BY <1>2, <1>4 DEF Gone
  <2>3. \A p \in Obj : Same(p) \/ Gone(p)
    BY <1>5, <2>1, <2>2
  <2>4. reply'.of = "exec" /\ reply'.is = "failed"
    BY <1>5, AnswerOf
  <2> QED
    BY <2>3, <2>4, OtherImplements
<1>6. ASSUME NEW rows \in IF fetch THEN Rows(t) ELSE {0},
             obj' = [obj EXCEPT ![o] = IF fetch THEN Sqlite!NewResult(obj[o], rows) ELSE c],
             reply' = Executed(o, "ok", ids)
      PROVE  DbiFetch!Next
  <2>1. rows \in 0 .. MaxLines
    BY RowsFacts
  <2> DEFINE x == Sqlite!NewResult(obj[o], rows)
  <2>2. x.res \in 1 .. 2 /\ x.res # obj[o].res /\ x.len = rows /\ x.tuple = -1
    BY <1>1, <2>1, SqliteResult
  <2>3. obj' = [obj EXCEPT ![o] = x] \/ obj' = [obj EXCEPT ![o] = c]
    BY <1>6
  <2> HIDE DEF x
  <2>4. obj' = [obj EXCEPT ![o] = x] => Newer(o) /\ \A p \in Obj \ {o} : Same(p)
    <3> SUFFICES ASSUME obj' = [obj EXCEPT ![o] = x]
                 PROVE  Newer(o) /\ \A p \in Obj \ {o} : Same(p)
      OBVIOUS
    <3>1. obj'[o] = x /\ \A p \in Obj \ {o} : Same(p)
      BY <1>4
    <3>2. NextLine(o)' = 0
      BY <2>1, <2>2, <3>1, LinesFacts DEF NextLine
    <3> QED
      BY <2>1, <2>2, <3>1, <3>2 DEF Newer
  <2>5. obj' = [obj EXCEPT ![o] = c] => Gone(o) /\ \A p \in Obj \ {o} : Same(p)
    BY <1>2, <1>4 DEF Gone
  <2>6. reply'.to = o /\ reply'.of = "exec" /\ reply'.is = "ok"
    BY <1>6, AnswerOf
  <2> QED
    BY <2>3, <2>4, <2>5, <2>6, ExecImplements
<1> QED
  BY <1>3, <1>5, <1>6

LEMMA SqliteFetches ==
    ASSUME SqliteInv, kind = "sqlite", kind' = kind, NEW o \in Obj,
           \/ \E q \in -2 .. MaxLines : Sqlite!Fetch(o, q)
           \/ Sqlite!FetchLines(o)
    PROVE  DbiFetch!Next
<1>1. obj \in [Obj -> SqliteRecord] /\ DOMAIN obj = Obj /\ obj[o] \in SqliteRecord
  BY DEF SqliteInv, SqliteGood
<1>2. /\ obj[o].len \in 0 .. MaxLines /\ obj[o].tuple \in -1 .. MaxLines
      /\ obj[o].tuple + 1 > obj[o].len => NextLine(o) = obj[o].len
      /\ ~(obj[o].tuple + 1 > obj[o].len) => NextLine(o) = obj[o].tuple + 1
  BY <1>1 DEF SqliteRecord, NextLine
<1>3. ASSUME NEW q \in -2 .. MaxLines, Sqlite!Fetch(o, q) PROVE DbiFetch!Next
  <2> DEFINE asked == Sqlite!Asked(o, q)
             line == IF q = -1 THEN Sqlite!NextTuple(obj[o]) ELSE Sqlite!Asked(o, q)
  <2>1. Sqlite!NextTuple(obj[o]) = NextLine(o) /\ NextLine(o) \in 0 .. obj[o].len
    BY <1>2, LinesFacts DEF Sqlite!NextTuple
  <2>2. /\ asked = -1 <=> q = -1
        /\ asked = -1 => line = NextLine(o)
        /\ asked >= 0 => line = asked
        /\ asked = -2 => line = -2
        /\ asked \in -2 .. MaxLines
        /\ asked # -2 => line >= 0
        /\ line \in Int
    <3>1. q = -1 => asked = -1 /\ line = NextLine(o)
      BY <2>1 DEF Sqlite!Asked
    <3>2. q # -1 => line = asked /\ asked # -1 /\ asked \in -2 .. MaxLines
      BY <1>2, LinesFacts DEF Sqlite!Asked
    <3> HIDE DEF asked, line
    <3> QED
      BY <1>2, <2>1, <3>1, <3>2, LinesFacts
  <2>3. asked = -2 \/ asked = -1 \/ (asked >= 0 /\ asked \in 0 .. MaxLines)
    BY <2>2, LinesFacts
  <2>4. \/ /\ obj[o].res = 0 \/ line < 0
           /\ reply' = NoLine(o, asked) /\ obj' = obj
        \/ /\ obj[o].res # 0 /\ ~(line < 0) /\ line >= obj[o].len /\ reply' = NoLine(o, asked)
           /\ \/ q = -1 /\ obj' = [obj EXCEPT ![o].tuple = line]
              \/ q # -1 /\ obj' = [obj EXCEPT ![o].tuple = obj[o].tuple]
        \/ /\ obj[o].res # 0 /\ ~(line < 0) /\ ~(line >= obj[o].len)
           /\ obj' = [obj EXCEPT ![o].tuple = line]
           /\ reply' = GivenLine(o, asked, line, obj[o].res)
    BY <1>1, <1>3, SqliteServer DEF Sqlite!Fetch
  <2> HIDE DEF asked, line
  <2>5. CASE reply' = NoLine(o, asked) /\ obj' = obj /\ (obj[o].res = 0 \/ line < 0)
    <3>1. /\ reply'.to = o /\ reply'.of = "fetch" /\ reply'.is = "refused" /\ reply'.asked = asked
          /\ NextLine(o)' = NextLine(o) /\ OnlyNext(o)
      BY <2>5, AnswerOf DEF NextLine, OnlyNext, SameResult
    <3>2. asked # -2 => obj[o].res = 0
      BY <2>2, <2>5
    <3>3. asked # -2 => Refuses(o, NextLine(o), FALSE) /\ Refuses(o, asked, TRUE)
      BY <3>1, <3>2 DEF Refuses
    <3> QED
      BY <2>3, <3>1, <3>3, FetchImplements
  <2>6. ASSUME NEW x, obj' = [obj EXCEPT ![o].tuple = x]
        PROVE  /\ OnlyNext(o)
               /\ x + 1 > obj[o].len => NextLine(o)' = obj[o].len
               /\ ~(x + 1 > obj[o].len) => NextLine(o)' = x + 1
    <3> DEFINE r == [obj[o] EXCEPT !.tuple = x]
    <3>1. obj'[o] = r /\ \A p \in Obj \ {o} : obj'[p] = obj[p]
      BY <1>1, <2>6
    <3>2. SameResultOf(obj[o], r) /\ r.tuple = x
      BY <1>1, SqliteKeepResult
    <3> HIDE DEF r
    <3>3. OnlyNext(o)
      BY <3>1, <3>2 DEF SameResultOf, OnlyNext, SameResult, NextLine
    <3>4. /\ x + 1 > obj[o].len => NextLine(o)' = obj[o].len
          /\ ~(x + 1 > obj[o].len) => NextLine(o)' = x + 1
      BY <3>1, <3>2 DEF SameResultOf, NextLine
    <3> QED
      BY <3>3, <3>4
  <2>7. ASSUME obj[o].res # 0, ~(line < 0), line >= obj[o].len, reply' = NoLine(o, asked),
               \/ q = -1 /\ obj' = [obj EXCEPT ![o].tuple = line]
               \/ q # -1 /\ obj' = [obj EXCEPT ![o].tuple = obj[o].tuple]
        PROVE  DbiFetch!Next
    <3>1. /\ reply'.to = o /\ reply'.of = "fetch" /\ reply'.is = "refused" /\ reply'.asked = asked
          /\ asked # -2
      BY <2>2, <2>7, AnswerOf
    <3>2. OnlyNext(o)
      BY <2>6, <2>7
    <3>3. q = -1 => NextLine(o)' = obj[o].len
      <4> SUFFICES ASSUME q = -1 PROVE NextLine(o)' = obj[o].len
        OBVIOUS
      <4>1. line + 1 > obj[o].len
        BY <1>2, <2>2, <2>7, LinesFacts
      <4> QED
        BY <2>6, <2>7, <4>1
    <3>4. q # -1 => NextLine(o)' = NextLine(o)
      BY <1>2, <2>6, <2>7
    <3>5. asked = -1 => Refuses(o, NextLine(o), FALSE)
      BY <2>2, <2>7, <3>1, <3>3 DEF Refuses
    <3>6. asked >= 0 => Refuses(o, asked, TRUE)
      BY <2>2, <2>7, <3>1, <3>3, <3>4 DEF Refuses
    <3> QED
      BY <2>3, <3>1, <3>2, <3>5, <3>6, FetchImplements
  <2>8. ASSUME obj[o].res # 0, ~(line < 0), ~(line >= obj[o].len),
               obj' = [obj EXCEPT ![o].tuple = line],
               reply' = GivenLine(o, asked, line, obj[o].res)
        PROVE  DbiFetch!Next
    <3>1. ~(line + 1 > obj[o].len) /\ line < obj[o].len
      BY <1>2, <2>2, <2>8, LinesFacts
    <3>2. OnlyNext(o) /\ NextLine(o)' = line + 1
      BY <2>6, <2>8, <3>1
    <3>3. /\ reply'.to = o /\ reply'.of = "fetch" /\ reply'.is = "line" /\ reply'.asked = asked
          /\ reply'.n = line /\ reply'.res = obj[o].res /\ asked # -2
      BY <2>2, <2>8, AnswerOf
    <3>4. GivesLine(o, line)
      BY <2>8, <3>1, <3>2, <3>3 DEF GivesLine
    <3> QED
      BY <2>2, <2>3, <3>2, <3>3, <3>4, FetchImplements
  <2> QED
    BY <2>4, <2>5, <2>7, <2>8
<1>4. CASE Sqlite!FetchLines(o)
  <2>1. /\ obj' = obj
        /\ \/ obj[o].res # 0 /\ reply' = Count(o, obj[o].len)
           \/ obj[o].res = 0 /\ reply' = Count(o, 0)
           \/ reply' = Answer(o, "lines", "refused")
    BY <1>4, SqliteServer DEF Sqlite!FetchLines
  <2>2. /\ reply'.to = o /\ reply'.of = "lines"
        /\ \/ reply'.is = "refused"
           \/ obj[o].res # 0 /\ reply'.is = "count" /\ reply'.n = obj[o].len
           \/ obj[o].res = 0 /\ reply'.is = "count" /\ reply'.n = 0
    BY <2>1, AnswerOf
  <2> QED
    BY <2>1, <2>2, LinesImplement
<1> QED
  BY <1>3, <1>4

LEMMA SqliteImplements ==
    ASSUME SqliteInv, kind = "sqlite", kind' = kind, Sqlite!Next
    PROVE  DbiFetch!Next
BY SqliteSilent, SqliteExecFetch, SqliteFetches, SqliteServer, Zenon DEF Sqlite!Next

LEMMA FetchStart == Init => DbiFetch!Init
<1>1. (kind = "odbc") \in BOOLEAN
  OBVIOUS
<1>2. ASSUME kind = "mysql", Mysql!Init PROVE DbiFetch!Init
  BY <1>2, MysqlServer DEF Mysql!Init, Mysql!Absent, DbiFetch!Init, NextLine, NoReply
<1>3. ASSUME kind = "postgresql", Postgresql!Init PROVE DbiFetch!Init
  BY <1>3, PostgresqlServer
     DEF Postgresql!Init, Postgresql!Absent, DbiFetch!Init, NextLine, NoReply
<1>4. ASSUME kind = "odbc", Odbc!Init PROVE DbiFetch!Init
  BY <1>4, OdbcServer DEF Odbc!Init, Odbc!Absent, DbiFetch!Init, NextLine, NoReply
<1>5. ASSUME kind = "sqlite", Sqlite!Init PROVE DbiFetch!Init
  BY <1>5, SqliteServer DEF Sqlite!Init, Sqlite!Absent, DbiFetch!Init, NextLine, NoReply
<1> QED
  BY <1>2, <1>3, <1>4, <1>5 DEF Init, Kinds

(* In all four backends, for all parameters: the fetch of the manual is     *)
(* implemented.  A line comes from the result of the object's last exec     *)
(* -usefetch and is the one asked for or the next; none is given twice or   *)
(* passed over, whatever is done to the object, its family and others in    *)
(* between, and fetch refuses only what the result does not have.           *)
THEOREM ClientFetch == Spec => ImplementsFetch
<1>1. ClientInv /\ [Next]_vars => [DbiFetch!Next]_(DbiFetch!vars)
  <2>1. ASSUME ClientInv, Next PROVE DbiFetch!Next
    <3>1. kind' = kind
      BY <2>1 DEF Next
    <3> QED
      BY <2>1, <3>1, MysqlImplements, PostgresqlImplements, OdbcImplements, SqliteImplements
         DEF Next, ClientInv
  <2>2. ASSUME UNCHANGED vars PROVE UNCHANGED DbiFetch!vars
    BY <2>2 DEF vars, DbiFetch!vars, NextLine
  <2> QED
    BY <2>1, <2>2
<1> QED
  BY <1>1, FetchStart, ClientInvariant, PTL DEF Spec, ImplementsFetch, DbiFetch!Spec
===================================================================================
