------------------------- MODULE Sqlite3SessionProofs --------------------------
(****************************************************************************)
(* The objects, clones and connections of Sqlite3Session keep their         *)
(* invariants for any number of names, texts and connections.               *)
(*                                                                          *)
(* The invariants are stated of a state S of the objects and a state C of   *)
(* the connections, as the parts of the methods are in Sqlite3Session:      *)
(* making a clone is the destruction of the object that had its name and    *)
(* then the clone, and each part is shown to keep them by itself.           *)
(****************************************************************************)
EXTENDS Sqlite3Session, TLAPS

Record == [alive : BOOLEAN, parent : Obj \cup {NoObj}, clones : SUBSET Obj,
           db : Conn \cup {0}, database : BOOLEAN, stmt : Pointer,
           cached : SUBSET Text, result : BOOLEAN, blob : Conn \cup {0}]
Connection == [link : {"unused", "open", "closed", "leaked"}, lost : BOOLEAN,
               calls : SUBSET Obj, stale : BOOLEAN]

Typed(S, C) == S \in [Obj -> Record] /\ C \in [Conn -> Connection]

(* The root object of the family of an object. *)
Kin(S, o) == IF IsClone(S, o) THEN S[o].parent ELSE o

(* CloneTree, and what it needs: clones are made of objects with a          *)
(* connection only, and are attached to the root.                           *)
Tree(S) ==
    \A o \in Obj :
        /\ ~S[o].alive => S[o] = Absent
        /\ S[o].database => \A k \in S[o].clones : S[k].alive /\ S[k].parent = o
        /\ S[o].db = 0 \/ IsClone(S, o) => S[o].clones = {}
        /\ IsClone(S, o) => /\ o \in S[S[o].parent].clones /\ S[S[o].parent].alive
                            /\ ~IsClone(S, S[o].parent)
                            /\ S[o].db = S[S[o].parent].db
                            /\ S[o].database = S[S[o].parent].database

(* A pointer is to an open connection exactly when there is a database      *)
(* name, a connection is used by one family only, and an open one by some.  *)
Links(S, C) ==
    /\ \A o \in Obj : S[o].db # 0 =>
          C[S[o].db].link = IF S[o].database THEN "open" ELSE "closed"
    /\ \A o, p \in Obj : S[o].db # 0 /\ S[p].db = S[o].db => Kin(S, o) = Kin(S, p)
    /\ \A c \in Conn : C[c].link = "open" => \E o \in Obj : S[o].db = c

(* A result comes with a statement and a connection. *)
Results(S) ==
    \A o \in Obj : S[o].result =>
        /\ S[o].stmt \in S[o].cached \cup {Plain}
        /\ S[o].db # 0 /\ S[o].database

Good(S, C) == Typed(S, C) /\ Tree(S) /\ Links(S, C) /\ Results(S)

(* The inductive invariant. *)
SessionInv == Good(obj, con) /\ fault \in {"none", "connection", "callback", "parent"}

------------------------------------------------------------------------------
(* The parts of the methods. *)

LEMMA RecordFacts ==
    /\ Absent \in Record /\ Fresh \in Record /\ Unused \in Connection
    /\ Absent.alive = FALSE /\ Absent.parent = NoObj /\ Absent.clones = {}
    /\ Absent.db = 0 /\ Absent.database = FALSE /\ Absent.result = FALSE
    /\ Absent.stmt = NoStmt
    /\ Fresh.alive = TRUE /\ Fresh.parent = NoObj /\ Fresh.clones = {}
    /\ Fresh.db = 0 /\ Fresh.database = FALSE /\ Fresh.result = FALSE
<1>1. Absent \in Record
  BY DEF Absent, Record, Pointer
<1>2. Fresh \in Record
  BY <1>1 DEF Fresh, Record
<1>3. Unused \in Connection
  BY DEF Unused, Connection
<1>4. /\ Absent.alive = FALSE /\ Absent.parent = NoObj /\ Absent.clones = {}
      /\ Absent.db = 0 /\ Absent.database = FALSE /\ Absent.result = FALSE
      /\ Absent.stmt = NoStmt
  BY DEF Absent
<1>5. /\ Fresh.alive = TRUE /\ Fresh.parent = NoObj /\ Fresh.clones = {}
      /\ Fresh.db = 0 /\ Fresh.database = FALSE /\ Fresh.result = FALSE
  BY DEF Fresh, Absent
<1> QED
  BY <1>1, <1>2, <1>3, <1>4, <1>5

(* Two records with the same fields are the same. *)
LEMMA RecordEqual ==
    ASSUME NEW r \in Record, NEW s \in Record,
           r.alive = s.alive, r.parent = s.parent, r.clones = s.clones, r.db = s.db,
           r.database = s.database, r.stmt = s.stmt, r.cached = s.cached,
           r.result = s.result, r.blob = s.blob
    PROVE  r = s
BY DEF Record

LEMMA ClearedFacts ==
    ASSUME NEW r \in Record
    PROVE  /\ Cleared(r) \in Record
           /\ Cleared(r).alive = r.alive /\ Cleared(r).parent = r.parent
           /\ Cleared(r).clones = r.clones /\ Cleared(r).db = r.db
           /\ Cleared(r).database = r.database /\ Cleared(r).cached = r.cached
           /\ Cleared(r).result = FALSE /\ Cleared(r).blob = r.blob
           /\ r.stmt # Plain => Cleared(r).stmt = r.stmt
<1>1. PICK b \in BOOLEAN, s \in Pointer :
         b = FALSE /\ s = IF r.stmt = Plain THEN NoStmt ELSE r.stmt
  BY DEF Record, Pointer
<1>2. Cleared(r) = [r EXCEPT !.result = b, !.stmt = s]
  BY <1>1 DEF Cleared
<1>3. Cleared(r) \in Record
  BY <1>2 DEF Record
<1>4. /\ Cleared(r).alive = r.alive /\ Cleared(r).parent = r.parent
      /\ Cleared(r).clones = r.clones /\ Cleared(r).db = r.db
      /\ Cleared(r).database = r.database /\ Cleared(r).cached = r.cached
      /\ Cleared(r).result = b /\ Cleared(r).blob = r.blob /\ Cleared(r).stmt = s
  BY <1>2 DEF Record
<1> QED
  BY <1>1, <1>3, <1>4

LEMMA ClearedAbsent == Cleared(Absent) = Absent
<1>1. Absent \in Record /\ Absent.stmt # Plain /\ Absent.result = FALSE
  BY RecordFacts, SessionAssumption
<1>2. /\ Cleared(Absent) \in Record
      /\ Cleared(Absent).alive = Absent.alive /\ Cleared(Absent).parent = Absent.parent
      /\ Cleared(Absent).clones = Absent.clones /\ Cleared(Absent).db = Absent.db
      /\ Cleared(Absent).database = Absent.database /\ Cleared(Absent).cached = Absent.cached
      /\ Cleared(Absent).result = Absent.result /\ Cleared(Absent).blob = Absent.blob
      /\ Cleared(Absent).stmt = Absent.stmt
  BY <1>1, ClearedFacts
<1> HIDE DEF Cleared
<1> QED
  BY <1>1, <1>2, RecordEqual, Zenon

(* A step that changes neither the family of an object nor the state of a   *)
(* connection.                                                              *)
SameShape(S, T) ==
    \A o \in Obj :
        /\ T[o].alive = S[o].alive /\ T[o].parent = S[o].parent
        /\ T[o].clones = S[o].clones /\ T[o].db = S[o].db
        /\ T[o].database = S[o].database
        /\ S[o] = Absent => T[o] = Absent

SameLinks(C, D) == \A c \in Conn : D[c].link = C[c].link

LEMMA ShapeKept ==
    ASSUME NEW S, NEW C, NEW T, NEW D,
           Good(S, C), Typed(T, D), SameShape(S, T), SameLinks(C, D), Results(T)
    PROVE  Good(T, D)
<1>1. \A o \in Obj : IsClone(T, o) = IsClone(S, o) /\ Kin(T, o) = Kin(S, o)
  BY DEF IsClone, Kin, SameShape
<1>2. Tree(T)
  <2>1. ASSUME NEW o \in Obj PROVE IsClone(S, o) => S[o].parent \in Obj
    BY DEF Good, Typed, Record, IsClone
  <2>2. ASSUME NEW o \in Obj PROVE S[o].clones \subseteq Obj
    BY DEF Good, Typed, Record
  <2> QED
    BY <1>1, <2>1, <2>2 DEF Good, Tree, SameShape
<1>3. Links(T, D)
  <2>1. ASSUME NEW o \in Obj PROVE S[o].db # 0 => S[o].db \in Conn
    BY DEF Good, Typed, Record
  <2> QED
    BY <1>1, <2>1 DEF Good, Links, SameShape, SameLinks
<1> QED
  BY <1>2, <1>3 DEF Good

LEMMA ClearFacts ==
    ASSUME NEW S, NEW C, NEW o \in Obj, Good(S, C)
    PROVE  /\ ClearResult(S, o) \in [Obj -> Record]
           /\ SameShape(S, ClearResult(S, o))
           /\ \A p \in Obj : /\ ClearResult(S, o)[p].cached = S[p].cached
                             /\ ClearResult(S, o)[p].result => ClearResult(S, o)[p] = S[p]
           /\ \A p \in Obj : p = o \/ p \in S[o].clones => ~ClearResult(S, o)[p].result
<1>1. \A p \in Obj : S[p] \in Record
  BY DEF Good, Typed
<1> QED
  BY <1>1, ClearedFacts, ClearedAbsent DEF ClearResult, SameShape

(* What a step leaves of an object that it does not destroy: everything but *)
(* the clones that are no longer its.                                       *)
LEMMA DestroyFacts ==
    ASSUME NEW S \in [Obj -> Record], NEW K \in SUBSET Obj
    PROVE  /\ DestroyClones(S, K) \in [Obj -> Record]
           /\ \A p \in K : DestroyClones(S, K)[p] = Absent
           /\ \A p \in Obj \ K :
                 LET r == DestroyClones(S, K)[p]
                 IN /\ r.alive = S[p].alive /\ r.parent = S[p].parent
                    /\ r.clones = S[p].clones \ {k \in K : S[k].database}
                    /\ r.db = S[p].db /\ r.database = S[p].database
                    /\ r.stmt = S[p].stmt /\ r.cached = S[p].cached
                    /\ r.result = S[p].result /\ r.blob = S[p].blob
                    /\ S[p].clones = {} => r = S[p]
<1> DEFINE T == DestroyClones(S, K)
           L == {k \in K : S[k].database}
<1>1. \A p \in K : T[p] = Absent
  BY DEF DestroyClones
<1>2. ASSUME NEW p \in Obj \ K
      PROVE  /\ T[p] \in Record
             /\ T[p].alive = S[p].alive /\ T[p].parent = S[p].parent
             /\ T[p].clones = S[p].clones \ L
             /\ T[p].db = S[p].db /\ T[p].database = S[p].database
             /\ T[p].stmt = S[p].stmt /\ T[p].cached = S[p].cached
             /\ T[p].result = S[p].result /\ T[p].blob = S[p].blob
  <2>1. PICK M \in SUBSET Obj : M = S[p].clones \ L
    BY DEF Record
  <2>2. T[p] = [S[p] EXCEPT !.clones = M]
    BY <2>1 DEF DestroyClones
  <2>3. S[p] \in Record
    OBVIOUS
  <2> HIDE DEF T
  <2>4. T[p] \in Record
    BY <2>2, <2>3 DEF Record
  <2>5. /\ T[p].alive = S[p].alive /\ T[p].parent = S[p].parent /\ T[p].clones = M
        /\ T[p].db = S[p].db /\ T[p].database = S[p].database
        /\ T[p].stmt = S[p].stmt /\ T[p].cached = S[p].cached
        /\ T[p].result = S[p].result /\ T[p].blob = S[p].blob
    BY <2>2, <2>3 DEF Record
  <2> QED
    BY <2>1, <2>4, <2>5
<1>3. T \in [Obj -> Record]
  <2>1. \A p \in Obj : T[p] \in Record
    BY <1>1, <1>2, RecordFacts
  <2> QED
    BY <2>1 DEF DestroyClones
<1>4. ASSUME NEW p \in Obj \ K, S[p].clones = {} PROVE T[p] = S[p]
  <2>1. T[p] \in Record /\ S[p] \in Record /\ T[p].clones = S[p].clones
    BY <1>2, <1>4
  <2> HIDE DEF T
  <2> QED
    BY <1>2, <2>1, RecordEqual, Zenon
<1> QED
  BY <1>1, <1>2, <1>3, <1>4

LEMMA GoneFacts ==
    ASSUME NEW S \in [Obj -> Record], NEW C \in [Conn -> Connection], NEW K \in SUBSET Obj
    PROVE  /\ ClonesGone(S, C, K) \in [Conn -> Connection]
           /\ SameLinks(C, ClonesGone(S, C, K))
<1>1. ASSUME NEW c \in Conn
      PROVE  ClonesGone(S, C, K)[c] \in Connection /\ ClonesGone(S, C, K)[c].link = C[c].link
  <2> DEFINE here == {k \in K : S[k].db = c}
  <2>1. PICK l \in BOOLEAN, t \in BOOLEAN, a \in SUBSET Obj :
           /\ l = (C[c].lost \/ \E k \in here : S[k].stmt \in Text)
           /\ t = (C[c].stale \/ \E k \in here : k \in C[c].calls)
           /\ a = C[c].calls \ here
    BY DEF Connection
  <2>2. ClonesGone(S, C, K)[c] = [C[c] EXCEPT !.lost = l, !.stale = t, !.calls = a]
    BY <2>1, Zenon DEF ClonesGone
  <2>3. C[c] \in Connection
    OBVIOUS
  <2> HIDE DEF here
  <2> QED
    BY <2>2, <2>3 DEF Connection
<1> QED
  BY <1>1 DEF ClonesGone, SameLinks

(* An object outside the family of the one destroyed keeps its place.       *)
Keeps(S, T, p) ==
    /\ T[p].alive = S[p].alive /\ T[p].parent = S[p].parent /\ T[p].db = S[p].db
    /\ T[p].database = S[p].database

(* An object that loses its result has no clones any more.                  *)
Survives(S, T) == \A p \in Obj : S[p].result => T[p].result \/ T[p].clones = {}

LEMMA GoodTypes ==
    ASSUME NEW S, NEW C, Good(S, C)
    PROVE  /\ S \in [Obj -> Record] /\ C \in [Conn -> Connection]
           /\ \A o \in Obj : /\ S[o] \in Record /\ S[o].clones \subseteq Obj
                             /\ S[o].db \in Conn \cup {0}
                             /\ IsClone(S, o) => S[o].parent \in Obj
                             /\ ~IsClone(S, o) => S[o].parent = NoObj
                             /\ Kin(S, o) \in Obj /\ o # NoObj
           /\ 0 \notin Conn
BY SessionAssumption DEF Good, Typed, Record, IsClone, Kin, Conn

(* A clone that is destroyed leaves the rest as it should be.               *)
LEMMA CloneDestroyed ==
    ASSUME NEW S, NEW C, Good(S, C), NEW n \in Obj, IsClone(S, n)
    PROVE  /\ Good(DestroyClones(S, {n}), ClonesGone(S, C, {n}))
           /\ DestroyClones(S, {n})[n] = Absent
           /\ \A p \in Obj \ {n} : Keeps(S, DestroyClones(S, {n}), p)
           /\ Survives(S, DestroyClones(S, {n}))
<1> DEFINE T == DestroyClones(S, {n})
           D == ClonesGone(S, C, {n})
           L == {k \in {n} : S[k].database}
<1>1. S \in [Obj -> Record] /\ C \in [Conn -> Connection] /\ {n} \in SUBSET Obj
  BY GoodTypes
<1>2. T \in [Obj -> Record] /\ D \in [Conn -> Connection] /\ SameLinks(C, D)
  BY <1>1, DestroyFacts, GoneFacts
<1>3. T[n] = Absent
  BY <1>1, DestroyFacts
<1>4. \A p \in Obj \ {n} :
         /\ T[p].alive = S[p].alive /\ T[p].parent = S[p].parent
         /\ T[p].clones = S[p].clones \ L /\ T[p].db = S[p].db
         /\ T[p].database = S[p].database
         /\ T[p].stmt = S[p].stmt /\ T[p].cached = S[p].cached
         /\ T[p].result = S[p].result
         /\ S[p].clones = {} => T[p] = S[p]
  BY <1>1, DestroyFacts
<1>5. L \subseteq {n} /\ (S[n].database => n \in L)
  OBVIOUS
<1> HIDE DEF T, D, L
<1>6. Tree(T)
  <2>0. Tree(S)
    BY DEF Good
  <2>1. ASSUME NEW o \in Obj, o # n
        PROVE  /\ ~T[o].alive => T[o] = Absent
               /\ T[o].db = 0 \/ IsClone(T, o) => T[o].clones = {}
    <3>1. ~S[o].alive => S[o] = Absent /\ S[o].clones = {}
      BY <2>0, RecordFacts DEF Tree
    <3>2. S[o].db = 0 \/ IsClone(S, o) => S[o].clones = {}
      BY <2>0 DEF Tree
    <3> QED
      BY <1>4, <2>1, <3>1, <3>2 DEF IsClone
  <2>2. ASSUME NEW o \in Obj, o # n, T[o].database, NEW k \in T[o].clones
        PROVE  T[k].alive /\ T[k].parent = o
    <3>1. S[o].database /\ k \in S[o].clones /\ k \notin L /\ k \in Obj
      BY <1>4, <2>2, GoodTypes
    <3>2. S[k].alive /\ S[k].parent = o
      BY <2>0, <3>1 DEF Tree
    <3>3. k # n
      <4>1. SUFFICES ASSUME k = n PROVE FALSE
        OBVIOUS
      <4>2. S[n].database
        BY <2>0, <3>1, <3>2, <4>1 DEF Tree
      <4> QED
        BY <1>5, <3>1, <4>1, <4>2
    <3> QED
      BY <1>4, <3>1, <3>2, <3>3
  <2>3. ASSUME NEW o \in Obj, o # n, IsClone(T, o)
        PROVE  /\ o \in T[T[o].parent].clones /\ T[T[o].parent].alive
               /\ ~IsClone(T, T[o].parent)
               /\ T[o].db = T[T[o].parent].db
               /\ T[o].database = T[T[o].parent].database
    <3>1. IsClone(S, o) /\ T[o].parent = S[o].parent
      BY <1>4, <2>3 DEF IsClone
    <3>2. PICK r \in Obj : r = S[o].parent
      BY <3>1, GoodTypes
    <3>3. /\ o \in S[r].clones /\ S[r].alive /\ ~IsClone(S, r)
          /\ S[o].db = S[r].db /\ S[o].database = S[r].database
      BY <2>0, <3>1, <3>2 DEF Tree
    <3>4. r # n
      BY <3>3
    <3> QED
      BY <1>4, <1>5, <2>3, <3>1, <3>2, <3>3, <3>4 DEF IsClone
  <2>4. /\ ~T[n].alive /\ T[n].clones = {} /\ ~IsClone(T, n) /\ ~T[n].database
    BY <1>3, RecordFacts DEF IsClone
  <2> QED
    BY <1>3, <2>1, <2>2, <2>3, <2>4 DEF Tree
<1>7. Links(T, D)
  <2>0. Links(S, C)
    BY DEF Good
  <2>1. T[n].db = 0
    BY <1>3, RecordFacts
  <2>2. \A p \in Obj \ {n} : T[p].db = S[p].db /\ Kin(T, p) = Kin(S, p) /\ T[p].database = S[p].database
    BY <1>4 DEF Kin, IsClone
  <2>3. \A p \in Obj : S[p].db # 0 => S[p].db \in Conn
    BY GoodTypes
  <2>4. ASSUME NEW c \in Conn, D[c].link = "open" PROVE \E o \in Obj : T[o].db = c
    <3>1. PICK o \in Obj : S[o].db = c
      BY <1>2, <2>0, <2>4 DEF Links, SameLinks
    <3>2. PICK r \in Obj : r = S[n].parent /\ r # n /\ S[r].db = S[n].db
      BY GoodTypes DEF Good, Tree, IsClone
    <3> QED
      BY <2>2, <3>1, <3>2
  <2> QED
    BY <1>2, <2>0, <2>1, <2>2, <2>3, <2>4 DEF Links, SameLinks
<1>8. Results(T)
  <2>1. ~T[n].result
    BY <1>3, RecordFacts
  <2>2. Results(S)
    BY DEF Good
  <2> QED
    BY <1>4, <2>1, <2>2 DEF Results
<1>9. Good(T, D)
  BY <1>2, <1>6, <1>7, <1>8 DEF Good, Typed
<1>10. Survives(S, T)
  BY <1>3, <1>4, RecordFacts DEF Survives
<1> QED
  BY <1>3, <1>4, <1>9, <1>10 DEF T, D, Keeps

LEMMA CloseFacts ==
    ASSUME NEW S \in [Obj -> Record], NEW o \in Obj, o \notin S[o].clones
    PROVE  /\ CloseRoot(S, o) \in [Obj -> Record]
           /\ LET r == CloseRoot(S, o)[o]
              IN /\ r.alive = S[o].alive /\ r.parent = S[o].parent /\ r.clones = {}
                 /\ r.db = 0 /\ r.database = FALSE /\ r.result = FALSE
           /\ \A p \in Obj \ {o} : CloseRoot(S, o)[p] = DestroyClones(S, S[o].clones)[p]
<1> DEFINE R == DestroyClones(S, S[o].clones)
<1>1. S[o].clones \in SUBSET Obj
  BY DEF Record
<1>2. R \in [Obj -> Record] /\ R[o].alive = S[o].alive /\ R[o].parent = S[o].parent
  BY <1>1, DestroyFacts
<1>3. PICK r \in Record : r = Cleared(R[o])
  BY <1>2, ClearedFacts
<1>4. r.alive = S[o].alive /\ r.parent = S[o].parent /\ r.result = FALSE
  BY <1>2, <1>3, ClearedFacts
<1>5. /\ \E e \in BOOLEAN : e = FALSE
      /\ \E s \in Pointer : s = IF r.stmt \in Text THEN Gone ELSE r.stmt
  BY DEF Record, Pointer
<1>6. PICK e \in BOOLEAN, s \in Pointer : e = FALSE /\ s = IF r.stmt \in Text THEN Gone ELSE r.stmt
  BY <1>5
<1>7. PICK q : q = [r EXCEPT !.clones = {}, !.db = 0, !.database = e, !.cached = {}, !.stmt = s]
  OBVIOUS
<1>8. q = Closed(R[o])
  BY <1>3, <1>6, <1>7, Zenon DEF Closed
<1>9. q \in Record
  BY <1>7 DEF Record
<1>10. /\ q.alive = r.alive /\ q.parent = r.parent /\ q.clones = {} /\ q.db = 0
       /\ q.database = e /\ q.result = r.result
  BY <1>7 DEF Record
<1>11. CloseRoot(S, o) = [R EXCEPT ![o] = q]
  BY <1>8 DEF CloseRoot
<1> HIDE DEF R
<1>12. /\ CloseRoot(S, o) \in [Obj -> Record] /\ CloseRoot(S, o)[o] = q
       /\ \A p \in Obj \ {o} : CloseRoot(S, o)[p] = R[p]
  BY <1>2, <1>9, <1>11
<1> QED
  BY <1>4, <1>6, <1>10, <1>12 DEF R

LEMMA RootClosedFacts ==
    ASSUME NEW S \in [Obj -> Record], NEW C \in [Conn -> Connection], NEW o \in Obj
    PROVE  /\ RootClosed(S, C, o) \in [Conn -> Connection]
           /\ \A c \in Conn : c # S[o].db => RootClosed(S, C, o)[c] = C[c]
           /\ \A c \in Conn : c = S[o].db => RootClosed(S, C, o)[c].link # "open"
<1> DEFINE G == ClonesGone(S, C, S[o].clones)
<1>1. G \in [Conn -> Connection]
  <2>1. S[o].clones \in SUBSET Obj
    BY DEF Record
  <2> QED
    BY <2>1, GoneFacts
<1> HIDE DEF G
<1>2. ASSUME NEW c \in Conn
      PROVE  /\ [G[c] EXCEPT !.link = "leaked"] \in Connection
             /\ [G[c] EXCEPT !.link = "leaked"].link = "leaked"
  BY <1>1 DEF Connection
<1>3. [Unused EXCEPT !.link = "closed"] \in Connection /\ [Unused EXCEPT !.link = "closed"].link = "closed"
  BY RecordFacts DEF Connection
<1>4. RootClosed(S, C, o) =
        [c \in Conn |-> IF c = S[o].db
                        THEN IF Busy(S, C, o, c) THEN [G[c] EXCEPT !.link = "leaked"]
                             ELSE [Unused EXCEPT !.link = "closed"]
                        ELSE C[c]]
  BY DEF RootClosed, G
<1> QED
  BY <1>2, <1>3, <1>4

(* A root object that is closed takes its clones with it and nobody else.   *)
LEMMA RootIsClosed ==
    ASSUME NEW S, NEW C, Good(S, C), NEW n \in Obj, ~IsClone(S, n), S[n].database
    PROVE  /\ Good(CloseRoot(S, n), RootClosed(S, C, n))
           /\ LET r == CloseRoot(S, n)[n]
              IN r.db = 0 /\ r.clones = {} /\ r.parent = NoObj /\ ~r.database
           /\ \A p \in Obj \ {n} : ~IsClone(S, p) => Keeps(S, CloseRoot(S, n), p)
           /\ Survives(S, CloseRoot(S, n))
<1> DEFINE T == CloseRoot(S, n)
           D == RootClosed(S, C, n)
           K == S[n].clones
           L == {k \in K : S[k].database}
           R == DestroyClones(S, K)
<1>0. Tree(S) /\ Links(S, C) /\ Results(S)
  BY DEF Good
<1>1. S \in [Obj -> Record] /\ C \in [Conn -> Connection] /\ K \in SUBSET Obj
  BY GoodTypes
<1>2. \A k \in K : S[k].alive /\ S[k].parent = n /\ k # n /\ k \in Obj
  BY <1>0, <1>1, GoodTypes DEF Tree, IsClone
<1>3. \A k \in Obj : S[k].parent = n => k \in K
  BY <1>0, GoodTypes DEF Tree, IsClone
<1>4. S[n].parent = NoObj /\ S[n].alive
  BY <1>0, GoodTypes, RecordFacts DEF Tree
<1>5. /\ T \in [Obj -> Record] /\ T[n].alive /\ T[n].parent = NoObj /\ T[n].clones = {}
      /\ T[n].db = 0 /\ ~T[n].database /\ ~T[n].result
      /\ \A p \in Obj \ {n} : T[p] = R[p]
  BY <1>1, <1>2, <1>4, CloseFacts
<1>6. /\ \A p \in K : R[p] = Absent
      /\ \A p \in Obj \ K :
            /\ R[p].alive = S[p].alive /\ R[p].parent = S[p].parent
            /\ R[p].clones = S[p].clones \ L /\ R[p].db = S[p].db
            /\ R[p].database = S[p].database
            /\ R[p].stmt = S[p].stmt /\ R[p].cached = S[p].cached
            /\ R[p].result = S[p].result
            /\ S[p].clones = {} => R[p] = S[p]
  BY <1>1, DestroyFacts
<1>7. L \subseteq K
  OBVIOUS
<1>8. /\ D \in [Conn -> Connection]
      /\ \A c \in Conn : c # S[n].db => D[c] = C[c]
      /\ \A c \in Conn : c = S[n].db => D[c].link # "open"
  BY <1>1, RootClosedFacts
<1> HIDE DEF T, D, L, R, K
<1>9. \A p \in K : /\ T[p] = Absent /\ ~T[p].alive /\ T[p].parent = NoObj /\ T[p].clones = {}
                   /\ T[p].db = 0 /\ ~T[p].database /\ ~T[p].result
  BY <1>2, <1>5, <1>6, RecordFacts
<1>10. \A p \in Obj \ K : p # n =>
            /\ T[p].alive = S[p].alive /\ T[p].parent = S[p].parent
            /\ T[p].clones = S[p].clones \ L /\ T[p].db = S[p].db
            /\ T[p].database = S[p].database
            /\ T[p].stmt = S[p].stmt /\ T[p].cached = S[p].cached
            /\ T[p].result = S[p].result
            /\ S[p].clones = {} => T[p] = S[p]
  BY <1>5, <1>6
<1>11. Tree(T)
  <2>1. ASSUME NEW o \in Obj, o # n, o \notin K
        PROVE  /\ ~T[o].alive => T[o] = Absent
               /\ T[o].db = 0 \/ IsClone(T, o) => T[o].clones = {}
    <3>1. ~S[o].alive => S[o] = Absent /\ S[o].clones = {}
      BY <1>0, RecordFacts DEF Tree
    <3>2. S[o].db = 0 \/ IsClone(S, o) => S[o].clones = {}
      BY <1>0 DEF Tree
    <3> QED
      BY <1>10, <2>1, <3>1, <3>2 DEF IsClone
  <2>2. ASSUME NEW o \in Obj, o # n, o \notin K, T[o].database, NEW k \in T[o].clones
        PROVE  T[k].alive /\ T[k].parent = o
    <3>1. S[o].database /\ k \in S[o].clones /\ k \in Obj
      BY <1>10, <2>2, GoodTypes
    <3>2. S[k].alive /\ S[k].parent = o
      BY <1>0, <3>1 DEF Tree
    <3>3. k # n /\ k \notin K
      BY <1>2, <1>4, <2>2, <3>2, GoodTypes
    <3> QED
      BY <1>10, <3>1, <3>2, <3>3
  <2>3. ASSUME NEW o \in Obj, o # n, o \notin K, IsClone(T, o)
        PROVE  /\ o \in T[T[o].parent].clones /\ T[T[o].parent].alive
               /\ ~IsClone(T, T[o].parent)
               /\ T[o].db = T[T[o].parent].db
               /\ T[o].database = T[T[o].parent].database
    <3>1. IsClone(S, o) /\ T[o].parent = S[o].parent
      BY <1>10, <2>3 DEF IsClone
    <3>2. PICK r \in Obj : r = S[o].parent
      BY <3>1, GoodTypes
    <3>3. /\ o \in S[r].clones /\ S[r].alive /\ ~IsClone(S, r)
          /\ S[o].db = S[r].db /\ S[o].database = S[r].database
      BY <1>0, <3>1, <3>2 DEF Tree
    <3>4. r # n /\ r \notin K
      BY <1>2, <1>3, <2>3, <3>2, <3>3, GoodTypes
    <3> QED
      BY <1>7, <1>10, <2>3, <3>1, <3>2, <3>3, <3>4 DEF IsClone
  <2> QED
    BY <1>5, <1>9, <2>1, <2>2, <2>3, Zenon DEF Tree, IsClone
<1>12. Links(T, D)
  <2>1. \A p \in Obj : p = n \/ p \in K => T[p].db = 0
    BY <1>5, <1>9
  <2>2. \A p \in Obj : ~(p = n \/ p \in K) =>
           T[p].db = S[p].db /\ Kin(T, p) = Kin(S, p) /\ T[p].database = S[p].database
    BY <1>10 DEF Kin, IsClone
  <2>3. \A p \in Obj : S[p].db # 0 => S[p].db \in Conn
    BY GoodTypes
  <2>4. \A p \in Obj : ~(p = n \/ p \in K) => S[p].db = 0 \/ S[p].db # S[n].db
    <3>1. Kin(S, n) = n
      BY DEF Kin
    <3>2. \A p \in Obj : Kin(S, p) = n => p = n \/ p \in K
      BY <1>3 DEF Kin
    <3> QED
      BY <1>0, <3>1, <3>2 DEF Links
  <2>5. \A p \in Obj : p \in K => S[p].db = S[n].db
    BY <1>0, <1>2, GoodTypes DEF Tree, IsClone
  <2>6. ASSUME NEW c \in Conn, D[c].link = "open" PROVE \E o \in Obj : T[o].db = c
    <3>1. c # S[n].db /\ C[c].link = "open"
      BY <1>8, <2>6
    <3>2. PICK o \in Obj : S[o].db = c
      BY <1>0, <3>1 DEF Links
    <3> QED
      BY <2>2, <2>5, <3>1, <3>2
  <2>7. \A o \in Obj : T[o].db # 0 =>
          D[T[o].db].link = IF T[o].database THEN "open" ELSE "closed"
    BY <1>0, <1>8, <2>1, <2>2, <2>3, <2>4 DEF Links
  <2>8. \A o, p \in Obj : T[o].db # 0 /\ T[p].db = T[o].db => Kin(T, o) = Kin(T, p)
    BY <1>0, <2>1, <2>2 DEF Links
  <2> QED
    BY <2>6, <2>7, <2>8 DEF Links
<1>13. Results(T)
  BY <1>0, <1>5, <1>9, <1>10 DEF Results
<1>14. Good(T, D)
  BY <1>5, <1>8, <1>11, <1>12, <1>13 DEF Good, Typed
<1>15. \A p \in Obj \ {n} : ~IsClone(S, p) => Keeps(S, T, p)
  BY <1>2, <1>10, GoodTypes DEF Keeps, IsClone
<1>16. Survives(S, T)
  BY <1>5, <1>9, <1>10 DEF Survives
<1> QED
  BY <1>5, <1>14, <1>15, <1>16 DEF T, D

(* A root object without clones and connection can be put in place of       *)
(* another one, or disappear.                                               *)
LEMMA RootReplaced ==
    ASSUME NEW S, NEW C, Good(S, C), NEW n \in Obj, ~IsClone(S, n), S[n].clones = {},
           S[n].db = 0 \/ ~S[n].database, NEW e \in {Absent, Fresh}
    PROVE  Good([S EXCEPT ![n] = e], C)
<1> DEFINE T == [S EXCEPT ![n] = e]
<1>0. Tree(S) /\ Links(S, C) /\ Results(S) /\ Typed(S, C)
  BY DEF Good
<1>1. S \in [Obj -> Record] /\ C \in [Conn -> Connection]
  BY GoodTypes
<1>2. /\ e \in Record /\ (e.alive \/ e = Absent) /\ e.parent = NoObj /\ e.clones = {}
      /\ e.db = 0 /\ ~e.database /\ ~e.result
  BY RecordFacts
<1>3. T \in [Obj -> Record] /\ T[n] = e /\ \A p \in Obj \ {n} : T[p] = S[p]
  BY <1>1, <1>2
<1>4. \A p \in Obj : S[p].parent # n
  BY <1>0, GoodTypes DEF Tree, IsClone
<1>5. \A p \in Obj : S[p].database => n \notin S[p].clones
  BY <1>0, GoodTypes DEF Tree, IsClone
<1> HIDE DEF T
<1>6. Tree(T)
  <2>1. ASSUME NEW o \in Obj, o # n, T[o].database, NEW k \in T[o].clones
        PROVE  T[k].alive /\ T[k].parent = o
    <3>1. T[o] = S[o] /\ k # n /\ k \in Obj
      BY <1>3, <1>5, <2>1, GoodTypes
    <3>2. S[k].alive /\ S[k].parent = o
      BY <1>0, <2>1, <3>1 DEF Tree
    <3> QED
      BY <1>3, <3>1, <3>2
  <2>2. ASSUME NEW o \in Obj, o # n
        PROVE  IsClone(T, o) => /\ o \in T[T[o].parent].clones /\ T[T[o].parent].alive
                                /\ ~IsClone(T, T[o].parent)
                                /\ T[o].db = T[T[o].parent].db
                                /\ T[o].database = T[T[o].parent].database
    <3>1. T[o] = S[o] /\ S[o].parent # n
      BY <1>3, <1>4, <2>2
    <3>2. IsClone(S, o) => T[S[o].parent] = S[S[o].parent]
      BY <1>3, <3>1, GoodTypes
    <3> QED
      BY <1>0, <3>1, <3>2 DEF Tree, IsClone
  <2>3. ASSUME NEW o \in Obj, o # n
        PROVE  (~T[o].alive => T[o] = Absent) /\ (T[o].db = 0 \/ IsClone(T, o) => T[o].clones = {})
    BY <1>0, <1>3, <2>3 DEF Tree, IsClone
  <2> QED
    BY <1>2, <1>3, <2>1, <2>2, <2>3, Zenon DEF Tree, IsClone
<1>7. Links(T, C)
  <2>1. \A p \in Obj \ {n} : T[p] = S[p] /\ Kin(T, p) = Kin(S, p)
    BY <1>3 DEF Kin, IsClone
  <2>2. ASSUME NEW c \in Conn, C[c].link = "open" PROVE \E o \in Obj : T[o].db = c
    <3>1. PICK o \in Obj : S[o].db = c
      BY <1>0, <2>2 DEF Links
    <3>2. o # n
      BY <1>0, <2>2, <3>1, GoodTypes DEF Links
    <3> QED
      BY <2>1, <3>1, <3>2
  <2>3. T[n].db = 0
    BY <1>2, <1>3
  <2> QED
    BY <1>0, <2>1, <2>2, <2>3 DEF Links
<1>8. Results(T)
  BY <1>0, <1>2, <1>3 DEF Results
<1>9. Good(T, C)
  BY <1>1, <1>3, <1>6, <1>7, <1>8 DEF Good, Typed
<1> QED
  BY <1>9 DEF T

(* dbi_Sqlite3_Destroy keeps what holds of the others.                      *)
LEMMA ObjectDestroyed ==
    ASSUME NEW S, NEW C, Good(S, C), NEW n \in Obj, ~Abandons(S, n)
    PROVE  /\ Good(DestroyObject(S, n), ObjectGone(S, C, n))
           /\ DestroyObject(S, n)[n] = Absent
           /\ \A p \in Obj \ {n} : ~IsClone(S, p) => Keeps(S, DestroyObject(S, n), p)
           /\ Survives(S, DestroyObject(S, n))
<1> DEFINE T == DestroyObject(S, n)
           D == ObjectGone(S, C, n)
<1>1. CASE IsClone(S, n)
  <2>1. T = DestroyClones(S, {n}) /\ D = ClonesGone(S, C, {n})
    BY <1>1 DEF DestroyObject, ObjectGone
  <2> QED
    BY <1>1, <2>1, CloneDestroyed
<1>2. CASE ~IsClone(S, n) /\ S[n].database
  <2> DEFINE R == CloseRoot(S, n)
  <2>1. T = [R EXCEPT ![n] = Absent] /\ D = RootClosed(S, C, n)
    BY <1>2 DEF DestroyObject, ObjectGone
  <2>2. /\ Good(R, D)
        /\ R[n].db = 0 /\ R[n].clones = {} /\ R[n].parent = NoObj /\ ~R[n].database
        /\ \A p \in Obj \ {n} : ~IsClone(S, p) => Keeps(S, R, p)
        /\ Survives(S, R)
    BY <1>2, <2>1, RootIsClosed
  <2> HIDE DEF T, D, R
  <2>3. ~IsClone(R, n)
    BY <2>2 DEF IsClone
  <2>4. R \in [Obj -> Record]
    BY <2>2, GoodTypes
  <2>5. Good(T, D)
    BY <2>1, <2>2, <2>3, RootReplaced
  <2>6. T[n] = Absent /\ \A p \in Obj \ {n} : T[p] = R[p]
    BY <2>1, <2>4
  <2>7. Survives(S, T)
    BY <2>2, <2>6, RecordFacts DEF Survives
  <2> QED
    BY <2>2, <2>5, <2>6, <2>7 DEF T, D, Keeps
<1>3. CASE ~IsClone(S, n) /\ ~S[n].database
  <2>1. S[n].clones = {}
    BY <1>3 DEF Abandons
  <2>2. T = [S EXCEPT ![n] = Absent] /\ D = C
    BY <1>3 DEF DestroyObject, ObjectGone
  <2>3. S \in [Obj -> Record]
    BY GoodTypes
  <2> HIDE DEF T, D
  <2>4. Good(T, D)
    BY <1>3, <2>1, <2>2, RootReplaced
  <2>5. T[n] = Absent /\ \A p \in Obj \ {n} : T[p] = S[p]
    BY <2>2, <2>3
  <2>6. Survives(S, T)
    BY <2>5, RecordFacts DEF Survives
  <2> QED
    BY <2>4, <2>5, <2>6 DEF T, D, Keeps
<1> QED
  BY <1>1, <1>2, <1>3

(* A connection is made, and given to an object without one or not.         *)
LEMMA Connected ==
    ASSUME NEW S, NEW C, Good(S, C), NEW o \in Obj, S[o].alive, S[o].db = 0,
           NEW c \in Conn, C[c].link = "unused", NEW d \in {0, c}, NEW b \in BOOLEAN,
           NEW l \in {"open", "closed"},
           l = "open" => d = c /\ b,
           d = c => l = IF b THEN "open" ELSE "closed"
    PROVE  Good([S EXCEPT ![o].db = d, ![o].database = b], [C EXCEPT ![c].link = l])
<1> DEFINE T == [S EXCEPT ![o].db = d, ![o].database = b]
           D == [C EXCEPT ![c].link = l]
<1>0. Tree(S) /\ Links(S, C) /\ Results(S)
  BY DEF Good
<1>1. S \in [Obj -> Record] /\ C \in [Conn -> Connection] /\ S[o] \in Record
  BY GoodTypes
<1>2. PICK q : q = [S[o] EXCEPT !.db = d, !.database = b]
  OBVIOUS
<1>3. T = [S EXCEPT ![o] = q]
  BY <1>1, <1>2
<1>4. q \in Record
  BY <1>1, <1>2 DEF Record
<1>5. /\ q.alive = S[o].alive /\ q.parent = S[o].parent /\ q.clones = S[o].clones
      /\ q.db = d /\ q.database = b /\ q.result = S[o].result
  BY <1>1, <1>2 DEF Record
<1>6. T \in [Obj -> Record] /\ T[o] = q /\ \A p \in Obj \ {o} : T[p] = S[p]
  BY <1>1, <1>3, <1>4
<1>7. D \in [Conn -> Connection] /\ D[c].link = l /\ \A e \in Conn \ {c} : D[e] = C[e]
  BY <1>1 DEF Connection
<1>8. S[o].clones = {} /\ ~S[o].result
  BY <1>0 DEF Tree, Results
<1>9. ~IsClone(S, o)
  BY <1>0, <1>8, GoodTypes DEF Tree
<1>10. \A p \in Obj : S[p].parent # o
  BY <1>0, <1>8, GoodTypes DEF Tree, IsClone
<1>11. \A p \in Obj : S[p].database => o \notin S[p].clones
  BY <1>0, <1>9, GoodTypes DEF Tree, IsClone
<1> HIDE DEF T, D
<1>12. Tree(T)
  <2>1. ASSUME NEW p \in Obj, p # o, T[p].database, NEW k \in T[p].clones
        PROVE  T[k].alive /\ T[k].parent = p
    <3>1. T[p] = S[p] /\ k # o /\ k \in Obj
      BY <1>6, <1>11, <2>1, GoodTypes
    <3>2. S[k].alive /\ S[k].parent = p
      BY <1>0, <2>1, <3>1 DEF Tree
    <3> QED
      BY <1>6, <3>1, <3>2
  <2>2. ASSUME NEW p \in Obj, p # o
        PROVE  IsClone(T, p) => /\ p \in T[T[p].parent].clones /\ T[T[p].parent].alive
                                /\ ~IsClone(T, T[p].parent)
                                /\ T[p].db = T[T[p].parent].db
                                /\ T[p].database = T[T[p].parent].database
    <3>1. T[p] = S[p] /\ S[p].parent # o
      BY <1>6, <1>10, <2>2
    <3>2. IsClone(S, p) => T[S[p].parent] = S[S[p].parent]
      BY <1>6, <3>1, GoodTypes
    <3> QED
      BY <1>0, <3>1, <3>2 DEF Tree, IsClone
  <2>3. ASSUME NEW p \in Obj, p # o
        PROVE  (~T[p].alive => T[p] = Absent) /\ (T[p].db = 0 \/ IsClone(T, p) => T[p].clones = {})
    BY <1>0, <1>6, <2>3 DEF Tree, IsClone
  <2>4. T[o].alive /\ T[o].clones = {} /\ ~IsClone(T, o)
    BY <1>5, <1>6, <1>8, <1>9 DEF IsClone
  <2> QED
    BY <2>1, <2>2, <2>3, <2>4, Zenon DEF Tree, IsClone
<1>13. Links(T, D)
  <2>1. \A p \in Obj : S[p].db # c
    BY <1>0, GoodTypes DEF Links
  <2>2. \A p \in Obj \ {o} : T[p] = S[p] /\ Kin(T, p) = Kin(S, p)
    BY <1>6 DEF Kin, IsClone
  <2>3. T[o].db = d /\ T[o].database = b
    BY <1>5, <1>6
  <2>4. ASSUME NEW e \in Conn, D[e].link = "open" PROVE \E p \in Obj : T[p].db = e
    <3>1. CASE e = c
      BY <1>7, <2>3, <2>4, <3>1
    <3>2. CASE e # c
      <4>1. PICK p \in Obj : S[p].db = e
        BY <1>0, <1>7, <2>4, <3>2 DEF Links
      <4>2. p # o
        BY <4>1, GoodTypes
      <4> QED
        BY <2>2, <4>1, <4>2
    <3> QED
      BY <3>1, <3>2
  <2>5. \A p \in Obj : T[p].db # 0 => D[T[p].db].link = IF T[p].database THEN "open" ELSE "closed"
    <3>1. T[o].db # 0 => D[T[o].db].link = IF T[o].database THEN "open" ELSE "closed"
      BY <1>7, <2>3
    <3>2. \A p \in Obj \ {o} : T[p].db # 0 => D[T[p].db].link = IF T[p].database THEN "open" ELSE "closed"
      BY <1>0, <1>7, <2>1, <2>2, GoodTypes DEF Links
    <3> QED
      BY <3>1, <3>2
  <2>6. \A p, r \in Obj : T[p].db # 0 /\ T[r].db = T[p].db => Kin(T, p) = Kin(T, r)
    BY <1>0, <2>1, <2>2, <2>3 DEF Links
  <2> QED
    BY <2>4, <2>5, <2>6 DEF Links
<1>14. Results(T)
  BY <1>0, <1>5, <1>6, <1>8 DEF Results
<1>15. Good(T, D)
  BY <1>6, <1>7, <1>12, <1>13, <1>14 DEF Good, Typed
<1> QED
  BY <1>15 DEF T, D

(* A clone is made, under a name that nobody has.                           *)
LEMMA CloneMade ==
    ASSUME NEW S, NEW C, Good(S, C), NEW n \in Obj, S[n] = Absent, NEW r \in Obj, r # n,
           S[r].alive, ~IsClone(S, r), S[r].db # 0
    PROVE  Good([S EXCEPT ![n] = [Fresh EXCEPT !.parent = r, !.db = S[r].db,
                                               !.database = S[r].database],
                          ![r].clones = @ \cup {n}], C)
<1> DEFINE T == [S EXCEPT ![n] = [Fresh EXCEPT !.parent = r, !.db = S[r].db,
                                               !.database = S[r].database],
                          ![r].clones = @ \cup {n}]
<1>0. Tree(S) /\ Links(S, C) /\ Results(S)
  BY DEF Good
<1>1. S \in [Obj -> Record] /\ C \in [Conn -> Connection] /\ S[r] \in Record
  BY GoodTypes
<1>2. PICK q : q = [Fresh EXCEPT !.parent = r, !.db = S[r].db, !.database = S[r].database]
  OBVIOUS
<1>3. q \in Record
  BY <1>1, <1>2, RecordFacts DEF Record
<1>4. /\ q.alive /\ q.parent = r /\ q.clones = {} /\ q.db = S[r].db
      /\ q.database = S[r].database /\ ~q.result
  BY <1>1, <1>2, RecordFacts DEF Record
<1>5. PICK R : R = [S[r] EXCEPT !.clones = S[r].clones \cup {n}]
  OBVIOUS
<1>6. R \in Record
  BY <1>1, <1>5 DEF Record
<1>7. /\ R.alive /\ R.parent = S[r].parent /\ R.clones = S[r].clones \cup {n}
      /\ R.db = S[r].db /\ R.database = S[r].database /\ R.result = S[r].result
      /\ R.stmt = S[r].stmt /\ R.cached = S[r].cached
  BY <1>1, <1>5 DEF Record
<1>8. T = [S EXCEPT ![n] = q, ![r] = R]
  BY <1>1, <1>2, <1>5
<1>9. /\ T \in [Obj -> Record] /\ T[n] = q /\ T[r] = R
      /\ \A p \in Obj \ {n, r} : T[p] = S[p]
  BY <1>1, <1>3, <1>6, <1>8
<1> HIDE DEF T
<1>10. S[n].clones = {} /\ S[n].db = 0 /\ ~IsClone(S, n) /\ ~S[n].alive
  BY RecordFacts DEF IsClone
<1>11. \A p \in Obj : S[p].parent # n
  BY <1>0, <1>10, GoodTypes DEF Tree, IsClone
<1>12. \A p \in Obj : S[p].database => n \notin S[p].clones
  BY <1>0, <1>10 DEF Tree
<1>13. \A p \in Obj \ {n} : /\ Kin(T, p) = Kin(S, p) /\ T[p].db = S[p].db
                             /\ T[p].database = S[p].database /\ T[p].alive = S[p].alive
                             /\ T[p].parent = S[p].parent /\ T[p].result = S[p].result
                             /\ T[p].stmt = S[p].stmt /\ T[p].cached = S[p].cached
                             /\ T[p].clones = IF p = r THEN S[r].clones \cup {n} ELSE S[p].clones
  <2>1. ASSUME NEW p \in Obj, p # n, p # r PROVE T[p] = S[p]
    BY <1>9, <2>1
  <2>2. /\ T[r].db = S[r].db /\ T[r].database = S[r].database /\ T[r].alive = S[r].alive
        /\ T[r].parent = S[r].parent /\ T[r].result = S[r].result
        /\ T[r].stmt = S[r].stmt /\ T[r].cached = S[r].cached
        /\ T[r].clones = S[r].clones \cup {n}
    <3>1. R.alive = S[r].alive
      BY <1>1, <1>5 DEF Record
    <3> QED
      BY <1>7, <1>9, <3>1, Zenon
  <2>3. ASSUME NEW p \in Obj, p # n PROVE T[p].parent = S[p].parent
    BY <2>1, <2>2, <2>3
  <2> QED
    BY <2>1, <2>2, <2>3, Zenon DEF Kin, IsClone
<1>14. Tree(T)
  <2>1. ASSUME NEW p \in Obj, p # n, T[p].database, NEW k \in T[p].clones
        PROVE  T[k].alive /\ T[k].parent = p
    <3>1. CASE k = n
      BY <1>4, <1>9, <1>12, <1>13, <2>1, <3>1
    <3>2. CASE k # n
      <4>1. S[p].database /\ k \in S[p].clones /\ k \in Obj
        BY <1>13, <2>1, <3>2, GoodTypes
      <4>2. S[k].alive /\ S[k].parent = p
        BY <1>0, <4>1 DEF Tree
      <4> QED
        BY <1>13, <3>2, <4>1, <4>2
    <3> QED
      BY <3>1, <3>2
  <2>2. ASSUME NEW p \in Obj, p # n
        PROVE  IsClone(T, p) => /\ p \in T[T[p].parent].clones /\ T[T[p].parent].alive
                                /\ ~IsClone(T, T[p].parent)
                                /\ T[p].db = T[T[p].parent].db
                                /\ T[p].database = T[T[p].parent].database
    <3>1. IsClone(T, p) <=> IsClone(S, p)
      BY <1>13, <2>2 DEF IsClone
    <3>2. SUFFICES ASSUME IsClone(S, p)
                   PROVE  /\ p \in T[T[p].parent].clones /\ T[T[p].parent].alive
                          /\ ~IsClone(T, T[p].parent)
                          /\ T[p].db = T[T[p].parent].db
                          /\ T[p].database = T[T[p].parent].database
      BY <3>1
    <3>3. PICK u \in Obj : u = S[p].parent /\ u # n
      BY <1>11, <3>2, GoodTypes
    <3>4. /\ p \in S[u].clones /\ S[u].alive /\ ~IsClone(S, u)
          /\ S[p].db = S[u].db /\ S[p].database = S[u].database
      BY <1>0, <3>2, <3>3 DEF Tree
    <3> QED
      BY <1>13, <2>2, <3>3, <3>4 DEF IsClone
  <2>3. ASSUME NEW p \in Obj, p # n
        PROVE  (~T[p].alive => T[p] = Absent) /\ (T[p].db = 0 \/ IsClone(T, p) => T[p].clones = {})
    <3>1. CASE p = r
      BY <1>7, <1>9, <3>1 DEF IsClone
    <3>2. CASE p # r
      BY <1>0, <1>9, <2>3, <3>2 DEF Tree, IsClone
    <3> QED
      BY <3>1, <3>2
  <2>4. /\ T[n].alive /\ T[n].clones = {} /\ T[n].parent = r /\ n \in T[r].clones /\ T[r].alive
        /\ ~IsClone(T, r) /\ T[n].db = T[r].db /\ T[n].database = T[r].database
    BY <1>4, <1>7, <1>9 DEF IsClone
  <2> QED
    BY <2>1, <2>2, <2>3, <2>4, Zenon DEF Tree
<1>15. Links(T, C)
  <2>1. Kin(T, n) = r /\ Kin(T, r) = r /\ T[n].db = S[r].db /\ T[n].database = S[r].database
    BY <1>4, <1>9, <1>13, GoodTypes DEF Kin, IsClone
  <2>2. ASSUME NEW c \in Conn, C[c].link = "open" PROVE \E p \in Obj : T[p].db = c
    <3>1. PICK p \in Obj : S[p].db = c
      BY <1>0, <2>2 DEF Links
    <3>2. p # n
      BY <1>10, <3>1, GoodTypes
    <3> QED
      BY <1>13, <3>1, <3>2
  <2>3. \A p \in Obj : T[p].db # 0 => C[T[p].db].link = IF T[p].database THEN "open" ELSE "closed"
    BY <1>0, <1>13, <2>1 DEF Links
  <2>4. \A p, u \in Obj : T[p].db # 0 /\ T[u].db = T[p].db => Kin(T, p) = Kin(T, u)
    BY <1>0, <1>13, <2>1 DEF Links
  <2> QED
    BY <2>2, <2>3, <2>4 DEF Links
<1>16. Results(T)
  <2>1. ~T[n].result
    BY <1>4, <1>9
  <2> QED
    BY <1>0, <1>13, <2>1 DEF Results
<1>17. Good(T, C)
  BY <1>1, <1>9, <1>14, <1>15, <1>16 DEF Good, Typed
<1> QED
  BY <1>17 DEF T

(* The CloneKeepsParentResult of a step. *)
ParentKeeps(S, T) ==
    \A r \in Obj : S[r].result /\ ~T[r].result => \A k \in T[r].clones : ~T[k].result

(* A method that changes its object, with the results cleared or not.       *)
Fits(S, M, o, q) ==
    /\ q \in Record /\ S[o].alive
    /\ q.alive = S[o].alive /\ q.parent = S[o].parent /\ q.clones = S[o].clones
    /\ q.db = S[o].db /\ q.database = S[o].database
    /\ q.result => q.stmt \in q.cached \cup {Plain} /\ q.db # 0 /\ q.database
    /\ M = S \/ M = ClearResult(S, o)
    /\ M # S => S[o].database
    /\ M = S => (S[o].result => q.result)

LEMMA Updated ==
    ASSUME NEW S, NEW C, Good(S, C), NEW D \in [Conn -> Connection], SameLinks(C, D),
           NEW o \in Obj, NEW M, NEW q, Fits(S, M, o, q)
    PROVE  Good([M EXCEPT ![o] = q], D) /\ ParentKeeps(S, [M EXCEPT ![o] = q])
<1> DEFINE T == [M EXCEPT ![o] = q]
<1> USE DEF Fits
<1>1. /\ M \in [Obj -> Record] /\ SameShape(S, M)
      /\ \A p \in Obj : M[p].result => M[p] = S[p]
      /\ M # S => \A p \in S[o].clones : ~M[p].result
      /\ \A p \in Obj : M[p] = S[p] \/ p = o \/ p \in S[o].clones
  <2>1. CASE M = S
    BY <2>1, GoodTypes DEF SameShape
  <2>2. CASE M = ClearResult(S, o)
    <3>1. \A p \in Obj : M[p] = S[p] \/ p = o \/ p \in S[o].clones
      BY <2>2 DEF ClearResult
    <3> QED
      BY <2>2, <3>1, ClearFacts, GoodTypes
  <2> QED
    BY <2>1, <2>2
<1>2. T \in [Obj -> Record] /\ T[o] = q /\ \A p \in Obj \ {o} : T[p] = M[p]
  BY <1>1
<1> HIDE DEF T
<1>3. SameShape(S, T)
  <2>1. ASSUME NEW p \in Obj, p # o
        PROVE  /\ T[p].alive = S[p].alive /\ T[p].parent = S[p].parent
               /\ T[p].clones = S[p].clones /\ T[p].db = S[p].db
               /\ T[p].database = S[p].database
               /\ S[p] = Absent => T[p] = Absent
    BY <1>1, <1>2, <2>1 DEF SameShape
  <2>2. S[o] # Absent
    BY RecordFacts
  <2> QED
    BY <1>2, <2>1, <2>2, Zenon DEF SameShape
<1>4. Results(T)
  BY <1>1, <1>2 DEF Results, Good
<1>5. Good(T, D)
  BY <1>2, <1>3, <1>4, ShapeKept DEF Typed
<1>6. ParentKeeps(S, T)
  <2>1. CASE M = S
    BY <1>2, <2>1 DEF ParentKeeps
  <2>2. CASE M # S
    <3>1. ASSUME NEW r \in Obj, S[r].result, ~T[r].result, NEW k \in T[r].clones
          PROVE  ~T[k].result
      <4>1. T[r].clones = S[r].clones
        BY <1>3 DEF SameShape
      <4>2. CASE r = o
        BY <1>1, <1>2, <2>2, <3>1, <4>1, <4>2, GoodTypes
      <4>3. CASE r # o
        <5>1. r \in S[o].clones
          BY <1>1, <1>2, <3>1, <4>3
        <5>2. S[r].parent = o
          BY <2>2, <5>1 DEF Good, Tree
        <5>3. S[r].clones = {}
          BY <5>2, GoodTypes DEF Good, Tree, IsClone
        <5> QED
          BY <3>1, <4>1, <5>3
      <4> QED
        BY <4>2, <4>3
    <3> QED
      BY <3>1 DEF ParentKeeps
  <2> QED
    BY <2>1, <2>2
<1> QED
  BY <1>5, <1>6 DEF T

LEMMA LinkKept ==
    ASSUME NEW C \in [Conn -> Connection], NEW c \in Conn
    PROVE  /\ \A b \in BOOLEAN : /\ [C EXCEPT ![c].lost = b] \in [Conn -> Connection]
                              /\ SameLinks(C, [C EXCEPT ![c].lost = b])
           /\ \A K \in SUBSET Obj : /\ [C EXCEPT ![c].calls = K] \in [Conn -> Connection]
                                   /\ SameLinks(C, [C EXCEPT ![c].calls = K])
           /\ C[c].calls \in SUBSET Obj /\ C[c].lost \in BOOLEAN
           /\ SameLinks(C, C)
<1>1. C[c] \in Connection
  OBVIOUS
<1>2. ASSUME NEW b \in BOOLEAN
      PROVE  [C[c] EXCEPT !.lost = b] \in Connection /\ [C[c] EXCEPT !.lost = b].link = C[c].link
  BY <1>1 DEF Connection
<1>3. ASSUME NEW K \in SUBSET Obj
      PROVE  [C[c] EXCEPT !.calls = K] \in Connection /\ [C[c] EXCEPT !.calls = K].link = C[c].link
  BY <1>1 DEF Connection
<1>4. C[c].calls \in SUBSET Obj /\ C[c].lost \in BOOLEAN
  BY <1>1 DEF Connection
<1> QED
  BY <1>2, <1>3, <1>4 DEF SameLinks

------------------------------------------------------------------------------
(* The methods. *)

(* What a step does to the objects and connections, if it uses no freed     *)
(* memory.                                                                  *)
Kept == Good(obj', con') /\ ParentKeeps(obj, obj')

LEMMA UsableFacts ==
    ASSUME Good(obj, con), NEW o \in Obj, Usable(o)
    PROVE  /\ obj[o].alive /\ obj[o].db \in Conn /\ obj[o].database
           /\ ClearResult(obj, o) \in [Obj -> Record]
           /\ ClearResult(obj, o)[o] \in Record
           /\ LET r == ClearResult(obj, o)[o]
              IN /\ r.alive = obj[o].alive /\ r.parent = obj[o].parent
                 /\ r.clones = obj[o].clones /\ r.db = obj[o].db
                 /\ r.database = obj[o].database /\ r.cached = obj[o].cached
                 /\ ~r.result
<1>1. obj[o].alive /\ obj[o].db # 0 /\ con[obj[o].db].link # "closed"
  BY DEF Usable, Uses, Alive
<1>2. obj[o].db \in Conn /\ obj[o].database
  BY <1>1, GoodTypes DEF Good, Links
<1> DEFINE M == ClearResult(obj, o)
<1>3. M \in [Obj -> Record] /\ SameShape(obj, M) /\ M[o].cached = obj[o].cached /\ ~M[o].result
  BY ClearFacts
<1> HIDE DEF M
<1>4. /\ M[o].alive = obj[o].alive /\ M[o].parent = obj[o].parent
      /\ M[o].clones = obj[o].clones /\ M[o].db = obj[o].db
      /\ M[o].database = obj[o].database
  BY <1>3 DEF SameShape
<1>5. M[o] \in Record
  BY <1>3
<1> QED
  BY <1>1, <1>2, <1>3, <1>4, <1>5, Zenon DEF M

LEMMA ExecKept ==
    ASSUME Good(obj, con), NEW o \in Obj, NEW f \in BOOLEAN, NEW v \in BOOLEAN, NEW t,
           \/ ExecPlain(o, f, v) \/ ExecError(o, v)
           \/ t \in Text /\ (ExecCached(o, t, f) \/ ExecCachedError(o, t))
    PROVE  Kept
<1> DEFINE M == ClearResult(obj, o)
           r == M[o]
           c == obj[o].db
<1>1. Usable(o)
  BY DEF ExecPlain, ExecCached, ExecError, ExecCachedError
<1>2. /\ obj[o].alive /\ c \in Conn /\ c # 0 /\ obj[o].database
      /\ M \in [Obj -> Record] /\ r \in Record
      /\ r.alive = obj[o].alive /\ r.parent = obj[o].parent
      /\ r.clones = obj[o].clones /\ r.db = c
      /\ r.database = obj[o].database /\ r.cached = obj[o].cached /\ ~r.result
  BY <1>1, UsableFacts, GoodTypes
<1>3. con \in [Conn -> Connection]
  BY GoodTypes
<1>4. con' \in [Conn -> Connection] /\ SameLinks(con, con')
  <2>1. PICK b \in BOOLEAN, d \in BOOLEAN : b = (con[c].lost \/ v) /\ d = TRUE
    OBVIOUS
  <2>2. con' = con \/ con' = [con EXCEPT ![c].lost = b] \/ con' = [con EXCEPT ![c].lost = d]
    BY <2>1, Zenon DEF ExecPlain, ExecCached, ExecError, ExecCachedError
  <2> HIDE DEF c
  <2>3. /\ SameLinks(con, con)
        /\ \A e \in BOOLEAN : /\ [con EXCEPT ![c].lost = e] \in [Conn -> Connection]
                              /\ SameLinks(con, [con EXCEPT ![c].lost = e])
    BY <1>2, <1>3, LinkKept
  <2> QED
    BY <1>3, <2>2, <2>3, Zenon
<1> HIDE DEF M, r, c
<1>5. PICK q \in Record :
         /\ obj' = [M EXCEPT ![o] = q]
         /\ q.alive = obj[o].alive /\ q.parent = obj[o].parent /\ q.clones = obj[o].clones
         /\ q.db = obj[o].db /\ q.database = obj[o].database
         /\ q.result => q.stmt \in q.cached \cup {Plain}
  <2>1. CASE ExecPlain(o, f, v)
    <3>1. PICK p \in Pointer : p = IF f THEN Plain ELSE NoStmt
      BY DEF Pointer
    <3>2. obj' = [M EXCEPT ![o].stmt = p, ![o].result = f]
      BY <2>1, <3>1, Zenon DEF ExecPlain, M
    <3>3. PICK q : q = [r EXCEPT !.stmt = p, !.result = f]
      OBVIOUS
    <3>4. obj' = [M EXCEPT ![o] = q]
      BY <1>2, <3>2, <3>3 DEF r
    <3>5. q \in Record
      BY <1>2, <3>3 DEF Record
    <3>6. /\ q.alive = r.alive /\ q.parent = r.parent /\ q.clones = r.clones
          /\ q.db = r.db /\ q.database = r.database /\ q.result = f /\ q.stmt = p
      BY <1>2, <3>3 DEF Record
    <3> QED
      BY <1>2, <3>1, <3>4, <3>5, <3>6 DEF c
  <2>2. CASE t \in Text /\ ExecCached(o, t, f)
    <3>1. PICK m \in SUBSET Text : m = obj[o].cached \cup {t}
      BY <2>2, GoodTypes DEF Record
    <3>2. obj' = [M EXCEPT ![o].stmt = t, ![o].result = f, ![o].cached = @ \cup {t}]
      BY <2>2 DEF ExecCached, M
    <3>3. PICK q : q = [r EXCEPT !.stmt = t, !.result = f, !.cached = m]
      OBVIOUS
    <3>4. obj' = [M EXCEPT ![o] = q]
      BY <1>2, <3>1, <3>2, <3>3 DEF r
    <3>5. q \in Record
      BY <1>2, <2>2, <3>3 DEF Record, Pointer
    <3>6. /\ q.alive = r.alive /\ q.parent = r.parent /\ q.clones = r.clones
          /\ q.db = r.db /\ q.database = r.database /\ q.cached = m /\ q.stmt = t
      BY <1>2, <3>3 DEF Record
    <3> QED
      BY <1>2, <3>1, <3>4, <3>5, <3>6 DEF c
  <2>3. CASE ExecError(o, v)
    <3>1. obj' = M
      BY <2>3 DEF ExecError, M
    <3>2. obj' = [M EXCEPT ![o] = r]
      BY <1>2, <3>1 DEF r
    <3> QED
      BY <1>2, <3>2 DEF c
  <2>4. CASE t \in Text /\ ExecCachedError(o, t)
    <3>1. PICK m \in SUBSET Text : m = obj[o].cached \ {t}
      BY GoodTypes DEF Record
    <3>2. obj' = [M EXCEPT ![o].cached = @ \ {t}]
      BY <2>4 DEF ExecCachedError, M
    <3>3. PICK q : q = [r EXCEPT !.cached = m]
      OBVIOUS
    <3>4. obj' = [M EXCEPT ![o] = q]
      BY <1>2, <3>1, <3>2, <3>3 DEF r
    <3>5. q \in Record
      BY <1>2, <3>3 DEF Record
    <3>6. /\ q.alive = r.alive /\ q.parent = r.parent /\ q.clones = r.clones
          /\ q.db = r.db /\ q.database = r.database /\ q.result = r.result
      BY <1>2, <3>3 DEF Record
    <3> QED
      BY <1>2, <3>4, <3>5, <3>6 DEF c
  <2> QED
    BY <2>1, <2>2, <2>3, <2>4
<1>6. Fits(obj, M, o, q)
  BY <1>2, <1>5 DEF M, c, r, Fits
<1>7. Good([M EXCEPT ![o] = q], con') /\ ParentKeeps(obj, [M EXCEPT ![o] = q])
  BY <1>4, <1>6, Updated, Zenon
<1> QED
  BY <1>5, <1>7 DEF Kept

LEMMA MethodKept ==
    ASSUME Good(obj, con), NEW o \in Obj, NEW T \in SUBSET Text, NEW b \in BOOLEAN,
           ObjectMethod(o, T, b) \/ Transaction(o)
    PROVE  Kept
<1>1. Usable(o) /\ con' = con
  BY DEF ObjectMethod, Transaction
<1>2. PICK M : /\ M = obj \/ M = ClearResult(obj, o)
               /\ \/ obj' = [M EXCEPT ![o].cached = @ \cup T]
                  \/ obj' = ClearResult(obj, o) /\ M = obj'
  <2>1. CASE Transaction(o)
    BY <2>1 DEF Transaction
  <2>2. CASE ObjectMethod(o, T, b) /\ b
    BY <2>2 DEF ObjectMethod
  <2>3. CASE ObjectMethod(o, T, b) /\ ~b
    BY <2>3 DEF ObjectMethod
  <2> QED
    BY <2>1, <2>2, <2>3
<1>3. /\ obj[o].alive /\ obj[o].database /\ obj[o].db # 0
      /\ M \in [Obj -> Record] /\ M[o] \in Record
      /\ M[o].alive = obj[o].alive /\ M[o].parent = obj[o].parent
      /\ M[o].clones = obj[o].clones /\ M[o].db = obj[o].db
      /\ M[o].database = obj[o].database /\ M[o].cached = obj[o].cached
      /\ M[o].result => M = obj
  BY <1>1, <1>2, UsableFacts, GoodTypes
<1>4. PICK m \in SUBSET Text : m = IF obj' = ClearResult(obj, o) /\ M = obj' THEN M[o].cached ELSE M[o].cached \cup T
  BY <1>3 DEF Record
<1>5. PICK q : q = [M[o] EXCEPT !.cached = m]
  OBVIOUS
<1>6. q \in Record
  BY <1>3, <1>5 DEF Record
<1>7. /\ q.alive = M[o].alive /\ q.parent = M[o].parent /\ q.clones = M[o].clones
      /\ q.db = M[o].db /\ q.database = M[o].database /\ q.result = M[o].result
      /\ q.stmt = M[o].stmt /\ q.cached = m
  BY <1>3, <1>5 DEF Record
<1>8. obj' = [M EXCEPT ![o] = q]
  <2>1. CASE obj' = ClearResult(obj, o) /\ M = obj'
    <3>1. q = M[o]
      <4>1. q.blob = M[o].blob
        BY <1>3, <1>5 DEF Record
      <4> QED
        BY <1>3, <1>4, <1>6, <1>7, <2>1, <4>1, RecordEqual
    <3> QED
      BY <1>3, <2>1, <3>1
  <2>2. CASE ~(obj' = ClearResult(obj, o) /\ M = obj')
    BY <1>2, <1>3, <1>4, <1>5, <2>2
  <2> QED
    BY <2>1, <2>2
<1>9. Fits(obj, M, o, q)
  <2>1. q.result => q.stmt \in q.cached \cup {Plain}
    <3>1. ASSUME M[o].result PROVE M[o].stmt \in M[o].cached \cup {Plain}
      BY <1>3, <3>1 DEF Good, Results
    <3>2. M[o].cached \subseteq m
      BY <1>4
    <3> QED
      BY <1>7, <3>1, <3>2
  <2> QED
    BY <1>2, <1>3, <1>6, <1>7, <2>1 DEF Fits
<1>10. SameLinks(con, con) /\ con \in [Conn -> Connection]
  BY GoodTypes DEF SameLinks
<1>11. Good([M EXCEPT ![o] = q], con) /\ ParentKeeps(obj, [M EXCEPT ![o] = q])
  BY <1>9, <1>10, Updated, Zenon
<1> QED
  BY <1>1, <1>8, <1>11 DEF Kept

LEMMA OtherKept ==
    ASSUME Good(obj, con), NEW o \in Obj, Callback(o) \/ IncrBlob(o) \/ CloseBlob(o)
    PROVE  Kept
<1>0. /\ obj \in [Obj -> Record] /\ con \in [Conn -> Connection] /\ obj[o] \in Record
      /\ obj[o].db \in Conn \cup {0} /\ SameLinks(con, con)
  BY GoodTypes DEF SameLinks
<1>1. CASE Callback(o)
  <2>1. Usable(o) /\ obj' = obj /\ con' = [con EXCEPT ![obj[o].db].calls = con[obj[o].db].calls \cup {o}]
    BY <1>1 DEF Callback
  <2>2. obj[o].db \in Conn
    BY <2>1, UsableFacts
  <2>3. con[obj[o].db].calls \cup {o} \in SUBSET Obj
    BY <1>0, <2>2, LinkKept
  <2>4. con' \in [Conn -> Connection] /\ SameLinks(con, con')
    BY <1>0, <2>1, <2>2, <2>3, LinkKept
  <2>5. SameShape(obj, obj) /\ Results(obj) /\ Typed(obj, con')
    BY <1>0, <2>4 DEF SameShape, Good, Typed
  <2> QED
    BY <2>1, <2>4, <2>5, ShapeKept DEF Kept, ParentKeeps
<1>2. CASE IncrBlob(o) \/ CloseBlob(o)
  <2>1. PICK d \in Conn \cup {0} : con' = con /\ obj' = [obj EXCEPT ![o].blob = d] /\ obj[o].alive
    BY <1>0, <1>2 DEF IncrBlob, CloseBlob, Usable, Uses, Alive
  <2>2. PICK q : q = [obj[o] EXCEPT !.blob = d]
    OBVIOUS
  <2>3. q \in Record
    BY <1>0, <2>1, <2>2 DEF Record
  <2>4. /\ q.alive = obj[o].alive /\ q.parent = obj[o].parent /\ q.clones = obj[o].clones
        /\ q.db = obj[o].db /\ q.database = obj[o].database /\ q.result = obj[o].result
        /\ q.stmt = obj[o].stmt /\ q.cached = obj[o].cached
    BY <1>0, <2>2 DEF Record
  <2>5. obj[o].result => obj[o].stmt \in obj[o].cached \cup {Plain} /\ obj[o].db # 0 /\ obj[o].database
    BY DEF Good, Results
  <2>6. Fits(obj, obj, o, q)
    BY <2>1, <2>3, <2>4, <2>5 DEF Fits
  <2>7. Good([obj EXCEPT ![o] = q], con) /\ ParentKeeps(obj, [obj EXCEPT ![o] = q])
    BY <1>0, <2>6, Updated, Zenon
  <2>8. obj' = [obj EXCEPT ![o] = q]
    BY <1>0, <2>1, <2>2
  <2> QED
    BY <2>1, <2>7, <2>8 DEF Kept
<1> QED
  BY <1>1, <1>2

LEMMA OpenKept ==
    ASSUME Good(obj, con), NEW o \in Obj, Open(o) \/ Createdb(o)
    PROVE  Kept
<1>1. PICK c \in Conn, b \in BOOLEAN, d \in Conn \cup {0}, l \in {"open", "closed"} :
         /\ d \in {0, c}
         /\ obj[o].alive /\ obj[o].db = 0 /\ con[c].link = "unused"
         /\ l = "open" => d = c /\ b
         /\ d = c => l = IF b THEN "open" ELSE "closed"
         /\ obj' = [obj EXCEPT ![o].db = d, ![o].database = b]
         /\ con' = [con EXCEPT ![c].link = l]
  <2>1. CASE Open(o)
    <3>1. PICK c \in Conn, b \in BOOLEAN :
             /\ obj[o].alive /\ obj[o].db = 0 /\ con[c].link = "unused"
             /\ obj' = [obj EXCEPT ![o].db = c, ![o].database = b]
             /\ con' = [con EXCEPT ![c].link = IF b THEN "open" ELSE "closed"]
      BY <2>1 DEF Open, Alive
    <3>2. PICK l \in {"open", "closed"} : l = IF b THEN "open" ELSE "closed"
      OBVIOUS
    <3>3. con' = [con EXCEPT ![c].link = l]
      BY <3>1, <3>2, Zenon
    <3> QED
      BY <3>1, <3>2, <3>3
  <2>2. CASE Createdb(o)
    <3>1. PICK c \in Conn, b \in BOOLEAN :
             /\ obj[o].alive /\ obj[o].db = 0 /\ con[c].link = "unused"
             /\ obj' = [obj EXCEPT ![o].db = IF b THEN 0 ELSE c, ![o].database = b]
             /\ con' = [con EXCEPT ![c].link = "closed"]
      BY <2>2 DEF Createdb, Alive
    <3>2. PICK d \in {0, c} : d = IF b THEN 0 ELSE c
      OBVIOUS
    <3>3. obj' = [obj EXCEPT ![o].db = d, ![o].database = b]
      BY <3>1, <3>2, Zenon
    <3>4. d = c => ~b
      BY <3>2, GoodTypes
    <3> QED
      BY <3>1, <3>3, <3>4
  <2> QED
    BY <2>1, <2>2
<1>2. Good([obj EXCEPT ![o].db = d, ![o].database = b], [con EXCEPT ![c].link = l])
  <2>1. d \in {0, c} /\ obj[o].alive /\ obj[o].db = 0 /\ con[c].link = "unused"
    BY <1>1
  <2>2. (l = "open" => d = c /\ b) /\ (d = c => l = IF b THEN "open" ELSE "closed")
    BY <1>1
  <2> QED
    BY <2>1, <2>2, Connected, Zenon
<1>3. ParentKeeps(obj, obj')
  <2>1. obj[o] \in Record /\ obj \in [Obj -> Record]
    BY GoodTypes
  <2>2. \A r \in Obj : obj'[r].result = obj[r].result
    BY <1>1, <2>1 DEF Record
  <2> QED
    BY <2>2 DEF ParentKeeps
<1> QED
  BY <1>1, <1>2, <1>3 DEF Kept

LEMMA GoneKept ==
    ASSUME Good(obj, con), NEW o \in Obj, New(o) \/ Destroy(o) \/ Close(o),
           ~UNCHANGED <<obj, con>>
    PROVE  Kept
<1>1. ASSUME ~Abandons(obj, o), obj' = DestroyObject(obj, o), con' = ObjectGone(obj, con, o)
      PROVE  Kept
  BY <1>1, ObjectDestroyed DEF Kept, ParentKeeps, Survives
<1>2. CASE Destroy(o)
  BY <1>1, <1>2 DEF Destroy
<1>3. CASE New(o)
  <2> DEFINE S == DestroyObject(obj, o)
  <2>1. ~Abandons(obj, o) /\ obj' = [S EXCEPT ![o] = Fresh] /\ con' = ObjectGone(obj, con, o)
    BY <1>3 DEF New
  <2>2. Good(S, con') /\ S[o] = Absent /\ Survives(obj, S)
    BY <2>1, ObjectDestroyed
  <2> HIDE DEF S
  <2>3. Good(obj', con')
    BY <2>1, <2>2, RootReplaced, RecordFacts DEF IsClone
  <2>4. S \in [Obj -> Record]
    BY <2>2, GoodTypes
  <2>5. Survives(obj, obj')
    BY <2>1, <2>2, <2>4, RecordFacts DEF Survives
  <2> QED
    BY <2>3, <2>5 DEF Kept, ParentKeeps, Survives
<1>4. CASE Close(o)
  <2>1. CASE IsClone(obj, o)
    BY <1>1, <1>4, <2>1 DEF Close, Abandons
  <2>2. CASE ~IsClone(obj, o)
    <3>1. /\ obj[o].db # 0 /\ con[obj[o].db].link # "closed"
          /\ obj' = CloseRoot(obj, o) /\ con' = RootClosed(obj, con, o)
      BY <1>4, <2>2 DEF Close, Uses
    <3>2. obj[o].database
      BY <3>1 DEF Good, Links
    <3> QED
      BY <2>2, <3>1, <3>2, RootIsClosed DEF Kept, ParentKeeps, Survives
  <2> QED
    BY <2>1, <2>2
<1> QED
  BY <1>2, <1>3, <1>4

LEMMA CloneKept ==
    ASSUME Good(obj, con), NEW o \in Obj, NEW n \in Obj, Clone(o, n), ~UNCHANGED <<obj, con>>
    PROVE  Kept
<1> DEFINE S == DestroyObject(obj, n)
<1>1. PICK r \in Obj : r = Root(o)
  BY GoodTypes DEF Root
<1>2. /\ Uses(o) /\ n # r /\ ~Abandons(obj, n)
      /\ obj' = [S EXCEPT ![n] = [Fresh EXCEPT !.parent = r, !.db = obj[r].db,
                                                !.database = obj[r].database],
                          ![r].clones = @ \cup {n}]
      /\ con' = ObjectGone(obj, con, n)
  BY <1>1 DEF Clone
<1>3. obj[r].alive /\ ~IsClone(obj, r) /\ obj[r].db # 0
  BY <1>1, <1>2 DEF Good, Tree, Root, Uses, Alive
<1>4. Good(S, con') /\ S[n] = Absent /\ Keeps(obj, S, r) /\ Survives(obj, S)
  BY <1>2, <1>3, ObjectDestroyed
<1> HIDE DEF S
<1>5. /\ S[r].alive /\ ~IsClone(S, r) /\ S[r].db # 0
      /\ obj' = [S EXCEPT ![n] = [Fresh EXCEPT !.parent = r, !.db = S[r].db,
                                                !.database = S[r].database],
                          ![r].clones = @ \cup {n}]
  BY <1>2, <1>3, <1>4 DEF Keeps, IsClone
<1>6. Good(obj', con')
  <2> DEFINE T == [S EXCEPT ![n] = [Fresh EXCEPT !.parent = r, !.db = S[r].db,
                                                 !.database = S[r].database],
                            ![r].clones = @ \cup {n}]
  <2>0. r # n /\ S[r].alive /\ ~IsClone(S, r) /\ S[r].db # 0 /\ S[n] = Absent /\ Good(S, con')
    BY <1>2, <1>4, <1>5
  <2>1. Good(T, con')
    BY <2>0, CloneMade, Zenon
  <2> QED
    BY <1>5, <2>1
<1>7. ParentKeeps(obj, obj')
  <2>1. S \in [Obj -> Record]
    BY <1>4, GoodTypes
  <2>2. obj'[n].clones = {} /\ ~obj'[n].result
    <3>1. PICK q : q = [Fresh EXCEPT !.parent = r, !.db = S[r].db, !.database = S[r].database]
      OBVIOUS
    <3>2. obj'[n] = q
      BY <1>2, <1>5, <2>1, <3>1
    <3>3. q.clones = Fresh.clones /\ q.result = Fresh.result
      BY <3>1, RecordFacts DEF Record
    <3> QED
      BY <3>2, <3>3, RecordFacts
  <2>3. \A p \in Obj \ {n} : obj'[p].result = S[p].result
    BY <1>5, <2>1 DEF Record
  <2>4. \A p \in Obj \ {n, r} : obj'[p] = S[p]
    BY <1>5, <2>1
  <2>5. obj'[r].clones = S[r].clones \cup {n}
    BY <1>2, <1>5, <2>1 DEF Record
  <2> QED
    BY <1>4, <2>2, <2>3, <2>4, <2>5 DEF ParentKeeps, Survives
<1> QED
  BY <1>6, <1>7 DEF Kept

------------------------------------------------------------------------------
(* The invariant of the specification, and what it says. *)

LEMMA SessionStep == SessionInv /\ [Next]_vars => SessionInv' /\ ParentKeeps(obj, obj')
<1> SUFFICES ASSUME SessionInv, [Next]_vars PROVE SessionInv' /\ ParentKeeps(obj, obj')
  OBVIOUS
<1>0. Good(obj, con)
  BY DEF SessionInv
<1>1. CASE UNCHANGED <<obj, con>>
  <2>1. fault' \in {"none", "connection", "callback", "parent"}
    <3>1. CASE UNCHANGED vars
      BY <3>1 DEF vars, SessionInv
    <3>2. CASE Next
      BY <3>2 DEF Next, New, Open, Createdb, ExecPlain, ExecCached, ExecError, ExecCachedError,
         ObjectMethod, Transaction, Callback, RunCallback, IncrBlob, CloseBlob, Clone, Close,
         Destroy, UseClosed, OnClosed, SessionInv
    <3> QED
      BY <3>1, <3>2
  <2>2. Good(obj', con') /\ ParentKeeps(obj, obj')
    BY <1>0, <1>1 DEF ParentKeeps
  <2> QED
    BY <2>1, <2>2 DEF SessionInv
<1>2. ASSUME Next, ~UNCHANGED <<obj, con>> PROVE Kept
  <2>1. PICK o \in Obj :
           \/ New(o) \/ Open(o) \/ Createdb(o)
           \/ \E fetch, several \in BOOLEAN : ExecPlain(o, fetch, several)
           \/ \E t \in Text, fetch \in BOOLEAN : ExecCached(o, t, fetch)
           \/ \E several \in BOOLEAN : ExecError(o, several)
           \/ \E t \in Text : ExecCachedError(o, t)
           \/ \E T \in SUBSET Text, clears \in BOOLEAN : ObjectMethod(o, T, clears)
           \/ Transaction(o)
           \/ Callback(o) \/ IncrBlob(o) \/ CloseBlob(o)
           \/ \E n \in Obj : Clone(o, n)
           \/ Close(o) \/ Destroy(o)
    BY <1>2 DEF Next, RunCallback, UseClosed, OnClosed
  <2>2. CASE New(o) \/ Destroy(o) \/ Close(o)
    BY <1>0, <1>2, <2>2, GoneKept
  <2>3. CASE Open(o) \/ Createdb(o)
    BY <1>0, <2>3, OpenKept
  <2>4. ASSUME NEW f \in BOOLEAN, NEW v \in BOOLEAN, ExecPlain(o, f, v) PROVE Kept
    BY <1>0, <2>4, ExecKept
  <2>5. ASSUME NEW t \in Text, NEW f \in BOOLEAN, ExecCached(o, t, f) PROVE Kept
    BY <1>0, <2>5, ExecKept
  <2>6. ASSUME NEW v \in BOOLEAN, ExecError(o, v) PROVE Kept
    BY <1>0, <2>6, ExecKept
  <2>7. ASSUME NEW t \in Text, ExecCachedError(o, t) PROVE Kept
    BY <1>0, <2>7, ExecKept
  <2>8. ASSUME NEW T \in SUBSET Text, NEW b \in BOOLEAN, ObjectMethod(o, T, b) PROVE Kept
    BY <1>0, <2>8, MethodKept
  <2>9. CASE Transaction(o)
    <3>1. {} \in SUBSET Text /\ TRUE \in BOOLEAN
      OBVIOUS
    <3> QED
      BY <1>0, <2>9, <3>1, MethodKept
  <2>10. CASE Callback(o) \/ IncrBlob(o) \/ CloseBlob(o)
    BY <1>0, <2>10, OtherKept
  <2>11. ASSUME NEW n \in Obj, Clone(o, n) PROVE Kept
    BY <1>0, <1>2, <2>11, CloneKept
  <2> QED
    BY <2>1, <2>2, <2>3, <2>4, <2>5, <2>6, <2>7, <2>8, <2>9, <2>10, <2>11
<1>3. ASSUME Next, ~UNCHANGED <<obj, con>> PROVE fault' = fault
  BY <1>3 DEF Next, New, Open, Createdb, ExecPlain, ExecCached, ExecError, ExecCachedError,
     ObjectMethod, Transaction, Callback, RunCallback, IncrBlob, CloseBlob, Clone, Close,
     Destroy, UseClosed, OnClosed
<1> QED
  BY <1>1, <1>2, <1>3 DEF vars, Kept, SessionInv

LEMMA SessionInit == Init => SessionInv
<1> SUFFICES ASSUME Init PROVE SessionInv
  OBVIOUS
<1>1. Typed(obj, con)
  BY RecordFacts DEF Init, Typed
<1>2. /\ \A o \in Obj : obj[o] = Absent
      /\ \A c \in Conn : con[c].link # "open"
  BY DEF Init, Unused
<1>3. Tree(obj) /\ Links(obj, con) /\ Results(obj)
  BY <1>2, RecordFacts DEF Tree, Links, Results, IsClone
<1> QED
  BY <1>1, <1>3 DEF SessionInv, Good, Init

LEMMA SessionAlways == Spec => []SessionInv
BY SessionInit, SessionStep, PTL DEF Spec

(* Every variable keeps its type. *)
THEOREM SessionTypes == Spec => []TypeOK
<1>1. SessionInv => TypeOK
  BY DEF SessionInv, Good, Typed, TypeOK, Record, Connection
<1> QED
  BY <1>1, SessionAlways, PTL

(* Clones and parents point at each other, in whatever order objects are    *)
(* made, replaced, closed and destroyed.                                    *)
THEOREM SessionTree == Spec => []CloneTree
<1>1. SessionInv => CloneTree
  BY Zenon DEF SessionInv, Good, Tree, CloneTree
<1> QED
  BY <1>1, SessionAlways, PTL

(* An object with a database name never points to a closed connection.      *)
THEOREM SessionNoDead == Spec => []NoDeadConnection
<1>1. SessionInv => NoDeadConnection
  BY DEF SessionInv, Good, Links, NoDeadConnection
<1> QED
  BY <1>1, SessionAlways, PTL

(* An open connection belongs to one root object and its clones.            *)
THEOREM SessionOwner == Spec => []OneOwner
<1>1. ASSUME SessionInv, NEW c \in Conn, con[c].link = "open"
      PROVE  \E r \in Obj : \A o \in Obj : obj[o].db = c <=> o = r \/ obj[o].parent = r
  <2>0. Tree(obj) /\ Links(obj, con) /\ Good(obj, con) /\ c # 0
    BY <1>1, GoodTypes DEF SessionInv, Good
  <2>1. PICK p \in Obj : obj[p].db = c
    BY <1>1, <2>0 DEF Links
  <2>2. PICK r \in Obj : r = Kin(obj, p)
    BY <2>0, GoodTypes
  <2>3. obj[r].db = c /\ ~IsClone(obj, r)
    BY <2>0, <2>1, <2>2 DEF Tree, Kin
  <2>4. ASSUME NEW o \in Obj, obj[o].db = c PROVE o = r \/ obj[o].parent = r
    <3>1. Kin(obj, o) = r
      BY <2>0, <2>1, <2>2, <2>4 DEF Links
    <3> QED
      BY <3>1 DEF Kin
  <2>5. ASSUME NEW o \in Obj, obj[o].parent = r PROVE obj[o].db = c
    BY <2>0, <2>3, <2>5, GoodTypes DEF Tree, IsClone
  <2> QED
    BY <2>3, <2>4, <2>5
<1>2. SessionInv => OneOwner
  BY <1>1 DEF OneOwner
<1> QED
  BY <1>2, SessionAlways, PTL

(* A result comes with a statement that is kept, on an open connection.     *)
THEOREM SessionResult == Spec => []ResultOwned
<1>1. ASSUME SessionInv, NEW o \in Obj, obj[o].result
      PROVE  /\ obj[o].stmt \in obj[o].cached \cup {Plain}
             /\ \E c \in Conn : c = obj[o].db /\ con[c].link = "open"
  BY <1>1, GoodTypes DEF SessionInv, Good, Results, Links
<1>2. SessionInv => ResultOwned
  BY <1>1 DEF ResultOwned
<1> QED
  BY <1>2, SessionAlways, PTL

(* A root loses its result only in a step after which none of its clones    *)
(* has one either: no exec on a clone takes the result of its parent.       *)
THEOREM SessionParentResult == Spec => CloneKeepsParentResult
<1> DEFINE A == \A r \in Obj : obj[r].result /\ ~obj'[r].result =>
                   \A k \in obj'[r].clones : ~obj'[k].result
<1>1. SessionInv /\ [Next]_vars => [A]_vars
  BY SessionStep DEF ParentKeeps
<1> QED
  BY <1>1, SessionAlways, PTL DEF Spec, CloneKeepsParentResult
================================================================================
