-------------------------- MODULE FirebirdFamilyProofs --------------------------
(****************************************************************************)
(* Theorems of FirebirdFamily.  A method is a composition of operators on   *)
(* w = [obj, srv, is]; there is a lemma for each of them, which says that   *)
(* the tree stays, that the handles still say what is open                  *)
(* (Handles: Apart, Made, Kept, Underway), and what becomes of the results  *)
(* and their lines (Shown), which makes each method a step of DbiFetch      *)
(* (Told).                                                                  *)
(****************************************************************************)
EXTENDS FirebirdAttached, FiniteSetTheorems, TLAPS

(* The records of the objects and the connections, and what the functions   *)
(* of the C code work on.                                                   *)
Parents     == Obj \cup {NoObj}
Attachments == Conn \cup {0}
Results     == 0 .. 2
Lengths     == 0 .. MaxLines
Lines       == -1 .. MaxLines - 1
Blobs       == {"none", "open", "dead"}
Record == [alive : BOOLEAN, parent : Parents, clones : SUBSET Obj, db : Attachments,
           database : BOOLEAN, auto : BOOLEAN, trans : Attachments, cursor : BOOLEAN,
           live : BOOLEAN, out : BOOLEAN, res : Results, len : Lengths, tuple : Lines,
           known : Lines, blob : Blobs]
Links  == {"unused", "open", "lost", "closed"}
Server == [link : Links, txn : {"none", "open"}, stuck : {FALSE},
           pending : SUBSET Work, durable : SUBSET Work]
State == [obj : [Obj -> Record], srv : [Conn -> Server], is : {"ok", "failed"}]

(* Record s has become r: what the tree consists of is the same, and no     *)
(* cursor has been opened; one that is open still has its lines.            *)
Lowered(s, r) ==
    /\ r.alive = s.alive /\ r.parent = s.parent /\ r.clones = s.clones
    /\ r.res = s.res
    /\ r.live => /\ s.live /\ r.cursor = s.cursor /\ r.out = s.out
                 /\ r.len = s.len /\ r.tuple = s.tuple /\ r.known = s.known

(* State w has become v in a method of object o.                            *)
Follows(w, v, o) ==
    /\ v \in State
    /\ \A p \in Obj : Lowered(w.obj[p], v.obj[p])
    /\ w.obj[o].db = 0 => v.obj[o].db = 0

LEMMA FollowsTwice ==
    ASSUME NEW w, NEW v, NEW u, NEW o \in Obj, Follows(w, v, o), Follows(v, u, o)
    PROVE  Follows(w, u, o)
BY DEF Follows, Lowered

LEMMA RootType == ASSUME RecordsOK, NEW o \in Obj PROVE Root(o) \in Obj
BY DEF RecordsOK, Root, IsClone

-----------------------------------------------------------------------------------
(* A record, an object and a connection changed. *)

LEMMA FreedRecord ==
    ASSUME NEW r \in Record, NEW a \in BOOLEAN, NEW b \in BOOLEAN, NEW c \in BOOLEAN
    PROVE  [r EXCEPT !.cursor = a, !.live = b, !.out = c] \in Record
BY DEF Record

LEMMA BereftRecord ==
    ASSUME NEW r \in Record, NEW a \in BOOLEAN, NEW b \in Blobs
    PROVE  [r EXCEPT !.live = a, !.blob = b] \in Record
BY DEF Record

LEMMA AttachedRecord ==
    ASSUME NEW r \in Record, NEW c \in Attachments
    PROVE  [r EXCEPT !.db = c] \in Record /\ [r EXCEPT !.trans = c] \in Record
BY DEF Record

LEMMA FlagRecord ==
    ASSUME NEW r \in Record, NEW b \in BOOLEAN
    PROVE  [r EXCEPT !.auto = b] \in Record /\ [r EXCEPT !.out = b] \in Record
BY DEF Record

LEMMA BlobRecord ==
    ASSUME NEW r \in Record, NEW b \in Blobs
    PROVE  [r EXCEPT !.blob = b] \in Record
BY DEF Record

LEMMA PutObject ==
    ASSUME NEW w \in State, NEW p \in Obj, NEW r \in Record
    PROVE  LET v == [w EXCEPT !.obj[p] = r]
           IN /\ v \in State /\ v.srv = w.srv /\ v.is = w.is /\ v.obj[p] = r
              /\ \A q \in Obj : q # p => v.obj[q] = w.obj[q]
BY DEF State

LEMMA PutServer ==
    ASSUME NEW w \in State, NEW c \in Attachments, NEW s \in Server
    PROVE  LET v == [w EXCEPT !.srv[c] = s]
           IN /\ v \in State /\ v.obj = w.obj /\ v.is = w.is
              /\ c \in Conn => v.srv[c] = s
              /\ \A d \in Conn : d # c => v.srv[d] = w.srv[d]
BY DEF State

LEMMA FreeStmtIs ==
    ASSUME NEW w \in State, NEW o \in Obj
    PROVE  LET v == FreeStmt(w, o)
           IN /\ Follows(w, v, o)
              /\ v.srv = w.srv /\ v.is = w.is
              /\ \A p \in Obj : p # o => v.obj[p] = w.obj[p]
              /\ ~v.obj[o].live
              /\ v.obj[o].db = w.obj[o].db /\ v.obj[o].trans = w.obj[o].trans
              /\ v.obj[o].blob = w.obj[o].blob
<1>0. PICK r \in Record : r = w.obj[o]
  BY DEF State
<1> DEFINE x == [r EXCEPT !.cursor = FALSE, !.live = FALSE, !.out = FALSE]
<1>1. x \in Record
  BY <1>0, FreedRecord
<1>2. FreeStmt(w, o) = [w EXCEPT !.obj[o] = x]
  BY <1>0 DEF FreeStmt, State
<1>3. ~x.live /\ x.db = r.db /\ x.trans = r.trans /\ x.blob = r.blob /\ Lowered(r, x)
  BY DEF Record, Lowered
<1> HIDE DEF x
<1>4. [w EXCEPT !.obj[o] = x] \in State
  BY <1>1, PutObject
<1> QED
  BY <1>0, <1>1, <1>2, <1>3, <1>4, PutObject DEF Follows, Lowered

LEMMA CloseCursorIs ==
    ASSUME NEW w \in State, NEW o \in Obj
    PROVE  LET v == CloseCursor(w, o)
           IN /\ Follows(w, v, o)
              /\ v.srv = w.srv /\ v.is = w.is
              /\ \A p \in Obj : p # o => v.obj[p] = w.obj[p]
              /\ v.obj[o].live => ~w.obj[o].cursor /\ v.obj[o] = w.obj[o]
              /\ v.obj[o].db = w.obj[o].db /\ v.obj[o].trans = w.obj[o].trans
              /\ v.obj[o].blob = w.obj[o].blob
<1>1. CASE w.obj[o].cursor
  BY <1>1, FreeStmtIs DEF CloseCursor
<1>2. CASE ~w.obj[o].cursor
  BY <1>2 DEF CloseCursor, Follows, Lowered
<1> QED
  BY <1>1, <1>2

LEMMA BereftIs ==
    ASSUME NEW w \in State, NEW S \in SUBSET Obj
    PROVE  LET O == Bereft(w, S)
           IN /\ O \in [Obj -> Record]
              /\ \A p \in Obj : /\ Lowered(w.obj[p], O[p])
                                /\ O[p].db = w.obj[p].db /\ O[p].trans = w.obj[p].trans
              /\ \A p \in S : ~O[p].live /\ O[p].blob # "open"
              /\ \A p \in Obj \ S : O[p] = w.obj[p]
<1>1. ASSUME NEW p \in Obj
      PROVE  LET r == w.obj[p]
                 x == [r EXCEPT !.live = FALSE, !.blob = IF @ = "open" THEN "dead" ELSE @]
             IN /\ x \in Record /\ Lowered(r, x) /\ x.db = r.db /\ x.trans = r.trans
                /\ ~x.live /\ x.blob # "open"
  <2>1. PICK r \in Record : r = w.obj[p]
    BY DEF State
  <2>2. PICK b \in Blobs : b = IF r.blob = "open" THEN "dead" ELSE r.blob
    BY DEF Record, Blobs
  <2>3. [r EXCEPT !.live = FALSE, !.blob = b] \in Record
    BY <2>1, <2>2, BereftRecord
  <2>4. LET x == [r EXCEPT !.live = FALSE, !.blob = b]
        IN Lowered(r, x) /\ x.db = r.db /\ x.trans = r.trans /\ ~x.live /\ x.blob = b
    BY DEF Record, Lowered
  <2>5. b # "open"
    BY <2>2
  <2> QED
    BY <2>1, <2>2, <2>3, <2>4, <2>5
<1>2. \A p \in Obj \ S : Lowered(w.obj[p], w.obj[p])
  BY DEF Lowered
<1>3. w.obj \in [Obj -> Record]
  BY DEF State
<1> QED
  BY <1>1, <1>2, <1>3 DEF Bereft

-----------------------------------------------------------------------------------
(* The family of an object. *)

(* Clones are attached to roots. *)
Rooted == \A p \in Obj : LET r == obj[p].parent
                         IN r # NoObj /\ obj[r].alive => obj[r].parent = NoObj
Tree == RecordsOK /\ CloneTree /\ Rooted

LEMMA RecordsType == RecordsOK <=> obj \in [Obj -> Record]
BY DEF RecordsOK, Record, Parents, Attachments, Results, Lengths, Lines, Blobs

LEMMA FamilyIs ==
    ASSUME Tree, NEW o \in Obj, Usable(o)
    PROVE  /\ Root(o) \in Obj /\ Family(o) \in SUBSET Obj
           /\ o \in Family(o) /\ Root(o) \in Family(o)
           /\ \A p \in Obj : p \in Family(o) <=> Usable(p) /\ Root(p) = Root(o)
           /\ Usable(Root(o)) /\ Root(Root(o)) = Root(o)
           /\ IsClone(o) => obj[o].clones = {}
<1> DEFINE R == Root(o)
<1>1. R \in Obj /\ obj[R].alive /\ obj[R].parent = NoObj
  BY RecordsType, RootType DEF Tree, Rooted, Usable, Root, IsClone, Record, Parents
<1>2. Root(R) = R /\ Usable(R)
  BY <1>1 DEF Root, IsClone, Usable
<1>3. obj[R].clones \in SUBSET Obj
  BY <1>1, RecordsType DEF Tree, Record
<1>4. \A p \in Obj : p \in obj[R].clones <=> obj[p].alive /\ obj[p].parent = R
  BY <1>1 DEF Tree, CloneTree
<1>5. \A p \in Obj : p \in Family(o) <=> Usable(p) /\ Root(p) = R
  <2> SUFFICES ASSUME NEW p \in Obj PROVE p \in Family(o) <=> Usable(p) /\ Root(p) = R
    OBVIOUS
  <2>1. NoObj # R
    BY <1>1, ServerAssumption
  <2>2. CASE p = R
    BY <1>2, <2>2 DEF Family
  <2>3. CASE p # R
    BY <1>1, <1>2, <1>4, <2>1, <2>3 DEF Family, Root, Usable, IsClone
  <2> QED
    BY <2>2, <2>3
<1>6. IsClone(o) => obj[o].clones = {}
  <2> SUFFICES ASSUME IsClone(o), NEW p \in Obj, p \in obj[o].clones PROVE FALSE
    BY RecordsType DEF Tree, Record
  <2>1. obj[o].alive /\ obj[p].parent = o
    BY DEF Usable, Tree, CloneTree
  <2>2. obj[o].parent = NoObj
    BY <2>1, ServerAssumption DEF Tree, Rooted
  <2> QED
    BY <2>2 DEF IsClone
<1> QED
  BY <1>1, <1>2, <1>3, <1>5, <1>6 DEF Family

-----------------------------------------------------------------------------------
(* What the handles say: a connection is used by one family and has been    *)
(* made; a cursor that is open has its flag and its columns; cursors and    *)
(* blobs are in the transaction of the family, which is on the connection   *)
(* of the object; and a transaction whose handle is kept is open.           *)

Up(O, p)    == IF O[p].parent # NoObj THEN O[p].parent ELSE p
Lives(O, p) == O[p].alive /\ O[Up(O, p)].alive
Uses(O, p, c) == O[p].db = c \/ O[p].trans = c

Apart(O)   == \A p, q \in Obj, c \in Conn :
                 Uses(O, p, c) /\ Uses(O, q, c) => Up(O, p) = Up(O, q)
Made(O, S) == \A p \in Obj, c \in Conn : Uses(O, p, c) => S[c].link # "unused"
Kept(O)    == \A p \in Obj : Lives(O, p) =>
                 /\ O[p].live => O[p].cursor /\ O[p].out
                 /\ O[p].live \/ O[p].blob = "open"
                       => O[p].db # 0 /\ O[Up(O, p)].trans = O[p].db
Underway(O, S) == \A p \in Obj, c \in Conn :
                     Lives(O, p) /\ O[Up(O, p)].trans = c /\ S[c].link = "open"
                        => S[c].txn = "open"
Handles(O, S) == Apart(O) /\ Made(O, S) /\ Kept(O) /\ Underway(O, S)

(* State w occurs in a method of object o: records stay in the tree, and    *)
(* the other objects get nothing.                                           *)
Alike(s, r) == r.alive = s.alive /\ r.parent = s.parent /\ r.clones = s.clones
In(w, o) == /\ Tree /\ o \in Obj /\ Usable(o)
            /\ w \in State /\ \A p \in Obj : Alike(obj[p], w.obj[p])
            /\ \A p \in Obj \ {o} : Lowered(obj[p], w.obj[p])

LEMMA InIs ==
    ASSUME NEW o \in Obj, NEW w, In(w, o)
    PROVE  /\ w \in State
           /\ \A p \in Obj : Up(w.obj, p) = Root(p) /\ (Lives(w.obj, p) <=> Usable(p))
           /\ \A p \in Obj : Usable(p) => Usable(Root(p)) /\ Root(Root(p)) = Root(p)
           /\ \A p \in Obj : Root(p) \in Obj
<1>1. \A p \in Obj : Root(p) \in Obj
  BY RootType DEF In, Tree
<1>2. \A p \in Obj : Up(w.obj, p) = Root(p)
  BY DEF In, Alike, Up, Root, IsClone
<1>3. \A p \in Obj : Lives(w.obj, p) <=> Usable(p)
  BY <1>1, <1>2 DEF In, Alike, Lives, Usable
<1>4. \A p \in Obj : Usable(p) => Usable(Root(p)) /\ Root(Root(p)) = Root(p)
  BY FamilyIs DEF In
<1> QED
  BY <1>1, <1>2, <1>3, <1>4 DEF In

LEMMA InStays ==
    ASSUME NEW o \in Obj, NEW w, NEW v, In(w, o), Follows(w, v, o) PROVE In(v, o)
BY DEF In, Follows, Lowered, Alike

(* From w to v nothing is opened and nothing that stays open is moved. *)
Falls(w, v) ==
    /\ \A p \in Obj : v.obj[p].db \in {w.obj[p].db, 0} /\ v.obj[p].trans \in {w.obj[p].trans, 0}
    /\ \A p \in Obj : Usable(p) =>
          /\ v.obj[p].live => /\ w.obj[p].live
                              /\ v.obj[p].cursor = w.obj[p].cursor
                              /\ v.obj[p].out = w.obj[p].out
          /\ v.obj[p].blob = "open" => w.obj[p].blob = "open"
          /\ v.obj[p].live \/ v.obj[p].blob = "open" =>
                /\ v.obj[p].db = w.obj[p].db
                /\ v.obj[Root(p)].trans = w.obj[Root(p)].trans
    /\ \A c \in Conn :
          /\ w.srv[c].link # "unused" => v.srv[c].link # "unused"
          /\ v.srv[c].link = "open" =>
                /\ w.srv[c].link = "open"
                /\ \/ v.srv[c].txn \in {"open", w.srv[c].txn}
                   \/ \A p \in Obj : Usable(p) => v.obj[Root(p)].trans # c

LEMMA HandlesFall ==
    ASSUME NEW o \in Obj, NEW w, NEW v, In(w, o), In(v, o), Falls(w, v),
           Handles(w.obj, w.srv)
    PROVE  Handles(v.obj, v.srv)
<1>1. \A p \in Obj : /\ Up(w.obj, p) = Root(p) /\ (Lives(w.obj, p) <=> Usable(p))
                     /\ Up(v.obj, p) = Root(p) /\ (Lives(v.obj, p) <=> Usable(p))
                     /\ Root(p) \in Obj
  BY InIs
<1>2. \A p \in Obj, c \in Conn : Uses(v.obj, p, c) => Uses(w.obj, p, c)
  <2> SUFFICES ASSUME NEW p \in Obj, NEW c \in Conn, Uses(v.obj, p, c) PROVE Uses(w.obj, p, c)
    OBVIOUS
  <2>1. c # 0
    BY DEF Conn
  <2> QED
    BY <2>1 DEF Uses, Falls
<1>3. Apart(v.obj)
  BY <1>1, <1>2 DEF Handles, Apart
<1>4. Made(v.obj, v.srv)
  BY <1>2 DEF Handles, Made, Falls
<1>5. Kept(v.obj)
  BY <1>1 DEF Handles, Kept, Falls
<1>6. Underway(v.obj, v.srv)
  <2> SUFFICES ASSUME NEW p \in Obj, NEW c \in Conn, Usable(p), v.obj[Root(p)].trans = c,
                      v.srv[c].link = "open"
               PROVE  v.srv[c].txn = "open"
    BY <1>1 DEF Underway
  <2>1. c # 0
    BY DEF Conn
  <2>2. w.obj[Root(p)].trans = c
    BY <1>1, <2>1 DEF Falls
  <2>3. w.srv[c].link = "open" => w.srv[c].txn = "open"
    BY <1>1, <2>2 DEF Handles, Underway
  <2> QED
    BY <2>3 DEF Falls
<1> QED
  BY <1>3, <1>4, <1>5, <1>6 DEF Handles

-----------------------------------------------------------------------------------
(* The functions of the C code that open nothing. *)

(* The attachments and the links are what they were. *)
Linked_Same(w, v) ==
    /\ \A p \in Obj : v.obj[p].db = w.obj[p].db
    /\ \A c \in Conn : v.srv[c].link = w.srv[c].link

LEMMA FallsSame ==
    ASSUME NEW w, NEW v, v.srv = w.srv,
           \A p \in Obj : /\ v.obj[p].db = w.obj[p].db /\ v.obj[p].trans = w.obj[p].trans
                          /\ v.obj[p].live => /\ w.obj[p].live
                                              /\ v.obj[p].cursor = w.obj[p].cursor
                                              /\ v.obj[p].out = w.obj[p].out
                          /\ v.obj[p].blob = "open" => w.obj[p].blob = "open",
           \A p \in Obj : Root(p) \in Obj
    PROVE  Falls(w, v) /\ Linked_Same(w, v)
BY DEF Falls, Linked_Same

LEMMA CloseCursorFalls ==
    ASSUME NEW o \in Obj, NEW w, In(w, o)
    PROVE  LET v == CloseCursor(w, o)
           IN /\ Follows(w, v, o) /\ Falls(w, v) /\ Linked_Same(w, v)
              /\ v.is = w.is /\ v.srv = w.srv
              /\ Handles(w.obj, w.srv) => ~v.obj[o].live
              /\ Trans(v, o) = Trans(w, o)
<1>1. w \in State /\ \A p \in Obj : Root(p) \in Obj
  BY InIs
<1> DEFINE v == CloseCursor(w, o)
<1>2. /\ Follows(w, v, o)
      /\ v.srv = w.srv /\ v.is = w.is
      /\ \A p \in Obj : p # o => v.obj[p] = w.obj[p]
      /\ v.obj[o].live => ~w.obj[o].cursor /\ v.obj[o] = w.obj[o]
      /\ v.obj[o].db = w.obj[o].db /\ v.obj[o].trans = w.obj[o].trans
      /\ v.obj[o].blob = w.obj[o].blob
  BY <1>1, CloseCursorIs
<1> HIDE DEF v
<1>3. \A p \in Obj : v.obj[p].live => w.obj[p].live
  BY <1>2 DEF Follows, Lowered
<1>4. Falls(w, v) /\ Linked_Same(w, v)
  <2>1. \A p \in Obj : /\ v.obj[p].db = w.obj[p].db /\ v.obj[p].trans = w.obj[p].trans
                       /\ v.obj[p].live => /\ w.obj[p].live
                                           /\ v.obj[p].cursor = w.obj[p].cursor
                                           /\ v.obj[p].out = w.obj[p].out
                       /\ v.obj[p].blob = "open" => w.obj[p].blob = "open"
    BY <1>2, <1>3
  <2> QED
    BY <1>1, <1>2, <2>1, FallsSame
<1>5. Handles(w.obj, w.srv) => ~v.obj[o].live
  <2>1. Lives(w.obj, o)
    BY InIs DEF In
  <2> QED
    BY <1>2, <1>3, <2>1 DEF Handles, Kept
<1>6. Trans(v, o) = Trans(w, o)
  BY <1>1, <1>2 DEF Trans
<1> QED
  BY <1>2, <1>4, <1>5, <1>6 DEF v

(* After the end of the transaction of a family. *)
Over(w, v, o) ==
    /\ Follows(w, v, o) /\ Linked_Same(w, v) /\ v.is = w.is
    /\ Apart(w.obj) => Falls(w, v)
    /\ Trans(v, o) = 0
    /\ \A p \in Obj : v.obj[p].live \/ v.obj[p].blob = "open" => Root(p) # Root(o) \/ ~Usable(p)

LEMMA TransOverIs ==
    ASSUME NEW o \in Obj, NEW w, In(w, o)
    PROVE  Over(w, TransOver(w, o), o) /\ TransOver(w, o).srv = w.srv
<1> DEFINE R == Root(o)
           S == Family(o)
           O == Bereft(w, S)
           v == TransOver(w, o)
<1>1. /\ w \in State /\ R \in Obj /\ S \in SUBSET Obj /\ o \in S /\ R \in S
      /\ \A p \in Obj : p \in S <=> Usable(p) /\ Root(p) = R
      /\ \A p \in Obj : Root(p) \in Obj /\ (Usable(p) => Root(Root(p)) = Root(p))
  BY InIs, FamilyIs DEF In
<1>2. /\ O \in [Obj -> Record]
      /\ \A p \in Obj : /\ Lowered(w.obj[p], O[p])
                        /\ O[p].db = w.obj[p].db /\ O[p].trans = w.obj[p].trans
      /\ \A p \in S : ~O[p].live /\ O[p].blob # "open"
      /\ \A p \in Obj \ S : O[p] = w.obj[p]
  BY <1>1, BereftIs
<1>3. PICK r \in Record : r = O[R]
  BY <1>1, <1>2
<1> DEFINE x == [r EXCEPT !.trans = 0]
<1>4. v = [w EXCEPT !.obj = [O EXCEPT ![R] = x]]
  BY <1>1, <1>2, <1>3 DEF TransOver
<1>5. x \in Record
  BY <1>3, AttachedRecord DEF Attachments
<1>6. /\ x.trans = 0 /\ x.db = r.db /\ x.live = r.live /\ x.blob = r.blob /\ x.alive = r.alive
      /\ x.parent = r.parent /\ x.clones = r.clones /\ x.res = r.res
  BY DEF Record
<1> HIDE DEF O, S, R, x
<1>7. /\ v \in State /\ v.srv = w.srv /\ v.is = w.is /\ v.obj[R] = x
      /\ \A p \in Obj : p # R => v.obj[p] = O[p]
  BY <1>1, <1>2, <1>4, <1>5 DEF State
<1> HIDE DEF v
<1>8. \A p \in Obj : /\ Lowered(w.obj[p], v.obj[p])
                     /\ v.obj[p].db = w.obj[p].db
                     /\ v.obj[p].trans = IF p = R THEN 0 ELSE w.obj[p].trans
                     /\ p \in S => ~v.obj[p].live /\ v.obj[p].blob # "open"
                     /\ p \notin S => v.obj[p] = w.obj[p]
  BY <1>1, <1>2, <1>3, <1>6, <1>7 DEF Lowered
<1>9. Follows(w, v, o) /\ Linked_Same(w, v)
  BY <1>7, <1>8 DEF Follows, Linked_Same
<1>10. \A p \in Obj : p \notin S /\ Usable(p) => Root(p) # R
  BY <1>1
<1>11. Falls(w, v)
  <2>1. ASSUME NEW p \in Obj, Usable(p), v.obj[p].live \/ v.obj[p].blob = "open"
        PROVE  v.obj[p] = w.obj[p] /\ v.obj[Root(p)].trans = w.obj[Root(p)].trans
    BY <1>1, <1>8, <1>10, <2>1
  <2> QED
    BY <1>7, <1>8, <2>1 DEF Falls
<1> QED
  BY <1>1, <1>7, <1>8, <1>9, <1>11 DEF Over, Trans, R, v

LEMMA ServerSteps ==
    ASSUME NEW s \in Server
    PROVE  /\ Committed(s) \in Server /\ Committed(s).link = s.link /\ Committed(s).txn = "none"
           /\ RolledBack(s) \in Server /\ RolledBack(s).link = s.link
           /\ RolledBack(s).txn = "none"
           /\ Begun(s) \in Server /\ Begun(s).link = s.link /\ Begun(s).txn = "open"
           /\ Linked(s) \in Server /\ Linked(s).link = "open"
           /\ HungUp(s) \in Server /\ HungUp(s).link = "closed"
BY DEF Server, Committed, RolledBack, Begun, Linked, HungUp, Silent, Links

LEMMA EndedIs ==
    ASSUME NEW o \in Obj, NEW w, In(w, o), Trans(w, o) \in Conn,
           NEW s \in Server, s.link = w.srv[Trans(w, o)].link
    PROVE  Over(w, [TransOver(w, o) EXCEPT !.srv[Trans(w, o)] = s], o)
<1> DEFINE t == Trans(w, o)
           u == TransOver(w, o)
           v == [u EXCEPT !.srv[t] = s]
<1>1. Over(w, u, o) /\ u.srv = w.srv
  BY TransOverIs
<1>2. w \in State /\ u \in State
  BY <1>1 DEF In, Over, Follows
<1> HIDE DEF u, t
<1>3. /\ v \in State /\ v.obj = u.obj /\ v.is = u.is
      /\ v.srv[t] = s
      /\ \A d \in Conn : d # t => v.srv[d] = u.srv[d]
  BY <1>2, PutServer DEF Attachments, t
<1> HIDE DEF v
<1>4. \A c \in Conn : v.srv[c].link = w.srv[c].link
  BY <1>1, <1>3 DEF t
<1>5. Follows(w, v, o) /\ Linked_Same(w, v) /\ v.is = w.is /\ Trans(v, o) = 0
  BY <1>1, <1>3, <1>4 DEF Over, Follows, Linked_Same, Trans
<1>6. ASSUME Apart(w.obj) PROVE Falls(w, v)
  <2>1. Falls(w, u)
    BY <1>1, <1>6 DEF Over
  <2>2. ASSUME NEW p \in Obj, Usable(p) PROVE v.obj[Root(p)].trans # t
    <3>1. /\ Root(p) \in Obj /\ Root(Root(p)) = Root(p) /\ Root(o) \in Obj
          /\ Root(Root(o)) = Root(o)
          /\ Up(w.obj, Root(p)) = Root(p) /\ Up(w.obj, Root(o)) = Root(o)
      BY InIs, <2>2 DEF In
    <3>2. CASE Root(p) = Root(o)
      BY <1>5, <3>2 DEF Trans, t, Conn
    <3>3. CASE Root(p) # Root(o)
      <4>1. w.obj[Root(p)].trans # t
        BY <1>6, <3>1, <3>3 DEF Apart, Uses, Trans, t
      <4>2. v.obj[Root(p)].trans \in {w.obj[Root(p)].trans, 0} /\ t # 0
        BY <1>3, <2>1, <3>1 DEF Falls, t, Conn
      <4> QED
        BY <4>1, <4>2
    <3> QED
      BY <3>2, <3>3
  <2> QED
    BY <1>1, <1>3, <1>4, <2>1, <2>2 DEF Falls
<1> QED
  BY <1>1, <1>3, <1>5, <1>6 DEF Over, v, u, t

LEMMA TransType ==
    ASSUME NEW o \in Obj, NEW w, In(w, o)
    PROVE  Trans(w, o) \in Attachments /\ w.obj[o].db \in Attachments /\ AutocommitState(w, o) \in BOOLEAN
BY InIs DEF State, Record, Trans, AutocommitState

LEMMA FullCommitIs ==
    ASSUME NEW o \in Obj, NEW w, In(w, o), Trans(w, o) \in Conn
    PROVE  Over(w, FullCommit(w, o), o)
<1> DEFINE t == Trans(w, o)
<1>1. w.srv[t] \in Server
  BY InIs DEF State
<1>2. TransOver(w, o) \in State /\ TransOver(w, o).srv = w.srv
  BY TransOverIs DEF Over, Follows
<1>3. FullCommit(w, o) = [TransOver(w, o) EXCEPT !.srv[t] = Committed(w.srv[t])]
  BY <1>2 DEF FullCommit
<1> QED
  BY <1>1, <1>3, ServerSteps, EndedIs

LEMMA UndoIs ==
    ASSUME NEW o \in Obj, NEW w, In(w, o)
    PROVE  /\ Follows(w, Undo(w, o), o) /\ Linked_Same(w, Undo(w, o)) /\ Undo(w, o).is = w.is
           /\ Apart(w.obj) => Falls(w, Undo(w, o))
           /\ Trans(Undo(w, o), o) = 0
<1> DEFINE t == Trans(w, o)
<1>1. CASE t = 0
  <2>1. Undo(w, o) = w
    BY <1>1 DEF Undo
  <2> QED
    BY <1>1, <2>1, InIs DEF Follows, Lowered, Linked_Same, Falls
<1>2. CASE t # 0
  <2>0. t \in Conn
    BY <1>2, TransType DEF Attachments
  <2>1. w.srv[t] \in Server
    BY <2>0, InIs DEF State
  <2>2. TransOver(w, o) \in State /\ TransOver(w, o).srv = w.srv
    BY TransOverIs DEF Over, Follows
  <2>3. Undo(w, o) = [TransOver(w, o) EXCEPT !.srv[t] = RolledBack(w.srv[t])]
    BY <1>2, <2>2 DEF Undo
  <2> QED
    BY <2>0, <2>1, <2>3, ServerSteps, EndedIs DEF Over
<1> QED
  BY <1>1, <1>2

LEMMA RetainingIs ==
    ASSUME NEW o \in Obj, NEW w, In(w, o), Trans(w, o) \in Conn
    PROVE  LET v == Retaining(w, o)
           IN /\ Follows(w, v, o) /\ Falls(w, v) /\ Linked_Same(w, v) /\ v.is = w.is
              /\ Trans(v, o) = Trans(w, o)
<1> DEFINE t == Trans(w, o)
           s == Begun(Committed(w.srv[t]))
           v == Retaining(w, o)
<1>1. w \in State /\ w.srv[t] \in Server /\ \A p \in Obj : Root(p) \in Obj
  BY InIs DEF State
<1>2. s \in Server /\ s.link = w.srv[t].link /\ s.txn = "open"
  BY <1>1, ServerSteps
<1>3. v = [w EXCEPT !.srv[t] = s]
  BY DEF Retaining
<1> HIDE DEF s, t
<1>4. /\ v \in State /\ v.obj = w.obj /\ v.is = w.is
      /\ v.srv[t] = s
      /\ \A d \in Conn : d # t => v.srv[d] = w.srv[d]
  BY <1>1, <1>2, <1>3, PutServer DEF Attachments, t
<1> HIDE DEF v
<1>5. Follows(w, v, o) /\ Linked_Same(w, v) /\ Trans(v, o) = t
  BY <1>2, <1>4 DEF Follows, Lowered, Linked_Same, Trans, t
<1>6. Falls(w, v)
  BY <1>2, <1>4, <1>5 DEF Falls, Linked_Same
<1> QED
  BY <1>4, <1>5, <1>6 DEF v, t

-----------------------------------------------------------------------------------
(* Attaching again. *)

(* Object o, which has clones, is not attached. *)
Detached(w, o) == obj[o].clones # {} /\ w.obj[o].db = 0

(* What dbi_Firebird_Reconnect has done when it calls isc_attach_database;  *)
(* again: the objects that get a new statement after that.                  *)
Gone(w, o, again) ==
    LET d == w.obj[o].db
        left == FreeStmt([w EXCEPT !.obj =
                    Bereft(w, again \cup {p \in Family(o) : w.obj[p].db = d})], o)
    IN [left EXCEPT !.srv[d] = HungUp(@), !.obj[o].db = 0, !.obj[o].trans = 0]

LEMMA GoneIs ==
    ASSUME NEW o \in Obj, NEW w, In(w, o), w.obj[o].db # 0,
           NEW again \in SUBSET Obj, again \subseteq Family(o)
    PROVE  LET v == Gone(w, o, again)
               d == w.obj[o].db
           IN /\ Follows(w, v, o) /\ v.is = w.is
              /\ v.obj[o].db = 0 /\ v.obj[o].trans = 0
              /\ \A p \in Obj : p # o => /\ v.obj[p].db = w.obj[p].db
                                         /\ v.obj[p].trans = w.obj[p].trans
              /\ ~v.obj[o].live /\ v.obj[o].blob # "open"
              /\ \A p \in again : ~v.obj[p].live /\ v.obj[p].blob # "open"
              /\ \A p \in Obj : v.obj[p].live =>
                    v.obj[p].cursor = w.obj[p].cursor /\ v.obj[p].out = w.obj[p].out
              /\ \A p \in Obj : v.obj[p].blob = "open" => w.obj[p].blob = "open"
              /\ d \in Conn /\ v.srv[d].link = "closed"
              /\ \A c \in Conn : c # d => v.srv[c] = w.srv[c]
<1> DEFINE d == w.obj[o].db
           S == again \cup {p \in Family(o) : w.obj[p].db = d}
           O == Bereft(w, S)
           a == [w EXCEPT !.obj = O]
           b == FreeStmt(a, o)
           v == Gone(w, o, again)
<1>1. /\ w \in State /\ S \in SUBSET Obj /\ o \in S /\ d \in Conn
  BY InIs, FamilyIs, TransType DEF In, Attachments
<1>2. /\ O \in [Obj -> Record]
      /\ \A p \in Obj : /\ Lowered(w.obj[p], O[p])
                        /\ O[p].db = w.obj[p].db /\ O[p].trans = w.obj[p].trans
      /\ \A p \in S : ~O[p].live /\ O[p].blob # "open"
      /\ \A p \in Obj \ S : O[p] = w.obj[p]
  BY <1>1, BereftIs
<1>3. again \subseteq S
  OBVIOUS
<1> HIDE DEF O, S, d
<1>4. a \in State /\ a.obj = O /\ a.srv = w.srv /\ a.is = w.is
  BY <1>1, <1>2 DEF State
<1> HIDE DEF a
<1>5. /\ Follows(a, b, o)
      /\ b.srv = a.srv /\ b.is = a.is
      /\ \A p \in Obj : p # o => b.obj[p] = a.obj[p]
      /\ ~b.obj[o].live
      /\ b.obj[o].db = a.obj[o].db /\ b.obj[o].trans = a.obj[o].trans
      /\ b.obj[o].blob = a.obj[o].blob
  BY <1>4, FreeStmtIs
<1>6. v = [b EXCEPT !.srv[d] = HungUp(@), !.obj[o].db = 0, !.obj[o].trans = 0]
  BY DEF Gone, b, a, O, S, d
<1> HIDE DEF b, v
<1>7. PICK r \in Record : r = b.obj[o]
  BY <1>5 DEF Follows, State
<1>8. PICK s \in Server : s = b.srv[d]
  BY <1>1, <1>5 DEF Follows, State
<1> DEFINE x == [r EXCEPT !.db = 0, !.trans = 0]
           y == HungUp(s)
<1>9. x \in Record /\ y \in Server /\ y.link = "closed"
  <2>1. [r EXCEPT !.db = 0] \in Record
    BY AttachedRecord DEF Attachments
  <2>2. [[r EXCEPT !.db = 0] EXCEPT !.trans = 0] \in Record
    BY <2>1, AttachedRecord DEF Attachments
  <2>3. x = [[r EXCEPT !.db = 0] EXCEPT !.trans = 0]
    BY DEF Record
  <2> QED
    BY <2>2, <2>3, ServerSteps
<1>10. /\ x.db = 0 /\ x.trans = 0 /\ x.live = r.live /\ x.blob = r.blob /\ Lowered(r, x)
  BY DEF Record, Lowered
<1>11. v = [b EXCEPT !.srv[d] = y, !.obj[o] = x]
  BY <1>5, <1>6, <1>7, <1>8 DEF Follows, State
<1> HIDE DEF x, y
<1>12. /\ v \in State /\ v.is = b.is
       /\ v.obj[o] = x /\ \A p \in Obj : p # o => v.obj[p] = b.obj[p]
       /\ v.srv[d] = y /\ \A c \in Conn : c # d => v.srv[c] = b.srv[c]
  BY <1>1, <1>5, <1>9, <1>11 DEF Follows, State
<1>13. \A p \in Obj : /\ Lowered(w.obj[p], v.obj[p])
                      /\ p # o => v.obj[p] = O[p]
                      /\ v.obj[p].live => v.obj[p] = w.obj[p]
                      /\ v.obj[p].blob = "open" => w.obj[p].blob = "open"
  <2> SUFFICES ASSUME NEW p \in Obj
               PROVE  /\ Lowered(w.obj[p], v.obj[p])
                      /\ p # o => v.obj[p] = O[p]
                      /\ v.obj[p].live => v.obj[p] = w.obj[p]
                      /\ v.obj[p].blob = "open" => w.obj[p].blob = "open"
    OBVIOUS
  <2>1. CASE p = o
    BY <1>1, <1>2, <1>4, <1>5, <1>7, <1>10, <1>12, <2>1 DEF Lowered, Follows
  <2>2. CASE p # o
    <3>1. v.obj[p] = O[p]
      BY <1>4, <1>5, <1>12, <2>2
    <3> QED
      BY <1>1, <1>2, <2>2, <3>1
  <2> QED
    BY <2>1, <2>2
<1>14. ~v.obj[o].live /\ v.obj[o].blob # "open"
  BY <1>1, <1>2, <1>4, <1>5, <1>7, <1>10, <1>12
<1>15. \A p \in again : ~v.obj[p].live /\ v.obj[p].blob # "open"
  BY <1>2, <1>3, <1>13, <1>14
<1>16. Follows(w, v, o)
  BY <1>10, <1>12, <1>13 DEF Follows
<1> QED
  BY <1>1, <1>2, <1>4, <1>5, <1>9, <1>10, <1>12, <1>13, <1>14, <1>15, <1>16 DEF v, d

LEMMA FailsIs ==
    ASSUME NEW w \in State, NEW o \in Obj
    PROVE  LET v == Fails(w)
           IN Follows(w, v, o) /\ v.obj = w.obj /\ v.srv = w.srv /\ v.is = "failed" /\ ~Ok(v)
BY DEF Fails, State, Follows, Lowered, Ok

(* From Gone to the new attachment c. *)
LEMMA AttachedIs ==
    ASSUME NEW o \in Obj, NEW w, In(w, o), NEW c \in Conn,
           NEW S \in SUBSET Obj, o \in S, \A p \in S : Root(p) = Root(o),
           NEW v,
           v = [is |-> "ok", srv |-> [w.srv EXCEPT ![c] = Linked(@)],
                obj |-> [p \in Obj |-> IF p \in S THEN [w.obj[p] EXCEPT !.db = c] ELSE w.obj[p]]]
    PROVE  /\ v \in State /\ \A p \in Obj : Lowered(w.obj[p], v.obj[p])
           /\ \A p \in Obj : v.obj[p].trans = w.obj[p].trans
           /\ v.obj[o].db = c /\ v.srv[c].link = "open"
           /\ /\ w.srv[c].link = "unused"
              /\ \A p \in S : ~w.obj[p].live /\ w.obj[p].blob # "open"
              /\ Handles(w.obj, w.srv)
              => Handles(v.obj, v.srv)
<1>1. /\ w \in State
      /\ \A p \in Obj : Up(w.obj, p) = Root(p) /\ (Lives(w.obj, p) <=> Usable(p))
      /\ \A p \in Obj : Root(p) \in Obj
  BY InIs
<1>2. ASSUME NEW p \in Obj
      PROVE  LET r == w.obj[p]
                 x == [r EXCEPT !.db = c]
             IN /\ x \in Record /\ Lowered(r, x) /\ Lowered(r, r) /\ r \in Record
                /\ x.db = c /\ x.trans = r.trans /\ x.live = r.live
                /\ x.cursor = r.cursor /\ x.out = r.out /\ x.blob = r.blob
  <2>1. PICK r \in Record : r = w.obj[p]
    BY <1>1 DEF State
  <2>2. [r EXCEPT !.db = c] \in Record
    BY AttachedRecord DEF Attachments
  <2>3. LET x == [r EXCEPT !.db = c]
        IN /\ Lowered(r, x) /\ Lowered(r, r)
           /\ x.db = c /\ x.trans = r.trans /\ x.live = r.live
           /\ x.cursor = r.cursor /\ x.out = r.out /\ x.blob = r.blob
    BY DEF Record, Lowered
  <2> QED
    BY <2>1, <2>2, <2>3
<1>3. /\ w.srv[c] \in Server /\ Linked(w.srv[c]) \in Server /\ Linked(w.srv[c]).link = "open"
  BY <1>1, ServerSteps DEF State
<1>4. /\ v.is = "ok" /\ v.srv \in [Conn -> Server]
      /\ v.srv[c].link = "open"
      /\ \A d \in Conn : d # c => v.srv[d] = w.srv[d]
  BY <1>1, <1>3 DEF State
<1>5. \A p \in Obj : /\ v.obj[p] \in Record /\ Lowered(w.obj[p], v.obj[p])
                     /\ v.obj[p].db = IF p \in S THEN c ELSE w.obj[p].db
                     /\ v.obj[p].trans = w.obj[p].trans /\ v.obj[p].live = w.obj[p].live
                     /\ v.obj[p].cursor = w.obj[p].cursor /\ v.obj[p].out = w.obj[p].out
                     /\ v.obj[p].blob = w.obj[p].blob
  BY <1>2
<1>6. v \in State
  <2>1. v.obj \in [Obj -> Record]
    BY <1>5
  <2> QED
    BY <1>4, <2>1 DEF State
<1>7. ASSUME w.srv[c].link = "unused",
             \A p \in S : ~w.obj[p].live /\ w.obj[p].blob # "open",
             Handles(w.obj, w.srv)
      PROVE  Handles(v.obj, v.srv)
  <2>1. \A p \in Obj : Up(v.obj, p) = Root(p) /\ (Lives(v.obj, p) <=> Usable(p))
    <3>1. \A p \in Obj : Up(v.obj, p) = Up(w.obj, p)
      BY <1>5 DEF Lowered, Up
    <3> QED
      BY <1>1, <1>5, <3>1 DEF Lowered, Lives
  <2>2. \A p \in Obj : ~Uses(w.obj, p, c)
    BY <1>7 DEF Handles, Made
  <2>3. \A p \in Obj, d \in Conn : Uses(v.obj, p, d) =>
           IF d = c THEN Root(p) = Root(o) ELSE Uses(w.obj, p, d)
    BY <1>5, <2>2 DEF Uses
  <2>4. Apart(v.obj)
    BY <1>1, <1>7, <2>1, <2>3 DEF Handles, Apart
  <2>5. Made(v.obj, v.srv)
    BY <1>4, <1>7, <2>3 DEF Handles, Made
  <2>6. Kept(v.obj)
    <3> SUFFICES ASSUME NEW p \in Obj, Usable(p)
                 PROVE  /\ v.obj[p].live => v.obj[p].cursor /\ v.obj[p].out
                        /\ v.obj[p].live \/ v.obj[p].blob = "open"
                              => v.obj[p].db # 0 /\ v.obj[Root(p)].trans = v.obj[p].db
      BY <2>1 DEF Kept
    <3>1. /\ w.obj[p].live => w.obj[p].cursor /\ w.obj[p].out
          /\ w.obj[p].live \/ w.obj[p].blob = "open"
                => w.obj[p].db # 0 /\ w.obj[Root(p)].trans = w.obj[p].db
      BY <1>1, <1>7 DEF Handles, Kept
    <3> QED
      BY <1>1, <1>5, <1>7, <3>1
  <2>7. Underway(v.obj, v.srv)
    <3> SUFFICES ASSUME NEW p \in Obj, NEW d \in Conn, Usable(p), v.obj[Root(p)].trans = d,
                        v.srv[d].link = "open"
                 PROVE  v.srv[d].txn = "open"
      BY <2>1 DEF Underway
    <3>1. w.obj[Root(p)].trans = d
      BY <1>1, <1>5
    <3>2. d # c
      BY <1>1, <2>2, <3>1 DEF Uses
    <3> QED
      BY <1>1, <1>4, <1>7, <3>1, <3>2 DEF Handles, Underway
  <2> QED
    BY <2>4, <2>5, <2>6, <2>7 DEF Handles
<1> QED
  BY <1>4, <1>5, <1>6, <1>7

LEMMA ReconnectIs ==
    ASSUME NEW o \in Obj, NEW w, In(w, o), NEW c \in Attachments
    PROVE  LET v == Reconnect(w, o, c)
           IN /\ Follows(w, v, o)
              /\ Ok(v) => c # 0 /\ v.obj[o].db = c /\ v.srv[c].link = "open"
              /\ Trans(w, o) = 0 => Trans(v, o) = 0
              /\ (c # 0 => w.srv[c].link = "unused") /\ Handles(w.obj, w.srv)
                    => Detached(v, o) \/ Handles(v.obj, v.srv)
<1> DEFINE d == w.obj[o].db
           v == Reconnect(w, o, c)
           again == IF c = 0 THEN {} ELSE obj[o].clones
           gone == Gone(w, o, again)
<1>1. w \in State /\ \A p \in Obj : Root(p) \in Obj
  BY InIs
<1>2. CASE d = 0
  <2>1. v = Fails(w)
    BY <1>2 DEF Reconnect
  <2> QED
    BY <1>1, <2>1, FailsIs DEF Trans
<1>3. CASE d # 0
  <2>1. /\ obj[o].clones \in SUBSET Obj /\ obj[o].clones \subseteq Family(o)
        /\ Root(o) \in Obj /\ o \in Family(o)
        /\ \A p \in Family(o) : p \in Obj /\ Root(p) = Root(o)
        /\ \A p \in Obj : Usable(p) /\ Root(p) = Root(o) => p \in Family(o)
        /\ IsClone(o) => obj[o].clones = {}
        /\ ~IsClone(o) => Root(o) = o /\ Family(o) = {o} \cup obj[o].clones
    <3>1. obj[o].clones \in SUBSET Obj
      BY RecordsType DEF In, Tree, Record
    <3> QED
      BY <3>1, FamilyIs DEF In, Family, Root
  <2>2. again \in SUBSET Obj /\ again \subseteq Family(o)
    BY <2>1
  <2>3. /\ Follows(w, gone, o) /\ gone.is = w.is
        /\ gone.obj[o].db = 0 /\ gone.obj[o].trans = 0
        /\ \A p \in Obj : p # o => /\ gone.obj[p].db = w.obj[p].db
                                   /\ gone.obj[p].trans = w.obj[p].trans
        /\ ~gone.obj[o].live /\ gone.obj[o].blob # "open"
        /\ \A p \in again : ~gone.obj[p].live /\ gone.obj[p].blob # "open"
        /\ \A p \in Obj : gone.obj[p].live =>
              gone.obj[p].cursor = w.obj[p].cursor /\ gone.obj[p].out = w.obj[p].out
        /\ \A p \in Obj : gone.obj[p].blob = "open" => w.obj[p].blob = "open"
        /\ d \in Conn /\ gone.srv[d].link = "closed"
        /\ \A e \in Conn : e # d => gone.srv[e] = w.srv[e]
    BY <1>3, <2>2, GoneIs
  <2>4. v = IF c = 0 THEN Fails(gone)
            ELSE [is |-> "ok", srv |-> [gone.srv EXCEPT ![c] = Linked(@)],
                  obj |-> [p \in Obj |-> IF p = o \/ p \in obj[o].clones
                                         THEN [gone.obj[p] EXCEPT !.db = c] ELSE gone.obj[p]]]
    BY <1>3 DEF Reconnect, Gone
  <2> HIDE DEF gone, v
  <2>5. In(gone, o) /\ gone \in State
    BY <2>3, InStays DEF Follows
  <2>6. \/ c = 0 /\ obj[o].clones # {}
        \/ Falls(w, gone)
    <3> SUFFICES ASSUME c # 0 \/ obj[o].clones = {} PROVE Falls(w, gone)
      OBVIOUS
    <3>1. ~IsClone(o) => \A p \in Family(o) : ~gone.obj[p].live /\ gone.obj[p].blob # "open"
      BY <2>1, <2>3
    <3>2. ASSUME NEW p \in Obj, Usable(p), gone.obj[p].live \/ gone.obj[p].blob = "open"
          PROVE  gone.obj[Root(p)].trans = w.obj[Root(p)].trans /\ p # o
      <4>1. p # o
        BY <2>3, <3>2
      <4>2. CASE IsClone(o)
        <5>1. Root(p) # o
          <6> SUFFICES ASSUME Root(p) = o PROVE FALSE
            OBVIOUS
          <6>1. Root(o) = o
            BY <3>2, InIs
          <6> QED
            BY <4>2, <6>1 DEF Root, IsClone, In, Tree, Rooted, Usable
        <5> QED
          BY <1>1, <2>3, <4>1, <5>1
      <4>3. CASE ~IsClone(o)
        <5>1. Root(p) # Root(o)
          BY <2>1, <3>1, <3>2, <4>3
        <5> QED
          BY <1>1, <2>1, <2>3, <4>1, <4>3, <5>1
      <4> QED
        BY <4>2, <4>3
    <3>3. \A p \in Obj : gone.obj[p].live => w.obj[p].live
      BY <2>3 DEF Follows, Lowered
    <3>4. \A p \in Obj : /\ gone.obj[p].db \in {w.obj[p].db, 0}
                         /\ gone.obj[p].trans \in {w.obj[p].trans, 0}
      BY <2>3
    <3>5. \A e \in Conn : /\ w.srv[e].link # "unused" => gone.srv[e].link # "unused"
                          /\ gone.srv[e].link = "open" => gone.srv[e] = w.srv[e]
      BY <2>3
    <3> QED
      BY <2>3, <3>2, <3>3, <3>4, <3>5 DEF Falls
  <2>7. Trans(w, o) = 0 => Trans(gone, o) = 0
    BY <2>1, <2>3 DEF Trans
  <2>8. CASE c = 0
    <3>1. Follows(gone, v, o) /\ v.obj = gone.obj /\ v.srv = gone.srv /\ ~Ok(v)
      BY <2>4, <2>5, <2>8, FailsIs
    <3>2. Handles(w.obj, w.srv) => Detached(v, o) \/ Handles(v.obj, v.srv)
      BY <2>3, <2>5, <2>6, <3>1, HandlesFall DEF Detached
    <3>3. Follows(w, v, o)
      BY <2>3, <3>1, FollowsTwice
    <3> QED
      BY <2>7, <3>1, <3>2, <3>3 DEF Trans, v
  <2>9. CASE c # 0
    <3> DEFINE S == {o} \cup obj[o].clones
    <3>1. c \in Conn
      BY <2>9 DEF Attachments
    <3>2. /\ S \in SUBSET Obj /\ o \in S /\ \A p \in S : Root(p) = Root(o)
          /\ \A p \in S : ~gone.obj[p].live /\ gone.obj[p].blob # "open"
      BY <2>1, <2>3, <2>9
    <3>3. v = [is |-> "ok", srv |-> [gone.srv EXCEPT ![c] = Linked(@)],
               obj |-> [p \in Obj |-> IF p \in S THEN [gone.obj[p] EXCEPT !.db = c]
                                      ELSE gone.obj[p]]]
      BY <2>4, <2>9
    <3> HIDE DEF S
    <3>4. /\ v \in State /\ \A p \in Obj : Lowered(gone.obj[p], v.obj[p])
          /\ \A p \in Obj : v.obj[p].trans = gone.obj[p].trans
          /\ v.obj[o].db = c /\ v.srv[c].link = "open"
          /\ /\ gone.srv[c].link = "unused"
             /\ Handles(gone.obj, gone.srv)
             => Handles(v.obj, v.srv)
      BY <2>5, <3>1, <3>2, <3>3, AttachedIs
    <3>5. Follows(w, v, o)
      BY <1>3, <2>3, <3>4 DEF Follows, Lowered
    <3>6. ASSUME w.srv[c].link = "unused", Handles(w.obj, w.srv)
          PROVE  Handles(v.obj, v.srv)
      <4>1. c # d
        BY <2>3, <3>6 DEF Handles, Made, Uses
      <4>2. gone.srv[c].link = "unused"
        BY <2>3, <3>1, <3>6, <4>1
      <4>3. Handles(gone.obj, gone.srv)
        BY <2>3, <2>5, <2>6, <2>9, <3>6, HandlesFall
      <4> QED
        BY <3>4, <4>2, <4>3
    <3> QED
      BY <2>1, <2>7, <2>9, <3>4, <3>5, <3>6 DEF Trans, v
  <2> QED
    BY <2>8, <2>9 DEF v
<1> QED
  BY <1>2, <1>3

-----------------------------------------------------------------------------------
(* What a function of the C code keeps when it is given c to attach to: the *)
(* handles say what is open unless the object has clones and is attached    *)
(* no more; and until it fails, c is still unused if it may be needed.      *)

Held(w, o)     == Detached(w, o) \/ Handles(w.obj, w.srv)
Spare(w, o, c) == c # 0 /\ CallLost(w, o) => w.srv[c].link = "unused"

Quiet(w, v, o)     == Follows(w, v, o) /\ (Held(w, o) => Held(v, o))
Passes(w, v, o, c) == Quiet(w, v, o) /\ (Spare(w, o, c) => Spare(v, o, c))
Keeps(w, v, o, c)  == /\ Follows(w, v, o)
                      /\ Spare(w, o, c) => /\ Held(w, o) => Held(v, o)
                                           /\ Ok(v) => Spare(v, o, c)

LEMMA QuietKeeps ==
    ASSUME NEW w, NEW v, NEW o \in Obj, NEW c, Quiet(w, v, o), ~Ok(v) PROVE Keeps(w, v, o, c)
BY DEF Quiet, Keeps

LEMMA PassesKeeps ==
    ASSUME NEW w, NEW v, NEW o \in Obj, NEW c, Passes(w, v, o, c) PROVE Keeps(w, v, o, c)
BY DEF Quiet, Passes, Keeps

LEMMA PassesThenKeeps ==
    ASSUME NEW w, NEW v, NEW u, NEW o \in Obj, NEW c, Passes(w, v, o, c), Keeps(v, u, o, c)
    PROVE  Keeps(w, u, o, c)
<1>1. Follows(w, u, o)
  BY FollowsTwice DEF Passes, Quiet, Keeps
<1> QED
  BY <1>1 DEF Passes, Quiet, Keeps

LEMMA PassesTwice ==
    ASSUME NEW w, NEW v, NEW u, NEW o \in Obj, NEW c, Passes(w, v, o, c), Passes(v, u, o, c)
    PROVE  Passes(w, u, o, c)
<1>1. Follows(w, u, o)
  BY FollowsTwice DEF Passes, Quiet
<1> QED
  BY <1>1 DEF Passes, Quiet

LEMMA KeepsThenKeeps ==
    ASSUME NEW w, NEW v, NEW u, NEW o \in Obj, NEW c, Keeps(w, v, o, c), Ok(v), Keeps(v, u, o, c)
    PROVE  Keeps(w, u, o, c)
<1>1. Follows(w, u, o)
  BY FollowsTwice DEF Keeps
<1> QED
  BY <1>1 DEF Keeps

LEMMA KeepsThenFails ==
    ASSUME NEW w, NEW v, NEW u, NEW o \in Obj, NEW c, Keeps(w, v, o, c), Quiet(v, u, o), ~Ok(u)
    PROVE  Keeps(w, u, o, c)
<1>1. Follows(w, u, o)
  BY FollowsTwice DEF Keeps, Quiet
<1> QED
  BY <1>1 DEF Keeps, Quiet

LEMMA QuietTwice ==
    ASSUME NEW w, NEW v, NEW u, NEW o \in Obj, Quiet(w, v, o), Quiet(v, u, o)
    PROVE  Quiet(w, u, o)
<1>1. Follows(w, u, o)
  BY FollowsTwice DEF Quiet
<1> QED
  BY <1>1 DEF Quiet

LEMMA SameQuiet ==
    ASSUME NEW o \in Obj, NEW w, In(w, o) PROVE Quiet(w, w, o) /\ \A c : Passes(w, w, o, c)
BY InIs DEF Quiet, Passes, Follows, Lowered

LEMMA FallsPasses ==
    ASSUME NEW o \in Obj, NEW w, NEW v, In(w, o), Follows(w, v, o), Linked_Same(w, v),
           Apart(w.obj) => Falls(w, v), Trans(v, o) \in {Trans(w, o), 0},
           NEW c \in Attachments
    PROVE  Passes(w, v, o, c)
<1>1. Held(w, o) => Held(v, o)
  BY InStays, HandlesFall DEF Held, Detached, Follows, Handles
<1>2. w.obj[o].db \in Attachments /\ Trans(w, o) \in Attachments
  BY TransType
<1>3. CallLost(v, o) => CallLost(w, o)
  BY <1>2 DEF CallLost, IsLost, Linked_Same, Attachments
<1>4. c # 0 => v.srv[c].link = w.srv[c].link
  BY DEF Linked_Same, Attachments
<1> QED
  BY <1>1, <1>3, <1>4 DEF Passes, Quiet, Spare

LEMMA FailsQuiet ==
    ASSUME NEW o \in Obj, NEW w, In(w, o) PROVE Quiet(w, Fails(w), o) /\ ~Ok(Fails(w))
<1>1. w \in State
  BY InIs
<1>2. LET v == Fails(w)
      IN Follows(w, v, o) /\ v.obj = w.obj /\ v.srv = w.srv /\ v.is = "failed" /\ ~Ok(v)
  BY <1>1, FailsIs
<1> QED
  BY <1>2 DEF Quiet, Held, Detached

LEMMA CloseCursorPasses ==
    ASSUME NEW o \in Obj, NEW w, In(w, o), NEW c \in Attachments
    PROVE  Passes(w, CloseCursor(w, o), o, c)
BY CloseCursorFalls, FallsPasses

LEMMA UndoPasses ==
    ASSUME NEW o \in Obj, NEW w, In(w, o), NEW c \in Attachments
    PROVE  Passes(w, Undo(w, o), o, c)
BY UndoIs, FallsPasses

LEMMA ReconnectKeeps ==
    ASSUME NEW o \in Obj, NEW w, In(w, o), NEW c \in Attachments
    PROVE  /\ Follows(w, Reconnect(w, o, c), o)
           /\ (c # 0 => w.srv[c].link = "unused") /\ Held(w, o)
                 => Held(Reconnect(w, o, c), o)
<1> DEFINE v == Reconnect(w, o, c)
<1>1. /\ Follows(w, v, o)
      /\ (c # 0 => w.srv[c].link = "unused") /\ Handles(w.obj, w.srv)
            => Detached(v, o) \/ Handles(v.obj, v.srv)
  BY ReconnectIs
<1> HIDE DEF v
<1>2. Detached(w, o) => Detached(v, o)
  BY <1>1 DEF Detached, Follows
<1> QED
  BY <1>1, <1>2 DEF Held, v

LEMMA ErrorKeeps ==
    ASSUME NEW o \in Obj, NEW w, In(w, o), NEW c \in Attachments,
           NEW lost \in BOOLEAN, lost => CallLost(w, o)
    PROVE  Keeps(w, Error(w, o, lost, c), o, c) /\ ~Ok(Error(w, o, lost, c))
<1> DEFINE undoes == AutocommitState(w, o) /\ (lost => RollsBackLost)
           x == IF undoes THEN Undo(w, o) ELSE w
           v == CloseCursor(x, o)
           u == IF lost THEN Reconnect(v, o, c) ELSE v
<1>1. Passes(w, x, o, c) /\ Linked_Same(w, x)
  <2>1. Passes(w, w, o, c) /\ Linked_Same(w, w)
    BY SameQuiet DEF Linked_Same
  <2>2. Passes(w, Undo(w, o), o, c) /\ Linked_Same(w, Undo(w, o))
    BY UndoPasses, UndoIs
  <2> QED
    BY <2>1, <2>2
<1> HIDE DEF undoes, x
<1>2. In(x, o)
  BY <1>1, InStays DEF Passes, Quiet
<1>3. Passes(x, v, o, c) /\ Linked_Same(x, v)
  BY <1>2, CloseCursorPasses, CloseCursorFalls
<1> HIDE DEF v
<1>4. Passes(w, v, o, c)
  BY <1>1, <1>3, PassesTwice
<1>5. In(v, o)
  BY <1>4, InStays DEF Passes, Quiet
<1>6. Error(w, o, lost, c) = Fails(u)
  BY DEF Error, u, v, x, undoes
<1>7. CASE lost
  <2>1. Spare(w, o, c) => (c # 0 => v.srv[c].link = "unused")
    BY <1>1, <1>3, <1>7 DEF Spare, Linked_Same, Attachments
  <2>2. /\ Follows(v, u, o)
        /\ (c # 0 => v.srv[c].link = "unused") /\ Held(v, o) => Held(u, o)
    BY <1>5, <1>7, ReconnectKeeps
  <2> HIDE DEF u
  <2>3. Quiet(u, Fails(u), o) /\ ~Ok(Fails(u))
    BY <1>5, <2>2, InStays, FailsQuiet
  <2>4. Follows(w, u, o) /\ (Spare(w, o, c) /\ Held(w, o) => Held(u, o))
    BY <1>4, <2>1, <2>2, FollowsTwice DEF Passes, Quiet
  <2>5. Follows(w, Fails(u), o)
    BY <2>3, <2>4, FollowsTwice DEF Quiet
  <2> QED
    BY <1>6, <2>3, <2>4, <2>5 DEF Keeps, Quiet
<1>8. CASE ~lost
  <2>1. u = v
    BY <1>8
  <2>2. Quiet(v, Fails(v), o) /\ ~Ok(Fails(v))
    BY <1>5, FailsQuiet
  <2> QED
    BY <1>4, <1>6, <2>1, <2>2, PassesKeeps, KeepsThenFails
<1> QED
  BY <1>7, <1>8

LEMMA TransactionCommitKeeps ==
    ASSUME NEW o \in Obj, NEW w, In(w, o), NEW c \in Attachments,
           NEW noretain \in BOOLEAN, NEW refused \in BOOLEAN
    PROVE  LET v == Transaction_Commit(w, o, noretain, refused, c)
           IN /\ Keeps(w, v, o, c)
              /\ Ok(v) /\ noretain => Trans(v, o) = 0 /\ Linked_Same(w, v)
<1> DEFINE lost == IsLost(w, Trans(w, o))
           e == Error(w, o, lost, c)
           f == FullCommit(w, o)
           r == Retaining(w, o)
           v == Transaction_Commit(w, o, noretain, refused, c)
<1>1. lost \in BOOLEAN /\ (lost => CallLost(w, o))
  BY DEF IsLost, CallLost
<1>2. Keeps(w, e, o, c) /\ ~Ok(e)
  BY <1>1, ErrorKeeps
<1>3. CASE Trans(w, o) \in Conn
  <2>1. Over(w, f, o)
    BY <1>3, FullCommitIs
  <2>2. Passes(w, f, o, c)
    BY <2>1, FallsPasses DEF Over
  <2>3. /\ Follows(w, r, o) /\ Falls(w, r) /\ Linked_Same(w, r)
        /\ Trans(r, o) = Trans(w, o)
    BY <1>3, RetainingIs
  <2>4. Passes(w, r, o, c)
    BY <2>3, FallsPasses
  <2> HIDE DEF e, f, r
  <2>5. v \in {e, f} \/ (v = r /\ ~noretain)
    BY DEF Transaction_Commit, e, f, r
  <2> HIDE DEF v
  <2> QED
    BY <1>2, <2>1, <2>2, <2>4, <2>5, PassesKeeps DEF v, Over
<1>4. CASE Trans(w, o) \notin Conn
  <2>1. Trans(w, o) = 0
    BY <1>4, TransType DEF Attachments
  <2>2. v = e
    BY <2>1 DEF Transaction_Commit, IsOpen
  <2> QED
    BY <1>2, <2>2
<1> QED
  BY <1>3, <1>4

LEMMA CommitIfAnyKeeps ==
    ASSUME NEW o \in Obj, NEW w, In(w, o), NEW c \in Attachments,
           NEW noretain \in BOOLEAN, NEW refused \in BOOLEAN
    PROVE  LET v == CommitIfAny(w, o, noretain, refused, c)
           IN Keeps(w, v, o, c) /\ (Ok(v) /\ noretain => Trans(v, o) = 0)
<1> DEFINE v == Transaction_Commit(w, o, noretain, refused, c)
<1>1. Keeps(w, v, o, c) /\ (Ok(v) /\ noretain => Trans(v, o) = 0)
  BY TransactionCommitKeeps
<1>2. Keeps(w, w, o, c)
  BY SameQuiet, PassesKeeps
<1> HIDE DEF v
<1>3. CommitIfAny(w, o, noretain, refused, c) = IF Trans(w, o) = 0 THEN w ELSE v
  BY DEF CommitIfAny, v
<1> QED
  BY <1>1, <1>2, <1>3

LEMMA StartedIs ==
    ASSUME NEW o \in Obj, NEW w, In(w, o), Trans(w, o) = 0, IsOpen(w, w.obj[o].db),
           NEW c \in Attachments
    PROVE  Passes(w, Started(w, o), o, c) /\ ~CallLost(Started(w, o), o)
<1> DEFINE R == Root(o)
           d == w.obj[o].db
           v == Started(w, o)
<1>1. /\ w \in State /\ R \in Obj /\ d \in Conn /\ w.srv[d].link = "open"
      /\ \A p \in Obj : Up(w.obj, p) = Root(p) /\ (Lives(w.obj, p) <=> Usable(p))
      /\ \A p \in Obj : Usable(p) => Usable(Root(p)) /\ Root(Root(p)) = Root(p)
      /\ \A p \in Obj : Root(p) \in Obj
      /\ Root(R) = R
  BY InIs, TransType DEF IsOpen, Attachments, In
<1>2. PICK r \in Record : r = w.obj[R]
  BY <1>1 DEF State
<1>3. PICK s \in Server : s = w.srv[d]
  BY <1>1 DEF State
<1> DEFINE x == [r EXCEPT !.trans = d]
           y == Begun(s)
<1>4. x \in Record /\ y \in Server /\ y.link = s.link /\ y.txn = "open"
  BY <1>1, ServerSteps, AttachedRecord DEF Attachments
<1>5. /\ x.trans = d /\ x.db = r.db /\ x.live = r.live /\ x.blob = r.blob /\ x.cursor = r.cursor
      /\ x.out = r.out /\ Lowered(r, x)
  BY DEF Record, Lowered
<1>6. v = [w EXCEPT !.obj[R] = x, !.srv[d] = y]
  BY <1>1, <1>2, <1>3 DEF Started, State
<1> HIDE DEF x, y, d, R, v
<1>7. /\ v \in State /\ v.is = w.is
      /\ v.obj[R] = x /\ \A p \in Obj : p # R => v.obj[p] = w.obj[p]
      /\ v.srv[d] = y /\ \A e \in Conn : e # d => v.srv[e] = w.srv[e]
  BY <1>1, <1>4, <1>6 DEF State
<1>8. /\ \A p \in Obj : /\ Lowered(w.obj[p], v.obj[p])
                        /\ v.obj[p].db = w.obj[p].db
                        /\ v.obj[p].trans = IF p = R THEN d ELSE w.obj[p].trans
                        /\ v.obj[p].live = w.obj[p].live /\ v.obj[p].blob = w.obj[p].blob
                        /\ v.obj[p].cursor = w.obj[p].cursor /\ v.obj[p].out = w.obj[p].out
      /\ \A e \in Conn : /\ v.srv[e].link = w.srv[e].link
                         /\ v.srv[e].txn = IF e = d THEN "open" ELSE w.srv[e].txn
  BY <1>2, <1>3, <1>4, <1>5, <1>7 DEF Lowered
<1>9. Follows(w, v, o)
  BY <1>7, <1>8 DEF Follows
<1>10. \A p \in Obj : Up(v.obj, p) = Root(p) /\ (Lives(v.obj, p) <=> Usable(p))
  <2>1. In(v, o)
    BY <1>9, InStays
  <2> QED
    BY <2>1, InIs
<1>11. ASSUME Handles(w.obj, w.srv) PROVE Handles(v.obj, v.srv)
  <2>0. w.obj[o].db = d /\ o \in Obj /\ d \in Conn /\ d # 0
    BY <1>1 DEF d, Conn
  <2>1. \A p \in Obj, e \in Conn : Uses(v.obj, p, e) =>
           Uses(w.obj, p, e) \/ (p = R /\ e = d)
    BY <1>8 DEF Uses
  <2>2. \A p \in Obj, e \in Conn : Uses(v.obj, p, e) =>
           \E q \in Obj : Root(q) = Root(p) /\ Uses(w.obj, q, e)
    BY <1>1, <2>0, <2>1 DEF Uses, R
  <2>3. Apart(v.obj)
    <3> SUFFICES ASSUME NEW p \in Obj, NEW q \in Obj, NEW e \in Conn,
                        Uses(v.obj, p, e), Uses(v.obj, q, e)
                 PROVE  Root(p) = Root(q)
      BY <1>10 DEF Apart
    <3>1. PICK a \in Obj : Root(a) = Root(p) /\ Uses(w.obj, a, e)
      BY <2>2
    <3>2. PICK b \in Obj : Root(b) = Root(q) /\ Uses(w.obj, b, e)
      BY <2>2
    <3> QED
      BY <1>1, <1>11, <3>1, <3>2 DEF Handles, Apart
  <2>4. Made(v.obj, v.srv)
    BY <1>8, <1>11, <2>2 DEF Handles, Made
  <2>5. Kept(v.obj)
    <3> SUFFICES ASSUME NEW p \in Obj, Usable(p)
                 PROVE  /\ v.obj[p].live => v.obj[p].cursor /\ v.obj[p].out
                        /\ v.obj[p].live \/ v.obj[p].blob = "open"
                              => v.obj[p].db # 0 /\ v.obj[Root(p)].trans = v.obj[p].db
      BY <1>10 DEF Kept
    <3>1. /\ w.obj[p].live => w.obj[p].cursor /\ w.obj[p].out
          /\ w.obj[p].live \/ w.obj[p].blob = "open"
                => w.obj[p].db # 0 /\ w.obj[Root(p)].trans = w.obj[p].db
      BY <1>1, <1>11 DEF Handles, Kept
    <3>2. w.obj[R].trans = 0
      BY DEF Trans, R
    <3> QED
      BY <1>1, <1>8, <3>1, <3>2
  <2>6. Underway(v.obj, v.srv)
    BY <1>1, <1>8, <1>10, <1>11 DEF Handles, Underway
  <2> QED
    BY <2>3, <2>4, <2>5, <2>6 DEF Handles
<1>12. Held(w, o) => Held(v, o)
  <2>1. ~Detached(w, o)
    BY <1>1 DEF Detached, d, Conn
  <2> QED
    BY <1>11, <2>1 DEF Held
<1>13. ~CallLost(v, o)
  <2>1. v.obj[o].db = d /\ Trans(v, o) = d /\ v.srv[d].link = "open"
    BY <1>1, <1>8 DEF d, R, Trans
  <2> QED
    BY <2>1 DEF CallLost, IsLost
<1> QED
  BY <1>9, <1>12, <1>13 DEF Passes, Quiet, Spare, v

LEMMA TransactionStartKeeps ==
    ASSUME NEW o \in Obj, NEW w, In(w, o), NEW c \in Attachments
    PROVE  Keeps(w, Transaction_Start(w, o, c), o, c)
<1> DEFINE d == w.obj[o].db
           s == Transaction_Start(w, o, c)
           v == Reconnect(w, o, c)
<1>1. CASE Trans(w, o) # 0
  BY <1>1, SameQuiet, PassesKeeps DEF Transaction_Start
<1>2. CASE Trans(w, o) = 0 /\ IsOpen(w, d)
  <2>1. s = Started(w, o)
    BY <1>2 DEF Transaction_Start
  <2> QED
    BY <1>2, <2>1, StartedIs, PassesKeeps
<1>3. CASE Trans(w, o) = 0 /\ ~IsOpen(w, d) /\ ~IsLost(w, d)
  <2>1. s = Error(w, o, FALSE, c)
    BY <1>3 DEF Transaction_Start
  <2>2. Keeps(w, Error(w, o, FALSE, c), o, c)
    BY ErrorKeeps
  <2> QED
    BY <2>1, <2>2
<1>4. CASE Trans(w, o) = 0 /\ IsLost(w, d)
  <2>0. ~IsOpen(w, d)
    BY <1>4 DEF IsOpen, IsLost
  <2>1. s = IF Ok(v) THEN Started(v, o) ELSE v
    BY <1>4, <2>0 DEF Transaction_Start
  <2>2. Spare(w, o, c) => (c # 0 => w.srv[c].link = "unused")
    BY <1>4 DEF Spare, CallLost
  <2>3. /\ Follows(w, v, o)
        /\ (c # 0 => w.srv[c].link = "unused") /\ Held(w, o) => Held(v, o)
    BY ReconnectKeeps
  <2>4. /\ Ok(v) => c # 0 /\ v.obj[o].db = c /\ v.srv[c].link = "open"
        /\ Trans(v, o) = 0
    BY <1>4, ReconnectIs
  <2>5. In(v, o)
    BY <2>3, InStays
  <2> HIDE DEF v, s
  <2>6. CASE ~Ok(v)
    BY <2>1, <2>2, <2>3, <2>6 DEF Keeps, s
  <2>7. CASE Ok(v)
    <3>1. IsOpen(v, v.obj[o].db)
      BY <2>4, <2>7 DEF IsOpen
    <3>2. Passes(v, s, o, c) /\ ~CallLost(s, o)
      BY <2>1, <2>4, <2>5, <2>7, <3>1, StartedIs
    <3>3. Follows(w, s, o)
      BY <2>3, <3>2, FollowsTwice DEF Passes, Quiet
    <3> QED
      BY <2>2, <2>3, <3>2, <3>3 DEF Keeps, Passes, Quiet, Spare, s
  <2> QED
    BY <2>6, <2>7 DEF s
<1> QED
  BY <1>1, <1>2, <1>3, <1>4

LEMMA AutocommitKeeps ==
    ASSUME NEW o \in Obj, NEW w, In(w, o), NEW c \in Attachments, NEW refused \in BOOLEAN
    PROVE  Keeps(w, Autocommit(w, o, refused, c), o, c)
<1> DEFINE v == CloseCursor(w, o)
           u == CommitIfAny(v, o, FALSE, refused, c)
           s == Transaction_Start(u, o, c)
<1>1. Passes(w, v, o, c) /\ In(v, o)
  BY CloseCursorPasses, InStays DEF Passes, Quiet
<1> HIDE DEF v
<1>2. Keeps(v, u, o, c) /\ In(u, o)
  BY <1>1, CommitIfAnyKeeps, InStays DEF Keeps
<1> HIDE DEF u
<1>3. Keeps(u, s, o, c)
  BY <1>2, TransactionStartKeeps
<1> HIDE DEF s
<1>4. Keeps(w, v, o, c) /\ Keeps(w, u, o, c)
  BY <1>1, <1>2, PassesKeeps, PassesThenKeeps
<1>5. Ok(u) => Keeps(w, s, o, c)
  BY <1>3, <1>4, KeepsThenKeeps
<1>6. Autocommit(w, o, refused, c) =
         IF ~AutocommitState(w, o) THEN v ELSE IF Ok(u) THEN s ELSE u
  BY DEF Autocommit, s, u, v
<1> QED
  BY <1>4, <1>5, <1>6

-----------------------------------------------------------------------------------
(* exec *)

LEMMA ExecErrorQuiet ==
    ASSUME NEW o \in Obj, NEW w, In(w, o)
    PROVE  Quiet(w, ExecError(w, o), o) /\ ~Ok(ExecError(w, o))
<1> DEFINE v == CloseCursor(w, o)
           u == Undo(v, o)
           x == IF AutocommitState(w, o) /\ Trans(w, o) # 0 THEN u ELSE w
<1>1. Quiet(w, v, o) /\ In(v, o)
  BY CloseCursorPasses, InStays DEF Passes, Quiet, Attachments
<1> HIDE DEF v
<1>2. Quiet(v, u, o)
  BY <1>1, UndoPasses DEF Passes, Attachments
<1>3. Quiet(w, u, o) /\ Quiet(w, w, o)
  BY <1>1, <1>2, QuietTwice, SameQuiet
<1>4. ExecError(w, o) = Fails(x)
  BY DEF ExecError, x, u, v
<1> HIDE DEF u
<1>5. Quiet(w, x, o)
  BY <1>3
<1> HIDE DEF x
<1>6. Quiet(x, Fails(x), o) /\ ~Ok(Fails(x))
  BY <1>5, InStays, FailsQuiet DEF Quiet
<1> QED
  BY <1>4, <1>5, <1>6, QuietTwice

LEMMA PutPasses ==
    ASSUME NEW o \in Obj, NEW w, In(w, o), NEW p \in Obj, NEW x \in Record,
           Lowered(w.obj[p], x), x.db = w.obj[p].db, x.trans = w.obj[p].trans,
           x.live => x.cursor = w.obj[p].cursor /\ x.out = w.obj[p].out,
           x.blob = "open" => w.obj[p].blob = "open"
    PROVE  LET v == [w EXCEPT !.obj[p] = x]
           IN v.is = w.is /\ \A c \in Attachments : Passes(w, v, o, c)
<1> DEFINE v == [w EXCEPT !.obj[p] = x]
<1>1. w \in State /\ \A q \in Obj : Root(q) \in Obj
  BY InIs
<1>2. /\ v \in State /\ v.srv = w.srv /\ v.is = w.is /\ v.obj[p] = x
      /\ \A q \in Obj : q # p => v.obj[q] = w.obj[q]
  BY <1>1, PutObject
<1> HIDE DEF v
<1>3. \A q \in Obj : /\ Lowered(w.obj[q], v.obj[q])
                     /\ v.obj[q].db = w.obj[q].db /\ v.obj[q].trans = w.obj[q].trans
                     /\ v.obj[q].live => /\ w.obj[q].live
                                         /\ v.obj[q].cursor = w.obj[q].cursor
                                         /\ v.obj[q].out = w.obj[q].out
                     /\ v.obj[q].blob = "open" => w.obj[q].blob = "open"
  BY <1>2 DEF Lowered
<1>4. Follows(w, v, o)
  BY <1>2, <1>3 DEF Follows
<1>5. Falls(w, v) /\ Linked_Same(w, v)
  BY <1>1, <1>2, <1>3, FallsSame
<1>6. Trans(v, o) = Trans(w, o)
  BY <1>1, <1>3 DEF Trans
<1> QED
  BY <1>2, <1>4, <1>5, <1>6, FallsPasses DEF v

LEMMA SetAutoPasses ==
    ASSUME NEW o \in Obj, NEW w, In(w, o), NEW b \in BOOLEAN
    PROVE  LET v == SetAuto(w, o, b)
           IN v.is = w.is /\ \A c \in Attachments : Passes(w, v, o, c)
<1> DEFINE R == Root(o)
<1>1. w \in State /\ R \in Obj
  BY InIs
<1>2. PICK r \in Record : r = w.obj[R]
  BY <1>1 DEF State
<1> DEFINE x == [r EXCEPT !.auto = b]
<1>3. x \in Record
  BY FlagRecord
<1>4. /\ x.trans = r.trans /\ x.db = r.db /\ x.live = r.live /\ x.blob = r.blob
      /\ x.cursor = r.cursor /\ x.out = r.out /\ Lowered(r, x)
  BY DEF Record, Lowered
<1>5. SetAuto(w, o, b) = [w EXCEPT !.obj[R] = x]
  BY <1>1, <1>2 DEF SetAuto, State
<1> HIDE DEF x, R
<1> QED
  BY <1>1, <1>2, <1>3, <1>4, <1>5, PutPasses

LEMMA BoundsIs == /\ MaxLines \in Nat /\ MaxLines >= 1 /\ MaxLines \in Sizes
                  /\ Sizes \subseteq Lengths /\ -1 \in Lines /\ 0 \in Lines
<1>1. PICK n \in Sizes : \A m \in Sizes : m <= n
  BY ServerAssumption
<1>2. MaxLines \in Sizes /\ \A m \in Sizes : m <= MaxLines
  BY <1>1 DEF MaxLines
<1>3. Sizes \subseteq Nat
  BY ServerAssumption
<1>4. PICK k \in Sizes : k # 0
  BY ServerAssumption
<1> QED
  BY <1>2, <1>3, <1>4 DEF Lengths, Lines

LEMMA NumberedPasses ==
    ASSUME NEW o \in Obj, NEW w, In(w, o), NEW ids \in SUBSET Work
    PROVE  LET v == Numbered(w, ids)
           IN v.is = w.is /\ \A c \in Attachments : Passes(w, v, o, c)
<1> DEFINE v == Numbered(w, ids)
<1>1. w \in State /\ \A q \in Obj : Root(q) \in Obj
  BY InIs
<1>2. ASSUME NEW s \in Server
      PROVE  LET y == [s EXCEPT !.durable = @ \ ids]
             IN y \in Server /\ y.link = s.link /\ y.txn = s.txn
  BY DEF Server
<1>3. \A d \in Conn : LET y == [w.srv[d] EXCEPT !.durable = @ \ ids]
                      IN y \in Server /\ y.link = w.srv[d].link /\ y.txn = w.srv[d].txn
  BY <1>1, <1>2 DEF State
<1> DEFINE S == [d \in Conn |-> [w.srv[d] EXCEPT !.durable = @ \ ids]]
<1>4. /\ S \in [Conn -> Server]
      /\ \A d \in Conn : S[d].link = w.srv[d].link /\ S[d].txn = w.srv[d].txn
  BY <1>3
<1>5. v = [w EXCEPT !.srv = S]
  BY DEF Numbered
<1> HIDE DEF S, v
<1>6. v \in State /\ v.obj = w.obj /\ v.is = w.is /\ v.srv = S
  BY <1>1, <1>4, <1>5 DEF State
<1>7. Follows(w, v, o) /\ Linked_Same(w, v) /\ Trans(v, o) = Trans(w, o)
  BY <1>4, <1>6 DEF Follows, Lowered, Linked_Same, Trans
<1>8. Falls(w, v)
  BY <1>4, <1>6 DEF Falls
<1> QED
  BY <1>6, <1>7, <1>8, FallsPasses DEF v

LEMMA WrittenIs ==
    ASSUME NEW s \in Server, NEW ids \in SUBSET Work
    PROVE  /\ Written(s, ids) \in Server
           /\ Written(s, ids).link = s.link /\ Written(s, ids).txn = s.txn
BY DEF Server, Written

(* A record put for object o, and a connection of its transaction.          *)
LEMMA ProcessedIs ==
    ASSUME NEW o \in Obj, NEW w, In(w, o), CallWorks(w, o), NEW t, NEW n \in Nat,
           NEW ids \in SUBSET Work, NEW c \in Attachments
    PROVE  LET v == Processed(w, o, t, n, ids)
           IN /\ In(v, o) /\ v.is = w.is
              /\ ~w.obj[o].live /\ Held(w, o) => Held(v, o)
              /\ Spare(w, o, c) => Spare(v, o, c)
              /\ IF n = Len(t) /\ Selects(t)
                 THEN /\ v.obj[o].live /\ v.obj[o].cursor /\ v.obj[o].out
                      /\ v.obj[o].res = Another(w.obj[o].res)
                 ELSE v.obj[o].live = w.obj[o].live
<1> DEFINE d == Trans(w, o)
           all == n = Len(t)
           out == t[IF all THEN n ELSE n + 1] = "select"
           opens == all /\ Selects(t)
           v == Processed(w, o, t, n, ids)
<1>1. /\ w \in State /\ Root(o) \in Obj /\ d \in Conn /\ w.srv[d].link = "open"
      /\ w.obj[o].db = d
      /\ \A p \in Obj : Up(w.obj, p) = Root(p) /\ (Lives(w.obj, p) <=> Usable(p))
  BY InIs, TransType DEF CallWorks, IsOpen, Attachments
<1>2. PICK r \in Record : r = w.obj[o]
  BY <1>1 DEF State
<1>3. PICK s \in Server : s = w.srv[d]
  BY <1>1 DEF State
<1>4. out \in BOOLEAN /\ opens \in BOOLEAN /\ (opens => out)
  BY DEF Selects
<1> DEFINE a == [r EXCEPT !.out = out]
           b == [a EXCEPT !.cursor = TRUE, !.live = TRUE, !.res = Another(@)]
           x == IF opens THEN b ELSE a
           y == Written(s, Lowest(ids, Effects(t, n)))
<1>5. y \in Server /\ y.link = s.link /\ y.txn = s.txn
  <2>1. Lowest(ids, Effects(t, n)) \in SUBSET Work
    BY DEF Lowest
  <2> QED
    BY <2>1, WrittenIs
<1>6. v = [w EXCEPT !.srv[d] = y, !.obj[o] = x]
  BY <1>1, <1>2, <1>3 DEF Processed, State
<1> HIDE DEF out, opens, y, v, d
<1>7. a \in Record /\ b \in Record
  <2>1. a \in Record
    BY <1>4, FlagRecord
  <2>2. PICK k \in Results : k = Another(a.res)
    BY DEF Another, Results
  <2>3. PICK z \in BOOLEAN : z = TRUE
    OBVIOUS
  <2>4. [a EXCEPT !.cursor = z, !.live = z, !.res = k] \in Record
    BY <2>1 DEF Record
  <2> QED
    BY <2>1, <2>2, <2>3, <2>4
<1>8. /\ a.db = r.db /\ a.trans = r.trans /\ a.blob = r.blob /\ a.live = r.live
      /\ a.cursor = r.cursor /\ a.out = out /\ a.res = r.res /\ Alike(r, a)
  BY DEF Record, Alike
<1>9. /\ b.db = r.db /\ b.trans = r.trans /\ b.blob = r.blob
      /\ b.live /\ b.cursor /\ b.out = out /\ b.res = Another(r.res) /\ Alike(r, b)
  BY <1>7, <1>8 DEF Record, Alike
<1> HIDE DEF a, b
<1>10. /\ x \in Record /\ x.db = r.db /\ x.trans = r.trans /\ x.blob = r.blob /\ Alike(r, x)
       /\ ~r.live /\ x.live => x.cursor /\ x.out
       /\ IF opens THEN x.live /\ x.cursor /\ x.out /\ x.res = Another(r.res)
          ELSE x.live = r.live
  BY <1>4, <1>7, <1>8, <1>9
<1> HIDE DEF x
<1>11. /\ v \in State /\ v.is = w.is
       /\ v.obj[o] = x /\ \A p \in Obj : p # o => v.obj[p] = w.obj[p]
       /\ v.srv[d] = y /\ \A e \in Conn : e # d => v.srv[e] = w.srv[e]
  BY <1>1, <1>5, <1>6, <1>10 DEF State
<1>12. /\ \A p \in Obj : /\ Alike(w.obj[p], v.obj[p])
                         /\ v.obj[p].db = w.obj[p].db /\ v.obj[p].trans = w.obj[p].trans
                         /\ v.obj[p].blob = w.obj[p].blob
       /\ \A e \in Conn : v.srv[e].link = w.srv[e].link /\ v.srv[e].txn = w.srv[e].txn
  BY <1>2, <1>3, <1>5, <1>10, <1>11 DEF Alike
<1>13. In(v, o)
  BY <1>11, <1>12 DEF In, Alike
<1>14. Spare(w, o, c) => Spare(v, o, c)
  BY <1>1, <1>12, TransType DEF Spare, CallLost, IsLost, Trans, Attachments
<1>15. ASSUME ~w.obj[o].live, Held(w, o) PROVE Held(v, o)
  <2>1. Handles(w.obj, w.srv)
    BY <1>1, <1>15 DEF Held, Detached, Conn
  <2>2. \A p \in Obj : Up(v.obj, p) = Root(p) /\ (Lives(v.obj, p) <=> Usable(p))
    BY <1>13, InIs
  <2>3. Apart(v.obj)
    BY <1>1, <1>12, <2>1, <2>2 DEF Handles, Apart, Uses
  <2>4. Made(v.obj, v.srv)
    BY <1>12, <2>1 DEF Handles, Made, Uses
  <2>5. Kept(v.obj)
    <3> SUFFICES ASSUME NEW p \in Obj, Usable(p)
                 PROVE  /\ v.obj[p].live => v.obj[p].cursor /\ v.obj[p].out
                        /\ v.obj[p].live \/ v.obj[p].blob = "open"
                              => v.obj[p].db # 0 /\ v.obj[Root(p)].trans = v.obj[p].db
      BY <2>2 DEF Kept
    <3>0. \A q \in Obj : Root(q) \in Obj
      BY InIs
    <3>1. CASE p # o
      BY <1>1, <1>11, <1>12, <2>1, <3>0, <3>1 DEF Handles, Kept
    <3>2. CASE p = o
      BY <1>1, <1>2, <1>10, <1>11, <1>12, <1>15, <3>0, <3>2 DEF Trans, d, Conn
    <3> QED
      BY <3>1, <3>2
  <2>6. Underway(v.obj, v.srv)
    <3>0. \A q \in Obj : Root(q) \in Obj
      BY InIs
    <3> QED
      BY <1>1, <1>12, <2>1, <2>2, <3>0 DEF Handles, Underway
  <2> QED
    BY <2>3, <2>4, <2>5, <2>6 DEF Held, Handles
<1> QED
  BY <1>2, <1>10, <1>11, <1>13, <1>14, <1>15 DEF v, opens

LEMMA CommitAtEndKeeps ==
    ASSUME NEW o \in Obj, NEW w, In(w, o), NEW c \in Attachments, NEW refused \in BOOLEAN
    PROVE  Keeps(w, CommitAtEnd(w, o, refused, c), o, c)
<1> DEFINE v == CommitIfAny(w, o, FALSE, refused, c)
<1>1. Keeps(w, v, o, c)
  BY CommitIfAnyKeeps
<1>2. Keeps(w, w, o, c)
  BY SameQuiet, PassesKeeps
<1> HIDE DEF v
<1>3. CommitAtEnd(w, o, refused, c) = IF AutocommitState(w, o) THEN v ELSE w
  BY DEF CommitAtEnd, v
<1> QED
  BY <1>1, <1>2, <1>3

-----------------------------------------------------------------------------------
(* The states that a method of o goes through, and in which it may end.     *)

Ended(w, o, c) == In(w, o) /\ (Spare(Now, o, c) /\ Held(Now, o) => Held(w, o))
Going(w, o, c) == Ended(w, o, c) /\ (Spare(Now, o, c) /\ Held(Now, o) => Spare(w, o, c))

(* An open cursor has its flag and its columns; the current line is before  *)
(* the last one, or is it, when it is known.                                *)
Shows(r) == r.live => /\ r.cursor /\ r.out /\ r.res # 0 /\ r.tuple < r.len
                      /\ \/ r.known = -1
                         \/ r.known = r.len - 1 /\ r.tuple = r.len - 1
Shown == \A p \in Obj : Shows(obj[p])

LEMMA ShownClosed ==
    ASSUME NEW o \in Obj, In(Now, o), Shown PROVE ~CloseCursor(Now, o).obj[o].live
<1>1. Now \in State
  BY InIs
<1>2. LET v == CloseCursor(Now, o)
      IN v.obj[o].live => ~Now.obj[o].cursor /\ v.obj[o] = Now.obj[o]
  BY <1>1, CloseCursorIs
<1>3. obj[o].live => obj[o].cursor
  BY DEF Shown, Shows
<1> QED
  BY <1>2, <1>3 DEF Now

(* A cursor that o still has is the one it had. *)
Wanes(w, o) == w.obj[o].live => Lowered(obj[o], w.obj[o])

LEMMA WanesOn ==
    ASSUME NEW o \in Obj, NEW w, NEW v, Follows(w, v, o) 
    PROVE  (Wanes(w, o) => Wanes(v, o)) /\ (v.obj[o].live => w.obj[o].live)
BY DEF Wanes, Follows, Lowered

LEMMA KeepsGoing ==
    ASSUME NEW o \in Obj, NEW c, NEW w, NEW v, Going(w, o, c), Keeps(w, v, o, c)
    PROVE  /\ Ended(v, o, c) /\ (Ok(v) => Going(v, o, c))
           /\ Wanes(w, o) => Wanes(v, o)
           /\ v.obj[o].live => w.obj[o].live
<1>1. In(v, o)
  BY InStays DEF Going, Ended, Keeps
<1>2. (Wanes(w, o) => Wanes(v, o)) /\ (v.obj[o].live => w.obj[o].live)
  BY WanesOn DEF Keeps
<1> QED
  BY <1>1, <1>2 DEF Going, Ended, Keeps

LEMMA PassesGoing ==
    ASSUME NEW o \in Obj, NEW c, NEW w, NEW v, Going(w, o, c), Passes(w, v, o, c)
    PROVE  /\ Going(v, o, c) /\ Ended(v, o, c)
           /\ Wanes(w, o) => Wanes(v, o)
           /\ v.obj[o].live => w.obj[o].live
<1>1. In(v, o)
  BY InStays DEF Going, Ended, Passes, Quiet
<1>2. (Wanes(w, o) => Wanes(v, o)) /\ (v.obj[o].live => w.obj[o].live)
  BY WanesOn DEF Passes, Quiet
<1> QED
  BY <1>1, <1>2 DEF Going, Ended, Passes, Quiet

LEMMA QuietEnded ==
    ASSUME NEW o \in Obj, NEW c, NEW w, NEW v, Ended(w, o, c), Quiet(w, v, o)
    PROVE  /\ Ended(v, o, c)
           /\ Wanes(w, o) => Wanes(v, o)
           /\ v.obj[o].live => w.obj[o].live
<1>1. In(v, o)
  BY InStays DEF Ended, Quiet
<1>2. (Wanes(w, o) => Wanes(v, o)) /\ (v.obj[o].live => w.obj[o].live)
  BY WanesOn DEF Quiet
<1> QED
  BY <1>1, <1>2 DEF Ended, Quiet

LEMMA NowGoing ==
    ASSUME NEW o \in Obj, NEW c, In(Now, o) PROVE Going(Now, o, c) /\ Ok(Now) /\ Wanes(Now, o)
BY DEF Going, Ended, Ok, Now, Wanes, Lowered

(* The lines that o has are changed. *)
LEMMA PutEnded ==
    ASSUME NEW o \in Obj, NEW w, In(w, o), NEW x \in Record, Alike(w.obj[o], x),
           x.db = w.obj[o].db, x.trans = w.obj[o].trans, x.blob = w.obj[o].blob,
           x.live = w.obj[o].live, x.cursor = w.obj[o].cursor, x.out = w.obj[o].out
    PROVE  LET v == [w EXCEPT !.obj[o] = x]
           IN /\ v.is = w.is /\ v.obj[o] = x
              /\ \A c : Ended(w, o, c) => Ended(v, o, c)
<1> DEFINE v == [w EXCEPT !.obj[o] = x]
<1>1. w \in State /\ \A q \in Obj : Root(q) \in Obj
  BY InIs
<1>2. /\ v \in State /\ v.srv = w.srv /\ v.is = w.is /\ v.obj[o] = x
      /\ \A q \in Obj : q # o => v.obj[q] = w.obj[q]
  BY <1>1, PutObject
<1> HIDE DEF v
<1>3. \A q \in Obj : /\ Alike(w.obj[q], v.obj[q])
                     /\ v.obj[q].db = w.obj[q].db /\ v.obj[q].trans = w.obj[q].trans
                     /\ v.obj[q].live => /\ w.obj[q].live
                                         /\ v.obj[q].cursor = w.obj[q].cursor
                                         /\ v.obj[q].out = w.obj[q].out
                     /\ v.obj[q].blob = "open" => w.obj[q].blob = "open"
  BY <1>2 DEF Alike
<1>4. In(v, o)
  BY <1>2, <1>3 DEF In, Alike
<1>5. Falls(w, v)
  BY <1>1, <1>2, <1>3, FallsSame
<1>6. Held(w, o) => Held(v, o)
  BY <1>3, <1>4, <1>5, HandlesFall DEF Held, Detached
<1>7. \A c : Ended(w, o, c) => Ended(v, o, c)
  BY <1>4, <1>6 DEF Ended
<1> QED
  BY <1>2, <1>7 DEF v

LEMMA ForFetchEnded ==
    ASSUME NEW o \in Obj, NEW w, In(w, o), NEW rows \in Sizes
    PROVE  LET v == ForFetch(w, o, rows)
           IN /\ v.is = w.is
              /\ \A c : Ended(w, o, c) => Ended(v, o, c)
              /\ v.obj[o].tuple = -1 /\ v.obj[o].known = -1 /\ v.obj[o].len = rows
              /\ v.obj[o].live = w.obj[o].live /\ v.obj[o].cursor = w.obj[o].cursor
              /\ v.obj[o].out = w.obj[o].out /\ v.obj[o].res = w.obj[o].res
<1>1. w \in State
  BY InIs
<1>2. PICK r \in Record : r = w.obj[o]
  BY <1>1 DEF State
<1> DEFINE x == [r EXCEPT !.tuple = -1, !.known = -1, !.len = rows]
<1>3. x \in Record
  <2>1. rows \in Lengths /\ -1 \in Lines
    BY BoundsIs
  <2>2. PICK l \in Lines : l = -1
    BY <2>1
  <2>3. [r EXCEPT !.tuple = l, !.known = l, !.len = rows] \in Record
    BY <2>1 DEF Record
  <2> QED
    BY <2>2, <2>3
<1>4. /\ x.trans = r.trans /\ x.db = r.db /\ x.live = r.live /\ x.blob = r.blob
      /\ x.cursor = r.cursor /\ x.out = r.out /\ x.res = r.res /\ Alike(r, x)
      /\ x.tuple = -1 /\ x.known = -1 /\ x.len = rows
  BY DEF Record, Alike
<1>5. ForFetch(w, o, rows) = [w EXCEPT !.obj[o] = x]
  BY <1>1, <1>2 DEF ForFetch, State
<1> HIDE DEF x
<1>6. LET v == [w EXCEPT !.obj[o] = x]
      IN /\ v.is = w.is /\ v.obj[o] = x
         /\ \A c : Ended(w, o, c) => Ended(v, o, c)
  BY <1>2, <1>3, <1>4, PutEnded
<1> QED
  BY <1>2, <1>4, <1>5, <1>6

LEMMA ErrorEnded ==
    ASSUME NEW o \in Obj, NEW c \in Attachments, NEW w, Going(w, o, c),
           NEW lost \in BOOLEAN, lost => CallLost(w, o)
    PROVE  /\ Ended(Error(w, o, lost, c), o, c) /\ ~Ok(Error(w, o, lost, c))
           /\ Wanes(w, o) => Wanes(Error(w, o, lost, c), o)
           /\ Error(w, o, lost, c).obj[o].live => w.obj[o].live
<1>1. Keeps(w, Error(w, o, lost, c), o, c) /\ ~Ok(Error(w, o, lost, c))
  BY ErrorKeeps DEF Going, Ended
<1> QED
  BY <1>1, KeepsGoing

LEMMA ExecErrorEnded ==
    ASSUME NEW o \in Obj, NEW c, NEW w, Ended(w, o, c)
    PROVE  /\ Ended(ExecError(w, o), o, c) /\ ~Ok(ExecError(w, o))
           /\ Wanes(w, o) => Wanes(ExecError(w, o), o)
           /\ ExecError(w, o).obj[o].live => w.obj[o].live
<1>1. Quiet(w, ExecError(w, o), o) /\ ~Ok(ExecError(w, o))
  BY ExecErrorQuiet DEF Ended
<1> QED
  BY <1>1, QuietEnded

LEMMA CallLostType ==
    ASSUME NEW w, NEW o PROVE CallLost(w, o) \in BOOLEAN /\ IsLost(w, Trans(w, o)) \in BOOLEAN
BY DEF CallLost, IsLost

LEMMA LeastNumber ==
    ASSUME NEW S \in SUBSET Nat, S # {}
    PROVE  \E n \in S : \A m \in S : n <= m
<1> DEFINE Below == {0 .. n - 1 : n \in S}
<1>1. Below \subseteq FiniteSubsetsOf(Nat) /\ Below # {}
  <2>1. \A n \in Nat : 0 .. n - 1 \subseteq Nat /\ IsFiniteSet(0 .. n - 1)
    BY FS_Interval
  <2> QED
    BY <2>1 DEF FiniteSubsetsOf
<1>2. PICK T \in Below : \A U \in Below : <<U, T>> \notin StrictSubsetOrdering(Nat)
  <2> HIDE DEF Below
  <2> QED
    BY <1>1, FS_StrictSubsetOrderingWellFounded, WFMin
<1>3. PICK n \in S : T = 0 .. n - 1
  OBVIOUS
<1>4. ASSUME NEW m \in S, m < n PROVE FALSE
  <2>1. 0 .. m - 1 \in Below /\ 0 .. m - 1 \subseteq T
    BY <1>3, <1>4
  <2>2. m \in T /\ m \notin 0 .. m - 1
    BY <1>3, <1>4
  <2> QED
    BY <1>1, <1>2, <2>1, <2>2 DEF StrictSubsetOrdering, FiniteSubsetsOf
<1> QED
  BY <1>4

(* How far a text gets. *)
LEMMA UpToErrorIs ==
    ASSUME NEW t \in Texts
    PROVE  UpToError(t) \in 0 .. Len(t) /\ Len(t) \in Nat
<1> DEFINE bad == {i \in 1 .. Len(t) : t[i] = "bad"}
<1>1. Len(t) \in Nat
  BY ServerAssumption
<1>2. bad \subseteq 1 .. Len(t) /\ bad \subseteq Nat
  BY <1>1
<1> DEFINE first == CHOOSE i \in bad : \A j \in bad : i <= j
<1>3. UpToError(t) = IF bad = {} THEN Len(t) ELSE first - 1
  BY DEF UpToError
<1> HIDE DEF bad
<1>4. bad # {} => first \in bad
  BY <1>2, LeastNumber
<1> HIDE DEF first
<1>5. CASE bad = {}
  <2>1. UpToError(t) = Len(t)
    BY <1>3, <1>5
  <2> QED
    BY <1>1, <2>1
<1>6. CASE bad # {}
  <2>1. first \in 1 .. Len(t) /\ UpToError(t) = first - 1
    BY <1>2, <1>3, <1>4, <1>6
  <2> QED
    BY <1>1, <2>1
<1> QED
  BY <1>5, <1>6

(* The record of o has become r, which has a new result. *)
Gained(s, r) == /\ r.live /\ r.cursor /\ r.out /\ r.res = Another(s.res)
                /\ r.tuple = -1 /\ r.known = -1

(* The state in which exec executes its first command. *)
LEMMA BegunIs ==
    ASSUME NEW o \in Obj, In(Now, o), Opened(o), NEW c \in Attachments,
           NEW ids \in SUBSET Work, NEW refuses \in BOOLEAN
    PROVE  LET v == Numbered(Autocommit(CloseCursor(Now, o), o, refuses, c), ids)
           IN /\ Ended(v, o, c) /\ (Ok(v) => Going(v, o, c))
              /\ v.obj[o].res = obj[o].res
              /\ Shown \/ Held(Now, o) => ~v.obj[o].live
<1> DEFINE closed == CloseCursor(Now, o)
           a == Autocommit(closed, o, refuses, c)
           begun == Numbered(a, ids)
<1>1. /\ Going(closed, o, c) /\ (Handles(obj, srv) => ~closed.obj[o].live)
      /\ Shown => ~closed.obj[o].live
      /\ closed.obj[o].res = obj[o].res
  <2>1. Passes(Now, closed, o, c)
    BY CloseCursorPasses
  <2>2. Handles(Now.obj, Now.srv) => ~closed.obj[o].live
    BY CloseCursorFalls
  <2>3. closed.obj[o].res = obj[o].res
    BY <2>1 DEF Passes, Quiet, Follows, Lowered, Now
  <2> QED
    BY <2>1, <2>2, <2>3, ShownClosed, NowGoing, PassesGoing DEF Now
<1> HIDE DEF closed
<1>2. /\ Ended(a, o, c) /\ (Ok(a) => Going(a, o, c))
      /\ a.obj[o].live => closed.obj[o].live
      /\ a.obj[o].res = closed.obj[o].res
  <2>1. Keeps(closed, a, o, c)
    BY <1>1, AutocommitKeeps DEF Going, Ended
  <2>2. a.obj[o].res = closed.obj[o].res
    BY <2>1 DEF Keeps, Follows, Lowered
  <2> QED
    BY <1>1, <2>1, <2>2, KeepsGoing
<1> HIDE DEF a
<1>3. /\ Ended(begun, o, c) /\ (Ok(begun) => Going(begun, o, c))
      /\ begun.obj[o].live => a.obj[o].live
      /\ begun.obj[o].res = a.obj[o].res
  <2>1. begun.is = a.is /\ Passes(a, begun, o, c)
    BY <1>2, NumberedPasses DEF Ended
  <2>2. Ended(begun, o, c)
    BY <1>2, <2>1, QuietEnded DEF Passes
  <2>3. Ok(begun) => Going(begun, o, c)
    BY <1>2, <2>1, PassesGoing DEF Ok
  <2>4. /\ begun.obj[o].live => a.obj[o].live
        /\ begun.obj[o].res = a.obj[o].res
    BY <2>1 DEF Passes, Quiet, Follows, Lowered
  <2> QED
    BY <2>2, <2>3, <2>4
<1> HIDE DEF begun
<1>4. (Shown => ~begun.obj[o].live) /\ begun.obj[o].res = obj[o].res
  BY <1>1, <1>2, <1>3
<1>5. Held(Now, o) => ~begun.obj[o].live
  BY <1>1, <1>2, <1>3 DEF Held, Detached, Opened, Now
<1> QED
  BY <1>3, <1>4, <1>5 DEF begun, a, closed

LEMMA ExecTextEnded ==
    ASSUME NEW o \in Obj, In(Now, o), Opened(o), NEW c \in Attachments, NEW t \in Texts,
           NEW fetch \in BOOLEAN, NEW n \in Nat, NEW ids \in SUBSET Work,
           NEW rows \in Sizes, NEW refused
    PROVE  LET v == ExecText(o, t, fetch, n, ids, rows, refused, c)
           IN /\ Ended(v, o, c)
              /\ Shown => ~v.obj[o].live \/ (Ok(v) /\ Gained(obj[o], v.obj[o]))
<1> DEFINE closed == CloseCursor(Now, o)
           a == Autocommit(closed, o, refused = "first", c)
           begun == Numbered(a, ids)
           done == Processed(begun, o, t, n, ids)
           last == CloseCursor(done, o)
           v == ExecText(o, t, fetch, n, ids, rows, refused, c)
<1>3. Ended(begun, o, c) /\ (Ok(begun) => Going(begun, o, c))
  BY BegunIs
<1>7. (Shown \/ Held(Now, o) => ~begun.obj[o].live) /\ begun.obj[o].res = obj[o].res
  BY BegunIs
<1> HIDE DEF closed, a, begun
<1>4. CASE ~Ok(begun)
  <2>1. v = ExecError(begun, o)
    BY <1>4 DEF ExecText, begun, a, closed
  <2> QED
    BY <1>3, <1>7, <2>1, ExecErrorEnded
<1>5. CASE Ok(begun) /\ ~CallWorks(begun, o)
  <2> DEFINE e == Error(begun, o, CallLost(begun, o), c)
  <2>1. v = ExecError(e, o)
    BY <1>5 DEF ExecText, begun, a, closed
  <2>2. Ended(e, o, c) /\ (e.obj[o].live => begun.obj[o].live)
    BY <1>3, <1>5, CallLostType, ErrorEnded
  <2> HIDE DEF e
  <2> QED
    BY <1>7, <2>1, <2>2, ExecErrorEnded
<1>6. CASE Ok(begun) /\ CallWorks(begun, o)
  <2>1. /\ In(done, o) /\ done.is = begun.is
        /\ ~begun.obj[o].live /\ Held(begun, o) => Held(done, o)
        /\ Spare(begun, o, c) => Spare(done, o, c)
        /\ IF n = Len(t) /\ Selects(t)
           THEN /\ done.obj[o].live /\ done.obj[o].cursor /\ done.obj[o].out
                /\ done.obj[o].res = Another(begun.obj[o].res)
           ELSE done.obj[o].live = begun.obj[o].live
    BY <1>3, <1>6, ProcessedIs DEF Ended
  <2>2. Held(Now, o) => ~begun.obj[o].live
    BY <1>7
  <2>3. Going(done, o, c) /\ Ended(done, o, c) /\ Ok(done)
    BY <1>3, <1>6, <2>1, <2>2 DEF Going, Ended, Ok
  <2> HIDE DEF done
  <2>4. /\ Ended(ExecError(done, o), o, c)
        /\ ExecError(done, o).obj[o].live => done.obj[o].live
    BY <2>3, ExecErrorEnded
  <2>5. LET e == ExecError(Error(done, o, FALSE, c), o)
        IN Ended(e, o, c) /\ (e.obj[o].live => done.obj[o].live)
    BY <2>3, ErrorEnded, ExecErrorEnded
  <2>6. /\ Ended(ForFetch(done, o, rows), o, c)
        /\ \/ ~ForFetch(done, o, rows).obj[o].live
           \/ /\ Ok(ForFetch(done, o, rows))
              /\ done.obj[o].live
              /\ done.obj[o].cursor /\ done.obj[o].out
                 /\ done.obj[o].res = Another(obj[o].res)
                 => Gained(obj[o], ForFetch(done, o, rows).obj[o])
    BY <2>1, <2>3, ForFetchEnded DEF Gained, Ok
  <2>7. /\ Ended(CommitAtEnd(last, o, refused = "last", c), o, c)
        /\ CommitAtEnd(last, o, refused = "last", c).obj[o].live =>
              done.obj[o].live /\ ~done.obj[o].cursor
    <3>1. Going(last, o, c)
      BY <2>1, <2>3, CloseCursorPasses, PassesGoing
    <3>2. last.obj[o].live => ~done.obj[o].cursor /\ done.obj[o].live
      BY <2>1, InIs, CloseCursorIs DEF Follows, Lowered
    <3> HIDE DEF last
    <3>3. Keeps(last, CommitAtEnd(last, o, refused = "last", c), o, c)
      BY <3>1, CommitAtEndKeeps DEF Going, Ended
    <3> QED
      BY <3>1, <3>2, <3>3, KeepsGoing DEF last
  <2>8. v = IF n < UpToError(t) THEN ExecError(done, o)
            ELSE IF n < Len(t) THEN ExecError(Error(done, o, FALSE, c), o)
            ELSE IF Selects(t) /\ fetch THEN ForFetch(done, o, rows)
            ELSE CommitAtEnd(last, o, refused = "last", c)
    BY <1>6 DEF ExecText, last, done, begun, a, closed
  <2>9. n < UpToError(t) \/ n < Len(t) => n # Len(t)
    BY UpToErrorIs
  <2>10. Shown /\ done.obj[o].live =>
            /\ n = Len(t) /\ done.obj[o].cursor /\ done.obj[o].out
            /\ done.obj[o].res = Another(obj[o].res)
    BY <1>7, <2>1
  <2> HIDE DEF last, v
  <2> QED
    BY <2>4, <2>5, <2>6, <2>7, <2>8, <2>9, <2>10 DEF v
<1> QED
  BY <1>4, <1>5, <1>6

(* What the selects of the error handler, and the handler, do between two  *)
(* commands of exec, with nothing to attach to.                             *)
Runs(w, v, o) == In(v, o) /\ (Held(w, o) => Held(v, o)) /\ (v.obj[o].live => w.obj[o].live)

LEMMA RunsTwice ==
    ASSUME NEW o \in Obj, NEW w, NEW v, NEW u, Runs(w, v, o), Runs(v, u, o)
    PROVE  Runs(w, u, o)
BY DEF Runs

LEMMA QuietRuns ==
    ASSUME NEW o \in Obj, NEW w, In(w, o), NEW v, Quiet(w, v, o) PROVE Runs(w, v, o)
<1>1. In(v, o)
  BY InStays DEF Quiet
<1>2. v.obj[o].live => w.obj[o].live
  BY WanesOn DEF Quiet
<1> QED
  BY <1>1, <1>2 DEF Runs, Quiet

LEMMA KeepsQuiet ==
    ASSUME NEW o \in Obj, NEW w, NEW v, Keeps(w, v, o, 0) PROVE Quiet(w, v, o)
BY DEF Keeps, Quiet, Spare

LEMMA CloseCursorRuns ==
    ASSUME NEW o \in Obj, NEW w, In(w, o) PROVE Runs(w, CloseCursor(w, o), o)
<1>1. Quiet(w, CloseCursor(w, o), o)
  BY CloseCursorPasses DEF Passes, Attachments
<1> QED
  BY <1>1, QuietRuns

LEMMA QueryRuns ==
    ASSUME NEW o \in Obj, NEW w, In(w, o), NEW refused PROVE Runs(w, Query(w, o, refused), o)
<1> DEFINE closed == CloseCursor(w, o)
           begun == Autocommit(closed, o, refused = "first", 0)
           opened == Processed(begun, o, <<"select">>, 1, {})
           done == CloseCursor(opened, o)
           failed == Error(begun, o, CallLost(begun, o), 0)
           last == CommitAtEnd(done, o, refused = "last", 0)
           v == Query(w, o, refused)
<1>7. CASE ~Ok(w)
  <2>1. v = w
    BY <1>7 DEF Query
  <2> QED
    BY <2>1, SameQuiet, QuietRuns
<1>8. Ok(w) => v = Selected(begun, o, refused)
  BY DEF Query
<1> HIDE DEF v
<1>0. 0 \in Attachments
  BY DEF Attachments
<1>1. /\ In(closed, o) /\ Quiet(w, closed, o)
      /\ Handles(w.obj, w.srv) => ~closed.obj[o].live
  <2>1. Quiet(w, closed, o)
    BY <1>0, CloseCursorPasses DEF Passes
  <2>2. Handles(w.obj, w.srv) => ~closed.obj[o].live
    BY CloseCursorFalls
  <2> QED
    BY <2>1, <2>2, QuietRuns DEF Runs
<1> HIDE DEF closed
<1>2. Quiet(closed, begun, o)
  BY <1>0, <1>1, AutocommitKeeps, KeepsQuiet
<1> HIDE DEF begun
<1>3. Runs(w, begun, o) /\ In(begun, o) /\ Quiet(w, begun, o)
  <2>1. Quiet(w, begun, o)
    BY <1>1, <1>2, QuietTwice
  <2> QED
    BY <2>1, QuietRuns DEF Runs
<1>4. ASSUME ~Ok(begun) PROVE Runs(w, Selected(begun, o, refused), o)
  <2>1. Selected(begun, o, refused) = ExecError(begun, o)
    BY <1>4 DEF Selected
  <2>2. Runs(begun, ExecError(begun, o), o)
    BY <1>3, ExecErrorQuiet, QuietRuns
  <2> QED
    BY <1>3, <2>1, <2>2, RunsTwice
<1>5. ASSUME Ok(begun), ~CallWorks(begun, o) PROVE Runs(w, Selected(begun, o, refused), o)
  <2>1. Selected(begun, o, refused) = ExecError(failed, o)
    BY <1>5 DEF Selected
  <2>2. Runs(begun, failed, o) /\ In(failed, o)
    <3>1. Quiet(begun, failed, o)
      BY <1>0, <1>3, CallLostType, ErrorKeeps, KeepsQuiet
    <3> QED
      BY <1>3, <3>1, QuietRuns DEF Runs
  <2> HIDE DEF failed
  <2>3. Runs(failed, ExecError(failed, o), o)
    BY <2>2, ExecErrorQuiet, QuietRuns
  <2> QED
    BY <1>3, <2>1, <2>2, <2>3, RunsTwice
<1>6. ASSUME Ok(begun), CallWorks(begun, o) PROVE Runs(w, Selected(begun, o, refused), o)
  <2>1. Selected(begun, o, refused) = last
    BY <1>6 DEF Selected
  <2>2. Selects(<<"select">>) /\ Len(<<"select">>) = 1
    BY DEF Selects
  <2>3. /\ In(opened, o) /\ (~begun.obj[o].live /\ Held(begun, o) => Held(opened, o))
        /\ opened.obj[o].cursor
    <3> DEFINE t == <<"select">>
    <3>1. Selects(t) /\ Len(t) = 1 /\ {} \in SUBSET Work /\ 1 \in Nat
      BY <2>2
    <3> HIDE DEF t
    <3>2. LET u == Processed(begun, o, t, 1, {})
          IN /\ In(u, o) /\ (~begun.obj[o].live /\ Held(begun, o) => Held(u, o))
             /\ u.obj[o].cursor
      BY <1>0, <1>3, <1>6, <3>1, ProcessedIs
    <3> QED
      BY <3>2 DEF t
  <2> HIDE DEF opened
  <2>4. Held(w, o) => ~begun.obj[o].live
    <3>1. begun.obj[o].live => closed.obj[o].live
      BY <1>2, WanesOn DEF Quiet
    <3>2. begun.obj[o].db # 0
      BY <1>6 DEF CallWorks, IsOpen
    <3>3. w.obj[o].db # 0
      BY <1>3, <3>2 DEF Quiet, Follows
    <3> QED
      BY <1>1, <3>1, <3>3 DEF Held, Detached
  <2>5. Held(w, o) => Held(opened, o)
    BY <1>3, <2>3, <2>4 DEF Runs
  <2>6. Runs(opened, done, o) /\ In(done, o) /\ ~done.obj[o].live
    <3>1. Runs(opened, done, o)
      BY <2>3, CloseCursorRuns
    <3>2. opened \in State
      BY <2>3, InIs
    <3>3. ~done.obj[o].live
      BY <2>3, <3>2, CloseCursorIs
    <3> QED
      BY <3>1, <3>3 DEF Runs
  <2> HIDE DEF done
  <2>7. Runs(done, last, o)
    BY <1>0, <2>6, CommitAtEndKeeps, KeepsQuiet, QuietRuns
  <2> QED
    BY <2>1, <2>5, <2>6, <2>7 DEF Runs
<1> HIDE DEF last
<1>9. Runs(w, Selected(begun, o, refused), o)
  BY <1>4, <1>5, <1>6
<1> QED
  BY <1>7, <1>8, <1>9 DEF v

LEMMA IndexInfoRuns ==
    ASSUME NEW o \in Obj, NEW w, In(w, o), NEW refused, NEW again
    PROVE  Runs(w, IndexInfo(w, o, refused, again), o)
<1> DEFINE found == Query(w, o, refused)
<1>1. Runs(w, found, o)
  BY QueryRuns
<1> HIDE DEF found
<1>2. Runs(found, Query(found, o, again), o)
  BY <1>1, QueryRuns DEF Runs
<1>3. IndexInfo(w, o, refused, again) = Query(found, o, again)
  BY DEF IndexInfo, found
<1> QED
  BY <1>1, <1>2, <1>3, RunsTwice

LEMMA UndoIfAutoRuns ==
    ASSUME NEW o \in Obj, NEW w, In(w, o), NEW driver PROVE Runs(w, UndoIfAuto(w, o, driver), o)
<1>1. Quiet(w, Undo(w, o), o) /\ Quiet(w, w, o)
  BY UndoPasses, SameQuiet DEF Passes, Attachments
<1> QED
  BY <1>1, QuietRuns DEF UndoIfAuto

LEMMA KeyErrorRuns ==
    ASSUME NEW o \in Obj, NEW w, In(w, o), NEW refused, NEW again
    PROVE  Runs(w, KeyError(w, o, refused, again), o)
<1> DEFINE undone == UndoIfAuto(w, o, "firebird")
           looked == IndexInfo(undone, o, refused, again)
           closed == CloseCursor(looked, o)
           over == UndoIfAuto(closed, o, "interbase")
<1>1. KeyError(w, o, refused, again) = Fails(over)
  BY DEF KeyError
<1>2. Runs(w, undone, o) /\ In(undone, o)
  BY UndoIfAutoRuns DEF Runs
<1> HIDE DEF undone
<1>3. Runs(undone, looked, o) /\ In(looked, o)
  BY <1>2, IndexInfoRuns DEF Runs
<1> HIDE DEF looked
<1>4. Runs(looked, closed, o) /\ In(closed, o)
  BY <1>3, CloseCursorRuns DEF Runs
<1> HIDE DEF closed
<1>5. Runs(closed, over, o) /\ In(over, o)
  BY <1>4, UndoIfAutoRuns DEF Runs
<1> HIDE DEF over
<1>6. Runs(over, Fails(over), o)
  BY <1>5, FailsQuiet, QuietRuns
<1> QED
  BY <1>1, <1>2, <1>3, <1>4, <1>5, <1>6, RunsTwice

LEMMA ExecViolatesEnded ==
    ASSUME NEW o \in Obj, In(Now, o), Opened(o), NEW c \in Attachments, NEW t \in Texts,
           NEW n \in Nat, n # Len(t), NEW ids \in SUBSET Work, NEW refused, NEW again
    PROVE  LET begun == Numbered(Autocommit(CloseCursor(Now, o), o, FALSE, c), ids)
               done == Processed(begun, o, t, n, ids)
               v == ExecError(KeyError(done, o, refused, again), o)
           IN Ok(begun) /\ CallWorks(begun, o) => Ended(v, o, c) /\ (Shown => Wanes(v, o))
<1> DEFINE begun == Numbered(Autocommit(CloseCursor(Now, o), o, FALSE, c), ids)
           done == Processed(begun, o, t, n, ids)
           k == KeyError(done, o, refused, again)
           v == ExecError(k, o)
<1> SUFFICES ASSUME Ok(begun), CallWorks(begun, o) PROVE Ended(v, o, c) /\ (Shown => Wanes(v, o))
  OBVIOUS
<1>1. Ended(begun, o, c) /\ (Shown \/ Held(Now, o) => ~begun.obj[o].live)
  BY BegunIs
<1> HIDE DEF begun
<1>2. /\ In(done, o)
      /\ ~begun.obj[o].live /\ Held(begun, o) => Held(done, o)
      /\ done.obj[o].live = begun.obj[o].live
  BY <1>1, ProcessedIs DEF Ended
<1> HIDE DEF done
<1>3. Runs(done, k, o) /\ In(k, o)
  BY <1>2, KeyErrorRuns DEF Runs
<1> HIDE DEF k
<1>4. Runs(k, v, o)
  BY <1>3, ExecErrorQuiet, QuietRuns
<1> HIDE DEF v
<1>5. Runs(done, v, o)
  BY <1>3, <1>4, RunsTwice
<1>6. Ended(v, o, c)
  BY <1>1, <1>2, <1>5 DEF Ended, Runs
<1> QED
  BY <1>1, <1>2, <1>5, <1>6 DEF Runs, Wanes

LEMMA PreparedGoing ==
    ASSUME NEW o \in Obj, NEW c \in Attachments, NEW w, Going(w, o, c),
           Held(Now, o) => ~w.obj[o].live
    PROVE  LET v == [w EXCEPT !.obj[o].out = FALSE]
           IN /\ Going(v, o, c) /\ Ended(v, o, c) /\ v.is = w.is
              /\ CallWorks(w, o) => CallWorks(v, o)
              /\ v.obj[o].live => w.obj[o].live
<1> DEFINE v == [w EXCEPT !.obj[o].out = FALSE]
<1>1. In(w, o) /\ w \in State /\ Root(o) \in Obj
  BY InIs DEF Going, Ended
<1>2. PICK r \in Record : r = w.obj[o]
  BY <1>1 DEF State
<1>3. PICK b \in BOOLEAN : b = FALSE
  OBVIOUS
<1> DEFINE x == [r EXCEPT !.out = b]
<1>4. x \in Record
  BY FlagRecord
<1>5. /\ x.trans = r.trans /\ x.db = r.db /\ x.live = r.live /\ x.blob = r.blob
      /\ x.cursor = r.cursor /\ Alike(r, x) /\ (~r.live => Lowered(r, x))
  BY DEF Record, Lowered, Alike
<1>6. v = [w EXCEPT !.obj[o] = x]
  BY <1>1, <1>2, <1>3 DEF State
<1> HIDE DEF x, v
<1>7. /\ v \in State /\ v.srv = w.srv /\ v.is = w.is /\ v.obj[o] = x
      /\ \A q \in Obj : q # o => v.obj[q] = w.obj[q]
  BY <1>1, <1>4, <1>6, PutObject
<1>8. In(v, o)
  BY <1>1, <1>2, <1>5, <1>7 DEF In, Alike, Lowered
<1>9. (CallWorks(w, o) => CallWorks(v, o)) /\ (v.obj[o].live => w.obj[o].live)
  BY <1>1, <1>2, <1>5, <1>7 DEF CallWorks, IsOpen, Trans
<1>10. CASE w.obj[o].live
  BY <1>7, <1>8, <1>9, <1>10 DEF Going, Ended, v
<1>11. CASE ~w.obj[o].live
  <2>1. v.is = w.is /\ \A e \in Attachments : Passes(w, v, o, e)
    BY <1>1, <1>2, <1>4, <1>5, <1>6, <1>11, PutPasses
  <2> QED
    BY <1>7, <1>9, <2>1, PassesGoing DEF v
<1> QED
  BY <1>10, <1>11

LEMMA SetAutoGoing ==
    ASSUME NEW o \in Obj, NEW c \in Attachments, NEW w, Going(w, o, c), NEW b \in BOOLEAN
    PROVE  LET v == SetAuto(w, o, b)
           IN Going(v, o, c) /\ Ended(v, o, c) /\ (Wanes(w, o) => Wanes(v, o))
<1>1. Passes(w, SetAuto(w, o, b), o, c)
  BY SetAutoPasses DEF Going, Ended
<1> QED
  BY <1>1, PassesGoing

LEMMA CloseCursorGoing ==
    ASSUME NEW o \in Obj, NEW c \in Attachments, NEW w, Going(w, o, c)
    PROVE  LET v == CloseCursor(w, o)
           IN Going(v, o, c) /\ Ended(v, o, c) /\ (Wanes(w, o) => Wanes(v, o))
<1>1. Passes(w, CloseCursor(w, o), o, c)
  BY CloseCursorPasses DEF Going, Ended
<1> QED
  BY <1>1, PassesGoing

LEMMA UndoGoing ==
    ASSUME NEW o \in Obj, NEW c \in Attachments, NEW w, Going(w, o, c)
    PROVE  LET v == Undo(w, o)
           IN Going(v, o, c) /\ Ended(v, o, c) /\ (Wanes(w, o) => Wanes(v, o))
<1>1. Passes(w, Undo(w, o), o, c)
  BY UndoPasses DEF Going, Ended
<1> QED
  BY <1>1, PassesGoing

LEMMA StatementEnded ==
    ASSUME NEW o \in Obj, NEW c \in Attachments, NEW w, Going(w, o, c), CallWorks(w, o),
           NEW refused \in BOOLEAN, NEW command
    PROVE  LET s == Statement(w, o, command, refused, c)
           IN Ended(s, o, c) /\ (Wanes(w, o) => Wanes(s, o))
<1> DEFINE s == Statement(w, o, command, refused, c)
<1>0. In(w, o)
  BY DEF Going, Ended
<1>1. CASE command = "begin"
  <2> DEFINE v == Transaction_Commit(w, o, TRUE, refused, c)
             u == Started(v, o)
  <2>1. Keeps(w, v, o, c) /\ (Ok(v) => Trans(v, o) = 0 /\ Linked_Same(w, v))
    BY <1>0, TransactionCommitKeeps
  <2>2. s = IF Ok(v) THEN SetAuto(u, o, FALSE) ELSE v
    BY <1>1 DEF Statement
  <2> HIDE DEF v
  <2>3. Ended(v, o, c) /\ (Ok(v) => Going(v, o, c)) /\ (Wanes(w, o) => Wanes(v, o))
    BY <2>1, KeepsGoing
  <2>4. CASE Ok(v)
    <3>1. IsOpen(v, v.obj[o].db) /\ In(v, o)
      BY <1>0, <2>1, <2>3, <2>4, TransType DEF CallWorks, IsOpen, Linked_Same, Ended, Attachments
    <3>2. Passes(v, u, o, c)
      BY <2>1, <2>4, <3>1, StartedIs
    <3>3. Going(u, o, c) /\ (Wanes(v, o) => Wanes(u, o))
      BY <2>3, <2>4, <3>2, PassesGoing
    <3> HIDE DEF u
    <3> QED
      BY <2>2, <2>3, <2>4, <3>3, SetAutoGoing
  <2> QED
    BY <2>2, <2>3, <2>4
<1>2. CASE command # "begin" /\ refused
  <2> DEFINE u == SetAuto(w, o, TRUE)
  <2>1. s = Error(u, o, FALSE, c)
    BY <1>2 DEF Statement
  <2>2. Going(u, o, c) /\ (Wanes(w, o) => Wanes(u, o))
    BY SetAutoGoing
  <2> HIDE DEF u
  <2> QED
    BY <2>1, <2>2, ErrorEnded
<1>3. CASE command # "begin" /\ ~refused
  <2> DEFINE f == FullCommit(w, o)
             u == Undo(w, o)
             v == IF command = "commit" THEN f ELSE u
  <2>1. s = SetAuto(v, o, TRUE)
    BY <1>3 DEF Statement
  <2>2. Trans(w, o) \in Conn
    BY <1>0, TransType DEF CallWorks, IsOpen, Attachments
  <2>3. Over(w, f, o)
    BY <1>0, <2>2, FullCommitIs
  <2>4. Passes(w, f, o, c)
    BY <1>0, <2>3, FallsPasses DEF Over
  <2>5. /\ Going(f, o, c) /\ (Wanes(w, o) => Wanes(f, o))
        /\ Going(u, o, c) /\ (Wanes(w, o) => Wanes(u, o))
    BY <2>4, PassesGoing, UndoGoing
  <2> HIDE DEF f, u
  <2>6. Going(v, o, c) /\ (Wanes(w, o) => Wanes(v, o))
    BY <2>5
  <2> QED
    BY <2>1, <2>6, SetAutoGoing
<1> QED
  BY <1>1, <1>2, <1>3

LEMMA ExecTransactionEnded ==
    ASSUME NEW o \in Obj, In(Now, o), Opened(o), NEW c \in Attachments, NEW command,
           NEW refused \in BOOLEAN
    PROVE  LET begun == Autocommit(CloseCursor(Now, o), o, FALSE, c)
               prepared == [begun EXCEPT !.obj[o].out = FALSE]
               w == IF ~Ok(begun) THEN begun
                    ELSE IF ~CallWorks(begun, o) THEN Error(begun, o, CallLost(begun, o), c)
                    ELSE Statement(prepared, o, command, refused, c)
               x == IF Ok(w) THEN w ELSE ExecError(w, o)
           IN Ended(w, o, c) /\ Ended(x, o, c) /\ (Shown => Wanes(x, o))
<1> DEFINE closed == CloseCursor(Now, o)
           begun == Autocommit(closed, o, FALSE, c)
           prepared == [begun EXCEPT !.obj[o].out = FALSE]
           e == Error(begun, o, CallLost(begun, o), c)
           s == Statement(prepared, o, command, refused, c)
           w == IF ~Ok(begun) THEN begun ELSE IF ~CallWorks(begun, o) THEN e ELSE s
<1>1. Going(closed, o, c) /\ (Handles(obj, srv) => ~closed.obj[o].live)
  <2>1. Handles(Now.obj, Now.srv) => ~closed.obj[o].live
    BY CloseCursorFalls
  <2> QED
    BY <2>1, NowGoing, CloseCursorGoing DEF Now
<1> HIDE DEF closed
<1>2. /\ Ended(begun, o, c) /\ (Ok(begun) => Going(begun, o, c))
      /\ begun.obj[o].live => closed.obj[o].live
  <2>1. Keeps(closed, begun, o, c)
    BY <1>1, AutocommitKeeps DEF Going, Ended
  <2>2. begun.obj[o].live => closed.obj[o].live
    BY <2>1 DEF Keeps, Follows, Lowered
  <2> QED
    BY <1>1, <2>1, <2>2, KeepsGoing
<1>3. Shown => ~begun.obj[o].live /\ Wanes(begun, o)
  BY <1>2, ShownClosed DEF closed, Wanes
<1> HIDE DEF begun
<1>4. Held(Now, o) => ~begun.obj[o].live
  BY <1>1, <1>2 DEF Held, Detached, Opened, Now
<1>5. Ok(begun) => Ended(e, o, c) /\ (Shown => Wanes(e, o))
  BY <1>2, <1>3, CallLostType, ErrorEnded
<1>6. Ok(begun) /\ CallWorks(begun, o) => Ended(s, o, c) /\ (Shown => Wanes(s, o))
  <2> HAVE Ok(begun) /\ CallWorks(begun, o)
  <2>1. /\ Going(prepared, o, c) /\ CallWorks(prepared, o)
        /\ prepared.obj[o].live => begun.obj[o].live
    BY <1>2, <1>4, PreparedGoing
  <2>2. Shown => Wanes(prepared, o)
    BY <1>3, <2>1 DEF Wanes
  <2> HIDE DEF prepared
  <2> QED
    BY <2>1, <2>2, StatementEnded
<1> HIDE DEF e, s
<1>7. Ended(w, o, c) /\ (Shown => Wanes(w, o))
  BY <1>2, <1>5, <1>6, <1>3
<1> HIDE DEF w
<1> DEFINE x == IF Ok(w) THEN w ELSE ExecError(w, o)
<1>8. Ended(x, o, c) /\ (Shown => Wanes(x, o))
  BY <1>7, ExecErrorEnded
<1> QED
  BY <1>7, <1>8 DEF x, w, e, s, prepared, begun, closed

-----------------------------------------------------------------------------------
(* begin, commit, rollback and the blobs *)

LEMMA BeginEnded ==
    ASSUME NEW o \in Obj, In(Now, o), NEW c \in Attachments, NEW refused \in BOOLEAN
    PROVE  Ended(BeginWith(o, refused, c), o, c) /\ Wanes(BeginWith(o, refused, c), o)
<1> DEFINE v == CommitIfAny(Now, o, TRUE, refused, c)
           s == Transaction_Start(v, o, c)
           u == IF Ok(v) THEN s ELSE v
<1>1. Ended(v, o, c) /\ (Ok(v) => Going(v, o, c)) /\ Wanes(v, o)
  BY NowGoing, CommitIfAnyKeeps, KeepsGoing
<1> HIDE DEF v
<1>2. Ok(v) => Ended(s, o, c) /\ (Ok(s) => Going(s, o, c)) /\ Wanes(s, o)
  BY <1>1, TransactionStartKeeps, KeepsGoing DEF Ended
<1> HIDE DEF s
<1>3. Ended(u, o, c) /\ (Ok(u) => Going(u, o, c)) /\ Wanes(u, o)
  BY <1>1, <1>2
<1>4. BeginWith(o, refused, c) = IF Ok(u) THEN SetAuto(u, o, FALSE) ELSE u
  BY DEF BeginWith, u, s, v
<1> HIDE DEF u
<1> QED
  BY <1>3, <1>4, SetAutoGoing

LEMMA CommitEnded ==
    ASSUME NEW o \in Obj, In(Now, o), NEW c \in Attachments, NEW refused \in BOOLEAN
    PROVE  Ended(CommitWith(o, refused, c), o, c) /\ Wanes(CommitWith(o, refused, c), o)
<1> DEFINE u == SetAuto(Now, o, TRUE)
           v == CloseCursor(u, o)
<1>1. Going(u, o, c) /\ Wanes(u, o)
  BY NowGoing, SetAutoGoing
<1> HIDE DEF u
<1>2. Going(v, o, c) /\ Wanes(v, o)
  BY <1>1, CloseCursorGoing
<1> HIDE DEF v
<1>3. CommitWith(o, refused, c) = CommitIfAny(v, o, TRUE, refused, c)
  BY DEF CommitWith, v, u
<1>4. Keeps(v, CommitIfAny(v, o, TRUE, refused, c), o, c)
  BY <1>2, CommitIfAnyKeeps DEF Going, Ended
<1> QED
  BY <1>2, <1>3, <1>4, KeepsGoing

LEMMA RollbackEnded ==
    ASSUME NEW o \in Obj, In(Now, o), NEW c \in Attachments
    PROVE  LET w == Undo(CloseCursor(SetAuto(Now, o, TRUE), o), o)
           IN Ended(w, o, c) /\ Wanes(w, o)
<1> DEFINE u == SetAuto(Now, o, TRUE)
           v == CloseCursor(u, o)
<1>1. Going(u, o, c) /\ Wanes(u, o)
  BY NowGoing, SetAutoGoing
<1> HIDE DEF u
<1>2. Going(v, o, c) /\ Wanes(v, o)
  BY <1>1, CloseCursorGoing
<1> HIDE DEF v
<1>3. Ended(Undo(v, o), o, c) /\ Wanes(Undo(v, o), o)
  BY <1>2, UndoGoing
<1> QED
  BY <1>3 DEF v, u

LEMMA CloseBlobKeeps ==
    ASSUME NEW o \in Obj, NEW w, In(w, o), NEW c \in Attachments
    PROVE  Keeps(w, CloseBlob(w, o, c), o, c)
<1> DEFINE x == [w.obj[o] EXCEPT !.blob = "none"]
           u == [w EXCEPT !.obj[o] = x]
<1>1. w \in State
  BY InIs
<1>2. PICK r \in Record : r = w.obj[o]
  BY <1>1 DEF State
<1>3. x \in Record
  BY <1>2, BlobRecord DEF Blobs
<1>4. /\ x.trans = r.trans /\ x.db = r.db /\ x.live = r.live /\ x.blob = "none"
      /\ x.cursor = r.cursor /\ x.out = r.out /\ Lowered(r, x)
  BY <1>2 DEF Record, Lowered
<1>5. u = [w EXCEPT !.obj[o].blob = "none"]
  BY <1>1 DEF State
<1> HIDE DEF x
<1>6. Passes(w, u, o, c)
  BY <1>2, <1>3, <1>4, PutPasses
<1> HIDE DEF u
<1>7. Keeps(w, u, o, c) /\ Keeps(w, w, o, c)
  BY <1>6, PassesKeeps, SameQuiet
<1>8. /\ Keeps(w, Error(w, o, FALSE, c), o, c)
      /\ CallLost(w, o) => Keeps(w, Error(w, o, TRUE, c), o, c)
  BY ErrorKeeps
<1>9. \/ CloseBlob(w, o, c) \in {w, Error(w, o, FALSE, c), u}
      \/ CallLost(w, o) /\ CloseBlob(w, o, c) = Error(w, o, TRUE, c)
  BY <1>5 DEF CloseBlob
<1> QED
  BY <1>7, <1>8, <1>9

LEMMA BlobOpened ==
    ASSUME NEW o \in Obj, NEW w, In(w, o), CallWorks(w, o)
    PROVE  LET v == [w EXCEPT !.obj[o].blob = "open"]
           IN In(v, o) /\ (Held(w, o) => Held(v, o)) /\ (Wanes(w, o) => Wanes(v, o))
<1> DEFINE d == Trans(w, o)
           x == [w.obj[o] EXCEPT !.blob = "open"]
           v == [w EXCEPT !.obj[o].blob = "open"]
<1>1. /\ w \in State /\ Root(o) \in Obj /\ d \in Conn /\ w.srv[d].link = "open"
      /\ w.obj[o].db = d
      /\ \A p \in Obj : Up(w.obj, p) = Root(p) /\ (Lives(w.obj, p) <=> Usable(p))
      /\ \A p \in Obj : Root(p) \in Obj
  BY InIs, TransType DEF CallWorks, IsOpen, Attachments
<1>2. PICK r \in Record : r = w.obj[o]
  BY <1>1 DEF State
<1>3. x \in Record
  BY <1>2, BlobRecord DEF Blobs
<1>4. /\ x.trans = r.trans /\ x.db = r.db /\ x.live = r.live
      /\ x.cursor = r.cursor /\ x.out = r.out /\ Alike(r, x) /\ Lowered(r, x)
  BY <1>2 DEF Record, Alike, Lowered
<1>5. v = [w EXCEPT !.obj[o] = x]
  BY <1>1 DEF State
<1> HIDE DEF x, v
<1>6. /\ v \in State /\ v.srv = w.srv /\ v.obj[o] = x
      /\ \A q \in Obj : q # o => v.obj[q] = w.obj[q]
  BY <1>1, <1>3, <1>5, PutObject
<1>7. \A p \in Obj : /\ Alike(w.obj[p], v.obj[p])
                     /\ v.obj[p].db = w.obj[p].db /\ v.obj[p].trans = w.obj[p].trans
                     /\ v.obj[p].live = w.obj[p].live
                     /\ v.obj[p].cursor = w.obj[p].cursor /\ v.obj[p].out = w.obj[p].out
  BY <1>2, <1>4, <1>6 DEF Alike
<1>8. In(v, o)
  BY <1>6, <1>7 DEF In, Alike
<1>9. ASSUME Held(w, o) PROVE Held(v, o)
  <2>1. Handles(w.obj, w.srv)
    BY <1>1, <1>9 DEF Held, Detached, Conn
  <2>2. \A p \in Obj : Up(v.obj, p) = Root(p) /\ (Lives(v.obj, p) <=> Usable(p))
    BY <1>8, InIs
  <2> HIDE DEF d
  <2>3. Apart(v.obj)
    BY <1>1, <1>7, <2>1, <2>2 DEF Handles, Apart, Uses
  <2>4. Made(v.obj, v.srv)
    BY <1>6, <1>7, <2>1 DEF Handles, Made, Uses
  <2>5. Kept(v.obj)
    <3> SUFFICES ASSUME NEW p \in Obj, Usable(p)
                 PROVE  /\ v.obj[p].live => v.obj[p].cursor /\ v.obj[p].out
                        /\ v.obj[p].live \/ v.obj[p].blob = "open"
                              => v.obj[p].db # 0 /\ v.obj[Root(p)].trans = v.obj[p].db
      BY <2>2 DEF Kept
    <3>1. /\ w.obj[p].live => w.obj[p].cursor /\ w.obj[p].out
          /\ w.obj[p].live \/ w.obj[p].blob = "open"
                => w.obj[p].db # 0 /\ w.obj[Root(p)].trans = w.obj[p].db
      BY <1>1, <2>1 DEF Handles, Kept
    <3>2. CASE p # o
      BY <1>1, <1>6, <1>7, <3>1, <3>2
    <3>3. CASE p = o
      <4>1. w.obj[o].db = d /\ w.obj[Root(o)].trans = d /\ d # 0
        BY <1>1 DEF d, Trans, Conn
      <4> QED
        BY <1>1, <1>7, <3>1, <3>3, <4>1
    <3> QED
      BY <3>2, <3>3
  <2>6. Underway(v.obj, v.srv)
    BY <1>1, <1>6, <1>7, <2>1, <2>2 DEF Handles, Underway
  <2> QED
    BY <2>3, <2>4, <2>5, <2>6 DEF Held, Handles
<1>10. Wanes(w, o) => Wanes(v, o)
  BY <1>2, <1>4, <1>6 DEF Wanes, Lowered
<1> QED
  BY <1>8, <1>9, <1>10 DEF v

LEMMA OpenBlobEnded ==
    ASSUME NEW o \in Obj, In(Now, o), NEW c \in Attachments, NEW found \in BOOLEAN
    PROVE  Ended(OpenBlob(o, found, c), o, c) /\ Wanes(OpenBlob(o, found, c), o)
<1> DEFINE closed == CloseBlob(Now, o, c)
           begun == Autocommit(closed, o, FALSE, c)
           b == [begun EXCEPT !.obj[o].blob = "open"]
           e == Error(begun, o, CallLost(begun, o), c)
<1>1. Ended(closed, o, c) /\ (Ok(closed) => Going(closed, o, c)) /\ Wanes(closed, o)
  BY NowGoing, CloseBlobKeeps, KeepsGoing
<1> HIDE DEF closed
<1>2. Ok(closed) => /\ Ended(begun, o, c) /\ (Ok(begun) => Going(begun, o, c))
                    /\ Wanes(begun, o)
  BY <1>1, AutocommitKeeps, KeepsGoing DEF Ended
<1> HIDE DEF begun
<1>3. Ok(closed) /\ Ok(begun) => Ended(e, o, c) /\ Wanes(e, o)
  BY <1>2, CallLostType, ErrorEnded
<1>4. Ok(closed) /\ Ok(begun) /\ CallWorks(begun, o) => Ended(b, o, c) /\ Wanes(b, o)
  BY <1>2, BlobOpened DEF Ended
<1>5. OpenBlob(o, found, c) = IF ~Ok(closed) THEN closed
                              ELSE IF ~Ok(begun) THEN begun
                              ELSE IF found /\ CallWorks(begun, o) THEN b ELSE e
  BY DEF OpenBlob, e, b, begun, closed
<1> HIDE DEF b, e
<1> QED
  BY <1>1, <1>2, <1>3, <1>4, <1>5

-----------------------------------------------------------------------------------
(* The actions.  A step keeps the forms and the tree, and the handles say   *)
(* what is open as long as every parent is attached.                        *)

Replies == [to : Parents, of : Methods, is : Endings, asked : -2 .. MaxLines,
            n : Lengths, res : Results, ids : SUBSET Work, unsent : SUBSET Work]
FormsOK == RecordsOK /\ srv \in [Conn -> Server] /\ reply \in Replies
Steps == /\ FormsOK' /\ Tree'
         /\ Handles(obj, srv) /\ ParentsAttached /\ ParentsAttached' => Handles(obj', srv')

(* What a step is for the fetch of the manual.  NoResult: a method that may *)
(* only take results away.                                                  *)
NoResult(r) == r.of \notin {"fetch", "lines"} /\ ~(r.of = "exec" /\ r.is = "ok")
Told == Shown => Shown' /\ DbiFetch!Next

(* Every result that is there has been there. *)
Stays(s, r) == /\ s.live /\ r.cursor = s.cursor /\ r.out = s.out /\ r.res = s.res
               /\ r.len = s.len /\ r.tuple = s.tuple /\ r.known = s.known
Fading == \A p \in Obj : obj'[p].live => Stays(obj[p], obj'[p])

LEMMA FadingTold == ASSUME Fading, NoResult(reply') PROVE Told
<1>1. ASSUME Shown PROVE Shown'
  BY <1>1 DEF Shown, Shows, Fading, Stays
<1>2. \A p \in Obj : obj'[p].live => DbiFetch!Keep(p)
  BY DEF Fading, Stays, DbiFetch!Keep
<1>3. \A p \in Obj : ~obj'[p].live => DbiFetch!Lose(p)
  BY DEF DbiFetch!Lose
<1>4. DbiFetch!Other
  BY <1>2, <1>3 DEF DbiFetch!Other, NoResult
<1> QED
  BY <1>1, <1>4 DEF Told, DbiFetch!Next

LEMMA ExecTold ==
    ASSUME NEW o \in Obj, \A p \in Obj \ {o} : Lowered(obj[p], obj'[p]),
           obj[o] \in Record, obj'[o] \in Record,
           Shown => ~obj'[o].live \/ Gained(obj[o], obj'[o]),
           reply'.to = o, reply'.of = "exec", reply'.is = "ok"
    PROVE  Told
<1> SUFFICES ASSUME Shown PROVE Shown' /\ DbiFetch!Next
  BY DEF Told
<1>1. obj'[o].len \in 0 .. MaxLines /\ MaxLines \in Nat
  BY BoundsIs DEF Record, Lengths
<1>2. Another(obj[o].res) # 0 /\ Another(obj[o].res) # obj[o].res
  BY DEF Another
<1>3. Shows(obj'[o])
  BY <1>1, <1>2 DEF Shows, Gained
<1>4. Shown'
  BY <1>3 DEF Shown, Shows, Lowered
<1>5. \A p \in Obj \ {o} : DbiFetch!Keep(p) \/ DbiFetch!Lose(p)
  BY DEF Lowered, DbiFetch!Keep, DbiFetch!Lose
<1>6. DbiFetch!Lose(o) \/ DbiFetch!Gain(o)
  BY <1>1, <1>2 DEF Gained, DbiFetch!Gain, DbiFetch!Lose
<1>7. DbiFetch!Exec(o)
  BY <1>5, <1>6 DEF DbiFetch!Exec
<1> QED
  BY <1>4, <1>7 DEF DbiFetch!Next

(* What the answers say. *)
LEMMA AnswerOf ==
    /\ \A o, m, e : Answer(o, m, e).to = o /\ Answer(o, m, e).of = m /\ Answer(o, m, e).is = e
    /\ \A o, e, i : LET r == Executed(o, e, i) IN r.to = o /\ r.of = "exec" /\ r.is = e
    /\ \A o, q : LET r == NoLine(o, q)
                 IN r.to = o /\ r.of = "fetch" /\ r.is = "refused" /\ r.asked = q
    /\ \A o, q, n, k : LET r == GivenLine(o, q, n, k)
                       IN /\ r.to = o /\ r.of = "fetch" /\ r.is = "line" /\ r.asked = q
                          /\ r.n = n /\ r.res = k
BY DEF Answer, Executed, NoLine, GivenLine, NoReply

LEMMA NoResultOf ==
    ASSUME NEW o, NEW m, m \notin {"exec", "fetch", "lines"}, NEW e
    PROVE  NoResult(Answer(o, m, e))
BY AnswerOf DEF NoResult

LEMMA FormsType == TypeOK <=> kind \in {"firebird", "interbase"} /\ FormsOK
BY DEF TypeOK, FormsOK, Server, Links, Replies, Parents, Lengths, Results

LEMMA NowIn ==
    ASSUME FormsOK, Tree, NEW o \in Obj, Usable(o) PROVE In(Now, o)
BY RecordsType DEF FormsOK, In, Now, State, Alike, Lowered

LEMMA AnswerType ==
    ASSUME NEW o \in Parents, NEW m \in Methods, NEW e \in Endings
    PROVE  Answer(o, m, e) \in Replies
<1>1. 0 \in Lengths /\ 0 \in -2 .. MaxLines /\ 0 \in Results /\ NoObj \in Parents
      /\ {} \in SUBSET Work
  BY BoundsIs DEF Lengths, Results, Parents
<1>2. "none" \in Methods /\ "none" \in Endings
  BY DEF Methods, Endings
<1>3. PICK r \in Replies : r = NoReply
  BY <1>1, <1>2 DEF Replies, NoReply
<1>4. [r EXCEPT !.to = o, !.of = m, !.is = e] \in Replies
  BY DEF Replies
<1> QED
  BY <1>3, <1>4 DEF Answer

LEMMA ExecutedType ==
    ASSUME NEW o \in Parents, NEW e \in Endings, NEW ids \in SUBSET Work
    PROVE  Executed(o, e, ids) \in Replies
<1>1. PICK r \in Replies : r = Answer(o, "exec", e)
  BY AnswerType DEF Methods
<1>2. Executed(o, e, ids) = [r EXCEPT !.ids = ids]
  BY <1>1 DEF Executed
<1> QED
  BY <1>2 DEF Replies

LEMMA AttachesAgainIs ==
    ASSUME NEW o \in Obj, NEW c \in AttachesAgain(o)
    PROVE  c \in Attachments /\ Spare(Now, o, c)
<1>1. CASE CallLost(Now, o)
  <2>1. c \in {0} \cup Lowest({e \in Conn : srv[e].link = "unused"}, 1)
    BY <1>1 DEF AttachesAgain, Attaches
  <2> QED
    BY <2>1 DEF Lowest, Attachments, Spare, Now
<1>2. CASE ~CallLost(Now, o)
  BY <1>2 DEF AttachesAgain, Attachments, Spare
<1> QED
  BY <1>1, <1>2

(* What is alike has the same tree. *)
LEMMA TreeStays ==
    ASSUME Tree, RecordsOK', \A p \in Obj : Alike(obj[p], obj'[p]) PROVE Tree'
<1>1. RecordsOK /\ CloneTree /\ Rooted
  BY DEF Tree
<1>2. \A p \in Obj : obj[p].parent # NoObj => obj[p].parent \in Obj
  BY <1>1, RecordsType DEF Record, Parents
<1>3. CloneTree'
  BY <1>1 DEF CloneTree, Alike
<1>4. Rooted'
  BY <1>1, <1>2 DEF Rooted, Alike
<1> QED
  BY <1>3, <1>4 DEF Tree

(* A method of o that is open, with an answer. *)
Done(o) == /\ Opened(o) /\ reply' \in Replies
           /\ \E c \in AttachesAgain(o), v \in State :
                 Ended(v, o, c) /\ obj' = v.obj /\ srv' = v.srv

LEMMA DoneSteps ==
    ASSUME FormsOK, Tree, NEW o \in Obj, Done(o) PROVE Steps
<1>1. PICK c \in AttachesAgain(o), v \in State : Ended(v, o, c) /\ obj' = v.obj /\ srv' = v.srv
  BY DEF Done
<1>2. In(v, o)
  BY <1>1 DEF Ended
<1>3. obj' \in [Obj -> Record] /\ srv' \in [Conn -> Server]
  BY <1>1 DEF State
<1>4. RecordsOK'
  BY <1>3 DEF RecordsOK, Record, Parents, Attachments, Results, Lengths, Lines, Blobs
<1>5. FormsOK'
  BY <1>3, <1>4 DEF FormsOK, Done, Replies, Server, Parents, Results, Lengths, Links
<1>6. \A p \in Obj : Alike(obj[p], obj'[p])
  BY <1>1, <1>2 DEF In
<1>7. Tree'
  BY <1>4, <1>6, TreeStays
<1>8. ASSUME Handles(obj, srv), ParentsAttached' PROVE Handles(obj', srv')
  <2>1. Held(Now, o) /\ Spare(Now, o, c)
    BY <1>8, AttachesAgainIs DEF Held, Now
  <2>2. ~Detached(v, o)
    BY <1>1, <1>6, <1>8 DEF Detached, ParentsAttached, Alike
  <2> QED
    BY <1>1, <2>1, <2>2 DEF Ended, Held
<1> QED
  BY <1>5, <1>7, <1>8 DEF Steps

LEMMA MethodDone ==
    ASSUME FormsOK, Tree, NEW o \in Obj, Opened(o), NEW c \in AttachesAgain(o),
           NEW v, Ended(v, o, c), NEW r \in Replies, Ends(v, r)
    PROVE  Steps /\ (NoResult(r) /\ (Shown => Wanes(v, o)) => Told)
<1>1. v \in State /\ \A p \in Obj \ {o} : Lowered(obj[p], obj'[p])
  BY DEF Ended, In, Ends
<1>2. Done(o)
  BY <1>1 DEF Done, Ends
<1>3. ASSUME NoResult(r), Shown => Wanes(v, o) PROVE Told
  <2>1. Shown => \A p \in Obj : obj'[p].live => Lowered(obj[p], obj'[p])
    BY <1>1, <1>3 DEF Ends, Wanes
  <2>3. Shown => Fading
    BY <2>1 DEF Lowered, Fading, Stays
  <2>2. NoResult(reply')
    BY <1>3 DEF Ends
  <2> QED
    BY <2>2, <2>3, FadingTold DEF Told
<1> QED
  BY <1>2, <1>3, DoneSteps

LEMMA NothingSteps ==
    ASSUME FormsOK, Tree, NEW o \in Obj, Opened(o), NEW r \in Replies, Ends(Now, r)
    PROVE  Steps /\ (NoResult(r) => Told)
<1>1. 0 \in AttachesAgain(o)
  BY DEF AttachesAgain, Attaches
<1>2. In(Now, o) /\ Ended(Now, o, 0) /\ Wanes(Now, o)
  BY NowIn, NowGoing DEF Opened, Going
<1> QED
  BY <1>1, <1>2, MethodDone

(* The end of a method is an ending. *)
LEMMA IsEnding ==
    ASSUME NEW o, NEW c, NEW v, Ended(v, o, c) PROVE v.is \in Endings
BY DEF Ended, In, State, Endings

LEMMA ExecSteps ==
    ASSUME FormsOK, Tree, NEW o \in Obj, NEW t \in Texts, NEW fetch \in BOOLEAN,
           Exec(o, t, fetch)
    PROVE  Steps /\ Told
<1>0. Opened(o) /\ In(Now, o) /\ o \in Parents
  BY NowIn DEF Exec, Opened, Parents
<1>1. CASE t = <<>>
  <2>1. Ends(Now, Executed(o, "nothing", {}))
    BY <1>1 DEF Exec
  <2>2. Executed(o, "nothing", {}) \in Replies /\ NoResult(Executed(o, "nothing", {}))
    BY <1>0, ExecutedType, AnswerOf DEF Endings, NoResult
  <2> QED
    BY <1>0, <2>1, <2>2, NothingSteps
<1>2. CASE t # <<>>
  <2> DEFINE ids == Lowest(Free(o), Effects(t, Len(t)))
  <2>0. PICK c \in AttachesAgain(o), n \in 0 .. UpToError(t) :
          \E rows \in IF fetch /\ n = Len(t) THEN Rows(t) ELSE {0}, refused \in Refusals(o, t, n) :
             \E w \in {ExecText(o, t, fetch, n, ids, rows, refused, c)} :
                Ends(w, Executed(o, w.is, ids))
    BY <1>2 DEF Exec
  <2>1. PICK rows \in IF fetch /\ n = Len(t) THEN Rows(t) ELSE {0}, refused \in Refusals(o, t, n) :
           \E w \in {ExecText(o, t, fetch, n, ids, rows, refused, c)} :
              Ends(w, Executed(o, w.is, ids))
    BY <2>0
  <2>2. ids \in SUBSET Work
    BY DEF Lowest, Free
  <2>3. rows \in Sizes
    <3>1. {0} \subseteq Sizes
      BY ServerAssumption
    <3> QED
      BY <3>1 DEF Rows
  <2> DEFINE w == ExecText(o, t, fetch, n, ids, rows, refused, c)
  <2> HIDE DEF ids
  <2>4. /\ Ended(w, o, c)
        /\ Shown => ~w.obj[o].live \/ (Ok(w) /\ Gained(obj[o], w.obj[o]))
    BY <1>0, <2>2, <2>3, AttachesAgainIs, ExecTextEnded
  <2>5. Ends(w, Executed(o, w.is, ids))
    BY <2>1 DEF ids
  <2> HIDE DEF w
  <2>6. Executed(o, w.is, ids) \in Replies
    BY <1>0, <2>2, <2>4, IsEnding, ExecutedType
  <2>7. CASE ~Ok(w)
    <3>1. NoResult(Executed(o, w.is, ids)) /\ (Shown => Wanes(w, o))
      BY <2>4, <2>7, AnswerOf DEF NoResult, Wanes, Ok
    <3> QED
      BY <1>0, <2>4, <2>5, <2>6, <3>1, MethodDone
  <2>8. CASE Ok(w)
    <3>1. /\ w \in State /\ \A p \in Obj \ {o} : Lowered(obj[p], w.obj[p])
          /\ obj' = w.obj
          /\ reply'.to = o /\ reply'.of = "exec" /\ reply'.is = "ok"
      BY <2>4, <2>5, <2>8, AnswerOf DEF Ended, In, Ends, Ok
    <3>2. obj[o] \in Record /\ obj'[o] \in Record
      BY <3>1, RecordsType DEF FormsOK, State
    <3>3. Told
      BY <2>4, <3>1, <3>2, ExecTold
    <3> QED
      BY <1>0, <2>4, <2>5, <2>6, <3>3, MethodDone
  <2> QED
    BY <2>7, <2>8
<1> QED
  BY <1>1, <1>2

LEMMA ExecViolatesSteps ==
    ASSUME FormsOK, Tree, NEW o \in Obj, NEW t \in Texts, NEW refused, NEW again,
           ExecViolates(o, t, refused, again)
    PROVE  Steps /\ Told
<1>0. Opened(o) /\ In(Now, o) /\ o \in Parents
  BY NowIn DEF ExecViolates, Opened, Parents
<1> DEFINE n == UpToError(t)
           ids == Lowest(Free(o), Effects(t, Len(t)))
           begun(c) == Numbered(Autocommit(CloseCursor(Now, o), o, FALSE, c), ids)
           done(c) == Processed(begun(c), o, t, n, ids)
           w(c) == ExecError(KeyError(done(c), o, refused, again), o)
           r == Executed(o, "violation", ids)
<1>1. n \in Nat /\ ids \in SUBSET Work
  BY UpToErrorIs DEF Lowest, Free
<1>2. n # Len(t)
  <2>1. n < Len(t) /\ n \in Nat /\ Len(t) \in Nat
    BY UpToErrorIs DEF ExecViolates
  <2> HIDE DEF n
  <2> QED
    BY <2>1
<1>6. \E c \in AttachesAgain(o) : Ok(begun(c)) /\ CallWorks(begun(c), o) /\ Ends(w(c), r)
  BY Zenon DEF ExecViolates
<1> HIDE DEF n, ids
<1>3. PICK c \in AttachesAgain(o) : Ok(begun(c)) /\ CallWorks(begun(c), o) /\ Ends(w(c), r)
  BY <1>6
<1>4. Ended(w(c), o, c) /\ (Shown => Wanes(w(c), o))
  BY <1>0, <1>1, <1>2, <1>3, AttachesAgainIs, ExecViolatesEnded
<1>5. r \in Replies /\ NoResult(r)
  BY <1>0, <1>1, ExecutedType, AnswerOf DEF Endings, NoResult
<1> HIDE DEF begun, w, r
<1> QED
  BY <1>0, <1>3, <1>4, <1>5, MethodDone

LEMMA ExecTransactionSteps ==
    ASSUME FormsOK, Tree, NEW o \in Obj, NEW command, NEW refused \in BOOLEAN,
           ExecTransaction(o, command, refused)
    PROVE  Steps /\ Told
<1>0. Opened(o) /\ In(Now, o) /\ o \in Parents
  BY NowIn DEF ExecTransaction, Opened, Parents
<1> DEFINE begun(c) == Autocommit(CloseCursor(Now, o), o, FALSE, c)
           w(c) == IF ~Ok(begun(c)) THEN begun(c)
                   ELSE IF ~CallWorks(begun(c), o)
                   THEN Error(begun(c), o, CallLost(begun(c), o), c)
                   ELSE Statement([begun(c) EXCEPT !.obj[o].out = FALSE], o, command, refused, c)
           x(c) == IF Ok(w(c)) THEN w(c) ELSE ExecError(w(c), o)
<1>1. PICK c \in AttachesAgain(o) : Ends(x(c), Answer(o, "transaction", w(c).is))
  BY DEF ExecTransaction
<1>2. Ended(w(c), o, c) /\ Ended(x(c), o, c) /\ (Shown => Wanes(x(c), o))
  BY <1>0, AttachesAgainIs, ExecTransactionEnded
<1> HIDE DEF w, x
<1>3. /\ Answer(o, "transaction", w(c).is) \in Replies
      /\ NoResult(Answer(o, "transaction", w(c).is))
  BY <1>0, <1>2, IsEnding, AnswerType, NoResultOf DEF Methods
<1> QED
  BY <1>0, <1>1, <1>2, <1>3, MethodDone

LEMMA MethodSteps ==
    ASSUME FormsOK, Tree, NEW o \in Obj, Opened(o), NEW m \in Methods,
           m \notin {"exec", "fetch", "lines"}, NEW c \in AttachesAgain(o),
           NEW w, Ended(w, o, c), Wanes(w, o), Ends(w, Answer(o, m, w.is))
    PROVE  Steps /\ Told
<1>1. Answer(o, m, w.is) \in Replies /\ NoResult(Answer(o, m, w.is))
  BY IsEnding, AnswerType, NoResultOf DEF Parents
<1> QED
  BY <1>1, MethodDone

LEMMA UserSteps ==
    ASSUME FormsOK, Tree, NEW o \in Obj, NEW refused \in BOOLEAN,
           Begin(o, refused) \/ Commit(o, refused) \/ Rollback(o)
    PROVE  Steps /\ Told
<1>0. Opened(o) /\ In(Now, o)
  BY NowIn DEF Begin, Commit, Rollback, Method, Opened
<1>1. {"begin", "commit", "rollback"} \subseteq Methods
  BY DEF Methods
<1>2. CASE Begin(o, refused)
  <2>1. PICK c \in AttachesAgain(o) :
           LET w == BeginWith(o, refused, c) IN Ends(w, Answer(o, "begin", w.is))
    BY <1>2 DEF Begin, Method
  <2>2. Ended(BeginWith(o, refused, c), o, c) /\ Wanes(BeginWith(o, refused, c), o)
    BY <1>0, AttachesAgainIs, BeginEnded
  <2> QED
    BY <1>0, <1>1, <2>1, <2>2, MethodSteps
<1>3. CASE Commit(o, refused)
  <2>1. PICK c \in AttachesAgain(o) :
           LET w == CommitWith(o, refused, c) IN Ends(w, Answer(o, "commit", w.is))
    BY <1>3 DEF Commit, Method
  <2>2. Ended(CommitWith(o, refused, c), o, c) /\ Wanes(CommitWith(o, refused, c), o)
    BY <1>0, AttachesAgainIs, CommitEnded
  <2> QED
    BY <1>0, <1>1, <2>1, <2>2, MethodSteps
<1>4. CASE Rollback(o)
  <2>1. PICK c \in AttachesAgain(o) :
           LET w == Undo(CloseCursor(SetAuto(Now, o, TRUE), o), o)
           IN Ends(w, Answer(o, "rollback", w.is))
    BY <1>4 DEF Rollback, Method
  <2>2. LET w == Undo(CloseCursor(SetAuto(Now, o, TRUE), o), o)
        IN Ended(w, o, c) /\ Wanes(w, o)
    BY <1>0, AttachesAgainIs, RollbackEnded
  <2> QED
    BY <1>0, <1>1, <2>1, <2>2, MethodSteps
<1> QED
  BY <1>2, <1>3, <1>4

LEMMA BlobSteps ==
    ASSUME FormsOK, Tree, NEW o \in Obj, NEW found \in BOOLEAN,
           BlobOpen(o, found) \/ BlobGet(o) \/ BlobClose(o)
    PROVE  Steps /\ Told
<1>0. Opened(o) /\ In(Now, o) /\ o \in Parents
  BY NowIn DEF BlobOpen, BlobGet, BlobClose, Opened, Parents
<1>1. {"blob open", "blob get", "blob close"} \subseteq Methods /\ {"ok", "failed"} \subseteq Endings
  BY DEF Methods, Endings
<1>5. \A e : NoResult(Answer(o, "blob get", e))
  BY NoResultOf
<1>2. CASE BlobOpen(o, found)
  <2>1. PICK c \in AttachesAgain(o) :
           LET w == OpenBlob(o, found, c) IN Ends(w, Answer(o, "blob open", w.is))
    BY <1>2 DEF BlobOpen
  <2>2. Ended(OpenBlob(o, found, c), o, c) /\ Wanes(OpenBlob(o, found, c), o)
    BY <1>0, AttachesAgainIs, OpenBlobEnded
  <2> QED
    BY <1>0, <1>1, <2>1, <2>2, MethodSteps
<1>3. CASE BlobGet(o)
  <2>1. CASE obj[o].blob = "open" /\ ~CallLost(Now, o)
    <3>1. Ends(Now, Answer(o, "blob get", "ok"))
      BY <1>3, <2>1 DEF BlobGet
    <3> QED
      BY <1>0, <1>1, <1>5, <3>1, AnswerType, NothingSteps
  <2>2. CASE ~(obj[o].blob = "open" /\ ~CallLost(Now, o))
    <3> DEFINE lost == obj[o].blob = "open"
    <3>1. PICK c \in AttachesAgain(o) :
             Ends(Error(Now, o, lost, c), Answer(o, "blob get", "failed"))
      BY <1>3, <2>2 DEF BlobGet
    <3>2. lost \in BOOLEAN /\ (lost => CallLost(Now, o))
      BY <2>2
    <3> HIDE DEF lost
    <3>3. Ended(Error(Now, o, lost, c), o, c) /\ Wanes(Error(Now, o, lost, c), o)
      BY <1>0, <3>2, NowGoing, AttachesAgainIs, ErrorEnded
    <3> QED
      BY <1>0, <1>1, <1>5, <3>1, <3>3, AnswerType, MethodDone
  <2> QED
    BY <2>1, <2>2
<1>4. CASE BlobClose(o)
  <2>1. PICK c \in AttachesAgain(o) :
           LET w == CloseBlob(Now, o, c) IN Ends(w, Answer(o, "blob close", w.is))
    BY <1>4 DEF BlobClose
  <2>2. Ended(CloseBlob(Now, o, c), o, c) /\ Wanes(CloseBlob(Now, o, c), o)
    BY <1>0, AttachesAgainIs, NowGoing, CloseBlobKeeps, KeepsGoing
  <2> QED
    BY <1>0, <1>1, <2>1, <2>2, MethodSteps
<1> QED
  BY <1>2, <1>3, <1>4

-----------------------------------------------------------------------------------
(* fetch *)

LEMMA LineSteps ==
    ASSUME FormsOK, Tree, NEW o \in Obj, Opened(o), NEW a \in Lines, NEW b \in Lines,
           obj' = [obj EXCEPT ![o] = [@ EXCEPT !.tuple = a, !.known = b]], srv' = srv,
           reply' \in Replies
    PROVE  Steps
<1>1. In(Now, o) /\ Now \in State
  BY NowIn DEF Opened, In
<1>2. PICK r \in Record : r = obj[o]
  BY <1>1 DEF State, Now
<1> DEFINE x == [r EXCEPT !.tuple = a, !.known = b]
           v == [Now EXCEPT !.obj[o] = x]
<1>3. x \in Record
  BY DEF Record
<1>4. /\ x.trans = r.trans /\ x.db = r.db /\ x.live = r.live /\ x.blob = r.blob
      /\ x.cursor = r.cursor /\ x.out = r.out /\ Alike(r, x)
  BY DEF Record, Alike
<1>5. obj' = v.obj /\ srv' = v.srv
  BY <1>2 DEF Now
<1>6. Ended(Now, o, 0)
  BY <1>1, NowGoing DEF Going
<1> HIDE DEF x
<1>7. Ended(v, o, 0)
  BY <1>1, <1>2, <1>3, <1>4, <1>6, PutEnded DEF Now
<1> HIDE DEF v
<1>8. 0 \in AttachesAgain(o) /\ v \in State
  BY <1>7 DEF AttachesAgain, Attaches, Ended, In
<1> QED
  BY <1>5, <1>7, <1>8, DoneSteps DEF Done

LEMMA LineType ==
    ASSUME NEW o \in Parents, NEW q \in -2 .. MaxLines, NEW n \in Lengths, NEW k \in Results
    PROVE  NoLine(o, q) \in Replies /\ GivenLine(o, q, n, k) \in Replies
<1>1. PICK r \in Replies : r = Answer(o, "fetch", "refused")
  BY AnswerType DEF Methods, Endings
<1>2. PICK s \in Replies : s = Answer(o, "fetch", "line")
  BY AnswerType DEF Methods, Endings
<1>3. [r EXCEPT !.asked = q] \in Replies
  BY DEF Replies
<1>4. [s EXCEPT !.asked = q, !.n = n, !.res = k] \in Replies
  BY DEF Replies
<1> QED
  BY <1>1, <1>2, <1>3, <1>4 DEF NoLine, GivenLine

LEMMA ReadToType ==
    ASSUME NEW r \in Record, NEW line \in Nat PROVE ReadTo(r, line) \in Lines
<1>1. r.len \in Lengths /\ r.tuple \in Lines /\ MaxLines \in Nat
  BY BoundsIs DEF Record
<1> QED
  BY <1>1 DEF ReadTo, Lengths, Lines

(* What the manual says of a fetch, for a step that changes only the        *)
(* current line of o and the last one known.                                *)
Gives(o, n) ==
    /\ obj[o].live /\ n < obj[o].len
    /\ reply'.is = "line" /\ reply'.n = n /\ reply'.res = obj[o].res
    /\ obj'[o].tuple = n
GivesAgain(o, n) ==
    /\ ~obj[o].live /\ obj[o].tuple = n /\ obj'[o].tuple = n
    /\ reply'.is = "line" /\ reply'.n = n
Refuses(o, n, asked) ==
    /\ reply'.is = "refused"
    /\ \/ ~obj[o].live
       \/ n >= obj[o].len
       \/ asked /\ n < obj[o].tuple + 1
    /\ obj'[o].tuple = obj[o].tuple \/ obj'[o].tuple + 1 = obj[o].len

LEMMA FetchImplements ==
    ASSUME NEW o \in Obj, \A p \in Obj \ {o} : obj'[p] = obj[p],
           obj'[o].live = obj[o].live, obj'[o].res = obj[o].res, obj'[o].len = obj[o].len,
           obj[o].live => obj[o].res # 0,
           reply'.to = o, reply'.of = "fetch",
           \/ /\ reply'.asked = -1
              /\ Gives(o, obj[o].tuple + 1) \/ Refuses(o, obj[o].tuple + 1, FALSE)
           \/ \E n \in 0 .. MaxLines :
                 reply'.asked = n /\ (Gives(o, n) \/ Refuses(o, n, TRUE) \/ GivesAgain(o, n))
           \/ reply'.asked = -2 /\ reply'.is = "refused" /\ obj'[o].tuple = obj[o].tuple
    PROVE  DbiFetch!Next
<1> DEFINE res == [p \in Obj |-> IF obj[p].live THEN obj[p].res ELSE 0]
           len == [p \in Obj |-> obj[p].len]
           next == [p \in Obj |-> obj[p].tuple + 1]
<1>1. res' = res /\ len' = len /\ \A p \in Obj \ {o} : next'[p] = next[p]
  OBVIOUS
<1>2. /\ res[o] = IF obj[o].live THEN obj[o].res ELSE 0
      /\ len[o] = obj[o].len
      /\ next[o] = obj[o].tuple + 1 /\ next'[o] = obj'[o].tuple + 1
  OBVIOUS
<1>3. obj'[o].tuple = obj[o].tuple => next' = next
  OBVIOUS
<1>4. \A n : Gives(o, n) => DbiFetch!Line(o, n)
  BY <1>1, <1>2 DEF Gives, DbiFetch!Line
<1>5. \A n : /\ Refuses(o, n, TRUE) => DbiFetch!Refused(o, n, TRUE)
             /\ Refuses(o, n, FALSE) => DbiFetch!Refused(o, n, FALSE)
  BY <1>1, <1>2 DEF Refuses, DbiFetch!Refused
<1>6. \A n : GivesAgain(o, n) => DbiFetch!Again(o, n)
  <2> SUFFICES ASSUME NEW n, GivesAgain(o, n) PROVE DbiFetch!Again(o, n)
    OBVIOUS
  <2>1. next' = next /\ res[o] = 0 /\ next[o] = n + 1
    BY <1>2, <1>3 DEF GivesAgain
  <2>2. reply'.is = "line" /\ reply'.n = n
    BY DEF GivesAgain
  <2> QED
    BY <1>1, <2>1, <2>2 DEF DbiFetch!Again
<1>7. ASSUME reply'.asked = -1,
             Gives(o, obj[o].tuple + 1) \/ Refuses(o, obj[o].tuple + 1, FALSE)
      PROVE  DbiFetch!Fetch(o)
  <2>1. CASE Gives(o, obj[o].tuple + 1)
    BY <1>1, <1>2, <1>7, <2>1 DEF Gives, DbiFetch!Line, DbiFetch!Fetch
  <2>2. CASE Refuses(o, obj[o].tuple + 1, FALSE)
    BY <1>1, <1>2, <1>7, <2>2 DEF Refuses, DbiFetch!Refused, DbiFetch!Fetch
  <2> QED
    BY <1>7, <2>1, <2>2
<1>8. ASSUME NEW n \in 0 .. MaxLines, reply'.asked = n,
             Gives(o, n) \/ Refuses(o, n, TRUE) \/ GivesAgain(o, n)
      PROVE  DbiFetch!Fetch(o)
  <2>1. DbiFetch!Line(o, n) \/ DbiFetch!Refused(o, n, TRUE) \/ DbiFetch!Again(o, n)
    BY <1>4, <1>5, <1>6, <1>8
  <2> QED
    BY <1>8, <2>1 DEF DbiFetch!Fetch
<1>9. ASSUME reply'.asked = -2, reply'.is = "refused", obj'[o].tuple = obj[o].tuple
      PROVE  DbiFetch!Fetch(o)
  <2>1. next' = next
    BY <1>3, <1>9
  <2> QED
    BY <1>1, <1>9, <2>1 DEF DbiFetch!Fetch
<1>10. DbiFetch!Fetch(o)
  BY <1>7, <1>8, <1>9
<1> QED
  BY <1>10 DEF DbiFetch!Next

(* How far a read gets, and where o was before: t is the current line, k    *)
(* the last one known, l their number, a the first line read or the current *)
(* one, and z the line that is reached.                                     *)
LEMMA LineNumbers ==
    ASSUME NEW live \in BOOLEAN, NEW t \in Int, NEW k \in Int, NEW l \in Nat, NEW line \in Nat,
           NEW a \in Int, NEW z \in Int, t >= -1,
           live => t < l /\ (k = -1 \/ (k = l - 1 /\ t = l - 1)),
           a = IF t = -1 THEN IF live /\ 0 < l THEN 0 ELSE IF live /\ l > t THEN l - 1 ELSE t
               ELSE t,
           z = IF live /\ line < l THEN line ELSE IF live /\ l > a THEN l - 1 ELSE a
    PROVE  /\ a = -1 => ~live \/ line >= l
           /\ live => a < l /\ (k = -1 \/ (k = l - 1 /\ a = l - 1))
           /\ (k # -1 /\ line > k) \/ line < a =>
                 a = t /\ (~live \/ line >= l \/ line < t)
           /\ a # -1 /\ line > a /\ z < line =>
                 IF live THEN line >= l /\ z = l - 1 ELSE z = t
           /\ a # -1 /\ ~(line < a) /\ ~(line > a /\ z < line) =>
                 IF live THEN line < l /\ (k = -1 \/ (k = l - 1 /\ line = l - 1)) ELSE line = t
<1>1. CASE live
  BY <1>1
<1>2. CASE ~live
  BY <1>2
<1> QED
  BY <1>1, <1>2

(* A fetch that leaves the lines as they are, or changes the current line   *)
(* and the last one known.                                                  *)
Relined(o, a, b) ==
    /\ \A p \in Obj \ {o} : obj'[p] = obj[p]
    /\ LET r == obj[o]
           x == obj'[o]
       IN /\ x.live = r.live /\ x.res = r.res /\ x.len = r.len
          /\ x.cursor = r.cursor /\ x.out = r.out /\ x.tuple = a /\ x.known = b

LEMMA RelinedIs ==
    ASSUME FormsOK, NEW o \in Obj, NEW a, NEW b,
           obj' = [obj EXCEPT ![o] = [@ EXCEPT !.tuple = a, !.known = b]]
    PROVE  Relined(o, a, b)
<1>1. PICK r \in Record : r = obj[o]
  BY RecordsType DEF FormsOK
<1> DEFINE x == [r EXCEPT !.tuple = a, !.known = b]
<1>2. obj' = [obj EXCEPT ![o] = x] /\ obj \in [Obj -> Record]
  BY <1>1, RecordsType DEF FormsOK
<1>3. /\ x.live = r.live /\ x.res = r.res /\ x.len = r.len /\ x.cursor = r.cursor
      /\ x.out = r.out /\ x.tuple = a /\ x.known = b
  BY DEF Record
<1> HIDE DEF x
<1>4. obj'[o] = x /\ \A p \in Obj \ {o} : obj'[p] = obj[p]
  BY <1>2
<1> QED
  BY <1>1, <1>3, <1>4 DEF Relined

LEMMA RelinedTold ==
    ASSUME NEW o \in Obj, NEW a, NEW b, Relined(o, a, b), Shown,
           obj[o].live => a < obj[o].len /\ (b = -1 \/ (b = obj[o].len - 1 /\ a = obj[o].len - 1)),
           reply'.to = o, reply'.of = "fetch",
           \/ /\ reply'.asked = -1
              /\ Gives(o, obj[o].tuple + 1) \/ Refuses(o, obj[o].tuple + 1, FALSE)
           \/ \E n \in 0 .. MaxLines :
                 reply'.asked = n /\ (Gives(o, n) \/ Refuses(o, n, TRUE) \/ GivesAgain(o, n))
           \/ reply'.asked = -2 /\ reply'.is = "refused" /\ obj'[o].tuple = obj[o].tuple
    PROVE  Shown' /\ DbiFetch!Next
<1>1. /\ \A p \in Obj \ {o} : obj'[p] = obj[p]
      /\ obj'[o].live = obj[o].live /\ obj'[o].res = obj[o].res /\ obj'[o].len = obj[o].len
      /\ obj'[o].cursor = obj[o].cursor /\ obj'[o].out = obj[o].out
      /\ obj'[o].tuple = a /\ obj'[o].known = b
  BY DEF Relined
<1>2. obj[o].live => obj[o].cursor /\ obj[o].out /\ obj[o].res # 0
  BY DEF Shown, Shows
<1>3. Shows(obj'[o])
  BY <1>1, <1>2 DEF Shows
<1>4. Shown'
  BY <1>1, <1>3 DEF Shown
<1> QED
  BY <1>1, <1>2, <1>4, FetchImplements

(* The line that is asked for, and its number. *)
LEMMA WantedIs ==
    ASSUME FormsOK, NEW o \in Obj, NEW q \in -2 .. MaxLines
    PROVE  LET n == Wanted(o, q)
               t == obj[o].tuple
           IN /\ t \in Int /\ t >= -1 /\ t + 1 \in 0 .. MaxLines /\ MaxLines \in Nat
              /\ \/ n = t + 1 /\ Asked(o, q) = -1
                 \/ n \in 0 .. MaxLines /\ Asked(o, q) = n
                 \/ n = -2 /\ Asked(o, q) = -2 /\ t = -1
<1>1. PICK r \in Record : r = obj[o]
  BY RecordsType DEF FormsOK
<1>2. r.tuple \in Lines /\ MaxLines \in Nat
  BY <1>1, BoundsIs DEF Record
<1> QED
  BY <1>1, <1>2 DEF Wanted, Asked, Lines

(* fetch of line n, when c is the first line read or the current one, and z *)
(* the one that is reached: a becomes the current line, b the last known.   *)
Reads(r, n, c, z) ==
    /\ c = IF r.tuple = -1 THEN ReadTo(r, 0) ELSE r.tuple
    /\ z = IF r.live /\ n < r.len THEN n ELSE IF r.live /\ r.len > c THEN r.len - 1 ELSE c
Fetches(o, n, asked, a, b, c, z) ==
    LET t == obj[o].tuple
        k == obj[o].known
    IN \/ n < 0 /\ a = t /\ b = k /\ reply' = NoLine(o, asked)
       \/ n >= 0 /\ c = -1 /\ a = t /\ b = -1 /\ reply' = NoLine(o, asked)
       \/ /\ n >= 0 /\ c # -1 /\ ((k # -1 /\ n > k) \/ n < c)
          /\ a = c /\ b = k /\ reply' = NoLine(o, asked)
       \/ /\ n >= 0 /\ c # -1 /\ n > c /\ z < n
          /\ a = z /\ b = z /\ reply' = NoLine(o, asked)
       \/ /\ n >= 0 /\ c # -1 /\ ~(n < c) /\ ~(n > c /\ z < n)
          /\ a = n /\ b = k /\ reply' = GivenLine(o, asked, n, obj[o].res)

LEMMA FetchAtTold ==
    ASSUME FormsOK, NEW o \in Obj, NEW q \in -2 .. MaxLines, Shown, NEW a, NEW b,
           Relined(o, a, b), NEW n, n = Wanted(o, q), NEW asked, asked = Asked(o, q),
           NEW z \in Int, NEW c \in Int, Reads(obj[o], n, c, z),
           Fetches(o, n, asked, a, b, c, z)
    PROVE  Shown' /\ DbiFetch!Next
<1>0. PICK r \in Record : r = obj[o]
  BY RecordsType DEF FormsOK
<1> DEFINE t == r.tuple
           k == r.known
           l == r.len
<1>1. /\ t \in Int /\ t >= -1 /\ t + 1 \in 0 .. MaxLines /\ MaxLines \in Nat
      /\ \/ n = t + 1 /\ asked = -1
         \/ n \in 0 .. MaxLines /\ asked = n
         \/ n = -2 /\ asked = -2 /\ t = -1
  BY <1>0, WantedIs
<1>2. k \in Int /\ l \in Nat /\ n \in Int /\ r.live \in BOOLEAN
  BY <1>1 DEF Record, Lines, Lengths
<1>3. r.live => t < l /\ (k = -1 \/ (k = l - 1 /\ t = l - 1))
  BY <1>0 DEF Shown, Shows
<1>4. c = IF t = -1 THEN IF r.live /\ 0 < l THEN 0 ELSE IF r.live /\ l > t THEN l - 1 ELSE t
          ELSE t
  BY <1>0 DEF Reads, ReadTo
<1>5. z = IF r.live /\ n < l THEN n ELSE IF r.live /\ l > c THEN l - 1 ELSE c
  BY <1>0 DEF Reads
<1>6. n >= 0 =>
         /\ c = -1 => ~r.live \/ n >= l
         /\ r.live => c < l /\ (k = -1 \/ (k = l - 1 /\ c = l - 1))
         /\ (k # -1 /\ n > k) \/ n < c => c = t /\ (~r.live \/ n >= l \/ n < t)
         /\ c # -1 /\ n > c /\ z < n => IF r.live THEN n >= l /\ z = l - 1 ELSE z = t
         /\ c # -1 /\ ~(n < c) /\ ~(n > c /\ z < n) =>
               IF r.live THEN n < l /\ (k = -1 \/ (k = l - 1 /\ n = l - 1)) ELSE n = t
  <2> HIDE DEF t, k, l
  <2> QED
    BY <1>1, <1>2, <1>3, <1>4, <1>5, LineNumbers
<1>7. /\ obj'[o].tuple = a /\ obj[o].tuple = t /\ obj[o].len = l /\ obj[o].live = r.live
      /\ obj[o].res = r.res
  BY <1>0 DEF Relined
<1> HIDE DEF t, k, l
<1>8. ASSUME reply' = NoLine(o, asked),
             r.live => a < l /\ (b = -1 \/ (b = l - 1 /\ a = l - 1)),
             a = t \/ a + 1 = l,
             n >= 0 => ~r.live \/ n >= l \/ n < t,
             n < 0 => a = t
      PROVE  Shown' /\ DbiFetch!Next
  <2>1. /\ reply'.to = o /\ reply'.of = "fetch" /\ reply'.is = "refused" /\ reply'.asked = asked
    BY <1>8, AnswerOf
  <2>2. CASE n = t + 1 /\ asked = -1
    <3>1. Refuses(o, obj[o].tuple + 1, FALSE)
      BY <1>1, <1>2, <1>7, <1>8, <2>1, <2>2 DEF Refuses
    <3> QED
      BY <1>7, <1>8, <2>1, <2>2, <3>1, RelinedTold
  <2>3. CASE n \in 0 .. MaxLines /\ asked = n
    <3>1. Refuses(o, n, TRUE)
      BY <1>1, <1>2, <1>7, <1>8, <2>1, <2>3 DEF Refuses
    <3> QED
      BY <1>7, <1>8, <2>1, <2>3, <3>1, RelinedTold
  <2>4. CASE n = -2 /\ asked = -2 /\ t = -1
    <3>1. obj'[o].tuple = obj[o].tuple /\ reply'.asked = -2 /\ reply'.is = "refused"
      BY <1>7, <1>8, <2>1, <2>4
    <3>2. obj[o].live =>
             a < obj[o].len /\ (b = -1 \/ (b = obj[o].len - 1 /\ a = obj[o].len - 1))
      BY <1>7, <1>8
    <3> QED
      BY <2>1, <3>1, <3>2, RelinedTold
  <2> QED
    BY <1>1, <2>2, <2>3, <2>4
<1>9. ASSUME n >= 0, reply' = GivenLine(o, asked, n, r.res), a = n,
             IF r.live THEN n < l /\ (b = -1 \/ (b = l - 1 /\ n = l - 1)) ELSE n = t
      PROVE  Shown' /\ DbiFetch!Next
  <2>1. /\ reply'.to = o /\ reply'.of = "fetch" /\ reply'.is = "line" /\ reply'.asked = asked
        /\ reply'.n = n /\ reply'.res = r.res
    BY <1>9, AnswerOf
  <2>2. obj[o].live =>
           a < obj[o].len /\ (b = -1 \/ (b = obj[o].len - 1 /\ a = obj[o].len - 1))
    BY <1>7, <1>9
  <2>3. CASE n = t + 1 /\ asked = -1
    <3>1. Gives(o, obj[o].tuple + 1)
      BY <1>1, <1>7, <1>9, <2>1, <2>3 DEF Gives
    <3> QED
      BY <2>1, <2>2, <2>3, <3>1, RelinedTold
  <2>4. CASE n \in 0 .. MaxLines /\ asked = n
    <3>1. Gives(o, n) \/ GivesAgain(o, n)
      BY <1>7, <1>9, <2>1 DEF Gives, GivesAgain
    <3> QED
      BY <2>1, <2>2, <2>4, <3>1, RelinedTold
  <2> QED
    BY <1>1, <1>9, <2>3, <2>4
<1>10. \/ n < 0 /\ a = t /\ b = k /\ reply' = NoLine(o, asked)
       \/ n >= 0 /\ c = -1 /\ a = t /\ b = -1 /\ reply' = NoLine(o, asked)
       \/ /\ n >= 0 /\ c # -1 /\ ((k # -1 /\ n > k) \/ n < c)
          /\ a = c /\ b = k /\ reply' = NoLine(o, asked)
       \/ /\ n >= 0 /\ c # -1 /\ n > c /\ z < n
          /\ a = z /\ b = z /\ reply' = NoLine(o, asked)
       \/ /\ n >= 0 /\ c # -1 /\ ~(n < c) /\ ~(n > c /\ z < n)
          /\ a = n /\ b = k /\ reply' = GivenLine(o, asked, n, r.res)
  BY <1>0 DEF Fetches, t, k
<1>11. CASE n < 0 /\ a = t /\ b = k /\ reply' = NoLine(o, asked)
  <2>1. r.live => a < l /\ (b = -1 \/ (b = l - 1 /\ a = l - 1))
    BY <1>3, <1>11 DEF t, k, l
  <2> QED
    BY <1>2, <1>8, <1>11, <2>1
<1>12. CASE n >= 0 /\ c = -1 /\ a = t /\ b = -1 /\ reply' = NoLine(o, asked)
  <2>1. r.live => a < l
    BY <1>3, <1>12 DEF t, k, l
  <2> QED
    BY <1>2, <1>6, <1>8, <1>12, <2>1
<1>13. CASE /\ n >= 0 /\ c # -1 /\ ((k # -1 /\ n > k) \/ n < c)
            /\ a = c /\ b = k /\ reply' = NoLine(o, asked)
  BY <1>2, <1>6, <1>8, <1>13
<1>14. CASE /\ n >= 0 /\ c # -1 /\ n > c /\ z < n
            /\ a = z /\ b = z /\ reply' = NoLine(o, asked)
  <2>1. /\ r.live => a < l /\ b = l - 1 /\ a = l - 1
        /\ a = t \/ a + 1 = l
        /\ ~r.live \/ n >= l
    BY <1>2, <1>6, <1>14
  <2> QED
    BY <1>2, <1>8, <1>14, <2>1
<1>15. CASE /\ n >= 0 /\ c # -1 /\ ~(n < c) /\ ~(n > c /\ z < n)
            /\ a = n /\ b = k /\ reply' = GivenLine(o, asked, n, r.res)
  BY <1>6, <1>9, <1>15
<1> QED
  BY <1>10, <1>11, <1>12, <1>13, <1>14, <1>15

LEMMA FetchAtIs ==
    ASSUME FormsOK, NEW o \in Obj, NEW q \in -2 .. MaxLines, FetchAt(o, q, Wanted(o, q))
    PROVE  \E a \in Lines, b \in Lines, c \in Int, z \in Int :
              /\ obj' = [obj EXCEPT ![o] = [@ EXCEPT !.tuple = a, !.known = b]]
              /\ Reads(obj[o], Wanted(o, q), c, z)
              /\ Fetches(o, Wanted(o, q), Asked(o, q), a, b, c, z)
              /\ reply' \in Replies
<1> DEFINE n == Wanted(o, q)
           asked == Asked(o, q)
<1>0. PICK r \in Record : r = obj[o]
  BY RecordsType DEF FormsOK
<1> DEFINE c == IF r.tuple = -1 THEN ReadTo(r, 0) ELSE r.tuple
           at == [r EXCEPT !.tuple = IF @ = -1 THEN ReadTo(r, 0) ELSE @]
           z == IF r.live /\ n < r.len THEN n ELSE IF r.live /\ r.len > c THEN r.len - 1 ELSE c
           reached == ReadTo(at, n)
           end == [at EXCEPT !.tuple = reached, !.known = reached]
           T(a, b) == obj' = [obj EXCEPT ![o] = [@ EXCEPT !.tuple = a, !.known = b]]
<1>1. /\ MaxLines \in Nat /\ r.tuple \in Lines /\ r.known \in Lines /\ -1 \in Lines
      /\ r.res \in Results /\ r.len \in Lengths /\ r.live \in BOOLEAN
  BY BoundsIs DEF Record
<1>2. asked \in -2 .. MaxLines /\ n \in -2 .. MaxLines
  BY <1>0, <1>1 DEF Asked, Wanted, Lines
<1>3. o \in Parents /\ 0 \in Lengths /\ 0 \in Results
  BY BoundsIs DEF Parents, Lengths, Results
<1>4. NoLine(o, asked) \in Replies
  BY <1>2, <1>3, LineType
<1>5. c \in Lines
  BY <1>1, ReadToType
<1>6. at = [r EXCEPT !.tuple = c]
  BY DEF Record
<1>7. /\ at \in Record /\ at.tuple = c /\ at.live = r.live /\ at.len = r.len
      /\ at = [r EXCEPT !.tuple = c, !.known = r.known]
      /\ \A x : [at EXCEPT !.tuple = x] = [r EXCEPT !.tuple = x, !.known = r.known]
      /\ \A x, y : [at EXCEPT !.tuple = x, !.known = y] = [r EXCEPT !.tuple = x, !.known = y]
  <2> HIDE DEF c, at
  <2> QED
    BY <1>5, <1>6 DEF Record
<1>8. /\ n >= 0 => reached = z /\ z \in Lines
      /\ z \in Int /\ c \in Int
  <2> HIDE DEF c, at, n
  <2>0. at.live = r.live /\ at.len = r.len /\ at.tuple = c
    BY <1>7
  <2>1. reached = z
    BY <2>0 DEF ReadTo
  <2>2. n >= 0 => reached \in Lines
    <3>1. at \in Record
      BY <1>7
    <3>2. n \in -2 .. MaxLines /\ MaxLines \in Nat
      BY <1>1, <1>2
    <3>3. n >= 0 => n \in Nat
      BY <3>2
    <3> QED
      BY <3>1, <3>3, ReadToType
  <2>3. c \in Int /\ z \in Int
    BY <1>1, <1>2, <1>5 DEF Lines, Lengths
  <2> QED
    BY <2>1, <2>2, <2>3
<1>9. obj \in [Obj -> Record]
  BY RecordsType DEF FormsOK
<1>10. /\ \A x : obj' = [obj EXCEPT ![o].known = x] => T(r.tuple, x)
       /\ obj' = obj => T(r.tuple, r.known)
       /\ obj' = [obj EXCEPT ![o] = at] => T(c, r.known)
       /\ obj' = [obj EXCEPT ![o] = end] => T(reached, reached)
       /\ \A x : obj' = [obj EXCEPT ![o] = [at EXCEPT !.tuple = x]] => T(x, r.known)
  <2> HIDE DEF c, at, n, reached
  <2>1. /\ \A x : [r EXCEPT !.tuple = r.tuple, !.known = x] = [r EXCEPT !.known = x]
        /\ [r EXCEPT !.tuple = r.tuple, !.known = r.known] = r
    BY DEF Record
  <2>2. ASSUME NEW x, NEW y, NEW s, s = [r EXCEPT !.tuple = x, !.known = y],
               obj' = [obj EXCEPT ![o] = s]
        PROVE  T(x, y)
    BY <1>0, <2>2
  <2> HIDE DEF T
  <2>3. ASSUME NEW x, obj' = [obj EXCEPT ![o].known = x]
        PROVE  T(r.tuple, x)
    <3>1. obj' = [obj EXCEPT ![o] = [r EXCEPT !.known = x]]
      BY <1>0, <2>3
    <3> QED
      BY <2>1, <2>2, <3>1
  <2>4. ASSUME obj' = obj
        PROVE  T(r.tuple, r.known)
    <3>1. obj' = [obj EXCEPT ![o] = r]
      BY <1>0, <1>9, <2>4
    <3> QED
      BY <2>1, <2>2, <3>1
  <2>5. ASSUME obj' = [obj EXCEPT ![o] = at]
        PROVE  T(c, r.known)
    BY <1>7, <2>2, <2>5
  <2>6. ASSUME obj' = [obj EXCEPT ![o] = end]
        PROVE  T(reached, reached)
    BY <1>7, <2>2, <2>6
  <2>7. ASSUME NEW x, obj' = [obj EXCEPT ![o] = [at EXCEPT !.tuple = x]]
        PROVE  T(x, r.known)
    BY <1>7, <2>2, <2>7
  <2> QED
    BY <2>3, <2>4, <2>5, <2>6, <2>7
<1>11. \/ n < 0 /\ obj' = obj /\ reply' = NoLine(o, asked)
       \/ /\ n >= 0 /\ c = -1
          /\ obj' = [obj EXCEPT ![o].known = -1] /\ reply' = NoLine(o, asked)
       \/ /\ n >= 0 /\ c # -1 /\ ((r.known # -1 /\ n > r.known) \/ n < c)
          /\ obj' = [obj EXCEPT ![o] = at] /\ reply' = NoLine(o, asked)
       \/ /\ n >= 0 /\ c # -1 /\ n > c /\ reached < n
          /\ obj' = [obj EXCEPT ![o] = end] /\ reply' = NoLine(o, asked)
       \/ /\ n >= 0 /\ c # -1 /\ ~(n < c) /\ ~(n > c /\ reached < n)
          /\ obj' = [obj EXCEPT ![o] = [at EXCEPT !.tuple = n]]
          /\ reply' = GivenLine(o, asked, n, r.res)
  <2>1. at.tuple = c
    BY <1>7
  <2>2. FetchAt(o, q, n)
    OBVIOUS
  <2> HIDE DEF n
  <2>3. IF n < 0 THEN obj' = obj /\ reply' = NoLine(o, asked)
        ELSE IF at.tuple = -1
        THEN obj' = [obj EXCEPT ![o].known = -1] /\ reply' = NoLine(o, asked)
        ELSE IF (r.known # -1 /\ n > r.known) \/ n < at.tuple
        THEN obj' = [obj EXCEPT ![o] = at] /\ reply' = NoLine(o, asked)
        ELSE IF n > at.tuple /\ reached < n
        THEN obj' = [obj EXCEPT ![o] = end] /\ reply' = NoLine(o, asked)
        ELSE /\ obj' = [obj EXCEPT ![o] = [at EXCEPT !.tuple = n]]
             /\ reply' = GivenLine(o, asked, n, r.res)
    BY <1>0, <2>2 DEF FetchAt
  <2> HIDE DEF n, asked, c, at, reached, end
  <2>4. n < 0 \/ n >= 0
    BY <1>2
  <2> QED
    BY <2>1, <2>3, <2>4
<1> HIDE DEF c, at, z, reached, end, n, asked, T
<1>12. Reads(r, n, c, z)
  BY DEF Reads, c, z
<1>13. CASE n < 0 /\ obj' = obj /\ reply' = NoLine(o, asked)
  <2>1. T(r.tuple, r.known) /\ Fetches(o, n, asked, r.tuple, r.known, c, z)
    BY <1>0, <1>10, <1>13 DEF Fetches
  <2> QED
    BY <1>0, <1>1, <1>4, <1>8, <1>12, <1>13, <2>1 DEF T, n, asked
<1>14. CASE /\ n >= 0 /\ c = -1
            /\ obj' = [obj EXCEPT ![o].known = -1] /\ reply' = NoLine(o, asked)
  <2>1. T(r.tuple, -1) /\ Fetches(o, n, asked, r.tuple, -1, c, z)
    BY <1>0, <1>10, <1>14 DEF Fetches
  <2> QED
    BY <1>0, <1>1, <1>4, <1>8, <1>12, <1>14, <2>1 DEF T, n, asked
<1>15. CASE /\ n >= 0 /\ c # -1 /\ ((r.known # -1 /\ n > r.known) \/ n < c)
            /\ obj' = [obj EXCEPT ![o] = at] /\ reply' = NoLine(o, asked)
  <2>1. T(c, r.known) /\ Fetches(o, n, asked, c, r.known, c, z)
    BY <1>0, <1>10, <1>15 DEF Fetches
  <2> QED
    BY <1>0, <1>1, <1>4, <1>5, <1>8, <1>12, <1>15, <2>1 DEF T, n, asked
<1>16. CASE /\ n >= 0 /\ c # -1 /\ n > c /\ reached < n
            /\ obj' = [obj EXCEPT ![o] = end] /\ reply' = NoLine(o, asked)
  <2>1. T(z, z) /\ Fetches(o, n, asked, z, z, c, z)
    BY <1>0, <1>8, <1>10, <1>16 DEF Fetches
  <2> QED
    BY <1>0, <1>1, <1>4, <1>8, <1>12, <1>16, <2>1 DEF T, n, asked
<1>17. CASE /\ n >= 0 /\ c # -1 /\ ~(n < c) /\ ~(n > c /\ reached < n)
            /\ obj' = [obj EXCEPT ![o] = [at EXCEPT !.tuple = n]]
            /\ reply' = GivenLine(o, asked, n, r.res)
  <2>1. T(n, r.known) /\ Fetches(o, n, asked, n, r.known, c, z)
    BY <1>0, <1>8, <1>10, <1>17 DEF Fetches
  <2>2. n \in Lines /\ n \in Lengths
    <3>1. n \in -2 .. MaxLines
      BY <1>2 DEF n
    <3> QED
      BY <1>1, <1>5, <1>8, <1>17, <3>1 DEF Lines, Lengths
  <2>3. reply' \in Replies
    <3>1. asked \in -2 .. MaxLines
      BY <1>2 DEF asked
    <3> QED
      BY <1>1, <1>3, <1>17, <2>2, <3>1, LineType
  <2> QED
    BY <1>0, <1>1, <1>8, <1>12, <1>17, <2>1, <2>2, <2>3 DEF T, n, asked
<1> QED
  BY <1>11, <1>13, <1>14, <1>15, <1>16, <1>17

LEMMA FetchAtSteps ==
    ASSUME FormsOK, Tree, NEW o \in Obj, Opened(o), NEW q \in -2 .. MaxLines,
           FetchAt(o, q, Wanted(o, q)), srv' = srv
    PROVE  Steps /\ Told
<1>1. PICK a \in Lines, b \in Lines, c \in Int, z \in Int :
         /\ obj' = [obj EXCEPT ![o] = [@ EXCEPT !.tuple = a, !.known = b]]
         /\ Reads(obj[o], Wanted(o, q), c, z)
         /\ Fetches(o, Wanted(o, q), Asked(o, q), a, b, c, z)
         /\ reply' \in Replies
  BY FetchAtIs
<1>2. Steps
  BY <1>1, LineSteps
<1>3. Told
  BY <1>1, RelinedIs, FetchAtTold DEF Told
<1> QED
  BY <1>2, <1>3

(* The lines stay as they are. *)
LEMMA NothingFetched ==
    ASSUME FormsOK, NEW o \in Obj, NEW q \in -2 .. MaxLines, ~obj[o].live, Shown,
           Ends(Now, NoLine(o, q))
    PROVE  Shown' /\ DbiFetch!Next
<1>1. obj' = obj /\ reply' = NoLine(o, q)
  BY DEF Ends, Now
<1>2. /\ reply'.to = o /\ reply'.of = "fetch" /\ reply'.is = "refused" /\ reply'.asked = q
  BY <1>1, AnswerOf
<1>3. Relined(o, obj[o].tuple, obj[o].known)
  BY <1>1 DEF Relined
<1>4. q = -1 \/ q = -2 \/ q \in 0 .. MaxLines
  BY BoundsIs
<1>5. Refuses(o, obj[o].tuple + 1, FALSE) /\ Refuses(o, q, TRUE)
  BY <1>1, <1>2 DEF Refuses
<1> QED
  BY <1>1, <1>2, <1>3, <1>4, <1>5, RelinedTold

LEMMA PastEndTold ==
    ASSUME FormsOK, NEW o \in Obj, NEW q \in -2 .. MaxLines, Wanted(o, q) >= 0,
           PastEnd(o, q), Ends(Now, NoLine(o, Asked(o, q)))
    PROVE  Told
<1> SUFFICES ASSUME Shown PROVE Shown' /\ DbiFetch!Next
  BY DEF Told
<1>1. obj' = obj /\ reply' = NoLine(o, Asked(o, q))
  BY DEF Ends, Now
<1>2. /\ reply'.to = o /\ reply'.of = "fetch" /\ reply'.is = "refused"
      /\ reply'.asked = Asked(o, q)
  BY <1>1, AnswerOf
<1>3. Relined(o, obj[o].tuple, obj[o].known)
  BY <1>1 DEF Relined
<1>4. PICK r \in Record : r = obj[o]
  BY RecordsType DEF FormsOK
<1>5. r.tuple \in Int /\ r.known \in Int /\ r.len \in Nat
  BY BoundsIs DEF Record, Lines, Lengths
<1>6. r.live => /\ r.tuple < r.len
                /\ r.known = -1 \/ (r.known = r.len - 1 /\ r.tuple = r.len - 1)
  BY <1>4 DEF Shown, Shows
<1>7. PICK n : n = Wanted(o, q)
  OBVIOUS
<1>8. r.known # -1 /\ n >= r.known /\ n >= 0
  BY <1>4, <1>7 DEF PastEnd
<1>9. \/ n = r.tuple + 1 /\ Asked(o, q) = -1
      \/ n \in 0 .. MaxLines /\ Asked(o, q) = n
  BY <1>4, <1>7, <1>8, WantedIs
<1>10. CASE n = r.tuple + 1 /\ Asked(o, q) = -1
  <2>1. Refuses(o, obj[o].tuple + 1, FALSE)
    BY <1>1, <1>2, <1>4, <1>5, <1>6, <1>8, <1>10 DEF Refuses
  <2> QED
    BY <1>1, <1>2, <1>3, <1>4, <1>6, <1>10, <2>1, RelinedTold
<1>11. CASE n \in 0 .. MaxLines /\ Asked(o, q) = n
  <2>1. Refuses(o, n, TRUE)
    BY <1>1, <1>2, <1>4, <1>5, <1>6, <1>8, <1>11, BoundsIs DEF Refuses
  <2> QED
    BY <1>1, <1>2, <1>3, <1>4, <1>6, <1>11, <2>1, RelinedTold
<1> QED
  BY <1>9, <1>10, <1>11

LEMMA FetchSteps ==
    ASSUME FormsOK, Tree, NEW o \in Obj, NEW q \in -2 .. MaxLines, Fetch(o, q) \/ IbFetch(o, q)
    PROVE  Steps /\ Told
<1>0. o \in Parents /\ 0 \in Lengths /\ 0 \in Results /\ MaxLines \in Nat
  BY BoundsIs DEF Parents, Lengths, Results
<1>1. Asked(o, q) \in -2 .. MaxLines
  <2>1. obj[o].tuple \in Lines
    BY RecordsType DEF FormsOK, Record
  <2> QED
    BY <1>0, <2>1 DEF Asked, Lines
<1>2. CASE Fetch(o, q)
  <2>1. Opened(o) /\ srv' = srv
    BY <1>2 DEF Fetch
  <2>2. CASE obj[o].out
    BY <1>2, <2>1, <2>2, FetchAtSteps DEF Fetch
  <2>3. CASE ~obj[o].out
    <3>1. Ends(Now, NoLine(o, q)) /\ NoLine(o, q) \in Replies
      BY <1>0, <1>2, <2>3, LineType DEF Fetch, Ends, Now
    <3>2. Steps
      BY <2>1, <3>1, NothingSteps
    <3>3. Told
      BY <2>3, <3>1, NothingFetched DEF Told, Shown, Shows
    <3> QED
      BY <3>2, <3>3
  <2> QED
    BY <2>2, <2>3
<1>3. CASE IbFetch(o, q) /\ ~Fetch(o, q)
  <2>1. Opened(o) /\ Ends(Now, NoLine(o, Asked(o, q))) /\ NoLine(o, Asked(o, q)) \in Replies
    BY <1>0, <1>1, <1>3, LineType DEF IbFetch, Ends, Now
  <2>2. Steps
    BY <2>1, NothingSteps
  <2>3. Told
    BY <1>3, <2>1, PastEndTold DEF IbFetch
  <2> QED
    BY <2>2, <2>3
<1> QED
  BY <1>2, <1>3

-----------------------------------------------------------------------------------
(* Objects and connections *)

LEMMA FormsSteps ==
    ASSUME obj' \in [Obj -> Record], srv' \in [Conn -> Server], reply' \in Replies
    PROVE  FormsOK' /\ RecordsOK'
<1>1. RecordsOK'
  BY DEF RecordsOK, Record, Parents, Attachments, Results, Lengths, Lines, Blobs
<1> QED
  BY <1>1 DEF FormsOK, Replies, Server, Parents, Results, Lengths, Links

LEMMA FreshType ==
    ASSUME NEW g \in Garbage
    PROVE  /\ Absent \in Record /\ Fresh(g) \in Record
           /\ Fresh(g).alive /\ Fresh(g).clones = {} /\ Fresh(g).parent = NoObj
           /\ Fresh(g).db = 0 /\ Fresh(g).trans = 0 /\ ~Fresh(g).live /\ Fresh(g).blob = "none"
<1>1. /\ NoObj \in Parents /\ {} \in SUBSET Obj /\ 0 \in Attachments /\ 0 \in Results
      /\ 0 \in Lengths /\ -1 \in Lines /\ "none" \in Blobs /\ g \in Lines
  BY BoundsIs DEF Parents, Attachments, Results, Lengths, Lines, Blobs, Garbage
<1>2. PICK f \in BOOLEAN, t \in BOOLEAN : f = FALSE /\ t = TRUE
  OBVIOUS
<1>3. PICK l \in Lines : l = -1
  BY <1>1
<1>4. Absent = [alive |-> f, parent |-> NoObj, clones |-> {}, db |-> 0, database |-> f,
                auto |-> t, trans |-> 0, cursor |-> f, live |-> f, out |-> f, res |-> 0,
                len |-> 0, tuple |-> l, known |-> l, blob |-> "none"]
  BY <1>2, <1>3 DEF Absent
<1>5. PICK r \in Record : r = Absent
  BY <1>1, <1>4 DEF Record
<1>6. /\ r.clones = {} /\ r.parent = NoObj /\ r.db = 0 /\ r.trans = 0 /\ ~r.live
      /\ r.blob = "none"
  BY <1>5 DEF Absent
<1>7. /\ [r EXCEPT !.alive = t, !.tuple = g] \in Record
      /\ LET x == [r EXCEPT !.alive = t, !.tuple = g]
         IN /\ x.alive = t /\ x.clones = r.clones /\ x.parent = r.parent
            /\ x.db = r.db /\ x.trans = r.trans /\ x.live = r.live /\ x.blob = r.blob
  BY <1>1 DEF Record
<1> QED
  BY <1>2, <1>5, <1>6, <1>7 DEF Fresh

LEMMA NewSteps == ASSUME FormsOK, Tree, NEW o \in Obj, New(o) PROVE Steps /\ Told
<1>1. PICK g \in Garbage : obj' = [obj EXCEPT ![o] = Fresh(g)]
  BY DEF New
<1>2. PICK x \in Record : x = Fresh(g)
  BY FreshType
<1>3. /\ x.alive /\ x.clones = {} /\ x.parent = NoObj
      /\ x.db = 0 /\ x.trans = 0 /\ ~x.live /\ x.blob = "none"
  BY <1>2, FreshType
<1>4. /\ obj \in [Obj -> Record] /\ ~obj[o].alive /\ \A p \in Obj : obj[p].parent # o
      /\ srv \in [Conn -> Server] /\ srv' = srv /\ NoObj # o
  BY RecordsType, ServerAssumption DEF FormsOK, New
<1>5. /\ obj' \in [Obj -> Record] /\ obj'[o] = x
      /\ \A p \in Obj : p # o => obj'[p] = obj[p]
  BY <1>1, <1>2, <1>4
<1>6. reply' \in Replies
  BY AnswerType DEF New, Parents, Methods, Endings
<1>7. FormsOK' /\ RecordsOK'
  BY <1>4, <1>5, <1>6, FormsSteps
<1>8. CloneTree'
  <2> SUFFICES ASSUME NEW p \in Obj, NEW q \in Obj, obj'[p].alive
               PROVE  q \in obj'[p].clones <=> obj'[q].alive /\ obj'[q].parent = p
    BY DEF CloneTree
  <2>1. obj[p].alive => (q \in obj[p].clones <=> obj[q].alive /\ obj[q].parent = p)
    BY DEF Tree, CloneTree
  <2>2. p # NoObj
    BY ServerAssumption
  <2>3. CASE p = o
    BY <1>3, <1>4, <1>5, <2>2, <2>3
  <2>4. CASE p # o /\ q = o
    BY <1>3, <1>4, <1>5, <2>1, <2>2, <2>4
  <2>5. CASE p # o /\ q # o
    BY <1>5, <2>1, <2>5
  <2> QED
    BY <2>3, <2>4, <2>5
<1>9. Rooted'
  <2> SUFFICES ASSUME NEW p \in Obj, obj'[p].parent # NoObj, obj'[obj'[p].parent].alive
               PROVE  obj'[obj'[p].parent].parent = NoObj
    BY DEF Rooted
  <2>1. p # o /\ obj'[p] = obj[p]
    BY <1>3, <1>5
  <2>2. obj[p].parent \in Obj /\ obj[p].parent # o
    BY <1>4, <2>1 DEF Record, Parents
  <2> QED
    BY <1>5, <2>1, <2>2 DEF Tree, Rooted
<1>10. ASSUME Handles(obj, srv) PROVE Handles(obj', srv')
  <2>1. \A p \in Obj : p # o => /\ Up(obj', p) = Up(obj, p) /\ Up(obj, p) \in Obj
                                /\ Up(obj, p) # o
                                /\ Lives(obj', p) <=> Lives(obj, p)
    <3> SUFFICES ASSUME NEW p \in Obj, p # o
                 PROVE  /\ Up(obj', p) = Up(obj, p) /\ Up(obj, p) \in Obj
                        /\ Up(obj, p) # o
                        /\ Lives(obj', p) <=> Lives(obj, p)
      OBVIOUS
    <3>1. Up(obj', p) = Up(obj, p) /\ Up(obj, p) \in Obj /\ Up(obj, p) # o
      BY <1>4, <1>5 DEF Up, Record, Parents
    <3> QED
      BY <1>5, <3>1 DEF Lives
  <2>2. Up(obj', o) = o
    BY <1>3, <1>5 DEF Up
  <2>3. \A p \in Obj, c \in Conn : Uses(obj', p, c) => p # o /\ Uses(obj, p, c)
    BY <1>3, <1>5 DEF Uses, Conn
  <2>4. Apart(obj')
    BY <1>10, <2>1, <2>3 DEF Handles, Apart
  <2>5. Made(obj', srv')
    BY <1>4, <1>10, <2>3 DEF Handles, Made
  <2>6. Kept(obj')
    <3> SUFFICES ASSUME NEW p \in Obj, Lives(obj', p)
                 PROVE  /\ obj'[p].live => obj'[p].cursor /\ obj'[p].out
                        /\ obj'[p].live \/ obj'[p].blob = "open"
                              => obj'[p].db # 0 /\ obj'[Up(obj', p)].trans = obj'[p].db
      BY DEF Kept
    <3>1. CASE p = o
      BY <1>3, <1>5, <3>1
    <3>2. CASE p # o
      BY <1>5, <1>10, <2>1, <3>2 DEF Handles, Kept
    <3> QED
      BY <3>1, <3>2
  <2>7. Underway(obj', srv')
    <3> SUFFICES ASSUME NEW p \in Obj, NEW c \in Conn, Lives(obj', p),
                        obj'[Up(obj', p)].trans = c, srv[c].link = "open"
                 PROVE  srv[c].txn = "open"
      BY <1>4 DEF Underway
    <3>1. p # o
      BY <1>3, <1>5, <2>2 DEF Conn
    <3> QED
      BY <1>5, <1>10, <2>1, <3>1 DEF Handles, Underway
  <2> QED
    BY <2>4, <2>5, <2>6, <2>7 DEF Handles
<1>11. Told
  <2>1. Fading
    BY <1>3, <1>5 DEF Fading, Stays
  <2>2. NoResult(reply')
    BY NoResultOf DEF New
  <2> QED
    BY <2>1, <2>2, FadingTold
<1> QED
  BY <1>11, <1>7, <1>8, <1>9, <1>10 DEF Steps, Tree

LEMMA ConnectionLostSteps ==
    ASSUME FormsOK, Tree, NEW c \in Conn, ConnectionLost(c) PROVE Steps /\ Told
<1>1. obj \in [Obj -> Record] /\ srv \in [Conn -> Server] /\ \A p \in Obj : Root(p) \in Obj
  BY RecordsType, RootType DEF FormsOK
<1>2. /\ srv[c].link = "open"
      /\ srv' = [srv EXCEPT ![c] = [RolledBack(@) EXCEPT !.link = "lost"]]
      /\ obj' = [o \in Obj |-> IF obj[Root(o)].trans = c THEN [obj[o] EXCEPT !.live = FALSE]
                               ELSE obj[o]]
  BY DEF ConnectionLost
<1>3. ASSUME NEW s \in Server
      PROVE  [s EXCEPT !.link = "lost"] \in Server /\ [s EXCEPT !.link = "lost"].link = "lost"
  BY DEF Server, Links
<1>4. /\ srv' \in [Conn -> Server] /\ srv'[c].link = "lost"
      /\ \A d \in Conn : d # c => srv'[d] = srv[d]
  BY <1>1, <1>2, <1>3, ServerSteps
<1>5. ASSUME NEW r \in Record
      PROVE  LET x == [r EXCEPT !.live = FALSE]
             IN /\ x \in Record /\ Alike(r, x) /\ x.db = r.db /\ x.trans = r.trans /\ ~x.live
                /\ x.blob = r.blob
  <2>1. PICK f \in BOOLEAN : f = FALSE
    OBVIOUS
  <2>2. LET x == [r EXCEPT !.live = f]
        IN /\ x \in Record /\ Alike(r, x) /\ x.db = r.db /\ x.trans = r.trans /\ x.live = f
           /\ x.blob = r.blob
    BY DEF Record, Alike
  <2> QED
    BY <2>1, <2>2
<1>6. \A p \in Obj : /\ obj'[p] \in Record /\ Alike(obj[p], obj'[p])
                     /\ obj'[p].db = obj[p].db /\ obj'[p].trans = obj[p].trans
                     /\ obj'[p].live => obj'[p] = obj[p]
                     /\ obj'[p].blob = obj[p].blob
  <2> SUFFICES ASSUME NEW p \in Obj
               PROVE  /\ obj'[p] \in Record /\ Alike(obj[p], obj'[p])
                      /\ obj'[p].db = obj[p].db /\ obj'[p].trans = obj[p].trans
                      /\ obj'[p].live => obj'[p] = obj[p]
                      /\ obj'[p].blob = obj[p].blob
    OBVIOUS
  <2>1. obj[p] \in Record /\ Alike(obj[p], obj[p])
    BY <1>1 DEF Alike
  <2> QED
    BY <1>2, <1>5, <2>1
<1>7. obj' \in [Obj -> Record]
  BY <1>2, <1>6
<1>8. reply' \in Replies
  BY AnswerType DEF ConnectionLost, Parents, Methods, Endings
<1>9. FormsOK' /\ RecordsOK'
  BY <1>4, <1>7, <1>8, FormsSteps
<1>10. Tree'
  BY <1>6, <1>9, TreeStays
<1>11. ASSUME Handles(obj, srv) PROVE Handles(obj', srv')
  <2>1. \A p \in Obj : /\ Up(obj', p) = Up(obj, p) /\ Up(obj, p) \in Obj
                       /\ Lives(obj', p) <=> Lives(obj, p)
    <3>1. \A p \in Obj : Up(obj', p) = Up(obj, p) /\ Up(obj, p) \in Obj
      BY <1>1, <1>6 DEF Up, Alike, Record, Parents
    <3> QED
      BY <1>6, <3>1 DEF Lives, Alike
  <2>2. \A p \in Obj, d \in Conn : Uses(obj', p, d) <=> Uses(obj, p, d)
    BY <1>6 DEF Uses
  <2>3. Apart(obj')
    BY <1>11, <2>1, <2>2 DEF Handles, Apart
  <2>4. Made(obj', srv')
    BY <1>4, <1>11, <2>2 DEF Handles, Made
  <2>5. Kept(obj')
    BY <1>6, <1>11, <2>1 DEF Handles, Kept
  <2>6. Underway(obj', srv')
    BY <1>4, <1>6, <1>11, <2>1 DEF Handles, Underway
  <2> QED
    BY <2>3, <2>4, <2>5, <2>6 DEF Handles
<1>12. Told
  <2>1. Fading
    BY <1>6 DEF Fading, Stays
  <2>2. NoResult(reply')
    BY NoResultOf DEF ConnectionLost
  <2> QED
    BY <2>1, <2>2, FadingTold
<1> QED
  BY <1>12, <1>9, <1>10, <1>11 DEF Steps

LEMMA OpenSteps == ASSUME FormsOK, Tree, NEW o \in Obj, Open(o) PROVE Steps /\ Told
<1>1. PICK c \in Attaches :
         /\ obj' = [obj EXCEPT ![o] = [@ EXCEPT !.db = c, !.database = (c # 0),
                                                !.auto = TRUE, !.trans = 0]]
         /\ srv' = IF c = 0 THEN srv ELSE [srv EXCEPT ![c] = Linked(@)]
         /\ reply' = Answer(o, "open", IF c = 0 THEN "failed" ELSE "ok")
  BY DEF Open
<1>2. /\ c \in Attachments /\ (c # 0 => c \in Conn /\ srv[c].link = "unused")
  BY DEF Attaches, Lowest, Attachments
<1>3. /\ obj[o].alive /\ obj[o].parent = NoObj /\ obj[o].db = 0 /\ Root(o) = o /\ Usable(o)
      /\ obj \in [Obj -> Record] /\ srv \in [Conn -> Server]
  BY RecordsType DEF FormsOK, Open, IsClone, Root, Usable
<1>4. In(Now, o) /\ Now \in State
  BY <1>3, NowIn DEF In
<1>5. PICK r \in Record : r = obj[o]
  BY <1>3
<1>6. PICK b \in BOOLEAN : b = (c # 0)
  OBVIOUS
<1>7. PICK t \in BOOLEAN : t = TRUE
  OBVIOUS
<1> DEFINE x == [r EXCEPT !.database = b, !.auto = t, !.trans = 0]
           w == [Now EXCEPT !.obj[o] = x]
           y == [x EXCEPT !.db = c]
<1>8. x \in Record
  <2>1. 0 \in Attachments
    BY DEF Attachments
  <2> QED
    BY <2>1 DEF Record
<1>9. /\ x.db = r.db /\ x.trans = 0 /\ x.live = r.live /\ x.blob = r.blob
      /\ x.cursor = r.cursor /\ x.out = r.out /\ Lowered(r, x) /\ Alike(r, x)
  BY DEF Record, Lowered, Alike
<1>10. y \in Record /\ Alike(x, y)
  BY <1>2, <1>8, AttachedRecord DEF Alike, Record
<1>11. y = [obj[o] EXCEPT !.db = c, !.database = (c # 0), !.auto = TRUE, !.trans = 0]
  BY <1>5, <1>6, <1>7 DEF Record
<1>19. Stays(r, y) \/ ~y.live
  BY DEF Record, Stays
<1> HIDE DEF x, y
<1>12. obj' = [obj EXCEPT ![o] = y]
  BY <1>1, <1>3, <1>11
<1>13. obj' \in [Obj -> Record] /\ obj'[o] = y /\ \A p \in Obj : p # o => obj'[p] = obj[p]
  BY <1>3, <1>10, <1>12
<1>14. \A p \in Obj : Alike(obj[p], obj'[p])
  BY <1>5, <1>9, <1>10, <1>13 DEF Alike
<1>15. srv' \in [Conn -> Server]
  BY <1>1, <1>2, <1>3, ServerSteps
<1>16. reply' \in Replies
  BY <1>1, AnswerType DEF Parents, Methods, Endings
<1>17. FormsOK' /\ RecordsOK' /\ Tree'
  BY <1>13, <1>14, <1>15, <1>16, FormsSteps, TreeStays
<1>18. ASSUME Handles(obj, srv), ParentsAttached PROVE Handles(obj', srv')
  <2>1. /\ w \in State /\ w.srv = srv /\ w.is = "ok" /\ w.obj[o] = x
        /\ \A p \in Obj : p # o => w.obj[p] = obj[p]
    BY <1>4, <1>8, PutObject DEF Now
  <2>2. w.obj = [obj EXCEPT ![o] = x]
    BY DEF Now
  <2> HIDE DEF w
  <2>3. ~r.live /\ r.blob # "open"
    <3>1. Lives(obj, o) /\ Up(obj, o) = o
      BY <1>3 DEF Lives, Up
    <3> QED
      BY <1>3, <1>5, <1>18, <3>1 DEF Handles, Kept
  <2>4. obj[o].clones = {}
    BY <1>3, <1>18 DEF ParentsAttached
  <2>5. ASSUME NEW p \in Obj, Usable(p), p # o PROVE Root(p) # o /\ Root(p) \in Obj
    <3>1. p \notin Family(o)
      BY <1>3, <2>4, <2>5 DEF Family
    <3> QED
      BY <1>3, <2>5, <3>1, FamilyIs, RootType DEF Tree
  <2>6. Follows(Now, w, o)
    BY <1>3, <1>5, <1>9, <2>1 DEF Follows, Now, Lowered
  <2>7. Falls(Now, w)
    BY <1>3, <1>5, <1>9, <2>1, <2>3, <2>5 DEF Falls, Now
  <2>8. Handles(w.obj, w.srv) /\ In(w, o)
    BY <1>4, <1>18, <2>6, <2>7, HandlesFall, InStays DEF Now
  <2>9. CASE c = 0
    <3>1. y = x
      BY <1>3, <1>5, <1>9, <2>9 DEF y, x, Record
    <3> QED
      BY <1>1, <1>12, <2>1, <2>2, <2>8, <2>9, <3>1
  <2>10. CASE c # 0
    <3> DEFINE S == {o}
               v == [is |-> "ok", srv |-> [w.srv EXCEPT ![c] = Linked(@)],
                     obj |-> [p \in Obj |-> IF p \in S THEN [w.obj[p] EXCEPT !.db = c]
                                            ELSE w.obj[p]]]
    <3>1. c \in Conn /\ w.srv[c].link = "unused"
      BY <1>2, <2>1, <2>10
    <3>2. ~w.obj[o].live /\ w.obj[o].blob # "open"
      BY <1>9, <2>1, <2>3
    <3>3. Handles(v.obj, v.srv)
      <4>1. /\ S \in SUBSET Obj /\ o \in S /\ \A p \in S : Root(p) = Root(o)
            /\ \A p \in S : ~w.obj[p].live /\ w.obj[p].blob # "open"
        BY <3>2
      <4> DEFINE u == v
      <4>2. u = [is |-> "ok", srv |-> [w.srv EXCEPT ![c] = Linked(@)],
                 obj |-> [p \in Obj |-> IF p \in S THEN [w.obj[p] EXCEPT !.db = c]
                                        ELSE w.obj[p]]]
        OBVIOUS
      <4> HIDE DEF S, u
      <4>3. Handles(u.obj, u.srv)
        BY <2>8, <3>1, <4>1, <4>2, AttachedIs
      <4> QED
        BY <4>3 DEF u
    <3>4. v.obj = obj'
      BY <1>3, <1>12, <1>13, <2>1 DEF y
    <3>5. v.srv = srv'
      BY <1>1, <2>1, <2>10
    <3> QED
      BY <3>3, <3>4, <3>5
  <2> QED
    BY <2>9, <2>10
<1>20. Told
  <2>1. Fading
    BY <1>5, <1>13, <1>19 DEF Fading, Stays
  <2>2. NoResult(reply')
    BY <1>1, NoResultOf
  <2> QED
    BY <2>1, <2>2, FadingTold
<1> QED
  BY <1>20, <1>17, <1>18 DEF Steps

LEMMA CloneSteps ==
    ASSUME FormsOK, Tree, NEW o \in Obj, NEW n \in Obj, Clone(o, n) PROVE Steps /\ Told
<1> DEFINE R == Root(o)
<1>1. PICK g \in Garbage :
         obj' = [obj EXCEPT ![n] = [Fresh(g) EXCEPT !.parent = R, !.db = obj[R].db,
                                                    !.database = TRUE],
                            ![R].clones = @ \cup {n}]
  BY DEF Clone
<1>2. /\ obj \in [Obj -> Record] /\ srv \in [Conn -> Server] /\ srv' = srv
      /\ ~obj[n].alive /\ \A p \in Obj : obj[p].parent # n
      /\ Usable(o) /\ obj[R].db # 0
  BY RecordsType DEF FormsOK, Clone, Opened, IsOpen
<1>3. R \in Obj /\ obj[R].alive /\ Root(R) = R
  BY <1>2, FamilyIs DEF Usable
<1>4. R # n /\ R # NoObj /\ n # NoObj /\ obj[R].parent = NoObj
  <2> HIDE DEF R
  <2>1. obj[R].parent # NoObj => obj[R].parent = R
    BY <1>3 DEF Root, IsClone
  <2>2. obj[R].parent = NoObj
    BY <1>3, <2>1 DEF Tree, Rooted
  <2> QED
    BY <1>2, <1>3, <2>2, ServerAssumption
<1>5. PICK s \in Record : s = obj[R]
  BY <1>2, <1>3
<1>6. PICK f \in Record : f = Fresh(g)
  BY FreshType
<1>7. /\ f.alive /\ f.clones = {} /\ f.trans = 0 /\ ~f.live /\ f.blob = "none"
  BY <1>6, FreshType
<1>8. PICK t \in BOOLEAN : t = TRUE
  OBVIOUS
<1> DEFINE x == [f EXCEPT !.parent = R, !.db = s.db, !.database = t]
           y == [s EXCEPT !.clones = @ \cup {n}]
<1>9. x \in Record /\ y \in Record
  BY <1>3 DEF Record, Parents
<1>10. /\ x.alive /\ x.clones = {} /\ x.trans = 0 /\ ~x.live /\ x.blob = "none"
       /\ x.parent = R /\ x.db = s.db
  BY <1>7 DEF Record
<1>11. /\ y.alive = s.alive /\ y.clones = s.clones \cup {n} /\ y.parent = s.parent
       /\ y.trans = s.trans /\ y.db = s.db /\ y.live = s.live /\ y.blob = s.blob
       /\ y.cursor = s.cursor /\ y.out = s.out
  BY DEF Record
<1>21. Stays(s, y) \/ ~y.live
  BY DEF Record, Stays
<1>12. obj' = [obj EXCEPT ![n] = x, ![R] = y]
  BY <1>1, <1>2, <1>3, <1>4, <1>5, <1>6, <1>8
<1> HIDE DEF x, y, R
<1>13. /\ obj' \in [Obj -> Record] /\ obj'[n] = x /\ obj'[R] = y
       /\ \A p \in Obj : p # n /\ p # R => obj'[p] = obj[p]
  BY <1>2, <1>3, <1>4, <1>9, <1>12
<1>14. reply' \in Replies
  BY AnswerType DEF Clone, Parents, Methods, Endings
<1>15. FormsOK' /\ RecordsOK'
  BY <1>2, <1>13, <1>14, FormsSteps
<1>16. \A p \in Obj : p # n => /\ obj'[p].alive = obj[p].alive /\ obj'[p].parent = obj[p].parent
                               /\ obj'[p].trans = obj[p].trans /\ obj'[p].db = obj[p].db
                               /\ obj'[p].live = obj[p].live /\ obj'[p].blob = obj[p].blob
                               /\ obj'[p].cursor = obj[p].cursor /\ obj'[p].out = obj[p].out
  BY <1>5, <1>11, <1>13
<1>17. \A p \in Obj : p # n => \A q \in Obj :
          q \in obj'[p].clones <=> q \in obj[p].clones \/ (p = R /\ q = n)
  BY <1>5, <1>11, <1>13
<1>18. CloneTree'
  <2> SUFFICES ASSUME NEW p \in Obj, NEW q \in Obj, obj'[p].alive
               PROVE  q \in obj'[p].clones <=> obj'[q].alive /\ obj'[q].parent = p
    BY DEF CloneTree
  <2>1. obj[p].alive => (q \in obj[p].clones <=> obj[q].alive /\ obj[q].parent = p)
    BY DEF Tree, CloneTree
  <2>2. CASE p = n
    BY <1>2, <1>4, <1>10, <1>13, <1>16, <2>2
  <2>3. CASE p # n /\ q = n
    BY <1>2, <1>10, <1>13, <1>16, <1>17, <2>1, <2>3
  <2>4. CASE p # n /\ q # n
    BY <1>16, <1>17, <2>1, <2>4
  <2> QED
    BY <2>2, <2>3, <2>4
<1>19. Rooted'
  <2> SUFFICES ASSUME NEW p \in Obj, obj'[p].parent # NoObj, obj'[obj'[p].parent].alive
               PROVE  obj'[obj'[p].parent].parent = NoObj
    BY DEF Rooted
  <2>1. CASE p = n
    BY <1>3, <1>4, <1>10, <1>13, <1>16, <2>1
  <2>2. CASE p # n
    <3>1. obj[p].parent \in Obj /\ obj[p].parent # n /\ obj'[p].parent = obj[p].parent
      BY <1>2, <1>16, <2>2 DEF Record, Parents
    <3> QED
      BY <1>16, <3>1 DEF Tree, Rooted
  <2> QED
    BY <2>1, <2>2
<1>20. ASSUME Handles(obj, srv) PROVE Handles(obj', srv')
  <2>1. /\ \A p \in Obj : p # n => /\ Up(obj', p) = Up(obj, p) /\ Up(obj, p) \in Obj
                                   /\ Up(obj, p) # n /\ (Lives(obj', p) <=> Lives(obj, p))
        /\ Up(obj', n) = R /\ Up(obj, R) = R /\ Lives(obj, R)
    <3>1. \A p \in Obj : p # n => /\ Up(obj', p) = Up(obj, p) /\ Up(obj, p) \in Obj
                                  /\ Up(obj, p) # n
      BY <1>2, <1>16 DEF Up, Record, Parents
    <3>2. \A p \in Obj : p # n => (Lives(obj', p) <=> Lives(obj, p))
      BY <1>16, <3>1 DEF Lives
    <3> QED
      BY <1>3, <1>4, <1>10, <1>13, <3>1, <3>2 DEF Up, Lives
  <2>2. \A p \in Obj, c \in Conn : Uses(obj', p, c) => Uses(obj, IF p = n THEN R ELSE p, c)
    BY <1>5, <1>10, <1>13, <1>16 DEF Uses, Conn
  <2>3. \A p \in Obj, c \in Conn : Uses(obj', p, c) =>
           \E q \in Obj : Up(obj, q) = Up(obj', p) /\ Uses(obj, q, c)
    BY <1>3, <2>1, <2>2
  <2>4. Apart(obj')
    <3> SUFFICES ASSUME NEW p \in Obj, NEW q \in Obj, NEW c \in Conn,
                        Uses(obj', p, c), Uses(obj', q, c)
                 PROVE  Up(obj', p) = Up(obj', q)
      BY DEF Apart
    <3>1. PICK a \in Obj : Up(obj, a) = Up(obj', p) /\ Uses(obj, a, c)
      BY <2>3
    <3>2. PICK b \in Obj : Up(obj, b) = Up(obj', q) /\ Uses(obj, b, c)
      BY <2>3
    <3> QED
      BY <1>20, <3>1, <3>2 DEF Handles, Apart
  <2>5. Made(obj', srv')
    BY <1>2, <1>20, <2>3 DEF Handles, Made
  <2>6. Kept(obj')
    <3> SUFFICES ASSUME NEW p \in Obj, Lives(obj', p)
                 PROVE  /\ obj'[p].live => obj'[p].cursor /\ obj'[p].out
                        /\ obj'[p].live \/ obj'[p].blob = "open"
                              => obj'[p].db # 0 /\ obj'[Up(obj', p)].trans = obj'[p].db
      BY DEF Kept
    <3>1. CASE p = n
      BY <1>10, <1>13, <3>1
    <3>2. CASE p # n
      BY <1>16, <1>20, <2>1, <3>2 DEF Handles, Kept
    <3> QED
      BY <3>1, <3>2
  <2>7. Underway(obj', srv')
    <3> SUFFICES ASSUME NEW p \in Obj, NEW c \in Conn, Lives(obj', p),
                        obj'[Up(obj', p)].trans = c, srv[c].link = "open"
                 PROVE  srv[c].txn = "open"
      BY <1>2 DEF Underway
    <3>1. CASE p = n
      BY <1>3, <1>4, <1>16, <1>20, <2>1, <3>1 DEF Handles, Underway
    <3>2. CASE p # n
      BY <1>16, <1>20, <2>1, <3>2 DEF Handles, Underway
    <3> QED
      BY <3>1, <3>2
  <2> QED
    BY <2>4, <2>5, <2>6, <2>7 DEF Handles
<1>22. Told
  <2>1. Fading
    BY <1>5, <1>10, <1>13, <1>21 DEF Fading, Stays
  <2>2. NoResult(reply')
    BY NoResultOf DEF Clone
  <2> QED
    BY <2>1, <2>2, FadingTold
<1> QED
  BY <1>22, <1>15, <1>18, <1>19, <1>20 DEF Steps, Tree

(* The objects of set D are freed. *)
LEMMA TreeCut ==
    ASSUME Tree, RecordsOK', NEW D \in SUBSET Obj,
           \A p \in D : obj'[p] = Absent,
           \A p \in Obj \ D : obj'[p].alive = obj[p].alive /\ obj'[p].parent = obj[p].parent,
           \A p \in Obj \ D : obj[p].alive =>
              \A q \in Obj : q \in obj'[p].clones <=> q \in obj[p].clones /\ q \notin D
    PROVE  Tree'
<1>1. ~Absent.alive /\ Absent.parent = NoObj
  BY DEF Absent
<1>2. CloneTree'
  <2> SUFFICES ASSUME NEW p \in Obj, NEW q \in Obj, obj'[p].alive
               PROVE  q \in obj'[p].clones <=> obj'[q].alive /\ obj'[q].parent = p
    BY DEF CloneTree
  <2>1. p \notin D /\ obj[p].alive
    BY <1>1
  <2>2. q \in obj[p].clones <=> obj[q].alive /\ obj[q].parent = p
    BY <2>1 DEF Tree, CloneTree
  <2>3. CASE q \in D
    BY <1>1, <2>1, <2>3
  <2>4. CASE q \notin D
    BY <2>1, <2>2, <2>4
  <2> QED
    BY <2>3, <2>4
<1>3. Rooted'
  <2> SUFFICES ASSUME NEW p \in Obj, obj'[p].parent # NoObj, obj'[obj'[p].parent].alive
               PROVE  obj'[obj'[p].parent].parent = NoObj
    BY DEF Rooted
  <2>1. p \notin D /\ obj'[p].parent = obj[p].parent
    BY <1>1
  <2>2. obj[p].parent \in Obj
    BY <2>1, RecordsType DEF Tree, Record, Parents
  <2>3. obj[p].parent \notin D
    BY <1>1, <2>1
  <2> QED
    BY <2>1, <2>2, <2>3 DEF Tree, Rooted
<1> QED
  BY <1>2, <1>3 DEF Tree

(* From objects O and connections S, the objects of D are freed, and of     *)
(* others at most the attachment and what is open there is given up.        *)
Cut(O, S, Q, T, D) ==
    /\ \A p \in D : Q[p] = Absent
    /\ \A p \in Obj \ D :
          /\ Q[p].alive = O[p].alive /\ Q[p].parent = O[p].parent
          /\ Q[p].db \in {O[p].db, 0} /\ Q[p].trans = O[p].trans
          /\ Q[p].live => O[p].live /\ Q[p].cursor = O[p].cursor /\ Q[p].out = O[p].out
          /\ Q[p].blob = "open" => O[p].blob = "open"
          /\ Q[p].live \/ Q[p].blob = "open" => Q[p].db = O[p].db
    /\ \A c \in Conn : /\ S[c].link # "unused" => T[c].link # "unused"
                       /\ T[c].link = "open" => T[c] = S[c]

LEMMA HandlesCut ==
    ASSUME NEW O \in [Obj -> Record], NEW S, NEW Q, NEW T, NEW D \in SUBSET Obj,
           Handles(O, S), Cut(O, S, Q, T, D)
    PROVE  Handles(Q, T)
<1>1. ~Absent.alive /\ Absent.db = 0 /\ Absent.trans = 0
  BY DEF Absent
<1>2. \A p \in Obj : Up(O, p) \in Obj
  BY DEF Up, Record, Parents
<1>3. \A p \in Obj \ D : Up(Q, p) = Up(O, p)
  BY DEF Up, Cut
<1>4. \A p \in Obj, c \in Conn : Uses(Q, p, c) => p \notin D /\ Uses(O, p, c)
  BY <1>1 DEF Uses, Conn, Cut
<1>5. \A p \in Obj : Lives(Q, p) => p \notin D /\ Up(O, p) \notin D /\ Lives(O, p)
  <2> SUFFICES ASSUME NEW p \in Obj, Lives(Q, p)
               PROVE  p \notin D /\ Up(O, p) \notin D /\ Lives(O, p)
    OBVIOUS
  <2>1. p \notin D
    BY <1>1 DEF Lives, Cut
  <2>2. Up(O, p) \notin D
    BY <1>1, <1>3, <2>1 DEF Lives, Cut
  <2> QED
    BY <1>2, <1>3, <2>1, <2>2 DEF Lives, Cut
<1>6. Apart(Q)
  BY <1>3, <1>4 DEF Handles, Apart
<1>7. Made(Q, T)
  BY <1>4 DEF Handles, Made, Cut
<1>8. Kept(Q)
  <2> SUFFICES ASSUME NEW p \in Obj, Lives(Q, p)
               PROVE  /\ Q[p].live => Q[p].cursor /\ Q[p].out
                      /\ Q[p].live \/ Q[p].blob = "open"
                            => Q[p].db # 0 /\ Q[Up(Q, p)].trans = Q[p].db
    BY DEF Kept
  <2>1. p \notin D /\ Up(O, p) \in Obj \ D /\ Up(Q, p) = Up(O, p) /\ Lives(O, p)
    BY <1>2, <1>3, <1>5
  <2>2. /\ O[p].live => O[p].cursor /\ O[p].out
        /\ O[p].live \/ O[p].blob = "open" => O[p].db # 0 /\ O[Up(O, p)].trans = O[p].db
    BY <2>1 DEF Handles, Kept
  <2> QED
    BY <2>1, <2>2 DEF Cut
<1>9. Underway(Q, T)
  <2> SUFFICES ASSUME NEW p \in Obj, NEW c \in Conn, Lives(Q, p), Q[Up(Q, p)].trans = c,
                      T[c].link = "open"
               PROVE  T[c].txn = "open"
    BY DEF Underway
  <2>1. p \notin D /\ Up(O, p) \in Obj \ D /\ Up(Q, p) = Up(O, p) /\ Lives(O, p)
    BY <1>2, <1>3, <1>5
  <2> QED
    BY <2>1 DEF Handles, Underway, Cut
<1> QED
  BY <1>6, <1>7, <1>8, <1>9 DEF Handles

LEMMA CloseRootIs ==
    ASSUME FormsOK, Tree, NEW o \in Obj, Usable(o), ~IsClone(o)
    PROVE  LET w == CloseRoot(o)
               D == obj[o].clones
           IN /\ w.obj \in [Obj -> Record] /\ w.srv \in [Conn -> Server] /\ w.is \in Endings
              /\ D \in SUBSET Obj /\ o \notin D
              /\ \A p \in D : w.obj[p] = Absent /\ obj[p].parent = o
              /\ \A p \in Obj \ D : w.obj[p].alive = obj[p].alive /\ w.obj[p].parent = obj[p].parent
              /\ \A p \in Obj \ D : w.obj[p].clones = IF p = o THEN {} ELSE obj[p].clones
              /\ Handles(obj, srv) => Handles(w.obj, w.srv)
              /\ \A p \in Obj : w.obj[p].live => Stays(obj[p], w.obj[p])
<1> DEFINE D == obj[o].clones
           d == obj[o].db
           a == FreeStmt(Now, o)
           over == Undo(a, o)
           w == CloseRoot(o)
<1>1. In(Now, o) /\ Now \in State
  BY NowIn DEF In
<1>2. /\ obj \in [Obj -> Record] /\ srv \in [Conn -> Server] /\ D \in SUBSET Obj
      /\ Root(o) = o /\ obj[o].alive /\ obj[o].parent = NoObj /\ d \in Attachments
  BY RecordsType DEF FormsOK, Record, Root, IsClone, Usable
<1>3. \A p \in D : obj[p].parent = o
  BY <1>2 DEF Tree, CloneTree
<1>4. o \notin D
  BY <1>2, <1>3, ServerAssumption
<1>5. /\ Follows(Now, a, o)
      /\ a.srv = Now.srv
      /\ \A p \in Obj : p # o => a.obj[p] = Now.obj[p]
      /\ ~a.obj[o].live
      /\ a.obj[o].db = Now.obj[o].db /\ a.obj[o].trans = Now.obj[o].trans
      /\ a.obj[o].blob = Now.obj[o].blob
  BY <1>1, FreeStmtIs
<1> HIDE DEF a
<1>6. Falls(Now, a)
  <2>1. \A p \in Obj : /\ a.obj[p].db = Now.obj[p].db /\ a.obj[p].trans = Now.obj[p].trans
                       /\ a.obj[p].live => /\ Now.obj[p].live
                                           /\ a.obj[p].cursor = Now.obj[p].cursor
                                           /\ a.obj[p].out = Now.obj[p].out
                       /\ a.obj[p].blob = "open" => Now.obj[p].blob = "open"
    BY <1>5
  <2>2. \A p \in Obj : Root(p) \in Obj
    BY <1>1, InIs
  <2> QED
    BY <1>5, <2>1, <2>2, FallsSame
<1>7. In(a, o) /\ (Handles(obj, srv) => Handles(a.obj, a.srv))
  BY <1>1, <1>5, <1>6, HandlesFall, InStays DEF Now
<1>8. /\ Follows(a, over, o) /\ (Apart(a.obj) => Falls(a, over)) /\ Trans(over, o) = 0
  BY <1>7, UndoIs
<1> HIDE DEF over
<1>9. In(over, o) /\ (Handles(obj, srv) => Handles(over.obj, over.srv))
  BY <1>7, <1>8, HandlesFall, InStays DEF Handles
<1>10. over \in State /\ \A p \in Obj : Alike(obj[p], over.obj[p])
  BY <1>9 DEF In
<1>11. PICK r \in Record : r = over.obj[o]
  BY <1>10 DEF State
<1>12. PICK f \in BOOLEAN : f = FALSE
  OBVIOUS
<1> DEFINE x == [r EXCEPT !.clones = {}, !.db = 0, !.database = f]
<1>13. /\ x \in Record /\ x.alive = r.alive /\ x.parent = r.parent /\ x.clones = {} /\ x.db = 0
       /\ x.trans = r.trans /\ x.live = r.live /\ x.blob = r.blob
  <2>1. {} \in SUBSET Obj /\ 0 \in Attachments
    BY DEF Attachments
  <2> QED
    BY <2>1 DEF Record
<1>14. /\ w.obj = [p \in Obj |-> IF p \in D THEN Absent ELSE IF p = o THEN x ELSE over.obj[p]]
       /\ w.srv = IF d = 0 THEN over.srv ELSE [over.srv EXCEPT ![d] = HungUp(@)]
       /\ w.is \in {"ok", "failed"}
  BY <1>11, <1>12 DEF CloseRoot, over, a
<1> HIDE DEF x, w
<1>15. \A p \in Obj : w.obj[p] = IF p \in D THEN Absent ELSE IF p = o THEN x ELSE over.obj[p]
  BY <1>14
<1>16. w.obj \in [Obj -> Record]
  <2>1. Absent \in Record
    BY FreshType DEF Garbage
  <2> QED
    BY <1>10, <1>13, <1>14, <2>1 DEF State
<1>17. /\ w.srv \in [Conn -> Server]
       /\ \A c \in Conn : /\ over.srv[c].link # "unused" => w.srv[c].link # "unused"
                          /\ w.srv[c].link = "open" => w.srv[c] = over.srv[c]
  <2>1. CASE d = 0
    BY <1>10, <1>14, <2>1 DEF State
  <2>2. CASE d # 0
    <3>1. d \in Conn /\ over.srv[d] \in Server /\ over.srv \in [Conn -> Server]
      BY <1>2, <1>10, <2>2 DEF Attachments, State
    <3>2. HungUp(over.srv[d]) \in Server /\ HungUp(over.srv[d]).link = "closed"
      BY <3>1, ServerSteps
    <3> QED
      BY <1>14, <2>2, <3>1, <3>2
  <2> QED
    BY <2>1, <2>2
<1>18. \A p \in Obj \ D : /\ w.obj[p].alive = obj[p].alive /\ w.obj[p].parent = obj[p].parent
                          /\ w.obj[p].clones = IF p = o THEN {} ELSE obj[p].clones
  BY <1>10, <1>11, <1>13, <1>15 DEF Alike
<1>22. ~r.live
  BY <1>5, <1>8, <1>11 DEF Follows, Lowered
<1>23. \A p \in Obj : w.obj[p].live => Stays(obj[p], w.obj[p])
  <2>1. \A p \in Obj : over.obj[p].live => Stays(obj[p], over.obj[p])
    BY <1>5, <1>8 DEF Follows, Lowered, Stays, Now
  <2>2. ~Absent.live /\ ~x.live
    BY <1>13, <1>22 DEF Absent
  <2> QED
    BY <1>15, <2>1, <2>2
<1>19. ASSUME Handles(obj, srv) PROVE Handles(w.obj, w.srv)
  <2>1. Handles(over.obj, over.srv)
    BY <1>9, <1>19
  <2>2. ~r.live
    BY <1>22
  <2>3. r.blob # "open"
    <3>1. Lives(over.obj, o) /\ Up(over.obj, o) = o
      BY <1>2, <1>10 DEF Lives, Up, Alike
    <3>2. over.obj[o].trans = 0
      BY <1>2, <1>8 DEF Trans
    <3> QED
      BY <1>11, <2>1, <3>1, <3>2 DEF Handles, Kept
  <2>4. \A p \in Obj \ D :
           /\ w.obj[p].alive = over.obj[p].alive /\ w.obj[p].parent = over.obj[p].parent
           /\ w.obj[p].db \in {over.obj[p].db, 0} /\ w.obj[p].trans = over.obj[p].trans
           /\ w.obj[p].live => over.obj[p].live /\ w.obj[p].cursor = over.obj[p].cursor
                               /\ w.obj[p].out = over.obj[p].out
           /\ w.obj[p].blob = "open" => over.obj[p].blob = "open"
           /\ w.obj[p].live \/ w.obj[p].blob = "open" => w.obj[p].db = over.obj[p].db
    BY <1>11, <1>13, <1>15, <2>2, <2>3
  <2>5. over.obj \in [Obj -> Record] /\ \A p \in D : w.obj[p] = Absent
    BY <1>2, <1>10, <1>15 DEF State
  <2>6. Cut(over.obj, over.srv, w.obj, w.srv, D)
    BY <1>17, <2>4, <2>5 DEF Cut
  <2> HIDE DEF D
  <2> QED
    BY <1>2, <2>1, <2>5, <2>6, HandlesCut
<1>20. \A p \in D : w.obj[p] = Absent
  BY <1>2, <1>15
<1>21. w.is \in Endings
  BY <1>14 DEF Endings
<1> QED
  BY <1>23, <1>2, <1>3, <1>4, <1>16, <1>17, <1>18, <1>19, <1>20, <1>21 DEF w

LEMMA DestroyCloneIs ==
    ASSUME FormsOK, Tree, NEW o \in Obj, Usable(o), IsClone(o)
    PROVE  LET w == DestroyClone(o)
           IN /\ w.obj \in [Obj -> Record] /\ w.srv = srv /\ w.is = "ok"
              /\ w.obj[o] = Absent
              /\ \A p \in Obj \ {o} :
                    /\ w.obj[p].alive = obj[p].alive /\ w.obj[p].parent = obj[p].parent
                    /\ \A q \in Obj : q \in w.obj[p].clones <=>
                          q \in obj[p].clones /\ ~(p = Root(o) /\ q = o)
              /\ Cut(obj, srv, w.obj, w.srv, {o})
              /\ \A p \in Obj : w.obj[p].live => Stays(obj[p], w.obj[p])
<1> DEFINE R == Root(o)
           w == DestroyClone(o)
<1>1. /\ obj \in [Obj -> Record] /\ R \in Obj /\ R # o
  <2>1. obj \in [Obj -> Record] /\ Root(o) \in Obj /\ Root(Root(o)) = Root(o) /\ obj[Root(o)].alive
    BY RecordsType, FamilyIs DEF FormsOK, Usable
  <2>2. obj[o].parent = Root(o)
    BY DEF Root, IsClone
  <2>3. Root(o) = o => obj[o].parent = NoObj
    BY <2>1, <2>2 DEF Tree, Rooted
  <2> QED
    BY <2>1, <2>3 DEF IsClone
<1>2. PICK s \in Record : s = obj[R]
  BY <1>1
<1>3. PICK a \in Record : a = Absent
  BY FreshType DEF Garbage
<1> DEFINE x == [s EXCEPT !.clones = @ \ {o}]
<1>4. /\ x \in Record /\ x.clones = s.clones \ {o} /\ x.alive = s.alive /\ x.parent = s.parent
      /\ x.db = s.db /\ x.trans = s.trans /\ x.live = s.live /\ x.blob = s.blob
      /\ x.cursor = s.cursor /\ x.out = s.out
  BY DEF Record
<1>11. (Stays(s, x) \/ ~x.live) /\ ~a.live
  BY <1>3 DEF Record, Stays, Absent
<1>5. w = [Now EXCEPT !.obj[R] = x, !.obj[o] = a]
  BY <1>1, <1>2, <1>3 DEF DestroyClone, Now
<1>6. /\ w.obj = [obj EXCEPT ![R] = x, ![o] = a] /\ w.srv = srv /\ w.is = "ok"
  BY <1>5 DEF Now
<1> HIDE DEF x, w, R
<1>7. /\ w.obj \in [Obj -> Record] /\ w.obj[o] = a /\ w.obj[R] = x
      /\ \A p \in Obj : p # o /\ p # R => w.obj[p] = obj[p]
  BY <1>1, <1>4, <1>6
<1>8. \A p \in Obj \ {o} :
         /\ w.obj[p].alive = obj[p].alive /\ w.obj[p].parent = obj[p].parent
         /\ \A q \in Obj : q \in w.obj[p].clones <=> q \in obj[p].clones /\ ~(p = R /\ q = o)
  BY <1>2, <1>4, <1>7
<1>9. \A p \in Obj \ {o} :
         /\ w.obj[p].db = obj[p].db /\ w.obj[p].trans = obj[p].trans
         /\ w.obj[p].live = obj[p].live /\ w.obj[p].blob = obj[p].blob
         /\ w.obj[p].cursor = obj[p].cursor /\ w.obj[p].out = obj[p].out
  BY <1>2, <1>4, <1>7
<1>10. Cut(obj, srv, w.obj, w.srv, {o})
  BY <1>3, <1>6, <1>7, <1>8, <1>9 DEF Cut
<1>12. \A p \in Obj : w.obj[p].live => Stays(obj[p], w.obj[p])
  BY <1>2, <1>7, <1>11 DEF Stays
<1> QED
  BY <1>12, <1>3, <1>6, <1>7, <1>8, <1>10 DEF w, R

LEMMA CutSteps ==
    ASSUME FormsOK, Tree, obj' \in [Obj -> Record], srv' \in [Conn -> Server],
           reply' \in Replies, NEW D \in SUBSET Obj,
           \A p \in D : obj'[p] = Absent,
           \A p \in Obj \ D : obj'[p].alive = obj[p].alive /\ obj'[p].parent = obj[p].parent,
           \A p \in Obj \ D : obj[p].alive =>
              \A q \in Obj : q \in obj'[p].clones <=> q \in obj[p].clones /\ q \notin D,
           Handles(obj, srv) => Handles(obj', srv')
    PROVE  Steps
<1>1. FormsOK' /\ RecordsOK'
  BY FormsSteps
<1>2. Tree'
  BY <1>1, TreeCut
<1> QED
  BY <1>1, <1>2 DEF Steps

(* A clone is freed, its parent lists it no more. *)
LEMMA CloneGoneSteps ==
    ASSUME FormsOK, Tree, NEW o \in Obj, Usable(o), IsClone(o),
           obj' = DestroyClone(o).obj, srv' = DestroyClone(o).srv, reply' \in Replies
    PROVE  Steps /\ Fading
<1>1. /\ obj' \in [Obj -> Record] /\ srv' = srv /\ obj'[o] = Absent
      /\ \A p \in Obj \ {o} :
            /\ obj'[p].alive = obj[p].alive /\ obj'[p].parent = obj[p].parent
            /\ \A q \in Obj : q \in obj'[p].clones <=>
                  q \in obj[p].clones /\ ~(p = Root(o) /\ q = o)
      /\ Cut(obj, srv, obj', srv', {o})
      /\ \A p \in Obj : obj'[p].live => Stays(obj[p], obj'[p])
  <2> DEFINE w == DestroyClone(o)
  <2>1. /\ w.obj \in [Obj -> Record] /\ w.srv = srv /\ w.obj[o] = Absent
        /\ \A p \in Obj \ {o} :
              /\ w.obj[p].alive = obj[p].alive /\ w.obj[p].parent = obj[p].parent
              /\ \A q \in Obj : q \in w.obj[p].clones <=>
                    q \in obj[p].clones /\ ~(p = Root(o) /\ q = o)
        /\ Cut(obj, srv, w.obj, w.srv, {o})
        /\ \A p \in Obj : w.obj[p].live => Stays(obj[p], w.obj[p])
    BY DestroyCloneIs
  <2>2. obj' = w.obj /\ srv' = w.srv
    OBVIOUS
  <2> HIDE DEF w
  <2> QED
    BY <2>1, <2>2
<1>2. obj \in [Obj -> Record] /\ srv \in [Conn -> Server]
  BY RecordsType DEF FormsOK
<1>3. \A p \in Obj : obj[p].alive /\ o \in obj[p].clones => p = Root(o)
  BY DEF Tree, CloneTree, Root, IsClone
<1>4. \A p \in Obj \ {o} : obj[p].alive =>
         \A q \in Obj : q \in obj'[p].clones <=> q \in obj[p].clones /\ q \notin {o}
  BY <1>1, <1>3
<1>5. Handles(obj, srv) => Handles(obj', srv')
  <2> DEFINE D == {o}
             Q == obj'
  <2>1. D \in SUBSET Obj /\ Cut(obj, srv, Q, srv', D)
    BY <1>1
  <2> HIDE DEF D, Q
  <2>2. Handles(obj, srv) => Handles(Q, srv')
    BY <1>2, <2>1, HandlesCut
  <2> QED
    BY <2>2 DEF Q
<1>6. Fading
  BY <1>1 DEF Fading
<1> QED
  BY <1>1, <1>2, <1>4, <1>5, <1>6, CutSteps

(* A root is closed, and so are its clones. *)
LEMMA RootClosedSteps ==
    ASSUME FormsOK, Tree, NEW o \in Obj, Usable(o), ~IsClone(o),
           obj' = CloseRoot(o).obj, srv' = CloseRoot(o).srv, reply' \in Replies
    PROVE  Steps /\ Fading
<1> DEFINE D == obj[o].clones
<1>1. /\ obj' \in [Obj -> Record] /\ srv' \in [Conn -> Server]
      /\ D \in SUBSET Obj /\ o \notin D
      /\ \A p \in D : obj'[p] = Absent /\ obj[p].parent = o
      /\ \A p \in Obj \ D : obj'[p].alive = obj[p].alive /\ obj'[p].parent = obj[p].parent
      /\ \A p \in Obj \ D : obj'[p].clones = IF p = o THEN {} ELSE obj[p].clones
      /\ Handles(obj, srv) => Handles(obj', srv')
      /\ \A p \in Obj : obj'[p].live => Stays(obj[p], obj'[p])
  BY CloseRootIs
<1>2. \A p \in Obj \ D : obj[p].alive =>
         \A q \in Obj : q \in obj'[p].clones <=> q \in obj[p].clones /\ q \notin D
  <2> SUFFICES ASSUME NEW p \in Obj \ D, obj[p].alive, NEW q \in Obj
               PROVE  q \in obj'[p].clones <=> q \in obj[p].clones /\ q \notin D
    OBVIOUS
  <2>1. CASE p = o
    BY <1>1, <2>1
  <2>2. CASE p # o
    BY <1>1, <2>2 DEF Tree, CloneTree
  <2> QED
    BY <2>1, <2>2
<1> HIDE DEF D
<1>3. Fading
  BY <1>1 DEF Fading
<1> QED
  BY <1>1, <1>2, <1>3, CutSteps

LEMMA CloseSteps == ASSUME FormsOK, Tree, NEW o \in Obj, Close(o) PROVE Steps /\ Told
<1>1. Usable(o) /\ o \in Parents
  BY DEF Close, Opened, Parents
<1>2. CASE IsClone(o)
  <2>1. DestroyClone(o).is = "ok" /\ Ends(DestroyClone(o), Answer(o, "close", DestroyClone(o).is))
    BY <1>1, <1>2, DestroyCloneIs DEF Close
  <2>2. reply' \in Replies
    BY <1>1, <2>1, AnswerType DEF Ends, Methods, Endings
  <2>3. NoResult(reply')
    BY <2>1, NoResultOf DEF Ends
  <2> QED
    BY <1>1, <1>2, <2>1, <2>2, <2>3, CloneGoneSteps, FadingTold DEF Ends
<1>3. CASE ~IsClone(o)
  <2>1. CloseRoot(o).is \in Endings /\ Ends(CloseRoot(o), Answer(o, "close", CloseRoot(o).is))
    BY <1>1, <1>3, CloseRootIs DEF Close
  <2>2. reply' \in Replies
    BY <1>1, <2>1, AnswerType DEF Ends, Methods
  <2>3. NoResult(reply')
    BY <2>1, NoResultOf DEF Ends
  <2> QED
    BY <1>1, <1>3, <2>1, <2>2, <2>3, RootClosedSteps, FadingTold DEF Ends
<1> QED
  BY <1>2, <1>3

LEMMA DropSteps == ASSUME FormsOK, Tree, NEW o \in Obj, Drop(o) PROVE Steps /\ Told
<1>1. Opened(o) /\ Usable(o) /\ In(Now, o) /\ o \in Parents
  BY NowIn DEF Drop, Opened, Parents
<1>2. Answer(o, "drop", "refused") \in Replies /\ Answer(o, "drop", "ok") \in Replies
      /\ Answer(o, "drop", "failed") \in Replies
  BY <1>1, AnswerType DEF Methods, Endings
<1>6. \A e : NoResult(Answer(o, "drop", e))
  BY NoResultOf
<1>3. CASE IsClone(o)
  <2>1. Ends(Now, Answer(o, "drop", "refused"))
    BY <1>3 DEF Drop
  <2> QED
    BY <1>1, <1>2, <1>6, <2>1, NothingSteps
<1>4. CASE ~IsClone(o) /\ Ends(CloseRoot(o), Answer(o, "drop", "ok"))
  BY <1>1, <1>2, <1>4, <1>6, RootClosedSteps, FadingTold DEF Ends
<1>5. ASSUME NEW c \in AttachesAgain(o),
             Ends(Error(Now, o, IsLost(Now, obj[o].db), c), Answer(o, "drop", "failed"))
      PROVE  Steps /\ Told
  <2> DEFINE lost == IsLost(Now, obj[o].db)
  <2>1. lost \in BOOLEAN /\ (lost => CallLost(Now, o))
    BY DEF IsLost, CallLost, Now
  <2> HIDE DEF lost
  <2>2. Ended(Error(Now, o, lost, c), o, c) /\ Wanes(Error(Now, o, lost, c), o)
    BY <1>1, <2>1, NowGoing, AttachesAgainIs, ErrorEnded
  <2>3. Ends(Error(Now, o, lost, c), Answer(o, "drop", "failed"))
    BY <1>5 DEF lost
  <2> QED
    BY <1>1, <1>2, <1>6, <2>2, <2>3, MethodDone
<1> QED
  BY <1>3, <1>4, <1>5 DEF Drop

LEMMA DestroySteps == ASSUME FormsOK, Tree, NEW o \in Obj, Destroy(o) PROVE Steps /\ Told
<1>1. Usable(o) /\ o \in Parents
  BY DEF Destroy, Parents
<1>2. reply' \in Replies
  BY <1>1, AnswerType DEF Destroy, Ends, Methods, Endings
<1>3. obj \in [Obj -> Record] /\ srv \in [Conn -> Server]
  BY RecordsType DEF FormsOK
<1>4. PICK a \in Record : a = Absent
  BY FreshType DEF Garbage
<1>8. NoResult(reply')
  BY NoResultOf DEF Destroy, Ends
<1>9. ~Absent.live
  BY DEF Absent
<1>5. CASE IsClone(o)
  <2> DEFINE w == DestroyClone(o)
  <2>1. obj' = [w.obj EXCEPT ![o] = Absent] /\ srv' = w.srv
    BY <1>5 DEF Destroy, Ends
  <2>2. w.obj \in [Obj -> Record] /\ w.obj[o] = Absent
    BY <1>1, <1>5, DestroyCloneIs
  <2> HIDE DEF w
  <2>3. obj' = w.obj
    BY <2>1, <2>2
  <2> QED
    BY <1>1, <1>2, <1>5, <1>8, <2>1, <2>3, CloneGoneSteps, FadingTold DEF w
<1>6. CASE ~IsClone(o) /\ obj[o].database
  <2> DEFINE w == CloseRoot(o)
             C == obj[o].clones
             D == C \cup {o}
  <2>1. /\ w.obj \in [Obj -> Record] /\ w.srv \in [Conn -> Server]
        /\ C \in SUBSET Obj /\ o \notin C
        /\ \A p \in C : w.obj[p] = Absent /\ obj[p].parent = o
        /\ \A p \in Obj \ C : w.obj[p].alive = obj[p].alive /\ w.obj[p].parent = obj[p].parent
        /\ \A p \in Obj \ C : w.obj[p].clones = IF p = o THEN {} ELSE obj[p].clones
        /\ Handles(obj, srv) => Handles(w.obj, w.srv)
        /\ \A p \in Obj : w.obj[p].live => Stays(obj[p], w.obj[p])
    BY <1>1, <1>6, CloseRootIs
  <2>2. obj' = [w.obj EXCEPT ![o] = Absent] /\ srv' = w.srv
    BY <1>6 DEF Destroy, Ends
  <2> HIDE DEF w
  <2>3. /\ obj' \in [Obj -> Record] /\ obj'[o] = Absent
        /\ \A p \in Obj : p # o => obj'[p] = w.obj[p]
    BY <1>4, <2>1, <2>2
  <2>4. D \in SUBSET Obj /\ \A p \in D : obj'[p] = Absent
    BY <2>1, <2>3
  <2>5. \A p \in Obj \ D : /\ obj'[p].alive = obj[p].alive /\ obj'[p].parent = obj[p].parent
                           /\ obj'[p].clones = obj[p].clones
    BY <2>1, <2>3
  <2>6. \A p \in Obj \ D : obj[p].alive =>
           \A q \in Obj : q \in obj'[p].clones <=> q \in obj[p].clones /\ q \notin D
    <3>1. obj[o].parent = NoObj
      BY <1>6 DEF IsClone
    <3>2. \A p \in Obj \ D : p # NoObj
      BY ServerAssumption
    <3> QED
      BY <2>1, <2>5, <3>1, <3>2 DEF Tree, CloneTree
  <2>7. ASSUME Handles(obj, srv) PROVE Handles(obj', srv')
    <3> DEFINE E == {o}
               O == w.obj
               S == w.srv
               Q == obj'
    <3>1. Cut(O, S, Q, srv', E)
      BY <2>2, <2>3 DEF Cut
    <3>2. O \in [Obj -> Record] /\ E \in SUBSET Obj /\ Handles(O, S)
      BY <2>1, <2>7
    <3> HIDE DEF E, O, S, Q
    <3>3. Handles(Q, srv')
      BY <3>1, <3>2, HandlesCut
    <3> QED
      BY <3>3 DEF Q
  <2>8. srv' \in [Conn -> Server]
    BY <2>1, <2>2
  <2>9. Fading
    BY <1>9, <2>1, <2>3 DEF Fading
  <2> HIDE DEF D
  <2> QED
    BY <1>2, <1>8, <2>3, <2>4, <2>5, <2>6, <2>7, <2>8, <2>9, CutSteps, FadingTold
<1>7. CASE ~IsClone(o) /\ ~obj[o].database
  <2> DEFINE D == {o}
             Q == obj'
  <2>1. obj' = [obj EXCEPT ![o] = Absent] /\ srv' = srv
    BY <1>7 DEF Destroy, Ends, Now
  <2>2. /\ obj' \in [Obj -> Record] /\ obj'[o] = Absent
        /\ \A p \in Obj : p # o => obj'[p] = obj[p]
    BY <1>3, <1>4, <2>1
  <2>3. \A p \in Obj \ D : obj[p].alive =>
           \A q \in Obj : q \in obj'[p].clones <=> q \in obj[p].clones /\ q \notin D
    <3>1. obj[o].parent = NoObj
      BY <1>7 DEF IsClone
    <3>2. \A p \in Obj \ D : p # NoObj
      BY ServerAssumption
    <3> QED
      BY <2>2, <3>1, <3>2 DEF Tree, CloneTree
  <2>4. /\ \A p \in D : obj'[p] = Absent
        /\ \A p \in Obj \ D : obj'[p].alive = obj[p].alive /\ obj'[p].parent = obj[p].parent
        /\ D \in SUBSET Obj
    BY <2>2
  <2>5. Cut(obj, srv, Q, srv', D)
    BY <2>1, <2>2 DEF Cut
  <2> HIDE DEF D, Q
  <2>6. Handles(obj, srv) => Handles(Q, srv')
    BY <1>3, <2>4, <2>5, HandlesCut
  <2>7. Handles(obj, srv) => Handles(obj', srv')
    BY <2>6 DEF Q
  <2>8. Fading
    BY <1>9, <2>2 DEF Fading, Stays
  <2> QED
    BY <1>2, <1>3, <1>8, <2>1, <2>2, <2>3, <2>4, <2>7, <2>8, CutSteps, FadingTold
<1> QED
  BY <1>5, <1>6, <1>7

-----------------------------------------------------------------------------------
(* The theorems *)

LEMMA NextSteps == ASSUME FormsOK, Tree, Next PROVE Steps /\ Told
<1>1. ASSUME NEW o \in Obj, NEW t \in Texts, NEW fetch \in {Selects(t), FALSE},
             Exec(o, t, fetch)
      PROVE  Steps /\ Told
  <2>1. fetch \in BOOLEAN
    BY DEF Selects
  <2> QED
    BY <1>1, <2>1, ExecSteps
<1>13. ASSUME NEW o \in Obj, NEW t \in Texts, NEW refused, NEW again,
              ExecViolates(o, t, refused, again)
       PROVE  Steps /\ Told
  BY <1>13, ExecViolatesSteps
<1>2. ASSUME NEW o \in Obj, NEW command, NEW refused \in BOOLEAN,
             ExecTransaction(o, command, refused)
      PROVE  Steps /\ Told
  BY <1>2, ExecTransactionSteps
<1>3. ASSUME NEW o \in Obj, NEW q \in -2 .. MaxLines, Fetch(o, q) \/ IbFetch(o, q) PROVE Steps /\ Told
  BY <1>3, FetchSteps
<1>4. ASSUME NEW o \in Obj, NEW refused \in BOOLEAN, Begin(o, refused) \/ Commit(o, refused)
      PROVE  Steps /\ Told
  BY <1>4, UserSteps
<1>5. ASSUME NEW o \in Obj, Rollback(o) PROVE Steps /\ Told
  BY <1>5, UserSteps
<1>6. ASSUME NEW o \in Obj, NEW found \in BOOLEAN, BlobOpen(o, found) PROVE Steps /\ Told
  BY <1>6, BlobSteps
<1>7. ASSUME NEW o \in Obj, BlobGet(o) \/ BlobClose(o) PROVE Steps /\ Told
  BY <1>7, BlobSteps
<1>8. ASSUME NEW o \in Obj, New(o) \/ Open(o) \/ Close(o) \/ Destroy(o) \/ Drop(o) PROVE Steps /\ Told
  BY <1>8, NewSteps, OpenSteps, CloseSteps, DestroySteps, DropSteps
<1>9. ASSUME NEW o \in Obj, NEW n \in Obj, Clone(o, n) PROVE Steps /\ Told
  BY <1>9, CloneSteps
<1>10. ASSUME NEW c \in Conn, ConnectionLost(c) PROVE Steps /\ Told
  BY <1>10, ConnectionLostSteps
<1>11. CASE FirebirdNext
  BY <1>1, <1>2, <1>3, <1>4, <1>5, <1>6, <1>7, <1>8, <1>9, <1>10, <1>11, <1>13
     DEF FirebirdNext
<1>12. CASE InterbaseNext
  BY <1>1, <1>2, <1>3, <1>4, <1>5, <1>6, <1>7, <1>8, <1>9, <1>10, <1>12, <1>13
     DEF InterbaseNext, IbNew, IbOpen, IbClose, IbDestroy, IbDrop, IbClone, IbExec, IbExecViolates,
         IbExecTransaction, IbBegin, IbCommit, IbRollback, IbBlobOpen, IbBlobGet, IbBlobClose
<1> QED
  BY <1>11, <1>12 DEF Next

LEMMA StutterSteps == ASSUME FormsOK, Tree, UNCHANGED vars PROVE Steps
<1>1. obj' = obj /\ srv' = srv /\ reply' = reply
  BY DEF vars
<1>2. obj' \in [Obj -> Record] /\ srv' \in [Conn -> Server] /\ reply' \in Replies
  BY <1>1, RecordsType DEF FormsOK
<1>3. FormsOK' /\ RecordsOK'
  BY <1>2, FormsSteps
<1>4. Tree'
  BY <1>1, <1>3, TreeStays DEF Alike
<1> QED
  BY <1>1, <1>3, <1>4 DEF Steps

LEMMA StutterTold == ASSUME Shown, UNCHANGED vars PROVE Shown' /\ UNCHANGED DbiFetch!vars
<1>1. obj' = obj /\ reply' = reply
  BY DEF vars
<1>2. Shown'
  BY <1>1 DEF Shown, Shows
<1>3. UNCHANGED DbiFetch!vars
  BY <1>1 DEF DbiFetch!vars
<1> QED
  BY <1>2, <1>3

LEMMA InitTold == ASSUME Init PROVE Shown /\ DbiFetch!Init
<1>1. Absent \in Record /\ ~Absent.live /\ Absent.len = 0 /\ Absent.tuple = -1
  <2>1. Absent \in Record
    BY FreshType DEF Garbage
  <2> QED
    BY <2>1 DEF Absent
<1>2. \A p \in Obj : ~obj[p].live /\ obj[p].len = 0 /\ obj[p].tuple + 1 = 0
  <2>1. \A p \in Obj : obj[p] = Absent
    BY DEF Init
  <2> QED
    BY <1>1, <2>1
<1>3. reply.is = "none"
  BY DEF Init, NoReply
<1>4. Shown
  BY <1>2 DEF Shown, Shows
<1> QED
  BY <1>2, <1>3, <1>4 DEF DbiFetch!Init

LEMMA InitHolds == ASSUME Init PROVE TypeOK /\ Tree /\ Handles(obj, srv)
<1>1. /\ Absent \in Record /\ ~Absent.alive /\ Absent.clones = {} /\ Absent.parent = NoObj
      /\ Absent.db = 0 /\ Absent.trans = 0
  <2>1. Absent \in Record
    BY FreshType DEF Garbage
  <2> QED
    BY <2>1 DEF Absent
<1>2. obj \in [Obj -> Record] /\ \A p \in Obj : obj[p] = Absent
  BY <1>1 DEF Init
<1>3. RecordsOK
  BY <1>2, RecordsType
<1>4. Silent \in Server
  BY DEF Silent, Server, Links
<1>5. srv \in [Conn -> Server]
  BY <1>4 DEF Init
<1>6. NoReply \in Replies
  <2>1. /\ 0 \in Lengths /\ 0 \in -2 .. MaxLines /\ 0 \in Results /\ NoObj \in Parents
        /\ {} \in SUBSET Work /\ "none" \in Methods /\ "none" \in Endings
    BY BoundsIs DEF Lengths, Results, Parents, Methods, Endings
  <2> QED
    BY <2>1 DEF Replies, NoReply
<1>7. TypeOK
  BY <1>3, <1>5, <1>6, FormsType DEF Init, FormsOK
<1>8. Tree
  BY <1>1, <1>2, <1>3 DEF Tree, CloneTree, Rooted
<1>9. Handles(obj, srv)
  BY <1>1, <1>2 DEF Handles, Apart, Made, Kept, Underway, Uses, Lives, Conn
<1> QED
  BY <1>7, <1>8, <1>9

LEMMA FamilyInductive ==
    ASSUME TypeOK, Tree, [Next]_vars
    PROVE  /\ TypeOK' /\ Tree'
           /\ Handles(obj, srv) /\ ParentsAttached /\ ParentsAttached' => Handles(obj', srv')
<1>1. FormsOK /\ kind \in {"firebird", "interbase"} /\ kind' = kind
  BY FormsType DEF Next, vars
<1>2. Steps
  BY <1>1, NextSteps, StutterSteps
<1>3. TypeOK'
  <2>1. FormsOK'
    BY <1>2 DEF Steps
  <2> QED
    BY <1>1, <2>1 DEF TypeOK, FormsOK, Server, Links, Replies, Parents, Lengths, Results
<1> QED
  BY <1>2, <1>3 DEF Steps

(* What the handles say is what HandlesKnown asks for. *)
LEMMA HandlesSay == ASSUME TypeOK, Tree, Handles(obj, srv) PROVE HandlesKnown
<1> SUFFICES ASSUME NEW o \in Obj, Usable(o)
             PROVE  /\ obj[o].live => obj[o].cursor /\ obj[o].out
                    /\ \/ obj[o].live
                       \/ obj[o].blob = "open" /\ srv[obj[o].db].link = "open"
                       => obj[Root(o)].trans = obj[o].db
                    /\ \A c \in Conn : obj[Root(o)].trans = c /\ srv[c].link = "open"
                          => srv[c].txn = "open"
  BY DEF HandlesKnown
<1>1. Lives(obj, o) /\ Up(obj, o) = Root(o)
  BY DEF Lives, Up, Usable, Root, IsClone
<1> QED
  BY <1>1 DEF Handles, Kept, Underway

(* Whatever the methods of both drivers do, with every outcome of the       *)
(* server and every loss of a connection, the records, the connections and  *)
(* the answers keep their forms: the current line (tuple) and the last one  *)
(* known (ntuples) of dbi_Firebird_Fetch stay lines that a result can have, *)
(* though tuple starts uninitialized, and so does the line it gives         *)
(* (firebird.c:1016-1223).                                                  *)
THEOREM FirebirdTypes == Spec => []TypeOK
<1>1. Init => TypeOK /\ Tree
  BY InitHolds
<1>2. TypeOK /\ Tree /\ [Next]_vars => TypeOK' /\ Tree'
  BY FamilyInductive
<1> QED
  BY <1>1, <1>2, PTL DEF Spec

(* The clones that a living object lists are the living objects whose       *)
(* parent it is, through clone, close and destroy in any order              *)
(* (Dbi_firebird_Clone, dbi_Firebird_Close, dbi_Firebird_Destroy).          *)
THEOREM FirebirdTree == Spec => []CloneTree
<1>1. Init => TypeOK /\ Tree
  BY InitHolds
<1>2. TypeOK /\ Tree /\ [Next]_vars => TypeOK' /\ Tree'
  BY FamilyInductive
<1>3. Tree => CloneTree
  BY DEF Tree
<1> QED
  BY <1>1, <1>2, <1>3, PTL DEF Spec

(* As long as every parent is attached, the flags and the handles that      *)
(* dbi_Firebird_Transaction_Commit looks at never say less than what is     *)
(* open on the server, whatever object of the family works, ends the        *)
(* transaction, or attaches again.                                          *)
THEOREM FirebirdHandles == RecordedSpec => []HandlesKept
<1> DEFINE H == Handles(obj, srv)
           I == attached \in BOOLEAN /\ TypeOK /\ Tree /\ (attached => ParentsAttached /\ H)
<1>1. RecordedInit => I
  <2>1. Init => ParentsAttached
    BY DEF Init, ParentsAttached, Absent
  <2> QED
    BY <2>1, InitHolds DEF RecordedInit
<1>2. I /\ [RecordedNext]_<<vars, attached>> => I'
  <2>1. attached \in BOOLEAN /\ [RecordedNext]_<<vars, attached>>
           => /\ [Next]_vars /\ attached' \in BOOLEAN
              /\ attached' => attached /\ (ParentsAttached' \/ UNCHANGED obj)
    <3>1. CASE RecordedNext
      BY <3>1 DEF RecordedNext, ParentsAttached
    <3>2. CASE UNCHANGED <<vars, attached>>
      BY <3>2 DEF vars
    <3> QED
      BY <3>1, <3>2
  <2>2. TypeOK /\ Tree /\ [Next]_vars => TypeOK' /\ Tree'
    BY FamilyInductive
  <2>3. TypeOK /\ Tree /\ H /\ [Next]_vars /\ ParentsAttached /\ ParentsAttached' => H'
    BY FamilyInductive
  <2>4. ParentsAttached /\ UNCHANGED obj => ParentsAttached'
    BY DEF ParentsAttached
  <2> HIDE DEF H
  <2> QED
    BY <2>1, <2>2, <2>3, <2>4
<1>3. I => HandlesKept
  BY HandlesSay DEF HandlesKept
<1> HIDE DEF I
<1> QED
  BY <1>1, <1>2, <1>3, PTL DEF RecordedSpec

(* In both drivers, for all parameters: what exec and fetch tell their      *)
(* caller implements the fetch of the manual.  A line is one of the result  *)
(* of the object's last exec -usefetch, the one asked for or the next, none *)
(* is given twice to one who asks for the next, and fetch refuses only what *)
(* the result does not have, although dbi_Firebird_Fetch works it out from  *)
(* tuple and ntuples, and a clone, a close or a lost connection may end the *)
(* cursor in between (firebird.c:1016-1223).                                *)
THEOREM FirebirdFetch == Spec => ImplementsFetch
<1> DEFINE I == TypeOK /\ Tree /\ Shown
<1>1. Init => I /\ DbiFetch!Init
  BY InitHolds, InitTold
<1>2. I /\ [Next]_vars => I' /\ [DbiFetch!Next]_(DbiFetch!vars)
  <2> SUFFICES ASSUME I, [Next]_vars PROVE I' /\ [DbiFetch!Next]_(DbiFetch!vars)
    OBVIOUS
  <2>1. TypeOK' /\ Tree'
    BY FamilyInductive
  <2>2. CASE Next
    <3>1. FormsOK
      BY FormsType
    <3>2. Told
      BY <2>2, <3>1, NextSteps
    <3> QED
      BY <2>1, <3>2 DEF Told
  <2>3. CASE UNCHANGED vars
    BY <2>1, <2>3, StutterTold
  <2> QED
    BY <2>2, <2>3
<1> HIDE DEF I
<1> QED
  BY <1>1, <1>2, PTL DEF Spec, ImplementsFetch, DbiFetch!Spec
=================================================================================
