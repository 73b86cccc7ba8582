--------------------------- MODULE MCSqlite3Session ---------------------------
(* Instances of Sqlite3Session for TLC. *)
EXTENDS Sqlite3Session, TLC

(* Objects are interchangeable: no definition prefers one of them.  Only the *)
(* runs of invariants and action properties use this.                        *)
ObjSymmetry == Permutations(Obj)

(* Three objects on one connection, or two objects on two connections: the  *)
(* hazards of clones need three names (a root, its clones, one replaced),   *)
(* those of reopening and of replacing an owner need two connections.       *)
InScope ==
    \/ Cardinality({o \in Obj : obj[o].alive}) <= 2
    \/ Cardinality({c \in Conn : con[c].link # "unused"}) <= 1
===============================================================================
