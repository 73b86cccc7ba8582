---------------------------- MODULE FirebirdAttached ----------------------------
(****************************************************************************)
(* FirebirdFamily with a history variable: whether every parent that has    *)
(* clones has been attached itself in all states so far.  It ends when an   *)
(* attach that should make a lost connection again is refused to a root     *)
(* (dbi_Firebird_Open, dbi_Firebird_Reconnect).                             *)
(****************************************************************************)
EXTENDS FirebirdFamily

VARIABLE attached

RecordedInit == Init /\ attached = TRUE
RecordedNext == Next /\ attached' = (attached /\ ParentsAttached')
RecordedSpec == RecordedInit /\ [][RecordedNext]_<<vars, attached>>

(* As long as every parent has been attached, the flags and handles that    *)
(* decide between a full and a retained commit never say less than is open  *)
(* on the server (firebird.c:1275-1293).  When one has not, its open or its *)
(* reconnection may set the handle to NULL (711) of the transaction in      *)
(* which a clone, attached again by itself, has a cursor.                   *)
HandlesKept == attached => HandlesKnown
=================================================================================
