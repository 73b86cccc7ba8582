---------------------------- MODULE MCSqlite3Serial ----------------------------
(* Instances of Sqlite3Serial for TLC. *)
EXTENDS Sqlite3Serial, TLC

(* Processes are interchangeable.  Only the runs without a liveness property *)
(* use this.                                                                 *)
ProcSymmetry == Permutations(Proc)
===============================================================================
