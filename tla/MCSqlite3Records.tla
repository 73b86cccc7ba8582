---------------------------- MODULE MCSqlite3Records ----------------------------
(* The instance of Sqlite3Records that TLC checks: an object and a clone of *)
(* it, one table.                                                           *)
EXTENDS Sqlite3Records

MCFiles == {<<"a">>, <<"a", "a">>, <<"a", "wide">>}
MCSizes == {0, 2}

(* One object at a time has a statement that is executed again: nothing is  *)
(* claimed of what fetch gives then.                                        *)
OneStrays == \A o, p \in Obj : obj[o].strayed /\ obj[p].strayed => o = p

(* States that differ in the last answer, or in the names 1 and 2 of the    *)
(* results, are the same.  Whether the answer was that of badcall is kept,  *)
(* so that a step that changes nothing but the answer is checked and not    *)
(* taken for a stuttering one.                                              *)
View == <<unique, work, kept, txn, setting,
          [o \in Obj |-> [obj[o] EXCEPT !.res = IF @ = 0 THEN 0 ELSE 1]], reply.of = "badcall">>
==================================================================================
