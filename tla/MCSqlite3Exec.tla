----------------------------- MODULE MCSqlite3Exec -----------------------------
(* Instances of Sqlite3Exec for TLC. *)
EXTENDS Sqlite3Exec

(* Texts that end after their last command by a newline or another character. *)
TailedTexts == {[n |-> 1, tail |-> TRUE], [n |-> 2, tail |-> TRUE], [n |-> 3, tail |-> TRUE]}

(* With a text that stops at the last command and a text without commands.    *)
AnyTexts == {[n |-> 0, tail |-> TRUE], [n |-> 1, tail |-> FALSE],
             [n |-> 1, tail |-> TRUE], [n |-> 2, tail |-> FALSE], [n |-> 2, tail |-> TRUE]}

UntailedTexts == {[n |-> 1, tail |-> TRUE], [n |-> 2, tail |-> FALSE]}
=============================================================================
