----------------------------- MODULE MCConsole -----------------------------
(* Instance of QRLogin, with the console login in front of it, for TLC. *)
EXTENDS QRLogin, TLC

CONSTANT s2

\* Clients with the key work on two sessions; clients of the console log in and work on one.
ConsoleInit == Init /\ drawn = (IF keyed THEN {} ELSE {s2})
ConsoleSpec == ConsoleInit /\ [][Next]_vars

\* Request goroutines are alike.
Alike == Permutations(Requests)
=============================================================================
