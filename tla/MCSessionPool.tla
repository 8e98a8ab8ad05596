---------------------------- MODULE MCSessionPool ----------------------------
(* Instances of SessionPool for TLC. *)
EXTENDS SessionPool, TLC

\* Request goroutines are alike.
CallsAlike == Permutations(Calls)
=============================================================================
