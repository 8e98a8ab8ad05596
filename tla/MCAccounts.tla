----------------------------- MODULE MCAccounts -----------------------------
(* Instances of Accounts for TLC. *)
EXTENDS Accounts, TLC

CONSTANTS alice, bob

Entry(o, hasCred, s) ==
  [openid |-> o, cred |-> IF hasCred THEN [owner |-> o, gen |-> 0] ELSE NoCred,
   status |-> s, prof |-> o]

Empty == [i \in Ids |-> NoRow]

\* One stored account of each kind; accounts in good standing.
OneAccount == {[Empty EXCEPT ![1] = Entry(alice, c, s)] : c \in BOOLEAN, s \in {"alive", "unknown"}}
Alice == {[Empty EXCEPT ![1] = Entry(alice, TRUE, "alive")]}

\* An account in good standing beside one that has expired and keeps the table from running empty.
Pair == {[Empty EXCEPT ![1] = Entry(alice, TRUE, "alive"), ![2] = Entry(bob, FALSE, "expired")]}

\* Request goroutines are alike.
Interchangeable == Permutations(Requests)
=============================================================================
