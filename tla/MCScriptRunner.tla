--------------------------- MODULE MCScriptRunner ---------------------------
(* Instances of ScriptRunner for TLC. *)
EXTENDS ScriptRunner, TLC

\* Cron expressions that go on past the clock's bound: every instant; every second one.
Regular == {{1, 2, 3, 4}, {2, 4}}
Hourly  == {{1, 2, 3, 4}}

\* An expression that does not fire again within the 366 days Schedule.next looks ahead.
Leap == {{1}}

\* Request goroutines are alike.
Alike == Permutations(Clients)
=============================================================================
