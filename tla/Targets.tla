------------------------------- MODULE Targets -------------------------------
(***************************************************************************)
(* Targets <<ip, port>> of calls, and the order in which they are tried:   *)
(* internal/protocol/newdns.go. Of an address only its place in the order  *)
(* of the addresses counts.                                                *)
(***************************************************************************)
EXTENDS Integers, Sequences, FiniteSets, Functions, Probe

\* The server a call falls back on.
KnownServer == <<0, 80>>

\* serversFor: every address with every port.
ServersFor(ips, ports) ==
  [k \in 1..Len(ips) * Len(ports) |->
     <<ips[(k - 1) \div Len(ports) + 1], ports[((k - 1) % Len(ports)) + 1]>>]

\* The loop over ts: the targets with a port, of addresses not seen yet, go to the end of out.
Seen(out) == {out[i][1] : i \in DOMAIN out}
Kept(out, t, port) == IF t[2] = port /\ t[1] \notin Seen(out) THEN Append(out, t) ELSE out
Picked(ts, port, out) ==
  LET kept[n \in 0..Len(ts)] == IF n = 0 THEN out ELSE Kept(kept[n - 1], ts[n], port)
  IN kept[Len(ts)]

GetShortlinkTargets(ts) ==
  LET out == Picked(ts, 80, <<>>) IN IF out = <<>> THEN <<KnownServer>> ELSE out

\* A stable sort by address. (Mutant: the first max targets are sorted.)
Before(ts, i, j) == ts[i][1] < ts[j][1] \/ (ts[i][1] = ts[j][1] /\ i <= j)
Place(ts, j) == Cardinality({i \in DOMAIN ts : Before(ts, i, j)})
ByIP(ts) == [k \in DOMAIN ts |-> ts[CHOOSE j \in DOMAIN ts : Place(ts, j) = k]]
FirstOf(ts, max) == IF max > 0 /\ Len(ts) > max THEN SubSeq(ts, 1, max) ELSE ts
SortedCut(ts, max) == ByIP(FirstOf(ts, max))
CutSorted(ts, max) == FirstOf(ByIP(ts), max)

Preferred(ts) ==
  Picked(ts, 5000, Picked(ts, 443, Picked(ts, 80, Picked(ts, 8080, <<>>))))
OrderLonglinkTargets(ts, max) ==
  CutSorted(IF Preferred(ts) = <<>> THEN ts ELSE Preferred(ts), max)

-----------------------------------------------------------------------------
(* What the order promises *)

\* An input of the two orders: any targets, any limit.
TargetsAsked(ts, max) == ts \in Seq(Int \X Int) /\ max \in Int

Rank(t) == IF t[2] = 8080 THEN 1 ELSE IF t[2] = 80 THEN 2 ELSE IF t[2] = 443 THEN 3
           ELSE IF t[2] = 5000 THEN 4 ELSE 5

\* orderLonglinkTargets never leaves a login without a target, tries every address once with
\* the best port it offers, and drops only the highest addresses; ports nobody prefers are
\* tried when there are no others. getShortlinkTargets leaves a call with port 80 of every address
\* that offers it, or the known server.
TargetsOrdered ==
  probe[1] = "targets" =>
    LET ts   == Range(probe[2])
        max  == probe[3]
        good == {t \in ts : Rank(t) < 5}
        out  == OrderLonglinkTargets(probe[2], max)
        from == IF good = {} THEN ts ELSE good
        short == GetShortlinkTargets(probe[2])
        http == {t \in ts : t[2] = 80}
    IN /\ Range(short) = IF http = {} THEN {KnownServer} ELSE http
       /\ Len(short) = Cardinality(Range(short))
       /\ Range(out) \subseteq from
       /\ out = <<>> <=> probe[2] = <<>>
       /\ \A i, j \in DOMAIN out : i < j =>
            IF good = {} THEN out[i][1] <= out[j][1] ELSE out[i][1] < out[j][1]
       /\ good # {} => \A i \in DOMAIN out, t \in good : t[1] = out[i][1] => Rank(out[i]) <= Rank(t)
       /\ \A t \in from : \/ \E i \in DOMAIN out : out[i][1] = t[1]
                          \/ Len(out) = max /\ \A i \in DOMAIN out : out[i][1] <= t[1]
=============================================================================
