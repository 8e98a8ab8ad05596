----------------------------- MODULE LinkProofs -----------------------------
(* Theorems about Link, for every value of its constants. *)
EXTENDS Link, FiniteSetTheorems, TLAPS

USE DEF Goto, Set

-----------------------------------------------------------------------------
(* Types and stages *)

\* Positions between the choice of a target and its end; those of a login's handshake; those at
\* which the latest connection is open and nobody else will close it.
Trying  == {"proxy", "tunnel", "direct", "missed", "hello", "serverHello", "flight", "finish",
            "login", "answer", "post", "result"}
Login   == {"hello", "serverHello", "flight", "finish", "login", "answer"}
Holding == {"tunnel", "hello", "serverHello", "flight", "finish", "post", "result"}

Shapes ==
  /\ clock \in 0..MaxTime /\ reachable \in BOOLEAN /\ pc \in [Logins -> Positions]
  /\ purpose \in [Logins -> {"long", "short", "call"}] /\ proxied \in [Logins -> BOOLEAN]
  /\ targets \in [Logins -> 0..Servers + 1] /\ hosts \in [Logins -> 0..2]
  /\ conn \in [Logins -> Nat]
  /\ open \in [Logins -> SUBSET Nat] /\ deferred \in [Logins -> SUBSET Nat]
  /\ DOMAIN client = Logins /\ DOMAIN psk = Logins
  /\ \A l \in Logins : "tx" \in DOMAIN client[l]

\* What a position says of the purpose of the loop, its targets and the records sent.
Stages ==
  \A l \in Logins :
    /\ pc[l] \in Trying => targets[l] > 0
    /\ pc[l] = "ask" => hosts[l] > 0
    /\ pc[l] \in Login \cup {"idle", "off"} => purpose[l] = "long"
    /\ pc[l] \in {"post", "result", "done"} => purpose[l] = "call"
    /\ pc[l] \in {"session", "short", "return"} => purpose[l] = "short"
    /\ pc[l] \in {"cache", "ask", "keep"} => purpose[l] # "call"
    /\ pc[l] \in Trying \cup {"next"} => purpose[l] # "short"
    /\ purpose[l] # "long" => psk[l] # {}
    /\ client[l].tx \in 0..3
    /\ pc[l] \in {"serverHello", "flight", "finish"} => client[l].tx = 1
    /\ pc[l] = "login" => client[l].tx = 2

StageInv == Shapes /\ Stages

\* Every login starts where its stage allows.
LEMMA InitStages == ASSUME Init PROVE StageInv
BY LinkAssumption DEF Init, StageInv, Shapes, Stages, Positions, Fresh, Trying, Login

\* The look-up of getDNSParsed keeps the stages.
LEMMA LookUpStages ==
  ASSUME StageInv, NEW l \in Logins,
         LookUp(l) \/ AskCache(l) \/ RequestNewDNS(l) \/ KeepAnswer(l)
  PROVE  StageInv'
<1> USE LinkAssumption DEF StageInv, Shapes, Stages, Positions, Trying, Login, loop, conns, mmtls,
        resolver, Resolved
<1>1. CASE LookUp(l)
  BY <1>1 DEF LookUp
<1>2. CASE AskCache(l)
  BY <1>2 DEF AskCache
<1>3. CASE RequestNewDNS(l)
  <2>1. CASE Goto(l, "keep") /\ UNCHANGED <<hosts, targets>>
    BY <1>3, <2>1 DEF RequestNewDNS
  <2>2. CASE hosts' = Set(hosts, l, hosts[l] - 1) /\ hosts[l] > 1 /\ UNCHANGED <<pc, targets>>
    BY <1>3, <2>2 DEF RequestNewDNS
  <2>3. CASE hosts' = Set(hosts, l, hosts[l] - 1) /\ hosts[l] <= 1 /\ Resolved(l, 1)
    BY <1>3, <2>3 DEF RequestNewDNS
  <2> QED BY <1>3, <2>1, <2>2, <2>3 DEF RequestNewDNS
<1>4. CASE KeepAnswer(l)
  <2> DEFINE n == IF reply[l].full THEN Servers ELSE 1
  <2>1. n \in 1..Servers + 1
    OBVIOUS
  <2>5. Resolved(l, n)
    BY <1>4 DEF KeepAnswer
  <2> HIDE DEF n
  <2>2. /\ pc[l] = "keep" /\ targets' = [targets EXCEPT ![l] = n]
        /\ UNCHANGED <<clock, reachable, hosts, purpose, proxied, conns, client, psk>>
    BY <1>4, <2>5 DEF KeepAnswer
  <2>3. CASE purpose[l] = "long" /\ pc' = [pc EXCEPT ![l] = "next"]
    BY <2>1, <2>2, <2>3
  <2>4. CASE purpose[l] = "short" /\ pc' = [pc EXCEPT ![l] = "return"]
    BY <2>1, <2>2, <2>4
  <2>6. \/ purpose[l] = "long" /\ pc' = [pc EXCEPT ![l] = "next"]
        \/ purpose[l] = "short" /\ pc' = [pc EXCEPT ![l] = "return"]
    <3>1. purpose[l] \in {"long", "short"}
      BY <2>2
    <3>2. pc' = [pc EXCEPT ![l] = IF purpose[l] = "long" THEN "next" ELSE "return"]
      BY <2>5
    <3> QED BY <3>1, <3>2
  <2> QED BY <2>3, <2>4, <2>6
<1> QED BY <1>1, <1>2, <1>3, <1>4

\* A target that is given up.
LEMMA GiveUpStages ==
  ASSUME StageInv, NEW l \in Logins, pc[l] \in Trying, GiveUp(l),
         UNCHANGED <<clock, reachable, hosts, loop, client, psk>>
  PROVE  StageInv'
BY DEF StageInv, Shapes, Stages, Positions, Trying, Login, loop, GiveUp, Closed

\* A move within the loop that changes nothing else but the connection that is open.
LEMMA MoveStages ==
  ASSUME StageInv, NEW l \in Logins, NEW p \in {"tunnel", "direct", "missed", "hello", "post"},
         pc[l] \in Trying, Goto(l, p),
         p = "hello" => purpose[l] = "long", p = "post" => purpose[l] = "call",
         conn' \in [Logins -> Nat], open' \in [Logins -> SUBSET Nat],
         UNCHANGED <<clock, reachable, hosts, loop, deferred, client, psk>>
  PROVE  StageInv'
<1>1. pc' \in [Logins -> Positions] /\ pc'[l] = p /\ \A k \in Logins \ {l} : pc'[k] = pc[k]
  BY DEF StageInv, Shapes, Positions
<1>2. Shapes'
  BY <1>1 DEF StageInv, Shapes, loop
<1>3. targets[l] > 0 /\ purpose[l] # "short"
  BY DEF StageInv, Stages, Trying
<1>4. Stages'
  <2>1. UNCHANGED <<targets, hosts, purpose, psk, client>>
    BY DEF loop
  <2> QED BY <1>1, <1>3, <2>1 DEF StageInv, Stages, Trying, Login
<1> QED BY <1>2, <1>4 DEF StageInv

\* Whoever has dialled goes on as its purpose says.
LEMMA NextStageFits ==
  ASSUME StageInv, NEW l \in Logins, pc[l] \in {"proxy", "tunnel", "direct"}, purpose[l] # "short"
  PROVE  /\ NextStage(l) \in {"hello", "post"}
         /\ NextStage(l) = "hello" => purpose[l] = "long"
         /\ NextStage(l) = "post" => purpose[l] = "call"
BY DEF NextStage, StageInv, Shapes

\* The loop over targets and dialTCP keep the stages.
LEMMA DialStages ==
  ASSUME StageInv, NEW l \in Logins,
         \/ NextTarget(l) \/ DialProxy(l) \/ Tunnel(l) \/ DialDirect(l) \/ Missed(l) \/ Break(l)
         \/ Deadline(l)
  PROVE  StageInv'
<1> USE LinkAssumption DEF StageInv, Shapes, Stages, Positions, Trying, Login, loop, conns, mmtls,
        resolver, Connected, NextStage, NoProxy, GiveUp, Closed
<1>1. CASE NextTarget(l)
  BY <1>1 DEF NextTarget
<1>2. CASE DialProxy(l)
  BY <1>2 DEF DialProxy
<1>3. CASE Tunnel(l)
  <2>1. open' \in [Logins -> SUBSET Nat] /\ conn' \in [Logins -> Nat]
    BY <1>3 DEF Tunnel
  <2>2. CASE Goto(l, NextStage(l))
    BY <1>3, <2>1, <2>2, NextStageFits, MoveStages DEF Tunnel
  <2>3. CASE NoProxy(l)
    BY <1>3, <2>1, <2>3, MoveStages DEF Tunnel
  <2> QED BY <1>3, <2>2, <2>3 DEF Tunnel
<1>4. CASE DialDirect(l)
  <2>1. open' \in [Logins -> SUBSET Nat] /\ conn' \in [Logins -> Nat]
    BY <1>4 DEF DialDirect
  <2>2. CASE Goto(l, NextStage(l))
    BY <1>4, <2>1, <2>2, NextStageFits, MoveStages DEF DialDirect
  <2>3. CASE Goto(l, "missed")
    BY <1>4, <2>1, <2>3, MoveStages DEF DialDirect
  <2> QED BY <1>4, <2>2, <2>3 DEF DialDirect
<1>5. CASE Missed(l)
  BY <1>5 DEF Missed
<1>6. CASE Break(l)
  BY <1>6 DEF Break
<1>7. CASE Deadline(l)
  BY <1>7 DEF Deadline
<1> QED BY <1>1, <1>2, <1>3, <1>4, <1>5, <1>6, <1>7

\* A record that is received counts no record that is sent.
LEMMA NotedSent ==
  ASSUME NEW c, "tx" \in DOMAIN c, NEW type
  PROVE  "tx" \in DOMAIN Noted(c, type) /\ Noted(c, type).tx = c.tx
BY DEF Noted

\* A record received in the handshake, and the position it leads to.
LEMMA ReceiveStages ==
  ASSUME StageInv, NEW l \in Logins, NEW c, "tx" \in DOMAIN c, c.tx = client[l].tx,
         Received(l, c), pc[l] \in {"serverHello", "flight"},
         NEW p \in {"flight", "finish"}, Goto(l, p),
         UNCHANGED <<clock, reachable, hosts, loop, conns, psk>>
  PROVE  StageInv'
<1>1. /\ client' = [client EXCEPT ![l] = client'[l]] /\ DOMAIN client' = Logins
      /\ "tx" \in DOMAIN client'[l] /\ client'[l].tx = client[l].tx
  BY DEF Received, StageInv, Shapes
<1>2. \A k \in Logins : k # l => client'[k] = client[k]
  BY <1>1 DEF StageInv, Shapes
<1> QED BY <1>1, <1>2 DEF StageInv, Shapes, Stages, Positions, Trying, Login, loop, conns

\* The handshake keeps the stages.
LEMMA HandshakeStages ==
  ASSUME StageInv, NEW l \in Logins,
         \/ NextRecord(l) \/ SendClientHello(l) \/ ServerFlight(l) \/ RecvServerHello(l)
         \/ RecvFlight(l) \/ SendClientFinished(l)
  PROVE  StageInv'
<1> USE LinkAssumption DEF StageInv, Shapes, Stages, Positions, Trying, Login, loop, conns, mmtls,
        resolver, GiveUp, Closed
<1>1. CASE NextRecord(l)
  BY <1>1 DEF NextRecord
<1>2. CASE SendClientHello(l)
  BY <1>2 DEF SendClientHello, Send, NewClient, Fresh
<1>3. CASE ServerFlight(l)
  BY <1>3 DEF ServerFlight
<1>4. CASE RecvServerHello(l)
  <2>1. CASE GiveUp(l)
    BY <1>4, <2>1, GiveUpStages DEF RecvServerHello
  <2> DEFINE c == [client[l] EXCEPT !.hash = client[l].hash \o <<"SH">>,
                                   !.hs = client[l].hash \o <<"SH">>]
  <2>2. CASE Received(l, c) /\ Goto(l, "flight") /\ UNCHANGED conns
    <3>1. "tx" \in DOMAIN c /\ c.tx = client[l].tx
      OBVIOUS
    <3> HIDE DEF c
    <3> QED BY <1>4, <2>2, <3>1, ReceiveStages DEF RecvServerHello
  <2> QED BY <1>4, <2>1, <2>2 DEF RecvServerHello
<1>5. CASE RecvFlight(l)
  <2>1. CASE GiveUp(l)
    BY <1>5, <2>1, GiveUpStages DEF RecvFlight
  <2> DEFINE c == Noted(client[l], Head(recq[l]).type)
             d == [client[l] EXCEPT !.final = client[l].hash]
  <2>2. CASE Received(l, c) /\ UNCHANGED <<pc, conns>>
    <3>1. "tx" \in DOMAIN c /\ c.tx = client[l].tx
      BY NotedSent
    <3>2. Goto(l, "flight") /\ pc[l] = "flight"
      BY <1>5, <2>2 DEF RecvFlight
    <3> HIDE DEF c
    <3> QED BY <1>5, <2>2, <3>1, <3>2, ReceiveStages DEF RecvFlight
  <2>3. CASE Received(l, d) /\ Goto(l, "finish") /\ UNCHANGED conns
    <3>1. "tx" \in DOMAIN d /\ d.tx = client[l].tx
      OBVIOUS
    <3> HIDE DEF d
    <3> QED BY <1>5, <2>3, <3>1, ReceiveStages DEF RecvFlight
  <2> QED BY <1>5, <2>1, <2>2, <2>3 DEF RecvFlight
<1>6. CASE SendClientFinished(l)
  BY <1>6 DEF SendClientFinished, Send
<1> QED BY <1>1, <1>2, <1>3, <1>4, <1>5, <1>6

\* The login over the connection, and its return, keep the stages.
LEMMA LoginStages ==
  ASSUME StageInv, NEW l \in Logins,
         SendApp(l) \/ ServerLogin(l) \/ RecvApp(l) \/ Return(l) \/ BadBuffer(l)
  PROVE  StageInv'
<1> USE LinkAssumption DEF StageInv, Shapes, Stages, Positions, Trying, Login, loop, conns, mmtls,
        resolver, GiveUp, Closed, Leave
<1>1. CASE SendApp(l)
  <2>1. /\ pc[l] = "login" /\ pc' = [pc EXCEPT ![l] = "answer"]
        /\ client' = [client EXCEPT ![l] = [client[l] EXCEPT !.tx = client[l].tx + 1]]
        /\ UNCHANGED <<clock, reachable, hosts, loop, conns, psk>>
    BY <1>1 DEF SendApp
  <2>2. client'[l].tx = 3 /\ "tx" \in DOMAIN client'[l] /\ DOMAIN client' = Logins
    BY <2>1
  <2>3. \A k \in Logins \ {l} : client'[k] = client[k] /\ pc'[k] = pc[k]
    BY <2>1
  <2>4. Shapes'
    BY <2>1, <2>2, <2>3
  <2>5. Stages'
    BY <2>1, <2>2, <2>3
  <2> QED BY <2>4, <2>5
<1>2. CASE ServerLogin(l)
  BY <1>2 DEF ServerLogin
<1>3. CASE RecvApp(l)
  <2>1. CASE GiveUp(l) /\ UNCHANGED <<client, psk, purpose>>
    <3>1. pc[l] \in Trying /\ UNCHANGED <<clock, reachable, hosts, targets, proxied>>
      BY <1>3 DEF RecvApp
    <3> QED BY <2>1, <3>1, GiveUpStages
  <2> DEFINE p == {[conn |-> conn[l], certV |-> client[l].certV]}
  <2>2. CASE /\ Received(l, client[l]) /\ psk' = Set(psk, l, p) /\ purpose' = Set(purpose, l, "short")
             /\ Goto(l, "short") /\ UNCHANGED conns
    <3>1. p # {}
      OBVIOUS
    <3> HIDE DEF p
    <3> QED BY <1>3, <2>2, <3>1 DEF RecvApp, Received
  <2> QED BY <1>3, <2>1, <2>2 DEF RecvApp
<1>4. CASE Return(l)
  <2>1. CASE pc[l] = "return" /\ Goto(l, "session")
    BY <1>4, <2>1 DEF Return
  <2>2. CASE Goto(l, "failed")
    BY <1>4, <2>2 DEF Return
  <2> QED BY <1>4, <2>1, <2>2 DEF Return
<1>5. CASE BadBuffer(l)
  BY <1>5 DEF BadBuffer
<1> QED BY <1>1, <1>2, <1>3, <1>4, <1>5

\* sendEnvelope keeps the stages.
LEMMA CallStages ==
  ASSUME StageInv, NEW l \in Logins,
         Acquire(l) \/ Post(l) \/ ServerCall(l) \/ RecvResult(l) \/ CallFails(l)
  PROVE  StageInv'
<1> USE LinkAssumption DEF StageInv, Shapes, Stages, Positions, Trying, Login, loop, conns, mmtls,
        resolver, GiveUp, Closed
<1>1. CASE Acquire(l)
  BY <1>1 DEF Acquire
<1>2. CASE Post(l)
  BY <1>2 DEF Post
<1>3. CASE ServerCall(l)
  BY <1>3 DEF ServerCall
<1>4. CASE RecvResult(l)
  <2>1. CASE GiveUp(l)
    BY <1>4, <2>1, GiveUpStages DEF RecvResult
  <2>2. CASE Goto(l, "done") /\ open' = Set(open, l, Closed(l)) /\ UNCHANGED <<conn, deferred>>
    BY <1>4, <2>2 DEF RecvResult
  <2> QED BY <1>4, <2>1, <2>2 DEF RecvResult
<1>5. CASE CallFails(l)
  BY <1>5 DEF CallFails
<1> QED BY <1>1, <1>2, <1>3, <1>4, <1>5

\* Every step keeps the stages.
LEMMA StepStages == ASSUME StageInv, [Next]_vars PROVE StageInv'
<1>1. CASE Tick \/ UNCHANGED vars
  BY <1>1, LinkAssumption
     DEF Tick, vars, StageInv, Shapes, Stages, resolver, loop, conns, mmtls
<1>2. ASSUME NEW l \in Logins, Step(l) PROVE StageInv'
  BY <1>2, LookUpStages, DialStages, HandshakeStages, LoginStages, CallStages DEF Step
<1> QED BY <1>1, <1>2 DEF Next

-----------------------------------------------------------------------------
(* Connections *)

\* Every open connection is left to the end of loginAndSession or is the latest one, at a
\* position whose failure closes it.
OpenInv ==
  \A l \in Logins :
    /\ deferred[l] \subseteq open[l] /\ open[l] \subseteq 1..conn[l]
    /\ pc[l] \in Holding => conn[l] \in open[l] \ deferred[l]
    /\ open[l] \ deferred[l] \subseteq IF pc[l] \in Holding THEN {conn[l]} ELSE {}
    /\ purpose[l] = "call" => deferred[l] = {}
    /\ pc[l] \in {"session", "done", "failed"} => deferred[l] = {}

\* The latest connection is the newest number.
LEMMA Newest ==
  ASSUME OpenInv, Shapes, NEW l \in Logins
  PROVE  /\ conn[l] + 1 \notin open[l] /\ conn[l] + 1 \notin deferred[l]
         /\ open[l] \cup {conn[l] + 1} \subseteq 1..conn[l] + 1
BY DEF OpenInv, Shapes

\* What dialling opens, it or its caller closes.
LEMMA DialOpen ==
  ASSUME StageInv, OpenInv, NEW l \in Logins,
         \/ NextTarget(l) \/ DialProxy(l) \/ Tunnel(l) \/ DialDirect(l) \/ Missed(l) \/ Break(l)
         \/ Deadline(l)
  PROVE  OpenInv'
<1> USE DEF StageInv, Shapes, OpenInv, Positions, Holding, loop, conns, NoProxy, GiveUp, Closed
<1>1. CASE NextTarget(l)
  BY <1>1 DEF NextTarget
<1>2. CASE DialProxy(l)
  <2>1. CASE Connected(l) /\ Goto(l, "tunnel")
    BY <1>2, <2>1, Newest DEF DialProxy, Connected
  <2>2. CASE NoProxy(l) /\ UNCHANGED <<conn, open>>
    BY <1>2, <2>2 DEF DialProxy
  <2> QED BY <1>2, <2>1, <2>2 DEF DialProxy
<1>3. CASE Tunnel(l)
  <2>1. CASE Goto(l, NextStage(l)) /\ UNCHANGED open
    BY <1>3, <2>1 DEF Tunnel, NextStage
  <2>2. CASE open' = Set(open, l, Closed(l)) /\ NoProxy(l)
    BY <1>3, <2>2 DEF Tunnel
  <2> QED BY <1>3, <2>1, <2>2 DEF Tunnel
<1>4. CASE DialDirect(l)
  <2>1. CASE Connected(l) /\ Goto(l, NextStage(l))
    BY <1>4, <2>1, Newest DEF DialDirect, Connected, NextStage
  <2>2. CASE Goto(l, "missed") /\ UNCHANGED <<conn, open>>
    BY <1>4, <2>2 DEF DialDirect
  <2> QED BY <1>4, <2>1, <2>2 DEF DialDirect
<1>5. CASE Missed(l)
  BY <1>5 DEF Missed
<1>6. CASE Break(l)
  BY <1>6 DEF Break
<1>7. CASE Deadline(l)
  BY <1>7 DEF Deadline
<1> QED BY <1>1, <1>2, <1>3, <1>4, <1>5, <1>6, <1>7

\* The handshake leaves the connection open, or closes it when it fails.
LEMMA HandshakeOpen ==
  ASSUME StageInv, OpenInv, NEW l \in Logins,
         \/ NextRecord(l) \/ SendClientHello(l) \/ ServerFlight(l) \/ RecvServerHello(l)
         \/ RecvFlight(l) \/ SendClientFinished(l)
  PROVE  OpenInv'
<1> USE DEF StageInv, Shapes, Stages, OpenInv, Positions, Trying, Login, Holding, loop, conns, mmtls
<1>1. CASE NextRecord(l) \/ ServerFlight(l)
  <2>1. UNCHANGED <<pc, loop, conns>>
    BY <1>1 DEF NextRecord, ServerFlight
  <2> QED BY <2>1
<1>5. CASE SendClientHello(l)
  <2>1. pc[l] = "hello" /\ Goto(l, "serverHello") /\ UNCHANGED <<loop, conns>>
    BY <1>5 DEF SendClientHello
  <2> QED BY <2>1
<1>2. CASE RecvServerHello(l)
  <2>1. CASE GiveUp(l)
    BY <1>2, <2>1 DEF RecvServerHello, GiveUp, Closed
  <2>2. CASE Goto(l, "flight") /\ UNCHANGED conns
    BY <1>2, <2>2 DEF RecvServerHello
  <2> QED BY <1>2, <2>1, <2>2 DEF RecvServerHello
<1>3. CASE RecvFlight(l)
  <2>1. CASE GiveUp(l)
    BY <1>3, <2>1 DEF RecvFlight, GiveUp, Closed
  <2>2. CASE UNCHANGED <<pc, conns>>
    BY <1>3, <2>2 DEF RecvFlight
  <2>3. CASE Goto(l, "finish") /\ UNCHANGED conns
    BY <1>3, <2>3 DEF RecvFlight
  <2> QED BY <1>3, <2>1, <2>2, <2>3 DEF RecvFlight
<1>4. CASE SendClientFinished(l)
  BY <1>4 DEF SendClientFinished
<1> QED BY <1>1, <1>2, <1>3, <1>4, <1>5

\* loginAndSession closes what it deferred.
LEMMA LoginOpen ==
  ASSUME StageInv, OpenInv, NEW l \in Logins,
         SendApp(l) \/ ServerLogin(l) \/ RecvApp(l) \/ Return(l) \/ BadBuffer(l)
  PROVE  OpenInv'
<1> USE DEF StageInv, Shapes, Stages, OpenInv, Positions, Trying, Login, Holding, loop, conns, mmtls
<1>1. CASE SendApp(l)
  BY <1>1 DEF SendApp
<1>4. CASE ServerLogin(l)
  <2>1. UNCHANGED <<pc, loop, conns>>
    BY <1>4 DEF ServerLogin
  <2> QED BY <2>1
<1>2. CASE RecvApp(l)
  <2>1. CASE GiveUp(l) /\ UNCHANGED purpose
    BY <1>2, <2>1 DEF RecvApp, GiveUp
  <2>2. CASE Goto(l, "short") /\ purpose' = Set(purpose, l, "short") /\ UNCHANGED conns
    BY <1>2, <2>2 DEF RecvApp
  <2> QED BY <1>2, <2>1, <2>2 DEF RecvApp
<1>3. CASE Return(l) \/ BadBuffer(l)
  BY <1>3 DEF Return, BadBuffer, Leave
<1> QED BY <1>1, <1>2, <1>3, <1>4

\* A call closes its connection when it gets an answer or none.
LEMMA CallOpen ==
  ASSUME StageInv, OpenInv, NEW l \in Logins,
         Acquire(l) \/ Post(l) \/ ServerCall(l) \/ RecvResult(l) \/ CallFails(l)
  PROVE  OpenInv'
<1> USE DEF StageInv, Shapes, Stages, OpenInv, Positions, Trying, Login, Holding, loop, conns, mmtls
<1>1. CASE Acquire(l)
  BY <1>1 DEF Acquire
<1>2. CASE Post(l) \/ ServerCall(l)
  BY <1>2 DEF Post, ServerCall
<1>3. CASE RecvResult(l)
  <2>1. CASE GiveUp(l)
    BY <1>3, <2>1 DEF RecvResult, GiveUp, Closed
  <2>2. CASE Goto(l, "done") /\ open' = Set(open, l, Closed(l)) /\ UNCHANGED <<conn, deferred>>
    BY <1>3, <2>2 DEF RecvResult, Closed
  <2> QED BY <1>3, <2>1, <2>2 DEF RecvResult
<1>4. CASE CallFails(l)
  BY <1>4 DEF CallFails
<1> QED BY <1>1, <1>2, <1>3, <1>4

\* Every step keeps OpenInv.
LEMMA StepOpen == ASSUME StageInv, OpenInv, [Next]_vars PROVE OpenInv'
<1> USE DEF StageInv, Shapes, Stages, OpenInv, Positions, Trying, Login, Holding, loop, conns, mmtls
<1>1. CASE Tick \/ UNCHANGED vars
  BY <1>1 DEF Tick, vars
<1>2. ASSUME NEW l \in Logins, LookUp(l) \/ AskCache(l) \/ RequestNewDNS(l) \/ KeepAnswer(l)
      PROVE  OpenInv'
  BY <1>2 DEF LookUp, AskCache, RequestNewDNS, KeepAnswer, Resolved
<1>3. ASSUME NEW l \in Logins, Step(l) PROVE OpenInv'
  BY <1>2, <1>3, DialOpen, HandshakeOpen, LoginOpen, CallOpen DEF Step
<1> QED BY <1>1, <1>3 DEF Next

\* At the start no connection is open.
LEMMA InitOpen == ASSUME Init PROVE OpenInv
BY DEF Init, OpenInv, Holding

\* A login or a call that is over has closed every connection it opened: what failed in between
\* was closed on the spot, or is in the list that is closed when loginAndSession returns.
THEOREM AllClosed == Spec => []ConnsClosed
<1>1. StageInv /\ OpenInv => ConnsClosed
  BY DEF StageInv, Shapes, OpenInv, ConnsClosed, Holding
<1>2. Spec => [](StageInv /\ OpenInv)
  BY InitStages, StepStages, InitOpen, StepOpen, PTL DEF Spec
<1> QED BY <1>1, <1>2, PTL

-----------------------------------------------------------------------------
(* Answers of the DNS service *)

\* Positions at which a login or call goes by the result of a look-up, until it is over.
Going == Trying \cup {"next", "return"}

\* An entry lives no longer than TTL from its answer on: its life counts from before the
\* request, and nobody keeps an answer that is older than his own look-up.
FreshInv ==
  /\ now \in [Logins -> Nat] /\ DOMAIN reply = Logins
  /\ \A l \in Logins : reply[l].at \in Nat /\ now[l] <= clock
  /\ \A e \in cache : e.at \in Nat /\ e.expires \in Nat /\ e.expires <= e.at + TTL
  /\ \A l \in Logins : pc[l] = "keep" => reply[l].at >= now[l]
  /\ \A l \in Logins : pc[l] \in Going /\ purpose[l] # "call" => reply[l].at + TTL > now[l]

\* Steps between look-ups take nothing back: a loop goes on or ends, what is over is over, and
\* a call does not begin.
Onward ==
  \A k \in Logins :
    /\ pc'[k] \in Going => pc[k] \in Going
    /\ pc'[k] = "keep" => pc[k] = "keep"
    /\ (purpose'[k] = "call") <=> (purpose[k] = "call")
    /\ pc[k] \in {"done", "failed"} => pc'[k] = pc[k]

\* Dialling takes nothing back.
LEMMA DialOnward ==
  ASSUME StageInv, NEW l \in Logins,
         \/ NextTarget(l) \/ DialProxy(l) \/ Tunnel(l) \/ DialDirect(l) \/ Missed(l) \/ Break(l)
         \/ Deadline(l)
  PROVE  Onward
<1> USE DEF StageInv, Shapes, Onward, Positions, Trying, Going, loop, NoProxy, GiveUp
<1>1. CASE NextTarget(l) \/ Missed(l)
  BY <1>1 DEF NextTarget, Missed
<1>2. CASE DialProxy(l)
  BY <1>2 DEF DialProxy
<1>3. CASE Tunnel(l) \/ DialDirect(l)
  BY <1>3 DEF Tunnel, DialDirect, NextStage
<1>4. CASE Break(l) \/ Deadline(l)
  BY <1>4 DEF Break, Deadline
<1> QED BY <1>1, <1>2, <1>3, <1>4

\* Nor does the handshake.
LEMMA HandshakeOnward ==
  ASSUME StageInv, NEW l \in Logins,
         \/ NextRecord(l) \/ SendClientHello(l) \/ ServerFlight(l) \/ RecvServerHello(l)
         \/ RecvFlight(l) \/ SendClientFinished(l)
  PROVE  Onward
<1> USE DEF StageInv, Shapes, Onward, Positions, Trying, Going, loop, GiveUp
<1>1. CASE NextRecord(l) \/ ServerFlight(l)
  <2>1. UNCHANGED <<pc, loop>>
    BY <1>1 DEF NextRecord, ServerFlight
  <2> QED BY <2>1
<1>2. CASE SendClientHello(l) \/ SendClientFinished(l)
  BY <1>2 DEF SendClientHello, SendClientFinished
<1>3. CASE RecvServerHello(l)
  <2>1. \/ Goto(l, "flight") \/ Goto(l, "missed")
    BY <1>3 DEF RecvServerHello
  <2>2. pc[l] \in Trying /\ UNCHANGED loop
    BY <1>3 DEF RecvServerHello
  <2> QED BY <2>1, <2>2
<1>4. CASE RecvFlight(l)
  <2>1. \/ UNCHANGED pc \/ Goto(l, "finish") \/ Goto(l, "missed")
    BY <1>4 DEF RecvFlight
  <2>2. pc[l] \in Trying /\ UNCHANGED loop
    BY <1>4 DEF RecvFlight
  <2> QED BY <2>1, <2>2
<1> QED BY <1>1, <1>2, <1>3, <1>4

\* Nor does a call.
LEMMA CallOnward ==
  ASSUME StageInv, NEW l \in Logins,
         \/ SendApp(l) \/ ServerLogin(l) \/ RecvApp(l) \/ Return(l) \/ BadBuffer(l)
         \/ Post(l) \/ ServerCall(l) \/ RecvResult(l) \/ CallFails(l)
  PROVE  Onward
<1> USE DEF StageInv, Shapes, Stages, Onward, Positions, Trying, Login, Going, loop, GiveUp
<1>1. CASE ServerLogin(l) \/ ServerCall(l)
  <2>1. UNCHANGED <<pc, loop>>
    BY <1>1 DEF ServerLogin, ServerCall
  <2> QED BY <2>1
<1>2. CASE SendApp(l) \/ Post(l) \/ CallFails(l)
  BY <1>2 DEF SendApp, Post, CallFails
<1>3. CASE RecvApp(l)
  <2>1. \/ Goto(l, "short") /\ purpose' = Set(purpose, l, "short")
        \/ Goto(l, "missed") /\ UNCHANGED purpose
    BY <1>3 DEF RecvApp
  <2>2. pc[l] = "answer" /\ purpose[l] = "long"
    BY <1>3 DEF RecvApp
  <2> QED BY <2>1, <2>2
<1>4. CASE Return(l) \/ BadBuffer(l)
  BY <1>4 DEF Return, BadBuffer, Leave
<1>5. CASE RecvResult(l)
  BY <1>5 DEF RecvResult
<1> QED BY <1>1, <1>2, <1>3, <1>4, <1>5

\* The look-up goes by an answer that is fresh, and keeps the cache such that the next can.
LEMMA LookUpFresh ==
  ASSUME StageInv, FreshInv, NEW l \in Logins,
         LookUp(l) \/ AskCache(l) \/ RequestNewDNS(l) \/ KeepAnswer(l)
  PROVE  FreshInv'
<1> USE LinkAssumption DEF StageInv, Shapes, FreshInv, Positions, Trying, Going, loop, resolver
<1>1. CASE LookUp(l)
  BY <1>1 DEF LookUp
<1>2. CASE AskCache(l)
  <2>1. CASE \E e \in Live(l) : reply' = Set(reply, l, [at |-> e.at, full |-> e.full])
                               /\ Goto(l, IF purpose[l] = "long" THEN "next" ELSE "return")
    BY <1>2, <2>1 DEF AskCache, Live
  <2>2. CASE Goto(l, "ask") /\ UNCHANGED reply
    BY <1>2, <2>2 DEF AskCache
  <2> QED BY <1>2, <2>1, <2>2 DEF AskCache, Resolved
<1>3. CASE RequestNewDNS(l)
  <2>1. CASE \E full \in BOOLEAN : /\ reply' = Set(reply, l, [at |-> clock, full |-> full])
                                   /\ Goto(l, "keep")
    BY <1>3, <2>1 DEF RequestNewDNS
  <2>2. CASE UNCHANGED <<pc, reply>>
    BY <1>3, <2>2 DEF RequestNewDNS
  <2>3. CASE /\ reply' = Set(reply, l, [at |-> now[l], full |-> FALSE])
             /\ Goto(l, IF purpose[l] = "long" THEN "next" ELSE "return")
    BY <1>3, <2>3 DEF RequestNewDNS
  <2> QED BY <1>3, <2>1, <2>2, <2>3 DEF RequestNewDNS, Resolved
<1>4. CASE KeepAnswer(l)
  <2> DEFINE p == IF purpose[l] = "long" THEN "next" ELSE "return"
  <2>1. /\ pc[l] = "keep" /\ UNCHANGED <<clock, now, reply, purpose>>
        /\ pc' = [pc EXCEPT ![l] = p]
    BY <1>4 DEF KeepAnswer, Resolved
  <2>2. /\ reply[l].at \in Nat /\ now[l] \in Nat /\ now[l] <= reply[l].at
        /\ TTL \in Nat \ {0}
    BY <2>1
  <2>3. \A e \in cache' : e.at = reply[l].at /\ e.expires = now[l] + TTL
    BY <1>4 DEF KeepAnswer, Expiry
  <2>4. \A e \in cache' : e.at \in Nat /\ e.expires \in Nat /\ e.expires <= e.at + TTL
    BY <2>2, <2>3
  <2>5. reply[l].at + TTL > now[l]
    BY <2>2
  <2>6. p # "keep"
    OBVIOUS
  <2> HIDE DEF p
  <2> QED BY <2>1, <2>4, <2>5, <2>6
<1> QED BY <1>1, <1>2, <1>3, <1>4

\* Every step keeps FreshInv.
LEMMA StepFresh == ASSUME StageInv, FreshInv, [Next]_vars PROVE FreshInv'
<1>1. CASE Tick \/ UNCHANGED vars
  BY <1>1, LinkAssumption
     DEF Tick, vars, FreshInv, StageInv, Shapes, resolver, loop
<1>2. ASSUME NEW l \in Logins, NextTarget(l) PROVE FreshInv'
  BY <1>2, LinkAssumption
     DEF NextTarget, FreshInv, StageInv, Shapes, Trying, Going, NoReply, loop
<1>3. ASSUME NEW l \in Logins, Acquire(l) PROVE FreshInv'
  BY <1>3 DEF Acquire, FreshInv, StageInv, Shapes, Trying, Going, resolver
<1>4. ASSUME NEW l \in Logins, Step(l), ~NextTarget(l), ~Acquire(l),
             ~(LookUp(l) \/ AskCache(l) \/ RequestNewDNS(l) \/ KeepAnswer(l))
      PROVE  FreshInv'
  <2>1. Onward
    BY <1>4, DialOnward, HandshakeOnward, CallOnward DEF Step
  <2>2. UNCHANGED <<clock, cache, now, reply>>
    <3>1. CASE DialProxy(l) \/ Tunnel(l) \/ DialDirect(l) \/ Missed(l) \/ Break(l) \/ Deadline(l)
      BY <3>1 DEF DialProxy, Tunnel, DialDirect, Missed, Break, Deadline, resolver
    <3>2. CASE \/ NextRecord(l) \/ SendClientHello(l) \/ ServerFlight(l) \/ RecvServerHello(l)
               \/ RecvFlight(l) \/ SendClientFinished(l)
      BY <3>2 DEF NextRecord, SendClientHello, ServerFlight, RecvServerHello, RecvFlight,
                  SendClientFinished, resolver
    <3>3. CASE \/ SendApp(l) \/ ServerLogin(l) \/ RecvApp(l) \/ Return(l) \/ BadBuffer(l)
               \/ Post(l) \/ ServerCall(l) \/ RecvResult(l) \/ CallFails(l)
      BY <3>3 DEF SendApp, ServerLogin, RecvApp, Return, BadBuffer, Leave, Post, ServerCall,
                  RecvResult, CallFails, resolver
    <3> QED BY <1>4, <3>1, <3>2, <3>3 DEF Step
  <2> QED BY <2>1, <2>2 DEF FreshInv, Onward
<1> QED BY <1>1, <1>2, <1>3, <1>4, LookUpFresh DEF Next

\* At the start the cache is empty.
LEMMA InitFresh == ASSUME Init PROVE FreshInv
BY LinkAssumption DEF Init, FreshInv, Trying, Going, NoReply

\* However look-ups overlap and whichever writes the cache last, nobody goes by an answer that
\* had reached its time to live when his look-up began.
THEOREM NoStaleAnswers == Spec => []FreshAnswers
<1>1. FreshInv => FreshAnswers
  BY DEF FreshInv, FreshAnswers, Going
<1>2. Spec => [](StageInv /\ FreshInv)
  BY InitStages, StepStages, InitFresh, StepFresh, PTL DEF Spec
<1> QED BY <1>1, <1>2, PTL

-----------------------------------------------------------------------------
(* Slots *)

SlotsInv == Cardinality(Calling) <= Slots

\* The calls can be counted.
LEMMA FiniteCalling == IsFiniteSet(Calling)
BY LinkAssumption, FS_Subset DEF Calling

\* What loses members stays within the slots.
LEMMA FewerCalling == ASSUME SlotsInv, Calling' \subseteq Calling PROVE SlotsInv'
<1>1. Cardinality(Calling') <= Cardinality(Calling)
  BY FiniteCalling, FS_Subset
<1>2. Cardinality(Calling) \in Nat /\ Cardinality(Calling') \in Nat
  BY FiniteCalling, FS_Subset, FS_CardinalityType
<1> QED BY <1>1, <1>2, LinkAssumption DEF SlotsInv

\* Every step keeps the number of calls within the slots.
LEMMA StepSlots == ASSUME StageInv, SlotsInv, [Next]_vars PROVE SlotsInv'
<1>1. CASE Tick \/ UNCHANGED vars
  BY <1>1, FewerCalling DEF Tick, vars, Calling, loop
<1>2. ASSUME NEW l \in Logins, LookUp(l) \/ AskCache(l) \/ RequestNewDNS(l) \/ KeepAnswer(l)
      PROVE  SlotsInv'
  <2>1. Calling' \subseteq Calling
    BY <1>2 DEF LookUp, AskCache, RequestNewDNS, KeepAnswer, Resolved, Calling, StageInv, Shapes,
                loop
  <2> QED BY <2>1, FewerCalling
<1>3. ASSUME NEW l \in Logins, Acquire(l) PROVE SlotsInv'
  <2>1. CASE Goto(l, "failed") /\ UNCHANGED purpose
    BY <1>3, <2>1, FewerCalling DEF Calling, StageInv, Shapes
  <2>2. CASE Cardinality(Calling) < Slots /\ purpose' = Set(purpose, l, "call") /\ Goto(l, "next")
    <3>1. Calling' = Calling \cup {l}
      BY <1>3, <2>2 DEF Calling, StageInv, Shapes
    <3>2. Cardinality(Calling') <= Cardinality(Calling) + 1
      BY <3>1, FiniteCalling, FS_AddElement, FS_CardinalityType
    <3> QED BY <2>2, <3>1, <3>2, FiniteCalling, FS_AddElement, FS_CardinalityType, LinkAssumption
            DEF SlotsInv
  <2> QED BY <1>3, <2>1, <2>2 DEF Acquire
<1>4. ASSUME NEW l \in Logins, Step(l), ~Acquire(l),
             ~(LookUp(l) \/ AskCache(l) \/ RequestNewDNS(l) \/ KeepAnswer(l))
      PROVE  SlotsInv'
  <2>1. Onward
    BY <1>4, DialOnward, HandshakeOnward, CallOnward DEF Step
  <2>2. Calling' \subseteq Calling
    BY <2>1 DEF Onward, Calling
  <2> QED BY <2>2, FewerCalling
<1> QED BY <1>1, <1>2, <1>3, <1>4 DEF Next

\* At the start there is no call.
LEMMA InitSlots == ASSUME Init PROVE SlotsInv
<1>1. Calling = {}
  BY DEF Init, Calling
<1> QED BY <1>1, FS_EmptySet, LinkAssumption DEF SlotsInv

\* The shapes of the state; at most Slots calls are on the network; connections are numbered
\* in order, and only open ones are left to be closed; who calls has a session.
THEOREM TypeSafe == Spec => []TypeOK
<1>1. StageInv /\ OpenInv /\ SlotsInv => TypeOK
  BY DEF StageInv, Shapes, Stages, OpenInv, SlotsInv, TypeOK
<1>2. Spec => [](StageInv /\ OpenInv /\ SlotsInv)
  BY InitStages, StepStages, InitOpen, StepOpen, InitSlots, StepSlots, PTL DEF Spec
<1> QED BY <1>1, <1>2, PTL
=============================================================================
