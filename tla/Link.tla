-------------------------------- MODULE Link --------------------------------
(***************************************************************************)
(* The way to WeChat: loginAndSession and sendEnvelope of                  *)
(* internal/protocol/pool.go with the DNS cache (newdns.go), the dialling  *)
(* (transport.go), the mmtls client (mmtls_client.go, mmtls_crypto.go) and *)
(* the 0-RTT calls (shortlink.go) under them.                              *)
(*                                                                         *)
(* A login looks up the LongLink servers, tries one after the other, and   *)
(* looks up the ShortLink servers; a call with its session then tries      *)
(* those. The server, the network and time are external. Keys are          *)
(* symbolic: a label and the transcript they are derived from, a different *)
(* secret for every connection. A record opens under its own key and       *)
(* sequence number only. The server's stream arrives in pieces of any      *)
(* size; a record is two pieces, header and payload.                       *)
(***************************************************************************)
EXTENDS Naturals, Sequences, FiniteSets

CONSTANTS
  Logins,         \* logins under way, each followed by a call
  Servers,        \* servers in a complete answer of the DNS service
  TTL,            \* DNSCacheTTL
  FallbackDirect, \* TCPProxyFallbackDirect
  Slots,          \* capacity of shortlinkSem
  MaxTime         \* bound of the clock

ASSUME LinkAssumption ==
  /\ Servers \in Nat \ {0} /\ TTL \in Nat \ {0} /\ Slots \in Nat \ {0} /\ MaxTime \in Nat
  /\ FallbackDirect \in BOOLEAN /\ IsFiniteSet(Logins)

VARIABLES
  clock,    \* external
  reachable, \* external: whether connections to WeChat or the proxy can succeed at all
  cache,    \* dnsCache: an empty set, or {[expires, at, full]}
  pc,       \* where a login is
  proxied,  \* its route has a tcp_proxy
  purpose,  \* what its look-up and its loop over targets are for
  now,      \* time.Now() at the start of its look-up
  hosts,    \* hosts of the DNS service it can still ask
  reply,    \* the DNS answer it goes by: when it was given and whether it was complete
  targets,  \* targets left in its loop
  conn,     \* number of its latest connection
  open,     \* its connections that are open
  deferred, \* its connections that loginAndSession closes when it returns
  client,   \* mmtlsClient
  up,       \* records it has sent and the server has not answered
  server,   \* external: the server's side of the connection
  wire,     \* external: pieces of the server's records on their way
  rxbuf, recq, \* pieces read, records parsed
  issued,   \* external: PSKs of the tickets it was given
  psk,      \* PSK of its session, if it has one
  excused   \* history: something outside the code went wrong with its current target

resolver  == <<now, hosts, reply>>
mmtls     == <<client, up, server, wire, rxbuf, recq, issued>>
loop      == <<targets, purpose, proxied>>
conns     == <<conn, open, deferred>>
vars == <<clock, reachable, cache, pc, resolver, loop, conns, mmtls, psk, excused>>

Goto(l, p) == pc' = [pc EXCEPT ![l] = p]
Set(f, l, v) == [f EXCEPT ![l] = v]

\* newMmtlsClient; an empty transcript is one that has not been hashed.
Fresh == [tx |-> 0, rx |-> 0, hash |-> <<>>, hs |-> <<>>, certV |-> <<>>, final |-> <<>>,
          ticket |-> FALSE]
Away == [tx |-> 0, certV |-> <<>>, final |-> <<>>]
NoReply == [at |-> 0, full |-> FALSE]

Init ==
  /\ clock \in 0..MaxTime /\ reachable \in BOOLEAN /\ cache = {}
  /\ pc \in [Logins -> {"idle", "off"}]
  /\ proxied \in [Logins -> BOOLEAN]
  /\ purpose = [l \in Logins |-> "long"] /\ now = [l \in Logins |-> 0]
  /\ hosts = [l \in Logins |-> 0] /\ reply = [l \in Logins |-> NoReply]
  /\ targets = [l \in Logins |-> 0] /\ conn = [l \in Logins |-> 0]
  /\ open = [l \in Logins |-> {}] /\ deferred = [l \in Logins |-> {}]
  /\ client = [l \in Logins |-> Fresh] /\ server = [l \in Logins |-> Away]
  /\ up = [l \in Logins |-> <<>>] /\ wire = [l \in Logins |-> <<>>]
  /\ rxbuf = [l \in Logins |-> <<>>] /\ recq = [l \in Logins |-> <<>>]
  /\ issued = [l \in Logins |-> {}] /\ psk = [l \in Logins |-> {}]
  /\ excused = [l \in Logins |-> FALSE]

-----------------------------------------------------------------------------
(* getDNSParsed *)

\* Either look-up takes the time before it asks the cache.
LookUp(l) ==
  /\ pc[l] \in {"idle", "short"}
  /\ now' = Set(now, l, clock)
  /\ Goto(l, "cache")
  /\ UNCHANGED <<clock, reachable, cache, hosts, reply, loop, conns, mmtls, psk, excused>>

\* getLonglinkTargets and getShortlinkTargets: the servers of the answer, or one that is known.
Resolved(l, n) ==
  /\ targets' = Set(targets, l, n)
  /\ Goto(l, IF purpose[l] = "long" THEN "next" ELSE "return")

Live(l) == {e \in cache : e.expires > now[l]}

AskCache(l) ==
  /\ pc[l] = "cache"
  /\ \/ \E e \in Live(l) :
          /\ reply' = Set(reply, l, [at |-> e.at, full |-> e.full])
          /\ Resolved(l, IF e.full THEN Servers ELSE 1)
          /\ UNCHANGED hosts
     \/ /\ Live(l) = {}
        /\ hosts' = Set(hosts, l, 2)
        /\ Goto(l, "ask")
        /\ UNCHANGED <<reply, targets>>
  /\ UNCHANGED <<clock, reachable, cache, now, purpose, proxied, conns, mmtls, psk, excused>>

\* requestNewDNS to the host, then to the backup; parseDomainList. An answer that parses may
\* still lack the servers.
RequestNewDNS(l) ==
  /\ pc[l] = "ask"
  /\ \/ \E full \in BOOLEAN :
          /\ reply' = Set(reply, l, [at |-> clock, full |-> full])
          /\ Goto(l, "keep") /\ UNCHANGED <<hosts, targets>>
     \/ /\ hosts' = Set(hosts, l, hosts[l] - 1)
        /\ IF hosts[l] > 1 THEN UNCHANGED <<pc, reply, targets>>
           ELSE Resolved(l, 1) /\ reply' = Set(reply, l, [at |-> now[l], full |-> FALSE])
  /\ UNCHANGED <<clock, reachable, cache, now, purpose, proxied, conns, mmtls, psk, excused>>

\* The entry's life counts from before the request. (Mutant: from its answer on.)
LateExpiry(l) == clock + TTL
Expiry(l) == now[l] + TTL
KeepAnswer(l) ==
  /\ pc[l] = "keep"
  /\ cache' = {[expires |-> Expiry(l), at |-> reply[l].at, full |-> reply[l].full]}
  /\ Resolved(l, IF reply[l].full THEN Servers ELSE 1)
  /\ UNCHANGED <<clock, reachable, resolver, purpose, proxied, conns, mmtls, psk, excused>>

-----------------------------------------------------------------------------
(* dialTCP, for a login as for a call *)

\* A new connection; the way on depends on who dials.
Connected(l) ==
  /\ reachable
  /\ conn' = Set(conn, l, conn[l] + 1)
  /\ open' = Set(open, l, open[l] \cup {conn[l] + 1})
NextStage(l) == IF purpose[l] = "call" THEN "post" ELSE "hello"
\* sendEnvelope does not allow the fallback of a session that has a proxy.
MayGoDirect(l) == FallbackDirect /\ purpose[l] # "call"

\* The loop's next target. The look-up has returned, its variables are gone.
NextTarget(l) ==
  /\ pc[l] = "next" /\ targets[l] > 0
  /\ excused' = Set(excused, l, FALSE)
  /\ Goto(l, IF proxied[l] THEN "proxy" ELSE "direct")
  /\ now' = Set(now, l, 0) /\ hosts' = Set(hosts, l, 0) /\ reply' = Set(reply, l, NoReply)
  /\ UNCHANGED <<clock, reachable, cache, loop, conns, mmtls, psk>>

NoProxy(l) == Goto(l, IF MayGoDirect(l) THEN "direct" ELSE "missed")

\* dialViaProxy.
DialProxy(l) ==
  /\ pc[l] = "proxy"
  /\ \/ Connected(l) /\ Goto(l, "tunnel") /\ UNCHANGED excused
     \/ NoProxy(l) /\ excused' = Set(excused, l, TRUE) /\ UNCHANGED <<conn, open>>
  /\ UNCHANGED <<clock, reachable, cache, resolver, loop, deferred, mmtls, psk>>

\* socks5Connect or httpConnect. (Mutant: the connection stays open when the proxy refuses.)
LeaveOpen(l) == open[l]
Closed(l) == open[l] \ {conn[l]}
Tunnel(l) ==
  /\ pc[l] = "tunnel"
  /\ \/ Goto(l, NextStage(l)) /\ UNCHANGED <<open, excused>>
     \/ /\ open' = Set(open, l, Closed(l))
        /\ NoProxy(l) /\ excused' = Set(excused, l, TRUE)
  /\ UNCHANGED <<clock, reachable, cache, resolver, loop, conn, deferred, mmtls, psk>>

DialDirect(l) ==
  /\ pc[l] = "direct"
  /\ \/ Connected(l) /\ Goto(l, NextStage(l)) /\ UNCHANGED excused
     \/ Goto(l, "missed") /\ excused' = Set(excused, l, TRUE) /\ UNCHANGED <<conn, open>>
  /\ UNCHANGED <<clock, reachable, cache, resolver, loop, deferred, mmtls, psk>>

\* The loop goes on with the next target.
Missed(l) ==
  /\ pc[l] = "missed"
  /\ targets' = Set(targets, l, targets[l] - 1)
  /\ Goto(l, "next")
  /\ UNCHANGED <<clock, reachable, cache, resolver, purpose, proxied, conns, mmtls, psk, excused>>

\* A target is given up: connectMmtls and send0RTTRaw close the connection, loginAndSession
\* leaves that to the end.
GiveUp(l) ==
  /\ Goto(l, "missed")
  /\ open' = IF pc[l] \in {"login", "answer"} THEN open ELSE Set(open, l, Closed(l))
  /\ UNCHANGED <<conn, deferred>>

\* External: the connection breaks under a read or a write.
Break(l) ==
  /\ pc[l] \in {"hello", "serverHello", "flight", "finish", "login", "answer", "post", "result"}
  /\ GiveUp(l)
  /\ excused' = Set(excused, l, TRUE)
  /\ UNCHANGED <<clock, reachable, cache, resolver, loop, mmtls, psk>>

-----------------------------------------------------------------------------
(* Records *)

Rec(key, seq, type, data) == [key |-> key, seq |-> seq, type |-> type, data |-> data]
Pieces(recs) == [i \in 1..2 * Len(recs) |-> [rec |-> recs[(i + 1) \div 2], part |-> (i + 1) % 2]]

\* parseRecords: the complete records at the front of the buffer.
Whole(buf, k) == \A i \in 1..2 * k : buf[i].part = (i + 1) % 2
Complete(buf) == CHOOSE k \in 0..Len(buf) \div 2 :
                   Whole(buf, k) /\ \A j \in 0..Len(buf) \div 2 : Whole(buf, j) => j <= k
ParseRecords(buf) == [i \in 1..Complete(buf) |-> buf[2 * i].rec]
\* What nextRecord keeps of the buffer. (Mutant: nothing.)
NoRest(buf) == <<>>
Rest(buf) == SubSeq(buf, 2 * Complete(buf) + 1, Len(buf))

\* nextRecord, until there is a record: parse what has been read, else read more.
NextRecord(l) ==
  /\ pc[l] \in {"serverHello", "flight", "answer"} /\ recq[l] = <<>>
  /\ \/ /\ Complete(rxbuf[l]) > 0
        /\ recq' = Set(recq, l, ParseRecords(rxbuf[l]))
        /\ rxbuf' = Set(rxbuf, l, Rest(rxbuf[l]))
        /\ UNCHANGED wire
     \/ /\ Complete(rxbuf[l]) = 0
        /\ \E n \in 1..Len(wire[l]) :
             /\ rxbuf' = Set(rxbuf, l, rxbuf[l] \o SubSeq(wire[l], 1, n))
             /\ wire' = Set(wire, l, SubSeq(wire[l], n + 1, Len(wire[l])))
        /\ UNCHANGED recq
  /\ UNCHANGED <<clock, reachable, cache, pc, resolver, loop, conns, client, up, server, issued, psk, excused>>

\* The read deadline passes: nothing is on its way and nothing will be.
Deadline(l) ==
  /\ pc[l] \in {"serverHello", "flight", "answer"}
  /\ recq[l] = <<>> /\ Complete(rxbuf[l]) = 0 /\ wire[l] = <<>> /\ up[l] = <<>>
  /\ GiveUp(l)
  /\ UNCHANGED <<clock, reachable, cache, resolver, loop, mmtls, psk, excused>>

\* sendPlain and sendEncrypted count what they have sent.
Send(l, c, recs) ==
  /\ client' = Set(client, l, [c EXCEPT !.tx = @ + Len(recs)])
  /\ up' = Set(up, l, recs)

\* recvPlain and recvDecrypt.
Opens(l, key) == Head(recq[l]).key = key /\ Head(recq[l]).seq = client[l].rx
Received(l, c) ==
  /\ client' = Set(client, l, [c EXCEPT !.rx = @ + 1])
  /\ recq' = Set(recq, l, Tail(recq[l]))

Key(label, transcript) == <<label>> \o transcript

-----------------------------------------------------------------------------
(* doHandshake *)

\* (Mutant: one mmtlsClient for all connections.)
OldClient(l) == client[l]
NewClient(l) == Fresh
SendClientHello(l) ==
  /\ pc[l] = "hello"
  /\ Send(l, [NewClient(l) EXCEPT !.hash = <<"CH">>], <<Rec(<<>>, 0, "CH", <<>>)>>)
  /\ server' = Set(server, l, Away)
  /\ wire' = Set(wire, l, <<>>) /\ rxbuf' = Set(rxbuf, l, <<>>) /\ recq' = Set(recq, l, <<>>)
  /\ Goto(l, "serverHello")
  /\ UNCHANGED <<clock, reachable, cache, resolver, loop, conns, issued, psk, excused>>

\* External: the server's flight. The order of CertificateVerify and NewSessionTicket is its
\* affair; without either of them, or with an alert, the login cannot succeed.
Flights == {<<"CV", "NST">>, <<"NST", "CV">>, <<"NST">>, <<"CV">>, <<"Alert">>}
Usual == {<<"CV", "NST">>, <<"NST", "CV">>}
ServerFlight(l) ==
  /\ up[l] # <<>> /\ Head(up[l]).type = "CH"
  /\ \E f \in Flights :
       LET hello == <<"CH", "SH">>
           final == hello \o f
           recs  == <<Rec(<<>>, 0, "SH", <<>>)>>
                    \o [i \in 1..Len(f) |-> Rec(Key("hsS", hello), i, f[i], <<>>)]
                    \o <<Rec(Key("hsS", hello), Len(f) + 1, "Fin", final)>>
       IN /\ wire' = Set(wire, l, Pieces(IF f = <<"Alert">> THEN <<Rec(<<>>, 0, "Alert", <<>>)>>
                                         ELSE recs))
          /\ server' = Set(server, l, [tx |-> Len(recs), final |-> final,
               certV |-> IF \E i \in 1..Len(f) : f[i] = "CV"
                         THEN hello \o SubSeq(f, 1, CHOOSE i \in 1..Len(f) : f[i] = "CV")
                         ELSE <<>>])
          /\ excused' = Set(excused, l, excused[l] \/ f \notin Usual)
  /\ up' = Set(up, l, <<>>)
  /\ UNCHANGED <<clock, reachable, cache, pc, resolver, loop, conns, client, rxbuf, recq, issued, psk>>

\* recvServerFlight: ServerHello in the clear, with the handshake keys from both hellos.
RecvServerHello(l) ==
  LET r == Head(recq[l])
      hash == client[l].hash \o <<"SH">>
  IN
  /\ pc[l] = "serverHello" /\ recq[l] # <<>>
  /\ \/ /\ r.type = "SH"
        /\ Received(l, [client[l] EXCEPT !.hash = hash, !.hs = hash])
        /\ Goto(l, "flight") /\ UNCHANGED conns
     \/ r.type # "SH" /\ GiveUp(l) /\ UNCHANGED <<client, recq>>
  /\ UNCHANGED <<clock, reachable, cache, resolver, loop, up, server, wire, rxbuf, issued, psk, excused>>

\* Its loop, up to Finished, which is verified against the transcript before it.
Noted(c, type) ==
  LET hash == c.hash \o <<type>>
  IN [c EXCEPT !.hash = hash, !.certV = IF type = "CV" THEN hash ELSE @,
               !.ticket = @ \/ type = "NST"]
RecvFlight(l) ==
  LET r == Head(recq[l])
      c == client[l]
      ok == Opens(l, Key("hsS", c.hs))
  IN
  /\ pc[l] = "flight" /\ recq[l] # <<>>
  /\ \/ /\ ok /\ r.type # "Fin"
        /\ Received(l, Noted(c, r.type))
        /\ UNCHANGED <<pc, conns>>
     \/ /\ ok /\ r.type = "Fin" /\ r.data = c.hash
        /\ Received(l, [c EXCEPT !.final = c.hash])
        /\ Goto(l, "finish") /\ UNCHANGED conns
     \/ /\ ~ok \/ (r.type = "Fin" /\ r.data # c.hash)
        /\ GiveUp(l) /\ UNCHANGED <<client, recq>>
  /\ UNCHANGED <<clock, reachable, cache, resolver, loop, up, server, wire, rxbuf, issued, psk, excused>>

\* sendClientFinished; connectMmtls returns, and loginAndSession defers the closing.
SendClientFinished(l) ==
  LET c == client[l] IN
  /\ pc[l] = "finish"
  /\ Send(l, c, <<Rec(Key("hsC", c.hs), c.tx, "Fin", c.final)>>)
  /\ deferred' = Set(deferred, l, deferred[l] \cup {conn[l]})
  /\ Goto(l, "login")
  /\ UNCHANGED <<clock, reachable, cache, resolver, loop, conn, open, server, wire, rxbuf, recq, issued, psk,
                 excused>>

-----------------------------------------------------------------------------
(* loginAndSession, over the connection *)

SendApp(l) ==
  LET c == client[l] IN
  /\ pc[l] = "login"
  /\ client' = Set(client, l, [c EXCEPT !.tx = @ + 1])
  /\ up' = Set(up, l, Append(up[l], Rec(Key("appC", c.final), c.tx, "ManualAuth", <<>>)))
  /\ Goto(l, "answer")
  /\ UNCHANGED <<clock, reachable, cache, resolver, loop, conns, server, wire, rxbuf, recq, issued, psk, excused>>

\* External: the server opens Finished and the request, and answers; it may refuse the login.
\* What it cannot open it does not answer.
ServerLogin(l) ==
  LET s == server[l]
      ok == up[l] = <<Rec(Key("hsC", SubSeq(s.final, 1, 2)), 1, "Fin", s.final),
                      Rec(Key("appC", s.final), 2, "ManualAuth", <<>>)>>
  IN
  /\ pc[l] = "answer" /\ up[l] # <<>>
  /\ \E type \in {"ManualAuth", "Other"} :
       /\ wire' = IF ok THEN Set(wire, l, wire[l] \o
                                   Pieces(<<Rec(Key("appS", s.final), s.tx, type, <<>>)>>))
                  ELSE wire
       /\ excused' = Set(excused, l, excused[l] \/ (ok /\ type = "Other"))
       /\ issued' = IF ok THEN Set(issued, l, issued[l] \cup {[conn |-> conn[l], certV |-> s.certV]})
                    ELSE issued
  /\ up' = Set(up, l, <<>>)
  /\ UNCHANGED <<clock, reachable, cache, pc, resolver, loop, conns, client, server, rxbuf, recq, psk>>

\* recvApp, parseLoginResponse, extractSession; extractPSKs and pickAccessPSK need the
\* CertificateVerify and a ticket.
RecvApp(l) ==
  LET c == client[l]
      ok == /\ Opens(l, Key("appS", c.final)) /\ Head(recq[l]).type = "ManualAuth"
            /\ c.certV # <<>> /\ c.ticket
  IN
  /\ pc[l] = "answer" /\ recq[l] # <<>>
  /\ \/ /\ ok /\ Received(l, c)
        /\ psk' = Set(psk, l, {[conn |-> conn[l], certV |-> c.certV]})
        /\ purpose' = Set(purpose, l, "short")
        /\ Goto(l, "short") /\ UNCHANGED conns
     \/ ~ok /\ GiveUp(l) /\ UNCHANGED <<client, recq, psk, purpose>>
  /\ UNCHANGED <<clock, reachable, cache, resolver, targets, proxied, up, server, wire, rxbuf, issued, excused>>

\* It returns, and the deferred calls close its connections: with a session or the last error,
\* or at once because the login buffer is of no use.
Leave(l, p) ==
  /\ Goto(l, p)
  /\ open' = Set(open, l, open[l] \ deferred[l])
  /\ deferred' = Set(deferred, l, {})
  /\ UNCHANGED <<clock, reachable, cache, resolver, loop, conn, mmtls, psk, excused>>
Return(l) ==
  \/ pc[l] = "return" /\ Leave(l, "session")
  \/ pc[l] = "next" /\ targets[l] = 0 /\ purpose[l] = "long" /\ Leave(l, "failed")
BadBuffer(l) == pc[l] = "login" /\ Leave(l, "failed")

-----------------------------------------------------------------------------
(* sendEnvelope *)

Calling == {l \in Logins : purpose[l] = "call" /\ pc[l] \notin {"done", "failed"}}

\* A slot, or the end of the request's context.
Acquire(l) ==
  /\ pc[l] = "session"
  /\ \/ Cardinality(Calling) < Slots /\ purpose' = Set(purpose, l, "call") /\ Goto(l, "next")
     \/ Goto(l, "failed") /\ UNCHANGED purpose
  /\ UNCHANGED <<clock, reachable, cache, resolver, targets, proxied, conns, mmtls, psk, excused>>

\* build0RTTRequest and the POST; the first record is the PSK hello, the early data follow.
Post(l) ==
  /\ pc[l] = "post"
  /\ \E p \in psk[l] :
       up' = Set(up, l, [i \in 1..3 |-> Rec(Key("early", p.certV), i,
                                            <<"T8", "Data", "Alert">>[i], <<p.conn>>)])
  /\ wire' = Set(wire, l, <<>>)
  /\ Goto(l, "result")
  /\ UNCHANGED <<clock, reachable, cache, resolver, loop, conns, client, server, rxbuf, recq, issued, psk, excused>>

\* External: the server knows the PSK or answers nothing of use. Which transcript its key is
\* derived from and which number the record has is its affair, within what the code expects.
Transcripts == {<<"CH", "SH">>, <<"CH", "T8", "SH">>, <<"CH", "SH", "T8">>}
ServerCall(l) ==
  /\ pc[l] = "result" /\ up[l] # <<>>
  /\ \E t \in Transcripts, n \in 1..3 :
       wire' = IF \E p \in issued[l] : /\ up[l][2].key = Key("early", p.certV)
                                       /\ up[l][2].data = <<p.conn>> /\ p.certV # <<>>
               THEN Set(wire, l, <<Rec(Key("psk", t), n, "Data", up[l][2].data)>>)
               ELSE wire
  /\ up' = Set(up, l, <<>>)
  /\ UNCHANGED <<clock, reachable, cache, pc, resolver, loop, conns, client, server, rxbuf, recq, issued, psk,
                 excused>>

\* io.ReadAll and parse0RTTResponse, which tries the transcripts and numbers one by one.
RecvResult(l) ==
  LET ok == \E p \in psk[l], t \in Transcripts, n \in 1..3 :
              wire[l] = <<Rec(Key("psk", t), n, "Data", <<p.conn>>)>>
  IN
  /\ pc[l] = "result" /\ up[l] = <<>>
  /\ \/ /\ ok /\ Goto(l, "done")
        /\ open' = Set(open, l, Closed(l)) /\ UNCHANGED <<conn, deferred>>
     \/ ~ok /\ GiveUp(l)
  /\ UNCHANGED <<clock, reachable, cache, resolver, loop, mmtls, psk, excused>>

\* Every target has failed; release.
CallFails(l) ==
  /\ pc[l] = "next" /\ targets[l] = 0 /\ purpose[l] = "call"
  /\ Goto(l, "failed")
  /\ UNCHANGED <<clock, reachable, cache, resolver, loop, conns, mmtls, psk, excused>>

Tick ==
  /\ clock < MaxTime /\ clock' = clock + 1
  /\ UNCHANGED <<reachable, cache, pc, resolver, loop, conns, mmtls, psk, excused>>

Step(l) ==
  \/ LookUp(l) \/ AskCache(l) \/ RequestNewDNS(l) \/ KeepAnswer(l)
  \/ NextTarget(l) \/ DialProxy(l) \/ Tunnel(l) \/ DialDirect(l) \/ Missed(l) \/ Break(l)
  \/ NextRecord(l) \/ Deadline(l)
  \/ SendClientHello(l) \/ ServerFlight(l) \/ RecvServerHello(l) \/ RecvFlight(l)
  \/ SendClientFinished(l) \/ BadBuffer(l) \/ SendApp(l) \/ ServerLogin(l) \/ RecvApp(l)
  \/ Return(l)
  \/ Acquire(l) \/ Post(l) \/ ServerCall(l) \/ RecvResult(l) \/ CallFails(l)

Next == Tick \/ \E l \in Logins : Step(l)

Spec == Init /\ [][Next]_vars

-----------------------------------------------------------------------------
(* Properties *)

Positions ==
  {"off", "idle", "cache", "ask", "keep", "next", "proxy", "tunnel", "direct", "missed", "hello",
   "serverHello", "flight", "finish", "login", "answer", "short", "return", "session", "post",
   "result", "done", "failed"}

\* Type invariant; at most Slots calls are on the network, and a login has the session it
\* calls with.
TypeOK ==
  /\ clock \in 0..MaxTime /\ reachable \in BOOLEAN /\ pc \in [Logins -> Positions]
  /\ purpose \in [Logins -> {"long", "short", "call"}] /\ proxied \in [Logins -> BOOLEAN]
  /\ targets \in [Logins -> 0..Servers + 1] /\ hosts \in [Logins -> 0..2]
  /\ \A l \in Logins : /\ deferred[l] \subseteq open[l] /\ open[l] \subseteq 1..conn[l]
                       /\ client[l].tx \in 0..3
                       /\ pc[l] \in {"session", "post", "result", "done"} => psk[l] # {}
  /\ Cardinality(Calling) <= Slots

\* Client and server stay in step: a target is given up only when something outside the code
\* went wrong with it (a dial or a connection failed, the server left out what the login needs
\* or refused it). Record numbers, transcripts, keys and the reassembly of records never fail
\* a login or a call by themselves, in whatever pieces and order the server's flight arrives.
InStep == \A l \in Logins : pc[l] = "missed" => excused[l]

\* A login or call that is over has closed every connection it opened, also those of targets
\* that failed before, between or after the handshake, and those to a proxy that refused.
ConnsClosed == \A l \in Logins : pc[l] \in {"session", "done", "failed"} => open[l] = {}

\* A look-up never goes by an answer that had reached its time to live when the look-up began,
\* although look-ups overlap, answers are late and the slower of two writes the cache last.
FreshAnswers ==
  \A l \in Logins : pc[l] \in {"next", "return"} /\ purpose[l] # "call" => reply[l].at + TTL > now[l]
=============================================================================
