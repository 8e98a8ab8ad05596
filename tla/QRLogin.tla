------------------------------- MODULE QRLogin -------------------------------
(***************************************************************************)
(* QR login: internal/qr/qr.go and its handlers handleQRRoot and handleQR  *)
(* (internal/httpapi/app.go), behind the console's login (Auth).           *)
(*                                                                         *)
(* App.mu guards the map of sessions; it is never held across a call, so a *)
(* critical section is one step. Session.mu is held through a long poll or *)
(* through the exchange of the authorisation code. The image of a session  *)
(* is a file that no lock guards. Everything may fail: calls to WeChat,    *)
(* the image's write (ignored by the code), the account's row. WeChat and  *)
(* the user's phone are external.                                          *)
(***************************************************************************)
EXTENDS Auth

CONSTANTS Sids,  \* bound: session ids that can be drawn
          Nobody

ASSUME QRAssumption == Nobody \notin Requests \cup Sids

VARIABLES
  qrSessions, \* App.qrSessions: ids in the map
  drawn,      \* ids drawn so far, by earlier sessions that are gone too
  old,        \* sessions older than QRSessionTTL
  images,     \* sessions whose image file exists
  codes,      \* sessions with an AuthorizeCode
  jars,       \* sessions whose cookie jar has the credentials
  buffers,    \* sessions with a LoginBuffer and Credentials
  mu,         \* Session.mu: session -> holder
  approved,   \* external: sessions the phone has approved
  redeemed,   \* external: the authorisation code has been redeemed
  stored,     \* external: scans whose account was upserted
  sid,        \* a request's session
  files,      \* the files it is about to remove, or those it will keep
  acked,      \* sessions whose creation was answered
  \* history: sessions that grew too old; that a poll gave up on; that were entered during
  \* another request's clean-up; whose image was not written
  pruned, givenUp, overlapped, unwritten

sessionState == <<codes, jars, buffers, mu>>
wechat  == <<approved, redeemed>>
history == <<pruned, givenUp, overlapped, unwritten>>
locals  == <<sid, files>>
qrVars  == <<qrSessions, drawn, old, images, sessionState, wechat, stored, acked, locals, history>>
auth    == <<keyed, attempts, tokens, ip>>
vars    == <<authVars, qrVars>>

Set(f, r, v) == [f EXCEPT ![r] = v]

QRInit ==
  /\ qrSessions = {} /\ drawn \in SUBSET Sids /\ old = {} /\ images = {}
  /\ codes = {} /\ jars = {} /\ buffers = {} /\ mu = [s \in Sids |-> Nobody]
  /\ approved = {} /\ redeemed = {} /\ stored = {}
  /\ sid = [r \in Requests |-> Nobody] /\ files = [r \in Requests |-> {}]
  /\ pruned = {} /\ givenUp = {} /\ overlapped = {} /\ unwritten = {} /\ acked = {}

Init == AuthInit /\ QRInit

\* The handler has written its answer.
Answer(r) == Goto(r, "idle") /\ sid' = Set(sid, r, Nobody) /\ files' = Set(files, r, {})

-----------------------------------------------------------------------------
(* POST /qr *)

\* pruneQR: sessions past their time leave the map; their images are removed after it.
Prune(r) ==
  /\ pc[r] = "idle" /\ Admitted /\ drawn # Sids
  /\ qrSessions' = qrSessions \ old
  /\ files' = Set(files, r, qrSessions \cap old)
  /\ pruned' = pruned \cup (qrSessions \cap old)
  /\ Goto(r, "pruned")
  /\ UNCHANGED <<auth, drawn, old, images, sessionState, wechat, stored, sid,
                 givenUp, overlapped, unwritten, acked>>

PruneImages(r) ==
  /\ pc[r] = "pruned"
  /\ images' = images \ files[r]
  /\ Goto(r, "fetch")
  /\ UNCHANGED <<auth, qrSessions, drawn, old, sessionState, wechat, stored, locals, acked, history>>

\* GetQRCodeImage: CreateSession and FetchQRCodeImage, either of which may fail. (Bound: the
\* ids are not used up.)
GetQRCodeImage(r) ==
  /\ pc[r] = "fetch"
  /\ \/ \E s \in Sids \ drawn :
          /\ drawn' = drawn \cup {s}
          /\ sid' = Set(sid, r, s)
          /\ Goto(r, "insert") /\ UNCHANGED files
     \/ Answer(r) /\ UNCHANGED drawn
  /\ UNCHANGED <<auth, qrSessions, old, images, sessionState, wechat, stored, acked, history>>

\* The session is entered and the map is copied; other requests between their copy and the end
\* of their clean-up do not know it.
KeepOthers(r) == qrSessions  \* mutant: copied before the session is entered
Keep(r) == qrSessions \cup {sid[r]}
Cleaning == {q \in Requests : pc[q] \in {"write", "glob", "sweep"}}
Insert(r) ==
  /\ pc[r] = "insert"
  /\ qrSessions' = qrSessions \cup {sid[r]}
  /\ files' = Set(files, r, Keep(r))
  /\ overlapped' = IF Cleaning = {} THEN overlapped ELSE overlapped \cup {sid[r]}
  /\ Goto(r, "write")
  /\ UNCHANGED <<auth, drawn, old, images, sessionState, wechat, stored, sid,
                 pruned, givenUp, unwritten, acked>>

\* os.WriteFile, its error ignored.
Write(r) ==
  /\ pc[r] = "write"
  /\ \/ images' = images \cup {sid[r]} /\ UNCHANGED unwritten
     \/ unwritten' = unwritten \cup {sid[r]} /\ UNCHANGED images
  /\ Goto(r, "glob")
  /\ UNCHANGED <<auth, qrSessions, drawn, old, sessionState, wechat, stored, locals,
                 pruned, givenUp, overlapped, acked>>

\* cleanupQR: first the names of all images, then the removal of those that are not kept.
Glob(r) ==
  /\ pc[r] = "glob"
  /\ files' = Set(files, r, images \ files[r])
  /\ Goto(r, "sweep")
  /\ UNCHANGED <<auth, qrSessions, drawn, old, images, sessionState, wechat, stored, sid,
                 acked, history>>

Sweep(r) ==
  /\ pc[r] = "sweep"
  /\ images' = images \ files[r]
  /\ acked' = acked \cup {sid[r]}
  /\ Answer(r)
  /\ UNCHANGED <<auth, qrSessions, drawn, old, sessionState, wechat, stored,
                 history>>

-----------------------------------------------------------------------------
(* GET /qr/{id}/poll *)

\* getQRSession; the pointer stays valid when the session leaves the map.
Lookup(r, handler) ==
  /\ pc[r] = "idle" /\ Admitted
  /\ \E s \in qrSessions \cap acked : sid' = Set(sid, r, s)
  /\ Goto(r, handler)
  /\ UNCHANGED <<auth, qrSessions, drawn, old, images, sessionState, wechat, stored, files,
                 acked, history>>

\* Session.mu is free. (Mutant: not waited for.)
Unguarded(s) == TRUE
Free(s) == mu[s] = Nobody

\* PollQRCode answers from the session, or holds the mutex through the long poll.
Poll(r) ==
  LET s == sid[r] IN
  /\ pc[r] = "poll" /\ Free(s)
  /\ \/ s \in buffers \cup codes /\ Answer(r) /\ UNCHANGED mu
     \/ s \notin buffers \cup codes /\ mu' = Set(mu, s, r) /\ Goto(r, "longpoll")
        /\ UNCHANGED locals
  /\ UNCHANGED <<auth, qrSessions, drawn, old, images, codes, jars, buffers, wechat, stored,
                 acked, history>>

\* parsePoll finds 405 and a code. (Mutant: the scan alone is taken for the approval.)
Scanned(s) == s \in acked
Authorized(s) == s \in approved

\* The long poll ends: 405 with a code; 402, 403 or something else, which terminalQR gives up
\* on; 408, 404 or no answer at all, after which the client polls again.
LongPoll(r) ==
  LET s == sid[r] IN
  /\ pc[r] = "longpoll"
  /\ mu' = Set(mu, s, Nobody)
  /\ \/ Authorized(s) /\ codes' = codes \cup {s} /\ Answer(r) /\ UNCHANGED givenUp
     \/ givenUp' = givenUp \cup {s} /\ Goto(r, "drop") /\ UNCHANGED <<codes, locals>>
     \/ Answer(r) /\ UNCHANGED <<codes, givenUp>>
  /\ UNCHANGED <<auth, qrSessions, drawn, old, images, jars, buffers, wechat, stored,
                 pruned, overlapped, unwritten, acked>>

\* dropQRSession: the map under App.mu, then the image.
Drop(r) ==
  /\ pc[r] = "drop"
  /\ qrSessions' = qrSessions \ {sid[r]}
  /\ Goto(r, "unlink")
  /\ UNCHANGED <<auth, drawn, old, images, sessionState, wechat, stored, locals, acked, history>>

Unlink(r) ==
  /\ pc[r] = "unlink"
  /\ images' = images \ {sid[r]}
  /\ Answer(r)
  /\ UNCHANGED <<auth, qrSessions, drawn, old, sessionState, wechat, stored, acked, history>>

-----------------------------------------------------------------------------
(* POST /qr/{id}/confirm *)

\* GetLoginBuffer: what an earlier confirmation got, a refusal, or the exchange of the code.
Confirm(r) ==
  LET s == sid[r] IN
  /\ pc[r] = "confirm" /\ Free(s)
  /\ \/ s \in buffers /\ Goto(r, "store") /\ UNCHANGED <<mu, locals>>
     \/ s \notin buffers \cup codes /\ Answer(r) /\ UNCHANGED mu
     \/ s \in codes \ buffers /\ mu' = Set(mu, s, r) /\ Goto(r, "callback") /\ UNCHANGED locals
  /\ UNCHANGED <<auth, qrSessions, drawn, old, images, codes, jars, buffers, wechat, stored,
                 acked, history>>

Release(r) == mu' = Set(mu, sid[r], Nobody) /\ Answer(r)

\* The OAuth callback redeems the code and fills the jar; a code is good for one redemption,
\* the jar keeps what it brought. The call, or its answer, may be lost.
Callback(r) ==
  LET s == sid[r] IN
  /\ pc[r] = "callback"
  /\ \/ s \notin redeemed /\ jars' = jars \cup {s} /\ redeemed' = redeemed \cup {s}
        /\ Goto(r, "fetchBuffer") /\ UNCHANGED <<mu, locals>>
     \/ s \in jars /\ Goto(r, "fetchBuffer") /\ UNCHANGED <<mu, locals, jars, redeemed>>
     \/ redeemed' = redeemed \cup {s} /\ Release(r) /\ UNCHANGED jars
     \/ Release(r) /\ UNCHANGED <<jars, redeemed>>
  /\ UNCHANGED <<auth, qrSessions, drawn, old, images, codes, buffers, approved,
                 stored, pruned, givenUp, overlapped, unwritten, acked>>

\* FetchLoginBuffer.
FetchLoginBuffer(r) ==
  LET s == sid[r] IN
  /\ pc[r] = "fetchBuffer"
  /\ mu' = Set(mu, s, Nobody)
  /\ \/ buffers' = buffers \cup {s} /\ Goto(r, "store") /\ UNCHANGED locals
     \/ Answer(r) /\ UNCHANGED buffers
  /\ UNCHANGED <<auth, qrSessions, drawn, old, images, codes, jars, wechat, stored, acked, history>>

\* FetchUserInfo, whose error is ignored, and storeFromScan; a failed write leaves the session
\* to another confirmation. (Mutant: the session is dropped all the same.)
Discard(r) == Goto(r, "drop") /\ UNCHANGED locals
StoreFailed(r) == Answer(r)
Store(r) ==
  /\ pc[r] = "store"
  /\ \/ stored' = stored \cup {sid[r]} /\ Goto(r, "drop") /\ UNCHANGED locals
     \/ StoreFailed(r) /\ UNCHANGED stored
  /\ UNCHANGED <<auth, qrSessions, drawn, old, images, sessionState, wechat, acked, history>>

-----------------------------------------------------------------------------
\* External: the user scans and approves; a session reaches its TTL.
Environment ==
  /\ \/ \E s \in acked \ approved : approved' = approved \cup {s} /\ UNCHANGED old
     \/ \E s \in qrSessions \ old : old' = old \cup {s} /\ UNCHANGED approved
  /\ UNCHANGED <<authVars, qrSessions, drawn, images, sessionState, redeemed, stored, acked,
                 locals, history>>

QRStep(r) ==
  \/ Prune(r) \/ PruneImages(r) \/ GetQRCodeImage(r) \/ Insert(r) \/ Write(r) \/ Glob(r)
  \/ Sweep(r)
  \/ Lookup(r, "poll") \/ Poll(r) \/ LongPoll(r) \/ Drop(r) \/ Unlink(r)
  \/ Lookup(r, "confirm") \/ Confirm(r) \/ Callback(r) \/ FetchLoginBuffer(r) \/ Store(r)

Next ==
  \/ \E r \in Requests : QRStep(r)
  \/ \E r \in Requests : AuthStep(r) /\ UNCHANGED qrVars
  \/ Lapse /\ UNCHANGED qrVars
  \/ Environment

Spec == Init /\ [][Next]_vars

-----------------------------------------------------------------------------
(* Properties *)

Positions ==
  {"idle", "record", "clear", "create", "pruned", "fetch", "insert", "write", "glob", "sweep",
   "poll", "longpoll", "drop", "unlink", "confirm", "callback", "fetchBuffer", "store"}

TypeOK ==
  /\ AuthTypeOK
  /\ pc \in [Requests -> Positions]
  /\ sid \in [Requests -> Sids \cup {Nobody}] /\ files \in [Requests -> SUBSET Sids]
  /\ mu \in [Sids -> Requests \cup {Nobody}]
  /\ drawn \subseteq Sids /\ qrSessions \subseteq drawn
  /\ acked \subseteq drawn /\ old \subseteq drawn /\ images \subseteq drawn
  /\ approved \subseteq acked /\ codes \subseteq approved
  /\ redeemed \subseteq codes /\ jars \subseteq redeemed /\ buffers \subseteq jars
  /\ stored \subseteq buffers
  /\ pruned \subseteq drawn /\ givenUp \subseteq drawn /\ overlapped \subseteq drawn
  /\ unwritten \subseteq drawn

\* A session's code is redeemed by one request at a time and never again once it has brought
\* a login buffer, although confirmations of the same session overlap.
RedeemedOnce ==
  /\ \A r \in Requests : pc[r] \in {"callback", "fetchBuffer"} => sid[r] \notin buffers
  /\ \A r, q \in Requests : pc[r] \in {"callback", "fetchBuffer"}
                            /\ pc[q] \in {"callback", "fetchBuffer"} /\ sid[r] = sid[q] => r = q

\* An authorised scan is not thrown away: its session stays to be confirmed until the account
\* is stored, unless it grew too old or a poll that ran beside had given it up.
AuthorizedKept == codes \subseteq (qrSessions \cup stored \cup pruned \cup givenUp)

\* A session whose creation was answered has its image for as long as it is in the map, unless
\* the image could not be written or another creation was cleaning up when it was entered:
\* that one's copy of the map is stale and its clean-up removes the new image.
ImageKept == (acked \cap qrSessions) \ (unwritten \cup overlapped) \subseteq images
=============================================================================
