---------------------------- MODULE ConsoleProofs ----------------------------
(* Theorems about QRLogin and Auth, for every value of their constants. *)
EXTENDS QRLogin, FiniteSetTheorems, TLAPS

\* Positions at which a request creates a session, works on one that was answered, holds its
\* mutex, and redeems its code.
Creating  == {"insert", "write", "glob", "sweep"}
Handling  == {"poll", "longpoll", "drop", "unlink", "confirm", "callback", "fetchBuffer", "store"}
Holding   == {"longpoll", "callback", "fetchBuffer"}
Redeeming == {"callback", "fetchBuffer"}

\* What a request's position says of its session.
Locals ==
  \A r \in Requests :
    /\ pc[r] \in Creating \cup Handling => sid[r] \in drawn
    /\ pc[r] \in Handling => sid[r] \in acked
    /\ pc[r] \in Holding => mu[sid[r]] = r
    /\ pc[r] \in Redeeming => sid[r] \in codes \ buffers
    /\ pc[r] = "fetchBuffer" => sid[r] \in jars
    /\ pc[r] = "store" => sid[r] \in buffers

IInv == TypeOK /\ Locals

USE DEF Goto, Set, Creating, Handling, Holding, Redeeming

-----------------------------------------------------------------------------
(* Types *)

\* At the start nobody is known and no session is open.
LEMMA InitTypes == ASSUME Init PROVE IInv
BY QRAssumption, AuthAssumption
   DEF Init, AuthInit, QRInit, IInv, TypeOK, AuthTypeOK, Locals, Positions

\* The console's login.
LEMMA AuthTypes ==
  ASSUME IInv, UNCHANGED qrVars, (\E r \in Requests : AuthStep(r)) \/ Lapse
  PROVE  IInv'
<1> USE DEF IInv, TypeOK, AuthTypeOK, Locals, Positions, qrVars, sessionState, wechat, locals,
            history, attempts, tokens
<1>1. CASE Lapse
  BY <1>1 DEF Lapse
<1>2. ASSUME NEW r \in Requests, NEW i \in Ips, Login(r, i) PROVE IInv'
  BY <1>2 DEF Login
<1>3. ASSUME NEW r \in Requests, RecordLoginFailure(r) PROVE IInv'
  BY <1>3 DEF RecordLoginFailure
<1>4. ASSUME NEW r \in Requests, ClearLoginFailures(r) PROVE IInv'
  BY <1>4 DEF ClearLoginFailures
<1>5. ASSUME NEW r \in Requests, CreateSession(r) PROVE IInv'
  BY <1>5 DEF CreateSession, NewToken
<1>6. ASSUME NEW r \in Requests, Forget(r) PROVE IInv'
  BY <1>6 DEF Forget
<1> QED BY <1>1, <1>2, <1>3, <1>4, <1>5, <1>6 DEF AuthStep

\* Creating a session.
LEMMA CreateTypes ==
  ASSUME IInv, NEW r \in Requests,
         \/ Prune(r) \/ PruneImages(r) \/ GetQRCodeImage(r) \/ Insert(r) \/ Write(r) \/ Glob(r)
         \/ Sweep(r)
  PROVE  IInv'
<1> USE DEF IInv, TypeOK, AuthTypeOK, Locals, Positions, sessionState, wechat, locals,
            history, attempts, tokens, auth, Answer
<1>1. CASE Prune(r)
  BY <1>1 DEF Prune
<1>2. CASE PruneImages(r)
  BY <1>2 DEF PruneImages
<1>3. CASE GetQRCodeImage(r)
  BY <1>3 DEF GetQRCodeImage
<1>4. CASE Insert(r)
  BY <1>4 DEF Insert, Keep
<1>5. CASE Write(r)
  BY <1>5 DEF Write
<1>6. CASE Glob(r)
  BY <1>6 DEF Glob
<1>7. CASE Sweep(r)
  BY <1>7 DEF Sweep
<1> QED BY <1>1, <1>2, <1>3, <1>4, <1>5, <1>6, <1>7

\* Polling a session and dropping it.
LEMMA PollTypes ==
  ASSUME IInv, NEW r \in Requests,
         Lookup(r, "poll") \/ Lookup(r, "confirm") \/ Poll(r) \/ LongPoll(r) \/ Drop(r) \/ Unlink(r)
  PROVE  IInv'
<1> USE QRAssumption
    DEF IInv, TypeOK, AuthTypeOK, Locals, Positions, sessionState, wechat, locals,
            history, attempts, tokens, auth, Answer
<1>1. CASE Lookup(r, "poll")
  BY <1>1 DEF Lookup
<1>2. CASE Lookup(r, "confirm")
  BY <1>2 DEF Lookup
<1>3. CASE Poll(r)
  BY <1>3 DEF Poll, Free
<1>4. CASE LongPoll(r)
  BY <1>4 DEF LongPoll, Authorized
<1>5. CASE Drop(r)
  BY <1>5 DEF Drop
<1>6. CASE Unlink(r)
  BY <1>6 DEF Unlink
<1> QED BY <1>1, <1>2, <1>3, <1>4, <1>5, <1>6

\* Confirming it.
LEMMA ConfirmTypes ==
  ASSUME IInv, NEW r \in Requests,
         Confirm(r) \/ Callback(r) \/ FetchLoginBuffer(r) \/ Store(r)
  PROVE  IInv'
<1> USE QRAssumption
    DEF IInv, TypeOK, AuthTypeOK, Locals, Positions, sessionState, wechat, locals,
            history, attempts, tokens, auth, Answer
<1>1. CASE Confirm(r)
  BY <1>1 DEF Confirm, Free
<1>2. CASE Callback(r)
  BY <1>2 DEF Callback, Release
<1>3. CASE FetchLoginBuffer(r)
  BY <1>3 DEF FetchLoginBuffer
<1>4. CASE Store(r)
  BY <1>4 DEF Store, StoreFailed
<1> QED BY <1>1, <1>2, <1>3, <1>4

\* The passing of time keeps the types.
LEMMA EnvironmentTypes ==
  ASSUME IInv, Environment
  PROVE  IInv'
BY DEF IInv, TypeOK, AuthTypeOK, Locals, Positions, Environment, sessionState, wechat, locals,
       history, authVars, attempts, tokens

\* Every step keeps the types.
LEMMA StepTypes == ASSUME IInv, [Next]_vars PROVE IInv'
<1>1. CASE UNCHANGED vars
  BY <1>1 DEF vars, authVars, qrVars, IInv, TypeOK, AuthTypeOK, Locals, Positions, sessionState,
              wechat, locals, history, attempts, tokens
<1>2. CASE Next
  BY <1>2, AuthTypes, CreateTypes, PollTypes, ConfirmTypes, EnvironmentTypes DEF Next, QRStep
<1> QED BY <1>1, <1>2

\* The type invariant of the console: a code is one that the phone approved, what is redeemed,
\* fetched and stored follows from it, and nothing is answered before it was drawn.
THEOREM TypeSafe == Spec => []TypeOK
<1>1. Spec => []IInv
  BY InitTypes, StepTypes, PTL DEF Spec
<1> QED BY <1>1, PTL DEF IInv

-----------------------------------------------------------------------------
(* Redeeming codes, keeping scans *)

\* Overlapping confirmations of a session redeem its code one at a time, and never again after
\* it brought a login buffer: Session.mu is held from the look at the buffer to its arrival.
THEOREM OneRedemption == Spec => []RedeemedOnce
<1>1. IInv => RedeemedOnce
  BY DEF IInv, Locals, RedeemedOnce
<1>2. Spec => []IInv
  BY InitTypes, StepTypes, PTL DEF Spec
<1> QED BY <1>1, <1>2, PTL

\* Where an answered session can be, and why it was dropped.
Known == qrSessions \cup stored \cup pruned \cup givenUp
KeptInv ==
  /\ acked \subseteq Known
  /\ \A r \in Requests : /\ pc[r] \in {"write", "glob", "sweep"} => sid[r] \in Known
                         /\ pc[r] = "drop" => sid[r] \in stored \cup givenUp

\* Every step keeps KeptInv.
LEMMA KeptStep == ASSUME IInv, KeptInv, [Next]_vars PROVE KeptInv'
<1> USE DEF IInv, TypeOK, AuthTypeOK, Locals, KeptInv, Known, Positions, sessionState, wechat,
            locals, history, attempts, tokens, auth, authVars, qrVars, Answer
<1>1. CASE UNCHANGED vars \/ Environment \/ (Lapse /\ UNCHANGED qrVars)
  BY <1>1 DEF vars, Environment, Lapse
<1>2. ASSUME NEW r \in Requests, AuthStep(r), UNCHANGED qrVars PROVE KeptInv'
  BY <1>2 DEF AuthStep, Login, RecordLoginFailure, ClearLoginFailures, CreateSession, Forget
<1>3. ASSUME NEW r \in Requests, Prune(r) \/ PruneImages(r) \/ GetQRCodeImage(r) PROVE KeptInv'
  BY <1>3 DEF Prune, PruneImages, GetQRCodeImage
<1>4. ASSUME NEW r \in Requests, Insert(r) \/ Write(r) \/ Glob(r) \/ Sweep(r) PROVE KeptInv'
  BY <1>4 DEF Insert, Keep, Write, Glob, Sweep
<1>5. ASSUME NEW r \in Requests, Lookup(r, "poll") \/ Lookup(r, "confirm") \/ Poll(r) PROVE KeptInv'
  BY <1>5 DEF Lookup, Poll
<1>6. ASSUME NEW r \in Requests, LongPoll(r) \/ Drop(r) \/ Unlink(r) PROVE KeptInv'
  BY <1>6 DEF LongPoll, Drop, Unlink
<1>7. ASSUME NEW r \in Requests, Confirm(r) \/ Callback(r) \/ FetchLoginBuffer(r) \/ Store(r)
      PROVE KeptInv'
  BY <1>7 DEF Confirm, Callback, Release, FetchLoginBuffer, Store, StoreFailed
<1> QED BY <1>1, <1>2, <1>3, <1>4, <1>5, <1>6, <1>7 DEF Next, QRStep

\* An authorised scan stays to be confirmed until its account is stored, unless it grew too old
\* or a poll beside it had given it up: a session leaves the map for no other reason, and its
\* code comes to it after its creation was answered.
THEOREM ScansKept == Spec => []AuthorizedKept
<1>1. Init => KeptInv
  BY QRAssumption, AuthAssumption DEF Init, AuthInit, QRInit, KeptInv, Known
<1>2. IInv /\ KeptInv => AuthorizedKept
  BY DEF IInv, TypeOK, KeptInv, Known, AuthorizedKept
<1>3. Spec => [](IInv /\ KeptInv)
  BY <1>1, InitTypes, StepTypes, KeptStep, PTL DEF Spec
<1> QED BY <1>2, <1>3, PTL

-----------------------------------------------------------------------------
(* The console's login *)

\* A session that was logged out or found expired does not come back: the map grows only by
\* tokens that were never handed out.
THEOREM RevokedStay == Spec => RevokedForGood
<1>1. ASSUME IInv, [Next]_vars
      PROVE  [\A t \in issued : t \notin sessions => t \notin sessions']_sessions
  <2>1. CASE \E r \in Requests : AuthStep(r)
    BY <1>1, <2>1 DEF AuthStep, Login, RecordLoginFailure, ClearLoginFailures, CreateSession,
                      NewToken, Forget, tokens
  <2>2. CASE UNCHANGED sessions
    BY <2>2
  <2>3. ASSUME NEW r \in Requests, QRStep(r) PROVE UNCHANGED sessions
    BY <2>3 DEF QRStep, Prune, PruneImages, GetQRCodeImage, Insert, Write, Glob, Sweep, Lookup, Poll,
                LongPoll, Drop, Unlink, Confirm, Callback, FetchLoginBuffer, Store, auth, tokens
  <2> QED BY <1>1, <2>1, <2>2, <2>3 DEF Next, Lapse, Environment, vars, authVars, tokens
<1>2. Spec => []IInv
  BY InitTypes, StepTypes, PTL DEF Spec
<1> QED BY <1>1, <1>2, PTL DEF Spec, RevokedForGood

\* The logins that are pending are finitely many, and one that is booked is one less.
LEMMA PendingFinite ==
  ASSUME NEW i \in Ips
  PROVE  /\ IsFiniteSet(Pending(i)) /\ Cardinality(Pending(i)) \in Nat
         /\ Cardinality(Requests) \in Nat /\ Cardinality(Pending(i)) <= Cardinality(Requests)
BY AuthAssumption, FS_Subset, FS_CardinalityType DEF Pending

\* A request that leaves the set makes it smaller by one.
LEMMA OneLess ==
  ASSUME NEW i \in Ips, NEW r \in Pending(i)
  PROVE  Cardinality(Pending(i) \ {r}) = Cardinality(Pending(i)) - 1
BY PendingFinite, FS_RemoveElement

\* Every step keeps the bound on guesses.
LEMMA GuessStep ==
  ASSUME IInv, BoundedGuesses, [Next]_vars
  PROVE  BoundedGuesses'
<1> SUFFICES ASSUME NEW i \in Ips
             PROVE  failures'[i] + Cardinality(Pending(i)') <= Limit - 1 + Cardinality(Requests)
  BY DEF BoundedGuesses
<1> DEFINE n == Cardinality(Pending(i))
           P == Pending(i)
<1>0. /\ failures[i] + n <= Limit - 1 + Cardinality(Requests)
      /\ failures[i] \in Nat /\ n \in Nat /\ Cardinality(Requests) \in Nat /\ Limit \in Nat \ {0}
      /\ IsFiniteSet(P)
  BY PendingFinite, AuthAssumption DEF BoundedGuesses, IInv, TypeOK, AuthTypeOK
<1>1. ASSUME NEW q \in Requests, NEW j \in Ips, Login(q, j)
      PROVE  failures'[i] + Cardinality(Pending(i)') <= Limit - 1 + Cardinality(Requests)
  <2>1. Pending(i)' \subseteq Requests
    BY DEF Pending
  <2>2. IsFiniteSet(Pending(i)') /\ Cardinality(Pending(i)') \in Nat
        /\ Cardinality(Pending(i)') <= Cardinality(Requests)
    BY <2>1, AuthAssumption, FS_Subset, FS_CardinalityType
  <2>3. CASE j # i
    <3>1. failures'[i] = failures[i] /\ Pending(i)' = P
      BY <1>1, <2>3 DEF Login, Pending, IInv, TypeOK, AuthTypeOK
    <3> QED BY <3>1, <1>0
  <2>4. CASE j = i
    <3>1. failures'[i] <= Limit - 1 /\ failures'[i] \in Nat
      BY <1>0, <1>1, <2>4 DEF Login, AllowLogin, IInv, TypeOK, AuthTypeOK
    <3> QED BY <3>1, <2>2, <1>0
  <2> QED BY <2>3, <2>4
<1>2. ASSUME NEW q \in Requests, RecordLoginFailure(q)
      PROVE  failures'[i] + Cardinality(Pending(i)') <= Limit - 1 + Cardinality(Requests)
  <2>1. CASE ip[q] # i
    <3>1. failures'[i] = failures[i] /\ Pending(i)' = P
      BY <1>2, <2>1 DEF RecordLoginFailure, Pending, IInv, TypeOK, AuthTypeOK
    <3> QED BY <3>1, <1>0
  <2>2. CASE ip[q] = i
    <3>1. q \in P /\ Pending(i)' = P \ {q}
      BY <1>2, <2>2 DEF RecordLoginFailure, Pending, IInv, TypeOK, AuthTypeOK
    <3>2. failures'[i] \in {1, failures[i] + 1}
      BY <1>2, <2>2 DEF RecordLoginFailure, IInv, TypeOK, AuthTypeOK
    <3>3. Cardinality(Pending(i)') = n - 1 /\ n <= Cardinality(Requests)
      BY <3>1, OneLess, PendingFinite
    <3> QED BY <3>2, <3>3, <1>0
  <2> QED BY <2>1, <2>2
<1>3. ASSUME NEW q \in Requests, ClearLoginFailures(q)
      PROVE  failures'[i] + Cardinality(Pending(i)') <= Limit - 1 + Cardinality(Requests)
  <2>1. failures'[i] \in {0, failures[i]} /\ Pending(i)' \subseteq P
    BY <1>3 DEF ClearLoginFailures, Pending, IInv, TypeOK, AuthTypeOK
  <2>2. Cardinality(Pending(i)') <= n /\ Cardinality(Pending(i)') \in Nat
    BY <2>1, <1>0, FS_Subset, FS_CardinalityType
  <2> QED BY <2>1, <2>2, <1>0
<1>4. CASE failures' = failures /\ Pending(i)' = P
  BY <1>4, <1>0
<1>5. ASSUME NEW q \in Requests, CreateSession(q) \/ Forget(q)
      PROVE  failures' = failures /\ Pending(i)' = P
  BY <1>5 DEF CreateSession, Forget, Pending, attempts, IInv, TypeOK, AuthTypeOK
<1>6. ASSUME NEW q \in Requests, QRStep(q)
      PROVE  failures' = failures /\ Pending(i)' = P
  <2> USE DEF auth, attempts, IInv, TypeOK, AuthTypeOK, Pending, Answer
  <2>1. CASE Prune(q) \/ PruneImages(q) \/ GetQRCodeImage(q) \/ Insert(q) \/ Write(q) \/ Glob(q)
             \/ Sweep(q)
    BY <2>1 DEF Prune, PruneImages, GetQRCodeImage, Insert, Write, Glob, Sweep
  <2>2. CASE Lookup(q, "poll") \/ Poll(q) \/ LongPoll(q) \/ Drop(q) \/ Unlink(q)
    BY <2>2 DEF Lookup, Poll, LongPoll, Drop, Unlink
  <2>3. CASE Lookup(q, "confirm") \/ Confirm(q) \/ Callback(q) \/ FetchLoginBuffer(q) \/ Store(q)
    BY <2>3 DEF Lookup, Confirm, Callback, Release, FetchLoginBuffer, Store, StoreFailed
  <2> QED BY <1>6, <2>1, <2>2, <2>3 DEF QRStep
<1>7. ASSUME UNCHANGED vars \/ Environment \/ Lapse
      PROVE  failures' = failures /\ Pending(i)' = P
  BY <1>7 DEF vars, authVars, attempts, Environment, Lapse, Pending
<1> QED BY <1>1, <1>2, <1>3, <1>4, <1>5, <1>6, <1>7 DEF Next, AuthStep

\* An address gets no more guesses in a window than the limit and one for each further request
\* that compares a secret at the same time: the failures that are booked and the logins that are
\* pending together stay within it.
THEOREM GuessesBounded == Spec => []BoundedGuesses
<1>1. Init => BoundedGuesses
  <2> SUFFICES ASSUME Init, NEW i \in Ips
               PROVE  failures[i] + Cardinality(Pending(i)) <= Limit - 1 + Cardinality(Requests)
    BY DEF BoundedGuesses
  <2>1. failures[i] = 0
    BY DEF Init, AuthInit
  <2> QED BY <2>1, PendingFinite, AuthAssumption
<1>2. Spec => [](IInv /\ BoundedGuesses)
  BY <1>1, InitTypes, StepTypes, GuessStep, PTL DEF Spec
<1> QED BY <1>2, PTL

-----------------------------------------------------------------------------
(* Images *)

\* An id is drawn for one request only, and is neither answered nor too old until that request
\* has entered it and is done.
Unique ==
  /\ \A r \in Requests : pc[r] \in Creating => sid[r] \notin acked
  /\ \A r \in Requests : pc[r] = "insert" => sid[r] \notin qrSessions \cup pruned
  /\ \A r, q \in Requests : pc[r] \in Creating /\ pc[q] \in Creating /\ sid[r] = sid[q] => r = q

\* Sessions in the map that no clean-up overlooks; whatever is removed is none of them; each of
\* them has its image or is about to get it.
Safe == qrSessions \ overlapped
Removed ==
  /\ pruned \cap qrSessions = {}
  /\ \A q \in Requests : /\ pc[q] = "pruned" => files[q] \subseteq pruned
                         /\ pc[q] = "unlink" => sid[q] \notin qrSessions
                         /\ pc[q] \in {"write", "glob"} => Safe \subseteq files[q]
                         /\ pc[q] = "sweep" => files[q] \cap Safe = {}
Present ==
  \A s \in Safe \ unwritten : s \in images \/ \E r \in Requests : pc[r] = "write" /\ sid[r] = s

\* Every step keeps the ids apart.
LEMMA UniqueStep == ASSUME IInv, Unique, [Next]_vars PROVE Unique'
<1> USE DEF IInv, TypeOK, AuthTypeOK, Locals, Unique, Positions, sessionState, wechat,
            locals, history, attempts, tokens, auth, authVars, qrVars, Answer
<1>1. CASE UNCHANGED vars \/ Environment \/ (Lapse /\ UNCHANGED qrVars)
  BY <1>1 DEF vars, Environment, Lapse
<1>2. ASSUME NEW r \in Requests, AuthStep(r), UNCHANGED qrVars PROVE Unique'
  BY <1>2 DEF AuthStep, Login, RecordLoginFailure, ClearLoginFailures, CreateSession, Forget
<1>3. ASSUME NEW r \in Requests, Prune(r) \/ PruneImages(r) \/ GetQRCodeImage(r) PROVE Unique'
  BY <1>3 DEF Prune, PruneImages, GetQRCodeImage
<1>4. ASSUME NEW r \in Requests, Insert(r) \/ Write(r) \/ Glob(r) \/ Sweep(r) PROVE Unique'
  BY <1>4 DEF Insert, Keep, Write, Glob, Sweep
<1>5. ASSUME NEW r \in Requests, Lookup(r, "poll") \/ Lookup(r, "confirm") \/ Poll(r) PROVE Unique'
  BY <1>5 DEF Lookup, Poll
<1>6. ASSUME NEW r \in Requests, LongPoll(r) \/ Drop(r) \/ Unlink(r) PROVE Unique'
  BY <1>6 DEF LongPoll, Drop, Unlink
<1>7. ASSUME NEW r \in Requests, Confirm(r) \/ Callback(r) \/ FetchLoginBuffer(r) \/ Store(r)
      PROVE Unique'
  BY <1>7 DEF Confirm, Callback, Release, FetchLoginBuffer, Store, StoreFailed
<1> QED BY <1>1, <1>2, <1>3, <1>4, <1>5, <1>6, <1>7 DEF Next, QRStep

\* Every step keeps Removed.
LEMMA RemovedStep == ASSUME IInv, Unique, Removed, [Next]_vars PROVE Removed'
<1> USE DEF IInv, TypeOK, AuthTypeOK, Locals, Unique, Removed, Safe, Positions, sessionState, wechat,
            locals, history, attempts, tokens, auth, authVars, qrVars, Answer
<1>1. CASE UNCHANGED vars \/ Environment \/ (Lapse /\ UNCHANGED qrVars)
  BY <1>1 DEF vars, Environment, Lapse
<1>2. ASSUME NEW r \in Requests, AuthStep(r), UNCHANGED qrVars PROVE Removed'
  BY <1>2 DEF AuthStep, Login, RecordLoginFailure, ClearLoginFailures, CreateSession, Forget
<1>3. ASSUME NEW r \in Requests, Prune(r) \/ PruneImages(r) \/ GetQRCodeImage(r) PROVE Removed'
  BY <1>3 DEF Prune, PruneImages, GetQRCodeImage
<1>4. ASSUME NEW r \in Requests, Insert(r) PROVE Removed'
  <2>1. CASE Cleaning = {}
    BY <1>4, <2>1 DEF Insert, Keep, Cleaning
  <2>2. CASE Cleaning # {}
    BY <1>4, <2>2 DEF Insert, Keep
  <2> QED BY <2>1, <2>2
<1>5. ASSUME NEW r \in Requests, Write(r) \/ Glob(r) \/ Sweep(r) PROVE Removed'
  BY <1>5 DEF Write, Glob, Sweep
<1>6. ASSUME NEW r \in Requests, Lookup(r, "poll") \/ Lookup(r, "confirm") \/ Poll(r) PROVE Removed'
  BY <1>6 DEF Lookup, Poll
<1>7. ASSUME NEW r \in Requests, LongPoll(r) \/ Drop(r) \/ Unlink(r) PROVE Removed'
  BY <1>7 DEF LongPoll, Drop, Unlink
<1>8. ASSUME NEW r \in Requests, Confirm(r) \/ Callback(r) \/ FetchLoginBuffer(r) \/ Store(r)
      PROVE Removed'
  BY <1>8 DEF Confirm, Callback, Release, FetchLoginBuffer, Store, StoreFailed
<1> QED BY <1>1, <1>2, <1>3, <1>4, <1>5, <1>6, <1>7, <1>8 DEF Next, QRStep

\* Every step keeps Present.
LEMMA PresentStep == ASSUME IInv, Unique, Removed, Present, [Next]_vars PROVE Present'
<1> USE DEF IInv, TypeOK, AuthTypeOK, Locals, Unique, Removed, Present, Safe, Positions, sessionState,
            wechat, locals, history, attempts, tokens, auth, authVars, qrVars, Answer
<1>1. CASE UNCHANGED vars \/ Environment \/ (Lapse /\ UNCHANGED qrVars)
  BY <1>1 DEF vars, Environment, Lapse
<1>2. ASSUME NEW r \in Requests, AuthStep(r), UNCHANGED qrVars PROVE Present'
  BY <1>2 DEF AuthStep, Login, RecordLoginFailure, ClearLoginFailures, CreateSession, Forget
<1>3. ASSUME NEW r \in Requests, Prune(r) \/ PruneImages(r) \/ GetQRCodeImage(r) PROVE Present'
  BY <1>3 DEF Prune, PruneImages, GetQRCodeImage
<1>4. ASSUME NEW r \in Requests, Insert(r) \/ Write(r) PROVE Present'
  BY <1>4 DEF Insert, Keep, Write
<1>5. ASSUME NEW r \in Requests, Glob(r) \/ Sweep(r) PROVE Present'
  BY <1>5 DEF Glob, Sweep
<1>6. ASSUME NEW r \in Requests, Lookup(r, "poll") \/ Lookup(r, "confirm") \/ Poll(r) PROVE Present'
  BY <1>6 DEF Lookup, Poll
<1>7. ASSUME NEW r \in Requests, LongPoll(r) \/ Drop(r) \/ Unlink(r) PROVE Present'
  BY <1>7 DEF LongPoll, Drop, Unlink
<1>8. ASSUME NEW r \in Requests, Confirm(r) \/ Callback(r) \/ FetchLoginBuffer(r) \/ Store(r)
      PROVE Present'
  BY <1>8 DEF Confirm, Callback, Release, FetchLoginBuffer, Store, StoreFailed
<1> QED BY <1>1, <1>2, <1>3, <1>4, <1>5, <1>6, <1>7, <1>8 DEF Next, QRStep

\* A session that was answered and is in the map has its image, unless the image could not be
\* written or the session was entered during another request's clean-up, whose copy of the map
\* does not have it.
THEOREM ImagesKept == Spec => []ImageKept
<1>1. Init => Unique /\ Removed /\ Present
  BY DEF Init, AuthInit, QRInit, Unique, Removed, Present, Safe
<1>2. Unique /\ Present => ImageKept
  BY DEF Unique, Present, Safe, ImageKept
<1>3. Spec => [](IInv /\ Unique /\ Removed /\ Present)
  BY <1>1, InitTypes, StepTypes, UniqueStep, RemovedStep, PresentStep, PTL DEF Spec
<1> QED BY <1>2, <1>3, PTL
=============================================================================
