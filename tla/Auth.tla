-------------------------------- MODULE Auth --------------------------------
(***************************************************************************)
(* Console login: internal/httpapi/auth.go, with secret_key configured.    *)
(*                                                                         *)
(* A login compares the secret between two critical sections of loginMu:   *)
(* allowLogin lets it pass while the client's address has fewer than Limit *)
(* failures in its window, recordLoginFailure or clearLoginFailures books  *)
(* the outcome afterwards. A session lives in the map under sessionMu; an  *)
(* expired one is removed when its token is presented. Time is abstracted  *)
(* to the two moments the code asks about: a window may lapse and a token  *)
(* may expire at any time. Random tokens do not repeat.                    *)
(***************************************************************************)
EXTENDS Naturals, FiniteSets

CONSTANTS Requests, \* request goroutines
          Ips,      \* client addresses, as clientIP tells them
          Tokens,   \* bound: tokens that can be issued
          Limit     \* failures that lock an address (8 in the code)

ASSUME AuthAssumption ==
  /\ IsFiniteSet(Requests) /\ Requests # {} /\ Ips # {}
  /\ Limit \in Nat \ {0}

VARIABLES
  keyed,    \* external: the clients send X-Secret-Key (and do not log in), or use the console
  failures, \* loginAttempts: address -> failures in its window, 0 when it has no entry
  lapsed,   \* addresses whose window began 15 minutes ago or earlier
  sessions, \* App.sessions: tokens in the map
  expired,  \* tokens past ExpiresAt
  issued,   \* history: tokens handed out
  pc,       \* where a request goroutine is
  ip        \* a login's client address

attempts == <<failures, lapsed>>
tokens   == <<sessions, expired, issued>>
authVars == <<keyed, attempts, tokens, pc, ip>>

Goto(r, l) == pc' = [pc EXCEPT ![r] = l]

AuthInit ==
  /\ keyed \in BOOLEAN
  /\ failures = [i \in Ips |-> 0] /\ lapsed = {}
  /\ sessions = {} /\ expired = {} /\ issued = {}
  /\ pc = [r \in Requests |-> "idle"]
  /\ \E i \in Ips : ip = [r \in Requests |-> i]

-----------------------------------------------------------------------------
(* handleLogin *)

\* allowLogin. (Mutant: the lock comes one failure late.)
AllowLate(i)  == failures[i] = 0 \/ i \in lapsed \/ failures[i] <= Limit
AllowLogin(i) == failures[i] = 0 \/ i \in lapsed \/ failures[i] < Limit

\* Bound: a token is left for every login that has succeeded.
TokenLeft ==
  Cardinality(issued) + Cardinality({q \in Requests : pc[q] \in {"clear", "create"}})
    < Cardinality(Tokens)

\* A POST with a secret that is right or wrong; a window that is over is forgotten on the way.
Login(r, i) ==
  /\ pc[r] = "idle" /\ ~keyed
  /\ AllowLogin(i)
  /\ failures' = IF i \in lapsed THEN [failures EXCEPT ![i] = 0] ELSE failures
  /\ lapsed' = lapsed \ {i}
  /\ ip' = [ip EXCEPT ![r] = i]
  /\ \/ Goto(r, "record")
     \/ TokenLeft /\ Goto(r, "clear")
  /\ UNCHANGED <<keyed, tokens>>

RecordLoginFailure(r) ==
  LET i == ip[r] IN
  /\ pc[r] = "record"
  /\ failures' = [failures EXCEPT ![i] = IF i \in lapsed THEN 1 ELSE @ + 1]
  /\ lapsed' = lapsed \ {i}
  /\ Goto(r, "idle")
  /\ UNCHANGED <<keyed, tokens, ip>>

ClearLoginFailures(r) ==
  /\ pc[r] = "clear"
  /\ failures' = [failures EXCEPT ![ip[r]] = 0]
  /\ lapsed' = lapsed \ {ip[r]}
  /\ Goto(r, "create")
  /\ UNCHANGED <<keyed, tokens, ip>>

\* createSession. (Mutant: the token it falls back to when no random bytes are to be had.)
AnyToken == Tokens
NewToken == Tokens \ issued
CreateSession(r) ==
  /\ pc[r] = "create"
  /\ \E t \in NewToken :
       /\ sessions' = sessions \cup {t}
       /\ issued' = issued \cup {t}
  /\ Goto(r, "idle")
  /\ UNCHANGED <<keyed, attempts, expired, ip>>

-----------------------------------------------------------------------------
(* The other uses of a session *)

\* deleteSessionToken in handleLogout; userBySessionToken deletes a token that has expired,
\* for requireBrowserSession as for GET /login.
Forget(r) ==
  /\ pc[r] = "idle"
  /\ \E t \in sessions : sessions' = sessions \ {t}
  /\ UNCHANGED <<keyed, attempts, expired, issued, pc, ip>>

\* requireBrowserSession lets the request through: the header, or a live session's cookie.
Admitted == keyed \/ sessions \ expired # {}

\* Time passes: an address's window, a session's life.
Lapse ==
  /\ \/ \E i \in Ips : /\ failures[i] # 0 /\ i \notin lapsed
                       /\ lapsed' = lapsed \cup {i} /\ UNCHANGED expired
     \/ \E t \in issued \ expired : expired' = expired \cup {t} /\ UNCHANGED lapsed
  /\ UNCHANGED <<keyed, failures, sessions, issued, pc, ip>>

AuthStep(r) ==
  \/ \E i \in Ips : Login(r, i)
  \/ RecordLoginFailure(r) \/ ClearLoginFailures(r) \/ CreateSession(r)
  \/ Forget(r)

-----------------------------------------------------------------------------
(* Properties *)

AuthTypeOK ==
  /\ keyed \in BOOLEAN
  /\ failures \in [Ips -> Nat] /\ lapsed \subseteq Ips
  /\ sessions \subseteq issued /\ expired \subseteq issued /\ issued \subseteq Tokens
  /\ ip \in [Requests -> Ips]

\* Logins whose secret is being compared, that is, between allowLogin and the booking.
Pending(i) == {r \in Requests : pc[r] \in {"record", "clear"} /\ ip[r] = i}

\* An address never gets more than the limit and one guess per further concurrent request in
\* a window: allowLogin may pass requests that have not been counted, but no more than that.
BoundedGuesses ==
  \A i \in Ips : failures[i] + Cardinality(Pending(i)) <= Limit - 1 + Cardinality(Requests)

\* A session that was logged out or found expired does not come back, whatever logins are
\* under way.
RevokedForGood == [][\A t \in issued : t \notin sessions => t \notin sessions']_sessions
=============================================================================
