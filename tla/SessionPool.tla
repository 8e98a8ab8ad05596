----------------------------- MODULE SessionPool -----------------------------
(***************************************************************************)
(* Protocol sessions: the pool of internal/protocol/pool.go, the sessions  *)
(* table of internal/store, and invokeWXApp (internal/httpapi/app.go), the *)
(* only caller of the pool.                                                *)
(*                                                                         *)
(* A call probes for a session, runs on it, and when that fails drops the  *)
(* session, refreshes the account and runs once more. Each run tries the   *)
(* configured proxy first and then, NewApp leaving the pool's fallback at  *)
(* its default, the direct route. A session is kept per account and route; *)
(* a missing one is made by a login, under a mutex of that key and within  *)
(* a semaphore. Requests may be cancelled at any time. Accounts come and   *)
(* go meanwhile; refreshAccount is summarised by its outcome.              *)
(***************************************************************************)
EXTENDS Naturals, FiniteSets

CONSTANTS Ids,         \* account ids
          Openids,     \* identities that may stand behind an id
          Calls,       \* request goroutines inside invokeWXApp
          Proxied,     \* whether service.json configures a proxy
          MaxLogin,    \* capacity of loginSem
          MaxSessions, \* bound: logins that succeed
          NoSession, Nobody

ASSUME PoolAssumption == Proxied \in BOOLEAN /\ MaxLogin \in Nat \ {0} /\ MaxSessions \in Nat

Effective == IF Proxied THEN "proxy" ELSE "direct"
Routes    == {Effective, "direct"}
Keys      == Ids \X Routes
Sessions  == [owner : Openids, nr : 1 .. MaxSessions]

ASSUME NullAssumption == Nobody \notin Calls \cup Openids \cup Ids /\ NoSession \notin Sessions

VARIABLES
  occupant, \* wechat_accounts: the identity behind an id, or Nobody
  used,     \* ids handed out since sqlite_sequence was last cleared
  recycled, \* history: it was cleared, ids may come back
  stored,   \* sessions that have not expired: key -> session, or NoSession
  uin,      \* wechat_accounts.uin: the identity it belongs to, or Nobody
  made,     \* external: number of logins that succeeded
  lock,     \* Pool.locks: key -> holder
  sem,      \* number of tokens in loginSem
  pc, acc, route, \* a call's position, account id and current route
  ident,    \* whose login buffer it carries
  attempt,  \* invokeWXApp runs it for the first or the second time
  again,    \* GetCode runs for the second time
  sess,     \* the session it works with
  refused,  \* history: the session its first attempt failed with on the configured route
  gone      \* calls whose request context is cancelled

accounts == <<occupant, used, recycled>>
sync     == <<lock, sem>>
locals   == <<acc, route, ident, attempt, again, sess, refused>>
vars     == <<accounts, stored, uin, made, sync, pc, locals, gone>>

Key(c)  == <<acc[c], route[c]>>
Goto(c, l) == pc' = [pc EXCEPT ![c] = l]
Set(f, c, v) == [f EXCEPT ![c] = v]

\* GetSession, whose statement fails under a cancelled context.
Hit(c)  == c \notin gone /\ stored[Key(c)] # NoSession
MissUnseen(c) == c \notin gone  \* mutant: does not look at the row
Miss(c) == c \notin gone /\ stored[Key(c)] = NoSession

\* InvalidateSession, its error ignored. (Mutant: forgotten.)
KeepSession(c, k) == UNCHANGED stored
InvalidateSession(c, k) ==
  stored' = IF c \in gone THEN stored ELSE [stored EXCEPT ![k] = NoSession]

-----------------------------------------------------------------------------

Init ==
  /\ occupant \in [Ids -> Openids \cup {Nobody}]
  /\ \A i, j \in Ids : occupant[i] = occupant[j] /\ occupant[i] # Nobody => i = j
  /\ used = {i \in Ids : occupant[i] # Nobody}
  /\ recycled = FALSE
  /\ stored = [k \in Keys |-> NoSession]
  /\ uin = [i \in Ids |-> Nobody]
  /\ made = 0
  /\ lock = [k \in Keys |-> Nobody] /\ sem = 0
  /\ pc = [c \in Calls |-> "idle"]
  /\ acc = [c \in Calls |-> Nobody]
  /\ route = [c \in Calls |-> Effective]
  /\ ident = [c \in Calls |-> Nobody]
  /\ attempt = [c \in Calls |-> 1]
  /\ again = [c \in Calls |-> FALSE]
  /\ sess = [c \in Calls |-> NoSession] /\ refused = [c \in Calls |-> NoSession]
  /\ gone = {}

-----------------------------------------------------------------------------
(* invokeWXApp *)

\* resolveAccountRef; then GetSession only decides whether a first attempt is made.
Resolve(c) ==
  /\ pc[c] = "idle"
  /\ \E i \in Ids :
       /\ occupant[i] # Nobody
       /\ acc' = Set(acc, c, i)
       /\ ident' = Set(ident, c, occupant[i])
  /\ Goto(c, "probe")
  /\ UNCHANGED <<accounts, stored, uin, made, sync, route, attempt, again, sess, refused, gone>>

Probe(c) ==
  /\ pc[c] = "probe"
  /\ \/ Hit(c) /\ Goto(c, "fast")
     \/ ~Hit(c) /\ Goto(c, "refresh")
  /\ UNCHANGED <<accounts, stored, uin, made, sync, locals, gone>>

\* The first attempt has failed: its session goes, whoever has made it.
Drop(c) ==
  /\ pc[c] = "drop"
  /\ InvalidateSession(c, <<acc[c], Effective>>)
  /\ Goto(c, "refresh")
  /\ UNCHANGED <<accounts, uin, made, sync, locals, gone>>

\* The answer has been written, or the error.
Leave(c) ==
  /\ Goto(c, "idle")
  /\ route' = Set(route, c, Effective)
  /\ ident' = Set(ident, c, Nobody)
  /\ attempt' = Set(attempt, c, 1)
  /\ again' = Set(again, c, FALSE)
  /\ sess' = Set(sess, c, NoSession)
  /\ refused' = Set(refused, c, NoSession)
  /\ acc' = Set(acc, c, Nobody)
  /\ gone' = gone \ {c}

\* refreshAccount(ctx, acc, true): it starts with GetAccount.
Refresh(c) ==
  /\ pc[c] = "refresh"
  /\ \/ c \notin gone /\ occupant[acc[c]] # Nobody /\ Goto(c, "reread") /\ UNCHANGED <<locals, gone>>
     \/ Leave(c)
  /\ UNCHANGED <<accounts, stored, uin, made, sync>>

\* GetAccount: the row as it is now, or the old one when there is none.
Reread(c) ==
  /\ pc[c] = "reread"
  /\ ident' = IF c \notin gone /\ occupant[acc[c]] # Nobody
              THEN Set(ident, c, occupant[acc[c]]) ELSE ident
  /\ attempt' = Set(attempt, c, 2)
  /\ again' = Set(again, c, FALSE)
  /\ route' = Set(route, c, Effective)
  /\ Goto(c, "fast")
  /\ UNCHANGED <<accounts, stored, uin, made, sync, acc, sess, refused, gone>>

-----------------------------------------------------------------------------
(* Pool.run and GetCode *)

\* An error out of state: the direct route is next, or run returns the error.
StateFails(c) ==
  \/ /\ route[c] # "direct"
     /\ route' = Set(route, c, "direct")
     /\ Goto(c, "fast")
     /\ UNCHANGED <<acc, ident, attempt, again, sess, refused, gone>>
  \/ /\ route[c] = "direct" /\ attempt[c] = 1
     /\ Goto(c, "drop")
     /\ UNCHANGED <<locals, gone>>
  \/ route[c] = "direct" /\ attempt[c] = 2 /\ Leave(c)

\* The call itself, on the session that state returned.
Op(c) ==
  /\ pc[c] = "op"
  /\ \/ Leave(c)
     \/ ~again[c] /\ Goto(c, "empty") /\ UNCHANGED <<locals, gone>>  \* GetCode without a code
  /\ UNCHANGED <<accounts, stored, uin, made, sync>>

OpFails(c) ==
  /\ pc[c] = "op"
  /\ \/ /\ route[c] = "direct" /\ attempt[c] = 2
        /\ Leave(c)
     \/ /\ route[c] # "direct" \/ attempt[c] = 1
        /\ Goto(c, IF route[c] = "direct" THEN "drop" ELSE "fallback")
        /\ refused' = IF route[c] = Effective /\ attempt[c] = 1
                      THEN Set(refused, c, sess[c]) ELSE refused
        /\ UNCHANGED <<acc, route, ident, attempt, again, sess, gone>>
  /\ UNCHANGED <<accounts, stored, uin, made, sync>>

\* GetCode drops the session of the configured route and runs once more.
Empty(c) ==
  /\ pc[c] = "empty"
  /\ InvalidateSession(c, <<acc[c], Effective>>)
  /\ again' = Set(again, c, TRUE)
  /\ route' = Set(route, c, Effective)
  /\ Goto(c, "fast")
  /\ UNCHANGED <<accounts, uin, made, sync, acc, ident, attempt, sess, refused, gone>>

\* run drops the session of the proxied route and goes direct.
Fallback(c) ==
  /\ pc[c] = "fallback"
  /\ InvalidateSession(c, Key(c))
  /\ route' = Set(route, c, "direct")
  /\ Goto(c, "fast")
  /\ UNCHANGED <<accounts, uin, made, sync, acc, ident, attempt, again, sess, refused, gone>>

-----------------------------------------------------------------------------
(* Pool.state *)

Unlock(c) == lock' = Set(lock, Key(c), Nobody)

Fast(c) ==
  /\ pc[c] = "fast"
  /\ \/ /\ Hit(c)
        /\ sess' = Set(sess, c, stored[Key(c)])
        /\ Goto(c, "op")
        /\ UNCHANGED <<acc, route, ident, attempt, again, refused, gone>>
     \/ Miss(c) /\ Goto(c, "wait") /\ UNCHANGED <<locals, gone>>
     \/ c \in gone /\ StateFails(c)
  /\ UNCHANGED <<accounts, stored, uin, made, sync>>

\* lock.Lock() does not watch the context.
Lock(c) ==
  /\ pc[c] = "wait"
  /\ lock[Key(c)] = Nobody
  /\ lock' = Set(lock, Key(c), c)
  /\ Goto(c, "recheck")
  /\ UNCHANGED <<accounts, stored, uin, made, sem, locals, gone>>

Recheck(c) ==
  /\ pc[c] = "recheck"
  /\ \/ /\ Hit(c)
        /\ sess' = Set(sess, c, stored[Key(c)])
        /\ Unlock(c) /\ Goto(c, "op")
        /\ UNCHANGED <<acc, route, ident, attempt, again, refused, gone>>
     \/ Miss(c) /\ Goto(c, "account") /\ UNCHANGED <<lock, locals, gone>>
     \/ c \in gone /\ Unlock(c) /\ StateFails(c)
  /\ UNCHANGED <<accounts, stored, uin, made, sem>>

\* GetAccount
CheckAccount(c) ==
  /\ pc[c] = "account"
  /\ \/ /\ c \notin gone /\ occupant[acc[c]] # Nobody
        /\ Goto(c, "acquire")
        /\ UNCHANGED <<lock, locals, gone>>
     \/ /\ c \in gone \/ occupant[acc[c]] = Nobody
        /\ Unlock(c) /\ StateFails(c)
  /\ UNCHANGED <<accounts, stored, uin, made, sem>>

\* loginSem has room. (Mutant: unbounded.)
AnyRoom == TRUE
Room == sem < MaxLogin

\* A free slot of loginSem, or the end of the context: when both are there, either.
Acquire(c) ==
  /\ pc[c] = "acquire"
  /\ \/ /\ Room
        /\ sem' = sem + 1
        /\ Goto(c, "login")
        /\ UNCHANGED <<lock, locals, gone>>
     \/ c \in gone /\ Unlock(c) /\ StateFails(c) /\ UNCHANGED sem
  /\ UNCHANGED <<accounts, stored, uin, made>>

\* The deferred calls of state: the semaphore, then the mutex. (Mutants: one is forgotten.)
KeepToken(c) == UNCHANGED sem /\ Unlock(c)
KeepLock(c)  == sem' = (IF sem > 0 THEN sem - 1 ELSE 0) /\ UNCHANGED lock
EndFlight(c) == sem' = (IF sem > 0 THEN sem - 1 ELSE 0) /\ Unlock(c)

\* loginAndSession succeeds with the login buffer the call was given.
Login(c) ==
  /\ pc[c] = "login"
  /\ made < MaxSessions
  /\ made' = made + 1
  /\ sess' = Set(sess, c, [owner |-> ident[c], nr |-> made + 1])
  /\ Goto(c, "uin")
  /\ UNCHANGED <<accounts, stored, uin, sync, acc, route, ident, attempt, again, refused, gone>>

LoginFails(c) ==
  /\ pc[c] = "login"
  /\ EndFlight(c) /\ StateFails(c)
  /\ UNCHANGED <<accounts, stored, uin, made>>

\* SetAccountUIN, its error ignored; without a row it has no effect.
SetAccountUIN(c) ==
  /\ pc[c] = "uin"
  /\ uin' = IF c \notin gone /\ occupant[acc[c]] # Nobody
            THEN Set(uin, acc[c], sess[c].owner) ELSE uin
  /\ Goto(c, "put")
  /\ UNCHANGED <<accounts, stored, made, sync, locals, gone>>

\* PutSession: the foreign key refuses a session without its account.
PutSession(c) ==
  /\ pc[c] = "put"
  /\ EndFlight(c)
  /\ \/ /\ c \notin gone /\ occupant[acc[c]] # Nobody
        /\ stored' = Set(stored, Key(c), sess[c])
        /\ Goto(c, "op")
        /\ UNCHANGED <<locals, gone>>
     \/ /\ c \in gone \/ occupant[acc[c]] = Nobody
        /\ StateFails(c)
        /\ UNCHANGED stored
  /\ UNCHANGED <<accounts, uin, made>>

-----------------------------------------------------------------------------
(* Around the pool *)

\* The client closes its connection.
Cancel(c) ==
  /\ pc[c] # "idle" /\ c \notin gone
  /\ gone' = gone \cup {c}
  /\ UNCHANGED <<accounts, stored, uin, made, sync, pc, locals>>

\* expires_at passes: GetSession does not see the row any more.
Expire ==
  /\ \E k \in Keys : stored[k] # NoSession /\ stored' = [stored EXCEPT ![k] = NoSession]
  /\ UNCHANGED <<accounts, uin, made, sync, pc, locals, gone>>

\* ON DELETE CASCADE: the sessions go with their account. (Mutant: they stay.)
NoCascade(i) == stored
Cascade(i) == [k \in Keys |-> IF k[1] = i THEN NoSession ELSE stored[k]]

\* DELETE FROM wechat_accounts
RemoveAccount ==
  /\ \E i \in Ids :
       /\ occupant[i] # Nobody
       /\ occupant' = Set(occupant, i, Nobody)
       /\ uin' = Set(uin, i, Nobody)
       /\ stored' = Cascade(i)
  /\ UNCHANGED <<used, recycled, made, sync, pc, locals, gone>>

\* DELETE FROM sqlite_sequence, when the table has been found empty.
ResetSequence ==
  /\ used # {} /\ \A i \in Ids : occupant[i] = Nobody
  /\ used' = {} /\ recycled' = TRUE
  /\ UNCHANGED <<occupant, stored, uin, made, sync, pc, locals, gone>>

\* A scan of an identity without a row: an id never used since the last reset.
AddAccount ==
  /\ \E i \in Ids \ used, o \in Openids :
       /\ \A j \in Ids : occupant[j] # o
       /\ occupant' = Set(occupant, i, o)
       /\ used' = used \cup {i}
  /\ UNCHANGED <<recycled, stored, uin, made, sync, pc, locals, gone>>

-----------------------------------------------------------------------------

\* What a call does by itself once its request has arrived.
Step(c) ==
  \/ Probe(c) \/ Drop(c) \/ Refresh(c) \/ Reread(c) \/ Op(c) \/ OpFails(c) \/ Empty(c) \/ Fallback(c)
  \/ Fast(c) \/ Recheck(c) \/ CheckAccount(c) \/ Login(c) \/ LoginFails(c) \/ SetAccountUIN(c)
  \/ PutSession(c)

Around == Expire \/ RemoveAccount \/ ResetSequence \/ AddAccount

Next ==
  \/ \E c \in Calls : Resolve(c) \/ Step(c) \/ Lock(c) \/ Acquire(c) \/ Cancel(c)
  \/ Around

Spec == Init /\ [][Next]_vars

\* Time-outs end every login and every call upstream; Go starves neither the waiters of a
\* mutex nor the senders of a channel.
Fairness == \A c \in Calls : WF_vars(Step(c)) /\ SF_vars(Lock(c)) /\ SF_vars(Acquire(c))

FairSpec == Spec /\ Fairness

-----------------------------------------------------------------------------
(* Properties *)

Labels == {"idle", "probe", "drop", "refresh", "reread", "fast", "op", "empty", "fallback",
           "wait", "recheck", "account", "acquire", "login", "uin", "put"}

\* Every variable keeps its type.
TypeOK ==
  /\ occupant \in [Ids -> Openids \cup {Nobody}] /\ uin \in [Ids -> Openids \cup {Nobody}]
  /\ used \subseteq Ids /\ recycled \in BOOLEAN
  /\ stored \in [Keys -> Sessions \cup {NoSession}]
  /\ made \in 0 .. MaxSessions
  /\ lock \in [Keys -> Calls \cup {Nobody}] /\ sem \in 0 .. MaxLogin
  /\ pc \in [Calls -> Labels] /\ gone \subseteq Calls
  /\ acc \in [Calls -> Ids \cup {Nobody}] /\ route \in [Calls -> Routes]
  /\ ident \in [Calls -> Openids \cup {Nobody}]
  /\ attempt \in [Calls -> {1, 2}] /\ again \in [Calls -> BOOLEAN]
  /\ sess \in [Calls -> Sessions \cup {NoSession}]
  /\ refused \in [Calls -> Sessions \cup {NoSession}]

\* Calls that have found no session and are about to make one.
Flying(c) == pc[c] \in {"account", "acquire", "login", "uin", "put"}
Locked(c) == Flying(c) \/ pc[c] = "recheck"

\* A login is under way only for a key that has no session: the second look under the mutex
\* makes it so, and the mutex keeps it so until PutSession. No login is wasted on a session
\* somebody else has just made, and none is overwritten.
NoWastedLogin == \A c \in Calls : Flying(c) => stored[Key(c)] = NoSession

\* The semaphore holds one token per login in progress and a mutex is held by a call inside
\* state for that key: no way out - no slot, a failed login, a refused PutSession, the fallback
\* to another key - keeps one or gives one back twice.
NothingKept ==
  /\ sem = Cardinality({c \in Calls : pc[c] \in {"login", "uin", "put"}})
  /\ \A k \in Keys : lock[k] # Nobody => Locked(lock[k]) /\ Key(lock[k]) = k

\* A stored session has its account, and as long as no id came back it was made with that
\* account's own login buffer: a login that outlives its account is refused by the foreign key.
OwnSessions ==
  /\ \A k \in Keys : stored[k] # NoSession =>
       occupant[k[1]] # Nobody /\ (~recycled => stored[k].owner = occupant[k[1]])
  /\ ~recycled => \A i \in Ids : uin[i] \in {Nobody, occupant[i]}

\* The second attempt of invokeWXApp never works with the session its first attempt failed
\* with on the configured route, whatever cancellations and other callers do in between.
RetryUsesFreshSession ==
  \A c \in Calls : pc[c] = "op" /\ attempt[c] = 2 /\ route[c] = Effective
                   => sess[c] # refused[c]

\* Every call ends: no path leaves its mutex or its semaphore slot taken, and nobody waits
\* for a slot with a mutex a slot's owner needs.
CallEnds == \A c \in Calls : pc[c] # "idle" ~> pc[c] = "idle"

\* What the pool promises: at most one login per key at a time, begun only without a session.
Promise == INSTANCE SingleFlight WITH
  Keys <- Keys, Callers <- Calls, Values <- Sessions, None <- NoSession,
  value <- stored, flying <- {<<Key(c), c>> : c \in {d \in Calls : Flying(d)}}

PromiseKept == Promise!Spec

=============================================================================
