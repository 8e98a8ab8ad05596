------------------------------ MODULE Accounts ------------------------------
(***************************************************************************)
(* The account table of internal/store and everything that refreshes,      *)
(* scans, resynchronises or deletes an account: the keep-alive loop        *)
(* (internal/httpapi/keepalive.go), the refresh that runs once at start-up *)
(* and the handlers of POST /accounts/refresh, POST /accounts/resync,      *)
(* DELETE /accounts and POST /qr/confirm (internal/httpapi/app.go).        *)
(*                                                                         *)
(* The table is reached over one SQLite connection: a statement is one     *)
(* atomic step, and the statements of two goroutines interleave freely.    *)
(* The token service is external; only what the code can observe of it is  *)
(* modelled: which credentials it issued and which of them it still        *)
(* honours.                                                                *)
(***************************************************************************)
EXTENDS Naturals

CONSTANTS Openids,      \* WeChat identities
          Scannable,    \* those whose owner scans a QR code while the service runs
          MaxId,        \* bound: largest row id
          MaxGen,       \* bound: credentials issued after the start
          Workers,      \* slots of the keep-alive semaphore
          Requests,     \* HTTP request goroutines
          Startup,      \* the start-up refresh: a singleton, or none
          InitialRows,  \* tables an earlier process may have left behind
          MaxFaults,    \* bound: writes that fail (or meet a cancelled context)
          MaxRestarts,  \* bound: restarts of the process
          NoRow, NoCred, Nobody

Ids      == 1 .. MaxId
Procs    == Workers \cup Requests \cup Startup
Creds    == [owner : Openids, gen : 0 .. MaxGen]
Status   == {"alive", "unknown", "expired"}
Row      == [openid : Openids, cred : Creds \cup {NoCred}, status : Status, prof : Openids]
MaybeRow == Row \cup {NoRow}

ASSUME BoundsAssumption ==
  MaxId \in Nat /\ MaxGen \in Nat /\ MaxFaults \in Nat /\ MaxRestarts \in Nat
ASSUME RolesAssumption ==
  /\ Workers \cap Requests = {} /\ Workers \cap Startup = {} /\ Requests \cap Startup = {}
  /\ Nobody \notin Procs /\ Scannable \subseteq Openids
ASSUME NullsAssumption == NoCred \notin Creds /\ NoRow \notin Row
\* A table the program wrote: one row per identity, with that identity's own data.
ASSUME InitialRowsAssumption ==
  /\ InitialRows \subseteq [Ids -> MaybeRow]
  /\ \A t \in InitialRows : \A i \in Ids : t[i] # NoRow =>
       /\ t[i].prof = t[i].openid
       /\ t[i].cred # NoCred => t[i].cred = [owner |-> t[i].openid, gen |-> 0]
       /\ \A j \in Ids : t[j] # NoRow /\ t[j].openid = t[i].openid => j = i

VARIABLES
  row,      \* wechat_accounts: id -> row, or NoRow
  seq,      \* sqlite_sequence: the largest id handed out since the last reset
  recycled, \* history: sqlite_sequence has been cleared, so ids may come back
  faults, restarts, \* how many there were
  issued,   \* external: how many credentials were issued since the start
  honoured, \* external: credentials the token service still accepts
  due,      \* credentials with now + KeepAliveAhead >= ExpiresAt
  lock,     \* refreshLocks: account id -> holder
  retry,    \* keepAliveRetryAt: "none", "waiting" or "elapsed"
  ka, snap, pending,      \* keep-alive loop: position, list it walks, account past its check
  pc, acc, force, latest, got, \* goroutines: position and local variables
  res, err, \* what refreshAccount returned to the goroutine
  todo      \* start-up refresh: ids of its list still to visit

db       == <<row, seq, recycled, faults>>
upstream == <<issued, honoured, due>>
loop     == <<ka, snap, pending>>
local    == <<acc, force, latest, got>>
result   == <<res, err>>
vars     == <<row, seq, recycled, faults, restarts, issued, honoured, due, lock, retry,
              ka, snap, pending, pc, acc, force, latest, got, res, err, todo>>

Exists(i) == row[i] # NoRow

\* Mutant of IsNextId: the lowest id that is free.
IsFreeId(n) == ~Exists(n) /\ \A m \in Ids : m < n => Exists(m)

\* sqlite: AUTOINCREMENT continues after the larger of sqlite_sequence and the largest rowid.
IsNextId(n) ==
  /\ n > seq
  /\ \A i \in Ids : Exists(i) => i < n
  /\ n = seq + 1 \/ \E i \in Ids : Exists(i) /\ n = i + 1

\* Mutant of PassingStatus: no status at all instead of "unknown".
PassingOrNone(p) == {latest[p].status, ""}

\* refreshFailureStatus of a passing failure. How long a credential has been due is not
\* tracked: one that is due may have run out already.
PassingStatus(p) ==
  {latest[p].status} \cup IF latest[p].cred \in due THEN {"unknown"} ELSE {}

\* Where a goroutine that has started nothing stands.
Rest(p) == IF p \in Startup THEN "list" ELSE "idle"

-----------------------------------------------------------------------------

Stored == {row[i].cred : i \in {j \in Ids : Exists(j) /\ row[j].cred # NoCred}}

Init ==
  /\ row \in InitialRows
  /\ seq \in Ids \cup {0}
  /\ \A i \in Ids : Exists(i) => i <= seq
  /\ recycled = FALSE /\ faults = 0 /\ restarts = 0
  /\ issued = 0
  /\ honoured \in SUBSET Stored
  /\ due \in SUBSET Stored
  /\ lock = [i \in Ids |-> Nobody]
  /\ retry = [i \in Ids |-> "none"]
  /\ ka = "idle" /\ snap = [i \in Ids |-> NoRow] /\ pending = 0
  /\ pc = [p \in Procs |-> Rest(p)]
  /\ acc = [p \in Procs |-> 0]
  /\ force = [p \in Procs |-> FALSE]
  /\ latest = [p \in Procs |-> NoRow]
  /\ got = [p \in Procs |-> NoCred]
  /\ res = [p \in Procs |-> "unknown"] /\ err = [p \in Procs |-> FALSE]
  /\ todo = {}

Goto(p, l) == pc' = [pc EXCEPT ![p] = l]

\* Mutant of Return: an error path without the unlock.
ReturnLocked(p, s, e) ==
  /\ lock' = IF e THEN lock ELSE [lock EXCEPT ![acc[p]] = Nobody]
  /\ res' = [res EXCEPT ![p] = s] /\ err' = [err EXCEPT ![p] = e]
  /\ latest' = [latest EXCEPT ![p] = NoRow] /\ got' = [got EXCEPT ![p] = NoCred]
  /\ Goto(p, "ret")

\* refreshAccount returns: the deferred unlock runs, then the caller goes on at "ret".
Return(p, s, e) ==
  /\ lock' = [lock EXCEPT ![acc[p]] = Nobody]
  /\ res' = [res EXCEPT ![p] = s]
  /\ err' = [err EXCEPT ![p] = e]
  /\ latest' = [latest EXCEPT ![p] = NoRow]
  /\ got' = [got EXCEPT ![p] = NoCred]
  /\ Goto(p, "ret")

\* A goroutine ends, or goes on to its next account: its locals are gone.
Finish(p, l) ==
  /\ acc' = [acc EXCEPT ![p] = 0]
  /\ force' = [force EXCEPT ![p] = FALSE]
  /\ latest' = [latest EXCEPT ![p] = NoRow]
  /\ got' = [got EXCEPT ![p] = NoCred]
  /\ res' = [res EXCEPT ![p] = "unknown"]
  /\ err' = [err EXCEPT ![p] = FALSE]
  /\ Goto(p, l)

\* A statement fails, or its context was cancelled before it ran: nothing is written.
Fault == faults < MaxFaults /\ faults' = faults + 1

\* The UPDATE statements of the store: without a row, no effect and no error.
SetAccountStatus(i, s) ==
  row' = IF Exists(i) THEN [row EXCEPT ![i].status = s] ELSE row
SetAccountCredential(i, c) ==
  row' = IF Exists(i) THEN [row EXCEPT ![i].cred = c] ELSE row
SetAccountProfile(i, o) ==
  row' = IF Exists(i) THEN [row EXCEPT ![i].prof = o] ELSE row

-----------------------------------------------------------------------------
(* refreshAccount, from the mutex to the deferred unlock *)

\* The mutex is free. (Mutant: nobody asks.)
Unasked(p) == TRUE
Free(p) == lock[acc[p]] = Nobody

Lock(p) ==
  /\ pc[p] = "lock"
  /\ Free(p)
  /\ lock' = [lock EXCEPT ![acc[p]] = p]
  /\ Goto(p, "read")
  /\ UNCHANGED <<db, restarts, upstream, retry, loop, local, result, todo>>

\* GetAccount, and the returns that need no call.
ReadAndReturn(p) ==
  LET r == row[acc[p]] IN
  /\ pc[p] = "read"
  /\ \/ r = NoRow /\ Return(p, "unknown", TRUE)
     \/ r # NoRow /\ r.status = "expired" /\ Return(p, "expired", FALSE)
     \/ /\ r # NoRow /\ r.status # "expired" /\ r.cred # NoCred
        /\ ~force[p] /\ r.cred \notin due
        /\ Return(p, r.status, FALSE)
  /\ UNCHANGED <<db, restarts, upstream, retry, loop, acc, force, todo>>

\* GetAccount, with something left to do.
ReadAndContinue(p) ==
  LET r == row[acc[p]] IN
  /\ pc[p] = "read"
  /\ r # NoRow /\ r.status # "expired"
  /\ \/ r.cred = NoCred /\ Goto(p, "missing")
     \/ r.cred # NoCred /\ (force[p] \/ r.cred \in due) /\ Goto(p, "call")
  /\ latest' = [latest EXCEPT ![p] = r]
  /\ UNCHANGED <<db, restarts, upstream, lock, retry, loop, acc, force, got, result, todo>>

\* Credentials are missing: the status becomes unknown.
MissingCredentials(p) ==
  /\ pc[p] = "missing"
  /\ \/ SetAccountStatus(acc[p], "unknown") /\ UNCHANGED faults
     \/ Fault /\ UNCHANGED row
  /\ Return(p, "unknown", TRUE)
  /\ UNCHANGED <<seq, recycled, restarts, upstream, retry, loop, acc, force, todo>>

\* RefreshCredentials succeeds: the old credential may be retired by the rotation.
Renew(p) ==
  LET c == latest[p].cred
      new == [owner |-> c.owner, gen |-> issued + 1]
  IN
  /\ pc[p] = "call"
  /\ c \in honoured
  /\ issued < MaxGen
  /\ issued' = issued + 1
  /\ \E retired \in SUBSET {c} : honoured' = (honoured \ retired) \cup {new}
  /\ got' = [got EXCEPT ![p] = new]
  /\ Goto(p, "fetch")
  /\ UNCHANGED <<db, restarts, due, lock, retry, loop, acc, force, latest, result, todo>>

\* RefreshCredentials or FetchLoginBuffer fails: for good only when the credential it
\* presented is refused, else in passing. A renewal already made is dropped.
CallFails(p) ==
  /\ pc[p] \in {"call", "fetch"}
  /\ \/ \E s \in PassingStatus(p) : res' = [res EXCEPT ![p] = s]
     \/ /\ (IF pc[p] = "call" THEN latest[p].cred ELSE got[p]) \notin honoured
        /\ res' = [res EXCEPT ![p] = "expired"]
  /\ Goto(p, "fail")
  /\ UNCHANGED <<db, restarts, upstream, lock, retry, loop, local, err, todo>>

\* FetchLoginBuffer succeeds.
Fetch(p) ==
  /\ pc[p] = "fetch"
  /\ Goto(p, "setCred")
  /\ UNCHANGED <<db, restarts, upstream, lock, retry, loop, local, result, todo>>

\* The verdict is written by account id, whatever the row has become meanwhile.
RecordFailure(p) ==
  /\ pc[p] = "fail"
  /\ \/ SetAccountStatus(acc[p], res[p]) /\ UNCHANGED faults
     \/ Fault /\ UNCHANGED row
  /\ Return(p, res[p], TRUE)
  /\ UNCHANGED <<seq, recycled, restarts, upstream, retry, loop, acc, force, todo>>

StoreCredential(p) ==
  /\ pc[p] = "setCred"
  /\ \/ /\ SetAccountCredential(acc[p], got[p])
        /\ Goto(p, "setStatus")
        /\ UNCHANGED <<faults, lock, latest, got, result>>
     \/ Fault /\ UNCHANGED row /\ Return(p, "expired", TRUE)
  /\ UNCHANGED <<seq, recycled, restarts, upstream, retry, loop, acc, force, todo>>

StoreAlive(p) ==
  /\ pc[p] = "setStatus"
  /\ \/ /\ SetAccountStatus(acc[p], "alive")
        /\ Goto(p, "profile")
        /\ UNCHANGED <<faults, lock, latest, got, result>>
     \/ Fault /\ UNCHANGED row /\ Return(p, "expired", TRUE)
  /\ UNCHANGED <<seq, recycled, restarts, upstream, retry, loop, acc, force, todo>>

\* resolveAvatar finds an avatar, or not; the error of SetAccountProfile is ignored.
StoreProfile(p) ==
  /\ pc[p] = "profile"
  /\ SetAccountProfile(acc[p], latest[p].prof) \/ UNCHANGED row
  /\ Return(p, "alive", FALSE)
  /\ UNCHANGED <<seq, recycled, faults, restarts, upstream, retry, loop, acc, force, todo>>

RefreshStep(p) ==
  \/ ReadAndReturn(p) \/ ReadAndContinue(p) \/ MissingCredentials(p)
  \/ Renew(p) \/ CallFails(p) \/ Fetch(p)
  \/ RecordFailure(p) \/ StoreCredential(p) \/ StoreAlive(p) \/ StoreProfile(p)

-----------------------------------------------------------------------------
(* Request goroutines *)

\* POST /accounts/refresh (force = FALSE; refreshAll visits a list one by one) and the
\* refresh of invokeWXApp (force = TRUE): the account is resolved, then refreshed by id.
RefreshRequest(p) ==
  /\ p \in Requests /\ pc[p] = "idle"
  /\ \E i \in Ids, f \in BOOLEAN :
       /\ Exists(i)
       /\ acc' = [acc EXCEPT ![p] = i]
       /\ force' = [force EXCEPT ![p] = f]
  /\ Goto(p, "lock")
  /\ UNCHANGED <<db, restarts, upstream, lock, retry, loop, latest, got, result, todo>>

\* POST /accounts/resync: resolve, then SetAccountProfile without the refresh lock.
ResyncRequest(p) ==
  /\ p \in Requests /\ pc[p] = "idle"
  /\ \E i \in Ids :
       /\ Exists(i)
       /\ acc' = [acc EXCEPT ![p] = i]
       /\ latest' = [latest EXCEPT ![p] = row[i]]
  /\ Goto(p, "resync")
  /\ UNCHANGED <<db, restarts, upstream, lock, retry, loop, force, got, result, todo>>

Resync(p) ==
  /\ pc[p] = "resync"
  /\ \/ SetAccountProfile(acc[p], latest[p].prof) /\ UNCHANGED faults
     \/ Fault /\ UNCHANGED row
  /\ Finish(p, "idle")
  /\ UNCHANGED <<seq, recycled, restarts, upstream, lock, retry, loop, todo>>

\* POST /qr/confirm: the scan has issued a fresh credential, which may retire older ones.
ScanRequest(p) ==
  /\ p \in Requests /\ pc[p] = "idle"
  /\ \E o \in Scannable :
       LET new == [owner |-> o, gen |-> issued + 1] IN
       /\ issued < MaxGen
       /\ issued' = issued + 1
       /\ \E retired \in {{}, {c \in Creds : c.owner = o}} :
            honoured' = (honoured \ retired) \cup {new}
       /\ got' = [got EXCEPT ![p] = new]
  /\ Goto(p, "upsert")
  /\ UNCHANGED <<db, restarts, due, lock, retry, loop, acc, force, latest, result, todo>>

\* UpsertAccount (storeFromScan): an identity keeps its row and id; an INSERT that turns
\* into an UPDATE consumes an id all the same, and fails when none is left.
Upsert(p) ==
  LET o == got[p].owner
      scanned == [openid |-> o, cred |-> got[p], status |-> "alive", prof |-> o]
  IN
  /\ pc[p] = "upsert"
  /\ \/ \E n \in Ids :
          /\ IsNextId(n)
          /\ seq' = n
          /\ \/ \E i \in Ids : /\ Exists(i) /\ row[i].openid = o
                               /\ row' = [row EXCEPT ![i] = scanned]
             \/ /\ \A i \in Ids : Exists(i) => row[i].openid # o
                /\ row' = [row EXCEPT ![n] = scanned]
          /\ UNCHANGED faults
     \/ (\A n \in Ids : ~IsNextId(n)) /\ UNCHANGED <<row, seq, faults>>
     \/ Fault /\ UNCHANGED <<row, seq>>
  /\ Finish(p, "idle")
  /\ UNCHANGED <<recycled, restarts, upstream, lock, retry, loop, todo>>

\* DELETE /accounts: resolve, then DeleteAccount.
DeleteRequest(p) ==
  /\ p \in Requests /\ pc[p] = "idle"
  /\ \E i \in Ids : Exists(i) /\ acc' = [acc EXCEPT ![p] = i]
  /\ Goto(p, "delete")
  /\ UNCHANGED <<db, restarts, upstream, lock, retry, loop, force, latest, got, result, todo>>

RequestReturn(p) ==
  /\ p \in Requests /\ pc[p] = "ret"
  /\ Finish(p, "idle")
  /\ UNCHANGED <<db, restarts, upstream, lock, retry, loop, todo>>

-----------------------------------------------------------------------------
(* DeleteAccount: three statements, for a request or for the start-up refresh *)

Deleted(p) == Finish(p, IF p \in Startup THEN "boot" ELSE "idle")

Delete(p) ==
  /\ pc[p] = "delete"
  /\ \/ /\ row' = [row EXCEPT ![acc[p]] = NoRow]
        /\ Goto(p, "count")
        /\ UNCHANGED <<faults, local, result>>
     \/ Fault /\ Deleted(p) /\ UNCHANGED row
  /\ UNCHANGED <<seq, recycled, restarts, upstream, lock, retry, loop, todo>>

Count(p) ==
  /\ pc[p] = "count"
  /\ \/ /\ \A i \in Ids : ~Exists(i)
        /\ Goto(p, "reset")
        /\ UNCHANGED <<local, result>>
     \/ (\E i \in Ids : Exists(i)) /\ Deleted(p)
  /\ UNCHANGED <<db, restarts, upstream, lock, retry, loop, todo>>

ResetSequence(p) ==
  /\ pc[p] = "reset"
  /\ \/ seq' = 0 /\ recycled' = TRUE /\ UNCHANGED faults
     \/ Fault /\ UNCHANGED <<seq, recycled>>
  /\ Deleted(p)
  /\ UNCHANGED <<row, restarts, upstream, lock, retry, loop, todo>>

DeleteStep(p) == Delete(p) \/ Count(p) \/ ResetSequence(p)

-----------------------------------------------------------------------------
(* RefreshAccountsOnStartup: one pass over the list, in order of id *)

StartupList(p) ==
  /\ pc[p] = "list"
  /\ todo' = {i \in Ids : Exists(i)}
  /\ Goto(p, "boot")
  /\ UNCHANGED <<db, restarts, upstream, lock, retry, loop, local, result>>

StartupNext(p) ==
  /\ pc[p] = "boot"
  /\ \E i \in todo :
       /\ \A j \in todo : i <= j
       /\ todo' = todo \ {i}
       /\ acc' = [acc EXCEPT ![p] = i]
       /\ force' = [force EXCEPT ![p] = FALSE]
  /\ Goto(p, "lock")
  /\ UNCHANGED <<db, restarts, upstream, lock, retry, loop, latest, got, result>>

StartupDone(p) ==
  /\ pc[p] = "boot" /\ todo = {}
  /\ Goto(p, "done")
  /\ UNCHANGED <<db, restarts, upstream, lock, retry, loop, local, result, todo>>

\* The account is to be deleted. (Mutant: so is any that could not be renewed.)
Failed(p) == err[p]
Doomed(p) == res[p] = "expired"

StartupReturn(p) ==
  /\ p \in Startup /\ pc[p] = "ret"
  /\ \/ Doomed(p) /\ Goto(p, "delete") /\ UNCHANGED <<local, result>>
     \/ ~Doomed(p) /\ Finish(p, "boot")
  /\ UNCHANGED <<db, restarts, upstream, lock, retry, loop, todo>>

-----------------------------------------------------------------------------
(* The keep-alive loop: refreshDueAccounts *)

\* ticker: ListAccounts
KeepAliveTick ==
  /\ Workers # {}
  /\ ka = "idle"
  /\ ka' = "walk" /\ snap' = row
  /\ UNCHANGED <<db, restarts, upstream, lock, retry, pending, pc, local, result, todo>>

\* keepAliveShouldSkip, and the expired accounts. (Mutant: the unknown ones are skipped too.)
SkipsUnknown(i) ==
  snap[i].status # "alive" \/ (snap[i].cred # NoCred /\ snap[i].cred \notin due) \/ retry[i] = "waiting"
Skips(i) ==
  \/ snap[i].status = "expired"
  \/ snap[i].cred # NoCred /\ snap[i].cred \notin due
  \/ retry[i] = "waiting"

\* One account of the list.
KeepAliveCheck ==
  /\ ka = "walk" /\ pending = 0
  /\ \E i \in Ids :
       /\ snap[i] # NoRow
       /\ \A j \in Ids : snap[j] # NoRow => i <= j
       /\ snap' = [snap EXCEPT ![i] = NoRow]
       /\ \/ Skips(i) /\ UNCHANGED <<pending, retry>>
          \/ /\ ~Skips(i)
             /\ retry' = [retry EXCEPT ![i] = "none"]
             /\ pending' = i
  /\ UNCHANGED <<db, restarts, upstream, lock, ka, pc, local, result, todo>>

\* sem <- struct{}{} and the worker goroutine.
KeepAliveSpawn(p) ==
  /\ p \in Workers /\ pc[p] = "idle"
  /\ pending # 0
  /\ pending' = 0
  /\ acc' = [acc EXCEPT ![p] = pending]
  /\ force' = [force EXCEPT ![p] = FALSE]
  /\ Goto(p, "lock")
  /\ UNCHANGED <<db, restarts, upstream, lock, retry, ka, snap, latest, got, result, todo>>

\* setKeepAliveRetry or clearKeepAliveRetry, then the slot is free again.
WorkerReturn(p) ==
  /\ p \in Workers /\ pc[p] = "ret"
  /\ retry' = [retry EXCEPT ![acc[p]] = IF err[p] THEN "waiting" ELSE "none"]
  /\ Finish(p, "idle")
  /\ UNCHANGED <<db, restarts, upstream, lock, loop, todo>>

\* wg.Wait (Mutant: no wait.)
Hurried == TRUE
AllReturned == \A p \in Workers : pc[p] = "idle"

KeepAliveWait ==
  /\ ka = "walk" /\ pending = 0
  /\ \A i \in Ids : snap[i] = NoRow
  /\ AllReturned
  /\ ka' = "idle"
  /\ UNCHANGED <<db, restarts, upstream, lock, retry, snap, pending, pc, local, result, todo>>

-----------------------------------------------------------------------------
(* Time, the token service and the process itself *)

\* Credentials whose fate somebody may still notice.
Held == Stored \cup {latest[p].cred : p \in {q \in Procs : latest[q] # NoRow /\ latest[q].cred # NoCred}}

\* Time passes, until a credential is due.
FallsDue ==
  /\ \E c \in Held \ due : due' = due \cup {c}
  /\ UNCHANGED <<db, restarts, issued, honoured, lock, retry, loop, pc, local, result, todo>>

BackoffElapses ==
  /\ \E i \in Ids : retry[i] = "waiting" /\ retry' = [retry EXCEPT ![i] = "elapsed"]
  /\ UNCHANGED <<db, restarts, upstream, lock, loop, pc, local, result, todo>>

\* The token service withdraws a credential of its own accord.
Revoke ==
  /\ \E c \in honoured \cap Held : honoured' = honoured \ {c}
  /\ UNCHANGED <<db, restarts, issued, due, lock, retry, loop, pc, local, result, todo>>

\* The process stops at any point, even between two statements, and starts again. Close
\* does not wait for request goroutines or the start-up refresh, so it is no gentler.
Restart ==
  /\ restarts < MaxRestarts
  /\ restarts' = restarts + 1
  /\ lock' = [i \in Ids |-> Nobody]
  /\ retry' = [i \in Ids |-> "none"]
  /\ ka' = "idle" /\ snap' = [i \in Ids |-> NoRow] /\ pending' = 0
  /\ pc' = [p \in Procs |-> Rest(p)]
  /\ acc' = [p \in Procs |-> 0]
  /\ force' = [p \in Procs |-> FALSE]
  /\ latest' = [p \in Procs |-> NoRow]
  /\ got' = [p \in Procs |-> NoCred]
  /\ res' = [p \in Procs |-> "unknown"] /\ err' = [p \in Procs |-> FALSE]
  /\ todo' = {}
  /\ UNCHANGED <<db, upstream>>

-----------------------------------------------------------------------------

RequestStep(p) ==
  \/ RefreshRequest(p) \/ ResyncRequest(p) \/ Resync(p) \/ ScanRequest(p) \/ Upsert(p)
  \/ DeleteRequest(p) \/ RequestReturn(p)

StartupStep(p) == StartupList(p) \/ StartupNext(p) \/ StartupDone(p) \/ StartupReturn(p)

KeepAliveStep ==
  KeepAliveTick \/ KeepAliveCheck \/ KeepAliveWait \/ \E p \in Workers : KeepAliveSpawn(p) \/ WorkerReturn(p)

Next ==
  \/ \E p \in Procs : Lock(p) \/ RefreshStep(p) \/ DeleteStep(p) \/ RequestStep(p) \/ StartupStep(p)
  \/ KeepAliveStep
  \/ FallsDue \/ BackoffElapses \/ Revoke \/ Restart

Spec == Init /\ [][Next]_vars

\* A goroutine that has started runs on, an answer or a time-out ends every call, the
\* ticker fires, and Go's mutexes do not starve a waiter. Nobody owes the service a request.
Fairness ==
  /\ \A p \in Procs :
       /\ SF_vars(Lock(p))
       /\ WF_vars(RefreshStep(p) \/ DeleteStep(p) \/ StartupStep(p))
       /\ WF_vars(Resync(p) \/ Upsert(p) \/ RequestReturn(p))
  /\ WF_vars(KeepAliveStep)

FairSpec == Spec /\ Fairness

-----------------------------------------------------------------------------
(* Properties *)

Labels == {"idle", "list", "boot", "done", "lock", "read", "missing", "call", "fetch", "fail",
           "setCred", "setStatus", "profile", "ret", "delete", "count", "reset", "resync", "upsert"}

\* Every variable keeps its type.
TypeOK ==
  /\ row \in [Ids -> MaybeRow] /\ seq \in Nat
  /\ recycled \in BOOLEAN /\ faults \in Nat /\ restarts \in Nat
  /\ issued \in 0 .. MaxGen /\ honoured \subseteq Creds /\ due \subseteq Creds
  /\ lock \in [Ids -> Procs \cup {Nobody}]
  /\ retry \in [Ids -> {"none", "waiting", "elapsed"}]
  /\ ka \in {"idle", "walk"} /\ snap \in [Ids -> MaybeRow] /\ pending \in Ids \cup {0}
  /\ pc \in [Procs -> Labels] /\ acc \in [Procs -> Ids \cup {0}] /\ force \in [Procs -> BOOLEAN]
  /\ latest \in [Procs -> MaybeRow] /\ got \in [Procs -> Creds \cup {NoCred}]
  /\ res \in [Procs -> Status] /\ err \in [Procs -> BOOLEAN]
  /\ todo \subseteq Ids

Refreshing(p) == pc[p] \in {"read", "missing", "call", "fetch", "fail", "setCred", "setStatus", "profile"}

\* A credential is never presented to the token service by two goroutines at once: one
\* rotation would retire the token under the other's call, which then finds it refused
\* and writes the account off. The per-account mutex, the unique openid and the re-read
\* of the row under the mutex together ensure it.
NoDoubleSpend ==
  \A p, q \in Procs : p # q /\ pc[p] = "call" /\ pc[q] = "call" => latest[p].cred # latest[q].cred

\* As long as the id sequence has not been reset, every row holds credentials and profile
\* of its own identity: a refresh that outlives its account cannot write into another's.
OwnData ==
  ~recycled => \A i \in Ids : Exists(i) =>
    /\ row[i].prof = row[i].openid
    /\ row[i].cred # NoCred => row[i].cred.owner = row[i].openid

\* While a keep-alive back-off runs for an account, no worker calls the token service for
\* it: the loop waits for all workers (wg.Wait) before it judges the accounts again.
BackoffRespected ==
  \A p \in Workers : Refreshing(p) => retry[acc[p]] # "waiting"

\* An expired account becomes anything else only by a scan of the same identity: no
\* refresh in flight when the verdict fell can overwrite it.
ExpiredLeftOnlyByScan ==
  [][\A i \in Ids :
       Exists(i) /\ row[i].status = "expired" /\ row'[i] # NoRow /\ row'[i].status # "expired"
       => \E p \in Procs : /\ pc[p] = "upsert"
                           /\ got[p].owner = row[i].openid
                           /\ row'[i].cred = got[p]]_vars

\* The start-up refresh removes a row only while the table says it is expired. Nothing but
\* the absence of scans and failed writes ensures it: the verdict is a value returned, and
\* the row is deleted by id in a later statement.
StartupDeletesOnlyExpired ==
  [][\A p \in Startup : \A i \in Ids :
       pc[p] = "delete" /\ pc'[p] = "count" /\ i = acc[p] /\ Exists(i)
       => row[i].status = "expired"]_vars

\* The start-up refresh keeps a row whose status is not expired and whose credential the
\* token service honours ("accounts whose refresh result is expired are deleted", README
\* and the comment of RefreshAccountsOnStartup).
StartupKeepsUsable ==
  [][\A p \in Startup : \A i \in Ids :
       pc[p] = "delete" /\ pc'[p] = "count" /\ i = acc[p] /\ Exists(i)
       => row[i].status = "expired" \/ row[i].cred \notin honoured]_vars

\* Every refreshAccount that waits for its turn gets it and returns: no early return, failed
\* call or failed write leaves the account locked.
RefreshReturns ==
  \A p \in Procs : pc[p] = "lock" ~> ~(pc[p] = "lock" \/ Refreshing(p))

\* The keep-alive loop reaches every account it is there for: one that is due and not
\* expired is renewed, or an attempt fails and its back-off starts (unless it is deleted or
\* expires). No worker that got lost keeps the loop from its next round.
DueIsAttempted ==
  \A i \in Ids :
    Exists(i) /\ row[i].status # "expired" /\ row[i].cred \in due
    ~> (~Exists(i) \/ row[i].status = "expired" \/ row[i].cred \notin due \/ retry[i] = "waiting")

=============================================================================
