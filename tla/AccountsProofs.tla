--------------------------- MODULE AccountsProofs ---------------------------
(* Theorems about Accounts, for every value of its constants. *)
EXTENDS Accounts, TLAPS

-----------------------------------------------------------------------------
(* The rows under the statements of the store *)

\* SetAccountStatus, SetAccountCredential and SetAccountProfile change one column of one row.
LEMMA StatusUpdate ==
  ASSUME row \in [Ids -> MaybeRow], NEW i \in Ids, NEW s \in Status, SetAccountStatus(i, s)
  PROVE  /\ row' \in [Ids -> MaybeRow]
         /\ \A j \in Ids : j # i => row'[j] = row[j]
         /\ \A j \in Ids : (row'[j] = NoRow) <=> (row[j] = NoRow)
         /\ Exists(i) => /\ row'[i].status = s
                         /\ row'[i].openid = row[i].openid
                         /\ row'[i].cred = row[i].cred
                         /\ row'[i].prof = row[i].prof
<1>1. CASE ~Exists(i)
  BY <1>1 DEF SetAccountStatus, Exists
<1>2. CASE Exists(i)
  <2>1. row[i] \in Row
    BY <1>2 DEF Exists, MaybeRow
  <2>2. [row[i] EXCEPT !.status = s] \in Row
    BY <2>1 DEF Row
  <2>3. row' = [row EXCEPT ![i] = [row[i] EXCEPT !.status = s]]
    BY <1>2 DEF SetAccountStatus
  <2>4. row'[i] = [row[i] EXCEPT !.status = s]
    BY <2>3
  <2>5. row'[i] # NoRow
    BY <2>2, <2>4, NullsAssumption
  <2> QED
    BY <1>2, <2>1, <2>2, <2>3, <2>4, <2>5 DEF MaybeRow, Row, Exists
<1> QED BY <1>1, <1>2

\* SetAccountCredential changes the credential of one row, if there is such a row.
LEMMA CredentialUpdate ==
  ASSUME row \in [Ids -> MaybeRow], NEW i \in Ids, NEW c \in Creds, SetAccountCredential(i, c)
  PROVE  /\ row' \in [Ids -> MaybeRow]
         /\ \A j \in Ids : j # i => row'[j] = row[j]
         /\ \A j \in Ids : (row'[j] = NoRow) <=> (row[j] = NoRow)
         /\ Exists(i) => /\ row'[i].cred = c
                         /\ row'[i].openid = row[i].openid
                         /\ row'[i].status = row[i].status
                         /\ row'[i].prof = row[i].prof
<1>1. CASE ~Exists(i)
  BY <1>1 DEF SetAccountCredential, Exists
<1>2. CASE Exists(i)
  <2>1. row[i] \in Row
    BY <1>2 DEF Exists, MaybeRow
  <2>2. [row[i] EXCEPT !.cred = c] \in Row
    BY <2>1 DEF Row
  <2>3. row' = [row EXCEPT ![i] = [row[i] EXCEPT !.cred = c]]
    BY <1>2 DEF SetAccountCredential
  <2>4. row'[i] = [row[i] EXCEPT !.cred = c]
    BY <2>3
  <2>5. row'[i] # NoRow
    BY <2>2, <2>4, NullsAssumption
  <2> QED
    BY <1>2, <2>1, <2>2, <2>3, <2>4, <2>5 DEF MaybeRow, Row, Exists
<1> QED BY <1>1, <1>2

\* SetAccountProfile changes the profile of one row, if there is such a row.
LEMMA ProfileUpdate ==
  ASSUME row \in [Ids -> MaybeRow], NEW i \in Ids, NEW o \in Openids, SetAccountProfile(i, o)
  PROVE  /\ row' \in [Ids -> MaybeRow]
         /\ \A j \in Ids : j # i => row'[j] = row[j]
         /\ \A j \in Ids : (row'[j] = NoRow) <=> (row[j] = NoRow)
         /\ Exists(i) => /\ row'[i].prof = o
                         /\ row'[i].openid = row[i].openid
                         /\ row'[i].status = row[i].status
                         /\ row'[i].cred = row[i].cred
<1>1. CASE ~Exists(i)
  BY <1>1 DEF SetAccountProfile, Exists
<1>2. CASE Exists(i)
  <2>1. row[i] \in Row
    BY <1>2 DEF Exists, MaybeRow
  <2>2. [row[i] EXCEPT !.prof = o] \in Row
    BY <2>1 DEF Row
  <2>3. row' = [row EXCEPT ![i] = [row[i] EXCEPT !.prof = o]]
    BY <1>2 DEF SetAccountProfile
  <2>4. row'[i] = [row[i] EXCEPT !.prof = o]
    BY <2>3
  <2>5. row'[i] # NoRow
    BY <2>2, <2>4, NullsAssumption
  <2> QED
    BY <1>2, <2>1, <2>2, <2>3, <2>4, <2>5 DEF MaybeRow, Row, Exists
<1> QED BY <1>1, <1>2

-----------------------------------------------------------------------------
(* Types *)

\* What a goroutine's position says of its locals.
Locals ==
  \A p \in Procs :
    /\ Refreshing(p) \/ pc[p] \in {"lock", "ret", "delete", "resync"} => acc[p] \in Ids
    /\ (Refreshing(p) /\ pc[p] # "read") \/ pc[p] = "resync" => latest[p] \in Row
    /\ pc[p] \in {"call", "fetch"} => latest[p].cred \in Creds
    /\ pc[p] \in {"fetch", "setCred", "upsert"} => got[p] \in Creds

TypeInv == TypeOK /\ Locals

\* The tables NewApp may open and the goroutines of a fresh process are well typed.
LEMMA InitTypes == Init => TypeInv
<1> SUFFICES ASSUME Init PROVE TypeInv
  OBVIOUS
<1> USE DEF Init
<1>1. row \in [Ids -> MaybeRow]
  BY InitialRowsAssumption
<1>2. Stored \subseteq Creds
  BY <1>1 DEF Stored, Exists, MaybeRow, Row
<1>3. pc \in [Procs -> {"idle", "list"}]
  BY DEF Rest
<1>4. TypeOK
  <2>1. snap \in [Ids -> MaybeRow] /\ latest \in [Procs -> MaybeRow]
    BY DEF MaybeRow
  <2>2. seq \in Nat /\ issued \in 0 .. MaxGen
    BY BoundsAssumption DEF Ids
  <2>3. pc \in [Procs -> Labels]
    BY DEF Rest, Labels
  <2>4. res \in [Procs -> Status] /\ err \in [Procs -> BOOLEAN] /\ force \in [Procs -> BOOLEAN]
    BY DEF Status
  <2>5. honoured \subseteq Creds /\ due \subseteq Creds
    BY <1>2
  <2> QED BY <1>1, <2>1, <2>2, <2>3, <2>4, <2>5 DEF TypeOK
<1>5. Locals
  BY <1>3 DEF Locals, Refreshing
<1> QED BY <1>4, <1>5 DEF TypeInv

\* Return ends a refresh: the goroutine keeps its account, and drops the rest.
LEMMA ReturnTypes ==
  ASSUME TypeInv, NEW p \in Procs, NEW s \in Status, NEW e \in BOOLEAN,
         Return(p, s, e)
  PROVE  /\ lock' \in [Ids -> Procs \cup {Nobody}]
         /\ pc' \in [Procs -> Labels]
         /\ latest' \in [Procs -> MaybeRow]
         /\ got' \in [Procs -> Creds \cup {NoCred}]
         /\ res' \in [Procs -> Status]
         /\ err' \in [Procs -> BOOLEAN]
<1> USE DEF TypeInv, TypeOK, Return
<1>1. lock' \in [Ids -> Procs \cup {Nobody}]
  OBVIOUS
<1>2. pc' \in [Procs -> Labels]
  BY DEF Goto, Labels
<1>3. latest' \in [Procs -> MaybeRow]
  BY DEF MaybeRow
<1>4. got' \in [Procs -> Creds \cup {NoCred}]
  OBVIOUS
<1>5. res' \in [Procs -> Status]
  OBVIOUS
<1>6. err' \in [Procs -> BOOLEAN]
  OBVIOUS
<1> QED BY <1>1, <1>2, <1>3, <1>4, <1>5, <1>6

\* refreshAccount with the account locked.
LEMMA RefreshTypes ==
  ASSUME TypeInv, NEW p \in Procs, RefreshStep(p)
  PROVE  TypeInv'
<1> USE DEF TypeInv, db, upstream, loop, local, result
<1>1. CASE ReadAndReturn(p)
  <2>1. TypeOK'
    <3>1. row[acc[p]] \in MaybeRow
      BY <1>1 DEF ReadAndReturn, TypeOK, Locals, Refreshing
    <3>2. \E s \in Status, e \in BOOLEAN : Return(p, s, e)
      BY <1>1, <3>1 DEF ReadAndReturn, Status, MaybeRow, Row
    <3>3. PICK s \in Status, e \in BOOLEAN : Return(p, s, e)
      BY <3>2
    <3> QED BY <1>1, <3>3, ReturnTypes DEF ReadAndReturn, TypeOK
  <2>2. Locals'
    BY <1>1 DEF ReadAndReturn, Return, Goto, TypeOK, Locals, Refreshing
  <2> QED BY <2>1, <2>2
<1>2. CASE ReadAndContinue(p)
  <2>1. TypeOK'
    BY <1>2 DEF ReadAndContinue, Goto, TypeOK, Labels, Locals, Refreshing
  <2>2. Locals'
    BY <1>2 DEF ReadAndContinue, Goto, TypeOK, Locals, Refreshing, MaybeRow, Row
  <2> QED BY <2>1, <2>2
<1>3. CASE MissingCredentials(p)
  <2>1. row' \in [Ids -> MaybeRow]
    BY <1>3, StatusUpdate DEF MissingCredentials, TypeOK, Locals, Refreshing, Status
  <2>2. TypeOK'
    <3>1. faults' \in Nat
      BY <1>3 DEF MissingCredentials, Fault, TypeOK
    <3>2. Return(p, "unknown", TRUE) /\ "unknown" \in Status
      BY <1>3 DEF MissingCredentials, TypeOK, Status
    <3> QED BY <1>3, <2>1, <3>1, <3>2, ReturnTypes DEF MissingCredentials, TypeOK
  <2>3. Locals'
    BY <1>3 DEF MissingCredentials, Return, Goto, TypeOK, Locals, Refreshing
  <2> QED BY <2>2, <2>3
<1>4. CASE Renew(p)
  <2> DEFINE new == [owner |-> latest[p].cred.owner, gen |-> issued + 1]
  <2>1. new \in Creds
    BY <1>4, BoundsAssumption DEF Renew, TypeOK, Locals, Creds
  <2>2. /\ issued' \in 0 .. MaxGen
        /\ honoured' \subseteq Creds
    BY <1>4, <2>1, BoundsAssumption DEF Renew, TypeOK
  <2>3. TypeOK'
    BY <1>4, <2>1, <2>2 DEF Renew, Goto, TypeOK, Labels
  <2>4. Locals'
    BY <1>4, <2>1 DEF Renew, Goto, TypeOK, Locals, Refreshing
  <2> QED BY <2>3, <2>4
<1>5. CASE CallFails(p)
  <2>1. PassingStatus(p) \subseteq Status
    BY <1>5 DEF CallFails, PassingStatus, Locals, Refreshing, Row, Status
  <2>2. res' \in [Procs -> Status]
    BY <1>5, <2>1 DEF CallFails, TypeOK, Status
  <2>3. TypeOK'
    BY <1>5, <2>2 DEF CallFails, Goto, TypeOK, Labels
  <2>4. Locals'
    BY <1>5 DEF CallFails, Goto, TypeOK, Locals, Refreshing
  <2> QED BY <2>3, <2>4
<1>6. CASE Fetch(p)
  BY <1>6 DEF Fetch, Goto, TypeOK, Labels, Locals, Refreshing
<1>7. CASE RecordFailure(p)
  <2>1. row' \in [Ids -> MaybeRow]
    BY <1>7, StatusUpdate DEF RecordFailure, TypeOK, Locals, Refreshing
  <2>2. TypeOK'
    <3>1. faults' \in Nat
      BY <1>7 DEF RecordFailure, Fault, TypeOK
    <3>2. Return(p, res[p], TRUE) /\ res[p] \in Status
      BY <1>7 DEF RecordFailure, TypeOK, Status
    <3> QED BY <1>7, <2>1, <3>1, <3>2, ReturnTypes DEF RecordFailure, TypeOK
  <2>3. Locals'
    BY <1>7 DEF RecordFailure, Return, Goto, TypeOK, Locals, Refreshing
  <2> QED BY <2>2, <2>3
<1>8. CASE StoreCredential(p)
  <2>1. row' \in [Ids -> MaybeRow]
    BY <1>8, CredentialUpdate DEF StoreCredential, TypeOK, Locals, Refreshing
  <2>2. TypeOK'
    <3>1. CASE pc' = [pc EXCEPT ![p] = "setStatus"] /\ UNCHANGED <<faults, lock, latest, got, result>>
      BY <1>8, <2>1, <3>1 DEF StoreCredential, TypeOK, Labels
    <3>2. CASE Fault /\ Return(p, "expired", TRUE)
      <4>1. faults' \in Nat
        BY <3>2 DEF Fault, TypeOK
      <4>2. "expired" \in Status
        BY DEF Status
      <4> QED BY <1>8, <2>1, <3>2, <4>1, <4>2, ReturnTypes DEF StoreCredential, TypeOK
    <3> QED BY <1>8, <3>1, <3>2 DEF StoreCredential, Goto
  <2>3. Locals'
    BY <1>8 DEF StoreCredential, Return, Goto, TypeOK, Locals, Refreshing
  <2> QED BY <2>2, <2>3
<1>9. CASE StoreAlive(p)
  <2>1. row' \in [Ids -> MaybeRow]
    BY <1>9, StatusUpdate DEF StoreAlive, TypeOK, Locals, Refreshing, Status
  <2>2. TypeOK'
    <3>1. CASE pc' = [pc EXCEPT ![p] = "profile"] /\ UNCHANGED <<faults, lock, latest, got, result>>
      BY <1>9, <2>1, <3>1 DEF StoreAlive, TypeOK, Labels
    <3>2. CASE Fault /\ Return(p, "expired", TRUE)
      <4>1. faults' \in Nat
        BY <3>2 DEF Fault, TypeOK
      <4>2. "expired" \in Status
        BY DEF Status
      <4> QED BY <1>9, <2>1, <3>2, <4>1, <4>2, ReturnTypes DEF StoreAlive, TypeOK
    <3> QED BY <1>9, <3>1, <3>2 DEF StoreAlive, Goto
  <2>3. Locals'
    BY <1>9 DEF StoreAlive, Return, Goto, TypeOK, Locals, Refreshing
  <2> QED BY <2>2, <2>3
<1>10. CASE StoreProfile(p)
  <2>1. row' \in [Ids -> MaybeRow]
    BY <1>10, ProfileUpdate DEF StoreProfile, TypeOK, Locals, Refreshing, Row
  <2>2. TypeOK'
    BY <1>10, <2>1, ReturnTypes DEF StoreProfile, TypeOK, Status
  <2>3. Locals'
    BY <1>10 DEF StoreProfile, Return, Goto, TypeOK, Locals, Refreshing
  <2> QED BY <2>2, <2>3
<1> QED
  BY <1>1, <1>2, <1>3, <1>4, <1>5, <1>6, <1>7, <1>8, <1>9, <1>10 DEF RefreshStep

\* Finish drops every local.
LEMMA FinishTypes ==
  ASSUME TypeInv, NEW p \in Procs, NEW l \in {"idle", "boot"}, Finish(p, l)
  PROVE  /\ pc' \in [Procs -> Labels] /\ acc' \in [Procs -> Ids \cup {0}]
         /\ force' \in [Procs -> BOOLEAN]
         /\ latest' \in [Procs -> MaybeRow] /\ got' \in [Procs -> Creds \cup {NoCred}]
         /\ res' \in [Procs -> Status] /\ err' \in [Procs -> BOOLEAN]
         /\ Locals'
<1> USE DEF TypeInv, TypeOK, Finish
<1>1. pc' \in [Procs -> Labels] /\ acc' \in [Procs -> Ids \cup {0}]
  BY DEF Goto, Labels
<1>2. force' \in [Procs -> BOOLEAN] /\ err' \in [Procs -> BOOLEAN]
  OBVIOUS
<1>3. latest' \in [Procs -> MaybeRow] /\ got' \in [Procs -> Creds \cup {NoCred}]
  BY DEF MaybeRow
<1>4. res' \in [Procs -> Status]
  BY DEF Status
<1>5. Locals'
  BY DEF Goto, Locals, Refreshing
<1> QED BY <1>1, <1>2, <1>3, <1>4, <1>5

\* Taking the refresh lock of an account changes a lock and a position.
LEMMA LockTypes ==
  ASSUME TypeInv, NEW p \in Procs, Lock(p)
  PROVE  TypeInv'
<1> USE DEF TypeInv, db, upstream, loop, local, result
<1>1. TypeOK'
  BY DEF Lock, Goto, TypeOK, Labels
<1>2. Locals'
  BY DEF Lock, Goto, TypeOK, Locals, Refreshing
<1> QED BY <1>1, <1>2

\* The three statements of DeleteAccount, for a request or for the start-up refresh.
LEMMA DeleteTypes ==
  ASSUME TypeInv, NEW p \in Procs, DeleteStep(p)
  PROVE  TypeInv'
<1> USE DEF TypeInv, db, upstream, loop, local, result
<1>1. Deleted(p) => \E l \in {"idle", "boot"} : Finish(p, l)
  BY DEF Deleted
<1>2. ASSUME Deleted(p), UNCHANGED <<restarts, upstream, lock, retry, loop, todo>>,
             row' \in [Ids -> MaybeRow], seq' \in Nat, recycled' \in BOOLEAN, faults' \in Nat
      PROVE  TypeInv'
  <2>1. PICK l \in {"idle", "boot"} : Finish(p, l)
    BY <1>1, <1>2
  <2>2. Locals'
    BY <2>1, FinishTypes
  <2> QED BY <1>2, <2>1, <2>2, FinishTypes DEF TypeOK
<1>3. CASE Delete(p)
  <2>1. row' \in [Ids -> MaybeRow] /\ faults' \in Nat
    BY <1>3 DEF Delete, TypeOK, MaybeRow, Fault
  <2>2. CASE Deleted(p)
    BY <1>2, <1>3, <2>1, <2>2 DEF Delete, TypeOK
  <2>3. CASE Goto(p, "count") /\ UNCHANGED <<faults, local, result>>
    <3>1. TypeOK'
      BY <1>3, <2>1, <2>3 DEF Delete, Goto, TypeOK, Labels
    <3>2. Locals'
      BY <1>3, <2>3 DEF Delete, Goto, TypeOK, Locals, Refreshing
    <3> QED BY <3>1, <3>2
  <2> QED BY <1>3, <2>2, <2>3 DEF Delete
<1>4. CASE Count(p)
  <2>1. CASE Deleted(p)
    BY <1>2, <1>4, <2>1 DEF Count, TypeOK
  <2>2. CASE Goto(p, "reset") /\ UNCHANGED <<local, result>>
    <3>1. TypeOK'
      BY <1>4, <2>2 DEF Count, Goto, TypeOK, Labels
    <3>2. Locals'
      BY <1>4, <2>2 DEF Count, Goto, TypeOK, Locals, Refreshing
    <3> QED BY <3>1, <3>2
  <2> QED BY <1>4, <2>1, <2>2 DEF Count
<1>5. CASE ResetSequence(p)
  <2>1. seq' \in Nat /\ recycled' \in BOOLEAN /\ faults' \in Nat
    <3>1. CASE seq' = 0 /\ recycled' = TRUE /\ UNCHANGED faults
      BY <3>1 DEF TypeOK
    <3>2. CASE Fault /\ UNCHANGED <<seq, recycled>>
      BY <3>2 DEF TypeOK, Fault
    <3> QED BY <1>5, <3>1, <3>2 DEF ResetSequence
  <2> QED BY <1>2, <1>5, <2>1 DEF ResetSequence, TypeOK
<1> QED BY <1>3, <1>4, <1>5 DEF DeleteStep

\* The handlers of refresh, resync, scan and delete requests.
LEMMA RequestTypes ==
  ASSUME TypeInv, NEW p \in Procs, RequestStep(p)
  PROVE  TypeInv'
<1> USE DEF TypeInv, db, upstream, loop, local, result
<1>1. CASE RefreshRequest(p)
  <2>1. acc' \in [Procs -> Ids \cup {0}] /\ acc'[p] \in Ids /\ force' \in [Procs -> BOOLEAN]
        /\ pc' \in [Procs -> Labels]
    BY <1>1 DEF RefreshRequest, Goto, TypeOK, Labels
  <2>2. TypeOK'
    BY <1>1, <2>1 DEF RefreshRequest, TypeOK
  <2>3. Locals'
    BY <1>1, <2>1 DEF RefreshRequest, Goto, TypeOK, Locals, Refreshing
  <2> QED BY <2>2, <2>3
<1>2. CASE ResyncRequest(p)
  <2>1. PICK i \in Ids : /\ Exists(i)
                         /\ acc' = [acc EXCEPT ![p] = i]
                         /\ latest' = [latest EXCEPT ![p] = row[i]]
    BY <1>2 DEF ResyncRequest
  <2>2. row[i] \in Row
    BY <2>1 DEF TypeOK, MaybeRow, Exists
  <2>3. TypeOK'
    BY <1>2, <2>1, <2>2 DEF ResyncRequest, Goto, TypeOK, Labels, MaybeRow
  <2>4. Locals'
    BY <1>2, <2>1, <2>2 DEF ResyncRequest, Goto, TypeOK, Locals, Refreshing
  <2> QED BY <2>3, <2>4
<1>3. CASE Resync(p)
  <2>1. row' \in [Ids -> MaybeRow]
    BY <1>3, ProfileUpdate DEF Resync, TypeOK, Locals, Row
  <2>2. faults' \in Nat
    BY <1>3 DEF Resync, Fault, TypeOK
  <2>3. Finish(p, "idle") /\ Locals'
    BY <1>3, FinishTypes DEF Resync
  <2> QED BY <1>3, <2>1, <2>2, <2>3, FinishTypes DEF Resync, TypeOK
<1>4. CASE ScanRequest(p)
  <2>1. PICK o \in Scannable : LET new == [owner |-> o, gen |-> issued + 1] IN
          /\ issued' = issued + 1
          /\ \E retired \in {{}, {c \in Creds : c.owner = o}} :
               honoured' = (honoured \ retired) \cup {new}
          /\ got' = [got EXCEPT ![p] = new]
    BY <1>4 DEF ScanRequest
  <2>2. [owner |-> o, gen |-> issued + 1] \in Creds
    BY <1>4, BoundsAssumption, RolesAssumption DEF ScanRequest, TypeOK, Creds
  <2>3. issued' \in 0 .. MaxGen /\ honoured' \subseteq Creds
    BY <1>4, <2>1, <2>2, BoundsAssumption DEF ScanRequest, TypeOK
  <2>4. got' \in [Procs -> Creds \cup {NoCred}] /\ got'[p] \in Creds
    BY <2>1, <2>2 DEF TypeOK
  <2>5. TypeOK'
    BY <1>4, <2>3, <2>4 DEF ScanRequest, Goto, TypeOK, Labels
  <2>6. Locals'
    BY <1>4, <2>1, <2>4 DEF ScanRequest, Goto, TypeOK, Locals, Refreshing
  <2> QED BY <2>5, <2>6
<1>5. CASE Upsert(p)
  <2> DEFINE scanned == [openid |-> got[p].owner, cred |-> got[p], status |-> "alive",
                         prof |-> got[p].owner]
  <2>1. scanned \in MaybeRow
    BY <1>5 DEF Upsert, Locals, Row, Creds, Status, MaybeRow
  <2>2. row' \in [Ids -> MaybeRow] /\ seq' \in Nat /\ faults' \in Nat
    BY <1>5, <2>1 DEF Upsert, TypeOK, Fault, Ids
  <2>3. Finish(p, "idle") /\ Locals'
    BY <1>5, FinishTypes DEF Upsert
  <2> QED BY <1>5, <2>2, <2>3, FinishTypes DEF Upsert, TypeOK
<1>6. CASE DeleteRequest(p)
  BY <1>6 DEF DeleteRequest, Goto, TypeOK, Labels, Locals, Refreshing
<1>7. CASE RequestReturn(p)
  <2>1. Finish(p, "idle") /\ Locals'
    BY <1>7, FinishTypes DEF RequestReturn
  <2> QED BY <1>7, <2>1, FinishTypes DEF RequestReturn, TypeOK
<1> QED BY <1>1, <1>2, <1>3, <1>4, <1>5, <1>6, <1>7 DEF RequestStep

\* RefreshAccountsOnStartup from its list to its last account.
LEMMA StartupTypes ==
  ASSUME TypeInv, NEW p \in Procs, StartupStep(p)
  PROVE  TypeInv'
<1> USE DEF TypeInv, db, upstream, loop, local, result
<1>1. CASE StartupList(p)
  BY <1>1 DEF StartupList, Goto, TypeOK, Labels, Locals, Refreshing
<1>2. CASE StartupNext(p)
  <2>1. PICK i \in Ids : /\ todo' = todo \ {i}
                         /\ acc' = [acc EXCEPT ![p] = i]
    BY <1>2 DEF StartupNext, TypeOK
  <2>2. force' \in [Procs -> BOOLEAN] /\ pc' \in [Procs -> Labels]
    BY <1>2 DEF StartupNext, Goto, TypeOK, Labels
  <2>3. TypeOK'
    BY <1>2, <2>1, <2>2 DEF StartupNext, TypeOK
  <2>4. Locals'
    BY <1>2, <2>1 DEF StartupNext, Goto, TypeOK, Locals, Refreshing
  <2> QED BY <2>3, <2>4
<1>3. CASE StartupDone(p)
  BY <1>3 DEF StartupDone, Goto, TypeOK, Labels, Locals, Refreshing
<1>4. CASE StartupReturn(p)
  <2>1. CASE Finish(p, "boot")
    <3>1. Locals'
      BY <2>1, FinishTypes
    <3> QED BY <1>4, <2>1, <3>1, FinishTypes DEF StartupReturn, TypeOK
  <2>2. CASE Goto(p, "delete") /\ UNCHANGED <<local, result>>
    BY <1>4, <2>2 DEF StartupReturn, Goto, TypeOK, Labels, Locals, Refreshing
  <2> QED BY <1>4, <2>1, <2>2 DEF StartupReturn
<1> QED BY <1>1, <1>2, <1>3, <1>4 DEF StartupStep

\* refreshDueAccounts: the walk over the list, the workers and the wait for them.
LEMMA KeepAliveTypes ==
  ASSUME TypeInv, KeepAliveStep
  PROVE  TypeInv'
<1> USE DEF TypeInv, db, upstream, loop, local, result
<1>1. CASE KeepAliveTick
  BY <1>1 DEF KeepAliveTick, TypeOK, Locals, Refreshing
<1>2. CASE KeepAliveCheck
  <2>1. PICK i \in Ids : /\ snap' = [snap EXCEPT ![i] = NoRow]
                         /\ \/ UNCHANGED <<pending, retry>>
                            \/ retry' = [retry EXCEPT ![i] = "none"] /\ pending' = i
    BY <1>2 DEF KeepAliveCheck
  <2>2. snap' \in [Ids -> MaybeRow] /\ retry' \in [Ids -> {"none", "waiting", "elapsed"}]
        /\ pending' \in Ids \cup {0}
    BY <2>1 DEF TypeOK, MaybeRow
  <2> QED BY <1>2, <2>2 DEF KeepAliveCheck, TypeOK, Locals, Refreshing
<1>3. ASSUME NEW p \in Workers, KeepAliveSpawn(p) PROVE TypeInv'
  <2>1. p \in Procs /\ pending \in Ids
    BY <1>3 DEF KeepAliveSpawn, Procs, TypeOK
  <2>2. acc' \in [Procs -> Ids \cup {0}] /\ force' \in [Procs -> BOOLEAN] /\ pc' \in [Procs -> Labels]
    BY <1>3, <2>1 DEF KeepAliveSpawn, Goto, TypeOK, Labels
  <2>3. TypeOK'
    BY <1>3, <2>2 DEF KeepAliveSpawn, TypeOK
  <2>4. Locals'
    BY <1>3, <2>1 DEF KeepAliveSpawn, Goto, TypeOK, Locals, Refreshing
  <2> QED BY <2>3, <2>4
<1>4. ASSUME NEW p \in Workers, WorkerReturn(p) PROVE TypeInv'
  <2>1. p \in Procs
    BY DEF Procs
  <2>2. retry' \in [Ids -> {"none", "waiting", "elapsed"}]
    BY <1>4 DEF WorkerReturn, TypeOK
  <2>3. Finish(p, "idle") /\ Locals'
    BY <1>4, <2>1, FinishTypes DEF WorkerReturn
  <2> QED BY <1>4, <2>1, <2>2, <2>3, FinishTypes DEF WorkerReturn, TypeOK
<1>5. CASE KeepAliveWait
  BY <1>5 DEF KeepAliveWait, TypeOK, Locals, Refreshing
<1> QED BY <1>1, <1>2, <1>3, <1>4, <1>5 DEF KeepAliveStep

\* Time, the token service and a restart, which brings every goroutine back to its start.
LEMMA EnvironmentTypes ==
  ASSUME TypeInv, FallsDue \/ BackoffElapses \/ Revoke \/ Restart
  PROVE  TypeInv'
<1> USE DEF TypeInv, db, upstream, loop, local, result
<1>1. CASE FallsDue
  <2>1. Held \subseteq Creds
    <3>1. Stored \subseteq Creds
      BY DEF Stored, Exists, TypeOK, MaybeRow, Row
    <3>2. \A q \in Procs : latest[q] # NoRow /\ latest[q].cred # NoCred => latest[q].cred \in Creds
      BY DEF TypeOK, MaybeRow, Row
    <3> QED BY <3>1, <3>2 DEF Held
  <2> QED BY <1>1, <2>1 DEF FallsDue, TypeOK, Locals, Refreshing
<1>2. CASE BackoffElapses
  BY <1>2 DEF BackoffElapses, TypeOK, Locals, Refreshing
<1>3. CASE Revoke
  BY <1>3 DEF Revoke, TypeOK, Locals, Refreshing
<1>4. CASE Restart
  <2>1. pc' \in [Procs -> {"idle", "list"}]
    BY <1>4 DEF Restart, Rest
  <2>2. latest' \in [Procs -> MaybeRow] /\ snap' \in [Ids -> MaybeRow]
    BY <1>4 DEF Restart, MaybeRow
  <2>3. res' \in [Procs -> Status] /\ err' \in [Procs -> BOOLEAN] /\ force' \in [Procs -> BOOLEAN]
    BY <1>4 DEF Restart, Status
  <2>4. TypeOK'
    BY <1>4, <2>1, <2>2, <2>3 DEF Restart, TypeOK, Labels
  <2>5. Locals'
    BY <2>1 DEF Locals, Refreshing
  <2> QED BY <2>4, <2>5
<1> QED BY <1>1, <1>2, <1>3, <1>4

\* Every step of the service keeps the types.
LEMMA NextTypes == TypeInv /\ [Next]_vars => TypeInv'
<1> SUFFICES ASSUME TypeInv, [Next]_vars PROVE TypeInv'
  OBVIOUS
<1>1. CASE Next
  BY <1>1, LockTypes, RefreshTypes, DeleteTypes, RequestTypes, StartupTypes, KeepAliveTypes,
     EnvironmentTypes DEF Next
<1>2. CASE UNCHANGED vars
  BY <1>2 DEF vars, TypeInv, TypeOK, Locals, Refreshing
<1> QED BY <1>1, <1>2

\* Types hold, with whatever rows, goroutines and credentials there are.
THEOREM TypeCorrect == Spec => []TypeInv
<1>1. Init => TypeInv
  BY InitTypes
<1>2. TypeInv /\ [Next]_vars => TypeInv'
  BY NextTypes
<1> QED BY <1>1, <1>2, PTL DEF Spec

\* In particular every variable of the account flows keeps its type.
THEOREM TypeSafe == Spec => []TypeOK
BY TypeCorrect, PTL DEF TypeInv

-----------------------------------------------------------------------------
(* Goroutines *)

Step(p) == Lock(p) \/ RefreshStep(p) \/ DeleteStep(p) \/ RequestStep(p) \/ StartupStep(p)

Kept(q) == /\ pc'[q] = pc[q] /\ latest'[q] = latest[q] /\ acc'[q] = acc[q] /\ got'[q] = got[q]
           /\ res'[q] = res[q] /\ err'[q] = err[q]

\* A goroutine's step changes no other goroutine's position and locals.
LEMMA OthersKept ==
  ASSUME TypeInv, NEW p \in Procs, Step(p), NEW q \in Procs \ {p}
  PROVE  Kept(q)
<1> USE DEF db, upstream, loop, local, result, Kept
<1>1. CASE RefreshStep(p)
  BY <1>1 DEF RefreshStep, ReadAndReturn, ReadAndContinue, MissingCredentials, Renew, CallFails,
              Fetch, RecordFailure, StoreCredential, StoreAlive, StoreProfile, Return, Goto,
              TypeInv, TypeOK
<1>2. CASE Lock(p) \/ DeleteStep(p) \/ StartupStep(p)
  BY <1>2 DEF Lock, DeleteStep, Delete, Count, ResetSequence, StartupStep, StartupList, StartupNext,
              StartupDone, StartupReturn, Deleted, Finish, Goto, TypeInv, TypeOK
<1>3. CASE RequestStep(p)
  BY <1>3 DEF RequestStep, RefreshRequest, ResyncRequest, Resync, ScanRequest, Upsert, DeleteRequest,
              RequestReturn, Finish, Goto, TypeInv, TypeOK
<1> QED BY <1>1, <1>2, <1>3 DEF Step

\* The keep-alive loop changes only the worker it starts or that returns; time and the token
\* service change none.
LEMMA LoopKept ==
  ASSUME TypeInv, NEW q \in Procs
  PROVE  /\ KeepAliveTick \/ KeepAliveCheck \/ KeepAliveWait \/ FallsDue \/ BackoffElapses \/ Revoke
              => Kept(q)
         /\ \A p \in Workers : KeepAliveSpawn(p) \/ WorkerReturn(p) =>
              /\ q # p => Kept(q)
              /\ q = p => pc'[q] \in {"lock", "idle"}
<1> USE DEF db, upstream, loop, local, result, Kept
<1>1. ASSUME KeepAliveTick \/ KeepAliveCheck \/ KeepAliveWait PROVE Kept(q)
  BY <1>1 DEF KeepAliveTick, KeepAliveCheck, KeepAliveWait
<1>2. ASSUME FallsDue \/ BackoffElapses \/ Revoke PROVE Kept(q)
  BY <1>2 DEF FallsDue, BackoffElapses, Revoke
<1>3. ASSUME NEW p \in Workers, KeepAliveSpawn(p) \/ WorkerReturn(p)
      PROVE  (q # p => Kept(q)) /\ (q = p => pc'[q] \in {"lock", "idle"})
  BY <1>3 DEF KeepAliveSpawn, WorkerReturn, Finish, Goto, TypeInv, TypeOK, Procs
<1> QED BY <1>1, <1>2, <1>3

-----------------------------------------------------------------------------
(* The refresh lock, and the stickiness of an expired status *)

\* A goroutine inside refreshAccount holds its account's lock, and once it has read the row
\* the status cannot be expired behind its back: only it could write that.
LockInv ==
  \A p \in Procs : Refreshing(p) =>
    /\ lock[acc[p]] = p
    /\ pc[p] # "read" => row[acc[p]] = NoRow \/ row[acc[p]].status # "expired"

\* Hence two goroutines never refresh the same account.
LEMMA OneRefreshPerAccount ==
  ASSUME LockInv, NEW p \in Procs, NEW q \in Procs,
         Refreshing(p), Refreshing(q), acc[p] = acc[q]
  PROVE  p = q
BY DEF LockInv

\* The steps of refreshAccount between the lock and the deferred unlock keep LockInv.
LEMMA RefreshLockInv ==
  ASSUME TypeInv, LockInv, NEW p \in Procs, RefreshStep(p)
  PROVE  LockInv'
<1> USE DEF TypeInv, TypeOK, db, upstream, loop, local, result
<1>0. Refreshing(p) /\ acc[p] \in Ids /\ lock[acc[p]] = p
      /\ \A q \in Procs \ {p} : Refreshing(q) => acc[q] # acc[p] /\ acc[q] \in Ids
  BY DEF RefreshStep, ReadAndReturn, ReadAndContinue, MissingCredentials, Renew, CallFails, Fetch,
         RecordFailure, StoreCredential, StoreAlive, StoreProfile, Refreshing, LockInv, Locals
\* Other goroutines: neither their lock nor their row changes.
<1>1. ASSUME \A q \in Procs \ {p} : pc'[q] = pc[q],
             acc' = acc,
             \A i \in Ids : i # acc[p] => lock'[i] = lock[i] /\ row'[i] = row[i]
      PROVE  \A q \in Procs \ {p} : Refreshing(q)' =>
               /\ lock'[acc'[q]] = q
               /\ pc'[q] # "read" => row'[acc'[q]] = NoRow \/ row'[acc'[q]].status # "expired"
  BY <1>0, <1>1 DEF LockInv, Refreshing
<1>2. ASSUME \A q \in Procs \ {p} : pc'[q] = pc[q], acc' = acc,
             \A i \in Ids : i # acc[p] => lock'[i] = lock[i] /\ row'[i] = row[i],
             \/ ~Refreshing(p)'
             \/ /\ lock' = lock
                /\ row'[acc[p]] = NoRow \/ row'[acc[p]].status # "expired"
      PROVE  LockInv'
  BY <1>0, <1>1, <1>2 DEF LockInv
<1>3. ASSUME NEW s, NEW e, Return(p, s, e), acc' = acc,
             \A i \in Ids : i # acc[p] => row'[i] = row[i]
      PROVE  LockInv'
  BY <1>2, <1>3 DEF Return, Goto, Refreshing
<1>4. CASE ReadAndReturn(p)
  BY <1>3, <1>4 DEF ReadAndReturn
<1>5. CASE ReadAndContinue(p)
  BY <1>2, <1>5 DEF ReadAndContinue, Goto
<1>6. CASE MissingCredentials(p)
  BY <1>0, <1>3, <1>6, StatusUpdate DEF MissingCredentials, Status
<1>7. CASE Renew(p) \/ CallFails(p) \/ Fetch(p)
  <2>1. row' = row /\ lock' = lock /\ acc' = acc /\ pc[p] \in {"call", "fetch"}
        /\ \A q \in Procs \ {p} : pc'[q] = pc[q]
    BY <1>7 DEF Renew, CallFails, Fetch, Goto
  <2> QED BY <1>0, <1>2, <2>1 DEF LockInv
<1>8. CASE RecordFailure(p)
  BY <1>0, <1>3, <1>8, StatusUpdate DEF RecordFailure
<1>9. CASE StoreCredential(p)
  <2>1. CASE SetAccountCredential(acc[p], got[p]) /\ Goto(p, "setStatus") /\ lock' = lock
    <3>1. /\ \A i \in Ids : i # acc[p] => row'[i] = row[i]
          /\ row'[acc[p]] = NoRow \/ row'[acc[p]].status # "expired"
      BY <1>0, <1>9, <2>1, CredentialUpdate DEF StoreCredential, Locals, LockInv, Exists
    <3> QED BY <1>2, <1>9, <2>1, <3>1 DEF StoreCredential, Goto
  <2>2. CASE UNCHANGED row /\ Return(p, "expired", TRUE)
    BY <1>3, <1>9, <2>2 DEF StoreCredential
  <2> QED BY <1>9, <2>1, <2>2 DEF StoreCredential
<1>10. CASE StoreAlive(p)
  <2>1. CASE SetAccountStatus(acc[p], "alive") /\ Goto(p, "profile") /\ lock' = lock
    <3>1. /\ \A i \in Ids : i # acc[p] => row'[i] = row[i]
          /\ row'[acc[p]] = NoRow \/ row'[acc[p]].status # "expired"
      BY <1>0, <2>1, StatusUpdate DEF Exists, Status
    <3> QED BY <1>2, <1>10, <2>1, <3>1 DEF StoreAlive, Goto
  <2>2. CASE UNCHANGED row /\ Return(p, "expired", TRUE)
    BY <1>3, <1>10, <2>2 DEF StoreAlive
  <2> QED BY <1>10, <2>1, <2>2 DEF StoreAlive
<1>11. CASE StoreProfile(p)
  <2>1. \A i \in Ids : i # acc[p] => row'[i] = row[i]
    BY <1>0, <1>11, ProfileUpdate DEF StoreProfile, Locals, Row
  <2> QED BY <1>3, <1>11, <2>1 DEF StoreProfile
<1> QED
  BY <1>4, <1>5, <1>6, <1>7, <1>8, <1>9, <1>10, <1>11 DEF RefreshStep

\* A step that leaves the locks and the goroutines inside refreshAccount alone, and makes
\* no row expired.
LEMMA OutsideLockInv ==
  ASSUME TypeInv, LockInv, lock' = lock,
         \A q \in Procs : Refreshing(q)' => pc'[q] = pc[q] /\ acc'[q] = acc[q],
         \A i \in Ids : \/ row'[i] = row[i]
                        \/ row'[i] = NoRow
                        \/ row'[i].status # "expired"
                        \/ row[i] # NoRow /\ row[i].status = "expired"
  PROVE  LockInv'
BY DEF LockInv, Refreshing, TypeInv, Locals

\* What the statements outside refreshAccount may do to a row: nothing, remove it, change
\* its profile, or store a scan over it.
LEMMA OutsideRows ==
  ASSUME TypeInv,
         \/ \E p \in Procs : Lock(p) \/ DeleteStep(p) \/ RequestStep(p) \/ StartupStep(p)
         \/ KeepAliveStep \/ FallsDue \/ BackoffElapses \/ Revoke \/ Restart
  PROVE  \A i \in Ids :
           \/ row'[i] = row[i]
           \/ row'[i] = NoRow
           \/ row[i] # NoRow /\ row'[i].status = row[i].status /\ row'[i].cred = row[i].cred
                             /\ row'[i].openid = row[i].openid
           \/ \E p \in Procs : /\ pc[p] = "upsert"
                               /\ row'[i].status = "alive" /\ row'[i].cred = got[p]
                               /\ row'[i].openid = got[p].owner /\ row'[i].prof = got[p].owner
                               /\ Exists(i) => row[i].openid = got[p].owner
<1> USE DEF db, upstream, loop, local, result
<1>1. ASSUME NEW p \in Procs, Delete(p) PROVE \A i \in Ids : row'[i] = row[i] \/ row'[i] = NoRow
  BY <1>1 DEF Delete, TypeInv, TypeOK
<1>2. ASSUME NEW p \in Procs, Resync(p)
      PROVE  \A i \in Ids : \/ row'[i] = row[i]
                            \/ row[i] # NoRow /\ row'[i].status = row[i].status /\ row'[i].cred = row[i].cred
                                              /\ row'[i].openid = row[i].openid
  <2>1. CASE SetAccountProfile(acc[p], latest[p].prof)
    <3>1. acc[p] \in Ids /\ latest[p].prof \in Openids
      BY <1>2 DEF Resync, TypeInv, Locals, Row
    <3>2. /\ \A j \in Ids : j # acc[p] => row'[j] = row[j]
          /\ Exists(acc[p]) => /\ row'[acc[p]].openid = row[acc[p]].openid
                               /\ row'[acc[p]].status = row[acc[p]].status
                               /\ row'[acc[p]].cred = row[acc[p]].cred
      BY <2>1, <3>1, ProfileUpdate DEF TypeInv, TypeOK
    <3>3. ~Exists(acc[p]) => row' = row
      BY <2>1 DEF SetAccountProfile
    <3> QED BY <3>1, <3>2, <3>3 DEF Exists
  <2> QED BY <1>2, <2>1 DEF Resync
<1>3. ASSUME NEW p \in Procs, Upsert(p)
      PROVE  \A i \in Ids :
           \/ row'[i] = row[i]
           \/ /\ pc[p] = "upsert"
              /\ row'[i].status = "alive" /\ row'[i].cred = got[p]
              /\ row'[i].openid = got[p].owner /\ row'[i].prof = got[p].owner
              /\ Exists(i) => row[i].openid = got[p].owner
  <2>1. CASE row' = row
    BY <2>1
  <2> DEFINE scanned == [openid |-> got[p].owner, cred |-> got[p], status |-> "alive",
                         prof |-> got[p].owner]
  <2>2. ASSUME NEW n \in Ids, row' = [row EXCEPT ![n] = scanned],
               Exists(n) => row[n].openid = got[p].owner
        PROVE  \A i \in Ids :
                 \/ row'[i] = row[i]
                 \/ /\ row'[i].status = "alive" /\ row'[i].cred = got[p]
                    /\ row'[i].openid = got[p].owner /\ row'[i].prof = got[p].owner
                    /\ Exists(i) => row[i].openid = got[p].owner
    BY <2>2 DEF TypeInv, TypeOK
  <2>3. \/ row' = row
        \/ \E n \in Ids : /\ row' = [row EXCEPT ![n] = scanned]
                          /\ Exists(n) => row[n].openid = got[p].owner
    <3>1. ASSUME NEW n \in Ids, IsNextId(n) PROVE ~Exists(n)
      BY <3>1 DEF IsNextId, Ids
    <3>2. \/ row' = row
          \/ \E n \in Ids : Exists(n) /\ row[n].openid = got[p].owner /\ row' = [row EXCEPT ![n] = scanned]
          \/ \E n \in Ids : IsNextId(n) /\ row' = [row EXCEPT ![n] = scanned]
      BY <1>3 DEF Upsert
    <3> QED BY <3>1, <3>2
  <2>4. pc[p] = "upsert"
    BY <1>3 DEF Upsert
  <2> QED BY <2>1, <2>2, <2>3, <2>4
<1>4. ASSUME NEW p \in Procs,
             \/ Lock(p) \/ Count(p) \/ ResetSequence(p) \/ StartupStep(p) \/ RefreshRequest(p)
             \/ ResyncRequest(p) \/ ScanRequest(p) \/ DeleteRequest(p) \/ RequestReturn(p)
      PROVE  row' = row
  BY <1>4 DEF Lock, Count, ResetSequence, StartupStep, StartupList, StartupNext, StartupDone,
              StartupReturn, RefreshRequest, ResyncRequest, ScanRequest, DeleteRequest, RequestReturn
<1>5. ASSUME KeepAliveStep \/ FallsDue \/ BackoffElapses \/ Revoke \/ Restart
      PROVE  row' = row
  BY <1>5 DEF KeepAliveStep, KeepAliveTick, KeepAliveCheck, KeepAliveSpawn, WorkerReturn, KeepAliveWait,
              FallsDue, BackoffElapses, Revoke, Restart
<1>6. ASSUME NEW p \in Procs, Lock(p) \/ DeleteStep(p) \/ RequestStep(p) \/ StartupStep(p)
      PROVE  Lock(p) \/ Delete(p) \/ Count(p) \/ ResetSequence(p) \/ StartupStep(p) \/ RefreshRequest(p)
             \/ ResyncRequest(p) \/ Resync(p) \/ ScanRequest(p) \/ Upsert(p) \/ DeleteRequest(p)
             \/ RequestReturn(p)
  BY <1>6 DEF DeleteStep, RequestStep
<1> QED BY <1>1, <1>2, <1>3, <1>4, <1>5, <1>6

\* Every step of the service keeps LockInv: only Lock hands a lock out, and it takes a free one.
LEMMA NextLockInv == TypeInv /\ LockInv /\ [Next]_vars => LockInv'
<1> SUFFICES ASSUME TypeInv, LockInv, [Next]_vars PROVE LockInv'
  OBVIOUS
<1> USE DEF db, upstream, loop, local, result
<1>1. ASSUME NEW p \in Procs, RefreshStep(p) PROVE LockInv'
  BY <1>1, RefreshLockInv
<1>2. ASSUME NEW p \in Procs, Lock(p) PROVE LockInv'
  <2>1. acc[p] \in Ids /\ lock[acc[p]] = Nobody /\ acc' = acc /\ row' = row
        /\ lock' = [lock EXCEPT ![acc[p]] = p] /\ pc' = [pc EXCEPT ![p] = "read"]
    BY <1>2 DEF Lock, Free, Goto, TypeInv, Locals
  <2>2. \A q \in Procs \ {p} : Refreshing(q)' => Refreshing(q) /\ acc[q] # acc[p] /\ acc[q] \in Ids
    BY <2>1, RolesAssumption DEF LockInv, Refreshing, TypeInv, TypeOK, Locals
  <2> QED BY <2>1, <2>2 DEF LockInv, Refreshing, TypeInv, TypeOK
\* A step of p outside refreshAccount.
<1>3. ASSUME NEW p \in Procs, DeleteStep(p) \/ RequestStep(p) \/ StartupStep(p) PROVE LockInv'
  <2>1. lock' = lock
    BY <1>3 DEF DeleteStep, Delete, Count, ResetSequence, StartupStep, StartupList, StartupNext,
                StartupDone, StartupReturn, RequestStep, RefreshRequest, ResyncRequest, Resync,
                ScanRequest, Upsert, DeleteRequest, RequestReturn
  <2>2. \A q \in Procs \ {p} : pc'[q] = pc[q] /\ acc'[q] = acc[q]
    BY <1>3 DEF TypeInv, TypeOK, Goto, Finish, Deleted,
                DeleteStep, Delete, Count, ResetSequence, StartupStep, StartupList, StartupNext,
                StartupDone, StartupReturn, RequestStep, RefreshRequest, ResyncRequest, Resync,
                ScanRequest, Upsert, DeleteRequest, RequestReturn
  <2>3. pc'[p] \in {"idle", "boot", "count", "reset", "done", "delete", "lock", "resync", "upsert"}
    BY <1>3 DEF TypeInv, TypeOK, Goto, Finish, Deleted,
                DeleteStep, Delete, Count, ResetSequence, StartupStep, StartupList, StartupNext,
                StartupDone, StartupReturn, RequestStep, RefreshRequest, ResyncRequest, Resync,
                ScanRequest, Upsert, DeleteRequest, RequestReturn
  <2>4. \A q \in Procs : Refreshing(q)' => pc'[q] = pc[q] /\ acc'[q] = acc[q]
    BY <2>2, <2>3 DEF Refreshing
  <2>5. \A i \in Ids : \/ row'[i] = row[i]
                       \/ row'[i] = NoRow
                       \/ row'[i].status # "expired"
                       \/ row[i] # NoRow /\ row[i].status = "expired"
    <3> SUFFICES ASSUME NEW i \in Ids, row'[i] # row[i], row'[i] # NoRow, row'[i].status = "expired"
                 PROVE  row[i] # NoRow /\ row[i].status = "expired"
      OBVIOUS
    <3>1. row'[i].status # "alive"
      OBVIOUS
    <3> QED BY <1>3, <3>1, OutsideRows
  <2> QED BY <2>1, <2>4, <2>5, OutsideLockInv
<1>4. CASE KeepAliveStep
  <2>1. lock' = lock /\ row' = row
    BY <1>4 DEF KeepAliveStep, KeepAliveTick, KeepAliveCheck, KeepAliveSpawn, WorkerReturn, KeepAliveWait
  <2>2. \A q \in Procs : Refreshing(q)' => pc'[q] = pc[q] /\ acc'[q] = acc[q]
    BY <1>4 DEF TypeInv, TypeOK, Goto, Finish, Refreshing, Procs, KeepAliveStep, KeepAliveTick,
                KeepAliveCheck, KeepAliveSpawn, WorkerReturn, KeepAliveWait
  <2> QED BY <2>1, <2>2, OutsideLockInv
<1>5. CASE FallsDue \/ BackoffElapses \/ Revoke
  BY <1>5 DEF FallsDue, BackoffElapses, Revoke, LockInv, Refreshing
<1>6. CASE Restart
  BY <1>6 DEF Restart, Rest, LockInv, Refreshing
<1>7. CASE UNCHANGED vars
  BY <1>7 DEF vars, LockInv, Refreshing
<1> QED BY <1>1, <1>2, <1>3, <1>4, <1>5, <1>6, <1>7 DEF Next

\* Between its lock and its deferred unlock refreshAccount holds the lock of its account, and
\* the account it has read unexpired stays so until it says otherwise itself.
THEOREM RefreshLocked == Spec => []LockInv
<1>1. Init => LockInv
  BY DEF Init, LockInv, Refreshing, Rest
<1>2. TypeInv /\ LockInv /\ [Next]_vars => LockInv'
  BY NextLockInv
<1> QED BY <1>1, <1>2, TypeCorrect, PTL DEF Spec

\* What a step makes of a row: it is removed, or it stays its identity's and an expired status
\* stays, or a scan of its identity is stored in it. A refresh writes under the lock and only to
\* an account it has seen unexpired, the other handlers write no status at all.
LEMMA RowStep ==
  ASSUME TypeInv, LockInv, Next, NEW i \in Ids
  PROVE  \/ row'[i] = NoRow
         \/ /\ Exists(i) /\ row'[i].openid = row[i].openid
            /\ row[i].status = "expired" => row'[i].status = "expired"
         \/ \E p \in Procs : /\ pc[p] = "upsert"
                             /\ row'[i].openid = got[p].owner /\ row'[i].cred = got[p]
                             /\ Exists(i) => row[i].openid = got[p].owner
<1>1. CASE row'[i] = row[i]
  BY <1>1 DEF Exists
<1>2. ASSUME NEW p \in Procs, RefreshStep(p), row'[i] # row[i], row'[i] # NoRow
      PROVE  /\ Exists(i) /\ row'[i].openid = row[i].openid
             /\ row[i].status = "expired" => row'[i].status = "expired"
  <2>1. acc[p] \in Ids /\ Refreshing(p)
    BY <1>2 DEF RefreshStep, ReadAndReturn, ReadAndContinue, MissingCredentials, Renew, CallFails,
                Fetch, RecordFailure, StoreCredential, StoreAlive, StoreProfile, Refreshing,
                TypeInv, Locals
  <2>2. pc[p] \notin {"read", "call", "fetch"}
    BY <1>2 DEF RefreshStep, ReadAndReturn, ReadAndContinue, MissingCredentials, Renew,
                CallFails, Fetch, RecordFailure, StoreCredential, StoreAlive, StoreProfile, db
  <2>3. latest[p].prof \in Openids
    BY <2>1, <2>2 DEF TypeInv, Locals, Row
  <2>4. \/ \E s \in Status : SetAccountStatus(acc[p], s)
        \/ got[p] \in Creds /\ SetAccountCredential(acc[p], got[p])
        \/ SetAccountProfile(acc[p], latest[p].prof)
        \/ row' = row
    BY <1>2, <2>2 DEF RefreshStep, ReadAndReturn, ReadAndContinue, MissingCredentials, Renew,
                      CallFails, Fetch, RecordFailure, StoreCredential, StoreAlive, StoreProfile,
                      TypeInv, TypeOK, Locals, Status
  <2>5. /\ i # acc[p] => row'[i] = row[i]
        /\ row'[i] = NoRow <=> row[i] = NoRow
        /\ Exists(acc[p]) => row'[acc[p]].openid = row[acc[p]].openid
    BY <2>1, <2>3, <2>4, StatusUpdate, CredentialUpdate, ProfileUpdate DEF TypeInv, TypeOK
  <2>6. Exists(acc[p]) => row[acc[p]].status # "expired"
    BY <2>1, <2>2 DEF LockInv, Exists
  <2> QED BY <1>2, <2>5, <2>6 DEF Exists
<1>3. CASE \/ \E p \in Procs : Lock(p) \/ DeleteStep(p) \/ RequestStep(p) \/ StartupStep(p)
           \/ KeepAliveStep \/ FallsDue \/ BackoffElapses \/ Revoke \/ Restart
  BY <1>3, OutsideRows DEF Exists
<1> QED BY <1>1, <1>2, <1>3 DEF Next

\* An expired account becomes anything else only by a scan of its own identity.
THEOREM ExpiredSticky == Spec => ExpiredLeftOnlyByScan
<1> DEFINE Sticky ==
      \A i \in Ids :
        Exists(i) /\ row[i].status = "expired" /\ row'[i] # NoRow /\ row'[i].status # "expired"
        => \E p \in Procs : /\ pc[p] = "upsert"
                            /\ got[p].owner = row[i].openid
                            /\ row'[i].cred = got[p]
<1>1. TypeInv /\ LockInv /\ [Next]_vars => [Sticky]_vars
  BY RowStep
<1> QED BY <1>1, TypeCorrect, RefreshLocked, PTL DEF Spec, ExpiredLeftOnlyByScan

-----------------------------------------------------------------------------
(* Every row keeps to its own identity *)

\* A row's data are those of its identity.
OwnRow(r) == r.prof = r.openid /\ (r.cred # NoCred => r.cred.owner = r.openid)

\* Every id somebody still holds was handed out: a new row gets none of them.
Allocated ==
  /\ \A i \in Ids : Exists(i) => i <= seq
  /\ \A p \in Procs : acc[p] <= seq
  /\ \A i \in Ids : snap[i] # NoRow => i <= seq
  /\ pending <= seq
  /\ \A i \in todo : i <= seq

\* Goroutines that carry a row they have read.
Holding(p) == (Refreshing(p) /\ pc[p] # "read") \/ pc[p] = "resync"

\* What such a goroutine is about to write belongs to the identity its id stands for.
OwnLocals ==
  \A p \in Procs : Holding(p) =>
    /\ OwnRow(latest[p])
    /\ row[acc[p]] = NoRow \/ row[acc[p]].openid = latest[p].openid
    /\ pc[p] \in {"fetch", "setCred"} => got[p].owner = latest[p].openid

OwnInv == OwnData /\ (~recycled => Allocated /\ OwnLocals)

\* What any statement may do to the rows: change one within its identity, remove one, or
\* insert one under an id never handed out before.
LEMMA OwnRows ==
  ASSUME TypeInv, OwnInv, ~recycled, Next
  PROVE  \A i \in Ids :
           \/ row'[i] = NoRow
           \/ /\ OwnRow(row'[i])
              /\ Exists(i) => row'[i].openid = row[i].openid
              /\ ~Exists(i) => seq < i /\ i <= seq'
<1> USE DEF db, upstream, loop, local, result
<1> DEFINE Good(i) == \/ row'[i] = NoRow
                      \/ /\ OwnRow(row'[i])
                         /\ Exists(i) => row'[i].openid = row[i].openid
                         /\ ~Exists(i) => seq < i /\ i <= seq'
<1>0. \A i \in Ids : row'[i] = row[i] => Good(i)
  BY DEF OwnInv, OwnData, OwnRow, Exists
\* Statements that carry what their goroutine has read.
<1>1. ASSUME NEW p \in Procs, acc[p] \in Ids, Holding(p),
             \/ \E s \in Status : SetAccountStatus(acc[p], s)
             \/ got[p] \in Creds /\ pc[p] = "setCred" /\ SetAccountCredential(acc[p], got[p])
             \/ latest[p].prof \in Openids /\ SetAccountProfile(acc[p], latest[p].prof)
      PROVE  \A i \in Ids : Good(i)
  <2>1. \A i \in Ids : i # acc[p] => row'[i] = row[i]
    BY <1>1, StatusUpdate, CredentialUpdate, ProfileUpdate DEF TypeInv, TypeOK
  <2>2. CASE ~Exists(acc[p])
    BY <1>0, <1>1, <2>1, <2>2 DEF SetAccountStatus, SetAccountCredential, SetAccountProfile
  <2>3. CASE Exists(acc[p])
    <3>1. /\ OwnRow(row[acc[p]]) /\ OwnRow(latest[p])
          /\ row[acc[p]].openid = latest[p].openid
          /\ pc[p] = "setCred" => got[p].owner = latest[p].openid
      BY <1>1, <2>3 DEF OwnInv, OwnData, OwnLocals, OwnRow, Exists
    <3>2. CASE \E s \in Status : SetAccountStatus(acc[p], s)
      <4>1. OwnRow(row'[acc[p]]) /\ row'[acc[p]].openid = row[acc[p]].openid
        BY <1>1, <2>3, <3>1, <3>2, StatusUpdate DEF TypeInv, TypeOK, OwnRow
      <4> QED BY <1>0, <2>1, <2>3, <4>1
    <3>3. CASE got[p] \in Creds /\ pc[p] = "setCred" /\ SetAccountCredential(acc[p], got[p])
      <4>1. OwnRow(row'[acc[p]]) /\ row'[acc[p]].openid = row[acc[p]].openid
        BY <1>1, <2>3, <3>1, <3>3, CredentialUpdate DEF TypeInv, TypeOK, OwnRow
      <4> QED BY <1>0, <2>1, <2>3, <4>1
    <3>4. CASE latest[p].prof \in Openids /\ SetAccountProfile(acc[p], latest[p].prof)
      <4>1. OwnRow(row'[acc[p]]) /\ row'[acc[p]].openid = row[acc[p]].openid
        BY <1>1, <2>3, <3>1, <3>4, ProfileUpdate DEF TypeInv, TypeOK, OwnRow
      <4> QED BY <1>0, <2>1, <2>3, <4>1
    <3> QED BY <1>1, <3>2, <3>3, <3>4
  <2> QED BY <2>2, <2>3
<1>2. ASSUME NEW p \in Procs, RefreshStep(p) PROVE \A i \in Ids : Good(i)
  <2>1. CASE row' = row
    BY <1>0, <2>1
  <2>2. CASE row' # row
    <3>1. pc[p] \in {"missing", "fail", "setCred", "setStatus", "profile"}
      BY <1>2, <2>2 DEF RefreshStep, ReadAndReturn, ReadAndContinue, MissingCredentials, Renew,
                        CallFails, Fetch, RecordFailure, StoreCredential, StoreAlive, StoreProfile
    <3>2. /\ Holding(p) /\ acc[p] \in Ids
          /\ latest[p].prof \in Openids
          /\ pc[p] = "setCred" => got[p] \in Creds
      BY <3>1 DEF Holding, Refreshing, TypeInv, Locals, Row
    <3>3. \/ \E s \in Status : SetAccountStatus(acc[p], s)
          \/ pc[p] = "setCred" /\ SetAccountCredential(acc[p], got[p])
          \/ SetAccountProfile(acc[p], latest[p].prof)
      BY <1>2, <2>2, <3>1 DEF RefreshStep, ReadAndReturn, ReadAndContinue, MissingCredentials, Renew,
                        CallFails, Fetch, RecordFailure, StoreCredential, StoreAlive, StoreProfile,
                        TypeInv, TypeOK, Status
    <3> QED BY <1>1, <3>2, <3>3
  <2> QED BY <2>1, <2>2
<1>3. ASSUME NEW p \in Procs, Resync(p) PROVE \A i \in Ids : Good(i)
  <2>1. CASE row' = row
    BY <1>0, <2>1
  <2>2. CASE SetAccountProfile(acc[p], latest[p].prof)
    <3>1. Holding(p) /\ acc[p] \in Ids /\ latest[p].prof \in Openids
      BY <1>3 DEF Resync, Holding, TypeInv, Locals, Row
    <3> QED BY <1>1, <2>2, <3>1
  <2> QED BY <1>3, <2>1, <2>2 DEF Resync
<1>4. ASSUME NEW p \in Procs, Upsert(p) PROVE \A i \in Ids : Good(i)
  <2> DEFINE scanned == [openid |-> got[p].owner, cred |-> got[p], status |-> "alive",
                         prof |-> got[p].owner]
  <2>1. OwnRow(scanned)
    BY DEF OwnRow
  <2>2. CASE row' = row
    BY <1>0, <2>2
  <2>3. ASSUME NEW k \in Ids, row' = [row EXCEPT ![k] = scanned],
               \/ Exists(k) /\ row[k].openid = got[p].owner
               \/ ~Exists(k) /\ seq < k /\ k <= seq'
        PROVE  \A i \in Ids : Good(i)
    <3>1. \A i \in Ids : i # k => row'[i] = row[i]
      BY <2>3 DEF TypeInv, TypeOK
    <3>2. row'[k] = scanned
      BY <2>3 DEF TypeInv, TypeOK
    <3>3. Good(k)
      BY <2>1, <2>3, <3>2
    <3> QED BY <1>0, <3>1, <3>3
  <2>4. CASE \E n \in Ids : IsNextId(n) /\ seq' = n /\ row' = [row EXCEPT ![n] = scanned]
    <3>1. PICK n \in Ids : IsNextId(n) /\ seq' = n /\ row' = [row EXCEPT ![n] = scanned]
      BY <2>4
    <3>2. ~Exists(n) /\ seq < n /\ n <= seq'
      BY <3>1 DEF IsNextId, Ids
    <3> QED BY <2>3, <3>1, <3>2
  <2>5. CASE \E i \in Ids : Exists(i) /\ row[i].openid = got[p].owner /\ row' = [row EXCEPT ![i] = scanned]
    BY <2>3, <2>5
  <2> QED BY <1>4, <2>2, <2>4, <2>5 DEF Upsert
<1>5. ASSUME NEW p \in Procs, Delete(p) PROVE \A i \in Ids : Good(i)
  <2>1. \A i \in Ids : row'[i] = row[i] \/ row'[i] = NoRow
    BY <1>5 DEF Delete, TypeInv, TypeOK
  <2> QED BY <1>0, <2>1
<1>6. ASSUME NEW p \in Procs,
             \/ Lock(p) \/ Count(p) \/ ResetSequence(p) \/ StartupStep(p) \/ RefreshRequest(p)
             \/ ResyncRequest(p) \/ ScanRequest(p) \/ DeleteRequest(p) \/ RequestReturn(p)
      PROVE  row' = row
  BY <1>6 DEF Lock, Count, ResetSequence, StartupStep, StartupList, StartupNext, StartupDone,
              StartupReturn, RefreshRequest, ResyncRequest, ScanRequest, DeleteRequest, RequestReturn
<1>7. ASSUME KeepAliveStep \/ FallsDue \/ BackoffElapses \/ Revoke \/ Restart
      PROVE  row' = row
  BY <1>7 DEF KeepAliveStep, KeepAliveTick, KeepAliveCheck, KeepAliveSpawn, WorkerReturn, KeepAliveWait,
              FallsDue, BackoffElapses, Revoke, Restart
<1> HIDE DEF Good
<1>8. \A i \in Ids : Good(i)
  BY <1>0, <1>2, <1>3, <1>4, <1>5, <1>6, <1>7 DEF Next, DeleteStep, RequestStep
<1> QED BY <1>8 DEF Good

\* The id sequence only grows, or is reset and said to be recycled.
LEMMA SequenceGrows ==
  ASSUME TypeInv, ~recycled, Next, ~recycled'
  PROVE  seq <= seq' /\ seq' \in Nat
<1> USE DEF db, upstream, loop, local, result
<1>1. ASSUME NEW p \in Procs, Upsert(p) PROVE seq' = seq \/ (seq' \in Nat /\ seq < seq')
  BY <1>1 DEF Upsert, IsNextId, Ids
<1>2. ASSUME NEW p \in Procs,
             \/ Lock(p) \/ RefreshStep(p) \/ DeleteStep(p) \/ StartupStep(p) \/ RefreshRequest(p)
             \/ ResyncRequest(p) \/ Resync(p) \/ ScanRequest(p) \/ DeleteRequest(p) \/ RequestReturn(p)
      PROVE  seq' = seq
  BY <1>2 DEF Lock, RefreshStep, ReadAndReturn, ReadAndContinue, MissingCredentials, Renew, CallFails,
              Fetch, RecordFailure, StoreCredential, StoreAlive, StoreProfile, DeleteStep, Delete, Count,
              ResetSequence, StartupStep, StartupList, StartupNext, StartupDone, StartupReturn,
              RefreshRequest, ResyncRequest, Resync, ScanRequest, DeleteRequest, RequestReturn
<1>3. ASSUME KeepAliveStep \/ FallsDue \/ BackoffElapses \/ Revoke \/ Restart PROVE seq' = seq
  BY <1>3 DEF KeepAliveStep, KeepAliveTick, KeepAliveCheck, KeepAliveSpawn, WorkerReturn, KeepAliveWait,
              FallsDue, BackoffElapses, Revoke, Restart
<1>4. seq' = seq \/ (seq' \in Nat /\ seq < seq')
  BY <1>1, <1>2, <1>3 DEF Next, RequestStep
<1> QED BY <1>4 DEF TypeInv, TypeOK

\* The ids that goroutines, the keep-alive list and the start-up list hold come from the table
\* or from one another.
LEMMA HeldIds ==
  ASSUME TypeInv, Allocated, Next
  PROVE  /\ \A p \in Procs : acc'[p] \in Ids \cup {0} /\ acc'[p] <= seq
         /\ \A i \in Ids : snap'[i] # NoRow => i <= seq
         /\ pending' <= seq
         /\ \A i \in todo' : i <= seq
<1> USE DEF db, upstream, loop, local, result
<1>1. ASSUME NEW p \in Procs, Lock(p) \/ RefreshStep(p) \/ DeleteStep(p) \/ RequestStep(p) \/ StartupStep(p)
      PROVE  snap' = snap /\ pending' = pending
  BY <1>1 DEF Lock, RefreshStep, ReadAndReturn, ReadAndContinue, MissingCredentials, Renew, CallFails,
              Fetch, RecordFailure, StoreCredential, StoreAlive, StoreProfile, DeleteStep, Delete, Count,
              ResetSequence, StartupStep, StartupList, StartupNext, StartupDone, StartupReturn,
              RequestStep, RefreshRequest, ResyncRequest, Resync, ScanRequest, Upsert, DeleteRequest,
              RequestReturn
<1>2. ASSUME NEW p \in Procs, Lock(p) \/ RefreshStep(p) \/ DeleteStep(p) \/ RequestStep(p)
      PROVE  todo' = todo
  BY <1>2 DEF Lock, RefreshStep, ReadAndReturn, ReadAndContinue, MissingCredentials, Renew, CallFails,
              Fetch, RecordFailure, StoreCredential, StoreAlive, StoreProfile, DeleteStep, Delete, Count,
              ResetSequence, RequestStep, RefreshRequest, ResyncRequest, Resync, ScanRequest, Upsert,
              DeleteRequest, RequestReturn
<1>3. ASSUME NEW p \in Procs, StartupStep(p) PROVE todo' \subseteq todo \cup {i \in Ids : Exists(i)}
  BY <1>3 DEF StartupStep, StartupList, StartupNext, StartupDone, StartupReturn
<1>4. ASSUME NEW p \in Procs, Lock(p) \/ RefreshStep(p) PROVE acc' = acc
  BY <1>4 DEF Lock, RefreshStep, ReadAndReturn, ReadAndContinue, MissingCredentials, Renew, CallFails,
              Fetch, RecordFailure, StoreCredential, StoreAlive, StoreProfile
<1>5. ASSUME NEW p \in Procs, DeleteStep(p) \/ RequestStep(p) \/ StartupStep(p)
      PROVE  \A q \in Procs : acc'[q] \in {acc[q], 0} \cup todo \cup {i \in Ids : Exists(i)}
  <2>1. CASE acc' = acc
    BY <2>1
  <2>2. CASE \E i \in {0} \cup todo \cup {j \in Ids : Exists(j)} : acc' = [acc EXCEPT ![p] = i]
    BY <2>2 DEF TypeInv, TypeOK
  <2> QED
    BY <1>5, <2>1, <2>2 DEF DeleteStep, Delete, Count, Deleted, Finish,
              ResetSequence, StartupStep, StartupList, StartupNext, StartupDone, StartupReturn,
              RequestStep, RefreshRequest, ResyncRequest, Resync, ScanRequest, Upsert, DeleteRequest,
              RequestReturn
<1>6. ASSUME KeepAliveStep \/ FallsDue \/ BackoffElapses \/ Revoke \/ Restart
      PROVE  /\ \A q \in Procs : acc'[q] \in {acc[q], 0, pending}
             /\ todo' \subseteq todo
             /\ pending' \in {pending, 0} \cup {i \in Ids : snap[i] # NoRow}
             /\ \A i \in Ids : snap'[i] # NoRow => snap[i] # NoRow \/ Exists(i)
  <2>1. CASE KeepAliveTick \/ KeepAliveCheck \/ KeepAliveWait
    BY <2>1 DEF KeepAliveTick, KeepAliveCheck, KeepAliveWait, Exists, TypeInv, TypeOK
  <2>2. ASSUME NEW p \in Workers, KeepAliveSpawn(p) \/ WorkerReturn(p)
        PROVE  /\ acc' = [acc EXCEPT ![p] = 0] \/ acc' = [acc EXCEPT ![p] = pending]
               /\ todo' = todo /\ snap' = snap /\ pending' \in {pending, 0}
    BY <2>2 DEF KeepAliveSpawn, WorkerReturn, Finish
  <2>3. CASE \E p \in Workers : KeepAliveSpawn(p) \/ WorkerReturn(p)
    BY <2>2, <2>3 DEF TypeInv, TypeOK
  <2>4. CASE FallsDue \/ BackoffElapses \/ Revoke
    BY <2>4 DEF FallsDue, BackoffElapses, Revoke
  <2>5. CASE Restart
    BY <2>5 DEF Restart
  <2> QED BY <1>6, <2>1, <2>3, <2>4, <2>5 DEF KeepAliveStep
<1>7. /\ \A i \in Ids \cup {0} : i \in Nat
      /\ \A i \in Ids : Exists(i) => i <= seq
      /\ 0 <= seq
  BY DEF Allocated, Ids, TypeInv, TypeOK
<1>8. CASE \E p \in Procs : Lock(p) \/ RefreshStep(p) \/ DeleteStep(p) \/ RequestStep(p) \/ StartupStep(p)
  <2>1. PICK p \in Procs : Lock(p) \/ RefreshStep(p) \/ DeleteStep(p) \/ RequestStep(p) \/ StartupStep(p)
    BY <1>8
  <2>2. snap' = snap /\ pending' = pending
    BY <1>1, <2>1
  <2>3. todo' \subseteq todo \cup {i \in Ids : Exists(i)}
    BY <1>2, <1>3, <2>1
  <2>4. \A q \in Procs : acc'[q] \in {acc[q], 0} \cup todo \cup {i \in Ids : Exists(i)}
    BY <1>4, <1>5, <2>1
  <2> QED BY <1>7, <2>2, <2>3, <2>4 DEF Allocated, TypeInv, TypeOK
<1>9. CASE KeepAliveStep \/ FallsDue \/ BackoffElapses \/ Revoke \/ Restart
  BY <1>6, <1>7, <1>9 DEF Allocated, TypeInv, TypeOK
<1> QED BY <1>8, <1>9 DEF Next

\* So no id in anybody's hands is ever given to a new row, while the sequence is not reset.
LEMMA AllocatedStep ==
  ASSUME TypeInv, TypeInv', OwnInv, ~recycled, Next, ~recycled'
  PROVE  Allocated'
<1>1. Allocated
  BY DEF OwnInv
<1>2. seq <= seq' /\ seq' \in Nat /\ seq \in Nat
  BY SequenceGrows DEF TypeInv, TypeOK
<1>3. \A i \in Ids : i \in Nat
  BY DEF Ids
<1>4. \A i \in Ids : Exists(i)' => i <= seq'
  <2> SUFFICES ASSUME NEW i \in Ids, row'[i] # NoRow PROVE i <= seq'
    BY DEF Exists
  <2>1. CASE Exists(i)
    BY <1>1, <1>2, <1>3, <2>1 DEF Allocated
  <2>2. CASE ~Exists(i)
    BY <2>2, OwnRows
  <2> QED BY <2>1, <2>2
<1>5. /\ \A p \in Procs : acc'[p] \in Nat /\ acc'[p] <= seq
      /\ \A i \in Ids : snap'[i] # NoRow => i <= seq
      /\ pending' \in Nat /\ pending' <= seq
      /\ \A i \in todo' : i \in Nat /\ i <= seq
  BY <1>1, HeldIds DEF TypeInv, TypeOK, Ids
<1> QED BY <1>2, <1>3, <1>4, <1>5 DEF Allocated

\* A goroutine that carries a row has carried it before the step, and may have renewed its
\* credential, or it has just read the row from the table.
LEMMA HoldingStep ==
  ASSUME TypeInv, Next, NEW q \in Procs, Holding(q)'
  PROVE  \/ /\ Holding(q) /\ latest'[q] = latest[q] /\ acc'[q] = acc[q]
            /\ pc'[q] \in {"fetch", "setCred"} =>
                 \/ pc[q] \in {"fetch", "setCred"} /\ got'[q] = got[q]
                 \/ pc[q] = "call" /\ got'[q].owner = latest[q].cred.owner
         \/ /\ row' = row /\ acc'[q] \in Ids /\ Exists(acc'[q])
            /\ latest'[q] = row[acc'[q]]
            /\ pc'[q] \notin {"fetch", "setCred"}
<1> USE DEF db, upstream, loop, local, result
<1>1. CASE Kept(q)
  BY <1>1 DEF Kept, Holding, Refreshing
\* Its own steps.
<1>2. CASE RefreshStep(q)
  <2>1. CASE ReadAndReturn(q)
    BY <2>1 DEF ReadAndReturn, Return, Goto, TypeInv, TypeOK, Holding, Refreshing
  <2>2. CASE ReadAndContinue(q)
    <3>1. acc[q] \in Ids
      BY <2>2 DEF ReadAndContinue, TypeInv, Locals, Refreshing
    <3> QED BY <2>2, <3>1 DEF ReadAndContinue, Goto, TypeInv, TypeOK, Exists
  <2>3. CASE Renew(q)
    BY <2>3 DEF Renew, Goto, TypeInv, TypeOK, Holding, Refreshing
  <2>4. CASE CallFails(q) \/ Fetch(q)
    BY <2>4 DEF CallFails, Fetch, Goto, TypeInv, TypeOK, Holding, Refreshing
  <2>5. CASE MissingCredentials(q) \/ RecordFailure(q) \/ StoreProfile(q)
    BY <2>5 DEF MissingCredentials, RecordFailure, StoreProfile, Return, Goto, TypeInv, TypeOK,
                Holding, Refreshing
  <2>6. CASE StoreCredential(q)
    BY <2>6 DEF StoreCredential, Return, Goto, TypeInv, TypeOK, Holding, Refreshing
  <2>7. CASE StoreAlive(q)
    BY <2>7 DEF StoreAlive, Return, Goto, TypeInv, TypeOK, Holding, Refreshing
  <2> QED BY <1>2, <2>1, <2>2, <2>3, <2>4, <2>5, <2>6, <2>7 DEF RefreshStep
<1>3. CASE Lock(q)
  BY <1>3 DEF Lock, Goto, TypeInv, TypeOK, Holding, Refreshing
<1>4. CASE ResyncRequest(q)
  BY <1>4 DEF ResyncRequest, Goto, TypeInv, TypeOK
<1>5. CASE \/ DeleteStep(q) \/ StartupStep(q) \/ RefreshRequest(q) \/ Resync(q) \/ ScanRequest(q)
           \/ Upsert(q) \/ DeleteRequest(q) \/ RequestReturn(q)
  <2>1. pc'[q] \in {"idle", "boot", "count", "reset", "done", "delete", "lock", "upsert"}
    BY <1>5 DEF TypeInv, TypeOK, Goto, Finish, Deleted,
                DeleteStep, Delete, Count, ResetSequence, StartupStep, StartupList, StartupNext,
                StartupDone, StartupReturn, RefreshRequest, Resync, ScanRequest, Upsert,
                DeleteRequest, RequestReturn
  <2> QED BY <2>1 DEF Holding, Refreshing
\* Steps of others.
<1>6. ASSUME NEW p \in Procs \ {q}, Step(p) PROVE Kept(q)
  BY <1>6, OthersKept
<1>7. CASE Restart
  BY <1>7 DEF Restart, Rest, Holding, Refreshing
<1>8. pc'[q] \notin {"lock", "idle"}
  BY DEF Holding, Refreshing
<1>9. CASE Step(q)
  BY <1>2, <1>3, <1>4, <1>5, <1>9 DEF Step, RequestStep
<1>10. CASE KeepAliveStep \/ FallsDue \/ BackoffElapses \/ Revoke
  BY <1>1, <1>8, <1>10, LoopKept DEF KeepAliveStep
<1> QED BY <1>1, <1>6, <1>7, <1>9, <1>10 DEF Next, Step

\* What a goroutine is about to write stays data of the identity behind its id.
LEMMA OwnLocalsStep ==
  ASSUME TypeInv, OwnInv, ~recycled, Next
  PROVE  OwnLocals'
<1> SUFFICES ASSUME NEW q \in Procs, Holding(q)'
             PROVE  /\ OwnRow(latest[q])'
                    /\ row'[acc'[q]] = NoRow \/ row'[acc'[q]].openid = latest'[q].openid
                    /\ pc'[q] \in {"fetch", "setCred"} => got'[q].owner = latest'[q].openid
  BY DEF OwnLocals
<1>1. CASE /\ Holding(q) /\ latest'[q] = latest[q] /\ acc'[q] = acc[q]
           /\ pc'[q] \in {"fetch", "setCred"} =>
                \/ pc[q] \in {"fetch", "setCred"} /\ got'[q] = got[q]
                \/ pc[q] = "call" /\ got'[q].owner = latest[q].cred.owner
  <2>1. /\ acc[q] \in Ids /\ acc[q] <= seq
        /\ OwnRow(latest[q])
        /\ row[acc[q]] = NoRow \/ row[acc[q]].openid = latest[q].openid
        /\ pc[q] \in {"fetch", "setCred"} => got[q].owner = latest[q].openid
    BY <1>1 DEF OwnInv, Allocated, OwnLocals, Holding, TypeInv, Locals
  <2>2. OwnRow(latest[q])'
    BY <1>1, <2>1 DEF OwnRow
  <2>3. row'[acc[q]] = NoRow \/ row'[acc[q]].openid = latest[q].openid
    <3>1. CASE Exists(acc[q])
      BY <2>1, <3>1, OwnRows DEF Exists
    <3>2. CASE ~Exists(acc[q])
      <4>1. ~(seq < acc[q])
        BY <2>1 DEF Ids, TypeInv, TypeOK
      <4> QED BY <2>1, <3>2, <4>1, OwnRows
    <3> QED BY <3>1, <3>2
  <2>4. pc[q] = "call" => latest[q].cred.owner = latest[q].openid
    BY <2>1, NullsAssumption DEF OwnRow, TypeInv, Locals
  <2> QED BY <1>1, <2>1, <2>2, <2>3, <2>4
<1>2. CASE /\ row' = row /\ acc'[q] \in Ids /\ Exists(acc'[q])
           /\ latest'[q] = row[acc'[q]]
           /\ pc'[q] \notin {"fetch", "setCred"}
  BY <1>2 DEF OwnInv, OwnData, OwnRow
<1> QED BY <1>1, <1>2, HoldingStep

\* Every step of the service keeps OwnInv.
LEMMA NextOwnInv == TypeInv /\ TypeInv' /\ OwnInv /\ [Next]_vars => OwnInv'
<1> SUFFICES ASSUME TypeInv, TypeInv', OwnInv, [Next]_vars PROVE OwnInv'
  OBVIOUS
<1>1. CASE UNCHANGED vars
  BY <1>1 DEF vars, OwnInv, OwnData, Allocated, OwnLocals, Holding, Refreshing, Exists, OwnRow
<1>2. CASE Next /\ ~recycled'
  <2>1. ~recycled
    <3>1. recycled' = recycled \/ recycled' = TRUE
      <4> USE DEF db, upstream, loop, local, result
      <4>1. ASSUME NEW p \in Procs, Lock(p) \/ RefreshStep(p) \/ DeleteStep(p) \/ RequestStep(p) \/ StartupStep(p)
            PROVE  recycled' = recycled \/ recycled' = TRUE
        BY <4>1 DEF Lock, RefreshStep, ReadAndReturn, ReadAndContinue, MissingCredentials, Renew,
              CallFails, Fetch, RecordFailure, StoreCredential, StoreAlive, StoreProfile, DeleteStep,
              Delete, Count, ResetSequence, StartupStep, StartupList, StartupNext, StartupDone,
              StartupReturn, RequestStep, RefreshRequest, ResyncRequest, Resync, ScanRequest, Upsert,
              DeleteRequest, RequestReturn
      <4>2. ASSUME KeepAliveStep \/ FallsDue \/ BackoffElapses \/ Revoke \/ Restart
            PROVE  recycled' = recycled
        BY <4>2 DEF KeepAliveStep, KeepAliveTick, KeepAliveCheck, KeepAliveSpawn, WorkerReturn,
              KeepAliveWait, FallsDue, BackoffElapses, Revoke, Restart
      <4> QED BY <1>2, <4>1, <4>2 DEF Next
    <3> QED BY <1>2, <3>1
  <2>2. Allocated'
    BY <1>2, <2>1, AllocatedStep
  <2>3. OwnLocals'
    BY <1>2, <2>1, OwnLocalsStep
  <2>4. OwnData'
    <3>1. \A i \in Ids : row'[i] = NoRow \/ OwnRow(row'[i])
      BY <1>2, <2>1, OwnRows
    <3> QED BY <3>1 DEF OwnData, OwnRow, Exists
  <2> QED BY <2>2, <2>3, <2>4 DEF OwnInv
<1>3. CASE recycled'
  BY <1>3 DEF OwnInv, OwnData
<1> QED BY <1>1, <1>2, <1>3

\* As long as the id sequence has not been reset, no refresh, resync or scan mixes two identities
\* in one row.
THEOREM OwnDataAlways == Spec => []OwnData
<1>1. Init => OwnInv
  <2> SUFFICES ASSUME Init PROVE OwnInv
    OBVIOUS
  <2>1. OwnData
    <3> SUFFICES ASSUME NEW i \in Ids, row[i] # NoRow
                 PROVE  /\ row[i].prof = row[i].openid
                        /\ row[i].cred # NoCred => row[i].cred.owner = row[i].openid
      BY DEF OwnData, Exists
    <3>1. /\ row[i].prof = row[i].openid
          /\ row[i].cred # NoCred => row[i].cred = [owner |-> row[i].openid, gen |-> 0]
      BY InitialRowsAssumption DEF Init
    <3> QED BY <3>1
  <2>2. Allocated
    BY DEF Init, Allocated, Ids
  <2>3. OwnLocals
    BY DEF Init, OwnLocals, Holding, Refreshing, Rest
  <2> QED BY <2>1, <2>2, <2>3 DEF OwnInv
<1>2. TypeInv /\ TypeInv' /\ OwnInv /\ [Next]_vars => OwnInv'
  BY NextOwnInv
<1>3. OwnInv => OwnData
  BY DEF OwnInv
<1> QED BY <1>1, <1>2, <1>3, TypeCorrect, PTL DEF Spec

-----------------------------------------------------------------------------
(* No credential is spent twice *)

\* Goroutines that carry a credential they have not stored yet.
InFlight(p) == pc[p] \in {"fetch", "setCred", "upsert"}

\* A credential that was issued before, that nobody is about to store, and that sits in one row
\* only, if in any.
Sits(c, i) ==
  /\ c.gen <= issued
  /\ \A p \in Procs : InFlight(p) => got[p] # c
  /\ \A j \in Ids : Exists(j) /\ row[j].cred = c => j = i

\* A credential is in one place: a row or one goroutine's hands. What is presented to the token
\* service came from the row of the goroutine's own account.
CredInv ==
  /\ \A i \in Ids : Exists(i) /\ row[i].cred # NoCred => Sits(row[i].cred, i)
  /\ \A p \in Procs : pc[p] = "call" => Sits(latest[p].cred, acc[p])
  /\ \A p \in Procs : InFlight(p) =>
       /\ got[p].gen <= issued
       /\ \A q \in Procs : q # p /\ InFlight(q) => got[q] # got[p]
  /\ NoDoubleSpend

\* A step stores no credential, or one that a goroutine has carried until now, in one row.
LEMMA CredRows ==
  ASSUME TypeInv, Next
  PROVE  \/ \A i \in Ids : Exists(i)' => Exists(i) /\ row'[i].cred = row[i].cred
         \/ \E p \in Procs, n \in Ids :
              /\ InFlight(p) /\ ~InFlight(p)' /\ row'[n].cred = got[p]
              /\ \A j \in Ids : j # n => row'[j] = row[j]
<1> USE DEF db, upstream, loop, local, result
<1>1. CASE row' = row
  BY <1>1 DEF Exists
<1>2. ASSUME NEW p \in Procs, NEW i \in Ids,
             \/ \E s \in Status : SetAccountStatus(i, s)
             \/ \E o \in Openids : SetAccountProfile(i, o)
      PROVE  \A j \in Ids : Exists(j)' => Exists(j) /\ row'[j].cred = row[j].cred
  BY <1>2, StatusUpdate, ProfileUpdate DEF Exists, TypeInv, TypeOK
<1>3. ASSUME NEW p \in Procs, RefreshStep(p), row' # row
      PROVE  \/ \E s \in Status : SetAccountStatus(acc[p], s)
             \/ \E o \in Openids : SetAccountProfile(acc[p], o)
             \/ pc[p] = "setCred" /\ pc'[p] = "setStatus" /\ SetAccountCredential(acc[p], got[p])
  <2>1. pc[p] = "profile" => latest[p].prof \in Openids
    BY DEF Refreshing, TypeInv, Locals, Row
  <2> QED
    BY <1>3, <2>1 DEF RefreshStep, ReadAndReturn, ReadAndContinue, MissingCredentials, Renew, CallFails,
              Fetch, RecordFailure, StoreCredential, StoreAlive, StoreProfile, Goto, TypeInv, TypeOK, Status
<1>4. ASSUME NEW p \in Procs, RefreshStep(p), row' # row
      PROVE  \/ \A i \in Ids : Exists(i)' => Exists(i) /\ row'[i].cred = row[i].cred
             \/ \E n \in Ids : /\ InFlight(p) /\ ~InFlight(p)' /\ row'[n].cred = got[p]
                               /\ \A j \in Ids : j # n => row'[j] = row[j]
  <2>1. acc[p] \in Ids
    BY <1>4 DEF RefreshStep, ReadAndReturn, ReadAndContinue, MissingCredentials, Renew, CallFails,
              Fetch, RecordFailure, StoreCredential, StoreAlive, StoreProfile, Refreshing, TypeInv, Locals
  <2>2. CASE pc[p] = "setCred" /\ pc'[p] = "setStatus" /\ SetAccountCredential(acc[p], got[p])
    <3>1. Exists(acc[p]) /\ got[p] \in Creds
      BY <1>4, <2>2 DEF SetAccountCredential, TypeInv, Locals
    <3>2. row'[acc[p]].cred = got[p] /\ \A j \in Ids : j # acc[p] => row'[j] = row[j]
      BY <2>1, <2>2, <3>1, CredentialUpdate DEF TypeInv, TypeOK
    <3> QED BY <2>1, <2>2, <3>2 DEF InFlight
  <2> QED BY <1>2, <1>3, <1>4, <2>1, <2>2
<1>5. ASSUME NEW p \in Procs, Upsert(p), row' # row
      PROVE  \E n \in Ids : /\ InFlight(p) /\ ~InFlight(p)' /\ row'[n].cred = got[p]
                            /\ \A j \in Ids : j # n => row'[j] = row[j]
  <2> DEFINE scanned == [openid |-> got[p].owner, cred |-> got[p], status |-> "alive",
                         prof |-> got[p].owner]
  <2>1. PICK n \in Ids : row' = [row EXCEPT ![n] = scanned]
    BY <1>5 DEF Upsert
  <2>2. pc[p] = "upsert" /\ pc'[p] = "idle"
    BY <1>5 DEF Upsert, Finish, Goto, TypeInv, TypeOK
  <2> QED BY <2>1, <2>2 DEF InFlight, TypeInv, TypeOK
<1>6. ASSUME NEW p \in Procs, Resync(p), row' # row
      PROVE  \E i \in Ids, o \in Openids : SetAccountProfile(i, o)
  BY <1>6 DEF Resync, TypeInv, Locals, Row
<1>7. ASSUME NEW p \in Procs, Delete(p) PROVE \A i \in Ids : row'[i] = row[i] \/ row'[i] = NoRow
  BY <1>7 DEF Delete, TypeInv, TypeOK
<1>8. ASSUME NEW p \in Procs,
             \/ Lock(p) \/ Count(p) \/ ResetSequence(p) \/ StartupStep(p) \/ RefreshRequest(p)
             \/ ResyncRequest(p) \/ ScanRequest(p) \/ DeleteRequest(p) \/ RequestReturn(p)
      PROVE  row' = row
  BY <1>8 DEF Lock, Count, ResetSequence, StartupStep, StartupList, StartupNext, StartupDone,
              StartupReturn, RefreshRequest, ResyncRequest, ScanRequest, DeleteRequest, RequestReturn
<1>9. ASSUME KeepAliveStep \/ FallsDue \/ BackoffElapses \/ Revoke \/ Restart
      PROVE  row' = row
  BY <1>9 DEF KeepAliveStep, KeepAliveTick, KeepAliveCheck, KeepAliveSpawn, WorkerReturn, KeepAliveWait,
              FallsDue, BackoffElapses, Revoke, Restart
<1>10. ASSUME NEW p \in Procs, Step(p) PROVE
         \/ \A i \in Ids : Exists(i)' => Exists(i) /\ row'[i].cred = row[i].cred
         \/ \E n \in Ids : /\ InFlight(p) /\ ~InFlight(p)' /\ row'[n].cred = got[p]
                           /\ \A j \in Ids : j # n => row'[j] = row[j]
  <2>1. CASE row' = row
    BY <2>1 DEF Exists
  <2>2. CASE RefreshStep(p) \/ Upsert(p)
    BY <1>4, <1>5, <2>1, <2>2
  <2>3. CASE Resync(p)
    BY <1>2, <1>6, <2>1, <2>3
  <2>4. CASE Delete(p)
    BY <1>7, <2>4 DEF Exists
  <2> QED BY <1>8, <1>10, <2>1, <2>2, <2>3, <2>4 DEF Step, DeleteStep, RequestStep
<1> QED BY <1>1, <1>9, <1>10 DEF Next, Step

\* The token service issues one credential at a time.
LEMMA CredIssue ==
  ASSUME Next
  PROVE  issued' \in {issued, issued + 1}
<1> USE DEF db, upstream, loop, local, result
<1>1. ASSUME NEW p \in Procs, Step(p) PROVE issued' \in {issued, issued + 1}
  BY <1>1 DEF Step, Lock, RefreshStep, ReadAndReturn, ReadAndContinue, MissingCredentials, Renew,
            CallFails, Fetch, RecordFailure, StoreCredential, StoreAlive, StoreProfile, DeleteStep,
            Delete, Count, ResetSequence, StartupStep, StartupList, StartupNext, StartupDone,
            StartupReturn, RequestStep, RefreshRequest, ResyncRequest, Resync, ScanRequest, Upsert,
            DeleteRequest, RequestReturn
<1>2. ASSUME KeepAliveStep \/ FallsDue \/ BackoffElapses \/ Revoke \/ Restart PROVE issued' = issued
  BY <1>2 DEF KeepAliveStep, KeepAliveTick, KeepAliveCheck, KeepAliveSpawn, WorkerReturn,
            KeepAliveWait, FallsDue, BackoffElapses, Revoke, Restart
<1> QED BY <1>1, <1>2 DEF Next, Step

\* A step puts a credential into a goroutine's hands only when the token service has just issued
\* it, and a goroutine comes to its call with what its account's row holds.
LEMMA CredHands ==
  ASSUME TypeInv, Next, NEW q \in Procs
  PROVE  /\ InFlight(q)' =>
              \/ InFlight(q) /\ got'[q] = got[q]
              \/ /\ got'[q].gen = issued + 1 /\ issued' = issued + 1
                 /\ \A r \in Procs : r # q => Kept(r)
         /\ pc'[q] = "call" =>
              \/ pc[q] = "call" /\ latest'[q] = latest[q] /\ acc'[q] = acc[q]
              \/ /\ Refreshing(q) /\ acc[q] \in Ids /\ acc'[q] = acc[q]
                 /\ Exists(acc[q]) /\ row[acc[q]].cred # NoCred /\ latest'[q] = row[acc[q]]
                 /\ \A r \in Procs : r # q => Kept(r)
<1> USE DEF db, upstream, loop, local, result
<1> DEFINE Goal == /\ InFlight(q)' =>
                        \/ InFlight(q) /\ got'[q] = got[q]
                        \/ /\ got'[q].gen = issued + 1 /\ issued' = issued + 1
                           /\ \A r \in Procs : r # q => Kept(r)
                   /\ pc'[q] = "call" =>
                        \/ pc[q] = "call" /\ latest'[q] = latest[q] /\ acc'[q] = acc[q]
                        \/ /\ Refreshing(q) /\ acc[q] \in Ids /\ acc'[q] = acc[q]
                           /\ Exists(acc[q]) /\ row[acc[q]].cred # NoCred /\ latest'[q] = row[acc[q]]
                           /\ \A r \in Procs : r # q => Kept(r)
<1>2. Kept(q) => Goal
  BY DEF Kept, InFlight
<1>3. pc'[q] \notin {"fetch", "setCred", "upsert", "call"} => Goal
  BY DEF InFlight
<1>4. ASSUME Step(q) PROVE Goal
  <2>0. \A r \in Procs : r # q => Kept(r)
    BY <1>4, OthersKept
  <2>1. CASE ReadAndContinue(q)
    <3>1. /\ pc[q] = "read" /\ acc[q] \in Ids
          /\ latest'[q] = row[acc[q]] /\ acc'[q] = acc[q]
          /\ row[acc[q]] # NoRow
          /\ pc'[q] \in {"missing", "call"}
          /\ pc'[q] = "call" => row[acc[q]].cred # NoCred
      BY <2>1 DEF ReadAndContinue, Goto, Refreshing, TypeInv, TypeOK, Locals
    <3> QED BY <2>0, <3>1 DEF InFlight, Refreshing, Exists
  <2>2. CASE Renew(q) \/ ScanRequest(q)
    <3>1. got'[q].gen = issued + 1 /\ issued' = issued + 1 /\ pc'[q] \in {"fetch", "upsert"}
      BY <2>2 DEF Renew, ScanRequest, Goto, TypeInv, TypeOK
    <3> QED BY <2>0, <3>1
  <2>3. CASE Fetch(q)
    BY <2>3 DEF Fetch, Goto, InFlight, TypeInv, TypeOK
  <2>4. CASE CallFails(q) \/ Lock(q)
    <3>1. pc'[q] \in {"fail", "read"}
      BY <2>4 DEF CallFails, Lock, Goto, TypeInv, TypeOK
    <3> QED BY <1>3, <3>1
  <2>5. CASE \/ ReadAndReturn(q) \/ MissingCredentials(q) \/ RecordFailure(q) \/ StoreCredential(q)
             \/ StoreAlive(q) \/ StoreProfile(q)
    <3>1. pc'[q] \in {"ret", "setStatus", "profile"}
      BY <2>5 DEF ReadAndReturn, MissingCredentials, RecordFailure, StoreCredential, StoreAlive,
                  StoreProfile, Return, Goto, TypeInv, TypeOK
    <3> QED BY <1>3, <3>1
  <2>6. CASE \/ DeleteStep(q) \/ StartupStep(q) \/ RefreshRequest(q) \/ ResyncRequest(q) \/ Resync(q)
             \/ Upsert(q) \/ DeleteRequest(q) \/ RequestReturn(q)
    <3>1. pc'[q] \in {"idle", "boot", "count", "reset", "done", "delete", "lock", "resync"}
      BY <2>6 DEF TypeInv, TypeOK, Goto, Finish, Deleted, DeleteStep, Delete, Count, ResetSequence,
                StartupStep, StartupList, StartupNext, StartupDone, StartupReturn, RefreshRequest,
                ResyncRequest, Resync, Upsert, DeleteRequest, RequestReturn
    <3> QED BY <1>3, <3>1
  <2> HIDE DEF Goal
  <2> QED BY <1>4, <2>1, <2>2, <2>3, <2>4, <2>5, <2>6 DEF Step, RefreshStep, RequestStep
<1>5. CASE Restart
  BY <1>3, <1>5 DEF Restart, Rest
<1> HIDE DEF Goal
<1>6. ASSUME NEW p \in Procs \ {q}, Step(p) PROVE Goal
  BY <1>2, <1>6, OthersKept
<1>7. CASE KeepAliveStep \/ FallsDue \/ BackoffElapses \/ Revoke
  BY <1>2, <1>3, <1>7, LoopKept DEF KeepAliveStep, Goal
<1> QED BY <1>4, <1>5, <1>6, <1>7 DEF Next, Step, Goal

\* No step moves a credential to another row.
LEMMA SitsKept ==
  ASSUME TypeInv, CredInv, Next, NEW c \in Creds, NEW i \in Ids, Sits(c, i)
  PROVE  Sits(c, i)'
<1>0. c.gen \in Nat /\ issued \in Nat /\ c.gen <= issued
  BY BoundsAssumption DEF Sits, Creds, TypeInv, TypeOK
<1>1. issued' \in {issued, issued + 1} /\ c.gen <= issued'
  BY <1>0, CredIssue
<1>2. \A q \in Procs : InFlight(q)' => got'[q] # c
  <2> SUFFICES ASSUME NEW q \in Procs, InFlight(q)' PROVE got'[q] # c
    OBVIOUS
  <2>1. CASE InFlight(q) /\ got'[q] = got[q]
    BY <2>1 DEF Sits
  <2>2. CASE got'[q].gen = issued + 1
    BY <1>0, <2>2
  <2> QED BY <2>1, <2>2, CredHands
<1>3. \A j \in Ids : Exists(j)' /\ row'[j].cred = c => j = i
  BY CredRows DEF Sits, Exists
<1> QED BY <1>1, <1>2, <1>3 DEF Sits

\* Every step keeps each credential in its one place, and the calls apart.
LEMMA NextCredInv == TypeInv /\ TypeInv' /\ LockInv /\ CredInv /\ [Next]_vars => CredInv'
<1> SUFFICES ASSUME TypeInv, TypeInv', LockInv, CredInv, [Next]_vars PROVE CredInv'
  OBVIOUS
<1>1. CASE UNCHANGED vars
  BY <1>1 DEF vars, CredInv, Sits, InFlight, Exists, NoDoubleSpend
<1>2. CASE Next
  <2>0. issued \in Nat /\ issued' \in {issued, issued + 1}
    BY <1>2, BoundsAssumption, CredIssue DEF TypeInv, TypeOK
  <2>1. \A c \in Creds : c.gen \in Nat
    BY DEF Creds
  <2>2. /\ \A i \in Ids : Exists(i) /\ row[i].cred # NoCred => row[i].cred \in Creds
        /\ \A p \in Procs : InFlight(p) => got[p] \in Creds
        /\ \A p \in Procs : pc[p] = "call" => latest[p].cred \in Creds /\ acc[p] \in Ids
    BY DEF Exists, InFlight, TypeInv, TypeOK, MaybeRow, Row, Locals, Refreshing
  <2>3. ASSUME NEW p \in Procs, InFlight(p)'
        PROVE  /\ got'[p].gen <= issued'
               /\ \A q \in Procs : q # p /\ InFlight(q)' => got'[q] # got'[p]
    <3> DEFINE Old(r) == InFlight(r) /\ got'[r] = got[r]
               New(r) == /\ got'[r].gen = issued + 1 /\ issued' = issued + 1
                         /\ \A t \in Procs : t # r => Kept(t)
    <3>1. \A r \in Procs : InFlight(r)' => Old(r) \/ New(r)
      BY <1>2, CredHands
    <3>2. \A r \in Procs : Old(r) => got'[r].gen \in Nat /\ got'[r].gen <= issued
      BY <2>1, <2>2 DEF CredInv
    <3>3. \A r, t \in Procs : r # t /\ New(r) /\ InFlight(t)' => Old(t)
      BY DEF Kept, InFlight
    <3>4. ASSUME NEW q \in Procs, q # p, InFlight(q)' PROVE got'[q] # got'[p]
      <4>1. Old(p) /\ Old(q) => got'[q] # got'[p]
        BY <3>4 DEF CredInv
      <4>2. (New(p) /\ Old(q)) \/ (Old(p) /\ New(q)) => got'[q] # got'[p]
        BY <2>0, <3>2
      <4> HIDE DEF Old, New
      <4>3. New(q) => Old(p)
        BY <2>3, <3>3, <3>4
      <4>4. (Old(p) \/ New(p)) /\ (Old(q) \/ New(q))
        BY <2>3, <3>1, <3>4
      <4> QED BY <4>1, <4>2, <4>3, <4>4
    <3>5. got'[p].gen <= issued'
      BY <2>0, <2>3, <3>1, <3>2
    <3> QED BY <3>4, <3>5
  <2>4. ASSUME NEW i \in Ids, Exists(i)', row'[i].cred # NoCred PROVE Sits(row[i].cred, i)'
    <3>1. CASE Exists(i) /\ row'[i].cred = row[i].cred
      <4>1. PICK c \in Creds : c = row[i].cred
        BY <2>2, <2>4, <3>1
      <4>2. Sits(c, i)
        BY <2>4, <3>1, <4>1 DEF CredInv
      <4>3. Sits(c, i)'
        BY <1>2, <4>2, SitsKept
      <4> QED BY <3>1, <4>1, <4>3 DEF Sits
    <3>2. CASE ~(Exists(i) /\ row'[i].cred = row[i].cred)
      <4>1. PICK p \in Procs : /\ InFlight(p) /\ ~InFlight(p)' /\ row'[i].cred = got[p]
                               /\ \A j \in Ids : j # i => row'[j] = row[j]
        BY <1>2, <2>4, <3>2, CredRows DEF Exists
      <4>2. got[p] \in Creds /\ got[p].gen <= issued'
        BY <2>0, <2>1, <2>2, <4>1 DEF CredInv
      <4>3. \A q \in Procs : InFlight(q)' => got'[q] # got[p]
        <5> SUFFICES ASSUME NEW q \in Procs, InFlight(q)' PROVE got'[q] # got[p]
          OBVIOUS
        <5>1. CASE InFlight(q) /\ got'[q] = got[q]
          BY <4>1, <5>1 DEF CredInv
        <5>2. CASE got'[q].gen = issued + 1
          BY <2>0, <2>1, <4>1, <4>2, <5>2 DEF CredInv
        <5> QED BY <1>2, <5>1, <5>2, CredHands
      <4>4. \A j \in Ids : Exists(j)' /\ row'[j].cred = got[p] => j = i
        <5> SUFFICES ASSUME NEW j \in Ids, Exists(j), row[j].cred = got[p], j # i PROVE FALSE
          BY <4>1 DEF Exists
        <5>1. got[p] # NoCred
          BY <4>2, NullsAssumption
        <5> QED BY <4>1, <5>1 DEF CredInv, Sits
      <4> QED BY <4>1, <4>2, <4>3, <4>4 DEF Sits
    <3> QED BY <3>1, <3>2
  <2>5. ASSUME NEW p \in Procs, pc'[p] = "call" PROVE Sits(latest[p].cred, acc[p])'
    <3>1. PICK c \in Creds, i \in Ids : c = latest'[p].cred /\ i = acc'[p]
      BY <2>5 DEF TypeInv, Locals, Refreshing
    <3>2. Sits(c, i)
      <4>1. CASE pc[p] = "call" /\ latest'[p] = latest[p] /\ acc'[p] = acc[p]
        BY <3>1, <4>1 DEF CredInv
      <4>2. CASE /\ acc[p] \in Ids /\ acc'[p] = acc[p]
                 /\ Exists(acc[p]) /\ row[acc[p]].cred # NoCred /\ latest'[p] = row[acc[p]]
        BY <3>1, <4>2 DEF CredInv
      <4> QED BY <1>2, <2>5, <4>1, <4>2, CredHands
    <3>3. Sits(c, i)'
      BY <1>2, <3>2, SitsKept
    <3> QED BY <3>1, <3>3 DEF Sits
  <2>6. ASSUME NEW p \in Procs, NEW q \in Procs, p # q, pc'[p] = "call", pc'[q] = "call"
        PROVE  latest'[p].cred # latest'[q].cred
    <3> DEFINE Old(r) == pc[r] = "call" /\ latest'[r] = latest[r] /\ acc'[r] = acc[r]
               New(r) == /\ Refreshing(r) /\ acc[r] \in Ids
                         /\ Exists(acc[r]) /\ row[acc[r]].cred # NoCred /\ latest'[r] = row[acc[r]]
                         /\ \A t \in Procs : t # r => Kept(t)
    <3>1. (Old(p) \/ New(p)) /\ (Old(q) \/ New(q))
      BY <1>2, <2>6, CredHands
    <3>2. \A r, t \in Procs : r # t /\ New(r) /\ pc'[t] = "call" => Old(t)
      BY DEF Kept
    <3>3. ASSUME NEW r \in Procs, NEW t \in Procs, r # t, New(r), Old(t)
          PROVE  latest'[r].cred # latest'[t].cred
      <4>1. acc[r] # acc[t]
        BY <3>3, OneRefreshPerAccount DEF Refreshing
      <4>2. Sits(latest[t].cred, acc[t])
        BY <3>3 DEF CredInv
      <4> QED BY <3>3, <4>1, <4>2 DEF Sits
    <3>4. CASE Old(p) /\ Old(q)
      BY <2>6, <3>4 DEF CredInv, NoDoubleSpend
    <3> HIDE DEF Old, New
    <3> QED BY <2>6, <3>1, <3>2, <3>3, <3>4
  <2> QED BY <2>3, <2>4, <2>5, <2>6 DEF CredInv, NoDoubleSpend
<1> QED BY <1>1, <1>2

\* No credential is presented to the token service by two goroutines at once, whatever deletes,
\* scans, recycled ids and restarts happen in between.
THEOREM NeverSpentTwice == Spec => []NoDoubleSpend
<1>1. Init => CredInv
  <2> SUFFICES ASSUME Init PROVE CredInv
    OBVIOUS
  <2>1. \A p \in Procs : ~InFlight(p) /\ pc[p] # "call"
    BY DEF Init, Rest, InFlight
  <2>2. \A i \in Ids : Exists(i) /\ row[i].cred # NoCred =>
          /\ row[i].cred.owner = row[i].openid /\ row[i].cred.gen = 0
          /\ \A j \in Ids : Exists(j) /\ row[j].openid = row[i].openid => j = i
    <3> SUFFICES ASSUME NEW i \in Ids, Exists(i), row[i].cred # NoCred
                 PROVE  /\ row[i].cred.owner = row[i].openid /\ row[i].cred.gen = 0
                        /\ \A j \in Ids : Exists(j) /\ row[j].openid = row[i].openid => j = i
      OBVIOUS
    <3>1. /\ row[i].cred = [owner |-> row[i].openid, gen |-> 0]
          /\ \A j \in Ids : row[j] # NoRow /\ row[j].openid = row[i].openid => j = i
      BY InitialRowsAssumption DEF Init, Exists
    <3> QED BY <3>1 DEF Exists
  <2>3. ASSUME NEW i \in Ids, Exists(i), row[i].cred # NoCred PROVE Sits(row[i].cred, i)
    <3>1. row[i].cred.gen <= issued
      BY <2>2, <2>3 DEF Init
    <3>2. \A j \in Ids : Exists(j) /\ row[j].cred = row[i].cred => j = i
      BY <2>2, <2>3
    <3> QED BY <2>1, <3>1, <3>2 DEF Sits
  <2> QED BY <2>1, <2>3 DEF CredInv, NoDoubleSpend
<1>2. TypeInv /\ TypeInv' /\ LockInv /\ CredInv /\ [Next]_vars => CredInv'
  BY NextCredInv
<1>3. CredInv => NoDoubleSpend
  BY DEF CredInv
<1> QED BY <1>1, <1>2, <1>3, TypeCorrect, RefreshLocked, PTL DEF Spec

-----------------------------------------------------------------------------
(* The back-off of an account is respected *)

\* A worker between its start and its end.
Busy(p) == pc[p] # "idle"

\* A worker has an account to itself: one of the round's list that the loop has passed, that
\* is not about to be handed out, and that is not backing off.
OwnAccount(p) ==
  /\ pc[p] \in {"lock", "ret"} \/ Refreshing(p)
  /\ acc[p] # pending /\ snap[acc[p]] = NoRow /\ retry[acc[p]] # "waiting"
  /\ \A q \in Workers : q # p /\ Busy(q) => acc[q] # acc[p]

\* Between two rounds nobody works, and within a round no account is worked on twice.
RoundInv ==
  /\ ka = "idle" => pending = 0 /\ \A p \in Workers : ~Busy(p)
  /\ pending # 0 => snap[pending] = NoRow /\ retry[pending] # "waiting"
  /\ \A p \in Workers : Busy(p) => OwnAccount(p)

\* Only the keep-alive loop, its workers' return, a back-off's end and a restart touch the round.
LEMMA StepRound ==
  ASSUME NEW p \in Procs, Step(p)
  PROVE  UNCHANGED <<ka, snap, pending, retry>>
<1> USE DEF db, upstream, loop, local, result
<1>1. CASE Lock(p) \/ RefreshStep(p)
  BY <1>1 DEF Lock, RefreshStep, ReadAndReturn, ReadAndContinue, MissingCredentials, Renew, CallFails,
            Fetch, RecordFailure, StoreCredential, StoreAlive, StoreProfile
<1>2. CASE DeleteStep(p) \/ RequestStep(p) \/ StartupStep(p)
  BY <1>2 DEF DeleteStep, Delete, Count, ResetSequence, RequestStep, RefreshRequest, ResyncRequest,
            Resync, ScanRequest, Upsert, DeleteRequest, RequestReturn, StartupStep, StartupList,
            StartupNext, StartupDone, StartupReturn
<1> QED BY <1>1, <1>2 DEF Step

\* A busy worker only ever refreshes: it goes from the mutex to the return, on one account.
LEMMA WorkerRefreshes ==
  ASSUME TypeInv, RoundInv, NEW p \in Workers, Step(p)
  PROVE  /\ Busy(p) /\ acc'[p] = acc[p]
         /\ pc'[p] \in {"lock", "ret"} \/ Refreshing(p)'
<1> USE DEF db, upstream, loop, local, result
<1>0. p \in Procs /\ p \notin Requests /\ p \notin Startup /\ pc \in [Procs -> Labels]
  BY RolesAssumption DEF Procs, TypeInv, TypeOK
<1>1. pc[p] \in {"idle", "lock", "ret"} \/ Refreshing(p)
  BY DEF RoundInv, OwnAccount, Busy
<1>2. ~DeleteStep(p)
  BY <1>1 DEF DeleteStep, Delete, Count, ResetSequence, Refreshing
<1>3. ~RequestStep(p)
  BY <1>0, <1>1 DEF RequestStep, RefreshRequest, ResyncRequest, Resync, ScanRequest, Upsert,
                    DeleteRequest, RequestReturn, Refreshing
<1>4. ~StartupStep(p)
  BY <1>0, <1>1 DEF StartupStep, StartupList, StartupNext, StartupDone, StartupReturn, Refreshing
<1>5. CASE Lock(p)
  BY <1>0, <1>5 DEF Lock, Goto, Busy, Refreshing
<1>6. CASE RefreshStep(p)
  <2>1. Refreshing(p)
    BY <1>6 DEF Refreshing, RefreshStep, ReadAndReturn, ReadAndContinue, MissingCredentials, Renew,
              CallFails, Fetch, RecordFailure, StoreCredential, StoreAlive, StoreProfile
  <2>2. acc' = acc
    BY <1>6 DEF RefreshStep, ReadAndReturn, ReadAndContinue, MissingCredentials, Renew,
              CallFails, Fetch, RecordFailure, StoreCredential, StoreAlive, StoreProfile
  <2>3. pc'[p] \in {"ret", "missing", "call", "fetch", "fail", "setCred", "setStatus", "profile"}
    BY <1>0, <1>6 DEF Goto, Return, RefreshStep, ReadAndReturn, ReadAndContinue, MissingCredentials, Renew,
              CallFails, Fetch, RecordFailure, StoreCredential, StoreAlive, StoreProfile
  <2> QED BY <2>1, <2>2, <2>3 DEF Busy, Refreshing
<1> QED BY <1>2, <1>3, <1>4, <1>5, <1>6 DEF Step

\* Every step keeps the round.
LEMMA NextRoundInv == TypeInv /\ TypeInv' /\ RoundInv /\ [Next]_vars => RoundInv'
<1> SUFFICES ASSUME TypeInv, TypeInv', RoundInv, [Next]_vars PROVE RoundInv'
  OBVIOUS
<1> USE DEF db, upstream, loop, local, result
<1>0. /\ Workers \subseteq Procs
      /\ \A p \in Workers : Busy(p) => acc[p] \in Ids
      /\ \A i \in Ids : i # 0
  BY DEF Procs, Ids, RoundInv, OwnAccount, TypeInv, Locals, Refreshing
<1>1. ASSUME UNCHANGED <<ka, snap, pending>>,
             \A i \in Ids : retry'[i] = "waiting" => retry[i] = "waiting",
             \A p \in Workers : \/ pc'[p] = pc[p] /\ acc'[p] = acc[p]
                                \/ /\ Busy(p) /\ acc'[p] = acc[p]
                                   /\ pc'[p] \in {"lock", "ret"} \/ Refreshing(p)'
      PROVE  RoundInv'
  <2>1. \A p \in Workers : Busy(p)' => Busy(p) /\ acc'[p] = acc[p]
                                       /\ (pc'[p] \in {"lock", "ret"} \/ Refreshing(p)')
    BY <1>1 DEF Busy, Refreshing, RoundInv, OwnAccount
  <2>2. \A p \in Workers : Busy(p)' => OwnAccount(p)'
    BY <1>0, <1>1, <2>1 DEF RoundInv, OwnAccount
  <2>3. pending # 0 => pending \in Ids
    BY DEF TypeInv, TypeOK
  <2> QED BY <1>1, <2>1, <2>2, <2>3 DEF RoundInv
<1>2. CASE UNCHANGED vars
  BY <1>1, <1>2 DEF vars
<1>3. ASSUME NEW p \in Procs, Step(p) PROVE RoundInv'
  <2>1. UNCHANGED <<ka, snap, pending, retry>>
    BY <1>3, StepRound
  <2>2. \A q \in Workers : \/ pc'[q] = pc[q] /\ acc'[q] = acc[q]
                           \/ /\ Busy(q) /\ acc'[q] = acc[q]
                              /\ pc'[q] \in {"lock", "ret"} \/ Refreshing(q)'
    BY <1>0, <1>3, OthersKept, WorkerRefreshes DEF Kept
  <2> QED BY <1>1, <2>1, <2>2
<1>4. CASE FallsDue \/ BackoffElapses \/ Revoke
  <2>1. /\ UNCHANGED <<ka, snap, pending>>
        /\ \A i \in Ids : retry'[i] = "waiting" => retry[i] = "waiting"
        /\ \A p \in Workers : pc'[p] = pc[p] /\ acc'[p] = acc[p]
    BY <1>4 DEF FallsDue, BackoffElapses, Revoke, TypeInv, TypeOK
  <2> QED BY <1>1, <2>1
<1>5. CASE Restart
  <2>1. ka' = "idle" /\ pending' = 0 /\ \A p \in Workers : ~Busy(p)'
    BY <1>0, <1>5, RolesAssumption DEF Restart, Rest, Busy
  <2> QED BY <2>1 DEF RoundInv
<1>6. CASE KeepAliveTick
  <2>1. /\ \A p \in Workers : ~Busy(p)'
        /\ pending' = 0
    BY <1>6 DEF KeepAliveTick, RoundInv, Busy
  <2> QED BY <1>6, <2>1 DEF RoundInv, KeepAliveTick
<1>7. CASE KeepAliveCheck
  <2>1. PICK i \in Ids : /\ snap[i] # NoRow /\ snap' = [snap EXCEPT ![i] = NoRow]
                         /\ \/ UNCHANGED <<pending, retry>>
                            \/ retry' = [retry EXCEPT ![i] = "none"] /\ pending' = i
    BY <1>7 DEF KeepAliveCheck
  <2>2. pending = 0 /\ ka = "walk" /\ UNCHANGED <<ka, pc, acc>>
    BY <1>7 DEF KeepAliveCheck
  <2>3. \A j \in Ids : /\ snap[j] = NoRow => snap'[j] = NoRow
                       /\ retry[j] # "waiting" => retry'[j] # "waiting"
    BY <2>1 DEF TypeInv, TypeOK
  <2>4. \A p \in Workers : Busy(p) => acc[p] # i /\ acc[p] # 0
    BY <1>0, <2>1 DEF RoundInv, OwnAccount
  <2>5. \A p \in Workers : Busy(p)' => OwnAccount(p)'
    BY <1>0, <2>1, <2>2, <2>3, <2>4 DEF Busy, RoundInv, OwnAccount, Refreshing
  <2>6. pending' # 0 => snap'[pending'] = NoRow /\ retry'[pending'] # "waiting"
    BY <2>1, <2>2 DEF TypeInv, TypeOK
  <2> QED BY <2>2, <2>5, <2>6 DEF RoundInv
<1>8. CASE KeepAliveWait
  BY <1>8 DEF KeepAliveWait, AllReturned, RoundInv, OwnAccount, Busy, Refreshing
<1>9. ASSUME NEW p \in Workers, KeepAliveSpawn(p) PROVE RoundInv'
  <2>1. /\ pc[p] = "idle" /\ pending # 0 /\ pending' = 0 /\ UNCHANGED <<ka, snap, retry>>
        /\ acc'[p] = pending /\ pc'[p] = "lock"
        /\ \A q \in Workers : q # p => acc'[q] = acc[q] /\ pc'[q] = pc[q]
    BY <1>0, <1>9 DEF KeepAliveSpawn, Goto, TypeInv, TypeOK
  <2>2. pending \in Ids
    BY <2>1 DEF TypeInv, TypeOK
  <2>3. \A q \in Workers : q # p /\ Busy(q)' => OwnAccount(q)'
    BY <1>0, <2>1 DEF Busy, RoundInv, OwnAccount, Refreshing
  <2>4. OwnAccount(p)'
    BY <1>0, <2>1, <2>2 DEF Busy, RoundInv, OwnAccount
  <2> QED BY <2>1, <2>3, <2>4 DEF RoundInv
<1>10. ASSUME NEW p \in Workers, WorkerReturn(p) PROVE RoundInv'
  <2>1. /\ pc[p] = "ret" /\ pc'[p] = "idle" /\ UNCHANGED <<ka, snap, pending>>
        /\ \A q \in Workers : q # p => acc'[q] = acc[q] /\ pc'[q] = pc[q]
        /\ \A i \in Ids : i # acc[p] => retry'[i] = retry[i]
    BY <1>0, <1>10 DEF WorkerReturn, Finish, Goto, TypeInv, TypeOK
  <2>2. Busy(p) /\ ~Busy(p)'
    BY <2>1 DEF Busy
  <2>3. \A q \in Workers : Busy(q)' => OwnAccount(q)'
    BY <1>0, <2>1, <2>2 DEF Busy, RoundInv, OwnAccount, Refreshing
  <2>4. pending # 0 => pending \in Ids /\ pending # acc[p]
    BY <2>2 DEF RoundInv, OwnAccount, TypeInv, TypeOK
  <2>5. ka' # "idle"
    BY <2>1, <2>2 DEF RoundInv
  <2> QED BY <2>1, <2>3, <2>4, <2>5 DEF RoundInv
<1> QED BY <1>2, <1>3, <1>4, <1>5, <1>6, <1>7, <1>8, <1>9, <1>10 DEF Next, Step, KeepAliveStep

\* No worker calls the token service for an account whose back-off runs, however requests,
\* scans, deletions and restarts interleave with the rounds.
THEOREM BackoffIsRespected == Spec => []BackoffRespected
<1>1. Init => RoundInv
  BY RolesAssumption DEF Init, RoundInv, Busy, Rest, Procs
<1>2. TypeInv /\ TypeInv' /\ RoundInv /\ [Next]_vars => RoundInv'
  BY NextRoundInv
<1>3. RoundInv => BackoffRespected
  BY DEF RoundInv, BackoffRespected, OwnAccount, Busy, Refreshing
<1> QED BY <1>1, <1>2, <1>3, TypeCorrect, PTL DEF Spec

-----------------------------------------------------------------------------
(* What the start-up refresh deletes *)

\* The row is gone or expired, or a scan may have written it.
Condemned(i) == row[i] = NoRow \/ row[i].status = "expired" \/ row[i].openid \in Scannable

\* As long as no write has failed, a verdict of the start-up refresh is what the table says.
VerdictInv ==
  /\ \A p \in Procs : pc[p] = "upsert" => got[p].owner \in Scannable
  /\ faults = 0 => \A p \in Startup :
       /\ pc[p] \in {"ret", "delete"} /\ res[p] = "expired" => Condemned(acc[p])
       /\ pc[p] = "delete" => res[p] = "expired"

\* Only a scan leads to an upsert, and it is the scan of an identity whose owner scans.
LEMMA UpsertOfScan ==
  ASSUME TypeInv, Next, NEW p \in Procs, pc'[p] = "upsert"
  PROVE  \/ pc[p] = "upsert" /\ got'[p] = got[p]
         \/ got'[p].owner \in Scannable
<1> USE DEF db, upstream, loop, local, result
<1>1. CASE ScanRequest(p)
  BY <1>1 DEF ScanRequest, TypeInv, TypeOK
<1>2. CASE Kept(p)
  BY <1>2 DEF Kept
<1>3. Step(p) => ScanRequest(p)
  <2>1. ~Lock(p) /\ ~RefreshStep(p)
    BY DEF Lock, RefreshStep, ReadAndReturn, ReadAndContinue, MissingCredentials, Renew, CallFails, Fetch,
           RecordFailure, StoreCredential, StoreAlive, StoreProfile, Return, Goto, TypeInv, TypeOK
  <2>2. ~DeleteStep(p) /\ ~StartupStep(p)
    BY DEF DeleteStep, Delete, Count, ResetSequence, StartupStep, StartupList, StartupNext, StartupDone,
           StartupReturn, Deleted, Finish, Goto, TypeInv, TypeOK
  <2>3. RequestStep(p) => ScanRequest(p)
    BY DEF RequestStep, RefreshRequest, ResyncRequest, Resync, Upsert, DeleteRequest,
           RequestReturn, Finish, Goto, TypeInv, TypeOK
  <2> QED BY <2>1, <2>2, <2>3 DEF Step
<1>4. ~Restart
  BY DEF Restart, Rest
<1> QED BY <1>1, <1>2, <1>3, <1>4, OthersKept, LoopKept DEF Next, Step, KeepAliveStep

\* Nothing but a failed write counts as one.
LEMMA FaultsGrow ==
  ASSUME Next
  PROVE  faults' = faults \/ Fault
<1> USE DEF db, upstream, loop, local, result
<1>1. ASSUME NEW p \in Procs, Step(p) PROVE faults' = faults \/ Fault
  BY <1>1 DEF Step, Lock, RefreshStep, ReadAndReturn, ReadAndContinue, MissingCredentials, Renew,
            CallFails, Fetch, RecordFailure, StoreCredential, StoreAlive, StoreProfile, DeleteStep,
            Delete, Count, ResetSequence, StartupStep, StartupList, StartupNext, StartupDone,
            StartupReturn, RequestStep, RefreshRequest, ResyncRequest, Resync, ScanRequest, Upsert,
            DeleteRequest, RequestReturn
<1>2. ASSUME KeepAliveStep \/ FallsDue \/ BackoffElapses \/ Revoke \/ Restart PROVE faults' = faults
  BY <1>2 DEF KeepAliveStep, KeepAliveTick, KeepAliveCheck, KeepAliveSpawn, WorkerReturn,
            KeepAliveWait, FallsDue, BackoffElapses, Revoke, Restart
<1> QED BY <1>1, <1>2 DEF Next, Step

\* A refresh without a failed write returns "expired" only for a row it has found or left so.
LEMMA RefreshVerdict ==
  ASSUME TypeInv, LockInv, NEW p \in Procs, RefreshStep(p), faults' = faults,
         pc'[p] = "ret", res'[p] = "expired"
  PROVE  acc'[p] = acc[p] /\ Condemned(acc[p])'
<1> USE DEF db, upstream, loop, local, result
<1>0. acc[p] \in Ids /\ faults \in Nat
  BY DEF RefreshStep, ReadAndReturn, ReadAndContinue, MissingCredentials, Renew, CallFails,
         Fetch, RecordFailure, StoreCredential, StoreAlive, StoreProfile, Refreshing, TypeInv, TypeOK, Locals
<1>1. ReadAndReturn(p) \/ RecordFailure(p)
  <2>1. ~ReadAndContinue(p) /\ ~Renew(p) /\ ~CallFails(p) /\ ~Fetch(p)
    BY DEF ReadAndContinue, Renew, CallFails, Fetch, Goto, TypeInv, TypeOK
  <2>2. ~MissingCredentials(p) /\ ~StoreProfile(p)
    BY DEF MissingCredentials, StoreProfile, Return, TypeInv, TypeOK
  <2>3. ~Fault
    BY <1>0 DEF Fault
  <2>4. ~StoreCredential(p) /\ ~StoreAlive(p)
    BY <2>3 DEF StoreCredential, StoreAlive, Goto, TypeInv, TypeOK
  <2> QED BY <2>1, <2>2, <2>4 DEF RefreshStep
<1>2. CASE ReadAndReturn(p)
  BY <1>2 DEF ReadAndReturn, Return, Condemned, TypeInv, TypeOK
<1>3. CASE RecordFailure(p)
  <2>1. res[p] = "expired" /\ acc' = acc /\ SetAccountStatus(acc[p], "expired")
    BY <1>0, <1>3 DEF RecordFailure, Return, Fault, TypeInv, TypeOK
  <2>2. /\ row'[acc[p]] = NoRow <=> row[acc[p]] = NoRow
        /\ Exists(acc[p]) => row'[acc[p]].status = "expired"
    BY <1>0, <2>1, StatusUpdate DEF TypeInv, TypeOK, Status
  <2> QED BY <2>1, <2>2 DEF Condemned, Exists
<1> QED BY <1>1, <1>2, <1>3

\* Every step keeps the verdicts true.
LEMMA NextVerdictInv == TypeInv /\ LockInv /\ VerdictInv /\ [Next]_vars => VerdictInv'
<1> SUFFICES ASSUME TypeInv, LockInv, VerdictInv, [Next]_vars PROVE VerdictInv'
  OBVIOUS
<1> USE DEF db, upstream, loop, local, result
<1>1. CASE UNCHANGED vars
  BY <1>1 DEF vars, VerdictInv, Condemned
<1>2. CASE Next
  <2>1. \A p \in Procs : pc'[p] = "upsert" => got'[p].owner \in Scannable
    BY <1>2, UpsertOfScan DEF VerdictInv
  <2>2. \A i \in Ids : Condemned(i) => Condemned(i)'
    BY <1>2, RowStep DEF Condemned, VerdictInv, Exists
  <2>3. faults \in Nat /\ faults' \in {faults, faults + 1}
    BY <1>2, FaultsGrow DEF Fault, TypeInv, TypeOK
  <2>4. ASSUME faults' = 0, NEW p \in Startup, pc'[p] \in {"ret", "delete"}
        PROVE  /\ res'[p] = "expired" => Condemned(acc[p])'
               /\ pc'[p] = "delete" => res'[p] = "expired"
    <3>0. faults = 0 /\ p \in Procs /\ p \notin Requests
      BY <2>3, <2>4, RolesAssumption DEF Procs
    <3>1. /\ pc[p] \in {"ret", "delete"} => acc[p] \in Ids
          /\ pc[p] \in {"ret", "delete"} /\ res[p] = "expired" => Condemned(acc[p])
          /\ pc[p] = "delete" => res[p] = "expired"
      BY <3>0 DEF VerdictInv, TypeInv, Locals
    <3>2. CASE Kept(p)
      BY <2>2, <2>4, <3>1, <3>2 DEF Kept, Condemned
    <3>3. CASE Step(p)
      <4>1. CASE RefreshStep(p)
        <5>1. pc'[p] # "delete"
          BY <3>0, <4>1 DEF RefreshStep, ReadAndReturn, ReadAndContinue, MissingCredentials, Renew, CallFails,
              Fetch, RecordFailure, StoreCredential, StoreAlive, StoreProfile, Return, Goto, TypeInv, TypeOK
        <5>2. res'[p] = "expired" => acc'[p] = acc[p] /\ Condemned(acc[p])'
          BY <2>4, <3>0, <4>1, <5>1, RefreshVerdict
        <5> QED BY <5>1, <5>2 DEF Condemned
      <4>2. CASE StartupStep(p)
        <5>1. /\ pc[p] = "ret" /\ pc'[p] = "delete" /\ res[p] = "expired"
              /\ acc'[p] = acc[p] /\ res'[p] = res[p] /\ row' = row
          BY <2>4, <3>0, <4>2 DEF StartupStep, StartupList, StartupNext, StartupDone, StartupReturn, Doomed,
                                Finish, Goto, TypeInv, TypeOK
        <5> QED BY <3>1, <5>1 DEF Condemned
      <4>3. CASE Lock(p) \/ DeleteStep(p)
        BY <2>4, <3>0, <4>3 DEF Lock, DeleteStep, Delete, Count, ResetSequence, Deleted, Finish, Goto,
                              TypeInv, TypeOK
      <4>4. CASE RequestStep(p)
        BY <2>4, <3>0, <4>4 DEF RequestStep, RefreshRequest, ResyncRequest, Resync, ScanRequest, Upsert,
                              DeleteRequest, RequestReturn, Finish, Goto, TypeInv, TypeOK
      <4> QED BY <3>3, <4>1, <4>2, <4>3, <4>4 DEF Step
    <3>4. CASE Restart
      BY <2>4, <3>0, <3>4 DEF Restart, Rest
    <3>5. ASSUME NEW q \in Workers, KeepAliveSpawn(q) \/ WorkerReturn(q) PROVE Kept(p)
      BY <3>0, <3>5, LoopKept, RolesAssumption
    <3>6. Kept(p) \/ Step(p) \/ Restart
      BY <1>2, <3>0, <3>5, OthersKept, LoopKept DEF Next, Step, KeepAliveStep
    <3> QED BY <3>2, <3>3, <3>4, <3>6
  <2> QED BY <2>1, <2>4 DEF VerdictInv
<1> QED BY <1>1, <1>2

\* The start-up refresh deletes a row that is not expired only if a write has failed before, or
\* if the row is of an identity that is being scanned in: nothing else can come between the
\* verdict and the deletion.
THEOREM StartupVerdicts ==
  Spec => [][\A p \in Startup : \A i \in Ids :
               pc[p] = "delete" /\ pc'[p] = "count" /\ i = acc[p] /\ Exists(i)
               => row[i].status = "expired" \/ row[i].openid \in Scannable \/ faults # 0]_vars
<1> DEFINE Just == \A p \in Startup : \A i \in Ids :
                     pc[p] = "delete" /\ pc'[p] = "count" /\ i = acc[p] /\ Exists(i)
                     => row[i].status = "expired" \/ row[i].openid \in Scannable \/ faults # 0
<1>1. Init => VerdictInv
  BY DEF Init, VerdictInv, Rest, Procs
<1>2. TypeInv /\ LockInv /\ VerdictInv /\ [Next]_vars => VerdictInv'
  BY NextVerdictInv
<1>3. VerdictInv /\ [Next]_vars => [Just]_vars
  BY DEF VerdictInv, Condemned, Exists
<1> QED BY <1>1, <1>2, <1>3, TypeCorrect, RefreshLocked, PTL DEF Spec

\* Where nobody scans and no write fails, every row the start-up refresh deletes is expired.
THEOREM StartupDeletions ==
  ASSUME Scannable = {}, MaxFaults = 0
  PROVE  Spec => StartupDeletesOnlyExpired
<1> DEFINE NoFault == faults = 0
<1>1. Init => NoFault
  BY DEF Init
<1>2. NoFault /\ [Next]_vars => NoFault'
  BY FaultsGrow DEF Fault, vars
<1> DEFINE Just == \A p \in Startup : \A i \in Ids :
                     pc[p] = "delete" /\ pc'[p] = "count" /\ i = acc[p] /\ Exists(i)
                     => row[i].status = "expired" \/ row[i].openid \in Scannable \/ faults # 0
           Expired == \A p \in Startup : \A i \in Ids :
                     pc[p] = "delete" /\ pc'[p] = "count" /\ i = acc[p] /\ Exists(i)
                     => row[i].status = "expired"
<1>3. Scannable = {} /\ NoFault /\ [Just]_vars => [Expired]_vars
  OBVIOUS
<1> QED BY <1>1, <1>2, <1>3, StartupVerdicts, PTL DEF Spec, StartupDeletesOnlyExpired

=============================================================================
