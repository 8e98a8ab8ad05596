-------------------------- MODULE SessionPoolProofs --------------------------
(* Theorems about SessionPool, for every value of its constants. *)
EXTENDS SessionPool, FiniteSetTheorems, TLAPS

-----------------------------------------------------------------------------
(* Types *)

\* What a call's position says of its locals.
LocalsOK ==
  \A c \in Calls :
    /\ pc[c] # "idle" => acc[c] \in Ids /\ ident[c] \in Openids
    /\ pc[c] \in {"uin", "put", "op"} => sess[c] \in Sessions

TypeInv == TypeOK /\ LocalsOK

\* A call that leaves, or whose state call fails, changes nothing but its own locals.
LEMMA LeaveTypes ==
  ASSUME TypeInv, NEW c \in Calls, pc[c] # "idle", Leave(c) \/ StateFails(c)
  PROVE  /\ pc' \in [Calls -> Labels] /\ gone' \subseteq Calls
         /\ acc' \in [Calls -> Ids \cup {Nobody}] /\ route' \in [Calls -> Routes]
         /\ ident' \in [Calls -> Openids \cup {Nobody}]
         /\ attempt' \in [Calls -> {1, 2}] /\ again' \in [Calls -> BOOLEAN]
         /\ sess' \in [Calls -> Sessions \cup {NoSession}]
         /\ refused' \in [Calls -> Sessions \cup {NoSession}]
         /\ LocalsOK'
<1> USE DEF TypeInv, TypeOK, Set, Goto, Labels, Routes
<1>1. CASE Leave(c)
  <2>1. Effective \in Routes
    OBVIOUS
  <2>2. pc' \in [Calls -> Labels] /\ gone' \subseteq Calls /\ attempt' \in [Calls -> {1, 2}]
    BY <1>1 DEF Leave
  <2>3. acc' \in [Calls -> Ids \cup {Nobody}] /\ route' \in [Calls -> Routes]
    BY <1>1, <2>1 DEF Leave
  <2>4. ident' \in [Calls -> Openids \cup {Nobody}] /\ again' \in [Calls -> BOOLEAN]
    BY <1>1 DEF Leave
  <2>5. sess' \in [Calls -> Sessions \cup {NoSession}] /\ refused' \in [Calls -> Sessions \cup {NoSession}]
    BY <1>1 DEF Leave
  <2>6. LocalsOK'
    BY <1>1 DEF Leave, LocalsOK
  <2> QED BY <2>2, <2>3, <2>4, <2>5, <2>6
<1>2. CASE /\ route' = Set(route, c, "direct")
           /\ Goto(c, "fast")
           /\ UNCHANGED <<acc, ident, attempt, again, sess, refused, gone>>
  BY <1>2 DEF LocalsOK
<1>3. CASE Goto(c, "drop") /\ UNCHANGED <<locals, gone>>
  BY <1>3 DEF LocalsOK, locals
<1> QED BY <1>1, <1>2, <1>3 DEF StateFails

\* invokeWXApp around the pool.
LEMMA InvokeTypes ==
  ASSUME TypeInv, NEW c \in Calls, Resolve(c) \/ Probe(c) \/ Drop(c) \/ Refresh(c) \/ Reread(c)
  PROVE  TypeInv'
<1> USE DEF TypeInv, accounts, sync
<1>1. CASE Resolve(c)
  <2>1. PICK i \in Ids : /\ occupant[i] # Nobody
                         /\ acc' = Set(acc, c, i)
                         /\ ident' = Set(ident, c, occupant[i])
    BY <1>1 DEF Resolve
  <2>2. occupant[i] \in Openids
    BY <2>1 DEF TypeOK
  <2> QED BY <1>1, <2>1, <2>2 DEF Resolve, TypeOK, LocalsOK, Set, Goto, Labels
<1>2. CASE Probe(c)
  BY <1>2 DEF Probe, TypeOK, LocalsOK, Goto, Labels, locals
<1>3. CASE Drop(c)
  <2>1. stored' \in [Keys -> Sessions \cup {NoSession}]
    BY <1>3 DEF Drop, InvalidateSession, TypeOK
  <2> QED BY <1>3, <2>1 DEF Drop, TypeOK, LocalsOK, Goto, Labels, locals
<1>4. CASE Refresh(c)
  <2>1. CASE Goto(c, "reread") /\ UNCHANGED <<locals, gone>>
    BY <1>4, <2>1 DEF Refresh, TypeOK, LocalsOK, Goto, Labels, locals
  <2>2. CASE Leave(c)
    <3>1. pc[c] # "idle"
      BY <1>4 DEF Refresh
    <3> QED BY <1>4, <2>2, <3>1, LeaveTypes DEF Refresh, TypeOK
  <2> QED BY <1>4, <2>1, <2>2 DEF Refresh
<1>5. CASE Reread(c)
  <2>1. /\ ident' \in [Calls -> Openids \cup {Nobody}]
        /\ ident'[c] \in Openids
        /\ \A d \in Calls : d # c => ident'[d] = ident[d]
    <3>1. CASE c \notin gone /\ occupant[acc[c]] # Nobody
      <4>1. occupant[acc[c]] \in Openids
        BY <1>5, <3>1 DEF Reread, TypeOK, LocalsOK
      <4> QED BY <1>5, <3>1, <4>1 DEF Reread, TypeOK, Set
    <3>2. CASE ~(c \notin gone /\ occupant[acc[c]] # Nobody)
      BY <1>5, <3>2 DEF Reread, TypeOK, LocalsOK
    <3> QED BY <3>1, <3>2
  <2>2. Effective \in Routes
    BY DEF Routes
  <2>3. pc' \in [Calls -> Labels] /\ attempt' \in [Calls -> {1, 2}] /\ again' \in [Calls -> BOOLEAN]
        /\ route' \in [Calls -> Routes]
    BY <1>5, <2>2 DEF Reread, TypeOK, Set, Goto, Labels
  <2>4. TypeOK'
    BY <1>5, <2>1, <2>3 DEF Reread, TypeOK
  <2>5. LocalsOK'
    BY <1>5, <2>1 DEF Reread, TypeOK, LocalsOK, Goto
  <2> QED BY <2>4, <2>5
<1> QED BY <1>1, <1>2, <1>3, <1>4, <1>5

\* Pool.run and GetCode.
LEMMA RunTypes ==
  ASSUME TypeInv, NEW c \in Calls, Op(c) \/ OpFails(c) \/ Empty(c) \/ Fallback(c)
  PROVE  TypeInv'
<1> USE DEF TypeInv, accounts, sync
<1>0. pc[c] # "idle" /\ Effective \in Routes /\ "direct" \in Routes
  BY DEF Op, OpFails, Empty, Fallback, Routes
<1>1. CASE Leave(c) /\ UNCHANGED <<accounts, stored, uin, made, sync>>
  BY <1>0, <1>1, LeaveTypes DEF TypeOK
<1>2. CASE Op(c) /\ Goto(c, "empty") /\ UNCHANGED <<locals, gone>>
  BY <1>2 DEF Op, TypeOK, LocalsOK, Goto, Labels, locals
<1>3. CASE OpFails(c) /\ ~Leave(c)
  <2>1. sess[c] \in Sessions
    BY <1>3 DEF OpFails, LocalsOK
  <2>2. refused' \in [Calls -> Sessions \cup {NoSession}]
    BY <1>3, <2>1 DEF OpFails, Set, TypeOK
  <2>3. pc' \in [Calls -> Labels]
    BY <1>3 DEF OpFails, Goto, Labels, TypeOK
  <2>4. TypeOK'
    BY <1>3, <2>2, <2>3 DEF OpFails, TypeOK
  <2>5. LocalsOK'
    BY <1>3 DEF OpFails, TypeOK, LocalsOK, Goto
  <2> QED BY <2>4, <2>5
<1>4. CASE Empty(c) \/ Fallback(c)
  <2>1. stored' \in [Keys -> Sessions \cup {NoSession}]
    BY <1>4 DEF Empty, Fallback, InvalidateSession, TypeOK
  <2>2. pc' \in [Calls -> Labels]
    BY <1>4 DEF Empty, Fallback, Goto, Labels, TypeOK
  <2>3. again' \in [Calls -> BOOLEAN] /\ route' \in [Calls -> Routes]
    <3>1. CASE Empty(c)
      BY <1>0, <3>1 DEF Empty, Set, TypeOK
    <3>2. CASE Fallback(c)
      BY <1>0, <3>2 DEF Fallback, Set, TypeOK
    <3> QED BY <1>4, <3>1, <3>2
  <2>5. TypeOK'
    BY <1>4, <2>1, <2>2, <2>3 DEF Empty, Fallback, TypeOK
  <2>4. LocalsOK'
    BY <1>4 DEF Empty, Fallback, TypeOK, LocalsOK, Goto
  <2> QED BY <2>4, <2>5
<1> QED BY <1>1, <1>2, <1>3, <1>4 DEF Op, OpFails

\* Pool.state, from the first look for a session to PutSession.
LEMMA StateTypes ==
  ASSUME TypeInv, NEW c \in Calls,
         \/ Fast(c) \/ Lock(c) \/ Recheck(c) \/ CheckAccount(c) \/ Acquire(c) \/ Login(c)
         \/ LoginFails(c) \/ SetAccountUIN(c) \/ PutSession(c)
  PROVE  TypeInv'
<1> USE DEF TypeInv, accounts, sync
<1>0. pc[c] # "idle" /\ acc[c] \in Ids /\ Key(c) \in Keys
  BY DEF Fast, Lock, Recheck, CheckAccount, Acquire, Login, LoginFails, SetAccountUIN, PutSession,
         LocalsOK, TypeOK, Key, Keys
<1>1. ASSUME lock' \in [Keys -> Calls \cup {Nobody}], sem' \in 0 .. MaxLogin,
             StateFails(c), UNCHANGED <<accounts, stored, uin, made>>
      PROVE  TypeInv'
  BY <1>0, <1>1, LeaveTypes DEF TypeOK
<1>2. Unlock(c) \/ UNCHANGED lock => lock' \in [Keys -> Calls \cup {Nobody}]
  BY <1>0 DEF Unlock, Set, TypeOK
<1>3. Hit(c) => stored[Key(c)] \in Sessions
  BY <1>0 DEF Hit, TypeOK
<1>4. ASSUME Hit(c), sess' = Set(sess, c, stored[Key(c)]), Goto(c, "op"), Unlock(c) \/ UNCHANGED lock,
             UNCHANGED <<accounts, stored, uin, made, sem, acc, route, ident, attempt, again, refused, gone>>
      PROVE  TypeInv'
  <2>1. sess' \in [Calls -> Sessions \cup {NoSession}] /\ sess'[c] \in Sessions
    BY <1>3, <1>4 DEF Set, TypeOK
  <2>2. pc' \in [Calls -> Labels]
    BY <1>4 DEF Goto, Labels, TypeOK
  <2>3. TypeOK'
    BY <1>2, <1>4, <2>1, <2>2 DEF TypeOK
  <2>4. LocalsOK'
    BY <1>0, <1>4, <2>1 DEF LocalsOK, Goto, Set, TypeOK
  <2> QED BY <2>3, <2>4
<1>5. ASSUME NEW l \in {"wait", "recheck", "account", "acquire", "login"}, pc[c] \notin {"uin", "put", "op"},
             Goto(c, l), lock' \in [Keys -> Calls \cup {Nobody}], sem' \in 0 .. MaxLogin,
             UNCHANGED <<accounts, stored, uin, made, locals, gone>>
      PROVE  TypeInv'
  BY <1>0, <1>5 DEF TypeOK, LocalsOK, Goto, Labels, locals
<1>6. sem \in 0 .. MaxLogin /\ lock \in [Keys -> Calls \cup {Nobody}]
  BY DEF TypeOK
<1>7. CASE Fast(c)
  BY <1>1, <1>4, <1>5, <1>6, <1>7 DEF Fast
<1>8. CASE Lock(c)
  <2>1. lock' \in [Keys -> Calls \cup {Nobody}]
    BY <1>0, <1>8 DEF Lock, Set, TypeOK
  <2> QED BY <1>5, <1>6, <1>8, <2>1 DEF Lock
<1>9. CASE Recheck(c)
  BY <1>1, <1>2, <1>4, <1>5, <1>6, <1>9 DEF Recheck
<1>10. CASE CheckAccount(c)
  BY <1>1, <1>2, <1>5, <1>6, <1>10 DEF CheckAccount
<1>11. CASE Acquire(c)
  <2>1. CASE Room /\ sem' = sem + 1
    <3>1. sem' \in 0 .. MaxLogin
      BY <1>6, <2>1, PoolAssumption DEF Room
    <3> QED BY <1>1, <1>2, <1>5, <1>6, <1>11, <3>1 DEF Acquire
  <2>2. CASE c \in gone /\ Unlock(c) /\ StateFails(c) /\ UNCHANGED sem
    BY <1>1, <1>2, <1>6, <1>11, <2>2 DEF Acquire
  <2> QED BY <1>11, <2>1, <2>2 DEF Acquire
<1>12. CASE Login(c)
  <2>1. [owner |-> ident[c], nr |-> made + 1] \in Sessions /\ made' \in 0 .. MaxSessions
    BY <1>12, PoolAssumption DEF Login, Sessions, TypeOK, LocalsOK
  <2>2. sess' \in [Calls -> Sessions \cup {NoSession}] /\ sess'[c] \in Sessions
    BY <1>12, <2>1 DEF Login, Set, TypeOK
  <2>3. TypeOK'
    BY <1>12, <2>1, <2>2 DEF Login, Goto, Labels, TypeOK
  <2>4. LocalsOK'
    BY <1>12, <2>2 DEF Login, LocalsOK, Goto, Set, TypeOK
  <2> QED BY <2>3, <2>4
<1>13. EndFlight(c) => sem' \in 0 .. MaxLogin
  BY <1>6, PoolAssumption DEF EndFlight
<1>14. CASE LoginFails(c)
  BY <1>1, <1>2, <1>13, <1>14 DEF LoginFails, EndFlight
<1>15. CASE SetAccountUIN(c)
  <2>1. sess[c] \in Sessions /\ sess[c].owner \in Openids
    BY <1>15 DEF SetAccountUIN, LocalsOK, Sessions
  <2>2. uin' \in [Ids -> Openids \cup {Nobody}]
    BY <1>15, <2>1 DEF SetAccountUIN, Set, TypeOK
  <2>3. TypeOK'
    BY <1>15, <2>2 DEF SetAccountUIN, Goto, Labels, TypeOK, locals
  <2>4. LocalsOK'
    BY <1>15, <2>1 DEF SetAccountUIN, Goto, LocalsOK, TypeOK, locals
  <2> QED BY <2>3, <2>4
<1>16. CASE PutSession(c)
  <2>1. lock' \in [Keys -> Calls \cup {Nobody}] /\ sem' \in 0 .. MaxLogin
    BY <1>2, <1>13, <1>16 DEF PutSession, EndFlight
  <2>2. CASE StateFails(c) /\ UNCHANGED stored
    BY <1>1, <1>16, <2>1, <2>2 DEF PutSession
  <2>3. CASE stored' = Set(stored, Key(c), sess[c]) /\ Goto(c, "op") /\ UNCHANGED <<locals, gone>>
    <3>1. sess[c] \in Sessions
      BY <1>16 DEF PutSession, LocalsOK
    <3>2. stored' \in [Keys -> Sessions \cup {NoSession}]
      BY <2>3, <3>1 DEF Set, TypeOK
    <3>3. TypeOK'
      BY <1>16, <2>1, <2>3, <3>2 DEF PutSession, Goto, Labels, TypeOK, locals
    <3>4. LocalsOK'
      BY <1>16, <2>3, <3>1 DEF PutSession, Goto, LocalsOK, TypeOK, locals
    <3> QED BY <3>3, <3>4
  <2> QED BY <1>16, <2>2, <2>3 DEF PutSession
<1> QED BY <1>7, <1>8, <1>9, <1>10, <1>11, <1>12, <1>14, <1>15, <1>16

\* Cancelled requests, expiry, and accounts that come and go.
LEMMA AroundTypes ==
  ASSUME TypeInv, Around \/ \E c \in Calls : Cancel(c)
  PROVE  TypeInv'
<1> USE DEF TypeInv, accounts, sync
<1>1. ASSUME NEW c \in Calls, Cancel(c) PROVE TypeInv'
  BY <1>1 DEF Cancel, TypeOK, LocalsOK, locals
<1>2. CASE Expire
  BY <1>2 DEF Expire, TypeOK, LocalsOK, locals
<1>3. CASE RemoveAccount
  <2>1. stored' \in [Keys -> Sessions \cup {NoSession}]
    BY <1>3 DEF RemoveAccount, Cascade, TypeOK
  <2>2. occupant' \in [Ids -> Openids \cup {Nobody}] /\ uin' \in [Ids -> Openids \cup {Nobody}]
    BY <1>3 DEF RemoveAccount, Set, TypeOK
  <2> QED BY <1>3, <2>1, <2>2 DEF RemoveAccount, TypeOK, LocalsOK, locals
<1>4. CASE ResetSequence
  BY <1>4 DEF ResetSequence, TypeOK, LocalsOK, locals
<1>5. CASE AddAccount
  <2>1. occupant' \in [Ids -> Openids \cup {Nobody}] /\ used' \subseteq Ids
    BY <1>5 DEF AddAccount, Set, TypeOK
  <2> QED BY <1>5, <2>1 DEF AddAccount, TypeOK, LocalsOK, locals
<1> QED BY <1>1, <1>2, <1>3, <1>4, <1>5 DEF Around

\* Every step of the service keeps the types.
LEMMA NextTypes == TypeInv /\ [Next]_vars => TypeInv'
<1> SUFFICES ASSUME TypeInv, [Next]_vars PROVE TypeInv'
  OBVIOUS
<1>1. CASE UNCHANGED vars
  BY <1>1 DEF vars, accounts, sync, locals, TypeInv, TypeOK, LocalsOK
<1>2. CASE Next
  BY <1>2, InvokeTypes, RunTypes, StateTypes, AroundTypes DEF Next, Step
<1> QED BY <1>1, <1>2

\* The service starts well typed, whatever accounts it finds.
LEMMA InitTypes == Init => TypeInv
<1> SUFFICES ASSUME Init PROVE TypeInv
  OBVIOUS
<1>1. Effective \in Routes
  BY DEF Routes
<1>2. TypeOK
  <2>1. made \in 0 .. MaxSessions /\ sem \in 0 .. MaxLogin
    BY PoolAssumption DEF Init
  <2>2. /\ acc \in [Calls -> Ids \cup {Nobody}] /\ ident \in [Calls -> Openids \cup {Nobody}]
        /\ uin \in [Ids -> Openids \cup {Nobody}]
    BY DEF Init
  <2>3. /\ sess \in [Calls -> Sessions \cup {NoSession}] /\ refused \in [Calls -> Sessions \cup {NoSession}]
        /\ stored \in [Keys -> Sessions \cup {NoSession}] /\ lock \in [Keys -> Calls \cup {Nobody}]
    BY DEF Init
  <2>4. /\ pc \in [Calls -> Labels] /\ attempt \in [Calls -> {1, 2}] /\ again \in [Calls -> BOOLEAN]
        /\ route \in [Calls -> Routes]
    BY <1>1 DEF Init, Labels
  <2> QED BY <2>1, <2>2, <2>3, <2>4 DEF Init, TypeOK
<1>3. LocalsOK
  BY DEF Init, LocalsOK
<1> QED BY <1>2, <1>3 DEF TypeInv

\* Types hold, with whatever accounts, calls and routes there are; in particular loginSem never
\* holds more than its capacity.
THEOREM TypeCorrect == Spec => []TypeInv
BY InitTypes, NextTypes, PTL DEF Spec

\* The part of it that the runs check.
THEOREM TypeSafe == Spec => []TypeOK
BY TypeCorrect, PTL DEF TypeInv

-----------------------------------------------------------------------------
(* One login per key, and only where there is no session *)

\* From its second look for a session to the end of state a call holds its key's mutex.
LockInv == \A c \in Calls : Locked(c) => lock[Key(c)] = c

Carrying(c) == pc[c] \in {"uin", "put"}

\* A session that has been made is in one place: one key's row, or one call's hands.
FreshInv ==
  /\ \A k \in Keys : stored[k] # NoSession => stored[k].nr <= made
  /\ \A k, l \in Keys : k # l /\ stored[k] # NoSession => stored[k] # stored[l]
  /\ \A c \in Calls : Carrying(c) =>
       /\ sess[c].nr <= made
       /\ \A k \in Keys : stored[k] # sess[c]
       /\ \A d \in Calls : d # c /\ Carrying(d) => sess[d] # sess[c]

FlightInv == LockInv /\ NoWastedLogin /\ FreshInv

Same(d) == pc'[d] = pc[d] /\ acc'[d] = acc[d] /\ route'[d] = route[d] /\ sess'[d] = sess[d]

Outside(c) ==
  \/ Resolve(c) \/ Probe(c) \/ Drop(c) \/ Refresh(c) \/ Reread(c) \/ Op(c) \/ OpFails(c)
  \/ Empty(c) \/ Fallback(c) \/ Fast(c) \/ Cancel(c)

\* A step outside the mutex touches no mutex and no call inside one, and at most drops sessions.
LEMMA OutsideStep ==
  ASSUME TypeInv, Around \/ \E c \in Calls : Outside(c)
  PROVE  /\ lock' = lock /\ made' = made
         /\ \A d \in Calls : Locked(d) \/ Locked(d)' => Same(d)
         /\ stored' \in [Keys -> Sessions \cup {NoSession}]
         /\ \A k \in Keys : stored'[k] = stored[k] \/ stored'[k] = NoSession
<1> USE DEF accounts, sync
<1>0. stored' \in [Keys -> Sessions \cup {NoSession}]
  BY NextTypes DEF Next, Step, Outside, TypeInv, TypeOK
<1>1. ASSUME NEW c \in Calls, Outside(c)
      PROVE  /\ lock' = lock /\ made' = made
             /\ \A d \in Calls : d # c => Same(d)
             /\ Same(c) \/ (~Locked(c) /\ ~Locked(c)')
             /\ \A k \in Keys : stored'[k] = stored[k] \/ stored'[k] = NoSession
  <2> USE DEF TypeInv, TypeOK, Same, Locked, Flying
  <2>1. CASE Cancel(c)
    BY <2>1 DEF Cancel, locals
  <2>2. ASSUME ~Cancel(c)
        PROVE  /\ lock' = lock /\ made' = made
               /\ \A k \in Keys : stored'[k] = stored[k] \/ stored'[k] = NoSession
    BY <1>1, <2>2 DEF Outside, Resolve, Probe, Drop, Refresh, Reread, Op, OpFails, Empty, Fallback,
                      Fast, InvalidateSession
  <2>3. ASSUME ~Cancel(c)
        PROVE  /\ pc[c] \in {"idle", "probe", "drop", "refresh", "reread", "op", "empty", "fallback", "fast"}
               /\ pc'[c] \in {"idle", "probe", "drop", "refresh", "reread", "op", "empty", "fallback",
                              "fast", "wait"}
               /\ \A d \in Calls : d # c => pc'[d] = pc[d]
    BY <1>1, <2>3 DEF Outside, Resolve, Probe, Drop, Refresh, Reread, Op, OpFails, Empty, Fallback,
                      Fast, StateFails, Leave, Goto
  <2>4. ASSUME ~Cancel(c)
        PROVE  \A d \in Calls : d # c => acc'[d] = acc[d] /\ route'[d] = route[d] /\ sess'[d] = sess[d]
    BY <1>1, <2>4 DEF Outside, Resolve, Probe, Drop, Refresh, Reread, Op, OpFails, Empty, Fallback,
                      Fast, StateFails, Leave, Set, locals
  <2> QED BY <2>1, <2>2, <2>3, <2>4
<1>2. CASE Around
  <2>1. \A k \in Keys : stored'[k] = stored[k] \/ stored'[k] = NoSession
    BY <1>2 DEF Around, Expire, RemoveAccount, ResetSequence, AddAccount, Cascade, TypeInv, TypeOK
  <2>2. lock' = lock /\ made' = made /\ \A d \in Calls : Same(d)
    BY <1>2 DEF Around, Expire, RemoveAccount, ResetSequence, AddAccount, locals, Same
  <2> QED BY <1>0, <2>1, <2>2
<1> QED BY <1>0, <1>1, <1>2

\* A step under the mutex of a key: the call goes on, or gives the mutex back; a session appears
\* only under that key, and it is the one the call has made.
LEMMA InsideStep ==
  ASSUME TypeInv, NEW c \in Calls,
         \/ Recheck(c) \/ CheckAccount(c) \/ Acquire(c) \/ Login(c) \/ LoginFails(c)
         \/ SetAccountUIN(c) \/ PutSession(c)
  PROVE  /\ Locked(c) /\ Key(c) \in Keys
         /\ \A d \in Calls : d # c => Same(d)
         /\ \A k \in Keys : k # Key(c) => lock'[k] = lock[k]
         /\ \/ ~Locked(c)'
            \/ lock' = lock /\ stored' = stored /\ acc'[c] = acc[c] /\ route'[c] = route[c] /\ Flying(c)'
         /\ \/ stored' = stored
            \/ /\ pc[c] = "put" /\ pc'[c] = "op"
               /\ stored' = [stored EXCEPT ![Key(c)] = sess[c]]
         /\ pc[c] = "recheck" => stored[Key(c)] = NoSession \/ ~Flying(c)'
         /\ Carrying(c)' => \/ Carrying(c) /\ sess'[c] = sess[c] /\ made' = made
                            \/ Login(c) /\ made' = made + 1 /\ sess'[c].nr = made + 1
         /\ ~Carrying(c)' => made' = made
<1> USE DEF accounts, sync, locals
<1>1. Locked(c) /\ acc[c] \in Ids /\ route[c] \in Routes
  BY DEF Recheck, CheckAccount, Acquire, Login, LoginFails, SetAccountUIN, PutSession, Locked, Flying,
         TypeInv, TypeOK, LocalsOK
<1>2. Key(c) \in Keys
  BY <1>1 DEF Key, Keys
<1>3. \A d \in Calls : d # c => Same(d)
  <2>1. \A d \in Calls : d # c => pc'[d] = pc[d]
    BY DEF Recheck, CheckAccount, Acquire, Login, LoginFails, SetAccountUIN, PutSession, StateFails,
           Leave, Goto, TypeInv, TypeOK
  <2>2. \A d \in Calls : d # c => acc'[d] = acc[d] /\ route'[d] = route[d] /\ sess'[d] = sess[d]
    BY DEF Recheck, CheckAccount, Acquire, Login, LoginFails, SetAccountUIN, PutSession, StateFails,
           Leave, Set, TypeInv, TypeOK
  <2> QED BY <2>1, <2>2 DEF Same
<1>4. \A k \in Keys : k # Key(c) => lock'[k] = lock[k]
  BY DEF Recheck, CheckAccount, Acquire, Login, LoginFails, SetAccountUIN, PutSession, EndFlight,
         Unlock, Set, TypeInv, TypeOK
<1>5. StateFails(c) => pc'[c] \in {"fast", "drop", "idle"}
  BY DEF StateFails, Leave, Goto, TypeInv, TypeOK
<1>6. /\ pc'[c] \in {"fast", "drop", "idle", "op"} => ~Locked(c)' /\ ~Flying(c)' /\ ~Carrying(c)'
      /\ Goto(c, "op") => pc'[c] = "op"
  BY DEF Locked, Flying, Carrying, Goto, TypeInv, TypeOK
<1>7. CASE Recheck(c)
  <2>1. CASE Miss(c)
    <3>1. Goto(c, "account") /\ UNCHANGED <<lock, locals, gone>>
      BY <1>7, <2>1 DEF Recheck, Miss, Hit
    <3>2. pc'[c] = "account"
      BY <3>1 DEF Goto, TypeInv, TypeOK
    <3> QED BY <1>1, <1>2, <1>3, <1>4, <1>7, <2>1, <3>1, <3>2 DEF Recheck, Flying, Carrying, Miss
  <2>2. CASE ~Miss(c)
    BY <1>1, <1>2, <1>3, <1>4, <1>5, <1>6, <1>7, <2>2 DEF Recheck
  <2> QED BY <2>1, <2>2
<1>8. CASE CheckAccount(c) \/ Acquire(c)
  <2>1. CASE StateFails(c)
    BY <1>1, <1>2, <1>3, <1>4, <1>5, <1>6, <1>8, <2>1 DEF CheckAccount, Acquire
  <2>2. CASE ~StateFails(c)
    <3>1. pc'[c] \in {"acquire", "login"} /\ pc[c] # "recheck"
      BY <1>8, <2>2 DEF CheckAccount, Acquire, Goto, TypeInv, TypeOK
    <3> QED BY <1>1, <1>2, <1>3, <1>4, <1>8, <2>2, <3>1 DEF CheckAccount, Acquire, Flying, Carrying
  <2> QED BY <2>1, <2>2
<1>9. CASE Login(c)
  <2>1. pc'[c] = "uin" /\ pc[c] = "login" /\ sess'[c].nr = made + 1
    BY <1>9 DEF Login, Goto, Set, TypeInv, TypeOK
  <2> QED BY <1>1, <1>2, <1>3, <1>4, <1>9, <2>1 DEF Login, Flying, Carrying
<1>10. CASE LoginFails(c)
  BY <1>1, <1>2, <1>3, <1>4, <1>5, <1>6, <1>10 DEF LoginFails
<1>11. CASE SetAccountUIN(c)
  <2>1. pc'[c] = "put" /\ pc[c] = "uin"
    BY <1>11 DEF SetAccountUIN, Goto, TypeInv, TypeOK
  <2> QED BY <1>1, <1>2, <1>3, <1>4, <1>11, <2>1 DEF SetAccountUIN, Flying, Carrying
<1>12. CASE PutSession(c)
  BY <1>1, <1>2, <1>3, <1>4, <1>5, <1>6, <1>12 DEF PutSession, Set
<1> QED BY <1>7, <1>8, <1>9, <1>10, <1>11, <1>12

\* Steps outside the mutex cannot break what holds under it.
LEMMA OutsideInv ==
  ASSUME TypeInv, FlightInv, Around \/ \E c \in Calls : Outside(c)
  PROVE  FlightInv'
<1>1. /\ lock' = lock /\ made' = made
      /\ \A d \in Calls : Locked(d) \/ Locked(d)' => Same(d)
      /\ stored' \in [Keys -> Sessions \cup {NoSession}]
      /\ \A k \in Keys : stored'[k] = stored[k] \/ stored'[k] = NoSession
  BY OutsideStep
<1>2. \A d \in Calls : Locked(d)' => Locked(d) /\ Key(d)' = Key(d)
  BY <1>1 DEF Same, Key, Locked, Flying
<1>3. \A d \in Calls : /\ Flying(d)' => Flying(d) /\ Locked(d) /\ Locked(d)'
                       /\ Carrying(d)' => Carrying(d) /\ sess'[d] = sess[d]
  BY <1>1 DEF Same, Locked, Flying, Carrying
<1>4. LockInv'
  BY <1>1, <1>2 DEF FlightInv, LockInv
<1>5. \A d \in Calls : Locked(d) => Key(d) \in Keys
  BY DEF Locked, Flying, TypeInv, TypeOK, LocalsOK, Key, Keys
<1>6. NoWastedLogin'
  BY <1>1, <1>2, <1>3, <1>5 DEF FlightInv, NoWastedLogin
<1>7. FreshInv'
  <2>1. \A k \in Keys : stored'[k] # NoSession => stored'[k] = stored[k]
    BY <1>1
  <2>2. \A d \in Calls : Carrying(d) => sess[d] # NoSession
    BY NullAssumption DEF Carrying, TypeInv, LocalsOK
  <2>3. \A k \in Keys : stored'[k] # NoSession => stored'[k].nr <= made'
    BY <1>1, <2>1 DEF FlightInv, FreshInv
  <2>4. \A k, l \in Keys : k # l /\ stored'[k] # NoSession => stored'[k] # stored'[l]
    BY <1>1, <2>1 DEF FlightInv, FreshInv
  <2>5. \A d \in Calls : Carrying(d)' =>
          /\ sess'[d].nr <= made'
          /\ \A k \in Keys : stored'[k] # sess'[d]
          /\ \A e \in Calls : e # d /\ Carrying(e)' => sess'[e] # sess'[d]
    BY <1>1, <1>3, <2>2 DEF FlightInv, FreshInv
  <2> QED BY <2>3, <2>4, <2>5 DEF FreshInv
<1> QED BY <1>4, <1>6, <1>7 DEF FlightInv

\* Taking the mutex: it was free.
LEMMA LockStepInv ==
  ASSUME TypeInv, FlightInv, NEW c \in Calls, Lock(c)
  PROVE  FlightInv'
<1> USE DEF accounts, sync, locals
<1>1. /\ Key(c) \in Keys /\ lock[Key(c)] = Nobody /\ lock' = [lock EXCEPT ![Key(c)] = c]
      /\ pc' = [pc EXCEPT ![c] = "recheck"] /\ pc[c] = "wait"
      /\ UNCHANGED <<stored, made, acc, route, sess>>
  BY DEF Lock, Set, Goto, Key, Keys, TypeInv, TypeOK, LocalsOK
<1>2. \A d \in Calls : Key(d)' = Key(d)
  BY <1>1 DEF Key
<1>3. \A d \in Calls \ {c} : (Locked(d)' <=> Locked(d)) /\ (Flying(d)' <=> Flying(d)) /\ (Carrying(d)' <=> Carrying(d))
  BY <1>1 DEF Locked, Flying, Carrying, TypeInv, TypeOK
<1>4. ~Flying(c)' /\ ~Carrying(c)'
  BY <1>1 DEF Flying, Carrying, TypeInv, TypeOK
<1>5. \A d \in Calls \ {c} : Locked(d) => Key(d) # Key(c) /\ lock[Key(d)] = d
  BY <1>1, NullAssumption DEF FlightInv, LockInv
<1>6. LockInv'
  BY <1>1, <1>2, <1>3, <1>5 DEF LockInv, TypeInv, TypeOK
<1>7. NoWastedLogin'
  BY <1>1, <1>2, <1>3, <1>4 DEF FlightInv, NoWastedLogin
<1>8. FreshInv'
  BY <1>1, <1>3, <1>4 DEF FlightInv, FreshInv
<1> QED BY <1>6, <1>7, <1>8 DEF FlightInv

\* Steps under the mutex: the key is the call's own, and a new session is not the old one.
LEMMA InsideInv ==
  ASSUME TypeInv, TypeInv', FlightInv, NEW c \in Calls,
         \/ Recheck(c) \/ CheckAccount(c) \/ Acquire(c) \/ Login(c) \/ LoginFails(c)
         \/ SetAccountUIN(c) \/ PutSession(c)
  PROVE  FlightInv'
<1>a. Locked(c) /\ Key(c) \in Keys
  BY InsideStep
<1>b. /\ \A d \in Calls : d # c => Same(d)
      /\ \A k \in Keys : k # Key(c) => lock'[k] = lock[k]
  BY InsideStep
<1>c. Locked(c)' => lock' = lock /\ stored' = stored /\ acc'[c] = acc[c] /\ route'[c] = route[c] /\ Flying(c)'
  BY InsideStep
<1>d. \/ stored' = stored
      \/ pc[c] = "put" /\ pc'[c] = "op" /\ stored' = [stored EXCEPT ![Key(c)] = sess[c]]
  BY InsideStep
<1>e. pc[c] = "recheck" => stored[Key(c)] = NoSession \/ ~Flying(c)'
  BY InsideStep
<1>f. Carrying(c)' => \/ Carrying(c) /\ sess'[c] = sess[c] /\ made' = made
                      \/ made' = made + 1 /\ sess'[c].nr = made + 1
  BY InsideStep
<1>g. ~Carrying(c)' => made' = made
  BY InsideStep
<1>2. \A d \in Calls \ {c} : /\ Key(d)' = Key(d)
                             /\ (Locked(d)' <=> Locked(d)) /\ (Flying(d)' <=> Flying(d))
                             /\ (Carrying(d)' <=> Carrying(d)) /\ sess'[d] = sess[d]
  BY <1>b DEF Same, Key, Locked, Flying, Carrying
<1>3. \A d \in Calls : Flying(d) => Locked(d)
  BY DEF Locked
<1>4. \A d \in Calls : Locked(d) => Key(d) \in Keys /\ lock[Key(d)] = d
  BY DEF FlightInv, LockInv, Locked, Flying, TypeInv, TypeOK, LocalsOK, Key, Keys
<1>5. \A d \in Calls \ {c} : Locked(d) => Key(d) # Key(c)
  BY <1>a, <1>4
<1>6. Locked(c)' => Key(c)' = Key(c) /\ lock' = lock /\ stored' = stored
  BY <1>c DEF Key
<1>7. LockInv'
  <2> SUFFICES ASSUME NEW d \in Calls, Locked(d)' PROVE lock'[Key(d)'] = d
    BY DEF LockInv
  <2>1. CASE d = c
    BY <1>a, <1>4, <1>6, <2>1
  <2>2. CASE d # c
    BY <1>b, <1>2, <1>4, <1>5, <2>2
  <2> QED BY <2>1, <2>2
<1>8. \A k \in Keys : k # Key(c) => stored'[k] = stored[k]
  BY <1>d DEF TypeInv, TypeOK
<1>9. NoWastedLogin'
  <2> SUFFICES ASSUME NEW d \in Calls, Flying(d)' PROVE stored'[Key(d)'] = NoSession
    BY DEF NoWastedLogin
  <2>1. CASE d = c
    <3>1. Locked(c)' /\ stored' = stored /\ Key(c)' = Key(c)
      BY <1>6, <2>1 DEF Locked
    <3>2. stored[Key(c)] = NoSession
      BY <1>a, <1>e, <2>1 DEF FlightInv, NoWastedLogin, Locked
    <3> QED BY <2>1, <3>1, <3>2
  <2>2. CASE d # c
    BY <1>2, <1>3, <1>4, <1>5, <1>8, <2>2 DEF FlightInv, NoWastedLogin
  <2> QED BY <2>1, <2>2
<1>10. FreshInv'
  <2>0. made \in Nat /\ made' \in Nat /\ made <= made'
    BY <1>f, <1>g, PoolAssumption DEF TypeInv, TypeOK
  <2>1. \A k \in Keys : stored'[k] = stored[k] \/ (Carrying(c) /\ stored'[k] = sess[c] /\ k = Key(c) /\ ~Carrying(c)')
    BY <1>d DEF TypeInv, TypeOK, Carrying
  <2>2. \A k \in Keys : stored[k] \in Sessions \cup {NoSession}
    BY DEF TypeInv, TypeOK
  <2>3. \A d \in Calls : Carrying(d) => sess[d] \in Sessions
    BY DEF TypeInv, LocalsOK, Carrying
  <2>4. \A s \in Sessions : s.nr \in Nat /\ s # NoSession
    BY NullAssumption DEF Sessions
  <2>5. \A k \in Keys : stored'[k] # NoSession => stored'[k].nr <= made'
    <3> SUFFICES ASSUME NEW k \in Keys, stored'[k] # NoSession PROVE stored'[k].nr <= made'
      OBVIOUS
    <3>1. stored'[k] \in Sessions /\ stored'[k].nr <= made
      BY <2>1, <2>2, <2>3 DEF FlightInv, FreshInv
    <3> QED BY <2>0, <2>4, <3>1
  <2>6. \A k, l \in Keys : k # l /\ stored'[k] # NoSession => stored'[k] # stored'[l]
    BY <2>1, <2>2, <2>3, <2>4 DEF FlightInv, FreshInv
  <2>7. ASSUME NEW d \in Calls, Carrying(d)'
        PROVE  /\ sess'[d].nr <= made'
               /\ \A k \in Keys : stored'[k] # sess'[d]
               /\ \A e \in Calls : e # d /\ Carrying(e)' => sess'[e] # sess'[d]
    <3>1. CASE Carrying(d) /\ sess'[d] = sess[d]
      <4>1. sess'[d].nr <= made'
        BY <2>0, <2>3, <2>4, <3>1 DEF FlightInv, FreshInv
      <4>2. \A k \in Keys : stored'[k] # sess'[d]
        BY <2>1, <2>7, <3>1 DEF FlightInv, FreshInv
      <4>3. ASSUME NEW e \in Calls, e # d, Carrying(e)' PROVE sess'[e] # sess'[d]
        <5>1. CASE Carrying(e) /\ sess'[e] = sess[e]
          BY <3>1, <4>3, <5>1 DEF FlightInv, FreshInv
        <5>2. CASE ~(Carrying(e) /\ sess'[e] = sess[e])
          <6>1. sess'[e].nr = made + 1
            BY <1>2, <1>f, <4>3, <5>2
          <6>2. sess[d].nr <= made /\ sess[d].nr \in Nat
            BY <2>3, <2>4, <3>1 DEF FlightInv, FreshInv
          <6> QED BY <2>0, <3>1, <6>1, <6>2
        <5> QED BY <5>1, <5>2
      <4> QED BY <4>1, <4>2, <4>3
    <3>2. CASE ~(Carrying(d) /\ sess'[d] = sess[d])
      <4>1. d = c /\ made' = made + 1 /\ sess'[d].nr = made + 1
        BY <1>2, <1>f, <2>7, <3>2
      <4>2. \A k \in Keys : stored'[k] = stored[k]
        BY <2>1, <2>7, <4>1
      <4>3. sess'[d] \in Sessions
        BY <2>7 DEF TypeInv, LocalsOK, Carrying
      <4>4. \A k \in Keys : stored'[k] # sess'[d]
        <5> SUFFICES ASSUME NEW k \in Keys, stored[k] = sess'[d] PROVE FALSE
          BY <4>2
        <5>1. stored[k].nr <= made
          BY <2>4, <4>3 DEF FlightInv, FreshInv
        <5> QED BY <2>0, <4>1, <5>1
      <4>5. ASSUME NEW e \in Calls, e # d, Carrying(e)' PROVE sess'[e] # sess'[d]
        <5>1. Carrying(e) /\ sess'[e] = sess[e] /\ sess[e].nr <= made /\ sess[e].nr \in Nat
          BY <1>2, <2>3, <2>4, <4>1, <4>5 DEF FlightInv, FreshInv
        <5> QED BY <2>0, <4>1, <5>1
      <4> QED BY <2>0, <4>1, <4>4, <4>5
    <3> QED BY <3>1, <3>2
  <2> QED BY <2>5, <2>6, <2>7 DEF FreshInv
<1> QED BY <1>7, <1>9, <1>10 DEF FlightInv

\* Every step of the service is of one of the three kinds.
LEMMA NextFlightInv == TypeInv /\ TypeInv' /\ FlightInv /\ [Next]_vars => FlightInv'
<1> SUFFICES ASSUME TypeInv, TypeInv', FlightInv, [Next]_vars PROVE FlightInv'
  OBVIOUS
<1>1. CASE Next
  BY <1>1, OutsideInv, LockStepInv, InsideInv DEF Next, Step, Outside
<1>2. CASE UNCHANGED vars
  BY <1>2 DEF vars, accounts, sync, locals, FlightInv, LockInv, NoWastedLogin, FreshInv, Locked, Flying,
              Carrying, Key
<1> QED BY <1>1, <1>2

\* At most one login per account and route is under way at any time, under that key's mutex, and
\* no session is in two places.
THEOREM FlightSafe == Spec => []FlightInv
<1>1. Init => FlightInv
  BY DEF Init, FlightInv, LockInv, NoWastedLogin, FreshInv, Locked, Flying, Carrying
<1>2. TypeInv /\ TypeInv' /\ FlightInv /\ [Next]_vars => FlightInv'
  BY NextFlightInv
<1> QED BY <1>1, <1>2, TypeCorrect, PTL DEF Spec

\* The second look under the mutex does its work: no login is made for a key that has a session.
THEOREM NoLoginWasted == Spec => []NoWastedLogin
<1>1. FlightInv => NoWastedLogin
  BY DEF FlightInv
<1> QED BY <1>1, FlightSafe, PTL

-----------------------------------------------------------------------------
(* Neither the mutex nor the semaphore is kept *)

\* The calls between Acquire and the end of their flight.
Logins == {c \in Calls : pc[c] \in {"login", "uin", "put"}}

\* One token per login; there are finitely many, for each came by a step of its own.
TokenInv == IsFiniteSet(Logins) /\ sem = Cardinality(Logins)

\* Only the call that is inside state for a key holds its mutex: the converse of LockInv.
HolderInv == \A k \in Keys : lock[k] # Nobody => Locked(lock[k]) /\ Key(lock[k]) = k

\* A step outside the mutex leaves tokens alone.
LEMMA OutsideTokens ==
  ASSUME TypeInv, Around \/ (\E c \in Calls : Outside(c) \/ Lock(c))
  PROVE  sem' = sem /\ Logins' = Logins
<1>1. sem' = sem
  BY DEF Around, Expire, RemoveAccount, ResetSequence, AddAccount, Outside, Resolve, Probe, Drop,
         Refresh, Reread, Op, OpFails, Empty, Fallback, Fast, Cancel, Lock, sync
<1>2. \A d \in Calls : d \in Logins' <=> d \in Logins
  <2>1. CASE \E c \in Calls : Lock(c)
    BY <2>1 DEF Lock, Goto, Logins, TypeInv, TypeOK
  <2>2. CASE Around \/ \E c \in Calls : Outside(c)
    <3>1. \A d \in Calls : Locked(d) \/ Locked(d)' => Same(d)
      BY <2>2, OutsideStep
    <3> QED BY <3>1 DEF Same, Locked, Flying, Logins
  <2> QED BY <2>1, <2>2
<1> QED BY <1>1, <1>2 DEF Logins

\* A call that ends its flight frees its key; one that does not has the mutex still.
LEMMA InsideReleases ==
  ASSUME TypeInv, NEW c \in Calls,
         \/ Recheck(c) \/ CheckAccount(c) \/ Acquire(c) \/ Login(c) \/ LoginFails(c)
         \/ SetAccountUIN(c) \/ PutSession(c)
  PROVE  ~Locked(c)' => lock'[Key(c)] = Nobody
<1>1. Key(c) \in Keys
  BY InsideStep
<1>2. Unlock(c) => lock'[Key(c)] = Nobody
  BY <1>1 DEF Unlock, Set, TypeInv, TypeOK
<1>3. \A l \in {"account", "acquire", "login", "uin", "put"} : Goto(c, l) => Locked(c)'
  BY DEF Goto, Locked, Flying, TypeInv, TypeOK
<1> QED BY <1>2, <1>3 DEF Recheck, CheckAccount, Acquire, Login, LoginFails, SetAccountUIN, PutSession,
                          EndFlight

\* Under the mutex the token comes with Acquire and goes with the end of the flight.
LEMMA InsideTokens ==
  ASSUME TypeInv, TypeInv', TokenInv, NEW c \in Calls,
         \/ Recheck(c) \/ CheckAccount(c) \/ Acquire(c) \/ Login(c) \/ LoginFails(c)
         \/ SetAccountUIN(c) \/ PutSession(c)
  PROVE  TokenInv'
<1>1. \A d \in Calls : d # c => (d \in Logins' <=> d \in Logins)
  BY InsideStep DEF Same, Logins
<1>2. \A l \in Labels : Goto(c, l) => pc'[c] = l
  BY DEF Goto, TypeInv, TypeOK
<1>3. StateFails(c) => pc'[c] \in {"fast", "drop", "idle"}
  BY <1>2 DEF StateFails, Leave, Labels
<1>4. CASE sem' = sem /\ (c \in Logins' <=> c \in Logins)
  <2>1. Logins' = Logins
    BY <1>1, <1>4 DEF Logins
  <2> QED BY <1>4, <2>1 DEF TokenInv
<1>5. CASE sem' = sem + 1 /\ c \in Logins' /\ c \notin Logins
  <2>1. Logins' = Logins \cup {c}
    BY <1>1, <1>5 DEF Logins
  <2> QED BY <1>5, <2>1, FS_AddElement DEF TokenInv
<1>6. CASE sem' = (IF sem > 0 THEN sem - 1 ELSE 0) /\ c \notin Logins' /\ c \in Logins
  <2>1. Logins' = Logins \ {c}
    BY <1>1, <1>6 DEF Logins
  <2>2. Cardinality(Logins) \in Nat /\ Cardinality(Logins) # 0
    BY <1>6, FS_CardinalityType, FS_EmptySet DEF TokenInv
  <2> QED BY <1>6, <2>1, <2>2, FS_RemoveElement DEF TokenInv
<1>7. CASE Recheck(c) \/ CheckAccount(c)
  BY <1>2, <1>3, <1>4, <1>7 DEF Recheck, CheckAccount, Logins, Labels
<1>8. CASE Acquire(c)
  <2>1. CASE Room /\ sem' = sem + 1 /\ Goto(c, "login")
    BY <1>2, <1>5, <1>8, <2>1 DEF Acquire, Logins, Labels
  <2>2. CASE StateFails(c) /\ UNCHANGED sem
    BY <1>3, <1>4, <1>8, <2>2 DEF Acquire, Logins
  <2> QED BY <1>8, <2>1, <2>2 DEF Acquire
<1>9. CASE Login(c) \/ SetAccountUIN(c)
  BY <1>2, <1>4, <1>9 DEF Login, SetAccountUIN, sync, Logins, Labels
<1>10. CASE LoginFails(c) \/ PutSession(c)
  BY <1>2, <1>3, <1>6, <1>10 DEF LoginFails, PutSession, EndFlight, Logins, Labels
<1> QED BY <1>7, <1>8, <1>9, <1>10

\* Every step keeps tokens and holders.
LEMMA NextKeptInv ==
  TypeInv /\ TypeInv' /\ FlightInv /\ TokenInv /\ HolderInv /\ [Next]_vars => TokenInv' /\ HolderInv'
<1> SUFFICES ASSUME TypeInv, TypeInv', FlightInv, TokenInv, HolderInv, [Next]_vars
             PROVE  TokenInv' /\ HolderInv'
  OBVIOUS
<1>1. \A k \in Keys : lock[k] # Nobody => lock[k] \in Calls
  BY DEF TypeInv, TypeOK
<1>2. CASE Around \/ \E c \in Calls : Outside(c)
  <2>1. TokenInv'
    BY <1>2, OutsideTokens DEF TokenInv
  <2>2. lock' = lock /\ \A d \in Calls : Locked(d) => Same(d)
    BY <1>2, OutsideStep
  <2>3. \A d \in Calls : Locked(d) => Locked(d)' /\ Key(d)' = Key(d)
    BY <2>2 DEF Same, Locked, Flying, Key
  <2>4. HolderInv'
    BY <1>1, <2>2, <2>3 DEF HolderInv
  <2> QED BY <2>1, <2>4
<1>3. ASSUME NEW c \in Calls, Lock(c) PROVE TokenInv' /\ HolderInv'
  <2>1. TokenInv'
    BY <1>3, OutsideTokens DEF TokenInv
  <2>2. /\ lock' = [lock EXCEPT ![Key(c)] = c] /\ pc[c] = "wait"
        /\ pc' = [pc EXCEPT ![c] = "recheck"] /\ UNCHANGED <<acc, route>>
    BY <1>3 DEF Lock, Set, Goto, locals
  <2>3. \A d \in Calls : (Locked(d) => Locked(d)') /\ Key(d)' = Key(d)
    BY <2>2 DEF Locked, Flying, Key, TypeInv, TypeOK
  <2>4. Locked(c)'
    BY <2>2 DEF Locked, TypeInv, TypeOK
  <2>5. HolderInv'
    BY <1>1, <2>2, <2>3, <2>4 DEF HolderInv, TypeInv, TypeOK
  <2> QED BY <2>1, <2>5
<1>4. ASSUME NEW c \in Calls,
             \/ Recheck(c) \/ CheckAccount(c) \/ Acquire(c) \/ Login(c) \/ LoginFails(c)
             \/ SetAccountUIN(c) \/ PutSession(c)
      PROVE  TokenInv' /\ HolderInv'
  <2>1. TokenInv'
    BY <1>4, InsideTokens
  <2>2. /\ Locked(c) /\ Key(c) \in Keys
        /\ \A d \in Calls : d # c => Same(d)
        /\ \A k \in Keys : k # Key(c) => lock'[k] = lock[k]
    BY <1>4, InsideStep
  <2>3. Locked(c)' => lock' = lock /\ Key(c)' = Key(c)
    BY <1>4, InsideStep DEF Key
  <2>4. ~Locked(c)' => lock'[Key(c)] = Nobody
    BY <1>4, InsideReleases
  <2>5. lock[Key(c)] = c
    BY <2>2 DEF FlightInv, LockInv
  <2>6. ASSUME NEW k \in Keys, NEW d \in Calls, lock'[k] = d PROVE Locked(d)' /\ Key(d)' = k
    <3>1. CASE k = Key(c)
      <4>1. Locked(c)'
        BY <2>4, <2>6, <3>1, NullAssumption
      <4> QED BY <2>3, <2>5, <2>6, <3>1, <4>1
    <3>2. CASE k # Key(c)
      <4>1. lock[k] = d /\ d # Nobody
        BY <2>2, <2>6, <3>2, NullAssumption
      <4>2. Locked(d) /\ Key(d) = k /\ d # c
        BY <3>2, <4>1 DEF HolderInv
      <4> QED BY <2>2, <4>2 DEF Same, Locked, Flying, Key
    <3> QED BY <3>1, <3>2
  <2>7. \A k \in Keys : lock'[k] # Nobody => lock'[k] \in Calls
    BY DEF TypeInv, TypeOK
  <2>8. HolderInv'
    BY <2>6, <2>7 DEF HolderInv, Locked, Flying, Key
  <2> QED BY <2>1, <2>8
<1>5. CASE UNCHANGED vars
  BY <1>5 DEF vars, sync, locals, TokenInv, HolderInv, Logins, Locked, Flying, Key
<1> QED BY <1>2, <1>3, <1>4, <1>5 DEF Next, Step, Outside

\* No way out of state - no slot, a failed login, a refused PutSession, the fallback to another
\* key - keeps a mutex or a token, or gives one back twice, for any number of calls and slots.
THEOREM NothingIsKept == Spec => []NothingKept
<1>1. Init => TokenInv /\ HolderInv
  <2> SUFFICES ASSUME Init PROVE TokenInv /\ HolderInv
    OBVIOUS
  <2>1. Logins = {}
    BY DEF Init, Logins
  <2> QED BY <2>1, FS_EmptySet DEF Init, TokenInv, HolderInv
<1>2. TokenInv /\ HolderInv => NothingKept
  BY DEF TokenInv, HolderInv, NothingKept, Logins
<1> QED BY <1>1, <1>2, NextKeptInv, TypeCorrect, FlightSafe, PTL DEF Spec

-----------------------------------------------------------------------------
(* Sessions and the account they were made for *)

CallStep(c) == Resolve(c) \/ Step(c) \/ Lock(c) \/ Acquire(c) \/ Cancel(c)

\* A step of a call touches no account and no other call.
LEMMA CallFrame ==
  ASSUME TypeInv, NEW c \in Calls, CallStep(c)
  PROVE  /\ accounts' = accounts
         /\ \A d \in Calls : d # c => /\ Same(d) /\ ident'[d] = ident[d] /\ attempt'[d] = attempt[d]
                                      /\ refused'[d] = refused[d] /\ (d \in gone' <=> d \in gone)
<1> USE DEF TypeInv, TypeOK
<1>1. accounts' = accounts
  BY DEF CallStep, Step, Resolve, Probe, Drop, Refresh, Reread, Op, OpFails, Empty, Fallback, Fast, Lock,
         Recheck, CheckAccount, Acquire, Login, LoginFails, SetAccountUIN, PutSession, Cancel
<1>2. CASE Cancel(c)
  BY <1>1, <1>2 DEF Cancel, locals, Same
<1>3. CASE Resolve(c) \/ Lock(c)
  BY <1>1, <1>3 DEF Resolve, Lock, Set, Goto, locals, Same
<1>4. CASE Leave(c)
  BY <1>1, <1>4 DEF Leave, Set, Goto, Same
<1>5. CASE StateFails(c)
  BY <1>1, <1>4, <1>5 DEF StateFails, Set, Goto, locals, Same
<1>6. CASE (Probe(c) \/ Drop(c) \/ Refresh(c) \/ Reread(c)) /\ ~Leave(c)
  BY <1>1, <1>6 DEF Probe, Drop, Refresh, Reread, Set, Goto, locals, Same
<1>7. CASE (Op(c) \/ OpFails(c) \/ Empty(c) \/ Fallback(c)) /\ ~Leave(c)
  BY <1>1, <1>7 DEF Op, OpFails, Empty, Fallback, Set, Goto, locals, Same
<1>8. CASE (Fast(c) \/ Recheck(c) \/ CheckAccount(c) \/ Acquire(c)) /\ ~StateFails(c)
  BY <1>1, <1>8 DEF Fast, Recheck, CheckAccount, Acquire, Set, Goto, locals, Same
<1>9. CASE (Login(c) \/ LoginFails(c) \/ SetAccountUIN(c) \/ PutSession(c)) /\ ~StateFails(c)
  BY <1>1, <1>9 DEF Login, LoginFails, SetAccountUIN, PutSession, Set, Goto, locals, Same
<1> QED BY <1>2, <1>3, <1>4, <1>5, <1>6, <1>7, <1>8, <1>9 DEF CallStep, Step

\* What a step of a call does to the account it works for: it takes one that has a row, it leaves,
\* it reads the row again, or it keeps what it has.
LEMMA CallWorksFor ==
  ASSUME TypeInv, NEW c \in Calls, CallStep(c), pc'[c] # "idle"
  PROVE  \/ /\ acc'[c] \in Ids /\ occupant[acc'[c]] # Nobody /\ ident'[c] = occupant[acc'[c]]
            /\ pc'[c] \in {"probe", "fast"}
         \/ pc[c] # "idle" /\ acc'[c] = acc[c] /\ ident'[c] = ident[c]
<1> USE DEF TypeInv, TypeOK
<1>1. ~Leave(c)
  BY DEF Leave, Goto
<1>2. CASE Cancel(c)
  BY <1>2 DEF Cancel, locals
<1>3. CASE Resolve(c)
  BY <1>3 DEF Resolve, Set, Goto
<1>4. CASE Reread(c)
  BY <1>4 DEF Reread, LocalsOK, Set, Goto
<1>5. CASE StateFails(c)
  <2>1. pc[c] # "idle"
    BY <1>5, <1>1 DEF CallStep, Step, Cancel, Resolve, Probe, Drop, Refresh, Reread, Op, OpFails, Empty,
          Fallback, Fast, Lock, Recheck, CheckAccount, Acquire, Login, LoginFails, SetAccountUIN,
          PutSession, StateFails, Goto
  <2> QED BY <1>1, <1>5, <2>1 DEF StateFails, locals
<1>6. CASE Probe(c) \/ Drop(c) \/ Refresh(c)
  BY <1>1, <1>6 DEF Probe, Drop, Refresh, locals
<1>7. CASE Op(c) \/ OpFails(c) \/ Empty(c) \/ Fallback(c)
  BY <1>1, <1>7 DEF Op, OpFails, Empty, Fallback, locals
<1>8. CASE (Fast(c) \/ Lock(c) \/ Recheck(c) \/ CheckAccount(c) \/ Acquire(c)) /\ ~StateFails(c)
  BY <1>8 DEF Fast, Lock, Recheck, CheckAccount, Acquire, locals
<1>9. CASE (Login(c) \/ LoginFails(c) \/ SetAccountUIN(c) \/ PutSession(c)) /\ ~StateFails(c)
  BY <1>9 DEF Login, LoginFails, SetAccountUIN, PutSession, locals
<1> QED BY <1>2, <1>3, <1>4, <1>5, <1>6, <1>7, <1>8, <1>9 DEF CallStep, Step

\* What a step of a call does to what is made and kept: a new session belongs to the identity the
\* call carries, and it is stored and its uin written only while the account has its row.
LEMMA CallKeeps ==
  ASSUME TypeInv, NEW c \in Calls, CallStep(c)
  PROVE  /\ Carrying(c)' => /\ acc'[c] = acc[c] /\ ident'[c] = ident[c] /\ pc[c] # "idle"
                            /\ \/ Carrying(c) /\ sess'[c] = sess[c]
                               \/ sess'[c].owner = ident[c]
         /\ \/ \A k \in Keys : stored'[k] = stored[k] \/ stored'[k] = NoSession
            \/ /\ Carrying(c) /\ Key(c) \in Keys /\ occupant[acc[c]] # Nobody
               /\ stored' = [stored EXCEPT ![Key(c)] = sess[c]]
         /\ \/ uin' = uin
            \/ /\ Carrying(c) /\ occupant[acc[c]] # Nobody
               /\ uin' = [uin EXCEPT ![acc[c]] = sess[c].owner]
<1> USE DEF Carrying
<1>1. CASE Cancel(c)
  BY <1>1 DEF Cancel, locals, TypeInv, LocalsOK
<1>2. CASE Outside(c) /\ ~Cancel(c)
  <2>1. uin' = uin
    BY <1>2 DEF Outside, Resolve, Probe, Drop, Refresh, Reread, Op, OpFails, Empty, Fallback, Fast
  <2>2. ~Carrying(c)'
    BY <1>2 DEF Outside, Resolve, Probe, Drop, Refresh, Reread, Op, OpFails, Empty, Fallback, Fast,
                StateFails, Leave, Goto, TypeInv, TypeOK
  <2> QED BY <1>2, <2>1, <2>2, OutsideStep
<1>3. CASE Lock(c)
  BY <1>3 DEF Lock, Goto, TypeInv, TypeOK
<1>4. CASE Recheck(c) \/ CheckAccount(c) \/ Acquire(c) \/ LoginFails(c)
  <2>1. ~Carrying(c)'
    BY <1>4 DEF Recheck, CheckAccount, Acquire, LoginFails, StateFails, Leave, Goto, TypeInv, TypeOK
  <2> QED BY <1>4, <2>1 DEF Recheck, CheckAccount, Acquire, LoginFails
<1>5. CASE Login(c)
  BY <1>5 DEF Login, Set, TypeInv, TypeOK
<1>6. CASE SetAccountUIN(c)
  BY <1>6 DEF SetAccountUIN, locals, Set
<1>7. CASE PutSession(c)
  <2>1. ~Carrying(c)' /\ Key(c) \in Keys
    BY <1>7, InsideStep DEF PutSession, StateFails, Leave, Goto, TypeInv, TypeOK
  <2> QED BY <1>7, <2>1 DEF PutSession, Set
<1> QED BY <1>1, <1>2, <1>3, <1>4, <1>5, <1>6, <1>7 DEF CallStep, Step, Outside

\* Every account has an id that is in use, every session an account.
RowsInv ==
  /\ \A i \in Ids : occupant[i] # Nobody => i \in used
  /\ \A k \in Keys : stored[k] # NoSession => occupant[k[1]] # Nobody

\* As long as no id came back: whoever works for an id works for the identity behind it, or for one
\* that is gone; so does what it has made, what is stored and the uin.
OwnersInv ==
  /\ \A c \in Calls : pc[c] # "idle" => acc[c] \in used /\ occupant[acc[c]] \in {Nobody, ident[c]}
  /\ \A c \in Calls : Carrying(c) => sess[c].owner = ident[c]
  /\ \A k \in Keys : stored[k] # NoSession => stored[k].owner = occupant[k[1]]
  /\ \A i \in Ids : uin[i] \in {Nobody, occupant[i]}

OwnInv == RowsInv /\ (~recycled => OwnersInv)

\* A call keeps it.
LEMMA CallOwnInv ==
  ASSUME TypeInv, TypeInv', OwnInv, NEW c \in Calls, CallStep(c)
  PROVE  OwnInv'
<1>1. occupant' = occupant /\ used' = used /\ recycled' = recycled
  BY CallFrame DEF accounts
<1>2. \A d \in Calls : d # c => Same(d) /\ ident'[d] = ident[d]
  BY CallFrame
<1>3. \/ \A k \in Keys : stored'[k] = stored[k] \/ stored'[k] = NoSession
      \/ /\ Carrying(c) /\ Key(c) \in Keys /\ occupant[acc[c]] # Nobody
         /\ stored' = [stored EXCEPT ![Key(c)] = sess[c]]
  BY CallKeeps
<1>4. stored \in [Keys -> Sessions \cup {NoSession}] /\ uin \in [Ids -> Openids \cup {Nobody}]
  BY DEF TypeInv, TypeOK
<1>5. Key(c)[1] = acc[c]
  BY DEF Key
<1>6. RowsInv'
  BY <1>1, <1>3, <1>4, <1>5 DEF OwnInv, RowsInv
<1>7. ASSUME ~recycled PROVE OwnersInv'
  <2>0. OwnersInv
    BY <1>7 DEF OwnInv
  <2>1. ASSUME NEW d \in Calls, pc'[d] # "idle"
        PROVE  acc'[d] \in used' /\ occupant'[acc'[d]] \in {Nobody, ident'[d]}
    <3>1. CASE d = c
      <4>1. \/ acc'[c] \in Ids /\ occupant[acc'[c]] # Nobody /\ ident'[c] = occupant[acc'[c]]
            \/ pc[c] # "idle" /\ acc'[c] = acc[c] /\ ident'[c] = ident[c]
        BY <2>1, <3>1, CallWorksFor
      <4> QED BY <1>1, <2>0, <3>1, <4>1 DEF OwnersInv, OwnInv, RowsInv
    <3>2. CASE d # c
      BY <1>1, <1>2, <2>0, <2>1, <3>2 DEF OwnersInv, Same
    <3> QED BY <3>1, <3>2
  <2>2. ASSUME NEW d \in Calls, Carrying(d)' PROVE sess'[d].owner = ident'[d]
    <3>1. CASE d = c
      BY <2>0, <2>2, <3>1, CallKeeps DEF OwnersInv
    <3>2. CASE d # c
      BY <1>2, <2>0, <2>2, <3>2 DEF OwnersInv, Same, Carrying
    <3> QED BY <3>1, <3>2
  <2>3. Carrying(c) /\ occupant[acc[c]] # Nobody => sess[c].owner = occupant[acc[c]]
    BY <2>0 DEF OwnersInv, Carrying
  <2>4. \A k \in Keys : stored'[k] # NoSession => stored'[k].owner = occupant'[k[1]]
    BY <1>1, <1>3, <1>4, <1>5, <2>0, <2>3 DEF OwnersInv
  <2>5. \A i \in Ids : uin'[i] \in {Nobody, occupant'[i]}
    <3>1. \/ uin' = uin
          \/ /\ Carrying(c) /\ occupant[acc[c]] # Nobody
             /\ uin' = [uin EXCEPT ![acc[c]] = sess[c].owner]
      BY CallKeeps
    <3> QED BY <1>1, <1>4, <2>0, <2>3, <3>1 DEF OwnersInv
  <2> QED BY <2>1, <2>2, <2>4, <2>5 DEF OwnersInv
<1> QED BY <1>1, <1>6, <1>7 DEF OwnInv

\* So does everything around the pool: a removed account takes its sessions along, and a new one
\* gets an id nobody works for.
LEMMA AroundOwnInv ==
  ASSUME TypeInv, OwnInv, Around
  PROVE  OwnInv'
<1>1. UNCHANGED <<pc, acc, ident, sess>>
  BY DEF Around, Expire, RemoveAccount, ResetSequence, AddAccount, locals
<1>2. \A c \in Calls : pc[c] # "idle" => acc[c] \in Ids /\ ident[c] # Nobody
  BY NullAssumption DEF TypeInv, LocalsOK
<1>3. \A k \in Keys : k[1] \in Ids
  BY DEF Keys
<1> USE <1>1, <1>2, <1>3 DEF TypeInv, TypeOK
<1>4. CASE Expire
  <2>1. UNCHANGED <<occupant, used, recycled, uin>>
    BY <1>4 DEF Expire, accounts
  <2>2. \A k \in Keys : stored'[k] = stored[k] \/ stored'[k] = NoSession
    BY <1>4 DEF Expire
  <2> QED BY <2>1, <2>2 DEF OwnInv, RowsInv, OwnersInv, Carrying
<1>5. CASE RemoveAccount
  <2>1. PICK i \in Ids : /\ occupant' = [occupant EXCEPT ![i] = Nobody]
                         /\ uin' = [uin EXCEPT ![i] = Nobody]
                         /\ stored' = Cascade(i)
    BY <1>5 DEF RemoveAccount, Set
  <2>2. UNCHANGED <<used, recycled>>
    BY <1>5 DEF RemoveAccount
  <2>3. \A k \in Keys : stored'[k] # NoSession => stored'[k] = stored[k] /\ k[1] # i
    BY <2>1 DEF Cascade
  <2>4. \A j \in Ids : occupant'[j] # Nobody => j # i /\ occupant'[j] = occupant[j]
    BY <2>1
  <2>5. \A j \in Ids : occupant'[j] \in {Nobody, occupant[j]} /\ (j # i => occupant'[j] = occupant[j])
    BY <2>1
  <2>6. RowsInv'
    BY <2>2, <2>3, <2>4, <2>5 DEF OwnInv, RowsInv
  <2>7. OwnersInv => OwnersInv'
    BY <2>1, <2>2, <2>3, <2>5 DEF OwnersInv, Carrying
  <2> QED BY <2>2, <2>6, <2>7 DEF OwnInv
<1>6. CASE ResetSequence
  BY <1>6 DEF ResetSequence, OwnInv, RowsInv
<1>7. CASE AddAccount
  <2>1. PICK i \in Ids \ used, o \in Openids : /\ occupant' = [occupant EXCEPT ![i] = o]
                                               /\ used' = used \cup {i}
    BY <1>7 DEF AddAccount, Set
  <2>2. UNCHANGED <<recycled, stored, uin>>
    BY <1>7 DEF AddAccount
  <2>3. occupant[i] = Nobody /\ \A j \in Ids : j # i => occupant'[j] = occupant[j]
    BY <2>1 DEF OwnInv, RowsInv
  <2>4. RowsInv'
    BY <2>1, <2>2, <2>3 DEF OwnInv, RowsInv
  <2>5. ASSUME OwnersInv PROVE OwnersInv'
    <3>1. \A c \in Calls : pc[c] # "idle" => acc[c] # i
      BY <2>1, <2>5 DEF OwnersInv
    <3>2. \A k \in Keys : stored[k] # NoSession => k[1] # i
      BY <2>3 DEF OwnInv, RowsInv
    <3> QED BY <2>1, <2>2, <2>3, <2>5, <3>1, <3>2 DEF OwnersInv, Carrying
  <2> QED BY <2>2, <2>4, <2>5 DEF OwnInv
<1> QED BY <1>4, <1>5, <1>6, <1>7 DEF Around

\* A stored session has its account, and as long as sqlite_sequence was not cleared it was made with
\* that account's own login buffer, and the uin is the account's own.
THEOREM SessionsAreOwn == Spec => []OwnSessions
<1>1. Init => OwnInv
  BY DEF Init, OwnInv, RowsInv, OwnersInv, Carrying
<1>2. TypeInv /\ TypeInv' /\ OwnInv /\ [Next]_vars => OwnInv'
  <2> SUFFICES ASSUME TypeInv, TypeInv', OwnInv, [Next]_vars PROVE OwnInv'
    OBVIOUS
  <2>1. CASE Next
    BY <2>1, CallOwnInv, AroundOwnInv DEF Next, CallStep
  <2>2. CASE UNCHANGED vars
    BY <2>2 DEF vars, accounts, locals, OwnInv, RowsInv, OwnersInv, Carrying
  <2> QED BY <2>1, <2>2
<1>3. OwnInv => OwnSessions
  BY DEF OwnInv, RowsInv, OwnersInv, OwnSessions
<1> QED BY <1>1, <1>2, <1>3, TypeCorrect, PTL DEF Spec

-----------------------------------------------------------------------------
(* The second attempt *)

\* A session that was made before, that nobody is about to store, and that may be stored under one
\* key only.
At(s, l) ==
  /\ s.nr <= made
  /\ \A d \in Calls : Carrying(d) => sess[d] # s
  /\ \A k \in Keys : stored[k] = s => k = l

\* No call can find this session any more.
Nowhere(s) == \A k \in Keys : stored[k] # s

\* The session a call works on, and the one it was refused with, sit under one key; once the call
\* has dropped the refused one, it is nowhere, or the call is cancelled and looks for no session.
RetryOK(c) ==
  /\ pc[c] = "op" => At(sess[c], Key(c))
  /\ pc[c] \in {"idle", "probe"} => refused[c] = NoSession
  /\ refused[c] # NoSession => At(refused[c], <<acc[c], Effective>>)
  /\ attempt[c] = 2 \/ pc[c] \in {"refresh", "reread"} =>
       refused[c] = NoSession \/ c \in gone \/ Nowhere(refused[c])
  /\ attempt[c] = 2 /\ pc[c] = "op" => sess[c] # refused[c]

RetryInv == \A c \in Calls : RetryOK(c)

\* No step moves a session to another key, or brings a dropped one back.
LEMMA AtKept ==
  ASSUME TypeInv, TypeInv', FlightInv, [Next]_vars, NEW s \in Sessions, NEW l \in Keys, At(s, l)
  PROVE  At(s, l)' /\ (Nowhere(s) => Nowhere(s)')
<1>0. s.nr \in Nat /\ made \in Nat /\ s.nr <= made /\ s # NoSession
  BY NullAssumption, PoolAssumption DEF At, Sessions, TypeInv, TypeOK
<1>1. ASSUME made' \in {made, made + 1},
             \A d \in Calls : Carrying(d)' => sess'[d] # s,
             \A k \in Keys : stored'[k] = s => stored[k] = s
      PROVE  At(s, l)' /\ (Nowhere(s) => Nowhere(s)')
  BY <1>0, <1>1 DEF At, Nowhere
<1>2. CASE UNCHANGED vars
  BY <1>1, <1>2 DEF vars, locals, At, Carrying
<1>3. CASE Around \/ \E c \in Calls : Outside(c)
  <2>1. /\ made' = made
        /\ \A d \in Calls : Locked(d) \/ Locked(d)' => Same(d)
        /\ \A k \in Keys : stored'[k] = stored[k] \/ stored'[k] = NoSession
    BY <1>3, OutsideStep
  <2>2. \A d \in Calls : Carrying(d)' => Carrying(d) /\ sess'[d] = sess[d]
    BY <2>1 DEF Same, Locked, Flying, Carrying
  <2> QED BY <1>0, <1>1, <2>1, <2>2 DEF At
<1>4. ASSUME NEW c \in Calls, Lock(c) PROVE At(s, l)' /\ (Nowhere(s) => Nowhere(s)')
  <2>1. UNCHANGED <<made, stored, sess>> /\ \A d \in Calls : Carrying(d)' => Carrying(d)
    BY <1>4 DEF Lock, Goto, locals, Carrying, TypeInv, TypeOK
  <2> QED BY <1>1, <2>1 DEF At
<1>5. ASSUME NEW c \in Calls,
             \/ Recheck(c) \/ CheckAccount(c) \/ Acquire(c) \/ Login(c) \/ LoginFails(c)
             \/ SetAccountUIN(c) \/ PutSession(c)
      PROVE  At(s, l)' /\ (Nowhere(s) => Nowhere(s)')
  <2>1. \A d \in Calls : d # c => Same(d)
    BY <1>5, InsideStep
  <2>2. \/ stored' = stored
        \/ pc[c] = "put" /\ stored' = [stored EXCEPT ![Key(c)] = sess[c]]
    BY <1>5, InsideStep
  <2>3. Carrying(c)' => \/ Carrying(c) /\ sess'[c] = sess[c] /\ made' = made
                        \/ made' = made + 1 /\ sess'[c].nr = made + 1
    BY <1>5, InsideStep
  <2>4. ~Carrying(c)' => made' = made
    BY <1>5, InsideStep
  <2>5. \A d \in Calls : Carrying(d)' => sess'[d] # s
    BY <1>0, <2>1, <2>3 DEF At, Carrying, Same
  <2>6. \A k \in Keys : stored'[k] = s => stored[k] = s
    BY <2>2 DEF At, Carrying, TypeInv, TypeOK
  <2> QED BY <1>1, <2>3, <2>4, <2>5, <2>6
<1> QED BY <1>2, <1>3, <1>4, <1>5 DEF Next, Step, Outside

\* A session that is stored, or that a call is about to store, sits under one key.
LEMMA StoredAt ==
  ASSUME TypeInv, FlightInv, NEW k \in Keys, stored[k] # NoSession
  PROVE  At(stored[k], k)
BY DEF FlightInv, FreshInv, At

\* How a call comes to work on a session: it finds one, or stores the one it made.
LEMMA ToOp ==
  ASSUME TypeInv, NEW c \in Calls, CallStep(c), pc'[c] = "op"
  PROVE  /\ acc'[c] = acc[c] /\ route'[c] = route[c] /\ attempt'[c] = attempt[c] /\ refused'[c] = refused[c]
         /\ Key(c) \in Keys
         /\ \/ pc[c] = "op" /\ sess'[c] = sess[c]
            \/ Hit(c) /\ sess'[c] = stored[Key(c)] /\ pc[c] # "op"
            \/ Carrying(c) /\ sess'[c] = sess[c] /\ stored'[Key(c)] = sess[c]
<1> USE DEF TypeInv, TypeOK
<1>1. ~Leave(c) /\ ~StateFails(c)
  BY DEF Leave, StateFails, Goto
<1>2. CASE Cancel(c)
  BY <1>2 DEF Cancel, locals, LocalsOK, Key, Keys
<1>3. CASE Fast(c)
  <2>1. Hit(c) /\ sess' = Set(sess, c, stored[Key(c)]) /\ UNCHANGED <<acc, route, attempt, refused>>
    BY <1>1, <1>3 DEF Fast, Goto
  <2> QED BY <1>3, <2>1 DEF Fast, LocalsOK, Key, Keys, Set
<1>4. CASE Recheck(c)
  <2>1. Hit(c) /\ sess' = Set(sess, c, stored[Key(c)]) /\ UNCHANGED <<acc, route, attempt, refused>>
    BY <1>1, <1>4 DEF Recheck, Goto
  <2> QED BY <1>4, <2>1 DEF Recheck, LocalsOK, Key, Keys, Set
<1>5. CASE PutSession(c)
  <2>1. stored' = Set(stored, Key(c), sess[c]) /\ UNCHANGED locals /\ Key(c) \in Keys
    BY <1>1, <1>5, InsideStep DEF PutSession
  <2> QED BY <1>5, <2>1 DEF PutSession, Carrying, Set, locals
<1> QED BY <1>1, <1>2, <1>3, <1>4, <1>5
        DEF CallStep, Step, Resolve, Probe, Drop, Refresh, Reread, Op, OpFails, Empty, Fallback, Lock,
            CheckAccount, Acquire, Login, LoginFails, SetAccountUIN, Goto

\* How a call comes to have been refused with a session: the first attempt fails with it on the
\* configured route. Only the end of the request forgets it.
LEMMA ToRefused ==
  ASSUME TypeInv, NEW c \in Calls, CallStep(c)
  PROVE  /\ \/ refused'[c] = NoSession
            \/ refused'[c] = refused[c] /\ (acc'[c] = acc[c] \/ pc[c] = "idle")
            \/ /\ pc[c] = "op" /\ route[c] = Effective /\ refused'[c] = sess[c] /\ acc'[c] = acc[c]
               /\ attempt'[c] = 1 /\ pc'[c] \in {"drop", "fallback"}
         /\ pc'[c] \in {"idle", "probe"} =>
              refused'[c] = NoSession \/ (pc[c] \in {"idle", "probe"} /\ refused'[c] = refused[c])
<1> USE DEF TypeInv, TypeOK
<1>1. CASE Leave(c)
  BY <1>1 DEF Leave, Set, Goto
<1>2. CASE Cancel(c) \/ Resolve(c) \/ Probe(c) \/ Lock(c)
  BY <1>2 DEF Cancel, Resolve, Probe, Lock, Goto, locals
<1>3. CASE StateFails(c) /\ ~Leave(c)
  BY <1>3 DEF StateFails, Goto, locals
<1>4. CASE OpFails(c) /\ ~Leave(c)
  BY <1>4 DEF OpFails, Goto, Set
<1>5. CASE (Drop(c) \/ Refresh(c) \/ Reread(c) \/ Op(c) \/ Empty(c) \/ Fallback(c)) /\ ~Leave(c)
  BY <1>5 DEF Drop, Refresh, Reread, Op, Empty, Fallback, Goto, locals
<1>6. CASE (Fast(c) \/ Recheck(c) \/ CheckAccount(c) \/ Acquire(c)) /\ ~StateFails(c)
  BY <1>6 DEF Fast, Recheck, CheckAccount, Acquire, Goto, locals
<1>7. CASE (Login(c) \/ LoginFails(c) \/ SetAccountUIN(c) \/ PutSession(c)) /\ ~StateFails(c)
  BY <1>7 DEF Login, LoginFails, SetAccountUIN, PutSession, Goto, locals
<1> QED BY <1>1, <1>2, <1>3, <1>4, <1>5, <1>6, <1>7 DEF CallStep, Step

\* How a call comes to its second attempt: from a probe without a session, or by dropping the one
\* it was refused with, unless it is cancelled.
LEMMA ToSecond ==
  ASSUME TypeInv, NEW c \in Calls, CallStep(c), attempt'[c] = 2 \/ pc'[c] \in {"refresh", "reread"}
  PROVE  /\ refused'[c] = refused[c]
         /\ c \in gone => c \in gone'
         /\ \/ attempt[c] = 2 \/ pc[c] \in {"refresh", "reread"}
            \/ pc[c] = "probe"
            \/ acc'[c] = acc[c] /\ (c \in gone \/ stored' = [stored EXCEPT ![<<acc[c], Effective>>] = NoSession])
<1> USE DEF TypeInv, TypeOK
<1>0. ~Leave(c)
  BY DEF Leave, Set, Goto
<1>1. CASE Cancel(c)
  BY <1>1 DEF Cancel, locals
<1>2. CASE Resolve(c) \/ Probe(c) \/ Lock(c)
  BY <1>2 DEF Resolve, Probe, Lock, Goto, locals
<1>3. CASE StateFails(c)
  BY <1>0, <1>3 DEF StateFails, Goto, locals
<1>4. CASE OpFails(c)
  BY <1>0, <1>4 DEF OpFails, Goto, Set
<1>5. CASE Drop(c)
  BY <1>5 DEF Drop, InvalidateSession, locals
<1>6. CASE Refresh(c) \/ Reread(c) \/ Op(c) \/ Empty(c) \/ Fallback(c)
  BY <1>0, <1>6 DEF Refresh, Reread, Op, Empty, Fallback, Goto, locals
<1>7. CASE (Fast(c) \/ Recheck(c) \/ CheckAccount(c) \/ Acquire(c)) /\ ~StateFails(c)
  BY <1>7 DEF Fast, Recheck, CheckAccount, Acquire, Goto, locals
<1>8. CASE (Login(c) \/ LoginFails(c) \/ SetAccountUIN(c) \/ PutSession(c)) /\ ~StateFails(c)
  BY <1>8 DEF Login, LoginFails, SetAccountUIN, PutSession, Goto, locals
<1> QED BY <1>1, <1>2, <1>3, <1>4, <1>5, <1>6, <1>7, <1>8 DEF CallStep, Step

\* Whose steps are not its own keeps what it has.
LEMMA RetryOther ==
  ASSUME TypeInv, TypeInv', FlightInv, RetryInv, [Next]_vars, NEW d \in Calls,
         Same(d), attempt'[d] = attempt[d], refused'[d] = refused[d], d \in gone' <=> d \in gone
  PROVE  RetryOK(d)'
<1>0. RetryOK(d)
  BY DEF RetryInv
<1>1. pc[d] # "idle" => acc[d] \in Ids /\ Key(d) \in Keys /\ <<acc[d], Effective>> \in Keys
  BY DEF TypeInv, TypeOK, LocalsOK, Key, Keys, Routes
<1>2. (pc[d] = "op" => sess[d] \in Sessions) /\ (refused[d] # NoSession => refused[d] \in Sessions)
  BY DEF TypeInv, TypeOK, LocalsOK
<1>3. pc'[d] = "op" => At(sess[d], Key(d))'
  <2>1. SUFFICES ASSUME pc[d] = "op" PROVE At(sess[d], Key(d))'
    BY DEF Same
  <2>2. At(sess[d], Key(d))
    BY <1>0, <2>1 DEF RetryOK
  <2>3. PICK s \in Sessions, l \in Keys : s = sess[d] /\ l = Key(d)
    BY <1>1, <1>2, <2>1
  <2>4. At(s, l)'
    BY <2>2, <2>3, AtKept
  <2> QED BY <2>3, <2>4 DEF At, Same, Key
<1>4. ASSUME refused'[d] # NoSession
      PROVE  /\ At(refused[d], <<acc[d], Effective>>)'
             /\ Nowhere(refused[d]) => Nowhere(refused[d])'
  <2>1. pc[d] # "idle" /\ At(refused[d], <<acc[d], Effective>>)
    BY <1>0, <1>4 DEF RetryOK
  <2>2. PICK s \in Sessions, l \in Keys : s = refused[d] /\ l = <<acc[d], Effective>>
    BY <1>1, <1>2, <1>4, <2>1
  <2>3. At(s, l)' /\ (Nowhere(s) => Nowhere(s)')
    BY <2>1, <2>2, AtKept
  <2> QED BY <2>2, <2>3 DEF At, Nowhere, Same
<1>5. /\ pc'[d] \in {"idle", "probe"} => refused'[d] = NoSession
      /\ attempt'[d] = 2 \/ pc'[d] \in {"refresh", "reread"} =>
           refused'[d] = NoSession \/ d \in gone' \/ Nowhere(refused[d])'
      /\ attempt'[d] = 2 /\ pc'[d] = "op" => sess'[d] # refused'[d]
  BY <1>0, <1>4 DEF RetryOK, Same
<1> QED BY <1>3, <1>4, <1>5 DEF RetryOK

\* A call's own step.
LEMMA RetryOwn ==
  ASSUME TypeInv, TypeInv', FlightInv, FlightInv', RetryInv, NEW c \in Calls, CallStep(c)
  PROVE  RetryOK(c)'
<1>0. RetryOK(c) /\ [Next]_vars
  BY DEF RetryInv, CallStep, Next
<1>1. ASSUME pc'[c] = "op"
      PROVE  At(sess[c], Key(c))' /\ (attempt'[c] = 2 => sess'[c] # refused'[c])
  <2>1. /\ Key(c)' = Key(c) /\ attempt'[c] = attempt[c] /\ refused'[c] = refused[c] /\ Key(c) \in Keys
        /\ \/ pc[c] = "op" /\ sess'[c] = sess[c]
           \/ Hit(c) /\ sess'[c] = stored[Key(c)] /\ pc[c] # "op"
           \/ Carrying(c) /\ sess'[c] = sess[c] /\ stored'[Key(c)] = sess[c]
    BY <1>1, ToOp DEF Key
  <2>2. sess'[c] \in Sessions
    BY <1>1 DEF TypeInv, LocalsOK
  <2>3. At(sess'[c], Key(c)) => At(sess[c], Key(c))'
    <3> SUFFICES ASSUME At(sess'[c], Key(c)) PROVE At(sess[c], Key(c))'
      OBVIOUS
    <3>1. PICK s \in Sessions, l \in Keys : s = sess'[c] /\ l = Key(c)
      BY <2>1, <2>2
    <3>2. At(s, l)'
      BY <1>0, <3>1, AtKept
    <3> QED BY <2>1, <3>1, <3>2 DEF At
  <2>4. CASE pc[c] = "op" /\ sess'[c] = sess[c]
    <3>1. At(sess'[c], Key(c)) /\ (attempt[c] = 2 => sess[c] # refused[c])
      BY <1>0, <2>4 DEF RetryOK, At
    <3> QED BY <2>1, <2>3, <2>4, <3>1
  <2>5. CASE Hit(c) /\ sess'[c] = stored[Key(c)]
    <3>1. At(sess'[c], Key(c))
      BY <2>1, <2>5, StoredAt DEF Hit
    <3>2. attempt[c] = 2 => stored[Key(c)] # refused[c]
      BY <1>0, <2>1, <2>5 DEF RetryOK, Nowhere, Hit
    <3> QED BY <2>1, <2>3, <2>5, <3>1, <3>2
  <2>6. CASE Carrying(c) /\ sess'[c] = sess[c] /\ stored'[Key(c)] = sess[c]
    <3>1. stored'[Key(c)] # NoSession
      BY <2>2, <2>6, NullAssumption
    <3>2. At(sess[c], Key(c))'
      BY <2>1, <2>6, <3>1 DEF FlightInv, FreshInv, At
    <3>3. sess[c] # refused[c]
      BY <1>0, <2>2, <2>6, NullAssumption DEF RetryOK, At
    <3> QED BY <2>1, <2>6, <3>2, <3>3
  <2> QED BY <2>1, <2>4, <2>5, <2>6
<1>2. pc'[c] \in {"idle", "probe"} => refused'[c] = NoSession
  BY <1>0, ToRefused DEF RetryOK
<1>3. ASSUME refused'[c] # NoSession
      PROVE  /\ At(refused[c], <<acc[c], Effective>>)'
             /\ refused'[c] = refused[c] => (Nowhere(refused[c]) => Nowhere(refused[c])')
  <2>1. pc'[c] # "idle"
    BY <1>2, <1>3
  <2>2. PICK s \in Sessions, l \in Keys : s = refused'[c] /\ l = <<acc'[c], Effective>>
    <3>1. refused'[c] \in Sessions /\ acc'[c] \in Ids
      BY <1>3, <2>1 DEF TypeInv, TypeOK, LocalsOK
    <3> QED BY <3>1 DEF Keys, Routes
  <2>3. At(s, l)
    <3>1. CASE refused'[c] = refused[c]
      <4>1. pc[c] # "idle" /\ At(refused[c], <<acc[c], Effective>>)
        BY <1>0, <1>3, <3>1 DEF RetryOK
      <4>2. acc'[c] = acc[c] \/ (pc[c] = "op" /\ acc'[c] = acc[c])
        BY <1>3, <4>1, ToRefused
      <4> QED BY <2>2, <3>1, <4>1, <4>2
    <3>2. CASE pc[c] = "op" /\ route[c] = Effective /\ refused'[c] = sess[c] /\ acc'[c] = acc[c]
      BY <1>0, <2>2, <3>2 DEF RetryOK, Key
    <3> QED BY <1>3, <3>1, <3>2, ToRefused
  <2>4. At(s, l)' /\ (Nowhere(s) => Nowhere(s)')
    BY <1>0, <2>3, AtKept
  <2> QED BY <2>2, <2>4 DEF At, Nowhere
<1>4. ASSUME attempt'[c] = 2 \/ pc'[c] \in {"refresh", "reread"}, refused'[c] # NoSession, c \notin gone'
      PROVE  Nowhere(refused[c])'
  <2>1. refused'[c] = refused[c] /\ c \notin gone
    BY <1>4, ToSecond
  <2>2. CASE attempt[c] = 2 \/ pc[c] \in {"refresh", "reread"}
    BY <1>0, <1>3, <1>4, <2>1, <2>2 DEF RetryOK
  <2>3. pc[c] # "probe"
    BY <1>0, <1>4, <2>1 DEF RetryOK
  <2>4. CASE acc'[c] = acc[c] /\ stored' = [stored EXCEPT ![<<acc[c], Effective>>] = NoSession]
    <3>1. <<acc[c], Effective>> \in Keys
      <4>1. pc[c] # "idle"
        BY <1>0, <1>4, <2>1 DEF RetryOK
      <4> QED BY <4>1 DEF TypeInv, LocalsOK, Keys, Routes
    <3>2. stored'[<<acc'[c], Effective>>] = NoSession
      BY <2>4, <3>1 DEF TypeInv, TypeOK
    <3>3. At(refused[c], <<acc[c], Effective>>)'
      BY <1>3, <1>4
    <3> QED BY <1>4, <3>2, <3>3 DEF At, Nowhere
  <2> QED BY <1>4, <2>1, <2>2, <2>3, <2>4, ToSecond
<1> QED BY <1>1, <1>2, <1>3, <1>4 DEF RetryOK

\* The second attempt of invokeWXApp never works with the session its first attempt failed with,
\* on whatever routes, with whatever cancellations and other callers in between.
THEOREM RetryIsFresh == Spec => []RetryUsesFreshSession
<1>1. Init => RetryInv
  BY DEF Init, RetryInv, RetryOK
<1>2. TypeInv /\ TypeInv' /\ FlightInv /\ FlightInv' /\ RetryInv /\ [Next]_vars => RetryInv'
  <2> SUFFICES ASSUME TypeInv, TypeInv', FlightInv, FlightInv', RetryInv, [Next]_vars PROVE RetryInv'
    OBVIOUS
  <2>1. ASSUME NEW c \in Calls, CallStep(c) PROVE RetryInv'
    <3>1. \A d \in Calls : d # c => RetryOK(d)'
      BY <2>1, CallFrame, RetryOther
    <3> QED BY <2>1, <3>1, RetryOwn DEF RetryInv
  <2>2. CASE Around \/ UNCHANGED vars
    <3>1. UNCHANGED <<pc, locals, gone>>
      BY <2>2 DEF Around, Expire, RemoveAccount, ResetSequence, AddAccount, vars
    <3>2. \A d \in Calls : RetryOK(d)'
      BY <3>1, RetryOther DEF Same, locals
    <3> QED BY <3>2 DEF RetryInv
  <2> QED BY <2>1, <2>2 DEF Next, CallStep
<1>3. RetryInv => RetryUsesFreshSession
  BY DEF RetryInv, RetryOK, RetryUsesFreshSession
<1> QED BY <1>1, <1>2, <1>3, TypeCorrect, FlightSafe, PTL DEF Spec

-----------------------------------------------------------------------------
(* The pool implements SingleFlight *)

Flights == {<<Key(c), c>> : c \in {d \in Calls : Flying(d)}}

\* Membership of the abstract set of flights, in this state and in the next.
LEMMA FlightsMembers ==
  /\ \A k, d : <<k, d>> \in Flights <=> d \in Calls /\ Flying(d) /\ k = Key(d)
  /\ \A k, d : <<k, d>> \in Flights' <=> d \in Calls /\ Flying(d)' /\ k = Key(d)'
  /\ \A f \in Flights \cup Flights' : f = <<f[1], f[2]>>
  BY DEF Flights

\* Nobody flies with a changed key: the abstract set changes only by the steps of calls that begin
\* or end a flight.
LEMMA FlightsSame ==
  ASSUME \A d \in Calls : (Flying(d)' <=> Flying(d)) /\ (Flying(d) => Key(d)' = Key(d))
  PROVE  Flights' = Flights
<1>1. \A f : f \in Flights' <=> f \in Flights
  BY FlightsMembers
<1> QED BY <1>1

\* Sessions may go at any time, and that is all a step outside the mutex does.
LEMMA OutsideMaps ==
  ASSUME TypeInv, Around \/ \E c \in Calls : Outside(c)
  PROVE  \E K \in SUBSET Keys : Promise!Drop(K)
<1>1. /\ \A d \in Calls : Locked(d) \/ Locked(d)' => Same(d)
      /\ stored' \in [Keys -> Sessions \cup {NoSession}]
      /\ \A k \in Keys : stored'[k] = stored[k] \/ stored'[k] = NoSession
  BY OutsideStep
<1>2. Flights' = Flights
  <2>1. \A d \in Calls : (Flying(d)' <=> Flying(d)) /\ (Flying(d) => Key(d)' = Key(d))
    BY <1>1 DEF Same, Key, Locked, Flying
  <2> QED BY <2>1, FlightsSame
<1> DEFINE K == {k \in Keys : stored'[k] # stored[k]}
<1>3. stored' = [k \in Keys |-> IF k \in K THEN NoSession ELSE stored[k]]
  BY <1>1
<1>4. Promise!Drop(K)
  BY <1>2, <1>3 DEF Promise!Drop, Flights
<1> QED BY <1>4

\* Waiting for the mutex is not visible.
LEMMA LockMaps ==
  ASSUME TypeInv, NEW c \in Calls, Lock(c)
  PROVE  UNCHANGED <<stored, Flights>>
<1>1. pc[c] = "wait" /\ pc' = [pc EXCEPT ![c] = "recheck"] /\ UNCHANGED <<stored, acc, route>>
  BY DEF Lock, Goto, locals
<1>2. \A d \in Calls : (Flying(d)' <=> Flying(d)) /\ Key(d)' = Key(d)
  BY <1>1 DEF Flying, Key, TypeInv, TypeOK
<1> QED BY <1>1, <1>2, FlightsSame

\* Under the mutex a call begins its flight, delivers, fails, or does something nobody sees.
LEMMA InsideMaps ==
  ASSUME TypeInv, FlightInv, NEW c \in Calls,
         \/ Recheck(c) \/ CheckAccount(c) \/ Acquire(c) \/ Login(c) \/ LoginFails(c)
         \/ SetAccountUIN(c) \/ PutSession(c)
  PROVE  Promise!Next \/ UNCHANGED <<stored, Flights>>
<1>a. Locked(c) /\ Key(c) \in Keys
  BY InsideStep
<1>b. \A d \in Calls : d # c => Same(d)
  BY InsideStep
<1>c. Locked(c)' => lock' = lock /\ stored' = stored /\ acc'[c] = acc[c] /\ route'[c] = route[c] /\ Flying(c)'
  BY InsideStep
<1>d. \/ stored' = stored
      \/ pc[c] = "put" /\ pc'[c] = "op" /\ stored' = [stored EXCEPT ![Key(c)] = sess[c]]
  BY InsideStep
<1>e. pc[c] = "recheck" => stored[Key(c)] = NoSession \/ ~Flying(c)'
  BY InsideStep
<1>1. \A d \in Calls \ {c} : (Flying(d)' <=> Flying(d)) /\ Key(d)' = Key(d)
  BY <1>b DEF Same, Key, Flying
<1>2. Flying(c)' => Key(c)' = Key(c) /\ stored' = stored
  BY <1>c DEF Key, Locked
<1>3. CASE Flying(c) /\ Flying(c)'
  <2>1. Flights' = Flights
    BY <1>1, <1>2, <1>3, FlightsSame
  <2> QED BY <1>2, <1>3, <2>1
<1>4. CASE ~Flying(c) /\ Flying(c)'
  <2>1. stored[Key(c)] = NoSession
    BY <1>a, <1>e, <1>4 DEF Locked
  <2>2. \A d \in Calls : <<Key(c), d>> \notin Flights
    BY <1>a, <1>4, FlightsMembers DEF FlightInv, LockInv, Locked
  <2>3. Flights' = Flights \cup {<<Key(c), c>>}
    <3>1. \A f : f \in Flights' <=> f \in Flights \/ f = <<Key(c), c>>
      BY <1>1, <1>2, <1>4, FlightsMembers
    <3> QED BY <3>1
  <2>4. Promise!Begin(Key(c), c)
    BY <1>2, <1>4, <2>1, <2>2, <2>3 DEF Promise!Begin, Flights
  <2> QED BY <1>a, <2>4 DEF Promise!Next
<1>5. CASE Flying(c) /\ ~Flying(c)'
  <2>1. <<Key(c), c>> \in Flights
    BY <1>5, FlightsMembers
  <2>2. Flights' = Flights \ {<<Key(c), c>>}
    <3>1. \A f : f \in Flights' <=> f \in Flights /\ f # <<Key(c), c>>
      BY <1>1, <1>5, FlightsMembers
    <3> QED BY <3>1
  <2>3. CASE stored' = stored
    <3>1. Promise!Fail(Key(c), c)
      BY <2>1, <2>2, <2>3 DEF Promise!Fail, Flights
    <3> QED BY <1>a, <3>1 DEF Promise!Next
  <2>4. CASE pc[c] = "put" /\ stored' = [stored EXCEPT ![Key(c)] = sess[c]]
    <3>1. sess[c] \in Sessions /\ \A l \in Keys : stored[l] # sess[c]
      BY <2>4 DEF FlightInv, FreshInv, Carrying, TypeInv, LocalsOK
    <3>2. PICK v \in Sessions : v = sess[c]
      BY <3>1
    <3>3. Promise!Deliver(Key(c), c, v)
      BY <2>1, <2>2, <2>4, <3>1, <3>2 DEF Promise!Deliver, Flights
    <3> QED BY <1>a, <3>3 DEF Promise!Next
  <2> QED BY <1>d, <2>3, <2>4
<1>6. CASE ~Flying(c) /\ ~Flying(c)'
  <2>1. stored' = stored
    BY <1>d, <1>6 DEF Flying
  <2>2. Flights' = Flights
    BY <1>1, <1>6, FlightsSame
  <2> QED BY <2>1, <2>2
<1> QED BY <1>3, <1>4, <1>5, <1>6

\* The pool of pool.go keeps the promise of SingleFlight, for any number of calls, accounts,
\* routes and logins: one login per key at a time, begun only when there is no session, and no
\* session under two keys.
THEOREM Implements == Spec => PromiseKept
<1>1. Init => Promise!Init
  <2> SUFFICES ASSUME Init PROVE Promise!Init
    OBVIOUS
  <2>1. \A d \in Calls : ~Flying(d)
    BY DEF Init, Flying
  <2>2. Flights = {}
    BY <2>1 DEF Flights
  <2> QED BY <2>2 DEF Init, Promise!Init, Flights
<1>2. TypeInv /\ FlightInv /\ [Next]_vars => [Promise!Next]_(Promise!vars)
  <2> SUFFICES ASSUME TypeInv, FlightInv, [Next]_vars PROVE Promise!Next \/ UNCHANGED <<stored, Flights>>
    BY DEF Promise!vars, Flights
  <2>1. CASE Around \/ \E c \in Calls : Outside(c)
    BY <2>1, OutsideMaps DEF Promise!Next
  <2>2. CASE \E c \in Calls : Lock(c)
    BY <2>2, LockMaps
  <2>3. ASSUME NEW c \in Calls,
               \/ Recheck(c) \/ CheckAccount(c) \/ Acquire(c) \/ Login(c) \/ LoginFails(c)
               \/ SetAccountUIN(c) \/ PutSession(c)
        PROVE  Promise!Next \/ UNCHANGED <<stored, Flights>>
    BY <2>3, InsideMaps
  <2>4. CASE UNCHANGED vars
    BY <2>4 DEF vars, locals, Flights, Flying, Key
  <2> QED BY <2>1, <2>2, <2>3, <2>4 DEF Next, Step, Outside
<1> QED BY <1>1, <1>2, TypeCorrect, FlightSafe, PTL DEF Spec, PromiseKept, Promise!Spec

=============================================================================
