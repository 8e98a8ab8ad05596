------------------------- MODULE ScriptRunnerProofs -------------------------
(* Theorems about ScriptRunner, for every value of its constants. *)
EXTENDS ScriptRunner, TLAPS

-----------------------------------------------------------------------------
(* Types *)

\* What an entry is made of.
LEMMA EntryFacts ==
  /\ NoEntry \in Entry /\ NoEntry.next = 0
  /\ \A e \in Entry : /\ e.next \in Nat
                      /\ e # NoEntry => e.cron \in Crons /\ e.next > 0
  /\ \A c \in Crons, x \in Nat \ {0} : [cron |-> c, next |-> x] \in Entry
<1>1. NoEntry \in Entry /\ NoEntry.next = 0
  BY DEF Entry, NoEntry
<1>2. ASSUME NEW e \in Entry
      PROVE  e.next \in Nat /\ (e # NoEntry => e.cron \in Crons /\ e.next > 0)
  BY DEF Entry, NoEntry
<1>3. \A c \in Crons, x \in Nat \ {0} : [cron |-> c, next |-> x] \in Entry
  BY DEF Entry
<1> QED BY <1>1, <1>2, <1>3

\* The table without schedules.
LEMMA EmptyType == Empty \in [Scripts -> Entry]
BY EntryFacts DEF Empty

\* A service that starts without runs.
LEMMA InitTypes == Init => TypeOK
<1> SUFFICES ASSUME Init PROVE TypeOK
  OBVIOUS
<1>1. pc \in [Threads -> LoopPlaces \cup RequestPlaces]
      /\ pc[Loop] \in LoopPlaces /\ \A p \in Clients : pc[p] \in RequestPlaces
  BY RunnerAssumption DEF Init, Threads, LoopPlaces, RequestPlaces
<1>2. name \in [Threads -> Scripts]
  BY DEF Init
<1>3. entry \in [Threads -> Entry] /\ snap \in [Threads -> [Scripts -> Entry]]
  BY EntryFacts, EmptyType DEF Init
<1> QED BY <1>1, <1>2, <1>3, EmptyType DEF Init, TypeOK

\* A thread goes to a place of its own kind.
LEMMA GotoTypes ==
  ASSUME TypeOK, NEW p \in Threads, NEW l, Goto(p, l),
         IF p = Loop THEN l \in LoopPlaces ELSE l \in RequestPlaces
  PROVE  /\ pc' \in [Threads -> LoopPlaces \cup RequestPlaces]
         /\ pc'[Loop] \in LoopPlaces /\ \A q \in Clients : pc'[q] \in RequestPlaces
BY RunnerAssumption DEF TypeOK, Goto, Threads

\* The requests keep the types.
LEMMA RequestTypes ==
  ASSUME TypeOK, NEW p \in Clients, NEW n \in Scripts, Requested(p, n)
  PROVE  TypeOK'
<1> USE DEF Request, store, clock, tick, local
<1>0. p \in Threads /\ p # Loop
      /\ {"begin", "remove", "set", "unset"} \subseteq RequestPlaces
  BY RunnerAssumption DEF Threads, RequestPlaces, CommonPlaces
<1>1. CASE UploadRequest(p, n)
  BY <1>0, <1>1 DEF UploadRequest, TypeOK
<1>2. CASE RunRequest(p, n)
  BY <1>0, <1>2, GotoTypes DEF RunRequest, TypeOK
<1>3. CASE StopRequest(p, n)
  BY <1>0, <1>3 DEF StopRequest, Cancelled, TypeOK
<1>4. CASE DeleteRequest(p, n)
  <2>1. runs' \in [Scripts -> {"none", "running", "cancelled", "finished"}]
    BY <1>4 DEF DeleteRequest, Cancelled, TypeOK
  <2> QED BY <1>0, <1>4, <2>1, GotoTypes DEF DeleteRequest, TypeOK
<1>5. CASE ScheduleRequest(p, n)
  <2>1. entry' \in [Threads -> Entry]
    <3>1. PICK c \in Crons : \E x \in c : entry' = [entry EXCEPT ![p] = [cron |-> c, next |-> x]]
      BY <1>5 DEF ScheduleRequest
    <3>2. PICK x \in c : entry' = [entry EXCEPT ![p] = [cron |-> c, next |-> x]]
      BY <3>1
    <3>3. x \in Nat \ {0}
      BY RunnerAssumption
    <3> QED BY <3>2, <3>3, EntryFacts DEF TypeOK
  <2> QED BY <1>0, <1>5, <2>1, GotoTypes DEF ScheduleRequest, TypeOK
<1>6. CASE UnscheduleRequest(p, n)
  BY <1>0, <1>6, GotoTypes DEF UnscheduleRequest, TypeOK
<1> QED BY <1>1, <1>2, <1>3, <1>4, <1>5, <1>6 DEF Requested

\* The threads that start and end runs keep the types.
LEMMA ThreadTypes ==
  ASSUME TypeOK, NEW p \in Threads, ThreadStep(p)
  PROVE  TypeOK'
<1> USE DEF store, clock, tick, local
<1>0. /\ p # Loop => p \in Clients
      /\ {"begin", "fail", "snap", "open", "write", "next", "delay", "resched"} \subseteq LoopPlaces
      /\ {"begin", "fail", "snap", "open", "write", "idle", "unset", "wake"} \subseteq RequestPlaces
      /\ {"remove", "set", "unset", "wake"} \cap LoopPlaces = {}
  BY DEF Threads, LoopPlaces, RequestPlaces, CommonPlaces
<1>1. CASE Begin(p)
  <2>1. CASE Refused(p)
    <3>1. due' \subseteq Scripts
      BY <2>1 DEF Refused, GiveUp, Without, TypeOK
    <3> QED BY <1>0, <1>1, <2>1, <3>1, GotoTypes DEF Begin, Refused, GiveUp, TypeOK
  <2>2. CASE Started(p)
    <3>1. runs' \in [Scripts -> {"none", "running", "cancelled", "finished"}] /\ fired' \in [Scripts -> Nat]
      BY <2>2 DEF Started, TypeOK
    <3> QED BY <1>0, <1>1, <2>2, <3>1, GotoTypes DEF Begin, Started, TypeOK
  <2>3. CASE Faulty(p)
    <3>1. runs' \in [Scripts -> {"none", "running", "cancelled", "finished"}]
      BY <2>3 DEF Faulty, TypeOK
    <3> QED BY <1>0, <1>1, <2>3, <3>1, GotoTypes DEF Begin, Faulty, TypeOK
  <2> QED BY <1>1, <2>1, <2>2, <2>3 DEF Begin
<1>2. CASE Fail(p)
  <2>1. runs' \in [Scripts -> {"none", "running", "cancelled", "finished"}] /\ due' \subseteq Scripts
    BY <1>2 DEF Fail, GiveUp, Without, TypeOK
  <2> QED BY <1>0, <1>2, <2>1, GotoTypes DEF Fail, GiveUp, TypeOK
<1>3. CASE Remove(p)
  BY <1>0, <1>3, GotoTypes DEF Remove, TypeOK
<1>4. CASE Set(p)
  <2>1. schedules' \in [Scripts -> Entry] /\ fired' \in [Scripts -> Nat] /\ entry' \in [Threads -> Entry]
    BY <1>4, EntryFacts DEF Set, TypeOK
  <2> QED BY <1>0, <1>4, <2>1, GotoTypes DEF Set, TypeOK
<1>5. CASE Unset(p)
  <2>1. schedules' \in [Scripts -> Entry] /\ fired' \in [Scripts -> Nat]
    BY <1>5, EntryFacts DEF Unset, TypeOK
  <2> QED BY <1>0, <1>5, <2>1, GotoTypes DEF Unset, TypeOK
<1>6. CASE Wake(p)
  BY <1>0, <1>6, GotoTypes DEF Wake, Kept, TypeOK
<1>7. CASE Snap(p)
  BY <1>0, <1>7, GotoTypes DEF Snap, TypeOK
<1>8. CASE Open(p)
  <2>1. disk' \in [Scripts -> Entry] /\ torn' \in BOOLEAN /\ snap' \in [Threads -> [Scripts -> Entry]]
    BY <1>8, EmptyType DEF Open, Saved, TypeOK
  <2>2. /\ pc' \in [Threads -> LoopPlaces \cup RequestPlaces]
        /\ pc'[Loop] \in LoopPlaces /\ \A q \in Clients : pc'[q] \in RequestPlaces
    BY <1>0, <1>8, GotoTypes DEF Open, Saved
  <2> QED BY <1>8, <2>1, <2>2 DEF Open, TypeOK
<1>9. CASE Write(p)
  <2>1. disk' \in [Scripts -> Entry] /\ torn' \in BOOLEAN /\ snap' \in [Threads -> [Scripts -> Entry]]
    BY <1>9, EmptyType DEF Write, Saved, TypeOK
  <2>2. /\ pc' \in [Threads -> LoopPlaces \cup RequestPlaces]
        /\ pc'[Loop] \in LoopPlaces /\ \A q \in Clients : pc'[q] \in RequestPlaces
    BY <1>0, <1>9, GotoTypes DEF Write, Saved
  <2> QED BY <1>9, <2>1, <2>2 DEF Write, TypeOK
<1> QED BY <1>1, <1>2, <1>3, <1>4, <1>5, <1>6, <1>7, <1>8, <1>9 DEF ThreadStep

\* The scheduler loop keeps the types.
LEMMA LoopTypes ==
  ASSUME TypeOK, LoopStep \/ LoopEnds
  PROVE  TypeOK'
<1> USE DEF store, clock, tick, local
<1>0. Loop \in Threads /\ {"next", "begin", "snap", "delay", "armed", "sleep", "tick", "off"} \subseteq LoopPlaces
  BY DEF Threads, LoopPlaces, CommonPlaces
<1>1. CASE Tick
  BY <1>0, <1>1, GotoTypes DEF Tick, TypeOK
<1>2. CASE TakeOne
  <2>1. PICK n \in Scripts : Take(n)
    BY <1>2 DEF TakeOne
  <2>2. name' \in [Threads -> Scripts] /\ due' \subseteq Scripts
    BY <1>0, <2>1 DEF Take, TypeOK
  <2> QED BY <1>0, <2>1, <2>2, GotoTypes DEF Take, TypeOK
<1>3. CASE Resched
  <2>1. schedules' \in [Scripts -> Entry] /\ changed' \in BOOLEAN
    <3>1. CASE UNCHANGED <<schedules, changed>>
      BY <3>1 DEF TypeOK
    <3>2. ASSUME NEW e \in Current(name[Loop]), NEW x \in e.cron,
                 schedules' = [schedules EXCEPT ![name[Loop]] = [cron |-> e.cron, next |-> x]],
                 changed' = TRUE
          PROVE  schedules' \in [Scripts -> Entry] /\ changed' \in BOOLEAN
      <4>1. name[Loop] \in Scripts /\ e \in Entry /\ e # NoEntry
        BY <1>0 DEF Current, TypeOK
      <4>2. e.cron \in Crons
        BY <4>1, EntryFacts
      <4>3. x \in Nat \ {0}
        BY <4>2, RunnerAssumption
      <4> QED BY <3>2, <4>1, <4>2, <4>3, EntryFacts DEF TypeOK
    <3> QED BY <1>3, <3>1, <3>2 DEF Resched
  <2>2. due' \subseteq Scripts
    BY <1>3 DEF Resched, TypeOK
  <2>3. Goto(Loop, "next") /\ UNCHANGED <<clock, files, runs, disk, torn, token, wakeAt, tickAt, local, fired, requests, crashes>>
    BY <1>3 DEF Resched
  <2> QED BY <1>0, <2>1, <2>2, <2>3, GotoTypes DEF TypeOK
<1>4. CASE TickDone
  BY <1>0, <1>4, GotoTypes DEF TickDone, TypeOK
<1>5. CASE Delay
  <2>1. wakeAt' \in Nat
    BY <1>5, RunnerAssumption DEF Delay, TypeOK
  <2> QED BY <1>0, <1>5, <2>1, GotoTypes DEF Delay, TypeOK
<1>6. CASE Sleep
  BY <1>0, <1>6, GotoTypes DEF Sleep, TypeOK
<1>7. CASE Woken
  BY <1>0, <1>7, GotoTypes DEF Woken, TypeOK
<1>8. CASE TimerFires
  BY <1>0, <1>8, GotoTypes DEF TimerFires, TypeOK
<1>9. CASE LoopEnds
  BY <1>0, <1>9, GotoTypes DEF LoopEnds, TypeOK
<1> QED BY <1>1, <1>2, <1>3, <1>4, <1>5, <1>6, <1>7, <1>8, <1>9 DEF LoopStep

\* Time, and the end of the service, keep the types.
LEMMA ServiceTypes ==
  ASSUME TypeOK, Clock \/ Shutdown \/ StopRuns \/ Exit \/ Crash \/ StartUp \/ \E n \in Scripts : End(n)
  PROVE  TypeOK'
<1> USE DEF store, clock, tick, local
<1>0. Loop \in Threads /\ {"off", "tick"} \subseteq LoopPlaces /\ "idle" \in RequestPlaces
  BY DEF Threads, LoopPlaces, RequestPlaces
<1>1. CASE Clock
  BY <1>1 DEF Clock, TypeOK
<1>2. CASE Shutdown
  BY <1>2 DEF Shutdown, TypeOK
<1>3. CASE StopRuns
  BY <1>3 DEF StopRuns, TypeOK
<1>4. CASE Exit
  BY <1>4 DEF Exit, TypeOK
<1>5. CASE Crash
  <2>1. /\ pc' \in [Threads -> LoopPlaces \cup RequestPlaces]
        /\ pc'[Loop] \in LoopPlaces /\ \A p \in Clients : pc'[p] \in RequestPlaces
    BY <1>0, <1>5, RunnerAssumption DEF Crash, Threads
  <2>2. entry' \in [Threads -> Entry] /\ snap' \in [Threads -> [Scripts -> Entry]]
    BY <1>5, EntryFacts, EmptyType DEF Crash
  <2> QED BY <1>5, <2>1, <2>2 DEF Crash, TypeOK
<1>6. CASE StartUp
  <2>1. /\ pc' \in [Threads -> LoopPlaces \cup RequestPlaces]
        /\ pc'[Loop] \in LoopPlaces /\ \A p \in Clients : pc'[p] \in RequestPlaces
    BY <1>0, <1>6, RunnerAssumption DEF StartUp, Threads, TypeOK
  <2>2. schedules' \in [Scripts -> Entry]
    BY <1>6, EmptyType DEF StartUp, Loaded, TypeOK
  <2> QED BY <1>6, <2>1, <2>2 DEF StartUp, TypeOK
<1>7. CASE \E n \in Scripts : End(n)
  BY <1>7 DEF End, TypeOK
<1> QED BY <1>1, <1>2, <1>3, <1>4, <1>5, <1>6, <1>7

\* Every step keeps the types.
LEMMA NextTypes == TypeOK /\ [Next]_vars => TypeOK'
<1> SUFFICES ASSUME TypeOK, [Next]_vars PROVE TypeOK'
  OBVIOUS
<1>1. CASE UNCHANGED vars
  BY <1>1 DEF vars, clock, store, tick, local, TypeOK
<1> QED BY <1>1, RequestTypes, ThreadTypes, LoopTypes, ServiceTypes DEF Next, ServiceStep

\* Every variable keeps its type, for any scripts, cron expressions and numbers of requests, and
\* neither the scheduler's goroutine nor a request strays into the code of the other.
THEOREM TypeSafe == Spec => []TypeOK
BY InitTypes, NextTypes, PTL DEF Spec

-----------------------------------------------------------------------------
(* No wake-up is missed *)

\* NoOversleep from the moment the delay is computed.
Told == token \/ \E p \in Clients : pc[p] = "wake"

TimerInv ==
  pc[Loop] \in {"armed", "sleep"} =>
    \A n \in Scripts : schedules[n].next > 0 => wakeAt <= schedules[n].next \/ wakeAt <= now \/ Told

\* A step that leaves the clock, the schedules, the token and the timer alone, and takes no thread
\* away from its wake-up and the loop not to its sleep, disturbs nothing.
LEMMA TimerFrame ==
  ASSUME TypeOK, TimerInv, UNCHANGED <<now, schedules, token, wakeAt>>,
         NEW q \in Threads, pc[q] # "wake",
         \A p \in Threads : p # q => pc'[p] = pc[p],
         pc'[Loop] \in {"armed", "sleep"} => pc[Loop] \in {"armed", "sleep"}
  PROVE  TimerInv'
BY DEF TimerInv, Told, Threads

\* Who goes on leaves the others where they are.
LEMMA GotoOnly ==
  ASSUME TypeOK, NEW q \in Threads, NEW l, Goto(q, l)
  PROVE  pc'[q] = l /\ \A p \in Threads : p # q => pc'[p] = pc[p]
BY DEF TypeOK, Goto

\* A request that begins has not changed a schedule yet.
LEMMA RequestTimer ==
  ASSUME TypeOK, TimerInv, NEW p \in Clients, NEW n \in Scripts, Requested(p, n)
  PROVE  TimerInv'
<1> USE DEF Request, clock, store, tick, local
<1>1. p \in Threads /\ p # Loop /\ Loop \in Threads
  BY RunnerAssumption DEF Threads
<1>2. pc[p] = "idle" /\ UNCHANGED <<now, schedules, token, wakeAt>>
  BY DEF Requested, UploadRequest, RunRequest, StopRequest, DeleteRequest, ScheduleRequest, UnscheduleRequest
<1>3. \A q \in Threads : q # p => pc'[q] = pc[q]
  BY <1>1, GotoOnly DEF Requested, UploadRequest, RunRequest, StopRequest, DeleteRequest,
     ScheduleRequest, UnscheduleRequest
<1> QED BY <1>1, <1>2, <1>3, TimerFrame

\* Who changes a schedule goes on to wake the loop.
LEMMA ThreadTimer ==
  ASSUME TypeOK, TimerInv, NEW p \in Threads, ThreadStep(p)
  PROVE  TimerInv'
<1> USE DEF clock, store, tick, local
<1>0. Loop \in Threads /\ (p = Loop \/ p \in Clients)
      /\ (pc[p] \in {"set", "unset", "wake", "remove"} => p # Loop)
  BY DEF Threads, TypeOK, LoopPlaces, CommonPlaces
<1>1. CASE Set(p) \/ Unset(p)
  <2>1. pc'[p] = "wake" /\ p \in Clients
    BY <1>0, <1>1, GotoOnly DEF Set, Unset
  <2> QED BY <2>1 DEF TimerInv, Told
<1>2. CASE Wake(p)
  <2>1. token' = TRUE
    BY <1>2 DEF Wake, Kept
  <2> QED BY <2>1 DEF TimerInv, Told
<1>3. CASE Begin(p) \/ Fail(p) \/ Remove(p) \/ Snap(p) \/ Open(p) \/ Write(p)
  <2>1. pc[p] # "wake" /\ UNCHANGED <<now, schedules, token, wakeAt>>
    BY <1>3 DEF Begin, Fail, Remove, Snap, Open, Write
  <2>2. /\ \A q \in Threads : q # p => pc'[q] = pc[q]
        /\ pc'[p] \in {"resched", "next", "idle", "fail", "unset", "open", "write", "delay"}
    BY <1>3, GotoOnly DEF Begin, Refused, Started, Faulty, GiveUp, Fail, Remove, Snap, Open, Write, Saved
  <2> QED BY <1>0, <2>1, <2>2, TimerFrame
<1> QED BY <1>1, <1>2, <1>3 DEF ThreadStep

\* The loop computes its delay from the schedules or finds the token.
LEMMA LoopTimer ==
  ASSUME TypeOK, TimerInv, LoopStep \/ LoopEnds
  PROVE  TimerInv'
<1> USE DEF clock, store, tick, local
<1>0. Loop \in Threads
  BY DEF Threads
<1>1. CASE Delay
  <2>1. PICK t \in now .. now + MaxDelay : WakesAt(t) /\ wakeAt' = t
    BY <1>1 DEF Delay
  <2>2. UNCHANGED <<now, schedules>>
    BY <1>1 DEF Delay
  <2>3. ASSUME NEW n \in Scripts, schedules[n].next > 0
        PROVE  t <= schedules[n].next \/ t <= now
    <3>1. schedules[n].next \in Nexts /\ schedules[n].next \in Nat /\ now \in Nat /\ MaxDelay \in Nat
      BY <2>3, EntryFacts, RunnerAssumption DEF Nexts, TypeOK
    <3>2. PICK e \in Nexts : /\ e <= schedules[n].next
                             /\ t = IF e < now THEN now ELSE IF e > now + MaxDelay THEN now + MaxDelay ELSE e
      BY <2>1, <3>1 DEF WakesAt
    <3>3. e \in Nat
      BY EntryFacts DEF Nexts, TypeOK
    <3> QED BY <3>1, <3>2, <3>3
  <2> QED BY <2>1, <2>2, <2>3 DEF TimerInv
<1>2. CASE Sleep
  <2>1. pc[Loop] = "armed" /\ UNCHANGED <<now, schedules, token, wakeAt>>
    BY <1>2 DEF Sleep
  <2> QED BY <1>0, <1>2, <2>1, GotoOnly, TimerFrame DEF Sleep
<1>3. CASE Tick \/ TakeOne \/ Resched \/ TickDone \/ Woken \/ TimerFires \/ LoopEnds
  <2>1. pc'[Loop] \in {"next", "begin", "snap", "delay", "tick", "off"}
    BY <1>0, <1>3, GotoOnly DEF Tick, TakeOne, Take, Resched, TickDone, Woken, TimerFires, LoopEnds
  <2> QED BY <2>1 DEF TimerInv
<1> QED BY <1>1, <1>2, <1>3 DEF LoopStep

\* Time only brings what is due; a service that starts has no timer.
LEMMA ServiceTimer ==
  ASSUME TypeOK, TimerInv, Clock \/ Shutdown \/ StopRuns \/ Exit \/ Crash \/ StartUp \/ \E n \in Scripts : End(n)
  PROVE  TimerInv'
<1> USE DEF clock, store, tick, local
<1>1. CASE Clock
  <2>1. now' = now + 1 /\ UNCHANGED <<schedules, token, wakeAt, pc>> /\ now \in Nat /\ wakeAt \in Nat
    BY <1>1 DEF Clock, TypeOK
  <2> QED BY <2>1 DEF TimerInv, Told
<1>2. CASE Shutdown \/ StopRuns \/ Exit \/ \E n \in Scripts : End(n)
  <2>1. UNCHANGED <<now, schedules, token, wakeAt, pc>>
    BY <1>2 DEF Shutdown, StopRuns, Exit, End
  <2> QED BY <2>1 DEF TimerInv, Told
<1>3. CASE Crash \/ StartUp
  <2>1. pc'[Loop] \in {"off", "tick"}
    BY <1>3 DEF Crash, StartUp, TypeOK, Threads
  <2> QED BY <2>1 DEF TimerInv
<1> QED BY <1>1, <1>2, <1>3

\* Every step keeps TimerInv.
LEMMA NextTimer == TypeOK /\ TimerInv /\ [Next]_vars => TimerInv'
<1> SUFFICES ASSUME TypeOK, TimerInv, [Next]_vars PROVE TimerInv'
  OBVIOUS
<1>1. CASE UNCHANGED vars
  BY <1>1 DEF vars, clock, store, tick, local, TimerInv, Told
<1> QED BY <1>1, RequestTimer, ThreadTimer, LoopTimer, ServiceTimer DEF Next, ServiceStep

\* The loop never sleeps through the instant of a schedule, however SetSchedule, ClearSchedule and
\* Delete fall between schedulerTick, nextWakeDelay and the select, for any number of them.
THEOREM NeverOversleeps == Spec => []NoOversleep
<1>1. Init => TimerInv
  BY RunnerAssumption DEF Init, TimerInv, Threads
<1>2. TimerInv => NoOversleep
  BY DEF TimerInv, Told, NoOversleep
<1> QED BY <1>1, <1>2, NextTimer, TypeSafe, PTL DEF Spec

-----------------------------------------------------------------------------
(* Stop *)

\* From Shutdown on no request is under way; when Stop has waited the loop is gone as well, and
\* nothing is left that could start a run.
QuietInv ==
  /\ life # "up" => \A p \in Clients : pc[p] = "idle"
  /\ life \in {"stopped", "down", "crashed"} => pc[Loop] = "off"
  /\ StopReachesAll

\* No client starts a run in a service that has stopped.
LEMMA ThreadQuiet ==
  ASSUME TypeOK, QuietInv, NEW p \in Threads, ThreadStep(p)
  PROVE  QuietInv'
<1> USE DEF clock, store, tick, local
<1>0. (p = Loop \/ p \in Clients) /\ Loop \in Threads /\ Loop \notin Clients
      /\ (\A q \in Clients : q \in Threads)
  BY RunnerAssumption DEF Threads
<1>1. pc[p] \notin {"idle", "off"} /\ UNCHANGED life
  BY DEF ThreadStep, Begin, Fail, Remove, Set, Unset, Wake, Snap, Open, Write
<1>2. \A q \in Threads : q # p => pc'[q] = pc[q]
  BY GotoOnly DEF ThreadStep, Begin, Refused, Started, Faulty, GiveUp, Fail, Remove, Set, Unset, Wake, Snap,
     Open, Write, Saved
<1>3. CASE p = Loop
  BY <1>0, <1>1, <1>2, <1>3 DEF QuietInv, StopReachesAll
<1>4. CASE p \in Clients
  BY <1>0, <1>1, <1>2, <1>4 DEF QuietInv, StopReachesAll
<1> QED BY <1>0, <1>3, <1>4

\* The loop is off before Stop returns.
LEMMA LoopQuiet ==
  ASSUME TypeOK, QuietInv, LoopStep \/ LoopEnds
  PROVE  QuietInv'
<1> USE DEF clock, store, tick, local
<1>0. Loop \in Threads /\ Loop \notin Clients /\ (\A q \in Clients : q \in Threads)
  BY RunnerAssumption DEF Threads
<1>1. pc[Loop] # "off" /\ UNCHANGED <<life, runs>>
  BY DEF LoopStep, Tick, TakeOne, Take, Resched, TickDone, Delay, Sleep, Woken, TimerFires, LoopEnds
<1>2. \A q \in Threads : q # Loop => pc'[q] = pc[q]
  BY <1>0, GotoOnly DEF LoopStep, Tick, TakeOne, Take, Resched, TickDone, Delay, Sleep, Woken, TimerFires, LoopEnds
<1> QED BY <1>0, <1>1, <1>2 DEF QuietInv, StopReachesAll

\* Every step keeps QuietInv.
LEMMA NextQuiet == TypeOK /\ QuietInv /\ [Next]_vars => QuietInv'
<1> SUFFICES ASSUME TypeOK, QuietInv, [Next]_vars PROVE QuietInv'
  OBVIOUS
<1> USE DEF clock, store, tick, local
<1>1. CASE UNCHANGED vars
  BY <1>1 DEF vars, QuietInv, StopReachesAll
<1>2. ASSUME NEW p \in Clients, NEW n \in Scripts, Requested(p, n) PROVE QuietInv'
  <2>1. life = "up" /\ life' = "up"
    BY <1>2 DEF Requested, UploadRequest, RunRequest, StopRequest, DeleteRequest, ScheduleRequest,
       UnscheduleRequest, Request
  <2> QED BY <2>1 DEF QuietInv, StopReachesAll
<1>3. CASE Clock
  BY <1>3 DEF Clock, QuietInv, StopReachesAll
<1>4. CASE Shutdown
  BY <1>4 DEF Shutdown, QuietInv, StopReachesAll
<1>5. CASE StopRuns
  BY <1>5 DEF StopRuns, LoopGone, QuietInv, StopReachesAll
<1>6. CASE Exit
  BY <1>6 DEF Exit, QuietInv, StopReachesAll
<1>7. CASE Crash
  BY <1>7, RunnerAssumption DEF Crash, QuietInv, StopReachesAll, Threads
<1>8. CASE StartUp
  BY <1>8 DEF StartUp, QuietInv, StopReachesAll
<1>9. ASSUME NEW n \in Scripts, End(n) PROVE QuietInv'
  BY <1>9 DEF End, QuietInv, StopReachesAll, TypeOK
<1> QED BY <1>1, <1>2, <1>3, <1>4, <1>5, <1>6, <1>7, <1>8, <1>9, ThreadQuiet, LoopQuiet
      DEF Next, ServiceStep, LoopStep

\* QuietInv always holds.
LEMMA Quiet == Spec => []QuietInv
<1>1. Init => QuietInv
  BY DEF Init, QuietInv, StopReachesAll
<1> QED BY <1>1, NextQuiet, TypeSafe, PTL DEF Spec

\* When Stop has returned every run is cancelled, those included that the scheduler began while Stop
\* was waiting for it, for any number of scripts.
THEOREM StopIsComplete == Spec => []StopReachesAll
<1>1. QuietInv => StopReachesAll
  BY DEF QuietInv
<1> QED BY <1>1, Quiet, PTL

-----------------------------------------------------------------------------
(* A cleared schedule *)

\* Only a request that sets the schedule, or a restart, brings back one that was cleared.
LEMMA ClearedStep ==
  ASSUME TypeOK, Next, NEW n \in Scripts, schedules[n] = NoEntry, schedules'[n] # NoEntry
  PROVE  life # "up" \/ \E p \in Clients : pc[p] = "set" /\ name[p] = n
<1> USE DEF clock, store, tick, local
<1>1. CASE LoopStep
  <2>1. CASE Resched
    <3>1. PICK e \in Current(name[Loop]) : \E x \in e.cron :
            schedules' = [schedules EXCEPT ![name[Loop]] = [cron |-> e.cron, next |-> x]]
      BY <2>1 DEF Resched
    <3>2. name[Loop] # n
      BY <3>1 DEF Current
    <3> QED BY <3>1, <3>2 DEF TypeOK
  <2>2. CASE ~Resched
    BY <1>1, <2>2 DEF LoopStep, Tick, TakeOne, Take, TickDone, Delay, Sleep, Woken, TimerFires
  <2> QED BY <2>1, <2>2
<1>2. ASSUME NEW p \in Threads, ThreadStep(p)
      PROVE  \E q \in Clients : pc[q] = "set" /\ name[q] = n
  <2>1. CASE Set(p)
    <3>1. p \in Clients /\ pc[p] = "set"
      BY <2>1 DEF Set, Threads, TypeOK, LoopPlaces, CommonPlaces
    <3>2. name[p] = n
      BY <2>1 DEF Set, TypeOK
    <3> QED BY <3>1, <3>2
  <2>2. CASE Unset(p)
    BY <2>2 DEF Unset, TypeOK
  <2>3. CASE ~Set(p) /\ ~Unset(p)
    BY <1>2, <2>3 DEF ThreadStep, Begin, Fail, Remove, Wake, Snap, Open, Write
  <2> QED BY <2>1, <2>2, <2>3
<1>3. CASE StartUp
  BY <1>3 DEF StartUp
<1>4. CASE Clock \/ LoopEnds \/ Shutdown \/ StopRuns \/ Exit \/ Crash \/ \E m \in Scripts : End(m)
  BY <1>4 DEF Clock, LoopEnds, Shutdown, StopRuns, Exit, Crash, End
<1>5. CASE \E p \in Clients, m \in Scripts : Requested(p, m)
  BY <1>5 DEF Requested, UploadRequest, RunRequest, StopRequest, DeleteRequest, ScheduleRequest, UnscheduleRequest
<1> QED BY <1>1, <1>2, <1>3, <1>4, <1>5 DEF Next, ServiceStep

\* No tick brings back a schedule that was cleared while it was starting the script.
THEOREM ClearedForGood == Spec => ClearedStaysCleared
<1>1. TypeOK /\ [Next]_vars =>
      [\A n \in Scripts : schedules[n] = NoEntry /\ schedules'[n] # NoEntry =>
         life # "up" \/ \E p \in Clients : pc[p] = "set" /\ name[p] = n]_vars
  BY ClearedStep
<1> QED BY <1>1, TypeSafe, PTL DEF Spec, ClearedStaysCleared

-----------------------------------------------------------------------------
(* One run for one instant *)

\* Every cron expression fires again, however late it is.
Recurring == \A c \in Crons : \A t \in Nat : Instants(c, t) # {}

\* An entry is ahead of the last run it has caused, except while the loop, having begun that run, is
\* about to compute the next instant - and if the service dies there.
FiredInv ==
  life # "crashed" =>
    /\ \A n \in Scripts :
         \/ schedules[n] = NoEntry \/ schedules[n].next > fired[n]
         \/ pc[Loop] = "resched" /\ name[Loop] = n
    /\ pc[Loop] = "resched" => fired[name[Loop]] <= tickAt
    /\ \A p \in Clients : pc[p] = "set" => entry[p] # NoEntry

\* A step of a client that leaves entries and history alone.
LEMMA FiredFrame ==
  ASSUME TypeOK, FiredInv, NEW p \in Clients,
         UNCHANGED <<life, schedules, fired, tickAt>>,
         \A q \in Threads : q # p => pc'[q] = pc[q] /\ name'[q] = name[q] /\ entry'[q] = entry[q],
         pc'[p] = "set" => entry'[p] # NoEntry
  PROVE  FiredInv'
<1>1. p # Loop /\ Loop \in Threads /\ \A q \in Clients : q \in Threads
  BY RunnerAssumption DEF Threads
<1> QED BY <1>1 DEF FiredInv

\* A request begins with an entry whose instant has not been used.
LEMMA RequestFired ==
  ASSUME TypeOK, FiredInv, NEW p \in Clients, NEW n \in Scripts, Requested(p, n)
  PROVE  FiredInv'
<1> USE DEF Request, clock, store, tick, local
<1>1. p \in Threads
  BY DEF Threads
<1>2. UNCHANGED <<life, schedules, fired, tickAt>>
  BY DEF Requested, UploadRequest, RunRequest, StopRequest, DeleteRequest, ScheduleRequest, UnscheduleRequest
<1>3. \A q \in Threads : q # p => pc'[q] = pc[q]
  BY <1>1, GotoOnly DEF Requested, UploadRequest, RunRequest, StopRequest, DeleteRequest,
     ScheduleRequest, UnscheduleRequest
<1>4. \A q \in Threads : q # p => name'[q] = name[q] /\ entry'[q] = entry[q]
  BY DEF Requested, UploadRequest, RunRequest, StopRequest, DeleteRequest, ScheduleRequest,
     UnscheduleRequest, TypeOK
<1>5. CASE ScheduleRequest(p, n)
  <2>1. PICK c \in Crons : \E x \in c : entry' = [entry EXCEPT ![p] = [cron |-> c, next |-> x]]
    BY <1>5 DEF ScheduleRequest
  <2>2. c # {}
    BY RunnerAssumption
  <2>3. entry'[p] # NoEntry
    BY <1>1, <2>1, <2>2 DEF NoEntry, TypeOK
  <2> QED BY <1>2, <1>3, <1>4, <2>3, FiredFrame
<1>6. CASE ~ScheduleRequest(p, n)
  <2>1. pc'[p] # "set"
    BY <1>1, <1>6, GotoOnly DEF Requested, UploadRequest, RunRequest, StopRequest, DeleteRequest,
       UnscheduleRequest
  <2> QED BY <1>2, <1>3, <1>4, <2>1, FiredFrame
<1> QED BY <1>5, <1>6

\* A client enters such an entry, or removes one.
LEMMA ThreadFired ==
  ASSUME TypeOK, FiredInv, NEW p \in Threads, ThreadStep(p)
  PROVE  FiredInv'
<1> USE DEF clock, store, tick, local
<1>0. /\ p = Loop \/ p \in Clients
      /\ pc[p] \in {"set", "unset", "wake", "remove"} => p # Loop
      /\ Loop \in Threads /\ Loop \notin Clients /\ \A q \in Clients : q \in Threads
  BY RunnerAssumption DEF Threads, TypeOK, LoopPlaces, CommonPlaces
<1>1. \A q \in Threads : q # p => pc'[q] = pc[q]
  BY GotoOnly DEF ThreadStep, Begin, Refused, Started, Faulty, GiveUp, Fail, Remove, Set, Unset, Wake, Snap,
     Open, Write, Saved
<1>2. CASE Set(p) \/ Unset(p)
  <2>1. /\ p \in Clients /\ pc[p] \in {"set", "unset"}
        /\ UNCHANGED <<life, tickAt, name>>
        /\ pc'[p] = "wake" /\ pc'[Loop] = pc[Loop]
        /\ fired' = [fired EXCEPT ![name[p]] = 0]
        /\ \A q \in Threads : q # p => entry'[q] = entry[q]
    BY <1>0, <1>1, <1>2, GotoOnly DEF Set, Unset, TypeOK
  <2>2. PICK e \in Entry : /\ schedules' = [schedules EXCEPT ![name[p]] = e]
                           /\ life # "crashed" => (e = NoEntry \/ e.next > 0)
    BY <1>2, EntryFacts DEF Set, Unset, TypeOK
  <2>3. tickAt \in Nat /\ fired \in [Scripts -> Nat] /\ schedules \in [Scripts -> Entry]
        /\ name \in [Threads -> Scripts]
    BY DEF TypeOK
  <2> QED BY <1>0, <1>1, <2>1, <2>2, <2>3 DEF FiredInv
<1>3. CASE Begin(p) /\ p = Loop /\ Started(p)
  <2>1. /\ UNCHANGED <<life, tickAt, name, schedules, entry>>
        /\ pc'[Loop] = "resched" /\ fired' = [fired EXCEPT ![name[Loop]] = tickAt]
    BY <1>3, GotoOnly DEF Begin, Started
  <2>2. tickAt \in Nat /\ fired \in [Scripts -> Nat] /\ name[Loop] \in Scripts /\ pc[Loop] = "begin"
    BY <1>0, <1>3 DEF TypeOK, Begin
  <2> QED BY <1>0, <1>1, <1>3, <2>1, <2>2 DEF FiredInv
<1>4. CASE ~Set(p) /\ ~Unset(p) /\ ~(Begin(p) /\ p = Loop /\ Started(p))
  <2>1. UNCHANGED <<life, tickAt, name, schedules, entry, fired>>
    BY <1>4 DEF ThreadStep, Begin, Refused, Started, Faulty, Fail, Remove, Wake, Snap, Open, Write
  <2>2. pc'[p] \notin {"set", "resched"} /\ pc[p] # "resched"
    <3>1. CASE Begin(p)
      <4>1. CASE Started(p)
        BY <1>4, <3>1, <4>1, GotoOnly DEF Begin, Started
      <4>2. CASE Refused(p) \/ Faulty(p)
        BY <3>1, <4>2, GotoOnly DEF Begin, Refused, Faulty, GiveUp
      <4> QED BY <3>1, <4>1, <4>2 DEF Begin
    <3>2. CASE Fail(p) \/ Remove(p) \/ Wake(p) \/ Snap(p)
      BY <3>2, GotoOnly DEF GiveUp, Fail, Remove, Wake, Snap
    <3>3. CASE Open(p) \/ Write(p)
      <4>1. Goto(p, "write") \/ Goto(p, IF p = Loop THEN "delay" ELSE "idle")
        BY <3>3 DEF Open, Write, Saved
      <4>2. pc'[p] \in {"write", "delay", "idle"} /\ pc[p] \in {"open", "write"}
        BY <3>3, <4>1, GotoOnly DEF Open, Write
      <4> QED BY <4>2
    <3> QED BY <1>4, <3>1, <3>2, <3>3 DEF ThreadStep
  <2> QED BY <1>0, <1>1, <2>1, <2>2 DEF FiredInv
<1> QED BY <1>2, <1>3, <1>4 DEF ThreadStep

\* The loop uses an instant once and goes on to the next.
LEMMA LoopFired ==
  ASSUME TypeOK, FiredInv, Recurring, LoopStep \/ LoopEnds
  PROVE  FiredInv'
<1> USE DEF clock, store, tick, local
<1>0. Loop \in Threads /\ Loop \notin Clients /\ \A q \in Clients : q \in Threads
  BY RunnerAssumption DEF Threads
<1>1. \A q \in Threads : q # Loop => pc'[q] = pc[q]
  BY <1>0, GotoOnly DEF LoopStep, Tick, TakeOne, Take, Resched, TickDone, Delay, Sleep, Woken, TimerFires, LoopEnds
<1>2. pc'[Loop] # "resched" /\ UNCHANGED <<life, fired, entry>>
  BY <1>0, GotoOnly DEF LoopStep, Tick, TakeOne, Take, Resched, TickDone, Delay, Sleep, Woken, TimerFires, LoopEnds
<1>3. CASE Resched
  <2> DEFINE n == name[Loop]
  <2>1. n \in Scripts /\ schedules[n] \in Entry /\ tickAt \in Nat /\ fired[n] \in Nat
        /\ pc[Loop] = "resched" /\ schedules \in [Scripts -> Entry]
    BY <1>0, <1>3 DEF TypeOK, Resched
  <2>2. CASE schedules[n] = NoEntry
    <3>1. schedules' = schedules
      BY <1>3, <2>2 DEF Resched, Current
    <3> QED BY <1>0, <1>1, <1>2, <2>1, <2>2, <3>1 DEF FiredInv
  <2>3. CASE schedules[n] # NoEntry
    <3>1. Instants(schedules[n].cron, tickAt) # {} /\ schedules[n] \in Current(n)
          /\ schedules[n].cron \in Crons
      BY <2>1, <2>3, EntryFacts DEF Recurring, Current
    <3>2. PICK e \in Current(n) : \E x \in e.cron :
            /\ IsNext(e.cron, tickAt, x)
            /\ schedules' = [schedules EXCEPT ![n] = [cron |-> e.cron, next |-> x]]
      BY <1>3, <3>1 DEF Resched
    <3>3. PICK x \in e.cron : /\ IsNext(e.cron, tickAt, x)
                              /\ schedules' = [schedules EXCEPT ![n] = [cron |-> e.cron, next |-> x]]
      BY <3>2
    <3>4. x \in Nat /\ x > tickAt
      <4>1. e.cron \in Crons
        BY <3>1 DEF Current
      <4> QED BY <3>3, <4>1, RunnerAssumption DEF IsNext, Instants
    <3>5. /\ schedules'[n].next = x
          /\ \A m \in Scripts : m # n => schedules'[m] = schedules[m]
      BY <2>1, <3>3
    <3> QED BY <1>0, <1>1, <1>2, <2>1, <3>4, <3>5 DEF FiredInv
  <2> QED BY <2>2, <2>3
<1>4. CASE ~Resched
  <2>1. pc[Loop] # "resched" /\ UNCHANGED schedules
    BY <1>4 DEF LoopStep, Tick, TakeOne, Take, TickDone, Delay, Sleep, Woken, TimerFires, LoopEnds
  <2> QED BY <1>0, <1>1, <1>2, <2>1 DEF FiredInv
<1> QED BY <1>3, <1>4

\* Every step keeps FiredInv.
LEMMA NextFired == ASSUME Recurring PROVE TypeOK /\ QuietInv /\ FiredInv /\ [Next]_vars => FiredInv'
<1> SUFFICES ASSUME TypeOK, QuietInv, FiredInv, [Next]_vars PROVE FiredInv'
  OBVIOUS
<1> USE DEF clock, store, tick, local
<1>1. CASE UNCHANGED vars
  BY <1>1 DEF vars, FiredInv
<1>2. CASE Clock \/ \E n \in Scripts : End(n)
  BY <1>2 DEF Clock, End, FiredInv
<1>3. CASE Shutdown \/ StopRuns \/ Exit
  <2>1. life # "crashed" /\ UNCHANGED <<schedules, fired, pc, name, tickAt, entry>>
    BY <1>3 DEF Shutdown, StopRuns, Exit
  <2> QED BY <2>1 DEF FiredInv
<1>4. CASE Crash
  BY <1>4 DEF Crash, FiredInv
<1>5. CASE StartUp
  <2>1. schedules' \in [Scripts -> Entry]
    BY <1>5, EmptyType DEF StartUp, Loaded, TypeOK
  <2>2. /\ pc'[Loop] = "tick" /\ fired' = [n \in Scripts |-> 0]
        /\ \A p \in Clients : pc'[p] = "idle"
    BY <1>5, RunnerAssumption DEF StartUp, QuietInv, TypeOK, Threads
  <2> QED BY <2>1, <2>2, EntryFacts DEF FiredInv
<1> QED BY <1>1, <1>2, <1>3, <1>4, <1>5, RequestFired, ThreadFired, LoopFired DEF Next, ServiceStep

\* If every cron expression fires again, the scheduler starts a script once for one instant of an entry,
\* whatever requests change the entry between the tick, the start and the computation of the next
\* instant. The hypothesis is needed: Schedule.next looks no more than 366 days ahead, and the entry of
\* an expression that does not fire by then stays due (the run scripts_leap).
THEOREM OnceEach == ASSUME Recurring PROVE Spec => []OncePerInstant
<1>1. Init => FiredInv
  BY RunnerAssumption DEF Init, FiredInv, Threads, Empty
<1>2. TypeOK /\ QuietInv /\ FiredInv => OncePerInstant
  BY DEF FiredInv, QuietInv, OncePerInstant, TypeOK, Threads
<1>3. TypeOK /\ QuietInv /\ FiredInv /\ [Next]_vars => FiredInv'
  BY NextFired
<1> QED BY <1>1, <1>2, <1>3, Quiet, TypeSafe, PTL DEF Spec
=============================================================================
