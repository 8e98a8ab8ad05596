---------------------------- MODULE ScriptRunner ----------------------------
(***************************************************************************)
(* The script runner and its scheduler: Runner in                          *)
(* internal/scriptrunner/runner.go, driven by the handlers of              *)
(* internal/httpapi/scripts.go and the shutdown of cmd/yyb-go/main.go.     *)
(*                                                                         *)
(* Every thread of control - the scheduler loop and the request goroutines *)
(* - has a program counter; a step is what happens between two points      *)
(* where r.mu is free. Two things happen outside the mutex: a file is      *)
(* looked for before the run it belongs to is registered, and the          *)
(* schedules are copied under the mutex but written to schedules.json      *)
(* after it. A cron expression is the set of instants it names.            *)
(***************************************************************************)
EXTENDS Integers, FiniteSets

CONSTANTS Scripts,     \* script names
          Crons,       \* cron expressions: nonempty sets of instants
          Clients,     \* request goroutines
          Loop,        \* the scheduler's goroutine
          Faults,      \* whether creating a log or opening schedules.json may fail
          MaxDelay,    \* the longest sleep of the loop (60 seconds)
          MaxTime,     \* bound: the clock
          MaxRequests, \* bound: requests
          MaxCrashes   \* bound: crashes of the service

ASSUME RunnerAssumption ==
  /\ Crons \subseteq (SUBSET (Nat \ {0})) \ {{}}
  /\ Loop \notin Clients /\ Faults \in BOOLEAN
  /\ MaxDelay \in Nat \ {0} /\ {MaxTime, MaxRequests, MaxCrashes} \subseteq Nat

Threads == Clients \cup {Loop}

\* scheduleEntry; the zero value stands for a name that is not in the map.
NoEntry == [cron |-> {}, next |-> 0]
Entry   == {NoEntry} \cup [cron : Crons, next : Nat \ {0}]

VARIABLES
  now,       \* the clock
  life,      \* "up", "draining" (Stop waits for the loop), "stopped", "down", "crashed"
  files,     \* scripts there are
  runs,      \* script -> "none", "running", "cancelled" or "finished"
  schedules, \* script -> its entry
  disk,      \* schedules.json
  torn,      \* ... is cut short or mixed up, and does not parse
  token,     \* schedulerWake holds its one token
  wakeAt,    \* the instant the loop's timer fires
  tickAt,    \* now, as schedulerTick has read it
  due,       \* names schedulerTick has yet to run
  changed,   \* schedulerTick has to save
  pc,        \* thread -> where it is
  name,      \* thread -> the script it is about
  entry,     \* thread -> the entry SetSchedule has made
  snap,      \* thread -> the copy saveSchedules has made
  fired,     \* history: script -> tick of its last scheduled run under the present entry
  requests, crashes \* how many so far

clock == <<now, life>>
store == <<schedules, disk, torn>>
tick  == <<wakeAt, tickAt, due, changed>>
local == <<name, entry, snap>>
vars  == <<clock, files, runs, store, token, tick, pc, local, fired, requests, crashes>>

Empty    == [n \in Scripts |-> NoEntry]
Busy(n)  == runs[n] \in {"running", "cancelled"}
Goto(p, l) == pc' = [pc EXCEPT ![p] = l]

\* Schedule.next: strictly after t. (Mutant: at t or after it.)
FromNow(c, t)   == {x \in c : x >= t}
Instants(c, t)  == {x \in c : x > t}
IsNext(c, t, x) == x \in Instants(c, t) /\ \A y \in Instants(c, t) : x <= y

Init ==
  /\ now = 0 /\ life = "up"
  /\ files = Scripts /\ runs = [n \in Scripts |-> "none"]
  /\ schedules = Empty /\ disk = Empty /\ torn = FALSE
  /\ token = FALSE /\ wakeAt = 0 /\ tickAt = 0 /\ due = {} /\ changed = FALSE
  /\ pc = [p \in Threads |-> IF p = Loop THEN "tick" ELSE "idle"]
  /\ \E n \in Scripts : name = [p \in Threads |-> n]
  /\ entry = [p \in Threads |-> NoEntry]
  /\ snap = [p \in Threads |-> Empty]
  /\ fired = [n \in Scripts |-> 0]
  /\ requests = 0 /\ crashes = 0

Alive == life \in {"up", "draining", "stopped"}

-----------------------------------------------------------------------------
(* Requests. While the service is up; what fails at once is no step. *)

Request(p, n) ==
  /\ pc[p] = "idle" /\ p \in Clients
  /\ life = "up" /\ requests < MaxRequests
  /\ requests' = requests + 1
  /\ name' = [name EXCEPT ![p] = n]

\* handleScriptUpload
UploadRequest(p, n) ==
  /\ Request(p, n)
  /\ n \notin files
  /\ files' = files \cup {n}
  /\ UNCHANGED <<clock, runs, store, token, tick, pc, entry, snap, fired, crashes>>

\* handleScriptRun: RunArgs as far as the mutex.
RunRequest(p, n) ==
  /\ Request(p, n)
  /\ n \in files
  /\ Goto(p, "begin")
  /\ UNCHANGED <<clock, files, runs, store, token, tick, entry, snap, fired, crashes>>

Cancelled(n) == [runs EXCEPT ![n] = IF @ = "running" THEN "cancelled" ELSE @]

\* handleScriptStop: StopRun
StopRequest(p, n) ==
  /\ Request(p, n)
  /\ Busy(n)
  /\ runs' = Cancelled(n)
  /\ UNCHANGED <<clock, files, store, token, tick, pc, entry, snap, fired, crashes>>

\* handleScriptDelete: Delete stops the run first.
DeleteRequest(p, n) ==
  /\ Request(p, n)
  /\ runs' = Cancelled(n)
  /\ Goto(p, "remove")
  /\ UNCHANGED <<clock, files, store, token, tick, entry, snap, fired, crashes>>

\* handleScriptSchedule: SetSchedule as far as the mutex; the cron expression must fire.
ScheduleRequest(p, n) ==
  /\ Request(p, n)
  /\ n \in files
  /\ \E c \in Crons : \E x \in c :
       IsNext(c, now, x) /\ entry' = [entry EXCEPT ![p] = [cron |-> c, next |-> x]]
  /\ Goto(p, "set")
  /\ UNCHANGED <<clock, files, runs, store, token, tick, snap, fired, crashes>>

\* handleScriptUnschedule: ClearSchedule
UnscheduleRequest(p, n) ==
  /\ Request(p, n)
  /\ Goto(p, "unset")
  /\ UNCHANGED <<clock, files, runs, store, token, tick, entry, snap, fired, crashes>>

-----------------------------------------------------------------------------
(* RunArgs *)

\* An error: the request ends, the loop goes on to its next name.
\* (Mutant: the loop gives up the names it has left.)
Left(p)    == IF p = Loop THEN {} ELSE due
Without(p) == IF p = Loop THEN due \ {name[p]} ELSE due

\* (Mutant: an error ends the loop like a request.)
GiveUpAlike(p) == due' = Without(p) /\ Goto(p, "idle")

GiveUp(p) ==
  /\ due' = Without(p)
  /\ Goto(p, IF p = Loop THEN "next" ELSE "idle")

\* Under the mutex: one run of a script at a time.
Refused(p) ==
  /\ Busy(name[p])
  /\ GiveUp(p)
  /\ UNCHANGED <<runs, fired>>

Started(p) ==
  /\ ~Busy(name[p])
  /\ runs' = [runs EXCEPT ![name[p]] = "running"]
  /\ fired' = IF p = Loop THEN [fired EXCEPT ![name[p]] = tickAt] ELSE fired
  /\ Goto(p, IF p = Loop THEN "resched" ELSE "idle")
  /\ UNCHANGED due

\* Registered; but the log cannot be created.
Faulty(p) ==
  /\ ~Busy(name[p]) /\ Faults
  /\ runs' = [runs EXCEPT ![name[p]] = "running"]
  /\ Goto(p, "fail")
  /\ UNCHANGED <<due, fired>>

Begin(p) ==
  /\ pc[p] = "begin"
  /\ Refused(p) \/ Started(p) \/ Faulty(p)
  /\ UNCHANGED <<clock, files, store, token, wakeAt, tickAt, changed, local, requests, crashes>>

\* MkdirAll or os.Create has failed: finish.
Fail(p) ==
  /\ pc[p] = "fail"
  /\ runs' = [runs EXCEPT ![name[p]] = "finished"]
  /\ GiveUp(p)
  /\ UNCHANGED <<clock, files, store, token, wakeAt, tickAt, changed, local, fired, requests, crashes>>

\* The process has ended, by itself or killed, and its goroutine calls finish.
End(n) ==
  /\ Alive /\ Busy(n)
  /\ ~\E p \in Threads : pc[p] = "fail" /\ name[p] = n
  /\ runs' = [runs EXCEPT ![n] = "finished"]
  /\ UNCHANGED <<clock, files, store, token, tick, pc, local, fired, requests, crashes>>

-----------------------------------------------------------------------------
(* SetSchedule, ClearSchedule, Delete: the change, wake, saveSchedules *)

\* Delete, the script's file
Remove(p) ==
  /\ pc[p] = "remove"
  /\ files' = files \ {name[p]}
  /\ Goto(p, "unset")
  /\ UNCHANGED <<clock, runs, store, token, tick, local, fired, requests, crashes>>

Set(p) ==
  /\ pc[p] = "set"
  /\ schedules' = [schedules EXCEPT ![name[p]] = entry[p]]
  /\ fired' = [fired EXCEPT ![name[p]] = 0]
  /\ Goto(p, "wake")
  /\ entry' = [entry EXCEPT ![p] = NoEntry]
  /\ UNCHANGED <<clock, files, runs, disk, torn, token, tick, name, snap, requests, crashes>>

Unset(p) ==
  /\ pc[p] = "unset"
  /\ schedules' = [schedules EXCEPT ![name[p]] = NoEntry]
  /\ fired' = [fired EXCEPT ![name[p]] = 0]
  /\ Goto(p, "wake")
  /\ UNCHANGED <<clock, files, runs, disk, torn, token, tick, local, requests, crashes>>

\* wake: the channel holds one token, so none is lost while the loop is at work.
\* (Mutant: a channel without a buffer.)
Heard == pc[Loop] = "sleep"
Kept  == TRUE

Wake(p) ==
  /\ pc[p] = "wake"
  /\ token' = Kept
  /\ Goto(p, "snap")
  /\ UNCHANGED <<clock, files, runs, store, tick, local, fired, requests, crashes>>

\* saveSchedules: the copy, under the mutex
Snap(p) ==
  /\ pc[p] = "snap"
  /\ snap' = [snap EXCEPT ![p] = schedules]
  /\ Goto(p, "open")
  /\ UNCHANGED <<clock, files, runs, store, token, tick, name, entry, fired, requests, crashes>>

\* The end of a request, or of a tick. What a thread needs no more is forgotten here and below.
Saved(p) == Goto(p, IF p = Loop THEN "delay" ELSE "idle") /\ snap' = [snap EXCEPT ![p] = Empty]

\* os.WriteFile opens and truncates the file, or fails;
Open(p) ==
  /\ pc[p] = "open"
  /\ \/ disk' = Empty /\ torn' = TRUE /\ Goto(p, "write") /\ UNCHANGED snap
     \/ Faults /\ Saved(p) /\ UNCHANGED <<disk, torn>>
  /\ UNCHANGED <<clock, files, runs, schedules, token, tick, name, entry, fired, requests, crashes>>

\* then it writes. Over the text another thread has written meanwhile, a shorter text
\* leaves the end of the longer.
Write(p) ==
  /\ pc[p] = "write"
  /\ disk' = snap[p]
  /\ torn' \in {FALSE} \cup IF ~torn /\ disk # snap[p] THEN {TRUE} ELSE {}
  /\ Saved(p)
  /\ UNCHANGED <<clock, files, runs, schedules, token, tick, name, entry, fired, requests, crashes>>

-----------------------------------------------------------------------------
(* schedulerLoop *)

\* schedulerTick: what is due, under the mutex.
Tick ==
  /\ pc[Loop] = "tick"
  /\ tickAt' = now
  /\ due' = {n \in Scripts : schedules[n].next > 0 /\ schedules[n].next <= now /\ ~Busy(n)}
  /\ changed' = FALSE
  /\ Goto(Loop, "next")
  /\ UNCHANGED <<clock, files, runs, store, token, wakeAt, local, fired, requests, crashes>>

\* Run(n): the script is looked for.
Take(n) ==
  /\ pc[Loop] = "next"
  /\ n \in due
  /\ name' = [name EXCEPT ![Loop] = n]
  /\ \/ n \in files /\ Goto(Loop, "begin") /\ UNCHANGED due
     \/ n \notin files /\ Goto(Loop, "next") /\ due' = due \ {n}
  /\ UNCHANGED <<clock, files, runs, store, token, wakeAt, tickAt, changed, entry, snap,
                fired, requests, crashes>>

\* The entry as it is now; none if it has been cleared. (Mutant: as it was when it fell due.)
Remembered(n) == {[cron |-> c, next |-> tickAt] : c \in Crons}
Current(n)    == {schedules[n]} \ {NoEntry}

\* After the run has begun: its next instant, by the tick's clock, if there is one.
Resched ==
  /\ pc[Loop] = "resched"
  /\ LET n == name[Loop] IN
     /\ \/ \E e \in Current(n) : \E x \in e.cron :
             /\ IsNext(e.cron, tickAt, x)
             /\ schedules' = [schedules EXCEPT ![n] = [cron |-> e.cron, next |-> x]]
             /\ changed' = TRUE
        \/ /\ \A e \in Current(n) : Instants(e.cron, tickAt) = {}
           /\ UNCHANGED <<schedules, changed>>
     /\ due' = due \ {n}
  /\ Goto(Loop, "next")
  /\ UNCHANGED <<clock, files, runs, disk, torn, token, wakeAt, tickAt, local, fired, requests, crashes>>

\* The end of the tick: saved if anything has changed.
TickDone ==
  /\ pc[Loop] = "next" /\ due = {}
  /\ Goto(Loop, IF changed THEN "snap" ELSE "delay")
  /\ UNCHANGED <<clock, files, runs, store, token, tick, local, fired, requests, crashes>>

Nexts == {schedules[n].next : n \in Scripts} \ {0}

\* nextWakeDelay: until the earliest instant, at once if it is past, MaxDelay at most.
WakesAt(t) ==
  \/ Nexts = {} /\ t = now + MaxDelay
  \/ \E e \in Nexts :
       /\ \A f \in Nexts : e <= f
       /\ t = IF e < now THEN now ELSE IF e > now + MaxDelay THEN now + MaxDelay ELSE e

Delay ==
  /\ pc[Loop] = "delay"
  /\ \E t \in now .. now + MaxDelay : WakesAt(t) /\ wakeAt' = t
  /\ Goto(Loop, "armed")
  /\ UNCHANGED <<clock, files, runs, store, token, tickAt, due, changed, local, fired, requests, crashes>>

\* The timer is set, and the loop waits.
Sleep ==
  /\ pc[Loop] = "armed"
  /\ Goto(Loop, "sleep")
  /\ UNCHANGED <<clock, files, runs, store, token, tick, local, fired, requests, crashes>>

\* select: the token,
Woken ==
  /\ pc[Loop] = "sleep" /\ token
  /\ token' = FALSE
  /\ wakeAt' = 0
  /\ Goto(Loop, "tick")
  /\ UNCHANGED <<clock, files, runs, store, tickAt, due, changed, local, fired, requests, crashes>>

\* the timer,
TimerFires ==
  /\ pc[Loop] = "sleep" /\ now >= wakeAt
  /\ wakeAt' = 0
  /\ Goto(Loop, "tick")
  /\ UNCHANGED <<clock, files, runs, store, token, tickAt, due, changed, local, fired, requests, crashes>>

\* or the end.
LoopEnds ==
  /\ pc[Loop] = "sleep" /\ life = "draining"
  /\ Goto(Loop, "off")
  /\ UNCHANGED <<clock, files, runs, store, token, tick, local, fired, requests, crashes>>

-----------------------------------------------------------------------------
(* The service *)

\* server.Shutdown has waited for the requests; Stop cancels the loop's context.
Shutdown ==
  /\ life = "up" /\ \A p \in Clients : pc[p] = "idle"
  /\ life' = "draining"
  /\ UNCHANGED <<now, files, runs, store, token, tick, pc, local, fired, requests, crashes>>

\* Stop waits for the loop. (Mutant: it does not.)
Unwaited == TRUE
LoopGone == pc[Loop] = "off"

\* Stop: StopRun of every script.
StopRuns ==
  /\ life = "draining" /\ LoopGone
  /\ runs' = [n \in Scripts |-> IF runs[n] = "running" THEN "cancelled" ELSE runs[n]]
  /\ life' = "stopped"
  /\ UNCHANGED <<now, files, store, token, tick, pc, local, fired, requests, crashes>>

\* Stop has returned and main ends: no goroutine outlives it.
Exit ==
  /\ life = "stopped"
  /\ life' = "down"
  /\ UNCHANGED <<now, files, runs, store, token, tick, pc, local, fired, requests, crashes>>

Crash ==
  /\ Alive /\ crashes < MaxCrashes
  /\ crashes' = crashes + 1
  /\ life' = "crashed"
  /\ pc' = [p \in Threads |-> IF p = Loop THEN "off" ELSE "idle"]
  /\ entry' = [p \in Threads |-> NoEntry]
  /\ snap' = [p \in Threads |-> Empty]
  /\ UNCHANGED <<now, files, runs, store, token, tick, name, fired, requests>>

\* loadSchedules: a file that does not parse is passed over.
Loaded == IF torn THEN Empty ELSE disk

\* New and Start
StartUp ==
  /\ life \in {"down", "crashed"}
  /\ life' = "up"
  /\ runs' = [n \in Scripts |-> "none"]
  /\ schedules' = Loaded
  /\ token' = FALSE /\ wakeAt' = 0 /\ tickAt' = 0 /\ due' = {} /\ changed' = FALSE
  /\ pc' = [pc EXCEPT ![Loop] = "tick"]
  /\ fired' = [n \in Scripts |-> 0]
  /\ UNCHANGED <<now, files, disk, torn, local, requests, crashes>>

\* Time passes. Bound: MaxTime.
Clock ==
  /\ now < MaxTime
  /\ now' = now + 1
  /\ UNCHANGED <<life, files, runs, store, token, tick, pc, local, fired, requests, crashes>>

-----------------------------------------------------------------------------

ThreadStep(p) == Begin(p) \/ Fail(p) \/ Remove(p) \/ Set(p) \/ Unset(p)
                 \/ Wake(p) \/ Snap(p) \/ Open(p) \/ Write(p)

TakeOne  == \E n \in Scripts : Take(n)
LoopStep == Tick \/ TakeOne \/ Resched \/ TickDone \/ Delay \/ Sleep \/ Woken \/ TimerFires

ServiceStep == LoopEnds \/ Shutdown \/ StopRuns \/ Exit \/ Crash \/ StartUp

Requested(p, n) ==
  \/ UploadRequest(p, n) \/ RunRequest(p, n) \/ StopRequest(p, n)
  \/ DeleteRequest(p, n) \/ ScheduleRequest(p, n) \/ UnscheduleRequest(p, n)

Next ==
  \/ Clock \/ LoopStep \/ ServiceStep
  \/ \E p \in Threads : ThreadStep(p)
  \/ \E p \in Clients, n \in Scripts : Requested(p, n)
  \/ \E n \in Scripts : End(n)

Spec == Init /\ [][Next]_vars

\* Goroutines and the mutex are scheduled fairly, and a script ends.
FairSpec ==
  /\ Spec
  /\ WF_vars(LoopStep \/ ThreadStep(Loop))
  /\ \A p \in Clients : WF_vars(ThreadStep(p))
  /\ \A n \in Scripts : WF_vars(End(n))

-----------------------------------------------------------------------------
(* Properties *)

CommonPlaces  == {"begin", "fail", "snap", "open", "write"}
LoopPlaces    == CommonPlaces \cup {"tick", "next", "resched", "delay", "armed", "sleep", "off"}
RequestPlaces == CommonPlaces \cup {"idle", "remove", "set", "unset", "wake"}

\* Every variable keeps its type, and no thread strays into the code of the other kind.
TypeOK ==
  /\ now \in Nat /\ life \in {"up", "draining", "stopped", "down", "crashed"}
  /\ files \subseteq Scripts
  /\ runs \in [Scripts -> {"none", "running", "cancelled", "finished"}]
  /\ schedules \in [Scripts -> Entry] /\ disk \in [Scripts -> Entry]
  /\ torn \in BOOLEAN /\ token \in BOOLEAN /\ changed \in BOOLEAN
  /\ wakeAt \in Nat /\ tickAt \in Nat /\ due \subseteq Scripts
  /\ pc \in [Threads -> LoopPlaces \cup RequestPlaces]
  /\ pc[Loop] \in LoopPlaces /\ \A p \in Clients : pc[p] \in RequestPlaces
  /\ name \in [Threads -> Scripts] /\ entry \in [Threads -> Entry]
  /\ snap \in [Threads -> [Scripts -> Entry]]
  /\ fired \in [Scripts -> Nat] /\ requests \in Nat /\ crashes \in Nat

\* No wake-up is missed: while the loop sleeps its timer fires no later than the earliest
\* instant of any schedule, or it is past already, or a token waits for the loop, or the
\* request that changed the schedules is about to leave one - wherever SetSchedule fell
\* between the tick, the computation of the delay and the select.
NoOversleep ==
  pc[Loop] = "sleep" =>
    \A n \in Scripts : schedules[n].next > 0 =>
      \/ wakeAt <= schedules[n].next \/ wakeAt <= now
      \/ token \/ \E p \in Clients : pc[p] = "wake"

\* An instant of a schedule starts its script once: when the loop is about to start a script, the
\* instant it has come for lies after the tick of the run it started before under that entry.
\* (A run started before a crash, and not saved as such, may be started again after it.)
OncePerInstant ==
  pc[Loop] = "begin" => LET e == schedules[name[Loop]] IN
    e # NoEntry => e.next > fired[name[Loop]]

\* A schedule that was cleared, or whose script was deleted, comes back through SetSchedule or a
\* restart only: the tick, which starts its script first and computes its next instant
\* afterwards, never brings it back.
ClearedStaysCleared ==
  [][\A n \in Scripts : schedules[n] = NoEntry /\ schedules'[n] # NoEntry =>
        life # "up" \/ \E p \in Clients : pc[p] = "set" /\ name[p] = n]_vars

\* When Stop has returned no run goes on uncancelled, one the scheduler started while Stop was
\* called included.
StopReachesAll ==
  life = "stopped" => \A n \in Scripts : runs[n] # "running"

Due(n) == /\ life = "up" /\ n \in files
          /\ schedules[n].next > 0 /\ schedules[n].next <= now

\* A schedule that is due gets its script started, whatever becomes of the other scripts that are
\* due, unless the run cannot be set up, the schedule or the script is taken away, or the service ends.
DueIsStarted ==
  \A n \in Scripts : Due(n) ~> (~Due(n) \/ Busy(n))

\* "schedules are persisted in schedules.json" (API doc 8.6, README): when nobody is changing or
\* saving them, the file holds what is in memory.
Persisted ==
  life = "up" /\ pc[Loop] = "sleep" /\ (\A p \in Clients : pc[p] = "idle") =>
    ~torn /\ disk = schedules

=============================================================================
