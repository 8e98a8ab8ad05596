------------------------------ MODULE LogStream ------------------------------
(***************************************************************************)
(* The live log of one script: RunArgs, broadcastWriter, logStream, finish *)
(* and Subscribe (internal/scriptrunner/runner.go) and the WebSocket       *)
(* handler that follows a run (internal/httpapi/scripts_ws.go).            *)
(*                                                                         *)
(* A run copies the output of its process chunk by chunk, first into the   *)
(* log file, then into the channel of everyone who has subscribed; it      *)
(* waits for nobody, so a full channel loses the chunk. A watcher joins at *)
(* any time: it subscribes, reads the file, and goes on with the channel   *)
(* until the run is done. The script may be started again, or deleted,     *)
(* while watchers of its last run are still there.                         *)
(***************************************************************************)
EXTENDS Naturals, Sequences, Functions

CONSTANTS Watchers,  \* WebSocket connections, each one used once
          MaxRuns,   \* bound: runs of the script
          MaxChunks, \* bound: chunks of output of a run
          Cap,       \* capacity of a subscriber's channel (256 in the code)
          Window     \* length of the tail Logs returns (maxScriptLogTail)

ASSUME StreamAssumption ==
  MaxRuns \in Nat /\ MaxChunks \in Nat /\ Cap \in Nat \ {0} /\ Window \in Nat \ {0}

Runs   == 1 .. MaxRuns
Chunks == [run : Runs, nr : 1 .. MaxChunks]

VARIABLES
  run,       \* number of the run runs[name] holds, 0 before the first
  phase,     \* "none", "created", "open", "exited" or "finished"
  closed,    \* runs whose channel done is closed
  log,       \* what is in the log file under its name
  linked,    \* the file the run writes to still has that name
  present,   \* the script itself is there
  removing,  \* Delete has removed the script, and not yet its log
  pending,   \* the last chunk written is not yet published
  written,   \* run -> number of chunks written
  subs,      \* run -> watchers subscribed to its stream
  pc, of,    \* a watcher's position, and the run it follows, or 0
  chan,      \* its channel
  init, got, \* what it sent its client: the init frame, the log frames
  status,    \* the last status frame: which run, and whether it was running
  lost, cut  \* history: the channel was full; the file was no longer its run's

files   == <<log, linked, present, removing>>
runner  == <<run, phase, closed, files, pending, written>>
frames  == <<init, got, status>>
vars    == <<runner, subs, pc, of, chan, frames, lost, cut>>

Running   == phase \in {"created", "open", "exited"}
Published(r) == written[r] - IF r = run /\ pending THEN 1 ELSE 0

Init ==
  /\ run = 0 /\ phase = "none" /\ closed = {}
  /\ log = <<>> /\ linked = FALSE /\ present = TRUE /\ removing = FALSE
  /\ pending = FALSE /\ written = [r \in Runs |-> 0]
  /\ subs = [r \in Runs |-> {}]
  /\ pc = [w \in Watchers |-> "idle"]
  /\ of = [w \in Watchers |-> 0]
  /\ chan = [w \in Watchers |-> <<>>]
  /\ init = [w \in Watchers |-> <<>>]
  /\ got = [w \in Watchers |-> <<>>]
  /\ status = [w \in Watchers |-> [run |-> 0, running |-> FALSE]]
  /\ lost = [w \in Watchers |-> FALSE]
  /\ cut = [w \in Watchers |-> FALSE]

Goto(w, l) == pc' = [pc EXCEPT ![w] = l]

-----------------------------------------------------------------------------
(* The run *)

\* The stream of a new run: nobody has subscribed. (Mutant: the last run's goes on.)
SameStream == IF run = 0 THEN {} ELSE subs[run]
NewStream  == {}

\* RunArgs, under the mutex: only when no run is in progress. It has looked for the script
\* before that, which may be gone by now.
Start ==
  /\ ~Running
  /\ run < MaxRuns
  /\ run' = run + 1
  /\ phase' = "created"
  /\ subs' = [subs EXCEPT ![run + 1] = NewStream]
  /\ UNCHANGED <<closed, files, pending, written, pc, of, chan, frames, lost, cut>>

\* os.Create truncates the log of the run before. It, or MkdirAll, may fail: finish.
Create ==
  /\ phase = "created"
  /\ \/ phase' = "open" /\ log' = <<>> /\ linked' = TRUE
     \/ phase' = "finished" /\ UNCHANGED <<log, linked>>
  /\ UNCHANGED <<run, closed, present, removing, pending, written, subs, pc, of, chan, frames, lost, cut>>

\* broadcastWriter.Write: first the file. One goroutine copies both outputs.
Write ==
  /\ phase = "open" /\ ~pending
  /\ written[run] < MaxChunks
  /\ written' = [written EXCEPT ![run] = @ + 1]
  /\ log' = IF linked THEN Append(log, [run |-> run, nr |-> written[run] + 1]) ELSE log
  /\ pending' = TRUE
  /\ UNCHANGED <<run, phase, closed, linked, present, removing, subs, pc, of, chan, frames, lost, cut>>

\* The channel is full. (Mutant: it grows as needed.)
NeverFull(w) == FALSE
Full(w)      == Len(chan[w]) >= Cap

\* publish does not wait. (Mutant: it does.)
Patient == \A w \in subs[run] : ~Full(w)
Hasty   == TRUE

\* logStream.publish
Publish ==
  /\ pending
  /\ Hasty
  /\ chan' = [w \in Watchers |->
               IF w \in subs[run] /\ ~Full(w)
               THEN Append(chan[w], [run |-> run, nr |-> written[run]]) ELSE chan[w]]
  /\ lost' = [w \in Watchers |-> lost[w] \/ (w \in subs[run] /\ Full(w))]
  /\ pending' = FALSE
  /\ UNCHANGED <<run, phase, closed, files, written, subs, pc, of, frames, cut>>

\* command.Run returns when the process has ended, by itself or stopped, and its output has
\* been copied.
Exit ==
  /\ phase = "open" /\ ~pending
  /\ phase' = "exited"
  /\ UNCHANGED <<run, closed, files, pending, written, subs, pc, of, chan, frames, lost, cut>>

\* finish, the part under the mutex.
Finish ==
  /\ phase = "exited"
  /\ phase' = "finished"
  /\ UNCHANGED <<run, closed, files, pending, written, subs, pc, of, chan, frames, lost, cut>>

\* A run is over. (Mutants: only if it was ever open; as soon as its process has ended.)
OverIfOpened(r) == written[r] > 0 /\ (r < run \/ phase = "finished")
OverEarly(r)    == r < run \/ phase \in {"exited", "finished"}
Over(r)         == r < run \/ phase = "finished"

\* finish, close(state.done).
CloseDone ==
  /\ \E r \in (1 .. run) \ closed : Over(r) /\ closed' = closed \cup {r}
  /\ UNCHANGED <<run, phase, files, pending, written, subs, pc, of, chan, frames, lost, cut>>

\* Delete: the run is stopped - it may end any time, and write until then - and the script
\* removed; then the log.
Delete ==
  /\ present /\ ~removing
  /\ present' = FALSE /\ removing' = TRUE
  /\ UNCHANGED <<run, phase, closed, log, linked, pending, written, subs, pc, of, chan, frames, lost, cut>>

DeleteLog ==
  /\ removing
  /\ log' = <<>> /\ linked' = FALSE /\ removing' = FALSE
  /\ UNCHANGED <<run, phase, closed, present, pending, written, subs, pc, of, chan, frames, lost, cut>>

\* handleScriptUpload
Upload ==
  /\ ~present
  /\ present' = TRUE
  /\ UNCHANGED <<run, phase, closed, log, linked, removing, pending, written,
                subs, pc, of, chan, frames, lost, cut>>

-----------------------------------------------------------------------------
(* A watcher: Subscribe, then handleScriptLogsWS *)

\* logStream.subscribe. (Mutant: the channel is made and not registered.)
Unregistered(w) == subs
Registered(w)   == [subs EXCEPT ![run] = @ \cup {w}]

\* Subscribe, under the mutex.
Subscribe(w) ==
  /\ pc[w] = "idle"
  /\ \/ Running /\ of' = [of EXCEPT ![w] = run] /\ subs' = Registered(w)
     \/ ~Running /\ UNCHANGED <<of, subs>>
  /\ Goto(w, "read")
  /\ UNCHANGED <<runner, chan, frames, lost, cut>>

\* Logs
Last(s) == SubSeq(s, IF Len(s) > Window THEN Len(s) - Window + 1 ELSE 1, Len(s))

\* The output of the run it follows was written, and is no longer in the file.
Gone(w) == of[w] # 0 /\ (run # of[w] \/ (phase # "created" /\ ~linked))

\* Subscribe, the file read after the mutex is given up.
Read(w) ==
  /\ pc[w] = "read"
  /\ init' = [init EXCEPT ![w] = Last(log)]
  /\ cut' = [cut EXCEPT ![w] = Gone(w)]
  /\ Goto(w, "greet")
  /\ UNCHANGED <<runner, subs, of, chan, got, status, lost>>

\* Status: the run that is current now; of a script that is gone it knows nothing.
Status == IF present THEN [run |-> run, running |-> Running] ELSE [run |-> 0, running |-> FALSE]

\* The init frame and the first status frame; nothing more follows without a run.
Greet(w) ==
  /\ pc[w] = "greet"
  /\ status' = [status EXCEPT ![w] = Status]
  /\ Goto(w, IF of[w] = 0 THEN "ended" ELSE "loop")
  /\ UNCHANGED <<runner, subs, of, chan, init, got, lost, cut>>

\* select: a chunk
Forward(w) ==
  /\ pc[w] = "loop"
  /\ chan[w] # <<>>
  /\ got' = [got EXCEPT ![w] = Append(@, Head(chan[w]))]
  /\ chan' = [chan EXCEPT ![w] = Tail(@)]
  /\ UNCHANGED <<runner, subs, pc, of, init, status, lost, cut>>

\* select: done. Either branch may be taken when both are ready.
SeeDone(w) ==
  /\ pc[w] = "loop"
  /\ of[w] \in closed
  /\ Goto(w, "final")
  /\ UNCHANGED <<runner, subs, of, chan, frames, lost, cut>>

Unsubscribed(w) == [r \in Runs |-> subs[r] \ {w}]

\* The final status frame; the deferred unsubscribe.
Final(w) ==
  /\ pc[w] = "final"
  /\ status' = [status EXCEPT ![w] = Status]
  /\ subs' = Unsubscribed(w)
  /\ Goto(w, "ended")
  /\ UNCHANGED <<runner, of, chan, init, got, lost, cut>>

\* The client goes away, or reading the file fails.
Disconnect(w) ==
  /\ pc[w] \in {"read", "greet", "loop", "final"}
  /\ subs' = Unsubscribed(w)
  /\ Goto(w, "left")
  /\ UNCHANGED <<runner, of, chan, frames, lost, cut>>

-----------------------------------------------------------------------------

RunStep   == Create \/ Publish \/ Exit \/ Finish \/ CloseDone
WatchStep(w) == Read(w) \/ Greet(w) \/ Forward(w) \/ SeeDone(w) \/ Final(w)

Next ==
  \/ Start \/ Write \/ Delete \/ DeleteLog \/ Upload \/ RunStep
  \/ \E w \in Watchers : Subscribe(w) \/ WatchStep(w) \/ Disconnect(w)

Spec == Init /\ [][Next]_vars

\* The runner's own goroutines run on, and its script ends; nothing is said of watchers.
RunnerFair == WF_vars(Create) /\ WF_vars(Publish) /\ WF_vars(Exit) /\ WF_vars(Finish) /\ WF_vars(CloseDone)

RunnerSpec == Spec /\ RunnerFair

\* A handler goes on as well: a frame is sent, or given up after five seconds.
WatchersFair == \A w \in Watchers : WF_vars(WatchStep(w))

-----------------------------------------------------------------------------
(* Properties *)

\* Every variable keeps its type; a channel never holds more than its capacity.
TypeOK ==
  /\ run \in 0 .. MaxRuns /\ phase \in {"none", "created", "open", "exited", "finished"}
  /\ closed \subseteq Runs /\ log \in Seq(Chunks) /\ {linked, present, removing, pending} \subseteq BOOLEAN
  /\ written \in [Runs -> 0 .. MaxChunks] /\ subs \in [Runs -> SUBSET Watchers]
  /\ pc \in [Watchers -> {"idle", "read", "greet", "loop", "final", "ended", "left"}]
  /\ of \in [Watchers -> 0 .. MaxRuns]
  /\ chan \in [Watchers -> Seq(Chunks)] /\ \A w \in Watchers : Len(chan[w]) <= Cap
  /\ init \in [Watchers -> Seq(Chunks)] /\ got \in [Watchers -> Seq(Chunks)]
  /\ status \in [Watchers -> [run : 0 .. MaxRuns, running : BOOLEAN]]
  /\ lost \in [Watchers -> BOOLEAN] /\ cut \in [Watchers -> BOOLEAN]

Following(w) == of[w] # 0 /\ pc[w] \in {"greet", "loop", "final", "ended"}

\* What a watcher has shown its client, or still has in its channel.
Seen(w) == Range(init[w]) \cup Range(got[w]) \cup Range(chan[w])

\* Subscribing first and reading the file second leaves no gap: every chunk the run has
\* published is in the init frame, a log frame or the channel, wherever the watcher joined -
\* unless the channel overflowed, the chunk lies before the tail, or by the time the file was
\* read it had been deleted or truncated by the next run.
NoGap ==
  \A w \in Watchers : Following(w) /\ ~lost[w] /\ ~cut[w] =>
    \A n \in 1 .. Published(of[w]) :
      \/ [run |-> of[w], nr |-> n] \in Seen(w)
      \/ Len(init[w]) = Window /\ init[w][1].run = of[w] /\ n < init[w][1].nr

\* The log frames of a watcher, and what waits in its channel, are chunks of the run it
\* follows in the order they were written, overflow or not, though the script may run again.
InOrder ==
  \A w \in Watchers :
    LET f == got[w] \o chan[w] IN
    \A i \in 1 .. Len(f) :
      /\ f[i].run = of[w]
      /\ i > 1 => f[i - 1].nr < f[i].nr

\* When done is seen the run has written its last chunk and published it, and the final status
\* does not call that run running: what runs by then is a later one.
FinalIsAfterFinish ==
  \A w \in Watchers : pc[w] \in {"final", "ended"} /\ of[w] # 0 =>
    /\ ~(run = of[w] /\ pending)
    /\ pc[w] = "ended" => ~status[w].running \/ status[w].run > of[w]

\* A watcher that does not read its channel holds nobody up: every run ends.
RunNotHeldUp ==
  \A r \in Runs : (run = r /\ Running) ~> (run > r \/ phase = "finished")

\* A watcher of a run whose handler goes on is told that the run has ended, and let go.
WatcherEnds ==
  WatchersFair => \A w \in Watchers : pc[w] = "loop" ~> pc[w] \in {"ended", "left"}

=============================================================================
