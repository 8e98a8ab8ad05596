-------------------------- MODULE LogStreamProofs --------------------------
(* Theorems about LogStream, for every value of its constants. *)
EXTENDS LogStream, SequenceTheorems, TLAPS

-----------------------------------------------------------------------------
(* Types, and the life of a run *)

\* What a run's phase says of its output, and of the runs before and after it.
RunInv ==
  /\ phase = "none" <=> run = 0
  /\ pending => phase = "open" /\ written[run] > 0
  /\ phase = "created" => written[run] = 0
  /\ \A r \in Runs : r > run => written[r] = 0
  /\ \A r \in closed : r <= run /\ Over(r)

TypeInv == TypeOK /\ RunInv

\* Chunk n of run r.
Chunk(r, n) == [run |-> r, nr |-> n]

\* What is about to be published is a chunk of the run in progress, which is still open.
LEMMA PendingChunk ==
  ASSUME TypeInv, pending
  PROVE  /\ run \in Runs /\ phase = "open" /\ written[run] \in 1 .. MaxChunks
         /\ Chunk(run, written[run]) \in Chunks
<1>1. phase = "open" /\ written[run] > 0 /\ run # 0
  BY DEF TypeInv, RunInv
<1>2. run \in 0 .. MaxRuns /\ written \in [Runs -> 0 .. MaxChunks]
  BY DEF TypeInv, TypeOK
<1>3. run \in Runs
  BY <1>1, <1>2, StreamAssumption DEF Runs
<1>4. written[run] \in 1 .. MaxChunks
  BY <1>1, <1>2, <1>3, StreamAssumption
<1> QED BY <1>1, <1>3, <1>4 DEF Chunk, Chunks

\* Nothing has been written and nobody watches.
LEMMA InitTypes == Init => TypeInv
<1> SUFFICES ASSUME Init PROVE TypeInv
  OBVIOUS
<1>1. <<>> \in Seq(Chunks) /\ Len(<<>>) = 0 /\ 0 \in 0 .. MaxRuns /\ 0 \in 0 .. MaxChunks
  BY EmptySeq, StreamAssumption
<1>2. TypeOK
  <2>1. /\ chan \in [Watchers -> Seq(Chunks)] /\ \A w \in Watchers : Len(chan[w]) <= Cap
        /\ init \in [Watchers -> Seq(Chunks)] /\ got \in [Watchers -> Seq(Chunks)]
        /\ log \in Seq(Chunks)
    BY <1>1, StreamAssumption DEF Init
  <2>2. /\ status \in [Watchers -> [run : 0 .. MaxRuns, running : BOOLEAN]]
        /\ of \in [Watchers -> 0 .. MaxRuns] /\ run \in 0 .. MaxRuns
        /\ written \in [Runs -> 0 .. MaxChunks] /\ subs \in [Runs -> SUBSET Watchers]
    BY <1>1 DEF Init
  <2>3. /\ phase = "none" /\ closed = {} /\ {linked, present, removing, pending} \subseteq BOOLEAN
        /\ lost \in [Watchers -> BOOLEAN] /\ cut \in [Watchers -> BOOLEAN]
        /\ pc \in [Watchers -> {"idle"}]
    BY DEF Init
  <2> QED BY <2>1, <2>2, <2>3 DEF TypeOK
<1>3. RunInv
  BY StreamAssumption DEF Init, RunInv, Runs
<1> QED BY <1>2, <1>3 DEF TypeInv

\* The tail of a log is a log, no longer than the window.
LEMMA LastTypes ==
  ASSUME NEW s \in Seq(Chunks)
  PROVE  /\ Last(s) \in Seq(Chunks)
         /\ Len(s) <= Window => Last(s) = s
         /\ Len(s) > Window => /\ Len(Last(s)) = Window
                               /\ \A i \in 1 .. Window : Last(s)[i] = s[i + Len(s) - Window]
<1>0. Len(s) \in Nat /\ Window \in Nat /\ Window > 0
  BY LenProperties, StreamAssumption
<1>1. CASE Len(s) > Window
  <2>1. Last(s) = SubSeq(s, Len(s) - Window + 1, Len(s))
    BY <1>1 DEF Last
  <2> DEFINE m == Len(s) - Window + 1
  <2>2. m \in Int /\ Len(s) \in Int /\ m <= Len(s) /\ \A i \in m .. Len(s) : s[i] \in Chunks
    BY <1>0, <1>1, ElementOfSeq
  <2>3. /\ Last(s) \in Seq(Chunks) /\ Len(Last(s)) = Len(s) - m + 1
        /\ \A i \in 1 .. Len(s) - m + 1 : Last(s)[i] = s[m + i - 1]
    BY <2>1, <2>2, SubSeqProperties
  <2> QED BY <1>0, <1>1, <2>3
<1>2. CASE Len(s) <= Window
  <2>1. ~(Len(s) > Window)
    BY <1>0, <1>2
  <2>2. Last(s) = SubSeq(s, 1, Len(s))
    BY <2>1 DEF Last
  <2>3. Last(s) = s
    BY <2>2, SubSeqFull
  <2> QED BY <2>1, <2>3
<1> QED BY <1>0, <1>1, <1>2

\* The steps of a run keep the types.
LEMMA RunTypes ==
  ASSUME TypeInv, Start \/ Write \/ Delete \/ DeleteLog \/ Upload \/ RunStep
  PROVE  TypeInv'
<1> USE DEF files, runner, frames
<1>0. /\ MaxRuns \in Nat /\ MaxChunks \in Nat /\ Cap \in Nat \ {0}
      /\ run \in 0 .. MaxRuns
      /\ run # 0 => run \in Runs /\ written[run] \in 0 .. MaxChunks
      /\ phase # "none" => run # 0
      /\ <<>> \in Seq(Chunks)
  BY StreamAssumption, EmptySeq DEF TypeInv, TypeOK, RunInv, Runs
<1>1. CASE Start
  <2>1. run + 1 \in Runs
    BY <1>0, <1>1 DEF Start, Runs
  <2>2. TypeOK'
    BY <1>0, <1>1, <2>1 DEF Start, NewStream, TypeInv, TypeOK, Runs
  <2>3. RunInv'
    BY <1>0, <1>1, <2>1 DEF Start, Running, TypeInv, TypeOK, RunInv, Runs, Over
  <2> QED BY <2>2, <2>3 DEF TypeInv
<1>2. CASE Create
  <2>1. TypeOK'
    BY <1>0, <1>2 DEF Create, TypeInv, TypeOK
  <2>2. RunInv'
    BY <1>0, <1>2 DEF Create, TypeInv, TypeOK, RunInv, Over
  <2> QED BY <2>1, <2>2 DEF TypeInv
<1>3. CASE Write
  <2>1. /\ run \in Runs /\ written[run] < MaxChunks /\ phase = "open" /\ phase' = phase /\ run' = run
        /\ written' = [written EXCEPT ![run] = @ + 1] /\ pending' = TRUE /\ closed' = closed
    BY <1>0, <1>3 DEF Write
  <2>2. [run |-> run, nr |-> written[run] + 1] \in Chunks
    BY <1>0, <2>1 DEF Chunks
  <2>3. log' \in Seq(Chunks)
    BY <1>3, <2>2, AppendProperties DEF Write, TypeInv, TypeOK
  <2>4. written' \in [Runs -> 0 .. MaxChunks]
    BY <1>0, <2>1 DEF TypeInv, TypeOK
  <2>5. TypeOK'
    BY <1>3, <2>3, <2>4 DEF Write, TypeInv, TypeOK
  <2>6. RunInv'
    BY <1>0, <2>1 DEF TypeInv, TypeOK, RunInv, Over, Runs
  <2> QED BY <2>5, <2>6 DEF TypeInv
<1>4. CASE Publish
  <2> DEFINE c == Chunk(run, written[run])
  <2>1. c \in Chunks
    BY <1>4, PendingChunk DEF Publish
  <2>2. ASSUME NEW w \in Watchers, ~Full(w)
        PROVE  Append(chan[w], c) \in Seq(Chunks) /\ Len(Append(chan[w], c)) <= Cap
    <3>1. chan[w] \in Seq(Chunks) /\ Len(chan[w]) \in Nat /\ Len(chan[w]) < Cap
      BY <1>0, <2>2, LenProperties DEF Full, TypeInv, TypeOK
    <3> QED BY <1>0, <2>1, <3>1, AppendProperties
  <2> HIDE DEF c
  <2>3. chan' = [w \in Watchers |-> IF w \in subs[run] /\ ~Full(w) THEN Append(chan[w], c) ELSE chan[w]]
    BY <1>4 DEF Publish, Chunk, c
  <2>4. chan' \in [Watchers -> Seq(Chunks)] /\ \A w \in Watchers : Len(chan'[w]) <= Cap
    BY <2>2, <2>3 DEF TypeInv, TypeOK
  <2>5. lost' \in [Watchers -> BOOLEAN]
    BY <1>4 DEF Publish, TypeInv, TypeOK
  <2>6. TypeOK'
    BY <1>4, <2>4, <2>5 DEF Publish, TypeInv, TypeOK
  <2>7. RunInv'
    BY <1>4 DEF Publish, TypeInv, RunInv, Over
  <2> QED BY <2>6, <2>7 DEF TypeInv
<1>5. CASE Exit \/ Finish
  <2>1. TypeOK'
    BY <1>5 DEF Exit, Finish, TypeInv, TypeOK
  <2>2. RunInv'
    BY <1>0, <1>5 DEF Exit, Finish, TypeInv, TypeOK, RunInv, Over
  <2> QED BY <2>1, <2>2 DEF TypeInv
<1>6. CASE CloseDone
  <2>1. PICK r \in 1 .. run : Over(r) /\ closed' = closed \cup {r}
    BY <1>6 DEF CloseDone
  <2>2. closed' \subseteq Runs
    BY <1>0, <2>1 DEF TypeInv, TypeOK, Runs
  <2>3. TypeOK'
    BY <1>6, <2>2 DEF CloseDone, TypeInv, TypeOK
  <2>4. RunInv'
    BY <1>0, <1>6, <2>1 DEF CloseDone, TypeInv, RunInv, Over
  <2> QED BY <2>3, <2>4 DEF TypeInv
<1>7. CASE Delete \/ DeleteLog \/ Upload
  <2>1. TypeOK'
    BY <1>0, <1>7 DEF Delete, DeleteLog, Upload, TypeInv, TypeOK
  <2>2. RunInv'
    BY <1>7 DEF Delete, DeleteLog, Upload, TypeInv, RunInv, Over
  <2> QED BY <2>1, <2>2 DEF TypeInv
<1> QED BY <1>1, <1>2, <1>3, <1>4, <1>5, <1>6, <1>7 DEF RunStep

\* The steps of a watcher keep the types: it touches no run.
LEMMA WatchTypes ==
  ASSUME TypeInv, NEW w \in Watchers, Subscribe(w) \/ WatchStep(w) \/ Disconnect(w)
  PROVE  TypeInv'
<1> USE DEF files, runner, frames
<1>0. /\ run \in 0 .. MaxRuns
      /\ run # 0 => run \in Runs
      /\ phase # "none" => run # 0
      /\ Status \in [run : 0 .. MaxRuns, running : BOOLEAN]
  BY StreamAssumption DEF TypeInv, TypeOK, RunInv, Runs, Status, Running
<1>1. RunInv'
  BY DEF Subscribe, WatchStep, Read, Greet, Forward, SeeDone, Final, Disconnect, TypeInv, RunInv, Over
<1>2. CASE Subscribe(w)
  <2>0. /\ of' = of \/ of' = [of EXCEPT ![w] = run]
        /\ subs' = subs \/ (run \in Runs /\ subs' = [subs EXCEPT ![run] = @ \cup {w}])
        /\ pc' = [pc EXCEPT ![w] = "read"]
    BY <1>0, <1>2 DEF Subscribe, Registered, Running, Goto
  <2>1. of' \in [Watchers -> 0 .. MaxRuns]
    BY <1>0, <2>0 DEF TypeInv, TypeOK
  <2>2. subs' \in [Runs -> SUBSET Watchers]
    <3>1. run \in Runs => subs[run] \cup {w} \in SUBSET Watchers
      BY DEF TypeInv, TypeOK
    <3>2. subs \in [Runs -> SUBSET Watchers]
      BY DEF TypeInv, TypeOK
    <3> QED BY <2>0, <3>1, <3>2
  <2> QED BY <1>1, <1>2, <2>0, <2>1, <2>2 DEF Subscribe, TypeInv, TypeOK
<1>3. CASE Read(w)
  BY <1>1, <1>3, LastTypes DEF Read, Gone, Goto, TypeInv, TypeOK
<1>4. CASE Greet(w) \/ SeeDone(w) \/ Final(w) \/ Disconnect(w)
  <2>1. pc' \in [Watchers -> {"idle", "read", "greet", "loop", "final", "ended", "left"}]
    BY <1>4 DEF Greet, SeeDone, Final, Disconnect, Goto, TypeInv, TypeOK
  <2>2. subs' \in [Runs -> SUBSET Watchers]
    BY <1>4 DEF Greet, SeeDone, Final, Disconnect, Unsubscribed, TypeInv, TypeOK
  <2>3. status' \in [Watchers -> [run : 0 .. MaxRuns, running : BOOLEAN]]
    <3>1. status' = status \/ status' = [status EXCEPT ![w] = Status]
      BY <1>4 DEF Greet, SeeDone, Final, Disconnect
    <3> QED BY <1>0, <3>1 DEF TypeInv, TypeOK
  <2>4. UNCHANGED <<run, phase, closed, log, linked, present, removing, pending, written, of, chan,
                    init, got, lost, cut>>
    BY <1>4 DEF Greet, SeeDone, Final, Disconnect
  <2> QED BY <1>1, <2>1, <2>2, <2>3, <2>4 DEF TypeInv, TypeOK
<1>5. CASE Forward(w)
  <2>1. /\ got[w] \in Seq(Chunks) /\ chan[w] \in Seq(Chunks) /\ chan[w] # <<>> /\ Len(chan[w]) <= Cap
        /\ Cap \in Nat
    BY <1>5, StreamAssumption DEF Forward, TypeInv, TypeOK
  <2>2. /\ Append(got[w], Head(chan[w])) \in Seq(Chunks)
        /\ Tail(chan[w]) \in Seq(Chunks) /\ Len(Tail(chan[w])) <= Cap
    BY <2>1, HeadTailProperties, AppendProperties, LenProperties, EmptySeq
  <2> QED BY <1>1, <1>5, <2>2 DEF Forward, TypeInv, TypeOK
<1> QED BY <1>2, <1>3, <1>4, <1>5 DEF WatchStep

\* Every step keeps the types.
LEMMA NextTypes == TypeInv /\ [Next]_vars => TypeInv'
<1>1. ASSUME TypeInv, UNCHANGED vars PROVE TypeInv'
  BY <1>1 DEF vars, runner, files, frames, TypeInv, TypeOK, RunInv, Over
<1> QED BY <1>1, RunTypes, WatchTypes DEF Next

\* The types of a run hold always: what a run has published, it has written before.
THEOREM TypeCorrect == Spec => []TypeInv
BY InitTypes, NextTypes, PTL DEF Spec

\* Every variable keeps its type; a channel never holds more than its capacity.
THEOREM TypeSafe == Spec => []TypeOK
<1>1. TypeInv => TypeOK
  BY DEF TypeInv
<1> QED BY <1>1, TypeCorrect, PTL

-----------------------------------------------------------------------------
(* Watchers and the runs they follow *)

\* A watcher follows one run that has begun, is subscribed to it and to no other until it has
\* ended, and ends only when the run's channel is closed.
Watch(w) ==
  /\ of[w] <= run
  /\ pc[w] = "idle" => of[w] = 0
  /\ \A r \in Runs : w \in subs[r] => of[w] = r
  /\ of[w] # 0 /\ pc[w] \in {"read", "greet", "loop", "final"} => w \in subs[of[w]]
  /\ of[w] # 0 /\ pc[w] \in {"final", "ended"} => of[w] \in closed
  /\ of[w] = 0 => pc[w] \notin {"loop", "final"}

WatchInv == \A w \in Watchers : Watch(w)

\* A step of a run or of another watcher leaves a watcher's own state alone.
Kept(w) ==
  /\ pc'[w] = pc[w] /\ of'[w] = of[w]
  /\ init'[w] = init[w] /\ got'[w] = got[w] /\ status'[w] = status[w] /\ cut'[w] = cut[w]
  /\ \A r \in Runs : w \in subs'[r] <=> w \in subs[r]

\* Requests and the run leave what a watcher has; runs are numbered upwards, and closed streams stay
\* closed.
LEMMA RunKeeps ==
  ASSUME TypeInv, WatchInv, Start \/ Write \/ Delete \/ DeleteLog \/ Upload \/ RunStep
  PROVE  /\ \A w \in Watchers : Kept(w)
         /\ run' >= run /\ closed \subseteq closed'
<1> USE DEF files, runner, frames
<1>0. run \in Nat /\ \A w \in Watchers : of[w] \in Nat
  BY StreamAssumption DEF TypeInv, TypeOK
<1>1. CASE Start
  <2>1. \A w \in Watchers, r \in Runs : w \in subs'[r] <=> w \in subs[r]
    BY <1>0, <1>1 DEF Start, NewStream, WatchInv, Watch, TypeInv, TypeOK, Runs
  <2> QED BY <1>0, <1>1, <2>1 DEF Start, Kept
<1>2. CASE Write \/ Delete \/ DeleteLog \/ Upload \/ RunStep
  BY <1>0, <1>2 DEF Write, Delete, DeleteLog, Upload, RunStep, Create, Publish, Exit, Finish, CloseDone, Kept
<1> QED BY <1>1, <1>2

\* A watcher leaves the run, and what the others have, alone.
LEMMA WatcherKeeps ==
  ASSUME TypeInv, NEW v \in Watchers, Subscribe(v) \/ WatchStep(v) \/ Disconnect(v)
  PROVE  /\ UNCHANGED runner
         /\ \A w \in Watchers \ {v} : Kept(w) /\ chan'[w] = chan[w] /\ lost'[w] = lost[w]
<1> USE DEF frames
<1>1. CASE Subscribe(v)
  <2>1. Running => run \in Runs
    BY StreamAssumption DEF Running, TypeInv, TypeOK, RunInv, Runs
  <2>2. subs' = subs \/ (run \in Runs /\ subs' = [subs EXCEPT ![run] = @ \cup {v}])
    BY <1>1, <2>1 DEF Subscribe, Registered
  <2>3. \A w \in Watchers \ {v}, r \in Runs : w \in subs'[r] <=> w \in subs[r]
    BY <2>2 DEF TypeInv, TypeOK
  <2> QED BY <1>1, <2>3 DEF Subscribe, Goto, Kept, TypeInv, TypeOK
<1>2. CASE Read(v) \/ Greet(v) \/ Forward(v) \/ SeeDone(v)
  BY <1>2 DEF Read, Greet, Forward, SeeDone, Goto, Kept, TypeInv, TypeOK
<1>3. CASE Final(v) \/ Disconnect(v)
  BY <1>3 DEF Final, Disconnect, Unsubscribed, Goto, Kept, TypeInv, TypeOK
<1> QED BY <1>1, <1>2, <1>3 DEF WatchStep

\* Every step keeps each watcher with its run.
LEMMA NextWatchInv == TypeInv /\ WatchInv /\ [Next]_vars => WatchInv'
<1> SUFFICES ASSUME TypeInv, WatchInv, [Next]_vars, NEW w \in Watchers PROVE Watch(w)'
  BY DEF WatchInv
<1>0. /\ run \in Nat /\ of[w] \in Nat /\ run' \in Nat
      /\ of[w] # 0 => of[w] \in Runs
      /\ Watch(w)
  <2>1. TypeOK /\ TypeOK'
    BY NextTypes DEF TypeInv
  <2> QED BY <2>1, StreamAssumption DEF TypeOK, WatchInv, Runs
<1>1. ASSUME Kept(w), run' >= run, closed \subseteq closed' PROVE Watch(w)'
  BY <1>0, <1>1 DEF Kept, Watch
<1>2. CASE Start \/ Write \/ Delete \/ DeleteLog \/ Upload \/ RunStep
  BY <1>1, <1>2, RunKeeps
<1>3. ASSUME NEW v \in Watchers \ {w}, Subscribe(v) \/ WatchStep(v) \/ Disconnect(v)
      PROVE  Watch(w)'
  BY <1>0, <1>1, <1>3, WatcherKeeps DEF runner
<1>4. CASE Subscribe(w)
  <2>1. /\ pc[w] = "idle" /\ of[w] = 0 /\ pc'[w] = "read" /\ run' = run /\ closed' = closed
        /\ \A r \in Runs : w \notin subs[r]
    BY <1>0, <1>4 DEF Subscribe, Goto, runner, Watch, TypeInv, TypeOK, Runs
  <2>2. \/ run \in Runs /\ of'[w] = run /\ subs' = [subs EXCEPT ![run] = @ \cup {w}]
        \/ of'[w] = of[w] /\ subs' = subs
    BY <1>0, <1>4 DEF Subscribe, Registered, Running, TypeInv, TypeOK, RunInv, Runs
  <2>3. /\ \A r \in Runs : w \in subs'[r] => of'[w] = r
        /\ of'[w] # 0 => w \in subs'[of'[w]]
        /\ of'[w] <= run
    BY <1>0, <2>1, <2>2 DEF TypeInv, TypeOK
  <2> QED BY <2>1, <2>3 DEF Watch
<1>5. CASE Read(w) \/ Greet(w) \/ Forward(w) \/ SeeDone(w)
  BY <1>0, <1>5 DEF Read, Greet, Forward, SeeDone, Goto, runner, Watch, TypeInv, TypeOK
<1>6. CASE Final(w) \/ Disconnect(w)
  BY <1>0, <1>6 DEF Final, Disconnect, Unsubscribed, Goto, runner, Watch, TypeInv, TypeOK
<1>7. CASE UNCHANGED vars
  BY <1>0, <1>7 DEF vars, runner, Watch
<1> QED BY <1>2, <1>3, <1>4, <1>5, <1>6, <1>7 DEF Next, WatchStep

\* A watcher stays subscribed to the run it follows until that run is over, whatever runs and
\* watchers come and go.
THEOREM WatchersFollow == Spec => []WatchInv
<1>1. Init => WatchInv
  BY StreamAssumption DEF Init, WatchInv, Watch
<1> QED BY <1>1, NextWatchInv, TypeCorrect, PTL DEF Spec

\* The last status a watcher's client is sent does not call the run running that it followed.
FinalInv ==
  \A w \in Watchers : pc[w] = "ended" /\ of[w] # 0 => ~status[w].running \/ status[w].run > of[w]

\* Every step keeps the final status true: it is taken when the run is over.
LEMMA NextFinalInv == TypeInv /\ WatchInv /\ FinalInv /\ [Next]_vars => FinalInv'
<1> SUFFICES ASSUME TypeInv, WatchInv, FinalInv, [Next]_vars,
                    NEW w \in Watchers, pc'[w] = "ended", of'[w] # 0
             PROVE  ~status'[w].running \/ status'[w].run > of'[w]
  BY DEF FinalInv
<1>0. run \in Nat /\ of[w] \in Nat /\ Watch(w)
  BY StreamAssumption DEF TypeInv, TypeOK, WatchInv
<1>1. CASE pc'[w] = pc[w] /\ of'[w] = of[w] /\ status'[w] = status[w]
  BY <1>1 DEF FinalInv
<1>2. CASE Start \/ Write \/ Delete \/ DeleteLog \/ Upload \/ RunStep
  BY <1>1, <1>2, RunKeeps DEF Kept
<1>3. ASSUME NEW v \in Watchers \ {w}, Subscribe(v) \/ WatchStep(v) \/ Disconnect(v)
      PROVE  ~status'[w].running \/ status'[w].run > of'[w]
  BY <1>1, <1>3, WatcherKeeps DEF Kept
<1>4. CASE Final(w)
  <2>1. /\ of'[w] = of[w] /\ status'[w] = Status /\ of[w] \in closed
    BY <1>0, <1>4 DEF Final, Watch, TypeInv, TypeOK
  <2>2. of[w] <= run /\ (of[w] = run => ~Running)
    BY <1>0, <2>1 DEF Watch, TypeInv, RunInv, Over, Running
  <2> QED BY <1>0, <2>1, <2>2 DEF Status
<1>5. CASE Subscribe(w) \/ Read(w) \/ Greet(w) \/ Forward(w) \/ SeeDone(w) \/ Disconnect(w)
  BY <1>1, <1>5 DEF Subscribe, Read, Greet, Forward, SeeDone, Disconnect, Goto, frames, TypeInv, TypeOK
<1>6. CASE UNCHANGED vars
  BY <1>1, <1>6 DEF vars, frames
<1> QED BY <1>2, <1>3, <1>4, <1>5, <1>6 DEF Next, WatchStep

\* When a watcher sees that its run is done the last chunk has been published, and the status it
\* then reports is not that of a running run, however often the script was started again.
THEOREM FinalAfterFinish == Spec => []FinalIsAfterFinish
<1>1. Init => FinalInv
  BY DEF Init, FinalInv
<1>2. TypeInv /\ WatchInv /\ FinalInv => FinalIsAfterFinish
  <2> SUFFICES ASSUME TypeInv, WatchInv, FinalInv, NEW w \in Watchers,
                      pc[w] \in {"final", "ended"}, of[w] # 0
               PROVE  ~(run = of[w] /\ pending)
    BY DEF FinalIsAfterFinish, FinalInv
  <2> QED BY StreamAssumption DEF WatchInv, Watch, TypeInv, TypeOK, RunInv, Over
<1> QED BY <1>1, <1>2, NextFinalInv, TypeCorrect, WatchersFollow, PTL DEF Spec

-----------------------------------------------------------------------------
(* The log frames of a watcher *)

\* Moving the head of one sequence to the end of another changes nothing of the two together.
LEMMA MoveHead ==
  ASSUME NEW S, NEW s \in Seq(S), NEW t \in Seq(S), t # <<>>
  PROVE  Append(s, Head(t)) \o Tail(t) = s \o t
<1>1. t = <<Head(t)>> \o Tail(t) /\ Head(t) \in S /\ Tail(t) \in Seq(S)
  <2>1. Head(t) \in S /\ Tail(t) \in Seq(S) /\ Len(Tail(t)) = Len(t) - 1
        /\ \A i \in 1 .. Len(Tail(t)) : Tail(t)[i] = t[i + 1]
    BY HeadTailProperties
  <2>2. <<Head(t)>> \in Seq(S) /\ Len(<<Head(t)>>) = 1 /\ <<Head(t)>>[1] = Head(t)
    BY <2>1
  <2>3. Len(t) \in Nat \ {0}
    BY EmptySeq
  <2>4. Head(t) = t[1]
    BY <2>3
  <2>5. /\ <<Head(t)>> \o Tail(t) \in Seq(S)
        /\ Len(<<Head(t)>> \o Tail(t)) = 1 + Len(Tail(t))
        /\ \A i \in 1 .. 1 + Len(Tail(t)) :
             (<<Head(t)>> \o Tail(t))[i] = IF i <= 1 THEN <<Head(t)>>[i] ELSE Tail(t)[i - 1]
    BY <2>1, <2>2, ConcatProperties
  <2>6. \A i \in 1 .. Len(t) : (<<Head(t)>> \o Tail(t))[i] = t[i]
    BY <2>1, <2>2, <2>3, <2>4, <2>5
  <2> QED BY <2>1, <2>3, <2>5, <2>6, SeqEqual
<1>2. Append(s, Head(t)) = s \o <<Head(t)>> /\ <<Head(t)>> \in Seq(S)
  BY <1>1, AppendIsConcat
<1> QED BY <1>1, <1>2, ConcatAssociative

\* What is appended to the second of two sequences is appended to the two together.
LEMMA AppendBehind ==
  ASSUME NEW S, NEW s \in Seq(S), NEW t \in Seq(S), NEW e \in S
  PROVE  s \o Append(t, e) = Append(s \o t, e)
<1>1. Append(t, e) = t \o <<e>> /\ <<e>> \in Seq(S)
  BY AppendIsConcat
<1>2. s \o t \in Seq(S)
  BY ConcatProperties
<1>3. Append(s \o t, e) = (s \o t) \o <<e>>
  BY <1>2, AppendIsConcat
<1> QED BY <1>1, <1>3, ConcatAssociative

\* The log frames a watcher has sent and those that wait in its channel.
Frames(w) == got[w] \o chan[w]

\* A published chunk is added to the frames of whoever has subscribed, or is lost to him.
LEMMA PublishFrames ==
  ASSUME TypeInv, Publish, NEW w \in Watchers
  PROVE  \/ /\ Frames(w)' = Frames(w)
            /\ w \in subs[run] => lost'[w]
         \/ /\ w \in subs[run]
            /\ Frames(w)' = Append(Frames(w), Chunk(run, written[run]))
<1> DEFINE c == Chunk(run, written[run])
<1>1. c \in Chunks
  BY PendingChunk DEF Publish
<1>2. /\ got'[w] = got[w]
      /\ \/ chan'[w] = chan[w] /\ (w \in subs[run] => lost'[w])
         \/ w \in subs[run] /\ chan'[w] = Append(chan[w], c)
  BY DEF Publish, frames, Chunk
<1> HIDE DEF c
<1>3. got[w] \o Append(chan[w], c) = Append(got[w] \o chan[w], c)
  <2>1. \A s, t \in Seq(Chunks) : \A e \in Chunks : s \o Append(t, e) = Append(s \o t, e)
    BY AppendBehind
  <2>2. got[w] \in Seq(Chunks) /\ chan[w] \in Seq(Chunks)
    BY DEF TypeInv, TypeOK
  <2> QED BY <1>1, <2>1, <2>2
<1>4. \/ Frames(w)' = Frames(w) /\ (w \in subs[run] => lost'[w])
      \/ w \in subs[run] /\ Frames(w)' = Append(Frames(w), c)
  BY <1>2, <1>3 DEF Frames
<1> QED BY <1>4 DEF c

\* The frames of a watcher change by the publication of a chunk of the run it follows, at their
\* end, and by nothing else.
LEMMA FramesStep ==
  ASSUME TypeInv, Next, NEW w \in Watchers
  PROVE  \/ Frames(w)' = Frames(w)
         \/ /\ Publish /\ w \in subs[run]
            /\ Frames(w)' = Append(Frames(w), Chunk(run, written[run]))
<1> USE DEF files, runner, frames
<1>0. got[w] \in Seq(Chunks) /\ chan[w] \in Seq(Chunks)
  BY DEF TypeInv, TypeOK
<1>1. CASE Publish
  BY <1>1, PublishFrames
<1>2. CASE Start \/ Write \/ Delete \/ DeleteLog \/ Upload \/ Create \/ Exit \/ Finish \/ CloseDone
  BY <1>2 DEF Start, Write, Delete, DeleteLog, Upload, Create, Exit, Finish, CloseDone, Frames
<1>3. ASSUME NEW v \in Watchers \ {w}, Subscribe(v) \/ WatchStep(v) \/ Disconnect(v)
      PROVE  Frames(w)' = Frames(w)
  BY <1>3, WatcherKeeps DEF Kept, Frames
<1>4. CASE Forward(w)
  <2>1. chan[w] # <<>> /\ got'[w] = Append(got[w], Head(chan[w])) /\ chan'[w] = Tail(chan[w])
    BY <1>4 DEF Forward, TypeInv, TypeOK
  <2> QED BY <1>0, <2>1, MoveHead DEF Frames
<1>5. CASE Subscribe(w) \/ Read(w) \/ Greet(w) \/ SeeDone(w) \/ Final(w) \/ Disconnect(w)
  BY <1>5 DEF Subscribe, Read, Greet, SeeDone, Final, Disconnect, Frames
<1> QED BY <1>1, <1>2, <1>3, <1>4, <1>5 DEF Next, RunStep, WatchStep

\* The number of chunks a run has published grows with each publication and with nothing else.
LEMMA PublishedStep ==
  ASSUME TypeInv, Next, NEW r \in Runs, r <= run
  PROVE  /\ Published(r) \in 0 .. MaxChunks
         /\ \/ ~Publish /\ Published(r)' = Published(r)
            \/ Publish /\ r # run /\ Published(r)' = Published(r)
            \/ Publish /\ r = run /\ Published(r)' = Published(r) + 1 /\ Published(r)' = written[r]
<1> USE DEF files, runner, frames
<1>0. /\ run \in Nat /\ r \in Nat /\ MaxChunks \in Nat
      /\ written[r] \in 0 .. MaxChunks /\ pending \in BOOLEAN
      /\ r = run /\ pending => written[r] > 0 /\ phase = "open"
  BY StreamAssumption DEF TypeInv, TypeOK, RunInv, Runs
<1>1. Published(r) \in 0 .. MaxChunks
  BY <1>0 DEF Published
<1>2. CASE Publish
  BY <1>0, <1>1, <1>2 DEF Publish, Published
<1>3. ASSUME Start \/ Write \/ Exit, ~Publish PROVE Published(r)' = Published(r)
  <2>1. CASE Start
    <3>1. ~pending
      BY <2>1 DEF Start, Running, TypeInv, RunInv
    <3> QED BY <1>0, <2>1, <3>1 DEF Start, Published
  <2>2. CASE Write
    <3>1. /\ ~pending /\ pending' /\ run' = run
          /\ written' = [written EXCEPT ![run] = @ + 1]
      BY <2>2 DEF Write
    <3>2. r = run => written'[r] = written[r] + 1
      BY <3>1 DEF TypeInv, TypeOK
    <3>3. r # run => written'[r] = written[r]
      BY <3>1 DEF TypeInv, TypeOK
    <3> QED BY <1>0, <3>1, <3>2, <3>3 DEF Published
  <2>3. CASE Exit
    BY <2>3 DEF Exit, Published
  <2> QED BY <1>3, <2>1, <2>2, <2>3
<1>4. ASSUME Delete \/ DeleteLog \/ Upload \/ Create \/ Finish \/ CloseDone
      PROVE  Published(r)' = Published(r)
  BY <1>4 DEF Delete, DeleteLog, Upload, Create, Finish, CloseDone, Published
<1>5. ASSUME NEW v \in Watchers, Subscribe(v) \/ WatchStep(v) \/ Disconnect(v)
      PROVE  Published(r)' = Published(r)
  BY <1>5, WatcherKeeps DEF Published
<1> HIDE DEF runner, files, frames
<1> QED BY <1>1, <1>2, <1>3, <1>4, <1>5 DEF Next, RunStep

\* The frames of a watcher are chunks its run has published, in their order.
FramesInv ==
  \A w \in Watchers :
    /\ of[w] = 0 => Frames(w) = <<>>
    /\ \A r \in Runs : of[w] = r =>
         \A i \in 1 .. Len(Frames(w)) :
           /\ Frames(w)[i].run = r /\ Frames(w)[i].nr <= Published(r)
           /\ i > 1 => Frames(w)[i - 1].nr < Frames(w)[i].nr

\* Every step keeps the frames in order: what is added has just been published.
LEMMA NextFramesInv == TypeInv /\ TypeInv' /\ WatchInv /\ FramesInv /\ [Next]_vars => FramesInv'
<1> SUFFICES ASSUME TypeInv, TypeInv', WatchInv, FramesInv, [Next]_vars PROVE FramesInv'
  OBVIOUS
<1>1. CASE UNCHANGED vars
  <2>1. UNCHANGED <<run, pending, written, of, chan, got>>
    BY <1>1 DEF vars, runner, frames
  <2>2. \A w \in Watchers : Frames(w)' = Frames(w)
    BY <2>1 DEF Frames
  <2>3. \A r \in Runs : Published(r)' = Published(r)
    BY <2>1 DEF Published
  <2> QED BY <2>1, <2>2, <2>3 DEF FramesInv
<1>2. CASE Next
  <2> SUFFICES ASSUME NEW w \in Watchers
               PROVE  /\ of'[w] = 0 => Frames(w)' = <<>>
                      /\ \A r \in Runs : of'[w] = r =>
                           \A i \in 1 .. Len(Frames(w)') :
                             /\ Frames(w)'[i].run = r /\ Frames(w)'[i].nr <= Published(r)'
                             /\ i > 1 => Frames(w)'[i - 1].nr < Frames(w)'[i].nr
    BY DEF FramesInv
  <2>0. /\ Frames(w) \in Seq(Chunks) /\ Len(Frames(w)) \in Nat
        /\ \A i \in 1 .. Len(Frames(w)) : Frames(w)[i].nr \in Nat
        /\ of[w] \in Nat /\ of[w] <= run
    <3>1. Frames(w) \in Seq(Chunks)
      <4>1. \A s, t \in Seq(Chunks) : s \o t \in Seq(Chunks)
        BY ConcatProperties
      <4>2. got[w] \in Seq(Chunks) /\ chan[w] \in Seq(Chunks)
        BY DEF TypeInv, TypeOK
      <4> QED BY <4>1, <4>2 DEF Frames
    <3>2. \A i \in 1 .. Len(Frames(w)) : Frames(w)[i].nr \in Nat
      <4>1. \A i \in 1 .. Len(Frames(w)) : Frames(w)[i] \in Chunks
        BY <3>1, ElementOfSeq
      <4> QED BY <4>1, StreamAssumption DEF Chunks
    <3> QED BY <3>1, <3>2, LenProperties, StreamAssumption DEF TypeInv, TypeOK, WatchInv, Watch
  <2>1. of'[w] = of[w] \/ (of[w] = 0 /\ Frames(w)' = Frames(w))
    <3>1. CASE Subscribe(w)
      BY <3>1 DEF Subscribe, WatchInv, Watch, Frames, frames
    <3>2. CASE WatchStep(w) \/ Disconnect(w)
      BY <3>2 DEF WatchStep, Read, Greet, Forward, SeeDone, Final, Disconnect
    <3>3. ASSUME NEW v \in Watchers \ {w}, Subscribe(v) \/ WatchStep(v) \/ Disconnect(v)
          PROVE  of'[w] = of[w]
      BY <3>3, WatcherKeeps DEF Kept
    <3> QED BY <1>2, <3>1, <3>2, <3>3, RunKeeps DEF Next, Kept
  <2>2. CASE of[w] = 0 /\ Frames(w)' = Frames(w)
    <3>1. Frames(w) = <<>> /\ Len(Frames(w)) = 0
      BY <2>2, EmptySeq DEF FramesInv
    <3> QED BY <2>2, <3>1
  <2>3. CASE of'[w] = of[w] /\ Frames(w)' = Frames(w)
    <3>1. ASSUME NEW r \in Runs, of[w] = r PROVE Published(r) \in Nat /\ Published(r)' \in Nat /\ Published(r)' >= Published(r)
      BY <1>2, <2>0, <3>1, PublishedStep
    <3>2. ASSUME NEW r \in Runs, of[w] = r
          PROVE  \A i \in 1 .. Len(Frames(w)) :
                   /\ Frames(w)[i].run = r /\ Frames(w)[i].nr <= Published(r)'
                   /\ i > 1 => Frames(w)[i - 1].nr < Frames(w)[i].nr
      BY <2>0, <3>1, <3>2 DEF FramesInv
    <3> QED BY <2>3, <3>2 DEF FramesInv
  <2>4. CASE /\ of'[w] = of[w] /\ Publish /\ w \in subs[run]
             /\ Frames(w)' = Append(Frames(w), Chunk(run, written[run]))
    <3> DEFINE c == Chunk(run, written[run])
    <3>0. run \in Runs /\ c \in Chunks
      BY <2>4, PendingChunk DEF Publish
    <3>1. of[w] = run
      BY <2>4, <3>0 DEF WatchInv, Watch
    <3>2. /\ Published(run) \in Nat /\ written[run] = Published(run) + 1 /\ Published(run)' = written[run]
      <4>1. run <= run
        BY <2>0, <3>1
      <4>2. ASSUME NEW r \in Runs, r = run
            PROVE  Published(r) \in Nat /\ written[r] = Published(r) + 1 /\ Published(r)' = written[r]
        BY <1>2, <2>4, <4>1, <4>2, PublishedStep
      <4>3. run' = run
        BY <2>4 DEF Publish
      <4> QED BY <3>0, <4>2, <4>3 DEF Published
    <3>3. \A i \in 1 .. Len(Frames(w)) :
            /\ Frames(w)[i].run = run /\ Frames(w)[i].nr < written[run]
            /\ i > 1 => Frames(w)[i - 1].nr < Frames(w)[i].nr
      BY <2>0, <3>0, <3>1, <3>2 DEF FramesInv
    <3>4. c.run = run /\ c.nr = written[run]
      BY DEF Chunk
    <3> HIDE DEF c
    <3>5. /\ Len(Append(Frames(w), c)) = Len(Frames(w)) + 1
          /\ \A i \in 1 .. Len(Frames(w)) : Append(Frames(w), c)[i] = Frames(w)[i]
          /\ Append(Frames(w), c)[Len(Frames(w)) + 1] = c
      BY <2>0, <3>0, AppendProperties
    <3>6. \A i \in 1 .. Len(Append(Frames(w), c)) :
            /\ Append(Frames(w), c)[i].run = run /\ Append(Frames(w), c)[i].nr <= written[run]
            /\ i > 1 => Append(Frames(w), c)[i - 1].nr < Append(Frames(w), c)[i].nr
      BY <2>0, <3>2, <3>3, <3>4, <3>5
    <3>7. Frames(w)' = Append(Frames(w), c) /\ of'[w] = run
      BY <2>4, <3>1 DEF c
    <3>8. ASSUME NEW r \in Runs, of'[w] = r PROVE r = run /\ Published(r)' = written[run]
      BY <2>4, <3>2, <3>7, <3>8 DEF Publish, Published
    <3> QED BY <3>0, <3>6, <3>7, <3>8 DEF Runs
  <2> QED BY <1>2, <2>1, <2>2, <2>3, <2>4, FramesStep
<1> QED BY <1>1, <1>2

\* A watcher is sent chunks of the run it follows only, each at most once and in the order they
\* were written, whatever overflows and however often the script runs again.
THEOREM FramesInOrder == Spec => []InOrder
<1>1. Init => FramesInv
  BY EmptySeq, ConcatEmptySeq DEF Init, FramesInv, Frames
<1>2. TypeInv /\ FramesInv => InOrder
  <2> SUFFICES ASSUME TypeInv, FramesInv, NEW w \in Watchers
               PROVE  \A i \in 1 .. Len(Frames(w)) :
                        Frames(w)[i].run = of[w] /\ (i > 1 => Frames(w)[i - 1].nr < Frames(w)[i].nr)
    BY DEF InOrder, Frames
  <2>1. CASE of[w] = 0
    BY <2>1, EmptySeq DEF FramesInv
  <2>2. CASE of[w] # 0
    <3>1. of[w] \in Runs
      BY <2>2, StreamAssumption DEF TypeInv, TypeOK, Runs
    <3> QED BY <3>1 DEF FramesInv
  <2> QED BY <2>1, <2>2
<1> QED BY <1>1, <1>2, NextFramesInv, TypeCorrect, WatchersFollow, PTL DEF Spec

-----------------------------------------------------------------------------
(* No gap between the file and the channel *)

\* The file a run writes to holds, under its name, exactly what the run has written.
LogInv ==
  linked /\ (phase = "open" \/ (run # 0 /\ written[run] > 0)) =>
    /\ Len(log) = written[run]
    /\ \A i \in 1 .. Len(log) : log[i] = Chunk(run, i)

\* Every step keeps the file what the run has written, as long as it has its name.
LEMMA NextLogInv == TypeInv /\ LogInv /\ [Next]_vars => LogInv'
<1> SUFFICES ASSUME TypeInv, LogInv, [Next]_vars PROVE LogInv'
  OBVIOUS
<1> USE DEF files, runner, frames
<1>0. /\ run \in Nat /\ log \in Seq(Chunks) /\ Len(log) \in Nat
      /\ phase = "open" => run \in Runs
      /\ \A r \in Runs : r > run => written[r] = 0
  BY StreamAssumption, LenProperties DEF TypeInv, TypeOK, RunInv, Runs
<1>1. CASE Start
  <2>1. run + 1 \in Runs
    BY <1>0, <1>1, StreamAssumption DEF Start, Runs
  <2> QED BY <1>0, <1>1, <2>1 DEF Start, LogInv
<1>2. CASE Create
  <2>1. written[run] = 0 /\ run' = run /\ written' = written
    BY <1>2 DEF Create, TypeInv, RunInv
  <2>2. phase' = "open" => log' = <<>> /\ Len(log') = 0
    BY <1>2, EmptySeq DEF Create
  <2> QED BY <1>2, <2>1, <2>2 DEF Create, LogInv
<1>3. CASE Write
  <2>1. /\ phase = "open" /\ phase' = phase /\ run' = run /\ linked' = linked /\ run \in Runs
        /\ written' = [written EXCEPT ![run] = @ + 1]
        /\ linked => log' = Append(log, Chunk(run, written[run] + 1))
    BY <1>0, <1>3 DEF Write, Chunk
  <2>2. written'[run] = written[run] + 1 /\ written[run] \in 0 .. MaxChunks /\ written[run] < MaxChunks
    BY <1>3, <2>1 DEF Write, TypeInv, TypeOK
  <2>3. Chunk(run, written[run] + 1) \in Chunks
    BY <2>1, <2>2, StreamAssumption DEF Chunk, Chunks
  <2>4. CASE linked
    <3>1. Len(log) = written[run] /\ \A i \in 1 .. Len(log) : log[i] = Chunk(run, i)
      BY <2>1, <2>4 DEF LogInv
    <3>2. /\ Len(log') = Len(log) + 1
          /\ \A i \in 1 .. Len(log) : log'[i] = log[i]
          /\ log'[Len(log) + 1] = Chunk(run, written[run] + 1)
      BY <1>0, <2>1, <2>3, <2>4, AppendProperties
    <3>3. \A i \in 1 .. Len(log') : log'[i] = Chunk(run, i)
      <4> SUFFICES ASSUME NEW i \in 1 .. Len(log') PROVE log'[i] = Chunk(run, i)
        OBVIOUS
      <4>1. CASE i \in 1 .. Len(log)
        BY <3>1, <3>2, <4>1
      <4>2. CASE i = Len(log) + 1
        BY <3>1, <3>2, <4>2
      <4> QED BY <1>0, <3>2, <4>1, <4>2
    <3> QED BY <2>1, <2>2, <3>1, <3>2, <3>3 DEF LogInv, Chunk
  <2>5. CASE ~linked
    BY <2>1, <2>5 DEF LogInv
  <2> QED BY <2>4, <2>5
<1>4. CASE Publish \/ Exit \/ Finish \/ CloseDone \/ Delete \/ Upload
  <2>1. /\ UNCHANGED <<run, log, linked, written>>
        /\ phase' = "open" => phase = "open"
    BY <1>4 DEF Publish, Exit, Finish, CloseDone, Delete, Upload
  <2> QED BY <2>1 DEF LogInv, Chunk
<1>5. CASE DeleteLog
  BY <1>5 DEF DeleteLog, LogInv
<1>6. ASSUME NEW v \in Watchers, Subscribe(v) \/ WatchStep(v) \/ Disconnect(v) PROVE LogInv'
  <2>1. UNCHANGED <<run, phase, log, linked, written>>
    BY <1>6, WatcherKeeps
  <2> QED BY <2>1 DEF LogInv, Chunk
<1>7. CASE UNCHANGED vars
  BY <1>7 DEF vars, LogInv, Chunk
<1> QED BY <1>1, <1>2, <1>3, <1>4, <1>5, <1>6, <1>7 DEF Next, RunStep

\* What the run writes is in its file, from the first chunk to the last, unless the file has been
\* deleted or truncated.
THEOREM FileHoldsRun == Spec => []LogInv
<1>1. Init => LogInv
  BY DEF Init, LogInv
<1> QED BY <1>1, NextLogInv, TypeCorrect, PTL DEF Spec

\* A chunk of a run has reached the watcher, or lies before the tail it was sent.
Covered(w, r, n) ==
  \/ Chunk(r, n) \in Seen(w)
  \/ Len(init[w]) = Window /\ init[w][1].run = r /\ n < init[w][1].nr

\* NoGap, run by run.
GapInv ==
  \A w \in Watchers, r \in Runs :
    of[w] = r /\ Following(w) /\ ~lost[w] /\ ~cut[w] => \A n \in 1 .. Published(r) : Covered(w, r, n)

\* The elements of two sequences together are those of the one and those of the other.
LEMMA RangeTogether ==
  \A s, t \in Seq(Chunks) : s \o t \in Seq(Chunks) /\ Range(s \o t) = Range(s) \cup Range(t)
BY ConcatProperties, RangeConcatenation

\* Appending adds one element to a sequence's range.
LEMMA RangeAppend ==
  ASSUME NEW s \in Seq(Chunks), NEW e \in Chunks
  PROVE  Range(Append(s, e)) = Range(s) \cup {e}
<1>1. Append(s, e) \in Seq(Chunks) /\ Len(Append(s, e)) = Len(s) + 1 /\ Len(s) \in Nat
      /\ (\A i \in 1 .. Len(s) : Append(s, e)[i] = s[i]) /\ Append(s, e)[Len(s) + 1] = e
  BY AppendProperties, LenProperties
<1>2. Range(Append(s, e)) = {Append(s, e)[i] : i \in 1 .. Len(s) + 1} /\ Range(s) = {s[i] : i \in 1 .. Len(s)}
  BY <1>1, RangeEquality
<1> QED BY <1>1, <1>2

\* A watcher that reads the file sees all its run has published, or the tail of it.
LEMMA ReadCovers ==
  ASSUME TypeInv, LogInv, NEW w \in Watchers, Read(w), NEW r \in Runs, of[w] = r, ~cut'[w],
         NEW n \in 1 .. written[r]
  PROVE  Covered(w, r, n)'
<1> USE DEF files, runner, frames
<1>0. /\ log \in Seq(Chunks) /\ Len(log) \in Nat /\ Window \in Nat \ {0} /\ r # 0
      /\ init'[w] = Last(log) /\ ~Gone(w) /\ n \in Nat
      /\ written[r] \in 0 .. MaxChunks
  BY StreamAssumption, LenProperties DEF Read, TypeInv, TypeOK, Runs
<1>1. run = r /\ linked /\ written[r] > 0
  BY <1>0, StreamAssumption DEF Gone, TypeInv, TypeOK, RunInv
<1>2. Len(log) = written[r] /\ \A i \in 1 .. Len(log) : log[i] = Chunk(r, i)
  BY <1>0, <1>1 DEF LogInv
<1>3. ASSUME NEW i \in 1 .. Len(init'[w]), init'[w][i] = Chunk(r, n) PROVE Covered(w, r, n)'
  <2>1. init'[w] \in Seq(Chunks)
    BY <1>0, LastTypes
  <2>2. Chunk(r, n) \in Range(init'[w])
    BY <1>3, <2>1, RangeEquality
  <2> QED BY <2>2 DEF Covered, Seen, Chunk
<1>4. CASE Len(log) <= Window
  <2>1. init'[w] = log
    BY <1>0, <1>4, LastTypes
  <2> QED BY <1>0, <1>2, <1>3, <2>1
<1>5. CASE Len(log) > Window
  <2>1. Len(init'[w]) = Window /\ \A i \in 1 .. Window : init'[w][i] = Chunk(r, i + Len(log) - Window)
    <3>1. Len(Last(log)) = Window /\ \A i \in 1 .. Window : Last(log)[i] = log[i + Len(log) - Window]
      BY <1>0, <1>5, LastTypes
    <3>2. \A i \in 1 .. Window : i + Len(log) - Window \in 1 .. Len(log)
      BY <1>0, <1>5
    <3> QED BY <1>0, <1>2, <3>1, <3>2
  <2>2. CASE n > Len(log) - Window
    <3>1. n - Len(log) + Window \in 1 .. Window /\ (n - Len(log) + Window) + Len(log) - Window = n
      BY <1>0, <1>2, <1>5, <2>2
    <3> QED BY <1>3, <2>1, <3>1
  <2>3. CASE n <= Len(log) - Window
    <3>1. init'[w][1] = Chunk(r, 1 + Len(log) - Window) /\ n < 1 + Len(log) - Window
      BY <1>0, <2>1, <2>3
    <3>2. Chunk(r, 1 + Len(log) - Window).run = r /\ Chunk(r, 1 + Len(log) - Window).nr = 1 + Len(log) - Window
      BY DEF Chunk
    <3> QED BY <2>1, <3>1, <3>2 DEF Covered
  <2> QED BY <1>0, <2>2, <2>3
<1> QED BY <1>0, <1>4, <1>5

\* Only reading the file makes a watcher one that follows.
LEMMA FollowingStep ==
  ASSUME TypeInv, WatchInv, Next, NEW w \in Watchers, Following(w)'
  PROVE  \/ Read(w) /\ of'[w] = of[w] /\ lost'[w] = lost[w]
         \/ /\ Following(w) /\ of'[w] = of[w] /\ init'[w] = init[w] /\ cut'[w] = cut[w]
            /\ lost[w] => lost'[w]
<1> USE DEF files, runner, frames
<1>1. ASSUME Kept(w), lost[w] => lost'[w]
      PROVE  /\ Following(w) /\ of'[w] = of[w] /\ init'[w] = init[w] /\ cut'[w] = cut[w]
             /\ lost[w] => lost'[w]
  BY <1>1 DEF Kept, Following
<1>2. CASE Start \/ Write \/ Delete \/ DeleteLog \/ Upload \/ RunStep
  <2>1. lost[w] => lost'[w]
    BY <1>2 DEF Start, Write, Delete, DeleteLog, Upload, RunStep, Create, Publish, Exit, Finish, CloseDone
  <2> QED BY <1>1, <1>2, <2>1, RunKeeps
<1>3. ASSUME NEW v \in Watchers \ {w}, Subscribe(v) \/ WatchStep(v) \/ Disconnect(v)
      PROVE  Kept(w) /\ lost'[w] = lost[w]
  BY <1>3, WatcherKeeps
<1>4. CASE Read(w)
  BY <1>4 DEF Read
<1>5. CASE Greet(w) \/ Forward(w) \/ SeeDone(w) \/ Final(w)
  BY <1>5 DEF Greet, Forward, SeeDone, Final, Goto, Following, TypeInv, TypeOK
<1>6. ~Subscribe(w) /\ ~Disconnect(w)
  BY DEF Subscribe, Disconnect, Goto, Following, TypeInv, TypeOK
<1> QED BY <1>1, <1>2, <1>3, <1>4, <1>5, <1>6 DEF Next, WatchStep

\* Every step keeps what a watcher has seen without a gap.
LEMMA NextGapInv ==
  TypeInv /\ TypeInv' /\ WatchInv /\ LogInv /\ GapInv /\ [Next]_vars => GapInv'
<1> SUFFICES ASSUME TypeInv, TypeInv', WatchInv, LogInv, GapInv, [Next]_vars,
                    NEW w \in Watchers, NEW r \in Runs, of'[w] = r, Following(w)', ~lost'[w], ~cut'[w],
                    NEW n \in 1 .. Published(r)'
             PROVE  Covered(w, r, n)'
  BY DEF GapInv
<1>1. CASE UNCHANGED vars
  <2>1. UNCHANGED <<run, pending, written, pc, of, chan, init, got, lost, cut>>
    BY <1>1 DEF vars, runner, frames
  <2>2. Published(r)' = Published(r) /\ Following(w)
    BY <2>1 DEF Published, Following
  <2>3. Covered(w, r, n)
    BY <2>1, <2>2 DEF GapInv
  <2> QED BY <2>1, <2>3 DEF Covered, Seen, Chunk
<1>2. CASE Next
  <2>0. r <= run /\ of[w] = r
    BY <1>2, FollowingStep DEF WatchInv, Watch
  <2>1. Published(r) \in 0 .. MaxChunks
    BY <1>2, <2>0, PublishedStep
  <2>2. /\ Frames(w) \in Seq(Chunks) /\ Range(Frames(w)) = Range(got[w]) \cup Range(chan[w])
        /\ Range(Frames(w)') = Range(got'[w]) \cup Range(chan'[w])
    <3>1. /\ got[w] \in Seq(Chunks) /\ chan[w] \in Seq(Chunks)
          /\ got'[w] \in Seq(Chunks) /\ chan'[w] \in Seq(Chunks)
      BY DEF TypeInv, TypeOK
    <3> QED BY <3>1, RangeTogether DEF Frames
  <2>3. CASE Read(w)
    <3>1. Published(r)' = Published(r)
      BY <2>3 DEF Read, runner, Published
    <3>2. written[r] \in Nat /\ Published(r) <= written[r]
      <4>1. written[r] \in 0 .. MaxChunks /\ MaxChunks \in Nat
        BY StreamAssumption DEF TypeInv, TypeOK
      <4> QED BY <4>1 DEF Published
    <3>3. n \in 1 .. written[r]
      BY <2>1, <3>1, <3>2
    <3> QED BY <2>0, <2>3, <3>3, ReadCovers
  <2>4. CASE /\ Following(w) /\ of'[w] = of[w] /\ init'[w] = init[w] /\ cut'[w] = cut[w]
             /\ lost[w] => lost'[w]
    <3>1. \A m \in 1 .. Published(r) : Covered(w, r, m)
      BY <2>0, <2>4 DEF GapInv
    <3>2. Range(Frames(w)) \subseteq Range(Frames(w)')
      <4>1. Publish => Chunk(run, written[run]) \in Chunks
        BY PendingChunk DEF Publish
      <4>2. Frames(w)' = Frames(w) \/ (Publish /\ Frames(w)' = Append(Frames(w), Chunk(run, written[run])))
        BY <1>2, FramesStep
      <4>3. \A s \in Seq(Chunks), e \in Chunks : Range(s) \subseteq Range(Append(s, e))
        BY RangeAppend
      <4> QED BY <2>2, <4>1, <4>2, <4>3
    <3>3. Seen(w) \subseteq Seen(w)' /\ Range(Frames(w)') \subseteq Seen(w)'
      <4>1. Seen(w) = Range(init[w]) \cup Range(Frames(w))
        BY <2>2 DEF Seen
      <4>2. Seen(w)' = Range(init'[w]) \cup Range(Frames(w)')
        BY <2>2 DEF Seen
      <4> QED BY <2>4, <3>2, <4>1, <4>2
    <3>4. CASE n \in 1 .. Published(r)
      BY <2>4, <3>1, <3>3, <3>4 DEF Covered, Chunk
    <3>5. CASE n \notin 1 .. Published(r)
      <4>1. Publish /\ r = run /\ n = written[run]
        BY <1>2, <2>0, <2>1, <3>5, PublishedStep
      <4>2. w \in subs[run]
        <5>1. of[w] # 0 /\ of[w] \notin closed
          BY <2>0, <4>1 DEF Publish, TypeInv, RunInv, Over, Runs
        <5> QED BY <2>0, <2>4, <4>1, <5>1 DEF Following, WatchInv, Watch
      <4>3. Frames(w)' = Append(Frames(w), Chunk(r, n))
        BY <4>1, <4>2, PublishFrames
      <4>4. Chunk(r, n) \in Chunks
        BY <4>1, PendingChunk DEF Publish
      <4>5. Chunk(r, n) \in Range(Frames(w)')
        BY <2>2, <4>3, <4>4, RangeAppend
      <4> QED BY <3>3, <4>5 DEF Covered, Chunk
    <3> QED BY <3>4, <3>5
  <2> QED BY <1>2, <2>3, <2>4, FollowingStep
<1> QED BY <1>1, <1>2

\* Subscribing before reading leaves no gap, for any watchers, windows, channels and output, and
\* however often the script is started, stopped, deleted and uploaded meanwhile.
THEOREM NothingMissed == Spec => []NoGap
<1>1. Init => GapInv
  BY DEF Init, GapInv, Following
<1>2. TypeInv /\ GapInv => NoGap
  <2> SUFFICES ASSUME TypeInv, GapInv, NEW w \in Watchers, Following(w), ~lost[w], ~cut[w]
               PROVE  \A n \in 1 .. Published(of[w]) : Covered(w, of[w], n)
    BY DEF NoGap, Covered, Chunk
  <2>1. of[w] \in Runs
    BY StreamAssumption DEF Following, TypeInv, TypeOK, Runs
  <2> QED BY <2>1 DEF GapInv
<1> QED BY <1>1, <1>2, NextGapInv, TypeCorrect, WatchersFollow, FileHoldsRun, PTL DEF Spec

=============================================================================
