-------------------------- MODULE SidecarDrainProofs --------------------------
(***************************************************************************)
(* Proofs about SidecarDrain, for any finite set of events and any bounds. *)
(***************************************************************************)
EXTENDS SidecarDrain, FiniteSetTheorems, TLAPS

\* Who has asked for a drain-state write and waits for its end; nobody waits for
\* one of the heartbeat.
WaitsForWrite(w) ==
    \/ w = Heartbeat
    \/ w = Monitor /\ loop.pc \in {"starting", "clearing", "removing", "observing"}
    \/ w \in Callbacks /\ callback[w].pc \in {"tracking", "untracking"}

\* A writer but the heartbeat asks once, and goes on when its own write has ended.
WritersInv ==
    /\ \A k \in 1..Len(writes) :
         /\ WaitsForWrite(writes[k])
         /\ \A j \in 1..Len(writes) : writes[j] = writes[k] => j = k \/ writes[k] = Heartbeat
         /\ writing # None => writing.by # writes[k] \/ writes[k] = Heartbeat
    /\ writing # None => WaitsForWrite(writing.by)

\* The replay runs inside the monitor's round, for an event it has listed.
ReplayInv ==
    /\ loop.pc # "replaying" => callback[Replay].pc \in {"away", "ended"}
    /\ loop.pc = "replaying" \/ callback[Replay].pc # "away" => loop.event \in Ev

\* The strengthening that makes TypeOK and CallbacksCounted inductive.
TrackingInv == TypeOK /\ WritersInv /\ ReplayInv /\ CallbacksCounted

\* An event whose callback stops the listeners is in the store, or was; and what
\* the replay reports of its event is so.
StoredInv ==
    /\ \A e \in Ev :
          callback[e].pc \in {"stop", "stopMsg", "stopCard"} \/ callback[e].result = "deferred"
             => e \in store \cup handled \cup quarantine
    /\ callback[Replay].pc \in {"stop", "stopMsg", "stopCard"}
          \/ callback[Replay].result = "deferred" => loop.event \in store \cup handled
    /\ callback[Replay].result = "ok" => loop.event \in handled
    /\ callback[Replay].pc \in {"answered", "untracking", "ended"} =>
          callback[Replay].result # "none"
-----------------------------------------------------------------------------
Later(t) == t # None /\ t > ctl.since
ListensNot == ~listen.msg /\ ~listen.card
StopSteps == {"stop", "stopMsg", "stopCard"}

\* No stamp is of the future.
StampsPast ==
    /\ ctl.since <= now /\ drain.previous.since <= now
    /\ observed # None => observed <= now
    /\ writing # None /\ writing.observed # None => writing.observed <= now
    /\ file # None /\ file.observed # None => file.observed <= now

\* The gate as the drain that fenced it left it, unless its generation moved.
FenceInv ==
    /\ drain.fence <= ctl.generation
    /\ drain.pc # "idle" /\ ctl.generation = drain.fence =>
          ctl.phase = IF drain.method = "shutdown" THEN "ShuttingDown" ELSE "Quiescing"
    /\ drain.pc # "idle" /\ drain.method = "shutdown" =>
          /\ ctl.generation = drain.fence
          /\ drain.previous.phase \in {"Active", "Quiescing"}
          /\ drain.previous.phase = "Quiescing" => drain.previous.since = ctl.since
    /\ ctl.phase = "ShuttingDown" => drain.pc # "idle" /\ drain.method = "shutdown"

\* The flag, the listeners and the places of the loop that changes them.
ListenInv ==
    /\ loop.pc # "listenCard" /\ ~listen.active => ListensNot
    /\ loop.pc = "listenMsg" => ~listen.active
    /\ loop.pc = "stopCard" => ~listen.msg
    /\ observed # None => /\ ListensNot
                          /\ loop.pc \in {"observing", "check", "answered"} \cup StopSteps
    /\ loop.pc = "gone" => Running = {} /\ ListensNot
    /\ file = None => lapsed \/ loop.pc = "gone"
                        \/ (loop.pc = "starting" /\ Running = {} /\ ListensNot)

\* The worker was not Active after its cutoff: what was observed later stays
\* observed, and a count of zero published with it stays true.
SeenInv ==
    ctl.phase # "Active" /\ loop.pc # "gone" =>
       /\ Later(observed) /\ loop.pc = "answered" => ~loop.ok
       /\ \A f \in {writing, file} :
             f # None /\ Later(f.observed) =>
                Later(observed) /\ (f.count = 0 => Running = {})

\* What a drain has found out stays so while the gate does not move, unless it
\* ignored a running sidecar; of another it may remove the file.
QuietInv ==
    /\ drain.pc \in {"removing", "read", "counted", "accepted"} /\ drain.clear
         /\ ctl.generation = drain.fence /\ ~lapsed =>
         /\ Running = {} /\ ListensNot
         /\ loop.pc \in {"starting", "observing", "check", "answered", "gone"} \cup StopSteps
         /\ loop.pc = "answered" => ~loop.ok
         /\ drain.pc \in {"counted", "accepted"} => NoPermits
    /\ drain.pc = "removing" => lapsed \/ loop.pc = "gone"

\* The strengthening that makes DrainedIsQuiet inductive.
FencedInv ==
    /\ StampsPast /\ FenceInv /\ ListenInv /\ SeenInv /\ QuietInv
    /\ drain.pc = "accepted" => drain.clear

-----------------------------------------------------------------------------

\* The states a callback, the loop and the drain may move to.
LEMMA CallbackMoves ==
    ASSUME callback \in [Callbacks -> CallbackStates], NEW c \in Callbacks,
           NEW pc \in CallbackSteps, NEW result \in {"none", "ok", "failed", "deferred"}
    PROVE  /\ [callback EXCEPT ![c].pc = pc] \in [Callbacks -> CallbackStates]
           /\ [callback EXCEPT ![c].pc = pc, ![c].result = result]
                \in [Callbacks -> CallbackStates]
           /\ \A at \in Nat : [callback EXCEPT ![c] = [pc |-> pc, at |-> at, result |-> result]]
                                \in [Callbacks -> CallbackStates]
  BY DEF CallbackStates

\* A move of the monitor loop to one of its places.
LEMMA LoopMoves ==
    ASSUME loop \in Loops, NEW pc \in LoopSteps
    PROVE  /\ [loop EXCEPT !.pc = pc] \in Loops
           /\ \A ok \in BOOLEAN : [loop EXCEPT !.pc = pc, !.ok = ok] \in Loops
           /\ \A started \in BOOLEAN : [loop EXCEPT !.started = started, !.pc = pc] \in Loops
           /\ \A todo \in SUBSET Ev : [loop EXCEPT !.pc = pc, !.todo = todo] \in Loops
           /\ \A todo \in SUBSET Ev, e \in Ev :
                [loop EXCEPT !.pc = pc, !.event = e, !.todo = todo] \in Loops
  BY DEF Loops

\* A move of the drain to one of its places.
LEMMA DrainMoves ==
    ASSUME drain \in Drains,
           NEW pc \in {"idle", "waiting", "begun", "removing", "read", "counted", "accepted"}
    PROVE  /\ [drain EXCEPT !.pc = pc] \in Drains
           /\ \A clear \in BOOLEAN : [drain EXCEPT !.pc = pc, !.clear = clear] \in Drains
  BY DEF Drains

\* The drain that is not there.
LEMMA NoDrainType == NoDrain \in Drains
  BY DEF NoDrain, Drains, NewControl, ControlStates, Phases

\* The gate's operations stay within its states.
LEMMA GateTypes ==
    \A s \in ControlStates :
      /\ \A t \in Nat : BeginQuiesce(s, t) \in ControlStates
      /\ \A t \in Nat : BeginShutdown(s, t) \in ControlStates
      /\ BeginActivation(s) \in ControlStates
      /\ \A g, t \in Nat : CompleteActivation(s, g, t) \in ControlStates
      /\ \A claim \in ControlStates : CancelActivation(s, claim) \in ControlStates
      /\ \A held \in ControlStates : RestoreShutdownPhase(s, held) \in ControlStates
  BY DEF BeginQuiesce, BeginShutdown, BeginActivation, CompleteActivation,
         CancelActivation, RestoreShutdownPhase, Advance, ControlStates, Phases

\* The replay is a callback, the monitor is not.
LEMMA WriterNames ==
    /\ Replay \in Callbacks /\ Ev \subseteq Callbacks /\ Callbacks \subseteq Writers
    /\ Monitor \in Writers /\ Monitor \notin Callbacks /\ Replay \notin Ev
    /\ Heartbeat \in Writers \ Callbacks /\ Heartbeat # Monitor
    /\ Writers = Callbacks \cup {Monitor, Heartbeat}
  BY EventAssumption DEF Callbacks, Writers

\* A queue without a writer is a queue.
LEMMA NoneWaits == <<>> \in Seq(Writers)
  OBVIOUS

\* The callbacks that run are finitely many.
LEMMA RunningFinite ==
    /\ IsFiniteSet(Running) /\ Cardinality(Running) \in Nat /\ Running \subseteq Callbacks
  <1>1. IsFiniteSet(Callbacks)
    BY EventAssumption, FS_AddElement, FS_Union, FS_Singleton DEF Callbacks
  <1>2. Running \subseteq Callbacks
    BY DEF Running
  <1> QED
    BY <1>1, <1>2, FS_Subset, FS_CardinalityType

\* What the counter is after a callback began, ended or went on.
LEMMA CountsRunning ==
    ASSUME CallbacksCounted, NEW c \in Callbacks
    PROVE  /\ Running' = Running /\ UNCHANGED inFlight => CallbacksCounted'
           /\ Running' = Running \cup {c} /\ c \notin Running /\ inFlight' = inFlight + 1
                => CallbacksCounted'
           /\ Running' = Running \ {c} /\ c \in Running
                /\ inFlight' = (IF inFlight > 0 THEN inFlight - 1 ELSE 0)
                => CallbacksCounted'
  <1>1. Running' = Running /\ UNCHANGED inFlight => CallbacksCounted'
    BY DEF CallbacksCounted
  <1>2. ASSUME Running' = Running \cup {c}, c \notin Running, inFlight' = inFlight + 1
        PROVE  CallbacksCounted'
    BY <1>2, RunningFinite, FS_AddElement DEF CallbacksCounted
  <1>3. ASSUME Running' = Running \ {c}, c \in Running,
               inFlight' = IF inFlight > 0 THEN inFlight - 1 ELSE 0
        PROVE  CallbacksCounted'
    <2>1. Cardinality(Running \ {c}) = Cardinality(Running) - 1
      BY <1>3, RunningFinite, FS_RemoveElement
    <2>2. Cardinality(Running \ {c}) \in Nat
      BY <1>3, RunningFinite, FS_RemoveElement, FS_CardinalityType
    <2> QED
      BY <2>1, <2>2, <1>3, RunningFinite DEF CallbacksCounted
  <1> QED
    BY <1>1, <1>2, <1>3

\* Who waited goes on waiting; or one more asks.
LEMMA WritersWait ==
    ASSUME WritersInv, UNCHANGED <<writes, writing>>, TypeOK,
           \A w \in Writers : WaitsForWrite(w) => WaitsForWrite(w)'
    PROVE  WritersInv'
  <1>1. \A k \in 1..Len(writes) : writes[k] \in Writers
    BY DEF TypeOK, Writers
  <1>2. writing # None => writing.by \in Writers
    BY DEF TypeOK, Writers, Writings
  <1> QED
    BY <1>1, <1>2 DEF WritersInv

\* A writer that asks is the last in the queue, and in it once.
LEMMA WriterAsks ==
    ASSUME WritersInv, TypeOK, NEW c \in Writers, ~WaitsForWrite(c), WaitsForWrite(c)',
           writes' = Append(writes, c), UNCHANGED writing,
           \A w \in Writers : WaitsForWrite(w) => WaitsForWrite(w)'
    PROVE  WritersInv'
  <1> DEFINE n == Len(writes)
  <1>0. n \in Nat /\ writes \in Seq(Writers)
    BY DEF TypeOK, Writers
  <1>1. Len(writes') = n + 1 /\ writes'[n + 1] = c /\ \A k \in 1..n : writes'[k] = writes[k]
    BY <1>0
  <1>2. \A k \in 1..n : writes[k] \in Writers /\ writes[k] # c
    BY <1>0 DEF WritersInv
  <1>3. writing # None => writing.by \in Writers /\ writing.by # c
    BY DEF TypeOK, Writings, WritersInv
  <1>4. ASSUME NEW k \in 1..Len(writes')
        PROVE  /\ WaitsForWrite(writes[k])'
               /\ \A j \in 1..Len(writes') :
                    writes'[j] = writes'[k] => j = k \/ writes'[k] = Heartbeat
               /\ writing' # None => writing'.by # writes'[k] \/ writes'[k] = Heartbeat
    <2>1. CASE k = n + 1
      BY <2>1, <1>0, <1>1, <1>2, <1>3
    <2>2. CASE k \in 1..n
      BY <2>2, <1>0, <1>1, <1>2, <1>3 DEF WritersInv
    <2> QED
      BY <2>1, <2>2, <1>0, <1>1
  <1>5. writing' # None => WaitsForWrite(writing.by)'
    BY <1>3 DEF WritersInv
  <1> QED
    BY <1>4, <1>5 DEF WritersInv

\* In an initial state nothing is tracked.
LEMMA TrackingInit == Init => TrackingInv
  <1> SUFFICES ASSUME Init PROVE TrackingInv
    OBVIOUS
  <1>1. TypeOK
    <2>1. bound \in Bounds /\ left \in LeftFiles
      BY BoundAssumption DEF Init
    <2>2. ctl \in ControlStates /\ drain \in Drains
      BY NoDrainType DEF Init, NewControl, ControlStates, Phases
    <2>3. callback \in [Callbacks -> CallbackStates] /\ listen \in Listeners /\ loop \in Loops
      BY DEF Init, CallbackStates, CallbackSteps, Listeners, Loops, LoopSteps
    <2>4. writes \in Seq(Writers)
      BY WriterNames DEF Init
    <2> QED
      BY <2>1, <2>2, <2>3, <2>4 DEF Init, TypeOK, Times
  <1>2. WritersInv
    BY DEF Init, WritersInv, WaitsForWrite
  <1>3. ReplayInv
    BY WriterNames DEF Init, ReplayInv
  <1>4. CallbacksCounted
    <2>1. Running = {}
      BY DEF Init, Running
    <2> QED
      BY <2>1, FS_EmptySet DEF Init, CallbacksCounted
  <1> QED
    BY <1>1, <1>2, <1>3, <1>4 DEF TrackingInv

\* Time and the worker.
LEMMA WorkerStepTracking ==
    ASSUME TrackingInv, Tick \/ WorkerStep
    PROVE  TrackingInv'
  <1> USE WriterNames, BoundAssumption DEF TrackingInv
  <1>1. CASE \E e \in Ev : Process(e)
    <2> PICK e \in Ev : Process(e)
      BY <1>1
    <2>1. callback' = callback \/ \E result \in {"ok", "failed"} :
             callback' = [callback EXCEPT ![Replay].pc = "answered", ![Replay].result = result]
             /\ callback[Replay].pc = "posted"
      BY DEF Process
    <2>2. callback' \in [Callbacks -> CallbackStates]
      <3>1. "answered" \in CallbackSteps
        BY DEF CallbackSteps
      <3>2. \A result \in {"ok", "failed"} :
              [callback EXCEPT ![Replay].pc = "answered", ![Replay].result = result]
                \in [Callbacks -> CallbackStates]
        BY <3>1, CallbackMoves DEF TypeOK
      <3> QED
        BY ZenonT(40), <2>1, <3>2 DEF TypeOK
    <2>3. TypeOK'
      BY <2>2 DEF Process, TypeOK, readVars
    <2>4. \A c \in Callbacks : \/ callback'[c] = callback[c]
                               \/ /\ callback[c].pc = "posted" /\ callback'[c].pc = "answered"
      BY <2>1 DEF TypeOK, CallbackStates
    <2>5. \A w \in Writers : WaitsForWrite(w) => WaitsForWrite(w)'
      BY <2>4 DEF WaitsForWrite, Process
    <2>6. WritersInv'
      BY <2>5, WritersWait DEF Process
    <2>7. ReplayInv'
      BY <2>4 DEF ReplayInv, Process
    <2>8. Running' = Running
      BY <2>4 DEF Running
    <2> QED
      BY <2>3, <2>6, <2>7, <2>8, CountsRunning DEF Process
  <1>2. CASE Tick \/ (WorkerStep /\ ~\E e \in Ev : Process(e))
    <2>1. UNCHANGED <<bound, work, handled, callback, inFlight, observed, listen, loop,
                      writes, writing, beat, store, quarantine>>
      BY <1>2 DEF Tick, WorkerStep, Fence, BeginDrain, Export, ReadSidecar, RemoveFile, CountPermits,
         Accept, Refuse, Claim, Resolve, workerVars, sidecarVars
    <2> USE DEF TypeOK
    <2>2. now' \in Nat /\ ctl' \in ControlStates /\ drain' \in Drains
      <3>1. CASE Tick
        BY <3>1 DEF Tick, workerVars, readVars
      <3>2. ASSUME NEW method \in {"drain", "shutdown"}, Fence(method)
            PROVE  now' \in Nat /\ ctl' \in ControlStates /\ drain' \in Drains
        <4>1. ctl' \in ControlStates
          BY <3>2, GateTypes DEF Fence
        <4>2. ctl'.generation \in Nat
          BY <4>1 DEF ControlStates
        <4> QED
          BY <3>2, <4>1, <4>2 DEF Fence, Drains
      <3>3. CASE BeginDrain
        BY <3>3, DrainMoves DEF BeginDrain
      <3>11. CASE Export
        <4>1. ctl.generation \in Nat
          BY DEF ControlStates
        <4> QED
          BY <3>11, <4>1, NoDrainType DEF Export, Drains
      <3>4. CASE ReadSidecar
        <4>1. SidecarClear(ctl.since) \in BOOLEAN
          BY DEF SidecarClear
        <4>4. (drain.pc = "begun" /\ SidecarClear(ctl.since)) \in BOOLEAN
          BY <4>1
        <4>2. CASE Ignored
          BY <3>4, <4>4, <4>2, DrainMoves DEF ReadSidecar
        <4>3. CASE ~Ignored
          BY <3>4, <4>4, <4>3, DrainMoves DEF ReadSidecar
        <4> QED
          BY <4>2, <4>3
      <3>10. CASE RemoveFile
        BY <3>10, DrainMoves DEF RemoveFile
      <3>5. CASE CountPermits
        BY <3>5, DrainMoves DEF CountPermits, NoPermits
      <3>6. CASE Accept
        BY <3>6, DrainMoves DEF Accept
      <3>7. CASE Refuse
        <4>1. drain.previous \in ControlStates
          BY DEF Drains
        <4> QED
          BY <3>7, <4>1, GateTypes, NoDrainType DEF Refuse
      <3>8. CASE Claim
        BY <3>8, GateTypes DEF Claim
      <3>9. CASE Resolve
        <4>1. ctl.generation \in Nat
          BY DEF ControlStates
        <4>2. /\ CompleteActivation(ctl, ctl.generation, now) \in ControlStates
              /\ CancelActivation(ctl, ctl) \in ControlStates
          BY <4>1, GateTypes
        <4> QED
          BY <3>9, <4>2 DEF Resolve
      <3> QED
        BY <1>2, <3>1, <3>2, <3>3, <3>4, <3>5, <3>6, <3>7, <3>8, <3>9, <3>10, <3>11 DEF WorkerStep
    <2>3. file' \in Files \cup {None} /\ left' \in LeftFiles /\ lapsed' \in BOOLEAN
      <3>1. CASE ReadSidecar
        BY <3>1 DEF ReadSidecar, sidecarVars, LeftFiles
      <3>2. CASE RemoveFile
        BY <3>2 DEF RemoveFile, readVars
      <3>3. CASE ~ReadSidecar /\ ~RemoveFile
        BY <1>2, <3>3 DEF Tick, WorkerStep, Fence, BeginDrain, Export, CountPermits, Accept, Refuse,
           Claim, Resolve, workerVars, readVars, sidecarVars
      <3> QED
        BY <3>1, <3>2, <3>3
    <2>4. TypeOK'
      BY <2>1, <2>2, <2>3 DEF TypeOK
    <2>5. WritersInv' /\ ReplayInv' /\ CallbacksCounted'
      BY <2>1 DEF WritersInv, WaitsForWrite, ReplayInv, CallbacksCounted, Running
    <2> QED
      BY <2>4, <2>5
  <1> QED
    BY <1>1, <1>2

\* A callback that begins, goes on or ends, in terms of what the proofs need.
LEMMA Tracked ==
    ASSUME TypeOK, WritersInv, CallbacksCounted, NEW c \in Callbacks, Track(c),
           callback[c].pc \in {"away", "ended"}, UNCHANGED writing,
           WaitsForWrite(Monitor) => WaitsForWrite(Monitor)'
    PROVE  /\ callback' \in [Callbacks -> CallbackStates] /\ inFlight' \in Nat
           /\ writes' \in Seq(Writers)
           /\ WritersInv' /\ CallbacksCounted'
           /\ \A d \in Callbacks : d # c => callback'[d] = callback[d]
           /\ callback'[c] = [pc |-> "tracking", at |-> now, result |-> "none"]
  <1> USE WriterNames
  <1>1. "tracking" \in CallbackSteps
    BY DEF CallbackSteps
  <1>2. callback' \in [Callbacks -> CallbackStates]
    BY <1>1, CallbackMoves DEF Track, TypeOK
  <1>3. /\ \A d \in Callbacks : d # c => callback'[d] = callback[d]
        /\ callback'[c] = [pc |-> "tracking", at |-> now, result |-> "none"]
    BY DEF Track, TypeOK
  <1>4. \A w \in Writers : WaitsForWrite(w) => WaitsForWrite(w)'
    BY <1>3 DEF WaitsForWrite
  <1>5. WritersInv'
    <2>1. ~WaitsForWrite(c) /\ WaitsForWrite(c)'
      BY <1>3 DEF WaitsForWrite
    <2> QED
      BY <1>4, <2>1, WriterAsks DEF Track
  <1>6. CallbacksCounted'
    <2>1. Running' = Running \cup {c} /\ c \notin Running
      BY <1>3 DEF Running
    <2> QED
      BY <2>1, CountsRunning DEF Track
  <1> QED
    BY <1>2, <1>3, <1>5, <1>6 DEF Track, TypeOK

\* A callback that is over is counted no more, and no other changes.
LEMMA Untracked ==
    ASSUME TypeOK, WritersInv, CallbacksCounted, NEW c \in Callbacks,
           NEW result \in {"none", "ok", "failed", "deferred"}, Untrack(c, result),
           c \in Running, callback[c].pc # "tracking", UNCHANGED <<writing, loop>>
    PROVE  /\ callback' \in [Callbacks -> CallbackStates] /\ inFlight' \in Nat
           /\ writes' \in Seq(Writers)
           /\ WritersInv' /\ CallbacksCounted'
           /\ \A d \in Callbacks : d # c => callback'[d] = callback[d]
           /\ callback'[c] = [pc |-> "untracking", at |-> callback[c].at, result |-> result]
  <1> USE WriterNames
  <1>1. "untracking" \in CallbackSteps /\ callback[c].at \in Nat
    BY DEF CallbackSteps, TypeOK, CallbackStates
  <1>2. callback' \in [Callbacks -> CallbackStates]
    BY <1>1, CallbackMoves DEF Untrack, TypeOK
  <1>3. /\ \A d \in Callbacks : d # c => callback'[d] = callback[d]
        /\ callback'[c] = [pc |-> "untracking", at |-> callback[c].at, result |-> result]
    BY DEF Untrack, TypeOK
  <1>4. \A w \in Writers : WaitsForWrite(w) => WaitsForWrite(w)'
    BY <1>3 DEF WaitsForWrite
  <1>5. WritersInv'
    <2>1. ~WaitsForWrite(c) /\ WaitsForWrite(c)'
      BY <1>3 DEF WaitsForWrite, Running
    <2> QED
      BY <1>4, <2>1, WriterAsks DEF Untrack
  <1>6. CallbacksCounted'
    <2>1. Running' = Running \ {c}
      BY <1>3 DEF Running
    <2> QED
      BY <2>1, CountsRunning DEF Untrack
  <1> QED
    BY <1>2, <1>3, <1>5, <1>6 DEF Untrack, TypeOK

\* A callback that goes on is still counted.
LEMMA StillCounted ==
    ASSUME TypeOK, WritersInv, CallbacksCounted, NEW c \in Callbacks, NEW pc \in CallbackSteps,
           Move(c, pc), c \in Running, callback[c].pc # "tracking",
           pc \notin {"away", "untracking", "ended"},
           UNCHANGED <<writing, writes, loop, inFlight>>
    PROVE  /\ callback' \in [Callbacks -> CallbackStates]
           /\ WritersInv' /\ CallbacksCounted' /\ Running' = Running
           /\ \A d \in Callbacks : d # c => callback'[d] = callback[d]
           /\ callback'[c] = [callback[c] EXCEPT !.pc = pc]
  <1> USE WriterNames
  <1>2. callback' \in [Callbacks -> CallbackStates]
    BY CallbackMoves DEF Move, TypeOK
  <1>3. /\ \A d \in Callbacks : d # c => callback'[d] = callback[d]
        /\ callback'[c] = [callback[c] EXCEPT !.pc = pc] /\ callback'[c].pc = pc
    BY DEF Move, TypeOK, CallbackStates
  <1>4. \A w \in Writers : WaitsForWrite(w) => WaitsForWrite(w)'
    BY <1>3 DEF WaitsForWrite, Running
  <1>5. WritersInv'
    BY <1>4, WritersWait
  <1>6. Running' = Running
    BY <1>3 DEF Running
  <1> QED
    BY <1>2, <1>3, <1>5, <1>6, CountsRunning

\* The listeners after a wait of one that stops them.
LEMMA StoppedType ==
    ASSUME listen \in Listeners, NEW pc \in StopSteps
    PROVE  /\ Stopped(listen, pc).listen \in Listeners
           /\ Stopped(listen, pc).next \in {"stopMsg", "stopCard", "done"}
  BY DEF Stopped, NextStop, Listeners, StopSteps

\* The steps of a callback.
LEMMA ReceiveTracking ==
    ASSUME TrackingInv, NEW e \in Ev, Receive(e)
    PROVE  TrackingInv'
  <1> USE WriterNames DEF TrackingInv, Receive
  <1>1. /\ callback' \in [Callbacks -> CallbackStates] /\ inFlight' \in Nat
        /\ writes' \in Seq(Writers)
        /\ WritersInv' /\ CallbacksCounted'
        /\ \A d \in Callbacks : d # e => callback'[d] = callback[d]
    BY Tracked DEF WaitsForWrite
  <1>2. TypeOK'
    BY <1>1 DEF TypeOK, workerVars, readVars
  <1>3. ReplayInv'
    BY <1>1 DEF ReplayInv
  <1> QED
    BY <1>1, <1>2, <1>3

\* A step of a callback keeps the count.
LEMMA CallbackStepTracking ==
    ASSUME TrackingInv, NEW c \in Callbacks, CallbackStep(c)
    PROVE  TrackingInv'
  <1> USE WriterNames DEF TrackingInv
  <1>0. UNCHANGED <<bound, now, ctl, drain, handled, left, lapsed, observed, loop, writing,
                    beat, file, quarantine>>
    BY DEF CallbackStep, Fetch, Post, TakeAck, Store, StopByCallback, workerVars, readVars
  <1>1. EventOf(c) \in Ev \/ callback[c].pc \in {"away"}
    BY DEF EventOf, ReplayInv, Callbacks
  <1>2. work' \in [Ev -> Nat] /\ store' \subseteq Ev /\ listen' \in Listeners
    <2>1. CASE Post(c)
      <3>1. EventOf(c) \in Ev
        BY <1>1, <2>1 DEF Post
      <3>2. work[EventOf(c)] + 1 \in Nat
        BY <3>1 DEF TypeOK
      <3>3. [work EXCEPT ![EventOf(c)] = work[EventOf(c)] + 1] \in [Ev -> Nat]
        BY <3>1, <3>2 DEF TypeOK
      <3> QED
        BY <2>1, <3>3 DEF Post, TypeOK
    <2>2. CASE Store(c)
      BY <1>1, <2>2 DEF Store, TypeOK, workerVars, readVars
    <2>3. CASE StopByCallback(c)
      BY <2>3, StoppedType DEF StopByCallback, TypeOK, workerVars, readVars, StopSteps
    <2>4. CASE Fetch(c) \/ TakeAck(c)
      BY <2>4 DEF Fetch, TakeAck, TypeOK, workerVars, readVars
    <2> QED
      BY <2>1, <2>2, <2>3, <2>4 DEF CallbackStep
  <1>3. /\ callback[c].pc \in {"fetching", "sending", "posted", "answered", "storing"} \cup StopSteps
        /\ \/ \E pc \in CallbackSteps \ {"away", "tracking", "untracking", "ended"} :
                Move(c, pc) /\ UNCHANGED <<writes, inFlight>>
           \/ \E result \in {"none", "ok", "failed", "deferred"} : Untrack(c, result)
    <2>1. CASE Fetch(c)
      BY <2>1 DEF Fetch, CallbackSteps
    <2>2. CASE Post(c)
      BY <2>2 DEF Post, CallbackSteps
    <2>3. CASE TakeAck(c)
      BY <2>3 DEF TakeAck, CallbackSteps, TypeOK, CallbackStates
    <2>4. CASE Store(c)
      BY <2>4 DEF Store, CallbackSteps
    <2>5. CASE StopByCallback(c)
      <3>1. Stopped(listen, callback[c].pc).next \in {"stopMsg", "stopCard", "done"}
        BY <2>5, StoppedType DEF StopByCallback, TypeOK, StopSteps
      <3> QED
        BY <2>5, <3>1 DEF StopByCallback, CallbackSteps, StopSteps
    <2> QED
      BY <2>1, <2>2, <2>3, <2>4, <2>5 DEF CallbackStep
  <1>4. c \in Running /\ callback[c].pc # "tracking"
    BY <1>3 DEF Running, StopSteps
  <1>5. /\ callback' \in [Callbacks -> CallbackStates] /\ inFlight' \in Nat
        /\ writes' \in Seq(Writers)
        /\ WritersInv' /\ CallbacksCounted'
        /\ \A d \in Callbacks : d # c => callback'[d] = callback[d]
    BY ZenonT(40), <1>0, <1>3, <1>4, StillCounted, Untracked DEF TypeOK
  <1>6. TypeOK'
    BY <1>0, <1>2, <1>5 DEF TypeOK
  <1>7. ReplayInv'
    BY <1>0, <1>4, <1>5 DEF ReplayInv, Running
  <1> QED
    BY <1>5, <1>6, <1>7

\* The writes of the drain state.
LEMMA BeginWriteTracking ==
    ASSUME TrackingInv, BeginWrite
    PROVE  TrackingInv'
  <1> USE DEF TrackingInv, BeginWrite
  <1>0. /\ writes \in Seq(Writers) /\ Len(writes) > 0 /\ Head(writes) = writes[1]
        /\ writes[1] \in Writers
        /\ Tail(writes) \in Seq(Writers) /\ Len(Tail(writes)) = Len(writes) - 1
        /\ \A k \in 1..Len(Tail(writes)) : Tail(writes)[k] = writes[k + 1]
    BY DEF TypeOK, Writers
  <1>1. TypeOK'
    BY <1>0 DEF TypeOK, Writings, Writers, workerVars, readVars
  <1>2. WritersInv'
    <2>1. ASSUME NEW k \in 1..Len(writes')
          PROVE  /\ WaitsForWrite(writes[k])'
                 /\ \A j \in 1..Len(writes') :
                      writes'[j] = writes'[k] => j = k \/ writes'[k] = Heartbeat
                 /\ writing'.by # writes'[k] \/ writes'[k] = Heartbeat
      <3>1. k + 1 \in 1..Len(writes) /\ 1 \in 1..Len(writes) /\ writes'[k] = writes[k + 1]
        BY <1>0
      <3>2. /\ WaitsForWrite(writes[k + 1])
            /\ writes[1] # writes[k + 1] \/ writes[k + 1] = Heartbeat
        BY <3>1 DEF WritersInv
      <3> QED
        BY <1>0, <3>1, <3>2 DEF WritersInv, WaitsForWrite
    <2>2. WaitsForWrite(writing.by)'
      BY <1>0 DEF WritersInv, WaitsForWrite
    <2> QED
      BY <2>1, <2>2 DEF WritersInv
  <1>3. ReplayInv' /\ CallbacksCounted'
    BY DEF ReplayInv, CallbacksCounted, Running
  <1> QED
    BY <1>1, <1>2, <1>3

\* A write that ends keeps the count.
LEMMA EndWriteTracking ==
    ASSUME TrackingInv, EndWrite
    PROVE  TrackingInv'
  <1> USE WriterNames DEF TrackingInv, EndWrite
  <1>0. /\ writing \in Writings /\ WaitsForWrite(writing.by) /\ writing.by \in Writers
        /\ \A k \in 1..Len(writes) :
             /\ writes[k] \in Writers /\ WaitsForWrite(writes[k])
             /\ writes[k] # writing.by \/ writes[k] = Heartbeat
    BY DEF TypeOK, WritersInv, Writings
  <1>1. file' \in Files
    BY <1>0 DEF Writings, Files
  <1>2. CASE writing.by = Monitor
    <2>1. loop' \in Loops /\ loop' = [loop EXCEPT !.pc = AfterWrite(loop.pc)]
          /\ loop.pc \in {"starting", "clearing", "removing", "observing"}
      BY <1>0, <1>2, LoopMoves DEF WaitsForWrite, AfterWrite, LoopSteps, TypeOK
    <2>2. TypeOK'
      BY <1>1, <1>2, <2>1 DEF TypeOK, workerVars, readVars
    <2>3. WritersInv'
      BY <1>0, <1>2 DEF WritersInv, WaitsForWrite
    <2>4. loop'.event = loop.event /\ loop'.pc # "replaying"
      BY <2>1 DEF AfterWrite, Loops, TypeOK
    <2>5. ReplayInv'
      BY <1>2, <2>1, <2>4 DEF ReplayInv
    <2>6. CallbacksCounted'
      BY <1>2 DEF CallbacksCounted, Running
    <2> QED
      BY <2>2, <2>3, <2>5, <2>6
  <1>4. CASE writing.by = Heartbeat
    <2>1. TypeOK'
      BY <1>1, <1>4 DEF TypeOK, workerVars, readVars
    <2> QED
      BY <1>0, <1>4, <2>1 DEF WritersInv, WaitsForWrite, ReplayInv, CallbacksCounted, Running
  <1>3. CASE writing.by \in Callbacks
    <2> DEFINE by == writing.by
               pc == IF callback[by].pc = "untracking" THEN "ended"
                     ELSE IF by = Replay THEN "sending" ELSE "fetching"
    <2>1. by \in Callbacks /\ callback[by].pc \in {"tracking", "untracking"}
      BY <1>0, <1>3 DEF WaitsForWrite
    <2>2. pc \in CallbackSteps /\ Move(by, pc) /\ loop' = loop
      BY <1>3 DEF CallbackSteps
    <2>3. callback' \in [Callbacks -> CallbackStates]
      BY <2>1, <2>2, CallbackMoves DEF Move, TypeOK
    <2>4. /\ \A d \in Callbacks : d # by => callback'[d] = callback[d]
          /\ callback'[by].pc = pc
      BY <2>1, <2>2 DEF Move, TypeOK, CallbackStates
    <2>5. TypeOK'
      BY <1>1, <2>2, <2>3 DEF TypeOK, workerVars, readVars
    <2>6. WritersInv'
      BY <1>0, <2>2, <2>4 DEF WritersInv, WaitsForWrite
    <2>7. ReplayInv'
      BY <2>1, <2>2, <2>4 DEF ReplayInv
    <2>8. Running' = Running
      <3>1. /\ callback[by].pc = "untracking" => pc = "ended"
            /\ callback[by].pc = "tracking" => pc \in {"sending", "fetching"}
        OBVIOUS
      <3> HIDE DEF pc, by
      <3> QED
        BY <2>1, <2>4, <3>1 DEF Running
    <2> QED
      BY <2>1, <2>5, <2>6, <2>7, <2>8, CountsRunning
  <1> QED
    BY <1>0, <1>2, <1>3, <1>4

\* The heartbeat asks for a write, and the sidecar ends.
LEMMA BeatTracking ==
    ASSUME TrackingInv, Beat
    PROVE  TrackingInv'
  <1> USE WriterNames DEF TrackingInv, Beat
  <1>0. /\ writes \in Seq(Writers) /\ Len(writes') = Len(writes) + 1 /\ Len(writes) \in Nat
        /\ writes'[Len(writes) + 1] = Heartbeat
        /\ \A k \in 1..Len(writes) : writes'[k] = writes[k]
    BY DEF TypeOK
  <1>1. TypeOK'
    BY DEF TypeOK, workerVars, readVars
  <1>2. WritersInv'
    BY <1>0 DEF WritersInv, WaitsForWrite
  <1>3. ReplayInv' /\ CallbacksCounted'
    BY DEF ReplayInv, CallbacksCounted, Running
  <1> QED
    BY <1>1, <1>2, <1>3

\* A sidecar that is gone tracks nothing.
LEMMA ExitTracking ==
    ASSUME TrackingInv, Exit
    PROVE  TrackingInv' /\ Running' = {}
  <1> USE WriterNames DEF TrackingInv, Exit
  <1>1. /\ loop'.pc = "gone" /\ loop'.event = loop.event /\ loop' \in Loops
    BY DEF TypeOK, Loops, LoopSteps
  <1>2. \A c \in Callbacks : /\ callback'[c].pc = "away" /\ callback'[c].at = 0
                             /\ callback'[c].result = callback[c].result
    BY DEF TypeOK, CallbackStates
  <1>3. callback' \in [Callbacks -> CallbackStates]
    BY DEF TypeOK, CallbackStates, CallbackSteps
  <1>4. TypeOK'
    <2>1. /\ UNCHANGED <<bound, now, ctl, drain, work, handled, left, lapsed, store, quarantine>>
          /\ inFlight' = 0 /\ beat' = 0 /\ observed' = None /\ writing' = None
          /\ file' = file \/ file' = None
      BY DEF workerVars, readVars
    <2>2. listen' \in Listeners
      BY DEF Listeners
    <2>3. writes' = <<>>
      OBVIOUS
    <2>4. writes' \in Seq(Writers)
      BY <2>3, NoneWaits
    <2> HIDE DEF Exit
    <2> QED
      BY <1>1, <1>3, <2>1, <2>2, <2>4 DEF TypeOK, Times
  <1>5. WritersInv'
    <2>1. Len(writes') = 0 /\ writing' = None
      OBVIOUS
    <2> HIDE DEF Exit
    <2> QED
      BY <2>1 DEF WritersInv
  <1>6. ReplayInv'
    BY <1>1, <1>2 DEF ReplayInv
  <1>7. Running' = {}
    BY <1>2 DEF Running
  <1> QED
    BY <1>4, <1>5, <1>6, <1>7, FS_EmptySet DEF CallbacksCounted

\* The loop goes on, or asks for a write, while the callbacks stay as they are.
LEMMA LoopGoesOn ==
    ASSUME TrackingInv, ~WaitsForWrite(Monitor), loop.pc # "replaying" \/ loop'.event = loop.event,
           UNCHANGED <<callback, inFlight, writing>>, loop' \in Loops,
           \/ UNCHANGED writes
           \/ writes' = Append(writes, Monitor) /\ WaitsForWrite(Monitor)',
           loop'.event = loop.event, loop'.pc # "replaying",
           loop.pc = "replaying" => callback[Replay].pc = "ended"
    PROVE  /\ writes' \in Seq(Writers)
           /\ WritersInv' /\ ReplayInv' /\ CallbacksCounted'
  <1> USE WriterNames DEF TrackingInv
  <1>1. \A w \in Writers : WaitsForWrite(w) => WaitsForWrite(w)'
    BY DEF WaitsForWrite
  <1>2. WritersInv'
    BY <1>1, WritersWait, WriterAsks
  <1>3. ReplayInv' /\ CallbacksCounted'
    BY DEF ReplayInv, CallbacksCounted, Running
  <1> QED
    BY <1>2, <1>3 DEF TypeOK

\* The replay goes on to its next record, or ends.
LEMMA ReplayNextTracking ==
    ASSUME TrackingInv, NEW e \in Ev, ReplayNext(e)
    PROVE  TrackingInv'
  <1> USE WriterNames DEF TrackingInv, ReplayNext
  <1>1. loop.todo \in SUBSET Ev /\ "replaying" \in LoopSteps
    BY DEF TypeOK, Loops, LoopSteps
  <1>2. loop' \in Loops
    BY <1>1, LoopMoves DEF TypeOK
  <1>3. loop'.pc = "replaying" /\ loop'.event = e
    BY DEF TypeOK, Loops
  <1>4. /\ callback' \in [Callbacks -> CallbackStates] /\ inFlight' \in Nat
        /\ writes' \in Seq(Writers)
        /\ WritersInv' /\ CallbacksCounted'
    BY Tracked DEF ReplayInv, WaitsForWrite
  <1>5. TypeOK'
    BY <1>2, <1>4 DEF TypeOK, workerVars, readVars
  <1>6. ReplayInv'
    BY <1>3 DEF ReplayInv
  <1> QED
    BY <1>4, <1>5, <1>6

\* A step of the monitor loop keeps the count.
LEMMA LoopStepTracking ==
    ASSUME TrackingInv, LoopStep
    PROVE  TrackingInv'
  <1> USE WriterNames DEF TrackingInv
  <1>1. CASE \E e \in Ev : ReplayNext(e)
    BY <1>1, ReplayNextTracking
  <1>2. CASE ~\E e \in Ev : ReplayNext(e)
    <2>0. /\ UNCHANGED <<bound, workerVars, now, callback, inFlight, writing, beat, file>>
          /\ loop.pc \in {"check", "answered", "list", "replaying", "replay", "listenMsg", "listenCard"}
                \cup StopSteps
          /\ loop.pc = "replaying" => callback[Replay].pc = "ended"
      BY <1>2 DEF LoopStep, Check, TakeAnswer, StopByMonitor, ListDeferred, ReplayDone,
         StartListening, Listen, StopSteps, Observe
    <2>1. ~WaitsForWrite(Monitor)
      BY <2>0 DEF WaitsForWrite, StopSteps
    <2>2. observed' \in Times /\ listen' \in Listeners /\ store' \subseteq Ev /\ quarantine' \subseteq Ev
      <3>1. loop.pc = "replaying" => loop.event \in Ev
        BY DEF ReplayInv
      <3>2. CASE StopByMonitor
        BY <3>2, StoppedType DEF StopByMonitor, TypeOK, StopSteps, Observe, Times
      <3>3. CASE Listen
        BY <3>3 DEF Listen, TypeOK, Listeners
      <3>4. CASE ReplayDone
        BY <3>1, <3>4 DEF ReplayDone, TypeOK
      <3>5. CASE Check \/ TakeAnswer \/ ListDeferred \/ StartListening
        BY <3>5 DEF Check, TakeAnswer, ListDeferred, StartListening, TypeOK, Observe, Times
      <3> QED
        BY <1>2, <3>2, <3>3, <3>4, <3>5 DEF LoopStep
    <2> DEFINE GoesOn == /\ loop' \in Loops /\ loop'.event = loop.event /\ loop'.pc # "replaying"
                         /\ \/ UNCHANGED writes
                            \/ writes' = Append(writes, Monitor) /\ WaitsForWrite(Monitor)'
    <2>3. GoesOn
      <3> DEFINE Goes == \E pc \in LoopSteps \ {"replaying"} :
                            /\ Goto(pc)
                            /\ \/ UNCHANGED writes
                               \/ /\ writes' = Append(writes, Monitor)
                                  /\ pc \in {"clearing", "removing", "observing"}
      <3>0. ASSUME Goes
            PROVE  GoesOn
        <4> PICK pc \in LoopSteps \ {"replaying"} :
                   /\ Goto(pc)
                   /\ \/ UNCHANGED writes
                      \/ /\ writes' = Append(writes, Monitor)
                         /\ pc \in {"clearing", "removing", "observing"}
          BY <3>0
        <4>1. loop' \in Loops
          BY LoopMoves DEF Goto, TypeOK
        <4>2. loop'.event = loop.event /\ loop'.pc = pc
          BY DEF Goto, TypeOK, Loops
        <4> QED
          BY <4>1, <4>2 DEF WaitsForWrite
      <3>1. CASE Check
        <4>1. loop' = [loop EXCEPT !.pc = "answered", !.ok = ctl.phase = "Active"]
              /\ "answered" \in LoopSteps
          BY <3>1 DEF Check, LoopSteps
        <4>2. (ctl.phase = "Active") \in BOOLEAN
          OBVIOUS
        <4>3. loop' \in Loops
          BY <4>1, <4>2, LoopMoves DEF TypeOK
        <4>4. loop'.event = loop.event /\ loop'.pc = "answered"
          BY <4>1 DEF TypeOK, Loops
        <4> QED
          BY <3>1, <4>3, <4>4 DEF Check
      <3>2. CASE TakeAnswer
        <4>1. Goes
          BY <3>2 DEF TakeAnswer, Observe, LoopSteps
        <4> QED
          BY <3>0, <4>1
      <3>3. CASE StopByMonitor
        <4>1. Stopped(listen, loop.pc).next \in {"stopMsg", "stopCard", "done"}
          BY <3>3, StoppedType DEF StopByMonitor, TypeOK, StopSteps
        <4>2. Goes
          BY <3>3, <4>1 DEF StopByMonitor, Observe, LoopSteps
        <4> QED
          BY <3>0, <4>2
      <3>4. CASE ListDeferred
        <4>1. loop' = [loop EXCEPT !.pc = "replay", !.todo = store]
              /\ "replay" \in LoopSteps /\ store \in SUBSET Ev
          BY <3>4 DEF ListDeferred, LoopSteps, TypeOK
        <4>3. loop' \in Loops
          BY <4>1, LoopMoves DEF TypeOK
        <4>4. loop'.event = loop.event /\ loop'.pc = "replay"
          BY <4>1 DEF TypeOK, Loops
        <4> QED
          BY <3>4, <4>3, <4>4 DEF ListDeferred
      <3>5. CASE ReplayDone
        <4>1. Goes
          BY <3>5 DEF ReplayDone, LoopSteps
        <4> QED
          BY <3>0, <4>1
      <3>6. CASE StartListening
        <4> DEFINE pc == IF listen.active THEN "check" ELSE "listenMsg"
        <4>1. loop' = [loop EXCEPT !.started = TRUE, !.pc = pc] /\ pc \in LoopSteps
          BY <3>6 DEF StartListening, LoopSteps
        <4>3. loop' \in Loops
          BY <4>1, LoopMoves DEF TypeOK
        <4>4. loop'.event = loop.event /\ loop'.pc = pc /\ pc # "replaying"
          BY <4>1 DEF TypeOK, Loops
        <4> QED
          BY <3>6, <4>3, <4>4 DEF StartListening
      <3>7. CASE Listen
        <4>1. Goes
          BY <3>7 DEF Listen, LoopSteps
        <4> QED
          BY <3>0, <4>1
      <3> QED
        BY <1>2, <3>1, <3>2, <3>3, <3>4, <3>5, <3>6, <3>7 DEF LoopStep
    <2>4. /\ writes' \in Seq(Writers)
          /\ WritersInv' /\ ReplayInv' /\ CallbacksCounted'
      BY <2>0, <2>1, <2>3, LoopGoesOn
    <2>5. TypeOK'
      BY <2>0, <2>2, <2>3, <2>4 DEF TypeOK, workerVars, readVars
    <2> QED
      BY <2>4, <2>5
  <1> QED
    BY <1>1, <1>2

\* Every step keeps the count.
LEMMA TrackingStep == TrackingInv /\ [Next]_vars => TrackingInv'
  <1> SUFFICES ASSUME TrackingInv, [Next]_vars
               PROVE  TrackingInv'
    OBVIOUS
  <1>1. ASSUME UNCHANGED vars PROVE TrackingInv'
    BY <1>1 DEF vars, TrackingInv, TypeOK, WritersInv, WaitsForWrite, ReplayInv,
                CallbacksCounted, Running
  <1>3. CASE Orphaned
    BY <1>1, <1>3 DEF Orphaned
  <1>2. CASE Next /\ ~Orphaned
    <2>1. \A e \in bound.events : e \in Ev
      BY BoundAssumption DEF TrackingInv, TypeOK
    <2> QED
      BY <1>2, <2>1, WorkerStepTracking, ReceiveTracking, CallbackStepTracking,
         BeginWriteTracking, EndWriteTracking, BeatTracking, LoopStepTracking,
         ExitTracking DEF Next
  <1> QED
    BY <1>1, <1>2, <1>3

\* What is tracked is what is counted, in every state.
LEMMA TrackingAlways == Spec => []TrackingInv
  <1> QED
    BY TrackingInit, TrackingStep, PTL DEF Spec

\* The counter of the sidecar is the number of callbacks under way.
THEOREM CounterExact == Spec => []CounterInv
  <1>1. TrackingInv => CounterInv
    BY DEF TrackingInv, CounterInv
  <1> QED
    BY <1>1, TrackingAlways, PTL
-----------------------------------------------------------------------------
(* No event is forgotten.                                                  *)

\* In an initial state nothing was deferred.
LEMMA StoredInit == Init => StoredInv
  BY WriterNames DEF Init, StoredInv

\* The callbacks, the events and what is stored of them stay; or more is handled.
LEMMA StoredStays ==
    ASSUME StoredInv, UNCHANGED <<callback, store, quarantine>>, handled \subseteq handled',
           loop'.event = loop.event
    PROVE  StoredInv'
  BY DEF StoredInv

\* An event that is processed leaves the others where they are.
LEMMA ProcessStored ==
    ASSUME TrackingInv, StoredInv, NEW e \in Ev, Process(e)
    PROVE  StoredInv'
  <1> USE WriterNames DEF TrackingInv
  <1>0. UNCHANGED <<loop, store, quarantine>> /\ handled \subseteq handled'
    BY DEF Process
  <1>1. CASE callback' = callback
    BY <1>0, <1>1, StoredStays
  <1>2. CASE callback' # callback
    <2>1. PICK result \in {"ok", "failed"} :
             /\ handled' = IF result = "ok" THEN handled \cup {e} ELSE handled
             /\ loop.event = e
             /\ callback' = [callback EXCEPT ![Replay].pc = "answered", ![Replay].result = result]
      BY <1>2 DEF Process
    <2>2. /\ \A c \in Ev : callback'[c] = callback[c]
          /\ callback'[Replay].pc = "answered" /\ callback'[Replay].result = result
      BY <2>1 DEF TypeOK, CallbackStates
    <2> QED
      BY <1>0, <2>1, <2>2 DEF StoredInv
  <1> QED
    BY <1>1, <1>2

\* A callback that begins leaves every event where it is.
LEMMA TrackStored ==
    ASSUME TrackingInv, StoredInv, NEW c \in Callbacks, Track(c),
           UNCHANGED <<store, handled, quarantine>>, c # Replay => loop'.event = loop.event
    PROVE  StoredInv'
  <1>1. /\ \A d \in Callbacks : d # c => callback'[d] = callback[d]
        /\ callback'[c] = [pc |-> "tracking", at |-> now, result |-> "none"]
    BY DEF Track, TrackingInv, TypeOK
  <1> QED
    BY <1>1, WriterNames DEF StoredInv

\* A step of a callback forgets no event.
LEMMA CallbackStepStored ==
    ASSUME TrackingInv, StoredInv, NEW c \in Callbacks, CallbackStep(c)
    PROVE  StoredInv'
  <1> USE WriterNames
  <1>0. UNCHANGED <<loop, handled, quarantine>> /\ store \subseteq store'
    BY DEF CallbackStep, Fetch, Post, TakeAck, Store, StopByCallback, workerVars, readVars
  <1>1. \A d \in Callbacks : d # c => callback'[d] = callback[d]
    BY DEF CallbackStep, Fetch, Post, TakeAck, Store, StopByCallback, Move, Untrack,
       TrackingInv, TypeOK
  <1>2. ASSUME NEW pc, Move(c, pc)
        PROVE  callback'[c].pc = pc /\ callback'[c].result = callback[c].result
    BY <1>2 DEF Move, TrackingInv, TypeOK, CallbackStates
  <1>3. ASSUME NEW result, Untrack(c, result)
        PROVE  callback'[c].pc = "untracking" /\ callback'[c].result = result
    BY <1>3 DEF Untrack, TrackingInv, TypeOK, CallbackStates
  <1>4. callback[c].pc \in StopSteps => EventOf(c) \in store \cup handled \cup quarantine
        /\ (c = Replay => EventOf(c) \in store \cup handled)
    BY DEF StoredInv, EventOf, StopSteps, Callbacks
  <1>5. CASE Fetch(c)
    BY <1>0, <1>1, <1>2, <1>3, <1>5 DEF Fetch, StoredInv
  <1>6. CASE Post(c)
    <2>1. Move(c, "posted") \/ Move(c, "storing")
      BY <1>6 DEF Post
    <2>2. callback'[c].pc \in {"posted", "storing"} /\ callback'[c].result = callback[c].result
      BY <1>2, <2>1
    <2>3. UNCHANGED store /\ callback[c].pc = "sending"
      BY <1>6 DEF Post
    <2> QED
      BY <1>0, <1>1, <2>2, <2>3 DEF StoredInv
  <1>7. CASE TakeAck(c)
    BY <1>0, <1>1, <1>2, <1>3, <1>7 DEF TakeAck, StoredInv
  <1>8. CASE Store(c)
    <2>1. callback'[c].pc = "stop" /\ callback'[c].result = callback[c].result
          /\ EventOf(c) \in store'
      BY <1>2, <1>8 DEF Store
    <2> QED
      BY <1>0, <1>1, <2>1 DEF StoredInv, EventOf
  <1>9. CASE StopByCallback(c)
    <2>1. callback[c].pc \in StopSteps /\ UNCHANGED store
      BY <1>9 DEF StopByCallback, StopSteps
    <2>2. Stopped(listen, callback[c].pc).next \in {"stopMsg", "stopCard", "done"}
      BY <2>1, StoppedType DEF TrackingInv, TypeOK
    <2>3. \/ callback'[c].pc \in StopSteps /\ callback'[c].result = callback[c].result
          \/ callback'[c].pc = "untracking" /\ callback'[c].result = "deferred"
      BY <1>2, <1>3, <1>9, <2>2 DEF StopByCallback, StopSteps
    <2> QED
      BY <1>0, <1>1, <1>4, <2>1, <2>3 DEF StoredInv, EventOf, StopSteps
  <1> QED
    BY <1>5, <1>6, <1>7, <1>8, <1>9 DEF CallbackStep

\* A write that ends forgets no event.
LEMMA EndWriteStored ==
    ASSUME TrackingInv, StoredInv, EndWrite
    PROVE  StoredInv'
  <1> USE WriterNames
  <1>0. UNCHANGED <<handled, store, quarantine>> /\ writing.by \in Writers
        /\ WaitsForWrite(writing.by)
    BY DEF EndWrite, workerVars, readVars, TrackingInv, TypeOK, Writings, WritersInv, Writers
  <1>1. CASE writing.by = Monitor
    <2>1. loop'.event = loop.event /\ callback' = callback
      BY <1>1 DEF EndWrite, TrackingInv, TypeOK, Loops
    <2> QED
      BY <1>0, <2>1, StoredStays
  <1>3. CASE writing.by = Heartbeat
    BY <1>0, <1>3, StoredStays DEF EndWrite
  <1>2. CASE writing.by \in Callbacks
    <2> DEFINE by == writing.by
               pc == IF callback[by].pc = "untracking" THEN "ended"
                     ELSE IF by = Replay THEN "sending" ELSE "fetching"
    <2>1. by \in Callbacks /\ callback[by].pc \in {"tracking", "untracking"}
      BY <1>0, <1>2 DEF WaitsForWrite
    <2>2. Move(by, pc) /\ loop' = loop
      BY <1>2 DEF EndWrite
    <2>3. /\ \A d \in Callbacks : d # by => callback'[d] = callback[d]
          /\ callback'[by].pc = pc /\ callback'[by].result = callback[by].result
      BY <2>1, <2>2 DEF Move, TrackingInv, TypeOK, CallbackStates
    <2> QED
      BY <1>0, <2>1, <2>2, <2>3 DEF StoredInv
  <1> QED
    BY <1>0, <1>1, <1>2, <1>3

\* A step of the monitor loop forgets no event.
LEMMA LoopStepStored ==
    ASSUME TrackingInv, StoredInv, LoopStep
    PROVE  StoredInv'
  <1> USE WriterNames DEF TrackingInv
  <1>1. CASE \E e \in Ev : ReplayNext(e)
    BY <1>1, TrackStored DEF ReplayNext, workerVars, readVars
  <1>2. CASE ReplayDone
    <2>1. loop'.event = loop.event /\ callback' = callback /\ handled' = handled
      BY <1>2 DEF ReplayDone, workerVars, readVars, Goto, TypeOK, Loops
    <2>2. callback[Replay].result \in {"ok", "failed", "deferred"}
      BY <1>2 DEF ReplayDone, StoredInv, TypeOK, CallbackStates
    <2>3. CASE callback[Replay].result = "deferred"
      BY <1>2, <2>1, <2>3, StoredStays DEF ReplayDone
    <2>4. CASE callback[Replay].result # "deferred"
      <3>1. /\ store' = store \ {loop.event}
            /\ quarantine' = IF callback[Replay].result = "failed"
                             THEN quarantine \cup {loop.event} ELSE quarantine
            /\ callback[Replay].pc = "ended"
        BY <1>2, <2>4 DEF ReplayDone
      <3>2. loop.event \in handled' \cup quarantine'
        BY <2>1, <2>2, <2>4, <3>1 DEF StoredInv
      <3> QED
        BY <2>1, <2>4, <3>1, <3>2 DEF StoredInv
    <2> QED
      BY <2>3, <2>4
  <1>3. CASE Check \/ TakeAnswer \/ StopByMonitor \/ ListDeferred \/ StartListening \/ Listen
    <2>1. UNCHANGED <<callback, store, quarantine, handled>>
      BY <1>3 DEF Check, TakeAnswer, StopByMonitor, ListDeferred, StartListening, Listen,
        workerVars, readVars
    <2>2. loop'.event = loop.event
      BY <1>3 DEF Check, TakeAnswer, StopByMonitor, ListDeferred, StartListening, Listen,
        Goto,
                  Observe, TypeOK, Loops
    <2> QED
      BY <2>1, <2>2, StoredStays
  <1> QED
    BY <1>1, <1>2, <1>3 DEF LoopStep

\* No step forgets an event.
LEMMA StoredStep == TrackingInv /\ StoredInv /\ [Next]_vars => StoredInv'
  <1> SUFFICES ASSUME TrackingInv, StoredInv, [Next]_vars
               PROVE  StoredInv'
    OBVIOUS
  <1>1. CASE UNCHANGED vars \/ Orphaned
    BY <1>1 DEF Orphaned, vars, StoredInv
  <1>2. CASE Tick
    BY <1>2, StoredStays DEF Tick, workerVars, readVars, sidecarVars
  <1>3. CASE WorkerStep
    <2>1. CASE \E e \in Ev : Process(e)
      BY <2>1, ProcessStored
    <2>2. CASE ~\E e \in Ev : Process(e)
      BY <1>3, <2>2, StoredStays DEF WorkerStep, Fence, BeginDrain, Export, ReadSidecar,
        RemoveFile, CountPermits, Accept, Refuse, Claim, Resolve, sidecarVars
    <2> QED
      BY <2>1, <2>2
  <1>4. CASE \E e \in bound.events : Receive(e)
    <2>1. \A e \in bound.events : e \in Ev /\ e \in Callbacks /\ e # Replay
      BY BoundAssumption, WriterNames DEF TrackingInv, TypeOK
    <2> QED
      BY <1>4, <2>1, TrackStored DEF Receive, workerVars, readVars
  <1>5. CASE BeginWrite
    BY <1>5, StoredStays DEF BeginWrite, workerVars, readVars
  <1>6. CASE Beat
    BY <1>6, StoredStays DEF Beat, workerVars, readVars
  <1>7. CASE Exit
    <2>1. /\ loop'.event = loop.event /\ UNCHANGED <<handled, store, quarantine>>
          /\ \A c \in Callbacks : callback'[c].pc = "away"
                                 /\ callback'[c].result = callback[c].result
      BY <1>7 DEF Exit, workerVars, TrackingInv, TypeOK, Loops, CallbackStates
    <2> QED
      BY <2>1, WriterNames DEF StoredInv
  <1> QED
    BY <1>1, <1>2, <1>3, <1>4, <1>5, <1>6, <1>7, CallbackStepStored, EndWriteStored,
      LoopStepStored DEF Next

\* An event that was deferred is stored until it is processed or quarantined.
THEOREM NoEventForgotten == Spec => []NoneForgotten
  <1>1. StoredInv => NoneForgotten
    BY DEF StoredInv, NoneForgotten
  <1> QED
    BY <1>1, TrackingInit, TrackingStep, StoredInit, StoredStep, PTL DEF Spec
-----------------------------------------------------------------------------
(* A drain that was accepted found everything quiet.                       *)

\* In an initial state no fence is up.
LEMMA FencedInit == Init => FencedInv
  <1> SUFFICES ASSUME Init PROVE FencedInv
    OBVIOUS
  <1>1. StampsPast /\ FenceInv
    BY DEF Init, StampsPast, FenceInv, NewControl, NoDrain
  <1>2. ListenInv
    BY DEF Init, ListenInv, ListensNot, Running
  <1>3. SeenInv /\ QuietInv
    BY DEF Init, SeenInv, QuietInv, Later, NoDrain
  <1> QED
    BY <1>1, <1>2, <1>3 DEF FencedInv, Init, NoDrain

\* Types of what the gate and the stamps are compared with.
LEMMA Stamps ==
    ASSUME TypeOK
    PROVE  /\ now \in Nat /\ ctl.since \in Nat /\ ctl.generation \in Nat
           /\ ctl.phase \in Phases
           /\ drain.fence \in Nat /\ drain.previous.since \in Nat
           /\ observed # None => observed \in Nat
           /\ writing # None => writing \in Writings
           /\ writing # None /\ writing.observed # None => writing.observed \in Nat
           /\ file # None => file \in Files
           /\ file # None /\ file.observed # None => file.observed \in Nat
           /\ now # None
  BY EventAssumption DEF TypeOK, ControlStates, Drains, Times, Writings, Files

\* The gate moves, by a fence, its restore, an unquiesce or its end.
LEMMA GateFenced ==
    ASSUME TrackingInv, FencedInv,
           \/ \E method \in {"drain", "shutdown"} : Fence(method)
           \/ Refuse \/ Claim \/ Resolve
    PROVE  FencedInv'
  <1> USE Stamps DEF TrackingInv, FencedInv
  <1>0. UNCHANGED <<now, work, lapsed, sidecarVars>>
    BY DEF Fence, Refuse, Claim, Resolve, readVars
  <1> DEFINE Cutoff == /\ ctl'.since \in Nat /\ ctl'.since <= now /\ drain'.previous.since <= now
                       /\ ctl'.phase # "Active" =>
                            (ctl.phase # "Active" /\ ctl'.since = ctl.since) \/ ctl'.since = now
             Moved == \/ drain'.pc \in {"idle", "waiting"}
                      \/ drain' = drain /\ ctl'.generation # drain.fence
  <1>1. Cutoff /\ FenceInv' /\ Moved
    <2>1. ASSUME NEW method \in {"drain", "shutdown"}, Fence(method)
          PROVE  Cutoff /\ FenceInv' /\ Moved
      <3>1. /\ drain'.pc = "waiting" /\ drain'.method = method /\ drain'.previous = ctl
            /\ drain'.fence = ctl'.generation /\ ctl.phase \in {"Active", "Quiescing"}
            /\ ctl'.generation = ctl.generation + 1
            /\ ctl'.since = IF ctl.phase = "Active" THEN now ELSE ctl.since
            /\ ctl'.phase = IF method = "shutdown" THEN "ShuttingDown" ELSE "Quiescing"
        BY <2>1 DEF Fence, CanFence, BeginShutdown, BeginQuiesce, Advance
      <3> QED
        BY <3>1 DEF StampsPast, FenceInv
    <2>2. CASE Refuse
      <3>1. /\ drain'.pc = "idle" /\ drain'.method = "drain"
            /\ drain'.previous.since = 0 /\ drain'.fence = 0 /\ drain.pc # "idle"
        BY <2>2 DEF Refuse, NoDrain, NewControl
      <3>2. CASE drain.method = "shutdown"
        <4>1. ctl.phase = "ShuttingDown"
          BY <3>1, <3>2 DEF FenceInv
        <4>2. /\ ctl'.generation = ctl.generation + 1 /\ ctl'.since = drain.previous.since
              /\ ctl'.phase = drain.previous.phase
          BY <2>2, <3>2, <4>1 DEF Refuse, RestoreShutdownPhase, Advance
        <4> QED
          BY <3>1, <3>2, <4>1, <4>2 DEF StampsPast, FenceInv
      <3>3. CASE drain.method # "shutdown"
        BY <2>2, <3>1, <3>3 DEF Refuse, StampsPast, FenceInv
      <3> QED
        BY <3>2, <3>3
    <2>3. CASE Claim
      <3>1. /\ drain' = drain /\ ctl.phase = "Quiescing" /\ ctl'.phase = "Activating"
            /\ ctl'.generation = ctl.generation + 1 /\ ctl'.since = ctl.since
        BY <2>3 DEF Claim, BeginActivation, Advance
      <3> QED
        BY <3>1 DEF StampsPast, FenceInv
    <2>4. CASE Resolve
      <3>1. /\ drain' = drain /\ ctl.phase = "Activating"
            /\ \/ ctl'.phase = "Active" /\ ctl'.since = now
               \/ ctl'.phase = "Quiescing" /\ ctl'.since = ctl.since
            /\ ctl'.generation = ctl.generation + 1
        BY <2>4 DEF Resolve, CompleteActivation, CancelActivation, OwnsActivation, Advance
      <3> QED
        BY <3>1 DEF StampsPast, FenceInv
    <2> QED
      BY <2>1, <2>2, <2>3, <2>4
  <1>2. StampsPast'
    BY <1>0, <1>1 DEF StampsPast, sidecarVars
  <1>3. ListenInv'
    BY <1>0 DEF ListenInv, ListensNot, Running, sidecarVars
  <1>4. SeenInv'
    BY <1>0, <1>1 DEF SeenInv, StampsPast, Later, Running, sidecarVars
  <1>5. QuietInv'
    BY <1>0, <1>1 DEF QuietInv, sidecarVars
  <1>6. drain'.pc = "accepted" => drain'.clear
    BY <1>1
  <1> QED
    BY <1>1, <1>2, <1>3, <1>4, <1>5, <1>6

\* An export counts as a drain of the fence that is there.
LEMMA ExportFenced ==
    ASSUME TrackingInv, FencedInv, Export
    PROVE  FencedInv'
  <1> USE Stamps DEF TrackingInv, FencedInv
  <1>1. /\ UNCHANGED <<now, ctl, work, lapsed, sidecarVars>>
        /\ drain'.pc = "begun" /\ drain'.method = "drain" /\ drain'.previous.since = 0
        /\ drain'.fence = ctl.generation /\ ctl.phase = "Quiescing"
    BY DEF Export, NoDrain, NewControl, readVars
  <1>2. StampsPast' /\ FenceInv'
    BY <1>1 DEF StampsPast, FenceInv, sidecarVars
  <1>3. ListenInv' /\ SeenInv'
    BY <1>1 DEF ListenInv, SeenInv, ListensNot, Later, Running, sidecarVars
  <1>4. QuietInv'
    BY <1>1 DEF QuietInv
  <1> QED
    BY <1>1, <1>2, <1>3, <1>4

\* The drain goes on while the gate stays.
LEMMA DrainFenced ==
    ASSUME TrackingInv, FencedInv, BeginDrain \/ ReadSidecar \/ CountPermits \/ Accept
    PROVE  FencedInv'
  <1> USE Stamps DEF TrackingInv, FencedInv
  <1>0. /\ UNCHANGED <<now, ctl, work, sidecarVars>> /\ (lapsed => lapsed')
        /\ ReadSidecar \/ UNCHANGED lapsed
        /\ drain.pc # "idle" /\ drain'.pc # "idle" /\ drain'.method = drain.method
        /\ drain'.previous = drain.previous /\ drain'.fence = drain.fence
    BY DEF BeginDrain, ReadSidecar, CountPermits, Accept, TypeOK, Drains, readVars
  <1>1. StampsPast' /\ FenceInv'
    BY <1>0 DEF StampsPast, FenceInv, sidecarVars
  <1>2. ListenInv'
    BY <1>0 DEF ListenInv, ListensNot, Running, sidecarVars
  <1>3. SeenInv'
    BY <1>0 DEF SeenInv, Later, Running, sidecarVars
  <1>4. QuietInv' /\ (drain'.pc = "accepted" => drain'.clear)
    <2> USE <1>0 DEF sidecarVars
    <2>1. CASE BeginDrain
      <3>1. drain'.pc = "begun"
        BY <2>1 DEF BeginDrain, TypeOK, Drains
      <3> QED
        BY <3>1 DEF QuietInv
    <2>2. CASE ReadSidecar
      <3>1. /\ drain'.pc = IF Ignored THEN "removing" ELSE "read"
            /\ drain'.clear => SidecarClear(ctl.since)
            /\ lapsed' = (lapsed \/ (Ignored /\ loop.pc # "gone"))
        BY <2>2 DEF ReadSidecar, TypeOK, Drains
      <3>2. ASSUME drain'.clear, ctl.generation = drain.fence, ~lapsed'
            PROVE  /\ Running = {} /\ ListensNot
                   /\ loop.pc \in {"starting", "observing", "check", "answered", "gone"}
                                   \cup StopSteps
                   /\ loop.pc = "answered" => ~loop.ok
        <4>0. ~lapsed /\ (Ignored => loop.pc = "gone")
          BY <3>1, <3>2
        <4>1. CASE file = None \/ loop.pc = "gone"
          BY <4>0, <4>1 DEF ListenInv
        <4>2. CASE file # None /\ loop.pc # "gone"
          <5>1. file.count = 0 /\ Later(file.observed)
            BY <3>1, <3>2, <4>0, <4>2 DEF SidecarClear, ObservedAfter, Later
          <5>2. ctl.phase # "Active"
            BY <3>2 DEF FenceInv
          <5>3. Later(observed) /\ Running = {}
            BY <4>2, <5>1, <5>2 DEF SeenInv
          <5> QED
            BY <5>2, <5>3 DEF SeenInv, ListenInv, Later
        <4> QED
          BY <4>1, <4>2
      <3> QED
        BY <3>1, <3>2 DEF QuietInv, ListensNot, Running, Ignored
    <2>3. CASE CountPermits
      <3>1. drain.pc = "read" /\ drain'.pc = "counted" /\ drain'.clear = (drain.clear /\ NoPermits)
        BY <2>3 DEF CountPermits, TypeOK, Drains
      <3> QED
        BY <3>1 DEF QuietInv, ListensNot, Running, NoPermits
    <2>4. CASE Accept
      <3>1. drain.pc = "counted" /\ drain'.pc = "accepted" /\ drain.clear /\ drain'.clear
        BY <2>4 DEF Accept, TypeOK, Drains
      <3> QED
        BY <3>1 DEF QuietInv, ListensNot, Running, NoPermits
    <2> QED
      BY <2>1, <2>2, <2>3, <2>4
  <1> QED
    BY <1>1, <1>2, <1>3, <1>4

\* The file that is removed is of a sidecar that is gone.
LEMMA RemoveFenced ==
    ASSUME TrackingInv, FencedInv, RemoveFile
    PROVE  FencedInv'
  <1> USE DEF TrackingInv, FencedInv
  <1>1. /\ UNCHANGED <<now, ctl, work, lapsed, callback, observed, listen, loop, writing>>
        /\ file' = file \/ file' = None
        /\ drain.pc = "removing" /\ drain'.pc = "read" /\ drain'.clear = drain.clear
        /\ drain'.method = drain.method /\ drain'.previous = drain.previous
        /\ drain'.fence = drain.fence
    BY DEF RemoveFile, readVars, TypeOK, Drains
  <1>2. lapsed \/ loop.pc = "gone"
    BY <1>1 DEF QuietInv
  <1>3. StampsPast' /\ FenceInv'
    BY <1>1 DEF StampsPast, FenceInv
  <1>4. ListenInv'
    BY <1>1, <1>2 DEF ListenInv, ListensNot, Running
  <1>5. SeenInv'
    BY <1>1 DEF SeenInv, Later, Running
  <1>6. QuietInv'
    BY <1>1 DEF QuietInv, ListensNot, Running
  <1> QED
    BY <1>1, <1>3, <1>4, <1>5, <1>6

\* The heartbeat changes nothing that a drain asks for, and a sidecar that is
\* gone hears and runs nothing.
LEMMA BeatFenced ==
    ASSUME TrackingInv, FencedInv, Beat
    PROVE  FencedInv'
  <1> USE DEF TrackingInv, FencedInv
  <1>1. UNCHANGED <<now, ctl, drain, work, lapsed, callback, observed, listen,
                  loop, writing, file>>
    BY DEF Beat, workerVars, readVars
  <1>2. StampsPast' /\ FenceInv' /\ ListenInv' /\ SeenInv' /\ QuietInv'
    BY <1>1 DEF StampsPast, FenceInv, ListenInv, ListensNot, SeenInv, QuietInv, Later,
       Running, NoPermits
  <1> QED
    BY <1>1, <1>2

\* A sidecar that is gone neither runs a callback nor listens.
LEMMA ExitFenced ==
    ASSUME TrackingInv, FencedInv, Exit
    PROVE  FencedInv'
  <1> USE DEF TrackingInv, FencedInv
  <1>1. /\ UNCHANGED <<now, ctl, drain, work, lapsed>>
        /\ observed' = None /\ writing' = None /\ (file' = file \/ file' = None)
        /\ ListensNot' /\ loop'.pc = "gone"
    BY DEF Exit, workerVars, readVars, ListensNot, TypeOK, Loops
  <1>2. Running' = {}
    BY ExitTracking
  <1>3. StampsPast' /\ FenceInv'
    BY <1>1 DEF StampsPast, FenceInv
  <1>4. ListenInv' /\ SeenInv'
    BY <1>1, <1>2 DEF ListenInv, SeenInv
  <1>5. QuietInv'
    BY <1>1, <1>2 DEF QuietInv, NoPermits
  <1> QED
    BY <1>1, <1>3, <1>4, <1>5

\* Time passes, or an admitted event is done.
LEMMA ProcessFenced ==
    ASSUME TrackingInv, FencedInv, Tick \/ \E e \in Ev : Process(e)
    PROVE  FencedInv'
  <1> USE Stamps DEF TrackingInv, FencedInv
  <1>1. CASE Tick
    <2>1. UNCHANGED <<workerVars, sidecarVars>> /\ now' = now + 1
      BY <1>1 DEF Tick
    <2>2. StampsPast' /\ FenceInv' /\ ListenInv'
      BY <2>1 DEF StampsPast, FenceInv, ListenInv, ListensNot, Running, workerVars, readVars,
        sidecarVars
    <2>3. SeenInv' /\ QuietInv'
      BY <2>1 DEF SeenInv, QuietInv, Later, ListensNot, Running, NoPermits, workerVars, readVars,
        sidecarVars
    <2> QED
      BY <2>1, <2>2, <2>3 DEF workerVars, readVars
  <1>2. ASSUME NEW e \in Ev, Process(e)
        PROVE  FencedInv'
    <2>1. UNCHANGED <<now, ctl, drain, lapsed, inFlight, observed, listen, loop, writing, file>>
      BY <1>2 DEF Process, readVars
    <2>2. Running' = Running
      <3>1. callback' = callback \/ \E result \in {"ok", "failed"} :
             callback' = [callback EXCEPT ![Replay].pc = "answered", ![Replay].result = result]
             /\ callback[Replay].pc = "posted"
        BY <1>2 DEF Process
      <3>2. \A c \in Callbacks : \/ callback'[c] = callback[c]
                                 \/ callback[c].pc = "posted" /\ callback'[c].pc = "answered"
        BY <3>1, WriterNames DEF TypeOK, CallbackStates
      <3> QED
        BY <3>2 DEF Running
    <2>3. StampsPast' /\ FenceInv' /\ ListenInv' /\ SeenInv'
      BY <2>1, <2>2 DEF StampsPast, FenceInv, ListenInv, ListensNot, SeenInv, Later
    <2>4. NoPermits => NoPermits'
      BY <1>2 DEF Process, NoPermits
    <2>5. QuietInv'
      BY <2>1, <2>2, <2>4 DEF QuietInv, ListensNot
    <2> QED
      BY <2>1, <2>3, <2>5
  <1> QED
    BY <1>1, <1>2

\* A callback begins only while something is heard, or the monitor replays.
LEMMA TrackFenced ==
    ASSUME TrackingInv, FencedInv,
           (\E e \in Ev : Receive(e)) \/ \E e \in Ev : ReplayNext(e)
    PROVE  FencedInv'
  <1> USE Stamps DEF TrackingInv, FencedInv
  <1>1. /\ UNCHANGED <<now, ctl, drain, work, lapsed, observed, listen, writing, file>>
        /\ ~ListensNot \/ loop.pc = "replay"
    BY DEF Receive, ReplayNext, ListensNot, workerVars, readVars
  <1>2. observed = None /\ (file # None \/ lapsed) /\ loop.pc # "gone"
    BY <1>1, EventAssumption DEF ListenInv, StopSteps
  <1>3. loop' = loop \/ (loop.pc = "replay" /\ loop'.pc = "replaying")
    <2>1. CASE \E e \in Ev : Receive(e)
      BY <2>1 DEF Receive
    <2>2. ASSUME NEW e \in Ev, ReplayNext(e)
          PROVE  loop.pc = "replay" /\ loop'.pc = "replaying"
      BY <2>2 DEF ReplayNext, TypeOK, Loops
    <2> QED
      BY <2>1, <2>2
  <1>4. StampsPast' /\ FenceInv'
    BY <1>1 DEF StampsPast, FenceInv
  <1>5. ListenInv'
    BY <1>1, <1>2, <1>3 DEF ListenInv, ListensNot
  <1>6. SeenInv'
    BY <1>1, <1>2 DEF SeenInv, Later
  <1>7. QuietInv'
    BY <1>1, <1>3 DEF QuietInv, ListensNot, StopSteps
  <1> QED
    BY <1>1, <1>4, <1>5, <1>6, <1>7

\* A callback that runs goes on.
LEMMA CallbackStepFenced ==
    ASSUME TrackingInv, FencedInv, NEW c \in Callbacks, CallbackStep(c)
    PROVE  FencedInv'
  <1> USE Stamps DEF TrackingInv, FencedInv
  <1>1. UNCHANGED <<now, ctl, drain, lapsed, observed, loop, writing, file>>
    BY DEF CallbackStep, Fetch, Post, TakeAck, Store, StopByCallback, workerVars, readVars
  <1>2. c \in Running
    BY DEF CallbackStep, Fetch, Post, TakeAck, Store, StopByCallback, Running
  <1>3. Running' \subseteq Running
    <2>1. \A d \in Callbacks : d # c => callback'[d] = callback[d]
      BY DEF CallbackStep, Fetch, Post, TakeAck, Store, StopByCallback, Move, Untrack,
        TypeOK
    <2> QED
      BY <1>2, <2>1 DEF Running
  <1>4. /\ listen' \in Listeners
        /\ listen'.msg => listen.msg
        /\ listen'.card => listen.card
        /\ \/ listen'.active = listen.active
           \/ listen'.active = (listen'.msg \/ listen'.card)
    <2>1. CASE UNCHANGED listen
      BY <2>1 DEF TypeOK
    <2>2. CASE StopByCallback(c)
      <3>1. callback[c].pc \in StopSteps /\ listen' = Stopped(listen, callback[c].pc).listen
        BY <2>2 DEF StopByCallback, StopSteps
      <3>2. listen' \in Listeners
        BY <3>1, StoppedType DEF TypeOK
      <3> QED
        BY <3>1, <3>2 DEF Stopped, NextStop, StopSteps, Listeners, TypeOK
    <2> QED
      BY <2>1, <2>2 DEF CallbackStep, Fetch, Post, TakeAck, Store
  <1>5. StampsPast' /\ FenceInv'
    BY <1>1 DEF StampsPast, FenceInv
  <1>6. ListenInv'
    BY <1>1, <1>2, <1>4 DEF ListenInv, ListensNot
  <1>7. SeenInv'
    BY <1>1, <1>3 DEF SeenInv, Later
  <1>8. QuietInv'
    BY <1>1, <1>2 DEF QuietInv
  <1> QED
    BY <1>1, <1>5, <1>6, <1>7, <1>8

\* What is published is what was so when the write began.
LEMMA WriteFenced ==
    ASSUME TrackingInv, FencedInv, BeginWrite \/ EndWrite
    PROVE  FencedInv'
  <1> USE Stamps DEF TrackingInv, FencedInv
  <1>1. CASE BeginWrite
    <2>1. /\ UNCHANGED <<now, ctl, drain, work, lapsed, callback, observed, listen, loop, file>>
          /\ writing'.count = inFlight /\ writing'.observed = observed
      BY <1>1 DEF BeginWrite, workerVars, readVars
    <2>2. inFlight = 0 => Running = {}
      BY RunningFinite, FS_EmptySet DEF CallbacksCounted
    <2>3. StampsPast' /\ FenceInv' /\ ListenInv'
      BY <2>1 DEF StampsPast, FenceInv, ListenInv, ListensNot, Running
    <2>4. SeenInv'
      BY <2>1, <2>2 DEF SeenInv, Later, Running
    <2>5. QuietInv'
      BY <2>1 DEF QuietInv, ListensNot, Running, NoPermits
    <2> QED
      BY <2>1, <2>3, <2>4, <2>5
  <1>2. CASE EndWrite
    <2>1. /\ UNCHANGED <<now, ctl, drain, work, lapsed, observed, listen>>
          /\ writing # None /\ writing' = None
          /\ file'.count = writing.count /\ file'.observed = writing.observed
          /\ file' \in Files
      BY <1>2 DEF EndWrite, workerVars, readVars, Writings, Files
    <2>2. file' # None
      BY <2>1, EventAssumption DEF Files, Times
    <2>3. Running' = Running
      <3>1. WaitsForWrite(writing.by) /\ writing.by \in Writers
        BY <2>1 DEF WritersInv, Writings
      <3>2. CASE writing.by \in {Monitor, Heartbeat}
        BY <1>2, <3>2, WriterNames DEF EndWrite, Running
      <3>3. CASE writing.by \in Callbacks
        <4> DEFINE by == writing.by
        <4>1. by \in Callbacks /\ callback[by].pc \in {"tracking", "untracking"}
          BY <3>1, <3>3, WriterNames DEF WaitsForWrite
        <4>2. /\ \A d \in Callbacks : d # by => callback'[d] = callback[d]
              /\ callback'[by].pc = IF callback[by].pc = "untracking" THEN "ended"
                                    ELSE IF by = Replay THEN "sending" ELSE "fetching"
          <5>1. by # Monitor /\ by # Heartbeat
            BY <4>1, WriterNames
          <5>2. Move(by, IF callback[by].pc = "untracking" THEN "ended"
                         ELSE IF by = Replay THEN "sending" ELSE "fetching")
            BY <1>2, <4>1, <5>1 DEF EndWrite
          <5> QED
            BY <4>1, <5>2 DEF Move, TypeOK, CallbackStates
        <4> HIDE DEF by
        <4> QED
          BY <4>1, <4>2 DEF Running
      <3> QED
        BY <3>1, <3>2, <3>3, WriterNames
    <2>4. \/ loop' = loop
          \/ /\ loop.pc \in {"starting", "observing"} /\ loop'.pc = "check"
          \/ /\ loop.pc \in {"clearing", "removing"} /\ loop'.pc \in {"list", "replay"}
      <3>1. CASE writing.by = Monitor
        <4>1. loop.pc \in {"starting", "clearing", "removing", "observing"}
          BY <2>1, <3>1, WriterNames DEF WritersInv, WaitsForWrite
        <4>2. loop'.pc = AfterWrite(loop.pc)
          BY <1>2, <3>1, WriterNames DEF EndWrite, TypeOK, Loops
        <4> QED
          BY <4>1, <4>2 DEF AfterWrite
      <3>2. CASE writing.by # Monitor
        BY <1>2, <2>1, <3>2, WriterNames DEF EndWrite, Writings
      <3> QED
        BY <3>1, <3>2
    <2>5. StampsPast' /\ FenceInv'
      BY <2>1 DEF StampsPast, FenceInv
    <2>6. ListenInv'
      BY <2>1, <2>2, <2>3, <2>4 DEF ListenInv, ListensNot, StopSteps
    <2>7. SeenInv'
      BY <2>1, <2>3, <2>4 DEF SeenInv, Later
    <2>8. QuietInv'
      BY <2>1, <2>3, <2>4 DEF QuietInv, ListensNot, NoPermits, StopSteps
    <2> QED
      BY <2>1, <2>5, <2>6, <2>7, <2>8
  <1> QED
    BY <1>1, <1>2

\* The monitor's round.
LEMMA LoopStepFenced ==
    ASSUME TrackingInv, FencedInv,
           Check \/ TakeAnswer \/ StopByMonitor \/ ListDeferred \/ ReplayDone
             \/ StartListening \/ Listen
    PROVE  FencedInv'
  <1> USE Stamps DEF TrackingInv, FencedInv
  <1>0. UNCHANGED <<now, ctl, drain, work, lapsed, callback, inFlight, writing, file>>
    BY DEF Check, TakeAnswer, StopByMonitor, ListDeferred, ReplayDone, StartListening,
      Listen,
           workerVars, readVars
  <1>1. loop.pc \notin {"starting", "observing", "gone"} /\ (file # None \/ lapsed)
    BY DEF Check, TakeAnswer, StopByMonitor, ListDeferred, ReplayDone, StartListening,
      Listen,
           ListenInv
  <1>2. Running' = Running
    BY <1>0 DEF Running
  <1>3. FenceInv'
    BY <1>0 DEF FenceInv
  <1> USE DEF TypeOK, Loops, Listeners
  <1>4. CASE Check
    <2>1. /\ loop.pc = "check" /\ loop'.pc = "answered" /\ loop'.ok = (ctl.phase = "Active")
          /\ UNCHANGED <<observed, listen>>
      BY <1>4 DEF Check
    <2>2. StampsPast' /\ ListenInv'
      BY <1>0, <1>1, <1>2, <2>1 DEF StampsPast, ListenInv, ListensNot
    <2>3. SeenInv'
      BY <1>0, <1>2, <2>1 DEF SeenInv, Later
    <2>4. QuietInv'
      BY <1>0, <1>2, <2>1 DEF QuietInv, FenceInv, ListensNot, NoPermits
    <2> QED
      BY <1>0, <1>3, <2>2, <2>3, <2>4
  <1>5. CASE TakeAnswer
    <2>1. /\ loop.pc = "answered" /\ UNCHANGED listen
          /\ \/ loop.ok /\ loop'.pc \in {"list", "clearing"} /\ observed' = None
             \/ ~loop.ok /\ listen.active /\ loop'.pc = "stop" /\ observed' = observed
             \/ ~loop.ok /\ ~listen.active /\ loop'.pc = "observing" /\ observed' = now
      BY <1>5 DEF TakeAnswer, Observe, Goto
    <2>2. StampsPast' /\ ListenInv'
      BY <1>0, <1>1, <1>2, <2>1 DEF StampsPast, ListenInv, ListensNot, StopSteps
    <2>3. SeenInv'
      BY <1>0, <1>2, <2>1 DEF SeenInv, Later, StampsPast
    <2>4. QuietInv'
      BY <1>0, <1>2, <2>1 DEF QuietInv, ListensNot, NoPermits, StopSteps
    <2> QED
      BY <1>0, <1>3, <2>2, <2>3, <2>4
  <1>6. CASE StopByMonitor
    <2>1. /\ loop.pc \in StopSteps /\ listen' = Stopped(listen, loop.pc).listen
          /\ \/ /\ Stopped(listen, loop.pc).next = "done"
                /\ loop'.pc = "observing" /\ observed' = now
             \/ /\ Stopped(listen, loop.pc).next # "done"
                /\ loop'.pc = Stopped(listen, loop.pc).next /\ observed' = observed
      BY <1>6 DEF StopByMonitor, Observe, Goto, StopSteps
    <2>2. /\ listen'.msg => listen.msg
          /\ listen'.card => listen.card
          /\ \/ listen'.active = listen.active
             \/ listen'.active = (listen'.msg \/ listen'.card)
          /\ \/ loop'.pc = "observing" /\ observed' = now /\ ListensNot'
             \/ loop'.pc \in {"stopMsg", "stopCard"} /\ observed' = observed
          /\ loop'.pc = "stopCard" => ~listen'.msg
      BY <2>1 DEF Stopped, NextStop, StopSteps, ListenInv, ListensNot
    <2>3. StampsPast' /\ ListenInv'
      BY <1>0, <1>1, <1>2, <2>1, <2>2 DEF StampsPast, ListenInv, ListensNot, StopSteps
    <2>4. SeenInv'
      BY <1>0, <1>1, <1>2, <2>2 DEF SeenInv, Later, StampsPast
    <2>5. QuietInv'
      BY <1>0, <1>2, <2>1, <2>2 DEF QuietInv, ListensNot, NoPermits, StopSteps
    <2> QED
      BY <1>0, <1>3, <2>3, <2>4, <2>5
  <1>7. CASE ListDeferred \/ ReplayDone \/ StartListening \/ Listen
    <2>1. /\ loop.pc \in {"list", "replaying", "replay", "listenMsg", "listenCard"}
          /\ UNCHANGED observed
          /\ \/ /\ UNCHANGED listen /\ loop.pc \in {"list", "replaying", "replay"}
                /\ loop'.pc \in {"replay", "removing", "stop", "check", "listenMsg"}
                /\ loop'.pc = "listenMsg" => ~listen.active
             \/ loop.pc = "listenMsg" /\ loop'.pc = "listenCard"
             \/ loop.pc = "listenCard" /\ loop'.pc = "check" /\ listen'.active
      BY <1>7 DEF ListDeferred, ReplayDone, StartListening, Listen, Goto
    <2>2. observed = None
      BY <2>1 DEF ListenInv, StopSteps
    <2>3. StampsPast' /\ ListenInv'
      BY <1>0, <1>1, <1>2, <2>1, <2>2 DEF StampsPast, ListenInv, ListensNot
    <2>4. SeenInv'
      BY <1>0, <1>2, <2>1, <2>2 DEF SeenInv, Later
    <2>5. QuietInv'
      BY <1>0, <1>2, <2>1 DEF QuietInv, StopSteps
    <2> QED
      BY <1>0, <1>3, <2>3, <2>4, <2>5
  <1> QED
    BY <1>4, <1>5, <1>6, <1>7

\* Every step keeps what is said of the fence.
LEMMA FencedStep == TrackingInv /\ FencedInv /\ [Next]_vars => FencedInv'
  <1> SUFFICES ASSUME TrackingInv, FencedInv, [Next]_vars
               PROVE  FencedInv'
    OBVIOUS
  <1>1. CASE UNCHANGED vars \/ Orphaned
    BY <1>1 DEF Orphaned, vars, FencedInv, StampsPast, FenceInv, ListenInv, ListensNot, SeenInv,
      QuietInv,
                Later, Running, NoPermits
  <1>2. CASE Tick \/ WorkerStep
    BY <1>2, ProcessFenced, GateFenced, ExportFenced, DrainFenced,
      RemoveFenced DEF WorkerStep
  <1>3. CASE \E e \in bound.events : Receive(e)
    <2>1. \A e \in bound.events : e \in Ev
      BY BoundAssumption DEF TrackingInv, TypeOK
    <2> QED
      BY <1>3, <2>1, TrackFenced
  <1>4. CASE LoopStep
    BY <1>4, TrackFenced, LoopStepFenced DEF LoopStep
  <1> QED
    BY <1>1, <1>2, <1>3, <1>4, CallbackStepFenced, WriteFenced, BeatFenced, ExitFenced DEF Next

\* A worker that reports itself drained is quiet while its gate does not move,
\* unless a drain ignored a running sidecar for the age of its file.
THEOREM DrainIsQuiet == Spec => []DrainedIsQuiet
  <1>1. FencedInv => DrainedIsQuiet
    BY DEF FencedInv, QuietInv, DrainedIsQuiet, QuietWhenDrained, Drained, ListensNot
  <1> QED
    BY <1>1, TrackingInit, TrackingStep, FencedInit, FencedStep, PTL DEF Spec
-----------------------------------------------------------------------------
(* What the heartbeat is for: a sidecar that is on time is not ignored.    *)

Queued == \E k \in 1..Len(writes) : writes[k] = Heartbeat

\* The heartbeat comes when it is due, its write begins within `slow' of it, and
\* no write takes longer than that.
OnTime(slow) ==
    /\ now < beat + BeatEvery
    /\ Queued => now < beat + slow
    /\ writing # None => now < writing.at + slow

\* A sidecar that runs is on time whenever the clock moves.
PunctualSpec(slow) ==
    Init /\ [][Next /\ (now' # now /\ loop.pc # "gone" => OnTime(slow))]_vars

\* When the write that began last took its stamp.
Newest == IF writing # None THEN writing.at ELSE file.at

\* The newest stamp is not older than the last beat, or the one before it while
\* the last one's write has not begun; the file is one write behind.
PunctualInv(slow) ==
    /\ loop.pc # "gone" =>
         /\ beat <= now /\ now <= beat + BeatEvery
         /\ Queued => now <= beat + slow
         /\ writing # None => writing.at <= now /\ now <= writing.at + slow
         /\ writing # None \/ file # None =>
              beat <= IF Queued THEN Newest + BeatEvery ELSE Newest
         /\ writing # None /\ file # None => writing.at <= file.at + BeatEvery + slow
    /\ ~lapsed

\* Types of the stamps.
LEMMA BeatTypes ==
    ASSUME TypeOK
    PROVE  /\ now \in Nat /\ beat \in Nat /\ BeatEvery \in Nat /\ StaleAfter \in Nat
           /\ writing # None => writing \in Writings /\ writing.at \in Nat
           /\ file # None => file \in Files /\ file.at \in Nat
           /\ writes \in Seq(Writers) /\ Len(writes) \in Nat
  BY AgeAssumption DEF TypeOK, Writings, Files

\* Who else asks for a write leaves the heartbeat where it is in the queue.
LEMMA QueuedStays ==
    ASSUME TypeOK, \/ UNCHANGED writes
                   \/ \E w \in Writers \ {Heartbeat} : writes' = Append(writes, w)
    PROVE  Queued' = Queued
  <1>1. CASE UNCHANGED writes
    BY <1>1 DEF Queued
  <1>2. ASSUME NEW w \in Writers \ {Heartbeat}, writes' = Append(writes, w)
        PROVE  Queued' = Queued
    <2>1. /\ Len(writes) \in Nat /\ Len(writes') = Len(writes) + 1
          /\ writes'[Len(writes) + 1] = w
          /\ \A k \in 1..Len(writes) : writes'[k] = writes[k]
      BY <1>2, BeatTypes
    <2>2. Queued => Queued'
      BY <2>1 DEF Queued
    <2>3. Queued' => Queued
      BY <2>1 DEF Queued
    <2>4. Queued \in BOOLEAN /\ Queued' \in BOOLEAN
      BY DEF Queued
    <2> QED
      BY <2>2, <2>3, <2>4
  <1> QED
    BY <1>1, <1>2

\* The file of a sidecar on time is never too old.
LEMMA OnTimeIsFresh ==
    ASSUME TypeOK, NEW slow \in Nat, slow < BeatEvery, BeatEvery + 2 * slow <= StaleAfter,
           PunctualInv(slow), loop.pc # "gone"
    PROVE  ~Ignored
  BY BeatTypes DEF PunctualInv, Ignored, TooOld, Newest

\* The steps that leave the clock, the stamps and the heartbeat alone.
LEMMA OthersPunctual ==
    ASSUME TypeOK, NEW slow \in Nat, PunctualInv(slow),
           UNCHANGED <<now, beat, writing, file, lapsed>>,
           loop'.pc # "gone" => loop.pc # "gone",
           \/ UNCHANGED writes
           \/ \E w \in Writers \ {Heartbeat} : writes' = Append(writes, w)
    PROVE  PunctualInv(slow)'
  <1>1. Queued' = Queued /\ Newest' = Newest
    BY QueuedStays DEF Newest
  <1> QED
    BY <1>1 DEF PunctualInv

\* The worker's steps.
LEMMA WorkerPunctual ==
    ASSUME TypeOK, NEW slow \in Nat, slow < BeatEvery, BeatEvery + 2 * slow <= StaleAfter,
           PunctualInv(slow), WorkerStep
    PROVE  PunctualInv(slow)'
  <1>1. CASE ReadSidecar
    <2>1. Ignored => loop.pc = "gone"
      BY OnTimeIsFresh
    <2>2. UNCHANGED <<now, beat, writing, file, writes, loop>>
      BY <1>1 DEF ReadSidecar, sidecarVars
    <2>3. ~lapsed'
      BY <1>1, <2>1 DEF ReadSidecar, PunctualInv
    <2> QED
      BY <2>2, <2>3 DEF PunctualInv, Queued, Newest
  <1>2. CASE RemoveFile
    <2>1. UNCHANGED <<now, beat, writing, writes, loop, lapsed>> /\ file' \in {file, None}
      BY <1>2 DEF RemoveFile, readVars
    <2> QED
      BY <2>1 DEF PunctualInv, Queued, Newest
  <1>3. CASE WorkerStep /\ ~ReadSidecar /\ ~RemoveFile
    <2>1. UNCHANGED <<now, beat, writing, file, lapsed, writes, loop>>
      BY <1>3 DEF WorkerStep, Fence, BeginDrain, Export, CountPermits, Accept, Refuse, Claim, Resolve,
         Process, readVars, sidecarVars
    <2> QED
      BY <2>1, OthersPunctual
  <1> QED
    BY <1>1, <1>2, <1>3

\* The callbacks' steps and the monitor's.
LEMMA CallbackPunctual ==
    ASSUME TypeOK, NEW slow \in Nat, PunctualInv(slow),
           \/ \E e \in Ev : Receive(e)
           \/ \E c \in Callbacks : CallbackStep(c)
           \/ LoopStep
    PROVE  PunctualInv(slow)'
  <1> USE WriterNames
  <1>1. UNCHANGED <<now, beat, writing, file, lapsed>>
    BY DEF Receive, CallbackStep, Fetch, Post, TakeAck, Store, StopByCallback, LoopStep, Check,
       TakeAnswer, StopByMonitor, ListDeferred, ReplayNext, ReplayDone, StartListening, Listen,
       workerVars, readVars
  <1>2. CASE \E e \in Ev : Receive(e)
    <2> PICK e \in Ev : Receive(e)
      BY <1>2
    <2>1. e \in Writers \ {Heartbeat} /\ writes' = Append(writes, e) /\ UNCHANGED loop
      BY DEF Receive, Track
    <2> QED
      BY <1>1, <2>1, OthersPunctual
  <1>3. CASE \E c \in Callbacks : CallbackStep(c)
    <2> PICK c \in Callbacks : CallbackStep(c)
      BY <1>3
    <2>1. c \in Writers \ {Heartbeat} /\ UNCHANGED loop
      BY DEF CallbackStep, Fetch, Post, TakeAck, Store, StopByCallback
    <2>2. UNCHANGED writes \/ writes' = Append(writes, c)
      BY DEF CallbackStep, Fetch, Post, TakeAck, Store, StopByCallback, Untrack
    <2> QED
      BY <1>1, <2>1, <2>2, OthersPunctual
  <1>4. CASE LoopStep
    <2>1. loop.pc # "gone"
      BY <1>4 DEF LoopStep, Check, TakeAnswer, StopByMonitor, ListDeferred, ReplayNext,
         ReplayDone, StartListening, Listen
    <2>2. UNCHANGED writes \/ writes' = Append(writes, Monitor)
            \/ writes' = Append(writes, Replay)
      BY <1>4 DEF LoopStep, Check, TakeAnswer, StopByMonitor, ListDeferred, ReplayNext,
         ReplayDone, StartListening, Listen, Observe, Track
    <2> QED
      BY <1>1, <2>1, <2>2, OthersPunctual
  <1> QED
    BY <1>2, <1>3, <1>4

\* The writes, the heartbeat and the end of the sidecar.
LEMMA WritePunctual ==
    ASSUME TypeOK, TrackingInv, NEW slow \in Nat, slow < BeatEvery, PunctualInv(slow),
           BeginWrite \/ EndWrite \/ Beat \/ Exit
    PROVE  PunctualInv(slow)'
  <1> USE BeatTypes
  <1>1. CASE BeginWrite
    <2>1. /\ UNCHANGED <<now, beat, file, lapsed, loop>> /\ writing = None
          /\ writing' # None /\ writing'.at = now
          /\ Len(writes) > 0 /\ writes' = Tail(writes)
      <3>1. Head(writes) \in Writers /\ Len(writes) > 0
        BY <1>1 DEF BeginWrite, TypeOK
      <3>2. writing' \in Writings
        BY <1>1, <3>1 DEF BeginWrite, Writings, TypeOK
      <3>3. None \notin Writings
        BY EventAssumption DEF Writings, Writers, Callbacks, Times
      <3> QED
        BY <1>1, <3>1, <3>2, <3>3 DEF BeginWrite, workerVars, readVars
    <2>2. Queued' => Queued
      <3>1. /\ Len(writes') = Len(writes) - 1
            /\ \A k \in 1..Len(writes') : writes'[k] = writes[k + 1] /\ k + 1 \in 1..Len(writes)
        BY <2>1
      <3> QED
        BY <3>1 DEF Queued
    <2>3. Newest' = now
      BY <2>1 DEF Newest
    <2> QED
      BY <2>1, <2>2, <2>3 DEF PunctualInv, Newest
  <1>2. CASE EndWrite
    <2>1. /\ UNCHANGED <<now, beat, writes, lapsed>> /\ writing # None /\ writing' = None
          /\ file'.at = writing.at
      BY <1>2 DEF EndWrite, workerVars, readVars
    <2>2. Newest' = Newest /\ Queued' = Queued
      BY <2>1 DEF Newest, Queued
    <2>3. loop'.pc # "gone" => loop.pc # "gone"
      <3>1. writing.by \in Writers /\ WaitsForWrite(writing.by)
        BY <1>2 DEF EndWrite, Writings, TypeOK, WritersInv, TrackingInv
      <3>2. CASE writing.by = Monitor
        BY <3>1, <3>2, WriterNames DEF WaitsForWrite
      <3>3. CASE writing.by # Monitor
        BY <1>2, <3>1, <3>3, WriterNames DEF EndWrite
      <3> QED
        BY <3>2, <3>3
    <2> QED
      BY <2>1, <2>2, <2>3 DEF PunctualInv
  <1>3. CASE Beat
    <2>1. /\ UNCHANGED <<now, writing, file, lapsed, loop>> /\ beat' = now
          /\ now >= beat + BeatEvery /\ loop.pc # "gone"
          /\ writes' = Append(writes, Heartbeat)
      BY <1>3 DEF Beat, workerVars, readVars
    <2>2. Queued'
      <3>1. Len(writes') = Len(writes) + 1 /\ writes'[Len(writes) + 1] = Heartbeat
        BY <2>1, WriterNames
      <3> QED
        BY <3>1 DEF Queued
    <2>3. ~Queued
      BY <2>1 DEF PunctualInv
    <2>4. Newest' = Newest
      BY <2>1 DEF Newest
    <2> QED
      BY <2>1, <2>2, <2>3, <2>4 DEF PunctualInv, Newest
  <1>4. CASE Exit
    BY <1>4 DEF Exit, PunctualInv, workerVars, readVars, TypeOK, Loops
  <1> QED
    BY <1>1, <1>2, <1>3, <1>4

\* The clock moves while the sidecar is on time.
LEMMA TickPunctual ==
    ASSUME TypeOK, NEW slow \in Nat, PunctualInv(slow), Tick,
           loop.pc # "gone" => OnTime(slow)
    PROVE  PunctualInv(slow)'
  <1>1. UNCHANGED <<beat, writing, file, writes, loop, lapsed>> /\ now' = now + 1
    BY DEF Tick, workerVars, readVars, sidecarVars
  <1>2. Newest' = Newest /\ Queued' = Queued
    BY <1>1 DEF Newest, Queued
  <1> QED
    BY <1>1, <1>2, BeatTypes DEF PunctualInv, OnTime

\* With a sidecar that is on time, a worker that reports itself drained is quiet:
\* the age rule of the drain state ignores no sidecar that runs, if a write takes
\* less than the period of the heartbeat and StaleAfter leaves room for a beat
\* and two writes.
THEOREM PunctualIsQuiet ==
    ASSUME NEW CONSTANT slow \in Nat,
           slow < BeatEvery, BeatEvery + 2 * slow <= StaleAfter
    PROVE  PunctualSpec(slow) => []QuietWhenDrained
  <1> DEFINE Step == [Next /\ (now' # now /\ loop.pc # "gone" => OnTime(slow))]_vars
             Inv == TrackingInv /\ FencedInv /\ PunctualInv(slow)
  <1>1. Init => Inv
    <2>1. Init => PunctualInv(slow)
      BY AgeAssumption, WriterNames DEF Init, PunctualInv, Queued
    <2> QED
      BY <2>1, TrackingInit, FencedInit
  <1>2. Inv /\ Step => Inv'
    <2> SUFFICES ASSUME Inv, Step
                 PROVE  Inv'
      OBVIOUS
    <2>1. TypeOK
      BY DEF TrackingInv
    <2>2. TrackingInv' /\ FencedInv'
      BY TrackingStep, FencedStep
    <2>3. PunctualInv(slow)'
      <3>1. CASE UNCHANGED vars \/ Orphaned
        BY <3>1 DEF Orphaned, vars, PunctualInv, Queued, Newest
      <3>2. CASE Tick
        <4>1. now' # now /\ ~UNCHANGED vars
          BY <2>1, <3>2, BeatTypes DEF Tick, vars
        <4> QED
          BY <2>1, <3>2, <4>1, TickPunctual
      <3>3. CASE WorkerStep
        BY <2>1, <3>3, WorkerPunctual
      <3>4. CASE (\E e \in bound.events : Receive(e))
                   \/ (\E c \in Callbacks : CallbackStep(c)) \/ LoopStep
        <4>1. \A e \in bound.events : e \in Ev
          BY <2>1, BoundAssumption DEF TypeOK
        <4> QED
          BY <2>1, <3>4, <4>1, CallbackPunctual
      <3>5. CASE BeginWrite \/ EndWrite \/ Beat \/ Exit
        BY <2>1, <3>5, WritePunctual
      <3> QED
        BY <3>1, <3>2, <3>3, <3>4, <3>5 DEF Next
    <2> QED
      BY <2>2, <2>3
  <1>3. Inv => QuietWhenDrained
    BY DEF FencedInv, QuietInv, PunctualInv, QuietWhenDrained, Drained, ListensNot
  <1> QED
    BY <1>1, <1>2, <1>3, PTL DEF PunctualSpec
=============================================================================
