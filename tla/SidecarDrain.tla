----------------------------- MODULE SidecarDrain -----------------------------
(***************************************************************************)
(* How a worker finds out that its sidecar has nothing left for it.        *)
(*                                                                         *)
(* The sidecar counts the callbacks it is running, stops its Webex         *)
(* listeners when the worker tells it that it is not active, notes when it *)
(* did so, and publishes both in a drain-state file.  The worker fences    *)
(* its gate, reads the file, then its own permits, and reports itself      *)
(* drained only if the file says that nothing is in flight and that the    *)
(* worker was seen inactive after the fence.  A file that does not parse,  *)
(* that is too old or whose process is gone counts nothing and is removed, *)
(* before that question is asked: the age bounds how long a process id     *)
(* that was given to another process holds a drain up, and the heartbeat   *)
(* of a sidecar is there to stay younger than that.                        *)
(*                                                                         *)
(* The sidecar is one JavaScript thread: a step runs from one await to the *)
(* next.  When it exits, killed or in the steps of an orderly shutdown     *)
(* taken as one, the supervisor kills its worker too; until then the       *)
(* worker goes on alone.                                                   *)
(***************************************************************************)
EXTENDS LifecycleControl, FiniteSets, Sequences

CONSTANTS Ev,            \* Webex events, each delivered once at most
          Cards,         \* those that are attachment actions, not messages
          Monitor,       \* the loop that watches the worker
          Replay,        \* the one replay it runs at a time
          Heartbeat,     \* the timer that has the drain state written again
          BeatEvery,     \* its period (30 s)
          StaleAfter,    \* the age up to which a drain-state file counts (120 s)
          None,
          Bounds         \* the bounds under which a run looks at the system

ASSUME EventAssumption == /\ IsFiniteSet(Ev) /\ Cards \subseteq Ev
                          /\ {Monitor, Replay, Heartbeat} \cap Ev = {}
                          /\ Monitor # Replay /\ Heartbeat \notin {Monitor, Replay}
                          /\ None \notin Nat \cup Ev
                          /\ None \notin [count : Nat, observed : Nat \cup {None}, at : Nat]
                          /\ None \notin [by : Ev \cup {Replay, Monitor, Heartbeat}, count : Nat,
                                         observed : Nat \cup {None}, at : Nat]
ASSUME AgeAssumption == BeatEvery \in Nat \ {0} /\ StaleAfter \in Nat
\* A drain-state file that an earlier sidecar of this scope left, written last
\* when this one started: it does not parse, or its process id is of no process,
\* or of another one by now.
LeftFiles == {"none", "corrupt", "exited", "reused"}

\* events: those that are delivered; time: the last moment of the clock;
\* transitions: the generations of the gate; late: the late copies of one event;
\* left: what an earlier sidecar may have left.
ASSUME BoundAssumption ==
    Bounds \subseteq [events : SUBSET Ev, time : Nat, transitions : Nat, late : Nat,
                      left : SUBSET LeftFiles]

VARIABLES bound,    \* one of Bounds, for the whole behaviour
          now,      \* wall clock of the host, in milliseconds
          ctl,      \* worker: the gate
          drain,    \* worker: the drain or shutdown being decided
          work,     \* worker: admitted copies of each event, a permit each
          handled,  \* worker: events processed to the end
          callback, \* sidecar: the callback of each event, and the replay
          inFlight, \* sidecar: sidecarInFlightCount
          observed, \* sidecar: workerInactiveObservedAt
          listen,   \* sidecar: the two listeners and listenersActive
          loop,     \* sidecar: monitorWorkerActive
          writes,   \* sidecar: who waits for a drain-state write, in order
          writing,  \* sidecar: the write in progress
          beat,     \* sidecar: when the heartbeat last asked for one
          file,     \* the drain-state file of the sidecar
          left,     \* that of an earlier one
          lapsed,   \* whether a drain ever ignored the file of a running sidecar:
                    \* no part of the program, for the properties only
          store,    \* the deferred-ingress directory
          quarantine \* the events given up for good

readVars == <<left, lapsed>>
workerVars == <<ctl, drain, work, handled, readVars>>
sidecarVars == <<callback, inFlight, observed, listen, loop, writes, writing, beat,
                 file, store, quarantine>>
vars == <<bound, now, ctl, drain, work, handled, left, lapsed, callback, inFlight,
          observed, listen, loop, writes, writing, beat, file, store, quarantine>>

CallbackSteps == {"away", "tracking", "fetching", "sending", "posted",
                  "answered", "storing", "stop", "stopMsg", "stopCard",
                  "untracking", "ended"}
LoopSteps == {"starting", "check", "answered", "clearing", "list", "replay", "replaying",
              "removing", "listenMsg", "listenCard", "stop", "stopMsg",
              "stopCard", "observing", "gone"}
Times == Nat \cup {None}

Callbacks == Ev \cup {Replay}
Writers == Callbacks \cup {Monitor, Heartbeat}
EventOf(c) == IF c = Replay THEN loop.event ELSE c

Drains == [pc : {"idle", "waiting", "begun", "removing", "read", "counted", "accepted"},
           method : {"drain", "shutdown"}, previous : ControlStates, fence : Nat,
           clear : BOOLEAN]
CallbackStates == [pc : CallbackSteps, at : Nat,
                   result : {"none", "ok", "failed", "deferred"}]
Listeners == [msg : BOOLEAN, card : BOOLEAN, active : BOOLEAN]
Loops == [pc : LoopSteps, ok : BOOLEAN, started : BOOLEAN, todo : SUBSET Ev,
          event : Ev \cup {None}]
Files == [count : Nat, observed : Times, at : Nat]
Writings == [by : Writers, count : Nat, observed : Times, at : Nat]

TypeOK ==
    /\ bound \in Bounds /\ now \in Nat /\ ctl \in ControlStates /\ drain \in Drains
    /\ work \in [Ev -> Nat] /\ handled \subseteq Ev
    /\ callback \in [Callbacks -> CallbackStates]
    /\ inFlight \in Nat /\ observed \in Times
    /\ listen \in Listeners /\ loop \in Loops
    /\ writes \in Seq(Writers) /\ writing \in Writings \cup {None} /\ beat \in Nat
    /\ file \in Files \cup {None} /\ left \in LeftFiles /\ lapsed \in BOOLEAN
    /\ store \subseteq Ev /\ quarantine \subseteq Ev

NoDrain == [pc |-> "idle", method |-> "drain", previous |-> NewControl("Active", 0),
            fence |-> 0, clear |-> FALSE]

\* The sidecar starts with its listeners off and writes its file before it asks
\* for an active worker; until then there is none.
Init ==
    /\ bound \in Bounds /\ now = 0
    /\ \E phase \in {"Active", "Quiescing"} : ctl = NewControl(phase, 0)
    /\ drain = NoDrain
    /\ work = [e \in Ev |-> 0] /\ handled = {}
    /\ callback = [c \in Callbacks |-> [pc |-> "away", at |-> 0, result |-> "none"]]
    /\ inFlight = 0 /\ observed = None
    /\ listen = [msg |-> FALSE, card |-> FALSE, active |-> FALSE]
    /\ loop = [pc |-> "starting", ok |-> FALSE, started |-> FALSE, todo |-> {},
               event |-> None]
    /\ writes = <<Monitor>> /\ writing = None /\ beat = 0
    /\ file = None /\ left \in bound.left /\ lapsed = FALSE
    /\ store = {} /\ quarantine = {}

Tick == now < bound.time /\ now' = now + 1 /\ UNCHANGED <<bound, workerVars, sidecarVars>>
-----------------------------------------------------------------------------
(* The worker: gate, permits and the drain decision.                       *)

NoPermits == \A e \in Ev : work[e] = 0

\* Mutant: the cutoff's own millisecond is enough.
ObservedSince(seen, cutoff) == seen # None /\ seen >= cutoff

ObservedAfter(seen, cutoff) == seen # None /\ seen > cutoff

\* Mutant: the age of a file is not looked at.
NeverTooOld(at) == FALSE

TooOld(at) == now > at + StaleAfter

\* The sidecar's file counts nothing, whatever it says: the file is too old or
\* its process is gone.  (It always parses: it is renamed into place whole.)
Ignored == file # None /\ (TooOld(file.at) \/ loop.pc = "gone")

\* An earlier one counts while another process has its process id and its age
\* is not reached: it has seen nothing since this worker started.
LeftHolds == left = "reused" /\ ~TooOld(0)

\* sidecar_drain_in_flight_count_after is 0: each file is missing or ignored,
\* or counts nothing and saw the worker inactive strictly after the cutoff.
SidecarClear(cutoff) ==
    /\ file = None \/ Ignored \/ (file.count = 0 /\ ObservedAfter(file.observed, cutoff))
    /\ ~LeftHolds

Fence(method) ==
    /\ drain.pc \in {"idle", "accepted"} /\ CanFence(ctl)
    /\ ctl.generation < bound.transitions
    /\ ctl' = IF method = "shutdown" THEN BeginShutdown(ctl, now)
                                     ELSE BeginQuiesce(ctl, now)
    /\ drain' = [pc |-> "waiting", method |-> method, previous |-> ctl,
                 fence |-> ctl'.generation, clear |-> FALSE]
    /\ UNCHANGED <<bound, now, work, handled, readVars, sidecarVars>>

\* The permits have drained, and the loop goes on to drain the Codex runtime.
BeginDrain ==
    /\ drain.pc = "waiting" /\ NoPermits
    /\ drain.method = "drain" => IsCurrentQuiesce(ctl, drain.fence)
    /\ drain' = [drain EXCEPT !.pc = "begun"]
    /\ UNCHANGED <<bound, now, ctl, work, handled, readVars, sidecarVars>>

\* An export of the handoff asks for a drained worker and counts what is left.
Export ==
    /\ drain.pc \in {"idle", "accepted"} /\ ctl.phase = "Quiescing"
    /\ drain' = [NoDrain EXCEPT !.pc = "begun", !.fence = ctl.generation]
    /\ UNCHANGED <<bound, now, ctl, work, handled, readVars, sidecarVars>>

\* A permit or another transition has come in between: the answer will be no.
Hopeless ==
    \/ ~NoPermits
    \/ drain.method = "drain" /\ ~IsCurrentQuiesce(ctl, drain.fence)

\* Then the files are read, also to tell the client of a refusal how much is left.
\* One that is ignored is removed next, if it can be.
ReadSidecar ==
    /\ drain.pc = "begun" \/ (drain.pc = "waiting" /\ Hopeless)
    /\ drain' = [drain EXCEPT !.pc = IF Ignored THEN "removing" ELSE "read",
                  !.clear = drain.pc = "begun" /\ SidecarClear(ctl.since)]
    /\ left' = left \/ (~LeftHolds /\ left' = "none")
    /\ lapsed' = (lapsed \/ (Ignored /\ loop.pc # "gone"))
    /\ UNCHANGED <<bound, now, ctl, work, handled, sidecarVars>>

\* The file is removed, by its name: the sidecar may have published since.
RemoveFile ==
    /\ drain.pc = "removing"
    /\ drain' = [drain EXCEPT !.pc = "read"]
    /\ file' \in {file, None}
    /\ UNCHANGED <<bound, now, ctl, work, handled, readVars, callback, inFlight, observed,
                   listen, loop, writes, writing, beat, store, quarantine>>

\* Mutant: the permits are not read again.
SkipPermits ==
    /\ drain.pc = "read"
    /\ drain' = [drain EXCEPT !.pc = "counted"]
    /\ UNCHANGED <<bound, now, ctl, work, handled, readVars, sidecarVars>>

\* Then the permits again.
CountPermits ==
    /\ drain.pc = "read"
    /\ drain' = [drain EXCEPT !.pc = "counted", !.clear = @ /\ NoPermits]
    /\ UNCHANGED <<bound, now, ctl, work, handled, readVars, sidecarVars>>

\* The mirror is persisted, and what was counted decides.
Accept ==
    /\ drain.pc = "counted" /\ drain.clear
    /\ drain.method = "drain" => IsCurrentQuiesce(ctl, drain.fence)
    /\ drain' = [drain EXCEPT !.pc = "accepted"]
    /\ UNCHANGED <<bound, now, ctl, work, handled, readVars, sidecarVars>>

\* Something is left here or in Codex, a deadline passed, or the client of an
\* accepted shutdown is gone: a shutdown gives the gate back.
Refuse ==
    /\ drain.pc \in {"waiting", "begun", "removing", "read", "counted"}
         \/ (drain.pc = "accepted" /\ drain.method = "shutdown")
    /\ drain' = NoDrain
    /\ ctl' = IF drain.method = "shutdown"
              THEN RestoreShutdownPhase(ctl, drain.previous) ELSE ctl
    /\ UNCHANGED <<bound, now, work, handled, readVars, sidecarVars>>

\* An unquiesce claims the gate, then commits or is taken back.
Claim ==
    /\ ctl.phase = "Quiescing" /\ drain.pc \in {"idle", "waiting", "accepted"}
    /\ ctl.generation < bound.transitions
    /\ ctl' = BeginActivation(ctl)
    /\ UNCHANGED <<bound, now, drain, work, handled, readVars, sidecarVars>>

Resolve ==
    /\ ctl.phase = "Activating"
    /\ \/ ctl' = CompleteActivation(ctl, ctl.generation, now)
       \/ ctl' = CancelActivation(ctl, ctl)
    /\ UNCHANGED <<bound, now, drain, work, handled, readVars, sidecarVars>>

\* handle_webex_ingress ends.  The connection of a replay waits for it; that of
\* a live event does not, and one that timed out no longer does.
Process(e) ==
    /\ work[e] > 0
    /\ work' = [work EXCEPT ![e] = @ - 1]
    /\ \E result \in {"ok", "failed"} :
         /\ handled' = IF result = "ok" THEN handled \cup {e} ELSE handled
         /\ callback' = IF work[e] = 1 /\ loop.event = e /\ callback[Replay].pc = "posted"
                        THEN [callback EXCEPT ![Replay].pc = "answered",
                                              ![Replay].result = result]
                        ELSE callback
    /\ UNCHANGED <<bound, now, ctl, drain, readVars, inFlight, observed, listen, loop,
                   writes, writing, beat, file, store, quarantine>>

WorkerStep ==
    \/ \E method \in {"drain", "shutdown"} : Fence(method)
    \/ BeginDrain \/ Export \/ ReadSidecar \/ RemoveFile \/ CountPermits \/ Accept \/ Refuse
    \/ Claim \/ Resolve
    \/ \E e \in Ev : Process(e)
-----------------------------------------------------------------------------
(* The sidecar: callbacks, tracked while they run.                         *)

Move(c, pc) == callback' = [callback EXCEPT ![c].pc = pc]

\* Mutant: a replay is not counted.
TrackLive(c) ==
    /\ inFlight' = IF c = Replay THEN inFlight ELSE inFlight + 1
    /\ writes' = Append(writes, c)
    /\ callback' = [callback EXCEPT ![c] =
                      [pc |-> "tracking", at |-> now, result |-> "none"]]

Track(c) ==
    /\ inFlight' = inFlight + 1
    /\ writes' = Append(writes, c)
    /\ callback' = [callback EXCEPT ![c] =
                      [pc |-> "tracking", at |-> now, result |-> "none"]]

Untrack(c, result) ==
    /\ inFlight' = IF inFlight > 0 THEN inFlight - 1 ELSE 0
    /\ writes' = Append(writes, c)
    /\ callback' = [callback EXCEPT ![c] =
                      [pc |-> "untracking", at |-> callback[c].at, result |-> result]]

Receive(e) ==
    /\ callback[e].pc = "away"
    /\ IF e \in Cards THEN listen.card ELSE listen.msg
    /\ Track(e)
    /\ UNCHANGED <<bound, now, workerVars, observed, listen, loop, writing, file,
                   store, quarantine, beat>>

\* The resource is fetched; the bot's own message, an empty one or a failed
\* fetch ends the callback.
Fetch(e) ==
    /\ callback[e].pc = "fetching"
    /\ \/ Move(e, "sending") /\ UNCHANGED <<inFlight, writes>>
       \/ Untrack(e, "failed")
    /\ UNCHANGED <<bound, now, workerVars, observed, listen, loop, writing, file,
                   store, quarantine, beat>>

\* sendEnvelopeOnce, up to the worker's admission.
Post(c) ==
    /\ callback[c].pc = "sending"
    /\ \/ /\ Admits(ctl, TRUE, callback[c].at)
          /\ work' = [work EXCEPT ![EventOf(c)] = @ + 1]
          /\ Move(c, "posted")
       \/ /\ ~Admits(ctl, TRUE, callback[c].at)
          /\ Move(c, "storing") /\ UNCHANGED work
    /\ UNCHANGED <<bound, now, ctl, drain, handled, readVars, inFlight, observed, listen, loop,
                   writes, writing, file, store, quarantine, beat>>

\* A live event is acknowledged once queued, a replay once processed; a replay
\* the worker is too slow for (105 s) is deferred again.
TakeAck(c) ==
    /\ \/ c # Replay /\ callback[c].pc = "posted" /\ Untrack(c, "ok")
       \/ callback[c].pc = "answered" /\ Untrack(c, callback[c].result)
       \/ /\ c = Replay /\ callback[c].pc = "posted" /\ work[EventOf(c)] <= bound.late
          /\ Move(c, "storing") /\ UNCHANGED <<inFlight, writes>>
    /\ UNCHANGED <<bound, now, workerVars, observed, listen, loop, writing, file,
                   store, quarantine, beat>>

\* enterDeferredIngressMode: the envelope is stored, then the listeners stop.
Store(c) ==
    /\ callback[c].pc = "storing"
    /\ store' = store \cup {EventOf(c)}
    /\ Move(c, "stop")
    /\ UNCHANGED <<bound, now, workerVars, inFlight, observed, listen, loop, writes,
                   writing, file, quarantine, beat>>

\* stopWebexListeners, from one await to the next: which listener a caller
\* waits for next, and the flags when its wait is over.
NextStop(l) == IF l.msg THEN "stopMsg" ELSE IF l.card THEN "stopCard" ELSE "done"
Stopped(l, pc) ==
    LET off == CASE pc = "stop" -> l
                 [] pc = "stopMsg" -> [l EXCEPT !.msg = FALSE]
                 [] pc = "stopCard" -> [l EXCEPT !.card = FALSE]
        next == CASE pc = "stop" -> NextStop(l)
                  [] pc = "stopMsg" /\ l.card -> "stopCard"
                  [] OTHER -> "done"
    IN  [next |-> next, listen |->
           IF next = "done" THEN [off EXCEPT !.active = off.msg \/ off.card] ELSE off]

StopByCallback(c) ==
    /\ callback[c].pc \in {"stop", "stopMsg", "stopCard"}
    /\ LET s == Stopped(listen, callback[c].pc) IN
         /\ listen' = s.listen
         /\ IF s.next = "done" THEN Untrack(c, "deferred")
            ELSE Move(c, s.next) /\ UNCHANGED <<inFlight, writes>>
    /\ UNCHANGED <<bound, now, workerVars, observed, loop, writing, file,
                   store, quarantine, beat>>

CallbackStep(c) ==
    Fetch(c) \/ Post(c) \/ TakeAck(c) \/ Store(c) \/ StopByCallback(c)
-----------------------------------------------------------------------------
(* The sidecar: one drain-state write after the other.                     *)

BeginWrite ==
    /\ writing = None /\ writes # <<>>
    /\ writing' = [by |-> Head(writes), count |-> inFlight, observed |-> observed,
                   at |-> now]
    /\ writes' = Tail(writes)
    /\ UNCHANGED <<bound, now, workerVars, callback, inFlight, observed, listen, loop,
                   file, store, quarantine, beat>>

AfterWrite(pc) == CASE pc = "starting" -> "check"
                    [] pc = "clearing" -> "list"
                    [] pc = "removing" -> "replay"
                    [] pc = "observing" -> "check"

EndWrite ==
    /\ writing # None
    /\ file' = [count |-> writing.count, observed |-> writing.observed, at |-> writing.at]
    /\ writing' = None
    /\ LET by == writing.by IN
       CASE by = Heartbeat -> UNCHANGED <<loop, callback>>
         [] by = Monitor ->
            loop' = [loop EXCEPT !.pc = AfterWrite(@)] /\ UNCHANGED callback
         [] by \in Callbacks ->
            /\ Move(by, IF callback[by].pc = "untracking" THEN "ended"
                        ELSE IF by = Replay THEN "sending" ELSE "fetching")
            /\ UNCHANGED loop
    /\ UNCHANGED <<bound, now, workerVars, inFlight, observed, listen, writes,
                   store, quarantine, beat>>

\* startSidecarDrainStateHeartbeat: the state is written again, whatever it is.
Beat ==
    /\ loop.pc # "gone" /\ now >= beat + BeatEvery
    /\ beat' = now /\ writes' = Append(writes, Heartbeat)
    /\ UNCHANGED <<bound, now, workerVars, callback, inFlight, observed, listen, loop,
                   writing, file, store, quarantine>>

\* The sidecar is killed, or crashes, or shuts down and removes its file.
Exit ==
    /\ loop.pc # "gone"
    /\ loop' = [loop EXCEPT !.pc = "gone", !.todo = {}]
    /\ callback' = [c \in Callbacks |-> [callback[c] EXCEPT !.pc = "away", !.at = 0]]
    /\ inFlight' = 0 /\ observed' = None
    /\ listen' = [msg |-> FALSE, card |-> FALSE, active |-> FALSE]
    /\ writes' = <<>> /\ writing' = None /\ beat' = 0
    /\ file' \in {file, None}
    /\ UNCHANGED <<bound, now, workerVars, store, quarantine>>

\* The supervisor may kill the worker from here on.
Orphaned == loop.pc = "gone" /\ UNCHANGED vars
-----------------------------------------------------------------------------
(* The sidecar: main, then monitorWorkerActive.                            *)

Goto(pc) == loop' = [loop EXCEPT !.pc = pc]

\* The worker answers an active_check; the answer is on its way.
Check ==
    /\ loop.pc = "check"
    /\ loop' = [loop EXCEPT !.pc = "answered", !.ok = ctl.phase = "Active"]
    /\ UNCHANGED <<bound, now, workerVars, callback, inFlight, observed, listen, writes,
                   writing, file, store, quarantine, beat>>

\* Mutant: the first observation is kept.
ObserveOnce == /\ observed' = IF observed = None THEN now ELSE observed
               /\ writes' = Append(writes, Monitor)
               /\ Goto("observing")

Observe == /\ observed' = now
           /\ writes' = Append(writes, Monitor)
           /\ Goto("observing")

TakeAnswer ==
    /\ loop.pc = "answered"
    /\ \/ /\ loop.ok /\ observed = None /\ Goto("list")
          /\ UNCHANGED <<observed, writes>>
       \/ /\ loop.ok /\ observed # None /\ Goto("clearing")
          /\ observed' = None /\ writes' = Append(writes, Monitor)
       \/ /\ ~loop.ok /\ listen.active /\ Goto("stop")
          /\ UNCHANGED <<observed, writes>>
       \/ ~loop.ok /\ ~listen.active /\ Observe
    /\ UNCHANGED <<bound, now, workerVars, callback, inFlight, listen, writing, file,
                   store, quarantine, beat>>

StopByMonitor ==
    /\ loop.pc \in {"stop", "stopMsg", "stopCard"}
    /\ LET s == Stopped(listen, loop.pc) IN
         /\ listen' = s.listen
         /\ IF s.next = "done" THEN Observe
            ELSE Goto(s.next) /\ UNCHANGED <<observed, writes>>
    /\ UNCHANGED <<bound, now, workerVars, callback, inFlight, writing, file,
                   store, quarantine, beat>>

\* replayDeferredIngress: the records found now, one after the other.
ListDeferred ==
    /\ loop.pc = "list"
    /\ loop' = [loop EXCEPT !.pc = "replay", !.todo = store]
    /\ UNCHANGED <<bound, now, workerVars, callback, inFlight, observed, listen, writes,
                   writing, file, store, quarantine, beat>>

ReplayNext(e) ==
    /\ loop.pc = "replay" /\ e \in loop.todo
    /\ loop' = [loop EXCEPT !.pc = "replaying", !.event = e, !.todo = @ \ {e}]
    /\ Track(Replay)
    /\ UNCHANGED <<bound, now, workerVars, observed, listen, writing, file,
                   store, quarantine, beat>>

\* Mutant: a replay that was deferred again takes its record away too.
ReplayDoneAlways ==
    /\ loop.pc = "replaying" /\ callback[Replay].pc = "ended"
    /\ store' = store \ {loop.event}
    /\ writes' = Append(writes, Monitor)
    /\ Goto("removing")
    /\ UNCHANGED <<bound, now, workerVars, callback, inFlight, observed, listen,
                   writing, file, quarantine, beat>>

\* Processed, or refused for good and quarantined: the record goes.  Deferred
\* again: main asks for an active worker anew, the monitor stops listening.
ReplayDone ==
    /\ loop.pc = "replaying" /\ callback[Replay].pc = "ended"
    /\ \/ /\ callback[Replay].result # "deferred"
          /\ store' = store \ {loop.event}
          /\ quarantine' = IF callback[Replay].result = "failed"
                           THEN quarantine \cup {loop.event} ELSE quarantine
          /\ writes' = Append(writes, Monitor)
          /\ Goto("removing")
       \/ /\ callback[Replay].result = "deferred"
          /\ Goto(IF loop.started THEN "stop" ELSE "check")
          /\ UNCHANGED <<store, quarantine, writes>>
    /\ UNCHANGED <<bound, now, workerVars, callback, inFlight, observed, listen,
                   writing, file, beat>>

\* startWebexListeners: nothing to do when listenersActive says so.
StartListening ==
    /\ loop.pc = "replay" /\ loop.todo = {}
    /\ loop' = [loop EXCEPT !.started = TRUE,
                  !.pc = IF listen.active THEN "check" ELSE "listenMsg"]
    /\ UNCHANGED <<bound, now, workerVars, callback, inFlight, observed, listen, writes,
                   writing, file, store, quarantine, beat>>

Listen ==
    /\ \/ /\ loop.pc = "listenMsg" /\ Goto("listenCard")
          /\ listen' = [listen EXCEPT !.msg = TRUE]
       \/ /\ loop.pc = "listenCard" /\ Goto("check")
          /\ listen' = [listen EXCEPT !.card = TRUE, !.active = TRUE]
    /\ UNCHANGED <<bound, now, workerVars, callback, inFlight, observed, writes, writing,
                   file, store, quarantine, beat>>

LoopStep ==
    \/ Check \/ TakeAnswer \/ StopByMonitor \/ ListDeferred \/ ReplayDone
    \/ StartListening \/ Listen \/ \E e \in Ev : ReplayNext(e)

Next ==
    \/ Tick \/ WorkerStep
    \/ \E e \in bound.events : Receive(e)
    \/ \E c \in Callbacks : CallbackStep(c)
    \/ BeginWrite \/ EndWrite \/ Beat \/ LoopStep \/ Exit \/ Orphaned

Spec == Init /\ [][Next]_vars

\* The event loop of the sidecar runs, its awaits end, and the worker comes to
\* the end of what it admitted; a drain, an unquiesce or an event need not come.
FairSpec ==
    /\ Spec /\ WF_vars(Tick) /\ WF_vars(BeginWrite) /\ WF_vars(EndWrite)
    /\ WF_vars(LoopStep)
    /\ \A c \in Callbacks : WF_vars(CallbackStep(c))
    /\ \A e \in Ev : WF_vars(Process(e))
-----------------------------------------------------------------------------
Running == {c \in Callbacks : callback[c].pc \notin {"away", "untracking", "ended"}}
Drained == drain.pc = "accepted" /\ ctl.generation = drain.fence

\* The sidecar's counter is the number of callbacks it runs: what it publishes
\* is never less than what was running when the write began.
CallbacksCounted == inFlight = Cardinality(Running)

\* Every part of the state has its type and the counter is exact, whichever
\* callbacks and replays begin, wait and end together (withSidecarDrainTracking).
CounterInv == TypeOK /\ CallbacksCounted

\* A worker that reports itself drained, and whose gate has not moved since, is
\* quiet: no event is queued or processed, no callback runs, nothing is heard.
\* (The age rule breaks it for a sidecar that runs and has not published.)
QuietWhenDrained ==
    Drained => NoPermits /\ Running = {} /\ ~listen.msg /\ ~listen.card

\* It is quiet unless a drain ignored the file of a running sidecar for its age:
\* corrupt files, those of processes that are gone and those that earlier
\* sidecars left may be ignored.
DrainedIsQuiet == lapsed \/ QuietWhenDrained

\* An event whose callback or replay ended deferred is in the store until it is
\* processed or quarantined.
NoneForgotten ==
    /\ \A e \in Ev : callback[e].result = "deferred" =>
                      e \in store \cup handled \cup quarantine
    /\ callback[Replay].result = "deferred" => loop.event \in store \cup handled

\* While a fence stays the sidecar comes to rest and says so: the worker can
\* then be drained, even if another process has the process id of a sidecar that
\* left a file.  (A fence at the last moment of the clock is excluded: nothing
\* can be observed after it.  The clock must go on for longer than StaleAfter.)
DrainBecomesPossible ==
    \/ []<>~(ctl.phase \in {"Quiescing", "ShuttingDown"} /\ ctl.since < bound.time)
    \/ <>[](SidecarClear(ctl.since) /\ NoPermits)
=============================================================================
