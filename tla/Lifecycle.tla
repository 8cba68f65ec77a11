------------------------------ MODULE Lifecycle ------------------------------
(***************************************************************************)
(* The lifecycle plane of one wxcd-worker process in plugin mode:          *)
(*                                                                         *)
(*   - one task per control connection (handle_lifecycle_rpc_frame), which *)
(*     moves the admission gate at once, waits for the ingress permits to  *)
(*     drain, queues a command and answers the client;                     *)
(*   - one task per ingress connection (handle_ingress_connection), which  *)
(*     takes a permit under the gate's mutex and queues its event;         *)
(*   - the worker loop, the only consumer of the bounded queue, which runs *)
(*     one item at a time and commits a shutdown or an unquiesce only when *)
(*     the answer was flushed to the client.                               *)
(*                                                                         *)
(* Deadlines are ages, not clocks: a request is fresh (0), past the 30 s   *)
(* queue deadline (1), past the 65 s response deadline (2).  The health    *)
(* checks read the gate and change nothing; handoff is not modelled here.  *)
(***************************************************************************)
EXTENDS LifecycleControl, FiniteSets, Sequences

CONSTANTS Rpc,           \* lifecycle requests, each used once
          Ing,           \* ingress events, each sent once
          Stamped,       \* those that carry sidecar_received_at
          AckWaiting,    \* those answered only when processed
          None,          \* no queue item
          QueueCapacity, \* mpsc::channel(256)
          MaxTime,       \* bound on the clock that stamps cutoffs
          Plans          \* which method each request may carry

ASSUME ActorAssumption ==
    /\ IsFiniteSet(Ing) /\ IsFiniteSet(Rpc) /\ Rpc \cap Ing = {}
    /\ Stamped \subseteq Ing /\ AckWaiting \subseteq Ing
    /\ None \notin Rpc \cup Ing
ASSUME PlanAssumption ==
    Plans \subseteq [Rpc -> {"quiesce", "drain", "shutdown", "unquiesce"}]
ASSUME BoundAssumption ==
    QueueCapacity \in Nat \ {0} /\ MaxTime \in Nat

VARIABLES now,      \* wall clock, one unit per distinguishable millisecond
          ctl,      \* the gate
          inFlight, \* the in_flight counter
          rpc,      \* the control connections
          ingress,  \* the ingress connections
          queue,    \* the work channel
          worker,   \* the worker loop
          startup,  \* startup_reconcile_{pending,completed}, ..persist_pending
          marker,   \* the supervisor shutdown marker exists
          fenced,   \* history: a quiesce was accepted, no later unquiesce
                    \*   has committed
          outdated  \* history: unquiesce requests an accepted quiesce overtook

vars == <<now, ctl, inFlight, rpc, ingress, queue, worker, startup,
          marker, fenced, outdated>>

Methods == {"quiesce", "drain", "shutdown", "unquiesce"}
Replies == {"none", "accepted", "refused", "error"}
RpcSteps == {"idle", "waitDrain", "enqueue", "await", "restore", "writing",
             "sent", "unsent"}
IngressSteps == {"idle", "received", "sending", "queued", "processed", "refused"}
WorkerSteps == {"idle", "ingress", "begin", "drain", "count", "commit",
                "reconcile", "flush", "stopped", "exited"}

Claims == [generation : Nat, since : Nat]
RpcStates == [method : Methods, pc : RpcSteps, age : 0..2,
              held : ControlStates, reply : Replies]
IngressStates == [pc : IngressSteps, at : Nat]
WorkerStates == [pc : WorkerSteps, item : Rpc \cup Ing \cup {None},
                 left : BOOLEAN, claim : Claims]
StartupStates == [pending : BOOLEAN, completed : BOOLEAN, unsaved : BOOLEAN]

TypeOK ==
    /\ now \in Nat /\ ctl \in ControlStates /\ inFlight \in Nat
    /\ rpc \in [Rpc -> RpcStates]
    /\ ingress \in [Ing -> IngressStates]
    /\ queue \in Seq(Rpc \cup Ing)
    /\ worker \in WorkerStates
    /\ startup \in StartupStates
    /\ marker \in BOOLEAN /\ fenced \in BOOLEAN
    /\ outdated \in SUBSET Rpc

NoClaim == [generation |-> 0, since |-> 0]

Idle == [pc |-> "idle", item |-> None, left |-> FALSE, claim |-> NoClaim]

Running == worker.pc \notin {"stopped", "exited"}
-----------------------------------------------------------------------------
\* A worker started with WXCD_CBTH_PRE_ACTIVE comes up quiesced and owes its
\* startup reconcile; any other has reconciled before it serves.
Init ==
    /\ now = 0
    /\ \E preActive \in BOOLEAN, unsaved \in BOOLEAN :
         /\ ctl = NewControl(IF preActive THEN "Quiescing" ELSE "Active", 0)
         /\ startup = [pending   |-> preActive,
                       completed |-> ~preActive,
                       unsaved   |-> preActive /\ unsaved]
         /\ fenced = preActive
    /\ \E method \in Plans :
         rpc = [r \in Rpc |-> [method |-> method[r], pc |-> "idle", age |-> 0,
                               held |-> ctl, reply |-> "none"]]
    /\ inFlight = 0
    /\ ingress = [i \in Ing |-> [pc |-> "idle", at |-> 0]]
    /\ queue = <<>>
    /\ worker = Idle
    /\ marker = FALSE
    /\ outdated = {}

Tick ==
    /\ Running /\ now < MaxTime
    /\ now' = now + 1
    /\ UNCHANGED <<ctl, inFlight, rpc, ingress, queue, worker, startup,
                   marker, fenced, outdated>>
-----------------------------------------------------------------------------
(* Control connections: handle_lifecycle_rpc_frame.                        *)

At(r, method, pc) == Running /\ rpc[r].method = method /\ rpc[r].pc = pc

\* The connection has its answer and goes on to write it.
Answer(r, reply) == [rpc EXCEPT ![r].pc = "writing", ![r].reply = reply]

\* What every accepted quiesce means for the requests prepared before it.
QuiesceAccepted ==
    /\ ctl' = BeginQuiesce(ctl, now)
    /\ fenced' = TRUE
    /\ outdated' = outdated \cup
         {u \in Rpc : rpc[u].method = "unquiesce" /\ rpc[u].pc \in {"enqueue", "await"}}

Quiesce(r) ==
    /\ At(r, "quiesce", "idle")
    /\ \/ CanFence(ctl) /\ QuiesceAccepted /\ rpc' = Answer(r, "accepted")
       \/ ~CanFence(ctl) /\ rpc' = Answer(r, "refused")
            /\ UNCHANGED <<ctl, fenced, outdated>>
    /\ UNCHANGED <<now, inFlight, ingress, queue, worker, startup, marker>>

\* drain: the token is the generation of the quiesce it made.
BeginDrain(r) ==
    /\ At(r, "drain", "idle")
    /\ \/ /\ CanFence(ctl) /\ QuiesceAccepted
          /\ rpc' = [rpc EXCEPT ![r].pc = "waitDrain", ![r].held = ctl']
       \/ ~CanFence(ctl) /\ rpc' = Answer(r, "refused")
            /\ UNCHANGED <<ctl, fenced, outdated>>
    /\ UNCHANGED <<now, inFlight, ingress, queue, worker, startup, marker>>

\* shutdown: keeps the whole previous state, to restore it on refusal.
Shutdown(r) ==
    /\ At(r, "shutdown", "idle")
    /\ \/ /\ CanFence(ctl)
          /\ ctl' = BeginShutdown(ctl, now)
          /\ rpc' = [rpc EXCEPT ![r].pc = "waitDrain", ![r].held = ctl]
       \/ ~CanFence(ctl) /\ rpc' = Answer(r, "refused") /\ UNCHANGED ctl
    /\ UNCHANGED <<now, inFlight, ingress, queue, worker, startup, marker,
                   fenced, outdated>>

\* unquiesce: prepare_unquiesce only reads the generation.
PrepareUnquiesce(r) ==
    /\ At(r, "unquiesce", "idle")
    /\ rpc' = IF CanFence(ctl)
              THEN [rpc EXCEPT ![r].pc = "enqueue", ![r].held = ctl]
              ELSE Answer(r, "refused")
    /\ UNCHANGED <<now, ctl, inFlight, ingress, queue, worker, startup,
                   marker, fenced, outdated>>

\* Mutants: a refused drain restores too; a refused shutdown restores nothing.
GateAfterAnyRefusal(r) == RestoreShutdownPhase(ctl, rpc[r].held)
GateKeptOnRefusal(r) == ctl

\* What a refused or failed shutdown request does to the gate, at once.
GateAfterRefusal(r) ==
    IF rpc[r].method = "shutdown" THEN RestoreShutdownPhase(ctl, rpc[r].held)
                                  ELSE ctl

\* wait_until_drained saw in_flight = 0; a drain then rechecks its token.
Drained(r) ==
    /\ Running /\ rpc[r].pc = "waitDrain" /\ inFlight = 0
    /\ rpc' = IF \/ rpc[r].method = "shutdown"
                 \/ IsCurrentQuiesce(ctl, rpc[r].held.generation)
              THEN [rpc EXCEPT ![r].pc = "enqueue"]
              ELSE Answer(r, "refused")
    /\ UNCHANGED <<now, ctl, inFlight, ingress, queue, worker, startup,
                   marker, fenced, outdated>>

DrainTimeout(r) ==
    /\ Running /\ rpc[r].pc = "waitDrain" /\ inFlight > 0
    /\ ctl' = GateAfterRefusal(r)
    /\ rpc' = Answer(r, "refused")
    /\ UNCHANGED <<now, inFlight, ingress, queue, worker, startup, marker,
                   fenced, outdated>>

Enqueue(r) ==
    /\ Running /\ rpc[r].pc = "enqueue" /\ Len(queue) < QueueCapacity
    /\ queue' = Append(queue, r)
    /\ rpc' = [rpc EXCEPT ![r].pc = "await"]
    /\ UNCHANGED <<now, ctl, inFlight, ingress, worker, startup, marker,
                   fenced, outdated>>

Age(r) ==
    /\ Running /\ rpc[r].pc \in {"enqueue", "await"} /\ rpc[r].age < 2
    /\ rpc' = [rpc EXCEPT ![r].age = @ + 1]
    /\ UNCHANGED <<now, ctl, inFlight, ingress, queue, worker, startup,
                   marker, fenced, outdated>>

\* Mutant: no deadline on the answer.
ExpiredInQueueOnly(r) == rpc[r].pc = "enqueue" /\ rpc[r].age >= 1

\* The enqueue deadline (30 s) or the response deadline (65 s) fires.  The
\* command, once queued, stays queued.
Expired(r) == \/ rpc[r].pc = "enqueue" /\ rpc[r].age >= 1
              \/ rpc[r].pc = "await" /\ rpc[r].age = 2

RequestTimeout(r) ==
    /\ Running /\ Expired(r)
    /\ ctl' = GateAfterRefusal(r)
    /\ rpc' = Answer(r, "error")
    /\ UNCHANGED <<now, inFlight, ingress, queue, worker, startup, marker,
                   fenced, outdated>>

\* The completion arrived and says the shutdown was not accepted.
TakeRefusal(r) ==
    /\ Running /\ rpc[r].pc = "restore"
    /\ ctl' = GateAfterRefusal(r)
    /\ rpc' = [rpc EXCEPT ![r].pc = "writing"]
    /\ UNCHANGED <<now, inFlight, ingress, queue, worker, startup, marker,
                   fenced, outdated>>

\* The response frame is written and flushed, or the client is gone.
WriteResponse(r) ==
    /\ Running /\ rpc[r].pc = "writing"
    /\ \E outcome \in {"sent", "unsent"} : rpc' = [rpc EXCEPT ![r].pc = outcome]
    /\ UNCHANGED <<now, ctl, inFlight, ingress, queue, worker, startup,
                   marker, fenced, outdated>>

RpcStep(r) ==
    \/ Quiesce(r) \/ BeginDrain(r) \/ Shutdown(r) \/ PrepareUnquiesce(r)
    \/ Drained(r) \/ DrainTimeout(r) \/ Enqueue(r) \/ Age(r)
    \/ RequestTimeout(r) \/ TakeRefusal(r) \/ WriteResponse(r)
-----------------------------------------------------------------------------
(* Ingress connections: handle_ingress_connection.                         *)

\* The sidecar receives the event and stamps it.
Receive(i) ==
    /\ Running /\ ingress[i].pc = "idle"
    /\ ingress' = [ingress EXCEPT ![i] = [pc |-> "received", at |-> now]]
    /\ UNCHANGED <<now, ctl, inFlight, rpc, queue, worker, startup, marker,
                   fenced, outdated>>

\* try_begin_drainable_external_work: the permit is counted under the mutex.
Admit(i) ==
    /\ Running /\ ingress[i].pc = "received"
    /\ \/ /\ Admits(ctl, i \in Stamped, ingress[i].at)
          /\ inFlight' = inFlight + 1
          /\ ingress' = [ingress EXCEPT ![i].pc = "sending"]
       \/ /\ ~Admits(ctl, i \in Stamped, ingress[i].at)
          /\ ingress' = [ingress EXCEPT ![i].pc = "refused"]
          /\ UNCHANGED inFlight
    /\ UNCHANGED <<now, ctl, rpc, queue, worker, startup, marker, fenced,
                   outdated>>

SendIngress(i) ==
    /\ Running /\ ingress[i].pc = "sending" /\ Len(queue) < QueueCapacity
    /\ queue' = Append(queue, i)
    /\ ingress' = [ingress EXCEPT ![i].pc = "queued"]
    /\ UNCHANGED <<now, ctl, inFlight, rpc, worker, startup, marker,
                   fenced, outdated>>

\* Mutants: the permit is kept, or released by the timeout and again by its drop.
IngressTimeoutLeaks(i) ==
    /\ Running /\ i \in AckWaiting /\ ingress[i].pc = "sending"
    /\ ingress' = [ingress EXCEPT ![i].pc = "refused"]
    /\ UNCHANGED <<now, ctl, inFlight, rpc, queue, worker, startup, marker, fenced,
                   outdated>>

IngressTimeoutTwice(i) ==
    /\ Running /\ i \in AckWaiting /\ ingress[i].pc = "sending"
    /\ ingress' = [ingress EXCEPT ![i].pc = "refused"]
    /\ inFlight' = inFlight - 2
    /\ UNCHANGED <<now, ctl, rpc, queue, worker, startup, marker, fenced,
                   outdated>>

\* The 105 s ingress deadline drops an event that waits for room in the queue,
\* and its permit; an event already queued is still processed.
IngressTimeout(i) ==
    /\ Running /\ i \in AckWaiting /\ ingress[i].pc = "sending"
    /\ ingress' = [ingress EXCEPT ![i].pc = "refused"]
    /\ inFlight' = inFlight - 1
    /\ UNCHANGED <<now, ctl, rpc, queue, worker, startup, marker, fenced,
                   outdated>>

IngressStep(i) == Receive(i) \/ Admit(i) \/ SendIngress(i) \/ IngressTimeout(i)
-----------------------------------------------------------------------------
(* The worker loop.                                                        *)

\* completion.send: it fails when the connection has given up.  Only a shutdown
\* that was not accepted has something to do before it writes the answer.
Listening(r) == rpc[r].pc = "await"

Complete(r, reply) ==
    rpc' = IF Listening(r)
           THEN [rpc EXCEPT ![r].reply = reply, ![r].pc =
                   IF rpc[r].method = "shutdown" /\ reply # "accepted"
                   THEN "restore" ELSE "writing"]
           ELSE rpc

Finish(r, reply) == Complete(r, reply) /\ worker' = Idle

TakeIngress ==
    /\ worker.pc = "idle" /\ queue # <<>> /\ Head(queue) \in Ing
    /\ queue' = Tail(queue)
    /\ worker' = [worker EXCEPT !.pc = "ingress", !.item = Head(queue)]
    /\ UNCHANGED <<now, ctl, inFlight, rpc, ingress, startup, marker,
                   fenced, outdated>>

\* handle_webex_ingress returned (Ok or Err) and the permit is dropped.
FinishIngress ==
    /\ worker.pc = "ingress"
    /\ ingress' = [ingress EXCEPT ![worker.item].pc = "processed"]
    /\ inFlight' = inFlight - 1
    /\ worker' = Idle
    /\ UNCHANGED <<now, ctl, rpc, queue, startup, marker, fenced, outdated>>

\* A command older than the queue deadline is failed, not run.
TakeCommand ==
    /\ worker.pc = "idle" /\ queue # <<>> /\ Head(queue) \in Rpc
    /\ queue' = Tail(queue)
    /\ \/ rpc[Head(queue)].age >= 1 /\ Finish(Head(queue), "error")
       \/ /\ rpc[Head(queue)].age = 0
          /\ worker' = [worker EXCEPT !.pc = "begin", !.item = Head(queue)]
          /\ UNCHANGED rpc
    /\ UNCHANGED <<now, ctl, inFlight, ingress, startup, marker, fenced,
                   outdated>>

Runs(method, pc) == worker.pc = pc /\ rpc[worker.item].method = method

Token == rpc[worker.item].held.generation

\* Drain and shutdown first look at the ingress permits; a drain also at its
\* token.  Persisting the mirror before the refusal may fail.
BeginRuntimeDrain ==
    /\ Runs("drain", "begin") \/ Runs("shutdown", "begin")
    /\ IF inFlight = 0 /\ (Runs("drain", "begin") => IsCurrentQuiesce(ctl, Token))
       THEN worker' = [worker EXCEPT !.pc = "drain"] /\ UNCHANGED rpc
       ELSE \E reply \in {"refused", "error"} : Finish(worker.item, reply)
    /\ UNCHANGED <<now, ctl, inFlight, ingress, queue, startup, marker,
                   fenced, outdated>>

\* drain_codex_runtime, 30 s at most, skipped while the startup reconcile is
\* owed; handling a Codex event may fail.  A drain rechecks its token.
DrainRuntime ==
    /\ worker.pc = "drain"
    /\ \/ /\ rpc[worker.item].method = "drain" => IsCurrentQuiesce(ctl, Token)
          /\ worker' = [worker EXCEPT !.pc = "count"] /\ UNCHANGED rpc
       \/ /\ rpc[worker.item].method = "drain" /\ ~IsCurrentQuiesce(ctl, Token)
          /\ \E reply \in {"refused", "error"} : Finish(worker.item, reply)
       \/ ~startup.pending /\ Finish(worker.item, "error")
    /\ UNCHANGED <<now, ctl, inFlight, ingress, queue, startup, marker, fenced,
                   outdated>>

\* lifecycle_runtime_in_flight_count: the sidecar backlog, read first, and the
\* Codex runtime are the environment's.
CountRuntime ==
    /\ worker.pc = "count"
    /\ \E runtime \in BOOLEAN :
         worker' = [worker EXCEPT !.pc = "commit", !.left = runtime \/ inFlight > 0]
    /\ UNCHANGED <<now, ctl, inFlight, rpc, ingress, queue, startup, marker,
                   fenced, outdated>>

CommitDrain ==
    /\ Runs("drain", "commit")
    /\ \/ Finish(worker.item, IF IsCurrentQuiesce(ctl, Token) /\ ~worker.left
                              THEN "accepted" ELSE "refused")
       \/ Finish(worker.item, "error")
    /\ UNCHANGED <<now, ctl, inFlight, ingress, queue, startup, marker,
                   fenced, outdated>>

\* A shutdown with nothing left writes the marker and then needs the client to
\* have the answer.  Nobody listening: back to the previous phase.
CommitShutdown ==
    /\ Runs("shutdown", "commit")
    /\ \/ /\ ~worker.left /\ Listening(worker.item)
          /\ marker' = TRUE
          /\ Complete(worker.item, "accepted")
          /\ worker' = [worker EXCEPT !.pc = "flush"]
          /\ UNCHANGED ctl
       \/ /\ ~worker.left /\ ~Listening(worker.item)
          /\ marker' \in BOOLEAN
          /\ ctl' = RestoreShutdownPhase(ctl, rpc[worker.item].held)
          /\ worker' = Idle /\ UNCHANGED rpc
       \/ /\ worker.left /\ Finish(worker.item, "refused")
          /\ UNCHANGED <<ctl, marker>>
       \/ /\ Finish(worker.item, "error")
          /\ UNCHANGED ctl /\ marker' \in {marker, marker \/ ~worker.left}
    /\ UNCHANGED <<now, inFlight, ingress, queue, startup, fenced, outdated>>

\* handle_lifecycle_unquiesce up to the claim of the activation.
BeginUnquiesce ==
    /\ Runs("unquiesce", "begin")
    /\ LET r == worker.item
           open == rpc[r].age < 2 /\ TakesToken(ctl, Token)
       IN
       \/ /\ open /\ ctl.phase = "Quiescing"
          /\ ctl' = BeginActivation(ctl)
          /\ worker' = [worker EXCEPT !.pc = "reconcile",
                !.claim = [generation |-> ctl'.generation, since |-> ctl.since]]
          /\ UNCHANGED rpc
       \/ /\ open /\ ctl.phase = "Active" /\ ~startup.pending
          /\ Finish(r, "accepted") /\ UNCHANGED ctl
       \/ /\ ~open \/ (ctl.phase = "Active" /\ startup.pending)
          /\ Finish(r, "refused") /\ UNCHANGED ctl
    /\ UNCHANGED <<now, inFlight, ingress, queue, startup, marker, fenced,
                   outdated>>

\* Mutant: the snapshot that waited for the activation is forgotten.
ReconciledUnsaved == [startup EXCEPT !.completed = TRUE]

Reconciled == [startup EXCEPT !.completed = TRUE, !.unsaved = FALSE]

\* The startup reconcile and the pending snapshot, when owed; either may fail,
\* and the response deadline may pass before or after them.
Reconcile ==
    /\ worker.pc = "reconcile"
    /\ LET r == worker.item
           owed == startup.pending /\ ~startup.completed
           late == startup.pending /\ rpc[r].age = 2
           Cancel(reply) == /\ ctl' = CancelActivation(ctl, worker.claim)
                            /\ Finish(r, reply)
       IN
       \/ late /\ owed /\ Cancel("refused") /\ UNCHANGED startup
       \/ owed /\ Cancel("error") /\ UNCHANGED startup
       \/ /\ startup.unsaved /\ Cancel("error")
          /\ startup' = [startup EXCEPT !.completed = TRUE]
       \/ late /\ Cancel("refused") /\ startup' = Reconciled
       \/ /\ ~late
          /\ startup' = IF startup.pending THEN Reconciled ELSE startup
          /\ IF Listening(r)
             THEN /\ Complete(r, "accepted") /\ UNCHANGED ctl
                  /\ worker' = [worker EXCEPT !.pc = "flush"]
             ELSE Cancel("accepted")
    /\ UNCHANGED <<now, inFlight, ingress, queue, marker, fenced, outdated>>

\* Mutant: the answer counts as flushed before it is written.
FlushAssumed(r) == rpc[r].pc \in {"writing", "sent"}

ResponseFlushed(r) == rpc[r].pc = "sent"

\* wait_for_lifecycle_response_flush saw the flush: commit.
Flushed ==
    /\ worker.pc = "flush" /\ ResponseFlushed(worker.item)
    /\ \/ /\ rpc[worker.item].method = "shutdown"
          /\ worker' = [worker EXCEPT !.pc = "stopped"]
          /\ UNCHANGED <<ctl, startup, fenced>>
       \/ /\ rpc[worker.item].method = "unquiesce"
          /\ ctl' = CompleteActivation(ctl, worker.claim.generation, now)
          /\ startup' = [startup EXCEPT !.pending =
                 @ /\ ~OwnsActivation(ctl, worker.claim.generation)]
          /\ fenced' = (fenced /\ worker.item \in outdated)
          /\ worker' = Idle
    /\ UNCHANGED <<now, inFlight, rpc, ingress, queue, marker, outdated>>

\* The writer dropped, or 5 s passed first: undo.  Removing the marker is best
\* effort.
FlushFailed ==
    /\ worker.pc = "flush" /\ ~ResponseFlushed(worker.item)
    /\ \/ /\ rpc[worker.item].method = "shutdown"
          /\ ctl' = RestoreShutdownPhase(ctl, rpc[worker.item].held)
          /\ marker' \in {FALSE, marker}
       \/ /\ rpc[worker.item].method = "unquiesce"
          /\ ctl' = CancelActivation(ctl, worker.claim)
          /\ UNCHANGED marker
    /\ worker' = Idle
    /\ UNCHANGED <<now, inFlight, rpc, ingress, queue, startup, fenced,
                   outdated>>

\* ctrl-c, or the app-server connection is gone.
WorkerExit ==
    /\ worker.pc = "idle"
    /\ worker' = [worker EXCEPT !.pc = "exited"]
    /\ UNCHANGED <<now, ctl, inFlight, rpc, ingress, queue, startup, marker,
                   fenced, outdated>>

WorkerStep ==
    \/ TakeIngress \/ FinishIngress \/ TakeCommand \/ BeginRuntimeDrain
    \/ DrainRuntime \/ CountRuntime \/ CommitDrain \/ CommitShutdown
    \/ BeginUnquiesce \/ Reconcile \/ Flushed \/ FlushFailed

\* The process is gone and everything it ran with it.
Gone == ~Running /\ UNCHANGED vars

Next ==
    \/ Tick
    \/ \E r \in Rpc : RpcStep(r)
    \/ \E i \in Ing : IngressStep(i)
    \/ WorkerStep
    \/ WorkerExit
    \/ Gone

Spec == Init /\ [][Next]_vars

\* The tokio tasks and timers run; clients, the sidecar and signals owe nothing.
\* FinishIngress, DrainRuntime and Reconcile wait for Webex and Codex, and a
\* Codex request has no deadline: they get their fairness separately.
Fairness ==
    /\ WF_vars(TakeIngress \/ TakeCommand \/ BeginRuntimeDrain \/ CountRuntime
               \/ CommitDrain \/ CommitShutdown \/ BeginUnquiesce
               \/ Flushed \/ FlushFailed)
    /\ \A r \in Rpc :
         WF_vars(Drained(r) \/ DrainTimeout(r) \/ Enqueue(r) \/ Age(r)
                 \/ RequestTimeout(r) \/ TakeRefusal(r) \/ WriteResponse(r))
    /\ \A i \in Ing : WF_vars(SendIngress(i))

CodexAnswers == WF_vars(FinishIngress \/ DrainRuntime \/ Reconcile)

FairSpec == Spec /\ Fairness
-----------------------------------------------------------------------------
(* Safety.                                                                 *)

HoldsPermit(i) == ingress[i].pc \in {"sending", "queued"}

\* The drain counter is exactly the number of events that were admitted and
\* are not yet processed or dropped: queued ones, those waiting for room in
\* the queue, and the one in the worker's hands.
PermitsCounted == inFlight = Cardinality({i \in Ing : HoldsPermit(i)})

\* Once a quiesce or drain was accepted (or the worker came up pre-active), the
\* gate is not opened again until an unquiesce prepared after it commits:
\* neither by an older unquiesce still on its way nor by a refused shutdown.
QuiesceHolds == fenced => ctl.phase # "Active"

\* Activating always has its one owner, the unquiesce the worker is running,
\* which holds the current token and the cutoff to restore: no gate is left
\* activating with nobody to commit or cancel it.
ActivationOwned ==
    ctl.phase = "Activating" =>
       /\ worker.pc \in {"reconcile", "flush"}
       /\ rpc[worker.item].method = "unquiesce"
       /\ worker.claim = [generation |-> ctl.generation, since |-> ctl.since]

\* No worker is open for new work before its startup reconcile ran, the
\* deferred snapshot was written and Codex events are being processed.
ReadyBeforeActive ==
    ctl.phase = "Active" =>
       startup = [pending |-> FALSE, completed |-> TRUE, unsaved |-> FALSE]

\* As long as a shutdown request is undecided the gate is shutting down, and a
\* worker stops only from there.
ShutdownHeld ==
    /\ \A r \in Rpc :
         rpc[r].method = "shutdown" /\ rpc[r].pc \in {"waitDrain", "enqueue", "await"}
            => ctl.phase = "ShuttingDown"
    /\ worker.pc = "stopped" => ctl.phase = "ShuttingDown"

\* An event that dies with a worker that accepted its shutdown was received
\* before the cutoff, so the sidecar's backlog accounts for it.
NothingNewIsLost ==
    worker.pc = "stopped" =>
       \A i \in Ing : HoldsPermit(i) => i \in Stamped /\ ingress[i].at <= ctl.since

\* A worker stops, or opens its gate, only after the client has the answer that
\* says so; and a worker that stops has left the marker for the supervisor.
CommitOnlyAfterAck ==
    [][ /\ ctl.phase = "Activating" /\ ctl'.phase = "Active" =>
             rpc[worker.item].pc = "sent" /\ rpc[worker.item].reply = "accepted"
        /\ worker'.pc = "stopped" /\ Running =>
             /\ rpc[worker.item].pc = "sent" /\ rpc[worker.item].reply = "accepted"
             /\ marker ]_vars

\* The gate as its clients may think of it.  What lies beneath a shutdown is the
\* phase its own request found: the one whose fence has the current generation.
FenceOwner(r) == /\ rpc[r].method = "shutdown"
                 /\ rpc[r].pc # "idle"
                 /\ rpc[r].held.generation + 1 = ctl.generation

Beneath == IF ctl.phase = "ShuttingDown"
           THEN rpc[CHOOSE r \in Rpc : FenceOwner(r)].held.phase
           ELSE ctl.phase

Gate == INSTANCE AdmissionGate WITH phase <- ctl.phase, beneath <- Beneath

\* Every step of the lifecycle plane is a step of the gate: it opens only by a
\* committed activation, and a refused shutdown returns to the phase it fenced.
GateSpec == Gate!Spec

(* Liveness.                                                               *)

\* Every request is answered or its client lost, even when Codex never answers
\* the worker.
RequestsAnswered ==
    \A r \in Rpc : rpc[r].pc # "idle" ~> (rpc[r].pc \in {"sent", "unsent"} \/ ~Running)

\* A shutdown is transient: it stops the worker or gives the gate back.
ShutdownResolves == ctl.phase = "ShuttingDown" ~> (ctl.phase # "ShuttingDown" \/ ~Running)

\* So is an activation, provided Codex answers the startup reconcile.
ActivationResolves ==
    CodexAnswers => (ctl.phase = "Activating" ~> (ctl.phase # "Activating" \/ ~Running))
=============================================================================
