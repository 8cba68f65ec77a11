--------------------------- MODULE LifecycleProofs ---------------------------
(***************************************************************************)
(* Proofs about Lifecycle, for any number of requests and events, any plan *)
(* of methods and any queue capacity.                                      *)
(***************************************************************************)
EXTENDS Lifecycle, FiniteSetTheorems, TLAPS

CommandSteps == {"begin", "drain", "count", "commit", "reconcile", "flush"}

\* What the worker has in hand fits what it is doing.
ItemInHand ==
    /\ worker.pc = "ingress" => worker.item \in Ing
    /\ worker.pc \in CommandSteps => worker.item \in Rpc

\* An event is queued, or in the worker's hands, at most once, and only while it
\* holds its permit.
QueuedOnce ==
    /\ \A k \in 1..Len(queue) : queue[k] \in Ing =>
          /\ ingress[queue[k]].pc = "queued"
          /\ \A j \in 1..Len(queue) : queue[j] = queue[k] => j = k
          /\ worker.pc = "ingress" => queue[k] # worker.item
    /\ worker.pc = "ingress" => ingress[worker.item].pc = "queued"

\* The strengthening that makes PermitsCounted, and with it TypeOK, inductive.
PermitInv == TypeOK /\ ItemInHand /\ QueuedOnce /\ PermitsCounted

Permits == {i \in Ing : HoldsPermit(i)}

\* There are finitely many permits: requests and events are.
LEMMA PermitsFinite == IsFiniteSet(Permits) /\ Cardinality(Permits) \in Nat
  BY ActorAssumption, FS_Subset, FS_CardinalityType DEF Permits

\* The gate's operations stay within its states.
LEMMA GateTypes ==
    \A s \in ControlStates :
      /\ \A t \in Nat : BeginQuiesce(s, t) \in ControlStates
      /\ \A t \in Nat : BeginShutdown(s, t) \in ControlStates
      /\ BeginActivation(s) \in ControlStates
      /\ \A g, t \in Nat : CompleteActivation(s, g, t) \in ControlStates
      /\ \A claim \in Claims : CancelActivation(s, claim) \in ControlStates
      /\ \A held \in ControlStates : RestoreShutdownPhase(s, held) \in ControlStates
  BY DEF BeginQuiesce, BeginShutdown, BeginActivation, CompleteActivation,
         CancelActivation, RestoreShutdownPhase, Advance, ControlStates, Phases, Claims

\* A request that moves on, ages or is answered is still a request.
LEMMA RpcMoves ==
    ASSUME rpc \in [Rpc -> RpcStates], NEW r \in Rpc
    PROVE  /\ \A pc \in RpcSteps : [rpc EXCEPT ![r].pc = pc] \in [Rpc -> RpcStates]
           /\ \A pc \in RpcSteps, held \in ControlStates :
                [rpc EXCEPT ![r].pc = pc, ![r].held = held] \in [Rpc -> RpcStates]
           /\ \A age \in 0..2 : [rpc EXCEPT ![r].age = age] \in [Rpc -> RpcStates]
           /\ \A reply \in Replies : Answer(r, reply) \in [Rpc -> RpcStates]
  BY DEF Answer, RpcStates, RpcSteps

\* So is one the worker completes, or a connection gave up.
LEMMA CompleteType ==
    ASSUME rpc \in [Rpc -> RpcStates], NEW r \in Rpc, NEW reply \in Replies,
           Complete(r, reply)
    PROVE  rpc' \in [Rpc -> RpcStates]
  BY ZenonT(40) DEF Complete, RpcStates, RpcSteps

\* A step of a control connection keeps the types.
LEMMA RpcStepType ==
    ASSUME TypeOK, NEW r \in Rpc, RpcStep(r)
    PROVE  TypeOK'
  <1> USE DEF TypeOK
  <1>g. GateAfterRefusal(r) \in ControlStates
    BY GateTypes DEF GateAfterRefusal, RpcStates
  <1>q. QuiesceAccepted => /\ ctl' \in ControlStates /\ fenced' \in BOOLEAN
                           /\ outdated' \in SUBSET Rpc
    BY GateTypes DEF QuiesceAccepted
  <1>r. rpc[r].age \in 0..2
    BY DEF RpcStates
  <1>s. \A pc \in {"waitDrain", "enqueue", "await", "writing", "sent", "unsent"} :
           pc \in RpcSteps /\ [rpc EXCEPT ![r].pc = pc] \in [Rpc -> RpcStates]
    BY RpcMoves DEF RpcSteps
  <1>t. \A reply \in {"accepted", "refused", "error"} :
           Answer(r, reply) \in [Rpc -> RpcStates]
    BY RpcMoves DEF Replies
  <1>1. CASE Quiesce(r)
    BY <1>1, <1>q, <1>t DEF Quiesce
  <1>2. CASE BeginDrain(r)
    <2>1. CASE CanFence(ctl)
      <3>1. QuiesceAccepted /\ rpc' = [rpc EXCEPT ![r].pc = "waitDrain", ![r].held = ctl']
        BY <1>2, <2>1 DEF BeginDrain
      <3>2. rpc' \in [Rpc -> RpcStates]
        BY <3>1, <1>q, <1>s, RpcMoves
      <3> QED
        BY <1>2, <3>1, <3>2, <1>q DEF BeginDrain
    <2>2. CASE ~CanFence(ctl)
      BY <1>2, <2>2, <1>t DEF BeginDrain
    <2> QED
      BY <2>1, <2>2
  <1>3. CASE Shutdown(r)
    <2>1. CASE CanFence(ctl)
      <3>1. /\ ctl' = BeginShutdown(ctl, now)
            /\ rpc' = [rpc EXCEPT ![r].pc = "waitDrain", ![r].held = ctl]
        BY <1>3, <2>1 DEF Shutdown
      <3>2. rpc' \in [Rpc -> RpcStates]
        BY <3>1, <1>s, RpcMoves
      <3>3. ctl' \in ControlStates
        BY <3>1, GateTypes
      <3> QED
        BY <1>3, <3>2, <3>3 DEF Shutdown
    <2>2. CASE ~CanFence(ctl)
      BY <1>3, <2>2, <1>t DEF Shutdown
    <2> QED
      BY <2>1, <2>2
  <1>4. CASE PrepareUnquiesce(r)
    <2>1. [rpc EXCEPT ![r].pc = "enqueue", ![r].held = ctl] \in [Rpc -> RpcStates]
      BY <1>s, RpcMoves
    <2>2. Answer(r, "refused") \in [Rpc -> RpcStates]
      BY <1>t
    <2> QED
      BY <1>4, <2>1, <2>2 DEF PrepareUnquiesce
  <1>5. CASE Drained(r)
    BY <1>5, <1>s, <1>t DEF Drained
  <1>6. CASE DrainTimeout(r)
    BY <1>6, <1>g, <1>t DEF DrainTimeout
  <1>7. CASE Enqueue(r)
    <2>1. rpc' \in [Rpc -> RpcStates]
      BY <1>7, <1>s DEF Enqueue
    <2>2. queue' \in Seq(Rpc \cup Ing)
      BY <1>7 DEF Enqueue
    <2> QED
      BY <1>7, <2>1, <2>2 DEF Enqueue
  <1>8. CASE Age(r)
    <2>1. rpc[r].age + 1 \in 0..2
      BY <1>8, <1>r DEF Age
    <2>2. rpc' = [rpc EXCEPT ![r].age = rpc[r].age + 1]
      BY <1>8 DEF Age
    <2>3. rpc' \in [Rpc -> RpcStates]
      BY <2>1, <2>2, RpcMoves
    <2> QED
      BY <1>8, <2>3 DEF Age
  <1>9. CASE RequestTimeout(r)
    BY <1>9, <1>g, <1>t DEF RequestTimeout
  <1>10. CASE TakeRefusal(r)
    <2>1. rpc' \in [Rpc -> RpcStates]
      BY <1>10, <1>s DEF TakeRefusal
    <2> QED
      BY <1>10, <1>g, <2>1 DEF TakeRefusal
  <1>11. CASE WriteResponse(r)
    BY <1>11, <1>s DEF WriteResponse
  <1> QED
    BY <1>1, <1>2, <1>3, <1>4, <1>5, <1>6, <1>7, <1>8, <1>9, <1>10, <1>11 DEF RpcStep

\* No permit is out in an initial state.
LEMMA PermitInvInit == Init => PermitInv
  <1> SUFFICES ASSUME Init PROVE PermitInv
    OBVIOUS
  <1>1. ctl \in ControlStates /\ startup \in StartupStates /\ fenced \in BOOLEAN
    BY DEF Init, NewControl, ControlStates, Phases, StartupStates
  <1>2. PICK method \in Plans :
          rpc = [r \in Rpc |-> [method |-> method[r], pc |-> "idle", age |-> 0,
                                held |-> ctl, reply |-> "none"]]
    BY DEF Init
  <1>3. rpc \in [Rpc -> RpcStates]
    BY <1>1, <1>2, PlanAssumption DEF RpcStates, Methods, RpcSteps, Replies
  <1>4. queue \in Seq(Rpc \cup Ing)
    BY DEF Init
  <1>5. worker \in WorkerStates
    BY DEF Init, Idle, NoClaim, Claims, WorkerStates, WorkerSteps
  <1>6. TypeOK
    BY <1>1, <1>3, <1>4, <1>5 DEF Init, TypeOK, IngressSteps, IngressStates
  <1>7. ItemInHand /\ QueuedOnce
    BY DEF Init, ItemInHand, QueuedOnce, Idle, CommandSteps
  <1>8. Permits = {}
    BY DEF Init, Permits, HoldsPermit
  <1>9. PermitsCounted
    BY <1>8, FS_EmptySet DEF Init, PermitsCounted, Permits
  <1> QED
    BY <1>6, <1>7, <1>9 DEF PermitInv

-----------------------------------------------------------------------------
(* Ingress connections.                                                    *)

\* An ingress request that goes on stays in its type.
LEMMA IngressMoves ==
    ASSUME ingress \in [Ing -> IngressStates], NEW i \in Ing
    PROVE  /\ \A pc \in IngressSteps :
                [ingress EXCEPT ![i].pc = pc] \in [Ing -> IngressStates]
           /\ \A pc \in IngressSteps, at \in Nat :
                [ingress EXCEPT ![i] = [pc |-> pc, at |-> at]] \in [Ing -> IngressStates]
  BY DEF IngressStates

\* A step of an ingress request keeps the count of the permits.
LEMMA IngressStepPermits ==
    ASSUME PermitInv, NEW i \in Ing, IngressStep(i)
    PROVE  PermitInv'
  <1> USE DEF PermitInv
  <1>f. IsFiniteSet(Permits) /\ Cardinality(Permits) \in Nat /\ inFlight = Cardinality(Permits)
    BY PermitsFinite DEF PermitsCounted, Permits
  <1>t. TypeOK
    OBVIOUS
  <1>s. \A pc \in {"received", "sending", "queued", "refused"} :
           pc \in IngressSteps /\ [ingress EXCEPT ![i].pc = pc] \in [Ing -> IngressStates]
    BY IngressMoves DEF IngressSteps, TypeOK
  <1>k. \A k \in 1..Len(queue) : queue[k] = i => ingress[i].pc = "queued"
    BY DEF QueuedOnce
  <1>w. worker.pc = "ingress" /\ worker.item = i => ingress[i].pc = "queued"
    BY DEF QueuedOnce
  <1>1. CASE Receive(i)
    <2>1. ingress' \in [Ing -> IngressStates]
      BY <1>1, <1>s, IngressMoves DEF Receive, TypeOK
    <2>2. TypeOK'
      BY <1>1, <2>1 DEF Receive, TypeOK
    <2>3. Permits' = Permits
      BY <1>1 DEF Receive, Permits, HoldsPermit, TypeOK, IngressStates
    <2>4. QueuedOnce'
      BY <1>1, <1>k, <1>w DEF Receive, QueuedOnce, TypeOK, IngressStates
    <2> QED
      BY <1>1, <1>f, <2>2, <2>3, <2>4 DEF Receive, ItemInHand, PermitsCounted, Permits
  <1>2. CASE Admit(i)
    <2>1. CASE inFlight' = inFlight + 1 /\ ingress' = [ingress EXCEPT ![i].pc = "sending"]
      <3>1. TypeOK'
        BY <1>2, <1>s, <2>1 DEF Admit, TypeOK
      <3>2. Permits' = Permits \cup {i} /\ i \notin Permits
        BY <1>2, <2>1 DEF Admit, Permits, HoldsPermit, TypeOK, IngressStates
      <3>3. Cardinality(Permits') = Cardinality(Permits) + 1
        BY <1>f, <3>2, FS_AddElement
      <3>4. QueuedOnce'
        BY <1>2, <2>1, <1>k, <1>w DEF Admit, QueuedOnce, TypeOK, IngressStates
      <3> QED
        BY <1>2, <1>f, <2>1, <3>1, <3>3, <3>4 DEF Admit, ItemInHand, PermitsCounted, Permits
    <2>2. CASE UNCHANGED inFlight /\ ingress' = [ingress EXCEPT ![i].pc = "refused"]
      <3>1. TypeOK'
        BY <1>2, <1>s, <2>2 DEF Admit, TypeOK
      <3>2. Permits' = Permits
        BY <1>2, <2>2 DEF Admit, Permits, HoldsPermit, TypeOK, IngressStates
      <3>3. QueuedOnce'
        BY <1>2, <2>2, <1>k, <1>w DEF Admit, QueuedOnce, TypeOK, IngressStates
      <3> QED
        BY <1>2, <1>f, <2>2, <3>1, <3>2, <3>3 DEF Admit, ItemInHand, PermitsCounted, Permits
    <2> QED
      BY <1>2, <2>1, <2>2 DEF Admit
  <1>3. CASE SendIngress(i)
    <2>1. queue' \in Seq(Rpc \cup Ing)
      BY <1>3 DEF SendIngress, TypeOK
    <2>2. TypeOK'
      BY <1>3, <1>s, <2>1 DEF SendIngress, TypeOK
    <2>3. Permits' = Permits
      BY <1>3 DEF SendIngress, Permits, HoldsPermit, TypeOK, IngressStates
    <2>4. QueuedOnce'
      <3>1. /\ Len(queue') = Len(queue) + 1 /\ Len(queue) \in Nat
            /\ \A k \in 1..Len(queue) : queue'[k] = queue[k]
            /\ queue'[Len(queue) + 1] = i
        BY <1>3 DEF SendIngress, TypeOK
      <3>2. ingress' = [ingress EXCEPT ![i].pc = "queued"] /\ worker' = worker
            /\ ingress[i].pc = "sending"
        BY <1>3 DEF SendIngress
      <3>3. ingress'[i].pc = "queued" /\ \A j \in Ing \ {i} : ingress'[j] = ingress[j]
        BY <3>2 DEF TypeOK, IngressStates
      <3>4. \A k \in 1..Len(queue) : queue[k] # i
        BY <1>k, <3>2
      <3>5. worker.pc = "ingress" => worker.item # i
        BY <1>w, <3>2
      <3> QED
        BY <3>1, <3>2, <3>3, <3>4, <3>5 DEF QueuedOnce, ItemInHand
    <2> QED
      BY <1>3, <1>f, <2>2, <2>3, <2>4 DEF SendIngress, ItemInHand, PermitsCounted, Permits
  <1>4. CASE IngressTimeout(i)
    <2>1. Permits' = Permits \ {i} /\ i \in Permits
      BY <1>4 DEF IngressTimeout, Permits, HoldsPermit, TypeOK, IngressStates
    <2>2. Cardinality(Permits') = Cardinality(Permits) - 1 /\ Cardinality(Permits') \in Nat
      BY <1>f, <2>1, FS_RemoveElement, FS_CardinalityType
    <2>3. inFlight' = Cardinality(Permits')
      BY <1>4, <1>f, <2>2 DEF IngressTimeout
    <2>4. TypeOK'
      BY <1>4, <1>s, <2>2, <2>3 DEF IngressTimeout, TypeOK
    <2>5. QueuedOnce'
      BY <1>4, <1>k, <1>w DEF IngressTimeout, QueuedOnce, TypeOK, IngressStates
    <2> QED
      BY <1>4, <2>3, <2>4, <2>5 DEF IngressTimeout, ItemInHand, PermitsCounted, Permits
  <1> QED
    BY <1>1, <1>2, <1>3, <1>4 DEF IngressStep

-----------------------------------------------------------------------------
(* The worker loop.                                                        *)

\* A worker that goes on stays in its type.
LEMMA WorkerMoves ==
    ASSUME TypeOK
    PROVE  /\ Idle \in WorkerStates
           /\ \A pc \in WorkerSteps : [worker EXCEPT !.pc = pc] \in WorkerStates
           /\ \A pc \in WorkerSteps, left \in BOOLEAN :
                [worker EXCEPT !.pc = pc, !.left = left] \in WorkerStates
           /\ \A pc \in WorkerSteps, item \in Rpc \cup Ing :
                [worker EXCEPT !.pc = pc, !.item = item] \in WorkerStates
           /\ \A pc \in WorkerSteps, claim \in Claims :
                [worker EXCEPT !.pc = pc, !.claim = claim] \in WorkerStates
  BY DEF TypeOK, WorkerStates, WorkerSteps, Idle, NoClaim, Claims

\* The step each operation leaves the worker at.
LEMMA WorkerNextStep ==
    ASSUME TypeOK
    PROVE  /\ TakeIngress => worker'.pc = "ingress"
           /\ TakeCommand => worker'.pc \in {"idle", "begin"}
           /\ BeginRuntimeDrain \/ DrainRuntime => worker'.pc \in {"idle", "drain", "count"}
           /\ CountRuntime \/ CommitDrain => worker'.pc \in {"idle", "commit"}
           /\ BeginUnquiesce => worker'.pc \in {"idle", "reconcile"}
           /\ CommitShutdown \/ Reconcile => worker'.pc \in {"idle", "flush"}
           /\ Flushed \/ FlushFailed => worker'.pc \in {"idle", "stopped"}
  <1>0. worker \in WorkerStates /\ Idle.pc = "idle"
    BY DEF TypeOK, Idle
  <1>1. \A pc : [worker EXCEPT !.pc = pc].pc = pc
    BY <1>0 DEF WorkerStates
  <1>2. \A item : [worker EXCEPT !.pc = "ingress", !.item = item].pc = "ingress"
    BY <1>0 DEF WorkerStates
  <1>3. \A item : [worker EXCEPT !.pc = "begin", !.item = item].pc = "begin"
    BY <1>0 DEF WorkerStates
  <1>4. \A left : [worker EXCEPT !.pc = "commit", !.left = left].pc = "commit"
    BY <1>0 DEF WorkerStates
  <1>5. \A claim : [worker EXCEPT !.pc = "reconcile", !.claim = claim].pc = "reconcile"
    BY <1>0 DEF WorkerStates
  <1>6. TakeIngress => worker' = [worker EXCEPT !.pc = "ingress", !.item = Head(queue)]
    BY DEF TakeIngress
  <1>7. TakeCommand => \/ worker' = Idle
                       \/ worker' = [worker EXCEPT !.pc = "begin", !.item = Head(queue)]
    BY DEF TakeCommand, Finish
  <1>8. BeginRuntimeDrain \/ DrainRuntime =>
          \/ worker' = Idle \/ worker' = [worker EXCEPT !.pc = "drain"]
          \/ worker' = [worker EXCEPT !.pc = "count"]
    BY DEF BeginRuntimeDrain, DrainRuntime, Finish
  <1>9. CountRuntime \/ CommitDrain =>
          worker' = Idle \/ \E left : worker' = [worker EXCEPT !.pc = "commit", !.left = left]
    BY DEF CountRuntime, CommitDrain, Finish
  <1>10. BeginUnquiesce =>
          worker' = Idle \/ \E claim : worker' = [worker EXCEPT !.pc = "reconcile", !.claim = claim]
    BY DEF BeginUnquiesce, Finish
  <1>11. CommitShutdown \/ Reconcile => worker' = Idle \/ worker' = [worker EXCEPT !.pc = "flush"]
    BY DEF CommitShutdown, Reconcile, Finish
  <1>12. Flushed \/ FlushFailed => worker' = Idle \/ worker' = [worker EXCEPT !.pc = "stopped"]
    BY DEF Flushed, FlushFailed
  <1>a. TakeIngress => worker'.pc = "ingress"
    BY <1>2, <1>6
  <1>b. TakeCommand => worker'.pc \in {"idle", "begin"}
    BY <1>0, <1>3, <1>7
  <1>c. BeginRuntimeDrain \/ DrainRuntime => worker'.pc \in {"idle", "drain", "count"}
    BY <1>0, <1>1, <1>8
  <1>d. CountRuntime \/ CommitDrain => worker'.pc \in {"idle", "commit"}
    BY <1>0, <1>4, <1>9
  <1>e. BeginUnquiesce => worker'.pc \in {"idle", "reconcile"}
    BY <1>0, <1>5, <1>10
  <1>g. CommitShutdown \/ Reconcile => worker'.pc \in {"idle", "flush"}
    BY <1>0, <1>1, <1>11
  <1>h. Flushed \/ FlushFailed => worker'.pc \in {"idle", "stopped"}
    BY <1>0, <1>1, <1>12
  <1> QED
    BY <1>a, <1>b, <1>c, <1>d, <1>e, <1>g, <1>h

\* What FinishIngress does not do: the steps that only move commands along.
CommandStep == \/ TakeCommand \/ BeginRuntimeDrain \/ DrainRuntime \/ CountRuntime
               \/ CommitDrain \/ CommitShutdown \/ BeginUnquiesce \/ Reconcile
               \/ Flushed \/ FlushFailed

\* A step of the worker's command keeps the types.
LEMMA CommandStepType ==
    ASSUME TypeOK, ItemInHand, CommandStep
    PROVE  TypeOK' /\ ItemInHand'
  <1>s. \A pc \in {"begin", "drain", "count", "commit", "reconcile", "flush", "stopped"} :
           pc \in WorkerSteps
    BY DEF WorkerSteps
  <1>r. \A reply \in {"accepted", "refused", "error"} : reply \in Replies
    BY DEF Replies
  <1>f. \A r \in Rpc, reply \in Replies :
           Finish(r, reply) => /\ rpc' \in [Rpc -> RpcStates]
                               /\ worker' \in WorkerStates /\ worker'.pc = "idle"
    <2> SUFFICES ASSUME NEW r \in Rpc, NEW reply \in Replies, Finish(r, reply)
                 PROVE  /\ rpc' \in [Rpc -> RpcStates]
                        /\ worker' \in WorkerStates /\ worker'.pc = "idle"
      OBVIOUS
    <2>1. Complete(r, reply) /\ worker' = Idle /\ rpc \in [Rpc -> RpcStates]
      BY DEF Finish, TypeOK
    <2>2. rpc' \in [Rpc -> RpcStates]
      BY <2>1, CompleteType
    <2>3. worker' \in WorkerStates /\ worker'.pc = "idle"
      BY <2>1, WorkerMoves DEF Idle
    <2> QED
      BY <2>2, <2>3
  <1>i. worker \in WorkerStates /\ rpc \in [Rpc -> RpcStates] /\ ctl \in ControlStates
    BY DEF TypeOK
  <1>1. CASE TakeCommand
    <2>1. Head(queue) \in Rpc /\ queue' = Tail(queue) /\ queue' \in Seq(Rpc \cup Ing)
      BY <1>1 DEF TakeCommand, TypeOK
    <2>2. rpc' \in [Rpc -> RpcStates] /\ worker' \in WorkerStates /\ ItemInHand'
      <3>1. CASE Finish(Head(queue), "error")
        BY <1>f, <1>r, <2>1, <3>1 DEF ItemInHand, CommandSteps
      <3>2. CASE worker' = [worker EXCEPT !.pc = "begin", !.item = Head(queue)] /\ UNCHANGED rpc
        BY <1>i, <1>s, <2>1, <3>2, WorkerMoves DEF ItemInHand, WorkerStates
      <3> QED
        BY <1>1, <3>1, <3>2 DEF TakeCommand
    <2> QED
      BY <1>1, <2>1, <2>2 DEF TakeCommand, TypeOK
  <1>2. CASE BeginRuntimeDrain
    <2>1. worker.item \in Rpc
      BY <1>2 DEF BeginRuntimeDrain, Runs, ItemInHand, CommandSteps
    <2>2. rpc' \in [Rpc -> RpcStates] /\ worker' \in WorkerStates /\ ItemInHand'
      <3>1. CASE \E reply \in {"refused", "error"} : Finish(worker.item, reply)
        BY <1>f, <1>r, <2>1, <3>1 DEF ItemInHand, CommandSteps
      <3>2. CASE worker' = [worker EXCEPT !.pc = "drain"] /\ UNCHANGED rpc
        BY <1>i, <1>s, <2>1, <3>2, WorkerMoves DEF ItemInHand, WorkerStates
      <3> QED
        BY <1>2, <3>1, <3>2 DEF BeginRuntimeDrain
    <2> QED
      BY <1>2, <2>2 DEF BeginRuntimeDrain, TypeOK
  <1>3. CASE DrainRuntime
    <2>1. worker.item \in Rpc
      BY <1>3 DEF DrainRuntime, ItemInHand, CommandSteps
    <2>2. rpc' \in [Rpc -> RpcStates] /\ worker' \in WorkerStates /\ ItemInHand'
      <3>1. CASE \E reply \in {"refused", "error"} : Finish(worker.item, reply)
        BY <1>f, <1>r, <2>1, <3>1 DEF ItemInHand, CommandSteps
      <3>2. CASE worker' = [worker EXCEPT !.pc = "count"] /\ UNCHANGED rpc
        BY <1>i, <1>s, <2>1, <3>2, WorkerMoves DEF ItemInHand, WorkerStates
      <3> QED
        BY <1>3, <3>1, <3>2 DEF DrainRuntime
    <2> QED
      BY <1>3, <2>2 DEF DrainRuntime, TypeOK
  <1>4. CASE CountRuntime
    <2>1. worker.item \in Rpc
      BY <1>4 DEF CountRuntime, ItemInHand, CommandSteps
    <2>2. PICK left \in BOOLEAN : worker' = [worker EXCEPT !.pc = "commit", !.left = left]
      BY <1>4 DEF CountRuntime, TypeOK
    <2>3. worker' \in WorkerStates /\ ItemInHand'
      BY <1>i, <1>s, <2>1, <2>2, WorkerMoves DEF ItemInHand, WorkerStates
    <2> QED
      BY <1>4, <2>3 DEF CountRuntime, TypeOK
  <1>5. CASE CommitDrain
    <2>1. worker.item \in Rpc
      BY <1>5 DEF CommitDrain, Runs, ItemInHand, CommandSteps
    <2>2. PICK reply \in {"accepted", "refused", "error"} : Finish(worker.item, reply)
      BY <1>5 DEF CommitDrain
    <2>3. rpc' \in [Rpc -> RpcStates] /\ worker' \in WorkerStates /\ ItemInHand'
      BY <1>f, <1>r, <2>1, <2>2 DEF ItemInHand, CommandSteps
    <2> QED
      BY <1>5, <2>3 DEF CommitDrain, TypeOK
  <1>c. \A r \in Rpc : Complete(r, "accepted") => rpc' \in [Rpc -> RpcStates]
    BY <1>i, <1>r, CompleteType
  <1>h. \A r \in Rpc : RestoreShutdownPhase(ctl, rpc[r].held) \in ControlStates
    BY <1>i, GateTypes DEF RpcStates
  <1>a. CancelActivation(ctl, worker.claim) \in ControlStates
    BY <1>i, GateTypes DEF WorkerStates
  <1>6. CASE CommitShutdown
    <2>1. worker.item \in Rpc
      BY <1>6 DEF CommitShutdown, Runs, ItemInHand, CommandSteps
    <2>2. ctl' \in ControlStates /\ marker' \in BOOLEAN
      BY <1>6, <1>i, <1>h, <2>1 DEF CommitShutdown, TypeOK
    <2>3. rpc' \in [Rpc -> RpcStates] /\ worker' \in WorkerStates /\ ItemInHand'
      <3>1. CASE \E reply \in {"refused", "error"} : Finish(worker.item, reply)
        BY <1>f, <1>r, <2>1, <3>1 DEF ItemInHand, CommandSteps
      <3>2. CASE Complete(worker.item, "accepted") /\ worker' = [worker EXCEPT !.pc = "flush"]
        BY <1>i, <1>s, <1>c, <2>1, <3>2, WorkerMoves DEF ItemInHand, WorkerStates
      <3>3. CASE worker' = Idle /\ UNCHANGED rpc
        BY <1>i, <3>3, WorkerMoves DEF ItemInHand, Idle, CommandSteps
      <3> QED
        BY <1>6, <3>1, <3>2, <3>3 DEF CommitShutdown
    <2> QED
      BY <1>6, <2>2, <2>3 DEF CommitShutdown, TypeOK
  <1>7. CASE BeginUnquiesce
    <2>1. worker.item \in Rpc
      BY <1>7 DEF BeginUnquiesce, Runs, ItemInHand, CommandSteps
    <2>2. ctl' \in ControlStates /\ rpc' \in [Rpc -> RpcStates]
            /\ worker' \in WorkerStates /\ ItemInHand'
      <3>1. CASE (\E reply \in {"accepted", "refused"} : Finish(worker.item, reply))
                   /\ UNCHANGED ctl
        BY <1>f, <1>i, <1>r, <2>1, <3>1 DEF ItemInHand, CommandSteps
      <3>2. CASE /\ ctl' = BeginActivation(ctl) /\ UNCHANGED rpc
                 /\ worker' = [worker EXCEPT !.pc = "reconcile",
                       !.claim = [generation |-> ctl'.generation, since |-> ctl.since]]
        <4>1. ctl' \in ControlStates
          BY <1>i, <3>2, GateTypes
        <4>2. [generation |-> ctl'.generation, since |-> ctl.since] \in Claims
          BY <1>i, <4>1 DEF ControlStates, Claims
        <4>3. worker' \in WorkerStates /\ worker'.item = worker.item /\ worker'.pc = "reconcile"
          BY <1>i, <1>s, <3>2, <4>2, WorkerMoves DEF WorkerStates
        <4> QED
          BY <1>i, <2>1, <3>2, <4>1, <4>3 DEF ItemInHand
      <3> QED
        BY <1>7, <3>1, <3>2 DEF BeginUnquiesce
    <2> QED
      BY <1>7, <2>2 DEF BeginUnquiesce, TypeOK
  <1>8. CASE Reconcile
    <2>1. worker.item \in Rpc
      BY <1>8 DEF Reconcile, ItemInHand, CommandSteps
    <2>2. startup' \in StartupStates
      BY <1>8 DEF Reconcile, Reconciled, TypeOK, StartupStates
    <2>3. ctl' \in ControlStates
      BY <1>8, <1>i, <1>a DEF Reconcile
    <2>4. rpc' \in [Rpc -> RpcStates] /\ worker' \in WorkerStates /\ ItemInHand'
      <3>1. CASE \E reply \in {"accepted", "refused", "error"} : Finish(worker.item, reply)
        BY <1>f, <1>r, <2>1, <3>1 DEF ItemInHand, CommandSteps
      <3>2. CASE Complete(worker.item, "accepted") /\ worker' = [worker EXCEPT !.pc = "flush"]
        BY <1>i, <1>s, <1>c, <2>1, <3>2, WorkerMoves DEF ItemInHand, WorkerStates
      <3> QED
        BY <1>8, <3>1, <3>2 DEF Reconcile
    <2> QED
      BY <1>8, <2>2, <2>3, <2>4 DEF Reconcile, TypeOK
  <1>9. CASE Flushed
    <2>1. worker.item \in Rpc
      BY <1>9 DEF Flushed, ItemInHand, CommandSteps
    <2>2. CompleteActivation(ctl, worker.claim.generation, now) \in ControlStates
      BY <1>i, GateTypes DEF WorkerStates, Claims, TypeOK
    <2>3. ctl' \in ControlStates /\ startup' \in StartupStates /\ fenced' \in BOOLEAN
      BY <1>9, <1>i, <2>2 DEF Flushed, TypeOK, StartupStates
    <2>4. worker' \in WorkerStates /\ ItemInHand'
      <3>1. CASE worker' = [worker EXCEPT !.pc = "stopped"]
        BY <1>i, <1>s, <3>1, WorkerMoves DEF ItemInHand, CommandSteps, WorkerStates
      <3>2. CASE worker' = Idle
        BY <3>2, WorkerMoves DEF ItemInHand, CommandSteps, Idle
      <3> QED
        BY <1>9, <3>1, <3>2 DEF Flushed
    <2> QED
      BY <1>9, <2>3, <2>4 DEF Flushed, TypeOK
  <1>10. CASE FlushFailed
    <2>1. worker.item \in Rpc
      BY <1>10 DEF FlushFailed, ItemInHand, CommandSteps
    <2>2. ctl' \in ControlStates /\ marker' \in BOOLEAN
      BY <1>10, <1>h, <1>a, <2>1 DEF FlushFailed, TypeOK
    <2>3. worker' \in WorkerStates /\ ItemInHand'
      BY <1>10, WorkerMoves DEF FlushFailed, ItemInHand, CommandSteps, Idle
    <2> QED
      BY <1>10, <2>2, <2>3 DEF FlushFailed, TypeOK
  <1> QED
    BY <1>1, <1>2, <1>3, <1>4, <1>5, <1>6, <1>7, <1>8, <1>9, <1>10 DEF CommandStep

\* A step of the worker's command takes no permit and gives none back.
LEMMA CommandStepPermits ==
    ASSUME PermitInv, CommandStep
    PROVE  PermitInv'
  <1>1. TypeOK' /\ ItemInHand'
    BY CommandStepType DEF PermitInv
  <1>2. UNCHANGED <<ingress, inFlight>>
    BY DEF CommandStep, TakeCommand, BeginRuntimeDrain, DrainRuntime, CountRuntime,
           CommitDrain, CommitShutdown, BeginUnquiesce, Reconcile, Flushed, FlushFailed
  <1>3. worker'.pc # "ingress"
    BY WorkerNextStep DEF PermitInv, CommandStep
  <1>4. queue' = queue \/ (queue # <<>> /\ queue' = Tail(queue))
    BY DEF CommandStep, TakeCommand, BeginRuntimeDrain, DrainRuntime, CountRuntime,
           CommitDrain, CommitShutdown, BeginUnquiesce, Reconcile, Flushed, FlushFailed
  <1>5. QueuedOnce'
    <2>1. CASE queue' = queue
      BY <1>2, <1>3, <2>1 DEF PermitInv, QueuedOnce
    <2>2. CASE queue # <<>> /\ queue' = Tail(queue)
      <3>1. /\ Len(queue) \in Nat /\ Len(queue') = Len(queue) - 1
            /\ \A k \in 1..Len(queue') : k + 1 \in 1..Len(queue) /\ queue'[k] = queue[k + 1]
        BY <2>2 DEF PermitInv, TypeOK
      <3> QED
        BY <1>2, <1>3, <3>1 DEF PermitInv, QueuedOnce
    <2> QED
      BY <1>4, <2>1, <2>2
  <1>6. PermitsCounted'
    BY <1>2 DEF PermitInv, PermitsCounted, HoldsPermit
  <1> QED
    BY <1>1, <1>5, <1>6 DEF PermitInv

\* An event that is taken from the queue keeps its permit.
LEMMA TakeIngressPermits ==
    ASSUME PermitInv, TakeIngress
    PROVE  PermitInv'
  <1>1. /\ queue # <<>> /\ queue' = Tail(queue) /\ queue \in Seq(Rpc \cup Ing)
        /\ Head(queue) \in Ing /\ Head(queue) = queue[1]
        /\ UNCHANGED <<ingress, inFlight>>
    BY DEF TakeIngress, PermitInv, TypeOK
  <1>2. /\ Len(queue) \in Nat \ {0} /\ Len(queue') = Len(queue) - 1
        /\ \A k \in 1..Len(queue') : k + 1 \in 1..Len(queue) /\ queue'[k] = queue[k + 1]
    BY <1>1
  <1>3. worker' = [worker EXCEPT !.pc = "ingress", !.item = queue[1]]
    BY <1>1 DEF TakeIngress
  <1>4. worker' \in WorkerStates /\ worker'.pc = "ingress" /\ worker'.item = queue[1]
    <2>1. worker \in WorkerStates /\ "ingress" \in WorkerSteps
      BY DEF PermitInv, TypeOK, WorkerSteps
    <2>2. worker' \in WorkerStates
      BY <1>1, <1>3, <2>1, WorkerMoves DEF PermitInv
    <2> QED
      BY <1>3, <2>1, <2>2 DEF WorkerStates
  <1>5. TypeOK'
    BY <1>1, <1>4 DEF TakeIngress, PermitInv, TypeOK
  <1>6. ItemInHand'
    BY <1>1, <1>4 DEF ItemInHand, CommandSteps
  <1>7. QueuedOnce'
    <2>1. 1 \in 1..Len(queue)
      BY <1>2
    <2>2. ingress[queue[1]].pc = "queued" /\ \A j \in 1..Len(queue) : queue[j] = queue[1] => j = 1
      BY <1>1, <2>1 DEF PermitInv, QueuedOnce
    <2>3. \A k \in 1..Len(queue') : queue'[k] # queue[1]
      BY <1>2, <2>2
    <2>4. \A k \in 1..Len(queue') : queue'[k] \in Ing =>
            /\ ingress[queue'[k]].pc = "queued"
            /\ \A j \in 1..Len(queue') : queue'[j] = queue'[k] => j = k
      <3> SUFFICES ASSUME NEW k \in 1..Len(queue'), queue'[k] \in Ing
                   PROVE  /\ ingress[queue'[k]].pc = "queued"
                          /\ \A j \in 1..Len(queue') : queue'[j] = queue'[k] => j = k
        OBVIOUS
      <3>1. k + 1 \in 1..Len(queue) /\ queue'[k] = queue[k + 1]
        BY <1>2
      <3>2. /\ ingress[queue[k + 1]].pc = "queued"
            /\ \A j \in 1..Len(queue) : queue[j] = queue[k + 1] => j = k + 1
        BY <3>1 DEF PermitInv, QueuedOnce
      <3> QED
        BY <1>2, <3>1, <3>2
    <2> QED
      BY <1>1, <1>4, <2>2, <2>3, <2>4 DEF QueuedOnce
  <1>8. PermitsCounted'
    BY <1>1 DEF PermitInv, PermitsCounted, HoldsPermit
  <1> QED
    BY <1>5, <1>6, <1>7, <1>8 DEF PermitInv

\* An event that was processed gives its permit back.
LEMMA FinishIngressPermits ==
    ASSUME PermitInv, FinishIngress
    PROVE  PermitInv'
  <1>1. /\ worker.pc = "ingress" /\ worker.item \in Ing
        /\ ingress \in [Ing -> IngressStates] /\ ingress[worker.item].pc = "queued"
    BY DEF FinishIngress, PermitInv, TypeOK, ItemInHand, QueuedOnce
  <1>2. ingress' = [ingress EXCEPT ![worker.item].pc = "processed"]
    BY DEF FinishIngress
  <1>3. ingress' \in [Ing -> IngressStates]
    BY <1>1, <1>2, IngressMoves DEF IngressSteps
  <1>4. Permits' = Permits \ {worker.item} /\ worker.item \in Permits
    BY <1>1, <1>2 DEF Permits, HoldsPermit, IngressStates
  <1>5. /\ Cardinality(Permits') = Cardinality(Permits) - 1
        /\ Cardinality(Permits') \in Nat /\ inFlight = Cardinality(Permits)
    BY <1>4, PermitsFinite, FS_RemoveElement, FS_CardinalityType
       DEF PermitInv, PermitsCounted, Permits
  <1>6. inFlight' = Cardinality(Permits')
    BY <1>5 DEF FinishIngress
  <1>7. worker' = Idle /\ worker' \in WorkerStates
    BY WorkerMoves DEF FinishIngress, PermitInv
  <1>8. TypeOK'
    BY <1>3, <1>5, <1>6, <1>7 DEF FinishIngress, PermitInv, TypeOK
  <1>9. ItemInHand' /\ worker'.pc # "ingress"
    BY <1>7 DEF ItemInHand, Idle, CommandSteps
  <1>10. QueuedOnce'
    BY <1>1, <1>2, <1>9 DEF FinishIngress, PermitInv, QueuedOnce, IngressStates
  <1> QED
    BY <1>6, <1>8, <1>9, <1>10 DEF PermitInv, PermitsCounted, Permits

\* A step of a control connection takes no permit and gives none back.
LEMMA RpcStepPermits ==
    ASSUME PermitInv, NEW r \in Rpc, RpcStep(r)
    PROVE  PermitInv'
  <1>1. TypeOK'
    BY RpcStepType DEF PermitInv
  <1>2. UNCHANGED <<ingress, inFlight, worker>>
    BY DEF RpcStep, Quiesce, BeginDrain, Shutdown, PrepareUnquiesce, Drained, DrainTimeout,
           Enqueue, Age, RequestTimeout, TakeRefusal, WriteResponse
  <1>3. queue' = queue \/ queue' = Append(queue, r)
    BY DEF RpcStep, Quiesce, BeginDrain, Shutdown, PrepareUnquiesce, Drained, DrainTimeout,
           Enqueue, Age, RequestTimeout, TakeRefusal, WriteResponse
  <1>4. QueuedOnce'
    <2>1. CASE queue' = queue
      BY <1>2, <2>1 DEF PermitInv, QueuedOnce
    <2>2. CASE queue' = Append(queue, r)
      <3>1. /\ Len(queue) \in Nat /\ Len(queue') = Len(queue) + 1
            /\ \A k \in 1..Len(queue) : queue'[k] = queue[k]
            /\ queue'[Len(queue) + 1] = r
        BY <2>2 DEF PermitInv, TypeOK
      <3>2. r \notin Ing
        BY ActorAssumption
      <3> QED
        BY <1>2, <3>1, <3>2 DEF PermitInv, QueuedOnce
    <2> QED
      BY <1>3, <2>1, <2>2
  <1> QED
    BY <1>1, <1>2, <1>4 DEF PermitInv, ItemInHand, PermitsCounted, HoldsPermit

\* Every step keeps the count of the permits.
LEMMA PermitInvNext == PermitInv /\ [Next]_vars => PermitInv'
  <1> SUFFICES ASSUME PermitInv, [Next]_vars PROVE PermitInv'
    OBVIOUS
  <1>1. CASE Tick
    BY <1>1 DEF Tick, PermitInv, TypeOK, ItemInHand, QueuedOnce, PermitsCounted, HoldsPermit
  <1>2. CASE \E r \in Rpc : RpcStep(r)
    BY <1>2, RpcStepPermits
  <1>3. CASE \E i \in Ing : IngressStep(i)
    BY <1>3, IngressStepPermits
  <1>4. CASE WorkerStep
    BY <1>4, CommandStepPermits, TakeIngressPermits, FinishIngressPermits
       DEF WorkerStep, CommandStep
  <1>5. CASE WorkerExit
    <2>1. worker' \in WorkerStates /\ worker'.pc = "exited"
      BY <1>5 DEF WorkerExit, PermitInv, TypeOK, WorkerStates, WorkerSteps
    <2> QED
      BY <1>5, <2>1 DEF WorkerExit, PermitInv, TypeOK, ItemInHand, CommandSteps, QueuedOnce,
                        PermitsCounted, HoldsPermit
  <1>6. CASE Gone \/ UNCHANGED vars
    BY <1>6 DEF Gone, vars, PermitInv, TypeOK, ItemInHand, QueuedOnce, PermitsCounted,
                HoldsPermit
  <1> QED
    BY <1>1, <1>2, <1>3, <1>4, <1>5, <1>6 DEF Next

\* The counter is the number of permits, in every state.
LEMMA PermitInvariant == Spec => []PermitInv
  BY PermitInvInit, PermitInvNext, PTL DEF Spec

\* Every reachable state is well typed; in particular the drain counter, which a
\* release decrements without a check, never underflows.
THEOREM TypeCorrect == Spec => []TypeOK
  BY PermitInvariant, PTL DEF PermitInv

\* The drain counter is exactly the number of events admitted by
\* try_begin_drainable_external_work and not yet processed or dropped.
THEOREM DrainCounterExact == Spec => []PermitsCounted
  BY PermitInvariant, PTL DEF PermitInv

-----------------------------------------------------------------------------
(* The gate and its owners.                                                *)

Ready == [pending |-> FALSE, completed |-> TRUE, unsaved |-> FALSE]

\* What a refused shutdown may restore is an open or a quiesced gate.
HeldOpen == \A r \in Rpc : rpc[r].held.phase \in {"Active", "Quiescing"}

\* Until the startup reconcile is done the gate is not open, and no request can
\* restore it to open.
NotOpenBeforeReady ==
    /\ startup # Ready => /\ ctl.phase # "Active"
                          /\ \A r \in Rpc : rpc[r].held.phase # "Active"
    /\ ~startup.pending => startup = Ready

\* A worker that waits for the flush of an answer has completed the request with
\* "accepted", and done everything else that the commit relies on.
FlushPrepared ==
    /\ worker.pc = "reconcile" => rpc[worker.item].method = "unquiesce"
    /\ worker.pc = "flush" =>
         /\ rpc[worker.item].pc \in {"writing", "sent", "unsent"}
         /\ rpc[worker.item].reply = "accepted"
         /\ \/ rpc[worker.item].method = "shutdown" /\ marker
            \/ /\ rpc[worker.item].method = "unquiesce"
               /\ startup.completed /\ ~startup.unsaved

GateInv == PermitInv /\ HeldOpen /\ ActivationOwned /\ NotOpenBeforeReady /\ FlushPrepared

\* In an initial state nobody has asked to move the gate.
LEMMA GateInvInit == Init => GateInv
  <1> SUFFICES ASSUME Init PROVE GateInv
    OBVIOUS
  <1>1. PICK preActive \in BOOLEAN, unsaved \in BOOLEAN :
          /\ ctl = NewControl(IF preActive THEN "Quiescing" ELSE "Active", 0)
          /\ startup = [pending |-> preActive, completed |-> ~preActive,
                        unsaved |-> preActive /\ unsaved]
    BY DEF Init
  <1>2. ctl.phase \in {"Active", "Quiescing"} /\ \A r \in Rpc : rpc[r].held = ctl
    BY <1>1 DEF Init, NewControl
  <1>3. worker.pc = "idle"
    BY DEF Init, Idle
  <1>4. NotOpenBeforeReady
    BY <1>1, <1>2 DEF NotOpenBeforeReady, Ready, NewControl
  <1> QED
    BY PermitInvInit, <1>2, <1>3, <1>4
       DEF GateInv, HeldOpen, ActivationOwned, FlushPrepared

\* All that a control connection does to the gate, to its own request and to the
\* others.
Answering == {"writing", "sent", "unsent"}

\* What a step of a control connection may do to the gate.
LEMMA RpcStepEffect ==
    ASSUME TypeOK, NEW r \in Rpc, RpcStep(r)
    PROVE  /\ UNCHANGED <<worker, startup, marker>>
           /\ \/ ctl' = ctl
              \/ CanFence(ctl) /\ ctl' = BeginQuiesce(ctl, now)
              \/ CanFence(ctl) /\ ctl' = BeginShutdown(ctl, now)
              \/ ctl' = RestoreShutdownPhase(ctl, rpc[r].held)
           /\ \A s \in Rpc \ {r} : rpc'[s] = rpc[s]
           /\ rpc'[r].method = rpc[r].method
           /\ \/ rpc'[r].held = rpc[r].held
              \/ CanFence(ctl) /\ rpc'[r].held = ctl
              \/ ctl' = BeginQuiesce(ctl, now) /\ rpc'[r].held = ctl'
           /\ rpc[r].pc \in Answering =>
                rpc'[r].pc \in Answering /\ rpc'[r].reply = rpc[r].reply
  <1>0. rpc \in [Rpc -> RpcStates]
    BY DEF TypeOK
  <1> USE DEF RpcStates, Answering
  <1>1. CASE Quiesce(r)
    BY <1>0, <1>1 DEF Quiesce, QuiesceAccepted, Answer, At
  <1>2. CASE BeginDrain(r)
    BY <1>0, <1>2 DEF BeginDrain, QuiesceAccepted, Answer, At
  <1>3. CASE Shutdown(r)
    BY <1>0, <1>3 DEF Shutdown, Answer, At
  <1>4. CASE PrepareUnquiesce(r)
    BY <1>0, <1>4 DEF PrepareUnquiesce, Answer, At
  <1>5. CASE Drained(r)
    BY <1>0, <1>5 DEF Drained, Answer
  <1>6. CASE DrainTimeout(r)
    BY <1>0, <1>6 DEF DrainTimeout, Answer, GateAfterRefusal
  <1>7. CASE Enqueue(r)
    BY <1>0, <1>7 DEF Enqueue
  <1>8. CASE Age(r)
    BY <1>0, <1>8 DEF Age
  <1>9. CASE RequestTimeout(r)
    BY <1>0, <1>9 DEF RequestTimeout, Expired, Answer, GateAfterRefusal
  <1>10. CASE TakeRefusal(r)
    BY <1>0, <1>10 DEF TakeRefusal, GateAfterRefusal
  <1>11. CASE WriteResponse(r)
    BY <1>0, <1>11 DEF WriteResponse
  <1> QED
    BY <1>1, <1>2, <1>3, <1>4, <1>5, <1>6, <1>7, <1>8, <1>9, <1>10, <1>11 DEF RpcStep

\* Where each operation leaves the phase.
LEMMA GatePhases ==
    /\ \A s, t : BeginQuiesce(s, t).phase = "Quiescing"
    /\ \A s, t : BeginShutdown(s, t).phase = "ShuttingDown"
    /\ \A s : BeginActivation(s).phase = "Activating"
    /\ \A s, held : RestoreShutdownPhase(s, held) = s
                     \/ /\ s.phase = "ShuttingDown"
                        /\ RestoreShutdownPhase(s, held).phase = held.phase
  BY DEF BeginQuiesce, BeginShutdown, BeginActivation, RestoreShutdownPhase, Advance

\* A step of a control connection keeps the owners of the gate.
LEMMA RpcStepGate ==
    ASSUME GateInv, NEW r \in Rpc, RpcStep(r)
    PROVE  GateInv'
  <1>1. PermitInv' /\ TypeOK
    BY RpcStepPermits DEF GateInv, PermitInv
  <1>2. /\ UNCHANGED <<worker, startup, marker>>
        /\ \A s \in Rpc \ {r} : rpc'[s] = rpc[s]
        /\ rpc'[r].method = rpc[r].method
        /\ rpc[r].pc \in Answering =>
             rpc'[r].pc \in Answering /\ rpc'[r].reply = rpc[r].reply
    BY <1>1, RpcStepEffect
  <1>3. \/ ctl' = ctl
        \/ ctl'.phase \in {"Quiescing", "ShuttingDown"} /\ ctl.phase \in {"Active", "Quiescing"}
        \/ ctl'.phase = rpc[r].held.phase /\ ctl.phase = "ShuttingDown"
    BY <1>1, RpcStepEffect, GatePhases DEF CanFence
  <1>4. \/ rpc'[r].held = rpc[r].held
        \/ rpc'[r].held = ctl /\ ctl.phase \in {"Active", "Quiescing"}
        \/ rpc'[r].held.phase = "Quiescing"
    BY <1>1, RpcStepEffect, GatePhases DEF CanFence
  <1>5. HeldOpen /\ ActivationOwned /\ NotOpenBeforeReady /\ FlushPrepared /\ ItemInHand
    BY DEF GateInv, PermitInv
  <1>6. HeldOpen'
    BY <1>2, <1>4, <1>5 DEF HeldOpen
  <1>7. ActivationOwned'
    <2>1. ctl'.phase = "Activating" => ctl' = ctl
      BY <1>3, <1>5 DEF HeldOpen
    <2>2. ctl.phase = "Activating" => worker.item \in Rpc
      BY <1>5 DEF ActivationOwned, ItemInHand, CommandSteps
    <2> QED
      BY <1>2, <1>5, <2>1, <2>2 DEF ActivationOwned
  <1>8. NotOpenBeforeReady'
    BY <1>2, <1>3, <1>4, <1>5 DEF NotOpenBeforeReady
  <1>9. FlushPrepared'
    <2>1. worker.pc \in {"reconcile", "flush"} => worker.item \in Rpc
      BY <1>5 DEF ItemInHand, CommandSteps
    <2> QED
      BY <1>2, <1>5, <2>1 DEF FlushPrepared, Answering
  <1> QED
    BY <1>1, <1>6, <1>7, <1>8, <1>9 DEF GateInv

\* What no step of the worker does to a request.
LEMMA WorkerKeepsRequests ==
    ASSUME TypeOK, WorkerStep
    PROVE  \A r \in Rpc : rpc'[r].held = rpc[r].held /\ rpc'[r].method = rpc[r].method
  <1>0. rpc \in [Rpc -> RpcStates]
    BY DEF TypeOK
  <1>1. \A r, reply : Complete(r, reply) =>
          \A s \in Rpc : rpc'[s].held = rpc[s].held /\ rpc'[s].method = rpc[s].method
    BY <1>0 DEF Complete, RpcStates
  <1>2. rpc' = rpc \/ \E r, reply : Complete(r, reply)
    BY DEF WorkerStep, TakeIngress, FinishIngress, TakeCommand, BeginRuntimeDrain,
           DrainRuntime, CountRuntime, CommitDrain, CommitShutdown, BeginUnquiesce,
           Reconcile, Flushed, FlushFailed, Finish
  <1> QED
    BY <1>1, <1>2

\* A step of the worker outside the reconcile and the flush touches no gate, and
\* is not a commit.
LEMMA QuietWorkerGate ==
    ASSUME GateInv, WorkerStep, UNCHANGED <<ctl, startup>>,
           worker.pc \notin {"reconcile", "flush"},
           worker'.pc \notin {"reconcile", "flush"}
    PROVE  HeldOpen' /\ ActivationOwned' /\ NotOpenBeforeReady' /\ FlushPrepared'
  <1>1. \A r \in Rpc : rpc'[r].held = rpc[r].held /\ rpc'[r].method = rpc[r].method
    BY WorkerKeepsRequests DEF GateInv, PermitInv
  <1> QED
    BY <1>1 DEF GateInv, HeldOpen, ActivationOwned, NotOpenBeforeReady, FlushPrepared

\* A shutdown that is committed keeps them.
LEMMA CommitShutdownGate ==
    ASSUME GateInv, CommitShutdown
    PROVE  HeldOpen' /\ ActivationOwned' /\ NotOpenBeforeReady' /\ FlushPrepared'
  <1>1. /\ worker.pc = "commit" /\ worker.item \in Rpc /\ rpc[worker.item].method = "shutdown"
        /\ rpc \in [Rpc -> RpcStates] /\ worker \in WorkerStates /\ startup' = startup
    BY DEF CommitShutdown, Runs, GateInv, PermitInv, ItemInHand, CommandSteps, TypeOK
  <1>2. \A r \in Rpc : rpc'[r].held = rpc[r].held /\ rpc'[r].method = rpc[r].method
    BY WorkerKeepsRequests DEF GateInv, PermitInv, WorkerStep
  <1>3. ctl.phase # "Activating"
    BY <1>1 DEF GateInv, ActivationOwned
  <1>4. CASE /\ ctl' = ctl /\ worker' = [worker EXCEPT !.pc = "flush"]
             /\ marker' = TRUE /\ Listening(worker.item) /\ Complete(worker.item, "accepted")
    <2>1. worker'.item = worker.item /\ worker'.pc = "flush"
      BY <1>1, <1>4 DEF WorkerStates
    <2>2. rpc'[worker.item].pc = "writing" /\ rpc'[worker.item].reply = "accepted"
      BY <1>1, <1>4 DEF Complete, RpcStates
    <2> QED
      BY <1>1, <1>2, <1>3, <1>4, <2>1, <2>2
         DEF GateInv, HeldOpen, ActivationOwned, NotOpenBeforeReady, FlushPrepared
  <1>5. CASE worker' = Idle /\ ctl' \in {ctl, RestoreShutdownPhase(ctl, rpc[worker.item].held)}
    <2>1. ctl' = ctl \/ ctl'.phase = rpc[worker.item].held.phase
      BY <1>5, GatePhases
    <2>2. worker'.pc = "idle"
      BY <1>5 DEF Idle
    <2> QED
      BY <1>1, <1>2, <1>3, <2>1, <2>2
         DEF GateInv, HeldOpen, ActivationOwned, NotOpenBeforeReady, FlushPrepared
  <1> QED
    BY <1>4, <1>5 DEF CommitShutdown, Finish

\* An activation that begins is the worker's own.
LEMMA BeginUnquiesceGate ==
    ASSUME GateInv, BeginUnquiesce
    PROVE  HeldOpen' /\ ActivationOwned' /\ NotOpenBeforeReady' /\ FlushPrepared'
  <1>1. /\ worker.pc = "begin" /\ worker.item \in Rpc /\ rpc[worker.item].method = "unquiesce"
        /\ worker \in WorkerStates /\ startup' = startup /\ ctl \in ControlStates
    BY DEF BeginUnquiesce, Runs, GateInv, PermitInv, ItemInHand, CommandSteps, TypeOK
  <1>2. \A r \in Rpc : rpc'[r].held = rpc[r].held /\ rpc'[r].method = rpc[r].method
    BY WorkerKeepsRequests DEF GateInv, PermitInv, WorkerStep
  <1>3. CASE worker' = Idle /\ ctl' = ctl
    BY <1>1, <1>3, QuietWorkerGate DEF Idle, WorkerStep
  <1>4. CASE /\ ctl' = BeginActivation(ctl)
             /\ worker' = [worker EXCEPT !.pc = "reconcile",
                   !.claim = [generation |-> ctl'.generation, since |-> ctl.since]]
    <2>1. /\ worker'.pc = "reconcile" /\ worker'.item = worker.item
          /\ worker'.claim = [generation |-> ctl'.generation, since |-> ctl.since]
      BY <1>1, <1>4 DEF WorkerStates
    <2>2. ctl'.phase = "Activating" /\ ctl'.since = ctl.since
      BY <1>4 DEF BeginActivation, Advance
    <2> QED
      BY <1>1, <1>2, <2>1, <2>2
         DEF GateInv, HeldOpen, ActivationOwned, NotOpenBeforeReady, FlushPrepared
  <1> QED
    BY <1>3, <1>4 DEF BeginUnquiesce, Finish

\* The startup reconcile keeps them.
LEMMA ReconcileGate ==
    ASSUME GateInv, Reconcile
    PROVE  HeldOpen' /\ ActivationOwned' /\ NotOpenBeforeReady' /\ FlushPrepared'
  <1>1. /\ worker.pc = "reconcile" /\ worker.item \in Rpc /\ rpc[worker.item].method = "unquiesce"
        /\ rpc \in [Rpc -> RpcStates] /\ worker \in WorkerStates
        /\ startup \in StartupStates
    BY DEF Reconcile, GateInv, PermitInv, ItemInHand, CommandSteps, TypeOK, FlushPrepared
  <1>2. \A r \in Rpc : rpc'[r].held = rpc[r].held /\ rpc'[r].method = rpc[r].method
    BY WorkerKeepsRequests DEF GateInv, PermitInv, WorkerStep
  <1>3. /\ startup = Ready => startup' = Ready
        /\ startup'.pending = startup.pending
    <2>1. \/ startup' = startup
          \/ /\ startup.pending \/ startup.unsaved
             /\ startup' = [startup EXCEPT !.completed = TRUE] \/ startup' = Reconciled
      BY DEF Reconcile
    <2> QED
      <3>1. CASE startup' = startup
        BY <3>1
      <3>2. CASE /\ startup.pending \/ startup.unsaved
                 /\ startup' = [startup EXCEPT !.completed = TRUE] \/ startup' = Reconciled
        <4>1. startup # Ready
          BY <3>2 DEF Ready
        <4>2. startup'.pending = startup.pending
          BY <1>1, <3>2 DEF Reconciled, StartupStates
        <4> QED
          BY <4>1, <4>2
      <3> QED
        BY <2>1, <3>1, <3>2
  <1>4. CASE worker' = Idle /\ ctl' = CancelActivation(ctl, worker.claim)
    <2>1. worker'.pc = "idle"
      BY <1>4 DEF Idle
    <2>2. ctl'.phase # "Activating" /\ (ctl'.phase = "Active" => ctl.phase = "Active")
      BY <1>4 DEF GateInv, ActivationOwned, CancelActivation, OwnsActivation, Advance
    <2> QED
      BY <1>1, <1>2, <1>3, <2>1, <2>2
         DEF GateInv, HeldOpen, ActivationOwned, NotOpenBeforeReady, FlushPrepared
  <1>5. CASE /\ worker' = [worker EXCEPT !.pc = "flush"] /\ ctl' = ctl
             /\ Listening(worker.item) /\ Complete(worker.item, "accepted")
             /\ startup' = IF startup.pending THEN Reconciled ELSE startup
    <2>1. worker'.pc = "flush" /\ worker'.item = worker.item /\ worker'.claim = worker.claim
      BY <1>1, <1>5 DEF WorkerStates
    <2>2. rpc'[worker.item].pc = "writing" /\ rpc'[worker.item].reply = "accepted"
      BY <1>1, <1>5 DEF Complete, RpcStates
    <2>3. startup'.completed /\ ~startup'.unsaved
      BY <1>1, <1>5 DEF Reconciled, StartupStates, GateInv, NotOpenBeforeReady, Ready
    <2> QED
      BY <1>1, <1>2, <1>3, <1>5, <2>1, <2>2, <2>3
         DEF GateInv, HeldOpen, ActivationOwned, NotOpenBeforeReady, FlushPrepared
  <1> QED
    BY <1>4, <1>5 DEF Reconcile, Finish

\* The flush that opens the gate keeps them.
LEMMA FlushedGate ==
    ASSUME GateInv, Flushed
    PROVE  HeldOpen' /\ ActivationOwned' /\ NotOpenBeforeReady' /\ FlushPrepared'
  <1>1. /\ worker.pc = "flush" /\ worker.item \in Rpc /\ rpc' = rpc
        /\ worker \in WorkerStates /\ startup \in StartupStates
    BY DEF Flushed, GateInv, PermitInv, ItemInHand, CommandSteps, TypeOK
  <1>2. worker'.pc \in {"stopped", "idle"}
    BY <1>1 DEF Flushed, Idle, WorkerStates
  <1>3. CASE rpc[worker.item].method = "shutdown"
    BY <1>1, <1>2, <1>3 DEF Flushed, GateInv, HeldOpen, ActivationOwned,
       NotOpenBeforeReady, FlushPrepared
  <1>4. CASE rpc[worker.item].method = "unquiesce"
    <2>1. /\ ctl' = CompleteActivation(ctl, worker.claim.generation, now)
          /\ startup' = [startup EXCEPT !.pending =
                           @ /\ ~OwnsActivation(ctl, worker.claim.generation)]
      BY <1>1, <1>4 DEF Flushed
    <2>2. startup.completed /\ ~startup.unsaved
      BY <1>1, <1>4 DEF GateInv, FlushPrepared
    <2>3. CASE OwnsActivation(ctl, worker.claim.generation)
      <3>1. startup' = Ready
        BY <1>1, <2>1, <2>2, <2>3 DEF StartupStates, Ready
      <3>2. ctl'.phase = "Active"
        BY <2>1, <2>3 DEF CompleteActivation, Advance
      <3> QED
        BY <1>1, <1>2, <3>1, <3>2 DEF GateInv, HeldOpen, ActivationOwned,
           NotOpenBeforeReady, FlushPrepared, Ready
    <2>4. CASE ~OwnsActivation(ctl, worker.claim.generation)
      <3>1. startup' = startup
        BY <1>1, <2>1, <2>4 DEF StartupStates
      <3>2. ctl' = ctl /\ ctl.phase # "Activating"
        BY <2>1, <2>4 DEF CompleteActivation, GateInv, ActivationOwned, OwnsActivation
      <3> QED
        BY <1>1, <1>2, <3>1, <3>2 DEF GateInv, HeldOpen, ActivationOwned,
           NotOpenBeforeReady, FlushPrepared
    <2> QED
      BY <2>3, <2>4
  <1> QED
    BY <1>3, <1>4 DEF Flushed

\* A flush that fails gives the activation up.
LEMMA FlushFailedGate ==
    ASSUME GateInv, FlushFailed
    PROVE  HeldOpen' /\ ActivationOwned' /\ NotOpenBeforeReady' /\ FlushPrepared'
  <1>1. /\ worker.pc = "flush" /\ worker.item \in Rpc /\ UNCHANGED <<rpc, startup>>
        /\ worker'.pc = "idle"
    BY DEF FlushFailed, GateInv, PermitInv, ItemInHand, CommandSteps, Idle
  <1>2. CASE rpc[worker.item].method = "shutdown"
    <2>1. ctl' = ctl \/ ctl'.phase = rpc[worker.item].held.phase
      BY <1>2, GatePhases DEF FlushFailed
    <2>2. ctl.phase # "Activating"
      BY <1>2 DEF GateInv, ActivationOwned
    <2> QED
      BY <1>1, <2>1, <2>2 DEF GateInv, HeldOpen, ActivationOwned, NotOpenBeforeReady,
         FlushPrepared
  <1>3. CASE rpc[worker.item].method = "unquiesce"
    <2>1. ctl'.phase # "Activating" /\ (ctl'.phase = "Active" => ctl.phase = "Active")
      BY <1>3 DEF FlushFailed, GateInv, ActivationOwned, CancelActivation,
        OwnsActivation, Advance
    <2> QED
      BY <1>1, <2>1 DEF GateInv, HeldOpen, ActivationOwned, NotOpenBeforeReady,
        FlushPrepared
  <1> QED
    BY <1>2, <1>3 DEF FlushFailed

\* A step of the worker keeps the owners of the gate.
LEMMA WorkerStepGate ==
    ASSUME GateInv, WorkerStep
    PROVE  GateInv'
  <1>0. PermitInv /\ TypeOK
    BY DEF GateInv, PermitInv
  <1>1. PermitInv'
    BY <1>0, CommandStepPermits, TakeIngressPermits, FinishIngressPermits
       DEF WorkerStep, CommandStep
  <1>2. HeldOpen' /\ ActivationOwned' /\ NotOpenBeforeReady' /\ FlushPrepared'
    <2>1. CASE TakeIngress \/ FinishIngress \/ TakeCommand
      <3>1. worker'.pc \notin {"reconcile", "flush"}
        BY <1>0, <2>1, WorkerNextStep DEF FinishIngress, Idle
      <3>2. worker.pc \in {"idle", "ingress"} /\ UNCHANGED <<ctl, startup>>
        BY <2>1 DEF TakeIngress, FinishIngress, TakeCommand
      <3> QED
        BY <3>1, <3>2, QuietWorkerGate
    <2>2. CASE BeginRuntimeDrain \/ DrainRuntime \/ CountRuntime \/ CommitDrain
      <3>1. worker'.pc \notin {"reconcile", "flush"}
        BY <1>0, <2>2, WorkerNextStep
      <3>2. /\ worker.pc \in {"begin", "drain", "count", "commit"}
            /\ UNCHANGED <<ctl, startup>>
        BY <2>2 DEF BeginRuntimeDrain, DrainRuntime, CountRuntime, CommitDrain, Runs
      <3> QED
        BY <3>1, <3>2, QuietWorkerGate
    <2> QED
      BY <2>1, <2>2, CommitShutdownGate, BeginUnquiesceGate, ReconcileGate,
         FlushedGate, FlushFailedGate DEF WorkerStep
  <1> QED
    BY <1>1, <1>2 DEF GateInv

\* Every step keeps the owners of the gate.
LEMMA GateInvNext == GateInv /\ [Next]_vars => GateInv'
  <1> SUFFICES ASSUME GateInv, [Next]_vars PROVE GateInv'
    OBVIOUS
  <1>0. PermitInv'
    BY PermitInvNext DEF GateInv
  <1>1. CASE \E r \in Rpc : RpcStep(r)
    BY <1>1, RpcStepGate
  <1>2. CASE WorkerStep
    BY <1>2, WorkerStepGate
  <1>3. CASE Tick \/ (\E i \in Ing : IngressStep(i)) \/ Gone \/ UNCHANGED vars
    <2>1. UNCHANGED <<ctl, rpc, worker, startup, marker>>
      BY <1>3 DEF Tick, IngressStep, Receive, Admit, SendIngress, IngressTimeout, Gone, vars
    <2> QED
      BY <1>0, <2>1 DEF GateInv, HeldOpen, ActivationOwned, NotOpenBeforeReady,
        FlushPrepared
  <1>4. CASE WorkerExit
    <2>1. UNCHANGED <<ctl, rpc, startup, marker>> /\ worker.pc = "idle" /\ worker'.pc = "exited"
      BY <1>4 DEF WorkerExit, GateInv, PermitInv, TypeOK, WorkerStates
    <2> QED
      BY <1>0, <2>1 DEF GateInv, HeldOpen, ActivationOwned, NotOpenBeforeReady,
        FlushPrepared
  <1> QED
    BY <1>1, <1>2, <1>3, <1>4 DEF Next

\* The owners of the gate are as said in every state.
LEMMA GateInvariant == Spec => []GateInv
  BY GateInvInit, GateInvNext, PTL DEF Spec

\* Whatever requests overlap, an activating gate has the one worker step that
\* commits or cancels it, with the current generation and the cutoff to restore.
THEOREM ActivationHasItsOwner == Spec => []ActivationOwned
  BY GateInvariant, PTL DEF GateInv

\* A worker started pre-active is never open before its startup reconcile and the
\* deferred snapshot are done, even if a shutdown is refused and restored.
THEOREM OpenOnlyWhenReady == Spec => []ReadyBeforeActive
  <1>1. GateInv => ReadyBeforeActive
    BY DEF GateInv, NotOpenBeforeReady, ReadyBeforeActive, Ready
  <1> QED
    BY <1>1, GateInvariant, PTL

\* Flushed is the only step that opens an activating gate or stops the worker.
LEMMA OnlyFlushedCommits ==
    ASSUME GateInv, Next
    PROVE  /\ ctl.phase = "Activating" /\ ctl'.phase = "Active" => Flushed
           /\ worker'.pc = "stopped" /\ Running =>
                Flushed /\ rpc[worker.item].method = "shutdown"
  <1>0. TypeOK /\ worker \in WorkerStates
    BY DEF GateInv, PermitInv, TypeOK
  <1>1. CASE \E r \in Rpc : RpcStep(r)
    <2>1. PICK r \in Rpc : RpcStep(r)
      BY <1>1
    <2>2. worker' = worker
      BY <1>0, <2>1, RpcStepEffect
    <2>3. ctl.phase = "Activating" => ctl' = ctl
      BY <1>0, <2>1, RpcStepEffect, GatePhases DEF CanFence
    <2> QED
      BY <2>2, <2>3 DEF Running
  <1>2. CASE WorkerStep
    <2>1. CASE Flushed
      <3>1. rpc[worker.item].method = "unquiesce" => worker' = Idle
        BY <2>1 DEF Flushed
      <3> QED
        BY <2>1, <3>1 DEF Flushed, Idle
    <2>2. CASE FlushFailed
      <3>1. worker'.pc # "stopped"
        BY <2>2 DEF FlushFailed, Idle
      <3>2. ctl.phase = "Activating" => ctl' = CancelActivation(ctl, worker.claim)
        BY <2>2 DEF FlushFailed, GateInv, ActivationOwned
      <3> QED
        BY <3>1, <3>2 DEF GateInv, ActivationOwned, CancelActivation, OwnsActivation,
          Advance
    <2>3. CASE Reconcile
      <3>1. worker'.pc # "stopped"
        BY <1>0, <2>3, WorkerNextStep
      <3>2. ctl' = ctl \/ ctl' = CancelActivation(ctl, worker.claim)
        BY <2>3 DEF Reconcile
      <3> QED
        BY <3>1, <3>2 DEF GateInv, ActivationOwned, CancelActivation, OwnsActivation,
          Advance
    <2>4. CASE ~Flushed /\ ~FlushFailed /\ ~Reconcile
      <3>1. worker'.pc # "stopped"
        BY <1>0, <1>2, <2>4, WorkerNextStep DEF WorkerStep, FinishIngress, Idle
      <3>2. worker.pc \notin {"reconcile", "flush"}
        BY <1>2, <2>4 DEF WorkerStep, TakeIngress, FinishIngress, TakeCommand,
           BeginRuntimeDrain, DrainRuntime, CountRuntime, CommitDrain, CommitShutdown,
           BeginUnquiesce, Runs
      <3> QED
        BY <3>1, <3>2 DEF GateInv, ActivationOwned
    <2> QED
      BY <2>1, <2>2, <2>3, <2>4
  <1>3. CASE Tick \/ (\E i \in Ing : IngressStep(i)) \/ Gone
    BY <1>3 DEF Tick, IngressStep, Receive, Admit, SendIngress, IngressTimeout, Gone,
      vars, Running
  <1>4. CASE WorkerExit
    BY <1>0, <1>4 DEF WorkerExit, WorkerStates
  <1> QED
    BY <1>1, <1>2, <1>3, <1>4 DEF Next

\* Opening the gate and stopping the worker are steps that follow the flush of an
\* answer "accepted" to the client; a worker that stops has left its marker.
THEOREM AcknowledgedCommits == Spec => CommitOnlyAfterAck
  <1>1. ASSUME GateInv, [Next]_vars
        PROVE  [ /\ ctl.phase = "Activating" /\ ctl'.phase = "Active" =>
                      rpc[worker.item].pc = "sent" /\ rpc[worker.item].reply = "accepted"
                 /\ worker'.pc = "stopped" /\ Running =>
                      /\ rpc[worker.item].pc = "sent" /\ rpc[worker.item].reply = "accepted"
                      /\ marker ]_vars
    <2>1. Flushed => /\ rpc[worker.item].pc = "sent" /\ rpc[worker.item].reply = "accepted"
                     /\ rpc[worker.item].method = "shutdown" => marker
      BY <1>1 DEF Flushed, ResponseFlushed, GateInv, FlushPrepared
    <2>2. CASE Next
      BY <1>1, <2>1, <2>2, OnlyFlushedCommits
    <2>3. CASE UNCHANGED vars
      BY <2>3
    <2> QED
      BY <1>1, <2>2, <2>3
  <1> QED
    BY <1>1, GateInvariant, PTL DEF CommitOnlyAfterAck, Spec
-----------------------------------------------------------------------------
(***************************************************************************)
(* Proofs about the fences of the gate: what holds as long as at most one  *)
(* shutdown request is undecided, for any number of requests and events.   *)
(* With two of them the restore of one reopens the gate of the other (run  *)
(* lifecycle_two_shutdowns), so the hypothesis is needed; it holds when no *)
(* plan of requests has two shutdowns: the host asks a worker once.        *)

\* A request whose answer is not decided yet; one whose command was queued.
Before == {"waitDrain", "enqueue", "await", "restore"}
Given == {"await"} \cup Answering

\* A command is in the queue, or in the worker's hands, at most once and only
\* while its connection waits for it or has given up.
CommandsOnce ==
    /\ \A k \in 1..Len(queue) : queue[k] \in Rpc =>
          /\ rpc[queue[k]].pc \in Given
          /\ \A j \in 1..Len(queue) : queue[j] = queue[k] => j = k
          /\ worker.pc \in CommandSteps => queue[k] # worker.item
    /\ worker.pc \in CommandSteps => rpc[worker.item].pc \in Given

\* The generation tells the states of the gate that requests hold apart.
HeldOnce ==
    /\ \A r \in Rpc : /\ rpc[r].held.generation <= ctl.generation
                      /\ rpc[r].held.generation = ctl.generation => rpc[r].held = ctl
    /\ \A r, s \in Rpc :
          rpc[r].held.generation = rpc[s].held.generation => rpc[r].held = rpc[s].held

\* An activation under way keeps its gate, and no quiesce has overtaken the
\* unquiesce that claimed it: a token taken before a quiesce is an old one.
NotOvertaken ==
    /\ \/ worker.pc = "reconcile"
       \/ worker.pc = "flush" /\ rpc[worker.item].method = "unquiesce"
       => ctl.phase = "Activating" /\ worker.item \notin outdated
    /\ \A u \in outdated : /\ rpc[u].method = "unquiesce" /\ rpc[u].pc # "idle"
                           /\ rpc[u].held.generation < ctl.generation

HandInv == GateInv /\ CommandsOnce /\ HeldOnce /\ NotOvertaken

\* In an initial state nothing is queued and every request holds the first gate.
LEMMA HandInit == Init => HandInv
  <1> SUFFICES ASSUME Init PROVE HandInv
    OBVIOUS
  <1>1. /\ worker.pc = "idle" /\ queue = <<>> /\ outdated = {}
        /\ \A r \in Rpc : rpc[r].held = ctl
    BY DEF Init, Idle
  <1>2. ctl \in ControlStates
    BY GateInvInit DEF GateInv, PermitInv, TypeOK
  <1>3. CommandsOnce /\ NotOvertaken
    BY <1>1 DEF CommandsOnce, NotOvertaken, CommandSteps
  <1>4. HeldOnce
    BY <1>1, <1>2 DEF HeldOnce, ControlStates
  <1> QED
    BY GateInvInit, <1>3, <1>4 DEF HandInv

-----------------------------------------------------------------------------
(* What one step does.                                                     *)

\* A shutdown request stays on the same side of its decision.
SameSide(r) ==
    rpc[r].method = "shutdown" => (rpc'[r].pc \in Before <=> rpc[r].pc \in Before)

\* What a step of a control connection may do to the gate and the queue, and at
\* which point of its request.
RpcEffect(r) ==
    /\ rpc'[r].pc # "idle"
    /\ rpc[r].pc # "idle" => rpc'[r].held = rpc[r].held
    /\ rpc[r].pc \in Given => rpc'[r].pc \in Given
    /\ \/ queue' = queue
       \/ rpc[r].pc = "enqueue" /\ rpc'[r].pc = "await" /\ queue' = Append(queue, r)
    /\ \/ UNCHANGED <<ctl, fenced, outdated>> /\ SameSide(r)
       \/ /\ rpc[r].method # "shutdown" /\ rpc[r].pc = "idle"
          /\ CanFence(ctl) /\ QuiesceAccepted
       \/ /\ rpc[r].method = "shutdown" /\ rpc[r].pc = "idle"
          /\ CanFence(ctl) /\ ctl' = BeginShutdown(ctl, now)
          /\ rpc'[r].pc = "waitDrain" /\ rpc'[r].held = ctl
          /\ UNCHANGED <<fenced, outdated>>
       \/ /\ rpc[r].method = "shutdown" /\ rpc[r].pc \in Before
          /\ ctl' = RestoreShutdownPhase(ctl, rpc[r].held)
          /\ rpc'[r].pc = "writing"
          /\ UNCHANGED <<fenced, outdated>>

\* A control connection does no more than that.
LEMMA RpcStepDetail ==
    ASSUME TypeOK, NEW r \in Rpc, RpcStep(r)
    PROVE  RpcEffect(r)
  <1>0. rpc \in [Rpc -> RpcStates]
    BY DEF TypeOK
  <1> USE DEF RpcStates, Answering, Given, Before, RpcEffect, SameSide
  <1>1. CASE Quiesce(r)
    BY <1>0, <1>1 DEF Quiesce, QuiesceAccepted, Answer, At
  <1>2. CASE BeginDrain(r)
    BY <1>0, <1>2 DEF BeginDrain, QuiesceAccepted, Answer, At
  <1>3. CASE Shutdown(r)
    BY <1>0, <1>3 DEF Shutdown, Answer, At
  <1>4. CASE PrepareUnquiesce(r)
    BY <1>0, <1>4 DEF PrepareUnquiesce, Answer, At
  <1>5. CASE Drained(r)
    BY <1>0, <1>5 DEF Drained, Answer
  <1>6. CASE DrainTimeout(r)
    BY <1>0, <1>6 DEF DrainTimeout, Answer, GateAfterRefusal
  <1>7. CASE Enqueue(r)
    BY <1>0, <1>7 DEF Enqueue
  <1>8. CASE Age(r)
    BY <1>0, <1>8 DEF Age
  <1>9. CASE RequestTimeout(r)
    BY <1>0, <1>9 DEF RequestTimeout, Expired, Answer, GateAfterRefusal
  <1>10. CASE TakeRefusal(r)
    BY <1>0, <1>10 DEF TakeRefusal, GateAfterRefusal
  <1>11. CASE WriteResponse(r)
    BY <1>0, <1>11 DEF WriteResponse
  <1> QED
    BY <1>1, <1>2, <1>3, <1>4, <1>5, <1>6, <1>7, <1>8, <1>9, <1>10, <1>11 DEF RpcStep

\* What the worker's loop may do to the gate and to the request in its hands.
LEMMA WorkerPlaces ==
    ASSUME TypeOK, WorkerStep
    PROVE  \/ /\ worker.pc \in CommandSteps /\ worker'.pc \in CommandSteps
              /\ worker'.item = worker.item /\ queue' = queue
              /\ rpc' = rpc \/ Complete(worker.item, "accepted")
           \/ /\ worker.pc \in CommandSteps /\ worker'.pc \notin CommandSteps
              /\ queue' = queue
              /\ rpc' = rpc \/ \E reply \in Replies : Complete(worker.item, reply)
           \/ /\ worker.pc = "idle" /\ queue # <<>> /\ Head(queue) \in Rpc
              /\ queue' = Tail(queue)
              /\ \/ worker'.pc = "begin" /\ worker'.item = Head(queue) /\ rpc' = rpc
                 \/ worker'.pc = "idle" /\ Complete(Head(queue), "error")
           \/ /\ worker.pc \notin CommandSteps /\ worker'.pc \notin CommandSteps
              /\ rpc' = rpc
              /\ queue' = queue \/ (queue # <<>> /\ queue' = Tail(queue))
  <1>0. worker \in WorkerStates /\ Idle.pc = "idle"
    BY DEF TypeOK, Idle
  <1>a. \A pc : /\ [worker EXCEPT !.pc = pc].pc = pc
                /\ [worker EXCEPT !.pc = pc].item = worker.item
    BY <1>0 DEF WorkerStates
  <1>b. \A pc, item : /\ [worker EXCEPT !.pc = pc, !.item = item].pc = pc
                      /\ [worker EXCEPT !.pc = pc, !.item = item].item = item
    BY <1>0 DEF WorkerStates
  <1>c. \A pc, left : /\ [worker EXCEPT !.pc = pc, !.left = left].pc = pc
                      /\ [worker EXCEPT !.pc = pc, !.left = left].item = worker.item
    BY <1>0 DEF WorkerStates
  <1>d. \A pc, claim : /\ [worker EXCEPT !.pc = pc, !.claim = claim].pc = pc
                       /\ [worker EXCEPT !.pc = pc, !.claim = claim].item = worker.item
    BY <1>0 DEF WorkerStates
  <1> USE DEF CommandSteps
  <1>r. \A reply \in {"accepted", "refused", "error"} : reply \in Replies
    BY DEF Replies
  <1>1. CASE TakeIngress
    BY <1>b, <1>1 DEF TakeIngress
  <1>2. CASE FinishIngress
    BY <1>0, <1>2 DEF FinishIngress
  <1>3. CASE TakeCommand
    <2>1. \/ Complete(Head(queue), "error") /\ worker' = Idle
          \/ worker' = [worker EXCEPT !.pc = "begin", !.item = Head(queue)] /\ rpc' = rpc
      BY <1>3 DEF TakeCommand, Finish
    <2>2. /\ worker.pc = "idle" /\ queue # <<>> /\ Head(queue) \in Rpc
          /\ queue' = Tail(queue)
      BY <1>3 DEF TakeCommand
    <2>3. CASE Complete(Head(queue), "error") /\ worker' = Idle
      BY <1>0, <2>2, <2>3
    <2>4. CASE worker' = [worker EXCEPT !.pc = "begin", !.item = Head(queue)] /\ rpc' = rpc
      <3>1. worker'.pc = "begin" /\ worker'.item = Head(queue)
        BY <1>b, <2>4
      <3> QED
        BY <2>2, <2>4, <3>1
    <2> QED
      BY <2>1, <2>3, <2>4
  <1>4. CASE BeginRuntimeDrain
    BY ZenonT(40), <1>0, <1>a, <1>r, <1>4 DEF BeginRuntimeDrain, Runs, Finish
  <1>5. CASE DrainRuntime
    BY <1>0, <1>a, <1>r, <1>5 DEF DrainRuntime, Finish
  <1>6. CASE CountRuntime
    BY <1>c, <1>6 DEF CountRuntime
  <1>7. CASE CommitDrain
    BY <1>0, <1>r, <1>7 DEF CommitDrain, Runs, Finish
  <1>8. CASE CommitShutdown
    BY ZenonT(40), <1>0, <1>a, <1>r, <1>8 DEF CommitShutdown, Runs, Finish
  <1>9. CASE BeginUnquiesce
    <2>1. \/ \E reply \in {"accepted", "refused"} :
               Complete(worker.item, reply) /\ worker' = Idle
          \/ rpc' = rpc /\ \E claim : worker' = [worker EXCEPT !.pc = "reconcile",
                                                          !.claim = claim]
      BY <1>9 DEF BeginUnquiesce, Finish
    <2>2. worker.pc = "begin" /\ queue' = queue
      BY <1>9 DEF BeginUnquiesce, Runs
    <2>3. CASE \E reply \in {"accepted", "refused"} :
                 Complete(worker.item, reply) /\ worker' = Idle
      BY <1>0, <1>r, <2>2, <2>3
    <2>4. CASE rpc' = rpc /\ \E claim : worker' = [worker EXCEPT !.pc = "reconcile",
                                                            !.claim = claim]
      <3>1. worker'.pc = "reconcile" /\ worker'.item = worker.item
        BY <1>d, <2>4
      <3> QED
        BY <2>2, <2>4, <3>1
    <2> QED
      BY <2>1, <2>3, <2>4
  <1>10. CASE Reconcile
    BY ZenonT(40), <1>0, <1>a, <1>r, <1>10 DEF Reconcile, Finish
  <1>11. CASE Flushed
    BY <1>0, <1>a, <1>11 DEF Flushed
  <1>12. CASE FlushFailed
    BY <1>0, <1>12 DEF FlushFailed
  <1> QED
    BY <1>1, <1>2, <1>3, <1>4, <1>5, <1>6, <1>7, <1>8, <1>9, <1>10, <1>11, <1>12
       DEF WorkerStep

-----------------------------------------------------------------------------
(* Commands, held states and activations: in every state.                  *)

\* A step of a control connection keeps commands apart.
LEMMA RpcStepCommands ==
    ASSUME GateInv, CommandsOnce, NEW r \in Rpc, RpcStep(r)
    PROVE  CommandsOnce'
  <1>0. TypeOK /\ RpcEffect(r) /\ ItemInHand /\ queue \in Seq(Rpc \cup Ing)
    BY RpcStepDetail DEF GateInv, PermitInv, TypeOK
  <1>1. UNCHANGED worker /\ \A s \in Rpc \ {r} : rpc'[s] = rpc[s]
    BY <1>0, RpcStepEffect
  <1>2. \A s \in Rpc : rpc[s].pc \in Given => rpc'[s].pc \in Given
    BY <1>0, <1>1 DEF RpcEffect
  <1>3. worker.pc \in CommandSteps => worker.item \in Rpc
    BY <1>0 DEF ItemInHand
  <1>4. CASE queue' = queue
    BY <1>1, <1>2, <1>3, <1>4 DEF CommandsOnce
  <1>5. CASE rpc[r].pc = "enqueue" /\ rpc'[r].pc = "await" /\ queue' = Append(queue, r)
    <2>1. /\ Len(queue) \in Nat /\ Len(queue') = Len(queue) + 1
          /\ \A k \in 1..Len(queue) : queue'[k] = queue[k]
          /\ queue'[Len(queue) + 1] = r
      BY <1>0, <1>5
    <2>2. rpc[r].pc \notin Given /\ rpc'[r].pc \in Given
      BY <1>5 DEF Given, Answering
    <2>3. \A k \in 1..Len(queue) : queue[k] # r
      BY <2>2 DEF CommandsOnce
    <2>4. worker.pc \in CommandSteps => worker.item # r
      BY <2>2 DEF CommandsOnce
    <2> QED
      BY <1>1, <1>2, <1>3, <2>1, <2>2, <2>3, <2>4 DEF CommandsOnce
  <1> QED
    BY <1>0, <1>4, <1>5 DEF RpcEffect

\* A request that the worker completes stays where its command may be, unless the
\* command is spent.
LEMMA CompleteKeeps ==
    ASSUME TypeOK, NEW r \in Rpc, NEW reply \in Replies, Complete(r, reply)
    PROVE  /\ \A s \in Rpc \ {r} : rpc'[s] = rpc[s]
           /\ reply = "accepted" /\ rpc[r].pc \in Given => rpc'[r].pc \in Given
           /\ rpc[r].pc # "idle" => rpc'[r].pc # "idle"
           /\ rpc'[r].method = rpc[r].method /\ rpc'[r].held = rpc[r].held
           /\ rpc[r].pc \in Answering => rpc'[r].pc = rpc[r].pc
           /\ rpc[r].pc = "await" => rpc'[r].pc \in {"writing", "restore"}
           /\ SameSide(r) \/ (reply = "accepted" /\ rpc[r].pc = "await")
  <1>1. rpc \in [Rpc -> RpcStates]
    BY DEF TypeOK
  <1> QED
    BY <1>1 DEF Complete, Listening, RpcStates, Given, Answering, SameSide, Before

\* The rest of the queue keeps what is said of its commands.
LEMMA TailCommands ==
    ASSUME queue \in Seq(Rpc \cup Ing), CommandsOnce, queue # <<>>, queue' = Tail(queue)
    PROVE  /\ \A k \in 1..Len(queue') : queue'[k] \in Rpc =>
                /\ rpc[queue'[k]].pc \in Given
                /\ \A j \in 1..Len(queue') : queue'[j] = queue'[k] => j = k
                /\ worker.pc \in CommandSteps => queue'[k] # worker.item
           /\ Head(queue) \in Rpc =>
                /\ \A k \in 1..Len(queue') : queue'[k] # Head(queue)
                /\ rpc[Head(queue)].pc \in Given
  <1>1. /\ Len(queue) \in Nat \ {0} /\ Len(queue') = Len(queue) - 1
        /\ \A k \in 1..Len(queue') : k + 1 \in 1..Len(queue) /\ queue'[k] = queue[k + 1]
        /\ Head(queue) = queue[1] /\ 1 \in 1..Len(queue)
    OBVIOUS
  <1>2. ASSUME NEW k \in 1..Len(queue'), queue'[k] \in Rpc
        PROVE  /\ rpc[queue'[k]].pc \in Given
               /\ \A j \in 1..Len(queue') : queue'[j] = queue'[k] => j = k
               /\ worker.pc \in CommandSteps => queue'[k] # worker.item
    <2>1. k + 1 \in 1..Len(queue) /\ queue'[k] = queue[k + 1]
      BY <1>1
    <2>2. /\ rpc[queue[k + 1]].pc \in Given
          /\ \A j \in 1..Len(queue) : queue[j] = queue[k + 1] => j = k + 1
          /\ worker.pc \in CommandSteps => queue[k + 1] # worker.item
      BY <1>2, <2>1 DEF CommandsOnce
    <2> QED
      BY <1>1, <2>1, <2>2
  <1>3. ASSUME Head(queue) \in Rpc
        PROVE  /\ \A k \in 1..Len(queue') : queue'[k] # Head(queue)
               /\ rpc[Head(queue)].pc \in Given
    <2>1. /\ rpc[queue[1]].pc \in Given
          /\ \A j \in 1..Len(queue) : queue[j] = queue[1] => j = 1
      BY <1>1, <1>3 DEF CommandsOnce
    <2> QED
      BY <1>1, <2>1
  <1> QED
    BY <1>2, <1>3

\* A step of the worker keeps commands apart.
LEMMA WorkerStepCommands ==
    ASSUME GateInv, CommandsOnce, WorkerStep
    PROVE  CommandsOnce'
  <1>0. TypeOK /\ ItemInHand /\ queue \in Seq(Rpc \cup Ing)
    BY DEF GateInv, PermitInv, TypeOK
  <1>1. "accepted" \in Replies /\ "error" \in Replies
    BY DEF Replies
  <1>2. CASE /\ worker.pc \in CommandSteps /\ worker'.pc \in CommandSteps
             /\ worker'.item = worker.item /\ queue' = queue
             /\ rpc' = rpc \/ Complete(worker.item, "accepted")
    <2>1. worker.item \in Rpc
      BY <1>0, <1>2 DEF ItemInHand
    <2>2. \A s \in Rpc : rpc[s].pc \in Given => rpc'[s].pc \in Given
      BY <1>0, <1>1, <1>2, <2>1, CompleteKeeps
    <2> QED
      BY <1>2, <2>1, <2>2 DEF CommandsOnce
  <1>3. CASE /\ worker.pc \in CommandSteps /\ worker'.pc \notin CommandSteps
             /\ queue' = queue
             /\ rpc' = rpc \/ \E reply \in Replies : Complete(worker.item, reply)
    <2>1. worker.item \in Rpc
      BY <1>0, <1>3 DEF ItemInHand
    <2>2. \A s \in Rpc \ {worker.item} : rpc'[s] = rpc[s]
      BY <1>0, <1>3, <2>1, CompleteKeeps
    <2> QED
      BY <1>3, <2>2 DEF CommandsOnce
  <1>4. CASE /\ worker.pc = "idle" /\ queue # <<>> /\ Head(queue) \in Rpc
             /\ queue' = Tail(queue)
             /\ \/ worker'.pc = "begin" /\ worker'.item = Head(queue) /\ rpc' = rpc
                \/ worker'.pc = "idle" /\ Complete(Head(queue), "error")
    <2>1. /\ \A k \in 1..Len(queue') : queue'[k] \in Rpc =>
               /\ rpc[queue'[k]].pc \in Given
               /\ \A j \in 1..Len(queue') : queue'[j] = queue'[k] => j = k
          /\ \A k \in 1..Len(queue') : queue'[k] # Head(queue)
          /\ rpc[Head(queue)].pc \in Given
      BY <1>0, <1>4, TailCommands
    <2>2. \A s \in Rpc \ {Head(queue)} : rpc'[s] = rpc[s]
      BY <1>0, <1>1, <1>4, CompleteKeeps
    <2>3. CASE worker'.pc = "begin" /\ worker'.item = Head(queue) /\ rpc' = rpc
      BY <2>1, <2>3 DEF CommandsOnce
    <2>4. CASE worker'.pc = "idle"
      BY <2>1, <2>2, <2>4 DEF CommandsOnce, CommandSteps
    <2> QED
      BY <1>4, <2>3, <2>4
  <1>5. CASE /\ worker.pc \notin CommandSteps /\ worker'.pc \notin CommandSteps
             /\ rpc' = rpc
             /\ queue' = queue \/ (queue # <<>> /\ queue' = Tail(queue))
    BY <1>0, <1>5, TailCommands DEF CommandsOnce
  <1> QED
    BY <1>0, <1>2, <1>3, <1>4, <1>5, WorkerPlaces

\* Every operation that changes the gate takes the next generation.
LEMMA NextGeneration ==
    /\ \A s, t : BeginQuiesce(s, t).generation = s.generation + 1
    /\ \A s, t : BeginShutdown(s, t).generation = s.generation + 1
    /\ \A s : BeginActivation(s).generation = s.generation + 1
    /\ \A s, g, t : \/ CompleteActivation(s, g, t) = s
                    \/ CompleteActivation(s, g, t).generation = s.generation + 1
    /\ \A s, claim : \/ CancelActivation(s, claim) = s
                     \/ CancelActivation(s, claim).generation = s.generation + 1
    /\ \A s, held : \/ RestoreShutdownPhase(s, held) = s
                    \/ RestoreShutdownPhase(s, held).generation = s.generation + 1
  BY DEF BeginQuiesce, BeginShutdown, BeginActivation, CompleteActivation,
         CancelActivation, RestoreShutdownPhase, Advance

\* So does every step, and a request may only take hold of the present gate.
LEMMA StepGeneration ==
    ASSUME GateInv, [Next]_vars
    PROVE  /\ ctl' = ctl \/ ctl'.generation = ctl.generation + 1
           /\ \A r \in Rpc : \/ rpc'[r].held = rpc[r].held
                             \/ rpc'[r].held = ctl \/ rpc'[r].held = ctl'
  <1>0. TypeOK
    BY DEF GateInv, PermitInv
  <1>1. CASE \E r \in Rpc : RpcStep(r)
    <2>1. PICK r \in Rpc : RpcStep(r)
      BY <1>1
    <2>2. /\ \/ ctl' = ctl
             \/ ctl' = BeginQuiesce(ctl, now)
             \/ ctl' = BeginShutdown(ctl, now)
             \/ ctl' = RestoreShutdownPhase(ctl, rpc[r].held)
          /\ \A s \in Rpc \ {r} : rpc'[s] = rpc[s]
          /\ rpc'[r].held = rpc[r].held \/ rpc'[r].held = ctl \/ rpc'[r].held = ctl'
      BY <1>0, <2>1, RpcStepEffect
    <2> QED
      BY <2>2, NextGeneration
  <1>2. CASE WorkerStep
    <2>1. \/ ctl' = ctl
          \/ ctl' = BeginActivation(ctl)
          \/ \E g, t : ctl' = CompleteActivation(ctl, g, t)
          \/ \E claim : ctl' = CancelActivation(ctl, claim)
          \/ \E held : ctl' = RestoreShutdownPhase(ctl, held)
      BY <1>2 DEF WorkerStep, TakeIngress, FinishIngress, TakeCommand, BeginRuntimeDrain,
             DrainRuntime, CountRuntime, CommitDrain, CommitShutdown, BeginUnquiesce,
             Reconcile, Flushed, FlushFailed
    <2> QED
      BY <1>0, <1>2, <2>1, NextGeneration, WorkerKeepsRequests
  <1>3. CASE UNCHANGED <<ctl, rpc>>
    BY <1>3
  <1>4. Tick \/ WorkerExit \/ Gone \/ (\E i \in Ing : IngressStep(i)) => UNCHANGED <<ctl, rpc>>
    BY DEF Tick, WorkerExit, Gone, IngressStep, Receive, Admit, SendIngress,
           IngressTimeout, vars
  <1> QED
    BY <1>1, <1>2, <1>3, <1>4 DEF Next, vars

\* Hence no two states of the gate that are held have one generation.
LEMMA StepHeldOnce ==
    ASSUME GateInv, HeldOnce, [Next]_vars
    PROVE  HeldOnce'
  <1>1. /\ ctl' = ctl \/ ctl'.generation = ctl.generation + 1
        /\ \A r \in Rpc : \/ rpc'[r].held = rpc[r].held
                          \/ rpc'[r].held = ctl \/ rpc'[r].held = ctl'
    BY StepGeneration
  <1>2. ctl.generation \in Nat /\ \A r \in Rpc : rpc[r].held.generation \in Nat
    BY DEF GateInv, PermitInv, TypeOK, RpcStates, ControlStates
  <1>3. ASSUME NEW r \in Rpc
        PROVE  /\ rpc'[r].held.generation <= ctl'.generation
               /\ rpc'[r].held.generation = ctl'.generation => rpc'[r].held = ctl'
    <2>1. /\ rpc[r].held.generation <= ctl.generation
          /\ rpc[r].held.generation = ctl.generation => rpc[r].held = ctl
      BY DEF HeldOnce
    <2> QED
      BY <1>1, <1>2, <2>1
  <1>4. ASSUME NEW r \in Rpc, NEW s \in Rpc,
               rpc'[r].held.generation = rpc'[s].held.generation
        PROVE  rpc'[r].held = rpc'[s].held
    <2>1. /\ rpc[r].held.generation <= ctl.generation
          /\ rpc[s].held.generation <= ctl.generation
          /\ rpc[r].held.generation = ctl.generation => rpc[r].held = ctl
          /\ rpc[s].held.generation = ctl.generation => rpc[s].held = ctl
          /\ rpc[r].held.generation = rpc[s].held.generation => rpc[r].held = rpc[s].held
      BY DEF HeldOnce
    <2> QED
      BY <1>1, <1>2, <1>4, <2>1
  <1> QED
    BY <1>3, <1>4 DEF HeldOnce

\* A step of a control connection overtakes no activation that is under way.
LEMMA RpcStepOvertakes ==
    ASSUME HandInv, NEW r \in Rpc, RpcStep(r)
    PROVE  NotOvertaken'
  <1>0. TypeOK /\ RpcEffect(r) /\ ItemInHand
    BY RpcStepDetail DEF HandInv, GateInv, PermitInv
  <1>1. /\ UNCHANGED worker /\ \A s \in Rpc \ {r} : rpc'[s] = rpc[s]
        /\ rpc'[r].method = rpc[r].method
    BY <1>0, RpcStepEffect
  <1>2. worker.pc \in CommandSteps => worker.item \in Rpc
    BY <1>0 DEF ItemInHand
  <1>3. /\ ctl.generation \in Nat
        /\ ctl' = ctl \/ ctl'.generation = ctl.generation + 1
        /\ \A s \in Rpc : rpc[s].held.generation \in Nat
    BY <1>0, StepGeneration DEF HandInv, Next, TypeOK, ControlStates, RpcStates
  <1>4. ctl.phase = "Activating" => ctl' = ctl /\ outdated' = outdated
    BY <1>0 DEF RpcEffect, CanFence, RestoreShutdownPhase
  <1>5. \A u \in Rpc : rpc[u].pc # "idle" =>
          rpc'[u].pc # "idle" /\ rpc'[u].held = rpc[u].held /\ rpc'[u].method = rpc[u].method
    BY <1>0, <1>1 DEF RpcEffect
  <1>6. ASSUME NEW u \in outdated'
        PROVE  /\ rpc'[u].method = "unquiesce" /\ rpc'[u].pc # "idle"
               /\ rpc'[u].held.generation < ctl'.generation
    <2>1. CASE u \in outdated
      <3>1. /\ u \in Rpc /\ rpc[u].method = "unquiesce" /\ rpc[u].pc # "idle"
            /\ rpc[u].held.generation < ctl.generation
        BY <1>0, <2>1 DEF HandInv, NotOvertaken, TypeOK
      <3> QED
        BY <1>3, <1>5, <3>1
    <2>2. CASE u \notin outdated
      <3>1. /\ u \in Rpc /\ rpc[u].method = "unquiesce" /\ rpc[u].pc \in {"enqueue", "await"}
            /\ ctl' = BeginQuiesce(ctl, now)
        BY <1>0, <1>6, <2>2 DEF RpcEffect, QuiesceAccepted
      <3>2. rpc[u].held.generation <= ctl.generation
        BY <3>1 DEF HandInv, HeldOnce
      <3>3. ctl'.generation = ctl.generation + 1
        BY <3>1, NextGeneration
      <3> QED
        BY <1>3, <1>5, <3>1, <3>2, <3>3
    <2> QED
      BY <2>1, <2>2
  <1> QED
    BY <1>1, <1>2, <1>4, <1>6 DEF HandInv, NotOvertaken, CommandSteps

\* The worker claims an activation only with a token nothing has overtaken, and
\* keeps the gate until it commits or cancels.
LEMMA WorkerStepOvertakes ==
    ASSUME HandInv, WorkerStep
    PROVE  NotOvertaken'
  <1>0. TypeOK /\ ItemInHand /\ worker \in WorkerStates
    BY DEF HandInv, GateInv, PermitInv, TypeOK
  <1>1. \A u \in Rpc : rpc'[u].held = rpc[u].held /\ rpc'[u].method = rpc[u].method
    BY <1>0, WorkerKeepsRequests
  <1>2. /\ ctl.generation \in Nat
        /\ ctl' = ctl \/ ctl'.generation = ctl.generation + 1
        /\ \A s \in Rpc : rpc[s].held.generation \in Nat
    BY <1>0, StepGeneration DEF HandInv, Next, TypeOK, ControlStates, RpcStates
  <1>3. \A u \in Rpc : rpc[u].pc # "idle" => rpc'[u].pc # "idle"
    <2>1. rpc' = rpc \/ \E reply \in Replies, s \in Rpc : Complete(s, reply)
      BY <1>0, WorkerPlaces DEF ItemInHand, Replies
    <2> QED
      BY <1>0, <2>1, CompleteKeeps
  <1>4. UNCHANGED outdated /\ outdated \subseteq Rpc
    BY <1>0 DEF WorkerStep, TakeIngress, FinishIngress, TakeCommand, BeginRuntimeDrain,
           DrainRuntime, CountRuntime, CommitDrain, CommitShutdown, BeginUnquiesce,
           Reconcile, Flushed, FlushFailed, TypeOK
  <1>5. \A u \in outdated' : /\ rpc'[u].method = "unquiesce" /\ rpc'[u].pc # "idle"
                             /\ rpc'[u].held.generation < ctl'.generation
    BY <1>1, <1>2, <1>3, <1>4 DEF HandInv, NotOvertaken
  <1>6. CASE ~(\/ worker'.pc = "reconcile"
               \/ worker'.pc = "flush" /\ rpc'[worker'.item].method = "unquiesce")
    BY <1>5, <1>6 DEF NotOvertaken
  <1>7. CASE worker'.pc = "reconcile"
    <2>1. BeginUnquiesce
      BY <1>0, <1>7, WorkerNextStep DEF WorkerStep, FinishIngress, Idle
    <2>2. /\ ctl' = BeginActivation(ctl) /\ rpc[worker.item].held.generation = ctl.generation
          /\ \E claim : worker' = [worker EXCEPT !.pc = "reconcile", !.claim = claim]
      <3>1. worker' # Idle
        BY <1>7 DEF Idle
      <3>2. \/ worker' = Idle
            \/ /\ TakesToken(ctl, Token) /\ ctl' = BeginActivation(ctl)
               /\ \E claim : worker' = [worker EXCEPT !.pc = "reconcile", !.claim = claim]
        BY <2>1 DEF BeginUnquiesce, Finish
      <3> QED
        BY <3>1, <3>2 DEF TakesToken, Token
    <2>3. worker'.item = worker.item
      BY <1>0, <2>2 DEF WorkerStates
    <2>4. worker.item \notin outdated
      BY <1>2, <2>2 DEF HandInv, NotOvertaken
    <2> QED
      BY <1>4, <1>5, <2>2, <2>3, <2>4, GatePhases DEF NotOvertaken
  <1>8. CASE worker'.pc = "flush" /\ rpc'[worker'.item].method = "unquiesce"
    <2>1. CommitShutdown \/ Reconcile
      BY <1>0, <1>8, WorkerNextStep DEF WorkerStep, FinishIngress, Idle
    <2>2. worker' = [worker EXCEPT !.pc = "flush"] /\ ctl' = ctl
      BY <1>8, <2>1 DEF CommitShutdown, Reconcile, Finish, Idle
    <2>3. worker'.item = worker.item
      BY <1>0, <2>2 DEF WorkerStates
    <2>4. worker.pc \in CommandSteps => worker.item \in Rpc
      BY <1>0 DEF ItemInHand
    <2>5. Reconcile
      BY <1>1, <1>8, <2>1, <2>3, <2>4 DEF CommitShutdown, Runs, CommandSteps
    <2>6. worker.pc = "reconcile"
      BY <2>5 DEF Reconcile
    <2> QED
      BY <1>4, <1>5, <2>2, <2>3, <2>6 DEF HandInv, NotOvertaken
  <1> QED
    BY <1>6, <1>7, <1>8

\* Every step keeps all this.
LEMMA HandNext == HandInv /\ [Next]_vars => HandInv'
  <1> SUFFICES ASSUME HandInv, [Next]_vars PROVE HandInv'
    OBVIOUS
  <1>0. GateInv' /\ HeldOnce'
    BY GateInvNext, StepHeldOnce DEF HandInv
  <1>1. CASE \E r \in Rpc : RpcStep(r)
    BY <1>0, <1>1, RpcStepCommands, RpcStepOvertakes DEF HandInv
  <1>2. CASE WorkerStep
    BY <1>0, <1>2, WorkerStepCommands, WorkerStepOvertakes DEF HandInv
  <1>3. CASE Tick \/ Gone \/ UNCHANGED vars
    <2>1. UNCHANGED <<ctl, rpc, worker, queue, outdated>>
      BY <1>3 DEF Tick, Gone, vars
    <2> QED
      BY <1>0, <2>1 DEF HandInv, CommandsOnce, NotOvertaken
  <1>4. CASE WorkerExit
    <2>1. UNCHANGED <<ctl, rpc, queue, outdated>> /\ worker'.pc = "exited"
      BY <1>4 DEF WorkerExit, HandInv, GateInv, PermitInv, TypeOK, WorkerStates
    <2> QED
      BY <1>0, <2>1 DEF HandInv, CommandsOnce, NotOvertaken, CommandSteps
  <1>5. CASE \E i \in Ing : IngressStep(i)
    <2>1. PICK i \in Ing : IngressStep(i)
      BY <1>5
    <2>2. /\ UNCHANGED <<ctl, rpc, worker, outdated>>
          /\ queue' = queue \/ queue' = Append(queue, i)
      BY <2>1 DEF IngressStep, Receive, Admit, SendIngress, IngressTimeout
    <2>3. i \notin Rpc /\ queue \in Seq(Rpc \cup Ing)
      BY ActorAssumption DEF HandInv, GateInv, PermitInv, TypeOK
    <2>4. CASE queue' = queue
      BY <1>0, <2>2, <2>4 DEF HandInv, CommandsOnce, NotOvertaken
    <2>5. CASE queue' = Append(queue, i)
      <3>1. /\ Len(queue) \in Nat /\ Len(queue') = Len(queue) + 1
            /\ \A k \in 1..Len(queue) : queue'[k] = queue[k]
            /\ queue'[Len(queue) + 1] = i
        BY <2>3, <2>5
      <3>2. CommandsOnce'
        BY <2>2, <2>3, <3>1 DEF HandInv, CommandsOnce
      <3> QED
        BY <1>0, <2>2, <3>2 DEF HandInv, NotOvertaken
    <2> QED
      BY <2>2, <2>4, <2>5
  <1> QED
    BY <1>1, <1>2, <1>3, <1>4, <1>5 DEF Next

\* Commands, held states and activations are so in every state.
LEMMA HandInvariant == Spec => []HandInv
  BY HandInit, HandNext, PTL DEF Spec

-----------------------------------------------------------------------------
(* The fences: with at most one undecided shutdown.                        *)

InHand(r) == worker.pc \in CommandSteps \cup {"stopped"} /\ worker.item = r

\* A shutdown request is undecided until its connection has the answer and the
\* worker is done with its command.
Undecided(r) == rpc[r].method = "shutdown" /\ (rpc[r].pc \in Before \/ InHand(r))

OneAtATime == \A r, s \in Rpc : Undecided(r) /\ Undecided(s) => r = s

\* The shutdown for which the gate is shut: undecided for its connection, or
\* answered "accepted" and about to commit.
Fencing(r) == /\ rpc[r].method = "shutdown"
              /\ \/ rpc[r].pc \in Before
                 \/ worker.pc \in {"flush", "stopped"} /\ worker.item = r

\* The gate is shutting down exactly for one such request, which holds the state
\* just before it; and that one was not open if a quiesce was accepted since.
FenceHeld ==
    /\ ctl.phase = "ShuttingDown" => \E r \in Rpc : Fencing(r)
    /\ \A r \in Rpc : Fencing(r) =>
          /\ ctl.phase = "ShuttingDown"
          /\ rpc[r].held.generation + 1 = ctl.generation
          /\ fenced => rpc[r].held.phase # "Active"

StoppedByShutdown ==
    worker.pc = "stopped" =>
       /\ worker.item \in Rpc /\ rpc[worker.item].method = "shutdown"
       /\ rpc[worker.item].pc # "idle"

FenceInv == HandInv /\ FenceHeld /\ StoppedByShutdown /\ QuiesceHolds

\* A worker that comes up is fenced if it is pre-active, and for no shutdown.
LEMMA FenceInit == Init => FenceInv
  <1> SUFFICES ASSUME Init PROVE FenceInv
    OBVIOUS
  <1>1. PICK preActive \in BOOLEAN :
          /\ ctl = NewControl(IF preActive THEN "Quiescing" ELSE "Active", 0)
          /\ fenced = preActive
    BY DEF Init
  <1>2. ctl.phase = IF fenced THEN "Quiescing" ELSE "Active"
    BY <1>1 DEF NewControl
  <1>3. worker.pc = "idle" /\ \A r \in Rpc : rpc[r].pc = "idle"
    BY DEF Init, Idle
  <1>4. \A r \in Rpc : ~Fencing(r)
    BY <1>3 DEF Fencing, Before
  <1> QED
    BY HandInit, <1>2, <1>3, <1>4 DEF FenceInv, FenceHeld, StoppedByShutdown, QuiesceHolds

SameFences == \A r \in Rpc : Fencing(r)' <=> Fencing(r)

\* All that a step does to the gate, told by the fences: it stays, is quiesced,
\* claimed, opened or taken back with the same fences; a request fences it; or
\* the one that fences it releases it.
GateMove ==
    \/ /\ SameFences
       /\ \/ ctl' = ctl /\ (fenced' => fenced)
          \/ CanFence(ctl) /\ ctl' = BeginQuiesce(ctl, now)
          \/ ctl.phase = "Quiescing" /\ ctl' = BeginActivation(ctl) /\ UNCHANGED fenced
          \/ ctl.phase = "Activating" /\ ctl'.phase = "Active" /\ ~fenced'
          \/ ctl.phase = "Activating" /\ ctl'.phase = "Quiescing" /\ UNCHANGED fenced
    \/ \E r \in Rpc : /\ CanFence(ctl) /\ ctl' = BeginShutdown(ctl, now)
                      /\ UNCHANGED fenced /\ rpc'[r].held = ctl
                      /\ rpc'[r].method = "shutdown" /\ rpc'[r].pc = "waitDrain"
                      /\ \A s \in Rpc \ {r} : Fencing(s)' <=> Fencing(s)
    \/ \E r \in Rpc : /\ Fencing(r) /\ ctl' = RestoreShutdownPhase(ctl, rpc[r].held)
                      /\ UNCHANGED fenced /\ \A s \in Rpc : ~Fencing(s)'

\* A control connection only works for a worker that runs.
LEMMA RpcStepRuns == \A r \in Rpc : RpcStep(r) => Running
  BY DEF RpcStep, Quiesce, BeginDrain, Shutdown, PrepareUnquiesce, Drained, DrainTimeout,
         Enqueue, Age, RequestTimeout, TakeRefusal, WriteResponse, At

\* A control connection moves the gate so.
LEMMA RpcStepMove ==
    ASSUME FenceInv, OneAtATime, NEW r \in Rpc, RpcStep(r)
    PROVE  GateMove
  <1>0. TypeOK /\ RpcEffect(r) /\ Running
    BY RpcStepDetail, RpcStepRuns DEF FenceInv, HandInv, GateInv, PermitInv
  <1>1. /\ UNCHANGED worker /\ \A s \in Rpc \ {r} : rpc'[s] = rpc[s]
        /\ rpc'[r].method = rpc[r].method
    BY <1>0, RpcStepEffect
  <1>2. \A s \in Rpc \ {r} : Fencing(s)' <=> Fencing(s)
    BY <1>1 DEF Fencing
  <1>3. CASE UNCHANGED <<ctl, fenced, outdated>> /\ SameSide(r)
    <2>1. Fencing(r)' <=> Fencing(r)
      BY <1>1, <1>3 DEF Fencing, SameSide
    <2> QED
      BY <1>2, <1>3, <2>1 DEF GateMove, SameFences
  <1>4. CASE rpc[r].method # "shutdown" /\ CanFence(ctl) /\ QuiesceAccepted
    <2>1. Fencing(r)' <=> Fencing(r)
      BY <1>1, <1>4 DEF Fencing
    <2> QED
      BY <1>2, <1>4, <2>1 DEF GateMove, SameFences, QuiesceAccepted
  <1>5. CASE /\ rpc[r].method = "shutdown"
             /\ CanFence(ctl) /\ ctl' = BeginShutdown(ctl, now)
             /\ rpc'[r].pc = "waitDrain" /\ rpc'[r].held = ctl
             /\ UNCHANGED <<fenced, outdated>>
    BY <1>1, <1>2, <1>5 DEF GateMove
  <1>6. CASE /\ rpc[r].method = "shutdown" /\ rpc[r].pc \in Before
             /\ ctl' = RestoreShutdownPhase(ctl, rpc[r].held)
             /\ rpc'[r].pc = "writing"
             /\ UNCHANGED <<fenced, outdated>>
    <2>1. Fencing(r) /\ Undecided(r)
      BY <1>6 DEF Fencing, Undecided
    <2>2. \A s \in Rpc \ {r} : ~Fencing(s)
      BY <2>1 DEF OneAtATime, Undecided, Fencing, InHand, CommandSteps
    <2>3. ~(worker.pc = "flush" /\ worker.item = r)
      BY <1>6 DEF FenceInv, HandInv, GateInv, FlushPrepared, Before
    <2>4. ~Fencing(r)'
      BY <1>0, <1>1, <1>6, <2>3 DEF Fencing, Before, Running
    <2> QED
      BY <1>2, <1>6, <2>1, <2>2, <2>4 DEF GateMove
  <1> QED
    BY <1>0, <1>3, <1>4, <1>5, <1>6 DEF RpcEffect

\* Only a shutdown that is committed leaves its undecided side by the worker.
LEMMA WorkerSameSide ==
    ASSUME HandInv, WorkerStep
    PROVE  /\ ~CommitShutdown => \A s \in Rpc : SameSide(s)
           /\ rpc' = rpc => \A s \in Rpc : SameSide(s)
           /\ \A reply \in {"refused", "error"} :
                Complete(worker.item, reply) /\ worker.item \in Rpc => \A s \in Rpc : SameSide(s)
  <1>0. TypeOK /\ ItemInHand
    BY DEF HandInv, GateInv, PermitInv
  <1>1. ASSUME rpc' = rpc
        PROVE  \A s \in Rpc : SameSide(s)
    BY <1>1 DEF SameSide
  <1>2. ASSUME NEW r \in Rpc, NEW reply \in {"refused", "error"}, Complete(r, reply)
        PROVE  \A s \in Rpc : SameSide(s)
    <2>1. reply \in Replies /\ reply # "accepted"
      BY DEF Replies
    <2> QED
      BY <1>0, <1>2, <2>1, CompleteKeeps DEF SameSide
  <1>3. ASSUME NEW r \in Rpc, Complete(r, "accepted"), rpc[r].method # "shutdown"
        PROVE  \A s \in Rpc : SameSide(s)
    BY <1>0, <1>3, CompleteKeeps DEF SameSide, Replies
  <1>4. ASSUME ~CommitShutdown
        PROVE  \A s \in Rpc : SameSide(s)
    <2>1. CASE TakeIngress \/ FinishIngress \/ CountRuntime \/ Flushed \/ FlushFailed
      BY <1>1, <2>1 DEF TakeIngress, FinishIngress, CountRuntime, Flushed, FlushFailed
    <2>2. CASE TakeCommand
      BY <1>1, <1>2, <2>2 DEF TakeCommand, Finish
    <2>3. CASE BeginRuntimeDrain
      <3>1. worker.item \in Rpc
        BY <1>0, <2>3 DEF BeginRuntimeDrain, Runs, ItemInHand, CommandSteps
      <3> QED
        BY <1>1, <1>2, <2>3, <3>1 DEF BeginRuntimeDrain, Finish
    <2>4. CASE DrainRuntime
      <3>1. worker.item \in Rpc
        BY <1>0, <2>4 DEF DrainRuntime, ItemInHand, CommandSteps
      <3> QED
        BY <1>1, <1>2, <2>4, <3>1 DEF DrainRuntime, Finish
    <2>5. CASE CommitDrain
      <3>1. worker.item \in Rpc /\ rpc[worker.item].method = "drain"
        BY <1>0, <2>5 DEF CommitDrain, Runs, ItemInHand, CommandSteps
      <3>2. \E reply \in {"accepted", "refused", "error"} : Complete(worker.item, reply)
        BY <2>5 DEF CommitDrain, Finish
      <3> QED
        BY <1>2, <1>3, <3>1, <3>2
    <2>6. CASE BeginUnquiesce
      <3>1. worker.item \in Rpc /\ rpc[worker.item].method = "unquiesce"
        BY <1>0, <2>6 DEF BeginUnquiesce, Runs, ItemInHand, CommandSteps
      <3>2. rpc' = rpc \/ \E reply \in {"accepted", "refused", "error"} :
                            Complete(worker.item, reply)
        BY <2>6 DEF BeginUnquiesce, Finish
      <3> QED
        BY <1>1, <1>2, <1>3, <3>1, <3>2
    <2>7. CASE Reconcile
      <3>1. worker.item \in Rpc /\ rpc[worker.item].method = "unquiesce"
        BY <1>0, <2>7 DEF Reconcile, ItemInHand, CommandSteps, HandInv, GateInv, FlushPrepared
      <3>2. \E reply \in {"accepted", "refused", "error"} : Complete(worker.item, reply)
        BY <2>7 DEF Reconcile, Finish
      <3> QED
        BY <1>2, <1>3, <3>1, <3>2
    <2> QED
      BY <1>4, <2>1, <2>2, <2>3, <2>4, <2>5, <2>6, <2>7 DEF WorkerStep
  <1> QED
    BY <1>1, <1>2, <1>4

\* Outside the flush the worker fences nothing itself.
LEMMA QuietFences ==
    ASSUME TypeOK, WorkerStep, worker.pc \notin {"flush", "stopped"},
           worker'.pc \notin {"flush", "stopped"}, \A s \in Rpc : SameSide(s)
    PROVE  SameFences
  <1>1. \A s \in Rpc : rpc'[s].method = rpc[s].method
    BY WorkerKeepsRequests
  <1> QED
    BY <1>1 DEF SameFences, Fencing, SameSide

\* A worker that refuses a shutdown, or starts to commit it, leaves the fence.
LEMMA CommitShutdownMove ==
    ASSUME FenceInv, OneAtATime, CommitShutdown
    PROVE  GateMove
  <1>0. TypeOK /\ WorkerStep /\ worker \in WorkerStates /\ rpc \in [Rpc -> RpcStates]
    BY DEF WorkerStep, FenceInv, HandInv, GateInv, PermitInv, TypeOK
  <1>1. /\ worker.pc = "commit" /\ worker.item \in Rpc
        /\ rpc[worker.item].method = "shutdown" /\ UNCHANGED fenced
    BY DEF CommitShutdown, Runs, FenceInv, HandInv, GateInv, PermitInv, ItemInHand, CommandSteps
  <1>2. rpc[worker.item].pc \in Given
    BY <1>1 DEF FenceInv, HandInv, CommandsOnce, CommandSteps
  <1>3. CASE /\ Listening(worker.item) /\ Complete(worker.item, "accepted")
             /\ worker' = [worker EXCEPT !.pc = "flush"] /\ UNCHANGED ctl
    <2>1. worker'.pc = "flush" /\ worker'.item = worker.item
      BY <1>0, <1>3 DEF WorkerStates
    <2>2. \A s \in Rpc : rpc'[s].method = rpc[s].method
      BY <1>0, WorkerKeepsRequests
    <2>3. \A s \in Rpc \ {worker.item} : rpc'[s] = rpc[s]
      BY <1>0, <1>1, <1>3, CompleteKeeps DEF Replies
    <2>4. Fencing(worker.item) /\ Fencing(worker.item)'
      BY <1>1, <1>3, <2>1, <2>2 DEF Fencing, Listening, Before
    <2>5. \A s \in Rpc \ {worker.item} : Fencing(s)' <=> Fencing(s)
      BY <1>1, <2>1, <2>3 DEF Fencing
    <2> QED
      BY <1>1, <1>3, <2>4, <2>5 DEF GateMove, SameFences
  <1>4. CASE /\ ~Listening(worker.item) /\ worker' = Idle /\ UNCHANGED rpc
             /\ ctl' = RestoreShutdownPhase(ctl, rpc[worker.item].held)
    <2>1. Undecided(worker.item) /\ ~Fencing(worker.item)
      BY <1>1, <1>2, <1>4 DEF Undecided, InHand, CommandSteps, Fencing, Listening, Given,
         Answering, Before
    <2>2. \A s \in Rpc : ~Fencing(s)
      BY <1>1, <2>1 DEF OneAtATime, Undecided, Fencing, InHand, CommandSteps
    <2>3. ctl' = ctl
      BY <1>4, <2>2 DEF FenceInv, FenceHeld, RestoreShutdownPhase
    <2>4. SameFences
      BY <1>0, <1>1, <1>4, QuietFences, WorkerSameSide DEF Idle, FenceInv
    <2> QED
      BY <1>1, <2>3, <2>4 DEF GateMove
  <1>5. CASE (\E reply \in {"refused", "error"} : Finish(worker.item, reply)) /\ UNCHANGED ctl
    <2>1. \A s \in Rpc : SameSide(s)
      BY <1>0, <1>1, <1>5, WorkerSameSide DEF Finish, FenceInv
    <2>2. worker'.pc = "idle"
      BY <1>5 DEF Finish, Idle
    <2>3. SameFences
      BY <1>0, <1>1, <2>1, <2>2, QuietFences
    <2> QED
      BY <1>1, <1>5, <2>3 DEF GateMove
  <1> QED
    BY <1>3, <1>4, <1>5 DEF CommitShutdown

\* An activation that is given up goes back to the quiesced gate.
LEMMA CancelMove ==
    ASSUME HandInv, ctl' = CancelActivation(ctl, worker.claim), ctl.phase = "Activating"
    PROVE  ctl'.phase = "Quiescing"
  BY DEF HandInv, GateInv, ActivationOwned, CancelActivation, OwnsActivation, Advance

\* The worker moves the gate so.
LEMMA WorkerStepMove ==
    ASSUME FenceInv, OneAtATime, WorkerStep
    PROVE  GateMove
  <1>0. /\ HandInv /\ TypeOK /\ ItemInHand /\ worker \in WorkerStates
        /\ rpc \in [Rpc -> RpcStates]
    BY DEF FenceInv, HandInv, GateInv, PermitInv, TypeOK
  <1>m. \A s \in Rpc : rpc'[s].method = rpc[s].method
    BY <1>0, WorkerKeepsRequests
  <1>1. CASE TakeIngress \/ FinishIngress \/ TakeCommand \/ BeginRuntimeDrain
             \/ DrainRuntime \/ CountRuntime \/ CommitDrain
    <2>1. worker.pc \notin {"flush", "stopped"} /\ UNCHANGED <<ctl, fenced>>
      BY <1>1 DEF TakeIngress, FinishIngress, TakeCommand, BeginRuntimeDrain,
             DrainRuntime, CountRuntime, CommitDrain, Runs
    <2>2. worker'.pc \notin {"flush", "stopped"}
      BY <1>0, <1>1, WorkerNextStep DEF FinishIngress, Idle
    <2>3. CASE CommitShutdown
      BY <2>3, CommitShutdownMove
    <2>4. CASE ~CommitShutdown
      <3>1. SameFences
        BY <1>0, <2>1, <2>2, <2>4, QuietFences, WorkerSameSide
      <3> QED
        BY <2>1, <3>1 DEF GateMove
    <2> QED
      BY <2>3, <2>4
  <1>2. CASE CommitShutdown
    BY <1>2, CommitShutdownMove
  <1>3. CASE BeginUnquiesce
    <2>1. worker.pc = "begin" /\ UNCHANGED fenced
      BY <1>3 DEF BeginUnquiesce, Runs
    <2>2. worker'.pc \in {"idle", "reconcile"}
      BY <1>0, <1>3, WorkerNextStep
    <2>3. ~CommitShutdown
      BY <2>1 DEF CommitShutdown, Runs
    <2>4. SameFences
      BY <1>0, <2>1, <2>2, <2>3, QuietFences, WorkerSameSide
    <2>5. ctl' = ctl \/ (ctl.phase = "Quiescing" /\ ctl' = BeginActivation(ctl))
      BY <1>3 DEF BeginUnquiesce
    <2> QED
      BY <2>1, <2>4, <2>5 DEF GateMove
  <1>4. CASE Reconcile
    <2>1. /\ worker.pc = "reconcile" /\ UNCHANGED fenced /\ worker.item \in Rpc
          /\ rpc[worker.item].method = "unquiesce"
      BY <1>0, <1>4 DEF Reconcile, ItemInHand, CommandSteps, HandInv, GateInv, FlushPrepared
    <2>2. /\ worker'.pc \in {"idle", "flush"}
          /\ worker'.pc = "flush" => worker'.item = worker.item
      BY <1>0, <1>4 DEF Reconcile, Finish, Idle, WorkerStates
    <2>3. \A s \in Rpc : SameSide(s)
      BY <1>0, <2>1, WorkerSameSide DEF CommitShutdown, Runs
    <2>4. SameFences
      BY <1>m, <2>1, <2>2, <2>3 DEF SameFences, Fencing, SameSide
    <2>5. ctl.phase = "Activating"
      BY <1>0, <2>1 DEF HandInv, NotOvertaken
    <2>6. ctl' = ctl \/ ctl' = CancelActivation(ctl, worker.claim)
      BY <1>4 DEF Reconcile
    <2> QED
      BY <1>0, <2>1, <2>4, <2>5, <2>6, CancelMove DEF GateMove
  <1>5. CASE Flushed \/ FlushFailed
    <2>1. /\ worker.pc = "flush" /\ worker.item \in Rpc /\ rpc' = rpc
          /\ rpc[worker.item].pc \in Answering
      BY <1>0, <1>5 DEF Flushed, FlushFailed, ItemInHand, CommandSteps, HandInv, GateInv,
         FlushPrepared, Answering
    <2>2. CASE rpc[worker.item].method = "unquiesce"
      <3>1. /\ ctl.phase = "Activating" /\ worker.item \notin outdated
            /\ worker.claim = [generation |-> ctl.generation, since |-> ctl.since]
        BY <1>0, <2>1, <2>2 DEF HandInv, NotOvertaken, GateInv, ActivationOwned
      <3>2. worker' = Idle
        BY <1>5, <2>2 DEF Flushed, FlushFailed
      <3>3. SameFences
        BY <2>1, <2>2, <3>2 DEF SameFences, Fencing, Idle
      <3>4. CASE Flushed
        <4>1. /\ ctl' = CompleteActivation(ctl, worker.claim.generation, now)
              /\ fenced' = (fenced /\ worker.item \in outdated)
          BY <2>2, <3>4 DEF Flushed
        <4>2. ctl'.phase = "Active"
          BY <3>1, <4>1 DEF CompleteActivation, OwnsActivation, Advance
        <4>3. ~fenced'
          BY <3>1, <4>1
        <4> QED
          BY <3>1, <3>3, <4>2, <4>3 DEF GateMove
      <3>5. CASE FlushFailed
        <4>1. ctl'.phase = "Quiescing" /\ UNCHANGED fenced
          BY <1>0, <2>2, <3>1, <3>5, CancelMove DEF FlushFailed
        <4> QED
          BY <3>1, <3>3, <4>1 DEF GateMove
      <3> QED
        BY <1>5, <3>4, <3>5
    <2>3. CASE rpc[worker.item].method = "shutdown"
      <3>1. Fencing(worker.item) /\ Undecided(worker.item)
        BY <2>1, <2>3 DEF Fencing, Undecided, InHand, CommandSteps
      <3>2. CASE Flushed
        <4>1. worker' = [worker EXCEPT !.pc = "stopped"] /\ UNCHANGED <<ctl, fenced>>
          BY <2>3, <3>2 DEF Flushed
        <4>2. worker'.pc = "stopped" /\ worker'.item = worker.item
          BY <1>0, <4>1 DEF WorkerStates
        <4>3. SameFences
          BY <2>1, <4>2 DEF SameFences, Fencing
        <4> QED
          BY <4>1, <4>3 DEF GateMove
      <3>3. CASE FlushFailed
        <4>1. /\ worker' = Idle /\ UNCHANGED fenced
              /\ ctl' = RestoreShutdownPhase(ctl, rpc[worker.item].held)
          BY <2>3, <3>3 DEF FlushFailed
        <4>2. \A s \in Rpc \ {worker.item} : rpc[s].method = "shutdown" => rpc[s].pc \notin Before
          BY <2>1, <3>1 DEF OneAtATime, Undecided
        <4>3. \A s \in Rpc : ~Fencing(s)'
          BY <2>1, <4>1, <4>2 DEF Fencing, Idle, Answering, Before
        <4> QED
          BY <2>1, <3>1, <4>1, <4>3 DEF GateMove
      <3> QED
        BY <1>5, <3>2, <3>3
    <2> QED
      BY <1>5, <2>2, <2>3 DEF Flushed, FlushFailed
  <1> QED
    BY <1>1, <1>2, <1>3, <1>4, <1>5 DEF WorkerStep

\* So does every step.
LEMMA StepMove ==
    ASSUME FenceInv, OneAtATime, [Next]_vars
    PROVE  GateMove
  <1>1. CASE \E r \in Rpc : RpcStep(r)
    BY <1>1, RpcStepMove
  <1>2. CASE WorkerStep
    BY <1>2, WorkerStepMove
  <1>3. CASE Tick \/ Gone \/ (\E i \in Ing : IngressStep(i)) \/ UNCHANGED vars
    <2>1. UNCHANGED <<ctl, rpc, worker, fenced>>
      BY <1>3 DEF Tick, Gone, IngressStep, Receive, Admit, SendIngress, IngressTimeout, vars
    <2> QED
      BY <2>1 DEF GateMove, SameFences, Fencing
  <1>4. CASE WorkerExit
    <2>1. UNCHANGED <<ctl, rpc, fenced>> /\ worker.pc = "idle" /\ worker'.pc = "exited"
      BY <1>4 DEF WorkerExit, FenceInv, HandInv, GateInv, PermitInv, TypeOK, WorkerStates
    <2> QED
      BY <2>1 DEF GateMove, SameFences, Fencing
  <1> QED
    BY <1>1, <1>2, <1>3, <1>4 DEF Next

\* A request keeps what it holds once it is on its way.
LEMMA HeldKept ==
    ASSUME HandInv, [Next]_vars, NEW r \in Rpc, rpc[r].pc # "idle"
    PROVE  /\ rpc'[r].held = rpc[r].held /\ rpc'[r].method = rpc[r].method
           /\ rpc'[r].pc # "idle"
  <1>0. TypeOK /\ ItemInHand
    BY DEF HandInv, GateInv, PermitInv
  <1>1. CASE \E s \in Rpc : RpcStep(s)
    <2>1. PICK s \in Rpc : RpcStep(s)
      BY <1>1
    <2>2. RpcEffect(s) /\ \A t \in Rpc \ {s} : rpc'[t] = rpc[t]
      BY <1>0, <2>1, RpcStepDetail, RpcStepEffect
    <2>3. rpc'[s].method = rpc[s].method
      BY <1>0, <2>1, RpcStepEffect
    <2> QED
      BY <2>2, <2>3 DEF RpcEffect
  <1>2. CASE WorkerStep
    <2>1. rpc' = rpc \/ \E reply \in Replies, s \in Rpc : Complete(s, reply)
      BY <1>0, <1>2, WorkerPlaces DEF ItemInHand, Replies
    <2> QED
      BY <1>0, <2>1, CompleteKeeps
  <1>3. Tick \/ WorkerExit \/ Gone \/ (\E i \in Ing : IngressStep(i)) => UNCHANGED rpc
    BY DEF Tick, WorkerExit, Gone, IngressStep, Receive, Admit, SendIngress,
           IngressTimeout, vars
  <1> QED
    BY <1>1, <1>2, <1>3 DEF Next, vars

\* Who fences the gate is on its way.
LEMMA FencingIsBusy ==
    ASSUME HandInv, StoppedByShutdown, NEW r \in Rpc, Fencing(r)
    PROVE  rpc[r].pc # "idle"
  BY DEF HandInv, GateInv, FlushPrepared, StoppedByShutdown, Fencing, Before

\* A worker stops only from the flush of a shutdown.
LEMMA StopStays ==
    ASSUME FenceInv, [Next]_vars
    PROVE  /\ StoppedByShutdown'
           /\ worker.pc = "stopped" => UNCHANGED vars
  <1>0. TypeOK /\ ItemInHand /\ worker \in WorkerStates
    BY DEF FenceInv, HandInv, GateInv, PermitInv, TypeOK
  <1>1. worker.pc = "stopped" => UNCHANGED vars
    BY RpcStepRuns DEF Next, Tick, WorkerExit, Gone, IngressStep, Receive, Admit,
       SendIngress, IngressTimeout, Running, WorkerStep, TakeIngress, FinishIngress,
       TakeCommand, BeginRuntimeDrain, DrainRuntime, CountRuntime, CommitDrain,
       CommitShutdown, BeginUnquiesce, Reconcile, Flushed, FlushFailed, Runs
  <1>2. CASE UNCHANGED vars
    BY <1>2 DEF FenceInv, StoppedByShutdown, vars
  <1>3. CASE worker'.pc = "stopped" /\ worker.pc # "stopped" /\ Next
    <2>1. CASE Running
      <3>1. Flushed /\ rpc[worker.item].method = "shutdown"
        BY <1>3, <2>1, OnlyFlushedCommits DEF FenceInv, HandInv
      <3>2. /\ worker' = [worker EXCEPT !.pc = "stopped"] /\ rpc' = rpc
            /\ worker.pc = "flush" /\ rpc[worker.item].pc = "sent"
        BY <3>1 DEF Flushed, ResponseFlushed
      <3>3. worker'.item = worker.item /\ worker.item \in Rpc
        BY <1>0, <3>2 DEF WorkerStates, ItemInHand, CommandSteps
      <3> QED
        BY <3>1, <3>2, <3>3 DEF StoppedByShutdown
    <2>2. CASE ~Running
      <3>1. worker.pc = "exited"
        BY <1>3, <2>2 DEF Running
      <3>2. UNCHANGED worker
        BY <1>3, <3>1, RpcStepRuns DEF Next, Tick, WorkerExit, Gone, IngressStep, Receive,
           Admit, SendIngress, IngressTimeout, Running, WorkerStep, TakeIngress,
           FinishIngress, TakeCommand, BeginRuntimeDrain, DrainRuntime, CountRuntime,
           CommitDrain, CommitShutdown, BeginUnquiesce, Reconcile, Flushed, FlushFailed,
           Runs, vars
      <3> QED
        BY <1>3, <3>1, <3>2
    <2> QED
      BY <2>1, <2>2
  <1> QED
    BY <1>1, <1>2, <1>3 DEF StoppedByShutdown

\* Every step keeps the fences.
LEMMA FenceNext == FenceInv /\ OneAtATime /\ [Next]_vars => FenceInv'
  <1> SUFFICES ASSUME FenceInv, OneAtATime, [Next]_vars PROVE FenceInv'
    OBVIOUS
  <1>0. HandInv' /\ StoppedByShutdown' /\ GateMove
    BY HandNext, StopStays, StepMove DEF FenceInv
  <1>1. CASE UNCHANGED vars
    BY <1>0, <1>1 DEF FenceInv, FenceHeld, Fencing, QuiesceHolds, vars
  <1>2. CASE worker.pc # "stopped"
    <2>1. \A r \in Rpc : Fencing(r) => rpc'[r].held = rpc[r].held
      BY <1>2, HeldKept, FencingIsBusy DEF FenceInv
    <2>2. /\ ctl.phase = "ShuttingDown" => \E r \in Rpc : Fencing(r)
          /\ \A r \in Rpc : Fencing(r) =>
                /\ ctl.phase = "ShuttingDown"
                /\ rpc[r].held.generation + 1 = ctl.generation
                /\ fenced => rpc[r].held.phase # "Active"
          /\ fenced => ctl.phase # "Active"
      BY DEF FenceInv, FenceHeld, QuiesceHolds
    <2>3. CASE SameFences /\ ctl' = ctl /\ (fenced' => fenced)
      BY <1>0, <2>1, <2>2, <2>3 DEF FenceInv, FenceHeld, QuiesceHolds, SameFences
    <2>4. CASE /\ SameFences /\ ctl.phase # "ShuttingDown"
               /\ ctl'.phase \in {"Quiescing", "Activating", "Active"}
               /\ fenced' => ctl'.phase # "Active"
      <3>1. \A r \in Rpc : ~Fencing(r)'
        BY <2>2, <2>4 DEF SameFences
      <3> QED
        BY <1>0, <2>4, <3>1 DEF FenceInv, FenceHeld, QuiesceHolds
    <2>5. ASSUME NEW r \in Rpc,
                 CanFence(ctl), ctl' = BeginShutdown(ctl, now), UNCHANGED fenced,
                 rpc'[r].held = ctl, rpc'[r].method = "shutdown", rpc'[r].pc = "waitDrain",
                 \A s \in Rpc \ {r} : Fencing(s)' <=> Fencing(s)
          PROVE  FenceInv'
      <3>1. \A s \in Rpc \ {r} : ~Fencing(s)'
        BY <2>2, <2>5 DEF CanFence
      <3>2. Fencing(r)'
        BY <2>5 DEF Fencing, Before
      <3>3. ctl'.phase = "ShuttingDown" /\ ctl'.generation = ctl.generation + 1
        BY <2>5, GatePhases, NextGeneration
      <3> QED
        BY <1>0, <2>2, <2>5, <3>1, <3>2, <3>3 DEF FenceInv, FenceHeld, QuiesceHolds
    <2>6. ASSUME NEW r \in Rpc,
                 Fencing(r), ctl' = RestoreShutdownPhase(ctl, rpc[r].held),
                 UNCHANGED fenced, \A s \in Rpc : ~Fencing(s)'
          PROVE  FenceInv'
      <3>1. ctl'.phase = rpc[r].held.phase
        BY <2>2, <2>6 DEF RestoreShutdownPhase, Advance
      <3>2. ctl'.phase # "ShuttingDown"
        BY <3>1 DEF FenceInv, HandInv, GateInv, HeldOpen
      <3> QED
        BY <1>0, <2>2, <2>6, <3>1, <3>2 DEF FenceInv, FenceHeld, QuiesceHolds
    <2>7. CASE SameFences /\ CanFence(ctl) /\ ctl' = BeginQuiesce(ctl, now)
      BY <2>4, <2>7, GatePhases DEF CanFence
    <2>8. CASE /\ SameFences
               /\ \/ ctl.phase = "Quiescing" /\ ctl' = BeginActivation(ctl) /\ UNCHANGED fenced
                  \/ ctl.phase = "Activating" /\ ctl'.phase = "Active" /\ ~fenced'
                  \/ ctl.phase = "Activating" /\ ctl'.phase = "Quiescing" /\ UNCHANGED fenced
      BY <2>4, <2>8, GatePhases
    <2> QED
      BY <1>0, <2>3, <2>5, <2>6, <2>7, <2>8 DEF GateMove
  <1> QED
    BY <1>1, <1>2, StopStays

\* The fences are as said in every state, of every run with no two undecided
\* shutdowns.
LEMMA FenceInvariant == Spec /\ []OneAtATime => []FenceInv
  BY FenceInit, FenceNext, PTL DEF Spec

\* A gate that is quiesced stays so until an unquiesce prepared after the quiesce
\* commits: no older unquiesce and no refused shutdown opens it.
THEOREM QuiesceIsHeld == Spec /\ []OneAtATime => []QuiesceHolds
  BY FenceInvariant, PTL DEF FenceInv

\* The gate is shut for as long as a shutdown request is undecided, and a worker
\* stops only from a gate that is shut.
THEOREM ShutdownIsHeld == Spec /\ []OneAtATime => []ShutdownHeld
  <1>1. FenceInv => ShutdownHeld
    BY DEF FenceInv, FenceHeld, StoppedByShutdown, Fencing, Before, ShutdownHeld
  <1> QED
    BY <1>1, FenceInvariant, PTL

-----------------------------------------------------------------------------
(* When there is at most one undecided shutdown.                           *)

SingleShutdown ==
    \A plan \in Plans : \A r, s \in Rpc : plan[r] = "shutdown" /\ plan[s] = "shutdown" => r = s

Planned == \E plan \in Plans : \A r \in Rpc : rpc[r].method = plan[r]

\* A request keeps the method its plan gives it.
LEMMA PlannedInvariant == Spec => [](GateInv /\ Planned)
  <1>1. Init => GateInv /\ Planned
    <2>1. Init => Planned
      BY DEF Init, Planned
    <2> QED
      BY <2>1, GateInvInit
  <1>2. GateInv /\ Planned /\ [Next]_vars => (GateInv /\ Planned)'
    <2> SUFFICES ASSUME GateInv, Planned, [Next]_vars PROVE GateInv' /\ Planned'
      OBVIOUS
    <2>0. GateInv' /\ TypeOK
      BY GateInvNext DEF GateInv, PermitInv
    <2>1. \A r \in Rpc : rpc'[r].method = rpc[r].method
      <3>1. CASE \E s \in Rpc : RpcStep(s)
        <4>1. PICK s \in Rpc : RpcStep(s)
          BY <3>1
        <4> QED
          BY <2>0, <4>1, RpcStepEffect
      <3>2. CASE WorkerStep
        BY <2>0, <3>2, WorkerKeepsRequests
      <3>3. Tick \/ WorkerExit \/ Gone \/ (\E i \in Ing : IngressStep(i)) => UNCHANGED rpc
        BY DEF Tick, WorkerExit, Gone, IngressStep, Receive, Admit, SendIngress,
               IngressTimeout, vars
      <3> QED
        BY <3>1, <3>2, <3>3 DEF Next, vars
    <2> QED
      BY <2>0, <2>1 DEF Planned
  <1> QED
    BY <1>1, <1>2, PTL DEF Spec

\* If no plan of requests has two shutdowns, no two are undecided: the theorems
\* below and above then hold without a further hypothesis.
THEOREM OneShutdownSuffices == SingleShutdown => (Spec => []OneAtATime)
  <1> SUFFICES ASSUME SingleShutdown PROVE Spec => []OneAtATime
    OBVIOUS
  <1>1. GateInv /\ Planned => OneAtATime
    BY DEF SingleShutdown, Planned, OneAtATime, Undecided
  <1> QED
    BY <1>1, PlannedInvariant, PTL

-----------------------------------------------------------------------------
(* The backlog of a worker that stops.                                     *)

\* From the count of the runtime on, the worker is about to commit a shutdown.
Committing ==
    \/ worker.pc \in {"flush", "stopped"} /\ rpc[worker.item].method = "shutdown"
    \/ /\ worker.pc = "commit" /\ ~worker.left
       /\ rpc[worker.item].method = "shutdown" /\ rpc[worker.item].pc = "await"

InBacklog(i) == i \in Stamped /\ ingress[i].at <= ctl.since

Backlog == Committing => \A i \in Ing : HoldsPermit(i) => InBacklog(i)

\* Who is about to commit is the one that fences the gate.
LEMMA CommittingFences ==
    ASSUME ItemInHand, StoppedByShutdown, Committing
    PROVE  worker.item \in Rpc /\ Fencing(worker.item)
  BY DEF ItemInHand, StoppedByShutdown, Committing, Fencing, CommandSteps, Before

\* Only an admission gives a permit.
LEMMA PermitGiven ==
    ASSUME TypeOK, QueuedOnce, [Next]_vars, NEW i \in Ing, HoldsPermit(i)'
    PROVE  /\ ingress'[i].at = ingress[i].at
           /\ HoldsPermit(i) \/ Admits(ctl, i \in Stamped, ingress[i].at)
  <1>0. ingress \in [Ing -> IngressStates]
    BY DEF TypeOK
  <1>1. CASE \E j \in Ing : IngressStep(j)
    <2>1. PICK j \in Ing : IngressStep(j)
      BY <1>1
    <2>2. CASE Receive(j)
      BY <1>0, <2>2 DEF Receive, HoldsPermit, IngressStates
    <2>3. CASE Admit(j)
      BY <1>0, <2>3 DEF Admit, HoldsPermit, IngressStates
    <2>4. CASE SendIngress(j)
      BY <1>0, <2>4 DEF SendIngress, HoldsPermit, IngressStates
    <2>5. CASE IngressTimeout(j)
      BY <1>0, <2>5 DEF IngressTimeout, HoldsPermit, IngressStates
    <2> QED
      BY <2>1, <2>2, <2>3, <2>4, <2>5 DEF IngressStep
  <1>2. CASE FinishIngress
    BY <1>0, <1>2 DEF FinishIngress, HoldsPermit, IngressStates, QueuedOnce
  <1>3. CASE UNCHANGED ingress
    BY <1>3 DEF HoldsPermit
  <1>4. ((\E r \in Rpc : RpcStep(r)) \/ (WorkerStep /\ ~FinishIngress)
         \/ Tick \/ WorkerExit \/ Gone \/ UNCHANGED vars) => UNCHANGED ingress
    BY DEF RpcStep, Quiesce, BeginDrain, Shutdown, PrepareUnquiesce, Drained, DrainTimeout,
           Enqueue, Age, RequestTimeout, TakeRefusal, WriteResponse, WorkerStep,
           TakeIngress, TakeCommand, BeginRuntimeDrain, DrainRuntime, CountRuntime,
           CommitDrain, CommitShutdown, BeginUnquiesce, Reconcile, Flushed, FlushFailed,
           Tick, WorkerExit, Gone, vars
  <1> QED
    BY <1>1, <1>2, <1>3, <1>4 DEF Next

\* A commit begins with a count that finds no permit.
LEMMA CommitBegins ==
    ASSUME FenceInv, [Next]_vars, ~Committing, Committing'
    PROVE  \A i \in Ing : ~HoldsPermit(i)'
  <1>0. /\ TypeOK /\ ItemInHand /\ ItemInHand' /\ StoppedByShutdown'
        /\ worker \in WorkerStates /\ rpc \in [Rpc -> RpcStates]
    BY HandNext, StopStays DEF FenceInv, HandInv, GateInv, PermitInv, TypeOK
  <1>1. worker'.pc \in {"flush", "stopped", "commit"} /\ worker'.item \in Rpc
    BY <1>0 DEF Committing, ItemInHand, CommandSteps, StoppedByShutdown
  <1>2. CASE \E r \in Rpc : RpcStep(r)
    <2>1. PICK r \in Rpc : RpcStep(r)
      BY <1>2
    <2>2. /\ UNCHANGED worker /\ \A s \in Rpc \ {r} : rpc'[s] = rpc[s]
          /\ rpc'[r].method = rpc[r].method
          /\ rpc[r].pc \in Answering => rpc'[r].pc \in Answering
      BY <1>0, <2>1, RpcStepEffect
    <2>3. worker.pc = "commit" => rpc[worker.item].pc \in Given
      BY DEF FenceInv, HandInv, CommandsOnce, CommandSteps
    <2> QED
      BY <1>1, <2>2, <2>3 DEF Committing, Given, Answering
  <1>3. CASE WorkerStep
    <2>1. \A s \in Rpc : rpc'[s].method = rpc[s].method
      BY <1>0, <1>3, WorkerKeepsRequests
    <2>2. CASE worker'.pc = "stopped"
      <3>1. Flushed \/ FlushFailed
        BY <1>0, <1>3, <2>2, WorkerNextStep DEF WorkerStep, FinishIngress, Idle
      <3>2. worker' = [worker EXCEPT !.pc = "stopped"] /\ worker.pc = "flush"
        <4>1. worker' # Idle
          BY <2>2 DEF Idle
        <4> QED
          BY <3>1, <4>1 DEF Flushed, FlushFailed
      <3>3. worker'.item = worker.item
        BY <1>0, <3>2 DEF WorkerStates
      <3> QED
        BY <1>1, <2>1, <2>2, <3>2, <3>3 DEF Committing
    <2>3. CASE worker'.pc = "flush"
      <3>1. CommitShutdown \/ Reconcile
        BY <1>0, <1>3, <2>3, WorkerNextStep DEF WorkerStep, FinishIngress, Idle
      <3>2. worker' = [worker EXCEPT !.pc = "flush"]
        BY <2>3, <3>1 DEF CommitShutdown, Reconcile, Finish, Idle
      <3>3. worker'.item = worker.item
        BY <1>0, <3>2 DEF WorkerStates
      <3>4. CASE CommitShutdown
        <4>1. /\ worker.pc = "commit" /\ ~worker.left /\ Listening(worker.item)
              /\ rpc[worker.item].method = "shutdown"
          BY <2>3, <3>4 DEF CommitShutdown, Runs, Finish, Idle
        <4> QED
          BY <4>1 DEF Committing, Listening
      <3>5. CASE Reconcile
        <4>1. rpc[worker.item].method = "unquiesce"
          BY <3>5 DEF Reconcile, FenceInv, HandInv, GateInv, FlushPrepared
        <4> QED
          BY <1>1, <2>1, <2>3, <3>3, <4>1 DEF Committing
      <3> QED
        BY <3>1, <3>4, <3>5
    <2>4. CASE worker'.pc = "commit"
      <3>1. CountRuntime
        BY <1>0, <1>3, <2>4, WorkerNextStep DEF WorkerStep, FinishIngress, Idle, CommitDrain,
           Finish
      <3>2. PICK runtime \in BOOLEAN :
              worker' = [worker EXCEPT !.pc = "commit", !.left = runtime \/ inFlight > 0]
        BY <3>1 DEF CountRuntime
      <3>3. worker'.left = (runtime \/ inFlight > 0)
        BY <1>0, <3>2 DEF WorkerStates
      <3>4. ~worker'.left
        BY <2>4 DEF Committing
      <3>5. inFlight = 0 /\ UNCHANGED ingress
        <4>1. ~(inFlight > 0)
          BY <3>3, <3>4
        <4> QED
          BY <1>0, <3>1, <4>1 DEF CountRuntime, TypeOK
      <3>6. Cardinality(Permits) = 0 /\ IsFiniteSet(Permits)
        BY <3>5, PermitsFinite DEF FenceInv, HandInv, GateInv, PermitInv, PermitsCounted, Permits
      <3>7. Permits = {}
        BY <3>6, FS_EmptySet
      <3> QED
        BY <3>5, <3>7 DEF Permits, HoldsPermit
    <2> QED
      BY <1>1, <2>2, <2>3, <2>4
  <1>4. CASE Tick \/ Gone \/ (\E i \in Ing : IngressStep(i)) \/ UNCHANGED vars
    <2>1. UNCHANGED <<rpc, worker>>
      BY <1>4 DEF Tick, Gone, IngressStep, Receive, Admit, SendIngress, IngressTimeout, vars
    <2> QED
      BY <2>1 DEF Committing
  <1>5. CASE WorkerExit
    <2>1. worker'.pc = "exited"
      BY <1>0, <1>5 DEF WorkerExit, WorkerStates
    <2> QED
      BY <1>1, <2>1
  <1> QED
    BY <1>2, <1>3, <1>4, <1>5 DEF Next

\* Every step keeps the backlog of a worker that is about to stop.
LEMMA BacklogNext == FenceInv /\ Backlog /\ OneAtATime /\ [Next]_vars => Backlog'
  <1> SUFFICES ASSUME FenceInv, Backlog, OneAtATime, [Next]_vars, Committing',
                      NEW i \in Ing, HoldsPermit(i)'
               PROVE  InBacklog(i)'
    BY DEF Backlog
  <1>0. FenceInv' /\ GateMove
    BY FenceNext, StepMove
  <1>1. Committing
    BY CommitBegins
  <1>2. /\ ingress'[i].at = ingress[i].at
        /\ HoldsPermit(i) \/ Admits(ctl, i \in Stamped, ingress[i].at)
    BY PermitGiven DEF FenceInv, HandInv, GateInv, PermitInv
  <1>3. worker.item \in Rpc /\ Fencing(worker.item)
    BY <1>1, CommittingFences DEF FenceInv, HandInv, GateInv, PermitInv
  <1>4. \E r \in Rpc : Fencing(r)'
    <2>1. ItemInHand' /\ StoppedByShutdown'
      BY <1>0 DEF FenceInv, HandInv, GateInv, PermitInv
    <2>2. worker'.item \in Rpc
      BY <2>1 DEF ItemInHand, StoppedByShutdown, Committing, CommandSteps
    <2>3. ASSUME NEW r \in Rpc, r = worker'.item
          PROVE  Fencing(r)'
      BY <2>3 DEF Committing, Fencing, Before
    <2> QED
      BY <2>2, <2>3
  <1>5. ctl.phase = "ShuttingDown"
    BY <1>3 DEF FenceInv, FenceHeld
  <1>6. ctl' = ctl
    BY <1>0, <1>4, <1>5 DEF GateMove, CanFence
  <1>7. InBacklog(i)
    BY <1>1, <1>2, <1>5 DEF Backlog, Admits, ReceivedBeforeCutoff, InBacklog
  <1> QED
    BY <1>2, <1>6, <1>7 DEF InBacklog

\* An event that dies with a worker that accepted its shutdown was received before
\* the cutoff: admission under a fence lets nothing later in.
THEOREM NothingNewDies == Spec /\ []OneAtATime => []NothingNewIsLost
  <1>1. Init => Backlog
    BY DEF Init, Idle, Backlog, Committing
  <1>2. FenceInv /\ Backlog => NothingNewIsLost
    BY DEF FenceInv, StoppedByShutdown, Backlog, Committing, InBacklog, NothingNewIsLost
  <1> QED
    BY <1>1, <1>2, FenceInit, FenceNext, BacklogNext, PTL DEF Spec

-----------------------------------------------------------------------------
(* The lifecycle plane implements the admission gate.                      *)

\* Beneath a shutdown lies the phase that the request that fences the gate holds:
\* no other holds a state of the same generation.
LEMMA WhatLiesBeneath ==
    ASSUME FenceInv, NEW r \in Rpc, rpc[r].method = "shutdown", rpc[r].pc # "idle",
           rpc[r].held.generation + 1 = ctl.generation, ctl.phase = "ShuttingDown"
    PROVE  Beneath = rpc[r].held.phase
  <1>1. FenceOwner(r)
    BY DEF FenceOwner
  <1>2. ASSUME NEW s \in Rpc, FenceOwner(s)
        PROVE  rpc[s].held = rpc[r].held
    <2>1. rpc[s].held.generation \in Nat /\ rpc[r].held.generation \in Nat
      BY DEF FenceInv, HandInv, GateInv, PermitInv, TypeOK, RpcStates, ControlStates
    <2>2. rpc[s].held.generation = rpc[r].held.generation
      BY <1>2, <2>1 DEF FenceOwner
    <2> QED
      BY <2>2 DEF FenceInv, HandInv, HeldOnce
  <1> DEFINE owner == CHOOSE s \in Rpc : FenceOwner(s)
  <1>3. owner \in Rpc /\ FenceOwner(owner)
    BY <1>1
  <1>4. Beneath = rpc[owner].held.phase
    BY DEF Beneath
  <1> QED
    BY <1>2, <1>3, <1>4

FenceBeneath == \A r \in Rpc : Fencing(r) =>
                    ctl.phase = "ShuttingDown" /\ Beneath = rpc[r].held.phase

\* In particular for whom the gate is shut.
LEMMA BeneathFence == FenceInv => FenceBeneath
  <1> SUFFICES ASSUME FenceInv, NEW r \in Rpc, Fencing(r)
               PROVE  ctl.phase = "ShuttingDown" /\ Beneath = rpc[r].held.phase
    BY DEF FenceBeneath
  <1>1. /\ ctl.phase = "ShuttingDown" /\ rpc[r].method = "shutdown"
        /\ rpc[r].held.generation + 1 = ctl.generation
    BY DEF FenceInv, FenceHeld, Fencing
  <1>2. rpc[r].pc # "idle"
    BY FencingIsBusy DEF FenceInv
  <1> QED
    BY <1>1, <1>2, WhatLiesBeneath

\* A gate that is not shut lies on nothing else.
LEMMA NothingBeneath == ctl.phase # "ShuttingDown" => Beneath = ctl.phase
  BY DEF Beneath

\* Every step of the plane is a step of the gate, or leaves it alone.
LEMMA GateRefines ==
    ASSUME FenceInv, OneAtATime, [Next]_vars
    PROVE  [Gate!Next]_(Gate!gate)
  <1>0. FenceBeneath /\ FenceBeneath' /\ GateMove
    <2>1. FenceInv'
      BY FenceNext
    <2>2. FenceBeneath'
      BY <2>1, BeneathFence, PTL
    <2> QED
      BY <2>2, BeneathFence, StepMove
  <1>1. ctl'.phase # "ShuttingDown" => Beneath' = ctl'.phase
    BY DEF Beneath
  <1> USE DEF Gate!Next, Gate!Move, Gate!gate
  <1>2. CASE SameFences /\ ctl' = ctl
    <2>1. CASE ctl.phase # "ShuttingDown"
      BY <1>1, <1>2, <2>1, NothingBeneath
    <2>2. CASE ctl.phase = "ShuttingDown"
      <3>1. PICK r \in Rpc : Fencing(r)
        BY <2>2 DEF FenceInv, FenceHeld
      <3>2. Fencing(r)'
        BY <1>2, <3>1 DEF SameFences
      <3>3. Beneath' = rpc'[r].held.phase
        BY <1>0, <3>2 DEF FenceBeneath
      <3>4. rpc'[r].held = rpc[r].held
        BY <3>1, HeldKept, FencingIsBusy DEF FenceInv
      <3> QED
        BY <1>0, <1>2, <3>1, <3>3, <3>4 DEF FenceBeneath
    <2> QED
      BY <2>1, <2>2
  <1>3. CASE CanFence(ctl) /\ ctl' = BeginQuiesce(ctl, now)
    <2>1. ctl'.phase = "Quiescing" /\ Beneath' = "Quiescing"
      BY <1>1, <1>3, GatePhases
    <2> QED
      BY <1>3, <2>1 DEF CanFence, Gate!Quiesce
  <1>4. CASE ctl.phase = "Quiescing" /\ ctl' = BeginActivation(ctl)
    <2>1. ctl'.phase = "Activating" /\ Beneath' = "Activating"
      BY <1>1, <1>4, GatePhases
    <2> QED
      BY <1>4, <2>1 DEF Gate!Claim
  <1>5. CASE ctl.phase = "Activating" /\ ctl'.phase = "Active"
    BY <1>1, <1>5 DEF Gate!Commit
  <1>6. CASE ctl.phase = "Activating" /\ ctl'.phase = "Quiescing"
    BY <1>1, <1>6 DEF Gate!TakeBack
  <1>7. ASSUME NEW r \in Rpc,
               CanFence(ctl), ctl' = BeginShutdown(ctl, now), rpc'[r].held = ctl,
               rpc'[r].method = "shutdown", rpc'[r].pc = "waitDrain"
        PROVE  [Gate!Next]_(Gate!gate)
    <2>1. Fencing(r)'
      BY <1>7 DEF Fencing, Before
    <2>2. ctl'.phase = "ShuttingDown" /\ Beneath' = ctl.phase
      BY <1>0, <1>7, <2>1 DEF FenceBeneath
    <2> QED
      BY <1>7, <2>2 DEF CanFence, Gate!Fence
  <1>8. ASSUME NEW r \in Rpc, Fencing(r), ctl' = RestoreShutdownPhase(ctl, rpc[r].held)
        PROVE  [Gate!Next]_(Gate!gate)
    <2>1. ctl.phase = "ShuttingDown" /\ Beneath = rpc[r].held.phase
      BY <1>0, <1>8 DEF FenceBeneath
    <2>2. ctl'.phase = rpc[r].held.phase
      BY <1>8, <2>1 DEF RestoreShutdownPhase, Advance
    <2>3. ctl'.phase # "ShuttingDown"
      BY <2>2 DEF FenceInv, HandInv, GateInv, HeldOpen
    <2> QED
      BY <1>1, <2>1, <2>2, <2>3 DEF Gate!Release
  <1> QED
    BY <1>0, <1>2, <1>3, <1>4, <1>5, <1>6, <1>7, <1>8 DEF GateMove

\* The lifecycle plane implements the admission gate: it opens only by an activation
\* that commits, and a refused shutdown gives back the phase it found.
THEOREM PlaneIsAGate == Spec /\ []OneAtATime => GateSpec
  <1>1. Init => Gate!Init
    <2> SUFFICES ASSUME Init PROVE Gate!Init
      OBVIOUS
    <2>1. ctl.phase \in {"Active", "Quiescing"}
      BY DEF Init, NewControl
    <2> QED
      BY <2>1, NothingBeneath DEF Gate!Init
  <1>2. FenceInv /\ OneAtATime /\ [Next]_vars => [Gate!Next]_(Gate!gate)
    BY GateRefines
  <1> QED
    BY <1>1, <1>2, FenceInvariant, PTL DEF Spec, GateSpec, Gate!Spec
=============================================================================
