--------------------------- MODULE SupervisorProofs ---------------------------
(***************************************************************************)
(* Proofs about Supervisor, for any set of instances: any terms the host   *)
(* may grant, any number of starts and markers.                            *)
(***************************************************************************)
EXTENDS Supervisor, TLAPS

Idle == {"look", "pause", "ensure", "marker"} \cup Ends
Started == {"broker", "spawnWorker", "spawnSidecar", "health", "watch", "killWorker",
            "killSidecar"}

\* What there is, by the place of the supervisor in its run.
InPlace ==
    /\ sup.pc \in Idle \cup {"broker", "spawnWorker", "killSidecar", "stopLease",
                             "stopBroker"} => worker = "none"
    /\ sup.pc \in Idle \cup {"broker", "spawnWorker", "spawnSidecar", "stopLease",
                             "stopBroker"} => sidecar = "none"
    /\ sup.pc \in Idle \cup {"broker"} => broker = "none"
    /\ sup.pc \in Idle \cup {"stopBroker"} => task.pc = "none"
    /\ inst.plugin /\ sup.pc \in Started => task.pc # "none"

\* Without plugin mode there is no host.
HostInPlugin ==
    ~inst.plugin => /\ call.kind = "none" /\ ~lease.held /\ task.pc = "none"
                    /\ sup.pc \notin {"ensure", "broker"}

\* A call belongs to the wait of its caller, and its answer is no later than that.
CallInPlace ==
    /\ call.kind = "ensure" => sup.pc = "ensure" /\ call.late + sup.timer <= EnsureWait
    /\ call.kind = "refresh" => task.pc = "refresh" /\ call.late + task.timer <= ControlWait
    /\ call.kind = "stop" => task.pc = "stop" /\ call.late + task.timer <= ControlWait
    /\ call.at = "back" => call.kind # "none"
    /\ call.at = "back" /\ call.ok /\ call.kind # "stop" => call.granted \in inst.grants
    /\ task.pc = "plan" => task.granted \in inst.grants /\ task.late <= EnsureWait
    /\ task.pc = "sleep" => task.late <= EnsureWait

\* The strengthening that makes TypeOK and NoOrphans inductive.
ControlInv == TypeOK /\ InPlace /\ HostInPlugin /\ CallInPlace

\* The intervals of the supervisor, in numbers.
LEMMA Constants ==
    /\ Ttl = 24 /\ Interval = 6 /\ Margin = 1 /\ ControlWait = 1 /\ HelloWait = 1
    /\ EnsureWait = 5 /\ StopWait = 1 /\ HealthWait = 4 /\ PauseWait = 1
    /\ Bottom = -12 /\ Grace = 8
  BY DEF Ttl, Interval, Margin, ControlWait, HelloWait, EnsureWait, StopWait,
         HealthWait, PauseWait, Bottom, Grace

\* What an instance is.
LEMMA InstanceType ==
    ASSUME inst \in Instances
    PROVE  /\ inst.plugin \in BOOLEAN /\ inst.grants \subseteq Nat \ {0}
           /\ inst.runs \in Nat \ {0}
  BY InstanceAssumption

\* The supervisor, its task and its children begin in their places.
LEMMA ControlInvInit == Init => ControlInv
  <1> SUFFICES ASSUME Init PROVE ControlInv
    OBVIOUS
  <1>1. TypeOK
    BY InstanceType, Constants
       DEF Init, TypeOK, Sups, Tasks, Calls, Leases, Waits, Ends, NoCall
  <1> QED
    BY <1>1 DEF Init, ControlInv, InPlace, HostInPlugin, CallInPlace, Idle, Started,
      Ends, NoCall

\* What is known of the fields.
LEMMA Fields ==
    ASSUME TypeOK
    PROVE  /\ sup.timer \in 0..EnsureWait /\ sup.error \in BOOLEAN
           /\ sup.run \in 1..inst.runs
           /\ task.timer \in 0..Interval /\ task.granted \in Nat /\ task.late \in Nat
           /\ task.stop \in BOOLEAN
           /\ call.ok \in BOOLEAN /\ call.granted \in Nat /\ call.late \in 0..EnsureWait
           /\ lease.held \in BOOLEAN /\ lease.left \in Int
           /\ inst.grants \subseteq Nat \ {0} /\ inst.runs \in Nat \ {0}
  BY InstanceType DEF TypeOK, Sups, Tasks, Calls, Leases

\* A move of the supervisor to one of its places, with or without an error.
LEMMA Moves ==
    ASSUME TypeOK, UNCHANGED inst, NEW timer \in 0..EnsureWait,
           NEW pc \in {"look", "spawnWorker", "spawnSidecar", "killWorker", "killSidecar",
                       "stopBroker", "marker"} \cup Waits \cup Ends,
           Goto(pc, timer) \/ Fails(pc, timer)
    PROVE  sup' \in Sups'
  <1>1. CASE Goto(pc, timer)
    BY <1>1, Fields DEF Goto, Sups
  <1>2. CASE Fails(pc, timer)
    BY <1>2, Fields DEF Fails, Sups
  <1> QED
    BY <1>1, <1>2

\* A call that is sent, one that is done, and one that is given up.
LEMMA CallsMade ==
    ASSUME TypeOK
    PROVE  /\ \A kind \in {"none", "ensure", "refresh", "stop"} : Sends(kind) => call' \in Calls
           /\ call' = NoCall => call' \in Calls
           /\ GiveUp => call' \in Calls /\ lease' \in Leases
  <1>1. NoCall \in Calls
    BY Constants DEF NoCall, Calls
  <1>2. \A kind \in {"none", "ensure", "refresh", "stop"} : Sends(kind) => call' \in Calls
    BY <1>1 DEF Sends, Calls
  <1>3. \A g \in inst.grants : [held |-> TRUE, left |-> g] \in Leases
    BY Fields DEF Leases
  <1>4. [held |-> FALSE, left |-> 0] \in Leases
    BY DEF Leases
  <1> QED
    BY <1>1, <1>2, <1>3, <1>4 DEF GiveUp, TypeOK

\* The supervisor's own steps.
LEMMA SupervisorStepControl ==
    ASSUME ControlInv, SupervisorStep
    PROVE  ControlInv'
  <1> USE InstanceType, Fields, Constants DEF ControlInv
  <1>0. UNCHANGED <<inst, current, switch, asked>>
    BY DEF SupervisorStep
  <1>1. CASE EnsureSent
    <2> USE <1>0, <1>1 DEF EnsureSent, children, host
    <2>1. TypeOK'
      <3>1. Sends("ensure") => call' \in Calls
        BY CallsMade
      <3> QED
        BY <3>1 DEF TypeOK, Sups
    <2> USE DEF TypeOK, InPlace, Goto, Fails, ReturnsTo, Idle, Waits, Ends, NoCall, Sends
    <2>2. InPlace'
      BY DEF Started, Live
    <2>3. HostInPlugin'
      BY DEF HostInPlugin
    <2>4. CallInPlace'
      BY DEF CallInPlace
    <2> QED
      BY <2>1, <2>2, <2>3, <2>4
  <1>2. CASE Ensured
    <2> USE <1>0, <1>2 DEF Ensured, children, host
    <2>1. TypeOK'
      <3>1. task' \in Tasks
        <4>1. CASE call.ok
          <5>1. call.granted \in Nat /\ call.late \in Nat
            OBVIOUS
          <5>2. task' = [pc |-> "plan", timer |-> 0, granted |-> call.granted,
                         late |-> call.late, stop |-> FALSE]
            BY <4>1
          <5> HIDE <1>2 DEF Ensured
          <5>3. 0 \in 0..Interval
            OBVIOUS
          <5> QED
            BY <5>1, <5>2, <5>3 DEF Tasks
        <4>2. CASE ~call.ok
          BY <4>2 DEF TypeOK
        <4> QED
          BY <4>1, <4>2
      <3>2. sup' \in Sups'
        BY Moves DEF Waits, Ends
      <3> QED
        BY <3>1, <3>2, CallsMade DEF TypeOK, ReturnsTo
    <2> USE DEF TypeOK, InPlace, Goto, Fails, ReturnsTo, Idle, Waits, Ends, NoCall
    <2>2. InPlace'
      BY DEF Started, Live
    <2>3. HostInPlugin'
      BY DEF HostInPlugin
    <2>4. CallInPlace'
      BY DEF CallInPlace
    <2> QED
      BY <2>1, <2>2, <2>3, <2>4
  <1>3. CASE NotEnsured
    <2> USE <1>0, <1>3 DEF NotEnsured, children, host
    <2>1. TypeOK'
      BY Moves, CallsMade DEF TypeOK, GiveUp, ReturnsTo, Waits, Ends
    <2> USE DEF TypeOK, InPlace, Goto, Fails, ReturnsTo, Idle, Waits, Ends, NoCall, GiveUp
    <2>2. InPlace'
      BY DEF Started, Live
    <2>3. HostInPlugin'
      BY DEF HostInPlugin
    <2>4. CallInPlace'
      BY DEF CallInPlace
    <2> QED
      BY <2>1, <2>2, <2>3, <2>4
  <1>4. CASE StartBroker
    <2> USE <1>0, <1>4 DEF StartBroker, children, host
    <2>1. TypeOK'
      BY Moves, CallsMade DEF TypeOK, ReturnsTo, Waits, Ends
    <2> USE DEF TypeOK, InPlace, Goto, Fails, ReturnsTo, Idle, Waits, Ends, NoCall
    <2>2. InPlace'
      BY DEF Started, Live
    <2>3. HostInPlugin'
      BY DEF HostInPlugin
    <2>4. CallInPlace'
      BY DEF CallInPlace
    <2> QED
      BY <2>1, <2>2, <2>3, <2>4
  <1>5. CASE SpawnWorker
    <2> USE <1>0, <1>5 DEF SpawnWorker, children, host
    <2>1. TypeOK'
      BY Moves, CallsMade DEF TypeOK, ReturnsTo, Waits, Ends
    <2> USE DEF TypeOK, InPlace, Goto, Fails, ReturnsTo, Idle, Waits, Ends, NoCall
    <2>2. InPlace'
      BY DEF Started, Live
    <2>3. HostInPlugin'
      BY DEF HostInPlugin
    <2>4. CallInPlace'
      BY DEF CallInPlace
    <2> QED
      BY <2>1, <2>2, <2>3, <2>4
  <1>6. CASE SpawnSidecar
    <2> USE <1>0, <1>6 DEF SpawnSidecar, children, host
    <2>1. TypeOK'
      BY Moves, CallsMade DEF TypeOK, ReturnsTo, Waits, Ends
    <2> USE DEF TypeOK, InPlace, Goto, Fails, ReturnsTo, Idle, Waits, Ends, NoCall
    <2>2. InPlace'
      BY DEF Started, Live
    <2>3. HostInPlugin'
      BY DEF HostInPlugin
    <2>4. CallInPlace'
      BY DEF CallInPlace
    <2> QED
      BY <2>1, <2>2, <2>3, <2>4
  <1>7. CASE Healthy
    <2> USE <1>0, <1>7 DEF Healthy, children, host
    <2>1. TypeOK'
      BY Moves, CallsMade DEF TypeOK, ReturnsTo, Waits, Ends
    <2> USE DEF TypeOK, InPlace, Goto, Fails, ReturnsTo, Idle, Waits, Ends, NoCall
    <2>2. InPlace'
      BY DEF Started, Live
    <2>3. HostInPlugin'
      BY DEF HostInPlugin
    <2>4. CallInPlace'
      BY DEF CallInPlace
    <2> QED
      BY <2>1, <2>2, <2>3, <2>4
  <1>8. CASE Notice
    <2> USE <1>0, <1>8 DEF Notice, children, host
    <2>1. TypeOK'
      BY Moves, CallsMade DEF TypeOK, ReturnsTo, Waits, Ends
    <2> USE DEF TypeOK, InPlace, Goto, Fails, ReturnsTo, Idle, Waits, Ends, NoCall
    <2>2. InPlace'
      BY DEF Started, Live
    <2>3. HostInPlugin'
      BY DEF HostInPlugin
    <2>4. CallInPlace'
      BY DEF CallInPlace
    <2> QED
      BY <2>1, <2>2, <2>3, <2>4
  <1>9. CASE KillWorker
    <2> USE <1>0, <1>9 DEF KillWorker, children, host
    <2>1. TypeOK'
      BY Moves, CallsMade DEF TypeOK, ReturnsTo, Waits, Ends
    <2> USE DEF TypeOK, InPlace, Goto, Fails, ReturnsTo, Idle, Waits, Ends, NoCall
    <2>2. InPlace'
      BY DEF Started, Live
    <2>3. HostInPlugin'
      BY DEF HostInPlugin
    <2>4. CallInPlace'
      BY DEF CallInPlace
    <2> QED
      BY <2>1, <2>2, <2>3, <2>4
  <1>10. CASE KillSidecar
    <2> USE <1>0, <1>10 DEF KillSidecar, children, host
    <2>1. TypeOK'
      BY Moves, CallsMade DEF TypeOK, ReturnsTo, Waits, Ends
    <2> USE DEF TypeOK, InPlace, Goto, Fails, ReturnsTo, Idle, Waits, Ends, NoCall
    <2>2. InPlace'
      BY DEF Started, Live
    <2>3. HostInPlugin'
      BY DEF HostInPlugin
    <2>4. CallInPlace'
      BY DEF CallInPlace
    <2> QED
      BY <2>1, <2>2, <2>3, <2>4
  <1>11. CASE StopLease
    <2> USE <1>0, <1>11 DEF StopLease, children, host
    <2>1. TypeOK'
      <3>1. task' \in Tasks
        BY DEF TypeOK, Tasks
      <3>2. sup' \in Sups'
        BY Moves DEF Waits, Ends, TypeOK, Sups
      <3> QED
        BY <3>1, <3>2, CallsMade DEF TypeOK
    <2> USE DEF TypeOK, InPlace, Goto, Fails, ReturnsTo, Idle, Waits, Ends, NoCall, GiveUp
    <2>2. InPlace' /\ HostInPlugin' /\ CallInPlace'
      <3>1. CASE task' = [task EXCEPT !.stop = TRUE] /\ UNCHANGED <<sup, call, lease>>
        <4>1. /\ task'.pc = task.pc /\ task'.timer = task.timer
              /\ task'.granted = task.granted /\ task'.late = task.late
          BY <3>1 DEF Tasks
        <4>2. InPlace'
          BY <3>1, <4>1
        <4>3. HostInPlugin'
          BY <3>1, <4>1 DEF HostInPlugin
        <4>4. CallInPlace'
          BY <3>1, <4>1 DEF CallInPlace
        <4> QED
          BY <4>2, <4>3, <4>4
      <3>2. CASE task' = [task EXCEPT !.pc = "none"] /\ sup.pc = "stopLease"
                 /\ Goto("stopBroker", 0) /\ (UNCHANGED <<call, lease>> \/ GiveUp)
        <4>1. /\ task'.pc = "none" /\ task'.timer = task.timer
              /\ task'.granted = task.granted /\ task'.late = task.late
          BY <3>2 DEF Tasks
        <4>2. InPlace'
          BY <3>2, <4>1 DEF Started
        <4>3. HostInPlugin'
          BY <3>2, <4>1 DEF HostInPlugin
        <4>4. CallInPlace'
          BY <3>2, <4>1 DEF CallInPlace
        <4> QED
          BY <4>2, <4>3, <4>4
      <3> QED
        BY <3>1, <3>2
    <2> QED
      BY <2>1, <2>2
  <1>12. CASE StopBroker
    <2> USE <1>0, <1>12 DEF StopBroker, children, host
    <2>1. TypeOK'
      BY Moves, CallsMade DEF TypeOK, ReturnsTo, Waits, Ends
    <2> USE DEF TypeOK, InPlace, Goto, Fails, ReturnsTo, Idle, Waits, Ends, NoCall
    <2>2. InPlace'
      BY DEF Started, Live
    <2>3. HostInPlugin'
      BY DEF HostInPlugin
    <2>4. CallInPlace'
      BY DEF CallInPlace
    <2> QED
      BY <2>1, <2>2, <2>3, <2>4
  <1>13. CASE NextRun
    <2> USE <1>0, <1>13 DEF NextRun, children, host
    <2>1. TypeOK'
      BY Moves, CallsMade DEF TypeOK, ReturnsTo, Waits, Ends
    <2> USE DEF TypeOK, InPlace, Goto, Fails, ReturnsTo, Idle, Waits, Ends, NoCall
    <2>2. InPlace'
      BY DEF Started, Live
    <2>3. HostInPlugin'
      BY DEF HostInPlugin
    <2>4. CallInPlace'
      BY DEF CallInPlace
    <2> QED
      BY <2>1, <2>2, <2>3, <2>4
  <1>14. CASE HonourMarker /\ UNCHANGED <<children, host>>
    <2> USE <1>0, <1>14 DEF HonourMarker, children, host
    <2>1. TypeOK'
      BY Moves, CallsMade DEF TypeOK, ClearMarker, Honoured, ReturnsTo, Waits, Ends
    <2> USE DEF TypeOK, InPlace, Goto, Fails, ReturnsTo, Idle, Waits, Ends, NoCall, ClearMarker, Honoured
    <2>2. InPlace'
      BY DEF Started, Live
    <2>3. HostInPlugin'
      BY DEF HostInPlugin
    <2>4. CallInPlace'
      BY DEF CallInPlace
    <2> QED
      BY <2>1, <2>2, <2>3, <2>4
  <1>15. CASE MarkerError /\ UNCHANGED <<children, host>>
    <2> USE <1>0, <1>15 DEF MarkerError, children, host
    <2>1. TypeOK'
      BY Moves, CallsMade DEF TypeOK, ReturnsTo, Waits, Ends
    <2> USE DEF TypeOK, InPlace, Goto, Fails, ReturnsTo, Idle, Waits, Ends, NoCall
    <2>2. InPlace'
      BY DEF Started, Live
    <2>3. HostInPlugin'
      BY DEF HostInPlugin
    <2>4. CallInPlace'
      BY DEF CallInPlace
    <2> QED
      BY <2>1, <2>2, <2>3, <2>4
  <1>16. CASE Look /\ UNCHANGED <<children, host>>
    <2> USE <1>0, <1>16 DEF Look, children, host
    <2>1. TypeOK'
      BY Moves, CallsMade DEF TypeOK, PassMarker, ClearMarker, ReturnsTo, Waits, Ends
    <2> USE DEF TypeOK, InPlace, Goto, Fails, ReturnsTo, Idle, Waits, Ends, NoCall, PassMarker, ClearMarker
    <2>2. InPlace'
      BY DEF Started, Live
    <2>3. HostInPlugin'
      BY DEF HostInPlugin
    <2>4. CallInPlace'
      BY DEF CallInPlace
    <2> QED
      BY <2>1, <2>2, <2>3, <2>4
  <1>17. CASE LookAgain /\ UNCHANGED <<children, host>>
    <2> USE <1>0, <1>17 DEF LookAgain, children, host
    <2>1. TypeOK'
      BY Moves, CallsMade DEF TypeOK, PassMarker, ClearMarker, ReturnsTo, Waits, Ends
    <2> USE DEF TypeOK, InPlace, Goto, Fails, ReturnsTo, Idle, Waits, Ends, NoCall, PassMarker, ClearMarker
    <2>2. InPlace'
      BY DEF Started, Live
    <2>3. HostInPlugin'
      BY DEF HostInPlugin
    <2>4. CallInPlace'
      BY DEF CallInPlace
    <2> QED
      BY <2>1, <2>2, <2>3, <2>4
  <1> QED
    BY <1>1, <1>2, <1>3, <1>4, <1>5, <1>6, <1>7, <1>8, <1>9, <1>10, <1>11, <1>12, <1>13,
      <1>14, <1>15, <1>16, <1>17 DEF SupervisorStep

\* The lease task moves to one of its places.
LEMMA Waiting ==
    ASSUME TypeOK, NEW timer \in 0..Interval, NEW granted \in Nat, NEW late \in Nat,
           NEW pc \in {"none", "plan", "sleep", "refresh", "clean", "stop", "done", "failed"},
           Lasts(pc, timer, granted, late)
    PROVE  task' \in Tasks
  BY Fields DEF Lasts, Tasks

\* The steps of the lease task.
LEMMA TaskStepControl ==
    ASSUME ControlInv, TaskStep
    PROVE  ControlInv'
  <1> USE InstanceType, Fields, Constants DEF ControlInv, children, files
  <1>0. UNCHANGED <<inst, sup, worker, sidecar, broker, marker, current, switch, asked, stops>>
    BY DEF TaskStep
  <1>1. CASE Plan
    <2> USE <1>0, <1>1 DEF Plan, host
    <2>1. TypeOK'
      <3>1. task' \in Tasks
        BY Waiting DEF Wait, TypeOK, RefreshDelay
      <3>2. call' \in Calls
        BY CallsMade DEF TypeOK
      <3> QED
        BY <3>1, <3>2, CallsMade DEF TypeOK, Sups
    <2> USE DEF TypeOK, InPlace, Wait, Lasts, ReturnsTo, Idle, Waits, Ends, NoCall, RefreshDelay
    <2>2. InPlace'
      BY DEF Started
    <2>3. HostInPlugin'
      BY DEF HostInPlugin
    <2>4. CallInPlace'
      BY DEF CallInPlace
    <2> QED
      BY <2>1, <2>2, <2>3, <2>4
  <1>2. CASE SendRefresh
    <2> USE <1>0, <1>2 DEF SendRefresh, host
    <2>1. TypeOK'
      <3>1. task' \in Tasks
        BY Waiting DEF Wait, TypeOK, Sends
      <3>2. call' \in Calls
        BY CallsMade DEF TypeOK
      <3> QED
        BY <3>1, <3>2, CallsMade DEF TypeOK, Sups
    <2> USE DEF TypeOK, InPlace, Wait, Lasts, ReturnsTo, Idle, Waits, Ends, NoCall, Sends
    <2>2. InPlace'
      BY DEF Started
    <2>3. HostInPlugin'
      BY DEF HostInPlugin
    <2>4. CallInPlace'
      BY DEF CallInPlace
    <2> QED
      BY <2>1, <2>2, <2>3, <2>4
  <1>3. CASE Refreshed
    <2> USE <1>0, <1>3 DEF Refreshed, host
    <2>1. TypeOK'
      <3>1. task' \in Tasks
        BY Waiting DEF Wait, TypeOK
      <3>2. call' \in Calls
        BY CallsMade DEF TypeOK
      <3> QED
        BY <3>1, <3>2, CallsMade DEF TypeOK, Sups
    <2> USE DEF TypeOK, InPlace, Wait, Lasts, ReturnsTo, Idle, Waits, Ends, NoCall
    <2>2. InPlace'
      BY DEF Started
    <2>3. HostInPlugin'
      BY DEF HostInPlugin
    <2>4. CallInPlace'
      BY DEF CallInPlace
    <2> QED
      BY <2>1, <2>2, <2>3, <2>4
  <1>4. CASE NotRefreshed
    <2> USE <1>0, <1>4 DEF NotRefreshed, host
    <2>1. TypeOK'
      <3>1. task' \in Tasks
        BY Waiting DEF Wait, TypeOK
      <3>2. call' \in Calls
        BY CallsMade DEF TypeOK
      <3> QED
        BY <3>1, <3>2, CallsMade DEF TypeOK, Sups
    <2> USE DEF TypeOK, InPlace, Wait, Lasts, ReturnsTo, Idle, Waits, Ends, NoCall, GiveUp
    <2>2. InPlace'
      BY DEF Started
    <2>3. HostInPlugin'
      BY DEF HostInPlugin
    <2>4. CallInPlace'
      BY DEF CallInPlace
    <2> QED
      BY <2>1, <2>2, <2>3, <2>4
  <1>5. CASE Clean
    <2> USE <1>0, <1>5 DEF Clean, host
    <2>1. TypeOK'
      <3>1. task' \in Tasks
        BY Waiting DEF Wait, TypeOK, Sends
      <3>2. call' \in Calls
        BY CallsMade DEF TypeOK
      <3> QED
        BY <3>1, <3>2, CallsMade DEF TypeOK, Sups
    <2> USE DEF TypeOK, InPlace, Wait, Lasts, ReturnsTo, Idle, Waits, Ends, NoCall, Sends
    <2>2. InPlace'
      BY DEF Started
    <2>3. HostInPlugin'
      BY DEF HostInPlugin
    <2>4. CallInPlace'
      BY DEF CallInPlace
    <2> QED
      BY <2>1, <2>2, <2>3, <2>4
  <1>6. CASE SeeStop
    <2> USE <1>0, <1>6 DEF SeeStop, host
    <2>1. TypeOK'
      <3>1. task' \in Tasks
        BY Waiting DEF Wait, TypeOK, Sends
      <3>2. call' \in Calls
        BY CallsMade DEF TypeOK
      <3> QED
        BY <3>1, <3>2, CallsMade DEF TypeOK, Sups
    <2> USE DEF TypeOK, InPlace, Wait, Lasts, ReturnsTo, Idle, Waits, Ends, NoCall, Sends
    <2>2. InPlace'
      BY DEF Started
    <2>3. HostInPlugin'
      BY DEF HostInPlugin
    <2>4. CallInPlace'
      BY DEF CallInPlace
    <2> QED
      BY <2>1, <2>2, <2>3, <2>4
  <1>7. CASE Stopped
    <2> USE <1>0, <1>7 DEF Stopped, host
    <2>1. TypeOK'
      <3>1. task' \in Tasks
        BY Waiting DEF Wait, TypeOK
      <3>2. call' \in Calls
        BY CallsMade DEF TypeOK
      <3> QED
        BY <3>1, <3>2, CallsMade DEF TypeOK, Sups
    <2> USE DEF TypeOK, InPlace, Wait, Lasts, ReturnsTo, Idle, Waits, Ends, NoCall, GiveUp
    <2>2. InPlace'
      BY DEF Started
    <2>3. HostInPlugin'
      BY DEF HostInPlugin
    <2>4. CallInPlace'
      BY DEF CallInPlace
    <2> QED
      BY <2>1, <2>2, <2>3, <2>4
  <1> QED
    BY <1>1, <1>2, <1>3, <1>4, <1>5, <1>6, <1>7 DEF TaskStep

\* The steps of the worker, the sidecar, the broker and the host, the switch of a
\* release, and a start of the supervisor.
LEMMA OtherStepControl ==
    ASSUME ControlInv,
           \/ ChildStep \/ HostStep \/ Activate
           \/ StartAgain /\ UNCHANGED <<inst, current, switch, asked>>
    PROVE  ControlInv'
  <1> USE InstanceType, Fields, Constants DEF ControlInv, children, files, host
  <1>1. CASE ChildStep
    <2> USE <1>1 DEF ChildStep, TypeOK, InPlace, Idle, Waits, Ends, WorkerStep, SidecarDies, BrokerDies, Live
    <2>1. TypeOK'
      BY DEF Sups, Calls, Leases, Tasks
    <2>2. InPlace'
      BY DEF Started
    <2>3. HostInPlugin'
      BY DEF HostInPlugin
    <2>4. CallInPlace'
      BY DEF CallInPlace
    <2> QED
      BY <2>1, <2>2, <2>3, <2>4
  <1>2. CASE HostStep
    <2> USE <1>2 DEF HostStep, TypeOK, InPlace, Idle, Waits, Ends, HostGrants, HostStops, HostRefuses, Answers
    <2>1. TypeOK'
      <3>1. \A ok \in BOOLEAN, g \in Nat : Answers(ok, g) => call' \in Calls
        BY DEF Calls
      <3>2. \A g \in inst.grants : [held |-> TRUE, left |-> g] \in Leases
        BY DEF Leases
      <3>3. [held |-> FALSE, left |-> 0] \in Leases
        BY DEF Leases
      <3>4. call' \in Calls
        BY <3>1 DEF HostGrants, HostStops, HostRefuses
      <3>5. lease' \in Leases
        BY <3>2, <3>3
      <3> QED
        BY <3>4, <3>5 DEF Sups
    <2>2. InPlace'
      BY DEF Started
    <2>3. HostInPlugin'
      BY DEF HostInPlugin
    <2>4. CallInPlace'
      BY DEF CallInPlace
    <2> QED
      BY <2>1, <2>2, <2>3, <2>4
  <1>3. CASE Activate
    <2> USE <1>3 DEF Activate, TypeOK, InPlace, Idle, Waits, Ends
    <2>1. TypeOK'
      BY DEF Sups, Calls, Leases, Tasks
    <2>2. InPlace'
      BY DEF Started
    <2>3. HostInPlugin'
      BY DEF HostInPlugin
    <2>4. CallInPlace'
      BY DEF CallInPlace
    <2> QED
      BY <2>1, <2>2, <2>3, <2>4
  <1>4. CASE StartAgain /\ UNCHANGED <<inst, current, switch, asked>>
    <2> USE <1>4 DEF StartAgain, TypeOK, InPlace, Idle, Waits, Ends
    <2>1. TypeOK'
      BY DEF Sups, Calls, Leases, Tasks
    <2>2. InPlace'
      BY DEF Started
    <2>3. HostInPlugin'
      BY DEF HostInPlugin
    <2>4. CallInPlace'
      BY DEF CallInPlace
    <2> QED
      BY <2>1, <2>2, <2>3, <2>4
  <1> QED
    BY <1>1, <1>2, <1>3, <1>4

\* The passing of time.
LEMMA TickControl ==
    ASSUME ControlInv, Tick
    PROVE  ControlInv'
  <1> USE InstanceType, Fields, Constants DEF ControlInv, children, files
  <1>0. UNCHANGED <<inst, worker, sidecar, broker, marker, current, switch, asked, stops>>
    BY DEF Tick
  <1>1. /\ sup' \in Sups' /\ sup'.pc = sup.pc /\ sup'.error = sup.error
        /\ sup'.timer = Down(sup.timer)
    BY <1>0 DEF Tick, TypeOK, Sups, Down
  <1>2. /\ task' \in Tasks /\ task'.pc = task.pc /\ task'.timer = Down(task.timer)
        /\ task'.granted = task.granted /\ task'.late = task.late
    BY DEF Tick, TypeOK, Tasks, Down
  <1>3. /\ call.at = "back" => /\ call' = [call EXCEPT !.late = call.late + 1]
                               /\ call.late + 1 \in 0..EnsureWait
        /\ call.at # "back" => call' = call
    BY DEF Tick, TypeOK, Calls, CallInPlace, Busy
  <1>4. /\ call' \in Calls /\ call'.kind = call.kind /\ call'.at = call.at /\ call'.ok = call.ok
        /\ call'.granted = call.granted
        /\ call'.late = IF call.at = "back" THEN call.late + 1 ELSE call.late
    BY <1>3 DEF TypeOK, Calls
  <1>5. lease' \in Leases /\ lease'.held = lease.held
    BY DEF Tick, TypeOK, Leases
  <1>6. TypeOK'
    BY <1>0, <1>1, <1>2, <1>4, <1>5 DEF TypeOK
  <1>7. InPlace'
    BY <1>0, <1>1, <1>2 DEF InPlace, Idle, Started, Ends
  <1>8. HostInPlugin'
    BY <1>0, <1>1, <1>2, <1>4, <1>5 DEF HostInPlugin
  <1>9. CallInPlace'
    BY <1>0, <1>1, <1>2, <1>4 DEF CallInPlace, Tick, Busy, Down, TypeOK
  <1> QED
    BY <1>6, <1>7, <1>8, <1>9

\* Nothing else changes ControlInv.
LEMMA ControlInvStep == ControlInv /\ [Next]_vars => ControlInv'
  <1> SUFFICES ASSUME ControlInv, [Next]_vars
               PROVE  ControlInv'
    OBVIOUS
  <1>1. CASE UNCHANGED vars
    BY <1>1 DEF vars, ControlInv, TypeOK, Sups, Tasks, Calls, Leases, InPlace, HostInPlugin,
                CallInPlace
  <1>2. CASE Next
    BY <1>2, SupervisorStepControl, TaskStepControl, OtherStepControl, TickControl DEF Next
  <1> QED
    BY <1>1, <1>2

\* The run loop, the lease task, the call and the children are where a run can have
\* them, in every state.
THEOREM ControlAlways == Spec => []ControlInv
  <1> QED
    BY ControlInvInit, ControlInvStep, PTL DEF Spec

\* Nothing of a run is left when it is over, whatever ended or failed first.
THEOREM NoOrphansAlways == Spec => []NoOrphans
  <1>1. ControlInv => NoOrphans
    BY DEF ControlInv, InPlace, Idle, NoOrphans
  <1> QED
    BY <1>1, ControlAlways, PTL
-----------------------------------------------------------------------------
(* The time the lease has left.  A lease that the host grants lasts at      *)
(* least Least; one that the lease task waits to refresh, at least Slack    *)
(* more than the wait.                                                      *)

Full == inst.grants = {Ttl}
Least == IF Full THEN Ttl ELSE 1
Slack == IF Full THEN Ttl - EnsureWait - Interval ELSE Margin - EnsureWait

\* What is left of a lease that the lease task keeps, by what it waits for.
TaskInTime ==
    /\ call.at = "back" /\ call.ok /\ call.kind \in {"ensure", "refresh"} =>
          lease.left >= call.granted - call.late
    /\ task.pc = "plan" => lease.left >= task.granted - task.late
    /\ task.pc = "sleep" => /\ lease.left >= task.timer + Margin - task.late
                            /\ lease.left >= Slack + task.timer
    /\ task.pc = "refresh" => lease.left >= Slack - ControlWait + task.timer
    /\ task.pc = "clean" => lease.left >= Slack - ControlWait - HelloWait + task.timer
    /\ task.pc = "stop" => lease.left >= Slack - 3 + task.timer

\* What is left of it by the supervisor's progress in a start.
StartInTime ==
    /\ sup.pc = "broker" => lease.left >= Least - EnsureWait - HelloWait + sup.timer
    /\ sup.pc \in {"spawnWorker", "spawnSidecar"} => lease.left >= Least - EnsureWait
    /\ sup.pc = "health" => lease.left >= Least - EnsureWait - HealthWait + sup.timer
    /\ sup.pc \in {"watch", "killWorker", "killSidecar"} =>
          lease.left >= IF Full THEN 0 ELSE -Grace

LeaseInTime == lease.held => TaskInTime /\ StartInTime

\* The numbers above, for both kinds of instance.
LEMMA Terms ==
    ASSUME TypeOK
    PROVE  /\ Full => Least = 24 /\ Slack = 13
           /\ ~Full => Least = 1 /\ Slack = -4
           /\ \A g \in inst.grants : g \in Nat /\ g >= Least
  BY Fields, Constants DEF Full, Least, Slack

\* The terms of an instance do not change.
LEMMA SameTerms ==
    ASSUME UNCHANGED inst
    PROVE  Full' = Full /\ Least' = Least /\ Slack' = Slack
  BY DEF Full, Least, Slack

\* There is no lease in an initial state.
LEMMA LeaseInTimeInit == Init => LeaseInTime
  BY DEF Init, LeaseInTime

\* The supervisor's own steps.
LEMMA SupervisorStepInTime ==
    ASSUME ControlInv, LeaseInTime, SupervisorStep
    PROVE  LeaseInTime'
  <1> USE Fields, Constants, Terms, SameTerms DEF ControlInv, LeaseInTime
  <1>0. UNCHANGED inst
    BY DEF SupervisorStep
  <1>1. CASE EnsureSent
    <2> USE <1>0, <1>1 DEF EnsureSent, children, host, Goto, Fails, ReturnsTo, CallInPlace, TypeOK, NoCall, Sends
    <2>1. (lease.held => TaskInTime)'
      BY DEF TaskInTime, Tasks
    <2>2. (lease.held => StartInTime)'
      BY DEF StartInTime
    <2> QED
      BY <2>1, <2>2
  <1>2. CASE Ensured
    <2> USE <1>0, <1>2 DEF Ensured, children, host, Goto, Fails, ReturnsTo, CallInPlace, TypeOK, NoCall
    <2>1. (lease.held => TaskInTime)'
      BY DEF TaskInTime, Tasks
    <2>2. (lease.held => StartInTime)'
      BY DEF StartInTime, TaskInTime
    <2> QED
      BY <2>1, <2>2
  <1>3. CASE NotEnsured
    <2> USE <1>0, <1>3 DEF NotEnsured, children, host, Goto, Fails, ReturnsTo, CallInPlace, TypeOK, NoCall, GiveUp
    <2>1. (lease.held => TaskInTime)'
      BY DEF TaskInTime, Tasks, InPlace, Idle
    <2>2. (lease.held => StartInTime)'
      BY DEF StartInTime
    <2> QED
      BY <2>1, <2>2
  <1>4. CASE StartBroker
    <2> USE <1>0, <1>4 DEF StartBroker, children, host, Goto, Fails, ReturnsTo, CallInPlace, TypeOK, NoCall
    <2>1. (lease.held => TaskInTime)'
      BY DEF TaskInTime, Tasks
    <2>2. (lease.held => StartInTime)'
      BY DEF StartInTime
    <2> QED
      BY <2>1, <2>2
  <1>5. CASE SpawnWorker
    <2> USE <1>0, <1>5 DEF SpawnWorker, children, host, Goto, Fails, ReturnsTo, CallInPlace, TypeOK, NoCall
    <2>1. (lease.held => TaskInTime)'
      BY DEF TaskInTime, Tasks
    <2>2. (lease.held => StartInTime)'
      BY DEF StartInTime
    <2> QED
      BY <2>1, <2>2
  <1>6. CASE SpawnSidecar
    <2> USE <1>0, <1>6 DEF SpawnSidecar, children, host, Goto, Fails, ReturnsTo, CallInPlace, TypeOK, NoCall
    <2>1. (lease.held => TaskInTime)'
      BY DEF TaskInTime, Tasks
    <2>2. (lease.held => StartInTime)'
      BY DEF StartInTime
    <2> QED
      BY <2>1, <2>2
  <1>7. CASE Healthy
    <2> USE <1>0, <1>7 DEF Healthy, children, host, Goto, Fails, ReturnsTo, CallInPlace, TypeOK, NoCall
    <2>1. (lease.held => TaskInTime)'
      BY DEF TaskInTime, Tasks
    <2>2. (lease.held => StartInTime)'
      BY DEF StartInTime
    <2> QED
      BY <2>1, <2>2
  <1>8. CASE Notice
    <2> USE <1>0, <1>8 DEF Notice, children, host, Goto, Fails, ReturnsTo, CallInPlace, TypeOK, NoCall
    <2>1. (lease.held => TaskInTime)'
      BY DEF TaskInTime, Tasks
    <2>2. (lease.held => StartInTime)'
      BY DEF StartInTime
    <2> QED
      BY <2>1, <2>2
  <1>9. CASE KillWorker
    <2> USE <1>0, <1>9 DEF KillWorker, children, host, Goto, Fails, ReturnsTo, CallInPlace, TypeOK, NoCall
    <2>1. (lease.held => TaskInTime)'
      BY DEF TaskInTime, Tasks
    <2>2. (lease.held => StartInTime)'
      BY DEF StartInTime
    <2> QED
      BY <2>1, <2>2
  <1>10. CASE KillSidecar
    <2> USE <1>0, <1>10 DEF KillSidecar, children, host, Goto, Fails, ReturnsTo, CallInPlace, TypeOK, NoCall
    <2>1. (lease.held => TaskInTime)'
      BY DEF TaskInTime, Tasks
    <2>2. (lease.held => StartInTime)'
      BY DEF StartInTime
    <2> QED
      BY <2>1, <2>2
  <1>11. CASE StopLease
    <2> USE <1>0, <1>11 DEF StopLease, children, host, Goto, Fails, ReturnsTo, CallInPlace, TypeOK, NoCall, GiveUp
    <2>1. (lease.held => TaskInTime)'
      BY DEF TaskInTime, Tasks
    <2>2. (lease.held => StartInTime)'
      BY DEF StartInTime
    <2> QED
      BY <2>1, <2>2
  <1>12. CASE StopBroker
    <2> USE <1>0, <1>12 DEF StopBroker, children, host, Goto, Fails, ReturnsTo, CallInPlace, TypeOK, NoCall
    <2>1. (lease.held => TaskInTime)'
      BY DEF TaskInTime, Tasks
    <2>2. (lease.held => StartInTime)'
      BY DEF StartInTime
    <2> QED
      BY <2>1, <2>2
  <1>13. CASE NextRun
    <2> USE <1>0, <1>13 DEF NextRun, children, host, Goto, Fails, ReturnsTo, CallInPlace, TypeOK, NoCall
    <2>1. (lease.held => TaskInTime)'
      BY DEF TaskInTime, Tasks
    <2>2. (lease.held => StartInTime)'
      BY DEF StartInTime
    <2> QED
      BY <2>1, <2>2
  <1>14. CASE HonourMarker /\ UNCHANGED <<children, host>>
    <2> USE <1>0, <1>14 DEF HonourMarker, children, host, Goto, Fails, ReturnsTo, CallInPlace, TypeOK, NoCall
    <2>1. (lease.held => TaskInTime)'
      BY DEF TaskInTime, Tasks
    <2>2. (lease.held => StartInTime)'
      BY DEF StartInTime
    <2> QED
      BY <2>1, <2>2
  <1>15. CASE MarkerError /\ UNCHANGED <<children, host>>
    <2> USE <1>0, <1>15 DEF MarkerError, children, host, Goto, Fails, ReturnsTo, CallInPlace, TypeOK, NoCall
    <2>1. (lease.held => TaskInTime)'
      BY DEF TaskInTime, Tasks
    <2>2. (lease.held => StartInTime)'
      BY DEF StartInTime
    <2> QED
      BY <2>1, <2>2
  <1>16. CASE Look /\ UNCHANGED <<children, host>>
    <2> USE <1>0, <1>16 DEF Look, children, host, Goto, Fails, ReturnsTo, CallInPlace, TypeOK, NoCall, PassMarker
    <2>1. (lease.held => TaskInTime)'
      BY DEF TaskInTime, Tasks
    <2>2. (lease.held => StartInTime)'
      BY DEF StartInTime, HostInPlugin
    <2> QED
      BY <2>1, <2>2
  <1>17. CASE LookAgain /\ UNCHANGED <<children, host>>
    <2> USE <1>0, <1>17 DEF LookAgain, children, host, Goto, Fails, ReturnsTo, CallInPlace, TypeOK, NoCall, PassMarker
    <2>1. (lease.held => TaskInTime)'
      BY DEF TaskInTime, Tasks
    <2>2. (lease.held => StartInTime)'
      BY DEF StartInTime
    <2> QED
      BY <2>1, <2>2
  <1> QED
    BY <1>1, <1>2, <1>3, <1>4, <1>5, <1>6, <1>7, <1>8, <1>9, <1>10, <1>11, <1>12, <1>13,
      <1>14, <1>15, <1>16, <1>17 DEF SupervisorStep

\* The steps of the lease task.
LEMMA TaskStepInTime ==
    ASSUME ControlInv, LeaseInTime, TaskStep
    PROVE  LeaseInTime'
  <1> USE Fields, Constants, Terms, SameTerms DEF ControlInv, LeaseInTime
  <1>0. UNCHANGED <<inst, sup>>
    BY DEF TaskStep
  <1>1. CASE Plan
    <2> USE <1>0, <1>1 DEF Plan, host, Wait, Lasts, ReturnsTo, CallInPlace, TypeOK, NoCall, RefreshDelay
    <2>1. (lease.held => TaskInTime)'
      BY DEF TaskInTime
    <2>2. (lease.held => StartInTime)'
      BY DEF StartInTime, InPlace, Idle
    <2> QED
      BY <2>1, <2>2
  <1>2. CASE SendRefresh
    <2> USE <1>0, <1>2 DEF SendRefresh, host, Wait, Lasts, ReturnsTo, CallInPlace, TypeOK, NoCall, Sends
    <2>1. (lease.held => TaskInTime)'
      BY DEF TaskInTime
    <2>2. (lease.held => StartInTime)'
      BY DEF StartInTime, InPlace, Idle
    <2> QED
      BY <2>1, <2>2
  <1>3. CASE Refreshed
    <2> USE <1>0, <1>3 DEF Refreshed, host, Wait, Lasts, ReturnsTo, CallInPlace, TypeOK, NoCall
    <2>1. (lease.held => TaskInTime)'
      BY DEF TaskInTime
    <2>2. (lease.held => StartInTime)'
      BY DEF StartInTime, InPlace, Idle
    <2> QED
      BY <2>1, <2>2
  <1>4. CASE NotRefreshed
    <2> USE <1>0, <1>4 DEF NotRefreshed, host, Wait, Lasts, ReturnsTo, CallInPlace, TypeOK, NoCall, GiveUp
    <2>1. (lease.held => TaskInTime)'
      BY DEF TaskInTime
    <2>2. (lease.held => StartInTime)'
      BY DEF StartInTime, InPlace, Idle
    <2> QED
      BY <2>1, <2>2
  <1>5. CASE Clean
    <2> USE <1>0, <1>5 DEF Clean, host, Wait, Lasts, ReturnsTo, CallInPlace, TypeOK, NoCall, Sends
    <2>1. (lease.held => TaskInTime)'
      BY DEF TaskInTime
    <2>2. (lease.held => StartInTime)'
      BY DEF StartInTime, InPlace, Idle
    <2> QED
      BY <2>1, <2>2
  <1>6. CASE SeeStop
    <2> USE <1>0, <1>6 DEF SeeStop, host, Wait, Lasts, ReturnsTo, CallInPlace, TypeOK, NoCall, Sends
    <2>1. (lease.held => TaskInTime)'
      BY DEF TaskInTime
    <2>2. (lease.held => StartInTime)'
      BY DEF StartInTime, InPlace, Idle
    <2> QED
      BY <2>1, <2>2
  <1>7. CASE Stopped
    <2> USE <1>0, <1>7 DEF Stopped, host, Wait, Lasts, ReturnsTo, CallInPlace, TypeOK, NoCall, GiveUp
    <2>1. (lease.held => TaskInTime)'
      BY DEF TaskInTime
    <2>2. (lease.held => StartInTime)'
      BY DEF StartInTime, InPlace, Idle
    <2> QED
      BY <2>1, <2>2
  <1> QED
    BY <1>1, <1>2, <1>3, <1>4, <1>5, <1>6, <1>7 DEF TaskStep

\* The steps of the host and of the others.
LEMMA OtherStepInTime ==
    ASSUME ControlInv, LeaseInTime,
           \/ ChildStep \/ HostStep \/ Activate
           \/ StartAgain /\ UNCHANGED <<inst, current, switch, asked>>
    PROVE  LeaseInTime'
  <1> USE Fields, Constants, Terms, SameTerms DEF ControlInv, LeaseInTime
  <1>1. CASE HostStep
    <2> USE <1>1 DEF HostStep, HostGrants, HostStops, HostRefuses, Answers, CallInPlace, TypeOK, Calls
    <2>1. (lease.held => TaskInTime)'
      BY DEF TaskInTime, InPlace, Idle
    <2>2. (lease.held => StartInTime)'
      BY DEF StartInTime, InPlace, Idle
    <2> QED
      BY <2>1, <2>2
  <1>2. CASE ~HostStep
    BY <1>2 DEF ChildStep, Activate, StartAgain, host, TaskInTime, StartInTime, Ends
  <1> QED
    BY <1>1, <1>2

\* The passing of time.
LEMMA TickInTime ==
    ASSUME ControlInv, LeaseInTime, Tick
    PROVE  LeaseInTime'
  <1> USE Fields, Constants, Terms, SameTerms DEF ControlInv, LeaseInTime, TypeOK
  <1>0. UNCHANGED inst
    BY DEF Tick
  <1>1. /\ sup'.pc = sup.pc /\ (sup.pc \in Waits \ {"watch"} => sup.timer > 0 /\ sup'.timer = sup.timer - 1)
        /\ sup.pc \in Waits
    BY DEF Tick, Sups, Down, Busy, Waits
  <1>2. /\ task'.pc = task.pc /\ task'.granted = task.granted /\ task'.late = task.late
        /\ task.pc \in {"sleep", "refresh", "clean", "stop"} => task.timer > 0 /\ task'.timer = task.timer - 1
    BY DEF Tick, Tasks, Down, Busy
  <1>3. /\ call'.at = call.at /\ call'.kind = call.kind /\ call'.ok = call.ok /\ call'.granted = call.granted
        /\ call.at = "back" => call'.late = call.late + 1
    BY DEF Tick, Calls
  <1>4. lease.held' = lease.held /\ lease'.left \in {lease.left, lease.left - 1}
    BY DEF Tick, Leases
  <1>5. (lease.held => TaskInTime)'
    BY <1>0, <1>1, <1>2, <1>3, <1>4 DEF TaskInTime, Tick, Busy
  <1>6. (lease.held => StartInTime)'
    <2>1. CASE sup.pc = "watch"
      BY <1>0, <1>1, <1>2, <1>3, <1>4, <2>1 DEF StartInTime, TaskInTime, Tick, Busy,
        SomethingEnded, TaskEnded, InPlace, HostInPlugin, Started, Tasks
    <2>2. CASE sup.pc # "watch"
      BY <1>0, <1>1, <1>4, <2>2 DEF StartInTime, Waits
    <2> QED
      BY <2>1, <2>2
  <1> QED
    BY <1>5, <1>6

\* Every step keeps the lease in time.
LEMMA LeaseInTimeStep == ControlInv /\ LeaseInTime /\ [Next]_vars => LeaseInTime'
  <1> SUFFICES ASSUME ControlInv, LeaseInTime, [Next]_vars
               PROVE  LeaseInTime'
    OBVIOUS
  <1>1. CASE UNCHANGED vars
    BY <1>1, SameTerms DEF vars, LeaseInTime, TaskInTime, StartInTime
  <1>2. CASE Next
    BY <1>2, SupervisorStepInTime, TaskStepInTime, OtherStepInTime, TickInTime DEF Next
  <1> QED
    BY <1>1, <1>2

\* The lease is in time in every state.
THEOREM LeaseInTimeAlways == Spec => [](ControlInv /\ LeaseInTime)
  <1> QED
    BY ControlInvInit, ControlInvStep, LeaseInTimeInit, LeaseInTimeStep, PTL DEF Spec

\* A refresh leaves in time, unless the answer that granted the lease was under way
\* for longer than the margin.
THEOREM LeaseInvAlways == Spec => []LeaseInv
  <1>1. ControlInv /\ LeaseInTime => LeaseInv
    BY Fields, Constants DEF ControlInv, LeaseInv, RefreshedInTime, LeaseInTime, TaskInTime
  <1> QED
    BY <1>1, LeaseInTimeAlways, PTL

\* A lease does not end under what was started while it was held.
THEOREM LeaseCoversChildrenAlways == Spec => []LeaseCoversChildren
  <1>1. ControlInv /\ LeaseInTime => LeaseCoversChildren
    <2> SUFFICES ASSUME ControlInv, LeaseInTime, Alive, lease.held
                 PROVE  lease.left >= IF inst.grants = {Ttl} THEN 0 ELSE -Grace
      BY DEF LeaseCoversChildren
    <2>1. sup.pc \in {"spawnSidecar", "health", "watch", "killWorker", "killSidecar"}
      BY DEF Alive, Live, ControlInv, InPlace, TypeOK, Sups, Idle, Waits, Ends
    <2> QED
      BY <2>1, Fields, Constants, Terms DEF ControlInv, LeaseInTime, StartInTime, Full
  <1> QED
    BY <1>1, LeaseInTimeAlways, PTL

\* A marker ends one run of the supervisor and no more.
THEOREM OneStopPerMarkerAlways == Spec => []OneStopPerMarker
  <1>1. Init => OneStopPerMarker
    BY DEF Init, OneStopPerMarker
  <1>2. TypeOK /\ OneStopPerMarker /\ [Next]_vars => OneStopPerMarker'
    <2> SUFFICES ASSUME TypeOK, OneStopPerMarker, [Next]_vars
                 PROVE  OneStopPerMarker'
      OBVIOUS
    <2> USE DEF TypeOK, OneStopPerMarker, children, host, files
    <2>1. CASE UNCHANGED vars
      BY <2>1 DEF vars
    <2>2. CASE SupervisorStep
      <3>1. CASE HonourMarker
        BY <2>2, <3>1 DEF SupervisorStep, HonourMarker, Honoured, ClearMarker
      <3>2. CASE UNCHANGED stops /\ marker' \in {marker, "none"}
        BY <2>2, <3>2 DEF SupervisorStep
      <3> QED
        BY <2>2, <3>1, <3>2 DEF SupervisorStep, EnsureSent, Ensured, NotEnsured,
          StartBroker, SpawnWorker,
           SpawnSidecar, Healthy, Notice, KillWorker, KillSidecar, StopLease, StopBroker, NextRun,
           MarkerError, Look, LookAgain, PassMarker, ClearMarker
    <2>3. CASE TaskStep
      BY <2>3 DEF TaskStep
    <2>4. CASE ChildStep
      BY <2>4 DEF ChildStep, WorkerStep, SidecarDies, BrokerDies
    <2>5. CASE HostStep \/ Tick \/ Activate
      BY <2>5 DEF HostStep, Tick, Activate
    <2>6. CASE StartAgain /\ UNCHANGED <<inst, current, switch, asked>>
      BY <2>6 DEF StartAgain
    <2> QED
      BY <2>1, <2>2, <2>3, <2>4, <2>5, <2>6 DEF Next
  <1>3. ControlInv => TypeOK
    BY DEF ControlInv
  <1> QED
    BY <1>1, <1>2, <1>3, ControlAlways, PTL DEF Spec
=============================================================================
