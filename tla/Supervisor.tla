------------------------------ MODULE Supervisor ------------------------------
(***************************************************************************)
(* wxcd-supervisor: one run after the other of a worker and a sidecar, the  *)
(* task that keeps the lease of the app-server the host manages for them,   *)
(* the delivery broker, and the marker file by which a worker asks that its *)
(* supervisor stop too.                                                     *)
(*                                                                          *)
(* Time passes in units of 5 s; a time-out is rounded up to a unit (the     *)
(* 6 s given to a task that must stop, down).  What the code does without   *)
(* waiting takes no time.  The host, the worker and the sidecar are the     *)
(* environment: they answer, refuse, are late or die when they like.        *)
(***************************************************************************)
EXTENDS Integers, FiniteSets

CONSTANT Instances \* the bounds under which a run looks at the supervisor

\* plugin: cbth plugin mode; grants: the lease terms the host may grant; runs:
\* how often the supervisor is started; marks: markers the worker may write;
\* switches: activations of a release.
ASSUME InstanceAssumption ==
    Instances \subseteq [plugin : BOOLEAN, grants : SUBSET (Nat \ {0}),
                         runs : Nat \ {0}, marks : Nat, switches : Nat]

Ttl == 24        \* PLUGIN_APP_SERVER_LEASE_TTL_SECONDS, 120 s
Interval == 6    \* PLUGIN_APP_SERVER_REFRESH_INTERVAL, 30 s
Margin == 1      \* PLUGIN_APP_SERVER_REFRESH_SAFETY_MARGIN_SECONDS, 5 s
ControlWait == 1 \* PLUGIN_APP_SERVER_CONTROL_TIMEOUT, 5 s
HelloWait == 1   \* PLUGIN_RPC_STARTUP_TIMEOUT, 3 s
EnsureWait == 5  \* the hello and PLUGIN_APP_SERVER_ENSURE_TIMEOUT, 23 s
StopWait == 1    \* PLUGIN_APP_SERVER_TASK_STOP_TIMEOUT, 6 s
HealthWait == 4  \* wait_for_worker_health, 20 s
PauseWait == 1   \* the sleep before the next run, 2 s
Bottom == -12    \* how long an ended lease is followed

VARIABLES inst,    \* one of Instances, for the whole behaviour
          sup,     \* run_supervisor
          worker,  \* the worker process
          sidecar, \* the sidecar process
          task,    \* run_plugin_app_server_lease
          broker,  \* run_delivery_broker
          call,    \* the RPC to the host under way
          lease,   \* the host's side of the lease
          marker,  \* the shutdown marker file
          current, \* the release the `current` link points to
          switch,  \* activate_release, in another process
          asked,   \* history: markers completed, with the one found at first
          stops    \* history: runs of the supervisor that a marker ended

vars == <<inst, sup, worker, sidecar, task, broker, call, lease, marker, current,
          switch, asked, stops>>
children == <<worker, sidecar>>
host == <<call, lease>>
files == <<marker, current, switch, asked>>

Waits == {"ensure", "broker", "health", "watch", "stopLease", "pause"}
Ends == {"stopped", "failed"}
Live == {"up", "writing", "marked"}
NoCall == [kind |-> "none", at |-> "host", ok |-> FALSE, granted |-> 0, late |-> 0]

Sups == [pc : {"look", "spawnWorker", "spawnSidecar", "killWorker", "killSidecar",
               "stopBroker", "marker"} \cup Waits \cup Ends,
         timer : 0..EnsureWait, error : BOOLEAN, run : 1..inst.runs]
Tasks == [pc : {"none", "plan", "sleep", "refresh", "clean", "stop", "done", "failed"},
          timer : 0..Interval, granted : Nat, late : Nat, stop : BOOLEAN]
Calls == [kind : {"none", "ensure", "refresh", "stop"}, at : {"host", "back"},
          ok : BOOLEAN, granted : Nat, late : 0..EnsureWait]
Leases == [held : BOOLEAN, left : Int]

TypeOK ==
    /\ inst \in Instances
    /\ sup \in Sups /\ task \in Tasks /\ call \in Calls /\ lease \in Leases
    /\ worker \in {"none", "starting", "up", "writing", "marked", "exited"}
    /\ sidecar \in {"none", "up", "exited"}
    /\ broker \in {"none", "serving", "ended"}
    /\ marker \in {"none", "own", "foreign", "unreadable"}
    /\ current \in {"old", "new", "none"} /\ switch \in {"idle", "removed", "switched"}
    /\ asked \in Nat /\ stops \in Nat

Init ==
    /\ inst \in Instances
    /\ sup = [pc |-> "look", timer |-> 0, error |-> FALSE, run |-> 1]
    /\ worker = "none" /\ sidecar = "none" /\ broker = "none"
    /\ task = [pc |-> "none", timer |-> 0, granted |-> 0, late |-> 0, stop |-> FALSE]
    /\ call = NoCall /\ lease = [held |-> FALSE, left |-> 0]
    /\ marker \in {"none", "own", "foreign", "unreadable"}
    /\ current = "old" /\ switch = "idle"
    /\ asked = IF marker = "own" THEN 1 ELSE 0
    /\ stops = 0
-----------------------------------------------------------------------------
(* The marker: consume_current_supervisor_shutdown_marker.                 *)

Goto(pc, timer) ==
    sup' = [pc |-> pc, timer |-> timer, error |-> sup.error, run |-> sup.run]

\* Mutant: the marker that is honoured stays.
KeepMarker == UNCHANGED marker

\* Whatever the marker says, it is removed once it was read.
ClearMarker == marker' = "none"

Honoured == inst.plugin /\ marker = "own"

HonourMarker ==
    /\ sup.pc \in {"look", "marker"} /\ Honoured
    /\ ClearMarker
    /\ Goto("stopped", 0) /\ stops' = stops + 1
    /\ UNCHANGED <<task, broker>>

\* No marker, one of another instance or release, one that does not decode, or a
\* file nobody reads because plugin mode is off.
PassMarker(pc, timer) ==
    /\ ~Honoured
    /\ IF inst.plugin THEN ClearMarker ELSE UNCHANGED marker
    /\ Goto(pc, timer)
    /\ UNCHANGED <<task, broker, stops>>

\* The file cannot be read, or not be removed.
MarkerError ==
    /\ sup.pc \in {"look", "marker"} /\ inst.plugin /\ marker # "none"
    /\ Goto("failed", 0)
    /\ UNCHANGED <<marker, task, broker, stops>>
-----------------------------------------------------------------------------
(* One run: run_supervisor.                                                *)

\* The release is looked up anew; one without its files is an error.
Look ==
    /\ sup.pc = "look"
    /\ IF current = "none" THEN PassMarker("failed", 0)
       ELSE IF inst.plugin THEN PassMarker("ensure", EnsureWait)
       ELSE PassMarker("spawnWorker", 0)

\* Every error after this one takes down what was started.
Fails(pc, timer) ==
    sup' = [pc |-> pc, timer |-> timer, error |-> TRUE, run |-> sup.run]

ReturnsTo(kind) == call.kind = kind /\ call.at = "back"
Sends(kind) == call' = [NoCall EXCEPT !.kind = kind]

\* ensure_cbth_managed_app_server: the host's answer starts the lease task.
Ensured ==
    /\ sup.pc = "ensure" /\ ReturnsTo("ensure") /\ call' = NoCall
    /\ IF call.ok
       THEN /\ task' = [pc |-> "plan", timer |-> 0, granted |-> call.granted,
                        late |-> call.late, stop |-> FALSE]
            /\ Goto("broker", HelloWait)
       ELSE Goto("failed", 0) /\ UNCHANGED task
    /\ UNCHANGED <<worker, sidecar, broker, lease, marker, stops>>

\* A call that is given up may still have its effect at the host.
GiveUp ==
    /\ call' = NoCall
    /\ \/ UNCHANGED lease
       \/ /\ call.at = "host" /\ call.kind = "stop"
          /\ lease' = [held |-> FALSE, left |-> 0]
       \/ /\ call.at = "host" /\ call.kind \in {"ensure", "refresh"}
          /\ \E g \in inst.grants : lease' = [held |-> TRUE, left |-> g]

NotEnsured ==
    /\ sup.pc = "ensure" /\ sup.timer = 0 /\ GiveUp
    /\ Goto("failed", 0)
    /\ UNCHANGED <<worker, sidecar, task, broker, marker, stops>>

\* start_delivery_broker: a host without the capability gets none.
StartBroker ==
    /\ sup.pc = "broker"
    /\ \/ sup.timer > 0 /\ broker' \in {"serving", "none"} /\ Goto("spawnWorker", 0)
       \/ Fails("stopLease", StopWait) /\ UNCHANGED broker
    /\ UNCHANGED <<worker, sidecar, task, call, lease, marker, stops>>

SpawnWorker ==
    /\ sup.pc = "spawnWorker"
    /\ \/ worker' = "starting" /\ Goto("spawnSidecar", 0)
       \/ Fails("stopLease", StopWait) /\ UNCHANGED worker
    /\ UNCHANGED <<sidecar, task, broker, call, lease, marker, stops>>

SpawnSidecar ==
    /\ sup.pc = "spawnSidecar"
    /\ \/ sidecar' = "up" /\ Goto("health", HealthWait)
       \/ Fails("killWorker", 0) /\ UNCHANGED sidecar
    /\ UNCHANGED <<worker, task, broker, call, lease, marker, stops>>

\* Mutant: the wait for the worker has no limit.
HealthyAtLast ==
    /\ sup.pc = "health" /\ worker \in Live /\ Goto("watch", 0)
    /\ UNCHANGED <<children, task, broker, host, marker, stops>>

\* wait_for_worker_health: a worker that answers that it is healthy, within 20 s.
Healthy ==
    /\ sup.pc = "health"
    /\ \/ worker \in Live /\ Goto("watch", 0)
       \/ (sup.timer = 0 \/ worker = "exited") /\ Fails("killWorker", 0)
    /\ UNCHANGED <<children, task, broker, host, marker, stops>>

TaskEnded == task.pc \in {"done", "failed"}

\* Mutant: nobody waits for the lease task.
IgnoresLease == worker = "exited" \/ sidecar = "exited" \/ broker = "ended"

\* The select over worker, sidecar, lease task and broker.
SomethingEnded == worker = "exited" \/ sidecar = "exited" \/ TaskEnded \/ broker = "ended"

Notice ==
    /\ sup.pc = "watch" /\ SomethingEnded
    /\ Goto("killWorker", 0)
    /\ UNCHANGED <<children, task, broker, host, marker, stops>>

KillWorker ==
    /\ sup.pc = "killWorker" /\ worker' = "none" /\ Goto("killSidecar", 0)
    /\ UNCHANGED <<sidecar, task, broker, host, marker, stops>>

\* Mutant: after an error only the worker is killed.
KillSidecarInLoop ==
    /\ sup.pc = "killSidecar" /\ Goto("stopLease", StopWait)
    /\ sidecar' = IF sup.error THEN sidecar ELSE "none"
    /\ UNCHANGED <<worker, task, broker, host, marker, stops>>

KillSidecar ==
    /\ sup.pc = "killSidecar" /\ sidecar' = "none" /\ Goto("stopLease", StopWait)
    /\ UNCHANGED <<worker, task, broker, host, marker, stops>>

\* ManagedCodexAppServer::shutdown: tell the task to stop, wait, then abort it.
StopLease ==
    /\ sup.pc = "stopLease"
    /\ \/ /\ task.pc \notin {"none", "done", "failed"} /\ ~task.stop
          /\ task' = [task EXCEPT !.stop = TRUE]
          /\ UNCHANGED <<sup, host>>
       \/ /\ task.pc \in {"none", "done", "failed"}
          /\ Goto("stopBroker", 0)
          /\ task' = [task EXCEPT !.pc = "none"]
          /\ UNCHANGED host
       \/ /\ task.stop /\ sup.timer = 0 /\ GiveUp
          /\ Goto("stopBroker", 0)
          /\ task' = [task EXCEPT !.pc = "none"]
    /\ UNCHANGED <<children, broker, marker, stops>>

\* ManagedDeliveryBroker::shutdown; the open connections are aborted.
StopBroker ==
    /\ sup.pc = "stopBroker" /\ broker' = "none"
    /\ IF sup.error THEN Goto("failed", 0) ELSE Goto("marker", 0)
    /\ UNCHANGED <<children, task, host, marker, stops>>

LookAgain == sup.pc = "marker" /\ PassMarker("pause", PauseWait)

NextRun ==
    /\ sup.pc = "pause" /\ sup.timer = 0
    /\ Goto("look", 0)
    /\ UNCHANGED <<children, task, broker, host, marker, stops>>

\* Whoever started the supervisor does so again.
StartAgain ==
    /\ sup.pc \in Ends /\ sup.run < inst.runs
    /\ sup' = [pc |-> "look", timer |-> 0, error |-> FALSE, run |-> sup.run + 1]
    /\ UNCHANGED <<children, task, broker, host, marker, stops>>

\* Connect and hello, then the ensure request.
EnsureSent ==
    /\ sup.pc = "ensure" /\ sup.timer > 0 /\ call.kind = "none" /\ Sends("ensure")
    /\ UNCHANGED <<sup, children, task, broker, lease, marker, stops>>

SupervisorStep ==
    /\ \/ EnsureSent \/ Ensured \/ NotEnsured \/ StartBroker \/ SpawnWorker \/ SpawnSidecar
       \/ Healthy \/ Notice \/ KillWorker \/ KillSidecar \/ StopLease \/ StopBroker \/ NextRun
       \/ (HonourMarker \/ MarkerError \/ Look \/ LookAgain) /\ UNCHANGED <<children, host>>
    /\ UNCHANGED <<inst, current, switch, asked>>
-----------------------------------------------------------------------------
(* The lease task: run_plugin_app_server_lease.                            *)

\* Mutant: no safety margin.
FullTerm(granted) == IF granted < Interval THEN granted ELSE Interval

\* plugin_app_server_refresh_delay, for a term over the margin.
RefreshDelay(granted) ==
    IF granted - Margin < Interval THEN granted - Margin ELSE Interval

Lasts(pc, timer, granted, late) ==
    task' = [pc |-> pc, timer |-> timer, granted |-> granted, late |-> late,
             stop |-> task.stop]
Wait(pc, timer) == Lasts(pc, timer, task.granted, task.late)

Plan ==
    /\ task.pc = "plan"
    /\ IF task.granted <= Margin THEN Wait("clean", HelloWait)
       ELSE Wait("sleep", RefreshDelay(task.granted))
    /\ UNCHANGED host

SendRefresh ==
    /\ task.pc = "sleep" /\ task.timer = 0
    /\ Wait("refresh", ControlWait) /\ Sends("refresh")
    /\ UNCHANGED lease

\* The next delay counts from the answer, the term from when it was granted.
Refreshed ==
    /\ task.pc = "refresh" /\ ReturnsTo("refresh") /\ call' = NoCall
    /\ IF call.ok
       THEN Lasts("plan", 0, call.granted, call.late)
       ELSE Wait("clean", HelloWait)
    /\ UNCHANGED lease

NotRefreshed ==
    /\ task.pc = "refresh" /\ task.timer = 0 /\ GiveUp
    /\ Wait("clean", HelloWait)

\* cleanup_plugin_app_server_lease_after_error: connect anew, then stop.
Clean ==
    /\ task.pc = "clean"
    /\ \/ task.timer > 0 /\ Wait("stop", ControlWait) /\ Sends("stop")
       \/ Wait("failed", 0) /\ UNCHANGED call
    /\ UNCHANGED lease

SeeStop ==
    /\ task.pc = "sleep" /\ task.stop
    /\ Wait("stop", ControlWait) /\ Sends("stop")
    /\ UNCHANGED lease

\* The stop was answered, or given up; either way the task is over.
Stopped ==
    /\ task.pc = "stop"
    /\ \/ ReturnsTo("stop") /\ call' = NoCall /\ UNCHANGED lease
       \/ task.timer = 0 /\ GiveUp
    /\ \E end \in {"done", "failed"} : Wait(end, 0)

TaskStep ==
    /\ \/ Plan \/ SendRefresh \/ Refreshed \/ NotRefreshed \/ Clean \/ SeeStop \/ Stopped
    /\ UNCHANGED <<inst, sup, children, broker, files, stops>>
-----------------------------------------------------------------------------
(* The worker, the sidecar and their neighbours.                           *)

WorkerStep ==
    \/ worker = "starting" /\ worker' = "up" /\ UNCHANGED <<marker, asked>>
    \/ worker \in Live \cup {"starting"} /\ worker' = "exited" /\ UNCHANGED <<marker, asked>>
    \* write_supervisor_shutdown_marker, not atomic; the shutdown fails with it
    \/ /\ worker = "up" /\ inst.plugin /\ asked < inst.marks
       /\ worker' = "writing" /\ marker' = "unreadable" /\ UNCHANGED asked
    \/ worker = "writing" /\ worker' = "up" /\ UNCHANGED <<marker, asked>>
    \/ worker = "writing" /\ worker' = "marked" /\ marker' = "own" /\ asked' = asked + 1
    \* its answer was not delivered: clear_supervisor_shutdown_marker, which may fail
    \/ worker = "marked" /\ worker' = "up" /\ marker' \in {"none", marker} /\ UNCHANGED asked

SidecarDies == sidecar = "up" /\ sidecar' = "exited"
BrokerDies == broker = "serving" /\ broker' = "ended"

ChildStep ==
    /\ \/ WorkerStep /\ UNCHANGED <<sidecar, broker>>
       \/ SidecarDies /\ UNCHANGED <<worker, broker, marker, asked>>
       \/ BrokerDies /\ UNCHANGED <<children, marker, asked>>
    /\ UNCHANGED <<inst, sup, task, host, current, switch, stops>>

\* activate_release: the link is removed, then made anew.
Activate ==
    /\ \/ /\ switch = "idle" /\ inst.switches > 0
          /\ switch' = "removed" /\ current' = "none"
       \/ /\ switch = "removed"
          /\ switch' = "switched" /\ current' = "new"
    /\ UNCHANGED <<inst, sup, children, task, broker, host, marker, asked, stops>>

Answers(ok, granted) ==
    call' = [kind |-> call.kind, at |-> "back", ok |-> ok, granted |-> granted,
             late |-> call.late]

\* A held lease may be refreshed or stopped; one that ran out may not.
HostGrants ==
    \E g \in inst.grants :
       /\ call.kind = "ensure" \/ (call.kind = "refresh" /\ lease.held /\ lease.left >= 0)
       /\ lease' = [held |-> TRUE, left |-> g]
       /\ Answers(TRUE, g)

HostStops ==
    /\ call.kind = "stop" /\ lease' = [held |-> FALSE, left |-> 0]
    /\ Answers(TRUE, 0)

HostRefuses ==
    /\ Answers(FALSE, 0)
    /\ UNCHANGED lease

HostStep ==
    /\ call.kind # "none" /\ call.at = "host"
    /\ HostGrants \/ HostStops \/ HostRefuses
    /\ UNCHANGED <<inst, sup, children, task, broker, files, stops>>

\* Time passes when nothing is left to do at once, and no timer has run out.
Busy ==
    \/ sup.pc \notin Waits
    \/ sup.pc = "watch" /\ SomethingEnded
    \/ sup.pc = "stopLease" /\ (task.pc \in {"none", "done", "failed"} \/ ~task.stop)
    \/ sup.pc \in {"ensure", "health", "stopLease", "broker", "pause"} /\ sup.timer = 0
    \/ sup.pc = "health" /\ worker \in Live
    \/ task.pc = "plan" \/ (task.pc = "sleep" /\ task.stop)
    \/ task.pc \in {"sleep", "refresh", "clean", "stop"} /\ task.timer = 0
    \/ sup.pc = "ensure" /\ call.kind = "none"

Down(n) == IF n > 0 THEN n - 1 ELSE 0

Tick ==
    /\ ~Busy
    /\ sup' = [sup EXCEPT !.timer = Down(@)]
    /\ task' = [task EXCEPT !.timer = Down(@)]
    /\ call' = IF call.at = "back" THEN [call EXCEPT !.late = @ + 1] ELSE call
    /\ lease' = IF lease.held /\ lease.left > Bottom
                THEN [lease EXCEPT !.left = @ - 1] ELSE lease
    /\ UNCHANGED <<inst, children, broker, files, stops>>
-----------------------------------------------------------------------------
Next == \/ SupervisorStep \/ TaskStep \/ ChildStep \/ HostStep \/ Tick
        \/ Activate
        \/ StartAgain /\ UNCHANGED <<inst, current, switch, asked>>

Spec == Init /\ [][Next]_vars

\* The supervisor and its tasks run, and time passes; nothing is asked of the
\* host, of the worker or of the sidecar.
FairSpec ==
    Spec /\ WF_vars(SupervisorStep) /\ WF_vars(TaskStep) /\ WF_vars(Tick)
-----------------------------------------------------------------------------
Alive == worker \in Live \cup {"starting"} \/ sidecar = "up"

\* When the supervisor looks for the next release, pauses or has returned, nothing
\* of the run before is left: no worker, no sidecar, no broker and no lease task,
\* whatever ended or failed first (run_supervisor).
NoOrphans ==
    sup.pc \in {"look", "pause", "ensure", "marker"} \cup Ends =>
        /\ worker = "none" /\ sidecar = "none" /\ broker = "none"
        /\ task.pc = "none"

\* A refresh leaves before the lease has ended, as long as the answer that
\* granted it was not under way for longer than the margin
\* (plugin_app_server_refresh_delay, run_plugin_app_server_lease).
RefreshedInTime ==
    task.pc = "sleep" /\ task.late <= Margin /\ lease.held => lease.left >= 0

\* Every part of the state has its type and its bound, each timer its time-out,
\* and the lease is refreshed in time (run_plugin_app_server_lease).
LeaseInv == TypeOK /\ RefreshedInTime

\* A lease of the term that is asked for never ends under a worker or a sidecar,
\* however slow or unwilling the host is from then on.  Shorter terms may: then
\* they are killed within 40 s (the wait for the answer, for a healthy worker, for
\* the refresh and for the cleanup; run_plugin_app_server_lease, run_supervisor).
Grace == 8
LeaseCoversChildren ==
    Alive /\ lease.held => lease.left >= IF inst.grants = {Ttl} THEN 0 ELSE -Grace

\* A marker ends one run of the supervisor and no more: the run after it is not
\* stopped by what was asked before (consume_current_supervisor_shutdown_marker).
OneStopPerMarker == stops + (IF marker = "own" THEN 1 ELSE 0) <= asked

\* Every wait has its time-out: when a child, the lease task or the broker has
\* ended, the supervisor takes the others down and goes on to the next run or
\* returns; and a start ends with a healthy worker or with an error.
NeverHangs ==
    /\ (sup.pc = "watch" /\ SomethingEnded) ~> (sup.pc \in {"pause"} \cup Ends)
    /\ sup.pc \in {"ensure", "spawnWorker"} ~> (sup.pc \in {"watch"} \cup Ends)
=============================================================================
