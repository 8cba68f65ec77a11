-------------------------------- MODULE Handoff --------------------------------
(***************************************************************************)
(* Events on their way through an upgrade.                                 *)
(*                                                                         *)
(* A message the worker turned away waits in the deferred-ingress          *)
(* directory until a worker that is active processes it; a notification is *)
(* forwarded through the supervisor's broker to the host, and its sender   *)
(* retries.  The worker keeps a window of the last event ids to recognise  *)
(* a second copy.  An upgrade quiesces and drains the old release, exports *)
(* its window and its deferred records, and imports them into the new one  *)
(* before that becomes active.                                             *)
(*                                                                         *)
(* The gate is in Lifecycle and the drain in SidecarDrain; here a phase    *)
(* changes in one step, and a drained worker is one without a copy, with   *)
(* nothing on the way from its sidecar.                                    *)
(***************************************************************************)
EXTENDS Naturals, FiniteSets, Sequences, SequencesExt

CONSTANTS Message, Notification, None,
          Instances \* what bounds a run and may go wrong in it

ASSUME InstanceAssumption ==
    /\ Message \cap Notification = {} /\ None \notin Message \cup Notification
    /\ Instances \subseteq
        [shared : BOOLEAN,  \* both releases have one plugin home
         window : Nat \ {0}, \* RECENT_EVENT_ID_LIMIT
         earlier : SUBSET Message, \* deferred by a release before the old one
         crashes : Nat, late : Nat, exports : Nat,
         faults : SUBSET {"write", "remove"}]

VARIABLES inst,
          worker,    \* each release's worker: phase, drained, window, queue, item in hand
          replay,    \* each release's sidecar: the record it replays, and the answer
          store,     \* the deferred-ingress directory of each plugin home
          quarantine,\* the messages whose record was moved aside
          note,      \* the sender of each notification
          host,      \* the notifications the host has, by idempotency key
          snapshot,  \* what the host carries from the export to the import
          import,    \* handoff_import in the new release
          budget,    \* crashes, late answers and exports still to come
          away,      \* messages still to arrive
          deferred, handled, twice, forgotten \* history of the events

vars == <<inst, worker, replay, store, quarantine, note, host, snapshot, import,
          budget, away, deferred, handled, twice, forgotten>>
upgradeVars == <<snapshot, import>>
history == <<deferred, handled, twice, forgotten>>

Event == Message \cup Notification
Release == {"old", "new"}
\* A record names the release that deferred it; its file is named by the
\* sidecar (SHA-256 of the id) or by an import (FNV-1a of the id).
Record == [event : Message, name : {"sidecar", "import"},
           release : {"earlier", "old", "new"}]
Copy == [event : Event, kind : {"live", "replay", "note"}, waits : BOOLEAN]
Snapshot == [records : SUBSET Record, recent : Seq(Event)]

ASSUME NoneAssumption == None \notin Record \cup Copy \cup Snapshot

Workers == [phase : {"off", "starting", "Active", "Quiescing"}, drained : BOOLEAN,
            recent : Seq(Event), queue : Seq(Copy), job : Copy \cup {None}]
Replays == [record : Record \cup {None}, answer : {"none", "ok", "failed"}]
Imports == [pc : {"none", "records", "persist", "done"}, created : SUBSET Record,
            before : SUBSET Record, known : SUBSET Message]
Budgets == [crashes : Nat, late : Nat, exports : Nat]

Home(r) == IF inst.shared THEN "old" ELSE r

TypeOK ==
    /\ inst \in Instances
    /\ worker \in [Release -> Workers]
    /\ \A r \in Release : /\ Len(worker[r].recent) <= inst.window
                          /\ IsInjective(worker[r].recent)
    /\ replay \in [Release -> Replays]
    /\ store \in [Release -> SUBSET Record]
    /\ quarantine \subseteq Message
    /\ note \in [Notification -> {"away", "waiting", "ok", "failed"}]
    /\ host \subseteq Notification
    /\ snapshot \in Snapshot \cup {None}
    /\ import \in Imports
    /\ budget \in Budgets
    /\ away \subseteq Message /\ deferred \subseteq Message
    /\ handled \subseteq Event /\ twice \subseteq Event /\ forgotten \subseteq Event

NotRunning == [phase |-> "off", drained |-> FALSE, recent |-> <<>>,
               queue |-> <<>>, job |-> None]
Started == [NotRunning EXCEPT !.phase = "starting"]
Open == [NotRunning EXCEPT !.phase = "Active"]
NoReplay == [record |-> None, answer |-> "none"]
NoImport == [pc |-> "none", created |-> {}, before |-> {}, known |-> {}]

Init ==
    /\ inst \in Instances
    /\ worker = [r \in Release |-> IF r = "old" THEN Open ELSE NotRunning]
    /\ replay = [r \in Release |-> NoReplay]
    /\ store = [r \in Release |-> IF r = "new" THEN {} ELSE
          [event : inst.earlier, name : {"sidecar"}, release : {"earlier"}]]
    /\ quarantine = {} /\ note = [e \in Notification |-> "away"]
    /\ host = {}
    /\ snapshot = None /\ import = NoImport
    /\ budget = [crashes |-> inst.crashes, late |-> inst.late, exports |-> inst.exports]
    /\ away = Message \ inst.earlier /\ deferred = inst.earlier
    /\ handled = {} /\ twice = {} /\ forgotten = {}
-----------------------------------------------------------------------------
(* The window of recent event ids.                                         *)

Remembers(r, e) == Contains(worker[r].recent, e)

\* remember_event: at the back, and the oldest leave at the front.
Remember(recent, e) ==
    IF Contains(recent, e) THEN recent
    ELSE IF Len(recent) < inst.window THEN Append(recent, e)
    ELSE Append(Tail(recent), e)

\* forget_event: an id is in the window at most once.
Forget(recent, e) ==
    IF Contains(recent, e)
    THEN RemoveAt(recent, CHOOSE i \in 1..Len(recent) : recent[i] = e) ELSE recent

\* Mutant: the window of the old release is not taken over.
KeepOwn(recent, ids) == recent

\* merge_recent_event_ids: each id of the snapshot is remembered, in its order.
Merge(recent, ids) ==
    LET merged[i \in 0..Len(ids)] ==
            IF i = 0 THEN recent ELSE Remember(merged[i - 1], ids[i])
    IN  merged[Len(ids)]

\* What a window no longer holds, but for a failed event that is to be retried.
Lost(before, after) == ToSet(before) \ ToSet(after)
-----------------------------------------------------------------------------
(* The sidecar: messages, deferred and replayed.                           *)

Queued(r, c) == worker' = [worker EXCEPT ![r].queue = Append(@, c)]

\* forwardMessage to a worker that takes it: acknowledged when it is queued.
Arrive(r, e) ==
    /\ e \in away /\ worker[r].phase = "Active"
    /\ away' = away \ {e}
    /\ Queued(r, [event |-> e, kind |-> "live", waits |-> FALSE])
    /\ UNCHANGED <<inst, replay, store, quarantine, note, host, upgradeVars, budget,
                   history>>

\* persistDeferredIngress: one file for an id, replaced when it is there.
Put(records, e, r) ==
    {f \in records : f.event # e \/ f.name # "sidecar"}
      \cup {[event |-> e, name |-> "sidecar", release |-> r]}

Persist(r, e) == /\ store' = [store EXCEPT ![Home(r)] = Put(@, e, r)]
                 /\ deferred' = deferred \cup {e}

\* enterDeferredIngressMode, for a callback that began before the fence.
Defer(r, e) ==
    /\ e \in away /\ worker[r].phase = "Quiescing" /\ ~worker[r].drained
    /\ away' = away \ {e}
    /\ Persist(r, e)
    /\ UNCHANGED <<inst, worker, replay, quarantine, note, host, upgradeVars,
                   budget, handled, twice, forgotten>>

\* deferredIngressReplayEligibility: a record of another release may be too old.
MayBeStale(r, record) == record.release # r

Quarantine(r, record) ==
    /\ quarantine' = quarantine \cup {record.event}
    /\ store' = [store EXCEPT ![Home(r)] = @ \ {record}]

PutAside(r, record) ==
    /\ worker[r].phase = "Active" /\ replay[r] = NoReplay
    /\ record \in store[Home(r)] /\ MayBeStale(r, record)
    /\ Quarantine(r, record)
    /\ UNCHANGED <<inst, worker, replay, note, host, upgradeVars, budget,
                   away, history>>

\* The worker was active when it was asked, and refuses now.
Redefer(r, record) ==
    /\ worker[r].phase = "Quiescing" /\ ~worker[r].drained /\ replay[r] = NoReplay
    /\ record \in store[Home(r)]
    /\ Persist(r, record.event)
    /\ UNCHANGED <<inst, worker, replay, quarantine, note, host, upgradeVars, budget, away,
                   handled, twice, forgotten>>

\* refreshReplayEnvelope: the worker is to answer when it has processed it.
Replay(r, record) ==
    /\ worker[r].phase = "Active" /\ replay[r] = NoReplay
    /\ record \in store[Home(r)]
    /\ replay' = [replay EXCEPT ![r].record = record]
    /\ Queued(r, [event |-> record.event, kind |-> "replay", waits |-> TRUE])
    /\ UNCHANGED <<inst, store, quarantine, note, host, upgradeVars, budget,
                   away, history>>

\* Processed: the record goes.  Refused for good: it is moved aside.
ReplayEnds(r) ==
    /\ replay[r].answer # "none"
    /\ \/ /\ replay[r].answer = "ok" /\ UNCHANGED quarantine
          /\ store' = [store EXCEPT ![Home(r)] = @ \ {replay[r].record}]
       \/ replay[r].answer = "failed" /\ Quarantine(r, replay[r].record)
    /\ replay' = [replay EXCEPT ![r] = NoReplay]
    /\ UNCHANGED <<inst, worker, note, host, upgradeVars, budget, away, history>>

\* The worker was not in time (105 s): it goes on, and nobody waits for it.
StopWaiting(w, kind, e) ==
    LET still(c) == IF c # None /\ c.kind = kind /\ c.event = e
                    THEN [c EXCEPT !.waits = FALSE] ELSE c
    IN  [w EXCEPT !.queue = [i \in DOMAIN @ |-> still(@[i])], !.job = still(@)]

\* Mutant: the record of a replay that is not over goes.
ReplayLateDone(r) ==
    /\ replay[r].record # None /\ replay[r].answer = "none" /\ budget.late > 0
    /\ budget' = [budget EXCEPT !.late = @ - 1]
    /\ worker' = [worker EXCEPT ![r] = StopWaiting(@, "replay", replay[r].record.event)]
    /\ store' = [store EXCEPT ![Home(r)] = @ \ {replay[r].record}]
    /\ replay' = [replay EXCEPT ![r] = NoReplay]
    /\ UNCHANGED <<inst, quarantine, note, host, upgradeVars, away, history>>

\* It is deferred again, in a file of its own name; the record stays.
ReplayLate(r) ==
    /\ replay[r].record # None /\ replay[r].answer = "none" /\ budget.late > 0
    /\ budget' = [budget EXCEPT !.late = @ - 1]
    /\ worker' = [worker EXCEPT ![r] = StopWaiting(@, "replay", replay[r].record.event)]
    /\ Persist(r, replay[r].record.event)
    /\ replay' = [replay EXCEPT ![r] = NoReplay]
    /\ UNCHANGED <<inst, quarantine, note, host, upgradeVars, away,
                   handled, twice, forgotten>>

SidecarStep(r) ==
    \/ \E e \in Message : Arrive(r, e) \/ Defer(r, e)
    \/ \E record \in store[Home(r)] :
          PutAside(r, record) \/ Redefer(r, record) \/ Replay(r, record)
    \/ ReplayEnds(r) \/ ReplayLate(r)
-----------------------------------------------------------------------------
(* Notifications and their senders.                                        *)

Notify(r, e) ==
    /\ note[e] \in {"away", "failed"} /\ worker[r].phase = "Active"
    /\ note' = [note EXCEPT ![e] = "waiting"]
    /\ Queued(r, [event |-> e, kind |-> "note", waits |-> TRUE])
    /\ UNCHANGED <<inst, replay, store, quarantine, host, upgradeVars, budget,
                   away, history>>

NotifyLate(e) ==
    /\ note[e] = "waiting" /\ budget.late > 0
    /\ budget' = [budget EXCEPT !.late = @ - 1]
    /\ note' = [note EXCEPT ![e] = "failed"]
    /\ worker' = [r \in Release |-> StopWaiting(worker[r], "note", e)]
    /\ UNCHANGED <<inst, replay, store, quarantine, host, upgradeVars, away,
                   history>>
-----------------------------------------------------------------------------
(* The worker: handle_webex_ingress, one item at a time.                   *)

Answer(r, c, result) ==
    /\ replay' = IF c.kind = "replay" /\ c.waits
                 THEN [replay EXCEPT ![r].answer = result] ELSE replay
    /\ note' = IF c.kind = "note" /\ c.waits
               THEN [note EXCEPT ![c.event] = result] ELSE note

\* Mutant: a notification too is remembered when its processing begins.
RememberEach(recent, c) == Remember(recent, c.event)

\* A message is remembered when its processing begins, a notification when the
\* host has it.
RememberFirst(recent, c) == IF c.event \in Message THEN Remember(recent, c.event) ELSE recent

Begin(r) ==
    /\ worker[r].job = None /\ worker[r].queue # <<>>
    /\ LET c == Head(worker[r].queue) IN
       IF Remembers(r, c.event)
       THEN /\ worker' = [worker EXCEPT ![r].queue = Tail(@)]
            /\ Answer(r, c, "ok") /\ UNCHANGED forgotten
       ELSE /\ worker' = [worker EXCEPT ![r].queue = Tail(@), ![r].job = c,
                                        ![r].recent = RememberFirst(@, c)]
            /\ forgotten' = forgotten \cup Lost(worker[r].recent, worker'[r].recent)
            /\ UNCHANGED <<replay, note>>
    /\ UNCHANGED <<inst, store, quarantine, host, upgradeVars, budget, away,
                   deferred, handled, twice>>

\* handle_session_message and its like: when it fails, the event is forgotten if
\* a replay waits for it, for a later one.
FinishMessage(r) ==
    /\ worker[r].job # None /\ worker[r].job.event \in Message
    /\ LET c == worker[r].job  e == c.event IN
       \E result \in {"ok", "failed"} :
         /\ worker' = [worker EXCEPT ![r].job = None,
              ![r].recent = IF result = "failed" /\ c.kind = "replay"
                            THEN Forget(@, e) ELSE @]
         /\ handled' = IF result = "ok" THEN handled \cup {e} ELSE handled
         /\ twice' = IF result = "ok" /\ e \in handled THEN twice \cup {e} ELSE twice
         /\ Answer(r, c, result)
    /\ UNCHANGED <<inst, store, quarantine, host, upgradeVars, budget, away,
                   deferred, forgotten>>

Forwarding(r) == worker[r].job # None /\ worker[r].job.event \in Notification

\* The broker's request reaches the host, and its answer the worker.
Enqueued(r) ==
    /\ Forwarding(r)
    /\ LET c == worker[r].job IN
         /\ host' = host \cup {c.event}
         /\ worker' = [worker EXCEPT ![r].job = None,
                                     ![r].recent = Remember(@, c.event)]
         /\ forgotten' = forgotten \cup Lost(worker[r].recent, worker'[r].recent)
         /\ Answer(r, c, "ok")
    /\ UNCHANGED <<inst, store, quarantine, upgradeVars, budget, away,
                   deferred, handled, twice>>

\* No session to deliver to, no broker, a refusal, a lost answer or a deadline
\* (75 s in the broker, 90 s here): the host may have the request all the same.
NotEnqueued(r) ==
    /\ Forwarding(r)
    /\ worker' = [worker EXCEPT ![r].job = None]
    /\ host' \in {host, host \cup {worker[r].job.event}}
    /\ Answer(r, worker[r].job, "failed")
    /\ UNCHANGED <<inst, store, quarantine, upgradeVars, budget, away, history>>

WorkerStep(r) == Begin(r) \/ FinishMessage(r) \/ Enqueued(r) \/ NotEnqueued(r)
-----------------------------------------------------------------------------
(* The upgrade: the host drives it.                                        *)

Others == <<inst, quarantine, host, away, deferred, handled, twice>>

Quiesce ==
    /\ worker["old"].phase = "Active" /\ budget.exports > 0
    /\ worker' = [worker EXCEPT !["old"].phase = "Quiescing", !["old"].drained = FALSE]
    /\ UNCHANGED <<Others, replay, store, note, upgradeVars, budget, forgotten>>

\* Nothing is queued, in hand or on the way from the sidecar.
Drain ==
    /\ worker["old"].phase = "Quiescing" /\ worker["old"].queue = <<>>
    /\ worker["old"].job = None /\ replay["old"] = NoReplay
    /\ worker' = [worker EXCEPT !["old"].drained = TRUE]
    /\ UNCHANGED <<Others, replay, store, note, upgradeVars, budget, forgotten>>

\* Mutant: only the records of the release that exports.
CollectOwn(r) == {record \in store[Home(r)] : record.release = r}

\* collect_sidecar_handoff_state: every record of the instance, by file name.
Collect(r) == store[Home(r)]

\* export_handoff_snapshot; the answer may not fit into a frame.
Export ==
    /\ worker["old"].drained /\ snapshot = None /\ budget.exports > 0
    /\ snapshot' = [records |-> Collect("old"), recent |-> worker["old"].recent]
    /\ budget' = [budget EXCEPT !.exports = @ - 1]
    /\ UNCHANGED <<Others, worker, replay, store, note, import, forgotten>>

StartNew ==
    /\ worker["new"].phase = "off" /\ worker["old"].phase = "Quiescing"
    /\ worker' = [worker EXCEPT !["new"] = Started]
    /\ UNCHANGED <<Others, replay, store, note, upgradeVars, budget, forgotten>>

\* import_handoff_snapshot: decoded and validated, then written step by step.
BeginImport ==
    /\ worker["new"].phase = "starting" /\ snapshot # None
    /\ import.pc \in {"none", "done"}
    /\ import' = [pc |-> "records", created |-> {}, before |-> store[Home("new")],
                  known |-> {record.event : record \in store[Home("new")]}]
    /\ UNCHANGED <<Others, worker, replay, store, note, snapshot, budget, forgotten>>

\* One record whose event is not there yet, under the name an import gives it.
ImportRecord(record) ==
    /\ import.pc = "records" /\ record \in snapshot.records
    /\ record.event \notin import.known
    /\ LET file == [record EXCEPT !.name = "import"] IN
         /\ store' = [store EXCEPT ![Home("new")] = @ \cup {file}]
         /\ import' = [import EXCEPT !.created = @ \cup {file},
                                     !.known = @ \cup {file.event}]
    /\ UNCHANGED <<Others, worker, replay, note, snapshot, budget, forgotten>>

\* Then the payload, which nothing reads, and the mirror.
ImportedRecords ==
    /\ import.pc = "records"
    /\ {record.event : record \in snapshot.records} \subseteq import.known
    /\ import' = [import EXCEPT !.pc = "persist"]
    /\ UNCHANGED <<Others, worker, replay, store, note, snapshot, budget, forgotten>>

\* All is written, and only then does the worker take the state over.
ImportEnds ==
    /\ import.pc = "persist"
    /\ worker' = [worker EXCEPT !["new"].recent = Merge(@, snapshot.recent)]
    /\ forgotten' = forgotten \cup Lost(worker["new"].recent, worker'["new"].recent)
    /\ import' = [NoImport EXCEPT !.pc = "done"]
    /\ UNCHANGED <<Others, replay, store, note, snapshot, budget>>

\* Mutant: what was written before the step that failed stays.
KeepFiles(records) == records

\* HandoffImportRollback: every file that was created goes.
Undone(records) == records \ import.created

\* A write fails.  A file that can not be removed stays, with a warning.
ImportFails ==
    /\ import.pc \in {"records", "persist"} /\ "write" \in inst.faults
    /\ \/ store' = [store EXCEPT ![Home("new")] = Undone(@)]
       \/ "remove" \in inst.faults /\ import.created # {} /\ UNCHANGED store
    /\ import' = NoImport
    /\ UNCHANGED <<Others, worker, replay, note, snapshot, budget, forgotten>>

\* The new release opens.  Without an import it has no window, and in a plugin
\* home of its own it would have no records: the host does not do that.
Promote ==
    /\ worker["new"].phase = "starting" /\ worker["old"].drained
    /\ import.pc \in IF inst.shared THEN {"none", "done"} ELSE {"done"}
    /\ worker' = [worker EXCEPT !["new"].phase = "Active", !["old"] = NotRunning]
    /\ forgotten' = IF import.pc = "done" THEN forgotten
                    ELSE forgotten \cup Lost(worker["old"].recent, worker["new"].recent)
    /\ snapshot' = None
    /\ UNCHANGED <<Others, replay, store, note, import, budget>>

\* The upgrade is given up: the new release is stopped, the old one opens again.
Abort ==
    /\ worker["old"].phase = "Quiescing"
    /\ worker' = [worker EXCEPT !["old"].phase = "Active", !["old"].drained = FALSE,
                                !["new"] = NotRunning]
    /\ snapshot' = None /\ import' = NoImport
    /\ UNCHANGED <<Others, replay, store, note, budget, forgotten>>

\* A process dies: the supervisor stops the others and the host starts it again,
\* the new release not yet open while there is an old one.  When the old one dies,
\* the upgrade is given up.
Crash(r) ==
    /\ worker[r].phase # "off" /\ budget.crashes > 0
    /\ budget' = [budget EXCEPT !.crashes = @ - 1]
    /\ worker' = IF r = "old" THEN [worker EXCEPT !["old"] = Open, !["new"] = NotRunning]
                 ELSE [worker EXCEPT !["new"] = IF worker["old"].phase # "off"
                                                THEN Started ELSE Open]
    /\ forgotten' = IF worker[r].phase = "starting" THEN forgotten
                    ELSE forgotten \cup ToSet(worker[r].recent)
    /\ replay' = [replay EXCEPT ![r] = NoReplay]
    /\ note' = [e \in Notification |->
          IF note[e] = "waiting" /\ worker[r].phase # "starting" THEN "failed" ELSE note[e]]
    /\ import' = NoImport
    /\ snapshot' = IF r = "old" THEN None ELSE snapshot
    /\ UNCHANGED <<Others, store>>

UpgradeStep ==
    \/ Quiesce \/ Drain \/ Export \/ StartNew \/ BeginImport
    \/ \E record \in Record : ImportRecord(record)
    \/ ImportedRecords \/ ImportEnds \/ ImportFails
    \/ Promote \/ Abort
-----------------------------------------------------------------------------
Next ==
    \/ \E r \in Release : SidecarStep(r) \/ WorkerStep(r) \/ Crash(r)
    \/ \E r \in Release, e \in Notification : Notify(r, e)
    \/ \E e \in Notification : NotifyLate(e)
    \/ UpgradeStep

Spec == Init /\ [][Next]_vars
-----------------------------------------------------------------------------
\* A message that was deferred is not lost, however often it is turned away or
\* late, whatever crashes and however an upgrade goes: it has been processed, or
\* was moved aside, or a release that runs has a record of it
\* (persistDeferredIngress, replayDeferredIngress, import_handoff_snapshot).
DeferredSurvives ==
    \A e \in deferred \ (handled \cup quarantine) :
        \E r \in Release : /\ worker[r].phase # "off"
                           /\ \E record \in store[Home(r)] : record.event = e

\* A message is processed twice only if its id has left the window of the worker
\* that processed it: by age, a crash, or an upgrade without a handoff
\* (remember_event, merge_recent_event_ids).
ProcessedOnce == twice \subseteq forgotten

\* A notification is acknowledged to its sender only when the host has it, also
\* when the answer to an earlier attempt was lost or late
\* (handle_webex_ingress, enqueue_async_notification).
AcknowledgedIsEnqueued == \A e \in Notification : note[e] = "ok" => e \in host

\* Every part of the state has its type, a window its limit and no id twice, and
\* what was acknowledged is with the host (remember_event, handle_webex_ingress).
AcknowledgementInv == TypeOK /\ AcknowledgedIsEnqueued

\* An import leaves a record for each message it was given and all its ids, or,
\* when a write fails and the files can be removed, what it found
\* (import_handoff_snapshot, HandoffImportRollback).
ImportIsWhole ==
    [][import.pc \in {"records", "persist"} =>
         /\ import'.pc = "done" =>
              /\ \A record \in snapshot.records :
                    \E kept \in store'[Home("new")] : kept.event = record.event
              /\ \/ Len(snapshot.recent) + Len(worker["new"].recent) > inst.window
                 \/ ToSet(snapshot.recent) \subseteq ToSet(worker'["new"].recent)
         /\ (ImportFails /\ "remove" \notin inst.faults) =>
              /\ store'[Home("new")] = import.before
              /\ worker'["new"].recent = worker["new"].recent]_vars
=============================================================================
