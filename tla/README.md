# TLA+ models of the Codex–Webex connector

The connector bridges Codex sessions and Webex rooms. It runs as three
processes: a **supervisor** that starts and watches the other two, a **worker**
that owns the sessions, and a Node **sidecar** that listens on the Webex
websocket. In plugin mode a host (`cbth`) manages the connector: it leases the
Codex app-server to it, brokers deliveries, and upgrades it by driving the
worker's lifecycle plane (quiesce, drain, shutdown, unquiesce, handoff).

This directory holds TLA+ modules translated from the code, the TLC
configurations that check them on small instances, and proofs checked by TLAPS.

## 1. Inventory

| part | state | operations | talks to |
|---|---|---|---|
| worker: lifecycle plane (`wxcd-worker/src/main.rs` 300–720, 3215–3390, 4042–4475, 4640–5132) | admission phase, generation and cutoff under one mutex; `in_flight` counter; `startup_reconcile_*` flags; shutdown marker file | quiesce, drain, shutdown, unquiesce, health check; permits | control connections (one task each), the worker loop through a bounded queue, the sidecar's drain files |
| worker: ingress (5192–5345) | one permit per event | admit, queue, acknowledge on queueing or on processing | sidecar, worker loop |
| worker: loop (995–1164) | current item | events, commands, Codex events, ctrl-c | everything |
| worker: sessions and approvals (1641–3180) | session table, pending approvals, room index | `/new`, `/resume`, `/pause`, `/stop`, `/archive`, `/cleanup`, prompts, Codex notifications, approval answers, startup reconcile | Webex, Codex, event log |
| worker: mirror (3180–3250, 6166–6455) | replay state, tombstones, local snapshot file | persist event, snapshot, merge local over remote | event log |
| worker: delivery and deduplication (1343–1621, 6459–6495) | 1024 recent event ids | accept once, forget on failure, forward with idempotency key | supervisor's broker |
| worker: handoff (3390–4040) | exported payload, rollback copy | export, import, rollback | control connections, files |
| event log crate | none; messages in a Webex room | append, page backwards to a snapshot, replay | Webex |
| Codex client crate | pending requests, closed flag, event channel of 512 | request, response, notification, close | app-server |
| supervisor: run loop | child processes, lease, broker, marker | start, watch, restart after 2 s, exit on a marker | worker, sidecar, host |
| supervisor: lease | deadline, cancellation | acquire, refresh, release | host |
| supervisor: broker | connections | forward one delivery, reject leased targets | worker, host |
| sidecar | listener flags, in-flight count, inactive observation, drain-state file, deferred-ingress directory | receive, forward with retry, defer, replay, quarantine, monitor the worker | worker, Webex, file system |
| cbth RPC, Webex API, protocol, render crates | none that changes | serialisation, HTTP, validation, layout | |

What is hard, and where the properties are aimed (PROJECT.json lists each hazard
at its line):

- the admission gate is moved by connection tasks and by the worker loop, and
  both may outlive the request they act for: a connection answers its client
  after 65 s although the loop still runs the command, and the loop commits only
  after the connection has flushed the answer;
- draining looks at four counters that are read at different moments: ingress
  permits, Codex runtime, queued Codex events, and a file the sidecar writes;
- a live event is acknowledged when it is queued, a replayed one when it is
  processed; both survive an upgrade only if the drain sees them;
- the session mirror is written to a remote room and to a local file, either of
  which may fail, and the two are merged at the next start;
- requests to Codex have no deadline, and the channel on which Codex events
  reach the same loop is bounded.

What makes the parts correct:

- *lifecycle*: a quiesce holds until an unquiesce prepared after it commits; an
  activation or a shutdown fence is owned, and ends; nothing is committed before
  the client knows; the drain counter is exact; nothing newer than the cutoff is
  admitted by a fenced gate;
- *drain accounting*: a worker that reports itself drained has no callback left
  in the sidecar, in a connection, in the queue or in the loop, provided that a
  sidecar which runs publishes in time;
- *deferred ingress*: a deferred event is handled by this or a later worker, or
  quarantined, and handled once as long as the window of ids holds it;
- *sessions*: the room index, the table and the approvals agree; a session that
  is archived stays so; a turn that ended does not come back;
- *mirror*: what replay computes is what the events say; tombstones win;
- *handoff*: an import takes effect whole or not at all; a notification is
  acknowledged only when the host has it;
- *supervisor*: no child, lease task or broker outlives its run; a marker stops
  one run and no more; a lease outlives the children that use it, when the host
  grants the term it is asked for;
- *Codex client*: every request is answered or failed when the connection goes,
  and events arrive whole and in order.

## 2. Plan

Modelled, checked and proved, the most important behaviour first:

1. `LifecycleControl`, `AdmissionGate`, `Lifecycle`: the admission gate and what the
   requests make of it; `LifecycleProofs`;
2. `SidecarDrain`: the sidecar's counter, file and listeners next to the gate;
   promise: a drained worker is quiet; `SidecarDrainProofs`;
3. `EventLog`: replay as a fold, checked against a direct definition of what a
   log means, and paging; `Mirror`: remote and local persistence, merging;
   `EventLogProofs`, `MirrorProofs`;
4. `Sessions`: sessions, turns and approvals, partial failures; `SessionsProofs`;
5. `CodexClient`: pending requests, the reader, the bounded channel;
   `CodexClientProofs`;
6. `Supervisor`: children, marker, lease; `SupervisorProofs`;
7. `Handoff`: deferred records, the window of event ids, notifications through the
   broker, and the upgrade that composes two releases; `HandoffProofs`.

Every safety property of a passing run is proved, some under hypotheses that section
5 names. Liveness is model-checked.

## 3. What is modelled

### LifecycleControl

`struct LifecycleControl` as pure operators on `[phase, generation, since]`.
Each method holds the `phase` mutex for its whole length, so each operator is
one atomic step. Where the code answers `None` the guard is an operator of its
own. `generation` is a `u64` with wrapping addition and a `Nat` here.

### AdmissionGate

The abstract promise: a gate that is quiesced, claimed, fenced; a fence is final
or gives back exactly the phase it found.

### Lifecycle

One worker process in plugin mode.

| TLA+ | code |
|---|---|
| `ctl` | `LifecycleControl.phase` |
| `inFlight` | `LifecycleControl.in_flight` |
| `rpc[r]` | the task of one control connection: where it is in `handle_lifecycle_rpc_frame`, the age of its request, the token or previous phase it holds, its answer |
| `ingress[i]` | the task of one ingress connection |
| `queue` | the `mpsc::channel(256)` of `WorkerQueueItem` |
| `worker` | the worker loop: the item in hand, where it is in the command, whether the runtime count left work, the activation it claimed |
| `startup` | `startup_reconcile_pending`, `_completed`, `_persist_pending` |
| `marker` | the supervisor shutdown marker exists |
| `fenced`, `outdated` | history: a quiesce was accepted and no later unquiesce has committed; the unquiesce requests a quiesce overtook |

The connection of a quiesce answers at once. A drain quiesces and waits for the
permits, a shutdown fences and waits, an unquiesce only notes the generation;
then they queue a command and wait for its completion (`Enqueue`, `Age`,
`RequestTimeout`). Deadlines are ages: a request is fresh, past the 30 s queue
deadline, or past the 65 s response deadline, and may age whenever it waits. The
worker takes one item, and a command goes through `BeginRuntimeDrain`,
`DrainRuntime`, `CountRuntime` and `CommitDrain` or `CommitShutdown`, or through
`BeginUnquiesce` and `Reconcile`; shutdown and unquiesce end in `Flushed` or
`FlushFailed`. Each await of the code is a step boundary. What Codex, Webex and
the sidecar's files answer is a nondeterministic choice.

`WriteResponse` may fail (the client is gone). `FlushFailed` may happen although
the answer is written later: the code waits 5 s and then undoes.

### SidecarDrain

The worker's gate and drain decision next to the sidecar that feeds it. It
extends `LifecycleControl`, like `Lifecycle`, but keeps one lifecycle request at
a time: overlapping requests are the subject of `Lifecycle`.

| TLA+ | code |
|---|---|
| `ctl`, `drain` | worker: `LifecycleControl.phase`; the drain or shutdown being decided: waiting for the permits, runtime drained, files read, one of them being removed, permits counted, accepted |
| `work`, `handled` | worker: admitted copies of an event (one permit each); events processed |
| `callback[c]` | sidecar: one Webex callback or the one replay, at the await where it stands |
| `inFlight`, `observed` | `sidecarInFlightCount`, `workerInactiveObservedAt` |
| `listen` | the two websocket listeners and the flag `listenersActive` |
| `loop` | `main` and `monitorWorkerActive`: the check, its answer, the replay list, starting or stopping the listeners; or the sidecar is gone |
| `writes`, `writing`, `file` | the promise chain of `queueSidecarDrainStateWrite`, the write in progress with the values it took, the drain-state file with its `updated_at` (`at`) |
| `beat` | the timer of `startSidecarDrainStateHeartbeat` |
| `left` | a drain-state file of this scope that an earlier sidecar left: it does not parse, its process is gone, or its process id is another process's now |
| `store`, `quarantine` | the deferred-ingress directory, the records moved aside |
| `lapsed` | history: a drain ignored the file of a sidecar that runs |

The sidecar is one JavaScript thread: a step runs from one await to the next and
everything between two awaits is atomic. A file write takes its values when it
begins and shows them when it ends (it is renamed into place). The answer to an
`active_check` is decided in the worker (`Check`) and acted upon later
(`TakeAnswer`). What the worker makes of an event and whether a fetch succeeds
are nondeterministic choices.

`SidecarClear` is `sidecar_drain_in_flight_count_after` answering 0, in the code's
order: a file that does not parse, that is older than 120 s (`TooOld`) or whose
process is gone counts nothing and is removed (`Ignored`, `RemoveFile`), and only
the others are asked whether they saw the worker inactive after the fence. The
removal is a step of its own, by name, may fail, and may hit a file published
after the one that was read. The files are read by a drain and a shutdown, when
they decide and when they are refused (`Hopeless`), and by the export of a handoff,
which asks for a drained worker in the same way (`Export`).

The sidecar may exit at any moment (`Exit`): killed, crashed, or in an orderly
shutdown, which is one step here. Its worker goes on, with the file or without it,
until the supervisor kills it.

### EventLog

The Data Space as a sequence of messages, and its replay as operators on it:
`Apply` is `ReplayState::apply`, `ReplayMessages` the fold after the last snapshot
that decodes, `Pages` and `NeedsOlderPage` the reading from the newest message
backwards. A message is an event, a snapshot, or one of each that does not
decode; other text is like an event that does not decode. The module also states what
a log *means* without a fold: the last word on each key counts. `Room(M)` is a
room in which messages of a set `M` are written by anybody in any order, `WellFormed`
the form that events and snapshots have; `MCEventLog` gives a set of messages and
a length.

### Mirror

`Mirror` extends `EventLog` with the workers that write the log.

| TLA+ | code |
|---|---|
| `log` | the Data Space, shared by the installations `Inst` |
| `mem[w]` | `WorkerState` of a running worker, with the replay's tombstones and `events_since_snapshot` |
| `work[w]` | where the handler in hand is in `persist_event` or `persist_snapshot`, and what it has still to change and persist |
| `file[w]` | the local snapshot: none, torn, or a snapshot with its writer |
| `now` | the clock: it moves with every change that is stamped, so two stamps differ and a snapshot may be as new as the change before it |
| `born`, `ended`, `settled` | history: ids in use, what was purged or resolved, what of it the local file was told |

A start is one step: replay, merge or claim, and, when that changed something,
a snapshot that goes through the same steps as any other. The handlers of the
loop run one at a time; each makes its change in memory and then appends, maybe
appends a snapshot, and writes the file, and a crash may come before each.
Handlers that persist twice (a creation, an approval, a purge) do so in order.
Of a session `owner`, `mirror`, `archived` and `updated` are kept, which is what
the merge decides on; every `SessionUpdated` is `Update`. The `faults` of a plan say
what may fail: appends, reading the Data Space, writing the file, listing Codex
threads, and the worker itself. `NeverBehind` says of a plan that a worker which
starts with its file alone, because it can not read the Data Space, finds a file
that no crash and no failed write has left behind.

### Sessions

The session table of one worker and the Codex threads behind it.

| TLA+ | code |
|---|---|
| `state` | `WorkerState`: `table` (`sessions`), `rooms` and `threads` (`room_to_session`, `thread_to_session`), `pending` (`pending_approvals`) |
| a record of `table` | `SessionRecord`: `thread_id`, `state`, `archived`, `active_turn_id` (`turn`), and whether there is a `last_final` |
| `events` | the channel from the Codex client: notifications and approval requests |
| `codex` | external: each thread's turn and the questions it waits with |
| `born`, `turns` | the session ids, approval ids and turns used so far |

A handler of the loop is one step, because the loop runs one at a time; `Upsert`,
`Remove`, `WithoutApprovals` and `Rebuilt` are the methods of `WorkerState` it
calls. The concurrency is with Codex: a turn may end, ask or be replaced at any
moment, and the loop hears of it later, from the channel, in between commands and
answers. What calls answer is a choice of the step, limited by the `faults` of the
plan. A handler that stops at an error before it has changed anything is no step;
one that Codex obeyed and whose answer was lost is (`codex`).

What is assumed of Codex: a thread runs one turn at a time, a prompt on a thread
that runs one replaces it, an interrupted, replaced or finished turn is reported,
status and completion in either order, and a turn waits for the answers to its
questions. Archiving a thread ends its turn, reported or not.

### CodexClient

The worker loop as the only caller of the client (it makes one request at a time
and takes events only between them), the reader task, and what they share.

| TLA+ | code |
|---|---|
| `state` | `ConnectionState`: `pending`, `closed`; each step that touches it holds its mutex |
| `caller` | the worker loop in `request`, `respond` or at rest, and `next_id` |
| `outcome` | the oneshot of each request: empty, answered, failed |
| `lock` | the mutex around `CodexWriter`, which requests and pongs share |
| `reader` | `read_stdout` or `read_websocket`, with the event it is sending or the requests it has drained |
| `partial` | `WebSocketReadState::partial_text` |
| `channel`, `taken` | `mpsc::channel(512)`, and the events the loop took from it |
| `wire`, `server` | external: frames under way; the app-server, what it has half said or may still do wrong |
| `said` | history: how many events were sent, and each answer with the number of events before it |

A message is a text frame or two fragments; a size is up to 125 bytes, up to the
frame limit, or more; what the bytes decode to is a message or junk. Each await is
a step boundary, so the mutex of the writer, the send to a full channel and the
close of the connection from either task interleave. The server may answer late,
twice or never, send control frames between fragments, break the protocol and end
at any moment. Two things the code does are kept as they are: a request whose frame
can not be written (or is over the limit) closes the client though the connection
may be sound, and `respond` does not.

### Supervisor

| TLA+ | code |
|---|---|
| `sup` | `run_supervisor`: where it is, the deadline of its wait, whether an error ends it, which start it is |
| `worker`, `sidecar` | the child processes; the worker may be writing the shutdown marker |
| `task` | `run_plugin_app_server_lease`: its timer, the term granted, whether it was told to stop |
| `broker` | the task of `run_delivery_broker` |
| `call`, `lease` | the RPC to the host under way, and the host's side of the lease |
| `marker` | the marker file: none, its own, another instance's or release's, unreadable |
| `current`, `switch` | the `current` link, and `activate_release` in another process, which removes it and makes it anew |
| `asked`, `stops` | history: markers completed, runs that a marker ended |

Time passes in units of 5 s and only when nothing can be done at once (`Busy`);
timers are the code's constants, rounded up (the 6 s for a task to stop, down). The
host grants any of the instance's terms, refuses, or is late; a call that is given
up may still have its effect. The children die when they like, before, during and
after the wait for a healthy worker.

The supervisor spawns its children without `kill_on_drop`: one that is killed
itself leaves them running. Its own death is not modelled. A lease task that does
not stop within 6 s is aborted; what it held then ends with its term.

### Handoff

Two releases, and an event's way through them.

| TLA+ | code |
|---|---|
| `worker[r]` | phase and drained (what `Lifecycle` and `SidecarDrain` say in detail), `recent` (`recent_event_queue` with its set), the queue and the item in hand |
| `replay[r]` | the record the sidecar of `r` replays, and the worker's answer |
| `store`, `quarantine` | the deferred-ingress directory of each plugin home, the records moved aside |
| `note`, `host` | senders of notifications; what the host has enqueued, by idempotency key |
| `snapshot`, `import` | the handoff payload with the host; `import_handoff_snapshot`, with `HandoffImportRollback::created_paths` as `created` |
| `deferred`, `handled`, `twice`, `forgotten` | history: events deferred, processed, processed again, and ids a window has lost by age, a crash or an upgrade without handoff |

A message is remembered when its processing begins and forgotten when a *replay* of
it fails; a live one that fails stays remembered. A notification is remembered when
the host has it. The file of a record is named by a SHA-256 of the id in the sidecar
and by an FNV hash in an import, so an imported record that is deferred again is a
second file for one event, which the model keeps (`name`). A replay that is
refused for good is moved aside, one that is late is deferred again.

Both forms of an upgrade are there: one plugin home for both releases, which is the
normal one, and a home of its own for the new release, which is what the import's
writing of records is for. A host that gave the new release its own home is assumed
not to open it without an import. In which phase a restarted worker comes back is
the host's choice.

### The proof modules

`LifecycleProofs`, `SidecarDrainProofs`, `EventLogProofs`, `MirrorProofs`,
`SessionsProofs`, `CodexClientProofs`, `SupervisorProofs` and `HandoffProofs` extend the
modules they are named for (`MirrorProofs` also `EventLogProofs`) and change nothing in
them; section 5 says what they establish.

## 4. What is checked

| run | instance | shows |
|---|---|---|
| `lifecycle_gate` | three requests, at most one shutdown, queue of 2, no traffic | `QuiesceHolds`, `ActivationOwned`, `ReadyBeforeActive`, `ShutdownHeld`, `CommitOnlyAfterAck`, and that the plane implements `AdmissionGate` (`GateSpec`) |
| `lifecycle_ingress` | a shutdown and a drain or an unquiesce, two events (one stamped, one that waits for processing), a queue of 1, two milliseconds | `TypeOK`, `PermitsCounted`, `NothingNewIsLost` |
| `lifecycle_liveness` | two requests, one event, a queue of 1 | `RequestsAnswered`, `ShutdownResolves` without assuming that Codex or Webex answer the worker, `ActivationResolves` when they do |
| `lifecycle_two_shutdowns` | two shutdowns and a quiesce | violation, see below |
| `sidecar` | one event with its late copy, two milliseconds, two transitions of the gate; the same within one millisecond, four transitions; a message and an attachment action whose callbacks overlap; a file left by an earlier sidecar, three milliseconds | `CounterInv`, `DrainedIsQuiet`, `NoneForgotten`, `DrainBecomesPossible` |
| `sidecar_stalled` | one event, three milliseconds, one fence | violation, see below |
| `eventlog_replay` | any five messages, two sessions, one approval, pages of 2, a limit of 2 pages | `ReplayIsMeaning`, `PagingIsExact` |
| `mirror_faults` | crashes, torn files and failed listings with two sessions; the same with a session and an approval; crashes alone with all three; failed appends, crashes and torn files with one session; failed appends, replays and listings with two and clean stops; failed replays with a session and an approval and clean stops | `RecordInv`, `GoneStaysGone`, `FileSurvives`, `DataSpaceIsComplete` |
| `sessions_faults` | two sessions with a thread each, two turns, no faults; one session, three turns, lost answers; one session, two turns, lost answers and refused cards; two sessions on one thread, two turns, refused cards, failing reads and lists, restarts | `SessionInv`, `IndexesAgree`, `TurnFollowsCodex`, `DrainedRuntimeIsIdle`, `AsksReachTheUser`, `ArchivedForGood` |
| `codex_client` | stdio with two requests, three events, room for two and a repeated answer; a websocket with a request, two events, room for one, a control frame and a protocol error among fragments | `ConnectionInv`, `EventsInOrder`, `RequestsEnd` |
| `supervisor` | two starts with terms of 120 s and two markers; one start with terms of 5, 10 and 40 s; two starts without plugin mode while a release is activated | `LeaseInv`, `NoOrphans`, `LeaseCoversChildren`, `OneStopPerMarker`, `NeverHangs` |
| `handoff` | two messages and a notification: into a home of its own in two attempts with failed writes; into the same home with a crash and late answers; with a window of one id; with crashes and files that can not be removed | `AcknowledgementInv`, `DeferredSurvives`, `ProcessedOnce`, `ImportIsWhole` |

Bounds. Every command is decided by the interplay of its own connection, the
loop and at most two other transitions (one that changes the generation, one
that changes it back), so three requests show every overlap the code
distinguishes; `OneShutdown` picks the plans that differ. A queue of 1 makes the
queue full while a request and an event wait for it. Two milliseconds make an
event older than, equal to and newer than the cutoff. `CHECK_DEADLOCK` is on:
a stopped process stutters (`Gone`). In `SidecarDrain`, the `time` bound lets an
observation fall on and after the cutoff's millisecond; two `transitions` at two
moments, and four (fence, activate, complete, fence again) at one, let an answer,
an observation or a file of the first fence survive into the second; `late` = 1
lets a replay whose wait ended (105 s) be replayed while its first copy is still
with the worker; the second event makes two callbacks stop the listeners at once,
one for each. With `BeatEvery` = 1 and `StaleAfter` = 1 a file is too old two
milliseconds after it was written, which three moments of the clock allow. The proofs do not depend on
any of these bounds, nor on the relation of the two constants.

In `EventLog`, five messages in pages of two make three pages, so that the limit
of two is met and missed, with and without a snapshot on the last page. In
`Mirror`, an `interval` of 2 or 3 puts a snapshot inside and between handlers,
three `starts` let what one restart made of the file meet a second one, and
`time` bounds the stamped changes: 3 is create (two stamps) and one change, 4 and
5 leave room for archive, update and purge in one history. Pages of 2 with no
limit in reach make every replay a paged one. These runs have
`CHECK_DEADLOCK FALSE`: a log of `MaxLength` messages, or a worker that used its
starts, really ends. `SidecarDrain` and `Mirror` choose their bounds, and `Mirror`
its faults, from a set at the start (`bound`, `plan`), so that one run looks at
several small instances rather than at one large one. `GoneStaysGone`,
`FileSurvives` and the part of `RecordInv` about archived sessions are stated for plans in
which a file that stands alone is `NeverBehind`, `GoneStaysGone` also without failed
appends, and `DataSpaceIsComplete` for plans in which only the worker fails; the
limits below say what happens in the others.

In `Sessions`, three turns let a replaced turn and its replacement both have their
events in the channel when the third starts; two approvals are one that is
answered and one that outlives its turn; two sessions on one thread are one that
is archived and purged and one that attaches the thread again. The run has
`CHECK_DEADLOCK FALSE`: with all ids and turns used and everything purged nothing
is left to do. `TurnFollowsCodex` and `DrainedRuntimeIsIdle` are stated for plans
without restarts and unreadable threads, `AsksReachTheUser` also without refused
cards; the limits below say what happens in the others.

In `CodexClient`, three events in room for two fill the channel while a request
waits; the second request meets what the first left. One control frame and one
protocol error are enough to fall before, between and after two fragments. In
`Supervisor`, the timers are the code's; two starts let a marker of the first be
found by the second, and terms of 5, 10 and 40 s are at the margin, shorter than
the interval and its margin, and longer. `LeaseCoversChildren` allows 40 s
(`Grace`) with the short terms, the sum of the wait for an answer, for a healthy
worker, for the refresh and for the cleanup, and nothing with 120 s. `asked` is
bounded by `marks`, and a lease that ended is followed for 60 s (`Bottom`). In
`Handoff`, a window of three ids holds all events and one of one id loses them; two
late answers are one of a replay and one of a notification; two exports are an
upgrade that was given up and one that went through. These runs have
`CHECK_DEADLOCK FALSE`: the client and the supervisor end, and an upgrade is over
when its budget is spent and every event handled.

Fairness. `Fairness` is weak fairness of the tokio tasks and of their timers:
runnable tasks run and deadlines pass. Nothing is assumed of clients, sidecar or
signals. Steps that wait for Webex or Codex (`FinishIngress`, `DrainRuntime`,
`Reconcile`) are fair only in `CodexAnswers`, the hypothesis of
`ActivationResolves`: a Codex request has no deadline.
`FairSpec` of `SidecarDrain` is weak fairness of the clock, of the sidecar's
event loop (callbacks, monitor, file writes: each await ends, each fetch and each
local request has a timeout) and of the worker's processing. Nothing makes an
event arrive, a fence be set, a drain be asked for, the heartbeat beat or the
sidecar exit.
In `CodexClient` both tasks are scheduled and the worker loop takes an event when it
is idle; nothing is asked of the server, which may never answer: `RequestsEnd` is
about requests that were answered or whose connection ended. It has one exception,
`Stuck`, which the code has: the reader waits for room in the event channel while
the loop, the only one to make room, waits for a request (lib.rs:481). Events are
also not taken while the startup reconcile is pending (main.rs:1137). In
`Supervisor` the supervisor and its lease task run and time passes; nothing is asked
of the host or of the children.

Findings.

- `lifecycle_two_shutdowns`: `restore_shutdown_phase` (main.rs:535) compares the
  phase and not the generation. A shutdown that outlives its response deadline
  is restored twice, by its connection and by the loop; if a quiesce and a
  second shutdown came in between, the late restore undoes the fence of the
  other request and opens a quiesced gate.
- `sidecar_stalled`: a drain-state file that is older than 120 s is removed and
  counts nothing although its sidecar runs (main.rs:4212), before the barrier
  (main.rs:4233) is asked. In the run, a write of the sidecar takes longer than
  that, the drain is accepted, and an `active_check` that was answered before the
  fence then starts the listeners. A journal entry (2026-05-19, line 28) says that
  files of *exited* sidecars are ignored and that a backlog of 0 is trusted only
  after the sidecar saw the fence and stopped listening. `DrainedIsQuiet` excepts just
  this (`lapsed`), and `PunctualIsQuiet` (section 5) says when it can not happen.

Limits the models show without a run of their own:

- an event that was acknowledged when it was queued is lost when the worker crashes
  before it has processed it; `NothingNewIsLost` is about an accepted shutdown;
- a snapshot that does not decode still ends the paging (`PagingIsExact` excepts it), and
  `cleanup failed all` stops at the first session that can not be archived;
- an orderly exit of the sidecar (index.cjs:949) sets its counter to 0 and removes its file
  while callbacks may still run, until `process.exit` a moment later. The model takes
  both as one step (`Exit`), so `DrainedIsQuiet` says nothing of a drain that reads the
  files in between. What those callbacks had in hand is lost with or without a drain;

- `startWebexListeners` (index.cjs:715) sets `listenersActive` after its second
  await. A callback that is turned away in between stops the message listener; the
  flag then says that all is well, and as long as the worker stays active messages
  are not listened to;
- `local_session_is_stale_against_remote` (main.rs:6369) looks at purged ids and not
  at archived ones. If the append of a session's creation failed and that of its
  archival did not, a crash before the local write leaves a file in which the
  session is active, and the restarted worker adds it. A journal entry (2026-05-05,
  line 29) says that tombstones prevent this for "remotely archived sessions";
- `apply_thread_probe` (main.rs:3150) marks a session failed also when its thread
  could not be probed at all, and the start probes every session.
  `docs/COMMANDS.md`:42 says that a start does not mark sessions failed in a batch
  because of the `thread/list` probe; a unit test expects what the code does.
  `/resume` or `diagnose` brings the sessions back;
- the removal of the shutdown marker may fail after a shutdown was undone, or a child
  may die between the marker and the flush of the answer: the supervisor then stops
  although nobody was told that the shutdown was accepted;
- between the two steps of an activation there is no `current` link: a supervisor
  that looks then returns with an error;
- an id that left the window (1024 newer ones, a crash, an upgrade without handoff)
  may be processed twice (main.rs:6459). That is `forgotten` in `ProcessedOnce`;
- `webex-handoff-state.json` is written by export and import and read by nothing;
  neither it nor the local mirror is taken back when an import fails;
- the cutoff's own millisecond is let in by a fenced gate (`<=`), which a journal
  entry excludes and a unit test confirms; `NothingNewIsLost` is stated with `<=`;
- the deferred records are listed once, so an event deferred after the listing
  may be overtaken by a live one when the listeners start;
- a snapshot that does not decode is skipped by the fold, but its prefix ended the
  paging: what is older is not read. That is the exception in `PagingIsExact`;
- when the appends of a purge fail, the warning relies on the local file, but a
  start that reads the Data Space only adds from the file: the purged session is
  back. That is the hypothesis of `GoneStaysGone`;
- a start that can not read the Data Space goes on with the local file
  (main.rs:821), which a crash before the local write, or a failed one, has left
  behind: a session archived or purged since is active again, and the snapshot such a
  worker appends later makes it so for every later start. A room over the page limit
  is as one that can not be read. That is the hypothesis `NeverBehind`;
- a local session older than the Data Space's snapshot counts as stale, whoever
  took the snapshot: with two installations (`Inst`, each with its own `Threads`)
  the snapshot of one that never heard of a session of the other makes the other
  drop it at its next start. An installation that started before another one
  purged a session still has it in memory, and its next snapshot brings it back to the
  owner. The properties of `Mirror` are checked, and proved, with one installation;
- an approval survives the pause or the end of its turn; answering it then sets the
  session `Running` although nothing runs, and a drain waits for it
  (`DrainedRuntimeIsIdle` is one way only: nothing runs that is not counted);
- while a session is `Failed`, or between two lives of the worker, events of its
  thread are dropped, so `active_turn_id` may stay set after the turn has ended;
- when Webex refuses the card of an approval, the approval is dropped and Codex is
  not told: the turn waits until it is interrupted. A session whose overview card
  was refused stays `Creating`, and counts as work, until it is resumed or archived.

## 5. What is proved

Each theorem holds for every value of the constants that satisfies the assumptions
of its module (`ActorAssumption`, `PlanAssumption`, `BoundAssumption`,
`EventAssumption`, `AgeAssumption`, `InstanceAssumption`, `NoneAssumption`, `SessionAssumption`,
`PageAssumption`, `MirrorAssumption`): finite sets of actors where the code counts
them, positive capacities, page sizes and terms, and values that are told apart. No
theorem assumes anything of the environment unless this section says so. Each rests on
an inductive invariant, which was checked on the instances of the runs before it was
proved.

`LifecycleProofs`, for any number of requests and events, any queue capacity and
any plan of methods:

- `TypeCorrect`, `DrainCounterExact`: from `PermitInv`, the type invariant with
  `ItemInHand` (the loop's item is of the kind its place in the code says),
  `QueuedOnce` (an event is in the queue or in hand, once, exactly when its
  connection says queued) and `PermitsCounted`. `PermitsCounted` alone is not
  inductive: `FinishIngress` lowers the counter, and only `QueuedOnce` tells
  that the event in hand was still counted;
- `ActivationHasItsOwner`, `OpenOnlyWhenReady`, `AcknowledgedCommits`: from
  `GateInv`, which adds `HeldOpen` (what a shutdown gives back is a phase the
  gate may have), `ActivationOwned`, `NotOpenBeforeReady` (also for the phase a
  shutdown holds) and `FlushPrepared` (when the loop waits for a flush, what it
  is about to commit has been prepared and the answer is the accepting one).

Under the hypothesis `[]OneAtATime`, no two shutdown requests are undecided at
once, without which `QuiesceHolds` is false (the finding above), and which
`OneShutdownSuffices` discharges when no plan has two shutdowns:

- `QuiesceIsHeld`, `ShutdownIsHeld`: from `HandInv`, which adds to `GateInv` that a
  command is in the queue or in hand once (`CommandsOnce`), that the generation
  tells apart the states of the gate that requests hold (`HeldOnce`), and that an
  unquiesce that a quiesce overtook holds an old token (`NotOvertaken`), and `FenceInv`, which
  adds that the undecided shutdown has the gate fenced with its own generation
  (`FenceHeld`), and that only a shutdown stops a worker (`StoppedByShutdown`). The
  generation is what makes a late restore or commit miss a gate that has moved on;
- `NothingNewDies`: from `Backlog`, that every permit still out when a shutdown is
  about to commit is of a stamped event not younger than the cutoff;
- `PlaneIsAGate`: `Lifecycle` implements `AdmissionGate`; the initial states map to
  initial states, and every step to a step of the gate or a stutter.

`SidecarDrainProofs`, for any finite set of events and any bounds:

- `CounterExact`: from `TrackingInv`, the type with who waits for which write
  (`WritersInv`), where a replay may run (`ReplayInv`), and the count itself;
- `NoEventForgotten`: from `StoredInv`, which follows a deferred event through the
  callback or replay that has it in hand;
- `DrainIsQuiet`, unless a drain ignored a running sidecar for the age of its file
  (`lapsed`, which is part of the property): from `FencedInv`, the argument of the whole protocol: no time is
  in the future (`StampsPast`); the gate is as the drain that fenced it left it, unless
  its generation moved (`FenceInv`); the listeners are what the monitor's place and
  the flag say (`ListenInv`); while the worker is not open, what was observed after
  the cutoff stays observed, in the variable, in a write and in the file, and a count
  of zero published with it stays true (`SeenInv`); so what a drain has found out
  stays so until the gate moves (`QuietInv`). A file that is missing means that the
  sidecar is gone or has not begun, unless a drain removed it (`ListenInv`);
- `PunctualIsQuiet`, the same without the exception (`QuietWhenDrained`), of the steps
  of `PunctualSpec(slow)`: while the sidecar runs, time passes only as long as the
  heartbeat is not overdue and a write begins, and ends, within `slow`. If `slow` is
  less than `BeatEvery` and `BeatEvery + 2 * slow` is at most `StaleAfter`, no file of
  a running sidecar is ever too old (`PunctualInv`). With the 30 s and 120 s of the
  code a write may be held up for almost 30 s. The real clock does not wait: this is
  an assumption on the host, and the finding says what happens without it.

`EventLogProofs`, for rooms of any length, any page size and any page limit:

- `ReplayMeansTheLog`: whatever is written in a room, as long as events and snapshots
  are well formed (`WellFormed`), its replay is what it means. The states a fold goes
  through are a function (`IsFold`), so that a replay of a log with one more message
  is one step from the replay of the log (`ReplayAppend`), and the invariant
  `MeaningInv` says of each field of the replay what the last words on it are.
  Induction over lengths is by the least element of a *set* of lengths
  (`NatSetInduction`), since the library's induction takes an operator;
- `PagingReadsTheLog`: for any messages at all. No invariant is needed but that the
  log is a sequence: `PagesRead` exists, and what the pages leave out is older than
  the last snapshot.

`MirrorProofs`, for any sessions, approvals and plans, any page size, and any number
of starts, faults and changes:

- `MirrorTyped`, for any number of installations: from `TypeInv`, which says what is in
  hand by the handler that put it there (`InHand`), that no stamp is in the future
  and that the replay of the log is typed, and `BornInv`: what is told, kept or in a
  table was created.

The others have the hypothesis `OneInstallation` (limits, above), and the first three
of them the hypothesis `[]LimitHarmless`: a room is over the page limit only in
plans in which the file that then stands alone is not behind. The limit of the
code is 50 pages of 100 messages without a snapshot, and a snapshot is appended every
20 events unless it is configured otherwise, so it takes many failed snapshots, or
many foreign messages, to reach it.

- `ArchivedForGood`: from `KnownInv`: a session the Data Space heard of is in its replay
  if it is in memory, or in a file that a start would believe, and each of the
  three has it archived if it heard so (`KnownRecalled`, `KnownMemory`, `KnownFile`);
- `GoneForGood`: from `GoneInv`, the same for what is purged or resolved, with the
  place of a purge: between the change in memory and the append nothing is said yet
  (`GoneTold`). A file may still have what is gone, but only if a start that reads the
  Data Space finds it outdone by a tombstone or by the time of the snapshot
  (`GoneFile`);
- `FileComesBack`: the action property `FileSurvives`, from `SurvivesInv`: what the file
  has and is not purged is in the replay as new, or newer than the snapshot, so that
  the merge takes it (`RecordsSurvive`), and what memory has it keeps (`Kept`);
- `CompleteWithoutFile`, under `[]~ReachesPageLimit(log)`: from `CompleteInv`: the replay
  and the memory match when the worker is at rest, and when it is about to append,
  the replay with that message does (`ToBeSaid`).

`SessionsProofs`, for any sessions, threads, approvals and turns, and any faults:

- `ApprovalsAreLive`, `IndexesAreRebuilt`, `ArchivedStays`: from `BaseInv`: the
  tables are what `Upsert`, `Remove` and `Rebuilt` make of them and no two sessions
  share a thread or room they are indexed by (`StateInv`), Codex's threads and the
  events in the channel are of the kinds that can be there (`CodexInv`,
  `EventsInv`), and every session's thread exists (`ThreadsThere`);
- `TurnsAreFollowed`, `DrainedIsIdle`: from `TurnsInv`, for each thread: a session
  that is archived or failed has an archived thread (`GivenUp`), only a thread with a
  session runs a turn, and the last event about the turn in the channel or, when
  there is none, the session says what Codex does (`Knows`). The hypothesis `Reliable` is part of
  the two properties: no restarts, no failing reads and lists. Lost answers and
  refused cards are allowed;
- `QuestionsAreSeen`: from `AsksInv`: a question Codex waits on is pending or in
  the channel, when answers may be lost but nothing else fails (`Heard`), which is
  in the property.

`CodexClientProofs`, for any number of requests and events, any room in the channel,
and whatever the server and the connection do:

- `NoRequestIsForgotten`: from `ClientInv`, the type with the places of the two tasks
  that exclude one another (`PartsAgree`);
- `EventsComeInOrder`: from `OrderInv`: what was taken, is in the channel or in the
  reader's hands are the first events, each once (`InOrder`); as long as the reader
  reads, the others that were sent are on the wire in order, no second half without
  its first (`EventsComing`, `Halves`), and an answer there was sent before the events
  behind it (`AnswersComing`); so an answer is taken when they are in the channel
  (`AnsweredInTime`).

`SupervisorProofs`, for any terms the host may grant, any number of starts, markers
and activations:

- `ControlAlways`, `NoOrphansAlways`: from `ControlInv`, which says by the place of
  the run loop which children, tasks and calls there may be (`InPlace`,
  `CallInPlace`), and that there is no host without plugin mode (`HostInPlugin`);
- `LeaseInvAlways`, `LeaseCoversChildrenAlways`: from `LeaseInTime`: what is left of
  the lease bounds what is left of the task's timers and of the call under way
  (`TaskInTime`), and of the waits of a start (`StartInTime`); the bounds are
  arithmetic on the code's constants;
- `OneStopPerMarkerAlways`: inductive with the type.

`HandoffProofs`, for any messages and notifications, any window, and any number of
crashes, late answers, failed writes and exports:

- `MergeTakesOver`: a release whose window is empty or the same takes over the
  imported one exactly, whatever its length;
- `ReleasesAlways`, `ImportWholeAlways`: `ReleasesInv` says which phases the two
  workers have together (`PhasesInv`), that a worker that is not open has nothing to
  do (`IdleInv`), what the snapshot carries of the old release and what the import
  has made of it so far (`CarriedInv`, `ImportingInv`), and that a replay waits for
  at most one copy (`AskedInv`). `ImportIsWhole` is the action property that follows;
- `DeferredAlways`, `OnceAlways`, `AcknowledgedAlways`: from `EventsInv`: where a
  copy of an event comes from (`OriginInv`), that what is processed or being
  processed is in the window unless it was lost from it (`RememberedInv`), that what
  is deferred and not done is stored where a release that runs finds it
  (`PendingInv`), that nothing is processed twice while it is remembered
  (`OnceInv`), and that what is acknowledged was enqueued (`EnqueuedInv`).

What the proofs changed in the models. A `CASE` with overlapping branches in
`SidecarDrain.EndWrite` is a choice TLC makes by their order and a prover must not;
`runs` of `Supervisor` had to be positive; `Merge`, `Forget` and `Crash` of `Handoff`
were stated so that they say what they keep; in `Sessions` the archive of
`ResumeLocal` ends the turn of its thread, and may fail, as the other archives do;
in `CodexClient` the history of what was said became counts. The meaning of a log was a
definition of the instance and had to be one of `EventLog`, over any messages, with the
form they must have named. Three properties of `Mirror` were false in a
combination of faults that no plan of the run had: a start that can only read a file
which a crash left behind. They now have the hypothesis `NeverBehind`, the limits
name the behaviour, and a plan was added for what remains. The runs were repeated with
each of them.

What is only model-checked is liveness: `RequestsAnswered`, `ShutdownResolves`,
`ActivationResolves`, `DrainBecomesPossible`, `RequestsEnd` and `NeverHangs`, since
fairness and ENABLED are out of the prover's reach. With two installations
`FileSurvives` and `GoneStaysGone` do not hold (limits), and nothing is claimed of the
other two properties of `Mirror`; nor is anything claimed of workers that crash or fail
to write their file while their room is over the page limit.

## 6. What is not modelled

In `Lifecycle`: the health checks (they only read), the handoff methods (they are in
`Handoff`), and the last moments of a process after its loop has ended (the Codex
client is shut down while other tasks still answer connections): `Gone` freezes
everything. `DrainTimeout` needs a permit that is still out. The sidecar's backlog
is any answer there; `SidecarDrain` says which answers there are.

In `SidecarDrain`: an orderly exit of the sidecar in its steps (limits), a directory
or a file that can not be read (it counts as work and refuses the drain), files of
other releases (they are skipped), a process that has ended and was not waited for
(its file counts until its age is reached), and retries while the worker's socket
does not exist. The files are listed and read in one step. A file that is missing counts
as clear in the code and in the model.

In `Sessions`: sessions of other installations (they are refused or ignored), rooms
as objects of their own, the membership command (it changes Webex only), a turn
started outside the bridge, message deltas, and writes that fail half way through a
handler (`Mirror`).

In `Mirror`: the recovery of a lost installation identity, a local file copied from
another installation (it is ignored), a room, thread or turn of a session, updates
that the Webex message limit cuts off, and the handoff, which merges through the same
function. A pre-active worker persists what its start changed only when it is
unquiesced; as it changes nothing in between, a crash before the first append covers
it.

In `CodexClient`: the methods that build one request or read one answer, the text of
errors, and the child's stderr (it is logged). In `Supervisor`: its own death, the
commands of the program other than running and activating, and the frames of the RPC.

In `Handoff`: the merge of imported sessions and approvals (main.rs:3531–3626, by id,
as data), the sidecar's drain-state records (an export has refused or removed every
one that counts, and an import skips the others), events without an id, the choice of
session for a notification, and the broker's own connections: a request through it is
enqueued and answered, enqueued and not answered, or not enqueued.

The RPC, Webex, protocol and render crates serialise, call HTTP, validate and lay out
text: they keep no state, and where their calls fail or are late is in the models
that use them. The scripts are operational.
