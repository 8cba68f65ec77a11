------------------------------- MODULE Sessions -------------------------------
(***************************************************************************)
(* The sessions of one worker: its table, the room and thread indexes, the *)
(* pending approvals, and the Codex threads they stand for.                *)
(*                                                                         *)
(* The worker loop runs one handler at a time, so a handler is one step;   *)
(* what its calls to Codex and Webex answer is a choice of the step.       *)
(* Codex runs beside it: its notifications and requests wait in a channel  *)
(* until the loop takes them, and a handler may act on a turn whose end is *)
(* still in the channel.  Codex is external: a thread runs one turn at a   *)
(* time, a prompt replaces the turn that runs, a turn that ends says so,   *)
(* and one that asks waits for the answer.                                 *)
(*                                                                         *)
(* Every session here is of this installation, and a room is known by its  *)
(* session.  A command that is refused changes nothing and is no step.     *)
(* Writing the table is the subject of Mirror: a write succeeds here.      *)
(***************************************************************************)
EXTENDS Naturals, Sequences, FiniteSets, Functions

CONSTANTS Session, Thread, Approval,
          Plans       \* what may fail in one behaviour, and how much there is of it

\* codex: Codex does what it is asked and the answer is lost; card: Webex refuses a
\* room or a message; read: a thread can not be read or archived; list: threads can not
\* be listed, nor this one read; restart: the worker starts again.
ASSUME SessionAssumption ==
    Plans \subseteq [faults : SUBSET {"codex", "card", "read", "list", "restart"},
                     sessions : SUBSET Session, threads : SUBSET Thread, turns : Nat]

VARIABLES plan,     \* one of Plans, for the whole behaviour
          state,    \* WorkerState: table, rooms, threads, pending
          born,     \* sessions and approvals ever made (ids are random)
          codex,    \* the threads
          turns,    \* turns ever started
          events    \* the channel from Codex to the loop

vars == <<plan, state, born, codex, turns, events>>

States == {"Creating", "Idle", "Running", "WaitingApproval", "Paused", "Completed",
           "Failed", "Archived"}
\* turn is active_turn_id, 0 for none; final: there is a last_final.
Records == [thread : Thread, state : States, archived : BOOLEAN, turn : Nat, final : BOOLEAN]
Threads == [kind : {"absent", "listed", "archived"}, turn : Nat, asks : SUBSET Approval]

TypeOK ==
    /\ plan \in Plans /\ turns \in 0..plan.turns /\ born \subseteq Session \cup Approval
    /\ DOMAIN state.table \subseteq born
    /\ \A s \in DOMAIN state.table : state.table[s] \in Records
    /\ state.rooms \subseteq DOMAIN state.table
    /\ \A t \in DOMAIN state.threads :
         t \in Thread /\ state.threads[t] \in DOMAIN state.table
    /\ DOMAIN state.pending \subseteq born
    /\ \A a \in DOMAIN state.pending :
         state.pending[a] \in [session : DOMAIN state.table, thread : Thread]
    /\ codex \in [Thread -> Threads]
    /\ \A t \in Thread : codex[t].turn <= turns

Empty == <<>>
Put(table, key, value) == [k \in DOMAIN table \cup {key} |->
                             IF k = key THEN value ELSE table[k]]
Drop(table, keys) == Restrict(table, DOMAIN table \ keys)

\* Some threads exist before the bridge knows of them.
Init ==
    /\ plan \in Plans
    /\ state = [table |-> Empty, rooms |-> {}, threads |-> Empty, pending |-> Empty]
    /\ born = {} /\ turns = 0 /\ events = <<>>
    /\ \E local \in SUBSET plan.threads :
         codex = [t \in Thread |-> [kind |-> IF t \in local THEN "listed" ELSE "absent",
                                    turn |-> 0, asks |-> {}]]
-----------------------------------------------------------------------------
(* WorkerState.                                                            *)

\* Mutant: only the state is looked at.
RoutedByState(r) == r.state # "Archived"

\* should_route_session_room, should_index_session_thread
Routed(r) == ~r.archived /\ r.state # "Archived"
Indexed(r) == r.state # "Failed" /\ Routed(r)

Upsert(st, s, r) ==
    LET old == IF s \in DOMAIN st.table THEN {st.table[s].thread} ELSE {}
        threads == Drop(st.threads, old)
    IN  [table |-> Put(st.table, s, r),
         rooms |-> IF Routed(r) THEN st.rooms \cup {s} ELSE st.rooms \ {s},
         threads |-> IF Indexed(r) THEN Put(threads, r.thread, s) ELSE threads,
         pending |-> st.pending]

\* Mutant: the approvals of the session stay.
KeepApprovals(st, s) == st

WithoutApprovals(st, s) ==
    [st EXCEPT !.pending = Drop(@, {a \in DOMAIN @ : @[a].session = s})]

Remove(st, s) ==
    WithoutApprovals([table |-> Drop(st.table, {s}), rooms |-> st.rooms \ {s},
                      threads |-> Drop(st.threads, {st.table[s].thread}),
                      pending |-> st.pending], s)

Rebuilt(st) ==
    LET routed == {s \in DOMAIN st.table : Routed(st.table[s])}
        indexed == {s \in DOMAIN st.table : Indexed(st.table[s])}
    IN  [table |-> st.table, rooms |-> routed, pending |-> st.pending,
         threads |-> [t \in {st.table[s].thread : s \in indexed} |->
                        CHOOSE s \in indexed : st.table[s].thread = t]]

\* Mutant: a turn that is known to run does not count, only the state does.
BusyByState(r) == Routed(r) /\ r.state \in {"Creating", "Running", "WaitingApproval"}

\* lifecycle_codex_in_flight_count
Busy(r) == Routed(r) /\ (r.turn # 0 \/ r.state \in {"Creating", "Running", "WaitingApproval"})
InFlight == Cardinality({s \in DOMAIN state.table : Busy(state.table[s])})

\* A session is changed and nothing else.
Set(s, r) == state' = Upsert(state, s, r)
May(fault) == fault \in plan.faults
-----------------------------------------------------------------------------
(* Codex (external).                                                       *)

Status(t, to) == [kind |-> "status", thread |-> t, to |-> to]
Started(t, n) == <<Status(t, "active"), [kind |-> "started", thread |-> t, turn |-> n]>>
Completed(t) == [kind |-> "completed", thread |-> t]

\* A turn ends, with what it was asking.
TurnEnds(t) ==
    /\ codex' = [codex EXCEPT ![t].turn = 0, ![t].asks = {}]
    /\ \/ events' = events \o <<Completed(t), Status(t, "idle")>>
       \/ events' = events \o <<Status(t, "idle"), Completed(t)>>

CodexComplete(t) ==
    /\ codex[t].turn # 0 /\ codex[t].asks = {}
    /\ TurnEnds(t)
    /\ UNCHANGED <<plan, state, born, turns>>

CodexAsk(t, a) ==
    /\ codex[t].turn # 0 /\ a \notin born /\ born' = born \cup {a}
    /\ codex' = [codex EXCEPT ![t].asks = @ \cup {a}]
    /\ events' = Append(events, [kind |-> "request", thread |-> t, id |-> a])
    /\ UNCHANGED <<plan, state, turns>>

\* thread/archive: the turn is over, and may or may not say so.
CodexArchive(t) ==
    /\ codex' = [codex EXCEPT ![t] = [kind |-> "archived", turn |-> 0, asks |-> {}]]
    /\ events' \in {events} \cup (IF codex[t].turn = 0 THEN {}
                                  ELSE {Append(events, Completed(t))})
-----------------------------------------------------------------------------
(* Commands of the control room.                                           *)

Record(t) == [thread |-> t, state |-> "Creating", archived |-> FALSE, turn |-> 0,
              final |-> FALSE]

\* turn/start for a session with record r, which then follows the turn it is given.
StartTurn(s, r) ==
    LET t == r.thread IN
    /\ turns < plan.turns /\ turns' = turns + 1
    /\ codex' = [codex EXCEPT ![t] = [kind |-> "listed", turn |-> turns', asks |-> {}]]
    /\ events' = events \o (IF codex[t].turn = 0 THEN <<>> ELSE <<Completed(t)>>)
                        \o Started(t, turns')
    /\ \/ Set(s, [r EXCEPT !.turn = turns', !.state = "Running"])
       \/ May("codex") /\ Set(s, r)

\* create_bridge_session, and where it stops: at the room, or at the overview card.
Created(t) == [Record(t) EXCEPT !.state = "Idle"]
CreationFails(s, t) == May("card") /\ state' \in {state, Upsert(state, s, Record(t))}

\* new, with a task that becomes the first prompt or without.
New(s, t) ==
    /\ s \in plan.sessions \ born /\ born' = born \cup {s}
    /\ t \in plan.threads /\ codex[t].kind = "absent"
    /\ \/ StartTurn(s, Created(t))
       \/ /\ codex' = [codex EXCEPT ![t].kind = "listed"]
          /\ Set(s, Created(t)) \/ CreationFails(s, t) \/ (May("codex") /\ UNCHANGED state)
          /\ UNCHANGED <<turns, events>>
    /\ UNCHANGED plan

\* Mutant: only active sessions keep their thread to themselves.
AttachedActive(t) == t \in DOMAIN state.threads

\* attached_session_for_thread
Attached(t) == \E s \in DOMAIN state.table : state.table[s].thread = t

\* resume local: when the session could not be finished its thread is archived, if
\* it can be.
ResumeLocal(s, t) ==
    /\ s \in plan.sessions \ born /\ born' = born \cup {s}
    /\ codex[t].kind = "listed" /\ ~Attached(t)
    /\ \/ Set(s, Created(t)) /\ UNCHANGED <<codex, events>>
       \/ CreationFails(s, t) /\ CodexArchive(t)
       \/ CreationFails(s, t) /\ May("read") /\ UNCHANGED <<codex, events>>
    /\ UNCHANGED <<plan, turns>>

\* archive_session.  Codex must archive the thread of a session that has not failed.
Archive(s) ==
    LET r == state.table[s]
        archived == WithoutApprovals(
                      Upsert(state, s, [r EXCEPT !.archived = TRUE, !.state = "Archived"]), s)
    IN  /\ \/ CodexArchive(r.thread) /\ state' = archived
           \/ May("codex") /\ CodexArchive(r.thread) /\ r.state # "Failed" /\ UNCHANGED state
           \/ /\ May("read") /\ r.state = "Failed" /\ state' = archived
              /\ UNCHANGED <<codex, events>>
        /\ UNCHANGED <<plan, born, turns>>

ArchiveSession(s) == s \in DOMAIN state.table /\ Archive(s)

Failures == {s \in DOMAIN state.table :
               state.table[s].state = "Failed" /\ ~state.table[s].archived}

\* cleanup failed, of one; cleanup failed all repeats it.
CleanupFailed(s) == s \in Failures /\ Archive(s)

\* purge archived ... confirm: the room first, then the session.
Purge(s) ==
    /\ s \in DOMAIN state.table /\ ~Routed(state.table[s])
    /\ state' = Remove(state, s)
    /\ UNCHANGED <<plan, born, codex, turns, events>>

\* probe_session_thread
Probes(t) ==
    (IF codex[t].kind # "listed" THEN {"missing"}
     ELSE {"readable"} \cup (IF May("read") THEN {"unreadable"} ELSE {}))
    \cup (IF May("list") THEN {"unavailable"} ELSE {})

\* apply_thread_probe
Probed(r, probe) ==
    CASE ~Routed(r) -> r
      [] Routed(r) /\ probe = "readable" ->
           IF r.state = "Failed" THEN [r EXCEPT !.state = "Idle"] ELSE r
      [] OTHER -> [r EXCEPT !.state = "Failed"]

Diagnose(s) ==
    /\ s \in DOMAIN state.table
    /\ \E probe \in Probes(state.table[s].thread) : Set(s, Probed(state.table[s], probe))
    /\ UNCHANGED <<plan, born, codex, turns, events>>
-----------------------------------------------------------------------------
(* Messages of a session's room, and the buttons of its card.              *)

\* A prompt.
Prompt(s) ==
    /\ s \in state.rooms /\ state.table[s].state # "Failed"
    /\ codex[state.table[s].thread].kind = "listed"
    /\ StartTurn(s, state.table[s])
    /\ UNCHANGED <<plan, born>>

\* /resume, by message or by button; the button works on an archived session too.
Resume(s) ==
    /\ s \in DOMAIN state.table
    /\ Set(s, [state.table[s] EXCEPT !.state = "Idle"])
    /\ UNCHANGED <<plan, born, codex, turns, events>>

\* /pause: turn/interrupt if a turn is known, which ends it if it still runs.
Pause(s) ==
    LET r == state.table[s]
        interrupts == r.turn # 0 /\ codex[r.thread].turn = r.turn
    IN  /\ s \in DOMAIN state.table /\ r.state # "Failed"
        /\ \/ Set(s, [r EXCEPT !.state = "Paused"])
           \/ May("codex") /\ interrupts /\ UNCHANGED state
        /\ IF interrupts THEN TurnEnds(r.thread) ELSE UNCHANGED <<codex, events>>
        /\ UNCHANGED <<plan, born, turns>>

\* Mutant: the approval goes first, whether or not Codex can be told.
Unanswered(a) == state' = [state EXCEPT !.pending = Drop(@, {a})]

\* What is left of an approval when Codex could not be told.
AnswerFails(a) == UNCHANGED state

\* resolve_approval
ResolveApproval(a) ==
    /\ a \in DOMAIN state.pending
    /\ LET p == state.pending[a]
           answered == [state EXCEPT !.pending = Drop(@, {a})]
       IN  \/ /\ codex' = [codex EXCEPT ![p.thread].asks = @ \ {a}]
              /\ state' = Upsert(answered, p.session,
                                 [state.table[p.session] EXCEPT !.state = "Running"])
           \/ May("codex") /\ AnswerFails(a) /\ UNCHANGED codex
    /\ UNCHANGED <<plan, born, turns, events>>
-----------------------------------------------------------------------------
(* handle_codex_event, for the oldest event in the channel.                *)

TakeEvent(kind) == events # <<>> /\ Head(events).kind = kind /\ events' = Tail(events)

\* The session of the event's thread changes; an event of no session is dropped.
Follow(t, r) ==
    IF t \in DOMAIN state.threads THEN Set(state.threads[t], r) ELSE UNCHANGED state
Of(t) == state.table[state.threads[t]]

StatusChanged ==
    /\ TakeEvent("status")
    /\ LET e == Head(events) IN
       Follow(e.thread, [Of(e.thread) EXCEPT !.state =
           IF e.to = "active" THEN "Running"
           ELSE IF Of(e.thread).final THEN "Completed" ELSE "Idle"])
    /\ UNCHANGED <<plan, born, codex, turns>>

TurnStarted ==
    /\ TakeEvent("started")
    /\ LET e == Head(events) IN
       Follow(e.thread, [Of(e.thread) EXCEPT !.turn = e.turn, !.state = "Running"])
    /\ UNCHANGED <<plan, born, codex, turns>>

\* Mutant: the turn is not forgotten.
FinalOnly(r) == [r EXCEPT !.state = "Completed", !.final = TRUE]

Final(r) == [r EXCEPT !.state = "Completed", !.final = TRUE, !.turn = 0]

TurnCompleted ==
    /\ TakeEvent("completed")
    /\ LET e == Head(events) IN Follow(e.thread, Final(Of(e.thread)))
    /\ UNCHANGED <<plan, born, codex, turns>>

\* request_approval: no card, no approval.  A thread without a session gets no answer.
RequestApproval ==
    /\ TakeEvent("request")
    /\ LET e == Head(events) IN
       \/ /\ e.thread \in DOMAIN state.threads
          /\ LET s == state.threads[e.thread]
                 asked == [state EXCEPT !.pending =
                             Put(@, e.id, [session |-> s, thread |-> e.thread])]
             IN  state' = Upsert(asked, s, [Of(e.thread) EXCEPT !.state = "WaitingApproval"])
       \/ /\ e.thread \notin DOMAIN state.threads \/ May("card")
          /\ UNCHANGED state
    /\ UNCHANGED <<plan, born, codex, turns>>
-----------------------------------------------------------------------------
\* The worker starts again: what was in the channel is gone, Codex goes on or lost
\* its turns, and every session is probed (reconcile_sessions).
Restart ==
    /\ May("restart") /\ events' = <<>>
    /\ \/ UNCHANGED codex
       \/ codex' = [t \in Thread |-> [codex[t] EXCEPT !.turn = 0, !.asks = {}]]
    /\ \E probe \in [DOMAIN state.table -> {"readable", "missing", "unreadable", "unavailable"}] :
         /\ \A s \in DOMAIN probe : probe[s] \in Probes(state.table[s].thread)
         /\ state' = Rebuilt([state EXCEPT !.table =
                       [s \in DOMAIN @ |-> Probed(@[s], probe[s])]])
    /\ UNCHANGED <<plan, born, turns>>

Next ==
    \/ \E s \in Session :
         \/ ArchiveSession(s) \/ CleanupFailed(s) \/ Purge(s) \/ Diagnose(s)
         \/ Prompt(s) \/ Resume(s) \/ Pause(s)
         \/ \E t \in Thread : New(s, t) \/ ResumeLocal(s, t)
    \/ \E a \in Approval : ResolveApproval(a) \/ \E t \in Thread : CodexAsk(t, a)
    \/ \E t \in Thread : CodexComplete(t)
    \/ StatusChanged \/ TurnStarted \/ TurnCompleted \/ RequestApproval \/ Restart

Spec == Init /\ [][Next]_vars
-----------------------------------------------------------------------------
Silent(t) == \A i \in DOMAIN events : events[i].thread # t

\* The indexes are kept by every handler as a rebuild would make them: a room or
\* a thread leads to its session exactly while that is active, and a thread to no
\* session that failed (upsert_session, remove_session).
IndexesAgree == state = Rebuilt(state)

\* A pending approval is of a session that is not archived and has the thread that
\* asked: answering it can not bring back a session (archive_session).
ApprovalsLive ==
    \A a \in DOMAIN state.pending :
        LET p == state.pending[a] IN
        /\ ~state.table[p.session].archived /\ state.table[p.session].thread = p.thread

\* Every part of the state has its type, and what waits for an answer is of a
\* session that still has the thread that asked (upsert_approval, archive_session).
SessionInv == TypeOK /\ ApprovalsLive

\* An archived session stays archived until it is purged, and Codex gets no turn
\* for it, whatever its card or late events do.
ArchivedForGood ==
    [][ \A s \in DOMAIN state.table : state.table[s].archived =>
          /\ s \in DOMAIN state'.table => state'.table[s].archived
          /\ LET t == state.table[s].thread
             IN  codex'[t].turn # codex[t].turn => codex'[t].turn = 0 ]_vars

\* When the loop has taken the events of a thread that is not archived, its session
\* knows the turn that runs, or that none does, also when prompts, answers and events
\* crossed (handle_codex_event).
Reliable == plan.faults \subseteq {"codex", "card"}
TurnFollowsCodex ==
    Reliable => \A t \in DOMAIN state.threads :
                  Silent(t) /\ codex[t].kind = "listed" => Of(t).turn = codex[t].turn

\* A worker that counts no runtime work after it has emptied the channel leaves no
\* turn of a session running: it may be drained (lifecycle_codex_in_flight_count).
DrainedRuntimeIsIdle ==
    Reliable /\ events = <<>> /\ InFlight = 0 =>
        \A t \in DOMAIN state.threads : codex[t].turn = 0

\* What Codex asks and the loop has taken waits for the user, as long as Webex
\* accepts the card: no turn hangs on a question nobody sees.
AsksReachTheUser ==
    plan.faults \subseteq {"codex"} =>
        \A t \in Thread : \A a \in codex[t].asks :
            Silent(t) => a \in DOMAIN state.pending
=============================================================================
