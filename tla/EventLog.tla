------------------------------- MODULE EventLog -------------------------------
(***************************************************************************)
(* The Data Space: a Webex room whose messages are the bridge's log.       *)
(*                                                                         *)
(* A message is an event, a snapshot of everything, or something else that *)
(* somebody wrote there; an event or a snapshot may be one that does not   *)
(* decode.  The room is read from its newest message backwards, page by    *)
(* page, until a page ends the log or shows a snapshot, and what was read  *)
(* is folded into a replay state.                                          *)
(***************************************************************************)
EXTENDS Naturals, SequencesExt

CONSTANTS Session, Approval, None,
          PageSize,   \* REPLAY_PAGE_SIZE
          MaxPages    \* REPLAY_MAX_PAGES

ASSUME PageAssumption == PageSize \in Nat \ {0} /\ MaxPages \in Nat \ {0}

VARIABLE log          \* the messages of the room, oldest first

\* Tables are functions whose domain is the keys present.
Empty == <<>>
Put(table, key, value) == [k \in DOMAIN table \cup {key} |->
                             IF k = key THEN value ELSE table[k]]
Drop(table, keys) == Restrict(table, DOMAIN table \ keys)
ApprovalsOf(approvals, s) == {a \in DOMAIN approvals : approvals[a].session = s}

\* What a snapshot holds, and the frame it is appended as.
ToSnapshot(st, at) == [kind |-> "snapshot", at |-> at, sessions |-> st.sessions,
                       approvals |-> st.approvals]

NoReplay == [sessions |-> Empty, approvals |-> Empty, count |-> 0, snapAt |-> None,
             archivedIds |-> {}, purgedIds |-> {}, resolvedIds |-> {}]

FromSnapshot(snap) == [NoReplay EXCEPT !.sessions = snap.sessions,
                                       !.approvals = snap.approvals,
                                       !.snapAt = snap.at]
-----------------------------------------------------------------------------
(* ReplayState::apply                                                      *)

\* Mutant: the approvals of an archived session stay.
ArchiveSessionOnly(st, s) ==
    [st EXCEPT !.archivedIds = @ \cup {s},
               !.sessions = IF s \in DOMAIN @ THEN [@ EXCEPT ![s].archived = TRUE] ELSE @]

Archive(st, s) ==
    [st EXCEPT !.archivedIds = @ \cup {s},
               !.sessions = IF s \in DOMAIN @ THEN [@ EXCEPT ![s].archived = TRUE] ELSE @,
               !.approvals = Drop(@, ApprovalsOf(@, s))]

\* Mutant: the approvals of a purged session stay.
PurgeSessionOnly(st, s) ==
    [st EXCEPT !.purgedIds = @ \cup {s}, !.archivedIds = @ \ {s},
               !.sessions = Drop(@, {s})]

Purge(st, s) ==
    [st EXCEPT !.purgedIds = @ \cup {s}, !.archivedIds = @ \ {s},
               !.sessions = Drop(@, {s}),
               !.approvals = Drop(@, ApprovalsOf(@, s))]

Apply(st, e) ==
    CASE e.kind \in {"created", "updated"} ->
           [st EXCEPT !.sessions = Put(@, e.id, e.session)]
      [] e.kind = "archived" -> Archive(st, e.id)
      [] e.kind = "purged" -> Purge(st, e.id)
      [] e.kind = "requested" -> [st EXCEPT !.approvals = Put(@, e.id, e.approval)]
      [] e.kind = "resolved" -> [st EXCEPT !.approvals = Drop(@, {e.id}),
                                           !.resolvedIds = @ \cup {e.id}]
-----------------------------------------------------------------------------
(* replay_from_messages: the last snapshot that decodes, then the events   *)
(* after it that decode.                                                   *)

EventKinds == {"created", "updated", "archived", "purged", "requested", "resolved"}
IsEvent(m) == m.kind \in EventKinds
IsSnapshot(m) == m.kind = "snapshot"

\* The last of some places in a log, 0 if there is none.
Latest(places) == IF places = {} THEN 0 ELSE Max(places)

LatestSnapshot(messages) == Latest({i \in DOMAIN messages : IsSnapshot(messages[i])})

\* What does not decode is skipped.
StepReplay(st, m) == IF IsEvent(m) THEN [Apply(st, m) EXCEPT !.count = @ + 1] ELSE st

Replayed(base, messages) ==
    LET state[n \in 0..Len(messages)] ==
          IF n = 0 THEN base ELSE StepReplay(state[n - 1], messages[n])
    IN  state[Len(messages)]

ReplayMessages(messages) ==
    LET last == LatestSnapshot(messages)
        base == IF last = 0 THEN NoReplay ELSE FromSnapshot(messages[last])
    IN  Replayed(base, SubSeq(messages, last + 1, Len(messages)))
-----------------------------------------------------------------------------
(* EventLog::replay: page k holds the PageSize messages before page k - 1. *)

HasSnapshotPrefix(m) == m.kind \in {"snapshot", "bad snapshot"}

\* Mutant: the newest page is counted twice.
PagesShort(messages, k) ==
    LET older == Len(messages) - (k - 1) * PageSize
    IN  SubSeq(messages, 1 + (IF older > 0 THEN older ELSE 0), Len(messages))

\* The messages of the first k pages, oldest first.
Pages(messages, k) ==
    LET older == Len(messages) - k * PageSize
    IN  SubSeq(messages, 1 + (IF older > 0 THEN older ELSE 0), Len(messages))

\* Mutant: paging goes on past a snapshot.
NeedsOlderFullPage(messages, k) == k * PageSize <= Len(messages)

\* replay_needs_older_page: the page was full and no snapshot has been seen.
NeedsOlderPage(messages, k) ==
    /\ k * PageSize <= Len(messages)
    /\ ~ \E i \in DOMAIN Pages(messages, k) : HasSnapshotPrefix(Pages(messages, k)[i])

\* The number of pages asked for; the last one may be empty.
PagesRead(messages) ==
    CHOOSE k \in 1..(Len(messages) + 1) :
        /\ ~NeedsOlderPage(messages, k)
        /\ \A j \in 1..(k - 1) : NeedsOlderPage(messages, j)

\* A page beyond the limit that is not empty is an error.
ReachesPageLimit(messages) ==
    /\ PagesRead(messages) > MaxPages
    /\ Len(messages) > MaxPages * PageSize

Replay(messages) == ReplayMessages(Pages(messages, PagesRead(messages)))
-----------------------------------------------------------------------------
(* The room: what may be written, and what a log means, without a fold: the *)
(* last word on each key counts.                                            *)

\* A session as it is written: fields and values, one of them the archived flag.
IsRecord(r) == /\ r = [field \in DOMAIN r |-> r[field]]
               /\ "archived" \in DOMAIN r /\ r.archived \in BOOLEAN

\* Anything that is no event and no snapshot may be there; these have a form.
WellFormed(m) ==
    /\ m.kind \in {"created", "updated"} => m.id \in Session /\ IsRecord(m.session)
    /\ m.kind \in {"archived", "purged"} => m.id \in Session
    /\ m.kind \in {"requested", "resolved"} => m.id \in Approval
    /\ IsSnapshot(m) =>
         /\ \E keys \in SUBSET Session : m.sessions = [s \in keys |-> m.sessions[s]]
         /\ \A s \in DOMAIN m.sessions : IsRecord(m.sessions[s])
         /\ \E keys \in SUBSET Approval : m.approvals = [a \in keys |-> m.approvals[a]]

\* A room in which messages of a set M are written, by anybody.
Write(M) == \E m \in M : log' = Append(log, m)
Room(M) == log = <<>> /\ [][Write(M)]_log

Base == LatestSnapshot(log)
After(i) == (i + 1)..Len(log)
InSnapshot(table, key) == Base # 0 /\ key \in DOMAIN log[Base][table]

\* Where, after the last snapshot, something of these kinds is said of a key.
Said(kinds, key) == {i \in After(Base) : log[i].kind \in kinds /\ log[i].id = key}
Written(s) == Latest(Said({"created", "updated"}, s))
Archived(s) == Latest(Said({"archived"}, s))
Purged(s) == Latest(Said({"purged"}, s))
Asked(a) == Latest(Said({"requested"}, a))
Resolved(a) == Latest(Said({"resolved"}, a))

\* A session is in the table if it was written after it was last purged.
SessionPresent(s) ==
    Written(s) > Purged(s) \/ (Purged(s) = 0 /\ InSnapshot("sessions", s))

\* It is as last written, and archived if that was said later.
SessionMeans(s) ==
    LET rec == IF Written(s) = 0 THEN log[Base].sessions[s] ELSE log[Written(s)].session
    IN  [rec EXCEPT !.archived = rec.archived \/ Archived(s) > Written(s)]

\* An approval is open, as last asked for, if it was not resolved, nor its session
\* archived or purged, since then.
ApprovalMeans(a) == IF Asked(a) = 0 THEN log[Base].approvals[a] ELSE log[Asked(a)].approval
ApprovalPresent(a) ==
    /\ Asked(a) # 0 \/ InSnapshot("approvals", a)
    /\ Resolved(a) <= Asked(a)
    /\ \A s \in Session : ApprovalMeans(a).session = s =>
                          Archived(s) <= Asked(a) /\ Purged(s) <= Asked(a)

\* Folding a log gives what the log means: sessions, approvals, tombstones and
\* the number of events since the snapshot (replay_from_messages, apply).
ReplayIsMeaning ==
    LET st == ReplayMessages(log) IN
    /\ st.sessions = [s \in {s \in Session : SessionPresent(s)} |-> SessionMeans(s)]
    /\ st.approvals = [a \in {a \in Approval : ApprovalPresent(a)} |-> ApprovalMeans(a)]
    /\ st.archivedIds = {s \in Session : Archived(s) > Purged(s)}
    /\ st.purgedIds = {s \in Session : Purged(s) # 0}
    /\ st.resolvedIds = {a \in Approval : Resolved(a) # 0}
    /\ st.count = Cardinality({i \in After(Base) : IsEvent(log[i])})
    /\ st.snapAt = IF Base = 0 THEN None ELSE log[Base].at

\* Reading page by page loses nothing: what was read replays like the whole room,
\* unless the limit was met, or a snapshot that does not decode ended the reading
\* before the last one that does (EventLog::replay, message_has_snapshot).
PagingLosesNothing ==
    \/ Replay(log) = ReplayMessages(log)
    \/ ReachesPageLimit(log)
    \/ \E i \in After(Base) : log[i].kind = "bad snapshot"

\* The limit is met only by a room with too many messages and no snapshot among
\* the newest that the limit allows.
LimitIsForLongLogs ==
    ReachesPageLimit(log) <=>
        /\ Len(log) > MaxPages * PageSize
        /\ \A i \in DOMAIN log :
             HasSnapshotPrefix(log[i]) => i <= Len(log) - MaxPages * PageSize

\* Reading a room page by page gives what the whole room means, and gives up on a
\* room only when it really has no snapshot within reach (EventLog::replay).
PagingIsExact == PagingLosesNothing /\ LimitIsForLongLogs
=============================================================================
