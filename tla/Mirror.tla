-------------------------------- MODULE Mirror --------------------------------
(***************************************************************************)
(* Where the worker's session table survives: the Data Space, which every  *)
(* installation appends to, and each installation's own local snapshot.    *)
(*                                                                         *)
(* A change is made in memory, appended to the Data Space (a failure is    *)
(* only logged) and then written to the local file; every few events a     *)
(* snapshot is appended as well. A worker that starts replays the Data     *)
(* Space, or falls back to its file, and merges the file over the replay.  *)
(*                                                                         *)
(* Of a session only what the merge looks at is kept; its thread, room and *)
(* turn are not.                                                           *)
(***************************************************************************)
EXTENDS EventLog

CONSTANTS Inst,       \* installations that share the Data Space
          Threads,    \* Threads[w]: sessions whose thread w's Codex can list
          Corrupt,    \* a local file that does not parse
          Plans       \* what may happen in one behaviour

\* faults: what may fail; ids: the sessions and approvals there may be; interval:
\* snapshot_interval; time, starts: bounds on the clock and the starts of a worker.
ASSUME MirrorAssumption ==
    /\ Plans \subseteq [faults : SUBSET {"append", "replay", "local", "list", "crash"},
                        ids : SUBSET (Session \cup Approval),
                        interval : Nat \ {0}, time : Nat, starts : Nat]
    /\ Threads \in [Inst -> SUBSET Session]
    /\ None \notin Inst \cup Nat /\ None # Corrupt
    /\ Session \cap Approval = {}

VARIABLES plan,     \* one of Plans, for the whole behaviour
          now,      \* the clock: changes are stamped with it
          mem,      \* WorkerState of each worker that runs
          work,     \* where it is in persist_event or persist_snapshot
          file,     \* the local snapshot file
          born,     \* sessions and approvals ever created (ids are random)
          ended,    \* history: sessions purged, approvals resolved
          settled,  \* history: those of them that the local file was told of
          starts    \* how often each worker has started

vars == <<plan, log, now, mem, work, file, born, ended, settled, starts>>

Records == [owner : Inst \cup {None}, mirror : Inst \cup {None},
            archived : BOOLEAN, updated : Nat]
Off == [pc |-> "down", todo |-> <<>>, at |-> 0, gone |-> {}]
Up(w) == work[w].pc # "down"

\* to_snapshot, with the writer the local file names.
LocalFile(w, st, at) == [writer |-> w, at |-> at, sessions |-> st.sessions,
                         approvals |-> st.approvals]

BelongsTo(r, w) == IF r.owner # None THEN r.owner = w ELSE r.mirror = w
Mine(w) == {s \in DOMAIN mem[w].sessions : BelongsTo(mem[w].sessions[s], w)}

TypeOK ==
    /\ plan \in Plans /\ now \in Nat /\ born \subseteq Session \cup Approval
    /\ settled \subseteq ended /\ ended \subseteq born /\ starts \in [Inst -> Nat]
    /\ \A w \in Inst :
         /\ work[w].pc \in {"down", "idle", "append", "snapshot", "local"}
         /\ work[w].at \in Nat /\ work[w].gone \subseteq Session \cup Approval
         /\ Up(w) => /\ DOMAIN mem[w].sessions \subseteq Session
                     /\ \A s \in DOMAIN mem[w].sessions :
                          mem[w].sessions[s] \in Records /\ mem[w].sessions[s].updated <= now
                     /\ DOMAIN mem[w].approvals \subseteq Approval
                     /\ mem[w].count \in Nat
         /\ file[w] \in {None, Corrupt} \/ file[w].at <= now

\* The Data Space may hold sessions written before installations had an identity,
\* and a file of that time has no writer.
Legacy == [owner |-> None, mirror |-> None, archived |-> FALSE, updated |-> 0]

Init ==
    /\ plan \in Plans
    /\ \E old \in SUBSET (Session \cap plan.ids) :
         /\ log = IF old = {} THEN <<>>
                  ELSE << [kind |-> "snapshot", at |-> 0, approvals |-> Empty,
                           sessions |-> [s \in old |-> Legacy]] >>
         /\ born = old
         /\ file \in [Inst -> {None} \cup {[writer |-> None, at |-> 0, approvals |-> Empty,
                                           sessions |-> [s \in old |-> Legacy]]}]
    /\ now = 0 /\ ended = {} /\ settled = {}
    /\ mem = [w \in Inst |-> NoReplay] /\ work = [w \in Inst |-> Off]
    /\ starts = [w \in Inst |-> 0]
-----------------------------------------------------------------------------
(* Starting: replay, merge, persist what the merge changed.                *)

Claimed(r, w) == [r EXCEPT !.owner = IF @ = None THEN w ELSE @, !.mirror = w]

StaleAgainst(st, at) == st.snapAt # None /\ st.snapAt >= at

\* Mutant: a purge after the snapshot is not looked at.
LocalSessionOlder(st, s, l) == StaleAgainst(st, l.updated)

\* local_session_is_stale_against_remote
LocalSessionStale(st, s, l) == s \in st.purgedIds \/ StaleAgainst(st, l.updated)

\* A local session counts if it is not another installation's and there is
\* evidence that it is this one's.
Claimable(l, s, w, scope, listed) ==
    /\ l.owner \in {None, w}
    /\ \/ s \in listed /\ scope # "writer only"
       \/ (l.owner = w \/ l.mirror = w) /\ scope # "listed only"

\* Mutant: the newer record wins, archived or not.
BlocksNothing(st, s, l) == FALSE

\* An archived session is not replaced by one that is not.
BlocksReplacement(st, s, l) ==
    (st.sessions[s].archived \/ s \in st.archivedIds) /\ ~l.archived

\* Mutant: the Data Space's record always wins.
RemoteSession(st, s, l, w) ==
    IF st.sessions[s].owner \in {None, w} THEN Claimed(st.sessions[s], w) ELSE st.sessions[s]

\* merge_local_mirror, for one session that counts.
MergedSession(st, s, l, w) ==
    LET r == st.sessions[s] IN
    CASE r.owner \notin {None, w} -> r
      [] r.owner \in {None, w} /\ l.updated > r.updated /\ ~BlocksReplacement(st, s, l)
           -> Claimed(l, w)
      [] OTHER -> Claimed(r, w)

MergeSessions(st, local, w, scope, listed) ==
    LET counts == {s \in DOMAIN local.sessions :
                     Claimable(local.sessions[s], s, w, scope, listed)}
        added == {s \in counts \ DOMAIN st.sessions :
                    ~LocalSessionStale(st, s, local.sessions[s])}
    IN  [s \in DOMAIN st.sessions \cup added |->
           IF s \in added THEN Claimed(local.sessions[s], w)
           ELSE IF s \in counts THEN MergedSession(st, s, local.sessions[s], w)
           ELSE st.sessions[s]]

\* Mutant: the tombstone of an approval is not looked at.
LocalApprovalOlder(st, a, l) == StaleAgainst(st, l.at)

LocalApprovalStale(st, a, l) == a \in st.resolvedIds \/ StaleAgainst(st, l.at)

\* merge_local_pending_approvals, over the sessions already merged.
MergeApprovals(st, local, w) ==
    LET added == {a \in DOMAIN local.approvals :
           LET l == local.approvals[a] IN
           /\ ~LocalApprovalStale(st, a, l)
           /\ l.session \in DOMAIN st.sessions /\ BelongsTo(st.sessions[l.session], w)
           /\ a \in DOMAIN st.approvals => st.approvals[a].at < l.at}
    IN  [a \in DOMAIN st.approvals \cup added |->
           IF a \in added THEN local.approvals[a] ELSE st.approvals[a]]

Merge(st, local, w, scope, listed) ==
    LET merged == [st EXCEPT !.sessions = MergeSessions(st, local, w, scope, listed)]
    IN  [merged EXCEPT !.approvals = MergeApprovals(merged, local, w)]

\* claim_legacy_local_sessions
ClaimLegacy(st, w, listed) ==
    [st EXCEPT !.sessions = [s \in DOMAIN @ |->
        IF @[s].owner = None /\ @[s].mirror = None /\ s \in listed
        THEN Claimed(@[s], w) ELSE @[s]]]

\* What a start makes of a replay and the file; listing the threads may fail.
StartState(w, st, listing) ==
    CASE file[w] = Corrupt -> st
      [] file[w] = None -> IF listing THEN ClaimLegacy(st, w, Threads[w]) ELSE st
      [] OTHER ->
           IF file[w].writer = w
           THEN Merge(st, file[w], w, IF listing THEN "writer or listed" ELSE "writer only",
                      Threads[w])
           ELSE IF file[w].writer = None /\ listing
           THEN Merge(st, file[w], w, "listed only", Threads[w])
           ELSE st

Begin(w, st, pc) ==
    /\ mem' = [mem EXCEPT ![w] = st]
    /\ work' = [work EXCEPT ![w] = [Off EXCEPT !.pc = pc, !.at = now]]
    /\ starts' = [starts EXCEPT ![w] = @ + 1]
    /\ UNCHANGED <<plan, log, now, file, born, ended, settled>>

\* The Data Space was read.  (A pre-active worker persists later, when it is
\* unquiesced; it changes nothing in between, so only a crash comes first.)
StartFromDataSpace(w) ==
    /\ ~Up(w) /\ starts[w] < plan.starts /\ ~ReachesPageLimit(log)
    /\ \E listing \in {TRUE} \cup (IF "list" \in plan.faults THEN {FALSE} ELSE {}) :
         LET replayed == Replay(log)
             st == StartState(w, replayed, listing)
         IN  Begin(w, st, IF st # replayed THEN "snapshot" ELSE "idle")

\* It was not: the file is all there is, and a file that does not parse is fatal.
StartFromFile(w) ==
    /\ ~Up(w) /\ starts[w] < plan.starts
    /\ "replay" \in plan.faults \/ ReachesPageLimit(log)
    /\ file[w] # Corrupt
    /\ \E listing \in {TRUE} \cup (IF "list" \in plan.faults THEN {FALSE} ELSE {}) :
         LET local == IF file[w] = None THEN NoReplay ELSE FromSnapshot(file[w])
             legacy == file[w] # None /\ file[w].writer = None /\ listing
             st == IF legacy THEN ClaimLegacy(local, w, Threads[w]) ELSE local
         IN  Begin(w, st, IF st # local THEN "local" ELSE "idle")
-----------------------------------------------------------------------------
(* persist_event and persist_snapshot.                                     *)

Touched(st, s) == [st EXCEPT !.sessions[s].updated = now + 1]

\* The change a job makes, and the event that says it.
Change(w, st, job) ==
    CASE job.do = "create" ->
           [st EXCEPT !.sessions = Put(@, job.id, [owner |-> w, mirror |-> w,
                         archived |-> FALSE, updated |-> now + 1])]
      [] job.do = "update" -> Touched(st, job.id)
      [] job.do = "archive" ->
           [Touched(st, job.id) EXCEPT !.sessions[job.id].archived = TRUE,
                                       !.approvals = Drop(@, ApprovalsOf(@, job.id))]
      [] job.do = "purge" ->
           [st EXCEPT !.sessions = Drop(@, {job.id}),
                      !.approvals = Drop(@, ApprovalsOf(@, job.id))]
      [] job.do = "request" -> st
      [] job.do = "resolve" -> [st EXCEPT !.approvals = Drop(@, {job.id})]

Event(st, job) ==
    CASE job.do = "create" -> [kind |-> "created", id |-> job.id, session |-> st.sessions[job.id]]
      [] job.do = "update" -> [kind |-> "updated", id |-> job.id, session |-> st.sessions[job.id]]
      [] job.do = "archive" -> [kind |-> "archived", id |-> job.id]
      [] job.do = "purge" -> [kind |-> "purged", id |-> job.id]
      [] job.do = "request" -> [kind |-> "requested", id |-> job.id, approval |-> job.approval]
      [] job.do = "resolve" -> [kind |-> "resolved", id |-> job.id]

\* A handler makes its change and starts to persist it; jobs that follow are made
\* and persisted when the earlier ones are through.
Run(w, st, jobs, gone) ==
    LET job == Head(jobs)
        changed == IF job.do = "snapshot" THEN st ELSE Change(w, st, job)
    IN  /\ now' = IF job.do \in {"create", "update", "archive"} THEN now + 1 ELSE now
        /\ mem' = [mem EXCEPT ![w] = changed]
        /\ work' = [work EXCEPT ![w] =
              [pc |-> IF job.do = "snapshot" THEN "snapshot" ELSE "append",
               todo |-> jobs, at |-> now', gone |-> gone]]

Follow(w, st) ==
    LET rest == Tail(work[w].todo) IN
    IF work[w].todo = <<>> \/ rest = <<>>
    THEN /\ work' = [work EXCEPT ![w] = [Off EXCEPT !.pc = "idle"]]
         /\ UNCHANGED <<mem, now>>
    ELSE Run(w, st, rest, work[w].gone)

AppendEvent(w) ==
    /\ work[w].pc = "append"
    /\ \/ log' = Append(log, Event(mem[w], Head(work[w].todo)))
       \/ "append" \in plan.faults /\ UNCHANGED log
    /\ mem' = [mem EXCEPT ![w].count = @ + 1]
    /\ work' = [work EXCEPT ![w].at = now,
                  ![w].pc = IF mem[w].count + 1 >= plan.interval THEN "snapshot" ELSE "local"]
    /\ UNCHANGED <<plan, now, file, born, ended, settled, starts>>

AppendSnapshot(w) ==
    /\ work[w].pc = "snapshot"
    /\ \/ log' = Append(log, ToSnapshot(mem[w], now))
       \/ "append" \in plan.faults /\ UNCHANGED log
    /\ mem' = [mem EXCEPT ![w].count = 0]
    /\ work' = [work EXCEPT ![w].pc = "local", ![w].at = now]
    /\ UNCHANGED <<plan, now, file, born, ended, settled, starts>>

WriteLocal(w) ==
    /\ work[w].pc = "local"
    /\ file' = [file EXCEPT ![w] = LocalFile(w, mem[w], work[w].at)]
    /\ settled' = settled \cup work[w].gone
    /\ Follow(w, mem[w])
    /\ UNCHANGED <<plan, log, born, ended, starts>>

\* The write fails, the file is as it was or torn: the handler gives up, and a
\* worker that was starting ends.
FailLocal(w) ==
    /\ work[w].pc = "local" /\ "local" \in plan.faults
    /\ file' \in {file, [file EXCEPT ![w] = Corrupt]}
    /\ work' = [work EXCEPT ![w] =
                  IF work[w].todo = <<>> THEN Off ELSE [Off EXCEPT !.pc = "idle"]]
    /\ mem' = [mem EXCEPT ![w] = IF work[w].todo = <<>> THEN NoReplay ELSE @]
    /\ UNCHANGED <<plan, log, now, born, ended, settled, starts>>

\* Between two handlers the worker may be stopped.
Stop(w) ==
    /\ work[w].pc = "idle"
    /\ work' = [work EXCEPT ![w] = Off]
    /\ mem' = [mem EXCEPT ![w] = NoReplay]
    /\ UNCHANGED <<plan, log, now, file, born, ended, settled, starts>>

\* The worker dies: with it what was not written, and maybe the file it wrote.
Crash(w) ==
    /\ work[w].pc \in {"append", "snapshot", "local"} /\ "crash" \in plan.faults
    /\ work' = [work EXCEPT ![w] = Off]
    /\ mem' = [mem EXCEPT ![w] = NoReplay]
    /\ \/ UNCHANGED file
       \/ work[w].pc = "local" /\ "local" \in plan.faults /\ file' = [file EXCEPT ![w] = Corrupt]
    /\ UNCHANGED <<plan, log, now, born, ended, settled, starts>>
-----------------------------------------------------------------------------
(* The handlers, one at a time in the worker loop.                         *)

Handler(w, jobs, st, gone) ==
    /\ work[w].pc = "idle" /\ now < plan.time
    /\ Run(w, st, jobs, gone)
    /\ ended' = ended \cup gone
    /\ UNCHANGED <<plan, log, file, settled, starts>>

Create(w, s) ==
    /\ s \in plan.ids \ born /\ s \in Threads[w] /\ born' = born \cup {s}
    /\ Handler(w, <<[do |-> "create", id |-> s], [do |-> "update", id |-> s]>>, mem[w], {})

\* Every handler that sends SessionUpdated: prompts, commands, notifications.
Update(w, s) ==
    /\ s \in Mine(w) /\ UNCHANGED born
    /\ Handler(w, <<[do |-> "update", id |-> s]>>, mem[w], {})

ArchiveSession(w, s) ==
    /\ s \in Mine(w) /\ UNCHANGED born
    /\ Handler(w, <<[do |-> "archive", id |-> s]>>, mem[w], {})

PurgeArchived(w, s) ==
    /\ s \in Mine(w) /\ mem[w].sessions[s].archived /\ UNCHANGED born
    /\ Handler(w, <<[do |-> "purge", id |-> s], [do |-> "snapshot"]>>, mem[w], {s})

RequestApproval(w, a, s) ==
    LET approval == [session |-> s, at |-> now + 1] IN
    /\ a \in plan.ids \ born /\ s \in Mine(w) /\ ~mem[w].sessions[s].archived
    /\ born' = born \cup {a}
    /\ Handler(w, <<[do |-> "update", id |-> s],
                    [do |-> "request", id |-> a, approval |-> approval]>>,
               [mem[w] EXCEPT !.approvals = Put(@, a, approval)], {})

ResolveApproval(w, a) ==
    /\ a \in DOMAIN mem[w].approvals /\ mem[w].approvals[a].session \in Mine(w)
    /\ UNCHANGED born
    /\ Handler(w, <<[do |-> "resolve", id |-> a],
                    [do |-> "update", id |-> mem[w].approvals[a].session]>>, mem[w], {a})

WorkerNext(w) ==
    \/ StartFromDataSpace(w) \/ StartFromFile(w)
    \/ AppendEvent(w) \/ AppendSnapshot(w) \/ WriteLocal(w) \/ FailLocal(w) \/ Stop(w) \/ Crash(w)
    \/ \E s \in Session : \/ Create(w, s) \/ Update(w, s) \/ ArchiveSession(w, s)
                          \/ PurgeArchived(w, s)
                          \/ \E a \in Approval : RequestApproval(w, a, s)
    \/ \E a \in Approval : ResolveApproval(w, a)

Next == \E w \in Inst : WorkerNext(w)

Spec == Init /\ [][Next]_vars
-----------------------------------------------------------------------------
Logged(kind) == {log[i].id : i \in {j \in DOMAIN log : log[j].kind = kind}}
Starts(w) == ~Up(w) /\ work'[w].pc # "down"

\* Sessions the Data Space was told are archived, after it was told of them.
LoggedBefore(s, j) ==
    \E i \in 1..(j - 1) : \/ log[i].kind \in {"created", "updated"} /\ log[i].id = s
                          \/ log[i].kind = "snapshot" /\ s \in DOMAIN log[i].sessions
ArchivedKnown == {s \in Session : \E j \in DOMAIN log :
                    log[j].kind = "archived" /\ log[j].id = s /\ LoggedBefore(s, j)}

\* A start that can not read the Data Space believes the file, which a crash or a
\* failed write leaves behind it.  What is said below of such starts holds where the
\* file is never behind when a worker starts.
NeverBehind == "replay" \notin plan.faults \/ plan.faults \cap {"crash", "local"} = {}

\* What the Data Space, or the local file, was told is purged or resolved is not
\* in a table again, if appends do not fail and the file is not behind where it
\* stands alone (merge_local_mirror, the tombstones).
GoneStaysGone ==
    "append" \notin plan.faults /\ NeverBehind =>
      \A w \in Inst : Up(w) =>
        /\ DOMAIN mem[w].sessions \cap (Logged("purged") \cup settled) = {}
        /\ DOMAIN mem[w].approvals \cap (Logged("resolved") \cup settled) = {}

\* A session the Data Space had a record of when it was told that it is archived
\* is not active again, unless a file that is behind stands alone
\* (remote_session_blocks_local_replacement).
ArchivedRecordStays ==
    NeverBehind =>
      \A w \in Inst : Up(w) => \A s \in ArchivedKnown \cap DOMAIN mem[w].sessions :
        mem[w].sessions[s].archived

\* Every part of the state has its type, no record is newer than the clock, and
\* an archived session the Data Space knew stays archived (merge_local_mirror).
RecordInv == TypeOK /\ ArchivedRecordStays

\* A worker that starts has every session its own file has, as it is there or
\* newer, except those it purged; one the Data Space says was archived stays
\* archived rather than new (merge_local_mirror).
FileSurvives ==
    [][ NeverBehind => \A w \in Inst : Starts(w) /\ file[w] \notin {None, Corrupt} =>
          \A s \in DOMAIN file[w].sessions \ ended :
             LET l == file[w].sessions[s] IN
             BelongsTo(l, w) =>
               /\ s \in DOMAIN mem'[w].sessions
               /\ \/ mem'[w].sessions[s].updated >= l.updated
                  \/ s \in Logged("archived")
               /\ l.archived => mem'[w].sessions[s].archived ]_vars

\* If nothing but the worker fails, the Data Space alone gives its table back, but
\* for the stamp of an archived session: losing the file loses nothing
\* (persist_event).
Unstamped(sessions) == [s \in DOMAIN sessions |->
    IF sessions[s].archived THEN [sessions[s] EXCEPT !.updated = 0] ELSE sessions[s]]
DataSpaceIsComplete ==
    \A w \in Inst : plan.faults \subseteq {"crash"} /\ work[w].pc = "idle" =>
        LET st == Replay(log) IN
        /\ Unstamped(st.sessions) = Unstamped(mem[w].sessions)
        /\ st.approvals = mem[w].approvals
        /\ st.count = mem[w].count
=============================================================================
