----------------------------- MODULE MirrorProofs -----------------------------
(***************************************************************************)
(* Proofs about Mirror, for any sessions, approvals, plans, times and any  *)
(* number of starts.                                                       *)
(***************************************************************************)
EXTENDS Mirror, EventLogProofs

-----------------------------------------------------------------------------
(* Types.                                                                  *)

\* A table: a function on some of the keys.
Tables(keys, values) == UNION {[some -> values] : some \in SUBSET keys}

RecordsTo(t) == [owner : Inst \cup {None}, mirror : Inst \cup {None},
                 archived : BOOLEAN, updated : 0..t]
ApprovalsTo(t) == [session : Session, at : 0..t]

\* What is in memory, or replayed, at a time.
StateOK(st, t) ==
    /\ IsReplay(st)
    /\ st.sessions \in Tables(Session, RecordsTo(t))
    /\ st.approvals \in Tables(Approval, ApprovalsTo(t))
    /\ st.count \in Nat /\ st.snapAt \in {None} \cup 0..t
    /\ st.archivedIds \subseteq Session /\ st.purgedIds \subseteq Session
    /\ st.resolvedIds \subseteq Approval

FileOK(f, t) ==
    \/ f \in {None, Corrupt}
    \/ f \in [writer : {None} \cup Inst, at : 0..t, sessions : Tables(Session, RecordsTo(t)),
              approvals : Tables(Approval, ApprovalsTo(t))]

\* A frame that a worker may write at a time; every frame that any may write.
MessageTo(t) ==
    [kind : {"created", "updated"}, id : Session, session : RecordsTo(t)]
    \cup [kind : {"archived", "purged"}, id : Session]
    \cup [kind : {"requested"}, id : Approval, approval : ApprovalsTo(t)]
    \cup [kind : {"resolved"}, id : Approval]
    \cup [kind : {"snapshot"}, at : 0..t, sessions : Tables(Session, RecordsTo(t)),
          approvals : Tables(Approval, ApprovalsTo(t))]
Message == UNION {MessageTo(t) : t \in Nat}

Job(do, id) == [do |-> do, id |-> id]
Asking(a, approval) == [do |-> "request", id |-> a, approval |-> approval]
Sweep == [do |-> "snapshot"]

\* What a worker that is at wk, with st in memory, has to do, and what it has made
\* of it so far: the change of the first job, and what the handler did beforehand.
Idle(wk) == wk.todo = <<>> /\ wk.gone = {} /\ wk.pc # "append"
Creating(wk, st, s) ==
    wk.todo = <<Job("create", s), Job("update", s)>> /\ s \in DOMAIN st.sessions
    /\ wk.gone = {}
Updating(wk, st, s) == wk.todo = <<Job("update", s)>> /\ s \in DOMAIN st.sessions
Archiving(wk, st, s) ==
    /\ wk.todo = <<Job("archive", s)>> /\ s \in DOMAIN st.sessions
    /\ st.sessions[s].archived /\ wk.gone = {}
Purging(wk, st, s, done) ==
    /\ wk.todo = <<Job("purge", s), Sweep>> /\ s \notin DOMAIN st.sessions
    /\ wk.gone = {s} /\ s \in done
Sweeping(wk) == wk.todo = <<Sweep>> /\ wk.pc # "append"
Preparing(wk, st, s, a) ==
    /\ wk.todo = <<Job("update", s), Asking(a, st.approvals[a])>>
    /\ s \in DOMAIN st.sessions /\ wk.gone = {}
Requesting(wk, st, a) == wk.todo = <<Asking(a, st.approvals[a])>> /\ wk.gone = {}
Resolving(wk, st, a, s, done) ==
    /\ wk.todo = <<Job("resolve", a), Job("update", s)>> /\ a \notin DOMAIN st.approvals
    /\ s \in DOMAIN st.sessions /\ wk.gone = {a} /\ a \in done

InHand(wk, st, done) ==
    \/ Idle(wk)
    \/ /\ wk.pc \in {"append", "snapshot", "local"}
       /\ \/ Sweeping(wk)
          \/ \E s \in Session :
               \/ Creating(wk, st, s) \/ Updating(wk, st, s) \/ Archiving(wk, st, s)
               \/ Purging(wk, st, s, done)
               \/ \E a \in Approval : Resolving(wk, st, a, s, done)
               \/ \E a \in DOMAIN st.approvals : Preparing(wk, st, s, a)
          \/ \E a \in DOMAIN st.approvals : Requesting(wk, st, a)

\* One worker, with its memory, its work and its file.
WorkerOK(st, wk, f, t, done) ==
    /\ StateOK(st, t) /\ FileOK(f, t) /\ InHand(wk, st, done)
    /\ wk = [pc |-> wk.pc, todo |-> wk.todo, at |-> wk.at, gone |-> wk.gone]
    /\ wk.pc \in {"down", "idle", "append", "snapshot", "local"} /\ wk.at \in 0..t
    /\ wk.gone \subseteq done

\* All of it.
TypeInv ==
    /\ plan \in Plans /\ now \in Nat
    /\ born \subseteq Session \cup Approval /\ settled \subseteq ended
    /\ ended \subseteq Session \cup Approval
    /\ starts \in [Inst -> Nat]
    /\ log \in Seq(Message) /\ StateOK(ReplayMessages(log), now)
    /\ mem = [w \in Inst |-> mem[w]] /\ work = [w \in Inst |-> work[w]]
    /\ file = [w \in Inst |-> file[w]]
    /\ \A w \in Inst : WorkerOK(mem[w], work[w], file[w], now, ended)

-----------------------------------------------------------------------------
(* Tables.                                                                 *)

IsTable(f) == f = [k \in DOMAIN f |-> f[k]]

\* A table is a function on some of the keys with values of the kind.
LEMMA TableIs ==
    ASSUME NEW f, NEW keys, NEW values
    PROVE  f \in Tables(keys, values) <=>
             /\ IsTable(f)
             /\ DOMAIN f \subseteq keys /\ \A k \in DOMAIN f : f[k] \in values
  <1>1. ASSUME f \in Tables(keys, values)
        PROVE  /\ IsTable(f)
               /\ DOMAIN f \subseteq keys /\ \A k \in DOMAIN f : f[k] \in values
    <2>1. PICK some \in SUBSET keys : f \in [some -> values]
      BY <1>1 DEF Tables
    <2> QED BY <2>1 DEF IsTable
  <1>2. ASSUME IsTable(f), DOMAIN f \subseteq keys,
               \A k \in DOMAIN f : f[k] \in values
        PROVE  f \in Tables(keys, values)
    <2>1. f \in [DOMAIN f -> values]
      BY <1>2 DEF IsTable
    <2> QED BY <1>2, <2>1 DEF Tables
  <1> QED BY <1>1, <1>2

\* An empty table is one.
LEMMA TableEmpty ==
    ASSUME NEW keys, NEW values PROVE Empty \in Tables(keys, values) /\ DOMAIN Empty = {}
  <1>1. DOMAIN Empty = {} /\ IsTable(Empty)
    BY DEF Empty, IsTable
  <1> QED BY <1>1, TableIs

\* What is in a table after keys are dropped.
LEMMA DropIs ==
    ASSUME NEW f, NEW out
    PROVE  /\ IsTable(Drop(f, out))
           /\ DOMAIN Drop(f, out) = DOMAIN f \ out
           /\ \A j \in DOMAIN f : j \notin out => Drop(f, out)[j] = f[j]
  BY DEF Drop, Restrict, IsTable

\* Putting a value under a key keeps a table one.
LEMMA TablePut ==
    ASSUME NEW keys, NEW values, NEW f \in Tables(keys, values), NEW k \in keys,
           NEW v \in values
    PROVE  Put(f, k, v) \in Tables(keys, values)
  <1> DEFINE new == Put(f, k, v)
  <1>1. /\ DOMAIN f \subseteq keys /\ \A j \in DOMAIN f : f[j] \in values
    BY TableIs
  <1>2. /\ IsTable(new) /\ DOMAIN new = DOMAIN f \cup {k}
        /\ new[k] = v /\ \A j \in DOMAIN f : j # k => new[j] = f[j]
    BY DEF Put, IsTable
  <1> HIDE DEF new
  <1>3. new \in Tables(keys, values)
    BY <1>1, <1>2, TableIs
  <1> QED BY <1>3 DEF new

\* Dropping keys keeps a table one.
LEMMA TableDrop ==
    ASSUME NEW keys, NEW values, NEW f \in Tables(keys, values), NEW out
    PROVE  Drop(f, out) \in Tables(keys, values)
  <1> DEFINE new == Drop(f, out)
  <1>1. /\ DOMAIN f \subseteq keys /\ \A j \in DOMAIN f : f[j] \in values
    BY TableIs
  <1>2. /\ IsTable(new) /\ DOMAIN new = DOMAIN f \ out
        /\ \A j \in DOMAIN f : j \notin out => new[j] = f[j]
    BY DropIs
  <1> HIDE DEF new
  <1>3. new \in Tables(keys, values)
    BY <1>1, <1>2, TableIs
  <1> QED BY <1>3 DEF new

\* What may be written by a time may be written later.
LEMMA LaterOK ==
    ASSUME NEW t \in Nat, NEW u \in Nat, t <= u
    PROVE  /\ \A f : f \in Tables(Session, RecordsTo(t)) => f \in Tables(Session, RecordsTo(u))
           /\ \A f : f \in Tables(Approval, ApprovalsTo(t)) =>
                     f \in Tables(Approval, ApprovalsTo(u))
           /\ \A st : StateOK(st, t) => StateOK(st, u)
           /\ \A f : FileOK(f, t) => FileOK(f, u)
  <1>1. 0..t \subseteq 0..u
    OBVIOUS
  <1>2. RecordsTo(t) \subseteq RecordsTo(u) /\ ApprovalsTo(t) \subseteq ApprovalsTo(u)
    BY <1>1 DEF RecordsTo, ApprovalsTo
  <1>3. ASSUME NEW f, f \in Tables(Session, RecordsTo(t))
        PROVE  f \in Tables(Session, RecordsTo(u))
    BY <1>2, <1>3, TableIs
  <1>4. ASSUME NEW f, f \in Tables(Approval, ApprovalsTo(t))
        PROVE  f \in Tables(Approval, ApprovalsTo(u))
    BY <1>2, <1>4, TableIs
  <1>5. \A st : StateOK(st, t) => StateOK(st, u)
    BY <1>1, <1>3, <1>4 DEF StateOK
  <1>6. \A f : FileOK(f, t) => FileOK(f, u)
    BY <1>1, <1>3, <1>4 DEF FileOK
  <1> QED BY <1>3, <1>4, <1>5, <1>6

-----------------------------------------------------------------------------
(* A replay is typed.                                                      *)

\* Nothing replayed yet is.
LEMMA NothingOK == \A t \in Nat : StateOK(NoReplay, t)
  <1>1. /\ NoReplay.sessions = Empty /\ NoReplay.approvals = Empty /\ NoReplay.count = 0
        /\ NoReplay.archivedIds = {} /\ NoReplay.purgedIds = {}
        /\ NoReplay.resolvedIds = {} /\ NoReplay.snapAt = None /\ IsReplay(NoReplay)
    BY DEF NoReplay, IsReplay
  <1> QED BY <1>1, TableEmpty DEF StateOK

\* A message of the time keeps it so.
LEMMA StepOK ==
    ASSUME NEW t \in Nat, NEW st, StateOK(st, t), NEW m \in MessageTo(t)
    PROVE  IF IsSnapshot(m) THEN StateOK(FromSnapshot(m), t)
           ELSE StateOK(StepReplay(st, m), t)
  <1>1. CASE m \in [kind : {"snapshot"}, at : 0..t, sessions : Tables(Session, RecordsTo(t)),
                    approvals : Tables(Approval, ApprovalsTo(t))]
    <2>1. IsSnapshot(m)
      BY <1>1 DEF IsSnapshot
    <2>2. /\ m.at \in 0..t /\ m.sessions \in Tables(Session, RecordsTo(t))
          /\ m.approvals \in Tables(Approval, ApprovalsTo(t))
      BY <1>1
    <2>3. LET new == FromSnapshot(m) IN
          /\ IsReplay(new) /\ new.sessions = m.sessions /\ new.approvals = m.approvals
          /\ new.archivedIds = {} /\ new.purgedIds = {} /\ new.resolvedIds = {}
          /\ new.count = 0 /\ new.snapAt = m.at
      BY SnapshotParts
    <2> QED BY <2>1, <2>2, <2>3 DEF StateOK
  <1>2. CASE m \notin [kind : {"snapshot"}, at : 0..t,
                       sessions : Tables(Session, RecordsTo(t)),
                       approvals : Tables(Approval, ApprovalsTo(t))]
    <2> DEFINE next == StepReplay(st, m)
    <2>1. /\ ~IsSnapshot(m)
          /\ m.kind \in {"created", "updated"} => m.id \in Session /\ m.session \in RecordsTo(t)
          /\ m.kind \in {"archived", "purged"} => m.id \in Session
          /\ m.kind = "requested" => m.id \in Approval /\ m.approval \in ApprovalsTo(t)
          /\ m.kind = "resolved" => m.id \in Approval
      BY <1>2 DEF MessageTo, IsSnapshot
    <2>2. IsReplay(st) /\ IsReplay(next)
      BY StepSessions DEF StateOK
    <2>3. next.sessions \in Tables(Session, RecordsTo(t))
      <3>1. next.sessions =
              IF m.kind \in {"created", "updated"} THEN Put(st.sessions, m.id, m.session)
              ELSE IF m.kind = "archived" THEN Flagged(st.sessions, m.id)
              ELSE IF m.kind = "purged" THEN Drop(st.sessions, {m.id})
              ELSE st.sessions
        BY <2>2, StepSessions
      <3>2. st.sessions \in Tables(Session, RecordsTo(t))
        BY DEF StateOK
      <3>3. Flagged(st.sessions, m.id) \in Tables(Session, RecordsTo(t))
        <4> DEFINE f == st.sessions  g == Flagged(f, m.id)
        <4>1. /\ IsTable(f) /\ DOMAIN f \subseteq Session
              /\ \A k \in DOMAIN f : f[k] \in RecordsTo(t)
          BY <3>2, TableIs
        <4> HIDE DEF f
        <4>2. DOMAIN g = DOMAIN f /\ IsTable(g)
          BY <4>1 DEF Flagged, IsTable
        <4>3. ASSUME NEW k \in DOMAIN f PROVE g[k] \in RecordsTo(t)
          <5>1. g[k] = f[k] \/ g[k] = [f[k] EXCEPT !.archived = TRUE]
            BY <4>1 DEF Flagged
          <5>2. [f[k] EXCEPT !.archived = TRUE] \in RecordsTo(t)
            BY <4>1 DEF RecordsTo
          <5> QED BY <4>1, <5>1, <5>2
        <4> HIDE DEF g
        <4>4. g \in Tables(Session, RecordsTo(t))
          BY <4>1, <4>2, <4>3, TableIs
        <4> QED BY <4>4 DEF f, g
      <3>4. m.kind \in {"created", "updated"} =>
              Put(st.sessions, m.id, m.session) \in Tables(Session, RecordsTo(t))
        BY <2>1, <3>2, TablePut
      <3>5. Drop(st.sessions, {m.id}) \in Tables(Session, RecordsTo(t))
        BY <3>2, TableDrop
      <3> HIDE DEF next
      <3> QED BY <3>1, <3>2, <3>3, <3>4, <3>5
    <2>4. next.approvals \in Tables(Approval, ApprovalsTo(t))
      <3>1. next.approvals =
              IF m.kind = "requested" THEN Put(st.approvals, m.id, m.approval)
              ELSE IF m.kind \in {"archived", "purged"}
                   THEN Drop(st.approvals, ApprovalsOf(st.approvals, m.id))
              ELSE IF m.kind = "resolved" THEN Drop(st.approvals, {m.id})
              ELSE st.approvals
        BY <2>2, StepApprovals
      <3>2. st.approvals \in Tables(Approval, ApprovalsTo(t))
        BY DEF StateOK
      <3>3. m.kind = "requested" =>
              Put(st.approvals, m.id, m.approval) \in Tables(Approval, ApprovalsTo(t))
        BY <2>1, <3>2, TablePut
      <3>4. \A out : Drop(st.approvals, out) \in Tables(Approval, ApprovalsTo(t))
        BY <3>2, TableDrop
      <3> HIDE DEF next
      <3> QED BY <3>1, <3>2, <3>3, <3>4
    <2>5. /\ next.count \in Nat /\ next.snapAt \in {None} \cup 0..t
          /\ next.archivedIds \subseteq Session /\ next.purgedIds \subseteq Session
          /\ next.resolvedIds \subseteq Approval
      <3>1. /\ next.archivedIds = IF m.kind = "archived" THEN st.archivedIds \cup {m.id}
                                  ELSE IF m.kind = "purged" THEN st.archivedIds \ {m.id}
                                  ELSE st.archivedIds
            /\ next.purgedIds = IF m.kind = "purged" THEN st.purgedIds \cup {m.id}
                                ELSE st.purgedIds
            /\ next.resolvedIds = IF m.kind = "resolved" THEN st.resolvedIds \cup {m.id}
                                  ELSE st.resolvedIds
            /\ next.count = IF IsEvent(m) THEN st.count + 1 ELSE st.count
            /\ next.snapAt = st.snapAt
        BY <2>2, StepTold
      <3>2. /\ st.count \in Nat /\ st.snapAt \in {None} \cup 0..t
            /\ st.archivedIds \subseteq Session /\ st.purgedIds \subseteq Session
            /\ st.resolvedIds \subseteq Approval
        BY DEF StateOK
      <3> HIDE DEF next
      <3> QED BY <2>1, <3>1, <3>2
    <2> HIDE DEF next
    <2>6. StateOK(next, t)
      BY <2>2, <2>3, <2>4, <2>5 DEF StateOK
    <2> QED BY <2>1, <2>6 DEF next
  <1> QED BY <1>1, <1>2

-----------------------------------------------------------------------------
(* What a start makes of a replay and of the file.                         *)

HasFile(w) == file[w] \notin {None, Corrupt}

\* A session of a start is the replay's, or the file's where the merge lets it in.
SessionFrom(new, st, w, s) ==
    \/ s \in DOMAIN st.sessions /\ new \in {st.sessions[s], Claimed(st.sessions[s], w)}
    \/ /\ HasFile(w) /\ s \in DOMAIN file[w].sessions
       /\ new = Claimed(file[w].sessions[s], w)
       /\ IF s \in DOMAIN st.sessions
          THEN /\ file[w].sessions[s].updated > st.sessions[s].updated
               /\ ~BlocksReplacement(st, s, file[w].sessions[s])
          ELSE ~LocalSessionStale(st, s, file[w].sessions[s])

\* A state with other sessions and approvals.
With(st, x, y) ==
    [sessions |-> x, approvals |-> y, count |-> st.count, snapAt |-> st.snapAt,
     archivedIds |-> st.archivedIds, purgedIds |-> st.purgedIds,
     resolvedIds |-> st.resolvedIds]

\* What a start has in memory, next to the replay it made it of.
StartedFrom(new, st, w) ==
    /\ new = With(st, new.sessions, new.approvals)
    /\ DOMAIN st.sessions \subseteq DOMAIN new.sessions
    /\ \A s \in DOMAIN new.sessions : SessionFrom(new.sessions[s], st, w, s)
    /\ \A a \in DOMAIN new.approvals :
         \/ a \in DOMAIN st.approvals /\ new.approvals[a] = st.approvals[a]
         \/ /\ HasFile(w) /\ a \in DOMAIN file[w].approvals
            /\ new.approvals[a] = file[w].approvals[a]
            /\ ~LocalApprovalStale(st, a, file[w].approvals[a])

\* A claimed session keeps what it says.
LEMMA ClaimedOK ==
    ASSUME NEW t, NEW r \in RecordsTo(t), NEW w \in Inst
    PROVE  /\ Claimed(r, w) \in RecordsTo(t)
           /\ Claimed(r, w).archived = r.archived /\ Claimed(r, w).updated = r.updated
           /\ Claimed(r, w).mirror = w
           /\ Claimed(r, w).owner = IF r.owner = None THEN w ELSE r.owner
  BY DEF RecordsTo, Claimed

\* A state keeps its other parts when its sessions or its approvals change.
LEMMA PartsKept ==
    ASSUME NEW st, IsReplay(st), NEW x, NEW y
    PROVE  /\ IsReplay(With(st, x, y))
           /\ With(st, x, y).sessions = x /\ With(st, x, y).approvals = y
           /\ With(st, x, y).count = st.count /\ With(st, x, y).snapAt = st.snapAt
           /\ With(st, x, y).archivedIds = st.archivedIds
           /\ With(st, x, y).purgedIds = st.purgedIds
           /\ With(st, x, y).resolvedIds = st.resolvedIds
  <1> DEFINE both == With(st, x, y)
  <1>1. /\ both.sessions = x /\ both.approvals = y
        /\ both.count = st.count /\ both.snapAt = st.snapAt
        /\ both.archivedIds = st.archivedIds /\ both.purgedIds = st.purgedIds
        /\ both.resolvedIds = st.resolvedIds
    BY DEF With
  <1>2. IsReplay(both)
    BY DEF With, IsReplay
  <1> QED BY <1>1, <1>2

\* Changing one part, or none, is changing both.
LEMMA PartKept ==
    ASSUME NEW st, IsReplay(st), NEW x, NEW y
    PROVE  /\ [st EXCEPT !.sessions = x] = With(st, x, st.approvals)
           /\ [st EXCEPT !.approvals = y] = With(st, st.sessions, y)
           /\ st = With(st, st.sessions, st.approvals)
  <1>1. PICK a, b, c, d, e, f, g :
          st = [sessions |-> a, approvals |-> b, count |-> c, snapAt |-> d,
                archivedIds |-> e, purgedIds |-> f, resolvedIds |-> g]
    BY DEF IsReplay
  <1>2. [st EXCEPT !.sessions = x] = With(st, x, st.approvals)
    BY <1>1 DEF With
  <1>3. [st EXCEPT !.approvals = y] = With(st, st.sessions, y)
    BY <1>1 DEF With
  <1>4. st = With(st, st.sessions, st.approvals)
    BY <1>1 DEF With
  <1> QED BY <1>2, <1>3, <1>4

SetSessions(st, x) == [st EXCEPT !.sessions = x]
SetApprovals(st, y) == [st EXCEPT !.approvals = y]

\* Setting its parts one after the other is setting them both.
LEMMA PartsSet ==
    ASSUME NEW st, IsReplay(st), NEW x, NEW y
    PROVE  SetApprovals(SetSessions(st, x), y) = With(st, x, y)
  <1> DEFINE z == SetSessions(st, x)
  <1>1. z = With(st, x, st.approvals)
    BY PartKept DEF SetSessions
  <1>2. IsReplay(z) /\ z.sessions = x
        /\ z.count = st.count /\ z.snapAt = st.snapAt
        /\ z.archivedIds = st.archivedIds /\ z.purgedIds = st.purgedIds
        /\ z.resolvedIds = st.resolvedIds
    BY <1>1, PartsKept
  <1> HIDE DEF z
  <1>3. SetApprovals(z, y) = With(z, z.sessions, y)
    BY <1>2, PartKept DEF SetApprovals
  <1> QED BY <1>2, <1>3 DEF With, z

\* Typed parts make a typed state.
LEMMA PartsOK ==
    ASSUME NEW t, NEW st, StateOK(st, t), NEW x \in Tables(Session, RecordsTo(t)),
           NEW y \in Tables(Approval, ApprovalsTo(t))
    PROVE  StateOK(With(st, x, y), t)
  <1>1. IsReplay(st)
    BY DEF StateOK
  <1>2. /\ IsReplay(With(st, x, y))
        /\ With(st, x, y).sessions = x /\ With(st, x, y).approvals = y
        /\ With(st, x, y).count = st.count /\ With(st, x, y).snapAt = st.snapAt
        /\ With(st, x, y).archivedIds = st.archivedIds
        /\ With(st, x, y).purgedIds = st.purgedIds
        /\ With(st, x, y).resolvedIds = st.resolvedIds
    BY <1>1, PartsKept
  <1> QED BY <1>2 DEF StateOK

\* The sessions of a merge.
LEMMA MergedSessions ==
    ASSUME NEW t \in Nat, NEW st, StateOK(st, t), NEW w \in Inst, NEW scope, NEW listed,
           HasFile(w), FileOK(file[w], t)
    PROVE  LET new == MergeSessions(st, file[w], w, scope, listed) IN
           /\ new \in Tables(Session, RecordsTo(t))
           /\ DOMAIN st.sessions \subseteq DOMAIN new
           /\ \A s \in DOMAIN new : SessionFrom(new[s], st, w, s)
           /\ \A s \in DOMAIN file[w].sessions :
                Claimable(file[w].sessions[s], s, w, scope, listed) =>
                  IF s \in DOMAIN st.sessions
                  THEN new[s] = MergedSession(st, s, file[w].sessions[s], w)
                  ELSE /\ s \in DOMAIN new <=>
                            ~LocalSessionStale(st, s, file[w].sessions[s])
                       /\ s \in DOMAIN new => new[s] = Claimed(file[w].sessions[s], w)
  <1> DEFINE f == file[w].sessions  old == st.sessions
             new == MergeSessions(st, file[w], w, scope, listed)
             counts == {s \in DOMAIN f : Claimable(f[s], s, w, scope, listed)}
             added == {s \in counts \ DOMAIN old : ~LocalSessionStale(st, s, f[s])}
  <1>1. f \in Tables(Session, RecordsTo(t)) /\ old \in Tables(Session, RecordsTo(t))
    BY DEF HasFile, FileOK, StateOK
  <1>2. /\ DOMAIN f \subseteq Session /\ \A s \in DOMAIN f : f[s] \in RecordsTo(t)
        /\ DOMAIN old \subseteq Session /\ \A s \in DOMAIN old : old[s] \in RecordsTo(t)
    BY <1>1, TableIs
  <1>3. new = [s \in DOMAIN old \cup added |->
                 IF s \in added THEN Claimed(f[s], w)
                 ELSE IF s \in counts THEN MergedSession(st, s, f[s], w)
                 ELSE old[s]]
    BY DEF MergeSessions
  <1>4. DOMAIN new = DOMAIN old \cup added /\ IsTable(new)
        /\ \A s \in DOMAIN new : new[s] = IF s \in added THEN Claimed(f[s], w)
                                          ELSE IF s \in counts
                                          THEN MergedSession(st, s, f[s], w) ELSE old[s]
    <2> HIDE DEF added, counts, f, old, new
    <2> QED BY <1>3 DEF IsTable
  <1>5. ASSUME NEW s \in DOMAIN old, NEW l
        PROVE  \/ MergedSession(st, s, l, w) \in {old[s], Claimed(old[s], w)}
               \/ /\ MergedSession(st, s, l, w) = Claimed(l, w)
                  /\ l.updated > old[s].updated /\ ~BlocksReplacement(st, s, l)
    BY DEF MergedSession
  <1>6. /\ counts \subseteq DOMAIN f /\ added \subseteq counts
        /\ added \cap DOMAIN old = {}
        /\ \A s \in added : ~LocalSessionStale(st, s, f[s])
        /\ \A s \in DOMAIN f : Claimable(f[s], s, w, scope, listed) <=> s \in counts
        /\ \A s \in counts \ DOMAIN old : s \in added <=> ~LocalSessionStale(st, s, f[s])
    OBVIOUS
  <1> HIDE DEF added, counts, new
  <1>7. ASSUME NEW s \in DOMAIN new PROVE SessionFrom(new[s], st, w, s)
    <2>1. CASE s \in added
      BY <1>4, <1>6, <2>1 DEF SessionFrom
    <2>2. CASE s \in DOMAIN old /\ s \in counts
      <3>1. new[s] = MergedSession(st, s, f[s], w) /\ s \in DOMAIN f
        BY <1>4, <1>6, <2>2
      <3>2. \/ new[s] \in {old[s], Claimed(old[s], w)}
            \/ /\ new[s] = Claimed(f[s], w)
               /\ f[s].updated > old[s].updated /\ ~BlocksReplacement(st, s, f[s])
        BY <1>5, <2>2, <3>1
      <3> QED BY <2>2, <3>1, <3>2 DEF SessionFrom
    <2>3. CASE s \in DOMAIN old /\ s \notin counts
      BY <1>4, <1>6, <2>3 DEF SessionFrom
    <2> QED BY <1>4, <2>1, <2>2, <2>3
  <1>8. ASSUME NEW s \in DOMAIN new PROVE new[s] \in RecordsTo(t)
    <2>1. \A r \in RecordsTo(t) : Claimed(r, w) \in RecordsTo(t)
      BY ClaimedOK
    <2> QED BY <1>2, <1>7, <2>1 DEF SessionFrom
  <1>9. new \in Tables(Session, RecordsTo(t))
    <2>1. DOMAIN new \subseteq Session
      BY <1>2, <1>4, <1>6
    <2> QED BY <1>4, <1>8, <2>1, TableIs
  <1>10. ASSUME NEW s \in DOMAIN f, Claimable(f[s], s, w, scope, listed)
         PROVE  IF s \in DOMAIN old THEN new[s] = MergedSession(st, s, f[s], w)
                ELSE /\ s \in DOMAIN new <=> ~LocalSessionStale(st, s, f[s])
                     /\ s \in DOMAIN new => new[s] = Claimed(f[s], w)
    BY <1>4, <1>6, <1>10
  <1> QED BY <1>4, <1>7, <1>9, <1>10 DEF new

\* The approvals of a merge, over sessions that are merged already.
LEMMA MergedApprovals ==
    ASSUME NEW t \in Nat, NEW st, StateOK(st, t), NEW w \in Inst,
           HasFile(w), FileOK(file[w], t), NEW x
    PROVE  LET new == MergeApprovals([st EXCEPT !.sessions = x], file[w], w) IN
           /\ new \in Tables(Approval, ApprovalsTo(t))
           /\ \A a \in DOMAIN new :
                \/ a \in DOMAIN st.approvals /\ new[a] = st.approvals[a]
                \/ /\ a \in DOMAIN file[w].approvals
                   /\ new[a] = file[w].approvals[a]
                   /\ ~LocalApprovalStale(st, a, file[w].approvals[a])
  <1> DEFINE f == file[w].approvals  old == st.approvals
             over == [st EXCEPT !.sessions = x]
             new == MergeApprovals(over, file[w], w)
             added == {a \in DOMAIN f :
                         LET l == f[a] IN
                         /\ ~LocalApprovalStale(over, a, l)
                         /\ l.session \in DOMAIN over.sessions
                         /\ BelongsTo(over.sessions[l.session], w)
                         /\ a \in DOMAIN over.approvals => over.approvals[a].at < l.at}
  <1>1. f \in Tables(Approval, ApprovalsTo(t)) /\ old \in Tables(Approval, ApprovalsTo(t))
    BY DEF HasFile, FileOK, StateOK
  <1>2. /\ DOMAIN f \subseteq Approval /\ \A a \in DOMAIN f : f[a] \in ApprovalsTo(t)
        /\ DOMAIN old \subseteq Approval /\ \A a \in DOMAIN old : old[a] \in ApprovalsTo(t)
    BY <1>1, TableIs
  <1>3. /\ over.approvals = old /\ over.snapAt = st.snapAt
        /\ over.resolvedIds = st.resolvedIds
    <2>1. over = With(st, x, st.approvals)
      BY PartKept DEF StateOK
    <2>2. IsReplay(st)
      BY DEF StateOK
    <2> HIDE DEF over
    <2> QED BY <2>1, <2>2, PartsKept
  <1>4. new = [a \in DOMAIN old \cup added |-> IF a \in added THEN f[a] ELSE old[a]]
    <2>1. new = [a \in DOMAIN over.approvals \cup added |->
                   IF a \in added THEN f[a] ELSE over.approvals[a]]
      BY DEF MergeApprovals
    <2> QED BY <1>3, <2>1
  <1>5. added \subseteq DOMAIN f /\ \A a \in added : ~LocalApprovalStale(over, a, f[a])
    OBVIOUS
  <1> HIDE DEF new, added, over
  <1>6. \A a \in added : ~LocalApprovalStale(st, a, f[a])
    BY <1>3, <1>5 DEF LocalApprovalStale, StaleAgainst
  <1>7. DOMAIN new = DOMAIN old \cup added /\ IsTable(new)
        /\ \A a \in DOMAIN new : new[a] = IF a \in added THEN f[a] ELSE old[a]
    BY <1>4 DEF IsTable
  <1>8. new \in Tables(Approval, ApprovalsTo(t))
    <2>1. DOMAIN new \subseteq Approval /\ \A a \in DOMAIN new : new[a] \in ApprovalsTo(t)
      BY <1>2, <1>5, <1>7
    <2> QED BY <1>7, <2>1, TableIs
  <1> QED BY <1>5, <1>6, <1>7, <1>8 DEF new, over

\* Sessions without an owner are claimed when their thread is listed.
LEMMA ClaimedLegacy ==
    ASSUME NEW t \in Nat, NEW st, StateOK(st, t), NEW w \in Inst, NEW listed
    PROVE  LET new == ClaimLegacy(st, w, listed) IN
           /\ StateOK(new, t)
           /\ new = With(st, new.sessions, st.approvals)
           /\ new.approvals = st.approvals /\ DOMAIN new.sessions = DOMAIN st.sessions
           /\ \A s \in DOMAIN st.sessions :
                new.sessions[s] \in {st.sessions[s], Claimed(st.sessions[s], w)}
  <1> DEFINE old == st.sessions
             x == [s \in DOMAIN old |->
                     IF old[s].owner = None /\ old[s].mirror = None /\ s \in listed
                     THEN Claimed(old[s], w) ELSE old[s]]
             new == ClaimLegacy(st, w, listed)
  <1>1. old \in Tables(Session, RecordsTo(t)) /\ st.approvals \in Tables(Approval, ApprovalsTo(t))
        /\ IsReplay(st)
    BY DEF StateOK
  <1>2. DOMAIN old \subseteq Session /\ \A s \in DOMAIN old : old[s] \in RecordsTo(t)
    BY <1>1, TableIs
  <1>3. new = [st EXCEPT !.sessions = x]
    BY DEF ClaimLegacy
  <1>4. DOMAIN x = DOMAIN old /\ IsTable(x)
        /\ \A s \in DOMAIN old : x[s] \in {old[s], Claimed(old[s], w)}
    BY DEF IsTable
  <1> HIDE DEF x, new
  <1>5. x \in Tables(Session, RecordsTo(t))
    <2>1. \A r \in RecordsTo(t) : Claimed(r, w) \in RecordsTo(t)
      BY ClaimedOK
    <2>2. \A s \in DOMAIN x : x[s] \in RecordsTo(t)
      BY <1>2, <1>4, <2>1
    <2> QED BY <1>2, <1>4, <2>2, TableIs
  <1>6. /\ new.sessions = x /\ new.approvals = st.approvals
        /\ new = With(st, x, st.approvals)
    <2>1. new = With(st, x, st.approvals)
      BY <1>1, <1>3, PartKept
    <2> QED BY <1>1, <2>1, PartsKept
  <1>7. StateOK(new, t)
    <2>1. StateOK(With(st, x, st.approvals), t)
      BY <1>1, <1>5, PartsOK
    <2> QED BY <1>6, <2>1
  <1> QED BY <1>4, <1>6, <1>7 DEF new

\* The whole of a merge.
LEMMA MergeOK ==
    ASSUME NEW t \in Nat, NEW st, StateOK(st, t), NEW w \in Inst, NEW scope, NEW listed,
           HasFile(w), FileOK(file[w], t)
    PROVE  LET new == Merge(st, file[w], w, scope, listed) IN
           /\ StateOK(new, t) /\ StartedFrom(new, st, w)
           /\ new.sessions = MergeSessions(st, file[w], w, scope, listed)
  <1> DEFINE x == MergeSessions(st, file[w], w, scope, listed)
             z == [st EXCEPT !.sessions = x]
             y == MergeApprovals(z, file[w], w)
             new == Merge(st, file[w], w, scope, listed)
  <1>1. /\ x \in Tables(Session, RecordsTo(t)) /\ DOMAIN st.sessions \subseteq DOMAIN x
        /\ \A s \in DOMAIN x : SessionFrom(x[s], st, w, s)
    BY MergedSessions
  <1> HIDE DEF x
  <1>2. /\ y \in Tables(Approval, ApprovalsTo(t))
        /\ \A a \in DOMAIN y :
             \/ a \in DOMAIN st.approvals /\ y[a] = st.approvals[a]
             \/ /\ a \in DOMAIN file[w].approvals /\ y[a] = file[w].approvals[a]
                /\ ~LocalApprovalStale(st, a, file[w].approvals[a])
    BY MergedApprovals
  <1>3. new = [z EXCEPT !.approvals = y] /\ z = [st EXCEPT !.sessions = x]
    BY DEF Merge, x
  <1> HIDE DEF y, z, new
  <1>4. /\ new = With(st, x, y)
        /\ new.sessions = x /\ new.approvals = y
    <2>1. IsReplay(st)
      BY DEF StateOK
    <2>2. new = SetApprovals(SetSessions(st, x), y)
      BY <1>3 DEF SetSessions, SetApprovals
    <2>3. new = With(st, x, y)
      BY <2>1, <2>2, PartsSet
    <2> QED BY <2>1, <2>3, PartsKept
  <1>5. StateOK(new, t)
    BY <1>1, <1>2, <1>4, PartsOK
  <1>6. StartedFrom(new, st, w)
    BY <1>1, <1>2, <1>4 DEF StartedFrom
  <1> QED BY <1>4, <1>5, <1>6 DEF new, x

\* The whole of a start from the Data Space.
LEMMA StartStateOK ==
    ASSUME NEW t \in Nat, NEW st, StateOK(st, t), NEW w \in Inst, NEW listing \in BOOLEAN,
           FileOK(file[w], t)
    PROVE  LET new == StartState(w, st, listing) IN
           StateOK(new, t) /\ StartedFrom(new, st, w)
  <1> DEFINE new == StartState(w, st, listing)
  <1>1. CASE new = st
    <2>1. st = With(st, st.sessions, st.approvals)
      BY PartKept DEF StateOK
    <2>2. StartedFrom(st, st, w)
      BY <2>1 DEF StartedFrom, SessionFrom
    <2> QED BY <1>1, <2>2
  <1>2. CASE new = ClaimLegacy(st, w, Threads[w])
    <2> HIDE DEF new
    <2>1. /\ StateOK(new, t)
          /\ new = With(st, new.sessions, st.approvals)
          /\ new.approvals = st.approvals /\ DOMAIN new.sessions = DOMAIN st.sessions
          /\ \A s \in DOMAIN st.sessions :
               new.sessions[s] \in {st.sessions[s], Claimed(st.sessions[s], w)}
      BY <1>2, ClaimedLegacy
    <2>2. StartedFrom(new, st, w)
      BY <2>1 DEF StartedFrom, SessionFrom
    <2> QED BY <2>1, <2>2 DEF new
  <1>3. ASSUME HasFile(w), NEW scope, new = Merge(st, file[w], w, scope, Threads[w])
        PROVE  StateOK(new, t) /\ StartedFrom(new, st, w)
    <2> HIDE DEF new
    <2> QED BY <1>3, MergeOK
  <1>4. \/ new = st \/ new = ClaimLegacy(st, w, Threads[w])
        \/ HasFile(w) /\ \E scope : new = Merge(st, file[w], w, scope, Threads[w])
    <2>1. CASE file[w] = Corrupt
      <3>1. new = st
        BY <2>1, MirrorAssumption DEF StartState
      <3> QED BY <3>1
    <2>2. CASE file[w] = None /\ file[w] # Corrupt
      <3>1. new = IF listing THEN ClaimLegacy(st, w, Threads[w]) ELSE st
        BY <2>2 DEF StartState
      <3> QED BY <3>1
    <2>3. CASE HasFile(w)
      <3>1. new = IF file[w].writer = w
                  THEN Merge(st, file[w], w,
                             IF listing THEN "writer or listed" ELSE "writer only",
                             Threads[w])
                  ELSE IF file[w].writer = None /\ listing
                  THEN Merge(st, file[w], w, "listed only", Threads[w])
                  ELSE st
        BY <2>3 DEF StartState, HasFile
      <3> HIDE DEF new
      <3> QED BY <2>3, <3>1
    <2> QED BY <2>1, <2>2, <2>3 DEF HasFile
  <1> QED BY <1>1, <1>2, <1>3, <1>4

-----------------------------------------------------------------------------
(* What a job changes.                                                     *)

Newborn(w, t) == [owner |-> w, mirror |-> w, archived |-> FALSE, updated |-> t]
Stamped(sessions, s, t) == [sessions EXCEPT ![s].updated = t]
Shelved(sessions, s, t) == [Stamped(sessions, s, t) EXCEPT ![s].archived = TRUE]

\* What creating a session changes.
LEMMA CreateParts ==
    ASSUME NEW w, NEW st, IsReplay(st), NEW k
    PROVE  Change(w, st, Job("create", k)) =
             With(st, Put(st.sessions, k, Newborn(w, now + 1)), st.approvals)
  <1>1. PICK a, b, c, d, e, f, g :
          st = [sessions |-> a, approvals |-> b, count |-> c, snapAt |-> d,
                archivedIds |-> e, purgedIds |-> f, resolvedIds |-> g]
    BY DEF IsReplay
  <1> QED BY <1>1 DEF Change, Job, With, Newborn

\* What stamping one changes.
LEMMA UpdateParts ==
    ASSUME NEW w, NEW st, IsReplay(st), NEW k
    PROVE  Change(w, st, Job("update", k)) =
             With(st, Stamped(st.sessions, k, now + 1), st.approvals)
  <1>1. PICK a, b, c, d, e, f, g :
          st = [sessions |-> a, approvals |-> b, count |-> c, snapAt |-> d,
                archivedIds |-> e, purgedIds |-> f, resolvedIds |-> g]
    BY DEF IsReplay
  <1> QED BY <1>1 DEF Change, Job, With, Stamped, Touched

\* What archiving one changes.
LEMMA ArchiveParts ==
    ASSUME NEW w, NEW st, IsReplay(st), NEW k
    PROVE  Change(w, st, Job("archive", k)) =
             With(st, Shelved(st.sessions, k, now + 1),
                  Drop(st.approvals, ApprovalsOf(st.approvals, k)))
  <1>1. PICK a, b, c, d, e, f, g :
          st = [sessions |-> a, approvals |-> b, count |-> c, snapAt |-> d,
                archivedIds |-> e, purgedIds |-> f, resolvedIds |-> g]
    BY DEF IsReplay
  <1> DEFINE z == Touched(st, k)
  <1>2. z = [sessions |-> Stamped(a, k, now + 1), approvals |-> b, count |-> c,
             snapAt |-> d, archivedIds |-> e, purgedIds |-> f, resolvedIds |-> g]
    BY <1>1 DEF Touched, Stamped
  <1>3. Change(w, st, Job("archive", k)) =
          [z EXCEPT !.sessions[k].archived = TRUE,
                    !.approvals = Drop(@, ApprovalsOf(@, k))]
    BY DEF Change, Job
  <1> HIDE DEF z
  <1>4. Change(w, st, Job("archive", k)) =
          [sessions |-> [Stamped(a, k, now + 1) EXCEPT ![k].archived = TRUE],
           approvals |-> Drop(b, ApprovalsOf(b, k)), count |-> c, snapAt |-> d,
           archivedIds |-> e, purgedIds |-> f, resolvedIds |-> g]
    BY <1>2, <1>3
  <1> QED BY <1>1, <1>4 DEF With, Shelved

\* What purging one changes.
LEMMA PurgeParts ==
    ASSUME NEW w, NEW st, IsReplay(st), NEW k
    PROVE  Change(w, st, Job("purge", k)) =
             With(st, Drop(st.sessions, {k}),
                  Drop(st.approvals, ApprovalsOf(st.approvals, k)))
  <1>1. PICK a, b, c, d, e, f, g :
          st = [sessions |-> a, approvals |-> b, count |-> c, snapAt |-> d,
                archivedIds |-> e, purgedIds |-> f, resolvedIds |-> g]
    BY DEF IsReplay
  <1> QED BY <1>1 DEF Change, Job, With

\* What resolving an approval changes.
LEMMA ResolveParts ==
    ASSUME NEW w, NEW st, IsReplay(st), NEW k
    PROVE  Change(w, st, Job("resolve", k)) =
             With(st, st.sessions, Drop(st.approvals, {k}))
  <1>1. PICK a, b, c, d, e, f, g :
          st = [sessions |-> a, approvals |-> b, count |-> c, snapAt |-> d,
                archivedIds |-> e, purgedIds |-> f, resolvedIds |-> g]
    BY DEF IsReplay
  <1> QED BY <1>1 DEF Change, Job, With

\* Asking for one changes nothing: the handler already has.
LEMMA RequestParts == \A w, st, a, approval : Change(w, st, Asking(a, approval)) = st
  BY DEF Change, Asking

\* A session that is stamped, and one that is archived as well.
LEMMA StampedIs ==
    ASSUME NEW f, IsTable(f), NEW s \in DOMAIN f, NEW u
    PROVE  /\ IsTable(Stamped(f, s, u))
           /\ DOMAIN Stamped(f, s, u) = DOMAIN f
           /\ Stamped(f, s, u)[s] = [f[s] EXCEPT !.updated = u]
           /\ \A k \in DOMAIN f : k # s => Stamped(f, s, u)[k] = f[k]
  BY DEF Stamped, IsTable

\* What an archived session's table is.
LEMMA ShelvedIs ==
    ASSUME NEW f, IsTable(f), NEW s \in DOMAIN f, NEW u
    PROVE  /\ IsTable(Shelved(f, s, u))
           /\ DOMAIN Shelved(f, s, u) = DOMAIN f
           /\ Shelved(f, s, u)[s] = [Stamped(f, s, u)[s] EXCEPT !.archived = TRUE]
           /\ \A k \in DOMAIN f : k # s => Shelved(f, s, u)[k] = f[k]
  <1> DEFINE g == Stamped(f, s, u)
  <1>1. /\ IsTable(g) /\ DOMAIN g = DOMAIN f
        /\ \A k \in DOMAIN f : k # s => g[k] = f[k]
    BY DEF Stamped, IsTable
  <1>2. Shelved(f, s, u) = [g EXCEPT ![s].archived = TRUE]
    BY DEF Shelved
  <1> HIDE DEF g
  <1> QED BY <1>1, <1>2 DEF g, IsTable

\* They are typed.
LEMMA StampedOK ==
    ASSUME NEW t \in Nat, NEW f \in Tables(Session, RecordsTo(t)), NEW s \in DOMAIN f,
           NEW u \in 0..t
    PROVE  /\ Stamped(f, s, u) \in Tables(Session, RecordsTo(t))
           /\ Shelved(f, s, u) \in Tables(Session, RecordsTo(t))
           /\ Shelved(f, s, u)[s] = [f[s] EXCEPT !.updated = u, !.archived = TRUE]
  <1> DEFINE g == Stamped(f, s, u)  h == Shelved(f, s, u)
  <1>1. /\ IsTable(f)
        /\ DOMAIN f \subseteq Session /\ \A k \in DOMAIN f : f[k] \in RecordsTo(t)
    BY TableIs
  <1>2. /\ DOMAIN g = DOMAIN f /\ IsTable(g)
        /\ g[s] = [f[s] EXCEPT !.updated = u]
        /\ \A k \in DOMAIN f : k # s => g[k] = f[k]
    BY <1>1, StampedIs
  <1>3. /\ DOMAIN h = DOMAIN f /\ IsTable(h)
        /\ h[s] = [g[s] EXCEPT !.archived = TRUE]
        /\ \A k \in DOMAIN f : k # s => h[k] = f[k]
    BY <1>1, ShelvedIs
  <1> HIDE DEF g, h
  <1>4. g[s] \in RecordsTo(t) /\ h[s] \in RecordsTo(t)
        /\ h[s] = [f[s] EXCEPT !.updated = u, !.archived = TRUE]
    <2>1. f[s] \in RecordsTo(t)
      BY <1>1
    <2>2. g[s] \in RecordsTo(t)
      BY <1>2, <2>1 DEF RecordsTo
    <2>3. h[s] \in RecordsTo(t)
      BY <1>3, <2>2 DEF RecordsTo
    <2>4. h[s] = [f[s] EXCEPT !.updated = u, !.archived = TRUE]
      BY <1>2, <1>3, <2>1 DEF RecordsTo
    <2> QED BY <2>2, <2>3, <2>4
  <1>5. \A k \in DOMAIN f : g[k] \in RecordsTo(t) /\ h[k] \in RecordsTo(t)
    BY <1>1, <1>2, <1>3, <1>4
  <1>6. g \in Tables(Session, RecordsTo(t)) /\ h \in Tables(Session, RecordsTo(t))
    BY <1>1, <1>2, <1>3, <1>5, TableIs
  <1> QED BY <1>4, <1>6 DEF g, h

\* What an archived session is, next to what it was.
IsShelved(g, f, s, u) ==
    /\ DOMAIN g = DOMAIN f /\ g[s] = [f[s] EXCEPT !.updated = u, !.archived = TRUE]
    /\ \A k \in DOMAIN f : k # s => g[k] = f[k]

\* Its fields, but for the two that change, are what they were.
LEMMA ShelvedFields ==
    ASSUME NEW t, NEW f \in Tables(Session, RecordsTo(t)), NEW s \in DOMAIN f, NEW u
    PROVE  IsShelved(Shelved(f, s, u), f, s, u)
  <1>1. IsTable(f) /\ f[s] \in RecordsTo(t)
    BY TableIs
  <1>2. f[s] = [owner |-> f[s].owner, mirror |-> f[s].mirror,
                archived |-> f[s].archived, updated |-> f[s].updated]
    BY <1>1 DEF RecordsTo
  <1> QED BY <1>1, <1>2 DEF IsShelved, Shelved, Stamped, IsTable

\* A session is created.
LEMMA CreateChange ==
    ASSUME NEW t \in Nat, now \in Nat, now + 1 <= t, NEW w \in Inst,
           NEW st, StateOK(st, t), NEW s \in Session
    PROVE  LET new == Change(w, st, Job("create", s)) IN
           /\ StateOK(new, t) /\ new.count = st.count /\ new.approvals = st.approvals
           /\ DOMAIN new.sessions = DOMAIN st.sessions \cup {s}
           /\ new.sessions[s] = Newborn(w, now + 1)
           /\ \A k \in DOMAIN st.sessions \ {s} : new.sessions[k] = st.sessions[k]
  <1> DEFINE new == Change(w, st, Job("create", s))
             x == Put(st.sessions, s, Newborn(w, now + 1))
  <1>0. IsReplay(st) /\ st.approvals \in Tables(Approval, ApprovalsTo(t))
    BY DEF StateOK
  <1>1. st.sessions \in Tables(Session, RecordsTo(t))
    BY DEF StateOK
  <1>2. Newborn(w, now + 1) \in RecordsTo(t)
    BY DEF Newborn, RecordsTo
  <1>3. /\ x \in Tables(Session, RecordsTo(t)) /\ DOMAIN x = DOMAIN st.sessions \cup {s}
        /\ x[s] = Newborn(w, now + 1)
        /\ \A k \in DOMAIN st.sessions : k # s => x[k] = st.sessions[k]
    <2>1. x \in Tables(Session, RecordsTo(t))
      BY <1>1, <1>2, TablePut
    <2> QED BY <2>1 DEF Put
  <1>4. new = With(st, x, st.approvals)
    BY <1>0, CreateParts
  <1> HIDE DEF new, x
  <1>5. new.sessions = x /\ new.approvals = st.approvals /\ new.count = st.count
        /\ StateOK(new, t)
    BY <1>0, <1>1, <1>3, <1>4, PartsKept, PartsOK
  <1> QED BY <1>3, <1>4, <1>5 DEF new

\* A session is stamped.
LEMMA UpdateChange ==
    ASSUME NEW t \in Nat, now \in Nat, now + 1 <= t, NEW w \in Inst,
           NEW st, StateOK(st, t), NEW s \in DOMAIN st.sessions
    PROVE  LET new == Change(w, st, Job("update", s)) IN
           /\ StateOK(new, t) /\ new.count = st.count /\ new.approvals = st.approvals
           /\ DOMAIN new.sessions = DOMAIN st.sessions
           /\ new.sessions[s] = [st.sessions[s] EXCEPT !.updated = now + 1]
           /\ \A k \in DOMAIN st.sessions \ {s} : new.sessions[k] = st.sessions[k]
  <1> DEFINE new == Change(w, st, Job("update", s))
             x == Stamped(st.sessions, s, now + 1)
  <1>0. IsReplay(st) /\ st.approvals \in Tables(Approval, ApprovalsTo(t))
    BY DEF StateOK
  <1>1. st.sessions \in Tables(Session, RecordsTo(t))
    BY DEF StateOK
  <1>2. now + 1 \in 0..t
    OBVIOUS
  <1>3. /\ x \in Tables(Session, RecordsTo(t)) /\ DOMAIN x = DOMAIN st.sessions
        /\ x[s] = [st.sessions[s] EXCEPT !.updated = now + 1]
        /\ \A k \in DOMAIN st.sessions : k # s => x[k] = st.sessions[k]
    <2>1. x \in Tables(Session, RecordsTo(t))
      BY <1>1, <1>2, StampedOK
    <2>2. IsTable(st.sessions)
      BY <1>1, TableIs
    <2> QED BY <2>1, <2>2, StampedIs
  <1>4. new = With(st, x, st.approvals)
    BY <1>0, UpdateParts
  <1> HIDE DEF new, x
  <1>5. new.sessions = x /\ new.approvals = st.approvals /\ new.count = st.count
        /\ StateOK(new, t)
    BY <1>0, <1>1, <1>3, <1>4, PartsKept, PartsOK
  <1> QED BY <1>3, <1>4, <1>5 DEF new

\* A session is archived, and its approvals are dropped.
LEMMA ArchiveChange ==
    ASSUME NEW t \in Nat, now \in Nat, now + 1 <= t, NEW w \in Inst,
           NEW st, StateOK(st, t), NEW s \in DOMAIN st.sessions
    PROVE  LET new == Change(w, st, Job("archive", s)) IN
           /\ StateOK(new, t) /\ new.count = st.count
           /\ DOMAIN new.sessions = DOMAIN st.sessions
           /\ new.sessions[s] = [st.sessions[s] EXCEPT !.updated = now + 1, !.archived = TRUE]
           /\ \A k \in DOMAIN st.sessions \ {s} : new.sessions[k] = st.sessions[k]
           /\ new.approvals = Drop(st.approvals, ApprovalsOf(st.approvals, s))
  <1> DEFINE new == Change(w, st, Job("archive", s))
             x == Shelved(st.sessions, s, now + 1)
             y == Drop(st.approvals, ApprovalsOf(st.approvals, s))
  <1>0. IsReplay(st) /\ st.approvals \in Tables(Approval, ApprovalsTo(t))
    BY DEF StateOK
  <1>1. st.sessions \in Tables(Session, RecordsTo(t))
    BY DEF StateOK
  <1>2. now + 1 \in 0..t
    OBVIOUS
  <1>3. /\ x \in Tables(Session, RecordsTo(t)) /\ DOMAIN x = DOMAIN st.sessions
        /\ x[s] = [st.sessions[s] EXCEPT !.updated = now + 1, !.archived = TRUE]
        /\ \A k \in DOMAIN st.sessions : k # s => x[k] = st.sessions[k]
    <2>1. x \in Tables(Session, RecordsTo(t))
      BY <1>1, <1>2, StampedOK
    <2>2. IsShelved(x, st.sessions, s, now + 1)
      BY <1>1, ShelvedFields
    <2> HIDE DEF x
    <2> QED BY <2>1, <2>2 DEF IsShelved
  <1>4. new = With(st, x, y)
    BY <1>0, ArchiveParts
  <1>5. y \in Tables(Approval, ApprovalsTo(t))
    BY <1>0, TableDrop
  <1> HIDE DEF new, x, y
  <1>6. new.sessions = x /\ new.approvals = y /\ new.count = st.count
        /\ StateOK(new, t)
    BY <1>0, <1>3, <1>4, <1>5, PartsKept, PartsOK
  <1> QED BY <1>3, <1>4, <1>6 DEF new, y

\* A session is purged, with its approvals.
LEMMA PurgeChange ==
    ASSUME NEW t \in Nat, NEW w \in Inst, NEW st, StateOK(st, t), NEW s
    PROVE  LET new == Change(w, st, Job("purge", s)) IN
           /\ StateOK(new, t) /\ new.count = st.count
           /\ DOMAIN new.sessions = DOMAIN st.sessions \ {s}
           /\ \A k \in DOMAIN st.sessions \ {s} : new.sessions[k] = st.sessions[k]
           /\ new.approvals = Drop(st.approvals, ApprovalsOf(st.approvals, s))
  <1> DEFINE new == Change(w, st, Job("purge", s))
             x == Drop(st.sessions, {s})
             y == Drop(st.approvals, ApprovalsOf(st.approvals, s))
  <1>0. IsReplay(st) /\ st.approvals \in Tables(Approval, ApprovalsTo(t))
    BY DEF StateOK
  <1>1. st.sessions \in Tables(Session, RecordsTo(t))
    BY DEF StateOK
  <1>2. /\ x \in Tables(Session, RecordsTo(t)) /\ DOMAIN x = DOMAIN st.sessions \ {s}
        /\ \A k \in DOMAIN st.sessions \ {s} : x[k] = st.sessions[k]
    <2>1. x \in Tables(Session, RecordsTo(t))
      BY <1>1, TableDrop
    <2> QED BY <2>1, DropIs
  <1>3. y \in Tables(Approval, ApprovalsTo(t))
    BY <1>0, TableDrop
  <1>4. new = With(st, x, y)
    BY <1>0, PurgeParts
  <1> HIDE DEF new, x, y
  <1>5. new.sessions = x /\ new.approvals = y /\ new.count = st.count
        /\ StateOK(new, t)
    BY <1>0, <1>2, <1>3, <1>4, PartsKept, PartsOK
  <1> QED BY <1>2, <1>4, <1>5 DEF new, y

\* An approval is resolved.
LEMMA ResolveChange ==
    ASSUME NEW t \in Nat, NEW w \in Inst, NEW st, StateOK(st, t), NEW a
    PROVE  LET new == Change(w, st, Job("resolve", a)) IN
           /\ StateOK(new, t) /\ new.count = st.count
           /\ new.sessions = st.sessions
           /\ DOMAIN new.approvals = DOMAIN st.approvals \ {a}
           /\ new.approvals = Drop(st.approvals, {a})
  <1> DEFINE new == Change(w, st, Job("resolve", a))
             y == Drop(st.approvals, {a})
  <1>0. IsReplay(st) /\ st.approvals \in Tables(Approval, ApprovalsTo(t))
    BY DEF StateOK
  <1>1. st.sessions \in Tables(Session, RecordsTo(t))
    BY DEF StateOK
  <1>2. y \in Tables(Approval, ApprovalsTo(t)) /\ DOMAIN y = DOMAIN st.approvals \ {a}
    <2>1. y \in Tables(Approval, ApprovalsTo(t))
      BY <1>0, TableDrop
    <2> QED BY <2>1, DropIs
  <1>3. new = With(st, st.sessions, y)
    BY <1>0, ResolveParts
  <1> HIDE DEF new, y
  <1>4. new.sessions = st.sessions /\ new.approvals = y /\ new.count = st.count
        /\ StateOK(new, t)
    BY <1>0, <1>1, <1>2, <1>3, PartsKept, PartsOK
  <1> QED BY <1>2, <1>3, <1>4 DEF new, y

-----------------------------------------------------------------------------
(* The log.                                                                *)

\* Every message is an event or a snapshot.
LEMMA MessageKinds == \A m \in Message : m.kind \in EventKinds \cup {"snapshot"}
  BY DEF Message, MessageTo, EventKinds

\* What is read page by page is what the room means.
LEMMA ReplayRead ==
    ASSUME log \in Seq(Message) PROVE Replay(log) = ReplayMessages(log)
  <1>1. LatestSnapshot(log) \in 0..Len(log) /\ Len(log) \in Nat
    BY SnapshotIsLast
  <1>2. ASSUME NEW i \in (LatestSnapshot(log) + 1)..Len(log)
        PROVE  log[i].kind # "bad snapshot"
    <2>1. i \in 1..Len(log)
      BY <1>1
    <2>2. log[i] \in Message
      BY <2>1
    <2> QED BY <2>2, MessageKinds DEF EventKinds
  <1> QED BY <1>2, PagesReplay

\* A message more.
LEMMA LogGrows ==
    ASSUME NEW t \in Nat, log \in Seq(Message), StateOK(ReplayMessages(log), t),
           NEW m \in MessageTo(t)
    PROVE  /\ Append(log, m) \in Seq(Message)
           /\ StateOK(ReplayMessages(Append(log, m)), t)
           /\ ReplayMessages(Append(log, m)) =
                IF IsSnapshot(m) THEN FromSnapshot(m)
                ELSE StepReplay(ReplayMessages(log), m)
  <1>1. m \in Message
    BY DEF Message
  <1>2. ReplayMessages(Append(log, m)) =
          IF IsSnapshot(m) THEN FromSnapshot(m) ELSE StepReplay(ReplayMessages(log), m)
    BY <1>1, ReplayAppend
  <1>3. IF IsSnapshot(m) THEN StateOK(FromSnapshot(m), t)
        ELSE StateOK(StepReplay(ReplayMessages(log), m), t)
    BY StepOK
  <1> QED BY <1>1, <1>2, <1>3

\* What a worker that appends says.
Saying(st, wk, k) ==
    LET job == Head(wk.todo)  event == Event(st, job) IN
    \/ /\ job = Job("create", k) /\ k \in DOMAIN st.sessions
       /\ event = [kind |-> "created", id |-> k, session |-> st.sessions[k]]
    \/ /\ job = Job("update", k) /\ k \in DOMAIN st.sessions
       /\ event = [kind |-> "updated", id |-> k, session |-> st.sessions[k]]
    \/ /\ job = Job("archive", k) /\ k \in DOMAIN st.sessions /\ st.sessions[k].archived
       /\ event = [kind |-> "archived", id |-> k]
    \/ /\ job = Job("purge", k) /\ k \in Session \ DOMAIN st.sessions /\ wk.gone = {k}
       /\ event = [kind |-> "purged", id |-> k]
    \/ /\ job = Job("resolve", k) /\ k \in Approval \ DOMAIN st.approvals /\ wk.gone = {k}
       /\ event = [kind |-> "resolved", id |-> k]
    \/ /\ job = Asking(k, st.approvals[k]) /\ k \in DOMAIN st.approvals /\ wk.gone = {}
       /\ event = [kind |-> "requested", id |-> k, approval |-> st.approvals[k]]

\* The events, job by job.
LEMMA Events ==
    ASSUME NEW st, NEW k
    PROVE  /\ Event(st, Job("create", k)) =
                [kind |-> "created", id |-> k, session |-> st.sessions[k]]
           /\ Event(st, Job("update", k)) =
                [kind |-> "updated", id |-> k, session |-> st.sessions[k]]
           /\ Event(st, Job("archive", k)) = [kind |-> "archived", id |-> k]
           /\ Event(st, Job("purge", k)) = [kind |-> "purged", id |-> k]
           /\ Event(st, Job("resolve", k)) = [kind |-> "resolved", id |-> k]
           /\ \A approval : Event(st, Asking(k, approval)) =
                              [kind |-> "requested", id |-> k, approval |-> approval]
  <1>1. Event(st, Job("create", k)) =
          [kind |-> "created", id |-> k, session |-> st.sessions[k]]
    BY DEF Event, Job
  <1>2. Event(st, Job("update", k)) =
          [kind |-> "updated", id |-> k, session |-> st.sessions[k]]
    BY DEF Event, Job
  <1>3. /\ Event(st, Job("archive", k)) = [kind |-> "archived", id |-> k]
        /\ Event(st, Job("purge", k)) = [kind |-> "purged", id |-> k]
    BY DEF Event, Job
  <1>4. Event(st, Job("resolve", k)) = [kind |-> "resolved", id |-> k]
    BY DEF Event, Job
  <1>5. \A approval : Event(st, Asking(k, approval)) =
                        [kind |-> "requested", id |-> k, approval |-> approval]
    BY DEF Event, Asking
  <1> QED BY <1>1, <1>2, <1>3, <1>4, <1>5

\* A worker that appends has something to say.
LEMMA HeadSays ==
    ASSUME NEW st, NEW wk, NEW t \in Nat, NEW f, NEW done, WorkerOK(st, wk, f, t, done),
           wk.pc = "append"
    PROVE  \E k : Saying(st, wk, k)
  <1>1. /\ st.approvals \in Tables(Approval, ApprovalsTo(t))
    BY DEF WorkerOK, StateOK
  <1>2. DOMAIN st.approvals \subseteq Approval
    BY <1>1, TableIs
  <1>3. \/ \E s \in Session :
               \/ Creating(wk, st, s) \/ Updating(wk, st, s) \/ Archiving(wk, st, s)
               \/ Purging(wk, st, s, done)
               \/ \E a \in Approval : Resolving(wk, st, a, s, done)
               \/ \E a \in DOMAIN st.approvals : Preparing(wk, st, s, a)
        \/ \E a \in DOMAIN st.approvals : Requesting(wk, st, a)
    BY DEF WorkerOK, InHand, Idle, Sweeping
  <1>4. ASSUME NEW s \in Session, Creating(wk, st, s)
        PROVE  Saying(st, wk, s)
    <2>1. Head(wk.todo) = Job("create", s)
      BY <1>4 DEF Creating
    <2> QED BY <1>4, <2>1, Events DEF Saying, Creating
  <1>5. ASSUME NEW s \in Session, NEW a, Updating(wk, st, s) \/ Preparing(wk, st, s, a)
        PROVE  Saying(st, wk, s)
    <2>1. Head(wk.todo) = Job("update", s)
      BY <1>5 DEF Updating, Preparing
    <2> QED BY <1>5, <2>1, Events DEF Saying, Updating, Preparing
  <1>6. ASSUME NEW s \in Session, Archiving(wk, st, s)
        PROVE  Saying(st, wk, s)
    <2>1. Head(wk.todo) = Job("archive", s)
      BY <1>6 DEF Archiving
    <2> QED BY <1>6, <2>1, Events DEF Saying, Archiving
  <1>7. ASSUME NEW s \in Session, Purging(wk, st, s, done)
        PROVE  Saying(st, wk, s)
    <2>1. Head(wk.todo) = Job("purge", s)
      BY <1>7 DEF Purging
    <2> QED BY <1>7, <2>1, Events DEF Saying, Purging
  <1>8. ASSUME NEW s \in Session, NEW a \in Approval, Resolving(wk, st, a, s, done)
        PROVE  Saying(st, wk, a)
    <2>1. Head(wk.todo) = Job("resolve", a)
      BY <1>8 DEF Resolving
    <2> QED BY <1>8, <2>1, Events DEF Saying, Resolving
  <1>9. ASSUME NEW a \in DOMAIN st.approvals, Requesting(wk, st, a)
        PROVE  Saying(st, wk, a)
    <2>1. Head(wk.todo) = Asking(a, st.approvals[a])
      BY <1>9 DEF Requesting
    <2> QED BY <1>2, <1>9, <2>1, Events DEF Saying, Requesting
  <1> QED BY <1>3, <1>4, <1>5, <1>6, <1>7, <1>8, <1>9

\* It may be written, and it is no snapshot.
LEMMA SayingTyped ==
    ASSUME NEW t \in Nat, NEW st, StateOK(st, t), NEW wk, NEW k, Saying(st, wk, k)
    PROVE  /\ Event(st, Head(wk.todo)) \in MessageTo(t)
           /\ ~IsSnapshot(Event(st, Head(wk.todo))) /\ IsEvent(Event(st, Head(wk.todo)))
  <1> DEFINE event == Event(st, Head(wk.todo))
  <1>1. /\ st.sessions \in Tables(Session, RecordsTo(t))
        /\ st.approvals \in Tables(Approval, ApprovalsTo(t))
    BY DEF StateOK
  <1>2. /\ DOMAIN st.sessions \subseteq Session
        /\ \A s \in DOMAIN st.sessions : st.sessions[s] \in RecordsTo(t)
    BY <1>1, TableIs
  <1>3. /\ DOMAIN st.approvals \subseteq Approval
        /\ \A a \in DOMAIN st.approvals : st.approvals[a] \in ApprovalsTo(t)
    BY <1>1, TableIs
  <1>4. \/ /\ k \in Session /\ st.sessions[k] \in RecordsTo(t)
           /\ \/ event = [kind |-> "created", id |-> k, session |-> st.sessions[k]]
              \/ event = [kind |-> "updated", id |-> k, session |-> st.sessions[k]]
        \/ /\ k \in Session
           /\ \/ event = [kind |-> "archived", id |-> k]
              \/ event = [kind |-> "purged", id |-> k]
        \/ k \in Approval /\ event = [kind |-> "resolved", id |-> k]
        \/ /\ k \in Approval /\ st.approvals[k] \in ApprovalsTo(t)
           /\ event = [kind |-> "requested", id |-> k, approval |-> st.approvals[k]]
    BY <1>2, <1>3 DEF Saying
  <1> HIDE DEF event
  <1>5. event \in MessageTo(t)
    BY <1>4 DEF MessageTo
  <1>6. ~IsSnapshot(event) /\ IsEvent(event)
    BY <1>4 DEF IsSnapshot, IsEvent, EventKinds
  <1> QED BY <1>5, <1>6 DEF event

\* What is in memory may be written as a snapshot, or to a file.
LEMMA SnapshotTyped ==
    ASSUME NEW t \in Nat, NEW st, StateOK(st, t), NEW at \in 0..t, NEW w \in Inst
    PROVE  /\ ToSnapshot(st, at) \in MessageTo(t) /\ IsSnapshot(ToSnapshot(st, at))
           /\ FileOK(LocalFile(w, st, at), t)
           /\ ToSnapshot(st, at).sessions = st.sessions
           /\ ToSnapshot(st, at).approvals = st.approvals
           /\ ToSnapshot(st, at).at = at
  <1>1. /\ st.sessions \in Tables(Session, RecordsTo(t))
        /\ st.approvals \in Tables(Approval, ApprovalsTo(t))
    BY DEF StateOK
  <1> QED BY <1>1 DEF ToSnapshot, MessageTo, IsSnapshot, LocalFile, FileOK

-----------------------------------------------------------------------------
(* Every step keeps the types.                                             *)

\* Time passes for a worker that does nothing.
LEMMA LaterWorker ==
    ASSUME NEW t \in Nat, NEW u \in Nat, t <= u, NEW done, NEW more, done \subseteq more,
           NEW st, NEW wk, NEW f, WorkerOK(st, wk, f, t, done)
    PROVE  WorkerOK(st, wk, f, u, more)
  <1>1. StateOK(st, u) /\ FileOK(f, u)
    BY LaterOK DEF WorkerOK
  <1>2. \A s : Purging(wk, st, s, done) => Purging(wk, st, s, more)
    BY DEF Purging
  <1>3. \A s, a : Resolving(wk, st, a, s, done) => Resolving(wk, st, a, s, more)
    BY DEF Resolving
  <1>4. InHand(wk, st, more)
    BY <1>2, <1>3 DEF WorkerOK, InHand
  <1>5. wk.at \in 0..u
    BY DEF WorkerOK
  <1> QED BY <1>1, <1>4, <1>5 DEF WorkerOK

\* A step of one worker.
LEMMA WorkerStep ==
    ASSUME TypeInv, NEW v \in Inst, plan' = plan, now' \in Nat, now <= now',
           born' \subseteq Session \cup Approval, settled' \subseteq ended',
           ended \subseteq ended', ended' \subseteq Session \cup Approval,
           starts' \in [Inst -> Nat],
           log' \in Seq(Message), StateOK(ReplayMessages(log'), now'),
           \E x : mem' = [mem EXCEPT ![v] = x],
           \E x : work' = [work EXCEPT ![v] = x],
           \E x : file' = [file EXCEPT ![v] = x],
           WorkerOK(mem'[v], work'[v], file'[v], now', ended')
    PROVE  TypeInv'
  <1>1. /\ mem' = [w \in Inst |-> mem'[w]] /\ \A w \in Inst : w # v => mem'[w] = mem[w]
    <2>1. mem = [w \in Inst |-> mem[w]]
      BY DEF TypeInv
    <2> QED BY <2>1
  <1>2. /\ work' = [w \in Inst |-> work'[w]] /\ \A w \in Inst : w # v => work'[w] = work[w]
    <2>1. work = [w \in Inst |-> work[w]]
      BY DEF TypeInv
    <2> QED BY <2>1
  <1>3. /\ file' = [w \in Inst |-> file'[w]] /\ \A w \in Inst : w # v => file'[w] = file[w]
    <2>1. file = [w \in Inst |-> file[w]]
      BY DEF TypeInv
    <2> QED BY <2>1
  <1>4. ASSUME NEW w \in Inst, w # v
        PROVE  WorkerOK(mem'[w], work'[w], file'[w], now', ended')
    <2>1. WorkerOK(mem[w], work[w], file[w], now, ended) /\ now \in Nat
      BY DEF TypeInv
    <2>2. WorkerOK(mem[w], work[w], file[w], now', ended')
      BY <2>1, LaterWorker
    <2> QED BY <1>1, <1>2, <1>3, <1>4, <2>2
  <1>5. \A w \in Inst : WorkerOK(mem'[w], work'[w], file'[w], now', ended')
    BY <1>4
  <1>6. plan' \in Plans
    BY DEF TypeInv
  <1> QED BY <1>1, <1>2, <1>3, <1>5, <1>6 DEF TypeInv

\* The parts of TypeInv that a worker uses.
LEMMA WorkerTypes ==
    ASSUME TypeInv, NEW w \in Inst
    PROVE  /\ now \in Nat /\ WorkerOK(mem[w], work[w], file[w], now, ended)
           /\ StateOK(mem[w], now) /\ FileOK(file[w], now) /\ IsReplay(mem[w])
           /\ log \in Seq(Message) /\ StateOK(ReplayMessages(log), now)
           /\ Replay(log) = ReplayMessages(log)
           /\ mem = [v \in Inst |-> mem[v]] /\ work = [v \in Inst |-> work[v]]
           /\ file = [v \in Inst |-> file[v]]
           /\ work[w] = [pc |-> work[w].pc, todo |-> work[w].todo, at |-> work[w].at,
                         gone |-> work[w].gone]
           /\ work[w].at \in 0..now /\ work[w].gone \subseteq ended
  <1>1. log \in Seq(Message)
    BY DEF TypeInv
  <1>2. Replay(log) = ReplayMessages(log)
    BY <1>1, ReplayRead
  <1>3. WorkerOK(mem[w], work[w], file[w], now, ended)
    BY DEF TypeInv
  <1>4. /\ StateOK(mem[w], now) /\ FileOK(file[w], now) /\ IsReplay(mem[w])
        /\ work[w] = [pc |-> work[w].pc, todo |-> work[w].todo, at |-> work[w].at,
                      gone |-> work[w].gone]
        /\ work[w].at \in 0..now /\ work[w].gone \subseteq ended
    BY <1>3 DEF WorkerOK, StateOK
  <1> QED BY <1>1, <1>2, <1>3, <1>4 DEF TypeInv

\* A file that stands alone.
LEMMA FileState ==
    ASSUME NEW t \in Nat, NEW w, HasFile(w), FileOK(file[w], t)
    PROVE  /\ StateOK(FromSnapshot(file[w]), t)
           /\ FromSnapshot(file[w]).sessions = file[w].sessions
           /\ FromSnapshot(file[w]).approvals = file[w].approvals
           /\ FromSnapshot(file[w]).snapAt = file[w].at
           /\ file[w].at \in 0..t
           /\ file[w].sessions \in Tables(Session, RecordsTo(t))
           /\ file[w].approvals \in Tables(Approval, ApprovalsTo(t))
  <1> DEFINE f == file[w]  st == FromSnapshot(f)
  <1>1. /\ f.at \in 0..t /\ f.sessions \in Tables(Session, RecordsTo(t))
        /\ f.approvals \in Tables(Approval, ApprovalsTo(t))
    BY DEF HasFile, FileOK
  <1>2. /\ IsReplay(st) /\ st.sessions = f.sessions /\ st.approvals = f.approvals
        /\ st.archivedIds = {} /\ st.purgedIds = {} /\ st.resolvedIds = {}
        /\ st.count = 0 /\ st.snapAt = f.at
    BY SnapshotParts
  <1> HIDE DEF f, st
  <1>3. StateOK(st, t)
    BY <1>1, <1>2 DEF StateOK
  <1> QED BY <1>1, <1>2, <1>3 DEF f, st

\* A worker starts.
LEMMA BeginStep ==
    ASSUME TypeInv, NEW v \in Inst, NEW st, StateOK(st, now),
           NEW pc \in {"idle", "snapshot", "local"}, Begin(v, st, pc)
    PROVE  /\ TypeInv' /\ mem'[v] = st
           /\ work'[v] = [pc |-> pc, todo |-> <<>>, at |-> now, gone |-> {}]
  <1>1. /\ now \in Nat /\ FileOK(file[v], now)
        /\ mem = [w \in Inst |-> mem[w]] /\ work = [w \in Inst |-> work[w]]
        /\ file = [w \in Inst |-> file[w]]
        /\ log \in Seq(Message) /\ StateOK(ReplayMessages(log), now)
    BY WorkerTypes
  <1>2. /\ mem' = [mem EXCEPT ![v] = st] /\ mem'[v] = st
        /\ work'[v] = [pc |-> pc, todo |-> <<>>, at |-> now, gone |-> {}]
        /\ \E x : work' = [work EXCEPT ![v] = x]
        /\ file' = [file EXCEPT ![v] = file[v]] /\ file'[v] = file[v]
        /\ starts' = [starts EXCEPT ![v] = @ + 1]
        /\ plan' = plan /\ log' = log /\ now' = now /\ born' = born /\ ended' = ended
        /\ settled' = settled
    BY <1>1 DEF Begin, Off
  <1>3. WorkerOK(mem'[v], work'[v], file'[v], now', ended')
    <2> DEFINE wk == work'[v]
    <2>1. /\ wk = [pc |-> pc, todo |-> <<>>, at |-> now, gone |-> {}]
          /\ wk.pc = pc /\ wk.todo = <<>> /\ wk.at = now /\ wk.gone = {}
      BY <1>2
    <2> HIDE DEF wk
    <2>2. WorkerOK(st, wk, file[v], now, ended)
      BY <1>1, <2>1 DEF WorkerOK, InHand, Idle
    <2> QED BY <1>2, <2>2 DEF wk
  <1>4. /\ born \subseteq Session \cup Approval /\ settled \subseteq ended
        /\ ended \subseteq Session \cup Approval /\ starts \in [Inst -> Nat]
    BY DEF TypeInv
  <1>5. starts' \in [Inst -> Nat]
    BY <1>2, <1>4
  <1>6. /\ \E x : mem' = [mem EXCEPT ![v] = x]
        /\ \E x : file' = [file EXCEPT ![v] = x]
    BY <1>2
  <1>7. /\ plan' = plan /\ now' \in Nat /\ now <= now'
        /\ born' \subseteq Session \cup Approval /\ settled' \subseteq ended'
        /\ ended \subseteq ended' /\ ended' \subseteq Session \cup Approval
        /\ log' \in Seq(Message) /\ StateOK(ReplayMessages(log'), now')
    BY <1>1, <1>2, <1>4
  <1>8. TypeInv'
    BY <1>2, <1>3, <1>5, <1>6, <1>7, WorkerStep
  <1> QED BY <1>2, <1>8

\* It starts from the Data Space.
LEMMA DataSpaceStart ==
    ASSUME TypeInv, NEW v \in Inst, StartFromDataSpace(v)
    PROVE  /\ TypeInv' /\ work'[v].pc \in {"idle", "snapshot"}
           /\ work'[v] = [pc |-> work'[v].pc, todo |-> <<>>, at |-> now, gone |-> {}]
           /\ \E listing \in BOOLEAN : mem'[v] = StartState(v, ReplayMessages(log), listing)
           /\ StartedFrom(mem'[v], ReplayMessages(log), v)
           /\ work'[v].pc = "idle" => mem'[v] = ReplayMessages(log)
           /\ UNCHANGED <<plan, log, now, file, born, ended, settled>>
  <1>1. PICK listing \in BOOLEAN :
          LET st == StartState(v, Replay(log), listing) IN
          Begin(v, st, IF st # Replay(log) THEN "snapshot" ELSE "idle")
    BY DEF StartFromDataSpace
  <1> DEFINE R == ReplayMessages(log)  st == StartState(v, R, listing)
             pc == IF st # R THEN "snapshot" ELSE "idle"
  <1>2. Begin(v, st, pc)
    BY <1>1, WorkerTypes
  <1>3. /\ now \in Nat /\ StateOK(R, now) /\ FileOK(file[v], now)
    BY WorkerTypes
  <1>4. StateOK(st, now) /\ StartedFrom(st, R, v)
    BY <1>3, StartStateOK
  <1>5. pc \in {"idle", "snapshot"} /\ (pc = "idle" => st = R)
    OBVIOUS
  <1>6. UNCHANGED <<plan, log, now, file, born, ended, settled>>
    BY <1>2 DEF Begin
  <1> HIDE DEF pc, st
  <1>7. /\ TypeInv' /\ mem'[v] = st
        /\ work'[v] = [pc |-> pc, todo |-> <<>>, at |-> now, gone |-> {}]
    BY <1>2, <1>4, <1>5, BeginStep
  <1>8. work'[v].pc = pc
    BY <1>7
  <1> QED BY <1>4, <1>5, <1>6, <1>7, <1>8 DEF st

\* It starts from its file.
LEMMA FileStart ==
    ASSUME TypeInv, NEW v \in Inst, StartFromFile(v)
    PROVE  /\ TypeInv' /\ work'[v].pc \in {"idle", "local"}
           /\ work'[v] = [pc |-> work'[v].pc, todo |-> <<>>, at |-> now, gone |-> {}]
           /\ UNCHANGED <<plan, log, now, file, born, ended, settled>>
           /\ file[v] # Corrupt
           /\ \E st : /\ st = IF file[v] = None THEN NoReplay ELSE FromSnapshot(file[v])
                      /\ StateOK(st, now)
                      /\ \/ mem'[v] = st
                         \/ mem'[v] = ClaimLegacy(st, v, Threads[v]) /\ file[v].writer = None
                      /\ DOMAIN mem'[v].sessions = DOMAIN st.sessions
                      /\ mem'[v].approvals = st.approvals
                      /\ \A s \in DOMAIN st.sessions :
                           mem'[v].sessions[s] \in {st.sessions[s], Claimed(st.sessions[s], v)}
                      /\ work'[v].pc = "idle" => mem'[v] = st
  <1> DEFINE local == IF file[v] = None THEN NoReplay ELSE FromSnapshot(file[v])
  <1>1. PICK st : /\ \/ st = local
                     \/ st = ClaimLegacy(local, v, Threads[v]) /\ file[v].writer = None
                  /\ Begin(v, st, IF st # local THEN "local" ELSE "idle")
    BY DEF StartFromFile
  <1> DEFINE pc == IF st # local THEN "local" ELSE "idle"
  <1>2. /\ now \in Nat /\ FileOK(file[v], now) /\ file[v] # Corrupt
    BY WorkerTypes DEF StartFromFile
  <1>3. StateOK(local, now)
    BY <1>2, FileState, NothingOK DEF HasFile
  <1> HIDE DEF local
  <1>4. /\ StateOK(st, now)
        /\ DOMAIN st.sessions = DOMAIN local.sessions /\ st.approvals = local.approvals
        /\ \A s \in DOMAIN local.sessions :
             st.sessions[s] \in {local.sessions[s], Claimed(local.sessions[s], v)}
    <2>1. CASE st = local
      BY <1>3, <2>1
    <2>2. CASE st = ClaimLegacy(local, v, Threads[v])
      BY <1>2, <1>3, <2>2, ClaimedLegacy
    <2> QED BY <1>1, <2>1, <2>2
  <1>5. pc \in {"idle", "local"} /\ (pc = "idle" => st = local) /\ Begin(v, st, pc)
    BY <1>1
  <1>6. UNCHANGED <<plan, log, now, file, born, ended, settled>>
    BY <1>1 DEF Begin
  <1> HIDE DEF pc
  <1>7. /\ TypeInv' /\ mem'[v] = st
        /\ work'[v] = [pc |-> pc, todo |-> <<>>, at |-> now, gone |-> {}]
    BY <1>4, <1>5, BeginStep
  <1>8. work'[v].pc = pc
    BY <1>7
  <1>9. /\ StateOK(local, now)
        /\ \/ mem'[v] = local
           \/ mem'[v] = ClaimLegacy(local, v, Threads[v]) /\ file[v].writer = None
        /\ DOMAIN mem'[v].sessions = DOMAIN local.sessions
        /\ mem'[v].approvals = local.approvals
        /\ \A s \in DOMAIN local.sessions :
             mem'[v].sessions[s] \in {local.sessions[s], Claimed(local.sessions[s], v)}
        /\ work'[v].pc = "idle" => mem'[v] = local
    BY <1>1, <1>3, <1>4, <1>5, <1>7, <1>8
  <1> QED BY <1>2, <1>5, <1>6, <1>7, <1>8, <1>9 DEF local

\* A state with another count.
Counted(st, n) == [st EXCEPT !.count = n]

\* It is typed, and has the same tables.
LEMMA Counting ==
    ASSUME NEW t, NEW st, StateOK(st, t), NEW n \in Nat
    PROVE  LET new == Counted(st, n) IN
           /\ StateOK(new, t)
           /\ new.sessions = st.sessions /\ new.approvals = st.approvals /\ new.count = n
  <1> DEFINE new == Counted(st, n)
  <1>1. /\ IsReplay(new) /\ new.sessions = st.sessions /\ new.approvals = st.approvals
        /\ new.count = n /\ new.snapAt = st.snapAt /\ new.archivedIds = st.archivedIds
        /\ new.purgedIds = st.purgedIds /\ new.resolvedIds = st.resolvedIds
    BY DEF StateOK, IsReplay, Counted
  <1> HIDE DEF new
  <1>2. StateOK(new, t)
    BY <1>1 DEF StateOK
  <1> QED BY <1>1, <1>2 DEF new

\* What is in hand stays so while it is persisted.
LEMMA HandKept ==
    ASSUME NEW st, NEW new, NEW wk, NEW next, NEW done, InHand(wk, st, done),
           new.sessions = st.sessions, new.approvals = st.approvals,
           next.todo = wk.todo, next.gone = wk.gone,
           wk.pc \in {"append", "snapshot", "local"}, next.pc \in {"snapshot", "local"}
    PROVE  InHand(next, new, done)
  <1>1. Idle(wk) => Idle(next)
    BY DEF Idle
  <1>2. Sweeping(wk) => Sweeping(next)
    BY DEF Sweeping
  <1>3. \A s : /\ Creating(wk, st, s) => Creating(next, new, s)
               /\ Updating(wk, st, s) => Updating(next, new, s)
               /\ Archiving(wk, st, s) => Archiving(next, new, s)
               /\ Purging(wk, st, s, done) => Purging(next, new, s, done)
    BY DEF Creating, Updating, Archiving, Purging
  <1>4. \A s, a : /\ Preparing(wk, st, s, a) => Preparing(next, new, s, a)
                  /\ Requesting(wk, st, a) => Requesting(next, new, a)
                  /\ Resolving(wk, st, a, s, done) => Resolving(next, new, a, s, done)
    BY DEF Preparing, Requesting, Resolving
  <1> QED BY <1>1, <1>2, <1>3, <1>4 DEF InHand

\* Persisting goes on: the event, or the snapshot, is appended.
LEMMA PersistStep ==
    ASSUME TypeInv, NEW v \in Inst, work[v].pc \in {"append", "snapshot"},
           NEW n \in Nat, NEW pc \in {"snapshot", "local"},
           mem' = [mem EXCEPT ![v].count = n],
           work' = [work EXCEPT ![v].pc = pc, ![v].at = now],
           log' \in Seq(Message), StateOK(ReplayMessages(log'), now),
           UNCHANGED <<plan, now, file, born, ended, settled, starts>>
    PROVE  /\ TypeInv'
           /\ mem'[v] = [mem[v] EXCEPT !.count = n]
           /\ mem'[v].sessions = mem[v].sessions /\ mem'[v].approvals = mem[v].approvals
           /\ mem'[v].count = n
           /\ work'[v] = [pc |-> pc, todo |-> work[v].todo, at |-> now, gone |-> work[v].gone]
  <1>1. /\ now \in Nat /\ WorkerOK(mem[v], work[v], file[v], now, ended)
        /\ StateOK(mem[v], now) /\ FileOK(file[v], now)
        /\ mem = [w \in Inst |-> mem[w]] /\ work = [w \in Inst |-> work[w]]
        /\ file = [w \in Inst |-> file[w]]
        /\ work[v] = [pc |-> work[v].pc, todo |-> work[v].todo, at |-> work[v].at,
                      gone |-> work[v].gone]
        /\ work[v].gone \subseteq ended
    BY WorkerTypes
  <1>2. mem'[v] = [mem[v] EXCEPT !.count = n] /\ \E x : mem' = [mem EXCEPT ![v] = x]
    BY <1>1
  <1>3. /\ work'[v] = [pc |-> pc, todo |-> work[v].todo, at |-> now, gone |-> work[v].gone]
        /\ \E x : work' = [work EXCEPT ![v] = x]
    BY <1>1
  <1>4. file' = [file EXCEPT ![v] = file[v]] /\ file'[v] = file[v]
    BY <1>1
  <1>5. /\ StateOK(mem'[v], now)
        /\ mem'[v].sessions = mem[v].sessions /\ mem'[v].approvals = mem[v].approvals
        /\ mem'[v].count = n
    <2>1. mem'[v] = Counted(mem[v], n)
      BY <1>2 DEF Counted
    <2> DEFINE new == Counted(mem[v], n)
    <2>2. /\ StateOK(new, now)
          /\ new.sessions = mem[v].sessions /\ new.approvals = mem[v].approvals
          /\ new.count = n
      BY <1>1, Counting
    <2> HIDE DEF new
    <2>3. mem'[v] = new
      BY <2>1 DEF new
    <2> QED BY <2>2, <2>3
  <1>6. WorkerOK(mem'[v], work'[v], file[v], now, ended)
    <2> DEFINE st == mem'[v]  wk == work'[v]
    <2>1. /\ wk = [pc |-> pc, todo |-> work[v].todo, at |-> now, gone |-> work[v].gone]
          /\ wk.pc = pc /\ wk.todo = work[v].todo /\ wk.at = now /\ wk.gone = work[v].gone
      BY <1>3
    <2>2. StateOK(st, now) /\ st.sessions = mem[v].sessions /\ st.approvals = mem[v].approvals
      BY <1>5
    <2> HIDE DEF st, wk
    <2>3. InHand(work[v], mem[v], ended)
      BY <1>1 DEF WorkerOK
    <2>4. InHand(wk, st, ended)
      BY <2>1, <2>2, <2>3, HandKept
    <2>5. WorkerOK(st, wk, file[v], now, ended)
      BY <1>1, <2>1, <2>2, <2>4 DEF WorkerOK
    <2> QED BY <2>5 DEF st, wk
  <1>7. /\ born \subseteq Session \cup Approval /\ settled \subseteq ended
        /\ ended \subseteq Session \cup Approval /\ starts \in [Inst -> Nat]
    BY DEF TypeInv
  <1>8. /\ plan' = plan /\ now' \in Nat /\ now <= now'
        /\ born' \subseteq Session \cup Approval /\ settled' \subseteq ended'
        /\ ended \subseteq ended' /\ ended' \subseteq Session \cup Approval
        /\ starts' \in [Inst -> Nat]
        /\ log' \in Seq(Message) /\ StateOK(ReplayMessages(log'), now')
        /\ WorkerOK(mem'[v], work'[v], file'[v], now', ended')
    BY <1>1, <1>4, <1>6, <1>7
  <1>9. \E x : file' = [file EXCEPT ![v] = x]
    BY <1>4
  <1>10. TypeInv'
    BY <1>2, <1>3, <1>8, <1>9, WorkerStep
  <1> QED BY <1>2, <1>3, <1>5, <1>10

\* An event is appended.
LEMMA EventStep ==
    ASSUME TypeInv, NEW v \in Inst, AppendEvent(v)
    PROVE  /\ TypeInv' /\ UNCHANGED <<plan, now, file, born, ended, settled, starts>>
           /\ \/ \E k : LET event == Event(mem[v], Head(work[v].todo)) IN
                   /\ Saying(mem[v], work[v], k) /\ event \in MessageTo(now)
                   /\ IsEvent(event) /\ ~IsSnapshot(event)
                   /\ log' = Append(log, event)
                   /\ ReplayMessages(log') = StepReplay(ReplayMessages(log), event)
              \/ "append" \in plan.faults /\ log' = log
           /\ mem'[v] = [mem[v] EXCEPT !.count = mem[v].count + 1]
           /\ mem'[v].sessions = mem[v].sessions /\ mem'[v].approvals = mem[v].approvals
           /\ mem'[v].count = mem[v].count + 1
           /\ work'[v].pc \in {"snapshot", "local"} /\ work[v].pc = "append"
           /\ work'[v] = [pc |-> work'[v].pc, todo |-> work[v].todo, at |-> now,
                          gone |-> work[v].gone]
  <1> DEFINE event == Event(mem[v], Head(work[v].todo))
             pc == IF mem[v].count + 1 >= plan.interval THEN "snapshot" ELSE "local"
             n == mem[v].count + 1
  <1>1. /\ now \in Nat /\ WorkerOK(mem[v], work[v], file[v], now, ended)
        /\ StateOK(mem[v], now) /\ log \in Seq(Message) /\ StateOK(ReplayMessages(log), now)
        /\ mem = [w \in Inst |-> mem[w]] /\ work = [w \in Inst |-> work[w]]
    BY WorkerTypes
  <1>2. /\ work[v].pc = "append"
        /\ log' = Append(log, event) \/ ("append" \in plan.faults /\ log' = log)
        /\ mem' = [mem EXCEPT ![v].count = n]
        /\ work' = [work EXCEPT ![v].pc = pc, ![v].at = now]
        /\ UNCHANGED <<plan, now, file, born, ended, settled, starts>>
    BY <1>1 DEF AppendEvent
  <1>3. PICK k : Saying(mem[v], work[v], k)
    BY <1>1, <1>2, HeadSays
  <1>4. event \in MessageTo(now) /\ ~IsSnapshot(event) /\ IsEvent(event)
    BY <1>1, <1>3, SayingTyped
  <1> HIDE DEF event
  <1>5. /\ Append(log, event) \in Seq(Message)
        /\ StateOK(ReplayMessages(Append(log, event)), now)
        /\ ReplayMessages(Append(log, event)) = StepReplay(ReplayMessages(log), event)
    BY <1>1, <1>4, LogGrows
  <1>6. n \in Nat /\ pc \in {"snapshot", "local"}
    BY <1>1 DEF StateOK
  <1> HIDE DEF n, pc
  <1>7. log' \in Seq(Message) /\ StateOK(ReplayMessages(log'), now)
    BY <1>1, <1>2, <1>5
  <1>8. /\ TypeInv' /\ mem'[v] = [mem[v] EXCEPT !.count = n]
        /\ mem'[v].sessions = mem[v].sessions /\ mem'[v].approvals = mem[v].approvals
        /\ mem'[v].count = n
        /\ work'[v] = [pc |-> pc, todo |-> work[v].todo, at |-> now, gone |-> work[v].gone]
    BY <1>2, <1>6, <1>7, PersistStep
  <1>9. work'[v].pc = pc
    BY <1>8
  <1> QED BY <1>2, <1>3, <1>4, <1>5, <1>6, <1>8, <1>9 DEF event, n

\* A snapshot is appended.
LEMMA SnapshotStep ==
    ASSUME TypeInv, NEW v \in Inst, AppendSnapshot(v)
    PROVE  /\ TypeInv' /\ UNCHANGED <<plan, now, file, born, ended, settled, starts>>
           /\ \/ LET snap == ToSnapshot(mem[v], now) IN
                 /\ snap \in MessageTo(now) /\ IsSnapshot(snap)
                 /\ log' = Append(log, snap) /\ ReplayMessages(log') = FromSnapshot(snap)
              \/ "append" \in plan.faults /\ log' = log
           /\ mem'[v] = [mem[v] EXCEPT !.count = 0]
           /\ mem'[v].sessions = mem[v].sessions /\ mem'[v].approvals = mem[v].approvals
           /\ mem'[v].count = 0
           /\ work'[v].pc = "local" /\ work[v].pc = "snapshot"
           /\ work'[v] = [pc |-> "local", todo |-> work[v].todo, at |-> now,
                          gone |-> work[v].gone]
  <1> DEFINE snap == ToSnapshot(mem[v], now)
  <1>1. /\ now \in Nat /\ StateOK(mem[v], now)
        /\ log \in Seq(Message) /\ StateOK(ReplayMessages(log), now)
        /\ mem = [w \in Inst |-> mem[w]] /\ work = [w \in Inst |-> work[w]]
    BY WorkerTypes
  <1>2. /\ work[v].pc = "snapshot"
        /\ log' = Append(log, snap) \/ ("append" \in plan.faults /\ log' = log)
        /\ mem' = [mem EXCEPT ![v].count = 0]
        /\ work' = [work EXCEPT ![v].pc = "local", ![v].at = now]
        /\ UNCHANGED <<plan, now, file, born, ended, settled, starts>>
    BY <1>1 DEF AppendSnapshot
  <1>3. snap \in MessageTo(now) /\ IsSnapshot(snap)
    BY <1>1, SnapshotTyped
  <1> HIDE DEF snap
  <1>4. /\ Append(log, snap) \in Seq(Message)
        /\ StateOK(ReplayMessages(Append(log, snap)), now)
        /\ ReplayMessages(Append(log, snap)) = FromSnapshot(snap)
    BY <1>1, <1>3, LogGrows
  <1>5. log' \in Seq(Message) /\ StateOK(ReplayMessages(log'), now)
    BY <1>1, <1>2, <1>4
  <1>6. /\ TypeInv' /\ mem'[v] = [mem[v] EXCEPT !.count = 0]
        /\ mem'[v].sessions = mem[v].sessions /\ mem'[v].approvals = mem[v].approvals
        /\ mem'[v].count = 0
        /\ work'[v] = [pc |-> "local", todo |-> work[v].todo, at |-> now,
                       gone |-> work[v].gone]
    BY <1>2, <1>5, PersistStep
  <1>7. work'[v].pc = "local"
    BY <1>6
  <1> QED BY <1>2, <1>3, <1>4, <1>6, <1>7 DEF snap

\* What a handler, or the next of its jobs, begins with.
Runs(st, jobs, gone, done, s, a) ==
    \/ jobs = <<Job("create", s), Job("update", s)>> /\ s \in Session /\ gone = {}
    \/ jobs = <<Job("update", s)>> /\ s \in DOMAIN st.sessions
    \/ jobs = <<Job("archive", s)>> /\ s \in DOMAIN st.sessions /\ gone = {}
    \/ /\ jobs = <<Job("purge", s), Sweep>> /\ s \in Session
       /\ gone = {s} /\ s \in done
    \/ jobs = <<Sweep>>
    \/ /\ jobs = <<Job("update", s), Asking(a, st.approvals[a])>>
       /\ s \in DOMAIN st.sessions /\ a \in DOMAIN st.approvals /\ gone = {}
    \/ jobs = <<Asking(a, st.approvals[a])>> /\ a \in DOMAIN st.approvals /\ gone = {}
    \/ /\ jobs = <<Job("resolve", a), Job("update", s)>> /\ a \in Approval
       /\ s \in DOMAIN st.sessions /\ gone = {a} /\ a \in done

\* What it makes of the memory.
Made(new, st, w, job, k, t) ==
    /\ new.count = st.count
    /\ \A s \in DOMAIN st.sessions :
         s # k => s \in DOMAIN new.sessions /\ new.sessions[s] = st.sessions[s]
    /\ \/ /\ job = Job("create", k) /\ k \in Session
          /\ DOMAIN new.sessions = DOMAIN st.sessions \cup {k}
          /\ new.sessions[k] = Newborn(w, t) /\ new.approvals = st.approvals
       \/ /\ job = Job("update", k) /\ k \in DOMAIN st.sessions
          /\ DOMAIN new.sessions = DOMAIN st.sessions
          /\ new.sessions[k] = [st.sessions[k] EXCEPT !.updated = t]
          /\ new.approvals = st.approvals
       \/ /\ job = Job("archive", k) /\ k \in DOMAIN st.sessions
          /\ DOMAIN new.sessions = DOMAIN st.sessions
          /\ new.sessions[k] = [st.sessions[k] EXCEPT !.updated = t, !.archived = TRUE]
          /\ new.approvals = Drop(st.approvals, ApprovalsOf(st.approvals, k))
       \/ /\ job = Job("purge", k) /\ k \in Session
          /\ DOMAIN new.sessions = DOMAIN st.sessions \ {k}
          /\ new.approvals = Drop(st.approvals, ApprovalsOf(st.approvals, k))
       \/ /\ job = Job("resolve", k) /\ k \in Approval /\ new.sessions = st.sessions
          /\ new.approvals = Drop(st.approvals, {k})
       \/ /\ job = Asking(k, st.approvals[k]) /\ k \in DOMAIN st.approvals
          /\ new.sessions = st.sessions /\ new.approvals = st.approvals
       \/ /\ job = Sweep /\ new.sessions = st.sessions /\ new.approvals = st.approvals

\* The jobs that stamp a session.
Stamps(job) == job.do \in {"create", "update", "archive"}

\* A job is made: what it makes, and where the worker is then.
LEMMA RunParts ==
    ASSUME TypeInv, NEW v \in Inst, NEW st, NEW jobs, NEW gone, Run(v, st, jobs, gone)
    PROVE  /\ now' = IF Stamps(Head(jobs)) THEN now + 1 ELSE now
           /\ \E x : mem' = [mem EXCEPT ![v] = x]
           /\ \E x : work' = [work EXCEPT ![v] = x]
           /\ mem'[v] = IF Head(jobs).do = "snapshot" THEN st ELSE Change(v, st, Head(jobs))
           /\ work'[v] = [pc |-> IF Head(jobs).do = "snapshot" THEN "snapshot" ELSE "append",
                          todo |-> jobs, at |-> now', gone |-> gone]
  <1>1. mem = [w \in Inst |-> mem[w]] /\ work = [w \in Inst |-> work[w]]
    BY WorkerTypes
  <1> DEFINE job == Head(jobs)
             changed == IF job.do = "snapshot" THEN st ELSE Change(v, st, job)
             wk == [pc |-> IF job.do = "snapshot" THEN "snapshot" ELSE "append",
                    todo |-> jobs, at |-> now', gone |-> gone]
  <1>2. /\ now' = IF Stamps(job) THEN now + 1 ELSE now
        /\ mem' = [mem EXCEPT ![v] = changed] /\ work' = [work EXCEPT ![v] = wk]
    BY DEF Run, Stamps
  <1> HIDE DEF changed, wk, job
  <1>3. mem'[v] = changed /\ work'[v] = wk
    BY <1>1, <1>2
  <1>4. (\E x : mem' = [mem EXCEPT ![v] = x]) /\ (\E x : work' = [work EXCEPT ![v] = x])
    BY <1>2
  <1> QED BY <1>2, <1>3, <1>4 DEF changed, wk, job

\* The jobs it may be.
LEMMA Jobs ==
    \A k : /\ Job("create", k).do = "create" /\ Job("update", k).do = "update"
           /\ Job("archive", k).do = "archive" /\ Job("purge", k).do = "purge"
           /\ Job("resolve", k).do = "resolve" /\ Sweep.do = "snapshot"
           /\ \A approval : Asking(k, approval).do = "request"
  BY DEF Job, Sweep, Asking

\* It leaves a worker that is as it should be.
LEMMA RunOK ==
    ASSUME TypeInv, NEW v \in Inst, NEW st, NEW jobs, NEW gone, Run(v, st, jobs, gone),
           NEW done, gone \subseteq done, NEW s, NEW a, Runs(st, jobs, gone, done, s, a),
           now' \in Nat => StateOK(st, now')
    PROVE  /\ now' \in Nat /\ now <= now' /\ StateOK(mem'[v], now')
           /\ \E k \in {s, a} : Made(mem'[v], st, v, Head(jobs), k, now')
           /\ InHand(work'[v], mem'[v], done)
           /\ \A f : FileOK(f, now') => WorkerOK(mem'[v], work'[v], f, now', done)
  <1> DEFINE new == mem'[v]  wk == work'[v]  job == Head(jobs)
             good == /\ StateOK(new, now') /\ InHand(wk, new, done)
                     /\ \E k \in {s, a} : Made(new, st, v, job, k, now')
  <1>1. /\ now' = IF Stamps(job) THEN now + 1 ELSE now
        /\ new = IF job.do = "snapshot" THEN st ELSE Change(v, st, job)
        /\ wk = [pc |-> IF job.do = "snapshot" THEN "snapshot" ELSE "append",
                 todo |-> jobs, at |-> now', gone |-> gone]
        /\ wk.pc = IF job.do = "snapshot" THEN "snapshot" ELSE "append"
        /\ wk.todo = jobs /\ wk.at = now' /\ wk.gone = gone
    BY RunParts
  <1>2. now \in Nat
    BY WorkerTypes
  <1>3. now' \in Nat /\ now <= now' /\ StateOK(st, now') /\ (Stamps(job) => now' = now + 1)
    BY <1>1, <1>2
  <1> HIDE DEF new, wk, job
  <1>6. ASSUME jobs = <<Job("create", s), Job("update", s)>> /\ s \in Session /\ gone = {}
        PROVE  good
    <2>1. job = Job("create", s)
      BY <1>6 DEF job
    <2>2. new = Change(v, st, Job("create", s)) /\ Stamps(job) /\ wk.pc = "append"
      BY <1>1, <2>1, Jobs DEF Stamps
    <2>3. /\ StateOK(new, now') /\ new.count = st.count /\ new.approvals = st.approvals
          /\ DOMAIN new.sessions = DOMAIN st.sessions \cup {s}
          /\ new.sessions[s] = Newborn(v, now')
          /\ \A k \in DOMAIN st.sessions \ {s} : new.sessions[k] = st.sessions[k]
      BY <1>2, <1>3, <1>6, <2>2, CreateChange
    <2>5. Made(new, st, v, job, s, now')
      BY <1>6, <2>1, <2>3 DEF Made
    <2>6. Creating(wk, new, s)
      BY <1>1, <1>6, <2>3 DEF Creating
    <2> QED BY <1>6, <2>2, <2>3, <2>5, <2>6 DEF InHand
  <1>7. ASSUME jobs = <<Job("update", s)>> /\ s \in DOMAIN st.sessions
        PROVE  good
    <2>1. job = Job("update", s)
      BY <1>7 DEF job
    <2>2. new = Change(v, st, Job("update", s)) /\ Stamps(job) /\ wk.pc = "append"
      BY <1>1, <2>1, Jobs DEF Stamps
    <2>3. /\ StateOK(new, now') /\ new.count = st.count /\ new.approvals = st.approvals
          /\ DOMAIN new.sessions = DOMAIN st.sessions
          /\ new.sessions[s] = [st.sessions[s] EXCEPT !.updated = now']
          /\ \A k \in DOMAIN st.sessions \ {s} : new.sessions[k] = st.sessions[k]
      BY <1>2, <1>3, <1>7, <2>2, UpdateChange
    <2>5. Made(new, st, v, job, s, now')
      BY <1>7, <2>1, <2>3 DEF Made
    <2>6. Updating(wk, new, s)
      BY <1>1, <1>7, <2>3 DEF Updating
    <2>7. s \in Session
      BY <1>7, <1>3, TableIs DEF StateOK
    <2> QED BY <2>2, <2>3, <2>5, <2>6, <2>7 DEF InHand
  <1>8. ASSUME jobs = <<Job("archive", s)>> /\ s \in DOMAIN st.sessions /\ gone = {}
        PROVE  good
    <2>1. job = Job("archive", s)
      BY <1>8 DEF job
    <2>2. new = Change(v, st, Job("archive", s)) /\ Stamps(job) /\ wk.pc = "append"
      BY <1>1, <2>1, Jobs DEF Stamps
    <2>3. /\ StateOK(new, now') /\ new.count = st.count
          /\ DOMAIN new.sessions = DOMAIN st.sessions
          /\ new.sessions[s] = [st.sessions[s] EXCEPT !.updated = now', !.archived = TRUE]
          /\ \A k \in DOMAIN st.sessions \ {s} : new.sessions[k] = st.sessions[k]
          /\ new.approvals = Drop(st.approvals, ApprovalsOf(st.approvals, s))
      <3>1. now' = now + 1 /\ now \in Nat /\ now' \in Nat /\ now + 1 <= now'
        BY <1>2, <1>3, <2>2
      <3>2. StateOK(st, now') /\ s \in DOMAIN st.sessions
        BY <1>3, <1>8
      <3> DEFINE c == Change(v, st, Job("archive", s))
      <3>3. /\ StateOK(c, now') /\ c.count = st.count
            /\ DOMAIN c.sessions = DOMAIN st.sessions
            /\ c.sessions[s] = [st.sessions[s] EXCEPT !.updated = now + 1, !.archived = TRUE]
            /\ \A k \in DOMAIN st.sessions \ {s} : c.sessions[k] = st.sessions[k]
            /\ c.approvals = Drop(st.approvals, ApprovalsOf(st.approvals, s))
        <4>1. StateOK(c, now')
          BY <3>1, <3>2, ArchiveChange
        <4>2. c = With(st, Shelved(st.sessions, s, now + 1),
                       Drop(st.approvals, ApprovalsOf(st.approvals, s)))
          BY <3>2, ArchiveParts DEF StateOK
        <4>3. st.sessions \in Tables(Session, RecordsTo(now'))
          BY <3>2 DEF StateOK
        <4>4. IsShelved(Shelved(st.sessions, s, now + 1), st.sessions, s, now + 1)
          BY <3>2, <4>3, ShelvedFields
        <4> HIDE DEF c
        <4>5. /\ c.count = st.count /\ c.sessions = Shelved(st.sessions, s, now + 1)
              /\ c.approvals = Drop(st.approvals, ApprovalsOf(st.approvals, s))
          BY <4>2 DEF With
        <4> QED BY <4>1, <4>4, <4>5 DEF IsShelved
      <3> HIDE DEF c
      <3>4. new = c
        BY <2>2 DEF c
      <3> QED BY <3>1, <3>3, <3>4
    <2>5. Made(new, st, v, job, s, now')
      BY <1>8, <2>1, <2>3 DEF Made
    <2>6. s \in Session /\ st.sessions[s] \in RecordsTo(now')
      BY <1>8, <1>3, TableIs DEF StateOK
    <2>7. new.sessions[s].archived
      BY <2>3, <2>6 DEF RecordsTo
    <2>8. Archiving(wk, new, s)
      BY <1>1, <1>8, <2>3, <2>7 DEF Archiving
    <2> QED BY <2>2, <2>3, <2>5, <2>6, <2>8 DEF InHand
  <1>9. ASSUME /\ jobs = <<Job("purge", s), Sweep>> /\ s \in Session
               /\ gone = {s} /\ s \in done
        PROVE  good
    <2>1. job = Job("purge", s)
      BY <1>9 DEF job
    <2>2. new = Change(v, st, Job("purge", s)) /\ wk.pc = "append"
      BY <1>1, <2>1, Jobs
    <2>3. /\ StateOK(new, now') /\ new.count = st.count
          /\ DOMAIN new.sessions = DOMAIN st.sessions \ {s}
          /\ \A k \in DOMAIN st.sessions \ {s} : new.sessions[k] = st.sessions[k]
          /\ new.approvals = Drop(st.approvals, ApprovalsOf(st.approvals, s))
      BY <1>3, <2>2, PurgeChange
    <2>5. Made(new, st, v, job, s, now')
      BY <1>9, <2>1, <2>3 DEF Made
    <2>6. Purging(wk, new, s, done)
      BY <1>1, <1>9, <2>3 DEF Purging
    <2> QED BY <1>9, <2>2, <2>3, <2>5, <2>6 DEF InHand
  <1>10. ASSUME jobs = <<Sweep>>
        PROVE  good
    <2>1. job = Sweep
      BY <1>10 DEF job
    <2>2. new = st /\ wk.pc = "snapshot"
      BY <1>1, <2>1, Jobs
    <2>3. Made(new, st, v, job, s, now')
      BY <2>1, <2>2 DEF Made
    <2>4. Sweeping(wk)
      BY <1>1, <1>10, <2>2 DEF Sweeping
    <2> QED BY <1>3, <2>2, <2>3, <2>4 DEF InHand
  <1>11. ASSUME /\ jobs = <<Job("update", s), Asking(a, st.approvals[a])>>
                /\ s \in DOMAIN st.sessions /\ a \in DOMAIN st.approvals /\ gone = {}
        PROVE  good
    <2>1. job = Job("update", s)
      BY <1>11 DEF job
    <2>2. new = Change(v, st, Job("update", s)) /\ Stamps(job) /\ wk.pc = "append"
      BY <1>1, <2>1, Jobs DEF Stamps
    <2>3. /\ StateOK(new, now') /\ new.count = st.count /\ new.approvals = st.approvals
          /\ DOMAIN new.sessions = DOMAIN st.sessions
          /\ new.sessions[s] = [st.sessions[s] EXCEPT !.updated = now']
          /\ \A k \in DOMAIN st.sessions \ {s} : new.sessions[k] = st.sessions[k]
      BY <1>2, <1>3, <1>11, <2>2, UpdateChange
    <2>5. Made(new, st, v, job, s, now')
      BY <1>11, <2>1, <2>3 DEF Made
    <2>6. Preparing(wk, new, s, a) /\ a \in DOMAIN new.approvals
      BY <1>1, <1>11, <2>3 DEF Preparing
    <2>7. s \in Session
      BY <1>11, <1>3, TableIs DEF StateOK
    <2> QED BY <2>2, <2>3, <2>5, <2>6, <2>7 DEF InHand
  <1>12. ASSUME jobs = <<Asking(a, st.approvals[a])>> /\ a \in DOMAIN st.approvals /\ gone = {}
        PROVE  good
    <2>1. job = Asking(a, st.approvals[a])
      BY <1>12 DEF job
    <2>2. new = st /\ wk.pc = "append"
      BY <1>1, <2>1, Jobs, RequestParts
    <2>3. Made(new, st, v, job, a, now')
      BY <1>12, <2>1, <2>2 DEF Made
    <2>4. Requesting(wk, new, a)
      BY <1>1, <1>12, <2>2 DEF Requesting
    <2> QED BY <1>3, <1>12, <2>2, <2>3, <2>4 DEF InHand
  <1>13. ASSUME /\ jobs = <<Job("resolve", a), Job("update", s)>> /\ a \in Approval
                /\ s \in DOMAIN st.sessions /\ gone = {a} /\ a \in done
        PROVE  good
    <2>1. job = Job("resolve", a)
      BY <1>13 DEF job
    <2>2. new = Change(v, st, Job("resolve", a)) /\ wk.pc = "append"
      BY <1>1, <2>1, Jobs
    <2>3. /\ StateOK(new, now') /\ new.count = st.count
          /\ new.sessions = st.sessions
          /\ DOMAIN new.approvals = DOMAIN st.approvals \ {a}
          /\ new.approvals = Drop(st.approvals, {a})
      <3> DEFINE c == Change(v, st, Job("resolve", a))
      <3>1. now' \in Nat /\ StateOK(st, now')
        BY <1>3
      <3>2. /\ StateOK(c, now') /\ c.count = st.count
            /\ c.sessions = st.sessions
            /\ DOMAIN c.approvals = DOMAIN st.approvals \ {a}
            /\ c.approvals = Drop(st.approvals, {a})
        <4>1. StateOK(c, now')
          BY <3>1, ResolveChange
        <4>2. c = With(st, st.sessions, Drop(st.approvals, {a}))
          BY <3>1, ResolveParts DEF StateOK
        <4> HIDE DEF c
        <4>3. /\ c.count = st.count /\ c.sessions = st.sessions
              /\ c.approvals = Drop(st.approvals, {a})
          BY <4>2 DEF With
        <4> QED BY <4>1, <4>3, DropIs
      <3> HIDE DEF c
      <3>3. new = c
        BY <2>2 DEF c
      <3> QED BY <3>2, <3>3
    <2>5. Made(new, st, v, job, a, now')
      BY <1>13, <2>1, <2>3 DEF Made
    <2>6. Resolving(wk, new, a, s, done)
      BY <1>1, <1>13, <2>3 DEF Resolving
    <2>7. s \in Session
      BY <1>13, <1>3, TableIs DEF StateOK
    <2> QED BY <1>13, <2>2, <2>3, <2>5, <2>6, <2>7 DEF InHand
  <1>14. good
    <2> HIDE DEF good
    <2> QED BY <1>6, <1>7, <1>8, <1>9, <1>10, <1>11, <1>12, <1>13 DEF Runs
  <1>15. ASSUME NEW f, FileOK(f, now')
         PROVE  WorkerOK(new, wk, f, now', done)
    <2>1. wk.pc \in {"append", "snapshot"} /\ wk.at \in 0..now' /\ wk.gone \subseteq done
      BY <1>1, <1>3
    <2>2. wk = [pc |-> wk.pc, todo |-> wk.todo, at |-> wk.at, gone |-> wk.gone]
      BY <1>1
    <2> QED BY <1>14, <1>15, <2>1, <2>2 DEF WorkerOK
  <1> QED BY <1>3, <1>14, <1>15 DEF new, wk, job

\* One job and two jobs.
LEMMA ShortTodos ==
    \A x, y : /\ Tail(<<x>>) = <<>> /\ Tail(<<x, y>>) = <<y>>
             /\ Head(<<x>>) = x /\ Head(<<x, y>>) = x
             /\ <<x>> # <<>> /\ <<x, y>> # <<>>
  OBVIOUS

\* What comes after a job that is through.
LEMMA RestRuns ==
    ASSUME NEW st, NEW wk, NEW t \in Nat, NEW f, NEW done, WorkerOK(st, wk, f, t, done),
           wk.pc = "local", wk.todo # <<>>, Tail(wk.todo) # <<>>
    PROVE  \E s, a : /\ Runs(st, Tail(wk.todo), wk.gone, done, s, a)
                     /\ Head(Tail(wk.todo)) \in
                          {Job("update", s), Asking(a, st.approvals[a]), Sweep}
  <1>1. st.approvals \in Tables(Approval, ApprovalsTo(t))
    BY DEF WorkerOK, StateOK
  <1>2. \/ Idle(wk) \/ Sweeping(wk)
        \/ \E s \in Session :
               \/ Creating(wk, st, s) \/ Updating(wk, st, s) \/ Archiving(wk, st, s)
               \/ Purging(wk, st, s, done)
               \/ \E a \in Approval : Resolving(wk, st, a, s, done)
               \/ \E a \in DOMAIN st.approvals : Preparing(wk, st, s, a)
        \/ \E a \in DOMAIN st.approvals : Requesting(wk, st, a)
    BY DEF WorkerOK, InHand
  <1>3. ~Idle(wk) /\ ~Sweeping(wk)
    BY ShortTodos DEF Idle, Sweeping
  <1>4. \A s : ~Updating(wk, st, s) /\ ~Archiving(wk, st, s)
    BY ShortTodos DEF Updating, Archiving
  <1>5. \A a : ~Requesting(wk, st, a)
    BY ShortTodos DEF Requesting
  <1>6. ASSUME NEW s \in Session, Creating(wk, st, s)
        PROVE  Runs(st, Tail(wk.todo), wk.gone, done, s, s)
               /\ Head(Tail(wk.todo)) = Job("update", s)
    <2>1. Tail(wk.todo) = <<Job("update", s)>> /\ s \in DOMAIN st.sessions
      BY <1>6, ShortTodos DEF Creating
    <2> QED BY <2>1, ShortTodos DEF Runs
  <1>7. ASSUME NEW s \in Session, Purging(wk, st, s, done)
        PROVE  Runs(st, Tail(wk.todo), wk.gone, done, s, s) /\ Head(Tail(wk.todo)) = Sweep
    <2>1. Tail(wk.todo) = <<Sweep>>
      BY <1>7, ShortTodos DEF Purging
    <2> QED BY <2>1, ShortTodos DEF Runs
  <1>8. ASSUME NEW s \in Session, NEW a, Resolving(wk, st, a, s, done)
        PROVE  Runs(st, Tail(wk.todo), wk.gone, done, s, s)
               /\ Head(Tail(wk.todo)) = Job("update", s)
    <2>1. Tail(wk.todo) = <<Job("update", s)>> /\ s \in DOMAIN st.sessions
      BY <1>8, ShortTodos DEF Resolving
    <2> QED BY <2>1, ShortTodos DEF Runs
  <1>9. ASSUME NEW s \in Session, NEW a \in DOMAIN st.approvals, Preparing(wk, st, s, a)
        PROVE  Runs(st, Tail(wk.todo), wk.gone, done, s, a)
               /\ Head(Tail(wk.todo)) = Asking(a, st.approvals[a])
    <2>1. Tail(wk.todo) = <<Asking(a, st.approvals[a])>> /\ wk.gone = {}
      BY <1>9, ShortTodos DEF Preparing
    <2> QED BY <2>1, ShortTodos DEF Runs
  <1> QED BY <1>2, <1>3, <1>4, <1>5, <1>6, <1>7, <1>8, <1>9

\* The file is written, and the next job, if there is one, is made.
LEMMA LocalStep ==
    ASSUME TypeInv, NEW v \in Inst, WriteLocal(v)
    PROVE  /\ TypeInv' /\ UNCHANGED <<plan, log, born, ended, starts>>
           /\ work[v].pc = "local" /\ settled' = settled \cup work[v].gone
           /\ file'[v] = LocalFile(v, mem[v], work[v].at) /\ now <= now'
           /\ \/ /\ mem'[v] = mem[v] /\ now' = now
                 /\ work'[v] = [pc |-> "idle", todo |-> <<>>, at |-> 0, gone |-> {}]
                 /\ work[v].todo = <<>> \/ Tail(work[v].todo) = <<>>
              \/ LET job == Head(work'[v].todo) IN
                 /\ \E k : /\ Made(mem'[v], mem[v], v, job, k, now')
                           /\ job = Job("update", k) \/ job = Asking(k, mem[v].approvals[k])
                              \/ job = Sweep
                 /\ now' = IF Stamps(job) THEN now + 1 ELSE now
                 /\ work[v].todo # <<>> /\ work'[v].todo = Tail(work[v].todo)
                 /\ work'[v].todo # <<>>
                 /\ work'[v] = [pc |-> IF job.do = "snapshot" THEN "snapshot" ELSE "append",
                                todo |-> work'[v].todo, at |-> now', gone |-> work[v].gone]
  <1> DEFINE f == LocalFile(v, mem[v], work[v].at)  rest == Tail(work[v].todo)
             gone == work[v].gone
  <1>1. /\ now \in Nat /\ WorkerOK(mem[v], work[v], file[v], now, ended)
        /\ StateOK(mem[v], now) /\ log \in Seq(Message) /\ StateOK(ReplayMessages(log), now)
        /\ mem = [w \in Inst |-> mem[w]] /\ work = [w \in Inst |-> work[w]]
        /\ file = [w \in Inst |-> file[w]]
        /\ work[v].at \in 0..now /\ gone \subseteq ended
    BY WorkerTypes
  <1>2. /\ work[v].pc = "local" /\ file' = [file EXCEPT ![v] = f]
        /\ settled' = settled \cup gone /\ Follow(v, mem[v])
        /\ UNCHANGED <<plan, log, born, ended, starts>>
    BY DEF WriteLocal
  <1>3. FileOK(f, now)
    BY <1>1, SnapshotTyped
  <1>4. file'[v] = f /\ \E x : file' = [file EXCEPT ![v] = x]
    BY <1>1, <1>2
  <1>5. /\ born \subseteq Session \cup Approval /\ settled \subseteq ended
        /\ ended \subseteq Session \cup Approval /\ starts \in [Inst -> Nat]
    BY DEF TypeInv
  <1>6. /\ plan' = plan /\ born' \subseteq Session \cup Approval /\ settled' \subseteq ended'
        /\ ended \subseteq ended' /\ ended' \subseteq Session \cup Approval
        /\ starts' \in [Inst -> Nat]
        /\ log' \in Seq(Message) /\ ended' = ended /\ log' = log
    BY <1>1, <1>2, <1>5
  <1> HIDE DEF f
  <1>7. CASE work[v].todo = <<>> \/ rest = <<>>
    <2>1. /\ work' = [work EXCEPT ![v] = [Off EXCEPT !.pc = "idle"]]
          /\ mem' = mem /\ now' = now
      BY <1>2, <1>7 DEF Follow
    <2>2. /\ work'[v] = [pc |-> "idle", todo |-> <<>>, at |-> 0, gone |-> {}]
          /\ \E x : work' = [work EXCEPT ![v] = x]
      BY <1>1, <2>1 DEF Off
    <2>3. mem'[v] = mem[v] /\ mem' = [mem EXCEPT ![v] = mem[v]]
      BY <1>1, <2>1
    <2>4. WorkerOK(mem[v], work'[v], f, now, ended)
      <3> DEFINE wk == work'[v]
      <3>1. /\ wk = [pc |-> "idle", todo |-> <<>>, at |-> 0, gone |-> {}]
            /\ wk.pc = "idle" /\ wk.todo = <<>> /\ wk.at = 0 /\ wk.gone = {}
        BY <2>2
      <3> HIDE DEF wk
      <3>2. WorkerOK(mem[v], wk, f, now, ended)
        BY <1>1, <1>3, <3>1 DEF WorkerOK, InHand, Idle
      <3> QED BY <3>2 DEF wk
    <2>5. \E x : mem' = [mem EXCEPT ![v] = x]
      BY <2>3
    <2>6. /\ now' \in Nat /\ now <= now' /\ StateOK(ReplayMessages(log'), now')
          /\ WorkerOK(mem'[v], work'[v], file'[v], now', ended')
      BY <1>1, <1>4, <1>6, <2>1, <2>3, <2>4
    <2>7. TypeInv'
      BY <1>4, <1>6, <2>2, <2>5, <2>6, WorkerStep
    <2> QED BY <1>1, <1>2, <1>4, <1>7, <2>1, <2>2, <2>3, <2>7 DEF f
  <1>8. CASE work[v].todo # <<>> /\ rest # <<>>
    <2>1. Run(v, mem[v], rest, gone)
      BY <1>2, <1>8 DEF Follow
    <2>2. PICK s, a : /\ Runs(mem[v], rest, gone, ended, s, a)
                      /\ Head(rest) \in {Job("update", s), Asking(a, mem[v].approvals[a]), Sweep}
      BY <1>1, <1>2, <1>8, RestRuns
    <2> HIDE DEF rest, gone
    <2>3. /\ now' = IF Stamps(Head(rest)) THEN now + 1 ELSE now
          /\ \E x : mem' = [mem EXCEPT ![v] = x]
          /\ \E x : work' = [work EXCEPT ![v] = x]
          /\ work'[v] = [pc |-> IF Head(rest).do = "snapshot" THEN "snapshot" ELSE "append",
                         todo |-> rest, at |-> now', gone |-> gone]
          /\ work'[v].todo = rest
      BY <2>1, RunParts
    <2>4. now' \in Nat /\ now <= now'
      BY <1>1, <2>3
    <2>5. StateOK(mem[v], now') /\ FileOK(f, now') /\ StateOK(ReplayMessages(log'), now')
      BY <1>1, <1>3, <1>6, <2>4, LaterOK
    <2>6. /\ \E k \in {s, a} : Made(mem'[v], mem[v], v, Head(rest), k, now')
          /\ \A g : FileOK(g, now') => WorkerOK(mem'[v], work'[v], g, now', ended)
      BY <1>1, <2>1, <2>2, <2>5, RunOK
    <2>7. WorkerOK(mem'[v], work'[v], file'[v], now', ended')
      BY <1>4, <1>6, <2>5, <2>6
    <2>8. TypeInv'
      BY <1>4, <1>6, <2>3, <2>4, <2>5, <2>7, WorkerStep
    <2>9. \E k : /\ Made(mem'[v], mem[v], v, Head(rest), k, now')
                 /\ Head(rest) = Job("update", k) \/ Head(rest) = Asking(k, mem[v].approvals[k])
                    \/ Head(rest) = Sweep
      <3>1. PICK k \in {s, a} : Made(mem'[v], mem[v], v, Head(rest), k, now')
        BY <2>6
      <3>2. CASE Head(rest) = Job("update", s)
        <4>1. Job("update", s) = Job("update", k)
          <5>1. \A m, n : /\ Job("update", s) # Job("create", m)
                          /\ Job("update", s) # Job("archive", m)
                          /\ Job("update", s) # Job("purge", m)
                          /\ Job("update", s) # Job("resolve", m)
                          /\ Job("update", s) # Asking(m, n) /\ Job("update", s) # Sweep
            BY Jobs
          <5> QED BY <3>1, <3>2, <5>1 DEF Made
        <4> QED BY <3>1, <3>2, <4>1
      <3>3. CASE Head(rest) = Asking(a, mem[v].approvals[a])
        <4>1. Head(rest) = Asking(k, mem[v].approvals[k])
          <5>1. \A m, n : Asking(m, n) # Job("create", k) /\ Asking(m, n) # Job("archive", k)
                          /\ Asking(m, n) # Job("purge", k) /\ Asking(m, n) # Job("resolve", k)
                          /\ Asking(m, n) # Job("update", k) /\ Asking(m, n) # Sweep
            BY Jobs
          <5> QED BY <3>1, <3>3, <5>1 DEF Made
        <4> QED BY <3>1, <4>1
      <3> QED BY <2>2, <3>1, <3>2, <3>3
    <2> QED BY <1>2, <1>4, <1>8, <2>3, <2>4, <2>8, <2>9 DEF f, rest, gone
  <1> QED BY <1>7, <1>8

\* The worker ends, or its handler gives up.
LEMMA EndStep ==
    ASSUME TypeInv, NEW v \in Inst, FailLocal(v) \/ Stop(v) \/ Crash(v)
    PROVE  /\ TypeInv' /\ UNCHANGED <<plan, log, now, born, ended, settled, starts>>
           /\ \/ /\ work'[v] = [pc |-> "idle", todo |-> <<>>, at |-> 0, gone |-> {}]
                 /\ mem'[v] = mem[v] /\ work[v].pc = "local" /\ "local" \in plan.faults
                 /\ file'[v] \in {file[v], Corrupt}
              \/ /\ work'[v] = [pc |-> "down", todo |-> <<>>, at |-> 0, gone |-> {}]
                 /\ work[v].pc = "idle" /\ file'[v] = file[v]
              \/ /\ work'[v] = [pc |-> "down", todo |-> <<>>, at |-> 0, gone |-> {}]
                 /\ plan.faults \cap {"crash", "local"} # {}
                 /\ file'[v] \in {file[v], Corrupt}
  <1> DEFINE here(pc) == [pc |-> pc, todo |-> <<>>, at |-> 0, gone |-> {}]
  <1>1. /\ now \in Nat /\ StateOK(mem[v], now) /\ FileOK(file[v], now)
        /\ log \in Seq(Message) /\ StateOK(ReplayMessages(log), now)
        /\ mem = [w \in Inst |-> mem[w]] /\ work = [w \in Inst |-> work[w]]
        /\ file = [w \in Inst |-> file[w]]
    BY WorkerTypes
  <1>2. /\ Off = here("down") /\ [Off EXCEPT !.pc = "idle"] = here("idle")
    BY DEF Off
  <1>3. ASSUME FailLocal(v)
        PROVE  /\ work[v].pc = "local" /\ "local" \in plan.faults
               /\ file' = [file EXCEPT ![v] = file'[v]] /\ file'[v] \in {file[v], Corrupt}
               /\ \E x \in {here("down"), here("idle")} : work' = [work EXCEPT ![v] = x]
               /\ \E x \in {mem[v], NoReplay} : mem' = [mem EXCEPT ![v] = x]
               /\ work'[v] = here("idle") => mem'[v] = mem[v]
               /\ UNCHANGED <<plan, log, now, born, ended, settled, starts>>
    <2>1. /\ work[v].pc = "local" /\ "local" \in plan.faults
          /\ file' \in {file, [file EXCEPT ![v] = Corrupt]}
          /\ work' = [work EXCEPT ![v] = IF work[v].todo = <<>> THEN here("down") ELSE here("idle")]
          /\ mem' = [mem EXCEPT ![v] = IF work[v].todo = <<>> THEN NoReplay ELSE mem[v]]
          /\ UNCHANGED <<plan, log, now, born, ended, settled, starts>>
      BY <1>1, <1>2, <1>3 DEF FailLocal
    <2>2. file' = [file EXCEPT ![v] = file'[v]] /\ file'[v] \in {file[v], Corrupt}
      BY <1>1, <2>1
    <2>3. work'[v] = here("idle") => mem'[v] = mem[v]
      <3>1. here("idle") # here("down")
        <4>1. here("idle").pc = "idle" /\ here("down").pc = "down"
          OBVIOUS
        <4> QED BY <4>1
      <3> HIDE DEF here
      <3> QED BY <1>1, <2>1, <3>1
    <2> HIDE DEF here
    <2> QED BY <2>1, <2>2, <2>3
  <1>4. ASSUME Stop(v)
        PROVE  /\ work[v].pc = "idle" /\ file' = file
               /\ work' = [work EXCEPT ![v] = here("down")]
               /\ mem' = [mem EXCEPT ![v] = NoReplay]
               /\ UNCHANGED <<plan, log, now, born, ended, settled, starts>>
    BY <1>2, <1>4 DEF Stop
  <1>5. ASSUME Crash(v)
        PROVE  /\ "crash" \in plan.faults
               /\ file' = [file EXCEPT ![v] = file'[v]] /\ file'[v] \in {file[v], Corrupt}
               /\ work' = [work EXCEPT ![v] = here("down")]
               /\ mem' = [mem EXCEPT ![v] = NoReplay]
               /\ UNCHANGED <<plan, log, now, born, ended, settled, starts>>
    <2>1. /\ "crash" \in plan.faults /\ file' \in {file, [file EXCEPT ![v] = Corrupt]}
          /\ work' = [work EXCEPT ![v] = here("down")]
          /\ mem' = [mem EXCEPT ![v] = NoReplay]
          /\ UNCHANGED <<plan, log, now, born, ended, settled, starts>>
      BY <1>2, <1>5 DEF Crash
    <2>2. file' = [file EXCEPT ![v] = file'[v]] /\ file'[v] \in {file[v], Corrupt}
      BY <1>1, <2>1
    <2> HIDE DEF here
    <2> QED BY <2>1, <2>2
  <1>6. /\ file' = [file EXCEPT ![v] = file'[v]] /\ file'[v] \in {file[v], Corrupt}
        /\ \E x \in {here("down"), here("idle")} : work' = [work EXCEPT ![v] = x]
        /\ \E x \in {mem[v], NoReplay} : mem' = [mem EXCEPT ![v] = x]
        /\ UNCHANGED <<plan, log, now, born, ended, settled, starts>>
    <2> HIDE DEF here
    <2> QED BY <1>1, <1>3, <1>4, <1>5
  <1>7. WorkerOK(mem'[v], work'[v], file'[v], now, ended)
    <2>1. mem'[v] \in {mem[v], NoReplay} /\ work'[v] \in {here("down"), here("idle")}
      <3> HIDE DEF here
      <3> QED BY <1>1, <1>6
    <2>2. StateOK(mem'[v], now) /\ FileOK(file'[v], now)
      BY <1>1, <1>6, <2>1, NothingOK DEF FileOK
    <2>3. ASSUME NEW wk, NEW pc \in {"down", "idle"}, NEW st, NEW f, StateOK(st, now),
                 FileOK(f, now), wk = here(pc)
          PROVE  WorkerOK(st, wk, f, now, ended)
      BY <1>1, <2>3 DEF WorkerOK, InHand, Idle
    <2> HIDE DEF here
    <2> QED BY <2>1, <2>2, <2>3
  <1>8. /\ born \subseteq Session \cup Approval /\ settled \subseteq ended
        /\ ended \subseteq Session \cup Approval /\ starts \in [Inst -> Nat]
    BY DEF TypeInv
  <1>9. /\ plan' = plan /\ born' \subseteq Session \cup Approval /\ settled' \subseteq ended'
        /\ ended \subseteq ended' /\ ended' \subseteq Session \cup Approval
        /\ starts' \in [Inst -> Nat]
        /\ log' \in Seq(Message) /\ now' \in Nat /\ now <= now'
        /\ StateOK(ReplayMessages(log'), now')
        /\ WorkerOK(mem'[v], work'[v], file'[v], now', ended')
    BY <1>1, <1>6, <1>7, <1>8
  <1>10. /\ \E x : mem' = [mem EXCEPT ![v] = x]
         /\ \E x : work' = [work EXCEPT ![v] = x]
         /\ \E x : file' = [file EXCEPT ![v] = x]
    <2> HIDE DEF here
    <2> QED BY <1>6
  <1>11. TypeInv'
    BY <1>9, <1>10, WorkerStep
  <1>12. \/ work'[v] = here("idle") /\ FailLocal(v)
         \/ work'[v] = here("down") /\ Stop(v)
         \/ work'[v] = here("down") /\ FailLocal(v)
         \/ work'[v] = here("down") /\ Crash(v)
    <2> HIDE DEF here
    <2> QED BY <1>1, <1>3, <1>4, <1>5
  <1> QED BY <1>3, <1>4, <1>5, <1>6, <1>11, <1>12

-----------------------------------------------------------------------------
(* The handlers.                                                           *)

\* What a handler has done, and what the worker is at then.
Handled(v, jobs, gone) ==
    /\ work[v].pc = "idle" /\ work'[v].pc = "append" /\ work'[v].todo = jobs
    /\ work'[v].at = now' /\ work'[v].gone = gone /\ ended' = ended \cup gone
    /\ now' = IF Stamps(Head(jobs)) THEN now + 1 ELSE now
    /\ UNCHANGED <<plan, log, file, settled, starts>>

\* A handler takes its first job.
LEMMA HandlerStep ==
    ASSUME TypeInv, NEW v \in Inst, NEW jobs, NEW st, NEW gone, Handler(v, jobs, st, gone),
           NEW s, NEW a, Runs(st, jobs, gone, ended \cup gone, s, a),
           now' \in Nat => StateOK(st, now'), born' \subseteq Session \cup Approval,
           gone \subseteq Session \cup Approval, Head(jobs).do # "snapshot"
    PROVE  /\ TypeInv' /\ Handled(v, jobs, gone)
           /\ \E k \in {s, a} : Made(mem'[v], st, v, Head(jobs), k, now')
  <1>1. /\ now \in Nat /\ FileOK(file[v], now) /\ file = [w \in Inst |-> file[w]]
        /\ log \in Seq(Message) /\ StateOK(ReplayMessages(log), now)
    BY WorkerTypes
  <1>2. /\ work[v].pc = "idle" /\ Run(v, st, jobs, gone) /\ ended' = ended \cup gone
        /\ UNCHANGED <<plan, log, file, settled, starts>>
    BY DEF Handler
  <1>3. /\ now' = IF Stamps(Head(jobs)) THEN now + 1 ELSE now
        /\ \E x : mem' = [mem EXCEPT ![v] = x]
        /\ \E x : work' = [work EXCEPT ![v] = x]
        /\ work'[v] = [pc |-> "append", todo |-> jobs, at |-> now', gone |-> gone]
    BY <1>2, RunParts
  <1> DEFINE done == ended \cup gone
  <1>4. gone \subseteq done /\ ended \subseteq done /\ done = ended'
    BY <1>2
  <1> HIDE DEF done
  <1>5. /\ now' \in Nat /\ now <= now'
        /\ \E k \in {s, a} : Made(mem'[v], st, v, Head(jobs), k, now')
        /\ \A f : FileOK(f, now') => WorkerOK(mem'[v], work'[v], f, now', done)
    <2>1. Runs(st, jobs, gone, done, s, a)
      BY DEF done
    <2> QED BY <1>2, <1>4, <2>1, RunOK
  <1>6. FileOK(file[v], now') /\ StateOK(ReplayMessages(log), now')
    BY <1>1, <1>5, LaterOK
  <1>7. WorkerOK(mem'[v], work'[v], file'[v], now', ended')
    BY <1>2, <1>4, <1>5, <1>6
  <1>8. /\ born \subseteq Session \cup Approval /\ settled \subseteq ended
        /\ ended \subseteq Session \cup Approval /\ starts \in [Inst -> Nat]
    BY DEF TypeInv
  <1>9. /\ settled' \subseteq ended' /\ ended \subseteq ended'
        /\ ended' \subseteq Session \cup Approval
        /\ starts' \in [Inst -> Nat] /\ log' \in Seq(Message) /\ plan' = plan
        /\ StateOK(ReplayMessages(log'), now')
    BY <1>1, <1>2, <1>6, <1>8
  <1>10. \E x : file' = [file EXCEPT ![v] = x]
    <2>1. file' = [file EXCEPT ![v] = file[v]]
      BY <1>1, <1>2
    <2> QED BY <2>1
  <1>11. TypeInv'
    BY <1>3, <1>5, <1>7, <1>9, <1>10, WorkerStep
  <1>12. Handled(v, jobs, gone)
    <2>1. /\ work'[v].pc = "append" /\ work'[v].todo = jobs /\ work'[v].at = now'
          /\ work'[v].gone = gone
      BY <1>3
    <2> QED BY <1>2, <1>3, <2>1 DEF Handled
  <1> QED BY <1>5, <1>11, <1>12

\* A session is created.
LEMMA CreateStep ==
    ASSUME TypeInv, NEW v \in Inst, NEW s \in Session, Create(v, s)
    PROVE  /\ TypeInv' /\ Handled(v, <<Job("create", s), Job("update", s)>>, {})
           /\ Made(mem'[v], mem[v], v, Job("create", s), s, now')
           /\ s \notin born /\ born' = born \cup {s}
  <1> DEFINE jobs == <<Job("create", s), Job("update", s)>>
  <1>1. /\ s \notin born /\ born' = born \cup {s} /\ Handler(v, jobs, mem[v], {})
        /\ s \in Threads[v]
    BY DEF Create, Job
  <1>2. now \in Nat /\ StateOK(mem[v], now) /\ born \subseteq Session \cup Approval
    BY WorkerTypes DEF TypeInv
  <1>3. Head(jobs) = Job("create", s) /\ Head(jobs).do # "snapshot" /\ Stamps(Head(jobs))
    BY ShortTodos, Jobs DEF Stamps
  <1>4. now' = now + 1
    BY <1>1, <1>3, RunParts DEF Handler
  <1>5. StateOK(mem[v], now')
    BY <1>2, <1>4, LaterOK
  <1>6. Runs(mem[v], jobs, {}, ended \cup {}, s, s)
    BY DEF Runs
  <1>7. {} \subseteq Session \cup Approval /\ born' \subseteq Session \cup Approval
    BY <1>1, <1>2
  <1> HIDE DEF jobs
  <1>8. /\ TypeInv' /\ Handled(v, jobs, {})
        /\ \E k \in {s, s} : Made(mem'[v], mem[v], v, Head(jobs), k, now')
    BY <1>1, <1>3, <1>5, <1>6, <1>7, HandlerStep
  <1> QED BY <1>1, <1>3, <1>8 DEF jobs

\* A session is updated.
LEMMA UpdateStep ==
    ASSUME TypeInv, NEW v \in Inst, NEW s \in Session, Update(v, s)
    PROVE  /\ TypeInv' /\ Handled(v, <<Job("update", s)>>, {})
           /\ Made(mem'[v], mem[v], v, Job("update", s), s, now')
           /\ s \in Mine(v) /\ born' = born
  <1> DEFINE jobs == <<Job("update", s)>>
  <1>1. s \in Mine(v) /\ born' = born /\ Handler(v, jobs, mem[v], {})
    BY DEF Update, Job
  <1>2. now \in Nat /\ StateOK(mem[v], now) /\ born \subseteq Session \cup Approval
    BY WorkerTypes DEF TypeInv
  <1>3. Head(jobs) = Job("update", s) /\ Head(jobs).do # "snapshot" /\ Stamps(Head(jobs))
    BY ShortTodos, Jobs DEF Stamps
  <1>4. now' = now + 1
    BY <1>1, <1>3, RunParts DEF Handler
  <1>5. StateOK(mem[v], now')
    BY <1>2, <1>4, LaterOK
  <1>6. Runs(mem[v], jobs, {}, ended \cup {}, s, s)
    BY <1>1 DEF Runs, Mine
  <1>7. {} \subseteq Session \cup Approval /\ born' \subseteq Session \cup Approval
    BY <1>1, <1>2
  <1> HIDE DEF jobs
  <1>8. /\ TypeInv' /\ Handled(v, jobs, {})
        /\ \E k \in {s, s} : Made(mem'[v], mem[v], v, Head(jobs), k, now')
    BY <1>1, <1>3, <1>5, <1>6, <1>7, HandlerStep
  <1> QED BY <1>1, <1>3, <1>8 DEF jobs

\* A session is archived.
LEMMA ArchiveStep ==
    ASSUME TypeInv, NEW v \in Inst, NEW s \in Session, ArchiveSession(v, s)
    PROVE  /\ TypeInv' /\ Handled(v, <<Job("archive", s)>>, {})
           /\ Made(mem'[v], mem[v], v, Job("archive", s), s, now')
           /\ s \in Mine(v) /\ born' = born
  <1> DEFINE jobs == <<Job("archive", s)>>
  <1>1. s \in Mine(v) /\ born' = born /\ Handler(v, jobs, mem[v], {})
    BY DEF ArchiveSession, Job
  <1>2. now \in Nat /\ StateOK(mem[v], now) /\ born \subseteq Session \cup Approval
    BY WorkerTypes DEF TypeInv
  <1>3. Head(jobs) = Job("archive", s) /\ Head(jobs).do # "snapshot" /\ Stamps(Head(jobs))
    BY ShortTodos, Jobs DEF Stamps
  <1>4. now' = now + 1
    BY <1>1, <1>3, RunParts DEF Handler
  <1>5. StateOK(mem[v], now')
    BY <1>2, <1>4, LaterOK
  <1>6. Runs(mem[v], jobs, {}, ended \cup {}, s, s)
    BY <1>1 DEF Runs, Mine
  <1>7. {} \subseteq Session \cup Approval /\ born' \subseteq Session \cup Approval
    BY <1>1, <1>2
  <1> HIDE DEF jobs
  <1>8. /\ TypeInv' /\ Handled(v, jobs, {})
        /\ \E k \in {s, s} : Made(mem'[v], mem[v], v, Head(jobs), k, now')
    BY <1>1, <1>3, <1>5, <1>6, <1>7, HandlerStep
  <1> QED BY <1>1, <1>3, <1>8 DEF jobs

\* A session of a worker exists.
LEMMA MineBorn ==
    ASSUME TypeInv, NEW v \in Inst, NEW s \in Mine(v)
    PROVE  s \in Session /\ s \in DOMAIN mem[v].sessions
  <1>1. mem[v].sessions \in Tables(Session, RecordsTo(now))
    BY WorkerTypes DEF StateOK
  <1> QED BY <1>1, TableIs DEF Mine

\* A session is purged.
LEMMA PurgeStep ==
    ASSUME TypeInv, NEW v \in Inst, NEW s \in Session, PurgeArchived(v, s)
    PROVE  /\ TypeInv' /\ Handled(v, <<Job("purge", s), Sweep>>, {s})
           /\ Made(mem'[v], mem[v], v, Job("purge", s), s, now')
           /\ s \in Mine(v) /\ mem[v].sessions[s].archived /\ born' = born
  <1> DEFINE jobs == <<Job("purge", s), Sweep>>
  <1>1. /\ s \in Mine(v) /\ mem[v].sessions[s].archived /\ born' = born
        /\ Handler(v, jobs, mem[v], {s})
    BY DEF PurgeArchived, Job, Sweep
  <1>2. now \in Nat /\ StateOK(mem[v], now) /\ born \subseteq Session \cup Approval
    BY WorkerTypes DEF TypeInv
  <1>3. Head(jobs) = Job("purge", s) /\ Head(jobs).do # "snapshot" /\ ~Stamps(Head(jobs))
    BY ShortTodos, Jobs DEF Stamps
  <1>4. now' = now
    BY <1>1, <1>3, RunParts DEF Handler
  <1>5. StateOK(mem[v], now')
    BY <1>2, <1>4
  <1>6. Runs(mem[v], jobs, {s}, ended \cup {s}, s, s)
    BY DEF Runs
  <1>7. {s} \subseteq Session \cup Approval /\ born' \subseteq Session \cup Approval
    BY <1>1, <1>2
  <1> HIDE DEF jobs
  <1>8. /\ TypeInv' /\ Handled(v, jobs, {s})
        /\ \E k \in {s, s} : Made(mem'[v], mem[v], v, Head(jobs), k, now')
    BY <1>1, <1>3, <1>5, <1>6, <1>7, HandlerStep
  <1> QED BY <1>1, <1>3, <1>8 DEF jobs

\* A memory with an approval more.
Requested(st, a, s, t) ==
    With(st, st.sessions, Put(st.approvals, a, [session |-> s, at |-> t]))

\* An approval is asked for: its session is stamped first.
LEMMA RequestStep ==
    ASSUME TypeInv, NEW v \in Inst, NEW s \in Session, NEW a \in Approval,
           RequestApproval(v, a, s)
    PROVE  LET approval == [session |-> s, at |-> now']
               st == Requested(mem[v], a, s, now') IN
           /\ TypeInv' /\ Handled(v, <<Job("update", s), Asking(a, approval)>>, {})
           /\ st.sessions = mem[v].sessions /\ st.count = mem[v].count
           /\ st.approvals = Put(mem[v].approvals, a, approval)
           /\ Made(mem'[v], st, v, Job("update", s), s, now')
           /\ s \in Mine(v) /\ ~mem[v].sessions[s].archived
           /\ a \notin born /\ born' = born \cup {a} /\ now' = now + 1
  <1> DEFINE approval == [session |-> s, at |-> now + 1]
             jobs == <<Job("update", s), Asking(a, approval)>>
             asked == Put(mem[v].approvals, a, approval)
             st == With(mem[v], mem[v].sessions, asked)
  <1>0. IsReplay(mem[v])
    BY WorkerTypes
  <1>1. /\ s \in Mine(v) /\ ~mem[v].sessions[s].archived
        /\ a \notin born /\ born' = born \cup {a} /\ Handler(v, jobs, st, {})
    <2>1. [mem[v] EXCEPT !.approvals = asked] = st
      <3> HIDE DEF asked
      <3> QED BY <1>0, PartKept
    <2> QED BY <2>1 DEF RequestApproval, Job, Asking
  <1>2. now \in Nat /\ StateOK(mem[v], now) /\ born \subseteq Session \cup Approval
    BY WorkerTypes DEF TypeInv
  <1>3. Head(jobs) = Job("update", s) /\ Head(jobs).do # "snapshot" /\ Stamps(Head(jobs))
    BY ShortTodos, Jobs DEF Stamps
  <1>4. now' = now + 1
    BY <1>1, <1>3, RunParts DEF Handler
  <1>5. StateOK(st, now') /\ asked[a] = approval /\ a \in DOMAIN asked
    <2>1. StateOK(mem[v], now') /\ now' \in Nat
      BY <1>2, <1>4, LaterOK
    <2>2. /\ mem[v].sessions \in Tables(Session, RecordsTo(now'))
          /\ mem[v].approvals \in Tables(Approval, ApprovalsTo(now'))
      BY <2>1 DEF StateOK
    <2>3. approval \in ApprovalsTo(now')
      BY <1>2, <1>4 DEF ApprovalsTo
    <2>4. asked \in Tables(Approval, ApprovalsTo(now'))
      BY <2>2, <2>3, TablePut
    <2>5. asked[a] = approval /\ a \in DOMAIN asked
      BY DEF Put
    <2> HIDE DEF asked
    <2> QED BY <2>1, <2>2, <2>4, <2>5, PartsOK
  <1> HIDE DEF asked, approval
  <1>9. st.sessions = mem[v].sessions /\ st.approvals = asked /\ st.count = mem[v].count
    BY DEF With
  <1>6. Runs(st, jobs, {}, ended \cup {}, s, a)
    BY <1>1, <1>5, <1>9 DEF Runs, Mine
  <1>7. {} \subseteq Session \cup Approval /\ born' \subseteq Session \cup Approval
    BY <1>1, <1>2
  <1> HIDE DEF jobs, st
  <1>8. /\ TypeInv' /\ Handled(v, jobs, {})
        /\ \E k \in {s, a} : Made(mem'[v], st, v, Head(jobs), k, now')
    BY <1>1, <1>3, <1>5, <1>6, <1>7, HandlerStep
  <1>10. Made(mem'[v], st, v, Job("update", s), s, now')
    <2>1. PICK k \in {s, a} : Made(mem'[v], st, v, Job("update", s), k, now')
      BY <1>3, <1>8
    <2>2. Job("update", s) = Job("update", k)
      <3>1. \A m, n : /\ Job("update", s) # Job("create", m)
                      /\ Job("update", s) # Job("archive", m)
                      /\ Job("update", s) # Job("purge", m)
                      /\ Job("update", s) # Job("resolve", m)
                      /\ Job("update", s) # Asking(m, n) /\ Job("update", s) # Sweep
        BY Jobs
      <3> QED BY <2>1, <3>1 DEF Made
    <2>3. s = k
      <3>1. Job("update", s).id = s /\ Job("update", k).id = k
        BY DEF Job
      <3> QED BY <2>2, <3>1
    <2> QED BY <2>1, <2>3
  <1>11. st = Requested(mem[v], a, s, now') /\ approval = [session |-> s, at |-> now']
    BY <1>4 DEF st, asked, approval, Requested
  <1> QED BY <1>1, <1>4, <1>8, <1>9, <1>10, <1>11 DEF jobs, asked

\* An approval is resolved.
LEMMA ResolveStep ==
    ASSUME TypeInv, NEW v \in Inst, NEW a \in Approval, ResolveApproval(v, a)
    PROVE  LET s == mem[v].approvals[a].session IN
           /\ TypeInv' /\ Handled(v, <<Job("resolve", a), Job("update", s)>>, {a})
           /\ Made(mem'[v], mem[v], v, Job("resolve", a), a, now')
           /\ a \in DOMAIN mem[v].approvals /\ s \in Mine(v) /\ born' = born
  <1> DEFINE s == mem[v].approvals[a].session
             jobs == <<Job("resolve", a), Job("update", s)>>
  <1>1. /\ a \in DOMAIN mem[v].approvals /\ s \in Mine(v) /\ born' = born
        /\ Handler(v, jobs, mem[v], {a})
    BY DEF ResolveApproval, Job
  <1>2. now \in Nat /\ StateOK(mem[v], now) /\ born \subseteq Session \cup Approval
    BY WorkerTypes DEF TypeInv
  <1>3. Head(jobs) = Job("resolve", a) /\ Head(jobs).do # "snapshot" /\ ~Stamps(Head(jobs))
    BY ShortTodos, Jobs DEF Stamps
  <1>4. now' = now
    BY <1>1, <1>3, RunParts DEF Handler
  <1>5. StateOK(mem[v], now')
    BY <1>2, <1>4
  <1>6. Runs(mem[v], jobs, {a}, ended \cup {a}, s, a)
    BY <1>1 DEF Runs, Mine
  <1>7. {a} \subseteq Session \cup Approval /\ born' \subseteq Session \cup Approval
    BY <1>1, <1>2
  <1> HIDE DEF jobs, s
  <1>8. /\ TypeInv' /\ Handled(v, jobs, {a})
        /\ \E k \in {s, a} : Made(mem'[v], mem[v], v, Head(jobs), k, now')
    BY <1>1, <1>3, <1>5, <1>6, <1>7, HandlerStep
  <1>9. Made(mem'[v], mem[v], v, Job("resolve", a), a, now')
    <2>1. PICK k \in {s, a} : Made(mem'[v], mem[v], v, Job("resolve", a), k, now')
      BY <1>3, <1>8
    <2>2. Job("resolve", a) = Job("resolve", k)
      <3>1. \A m, n : /\ Job("resolve", a) # Job("create", m)
                      /\ Job("resolve", a) # Job("archive", m)
                      /\ Job("resolve", a) # Job("purge", m)
                      /\ Job("resolve", a) # Job("update", m)
                      /\ Job("resolve", a) # Asking(m, n) /\ Job("resolve", a) # Sweep
        BY Jobs
      <3> QED BY <2>1, <3>1 DEF Made
    <2>3. a = k
      <3>1. Job("resolve", a).id = a /\ Job("resolve", k).id = k
        BY DEF Job
      <3> QED BY <2>2, <3>1
    <2> QED BY <2>1, <2>3
  <1> QED BY <1>1, <1>8, <1>9 DEF jobs, s

-----------------------------------------------------------------------------
(* The types hold of every state.                                          *)

\* Nothing has been said yet, or one snapshot.
LEMMA FirstReplay ==
    ASSUME NEW t \in Nat, NEW m \in MessageTo(t), IsSnapshot(m)
    PROVE  /\ ReplayMessages(<<>>) = NoReplay
           /\ ReplayMessages(<<m>>) = FromSnapshot(m)
           /\ <<>> \in Seq(Message) /\ <<m>> \in Seq(Message)
  <1>1. m \in Message
    BY DEF Message
  <1>2. <<>> \in Seq(Message) /\ <<m>> = Append(<<>>, m)
    OBVIOUS
  <1>3. ReplayMessages(<<>>) = NoReplay
    BY ReplayNothing
  <1>4. ReplayMessages(Append(<<>>, m)) = FromSnapshot(m)
    BY <1>1, <1>2, ReplayAppend
  <1> QED BY <1>1, <1>2, <1>3, <1>4

\* A room with legacy sessions.
Old(old) == [kind |-> "snapshot", at |-> 0, approvals |-> Empty,
             sessions |-> [s \in old |-> Legacy]]
OldFile(old) == [writer |-> None, at |-> 0, approvals |-> Empty,
                 sessions |-> [s \in old |-> Legacy]]

\* Both are typed.
LEMMA OldTyped ==
    ASSUME NEW old \in SUBSET Session
    PROVE  /\ Old(old) \in MessageTo(0) /\ IsSnapshot(Old(old)) /\ FileOK(OldFile(old), 0)
           /\ [s \in old |-> Legacy] \in Tables(Session, RecordsTo(0))
  <1> DEFINE table == [s \in old |-> Legacy]
  <1>1. Legacy \in RecordsTo(0)
    BY DEF Legacy, RecordsTo
  <1>2. table \in Tables(Session, RecordsTo(0))
    <2>1. table \in [old -> RecordsTo(0)]
      BY <1>1
    <2> HIDE DEF table
    <2> QED BY <2>1 DEF Tables
  <1>3. Empty \in Tables(Approval, ApprovalsTo(0))
    BY TableEmpty
  <1> HIDE DEF table
  <1>4. [kind |-> "snapshot", at |-> 0, approvals |-> Empty, sessions |-> table] \in MessageTo(0)
    BY <1>2, <1>3 DEF MessageTo
  <1>5. FileOK([writer |-> None, at |-> 0, approvals |-> Empty, sessions |-> table], 0)
    BY <1>2, <1>3 DEF FileOK
  <1>6. IsSnapshot(Old(old))
    BY DEF Old, IsSnapshot
  <1> QED BY <1>2, <1>4, <1>5, <1>6 DEF Old, OldFile, table

\* What there is at first.
LEMMA FirstState ==
    ASSUME Init
    PROVE  \E old \in SUBSET Session :
             /\ \/ log = <<>> /\ old = {} /\ ReplayMessages(log) = NoReplay
                \/ log = <<Old(old)>> /\ ReplayMessages(log) = FromSnapshot(Old(old))
             /\ born = old
             /\ \A w \in Inst : /\ file[w] = None \/ file[w] = OldFile(old)
                                /\ mem[w] = NoReplay /\ work[w] = Off
             /\ log \in Seq(Message) /\ StateOK(ReplayMessages(log), 0)
  <1>1. PICK old \in SUBSET Session :
          /\ log = IF old = {} THEN <<>> ELSE <<Old(old)>>
          /\ born = old
          /\ file \in [Inst -> {None} \cup {OldFile(old)}]
    BY DEF Init, Old, OldFile
  <1>2. /\ Old(old) \in MessageTo(0) /\ IsSnapshot(Old(old))
    BY OldTyped
  <1>3. /\ ReplayMessages(<<>>) = NoReplay /\ ReplayMessages(<<Old(old)>>) = FromSnapshot(Old(old))
        /\ <<>> \in Seq(Message) /\ <<Old(old)>> \in Seq(Message)
    BY <1>2, FirstReplay
  <1>4. StateOK(NoReplay, 0) /\ StateOK(FromSnapshot(Old(old)), 0)
    BY <1>2, NothingOK, StepOK
  <1>5. \A w \in Inst : mem[w] = NoReplay /\ work[w] = Off
    BY DEF Init
  <1>6. \A w \in Inst : file[w] = None \/ file[w] = OldFile(old)
    BY <1>1
  <1>7. CASE old = {}
    BY <1>1, <1>3, <1>4, <1>5, <1>6, <1>7
  <1>8. CASE old # {}
    BY <1>1, <1>3, <1>4, <1>5, <1>6, <1>8
  <1> QED BY <1>7, <1>8

\* It is typed.
LEMMA InitTypes == Init => TypeInv
  <1> SUFFICES ASSUME Init PROVE TypeInv
    OBVIOUS
  <1>1. PICK old \in SUBSET Session :
          /\ born = old
          /\ \A w \in Inst : /\ file[w] = None \/ file[w] = OldFile(old)
                             /\ mem[w] = NoReplay /\ work[w] = Off
          /\ log \in Seq(Message) /\ StateOK(ReplayMessages(log), 0)
    BY FirstState
  <1>2. /\ plan \in Plans /\ now = 0 /\ ended = {} /\ settled = {}
        /\ mem = [w \in Inst |-> mem[w]] /\ work = [w \in Inst |-> work[w]]
        /\ file = [w \in Inst |-> file[w]] /\ starts \in [Inst -> Nat]
    BY DEF Init
  <1>3. ASSUME NEW w \in Inst PROVE WorkerOK(mem[w], work[w], file[w], 0, {})
    <2>1. StateOK(NoReplay, 0) /\ FileOK(file[w], 0)
      BY <1>1, NothingOK, OldTyped DEF FileOK
    <2>2. /\ Off = [pc |-> "down", todo |-> <<>>, at |-> 0, gone |-> {}]
      BY DEF Off
    <2>3. WorkerOK(NoReplay, Off, file[w], 0, {})
      BY <2>1, <2>2 DEF WorkerOK, InHand, Idle
    <2> QED BY <1>1, <2>3
  <1> QED BY <1>1, <1>2, <1>3 DEF TypeInv

\* Every step keeps the types.
LEMMA NextTypes == TypeInv /\ [Next]_vars => TypeInv'
  <1> SUFFICES ASSUME TypeInv, [Next]_vars PROVE TypeInv'
    OBVIOUS
  <1>1. CASE UNCHANGED vars
    <2>1. /\ plan' = plan /\ log' = log /\ now' = now /\ mem' = mem /\ work' = work
          /\ file' = file /\ born' = born /\ ended' = ended /\ settled' = settled
          /\ starts' = starts
      BY <1>1 DEF vars
    <2> QED BY <2>1 DEF TypeInv
  <1>2. CASE Next
    <2>1. PICK v \in Inst : WorkerNext(v)
      BY <1>2 DEF Next
    <2>2. CASE StartFromDataSpace(v) \/ StartFromFile(v)
      BY <2>2, DataSpaceStart, FileStart
    <2>3. CASE AppendEvent(v) \/ AppendSnapshot(v) \/ WriteLocal(v)
      BY <2>3, EventStep, SnapshotStep, LocalStep
    <2>4. CASE FailLocal(v) \/ Stop(v) \/ Crash(v)
      BY <2>4, EndStep
    <2>5. ASSUME NEW s \in Session, Create(v, s) \/ Update(v, s) \/ ArchiveSession(v, s)
                                    \/ PurgeArchived(v, s)
          PROVE  TypeInv'
      BY <2>5, CreateStep, UpdateStep, ArchiveStep, PurgeStep
    <2>6. ASSUME NEW s \in Session, NEW a \in Approval,
                 RequestApproval(v, a, s) \/ ResolveApproval(v, a)
          PROVE  TypeInv'
      BY <2>6, RequestStep, ResolveStep
    <2>7. ASSUME NEW a \in Approval, ResolveApproval(v, a) PROVE TypeInv'
      BY <2>7, ResolveStep
    <2> QED BY <2>1, <2>2, <2>3, <2>4, <2>5, <2>6, <2>7 DEF WorkerNext
  <1> QED BY <1>1, <1>2

-----------------------------------------------------------------------------
(* What was told, next to what is remembered of it.                        *)

\* Sessions the Data Space has had a record of.
Heard == {s \in Session : LoggedBefore(s, Len(log) + 1)}

\* A log may be typed, and a message more tells what it says.
LEMMA HistoryGrows ==
    ASSUME log \in Seq(Message), NEW m \in Message, log' = Append(log, m)
    PROVE  /\ \A kind : Logged(kind)' = Logged(kind) \cup (IF m.kind = kind THEN {m.id} ELSE {})
           /\ Heard' = Heard \cup (IF m.kind \in {"created", "updated"} THEN {m.id}
                                   ELSE IF m.kind = "snapshot" THEN DOMAIN m.sessions ELSE {})
           /\ ArchivedKnown' = ArchivedKnown \cup
                (IF m.kind = "archived" /\ m.id \in Heard THEN {m.id} ELSE {})
           /\ ArchivedKnown \subseteq Heard
  <1>0. PICK n \in Nat : n = Len(log)
    OBVIOUS
  <1>1. /\ n = Len(log) /\ DOMAIN log = 1..n /\ DOMAIN log' = 1..(n + 1) /\ Len(log') = n + 1
        /\ log'[n + 1] = m /\ \A i \in 1..n : log'[i] = log[i]
    BY <1>0
  <1>2. /\ m.kind \in {"created", "updated", "archived"} => m.id \in Session
        /\ m.kind = "snapshot" => DOMAIN m.sessions \subseteq Session
    <2>1. PICK t \in Nat : m \in MessageTo(t)
      BY DEF Message
    <2>2. m.kind = "snapshot" => m.sessions \in Tables(Session, RecordsTo(t))
      BY <2>1 DEF MessageTo
    <2>3. m.kind = "snapshot" => DOMAIN m.sessions \subseteq Session
      BY <2>2, TableIs
    <2> QED BY <2>1, <2>3 DEF MessageTo
  <1>3. ASSUME NEW kind
        PROVE  Logged(kind)' = Logged(kind) \cup (IF m.kind = kind THEN {m.id} ELSE {})
    <2>1. Logged(kind)' = {log'[i].id : i \in {j \in 1..(n + 1) : log'[j].kind = kind}}
      BY <1>1 DEF Logged
    <2>2. Logged(kind) = {log[i].id : i \in {j \in 1..n : log[j].kind = kind}}
      BY <1>1 DEF Logged
    <2>3. {j \in 1..(n + 1) : log'[j].kind = kind} =
            {j \in 1..n : log[j].kind = kind} \cup (IF m.kind = kind THEN {n + 1} ELSE {})
      BY <1>1
    <2>4. n + 1 \in 1..(n + 1) /\ n + 1 \notin 1..n
      BY <1>1
    <2> QED BY <1>1, <2>1, <2>2, <2>3, <2>4
  <1>4. \A s, j : j \in 1..(n + 1) => (LoggedBefore(s, j)' <=> LoggedBefore(s, j))
    <2>1. ASSUME NEW s, NEW j \in 1..(n + 1)
          PROVE  LoggedBefore(s, j)' <=> LoggedBefore(s, j)
      <3>1. \A i \in 1..(j - 1) : log'[i] = log[i]
        BY <1>1
      <3> QED BY <3>1 DEF LoggedBefore
    <2> QED BY <2>1
  <1>5. \A s : LoggedBefore(s, n + 2)' <=>
                 \/ LoggedBefore(s, n + 1)
                 \/ m.kind \in {"created", "updated"} /\ m.id = s
                 \/ m.kind = "snapshot" /\ s \in DOMAIN m.sessions
    <2>1. 1..(n + 2 - 1) = 1..(n + 1 - 1) \cup {n + 1} /\ 1..(n + 1 - 1) = 1..n
      BY <1>1
    <2> QED BY <1>1, <2>1 DEF LoggedBefore
  <1>6. Heard' = Heard \cup (IF m.kind \in {"created", "updated"} THEN {m.id}
                             ELSE IF m.kind = "snapshot" THEN DOMAIN m.sessions ELSE {})
    <2>1. Heard' = {s \in Session : LoggedBefore(s, n + 2)'}
      <3>1. Len(log') + 1 = n + 2
        BY <1>1
      <3> QED BY <3>1 DEF Heard, LoggedBefore
    <2>2. Heard = {s \in Session : LoggedBefore(s, n + 1)}
      BY <1>1 DEF Heard
    <2> QED BY <1>2, <1>5, <2>1, <2>2
  <1>7. ASSUME NEW s \in Session
        PROVE  s \in ArchivedKnown' <=> \/ s \in ArchivedKnown
                                        \/ m.kind = "archived" /\ m.id = s /\ s \in Heard
    <2>1. s \in ArchivedKnown <=> \E j \in 1..n : /\ log[j].kind = "archived" /\ log[j].id = s
                                                  /\ LoggedBefore(s, j)
      BY <1>1 DEF ArchivedKnown
    <2>2. s \in ArchivedKnown' <=>
            \E j \in 1..(n + 1) : /\ log'[j].kind = "archived" /\ log'[j].id = s
                                  /\ LoggedBefore(s, j)'
      BY <1>1 DEF ArchivedKnown
    <2>3. s \in Heard <=> LoggedBefore(s, n + 1)
      BY <1>1 DEF Heard
    <2>4. 1..(n + 1) = 1..n \cup {n + 1}
      BY <1>1
    <2> QED BY <1>1, <1>4, <2>1, <2>2, <2>3, <2>4
  <1>8. ArchivedKnown' \subseteq Session /\ ArchivedKnown \subseteq Session
    BY DEF ArchivedKnown
  <1>9. ArchivedKnown \subseteq Heard
    <2>1. ASSUME NEW s \in ArchivedKnown PROVE s \in Heard
      <3>1. PICK j \in 1..n : LoggedBefore(s, j) /\ s \in Session
        BY <1>1 DEF ArchivedKnown
      <3>2. 1..(j - 1) \subseteq 1..(n + 1 - 1)
        BY <1>1
      <3> QED BY <1>1, <3>1, <3>2 DEF Heard, LoggedBefore
    <2> QED BY <2>1
  <1>10. ArchivedKnown' = ArchivedKnown \cup
                (IF m.kind = "archived" /\ m.id \in Heard THEN {m.id} ELSE {})
    <2> QED BY <1>2, <1>7, <1>8
  <1> QED BY <1>3, <1>6, <1>9, <1>10

\* What the Data Space gives back.
Recalled == ReplayMessages(log)

\* What an event of a worker with st in memory makes of a replay.
Folded(new, old, st, job, k, gone) ==
    /\ new.snapAt = old.snapAt /\ new.count = old.count + 1
    /\ \A s \in DOMAIN old.sessions :
         s # k => s \in DOMAIN new.sessions /\ new.sessions[s] = old.sessions[s]
    /\ \A s \in DOMAIN new.sessions : s # k => s \in DOMAIN old.sessions
    /\ \/ /\ job = Job("create", k) \/ job = Job("update", k)
          /\ k \in Session /\ k \in DOMAIN st.sessions
          /\ k \in DOMAIN new.sessions /\ new.sessions[k] = st.sessions[k]
          /\ new.approvals = old.approvals /\ new.archivedIds = old.archivedIds
          /\ new.purgedIds = old.purgedIds /\ new.resolvedIds = old.resolvedIds
       \/ /\ job = Job("archive", k)
          /\ k \in Session /\ k \in DOMAIN st.sessions /\ st.sessions[k].archived
          /\ k \in DOMAIN new.sessions <=> k \in DOMAIN old.sessions
          /\ k \in DOMAIN old.sessions =>
               new.sessions[k] = [old.sessions[k] EXCEPT !.archived = TRUE]
          /\ new.approvals = Drop(old.approvals, ApprovalsOf(old.approvals, k))
          /\ new.archivedIds = old.archivedIds \cup {k}
          /\ new.purgedIds = old.purgedIds /\ new.resolvedIds = old.resolvedIds
       \/ /\ job = Job("purge", k) /\ gone = {k}
          /\ k \in Session /\ k \notin DOMAIN st.sessions /\ k \notin DOMAIN new.sessions
          /\ new.approvals = Drop(old.approvals, ApprovalsOf(old.approvals, k))
          /\ new.archivedIds = old.archivedIds \ {k}
          /\ new.purgedIds = old.purgedIds \cup {k} /\ new.resolvedIds = old.resolvedIds
       \/ /\ job = Job("resolve", k) /\ gone = {k}
          /\ k \in Approval /\ k \notin DOMAIN st.approvals /\ new.sessions = old.sessions
          /\ new.approvals = Drop(old.approvals, {k})
          /\ new.archivedIds = old.archivedIds /\ new.purgedIds = old.purgedIds
          /\ new.resolvedIds = old.resolvedIds \cup {k}
       \/ /\ job = Asking(k, st.approvals[k])
          /\ k \in Approval /\ k \in DOMAIN st.approvals /\ new.sessions = old.sessions
          /\ new.approvals = Put(old.approvals, k, st.approvals[k])
          /\ new.archivedIds = old.archivedIds /\ new.purgedIds = old.purgedIds
          /\ new.resolvedIds = old.resolvedIds

\* What the log tells after it.
Tells(job, k) ==
    /\ Heard' = Heard \cup (IF job.do \in {"create", "update"} THEN {k} ELSE {})
    /\ ArchivedKnown' = ArchivedKnown \cup
         (IF job.do = "archive" /\ k \in Heard THEN {k} ELSE {})
    /\ Logged("archived")' = Logged("archived") \cup (IF job.do = "archive" THEN {k} ELSE {})
    /\ Logged("purged")' = Logged("purged") \cup (IF job.do = "purge" THEN {k} ELSE {})
    /\ Logged("resolved")' = Logged("resolved") \cup (IF job.do = "resolve" THEN {k} ELSE {})

\* The tags of the events.
LEMMA SaysWhat ==
    ASSUME NEW st, NEW wk, NEW k, Saying(st, wk, k)
    PROVE  LET job == Head(wk.todo)  m == Event(st, job) IN
           /\ m.id = k
           /\ m.kind \in {"created", "updated"} <=> job.do \in {"create", "update"}
           /\ m.kind = "archived" <=> job.do = "archive"
           /\ m.kind = "purged" <=> job.do = "purge"
           /\ m.kind = "requested" <=> job.do = "request"
           /\ m.kind = "resolved" <=> job.do = "resolve"
           /\ m.kind # "snapshot"
           /\ job.do \in {"create", "update"} => m.session = st.sessions[k]
           /\ job.do = "request" => m.approval = st.approvals[k]
  <1> DEFINE job == Head(wk.todo)  m == Event(st, job)
             good ==
               /\ m.id = k
               /\ m.kind \in {"created", "updated"} <=> job.do \in {"create", "update"}
               /\ m.kind = "archived" <=> job.do = "archive"
               /\ m.kind = "purged" <=> job.do = "purge"
               /\ m.kind = "requested" <=> job.do = "request"
               /\ m.kind = "resolved" <=> job.do = "resolve"
               /\ m.kind # "snapshot"
               /\ job.do \in {"create", "update"} => m.session = st.sessions[k]
               /\ job.do = "request" => m.approval = st.approvals[k]
  <1>1. \/ job.do \in {"create", "update"}
           /\ m \in [kind : {IF job.do = "create" THEN "created" ELSE "updated"},
                     id : {k}, session : {st.sessions[k]}]
        \/ job.do = "archive" /\ m = [kind |-> "archived", id |-> k]
        \/ job.do = "purge" /\ m = [kind |-> "purged", id |-> k]
        \/ job.do = "resolve" /\ m = [kind |-> "resolved", id |-> k]
        \/ job.do = "request" /\ m = [kind |-> "requested", id |-> k,
                                      approval |-> st.approvals[k]]
    <2>1. /\ Job("create", k).do = "create" /\ Job("update", k).do = "update"
          /\ Job("archive", k).do = "archive" /\ Job("purge", k).do = "purge"
          /\ Job("resolve", k).do = "resolve"
          /\ Asking(k, st.approvals[k]).do = "request"
      BY Jobs
    <2> QED BY <2>1 DEF Saying
  <1> HIDE DEF m, job
  <1>2. good
    BY <1>1
  <1> QED BY <1>2 DEF m, job

\* What an event makes of a replay.
LEMMA FoldedStep ==
    ASSUME NEW t \in Nat, NEW st, StateOK(st, t), NEW old, StateOK(old, t), NEW wk, NEW k,
           Saying(st, wk, k)
    PROVE  LET job == Head(wk.todo) IN
           Folded(StepReplay(old, Event(st, job)), old, st, job, k, wk.gone)
  <1> DEFINE job == Head(wk.todo)  m == Event(st, job)  new == StepReplay(old, m)
  <1>3. StateOK(st, t) /\ StateOK(old, t)
    OBVIOUS
  <1>4. IsEvent(m)
    BY SayingTyped
  <1>5. IsReplay(old)
    BY DEF StateOK
  <1>6. /\ m.id = k
        /\ m.kind \in {"created", "updated"} <=> job.do \in {"create", "update"}
        /\ m.kind = "archived" <=> job.do = "archive"
        /\ m.kind = "purged" <=> job.do = "purge"
        /\ m.kind = "requested" <=> job.do = "request"
        /\ m.kind = "resolved" <=> job.do = "resolve"
        /\ m.kind # "snapshot"
        /\ job.do \in {"create", "update"} => m.session = st.sessions[k]
        /\ job.do = "request" => m.approval = st.approvals[k]
    BY SaysWhat
  <1>8. /\ new.sessions =
             IF m.kind \in {"created", "updated"} THEN Put(old.sessions, m.id, m.session)
             ELSE IF m.kind = "archived" THEN Flagged(old.sessions, m.id)
             ELSE IF m.kind = "purged" THEN Drop(old.sessions, {m.id})
             ELSE old.sessions
    <2>1. StepReplay(old, m).sessions =
             IF m.kind \in {"created", "updated"} THEN Put(old.sessions, m.id, m.session)
             ELSE IF m.kind = "archived" THEN Flagged(old.sessions, m.id)
             ELSE IF m.kind = "purged" THEN Drop(old.sessions, {m.id})
             ELSE old.sessions
      BY <1>5, StepSessions
    <2> QED BY <2>1
  <1>9. /\ new.approvals =
             IF m.kind = "requested" THEN Put(old.approvals, m.id, m.approval)
             ELSE IF m.kind \in {"archived", "purged"}
                  THEN Drop(old.approvals, ApprovalsOf(old.approvals, m.id))
             ELSE IF m.kind = "resolved" THEN Drop(old.approvals, {m.id})
             ELSE old.approvals
    <2>1. StepReplay(old, m).approvals =
             IF m.kind = "requested" THEN Put(old.approvals, m.id, m.approval)
             ELSE IF m.kind \in {"archived", "purged"}
                  THEN Drop(old.approvals, ApprovalsOf(old.approvals, m.id))
             ELSE IF m.kind = "resolved" THEN Drop(old.approvals, {m.id})
             ELSE old.approvals
      BY <1>5, StepApprovals
    <2> QED BY <2>1
  <1>10. /\ new.archivedIds = IF m.kind = "archived" THEN old.archivedIds \cup {m.id}
                              ELSE IF m.kind = "purged" THEN old.archivedIds \ {m.id}
                              ELSE old.archivedIds
         /\ new.purgedIds = IF m.kind = "purged" THEN old.purgedIds \cup {m.id}
                            ELSE old.purgedIds
         /\ new.resolvedIds = IF m.kind = "resolved" THEN old.resolvedIds \cup {m.id}
                              ELSE old.resolvedIds
         /\ new.count = old.count + 1 /\ new.snapAt = old.snapAt
    <2> DEFINE next == StepReplay(old, m)
    <2>1. /\ next.archivedIds = IF m.kind = "archived" THEN old.archivedIds \cup {m.id}
                                ELSE IF m.kind = "purged" THEN old.archivedIds \ {m.id}
                                ELSE old.archivedIds
          /\ next.purgedIds = IF m.kind = "purged" THEN old.purgedIds \cup {m.id}
                              ELSE old.purgedIds
          /\ next.resolvedIds = IF m.kind = "resolved" THEN old.resolvedIds \cup {m.id}
                                ELSE old.resolvedIds
          /\ next.count = IF IsEvent(m) THEN old.count + 1 ELSE old.count
          /\ next.snapAt = old.snapAt
      BY <1>5, StepTold
    <2>2. new = next
      OBVIOUS
    <2> HIDE DEF m, job, new, next
    <2> QED BY <1>4, <2>1, <2>2
  <1>11. k \in DOMAIN st.sessions => k \in Session
    <2>1. st.sessions \in Tables(Session, RecordsTo(t))
      BY <1>3 DEF StateOK
    <2> QED BY <2>1, TableIs
  <1>12. k \in DOMAIN st.approvals => k \in Approval
    <2>1. st.approvals \in Tables(Approval, ApprovalsTo(t))
      BY <1>3 DEF StateOK
    <2> QED BY <2>1, TableIs
  <1>13. \/ job = Job("create", k) /\ job.do = "create" /\ k \in DOMAIN st.sessions
         \/ job = Job("update", k) /\ job.do = "update" /\ k \in DOMAIN st.sessions
         \/ job = Job("archive", k) /\ job.do = "archive" /\ k \in DOMAIN st.sessions
            /\ st.sessions[k].archived
         \/ job = Job("purge", k) /\ job.do = "purge" /\ k \in Session \ DOMAIN st.sessions
            /\ wk.gone = {k}
         \/ job = Job("resolve", k) /\ job.do = "resolve" /\ k \in Approval \ DOMAIN st.approvals
            /\ wk.gone = {k}
         \/ job = Asking(k, st.approvals[k]) /\ job.do = "request" /\ k \in DOMAIN st.approvals
    <2>1. /\ Job("create", k).do = "create" /\ Job("update", k).do = "update"
          /\ Job("archive", k).do = "archive" /\ Job("purge", k).do = "purge"
          /\ Job("resolve", k).do = "resolve"
          /\ Asking(k, st.approvals[k]).do = "request"
      BY Jobs
    <2> HIDE DEF m
    <2> QED BY <2>1 DEF Saying
  <1> DEFINE gone == wk.gone
  <1> HIDE DEF m, job, new, gone
  <1>14. ASSUME job \in {Job("create", k), Job("update", k)}, job.do \in {"create", "update"},
                k \in DOMAIN st.sessions
         PROVE  Folded(new, old, st, job, k, gone)
    <2>1. /\ new.sessions = Put(old.sessions, k, st.sessions[k])
          /\ new.approvals = old.approvals /\ new.archivedIds = old.archivedIds
          /\ new.purgedIds = old.purgedIds /\ new.resolvedIds = old.resolvedIds
      BY <1>6, <1>8, <1>9, <1>10, <1>14
    <2>2. /\ DOMAIN new.sessions = DOMAIN old.sessions \cup {k}
          /\ new.sessions[k] = st.sessions[k]
          /\ \A s \in DOMAIN old.sessions : s # k => new.sessions[s] = old.sessions[s]
      BY <2>1 DEF Put
    <2> QED BY <1>10, <1>11, <1>14, <2>1, <2>2 DEF Folded
  <1>15. ASSUME job = Job("archive", k), job.do = "archive", k \in DOMAIN st.sessions,
                st.sessions[k].archived
         PROVE  Folded(new, old, st, job, k, gone)
    <2>1. /\ new.sessions = Flagged(old.sessions, k)
          /\ new.approvals = Drop(old.approvals, ApprovalsOf(old.approvals, k))
          /\ new.archivedIds = old.archivedIds \cup {k}
          /\ new.purgedIds = old.purgedIds /\ new.resolvedIds = old.resolvedIds
      BY <1>6, <1>8, <1>9, <1>10, <1>15
    <2>2. /\ DOMAIN new.sessions = DOMAIN old.sessions
          /\ k \in DOMAIN old.sessions =>
               new.sessions[k] = [old.sessions[k] EXCEPT !.archived = TRUE]
          /\ \A s \in DOMAIN old.sessions : s # k => new.sessions[s] = old.sessions[s]
      BY <2>1 DEF Flagged
    <2> QED BY <1>10, <1>11, <1>15, <2>1, <2>2 DEF Folded
  <1>16. ASSUME job = Job("purge", k), job.do = "purge", k \in Session \ DOMAIN st.sessions,
                gone = {k}
         PROVE  Folded(new, old, st, job, k, gone)
    <2>1. /\ new.sessions = Drop(old.sessions, {k})
          /\ new.approvals = Drop(old.approvals, ApprovalsOf(old.approvals, k))
          /\ new.archivedIds = old.archivedIds \ {k}
          /\ new.purgedIds = old.purgedIds \cup {k} /\ new.resolvedIds = old.resolvedIds
      BY <1>6, <1>8, <1>9, <1>10, <1>16
    <2>2. /\ DOMAIN new.sessions = DOMAIN old.sessions \ {k}
          /\ \A s \in DOMAIN old.sessions : s # k => new.sessions[s] = old.sessions[s]
      BY <2>1 DEF Drop, Restrict
    <2> QED BY <1>10, <1>16, <2>1, <2>2 DEF Folded
  <1>17. ASSUME job = Job("resolve", k), job.do = "resolve",
                k \in Approval \ DOMAIN st.approvals, gone = {k}
         PROVE  Folded(new, old, st, job, k, gone)
    <2>1. /\ new.sessions = old.sessions
          /\ new.approvals = Drop(old.approvals, {k})
          /\ new.archivedIds = old.archivedIds /\ new.purgedIds = old.purgedIds
          /\ new.resolvedIds = old.resolvedIds \cup {k}
      BY <1>6, <1>8, <1>9, <1>10, <1>17
    <2> QED BY <1>10, <1>17, <2>1 DEF Folded
  <1>18. ASSUME job = Asking(k, st.approvals[k]), job.do = "request", k \in DOMAIN st.approvals
         PROVE  Folded(new, old, st, job, k, gone)
    <2>1. /\ new.sessions = old.sessions
          /\ new.approvals = Put(old.approvals, k, st.approvals[k])
          /\ new.archivedIds = old.archivedIds /\ new.purgedIds = old.purgedIds
          /\ new.resolvedIds = old.resolvedIds
      BY <1>6, <1>8, <1>9, <1>10, <1>18
    <2> QED BY <1>10, <1>12, <1>18, <2>1 DEF Folded
  <1>19. Folded(new, old, st, job, k, gone)
    BY <1>13, <1>14, <1>15, <1>16, <1>17, <1>18 DEF gone
  <1> QED BY <1>19 DEF new, job, gone, m

\* An event, in full.
LEMMA EventMeans ==
    ASSUME TypeInv, NEW v \in Inst, AppendEvent(v)
    PROVE  \/ "append" \in plan.faults /\ log' = log
           \/ \E k : LET job == Head(work[v].todo) IN
                /\ Folded(Recalled', Recalled, mem[v], job, k, work[v].gone)
                /\ Tells(job, k)
  <1> DEFINE st == mem[v]  wk == work[v]  job == Head(wk.todo)  m == Event(st, job)
  <1>1. SUFFICES ASSUME ~("append" \in plan.faults /\ log' = log)
                 PROVE  \E k : Folded(Recalled', Recalled, st, job, k, wk.gone) /\ Tells(job, k)
    OBVIOUS
  <1>2. PICK k : /\ Saying(st, wk, k) /\ m \in MessageTo(now) /\ log' = Append(log, m)
                 /\ ReplayMessages(log') = StepReplay(ReplayMessages(log), m)
    BY <1>1, EventStep
  <1>3. now \in Nat /\ StateOK(st, now) /\ StateOK(Recalled, now) /\ log \in Seq(Message)
    BY WorkerTypes DEF Recalled
  <1>4. m \in Message /\ IsEvent(m)
    BY <1>2, <1>3, SayingTyped DEF Message
  <1>6. /\ m.id = k
        /\ m.kind \in {"created", "updated"} <=> job.do \in {"create", "update"}
        /\ m.kind = "archived" <=> job.do = "archive"
        /\ m.kind = "purged" <=> job.do = "purge"
        /\ m.kind = "requested" <=> job.do = "request"
        /\ m.kind = "resolved" <=> job.do = "resolve"
        /\ m.kind # "snapshot"
        /\ job.do \in {"create", "update"} => m.session = st.sessions[k]
        /\ job.do = "request" => m.approval = st.approvals[k]
    BY <1>2, SaysWhat
  <1>7. Tells(job, k)
    <2>1. /\ \A kind : Logged(kind)' = Logged(kind) \cup (IF m.kind = kind THEN {m.id} ELSE {})
          /\ Heard' = Heard \cup (IF m.kind \in {"created", "updated"} THEN {m.id}
                                  ELSE IF m.kind = "snapshot" THEN DOMAIN m.sessions ELSE {})
          /\ ArchivedKnown' = ArchivedKnown \cup
               (IF m.kind = "archived" /\ m.id \in Heard THEN {m.id} ELSE {})
      BY <1>2, <1>3, <1>4, HistoryGrows
    <2>2. /\ Logged("archived")' = Logged("archived") \cup
               (IF m.kind = "archived" THEN {m.id} ELSE {})
          /\ Logged("purged")' = Logged("purged") \cup
               (IF m.kind = "purged" THEN {m.id} ELSE {})
          /\ Logged("resolved")' = Logged("resolved") \cup
               (IF m.kind = "resolved" THEN {m.id} ELSE {})
      BY <2>1
    <2> HIDE DEF m, job
    <2> QED BY <1>6, <2>1, <2>2 DEF Tells
  <1>8. Folded(Recalled', Recalled, st, job, k, wk.gone)
    BY <1>2, <1>3, FoldedStep DEF Recalled
  <1> QED BY <1>7, <1>8

\* A worker makes a job, of st: its memory, with an approval more at a request.
Making(v, st, job, k) ==
    /\ Made(mem'[v], st, v, job, k, now')
    /\ work'[v].pc = IF job.do = "snapshot" THEN "snapshot" ELSE "append"
    /\ work'[v].todo # <<>> /\ Head(work'[v].todo) = job
    /\ st.sessions = mem[v].sessions /\ st.count = mem[v].count
    /\ \/ st.approvals = mem[v].approvals
       \/ \E a \in Approval \ born : \E x :
            /\ st.approvals = Put(mem[v].approvals, a, x) /\ born' = born \cup {a}
            /\ job = Job("update", k) /\ work'[v].todo = <<job, Asking(a, x)>>
    /\ job.do = "create" => k \notin born /\ born' = born \cup {k}
    /\ job.do = "purge" => k \in DOMAIN mem[v].sessions
    /\ job.do = "resolve" => k \in DOMAIN mem[v].approvals
    /\ Stamps(job) => now' = now + 1
    /\ born \subseteq born' /\ plan' = plan /\ log' = log

AHandler(v) ==
    \/ \E s \in Session : \/ Create(v, s) \/ Update(v, s) \/ ArchiveSession(v, s)
                          \/ PurgeArchived(v, s)
                          \/ \E a \in Approval : RequestApproval(v, a, s)
    \/ \E a \in Approval : ResolveApproval(v, a)

\* What a handler does.
HandlerMakes(v, st, job, k) ==
    /\ Making(v, st, job, k) /\ file' = file /\ settled' = settled /\ work[v].pc = "idle"
    /\ work'[v].gone = (IF job.do \in {"purge", "resolve"} THEN {k} ELSE {})
    /\ ended' = ended \cup work'[v].gone
    /\ job.do \notin {"snapshot", "request"}
    /\ now' = IF Stamps(job) THEN now + 1 ELSE now

\* Every handler does.
LEMMA HandlerMeans ==
    ASSUME TypeInv, NEW v \in Inst, AHandler(v)
    PROVE  \E st, job, k : HandlerMakes(v, st, job, k)
  <1>1. ASSUME NEW s \in Session, Create(v, s)
        PROVE  HandlerMakes(v, mem[v], Job("create", s), s)
    <2>1. /\ Handled(v, <<Job("create", s), Job("update", s)>>, {})
          /\ Made(mem'[v], mem[v], v, Job("create", s), s, now')
          /\ s \notin born /\ born' = born \cup {s}
      BY <1>1, CreateStep
    <2> QED BY <2>1, ShortTodos, Jobs DEF Handled, HandlerMakes, Making
  <1>2. ASSUME NEW s \in Session, Update(v, s)
        PROVE  HandlerMakes(v, mem[v], Job("update", s), s)
    <2>1. /\ Handled(v, <<Job("update", s)>>, {})
          /\ Made(mem'[v], mem[v], v, Job("update", s), s, now') /\ born' = born
      BY <1>2, UpdateStep
    <2> QED BY <2>1, ShortTodos, Jobs DEF Handled, HandlerMakes, Making
  <1>3. ASSUME NEW s \in Session, ArchiveSession(v, s)
        PROVE  HandlerMakes(v, mem[v], Job("archive", s), s)
    <2>1. /\ Handled(v, <<Job("archive", s)>>, {})
          /\ Made(mem'[v], mem[v], v, Job("archive", s), s, now') /\ born' = born
      BY <1>3, ArchiveStep
    <2> QED BY <2>1, ShortTodos, Jobs DEF Handled, HandlerMakes, Making
  <1>4. ASSUME NEW s \in Session, PurgeArchived(v, s)
        PROVE  HandlerMakes(v, mem[v], Job("purge", s), s)
    <2>1. /\ Handled(v, <<Job("purge", s), Sweep>>, {s})
          /\ Made(mem'[v], mem[v], v, Job("purge", s), s, now') /\ born' = born
          /\ s \in Mine(v)
      BY <1>4, PurgeStep
    <2>2. s \in DOMAIN mem[v].sessions
      BY <2>1, MineBorn
    <2> QED BY <2>1, <2>2, ShortTodos, Jobs DEF Handled, HandlerMakes, Making
  <1>5. ASSUME NEW a \in Approval, ResolveApproval(v, a)
        PROVE  HandlerMakes(v, mem[v], Job("resolve", a), a)
    <2> DEFINE s == mem[v].approvals[a].session
    <2>1. /\ Handled(v, <<Job("resolve", a), Job("update", s)>>, {a})
          /\ Made(mem'[v], mem[v], v, Job("resolve", a), a, now')
          /\ a \in DOMAIN mem[v].approvals /\ born' = born
      BY <1>5, ResolveStep
    <2> HIDE DEF s
    <2> QED BY <2>1, ShortTodos, Jobs DEF Handled, HandlerMakes, Making
  <1>6. ASSUME NEW a \in Approval, NEW s \in Session, RequestApproval(v, a, s)
        PROVE  HandlerMakes(v, Requested(mem[v], a, s, now'), Job("update", s), s)
    <2> DEFINE x == [session |-> s, at |-> now']  st == Requested(mem[v], a, s, now')
    <2>1. /\ Handled(v, <<Job("update", s), Asking(a, x)>>, {})
          /\ st.sessions = mem[v].sessions /\ st.count = mem[v].count
          /\ st.approvals = Put(mem[v].approvals, a, x)
          /\ Made(mem'[v], st, v, Job("update", s), s, now')
          /\ a \notin born /\ born' = born \cup {a} /\ now' = now + 1
      BY <1>6, RequestStep
    <2> HIDE DEF x, st
    <2>2. \E b \in Approval \ born : \E y :
            /\ st.approvals = Put(mem[v].approvals, b, y) /\ born' = born \cup {b}
            /\ work'[v].todo = <<Job("update", s), Asking(b, y)>>
      BY <2>1 DEF Handled
    <2>3. HandlerMakes(v, st, Job("update", s), s)
      BY <2>1, <2>2, ShortTodos, Jobs DEF Handled, HandlerMakes, Making
    <2> QED BY <2>3 DEF st
  <1> QED BY <1>1, <1>2, <1>3, <1>4, <1>5, <1>6 DEF AHandler

\* What a job does that follows another, whose file was written.
LEMMA LocalMeans ==
    ASSUME TypeInv, NEW v \in Inst, WriteLocal(v), work'[v].pc # "idle"
    PROVE  /\ \E job, k : Making(v, mem[v], job, k) /\ job.do \in {"update", "request", "snapshot"}
           /\ work'[v].gone = work[v].gone
           /\ work[v].todo # <<>> /\ work'[v].todo = Tail(work[v].todo)
  <1>1. /\ UNCHANGED <<plan, log, born, ended, starts>>
        /\ LET job == Head(work'[v].todo) IN
                 /\ \E k : /\ Made(mem'[v], mem[v], v, job, k, now')
                           /\ job = Job("update", k) \/ job = Asking(k, mem[v].approvals[k])
                              \/ job = Sweep
                 /\ now' = IF Stamps(job) THEN now + 1 ELSE now
                 /\ work[v].todo # <<>> /\ work'[v].todo = Tail(work[v].todo)
                 /\ work'[v].todo # <<>>
                 /\ work'[v] = [pc |-> IF job.do = "snapshot" THEN "snapshot" ELSE "append",
                                todo |-> work'[v].todo, at |-> now', gone |-> work[v].gone]
    <2>1. ~(work'[v] = [pc |-> "idle", todo |-> <<>>, at |-> 0, gone |-> {}])
      OBVIOUS
    <2> QED BY <2>1, LocalStep
  <1> DEFINE job == Head(work'[v].todo)
  <1>2. PICK k : /\ Made(mem'[v], mem[v], v, job, k, now')
                 /\ job = Job("update", k) \/ job = Asking(k, mem[v].approvals[k])
                    \/ job = Sweep
    BY <1>1
  <1>3. /\ work'[v].pc = (IF job.do = "snapshot" THEN "snapshot" ELSE "append")
        /\ work'[v].gone = work[v].gone
    BY <1>1
  <1>4. job.do \in {"update", "request", "snapshot"}
    <2> HIDE DEF job
    <2> QED BY <1>2, Jobs
  <1>5. Making(v, mem[v], job, k)
    BY <1>1, <1>2, <1>3, <1>4 DEF Making
  <1> QED BY <1>1, <1>3, <1>4, <1>5

\* No job follows.
LEMMA LocalIdle ==
    ASSUME TypeInv, NEW v \in Inst, WriteLocal(v), work'[v].pc = "idle"
    PROVE  /\ mem'[v] = mem[v] /\ now' = now
           /\ work'[v] = [pc |-> "idle", todo |-> <<>>, at |-> 0, gone |-> {}]
           /\ work[v].todo = <<>> \/ Tail(work[v].todo) = <<>>
  <1> DEFINE job == Head(work'[v].todo)
             busy == [pc |-> IF job.do = "snapshot" THEN "snapshot" ELSE "append",
                      todo |-> work'[v].todo, at |-> now', gone |-> work[v].gone]
  <1>1. \/ /\ mem'[v] = mem[v] /\ now' = now
           /\ work'[v] = [pc |-> "idle", todo |-> <<>>, at |-> 0, gone |-> {}]
           /\ work[v].todo = <<>> \/ Tail(work[v].todo) = <<>>
        \/ work'[v] = busy
    BY LocalStep
  <1>2. busy.pc # "idle"
    OBVIOUS
  <1> HIDE DEF busy
  <1> QED BY <1>1, <1>2

\* A step of a worker leaves the others alone.
LEMMA OthersStay ==
    ASSUME TypeInv, NEW v \in Inst, WorkerNext(v), NEW w \in Inst, w # v
    PROVE  mem'[w] = mem[w] /\ work'[w] = work[w] /\ file'[w] = file[w]
  <1> DEFINE same == mem'[w] = mem[w] /\ work'[w] = work[w] /\ file'[w] = file[w]
  <1>1. /\ mem = [x \in Inst |-> mem[x]] /\ work = [x \in Inst |-> work[x]]
        /\ file = [x \in Inst |-> file[x]]
    BY DEF TypeInv
  <1>2. ASSUME NEW st, NEW pc, Begin(v, st, pc) PROVE same
    BY <1>1, <1>2 DEF Begin
  <1>3. ASSUME NEW st, NEW jobs, NEW gone, Run(v, st, jobs, gone)
        PROVE  mem'[w] = mem[w] /\ work'[w] = work[w]
    <2>1. (\E x : mem' = [mem EXCEPT ![v] = x]) /\ (\E x : work' = [work EXCEPT ![v] = x])
      BY <1>3, RunParts
    <2> QED BY <1>1, <2>1
  <1>4. CASE StartFromDataSpace(v) \/ StartFromFile(v)
    BY <1>2, <1>4 DEF StartFromDataSpace, StartFromFile
  <1>5. CASE AppendEvent(v) \/ AppendSnapshot(v)
    BY <1>1, <1>5 DEF AppendEvent, AppendSnapshot
  <1>6. CASE WriteLocal(v)
    <2>1. file' = [file EXCEPT ![v] = LocalFile(v, mem[v], work[v].at)] /\ Follow(v, mem[v])
      BY <1>6 DEF WriteLocal
    <2>2. mem'[w] = mem[w] /\ work'[w] = work[w]
      BY <1>1, <1>3, <2>1 DEF Follow
    <2> QED BY <1>1, <2>1, <2>2
  <1>7. CASE FailLocal(v) \/ Stop(v) \/ Crash(v)
    BY <1>1, <1>7 DEF FailLocal, Stop, Crash
  <1>8. ASSUME NEW jobs, NEW st, NEW gone, Handler(v, jobs, st, gone) PROVE same
    BY <1>3, <1>8 DEF Handler
  <1>9. ASSUME NEW s \in Session, Create(v, s) \/ Update(v, s) \/ ArchiveSession(v, s)
                                  \/ PurgeArchived(v, s)
        PROVE  same
    BY <1>8, <1>9 DEF Create, Update, ArchiveSession, PurgeArchived
  <1>10. ASSUME NEW a \in Approval, NEW s, RequestApproval(v, a, s) \/ ResolveApproval(v, a)
         PROVE  same
    BY <1>8, <1>10 DEF RequestApproval, ResolveApproval
  <1> QED BY <1>4, <1>5, <1>6, <1>7, <1>9, <1>10 DEF WorkerNext

\* The steps of a worker.
LEMMA StepKinds ==
    ASSUME NEW v \in Inst, WorkerNext(v)
    PROVE  \/ StartFromDataSpace(v) \/ StartFromFile(v) \/ AppendEvent(v) \/ AppendSnapshot(v)
           \/ WriteLocal(v) \/ (FailLocal(v) \/ Stop(v) \/ Crash(v)) \/ AHandler(v)
  BY DEF WorkerNext, AHandler

-----------------------------------------------------------------------------
(* Nothing is in a table, or told, that was not created.                   *)

KeysIn(st, some) == DOMAIN st.sessions \subseteq some /\ DOMAIN st.approvals \subseteq some

BornInv ==
    /\ ended \subseteq born /\ Heard \subseteq born /\ Logged("archived") \subseteq born
    /\ Logged("purged") \cup Logged("resolved") \subseteq ended
    /\ KeysIn(Recalled, born)
    /\ \A w \in Inst : KeysIn(mem[w], born) /\ (HasFile(w) => KeysIn(file[w], born))

\* A job leaves approvals, or drops some.
LEMMA MadeApprovals ==
    ASSUME NEW new, NEW st, NEW w, NEW job, NEW k, NEW t, Made(new, st, w, job, k, t)
    PROVE  /\ DOMAIN new.approvals \subseteq DOMAIN st.approvals
           /\ \A a \in DOMAIN new.approvals : new.approvals[a] = st.approvals[a]
  <1>1. \/ new.approvals = st.approvals
        \/ \E out : new.approvals = Drop(st.approvals, out)
    BY DEF Made
  <1>2. ASSUME NEW out, new.approvals = Drop(st.approvals, out)
        PROVE  /\ DOMAIN new.approvals \subseteq DOMAIN st.approvals
               /\ \A a \in DOMAIN new.approvals : new.approvals[a] = st.approvals[a]
    BY <1>2 DEF Drop, Restrict
  <1> QED BY <1>1, <1>2

\* What is made of the memory has no key that was not created.
LEMMA MadeKeys ==
    ASSUME NEW v, NEW st, NEW job, NEW k, Making(v, st, job, k), KeysIn(mem[v], born)
    PROVE  KeysIn(mem'[v], born')
  <1> DEFINE new == mem'[v]  old == mem[v]
  <1>1. /\ Made(new, st, v, job, k, now') /\ st.sessions = old.sessions /\ born \subseteq born'
        /\ job.do = "create" => k \in born'
    BY DEF Making
  <1>2. DOMAIN st.approvals \subseteq born'
    <2>1. CASE st.approvals = old.approvals
      BY <1>1, <2>1 DEF KeysIn
    <2>2. ASSUME NEW a \in Approval \ born, NEW x, st.approvals = Put(old.approvals, a, x),
                 born' = born \cup {a}
          PROVE  DOMAIN st.approvals \subseteq born'
      <3>1. DOMAIN st.approvals = DOMAIN old.approvals \cup {a}
        BY <2>2 DEF Put
      <3> QED BY <1>1, <2>2, <3>1 DEF KeysIn
    <2> QED BY <2>1, <2>2 DEF Making
  <1> HIDE DEF new, old
  <1>3. DOMAIN new.sessions \subseteq
          DOMAIN old.sessions \cup (IF job.do = "create" THEN {k} ELSE {})
    <2>1. Job("create", k).do = "create"
      BY Jobs
    <2> QED BY <1>1, <2>1 DEF Made
  <1>4. DOMAIN new.approvals \subseteq DOMAIN st.approvals
    BY <1>1, MadeApprovals
  <1> QED BY <1>1, <1>2, <1>3, <1>4 DEF KeysIn, new, old

\* It holds at first.
LEMMA InitBorn == Init => BornInv
  <1> SUFFICES ASSUME Init PROVE BornInv
    OBVIOUS
  <1>1. PICK old \in SUBSET Session :
          /\ \/ log = <<>> /\ old = {} /\ ReplayMessages(log) = NoReplay
             \/ log = <<Old(old)>> /\ ReplayMessages(log) = FromSnapshot(Old(old))
          /\ born = old
          /\ \A w \in Inst : /\ file[w] = None \/ file[w] = OldFile(old)
                             /\ mem[w] = NoReplay /\ work[w] = Off
    BY FirstState
  <1>2. ended = {}
    BY DEF Init
  <1>3. /\ Old(old).kind = "snapshot" /\ DOMAIN Old(old).sessions = old
        /\ DOMAIN Old(old).approvals = {}
        /\ DOMAIN OldFile(old).sessions = old /\ DOMAIN OldFile(old).approvals = {}
    BY TableEmpty DEF Old, OldFile
  <1>4. /\ FromSnapshot(Old(old)).sessions = Old(old).sessions
        /\ FromSnapshot(Old(old)).approvals = Old(old).approvals
    BY SnapshotParts
  <1>5. DOMAIN NoReplay.sessions = {} /\ DOMAIN NoReplay.approvals = {}
    BY TableEmpty DEF NoReplay
  <1>6. KeysIn(Recalled, born) /\ \A w \in Inst : KeysIn(mem[w], born)
    BY <1>1, <1>3, <1>4, <1>5 DEF KeysIn, Recalled
  <1>7. \A w \in Inst : HasFile(w) => KeysIn(file[w], born)
    BY <1>1, <1>3 DEF KeysIn, HasFile
  <1>8. /\ \A kind \in {"archived", "purged", "resolved"} : Logged(kind) = {}
        /\ Heard \subseteq born
    <2>1. CASE log = <<>>
      <3>1. DOMAIN log = {} /\ Len(log) = 0
        BY <2>1
      <3> QED BY <3>1 DEF Logged, Heard, LoggedBefore
    <2>2. CASE log = <<Old(old)>>
      <3>1. DOMAIN log = {1} /\ Len(log) = 1 /\ log[1] = Old(old)
        BY <2>2
      <3>2. 1..(1 + 1 - 1) = {1}
        OBVIOUS
      <3> QED BY <1>1, <1>3, <3>1, <3>2 DEF Logged, Heard, LoggedBefore
    <2> QED BY <1>1, <2>1, <2>2
  <1> QED BY <1>2, <1>6, <1>7, <1>8 DEF BornInv

\* Every step keeps it.
LEMMA NextBorn == TypeInv /\ BornInv /\ [Next]_vars => BornInv'
  <1> SUFFICES ASSUME TypeInv, BornInv, [Next]_vars PROVE BornInv'
    OBVIOUS
  <1>1. CASE UNCHANGED vars
    <2>1. /\ plan' = plan /\ log' = log /\ now' = now /\ mem' = mem /\ work' = work
          /\ file' = file /\ born' = born /\ ended' = ended /\ settled' = settled
          /\ starts' = starts
      BY <1>1 DEF vars
    <2> QED BY <2>1 DEF BornInv, Heard, LoggedBefore, Logged, Recalled, HasFile
  <1>2. ASSUME NEW v \in Inst, WorkerNext(v) PROVE BornInv'
    <2> DEFINE told == /\ ended' \subseteq born' /\ Heard' \subseteq born'
                       /\ Logged("archived")' \subseteq born'
                       /\ Logged("purged")' \cup Logged("resolved")' \subseteq ended'
                       /\ KeysIn(Recalled', born')
               kept == KeysIn(mem'[v], born') /\ (HasFile(v)' => KeysIn(file'[v], born'))
               more == born \subseteq born'
    <2>0. SUFFICES told /\ kept /\ more
      <3>1. ASSUME NEW w \in Inst
            PROVE  KeysIn(mem'[w], born') /\ (HasFile(w)' => KeysIn(file'[w], born'))
        <4>1. CASE w = v
          BY <2>0, <4>1
        <4>2. CASE w # v
          <5>1. mem'[w] = mem[w] /\ file'[w] = file[w]
            BY <1>2, <4>2, OthersStay
          <5>2. KeysIn(mem[w], born) /\ (HasFile(w) => KeysIn(file[w], born))
            BY DEF BornInv
          <5> QED BY <2>0, <5>1, <5>2 DEF KeysIn, HasFile
        <4> QED BY <4>1, <4>2
      <3> QED BY <2>0, <3>1 DEF BornInv
    <2>1. /\ ended \subseteq born /\ Heard \subseteq born /\ Logged("archived") \subseteq born
          /\ Logged("purged") \cup Logged("resolved") \subseteq ended
          /\ KeysIn(Recalled, born) /\ KeysIn(mem[v], born)
          /\ HasFile(v) => KeysIn(file[v], born)
      BY DEF BornInv
    <2>2. ASSUME log' = log
          PROVE  /\ Heard' = Heard /\ Logged("archived")' = Logged("archived")
                 /\ Logged("purged")' = Logged("purged")
                 /\ Logged("resolved")' = Logged("resolved") /\ Recalled' = Recalled
      BY <2>2 DEF Heard, LoggedBefore, Logged, Recalled
    <2>3. ASSUME file'[v] = file[v], more PROVE HasFile(v)' => KeysIn(file'[v], born')
      BY <2>1, <2>3 DEF HasFile, KeysIn
    <2>4. ASSUME file'[v] = LocalFile(v, mem[v], work[v].at), born' = born
          PROVE  HasFile(v)' => KeysIn(file'[v], born')
      BY <2>1, <2>4 DEF LocalFile, KeysIn
    <2>5. ASSUME log' = log, born' = born, ended' = ended PROVE told /\ more
      BY <2>1, <2>2, <2>5
    <2>6. CASE StartFromDataSpace(v)
      <3>1. /\ StartedFrom(mem'[v], Recalled, v)
            /\ UNCHANGED <<plan, log, now, file, born, ended, settled>>
        BY <2>6, DataSpaceStart DEF Recalled
      <3>2. KeysIn(mem'[v], born)
        BY <2>1, <3>1 DEF StartedFrom, SessionFrom, KeysIn
      <3> QED BY <2>3, <2>5, <3>1, <3>2
    <2>7. CASE StartFromFile(v)
      <3>1. PICK st : /\ st = IF file[v] = None THEN NoReplay ELSE FromSnapshot(file[v])
                      /\ DOMAIN mem'[v].sessions = DOMAIN st.sessions
                      /\ mem'[v].approvals = st.approvals
        BY <2>7, FileStart
      <3>2. /\ file[v] # Corrupt /\ UNCHANGED <<plan, log, now, file, born, ended, settled>>
        BY <2>7, FileStart
      <3>3. KeysIn(st, born)
        <4>1. DOMAIN NoReplay.sessions = {} /\ DOMAIN NoReplay.approvals = {}
          BY TableEmpty DEF NoReplay
        <4>2. /\ FromSnapshot(file[v]).sessions = file[v].sessions
              /\ FromSnapshot(file[v]).approvals = file[v].approvals
          BY SnapshotParts
        <4> QED BY <2>1, <3>1, <3>2, <4>1, <4>2 DEF KeysIn, HasFile
      <3>4. KeysIn(mem'[v], born)
        BY <3>1, <3>3 DEF KeysIn
      <3> QED BY <2>3, <2>5, <3>2, <3>4
    <2>8. CASE AppendEvent(v)
      <3>1. /\ UNCHANGED <<plan, now, file, born, ended, settled, starts>>
            /\ mem'[v].sessions = mem[v].sessions /\ mem'[v].approvals = mem[v].approvals
        BY <2>8, EventStep
      <3>2. KeysIn(mem'[v], born')
        BY <2>1, <3>1 DEF KeysIn
      <3>3. told
        <4>1. CASE log' = log
          BY <2>5, <3>1, <4>1
        <4>2. CASE log' # log
          <5> DEFINE job == Head(work[v].todo)
          <5>1. PICK k : /\ Folded(Recalled', Recalled, mem[v], job, k, work[v].gone)
                         /\ Tells(job, k)
            BY <2>8, <4>2, EventMeans
          <5>2. work[v].gone \subseteq ended
            BY WorkerTypes
          <5> DEFINE new == Recalled'  old == Recalled  st == mem[v]  gone == work[v].gone
          <5> HIDE DEF new, old, st, job, gone
          <5>3. /\ DOMAIN new.sessions \subseteq
                     DOMAIN old.sessions \cup (IF k \in DOMAIN st.sessions THEN {k} ELSE {})
                /\ \/ new.approvals = old.approvals
                   \/ \E out : new.approvals = Drop(old.approvals, out)
                   \/ \E x : k \in DOMAIN st.approvals /\ new.approvals = Put(old.approvals, k, x)
                /\ job.do \in {"create", "update", "archive"} => k \in DOMAIN st.sessions
                /\ job.do \in {"purge", "resolve"} => k \in gone
            <6>1. Folded(new, old, st, job, k, gone)
              BY <5>1 DEF new, old, st, gone
            <6>2. /\ Job("create", k).do = "create" /\ Job("update", k).do = "update"
                  /\ Job("archive", k).do = "archive" /\ Job("purge", k).do = "purge"
                  /\ Job("resolve", k).do = "resolve"
                  /\ Asking(k, st.approvals[k]).do = "request"
              BY Jobs
            <6> QED BY <6>1, <6>2 DEF Folded
          <5>4. DOMAIN new.approvals \subseteq
                  DOMAIN old.approvals \cup (IF k \in DOMAIN st.approvals THEN {k} ELSE {})
            <6>1. ASSUME NEW out, new.approvals = Drop(old.approvals, out)
                  PROVE  DOMAIN new.approvals \subseteq DOMAIN old.approvals
              BY <6>1 DEF Drop, Restrict
            <6>2. ASSUME NEW x, new.approvals = Put(old.approvals, k, x)
                  PROVE  DOMAIN new.approvals = DOMAIN old.approvals \cup {k}
              BY <6>2 DEF Put
            <6> QED BY <5>3, <6>1, <6>2
          <5>5. KeysIn(old, born) /\ KeysIn(st, born)
            BY <2>1 DEF old, st
          <5>6. KeysIn(new, born)
            BY <5>3, <5>4, <5>5 DEF KeysIn
          <5>7. /\ Heard' \subseteq born /\ Logged("archived")' \subseteq born
                /\ Logged("purged")' \cup Logged("resolved")' \subseteq ended
            <6>1. gone \subseteq ended
              BY <5>2 DEF gone
            <6> QED BY <2>1, <5>1, <5>3, <5>5, <6>1 DEF Tells, KeysIn
          <5> QED BY <2>1, <3>1, <5>6, <5>7 DEF new
        <4> QED BY <4>1, <4>2
      <3> QED BY <2>3, <3>1, <3>2, <3>3
    <2>9. CASE AppendSnapshot(v)
      <3>1. /\ UNCHANGED <<plan, now, file, born, ended, settled, starts>>
            /\ mem'[v].sessions = mem[v].sessions /\ mem'[v].approvals = mem[v].approvals
        BY <2>9, SnapshotStep
      <3>2. KeysIn(mem'[v], born')
        BY <2>1, <3>1 DEF KeysIn
      <3>3. told
        <4>1. CASE log' = log
          BY <2>5, <3>1, <4>1
        <4>2. CASE log' # log
          <5> DEFINE snap == ToSnapshot(mem[v], now)
          <5>1. /\ log' = Append(log, snap) /\ ReplayMessages(log') = FromSnapshot(snap)
                /\ snap \in MessageTo(now)
            BY <2>9, <4>2, SnapshotStep
          <5>2. snap \in Message /\ log \in Seq(Message)
            BY <5>1, WorkerTypes DEF Message
          <5>3. /\ snap.kind = "snapshot" /\ snap.sessions = mem[v].sessions
                /\ snap.approvals = mem[v].approvals
            BY DEF ToSnapshot
          <5> HIDE DEF snap
          <5>4. /\ \A kind : Logged(kind)' =
                               Logged(kind) \cup (IF snap.kind = kind THEN {snap.id} ELSE {})
                /\ Heard' = Heard \cup DOMAIN snap.sessions
            BY <5>1, <5>2, <5>3, HistoryGrows
          <5>5. /\ Recalled'.sessions = mem[v].sessions
                /\ Recalled'.approvals = mem[v].approvals
            BY <5>1, <5>3, SnapshotParts DEF Recalled
          <5>6. /\ Logged("archived")' = Logged("archived")
                /\ Logged("purged")' = Logged("purged")
                /\ Logged("resolved")' = Logged("resolved")
            BY <5>3, <5>4
          <5> QED BY <2>1, <3>1, <5>3, <5>4, <5>5, <5>6 DEF KeysIn
        <4> QED BY <4>1, <4>2
      <3> QED BY <2>3, <3>1, <3>2, <3>3
    <2>10. CASE WriteLocal(v)
      <3>1. /\ UNCHANGED <<plan, log, born, ended, starts>>
            /\ file'[v] = LocalFile(v, mem[v], work[v].at)
        BY <2>10, LocalStep
      <3>2. KeysIn(mem'[v], born')
        <4>1. CASE work'[v].pc = "idle"
          <5>1. mem'[v] = mem[v]
            BY <2>10, <4>1, LocalIdle
          <5> QED BY <2>1, <3>1, <5>1
        <4>2. CASE work'[v].pc # "idle"
          BY <2>1, <2>10, <4>2, LocalMeans, MadeKeys
        <4> QED BY <4>1, <4>2
      <3> QED BY <2>4, <2>5, <3>1, <3>2
    <2>11. CASE FailLocal(v) \/ Stop(v) \/ Crash(v)
      <3>1. UNCHANGED <<plan, log, now, born, ended, settled, starts>>
            /\ file'[v] \in {file[v], Corrupt}
        BY <2>11, EndStep
      <3>2. mem'[v] \in {mem[v], NoReplay}
        <4>1. mem = [w \in Inst |-> mem[w]]
          BY DEF TypeInv
        <4> QED BY <2>11, <4>1 DEF FailLocal, Stop, Crash
      <3>3. KeysIn(NoReplay, born)
        BY TableEmpty DEF NoReplay, KeysIn
      <3>4. HasFile(v)' => KeysIn(file'[v], born')
        BY <2>1, <3>1 DEF HasFile
      <3> QED BY <2>1, <2>5, <3>1, <3>2, <3>3, <3>4
    <2>12. CASE AHandler(v)
      <3>1. PICK st, job, k : HandlerMakes(v, st, job, k)
        BY <2>12, HandlerMeans
      <3>2. /\ Making(v, st, job, k) /\ file' = file /\ more /\ log' = log
            /\ ended' = ended \cup (IF job.do \in {"purge", "resolve"} THEN {k} ELSE {})
            /\ job.do = "purge" => k \in DOMAIN mem[v].sessions
            /\ job.do = "resolve" => k \in DOMAIN mem[v].approvals
        BY <3>1 DEF HandlerMakes, Making
      <3>3. KeysIn(mem'[v], born')
        BY <2>1, <3>2, MadeKeys
      <3>4. told
        <4>1. ended' \subseteq born /\ ended \subseteq ended'
          BY <2>1, <3>2 DEF KeysIn
        <4>2. KeysIn(Recalled, born')
          BY <2>1, <3>2 DEF KeysIn
        <4> QED BY <2>1, <2>2, <3>2, <4>1, <4>2
      <3> QED BY <2>3, <3>2, <3>3, <3>4
    <2> QED BY <1>2, <2>6, <2>7, <2>8, <2>9, <2>10, <2>11, <2>12, StepKinds
  <1> QED BY <1>1, <1>2 DEF Next

-----------------------------------------------------------------------------
(* What is gone stays gone, and what is archived stays archived: one        *)
(* installation alone, that reads the Data Space when it starts, or its     *)
(* file if that can not be behind.                                          *)

OneInstallation == \E w : Inst = {w}

\* A room that is too long to be read is as one that can not be read.
LimitHarmless == ReachesPageLimit(log) => plan.faults \cap {"crash", "local"} = {}

\* No fault leaves the file behind.
FileSafe == plan.faults \cap {"crash", "local"} = {}
Resting(w) == work[w].pc \in {"down", "idle"}

\* The record of a file is older than the snapshot, or was told to be gone since.
Outdone(id, ids, st, at) == id \in ids \/ StaleAgainst(st, at)

GoneMemory(w) ==
    /\ DOMAIN mem[w].sessions \cap Logged("purged") = {}
    /\ DOMAIN mem[w].approvals \cap Logged("resolved") = {}
GoneRecalled ==
    /\ DOMAIN Recalled.sessions \cap Logged("purged") = {}
    /\ DOMAIN Recalled.approvals \cap Logged("resolved") = {}
GoneFile(w) == HasFile(w) =>
    /\ \A s \in DOMAIN file[w].sessions \cap Logged("purged") :
         Outdone(s, Recalled.purgedIds, Recalled, file[w].sessions[s].updated)
    /\ \A a \in DOMAIN file[w].approvals \cap Logged("resolved") :
         Outdone(a, Recalled.resolvedIds, Recalled, file[w].approvals[a].at)
    /\ FileSafe /\ Resting(w) =>
         /\ DOMAIN file[w].sessions \cap Logged("purged") = {}
         /\ DOMAIN file[w].approvals \cap Logged("resolved") = {}
GoneTold(w) ==
    work[w].pc # "append" \/ Head(work[w].todo).do \notin {"purge", "resolve"} =>
      work[w].gone \subseteq Logged("purged") \cup Logged("resolved")

GoneInv ==
    "append" \notin plan.faults /\ NeverBehind =>
      /\ GoneRecalled /\ settled \subseteq Logged("purged") \cup Logged("resolved")
      /\ \A w \in Inst : GoneMemory(w) /\ GoneFile(w) /\ GoneTold(w)

\* A session the Data Space heard of is in its replay if it is in memory, or in a
\* file that a start would believe; one it heard is archived is archived in each.
KnownMemory(w) == \A s \in DOMAIN mem[w].sessions :
    /\ s \in Heard => s \in DOMAIN Recalled.sessions
    /\ s \in ArchivedKnown => mem[w].sessions[s].archived
KnownRecalled == \A s \in DOMAIN Recalled.sessions :
    s \in ArchivedKnown => Recalled.sessions[s].archived
KnownFile(w) == HasFile(w) => \A s \in DOMAIN file[w].sessions \cap Heard :
    /\ \/ s \in DOMAIN Recalled.sessions
       \/ Outdone(s, Recalled.purgedIds, Recalled, file[w].sessions[s].updated)
    /\ FileSafe /\ Resting(w) =>
         /\ s \in DOMAIN Recalled.sessions
         /\ s \in ArchivedKnown => file[w].sessions[s].archived

KnownInv ==
    NeverBehind => KnownRecalled /\ \A w \in Inst : KnownMemory(w) /\ KnownFile(w)

\* If nothing but the worker fails, the replay and the memory match, once what is
\* said is said; but for an approval that is about to be asked for.
SameRecord(r, s) ==
    /\ r.owner = s.owner /\ r.mirror = s.mirror /\ r.archived = s.archived
    /\ ~r.archived => r.updated = s.updated
SameSessions(f, g) ==
    DOMAIN f = DOMAIN g /\ \A s \in DOMAIN f : SameRecord(f[s], g[s])
Matches(w, sessions, approvals, count) ==
    /\ SameSessions(sessions, mem[w].sessions) /\ count = mem[w].count
    /\ \/ approvals = mem[w].approvals
       \/ \E s \in Session, a \in DOMAIN mem[w].approvals :
            Preparing(work[w], mem[w], s, a) /\ approvals = Drop(mem[w].approvals, {a})
ToBeSaid(w) == StepReplay(Recalled, Event(mem[w], Head(work[w].todo)))
CompleteFor(w) ==
    /\ work[w].pc \in {"idle", "local"} =>
         Matches(w, Recalled.sessions, Recalled.approvals, Recalled.count)
    /\ work[w].pc = "append" =>
         Matches(w, ToBeSaid(w).sessions, ToBeSaid(w).approvals, mem[w].count)
           /\ Recalled.count = mem[w].count
CompleteInv == plan.faults \subseteq {"crash"} => \A w \in Inst : CompleteFor(w)

\* Nobody changes the plan.
LEMMA PlanStays ==
    ASSUME TypeInv, NEW v \in Inst, WorkerNext(v) PROVE plan' = plan
  <1>1. CASE StartFromDataSpace(v) \/ StartFromFile(v)
    BY <1>1, DataSpaceStart, FileStart
  <1>2. CASE AppendEvent(v) \/ AppendSnapshot(v) \/ WriteLocal(v)
    BY <1>2, EventStep, SnapshotStep, LocalStep
  <1>3. CASE FailLocal(v) \/ Stop(v) \/ Crash(v)
    BY <1>3, EndStep
  <1>4. CASE AHandler(v)
    BY <1>4, HandlerMeans DEF HandlerMakes, Making
  <1> QED BY <1>1, <1>2, <1>3, <1>4, StepKinds

\* A log that stays tells the same.
LEMMA LogStays ==
    ASSUME log' = log
    PROVE  /\ Heard' = Heard /\ ArchivedKnown' = ArchivedKnown
           /\ \A kind : Logged(kind)' = Logged(kind)
           /\ Recalled' = Recalled
  BY DEF Heard, ArchivedKnown, LoggedBefore, Logged, Recalled

\* A snapshot tells of the sessions in it.
LEMMA SnapshotMeansAll ==
    ASSUME TypeInv, NEW v \in Inst, AppendSnapshot(v)
    PROVE  \/ "append" \in plan.faults /\ log' = log
           \/ /\ Recalled'.sessions = mem[v].sessions /\ Recalled'.approvals = mem[v].approvals
              /\ Recalled'.archivedIds = {} /\ Recalled'.purgedIds = {}
              /\ Recalled'.resolvedIds = {} /\ Recalled'.count = 0 /\ Recalled'.snapAt = now
              /\ Heard' = Heard \cup DOMAIN mem[v].sessions
              /\ ArchivedKnown' = ArchivedKnown
              /\ Logged("archived")' = Logged("archived")
              /\ Logged("purged")' = Logged("purged")
              /\ Logged("resolved")' = Logged("resolved")
  <1> DEFINE snap == ToSnapshot(mem[v], now)
  <1>1. SUFFICES ASSUME ~("append" \in plan.faults /\ log' = log)
                 PROVE  /\ Recalled'.sessions = mem[v].sessions
                        /\ Recalled'.approvals = mem[v].approvals
                        /\ Recalled'.archivedIds = {} /\ Recalled'.purgedIds = {}
                        /\ Recalled'.resolvedIds = {} /\ Recalled'.count = 0
                        /\ Recalled'.snapAt = now
                        /\ Heard' = Heard \cup DOMAIN mem[v].sessions
                        /\ ArchivedKnown' = ArchivedKnown
                        /\ Logged("archived")' = Logged("archived")
                        /\ Logged("purged")' = Logged("purged")
                        /\ Logged("resolved")' = Logged("resolved")
    OBVIOUS
  <1>2. /\ log' = Append(log, snap) /\ ReplayMessages(log') = FromSnapshot(snap)
        /\ snap \in MessageTo(now)
    BY <1>1, SnapshotStep
  <1>3. snap \in Message /\ log \in Seq(Message)
    BY <1>2, WorkerTypes DEF Message
  <1>4. /\ snap.kind = "snapshot" /\ snap.sessions = mem[v].sessions
        /\ snap.approvals = mem[v].approvals /\ snap.at = now
    BY DEF ToSnapshot
  <1> HIDE DEF snap
  <1>5. /\ \A kind : Logged(kind)' =
                       Logged(kind) \cup (IF snap.kind = kind THEN {snap.id} ELSE {})
        /\ Heard' = Heard \cup DOMAIN snap.sessions
        /\ ArchivedKnown' = ArchivedKnown
    BY <1>2, <1>3, <1>4, HistoryGrows
  <1>6. /\ Logged("archived")' = Logged("archived")
        /\ Logged("purged")' = Logged("purged")
        /\ Logged("resolved")' = Logged("resolved")
    BY <1>4, <1>5
  <1> DEFINE new == FromSnapshot(snap)
  <1>7. /\ new.sessions = snap.sessions /\ new.approvals = snap.approvals
        /\ new.archivedIds = {} /\ new.purgedIds = {} /\ new.resolvedIds = {}
        /\ new.count = 0 /\ new.snapAt = snap.at
    BY SnapshotParts
  <1>8. Recalled' = new
    BY <1>2 DEF Recalled
  <1> HIDE DEF new
  <1> QED BY <1>4, <1>5, <1>6, <1>7, <1>8

\* What is made of the memory.
LEMMA MakingSays ==
    ASSUME TypeInv, NEW v \in Inst, NEW st, NEW job, NEW k, Making(v, st, job, k)
    PROVE  /\ \A s \in DOMAIN mem'[v].sessions :
                \/ s \notin born
                \/ /\ s \in DOMAIN mem[v].sessions
                   /\ mem[v].sessions[s].archived => mem'[v].sessions[s].archived
           /\ \A a \in DOMAIN mem'[v].approvals : a \notin born \/ a \in DOMAIN mem[v].approvals
  <1> DEFINE new == mem'[v]  old == mem[v]
  <1>1. old.sessions \in Tables(Session, RecordsTo(now))
    BY WorkerTypes DEF StateOK
  <1> HIDE DEF new, old
  <1>2. \A s \in DOMAIN old.sessions : old.sessions[s] \in RecordsTo(now)
    BY <1>1, TableIs
  <1>3. /\ Made(new, st, v, job, k, now') /\ st.sessions = old.sessions
        /\ job.do = "create" => k \notin born
    BY DEF Making, new, old
  <1>4. ASSUME NEW s \in DOMAIN new.sessions
        PROVE  \/ s \notin born
               \/ /\ s \in DOMAIN old.sessions
                  /\ old.sessions[s].archived => new.sessions[s].archived
    <2>1. CASE s # k
      <3>1. s \in DOMAIN old.sessions
        BY <1>3, <2>1 DEF Made
      <3> QED BY <1>3, <2>1, <3>1 DEF Made
    <2>2. CASE s = k /\ s \notin DOMAIN old.sessions
      <3>1. Job("create", k).do = "create"
        BY Jobs
      <3> QED BY <1>3, <2>2, <3>1 DEF Made
    <2>3. CASE s = k /\ s \in DOMAIN old.sessions
      <3>1. old.sessions[s] \in RecordsTo(now)
        BY <1>2, <2>3
      <3>2. \/ new.sessions[s] = old.sessions[s]
            \/ \E t : new.sessions[s] = [old.sessions[s] EXCEPT !.updated = t]
            \/ \E t : new.sessions[s] = [old.sessions[s] EXCEPT !.updated = t, !.archived = TRUE]
            \/ job.do = "create"
        <4>1. Job("create", k).do = "create"
          BY Jobs
        <4> QED BY <1>3, <2>3, <4>1 DEF Made
      <3> QED BY <1>3, <2>3, <3>1, <3>2 DEF RecordsTo
    <2> QED BY <2>1, <2>2, <2>3
  <1>5. ASSUME NEW a \in DOMAIN new.approvals
        PROVE  a \notin born \/ a \in DOMAIN old.approvals
    <2>1. a \in DOMAIN st.approvals
      BY <1>3, MadeApprovals
    <2>2. CASE st.approvals = old.approvals
      BY <2>1, <2>2
    <2>3. ASSUME NEW b \in Approval \ born, NEW x, st.approvals = Put(old.approvals, b, x)
          PROVE  a \notin born \/ a \in DOMAIN old.approvals
      <3>1. DOMAIN st.approvals = DOMAIN old.approvals \cup {b}
        BY <2>3 DEF Put
      <3> QED BY <2>1, <2>3, <3>1
    <2> QED BY <2>2, <2>3 DEF Making, old
  <1> QED BY <1>4, <1>5 DEF new, old

\* Where there is one installation, a worker that starts from its file has one that
\* is not behind.
LEMMA FileStartSafe ==
    ASSUME NeverBehind, LimitHarmless, NEW v, StartFromFile(v)
    PROVE  FileSafe /\ Resting(v)
  BY DEF NeverBehind, LimitHarmless, StartFromFile, FileSafe, Resting, Up

-----------------------------------------------------------------------------
(* What is gone stays gone.                                                *)

\* What is purged is a session, what is resolved an approval.
LEMMA LoggedTypes ==
    ASSUME log \in Seq(Message)
    PROVE  /\ Logged("purged") \subseteq Session /\ Logged("archived") \subseteq Session
           /\ Logged("resolved") \subseteq Approval
  <1>1. \A i \in DOMAIN log : log[i] \in Message
    OBVIOUS
  <1>2. \A m \in Message : /\ m.kind \in {"archived", "purged"} => m.id \in Session
                           /\ m.kind = "resolved" => m.id \in Approval
    BY DEF Message, MessageTo
  <1> QED BY <1>1, <1>2 DEF Logged

\* It holds at first.
LEMMA InitGone == Init => GoneInv
  <1> SUFFICES ASSUME Init PROVE GoneInv
    OBVIOUS
  <1>1. BornInv /\ ended = {} /\ settled = {}
    BY InitBorn DEF Init
  <1>2. Logged("purged") = {} /\ Logged("resolved") = {}
    BY <1>1 DEF BornInv
  <1>3. \A w \in Inst : work[w].pc = "down" /\ work[w].gone = {}
    BY DEF Init, Off
  <1>4. GoneRecalled /\ \A w \in Inst : GoneMemory(w) /\ GoneFile(w) /\ GoneTold(w)
    BY <1>2, <1>3 DEF GoneRecalled, GoneMemory, GoneFile, GoneTold
  <1> QED BY <1>1, <1>4 DEF GoneInv

\* A start lets nothing back in.
LEMMA GoneStart ==
    ASSUME NEW v, GoneRecalled, GoneMemory(v), GoneFile(v), StartedFrom(mem'[v], Recalled, v)
    PROVE  /\ DOMAIN mem'[v].sessions \cap Logged("purged") = {}
           /\ DOMAIN mem'[v].approvals \cap Logged("resolved") = {}
  <1> DEFINE new == mem'[v]  old == Recalled  f == file[v]
  <1>1. ASSUME NEW s \in DOMAIN new.sessions, s \in Logged("purged") PROVE FALSE
    <2>1. s \notin DOMAIN old.sessions
      BY <1>1 DEF GoneRecalled
    <2>2. /\ HasFile(v) /\ s \in DOMAIN f.sessions
          /\ ~LocalSessionStale(old, s, f.sessions[s])
      BY <1>1, <2>1 DEF StartedFrom, SessionFrom
    <2> QED BY <1>1, <2>2 DEF GoneFile, Outdone, LocalSessionStale
  <1>2. ASSUME NEW a \in DOMAIN new.approvals, a \in Logged("resolved") PROVE FALSE
    <2>1. a \notin DOMAIN old.approvals
      BY <1>2 DEF GoneRecalled
    <2>2. /\ HasFile(v) /\ a \in DOMAIN f.approvals
          /\ ~LocalApprovalStale(old, a, f.approvals[a])
      BY <1>2, <2>1 DEF StartedFrom
    <2> QED BY <1>2, <2>2 DEF GoneFile, Outdone, LocalApprovalStale
  <1> QED BY <1>1, <1>2

\* An event keeps it.
LEMMA GoneEvent ==
    ASSUME TypeInv, NEW v \in Inst, AppendEvent(v), "append" \notin plan.faults,
           GoneRecalled, settled \subseteq Logged("purged") \cup Logged("resolved"),
           GoneMemory(v), GoneFile(v), GoneTold(v)
    PROVE  /\ GoneRecalled' /\ settled' \subseteq (Logged("purged") \cup Logged("resolved"))'
           /\ GoneMemory(v)' /\ GoneFile(v)' /\ GoneTold(v)'
  <1> DEFINE new == Recalled'  old == Recalled  st == mem[v]  gone == work[v].gone
             job == Head(work[v].todo)
             P == Logged("purged")  Q == Logged("resolved")  P1 == P'  Q1 == Q'
  <1>1. PICK k : Folded(new, old, st, job, k, gone) /\ Tells(job, k)
    BY EventMeans
  <1>2. /\ UNCHANGED <<plan, now, file, born, ended, settled, starts>>
        /\ mem'[v].sessions = mem[v].sessions /\ mem'[v].approvals = mem[v].approvals
        /\ work'[v].pc \in {"snapshot", "local"} /\ work[v].pc = "append"
        /\ work'[v] = [pc |-> work'[v].pc, todo |-> work[v].todo, at |-> now,
                       gone |-> work[v].gone]
    BY EventStep
  <1>3. /\ P1 = P \cup (IF job.do = "purge" THEN {k} ELSE {})
        /\ Q1 = Q \cup (IF job.do = "resolve" THEN {k} ELSE {})
    BY <1>1 DEF Tells
  <1>4. /\ DOMAIN old.sessions \cap P = {} /\ DOMAIN old.approvals \cap Q = {}
        /\ DOMAIN st.sessions \cap P = {} /\ DOMAIN st.approvals \cap Q = {}
        /\ settled \subseteq P \cup Q
        /\ job.do \notin {"purge", "resolve"} => gone \subseteq P \cup Q
    BY <1>2 DEF GoneRecalled, GoneMemory, GoneTold
  <1>5. work'[v].gone = gone /\ ~Resting(v)'
    BY <1>2 DEF Resting
  <1>6. GoneFile(v)
    OBVIOUS
  <1> HIDE DEF new, old, st, gone, job, P, Q, P1, Q1
  <1>7. \/ job.do \in {"create", "update"} /\ DOMAIN new.sessions \subseteq DOMAIN old.sessions \cup {k}
           /\ k \in DOMAIN st.sessions /\ new.approvals = old.approvals
        \/ job.do = "archive" /\ DOMAIN new.sessions \subseteq DOMAIN old.sessions
           /\ \E out : new.approvals = Drop(old.approvals, out)
        \/ job.do = "purge" /\ DOMAIN new.sessions \subseteq DOMAIN old.sessions \ {k}
           /\ k \notin DOMAIN st.sessions /\ gone = {k}
           /\ \E out : new.approvals = Drop(old.approvals, out)
        \/ job.do = "resolve" /\ DOMAIN new.sessions \subseteq DOMAIN old.sessions
           /\ k \notin DOMAIN st.approvals /\ gone = {k}
           /\ new.approvals = Drop(old.approvals, {k})
        \/ job.do = "request" /\ DOMAIN new.sessions \subseteq DOMAIN old.sessions
           /\ k \in DOMAIN st.approvals /\ new.approvals = Put(old.approvals, k, st.approvals[k])
    <2>1. /\ Job("create", k).do = "create" /\ Job("update", k).do = "update"
          /\ Job("archive", k).do = "archive" /\ Job("purge", k).do = "purge"
          /\ Job("resolve", k).do = "resolve" /\ Asking(k, st.approvals[k]).do = "request"
      BY Jobs
    <2> QED BY <1>1, <2>1 DEF Folded
  <1>8. /\ new.snapAt = old.snapAt
        /\ new.purgedIds = old.purgedIds \cup (IF job.do = "purge" THEN {k} ELSE {})
        /\ new.resolvedIds = old.resolvedIds \cup (IF job.do = "resolve" THEN {k} ELSE {})
    <2>1. /\ Job("create", k).do = "create" /\ Job("update", k).do = "update"
          /\ Job("archive", k).do = "archive" /\ Job("purge", k).do = "purge"
          /\ Job("resolve", k).do = "resolve" /\ Asking(k, st.approvals[k]).do = "request"
      BY Jobs
    <2> QED BY <1>1, <2>1 DEF Folded
  <1>9. /\ \A out, f : DOMAIN Drop(f, out) = DOMAIN f \ out
        /\ \A f, x : DOMAIN Put(f, k, x) = DOMAIN f \cup {k}
    BY DEF Drop, Restrict, Put
  <1>10. DOMAIN new.sessions \cap P1 = {} /\ DOMAIN new.approvals \cap Q1 = {}
    <2>1. DOMAIN new.sessions \cap P1 = {}
      BY <1>3, <1>4, <1>7
    <2>2. CASE job.do \in {"create", "update"}
      <3>1. new.approvals = old.approvals /\ Q1 = Q
        BY <1>3, <1>7, <2>2
      <3> QED BY <1>4, <2>1, <3>1
    <2>3. CASE job.do \in {"archive", "purge"}
      <3>1. Q1 = Q /\ \E out : new.approvals = Drop(old.approvals, out)
        BY <1>3, <1>7, <2>3
      <3>2. DOMAIN new.approvals \subseteq DOMAIN old.approvals
        BY <3>1 DEF Drop, Restrict
      <3> QED BY <1>4, <2>1, <3>1, <3>2
    <2>4. CASE job.do = "resolve"
      <3>1. Q1 = Q \cup {k} /\ new.approvals = Drop(old.approvals, {k})
        BY <1>3, <1>7, <2>4
      <3>2. DOMAIN new.approvals = DOMAIN old.approvals \ {k}
        BY <3>1 DEF Drop, Restrict
      <3> QED BY <1>4, <2>1, <3>1, <3>2
    <2>5. CASE job.do = "request"
      <3>1. /\ Q1 = Q /\ k \in DOMAIN st.approvals
            /\ new.approvals = Put(old.approvals, k, st.approvals[k])
        BY <1>3, <1>7, <2>5
      <3>2. DOMAIN new.approvals = DOMAIN old.approvals \cup {k}
        BY <3>1 DEF Put
      <3> QED BY <1>4, <2>1, <3>1, <3>2
    <2> QED BY <1>7, <2>2, <2>3, <2>4, <2>5
  <1>11. DOMAIN st.sessions \cap P1 = {} /\ DOMAIN st.approvals \cap Q1 = {}
    BY <1>3, <1>4, <1>7
  <1>12. gone \subseteq P1 \cup Q1 /\ settled \subseteq P1 \cup Q1
    BY <1>3, <1>4, <1>7
  <1>13. GoneFile(v)'
    <2> DEFINE f == file[v]
    <2>1. ASSUME HasFile(v), NEW s \in DOMAIN f.sessions, s \in P1
          PROVE  Outdone(s, new.purgedIds, new, f.sessions[s].updated)
      BY <1>3, <1>6, <1>8, <2>1 DEF GoneFile, Outdone, StaleAgainst, P, old
    <2>2. ASSUME HasFile(v), NEW a \in DOMAIN f.approvals, a \in Q1
          PROVE  Outdone(a, new.resolvedIds, new, f.approvals[a].at)
      BY <1>3, <1>6, <1>8, <2>2 DEF GoneFile, Outdone, StaleAgainst, Q, old
    <2>3. file'[v] = f /\ HasFile(v)' = HasFile(v)
      BY <1>2 DEF HasFile
    <2>4. \A s \in DOMAIN file'[v].sessions : HasFile(v)' /\ s \in Logged("purged")'
            => Outdone(s, Recalled'.purgedIds, Recalled', file'[v].sessions[s].updated)
      BY <2>1, <2>3 DEF P1, P, new
    <2>5. \A a \in DOMAIN file'[v].approvals : HasFile(v)' /\ a \in Logged("resolved")'
            => Outdone(a, Recalled'.resolvedIds, Recalled', file'[v].approvals[a].at)
      BY <2>2, <2>3 DEF Q1, Q, new
    <2> QED BY <1>5, <2>4, <2>5 DEF GoneFile
  <1> QED BY <1>2, <1>5, <1>10, <1>11, <1>12, <1>13 DEF GoneRecalled, GoneMemory, GoneTold,
          P1, Q1, P, Q, new, st, gone

\* Every step keeps it.
LEMMA NextGone ==
    ASSUME OneInstallation
    PROVE  TypeInv /\ BornInv /\ GoneInv /\ LimitHarmless /\ [Next]_vars => GoneInv'
  <1> SUFFICES ASSUME TypeInv, BornInv, GoneInv, LimitHarmless, [Next]_vars PROVE GoneInv'
    OBVIOUS
  <1>1. CASE UNCHANGED vars
    <2>1. /\ plan' = plan /\ log' = log /\ mem' = mem /\ work' = work
          /\ file' = file /\ settled' = settled
      BY <1>1 DEF vars
    <2> QED BY <2>1, LogStays DEF GoneInv, NeverBehind, GoneRecalled, GoneMemory, GoneFile,
            GoneTold, HasFile, FileSafe, Resting
  <1>2. ASSUME NEW v \in Inst, WorkerNext(v) PROVE GoneInv'
    <2>1. plan' = plan /\ Inst = {v}
      BY <1>2, PlanStays DEF OneInstallation
    <2>2. SUFFICES ASSUME "append" \notin plan.faults, NeverBehind
                   PROVE  /\ GoneRecalled'
                          /\ settled' \subseteq (Logged("purged") \cup Logged("resolved"))'
                          /\ GoneMemory(v)' /\ GoneFile(v)' /\ GoneTold(v)'
      BY <2>1 DEF GoneInv, NeverBehind
    <2>3. /\ GoneRecalled /\ settled \subseteq Logged("purged") \cup Logged("resolved")
          /\ GoneMemory(v) /\ GoneFile(v) /\ GoneTold(v)
      BY <2>2 DEF GoneInv
    <2> DEFINE P == Logged("purged")  Q == Logged("resolved")
    <2>4. P \cup Q \subseteq born
      BY DEF BornInv
    <2>5. ASSUME log' = log
          PROVE  /\ GoneRecalled' /\ P' = P /\ Q' = Q /\ Recalled' = Recalled
      BY <2>3, <2>5, LogStays DEF GoneRecalled
    <2>6. ASSUME log' = log, file'[v] = file[v], Resting(v)' /\ FileSafe => Resting(v)
          PROVE  GoneFile(v)'
      <3>1. FileSafe' = FileSafe /\ HasFile(v)' = HasFile(v)
        BY <2>1, <2>6 DEF FileSafe, HasFile
      <3> QED BY <2>3, <2>5, <2>6, <3>1 DEF GoneFile
    <2>7. CASE StartFromDataSpace(v)
      <3>1. /\ work'[v] = [pc |-> work'[v].pc, todo |-> <<>>, at |-> now, gone |-> {}]
            /\ StartedFrom(mem'[v], Recalled, v)
            /\ UNCHANGED <<plan, log, now, file, born, ended, settled>>
        BY <2>7, DataSpaceStart DEF Recalled
      <3>2. GoneMemory(v)'
        BY <2>3, <2>5, <3>1, GoneStart DEF GoneMemory
      <3>3. Resting(v) /\ work'[v].gone = {}
        BY <2>7, <3>1 DEF StartFromDataSpace, Up, Resting
      <3> QED BY <2>3, <2>5, <2>6, <3>1, <3>2, <3>3 DEF GoneTold
    <2>8. CASE StartFromFile(v)
      <3>1. FileSafe /\ Resting(v)
        BY <2>2, <2>8, FileStartSafe
      <3>2. PICK st : /\ st = IF file[v] = None THEN NoReplay ELSE FromSnapshot(file[v])
                      /\ DOMAIN mem'[v].sessions = DOMAIN st.sessions
                      /\ mem'[v].approvals = st.approvals
        BY <2>8, FileStart
      <3>3. /\ file[v] # Corrupt /\ UNCHANGED <<plan, log, now, file, born, ended, settled>>
            /\ work'[v] = [pc |-> work'[v].pc, todo |-> <<>>, at |-> now, gone |-> {}]
        BY <2>8, FileStart
      <3>4. GoneMemory(v)'
        <4>1. DOMAIN NoReplay.sessions = {} /\ DOMAIN NoReplay.approvals = {}
          BY TableEmpty DEF NoReplay
        <4>2. /\ FromSnapshot(file[v]).sessions = file[v].sessions
              /\ FromSnapshot(file[v]).approvals = file[v].approvals
          BY SnapshotParts
        <4>3. DOMAIN st.sessions \cap P = {} /\ DOMAIN st.approvals \cap Q = {}
          BY <2>3, <3>1, <3>2, <3>3, <4>1, <4>2 DEF GoneFile, HasFile
        <4> QED BY <2>5, <3>2, <3>3, <4>3 DEF GoneMemory
      <3>5. work'[v].gone = {}
        BY <3>3
      <3> QED BY <2>3, <2>5, <2>6, <3>1, <3>3, <3>4, <3>5 DEF GoneTold
    <2>9. CASE AppendEvent(v)
      BY <2>2, <2>3, <2>9, GoneEvent
    <2>10. CASE AppendSnapshot(v)
      <3>1. /\ Recalled'.sessions = mem[v].sessions /\ Recalled'.approvals = mem[v].approvals
            /\ Recalled'.snapAt = now /\ P' = P /\ Q' = Q
        BY <2>2, <2>10, SnapshotMeansAll
      <3>2. /\ UNCHANGED <<plan, now, file, born, ended, settled, starts>>
            /\ mem'[v].sessions = mem[v].sessions /\ mem'[v].approvals = mem[v].approvals
            /\ work[v].pc = "snapshot"
            /\ work'[v] = [pc |-> "local", todo |-> work[v].todo, at |-> now,
                           gone |-> work[v].gone]
        BY <2>10, SnapshotStep
      <3>3. /\ work'[v].gone = work[v].gone /\ ~Resting(v)'
        BY <3>2 DEF Resting
      <3>4. GoneFile(v)'
        <4>1. now \in Nat /\ FileOK(file[v], now)
          BY WorkerTypes
        <4>2. now # None
          BY <4>1, MirrorAssumption
        <4>3. HasFile(v) =>
                /\ \A s \in DOMAIN file[v].sessions : now >= file[v].sessions[s].updated
                /\ \A a \in DOMAIN file[v].approvals : now >= file[v].approvals[a].at
          <5>1. SUFFICES ASSUME HasFile(v)
                         PROVE  /\ \A s \in DOMAIN file[v].sessions :
                                     now >= file[v].sessions[s].updated
                                /\ \A a \in DOMAIN file[v].approvals :
                                     now >= file[v].approvals[a].at
            OBVIOUS
          <5>2. /\ file[v].sessions \in Tables(Session, RecordsTo(now))
                /\ file[v].approvals \in Tables(Approval, ApprovalsTo(now))
            BY <4>1, <5>1, FileState
          <5>3. /\ \A s \in DOMAIN file[v].sessions : file[v].sessions[s] \in RecordsTo(now)
            BY <5>2, TableIs
          <5>4. /\ \A a \in DOMAIN file[v].approvals : file[v].approvals[a] \in ApprovalsTo(now)
            BY <5>2, TableIs
          <5> QED BY <4>1, <5>3, <5>4 DEF RecordsTo, ApprovalsTo
        <4>4. HasFile(v)' = HasFile(v)
          BY <3>2 DEF HasFile
        <4> QED BY <3>1, <3>2, <3>3, <4>2, <4>3, <4>4 DEF GoneFile, Outdone, StaleAgainst
      <3> QED BY <2>3, <3>1, <3>2, <3>3, <3>4 DEF GoneRecalled, GoneMemory, GoneTold
    <2>11. CASE WriteLocal(v)
      <3>1. /\ UNCHANGED <<plan, log, born, ended, starts>>
            /\ work[v].pc = "local" /\ settled' = settled \cup work[v].gone
            /\ file'[v] = LocalFile(v, mem[v], work[v].at)
        BY <2>11, LocalStep
      <3>2. work[v].gone \subseteq P \cup Q
        BY <2>3, <3>1 DEF GoneTold
      <3>3. GoneFile(v)'
        <4>1. /\ file'[v].sessions = mem[v].sessions /\ file'[v].approvals = mem[v].approvals
          BY <3>1 DEF LocalFile
        <4> QED BY <2>3, <2>5, <3>1, <4>1 DEF GoneFile, GoneMemory
      <3>4. GoneMemory(v)' /\ GoneTold(v)'
        <4>1. CASE work'[v].pc = "idle"
          <5>1. mem'[v] = mem[v] /\ work'[v] = [pc |-> "idle", todo |-> <<>>, at |-> 0, gone |-> {}]
            BY <2>11, <4>1, LocalIdle
          <5>2. work'[v].gone = {}
            BY <5>1
          <5> QED BY <2>3, <2>5, <3>1, <5>1, <5>2 DEF GoneMemory, GoneTold
        <4>2. CASE work'[v].pc # "idle"
          <5>1. PICK job, k : Making(v, mem[v], job, k)
            BY <2>11, <4>2, LocalMeans
          <5>2. work'[v].gone = work[v].gone
            BY <2>11, <4>2, LocalMeans
          <5>3. /\ \A s \in DOMAIN mem'[v].sessions : s \notin born \/ s \in DOMAIN mem[v].sessions
                /\ \A a \in DOMAIN mem'[v].approvals :
                     a \notin born \/ a \in DOMAIN mem[v].approvals
            BY <5>1, MakingSays
          <5>4. GoneMemory(v)'
            BY <2>3, <2>4, <2>5, <3>1, <5>3 DEF GoneMemory
          <5> QED BY <2>5, <3>1, <3>2, <5>2, <5>4 DEF GoneTold
        <4> QED BY <4>1, <4>2
      <3> QED BY <2>3, <2>5, <3>1, <3>2, <3>3, <3>4
    <2>12. CASE FailLocal(v) \/ Stop(v) \/ Crash(v)
      <3>1. /\ UNCHANGED <<plan, log, now, born, ended, settled, starts>>
            /\ file'[v] \in {file[v], Corrupt}
            /\ (file'[v] = file[v] /\ work[v].pc = "idle") \/ ~FileSafe
        BY <2>12, EndStep DEF FileSafe
      <3>2. work'[v].gone = {}
        <4>1. \E pc : work'[v] = [pc |-> pc, todo |-> <<>>, at |-> 0, gone |-> {}]
          BY <2>12, EndStep
        <4> QED BY <4>1
      <3>3. mem'[v] \in {mem[v], NoReplay}
        <4>1. mem = [w \in Inst |-> mem[w]]
          BY DEF TypeInv
        <4> QED BY <2>12, <4>1 DEF FailLocal, Stop, Crash
      <3>4. GoneMemory(v)'
        <4>1. DOMAIN NoReplay.sessions = {} /\ DOMAIN NoReplay.approvals = {}
          BY TableEmpty DEF NoReplay
        <4> QED BY <2>3, <2>5, <3>1, <3>3, <4>1 DEF GoneMemory
      <3>5. GoneFile(v)'
        <4>1. CASE file'[v] = Corrupt
          BY <4>1 DEF GoneFile, HasFile
        <4>2. CASE file'[v] = file[v]
          BY <2>6, <3>1, <4>2 DEF Resting
        <4> QED BY <3>1, <4>1, <4>2
      <3> QED BY <2>3, <2>5, <3>1, <3>2, <3>4, <3>5 DEF GoneTold
    <2>13. CASE AHandler(v)
      <3>1. PICK st, job, k : HandlerMakes(v, st, job, k)
        BY <2>13, HandlerMeans
      <3>2. /\ Making(v, st, job, k) /\ file' = file /\ settled' = settled /\ log' = log
            /\ work'[v].gone = (IF job.do \in {"purge", "resolve"} THEN {k} ELSE {})
            /\ job.do # "snapshot" /\ work'[v].pc = "append" /\ Head(work'[v].todo) = job
        BY <3>1 DEF HandlerMakes, Making
      <3>3. /\ \A s \in DOMAIN mem'[v].sessions : s \notin born \/ s \in DOMAIN mem[v].sessions
            /\ \A a \in DOMAIN mem'[v].approvals :
                 a \notin born \/ a \in DOMAIN mem[v].approvals
        BY <3>2, MakingSays
      <3>4. GoneMemory(v)'
        BY <2>3, <2>4, <2>5, <3>2, <3>3 DEF GoneMemory
      <3>5. GoneFile(v)'
        BY <2>6, <3>2 DEF Resting
      <3>6. GoneTold(v)'
        BY <3>2 DEF GoneTold
      <3> QED BY <2>3, <2>5, <3>2, <3>4, <3>5, <3>6
    <2> QED BY <1>2, <2>7, <2>8, <2>9, <2>10, <2>11, <2>12, <2>13, StepKinds
  <1> QED BY <1>1, <1>2 DEF Next

\* Where one installation is alone, what the Data Space or its file was told is purged
\* or resolved is never in memory again (merge_local_mirror, the tombstones).
THEOREM GoneForGood ==
    ASSUME OneInstallation
    PROVE  Spec /\ []LimitHarmless => []GoneStaysGone
  <1>1. TypeInv /\ GoneInv => GoneStaysGone
    <2> SUFFICES ASSUME TypeInv, GoneInv, "append" \notin plan.faults, NeverBehind,
                        NEW w \in Inst
                 PROVE  /\ DOMAIN mem[w].sessions \cap (Logged("purged") \cup settled) = {}
                        /\ DOMAIN mem[w].approvals \cap (Logged("resolved") \cup settled) = {}
      BY DEF GoneStaysGone
    <2>1. /\ settled \subseteq Logged("purged") \cup Logged("resolved") /\ GoneMemory(w)
      BY DEF GoneInv
    <2>2. Logged("purged") \subseteq Session /\ Logged("resolved") \subseteq Approval
      BY LoggedTypes DEF TypeInv
    <2>3. /\ mem[w].sessions \in Tables(Session, RecordsTo(now))
          /\ mem[w].approvals \in Tables(Approval, ApprovalsTo(now))
      BY WorkerTypes DEF StateOK
    <2>4. DOMAIN mem[w].sessions \subseteq Session
      BY <2>3, TableIs
    <2>5. DOMAIN mem[w].approvals \subseteq Approval
      BY <2>3, TableIs
    <2> QED BY <2>1, <2>2, <2>4, <2>5, MirrorAssumption DEF GoneMemory
  <1> QED BY <1>1, InitTypes, NextTypes, InitBorn, NextBorn, InitGone, NextGone, PTL DEF Spec

-----------------------------------------------------------------------------
(* What was archived stays archived.                                       *)

\* What the Data Space knows to be archived it heard of, and was told.
LEMMA ArchivedHeard ==
    ASSUME log \in Seq(Message)
    PROVE  ArchivedKnown \subseteq Heard /\ ArchivedKnown \subseteq Logged("archived")
  <1>0. PICK n \in Nat : n = Len(log)
    OBVIOUS
  <1>1. DOMAIN log = 1..n
    BY <1>0
  <1>2. ASSUME NEW s \in ArchivedKnown PROVE s \in Heard
    <2>1. PICK j \in 1..n : LoggedBefore(s, j)
      BY <1>1, <1>2 DEF ArchivedKnown
    <2>2. 1..(j - 1) \subseteq 1..(n + 1 - 1)
      BY <1>0
    <2> QED BY <1>0, <1>2, <2>1, <2>2 DEF Heard, LoggedBefore, ArchivedKnown
  <1> QED BY <1>2 DEF ArchivedKnown, Logged

\* It holds at first.
LEMMA InitKnown == Init => KnownInv
  <1> SUFFICES ASSUME Init PROVE KnownInv
    OBVIOUS
  <1>1. PICK old \in SUBSET Session :
          /\ \/ log = <<>> /\ old = {} /\ ReplayMessages(log) = NoReplay
             \/ log = <<Old(old)>> /\ ReplayMessages(log) = FromSnapshot(Old(old))
          /\ \A w \in Inst : /\ file[w] = None \/ file[w] = OldFile(old)
                             /\ mem[w] = NoReplay
          /\ log \in Seq(Message)
    BY FirstState
  <1>2. /\ Old(old).kind = "snapshot" /\ DOMAIN Old(old).sessions = old
        /\ DOMAIN OldFile(old).sessions = old
    BY DEF Old, OldFile
  <1>3. FromSnapshot(Old(old)).sessions = Old(old).sessions
    BY SnapshotParts
  <1>4. DOMAIN NoReplay.sessions = {}
    BY TableEmpty DEF NoReplay
  <1>5. DOMAIN Recalled.sessions = old
    BY <1>1, <1>2, <1>3, <1>4 DEF Recalled
  <1>6. Logged("archived") = {}
    <2>1. CASE log = <<>>
      <3>1. DOMAIN log = {}
        BY <2>1
      <3> QED BY <3>1 DEF Logged
    <2>2. CASE log = <<Old(old)>>
      <3>1. DOMAIN log = {1} /\ log[1] = Old(old)
        BY <2>2
      <3> QED BY <1>2, <3>1 DEF Logged
    <2> QED BY <1>1, <2>1, <2>2
  <1>7. ArchivedKnown = {}
    BY <1>1, <1>6, ArchivedHeard
  <1>8. ASSUME NEW w \in Inst PROVE KnownMemory(w) /\ KnownFile(w)
    <2>1. KnownMemory(w)
      BY <1>1, <1>4 DEF KnownMemory
    <2>2. CASE HasFile(w)
      <3>1. DOMAIN file[w].sessions = old
        BY <1>1, <1>2, <2>2 DEF HasFile
      <3> QED BY <1>5, <1>7, <2>1, <3>1 DEF KnownFile
    <2> QED BY <2>1, <2>2 DEF KnownFile
  <1> QED BY <1>7, <1>8 DEF KnownInv, KnownRecalled

\* A start lets nothing in that the Data Space knows better.
LEMMA KnownStart ==
    ASSUME TypeInv, NEW v \in Inst, KnownRecalled, KnownFile(v),
           StartedFrom(mem'[v], Recalled, v)
    PROVE  \A s \in DOMAIN mem'[v].sessions :
             /\ s \in Heard => s \in DOMAIN Recalled.sessions
             /\ s \in ArchivedKnown => mem'[v].sessions[s].archived
  <1> DEFINE new == mem'[v]  old == Recalled  f == file[v]
  <1>1. TAKE s \in DOMAIN new.sessions
  <1>2. SessionFrom(new.sessions[s], old, v, s)
    BY <1>1 DEF StartedFrom
  <1>3. s \in Heard => s \in DOMAIN old.sessions
    <2>1. SUFFICES ASSUME s \in Heard, s \notin DOMAIN old.sessions PROVE FALSE
      OBVIOUS
    <2>2. /\ HasFile(v) /\ s \in DOMAIN f.sessions
          /\ ~LocalSessionStale(old, s, f.sessions[s])
      BY <1>2, <2>1 DEF SessionFrom
    <2> QED BY <2>1, <2>2 DEF KnownFile, Outdone, LocalSessionStale
  <1>4. s \in ArchivedKnown => new.sessions[s].archived
    <2>1. SUFFICES ASSUME s \in ArchivedKnown PROVE new.sessions[s].archived
      OBVIOUS
    <2>2. s \in DOMAIN old.sessions /\ old.sessions[s].archived
      <3>1. s \in Heard
        BY <2>1, ArchivedHeard DEF TypeInv
      <3> QED BY <1>3, <2>1, <3>1 DEF KnownRecalled
    <2>3. StateOK(old, now) /\ FileOK(f, now) /\ now \in Nat
      BY WorkerTypes DEF Recalled
    <2>4. old.sessions[s] \in RecordsTo(now)
      <3>1. old.sessions \in Tables(Session, RecordsTo(now))
        BY <2>3 DEF StateOK
      <3> QED BY <2>2, <3>1, TableIs
    <2>5. CASE new.sessions[s] \in {old.sessions[s], Claimed(old.sessions[s], v)}
      BY <2>2, <2>4, <2>5, ClaimedOK
    <2>6. CASE /\ HasFile(v) /\ s \in DOMAIN f.sessions
               /\ new.sessions[s] = Claimed(f.sessions[s], v)
               /\ ~BlocksReplacement(old, s, f.sessions[s])
      <3>1. f.sessions \in Tables(Session, RecordsTo(now))
        BY <2>3, <2>6, FileState
      <3>2. f.sessions[s] \in RecordsTo(now)
        BY <2>6, <3>1, TableIs
      <3>3. f.sessions[s].archived
        BY <2>2, <2>6 DEF BlocksReplacement
      <3> QED BY <2>6, <3>2, <3>3, ClaimedOK
    <2> QED BY <1>2, <2>2, <2>5, <2>6 DEF SessionFrom
  <1> QED BY <1>3, <1>4

\* A step that neither logs nor writes the file, nor brings the worker to rest, keeps
\* what is known of the file.
LEMMA KnownFileStays ==
    ASSUME NEW v, KnownFile(v), log' = log, file'[v] = file[v], plan' = plan,
           Resting(v)' /\ FileSafe => Resting(v)
    PROVE  KnownFile(v)'
  <1>1. /\ Recalled' = Recalled /\ Heard' = Heard /\ ArchivedKnown' = ArchivedKnown
    BY LogStays
  <1>2. FileSafe' = FileSafe /\ HasFile(v)' = HasFile(v)
    BY DEF FileSafe, HasFile
  <1> QED BY <1>1, <1>2 DEF KnownFile

\* An event keeps it.
LEMMA KnownEvent ==
    ASSUME TypeInv, NEW v \in Inst, AppendEvent(v), KnownRecalled, KnownMemory(v), KnownFile(v)
    PROVE  KnownRecalled' /\ KnownMemory(v)' /\ KnownFile(v)'
  <1> DEFINE new == Recalled'  old == Recalled  st == mem[v]  f == file[v]
             job == Head(work[v].todo)
             H == Heard  A == ArchivedKnown  H1 == H'  A1 == A'
  <1>1. /\ UNCHANGED <<plan, now, file, born, ended, settled, starts>>
        /\ mem'[v].sessions = mem[v].sessions
        /\ work'[v].pc \in {"snapshot", "local"}
    BY EventStep
  <1>2. HasFile(v)' = HasFile(v) /\ ~Resting(v)' /\ file'[v] = f
    BY <1>1 DEF Resting, HasFile
  <1>3. CASE log' = log
    <2>1. Recalled' = Recalled /\ Heard' = Heard /\ ArchivedKnown' = ArchivedKnown
      BY <1>3, LogStays
    <2>2. KnownFile(v)'
      BY <1>1, <1>2, <1>3, KnownFileStays
    <2> QED BY <1>1, <2>1, <2>2 DEF KnownRecalled, KnownMemory
  <1>4. ASSUME NEW k, Folded(new, old, st, job, k, work[v].gone), Tells(job, k)
        PROVE  KnownRecalled' /\ KnownMemory(v)' /\ KnownFile(v)'
    <2> DEFINE gone == work[v].gone
    <2>1. /\ H1 = H \cup (IF job.do \in {"create", "update"} THEN {k} ELSE {})
          /\ A1 = A \cup (IF job.do = "archive" /\ k \in H THEN {k} ELSE {})
      BY <1>4 DEF Tells
    <2>2. A \subseteq H
      BY ArchivedHeard DEF TypeInv
    <2>3. /\ \A s \in DOMAIN st.sessions : /\ s \in H => s \in DOMAIN old.sessions
                                           /\ s \in A => st.sessions[s].archived
          /\ \A s \in DOMAIN old.sessions : s \in A => old.sessions[s].archived
      BY DEF KnownMemory, KnownRecalled
    <2>4. HasFile(v) => \A s \in DOMAIN f.sessions \cap H :
              \/ s \in DOMAIN old.sessions
              \/ Outdone(s, old.purgedIds, old, f.sessions[s].updated)
      BY DEF KnownFile
    <2>5. Folded(new, old, st, job, k, gone)
      BY <1>4
    <2>6. StateOK(old, now)
      BY WorkerTypes DEF Recalled
    <2>7. \A s \in DOMAIN old.sessions : old.sessions[s] \in RecordsTo(now)
      <3>1. old.sessions \in Tables(Session, RecordsTo(now))
        BY <2>6 DEF StateOK
      <3> QED BY <3>1, TableIs
    <2> HIDE DEF new, old, st, gone, job, f, H, A, H1, A1
    <2>8. /\ Job("create", k).do = "create" /\ Job("update", k).do = "update"
          /\ Job("archive", k).do = "archive" /\ Job("purge", k).do = "purge"
          /\ Job("resolve", k).do = "resolve" /\ Asking(k, st.approvals[k]).do = "request"
      BY Jobs
    <2>9. /\ new.snapAt = old.snapAt
          /\ \A s \in DOMAIN old.sessions :
               s # k => s \in DOMAIN new.sessions /\ new.sessions[s] = old.sessions[s]
          /\ \A s \in DOMAIN new.sessions : s # k => s \in DOMAIN old.sessions
      BY <2>5 DEF Folded
    <2>10. \/ /\ job.do \in {"create", "update"} /\ k \in DOMAIN st.sessions
              /\ k \in DOMAIN new.sessions /\ new.sessions[k] = st.sessions[k]
              /\ new.purgedIds = old.purgedIds
           \/ /\ job.do = "archive"
              /\ k \in DOMAIN st.sessions /\ st.sessions[k].archived
              /\ k \in DOMAIN new.sessions <=> k \in DOMAIN old.sessions
              /\ k \in DOMAIN old.sessions =>
                   new.sessions[k] = [old.sessions[k] EXCEPT !.archived = TRUE]
              /\ new.purgedIds = old.purgedIds
           \/ /\ job.do = "purge" /\ k \notin DOMAIN st.sessions /\ k \notin DOMAIN new.sessions
              /\ new.purgedIds = old.purgedIds \cup {k}
           \/ /\ job.do \in {"resolve", "request"} /\ new.sessions = old.sessions
              /\ new.purgedIds = old.purgedIds
      BY <2>5, <2>8 DEF Folded
    <2>11. \A s \in DOMAIN new.sessions : s \in A1 => new.sessions[s].archived
      <3>1. SUFFICES ASSUME NEW s \in DOMAIN new.sessions, s \in A1
                     PROVE  new.sessions[s].archived
        OBVIOUS
      <3>2. CASE s # k
        BY <2>1, <2>3, <2>9, <3>1, <3>2
      <3>3. CASE s = k /\ job.do = "archive"
        <4>1. /\ k \in DOMAIN old.sessions
              /\ new.sessions[k] = [old.sessions[k] EXCEPT !.archived = TRUE]
          BY <2>10, <3>1, <3>3
        <4>2. old.sessions[k] \in RecordsTo(now)
          BY <2>7, <4>1
        <4> QED BY <3>3, <4>1, <4>2 DEF RecordsTo
      <3>4. CASE s = k /\ job.do # "archive"
        <4>1. s \in A
          BY <2>1, <3>1, <3>4
        <4> QED BY <2>3, <2>10, <3>1, <3>4, <4>1
      <3> QED BY <3>2, <3>3, <3>4
    <2>12. \A s \in DOMAIN st.sessions : /\ s \in H1 => s \in DOMAIN new.sessions
                                         /\ s \in A1 => st.sessions[s].archived
      BY <2>1, <2>3, <2>9, <2>10
    <2>13. HasFile(v) => \A s \in DOMAIN f.sessions \cap H1 :
              \/ s \in DOMAIN new.sessions
              \/ Outdone(s, new.purgedIds, new, f.sessions[s].updated)
      <3>1. SUFFICES ASSUME HasFile(v), NEW s \in DOMAIN f.sessions, s \in H1,
                            s \notin DOMAIN new.sessions
                     PROVE  Outdone(s, new.purgedIds, new, f.sessions[s].updated)
        OBVIOUS
      <3>2. CASE s = k /\ job.do = "purge"
        BY <2>10, <3>2 DEF Outdone
      <3>3. CASE ~(s = k /\ job.do = "purge")
        <4>1. s \in H /\ s \notin DOMAIN old.sessions
          BY <2>1, <2>9, <2>10, <3>1, <3>3
        <4>2. Outdone(s, old.purgedIds, old, f.sessions[s].updated)
          BY <2>4, <3>1, <4>1
        <4> QED BY <2>9, <2>10, <4>2 DEF Outdone, StaleAgainst
      <3> QED BY <3>2, <3>3
    <2>14. KnownRecalled'
      BY <2>11 DEF KnownRecalled, new, A1, A
    <2>15. KnownMemory(v)'
      BY <1>1, <2>12 DEF KnownMemory, new, st, A1, A, H1, H
    <2>16. KnownFile(v)'
      BY <1>2, <2>13 DEF KnownFile, new, f, H1, H
    <2> QED BY <2>14, <2>15, <2>16
  <1> QED BY <1>3, <1>4, EventMeans

\* Every step keeps it.
LEMMA NextKnown ==
    ASSUME OneInstallation
    PROVE  TypeInv /\ BornInv /\ KnownInv /\ LimitHarmless /\ [Next]_vars => KnownInv'
  <1> SUFFICES ASSUME TypeInv, BornInv, KnownInv, LimitHarmless, [Next]_vars PROVE KnownInv'
    OBVIOUS
  <1>1. CASE UNCHANGED vars
    <2>1. plan' = plan /\ log' = log /\ mem' = mem /\ work' = work /\ file' = file
      BY <1>1 DEF vars
    <2> QED BY <2>1, LogStays DEF KnownInv, NeverBehind, KnownRecalled, KnownMemory, KnownFile,
            HasFile, FileSafe, Resting
  <1>2. ASSUME NEW v \in Inst, WorkerNext(v) PROVE KnownInv'
    <2>1. plan' = plan /\ Inst = {v}
      BY <1>2, PlanStays DEF OneInstallation
    <2>2. SUFFICES ASSUME NeverBehind
                   PROVE  KnownRecalled' /\ KnownMemory(v)' /\ KnownFile(v)'
      BY <2>1 DEF KnownInv, NeverBehind
    <2>3. KnownRecalled /\ KnownMemory(v) /\ KnownFile(v)
      BY <2>2 DEF KnownInv
    <2>4. /\ ArchivedKnown \subseteq Heard /\ Heard \subseteq born
          /\ DOMAIN NoReplay.sessions = {}
      BY ArchivedHeard, TableEmpty DEF TypeInv, BornInv, NoReplay
    <2>5. ASSUME log' = log
          PROVE  /\ KnownRecalled' /\ Recalled' = Recalled
                 /\ Heard' = Heard /\ ArchivedKnown' = ArchivedKnown
      BY <2>3, <2>5, LogStays DEF KnownRecalled
    <2>6. ASSUME log' = log, file'[v] = file[v], Resting(v)' /\ FileSafe => Resting(v)
          PROVE  KnownFile(v)'
      BY <2>1, <2>3, <2>6, KnownFileStays
    <2>7. CASE StartFromDataSpace(v)
      <3>1. /\ StartedFrom(mem'[v], Recalled, v)
            /\ UNCHANGED <<plan, log, now, file, born, ended, settled>>
        BY <2>7, DataSpaceStart DEF Recalled
      <3>2. KnownMemory(v)'
        BY <2>3, <2>5, <3>1, KnownStart DEF KnownMemory
      <3>3. Resting(v)
        BY <2>7 DEF StartFromDataSpace, Up, Resting
      <3> QED BY <2>5, <2>6, <3>1, <3>2, <3>3
    <2>8. CASE StartFromFile(v)
      <3>1. FileSafe /\ Resting(v)
        BY <2>2, <2>8, FileStartSafe
      <3>2. PICK st : /\ st = IF file[v] = None THEN NoReplay ELSE FromSnapshot(file[v])
                      /\ DOMAIN mem'[v].sessions = DOMAIN st.sessions
                      /\ \A s \in DOMAIN st.sessions :
                           mem'[v].sessions[s] \in {st.sessions[s], Claimed(st.sessions[s], v)}
        BY <2>8, FileStart
      <3>3. /\ file[v] # Corrupt /\ UNCHANGED <<plan, log, now, file, born, ended, settled>>
        BY <2>8, FileStart
      <3>4. KnownMemory(v)'
        <4>1. CASE file[v] = None
          BY <2>4, <3>2, <4>1 DEF KnownMemory
        <4>2. CASE HasFile(v)
          <5>1. FileOK(file[v], now) /\ now \in Nat
            BY WorkerTypes
          <5>2. /\ st.sessions = file[v].sessions
                /\ file[v].sessions \in Tables(Session, RecordsTo(now))
            BY <3>2, <4>2, <5>1, FileState DEF HasFile
          <5>3. \A s \in DOMAIN st.sessions : st.sessions[s] \in RecordsTo(now)
            BY <5>2, TableIs
          <5>4. ASSUME NEW s \in DOMAIN st.sessions
                PROVE  mem'[v].sessions[s].archived = st.sessions[s].archived
            BY <3>2, <5>3, <5>4, ClaimedOK
          <5> QED BY <2>3, <2>4, <2>5, <3>1, <3>2, <3>3, <4>2, <5>2, <5>4
                  DEF KnownFile, KnownMemory
        <4> QED BY <3>3, <4>1, <4>2 DEF HasFile
      <3> QED BY <2>5, <2>6, <3>1, <3>3, <3>4
    <2>9. CASE AppendEvent(v)
      BY <2>3, <2>9, KnownEvent
    <2>10. CASE AppendSnapshot(v)
      <3>1. /\ UNCHANGED <<plan, now, file, born, ended, settled, starts>>
            /\ mem'[v].sessions = mem[v].sessions /\ work'[v].pc = "local"
        BY <2>10, SnapshotStep
      <3>2. ~Resting(v)' /\ HasFile(v)' = HasFile(v)
        BY <3>1 DEF Resting, HasFile
      <3>3. CASE log' = log
        BY <2>3, <2>5, <2>6, <3>1, <3>2, <3>3 DEF KnownMemory
      <3>4. CASE /\ Recalled'.sessions = mem[v].sessions /\ Recalled'.snapAt = now
                 /\ ArchivedKnown' = ArchivedKnown
        <4>1. KnownRecalled' /\ KnownMemory(v)'
          BY <2>3, <3>1, <3>4 DEF KnownRecalled, KnownMemory
        <4>2. now \in Nat /\ FileOK(file[v], now)
          BY WorkerTypes
        <4>3. now # None
          BY <4>2, MirrorAssumption
        <4>4. ASSUME HasFile(v), NEW s \in DOMAIN file[v].sessions
              PROVE  now >= file[v].sessions[s].updated
          <5>1. file[v].sessions \in Tables(Session, RecordsTo(now))
            BY <4>2, <4>4, FileState
          <5>2. file[v].sessions[s] \in RecordsTo(now)
            BY <4>4, <5>1, TableIs
          <5> QED BY <4>2, <5>2 DEF RecordsTo
        <4>5. KnownFile(v)'
          BY <3>1, <3>2, <3>4, <4>3, <4>4 DEF KnownFile, Outdone, StaleAgainst
        <4> QED BY <4>1, <4>5
      <3> QED BY <2>10, <3>3, <3>4, SnapshotMeansAll
    <2>11. CASE WriteLocal(v)
      <3>1. /\ UNCHANGED <<plan, log, born, ended, starts>>
            /\ file'[v] = LocalFile(v, mem[v], work[v].at)
        BY <2>11, LocalStep
      <3>2. KnownFile(v)'
        <4>1. file'[v].sessions = mem[v].sessions
          BY <3>1 DEF LocalFile
        <4> QED BY <2>3, <2>4, <2>5, <3>1, <4>1 DEF KnownFile, KnownMemory
      <3>3. KnownMemory(v)'
        <4>1. CASE work'[v].pc = "idle"
          <5>1. mem'[v] = mem[v]
            BY <2>11, <4>1, LocalIdle
          <5> QED BY <2>3, <2>5, <3>1, <5>1 DEF KnownMemory
        <4>2. CASE work'[v].pc # "idle"
          <5>1. PICK job, k : Making(v, mem[v], job, k)
            BY <2>11, <4>2, LocalMeans
          <5>2. \A s \in DOMAIN mem'[v].sessions :
                  \/ s \notin born
                  \/ /\ s \in DOMAIN mem[v].sessions
                     /\ mem[v].sessions[s].archived => mem'[v].sessions[s].archived
            BY <5>1, MakingSays
          <5> QED BY <2>3, <2>4, <2>5, <3>1, <5>2 DEF KnownMemory
        <4> QED BY <4>1, <4>2
      <3> QED BY <2>5, <3>1, <3>2, <3>3
    <2>12. CASE FailLocal(v) \/ Stop(v) \/ Crash(v)
      <3>1. /\ UNCHANGED <<plan, log, now, born, ended, settled, starts>>
            /\ file'[v] \in {file[v], Corrupt}
            /\ (file'[v] = file[v] /\ work[v].pc = "idle") \/ ~FileSafe
        BY <2>12, EndStep DEF FileSafe
      <3>2. mem'[v] \in {mem[v], NoReplay}
        <4>1. mem = [w \in Inst |-> mem[w]]
          BY DEF TypeInv
        <4> QED BY <2>12, <4>1 DEF FailLocal, Stop, Crash
      <3>3. KnownMemory(v)'
        BY <2>3, <2>4, <2>5, <3>1, <3>2 DEF KnownMemory
      <3>4. KnownFile(v)'
        <4>1. CASE file'[v] = Corrupt
          BY <4>1 DEF KnownFile, HasFile
        <4>2. CASE file'[v] = file[v]
          BY <2>6, <3>1, <4>2 DEF Resting
        <4> QED BY <3>1, <4>1, <4>2
      <3> QED BY <2>5, <3>1, <3>3, <3>4
    <2>13. CASE AHandler(v)
      <3>1. PICK st, job, k : HandlerMakes(v, st, job, k)
        BY <2>13, HandlerMeans
      <3>2. /\ Making(v, st, job, k) /\ file' = file /\ log' = log /\ work[v].pc = "idle"
        BY <3>1 DEF HandlerMakes, Making
      <3>3. \A s \in DOMAIN mem'[v].sessions :
              \/ s \notin born
              \/ /\ s \in DOMAIN mem[v].sessions
                 /\ mem[v].sessions[s].archived => mem'[v].sessions[s].archived
        BY <3>2, MakingSays
      <3>4. KnownMemory(v)'
        BY <2>3, <2>4, <2>5, <3>2, <3>3 DEF KnownMemory
      <3>5. KnownFile(v)'
        BY <2>6, <3>2 DEF Resting
      <3> QED BY <2>5, <3>2, <3>4, <3>5
    <2> QED BY <1>2, <2>7, <2>8, <2>9, <2>10, <2>11, <2>12, <2>13, StepKinds
  <1> QED BY <1>1, <1>2 DEF Next

\* The types that the runs check are among those proved.
LEMMA TypesMean == TypeInv /\ BornInv => TypeOK
  <1> SUFFICES ASSUME TypeInv, BornInv PROVE TypeOK
    OBVIOUS
  <1>1. /\ plan \in Plans /\ now \in Nat /\ born \subseteq Session \cup Approval
        /\ settled \subseteq ended /\ ended \subseteq born /\ starts \in [Inst -> Nat]
    BY DEF TypeInv, BornInv
  <1>2. ASSUME NEW w \in Inst
        PROVE  /\ work[w].pc \in {"down", "idle", "append", "snapshot", "local"}
               /\ work[w].at \in Nat /\ work[w].gone \subseteq Session \cup Approval
               /\ DOMAIN mem[w].sessions \subseteq Session
               /\ \A s \in DOMAIN mem[w].sessions :
                    mem[w].sessions[s] \in Records /\ mem[w].sessions[s].updated <= now
               /\ DOMAIN mem[w].approvals \subseteq Approval /\ mem[w].count \in Nat
               /\ file[w] \in {None, Corrupt} \/ file[w].at <= now
    <2>1. /\ WorkerOK(mem[w], work[w], file[w], now, ended)
          /\ StateOK(mem[w], now) /\ FileOK(file[w], now)
      BY WorkerTypes
    <2>2. /\ work[w].pc \in {"down", "idle", "append", "snapshot", "local"}
          /\ work[w].at \in Nat /\ work[w].gone \subseteq Session \cup Approval
      BY <1>1, <2>1 DEF WorkerOK
    <2>3. /\ mem[w].sessions \in Tables(Session, RecordsTo(now)) /\ mem[w].count \in Nat
          /\ mem[w].approvals \in Tables(Approval, ApprovalsTo(now))
      BY <2>1 DEF StateOK
    <2>4. /\ DOMAIN mem[w].sessions \subseteq Session
          /\ \A s \in DOMAIN mem[w].sessions : mem[w].sessions[s] \in RecordsTo(now)
      BY <2>3, TableIs
    <2>5. DOMAIN mem[w].approvals \subseteq Approval
      BY <2>3, TableIs
    <2>6. \A r \in RecordsTo(now) : r \in Records /\ r.updated <= now
      BY <1>1 DEF RecordsTo, Records
    <2>7. file[w] \in {None, Corrupt} \/ file[w].at <= now
      BY <1>1, <2>1 DEF FileOK
    <2> QED BY <2>2, <2>3, <2>4, <2>5, <2>6, <2>7
  <1> QED BY <1>1, <1>2 DEF TypeOK

\* Every part of the state has its type, whatever fails and however many installations
\* share the Data Space.
THEOREM MirrorTyped == Spec => []TypeOK
  BY TypesMean, InitTypes, NextTypes, InitBorn, NextBorn, PTL DEF Spec

\* Where one installation is alone, a session that the Data Space had a record of when
\* it was told that it is archived is archived in every later start, also where appends
\* fail (remote_session_blocks_local_replacement).
THEOREM ArchivedForGood ==
    ASSUME OneInstallation
    PROVE  Spec /\ []LimitHarmless => []RecordInv
  <1>1. KnownInv => ArchivedRecordStays
    BY DEF KnownInv, KnownMemory, ArchivedRecordStays
  <1>2. TypeInv /\ BornInv /\ KnownInv => RecordInv
    BY <1>1, TypesMean DEF RecordInv
  <1> QED BY <1>2, InitTypes, NextTypes, InitBorn, NextBorn, InitKnown, NextKnown, PTL DEF Spec

-----------------------------------------------------------------------------
(* The Data Space alone gives the table back.                              *)

\* The change and the event that says it name one key.
LEMMA OneKey ==
    ASSUME NEW new, NEW st, NEW w, NEW job, NEW k, NEW t, Made(new, st, w, job, k, t),
           NEW said, NEW old, NEW seen, NEW j, NEW gone, Folded(said, old, seen, job, j, gone)
    PROVE  /\ j = k
           /\ job.do \in {"create", "update", "archive", "purge", "resolve", "request"}
  <1>1. \A i, x : /\ Job("create", i).id = i /\ Job("update", i).id = i
                  /\ Job("archive", i).id = i /\ Job("purge", i).id = i
                  /\ Job("resolve", i).id = i /\ Asking(i, x).id = i
    BY DEF Job, Asking
  <1>2. \A i, x : /\ Job("create", i).do = "create" /\ Job("update", i).do = "update"
                  /\ Job("archive", i).do = "archive" /\ Job("purge", i).do = "purge"
                  /\ Job("resolve", i).do = "resolve" /\ Asking(i, x).do = "request"
                  /\ Sweep.do = "snapshot"
    BY Jobs
  <1>3. /\ job.id = j
        /\ job.do \in {"create", "update", "archive", "purge", "resolve", "request"}
    BY <1>1, <1>2 DEF Folded
  <1>4. job.id = k \/ job.do = "snapshot"
    BY <1>1, <1>2 DEF Made
  <1> QED BY <1>3, <1>4

\* A table that matched matches what is made of it, once that is said.
LEMMA SaidSessions ==
    ASSUME NEW t, NEW old, StateOK(old, t), NEW st, NEW mine, StateOK(mine, t),
           st.sessions = mine.sessions, SameSessions(old.sessions, st.sessions),
           NEW new, NEW w, NEW job, NEW k, NEW u, Made(new, st, w, job, k, u),
           NEW said, NEW gone, Folded(said, old, new, job, k, gone)
    PROVE  SameSessions(said.sessions, new.sessions)
  <1>1. /\ DOMAIN old.sessions = DOMAIN st.sessions
        /\ \A s \in DOMAIN st.sessions : SameRecord(old.sessions[s], st.sessions[s])
    BY DEF SameSessions
  <1>2. /\ \A s \in DOMAIN old.sessions : old.sessions[s] \in RecordsTo(t)
        /\ \A s \in DOMAIN st.sessions : st.sessions[s] \in RecordsTo(t)
    <2>1. old.sessions \in Tables(Session, RecordsTo(t))
      BY DEF StateOK
    <2>2. st.sessions \in Tables(Session, RecordsTo(t))
      BY DEF StateOK
    <2>3. \A s \in DOMAIN old.sessions : old.sessions[s] \in RecordsTo(t)
      BY <2>1, TableIs
    <2>4. \A s \in DOMAIN st.sessions : st.sessions[s] \in RecordsTo(t)
      BY <2>2, TableIs
    <2> QED BY <2>3, <2>4
  <1>3. /\ \A s \in DOMAIN st.sessions :
             s # k => s \in DOMAIN new.sessions /\ new.sessions[s] = st.sessions[s]
        /\ \A s \in DOMAIN new.sessions : s # k => s \in DOMAIN st.sessions
    BY DEF Made
  <1>4. /\ \A s \in DOMAIN old.sessions :
             s # k => s \in DOMAIN said.sessions /\ said.sessions[s] = old.sessions[s]
        /\ \A s \in DOMAIN said.sessions : s # k => s \in DOMAIN old.sessions
    BY DEF Folded
  <1>5. /\ \A s : s # k => (s \in DOMAIN said.sessions <=> s \in DOMAIN new.sessions)
        /\ \A s \in DOMAIN said.sessions :
             s # k => SameRecord(said.sessions[s], new.sessions[s])
    BY <1>1, <1>3, <1>4
  <1>6. \A x : SameRecord(x, x)
    BY DEF SameRecord
  <1>7. /\ Job("create", k).do = "create" /\ Job("update", k).do = "update"
        /\ Job("archive", k).do = "archive" /\ Job("purge", k).do = "purge"
        /\ Job("resolve", k).do = "resolve" /\ Sweep.do = "snapshot"
        /\ \A x : Asking(k, x).do = "request"
    BY Jobs
  <1>8. /\ k \in DOMAIN said.sessions <=> k \in DOMAIN new.sessions
        /\ k \in DOMAIN said.sessions => SameRecord(said.sessions[k], new.sessions[k])
    <2>1. CASE job.do \in {"create", "update"}
      <3>1. /\ k \in DOMAIN new.sessions /\ k \in DOMAIN said.sessions
            /\ said.sessions[k] = new.sessions[k]
        BY <1>7, <2>1 DEF Folded
      <3> QED BY <1>6, <3>1
    <2>2. CASE job.do = "archive"
      <3>1. /\ k \in DOMAIN said.sessions <=> k \in DOMAIN old.sessions
            /\ k \in DOMAIN old.sessions =>
                 said.sessions[k] = [old.sessions[k] EXCEPT !.archived = TRUE]
        BY <1>7, <2>2 DEF Folded
      <3>2. /\ k \in DOMAIN st.sessions /\ k \in DOMAIN new.sessions
            /\ new.sessions[k] = [st.sessions[k] EXCEPT !.updated = u, !.archived = TRUE]
        BY <1>7, <2>2 DEF Made
      <3>3. SameRecord(old.sessions[k], st.sessions[k])
        BY <1>1, <3>2
      <3>4. old.sessions[k] \in RecordsTo(t) /\ st.sessions[k] \in RecordsTo(t)
        BY <1>1, <1>2, <3>2
      <3>5. SameRecord([old.sessions[k] EXCEPT !.archived = TRUE],
                       [st.sessions[k] EXCEPT !.updated = u, !.archived = TRUE])
        <4> DEFINE x == old.sessions[k]  y == st.sessions[k]
        <4>1. x \in RecordsTo(t) /\ y \in RecordsTo(t) /\ SameRecord(x, y)
          BY <3>3, <3>4
        <4> HIDE DEF x, y
        <4>2. SameRecord([x EXCEPT !.archived = TRUE],
                         [y EXCEPT !.updated = u, !.archived = TRUE])
          BY <4>1 DEF RecordsTo, SameRecord
        <4> QED BY <4>2 DEF x, y
      <3> QED BY <1>1, <3>1, <3>2, <3>5
    <2>3. CASE job.do = "purge"
      <3>1. k \notin DOMAIN said.sessions
        BY <1>7, <2>3 DEF Folded
      <3>2. k \notin DOMAIN new.sessions
        BY <1>7, <2>3 DEF Made
      <3> QED BY <3>1, <3>2
    <2>4. CASE job.do \in {"resolve", "request"}
      <3>1. said.sessions = old.sessions
        BY <1>7, <2>4 DEF Folded
      <3>2. new.sessions = st.sessions
        BY <1>7, <2>4 DEF Made
      <3> QED BY <1>1, <3>1, <3>2
    <2> QED BY <2>1, <2>2, <2>3, <2>4, OneKey
  <1> QED BY <1>5, <1>8 DEF SameSessions

\* So do the approvals that were the same.
LEMMA SaidApprovals ==
    ASSUME NEW t, NEW old, NEW st, old.approvals = st.approvals,
           NEW new, NEW w, NEW job, NEW k, NEW u, Made(new, st, w, job, k, u),
           NEW said, NEW gone, Folded(said, old, new, job, k, gone), job.do # "request"
    PROVE  said.approvals = new.approvals
  <1>1. /\ Job("create", k).do = "create" /\ Job("update", k).do = "update"
        /\ Job("archive", k).do = "archive" /\ Job("purge", k).do = "purge"
        /\ Job("resolve", k).do = "resolve" /\ Sweep.do = "snapshot"
        /\ \A x : Asking(k, x).do = "request"
    BY Jobs
  <1>2. CASE job.do \in {"create", "update"}
    <2>1. said.approvals = old.approvals
      BY <1>1, <1>2 DEF Folded
    <2>2. new.approvals = st.approvals
      BY <1>1, <1>2 DEF Made
    <2> QED BY <2>1, <2>2
  <1>3. CASE job.do \in {"archive", "purge"}
    <2>1. said.approvals = Drop(old.approvals, ApprovalsOf(old.approvals, k))
      BY <1>1, <1>3 DEF Folded
    <2>2. new.approvals = Drop(st.approvals, ApprovalsOf(st.approvals, k))
      BY <1>1, <1>3 DEF Made
    <2> QED BY <2>1, <2>2
  <1>4. CASE job.do = "resolve"
    <2>1. said.approvals = Drop(old.approvals, {k})
      BY <1>1, <1>4 DEF Folded
    <2>2. new.approvals = Drop(st.approvals, {k})
      BY <1>1, <1>4 DEF Made
    <2> QED BY <2>1, <2>2
  <1> QED BY <1>2, <1>3, <1>4, OneKey

\* Putting back what is there, or was taken out.
LEMMA PutBack ==
    ASSUME NEW f, IsTable(f), NEW a
    PROVE  /\ a \in DOMAIN f => Put(f, a, f[a]) = f /\ Put(Drop(f, {a}), a, f[a]) = f
           /\ a \notin DOMAIN f => \A x : Drop(Put(f, a, x), {a}) = f
  <1> DEFINE D == DOMAIN f
  <1>1. f = [b \in D |-> f[b]]
    BY DEF IsTable
  <1> HIDE DEF D
  <1>2. ASSUME a \in D PROVE Put(f, a, f[a]) = f
    <2>1. Put(f, a, f[a]) = [b \in D \cup {a} |-> IF b = a THEN f[a] ELSE f[b]]
      BY DEF Put, D
    <2>2. D \cup {a} = D
      BY <1>2
    <2>3. [b \in D |-> IF b = a THEN f[a] ELSE f[b]] = [b \in D |-> f[b]]
      OBVIOUS
    <2> QED BY <1>1, <2>1, <2>2, <2>3
  <1>3. ASSUME a \in D PROVE Put(Drop(f, {a}), a, f[a]) = f
    <2> DEFINE g == Drop(f, {a})
    <2>1. g = [b \in D \ {a} |-> f[b]]
      BY DEF Drop, Restrict, D
    <2>2. Put(g, a, f[a]) = [b \in DOMAIN g \cup {a} |-> IF b = a THEN f[a] ELSE g[b]]
      BY DEF Put
    <2> HIDE DEF g
    <2>3. DOMAIN g \cup {a} = D
      BY <1>3, <2>1
    <2>4. [b \in D |-> IF b = a THEN f[a] ELSE g[b]] = [b \in D |-> f[b]]
      BY <2>1
    <2> QED BY <1>1, <2>2, <2>3, <2>4 DEF g
  <1>4. ASSUME a \notin D, NEW x PROVE Drop(Put(f, a, x), {a}) = f
    <2> DEFINE g == Put(f, a, x)
    <2>1. g = [b \in D \cup {a} |-> IF b = a THEN x ELSE f[b]]
      BY DEF Put, D
    <2>2. Drop(g, {a}) = [b \in DOMAIN g \ {a} |-> g[b]]
      BY DEF Drop, Restrict
    <2> HIDE DEF g
    <2>3. DOMAIN g \ {a} = D
      BY <1>4, <2>1
    <2>4. [b \in D |-> g[b]] = [b \in D |-> f[b]]
      BY <1>4, <2>1
    <2> QED BY <1>1, <2>2, <2>3, <2>4 DEF g
  <1> QED BY <1>2, <1>3, <1>4 DEF D

\* A worker makes a job: what it is about to say brings the Data Space up to it.
LEMMA MakingCompletes ==
    ASSUME TypeInv, TypeInv', NEW v \in Inst, NEW st, NEW job, NEW k, Making(v, st, job, k),
           SameSessions(Recalled.sessions, mem[v].sessions), Recalled.count = mem[v].count,
           job.do # "snapshot"
    PROVE  LET said == StepReplay(Recalled, Event(mem'[v], Head(work'[v].todo))) IN
           /\ Recalled' = Recalled /\ Recalled'.count = mem'[v].count
           /\ Head(work'[v].todo) = job /\ work'[v].pc = "append"
           /\ SameSessions(said.sessions, mem'[v].sessions)
           /\ Folded(said, Recalled, mem'[v], job, k, work'[v].gone)
           /\ job.do # "request" /\ Recalled.approvals = st.approvals =>
                said.approvals = mem'[v].approvals
  <1> DEFINE new == mem'[v]  wk == work'[v]  old == Recalled  mine == mem[v]
             said == StepReplay(old, Event(new, Head(wk.todo)))
  <1>1. /\ Made(new, st, v, job, k, now') /\ wk.pc = "append" /\ Head(wk.todo) = job
        /\ st.sessions = mine.sessions /\ st.count = mine.count /\ log' = log
    BY DEF Making
  <1>2. Recalled' = old
    BY <1>1 DEF Recalled
  <1>3. /\ WorkerOK(new, wk, file'[v], now', ended') /\ now' \in Nat
        /\ StateOK(Recalled', now')
    BY DEF TypeInv, Recalled
  <1>4. StateOK(new, now') /\ StateOK(old, now')
    BY <1>2, <1>3 DEF WorkerOK
  <1>5. StateOK(old, now) /\ StateOK(mine, now)
    BY WorkerTypes DEF Recalled
  <1>6. SameSessions(old.sessions, st.sessions) /\ old.count = mine.count
    BY <1>1
  <1> HIDE DEF new, wk, old, mine
  <1>7. PICK j : Saying(new, wk, j)
    BY <1>1, <1>3, HeadSays
  <1>8. Folded(said, old, new, job, j, wk.gone)
    BY <1>1, <1>3, <1>4, <1>7, FoldedStep
  <1> HIDE DEF said
  <1>9. Folded(said, old, new, job, k, wk.gone)
    BY <1>1, <1>8, OneKey
  <1>10. SameSessions(said.sessions, new.sessions)
    BY <1>1, <1>5, <1>6, <1>9, SaidSessions
  <1>11. job.do # "request" /\ old.approvals = st.approvals => said.approvals = new.approvals
    BY <1>1, <1>9, SaidApprovals
  <1>12. old.count = new.count
    BY <1>1, <1>6 DEF Made
  <1> QED BY <1>1, <1>2, <1>9, <1>10, <1>11, <1>12 DEF new, wk, old, mine, said

\* A handler.
LEMMA HandlerCompletes ==
    ASSUME TypeInv, TypeInv', BornInv, NEW v \in Inst, NEW st, NEW job, NEW k,
           HandlerMakes(v, st, job, k), CompleteFor(v)
    PROVE  CompleteFor(v)'
  <1> DEFINE new == mem'[v]  wk == work'[v]  old == Recalled  mine == mem[v]
             said == StepReplay(old, Event(new, Head(wk.todo)))
  <1>1. /\ Making(v, st, job, k) /\ work[v].pc = "idle"
        /\ wk.gone = (IF job.do \in {"purge", "resolve"} THEN {k} ELSE {})
        /\ job.do \notin {"snapshot", "request"}
    BY DEF HandlerMakes
  <1>2. work[v].todo = <<>>
    BY <1>1, WorkerTypes DEF WorkerOK, InHand, Idle
  <1>3. /\ SameSessions(old.sessions, mine.sessions) /\ old.count = mine.count
        /\ old.approvals = mine.approvals
    <2>1. Matches(v, old.sessions, old.approvals, old.count)
      BY <1>1 DEF CompleteFor
    <2>2. \A s, a : ~Preparing(work[v], mine, s, a)
      BY <1>2, ShortTodos DEF Preparing
    <2> QED BY <2>1, <2>2 DEF Matches
  <1>4. /\ Recalled' = old /\ Recalled'.count = new.count
        /\ Head(wk.todo) = job /\ wk.pc = "append"
        /\ SameSessions(said.sessions, new.sessions)
        /\ Folded(said, old, new, job, k, wk.gone)
        /\ old.approvals = st.approvals => said.approvals = new.approvals
    BY <1>1, <1>3, MakingCompletes
  <1>5. \/ said.approvals = new.approvals
        \/ \E s \in Session, a \in DOMAIN new.approvals :
             Preparing(wk, new, s, a) /\ said.approvals = Drop(new.approvals, {a})
    <2>1. CASE st.approvals = mine.approvals
      BY <1>3, <1>4, <2>1
    <2>2. ASSUME NEW a \in Approval \ born, NEW x, st.approvals = Put(mine.approvals, a, x),
                 job = Job("update", k), wk.todo = <<job, Asking(a, x)>>
          PROVE  \E s \in Session, b \in DOMAIN new.approvals :
                   Preparing(wk, new, s, b) /\ said.approvals = Drop(new.approvals, {b})
      <3>1. mine.approvals \in Tables(Approval, ApprovalsTo(now)) /\ a \notin DOMAIN mine.approvals
        BY <2>2, WorkerTypes DEF StateOK, BornInv, KeysIn
      <3>2. IsTable(mine.approvals)
        BY <3>1, TableIs
      <3>3. Made(new, st, v, job, k, now')
        BY <1>1 DEF Making
      <3> HIDE DEF new, wk, old, mine, said
      <3>4. Job("update", k).do = "update" /\ Job("create", k).do = "create"
            /\ Job("archive", k).do = "archive" /\ Job("purge", k).do = "purge"
            /\ Job("resolve", k).do = "resolve" /\ Sweep.do = "snapshot"
            /\ \A y : Asking(k, y).do = "request"
        BY Jobs
      <3>5. /\ new.approvals = st.approvals /\ k \in DOMAIN new.sessions
        BY <2>2, <3>3, <3>4 DEF Made
      <3>6. said.approvals = old.approvals /\ k \in Session
        BY <1>4, <2>2, <3>4 DEF Folded
      <3>7. a \in DOMAIN new.approvals /\ new.approvals[a] = x
        BY <2>2, <3>5 DEF Put
      <3>8. said.approvals = Drop(new.approvals, {a})
        <4>1. Drop(Put(mine.approvals, a, x), {a}) = mine.approvals
          BY <3>1, <3>2, PutBack
        <4> QED BY <1>3, <2>2, <3>5, <3>6, <4>1
      <3>9. Preparing(wk, new, k, a)
        BY <1>1, <2>2, <3>4, <3>5, <3>7 DEF Preparing, wk
      <3> QED BY <3>6, <3>7, <3>8, <3>9
    <2> QED BY <1>1, <2>1, <2>2 DEF Making
  <1>6. CompleteFor(v)' = (/\ SameSessions(said.sessions, new.sessions)
                           /\ \/ said.approvals = new.approvals
                              \/ \E s \in Session, a \in DOMAIN new.approvals :
                                   /\ Preparing(wk, new, s, a)
                                   /\ said.approvals = Drop(new.approvals, {a}))
    BY <1>4 DEF CompleteFor, Matches, ToBeSaid
  <1> QED BY <1>4, <1>5, <1>6

\* The file is written: the next job is made, if there is one.
LEMMA LocalCompletes ==
    ASSUME TypeInv, NEW v \in Inst, WriteLocal(v), CompleteFor(v)
    PROVE  CompleteFor(v)'
  <1> DEFINE new == mem'[v]  wk == work'[v]  old == Recalled  mine == mem[v]
             said == StepReplay(old, Event(new, Head(wk.todo)))
  <1>1. /\ TypeInv' /\ log' = log /\ work[v].pc = "local"
    BY LocalStep
  <1>2. Recalled' = old
    BY <1>1 DEF Recalled
  <1>3. Matches(v, old.sessions, old.approvals, old.count)
    BY <1>1 DEF CompleteFor
  <1>4. SameSessions(old.sessions, mine.sessions) /\ old.count = mine.count
    BY <1>3 DEF Matches
  <1>5. CASE wk.pc = "idle"
    <2>1. new = mine
      BY <1>5, LocalIdle
    <2>2. work[v].todo = <<>> \/ Tail(work[v].todo) = <<>>
      BY <1>5, LocalIdle
    <2>3. ASSUME NEW s, NEW a, Preparing(work[v], mine, s, a) PROVE FALSE
      <3>1. \E x, y : work[v].todo = <<x, y>>
        BY <2>3 DEF Preparing
      <3> QED BY <2>2, <3>1, ShortTodos
    <2>4. old.approvals = mine.approvals
      BY <1>3, <2>3 DEF Matches
    <2>5. Matches(v, Recalled.sessions, Recalled.approvals, Recalled.count)'
      BY <1>2, <1>4, <2>1, <2>4 DEF Matches
    <2> QED BY <1>5, <2>5 DEF CompleteFor
  <1>6. CASE wk.pc # "idle"
    <2>1. /\ wk.todo = Tail(work[v].todo)
          /\ \E job, k : Making(v, mine, job, k) /\ job.do \in {"update", "request", "snapshot"}
      BY <1>6, LocalMeans
    <2>2. PICK job, k : Making(v, mine, job, k) /\ job.do \in {"update", "request", "snapshot"}
      BY <2>1
    <2>3. CASE job.do = "snapshot"
      <3>1. wk.pc = "snapshot"
        BY <2>2, <2>3 DEF Making
      <3> QED BY <3>1 DEF CompleteFor
    <2>4. CASE job.do # "snapshot"
      <3>1. /\ Recalled' = old /\ Recalled'.count = new.count
            /\ Head(wk.todo) = job /\ wk.pc = "append"
            /\ SameSessions(said.sessions, new.sessions)
            /\ Folded(said, old, new, job, k, wk.gone)
            /\ job.do # "request" /\ old.approvals = mine.approvals =>
                 said.approvals = new.approvals
        BY <1>1, <1>4, <2>2, <2>4, MakingCompletes
      <3>2. said.approvals = new.approvals
        <4>1. mine.approvals \in Tables(Approval, ApprovalsTo(now))
          BY WorkerTypes DEF StateOK
        <4>2. IsTable(mine.approvals)
          BY <4>1, TableIs
        <4>3. Made(new, mine, v, job, k, now')
          BY <2>2 DEF Making
        <4>4. \/ old.approvals = mine.approvals
              \/ \E s \in Session, a \in DOMAIN mine.approvals :
                   /\ Preparing(work[v], mine, s, a)
                   /\ old.approvals = Drop(mine.approvals, {a})
          BY <1>3 DEF Matches
        <4> HIDE DEF new, old, mine, said, wk
        <4>5. /\ Job("update", k).do = "update" /\ Job("create", k).do = "create"
              /\ Job("archive", k).do = "archive" /\ Job("purge", k).do = "purge"
              /\ Job("resolve", k).do = "resolve" /\ Sweep.do = "snapshot"
              /\ \A y : Asking(k, y).do = "request"
          BY Jobs
        <4>6. CASE job.do # "request"
          <5>1. \A s, a : ~Preparing(work[v], mine, s, a)
            <6>1. SUFFICES ASSUME NEW s, NEW a, Preparing(work[v], mine, s, a) PROVE FALSE
              OBVIOUS
            <6>2. wk.todo = <<Asking(a, mine.approvals[a])>>
              BY <2>1, <6>1, ShortTodos DEF Preparing, wk
            <6>3. job = Asking(a, mine.approvals[a])
              BY <3>1, <6>2, ShortTodos
            <6> QED BY <4>6, <6>3, Jobs
          <5> QED BY <3>1, <4>4, <4>6, <5>1
        <4>7. CASE job.do = "request"
          <5>1. /\ job = Asking(k, mine.approvals[k]) /\ k \in DOMAIN mine.approvals
                /\ new.approvals = mine.approvals
            BY <4>3, <4>5, <4>7 DEF Made
          <5>2. said.approvals = Put(old.approvals, k, mine.approvals[k])
            BY <3>1, <4>5, <4>7, <5>1 DEF Folded
          <5>3. CASE old.approvals = mine.approvals
            BY <4>2, <5>1, <5>2, <5>3, PutBack
          <5>4. ASSUME NEW s, NEW a, Preparing(work[v], mine, s, a),
                       old.approvals = Drop(mine.approvals, {a})
                PROVE  said.approvals = new.approvals
            <6>1. wk.todo = <<Asking(a, mine.approvals[a])>>
              BY <2>1, <5>4, ShortTodos DEF Preparing, wk
            <6>2. job = Asking(a, mine.approvals[a])
              BY <3>1, <6>1, ShortTodos
            <6>3. a = k
              BY <5>1, <6>2 DEF Asking
            <6> QED BY <4>2, <5>1, <5>2, <5>4, <6>3, PutBack
          <5> QED BY <4>4, <5>3, <5>4
        <4> QED BY <4>6, <4>7
      <3> QED BY <3>1, <3>2 DEF CompleteFor, Matches, ToBeSaid
    <2> QED BY <2>3, <2>4
  <1> QED BY <1>5, <1>6

\* It holds at first, when no worker runs.
LEMMA InitComplete == Init => CompleteInv
  <1> SUFFICES ASSUME Init PROVE CompleteInv
    OBVIOUS
  <1>1. \A w \in Inst : work[w].pc = "down"
    BY DEF Init, Off
  <1> QED BY <1>1 DEF CompleteInv, CompleteFor

\* Every step keeps it.
LEMMA NextComplete ==
    ASSUME OneInstallation
    PROVE  TypeInv /\ BornInv /\ CompleteInv /\ ~ReachesPageLimit(log) /\ [Next]_vars
             => CompleteInv'
  <1> SUFFICES ASSUME TypeInv, BornInv, CompleteInv, ~ReachesPageLimit(log), [Next]_vars
               PROVE  CompleteInv'
    OBVIOUS
  <1>1. CASE UNCHANGED vars
    <2>1. plan' = plan /\ log' = log /\ mem' = mem /\ work' = work
      BY <1>1 DEF vars
    <2> QED BY <2>1 DEF CompleteInv, CompleteFor, Matches, ToBeSaid, Recalled
  <1>2. ASSUME NEW v \in Inst, WorkerNext(v) PROVE CompleteInv'
    <2>1. plan' = plan /\ Inst = {v}
      BY <1>2, PlanStays DEF OneInstallation
    <2>2. SUFFICES ASSUME plan.faults \subseteq {"crash"} PROVE CompleteFor(v)'
      BY <2>1 DEF CompleteInv
    <2>3. CompleteFor(v) /\ TypeInv'
      BY <2>2, NextTypes DEF CompleteInv
    <2>4. CASE StartFromDataSpace(v)
      <3>1. /\ work'[v].pc \in {"idle", "snapshot"} /\ log' = log
            /\ work'[v].pc = "idle" => mem'[v] = Recalled
        BY <2>4, DataSpaceStart DEF Recalled
      <3>2. Recalled' = Recalled
        BY <3>1 DEF Recalled
      <3>3. \A f : SameSessions(f, f)
        BY DEF SameSessions, SameRecord
      <3> QED BY <3>1, <3>2, <3>3 DEF CompleteFor, Matches
    <2>5. ~StartFromFile(v)
      BY <2>2 DEF StartFromFile
    <2>6. CASE AppendEvent(v)
      <3> DEFINE new == Recalled'  old == Recalled  m == Event(mem[v], Head(work[v].todo))
      <3>1. /\ mem'[v].sessions = mem[v].sessions /\ mem'[v].approvals = mem[v].approvals
            /\ mem'[v].count = mem[v].count + 1
            /\ work'[v].pc \in {"snapshot", "local"} /\ work[v].pc = "append"
            /\ work'[v] = [pc |-> work'[v].pc, todo |-> work[v].todo, at |-> now,
                           gone |-> work[v].gone]
            /\ "append" \notin plan.faults => /\ IsEvent(m)
                                              /\ ReplayMessages(log') = StepReplay(old, m)
        BY <2>6, EventStep DEF Recalled
      <3>2. work'[v].todo = work[v].todo /\ work'[v].gone = work[v].gone
        BY <3>1
      <3>3. new = StepReplay(old, m) /\ new = ToBeSaid(v)
        BY <2>2, <3>1 DEF Recalled, ToBeSaid
      <3>4. new.count = old.count + 1
        <4>1. PICK k : Folded(new, old, mem[v], Head(work[v].todo), k, work[v].gone)
          <5>1. "append" \notin plan.faults
            BY <2>2
          <5> QED BY <2>6, <5>1, EventMeans
        <4> QED BY <4>1 DEF Folded
      <3>5. /\ Matches(v, new.sessions, new.approvals, mem[v].count)
            /\ old.count = mem[v].count
        BY <2>3, <3>1, <3>3 DEF CompleteFor
      <3>6. /\ SameSessions(new.sessions, mem'[v].sessions) /\ new.count = mem'[v].count
        BY <3>1, <3>4, <3>5 DEF Matches
      <3>7. \/ new.approvals = mem'[v].approvals
            \/ \E s \in Session, a \in DOMAIN mem'[v].approvals :
                 /\ Preparing(work'[v], mem'[v], s, a)
                 /\ new.approvals = Drop(mem'[v].approvals, {a})
        <4>1. \A s, a : Preparing(work[v], mem[v], s, a) => Preparing(work'[v], mem'[v], s, a)
          BY <3>1, <3>2 DEF Preparing
        <4> QED BY <3>1, <3>5, <4>1 DEF Matches
      <3> HIDE DEF new
      <3>8. work'[v].pc # "append"
        BY <3>1
      <3> QED BY <3>6, <3>7, <3>8 DEF CompleteFor, Matches, new
    <2>7. CASE AppendSnapshot(v)
      <3>1. /\ Recalled'.sessions = mem[v].sessions /\ Recalled'.approvals = mem[v].approvals
            /\ Recalled'.count = 0
        BY <2>2, <2>7, SnapshotMeansAll
      <3>2. /\ mem'[v].sessions = mem[v].sessions /\ mem'[v].approvals = mem[v].approvals
            /\ mem'[v].count = 0 /\ work'[v].pc = "local"
        BY <2>7, SnapshotStep
      <3>3. \A f : SameSessions(f, f)
        BY DEF SameSessions, SameRecord
      <3> QED BY <3>1, <3>2, <3>3 DEF CompleteFor, Matches
    <2>8. CASE WriteLocal(v)
      BY <2>3, <2>8, LocalCompletes
    <2>9. CASE FailLocal(v) \/ Stop(v) \/ Crash(v)
      <3>1. \/ work'[v] = [pc |-> "idle", todo |-> <<>>, at |-> 0, gone |-> {}]
               /\ "local" \in plan.faults
            \/ work'[v] = [pc |-> "down", todo |-> <<>>, at |-> 0, gone |-> {}]
        BY <2>9, EndStep
      <3>2. work'[v].pc = "down"
        BY <2>2, <3>1
      <3> QED BY <3>2 DEF CompleteFor
    <2>10. CASE AHandler(v)
      BY <2>3, <2>10, HandlerMeans, HandlerCompletes
    <2> QED BY <1>2, <2>4, <2>5, <2>6, <2>7, <2>8, <2>9, <2>10, StepKinds
  <1> QED BY <1>1, <1>2 DEF Next

\* Where one installation is alone, nothing but its worker fails and the room can be read
\* to its end, the Data Space alone gives the table of a worker that rests back, but for
\* the stamp of an archived session (persist_event, apply).
THEOREM CompleteWithoutFile ==
    ASSUME OneInstallation
    PROVE  Spec /\ []~ReachesPageLimit(log) => []DataSpaceIsComplete
  <1>1. TypeInv /\ CompleteInv => DataSpaceIsComplete
    <2> SUFFICES ASSUME TypeInv, CompleteInv, NEW w \in Inst, plan.faults \subseteq {"crash"},
                        work[w].pc = "idle"
                 PROVE  LET st == Replay(log) IN
                        /\ Unstamped(st.sessions) = Unstamped(mem[w].sessions)
                        /\ st.approvals = mem[w].approvals
                        /\ st.count = mem[w].count
      BY DEF DataSpaceIsComplete
    <2> DEFINE f == Recalled.sessions  g == mem[w].sessions
    <2>1. Replay(log) = Recalled
      BY WorkerTypes DEF Recalled
    <2>2. work[w].todo = <<>>
      BY WorkerTypes DEF WorkerOK, InHand, Idle
    <2>3. \A s, a : ~Preparing(work[w], mem[w], s, a)
      BY <2>2, ShortTodos DEF Preparing
    <2>4. /\ SameSessions(f, g) /\ Recalled.count = mem[w].count
          /\ Recalled.approvals = mem[w].approvals
      BY <2>3 DEF CompleteInv, CompleteFor, Matches
    <2>5. StateOK(Recalled, now) /\ StateOK(mem[w], now)
      BY WorkerTypes DEF Recalled
    <2>6. f \in Tables(Session, RecordsTo(now)) /\ g \in Tables(Session, RecordsTo(now))
      BY <2>5 DEF StateOK
    <2> HIDE DEF f, g
    <2>7. \A s \in DOMAIN f : f[s] \in RecordsTo(now)
      BY <2>6, TableIs
    <2>8. \A s \in DOMAIN g : g[s] \in RecordsTo(now)
      BY <2>6, TableIs
    <2>9. ASSUME NEW s \in DOMAIN f
          PROVE  (IF f[s].archived THEN [f[s] EXCEPT !.updated = 0] ELSE f[s]) =
                 (IF g[s].archived THEN [g[s] EXCEPT !.updated = 0] ELSE g[s])
      <3> DEFINE x == f[s]  y == g[s]
      <3>1. SameRecord(x, y) /\ x \in RecordsTo(now) /\ y \in RecordsTo(now)
        BY <2>4, <2>7, <2>8 DEF SameSessions
      <3> HIDE DEF x, y
      <3>2. (IF x.archived THEN [x EXCEPT !.updated = 0] ELSE x) =
            (IF y.archived THEN [y EXCEPT !.updated = 0] ELSE y)
        BY <3>1 DEF SameRecord, RecordsTo
      <3> QED BY <3>2 DEF x, y
    <2>10. Unstamped(f) = Unstamped(g)
      BY <2>4, <2>9 DEF Unstamped, SameSessions
    <2> QED BY <2>1, <2>4, <2>10 DEF f, g
  <1> QED BY <1>1, InitTypes, NextTypes, InitBorn, NextBorn, InitComplete, NextComplete,
          PTL DEF Spec

-----------------------------------------------------------------------------
(* What a file has survives a start.                                       *)

\* A record that the Data Space has not is the installation's own, and newer than the
\* last snapshot.
Unheard(r, w, s, x) ==
    s \notin DOMAIN r.sessions => BelongsTo(x, w) /\ ~StaleAgainst(r, x.updated)

\* Where only one of the record and the Data Space is archived, that one is the newer;
\* or the Data Space was told.
Ahead(r, s, x) ==
    s \in DOMAIN r.sessions /\ x.archived /\ ~r.sessions[s].archived =>
      x.updated > r.sessions[s].updated
Behind(r, told, s, x) ==
    s \in DOMAIN r.sessions /\ r.sessions[s].archived /\ ~x.archived =>
      r.sessions[s].updated >= x.updated \/ s \in told
Heeds(r, s, x) == s \in DOMAIN r.sessions /\ r.sessions[s].archived => x.archived

\* Tables of the memory (m) and of the file (f) next to the replay, and to each other.
MemorySurvives(r, w, m, done) ==
    \A s \in DOMAIN m :
      /\ s \notin done => Unheard(r, w, s, m[s]) /\ (BelongsTo(m[s], w) => Ahead(r, s, m[s]))
      /\ Heeds(r, s, m[s])
RecordsSurvive(r, w, f, told, done) ==
    \A s \in DOMAIN f \ done :
      /\ Unheard(r, w, s, f[s])
      /\ BelongsTo(f[s], w) => Ahead(r, s, f[s]) /\ Behind(r, told, s, f[s])
Kept(w, f, m, told, done) ==
    \A s \in DOMAIN f \ done :
      /\ s \in DOMAIN m
      /\ BelongsTo(f[s], w) =>
           /\ m[s].updated >= f[s].updated \/ s \in told
           /\ f[s].archived => m[s].archived
FileHeeds(r, f) == \A s \in DOMAIN f : Heeds(r, s, f[s])
Untouched(f) == \A s \in DOMAIN f : f[s] = Legacy

FileSurvivesFor(w) == HasFile(w) =>
    /\ RecordsSurvive(Recalled, w, file[w].sessions, Logged("archived"), ended)
    /\ file[w].writer = None => Untouched(file[w].sessions)
    /\ FileSafe /\ Resting(w) => FileHeeds(Recalled, file[w].sessions)
    /\ Up(w) => Kept(w, file[w].sessions, mem[w].sessions, Logged("archived"), ended)
SaidSo == /\ Recalled.purgedIds \subseteq Logged("purged")
          /\ Recalled.archivedIds \subseteq Logged("archived")
SurvivesInv == NeverBehind =>
    /\ SaidSo
    /\ \A w \in Inst : /\ MemorySurvives(Recalled, w, mem[w].sessions, ended)
                       /\ FileSurvivesFor(w)

\* An event keeps it.
LEMMA SurvivesEvent ==
    ASSUME NEW t \in Nat, NEW old, StateOK(old, t), NEW st, StateOK(st, t), NEW w \in Inst,
           NEW new, NEW job, NEW k, NEW gone, Folded(new, old, st, job, k, gone),
           NEW done, job.do = "purge" => k \in done,
           MemorySurvives(old, w, st.sessions, done)
    PROVE  /\ MemorySurvives(new, w, st.sessions, done)
           /\ \A told, more, f :
                /\ RecordsSurvive(old, w, f, told, done) /\ Kept(w, f, st.sessions, told, done)
                /\ told \subseteq more
                /\ job.do = "archive" => k \in more
                => RecordsSurvive(new, w, f, more, done) /\ Kept(w, f, st.sessions, more, done)
  <1> DEFINE m == st.sessions  R == old.sessions  N == new.sessions
  <1>1. /\ \A s \in DOMAIN R : s # k => s \in DOMAIN N /\ N[s] = R[s]
        /\ \A s \in DOMAIN N : s # k => s \in DOMAIN R
        /\ new.snapAt = old.snapAt
    BY DEF Folded
  <1>2. \A s \in DOMAIN R : R[s] \in RecordsTo(t)
    <2>1. R \in Tables(Session, RecordsTo(t))
      BY DEF StateOK
    <2> QED BY <2>1, TableIs
  <1>3. /\ Job("create", k).do = "create" /\ Job("update", k).do = "update"
        /\ Job("archive", k).do = "archive" /\ Job("purge", k).do = "purge"
        /\ Job("resolve", k).do = "resolve" /\ \A x : Asking(k, x).do = "request"
    BY Jobs
  <1>4. \/ /\ job.do \in {"create", "update"} /\ k \in DOMAIN m /\ k \in DOMAIN N
           /\ N[k] = m[k]
        \/ /\ job.do = "archive" /\ k \in DOMAIN m /\ m[k].archived
           /\ k \in DOMAIN N <=> k \in DOMAIN R
           /\ k \in DOMAIN R => N[k] = [R[k] EXCEPT !.archived = TRUE]
        \/ job.do = "purge" /\ k \in done /\ k \notin DOMAIN N
        \/ job.do \in {"resolve", "request"} /\ N = R
    BY <1>3 DEF Folded
  <1>5. k \in DOMAIN R /\ N[k] = [R[k] EXCEPT !.archived = TRUE] =>
          N[k].archived /\ N[k].updated = R[k].updated
    BY <1>2 DEF RecordsTo
  <1> HIDE DEF m, R, N
  <1>6. \A s, x : Unheard(old, w, s, x) /\ s \notin done => Unheard(new, w, s, x)
    BY <1>1, <1>4 DEF Unheard, StaleAgainst, R, N
  <1>7. \A s, x : s # k => /\ Ahead(new, s, x) <=> Ahead(old, s, x)
                           /\ \A told : Behind(new, told, s, x) <=> Behind(old, told, s, x)
                           /\ Heeds(new, s, x) <=> Heeds(old, s, x)
    BY <1>1 DEF Ahead, Behind, Heeds, R, N
  <1>8. MemorySurvives(new, w, m, done)
    <2>1. SUFFICES ASSUME NEW s \in DOMAIN m
                   PROVE  /\ s \notin done => /\ Unheard(new, w, s, m[s])
                                              /\ BelongsTo(m[s], w) => Ahead(new, s, m[s])
                          /\ Heeds(new, s, m[s])
      BY DEF MemorySurvives
    <2>2. /\ s \notin done => /\ Unheard(old, w, s, m[s])
                              /\ BelongsTo(m[s], w) => Ahead(old, s, m[s])
          /\ Heeds(old, s, m[s])
      BY <2>1 DEF MemorySurvives, m
    <2>3. CASE s # k
      BY <1>6, <1>7, <2>2, <2>3
    <2>4. CASE s = k
      <3>1. Heeds(new, s, m[s])
        BY <1>4, <2>2, <2>4 DEF Heeds, R, N
      <3>2. s \notin done /\ BelongsTo(m[s], w) => Ahead(new, s, m[s])
        BY <1>4, <1>5, <2>2, <2>4 DEF Ahead, R, N
      <3> QED BY <1>6, <2>2, <3>1, <3>2
    <2> QED BY <2>3, <2>4
  <1>9. ASSUME NEW told, NEW more, NEW f,
               RecordsSurvive(old, w, f, told, done), Kept(w, f, m, told, done),
               told \subseteq more, job.do = "archive" => k \in more
        PROVE  RecordsSurvive(new, w, f, more, done) /\ Kept(w, f, m, more, done)
    <2>1. Kept(w, f, m, more, done)
      BY <1>9 DEF Kept
    <2>2. SUFFICES ASSUME NEW s \in DOMAIN f \ done
                   PROVE  /\ Unheard(new, w, s, f[s])
                          /\ BelongsTo(f[s], w) =>
                               Ahead(new, s, f[s]) /\ Behind(new, more, s, f[s])
      BY <2>1 DEF RecordsSurvive
    <2>3. /\ Unheard(old, w, s, f[s])
          /\ BelongsTo(f[s], w) => Ahead(old, s, f[s]) /\ Behind(old, told, s, f[s])
          /\ BelongsTo(f[s], w) => /\ m[s].updated >= f[s].updated \/ s \in told
                                   /\ f[s].archived => m[s].archived
      BY <1>9, <2>2 DEF RecordsSurvive, Kept
    <2>4. Unheard(new, w, s, f[s])
      BY <1>6, <2>2, <2>3
    <2>5. BelongsTo(f[s], w) => Behind(old, more, s, f[s])
      BY <1>9, <2>3 DEF Behind
    <2>6. CASE s # k
      BY <1>7, <2>3, <2>4, <2>5, <2>6
    <2>7. CASE s = k /\ job.do \in {"create", "update"}
      BY <1>4, <1>9, <2>3, <2>4, <2>7 DEF Ahead, Behind, N
    <2>8. CASE s = k /\ job.do \notin {"create", "update"}
      BY <1>4, <1>5, <1>9, <2>2, <2>3, <2>4, <2>5, <2>8 DEF Ahead, Behind, R, N
    <2> QED BY <2>6, <2>7, <2>8
  <1>10. \A told, more, f :
           /\ RecordsSurvive(old, w, f, told, done) /\ Kept(w, f, m, told, done)
           /\ told \subseteq more
           /\ job.do = "archive" => k \in more
           => RecordsSurvive(new, w, f, more, done) /\ Kept(w, f, m, more, done)
    BY <1>9
  <1> QED BY <1>8, <1>10 DEF m

\* So does a job that is made.
LEMMA SurvivesMade ==
    ASSUME NEW t \in Nat, NEW r, StateOK(r, t), NEW w \in Inst, NEW mine, StateOK(mine, t),
           NEW st, st.sessions = mine.sessions,
           NEW new, NEW job, NEW k, NEW u \in Nat, Made(new, st, w, job, k, u),
           Stamps(job) => u = t + 1,
           NEW done, NEW more, done \subseteq more, job.do = "purge" => k \in more,
           job.do = "create" => k \notin DOMAIN r.sessions,
           MemorySurvives(r, w, mine.sessions, done)
    PROVE  /\ MemorySurvives(r, w, new.sessions, more)
           /\ \A told, f :
                /\ f \in Tables(Session, RecordsTo(t)) /\ Kept(w, f, mine.sessions, told, done)
                /\ job.do = "create" => k \notin DOMAIN f
                => Kept(w, f, new.sessions, told, more)
  <1> DEFINE m == mine.sessions  n == new.sessions
  <1>1. /\ \A s \in DOMAIN m : s # k => s \in DOMAIN n /\ n[s] = m[s]
        /\ \A s \in DOMAIN n : s # k => s \in DOMAIN m
    BY DEF Made
  <1>2. \A s \in DOMAIN m : m[s] \in RecordsTo(t)
    <2>1. m \in Tables(Session, RecordsTo(t))
      BY DEF StateOK
    <2> QED BY <2>1, TableIs
  <1>3. r.snapAt \in {None} \cup 0..t /\ None \notin Inst
    BY MirrorAssumption DEF StateOK
  <1>4. \A s \in DOMAIN r.sessions : r.sessions[s] \in RecordsTo(t)
    <2>1. r.sessions \in Tables(Session, RecordsTo(t))
      BY DEF StateOK
    <2> QED BY <2>1, TableIs
  <1>5. /\ Job("create", k).do = "create" /\ Job("update", k).do = "update"
        /\ Job("archive", k).do = "archive" /\ Job("purge", k).do = "purge"
        /\ Job("resolve", k).do = "resolve" /\ \A x : Asking(k, x).do = "request"
        /\ Sweep.do = "snapshot"
    BY Jobs
  <1>6. \/ job.do = "create" /\ k \in DOMAIN n /\ n[k] = Newborn(w, u)
        \/ job.do = "update" /\ k \in DOMAIN m /\ k \in DOMAIN n
           /\ n[k] = [m[k] EXCEPT !.updated = u]
        \/ job.do = "archive" /\ k \in DOMAIN m /\ k \in DOMAIN n
           /\ n[k] = [m[k] EXCEPT !.updated = u, !.archived = TRUE]
        \/ job.do = "purge" /\ k \notin DOMAIN n
        \/ n = m
    BY <1>5 DEF Made
  <1>7. job.do \in {"create", "update", "archive"} => u = t + 1
    BY DEF Stamps
  <1> HIDE DEF m, n
  <1>8. \/ job.do = "create" /\ k \in DOMAIN n /\ n[k] = Newborn(w, t + 1)
        \/ /\ k \in DOMAIN m /\ k \in DOMAIN n
           /\ n[k].owner = m[k].owner /\ n[k].mirror = m[k].mirror
           /\ n[k].updated = t + 1 /\ (m[k].archived => n[k].archived)
        \/ job.do = "purge" /\ k \notin DOMAIN n
        \/ n = m
    BY <1>2, <1>6, <1>7 DEF RecordsTo
  <1>9. /\ Newborn(w, t + 1).owner = w /\ Newborn(w, t + 1).updated = t + 1
        /\ ~Newborn(w, t + 1).archived
    BY DEF Newborn
  <1>10. \A x : x.updated = t + 1 => /\ ~StaleAgainst(r, x.updated) /\ Ahead(r, k, x)
    <2>1. k \in DOMAIN r.sessions => r.sessions[k].updated \in 0..t
      BY <1>4 DEF RecordsTo
    <2> QED BY <1>3, <2>1 DEF StaleAgainst, Ahead
  <1>11. MemorySurvives(r, w, n, more)
    <2>1. SUFFICES ASSUME NEW s \in DOMAIN n
                   PROVE  /\ s \notin more => /\ Unheard(r, w, s, n[s])
                                              /\ BelongsTo(n[s], w) => Ahead(r, s, n[s])
                          /\ Heeds(r, s, n[s])
      BY DEF MemorySurvives
    <2>2. s \in DOMAIN m =>
            /\ s \notin more => /\ Unheard(r, w, s, m[s])
                                /\ BelongsTo(m[s], w) => Ahead(r, s, m[s])
            /\ Heeds(r, s, m[s])
      BY DEF MemorySurvives, m
    <2>3. CASE s # k \/ n = m
      BY <1>1, <2>1, <2>2, <2>3
    <2>4. CASE s = k /\ job.do = "create" /\ n[k] = Newborn(w, t + 1)
      <3>1. BelongsTo(n[k], w) /\ ~StaleAgainst(r, n[k].updated) /\ Ahead(r, k, n[k])
        BY <1>3, <1>9, <1>10, <2>4 DEF BelongsTo
      <3>2. Heeds(r, k, n[k])
        BY <2>4 DEF Heeds
      <3> QED BY <2>4, <3>1, <3>2 DEF Unheard
    <2>5. CASE /\ s = k /\ k \in DOMAIN m
               /\ n[k].owner = m[k].owner /\ n[k].mirror = m[k].mirror
               /\ n[k].updated = t + 1 /\ (m[k].archived => n[k].archived)
      <3>1. BelongsTo(n[k], w) <=> BelongsTo(m[k], w)
        BY <2>5 DEF BelongsTo
      <3>2. ~StaleAgainst(r, n[k].updated) /\ Ahead(r, k, n[k])
        BY <1>10, <2>5
      <3>3. Heeds(r, k, n[k])
        BY <2>2, <2>5 DEF Heeds
      <3> QED BY <2>2, <2>5, <3>1, <3>2, <3>3 DEF Unheard
    <2> QED BY <1>8, <2>1, <2>3, <2>4, <2>5
  <1>12. ASSUME NEW told, NEW f \in Tables(Session, RecordsTo(t)), Kept(w, f, m, told, done),
                job.do = "create" => k \notin DOMAIN f
         PROVE  Kept(w, f, n, told, more)
    <2>1. SUFFICES ASSUME NEW s \in DOMAIN f \ more
                   PROVE  /\ s \in DOMAIN n
                          /\ BelongsTo(f[s], w) =>
                               /\ n[s].updated >= f[s].updated \/ s \in told
                               /\ f[s].archived => n[s].archived
      BY DEF Kept
    <2>2. /\ s \in DOMAIN m
          /\ BelongsTo(f[s], w) => /\ m[s].updated >= f[s].updated \/ s \in told
                                   /\ f[s].archived => m[s].archived
      BY <1>12, <2>1 DEF Kept
    <2>3. f[s] \in RecordsTo(t)
      BY <1>12, <2>1, TableIs
    <2>4. CASE s # k \/ n = m
      BY <1>1, <2>2, <2>4
    <2>5. CASE s = k /\ n # m
      <3>1. /\ k \in DOMAIN n /\ n[k].updated = t + 1 /\ (m[k].archived => n[k].archived)
        BY <1>8, <1>12, <2>1, <2>5
      <3>2. n[k].updated >= f[k].updated
        BY <2>3, <2>5, <3>1 DEF RecordsTo
      <3> QED BY <2>2, <2>5, <3>1, <3>2
    <2> QED BY <2>4, <2>5
  <1>13. \A told, f :
           /\ f \in Tables(Session, RecordsTo(t)) /\ Kept(w, f, m, told, done)
           /\ job.do = "create" => k \notin DOMAIN f
           => Kept(w, f, n, told, more)
    BY <1>12
  <1> QED BY <1>11, <1>13 DEF m, n

\* A file as a start finds it: what the Data Space knows better gives way.
LEMMA SurvivesStart ==
    ASSUME NEW t \in Nat, NEW r, StateOK(r, t), NEW w \in Inst, Inst = {w},
           NEW new, NEW listing \in BOOLEAN, new = StartState(w, r, listing),
           HasFile(w), FileOK(file[w], t),
           NEW told, NEW done, r.purgedIds \subseteq done, r.archivedIds \subseteq told,
           RecordsSurvive(r, w, file[w].sessions, told, done),
           file[w].writer = None => Untouched(file[w].sessions)
    PROVE  Kept(w, file[w].sessions, new.sessions, told, done)
  <1> DEFINE f == file[w].sessions  n == new.sessions
  <1>1. f \in Tables(Session, RecordsTo(t))
    BY FileState
  <1>2. \A s \in DOMAIN f : f[s] \in RecordsTo(t)
    BY <1>1, TableIs
  <1>3. \A s \in DOMAIN r.sessions : r.sessions[s] \in RecordsTo(t)
    <2>1. r.sessions \in Tables(Session, RecordsTo(t))
      BY DEF StateOK
    <2> QED BY <2>1, TableIs
  <1>4. StartedFrom(new, r, w) /\ DOMAIN r.sessions \subseteq DOMAIN n
    BY StartStateOK DEF StartedFrom
  <1>5. None \notin Inst /\ file[w].writer \in {None, w}
    BY MirrorAssumption DEF FileOK, HasFile
  <1>6. CASE file[w].writer = None
    <2>1. \A s \in DOMAIN f : ~BelongsTo(f[s], w)
      BY <1>5, <1>6 DEF Untouched, Legacy, BelongsTo
    <2>2. \A s \in DOMAIN f \ done : s \in DOMAIN r.sessions
      BY <2>1 DEF RecordsSurvive, Unheard
    <2> QED BY <1>4, <2>1, <2>2 DEF Kept
  <1>7. CASE file[w].writer = w
    <2> DEFINE scope == IF listing THEN "writer or listed" ELSE "writer only"
    <2>1. new = Merge(r, file[w], w, scope, Threads[w])
      BY <1>7 DEF StartState, HasFile
    <2>2. scope \notin {"listed only"}
      OBVIOUS
    <2> HIDE DEF scope
    <2>3. n = MergeSessions(r, file[w], w, scope, Threads[w])
      BY <2>1, MergeOK
    <2>4. \A s \in DOMAIN f : Claimable(f[s], s, w, scope, Threads[w]) =>
            IF s \in DOMAIN r.sessions THEN n[s] = MergedSession(r, s, f[s], w)
            ELSE /\ s \in DOMAIN n <=> ~LocalSessionStale(r, s, f[s])
                 /\ s \in DOMAIN n => n[s] = Claimed(f[s], w)
      BY <2>3, MergedSessions
    <2>5. SUFFICES ASSUME NEW s \in DOMAIN f \ done
                   PROVE  /\ s \in DOMAIN n
                          /\ BelongsTo(f[s], w) =>
                               /\ n[s].updated >= f[s].updated \/ s \in told
                               /\ f[s].archived => n[s].archived
      BY DEF Kept
    <2> DEFINE l == f[s]  x == r.sessions[s]
    <2>6. /\ Unheard(r, w, s, l)
          /\ BelongsTo(l, w) => Ahead(r, s, l) /\ Behind(r, told, s, l)
      BY <2>5 DEF RecordsSurvive
    <2>7. l \in RecordsTo(t) /\ (s \in DOMAIN r.sessions => x \in RecordsTo(t))
      BY <1>2, <1>3, <2>5
    <2>8. CASE ~BelongsTo(l, w)
      BY <1>4, <2>6, <2>8 DEF Unheard
    <2>9. CASE BelongsTo(l, w)
      <3> HIDE DEF l, n, f
      <3>1. Claimable(l, s, w, scope, Threads[w])
        BY <1>5, <2>2, <2>9 DEF Claimable, BelongsTo
      <3>2. CASE s \notin DOMAIN r.sessions
        <4>1. ~LocalSessionStale(r, s, l)
          BY <2>5, <2>6, <3>2 DEF Unheard, LocalSessionStale
        <4>2. s \in DOMAIN n /\ n[s] = Claimed(l, w)
          BY <2>4, <2>5, <3>1, <3>2, <4>1 DEF l
        <4>3. n[s].archived = l.archived /\ n[s].updated = l.updated
          BY <2>7, <4>2, ClaimedOK
        <4>4. n[s].updated >= l.updated
          BY <2>7, <4>3 DEF RecordsTo
        <4> QED BY <4>2, <4>3, <4>4 DEF l
      <3>3. CASE s \in DOMAIN r.sessions
        <4>1. s \in DOMAIN n /\ n[s] = MergedSession(r, s, l, w)
          BY <1>4, <2>4, <2>5, <3>1, <3>3 DEF l, n
        <4>2. x \in RecordsTo(t) /\ x.owner \in {None, w}
          BY <2>7, <3>3 DEF RecordsTo
        <4>3. n[s] = IF l.updated > x.updated /\ ~BlocksReplacement(r, s, l)
                     THEN Claimed(l, w) ELSE Claimed(x, w)
          BY <4>1, <4>2 DEF MergedSession
        <4>4. CASE l.updated > x.updated /\ ~BlocksReplacement(r, s, l)
          <5>1. n[s].archived = l.archived /\ n[s].updated = l.updated
            BY <2>7, <4>3, <4>4, ClaimedOK
          <5>2. n[s].updated >= l.updated
            BY <2>7, <5>1 DEF RecordsTo
          <5> QED BY <4>1, <5>1, <5>2 DEF l
        <4>5. CASE ~(l.updated > x.updated /\ ~BlocksReplacement(r, s, l))
          <5>1. n[s].archived = x.archived /\ n[s].updated = x.updated
            BY <4>2, <4>3, <4>5, ClaimedOK
          <5>2. l.updated \in Nat /\ x.updated \in Nat
            BY <2>7, <4>2 DEF RecordsTo
          <5>3. l.archived => x.archived
            <6>1. SUFFICES ASSUME l.archived, ~x.archived PROVE FALSE
              OBVIOUS
            <6>2. l.updated > x.updated
              BY <2>6, <2>9, <3>3, <6>1 DEF Ahead
            <6>3. ~BlocksReplacement(r, s, l)
              BY <6>1 DEF BlocksReplacement
            <6> QED BY <4>5, <6>2, <6>3
          <5>4. x.updated >= l.updated \/ s \in told
            <6>1. CASE ~(l.updated > x.updated)
              BY <5>2, <6>1
            <6>2. CASE BlocksReplacement(r, s, l)
              BY <2>6, <2>9, <3>3, <6>2 DEF BlocksReplacement, Behind
            <6> QED BY <4>5, <6>1, <6>2
          <5> QED BY <4>1, <5>1, <5>3, <5>4 DEF l
        <4> QED BY <4>4, <4>5
      <3> QED BY <3>2, <3>3
    <2> QED BY <2>8, <2>9
  <1> QED BY <1>5, <1>6, <1>7

\* What a start has in memory is no worse.
LEMMA SurvivesMerge ==
    ASSUME NEW t \in Nat, NEW r, StateOK(r, t), NEW w \in Inst, NEW new, StartedFrom(new, r, w),
           FileOK(file[w], t), NEW told, NEW done,
           HasFile(w) => RecordsSurvive(r, w, file[w].sessions, told, done)
    PROVE  MemorySurvives(r, w, new.sessions, done)
  <1> DEFINE f == file[w].sessions  n == new.sessions
  <1>1. HasFile(w) => \A s \in DOMAIN f : f[s] \in RecordsTo(t)
    <2>1. SUFFICES ASSUME HasFile(w) PROVE \A s \in DOMAIN f : f[s] \in RecordsTo(t)
      OBVIOUS
    <2>2. f \in Tables(Session, RecordsTo(t))
      BY <2>1, FileState
    <2> QED BY <2>2, TableIs
  <1>2. \A s \in DOMAIN r.sessions : r.sessions[s] \in RecordsTo(t)
    <2>1. r.sessions \in Tables(Session, RecordsTo(t))
      BY DEF StateOK
    <2> QED BY <2>1, TableIs
  <1>3. None \notin Inst
    BY MirrorAssumption
  <1>4. SUFFICES ASSUME NEW s \in DOMAIN n
                 PROVE  /\ s \notin done => /\ Unheard(r, w, s, n[s])
                                            /\ BelongsTo(n[s], w) => Ahead(r, s, n[s])
                        /\ Heeds(r, s, n[s])
    BY DEF MemorySurvives
  <1> DEFINE x == n[s]  l == f[s]
  <1>5. SessionFrom(x, r, w, s)
    BY <1>4 DEF StartedFrom
  <1>6. CASE s \in DOMAIN r.sessions /\ x \in {r.sessions[s], Claimed(r.sessions[s], w)}
    <2>1. r.sessions[s] \in RecordsTo(t)
      BY <1>2, <1>6
    <2>2. x.archived = r.sessions[s].archived
      BY <1>6, <2>1, ClaimedOK
    <2> HIDE DEF x
    <2>3. Unheard(r, w, s, x) /\ Ahead(r, s, x) /\ Heeds(r, s, x)
      BY <1>6, <2>2 DEF Unheard, Ahead, Heeds
    <2> QED BY <2>3 DEF x
  <1>7. CASE /\ HasFile(w) /\ s \in DOMAIN f /\ x = Claimed(l, w)
             /\ IF s \in DOMAIN r.sessions
                THEN /\ l.updated > r.sessions[s].updated
                     /\ ~BlocksReplacement(r, s, l)
                ELSE ~LocalSessionStale(r, s, l)
    <2>1. l \in RecordsTo(t)
      BY <1>1, <1>7
    <2>2. /\ x.archived = l.archived /\ x.updated = l.updated
          /\ x.owner = IF l.owner = None THEN w ELSE l.owner
      BY <1>7, <2>1, ClaimedOK
    <2>3. s \notin done => Unheard(r, w, s, l)
      BY <1>7 DEF RecordsSurvive
    <2>4. BelongsTo(l, w) => BelongsTo(x, w)
      <3> HIDE DEF x, l
      <3> QED BY <1>3, <2>2 DEF BelongsTo
    <2> HIDE DEF x, l
    <2>5. s \notin done => Unheard(r, w, s, x)
      BY <2>2, <2>3, <2>4 DEF Unheard
    <2>6. Ahead(r, s, x) /\ Heeds(r, s, x)
      BY <1>7, <2>2 DEF Ahead, Heeds, BlocksReplacement
    <2> QED BY <2>5, <2>6 DEF x
  <1> QED BY <1>5, <1>6, <1>7 DEF SessionFrom

\* Nor is what it has of a file that stands alone.
LEMMA SurvivesAlone ==
    ASSUME NEW t \in Nat, NEW r, NEW w \in Inst, NEW f \in Tables(Session, RecordsTo(t)),
           NEW told, NEW done, RecordsSurvive(r, w, f, told, done), FileHeeds(r, f),
           NEW new, DOMAIN new = DOMAIN f,
           \/ new = f
           \/ /\ \A s \in DOMAIN f : new[s] \in {f[s], Claimed(f[s], w)}
              /\ Untouched(f)
    PROVE  MemorySurvives(r, w, new, done) /\ Kept(w, f, new, told, done)
  <1>1. \A s \in DOMAIN f : f[s] \in RecordsTo(t)
    BY TableIs
  <1>2. None \notin Inst
    BY MirrorAssumption
  <1>3. ASSUME NEW s \in DOMAIN f
        PROVE  /\ new[s].archived = f[s].archived /\ new[s].updated = f[s].updated
               /\ BelongsTo(f[s], w) => BelongsTo(new[s], w)
               /\ BelongsTo(new[s], w) => BelongsTo(f[s], w) \/ ~f[s].archived
    <2>1. f[s] \in RecordsTo(t)
      BY <1>1
    <2>2. CASE new[s] = f[s]
      BY <2>2
    <2>3. CASE new[s] = Claimed(f[s], w) /\ f[s] = Legacy
      <3> DEFINE x == Claimed(f[s], w)
      <3>1. /\ x.archived = f[s].archived /\ x.updated = f[s].updated
            /\ x.owner = IF f[s].owner = None THEN w ELSE f[s].owner
        BY <2>1, ClaimedOK
      <3>2. ~f[s].archived
        BY <2>3 DEF Legacy
      <3> HIDE DEF x
      <3>3. BelongsTo(f[s], w) => BelongsTo(x, w)
        BY <1>2, <3>1 DEF BelongsTo
      <3> QED BY <2>3, <3>1, <3>2, <3>3 DEF x
    <2> QED BY <2>2, <2>3 DEF Untouched
  <1>4. ASSUME NEW s \in DOMAIN f
        PROVE  /\ s \notin done => /\ Unheard(r, w, s, new[s])
                                   /\ BelongsTo(new[s], w) => Ahead(r, s, new[s])
               /\ Heeds(r, s, new[s])
    <2>1. /\ s \notin done => /\ Unheard(r, w, s, f[s])
                              /\ BelongsTo(f[s], w) => Ahead(r, s, f[s])
          /\ Heeds(r, s, f[s])
      BY DEF RecordsSurvive, FileHeeds
    <2> QED BY <1>3, <2>1 DEF Unheard, Ahead, Heeds
  <1>5. ASSUME NEW s \in DOMAIN f \ done
        PROVE  /\ new[s].updated >= f[s].updated
               /\ f[s].archived => new[s].archived
    <2>1. f[s].updated \in Nat
      BY <1>1 DEF RecordsTo
    <2> QED BY <1>3, <2>1
  <1> QED BY <1>4, <1>5 DEF MemorySurvives, Kept

\* The Data Space told what the memory is.
LEMMA SurvivesItself ==
    ASSUME NEW r, NEW w, NEW m, r.sessions = m, NEW done
    PROVE  MemorySurvives(r, w, m, done)
  BY DEF MemorySurvives, Unheard, Ahead, Heeds

\* A start from the Data Space has what the file has.
LEMMA SurvivesDataSpace ==
    ASSUME TypeInv, BornInv, NEW w \in Inst, Inst = {w}, SaidSo, FileSurvivesFor(w),
           StartFromDataSpace(w)
    PROVE  HasFile(w) =>
             Kept(w, file[w].sessions, mem'[w].sessions, Logged("archived"), ended)
  <1> SUFFICES ASSUME HasFile(w)
               PROVE  Kept(w, file[w].sessions, mem'[w].sessions, Logged("archived"), ended)
    OBVIOUS
  <1>1. PICK listing \in BOOLEAN : mem'[w] = StartState(w, ReplayMessages(log), listing)
    BY DataSpaceStart
  <1> DEFINE new == mem'[w]  r == Recalled  told == Logged("archived")
  <1>2. new = StartState(w, r, listing)
    BY <1>1 DEF Recalled
  <1>3. r.purgedIds \subseteq ended /\ r.archivedIds \subseteq told
    BY DEF SaidSo, BornInv
  <1>4. now \in Nat /\ StateOK(r, now) /\ FileOK(file[w], now)
    BY WorkerTypes DEF Recalled
  <1>5. /\ RecordsSurvive(r, w, file[w].sessions, told, ended)
        /\ file[w].writer = None => Untouched(file[w].sessions)
    BY DEF FileSurvivesFor
  <1> HIDE DEF new, r, told
  <1>6. Kept(w, file[w].sessions, new.sessions, told, ended)
    BY <1>2, <1>3, <1>4, <1>5, SurvivesStart
  <1> QED BY <1>6 DEF new, told

\* So has one from the file itself.
LEMMA SurvivesFile ==
    ASSUME TypeInv, NEW w \in Inst, FileSurvivesFor(w), StartFromFile(w), FileSafe, Resting(w)
    PROVE  /\ UNCHANGED <<plan, log, now, file, born, ended, settled>>
           /\ MemorySurvives(Recalled, w, mem'[w].sessions, ended)
           /\ HasFile(w) =>
                Kept(w, file[w].sessions, mem'[w].sessions, Logged("archived"), ended)
  <1>1. /\ UNCHANGED <<plan, log, now, file, born, ended, settled>>
        /\ file[w] # Corrupt
    BY FileStart
  <1>2. PICK st : /\ st = IF file[w] = None THEN NoReplay ELSE FromSnapshot(file[w])
                  /\ \/ mem'[w] = st
                     \/ mem'[w] = ClaimLegacy(st, w, Threads[w]) /\ file[w].writer = None
                  /\ DOMAIN mem'[w].sessions = DOMAIN st.sessions
                  /\ \A s \in DOMAIN st.sessions :
                       mem'[w].sessions[s] \in {st.sessions[s], Claimed(st.sessions[s], w)}
    BY FileStart
  <1> DEFINE new == mem'[w].sessions  f == file[w].sessions  told == Logged("archived")
  <1>3. CASE file[w] = None
    <2>1. DOMAIN NoReplay.sessions = {}
      BY TableEmpty DEF NoReplay
    <2>2. MemorySurvives(Recalled, w, new, ended)
      BY <1>2, <1>3, <2>1 DEF MemorySurvives
    <2> QED BY <1>1, <1>3, <2>2 DEF HasFile
  <1>4. CASE HasFile(w)
    <2>1. now \in Nat /\ FileOK(file[w], now)
      BY WorkerTypes
    <2>2. st.sessions = f /\ f \in Tables(Session, RecordsTo(now))
      BY <1>2, <1>4, <2>1, FileState DEF HasFile
    <2>3. /\ RecordsSurvive(Recalled, w, f, told, ended)
          /\ file[w].writer = None => Untouched(f)
          /\ FileHeeds(Recalled, f)
      BY <1>4 DEF FileSurvivesFor
    <2>4. DOMAIN new = DOMAIN f
      BY <1>2, <2>2
    <2>5. \/ new = f
          \/ /\ \A s \in DOMAIN f : new[s] \in {f[s], Claimed(f[s], w)}
             /\ Untouched(f)
      BY <1>2, <2>2, <2>3
    <2> HIDE DEF new, f, told
    <2>6. MemorySurvives(Recalled, w, new, ended) /\ Kept(w, f, new, told, ended)
      BY <2>1, <2>2, <2>3, <2>4, <2>5, SurvivesAlone
    <2> QED BY <1>1, <2>6 DEF new, f, told
  <1> QED BY <1>1, <1>3, <1>4 DEF HasFile

\* And so does what is made of the memory.
LEMMA SurvivesMaking ==
    ASSUME TypeInv, BornInv, NEW v \in Inst, NEW st, NEW job, NEW k, Making(v, st, job, k),
           ended \subseteq ended', job.do = "purge" => k \in ended',
           MemorySurvives(Recalled, v, mem[v].sessions, ended)
    PROVE  /\ MemorySurvives(Recalled, v, mem'[v].sessions, ended')
           /\ \A told, f :
                /\ f \in Tables(Session, RecordsTo(now))
                /\ Kept(v, f, mem[v].sessions, told, ended)
                /\ DOMAIN f \subseteq born
                => Kept(v, f, mem'[v].sessions, told, ended')
  <1> DEFINE r == Recalled  new == mem'[v]  mine == mem[v]  u == now'  more == ended'
  <1>1. now \in Nat /\ StateOK(r, now) /\ StateOK(mine, now)
    BY WorkerTypes DEF Recalled
  <1>2. /\ Made(new, st, v, job, k, u) /\ st.sessions = mine.sessions
        /\ Stamps(job) => u = now + 1
        /\ job.do = "create" => k \notin born
    BY DEF Making
  <1>3. DOMAIN r.sessions \subseteq born /\ (job.do = "create" => k \notin DOMAIN r.sessions)
    BY <1>2 DEF BornInv, KeysIn
  <1>4. ended \subseteq more /\ (job.do = "purge" => k \in more)
    OBVIOUS
  <1>5. MemorySurvives(r, v, mine.sessions, ended)
    OBVIOUS
  <1> HIDE DEF r, new, mine, u, more
  <1>6. PICK n \in Nat : (Stamps(job) => n = now + 1) /\ Made(new, st, v, job, k, n)
    <2>1. CASE Stamps(job)
      BY <1>1, <1>2, <2>1
    <2>2. CASE ~Stamps(job)
      <3>1. /\ Job("create", k).do = "create" /\ Job("update", k).do = "update"
            /\ Job("archive", k).do = "archive"
        BY Jobs
      <3>2. Made(new, st, v, job, k, 0)
        BY <1>2, <2>2, <3>1 DEF Made, Stamps
      <3> QED BY <2>2, <3>2
    <2> QED BY <2>1, <2>2
  <1>7. /\ MemorySurvives(r, v, new.sessions, more)
        /\ \A told, f :
             /\ f \in Tables(Session, RecordsTo(now)) /\ Kept(v, f, mine.sessions, told, ended)
             /\ job.do = "create" => k \notin DOMAIN f
             => Kept(v, f, new.sessions, told, more)
    <2>1. /\ StateOK(r, now) /\ StateOK(mine, now) /\ st.sessions = mine.sessions
          /\ Made(new, st, v, job, k, n) /\ (Stamps(job) => n = now + 1)
          /\ ended \subseteq more /\ (job.do = "purge" => k \in more)
          /\ job.do = "create" => k \notin DOMAIN r.sessions
          /\ MemorySurvives(r, v, mine.sessions, ended)
      BY <1>1, <1>2, <1>3, <1>4, <1>5, <1>6
    <2>2. now \in Nat /\ n \in Nat
      BY <1>1
    <2> QED BY <2>1, <2>2, SurvivesMade
  <1>8. \A told, f :
          /\ f \in Tables(Session, RecordsTo(now)) /\ Kept(v, f, mine.sessions, told, ended)
          /\ DOMAIN f \subseteq born
          => Kept(v, f, new.sessions, told, more)
    BY <1>2, <1>7
  <1> QED BY <1>7, <1>8 DEF r, new, mine, more

\* It holds at first.
LEMMA InitSurvives == Init => SurvivesInv
  <1> SUFFICES ASSUME Init PROVE SurvivesInv
    OBVIOUS
  <1>1. PICK old \in SUBSET Session :
          /\ \/ log = <<>> /\ old = {} /\ ReplayMessages(log) = NoReplay
             \/ log = <<Old(old)>> /\ ReplayMessages(log) = FromSnapshot(Old(old))
          /\ \A w \in Inst : /\ file[w] = None \/ file[w] = OldFile(old)
                             /\ mem[w] = NoReplay /\ work[w] = Off
    BY FirstState
  <1> DEFINE f == [s \in old |-> Legacy]
  <1>2. Old(old).sessions = f /\ OldFile(old).sessions = f
    BY DEF Old, OldFile
  <1>3. /\ FromSnapshot(Old(old)).sessions = Old(old).sessions
        /\ FromSnapshot(Old(old)).purgedIds = {} /\ FromSnapshot(Old(old)).archivedIds = {}
    BY SnapshotParts
  <1>4. /\ DOMAIN NoReplay.sessions = {}
        /\ NoReplay.purgedIds = {} /\ NoReplay.archivedIds = {}
    BY TableEmpty DEF NoReplay
  <1>5. /\ DOMAIN f = old /\ \A s \in old : f[s] = Legacy /\ ~f[s].archived
    BY DEF Legacy
  <1> HIDE DEF f
  <1>6. /\ DOMAIN Recalled.sessions = old
        /\ \A s \in old : ~Recalled.sessions[s].archived
        /\ Recalled.purgedIds = {} /\ Recalled.archivedIds = {}
    BY <1>1, <1>2, <1>3, <1>4, <1>5 DEF Recalled
  <1>7. ASSUME NEW w \in Inst
        PROVE  MemorySurvives(Recalled, w, mem[w].sessions, ended) /\ FileSurvivesFor(w)
    <2>1. MemorySurvives(Recalled, w, mem[w].sessions, ended)
      BY <1>1, <1>4 DEF MemorySurvives
    <2>2. HasFile(w) => file[w].sessions = f
      BY <1>1, <1>2 DEF HasFile
    <2>3. RecordsSurvive(Recalled, w, f, Logged("archived"), ended) /\ FileHeeds(Recalled, f)
      BY <1>5, <1>6 DEF RecordsSurvive, FileHeeds, Unheard, Ahead, Behind, Heeds
    <2>4. Untouched(f) /\ ~Up(w)
      BY <1>1, <1>5 DEF Untouched, Up, Off
    <2> QED BY <2>1, <2>2, <2>3, <2>4 DEF FileSurvivesFor
  <1> QED BY <1>6, <1>7 DEF SurvivesInv, SaidSo

\* Every step keeps it.
LEMMA NextSurvives ==
    ASSUME OneInstallation
    PROVE  TypeInv /\ BornInv /\ SurvivesInv /\ LimitHarmless /\ [Next]_vars => SurvivesInv'
  <1> SUFFICES ASSUME TypeInv, BornInv, SurvivesInv, LimitHarmless, [Next]_vars
               PROVE  SurvivesInv'
    OBVIOUS
  <1>1. CASE UNCHANGED vars
    <2>1. /\ plan' = plan /\ log' = log /\ mem' = mem /\ work' = work /\ file' = file
          /\ ended' = ended
      BY <1>1 DEF vars
    <2> QED BY <2>1, LogStays DEF SurvivesInv, SaidSo, NeverBehind, FileSurvivesFor, HasFile,
            FileSafe, Resting, Up
  <1>2. ASSUME NEW v \in Inst, WorkerNext(v) PROVE SurvivesInv'
    <2>1. plan' = plan /\ Inst = {v}
      BY <1>2, PlanStays DEF OneInstallation
    <2> DEFINE R == Recalled  T == Logged("archived")  T1 == T'
    <2>2. SUFFICES ASSUME NeverBehind
                   PROVE  /\ SaidSo' /\ FileSurvivesFor(v)'
                          /\ MemorySurvives(R', v, mem'[v].sessions, ended')
      BY <2>1 DEF SurvivesInv, NeverBehind
    <2>3. SaidSo /\ MemorySurvives(R, v, mem[v].sessions, ended) /\ FileSurvivesFor(v)
      BY <2>2 DEF SurvivesInv
    <2>4. /\ now \in Nat /\ FileOK(file[v], now) /\ StateOK(mem[v], now) /\ StateOK(R, now)
      BY WorkerTypes DEF Recalled
    <2>5. ASSUME log' = log
          PROVE  SaidSo' /\ R' = R /\ T1 = T
      BY <2>3, <2>5, LogStays DEF SaidSo
    <2>6. ASSUME log' = log, file'[v] = file[v], ended \subseteq ended',
                 Resting(v)' /\ FileSafe => Resting(v),
                 Up(v)' /\ HasFile(v) => Kept(v, file[v].sessions, mem'[v].sessions, T, ended')
          PROVE  FileSurvivesFor(v)'
      <3>1. FileSafe' = FileSafe /\ HasFile(v)' = HasFile(v)
        BY <2>1, <2>6 DEF FileSafe, HasFile
      <3>2. HasFile(v) =>
              /\ RecordsSurvive(R, v, file[v].sessions, T, ended)
              /\ file[v].writer = None => Untouched(file[v].sessions)
              /\ FileSafe /\ Resting(v) => FileHeeds(R, file[v].sessions)
        BY <2>3 DEF FileSurvivesFor
      <3>3. HasFile(v) => RecordsSurvive(R, v, file[v].sessions, T, ended')
        BY <2>6, <3>2 DEF RecordsSurvive
      <3> QED BY <2>5, <2>6, <3>1, <3>2, <3>3 DEF FileSurvivesFor
    <2>7. CASE StartFromDataSpace(v)
      <3>1. /\ StartedFrom(mem'[v], R, v)
            /\ UNCHANGED <<plan, log, now, file, born, ended, settled>>
        BY <2>7, DataSpaceStart DEF Recalled
      <3>2. MemorySurvives(R, v, mem'[v].sessions, ended)
        <4>1. HasFile(v) => RecordsSurvive(R, v, file[v].sessions, T, ended)
          BY <2>3 DEF FileSurvivesFor
        <4> QED BY <2>4, <3>1, <4>1, SurvivesMerge
      <3>3. HasFile(v) => Kept(v, file[v].sessions, mem'[v].sessions, T, ended)
        BY <2>1, <2>3, <2>7, SurvivesDataSpace
      <3>4. Resting(v)
        BY <2>7 DEF StartFromDataSpace, Up, Resting
      <3> QED BY <2>5, <2>6, <3>1, <3>2, <3>3, <3>4
    <2>8. CASE StartFromFile(v)
      <3>1. FileSafe /\ Resting(v)
        BY <2>2, <2>8, FileStartSafe
      <3>2. /\ UNCHANGED <<plan, log, now, file, born, ended, settled>>
            /\ MemorySurvives(R, v, mem'[v].sessions, ended)
            /\ HasFile(v) => Kept(v, file[v].sessions, mem'[v].sessions, T, ended)
        BY <2>3, <2>8, <3>1, SurvivesFile
      <3> QED BY <2>5, <2>6, <3>1, <3>2
    <2>9. CASE AppendEvent(v)
      <3>1. /\ UNCHANGED <<plan, now, file, born, ended, settled, starts>>
            /\ mem'[v].sessions = mem[v].sessions
            /\ work'[v].pc \in {"snapshot", "local"} /\ work[v].pc = "append"
        BY <2>9, EventStep
      <3>2. ~Resting(v)' /\ HasFile(v)' = HasFile(v) /\ Up(v)
        BY <3>1 DEF Resting, HasFile, Up
      <3>3. HasFile(v) =>
              /\ RecordsSurvive(R, v, file[v].sessions, T, ended)
              /\ Kept(v, file[v].sessions, mem[v].sessions, T, ended)
              /\ file[v].writer = None => Untouched(file[v].sessions)
        BY <2>3, <3>2 DEF FileSurvivesFor
      <3>4. CASE log' = log
        BY <2>3, <2>5, <2>6, <3>1, <3>2, <3>3, <3>4
      <3>5. ASSUME NEW k, Folded(R', R, mem[v], Head(work[v].todo), k, work[v].gone),
                   Tells(Head(work[v].todo), k)
            PROVE  /\ SaidSo' /\ FileSurvivesFor(v)'
                   /\ MemorySurvives(R', v, mem'[v].sessions, ended')
        <4> DEFINE job == Head(work[v].todo)  gone == work[v].gone  new == R'
                   P == Logged("purged")  P1 == P'
        <4>1. /\ T1 = T \cup (IF job.do = "archive" THEN {k} ELSE {})
              /\ P1 = P \cup (IF job.do = "purge" THEN {k} ELSE {})
          BY <3>5 DEF Tells
        <4>2. /\ Job("create", k).do = "create" /\ Job("update", k).do = "update"
              /\ Job("archive", k).do = "archive" /\ Job("purge", k).do = "purge"
              /\ Job("resolve", k).do = "resolve" /\ \A x : Asking(k, x).do = "request"
          BY Jobs
        <4>3. Folded(new, R, mem[v], job, k, gone) /\ gone \subseteq ended
          BY <3>5, WorkerTypes DEF WorkerOK
        <4>4. /\ job.do = "purge" => k \in ended
              /\ \/ new.purgedIds = R.purgedIds
                 \/ new.purgedIds = R.purgedIds \cup {k} /\ job.do = "purge"
              /\ \/ new.archivedIds \subseteq R.archivedIds
                 \/ new.archivedIds = R.archivedIds \cup {k} /\ job.do = "archive"
          <5> HIDE DEF new, R, job, gone
          <5>1. \/ job.do \in {"create", "update", "resolve", "request"}
                   /\ new.purgedIds = R.purgedIds /\ new.archivedIds = R.archivedIds
                \/ job.do = "archive"
                   /\ new.purgedIds = R.purgedIds /\ new.archivedIds = R.archivedIds \cup {k}
                \/ job.do = "purge" /\ gone = {k}
                   /\ new.purgedIds = R.purgedIds \cup {k}
                   /\ new.archivedIds = R.archivedIds \ {k}
            BY <4>2, <4>3 DEF Folded
          <5> QED BY <4>3, <5>1
        <4>5. SaidSo'
          <5>1. new.purgedIds \subseteq P1 /\ new.archivedIds \subseteq T1
            <6>1. R.purgedIds \subseteq P /\ R.archivedIds \subseteq T
              BY <2>3 DEF SaidSo
            <6> HIDE DEF new, R, job, P, P1, T, T1
            <6> QED BY <4>1, <4>4, <6>1
          <5> QED BY <5>1 DEF SaidSo, new, P1, P, T1, T, R
        <4>6. /\ MemorySurvives(new, v, mem[v].sessions, ended)
              /\ \A told, more, f :
                   /\ RecordsSurvive(R, v, f, told, ended)
                   /\ Kept(v, f, mem[v].sessions, told, ended)
                   /\ told \subseteq more
                   /\ job.do = "archive" => k \in more
                   => /\ RecordsSurvive(new, v, f, more, ended)
                      /\ Kept(v, f, mem[v].sessions, more, ended)
          <5> HIDE DEF new, R, job, gone
          <5> QED BY <2>3, <2>4, <4>3, <4>4, SurvivesEvent
        <4>7. HasFile(v) => /\ RecordsSurvive(new, v, file[v].sessions, T1, ended)
                            /\ Kept(v, file[v].sessions, mem[v].sessions, T1, ended)
          <5> HIDE DEF new, R, job, gone, T, T1
          <5> QED BY <3>3, <4>1, <4>6
        <4>8. FileSurvivesFor(v)'
          BY <3>1, <3>2, <3>3, <4>7 DEF FileSurvivesFor, T1, T, new, R
        <4> QED BY <3>1, <4>5, <4>6, <4>8
      <3> QED BY <2>9, <3>4, <3>5, EventMeans
    <2>10. CASE AppendSnapshot(v)
      <3>1. /\ UNCHANGED <<plan, now, file, born, ended, settled, starts>>
            /\ mem'[v].sessions = mem[v].sessions
            /\ work'[v].pc = "local" /\ work[v].pc = "snapshot"
        BY <2>10, SnapshotStep
      <3>2. ~Resting(v)' /\ HasFile(v)' = HasFile(v) /\ Up(v)
        BY <3>1 DEF Resting, HasFile, Up
      <3>3. HasFile(v) =>
              /\ Kept(v, file[v].sessions, mem[v].sessions, T, ended)
              /\ file[v].writer = None => Untouched(file[v].sessions)
        BY <2>3, <3>2 DEF FileSurvivesFor
      <3>4. CASE log' = log
        BY <2>3, <2>5, <2>6, <3>1, <3>2, <3>3, <3>4
      <3>5. CASE /\ R'.sessions = mem[v].sessions
                 /\ R'.archivedIds = {} /\ R'.purgedIds = {} /\ T1 = T
        <4> DEFINE f == file[v].sessions  m == mem[v].sessions  new == R'
        <4>1. SaidSo'
          BY <3>5 DEF SaidSo
        <4>2. MemorySurvives(new, v, m, ended)
          BY <3>5, SurvivesItself
        <4>3. HasFile(v) => RecordsSurvive(new, v, f, T, ended)
          <5>1. SUFFICES ASSUME HasFile(v), NEW s \in DOMAIN f \ ended
                         PROVE  /\ Unheard(new, v, s, f[s])
                                /\ BelongsTo(f[s], v) =>
                                     Ahead(new, s, f[s]) /\ Behind(new, T, s, f[s])
            BY DEF RecordsSurvive
          <5>2. /\ s \in DOMAIN m
                /\ BelongsTo(f[s], v) =>
                     /\ m[s].updated >= f[s].updated \/ s \in T
                     /\ f[s].archived => m[s].archived
            BY <3>3, <5>1 DEF Kept
          <5>3. new.sessions = m
            BY <3>5
          <5> HIDE DEF f, m, new, T
          <5> QED BY <5>2, <5>3 DEF Unheard, Ahead, Behind
        <4>4. FileSurvivesFor(v)'
          BY <3>1, <3>2, <3>3, <3>5, <4>3 DEF FileSurvivesFor
        <4> QED BY <3>1, <4>1, <4>2, <4>4
      <3> QED BY <2>10, <3>4, <3>5, SnapshotMeansAll
    <2>11. CASE WriteLocal(v)
      <3>1. /\ UNCHANGED <<plan, log, born, ended, starts>>
            /\ file'[v] = LocalFile(v, mem[v], work[v].at)
        BY <2>11, LocalStep
      <3> DEFINE m == mem[v].sessions
      <3>2. file'[v].sessions = m /\ file'[v].writer = v /\ v # None
        BY <3>1, MirrorAssumption DEF LocalFile
      <3>3. RecordsSurvive(R, v, m, T, ended) /\ FileHeeds(R, m)
        BY <2>3 DEF MemorySurvives, RecordsSurvive, FileHeeds, Behind, Heeds
      <3>4. m \in Tables(Session, RecordsTo(now)) /\ Kept(v, m, m, T, ended)
        <4>1. m \in Tables(Session, RecordsTo(now))
          BY <2>4 DEF StateOK
        <4>2. \A s \in DOMAIN m : m[s] \in RecordsTo(now)
          BY <4>1, TableIs
        <4>3. \A s \in DOMAIN m : m[s].updated \in Nat
          BY <2>4, <4>2 DEF RecordsTo
        <4>4. \A s \in DOMAIN m : m[s].updated >= m[s].updated
          <5> HIDE DEF m
          <5> QED BY <4>3
        <4> HIDE DEF m
        <4> QED BY <4>1, <4>4 DEF Kept
      <3>5. /\ MemorySurvives(R, v, mem'[v].sessions, ended)
            /\ Kept(v, m, mem'[v].sessions, T, ended)
        <4>1. CASE work'[v].pc = "idle"
          <5>1. mem'[v] = mem[v]
            BY <2>11, <4>1, LocalIdle
          <5> QED BY <2>3, <3>4, <5>1
        <4>2. CASE work'[v].pc # "idle"
          <5>1. PICK job, k : /\ Making(v, mem[v], job, k)
                              /\ job.do \in {"update", "request", "snapshot"}
            BY <2>11, <4>2, LocalMeans
          <5>2. DOMAIN m \subseteq born
            BY DEF BornInv, KeysIn
          <5>3. /\ ended' = ended
                /\ Making(v, mem[v], job, k) /\ job.do # "purge"
                /\ MemorySurvives(R, v, mem[v].sessions, ended)
            BY <2>3, <3>1, <5>1
          <5>4. /\ MemorySurvives(R, v, mem'[v].sessions, ended')
                /\ \A told, f :
                     /\ f \in Tables(Session, RecordsTo(now))
                     /\ Kept(v, f, m, told, ended)
                     /\ DOMAIN f \subseteq born
                     => Kept(v, f, mem'[v].sessions, told, ended')
            BY <5>3, SurvivesMaking
          <5> QED BY <3>4, <5>2, <5>3, <5>4
        <4> QED BY <4>1, <4>2
      <3>6. FileSurvivesFor(v)'
        BY <2>5, <3>1, <3>2, <3>3, <3>5 DEF FileSurvivesFor
      <3> QED BY <2>5, <3>1, <3>5, <3>6
    <2>12. CASE FailLocal(v) \/ Stop(v) \/ Crash(v)
      <3>1. /\ UNCHANGED <<plan, log, now, born, ended, settled, starts>>
            /\ file'[v] \in {file[v], Corrupt}
            /\ (file'[v] = file[v] /\ work[v].pc = "idle") \/ ~FileSafe
            /\ \/ mem'[v] = mem[v] /\ work[v].pc = "local"
               \/ work'[v] = [pc |-> "down", todo |-> <<>>, at |-> 0, gone |-> {}]
        BY <2>12, EndStep DEF FileSafe
      <3>2. mem'[v] \in {mem[v], NoReplay} /\ DOMAIN NoReplay.sessions = {}
        <4>1. mem = [w \in Inst |-> mem[w]]
          BY DEF TypeInv
        <4> QED BY <2>12, <4>1, TableEmpty DEF FailLocal, Stop, Crash, NoReplay
      <3>3. MemorySurvives(R, v, mem'[v].sessions, ended)
        BY <2>3, <3>2 DEF MemorySurvives
      <3>4. FileSurvivesFor(v)'
        <4>1. CASE file'[v] = Corrupt
          BY <4>1 DEF FileSurvivesFor, HasFile
        <4>2. CASE file'[v] = file[v]
          <5>1. Up(v)' /\ HasFile(v) => Kept(v, file[v].sessions, mem'[v].sessions, T, ended)
            <6>1. CASE mem'[v] = mem[v] /\ work[v].pc = "local"
              BY <2>3, <6>1 DEF FileSurvivesFor, Up
            <6>2. CASE work'[v] = [pc |-> "down", todo |-> <<>>, at |-> 0, gone |-> {}]
              BY <6>2 DEF Up
            <6> QED BY <3>1, <6>1, <6>2
          <5> QED BY <2>6, <3>1, <4>2, <5>1 DEF Resting
        <4> QED BY <3>1, <4>1, <4>2
      <3> QED BY <2>5, <3>1, <3>3, <3>4
    <2>13. CASE AHandler(v)
      <3>1. PICK st, job, k : HandlerMakes(v, st, job, k)
        BY <2>13, HandlerMeans
      <3>2. /\ Making(v, st, job, k) /\ file' = file /\ log' = log /\ work[v].pc = "idle"
            /\ ended' = ended \cup work'[v].gone
            /\ job.do = "purge" => k \in ended'
        BY <3>1 DEF HandlerMakes, Making
      <3>3. MemorySurvives(R, v, mem'[v].sessions, ended')
        BY <2>3, <2>4, <3>2, SurvivesMaking
      <3>4. HasFile(v) => Kept(v, file[v].sessions, mem'[v].sessions, T, ended')
        <4>1. SUFFICES ASSUME HasFile(v)
                       PROVE  Kept(v, file[v].sessions, mem'[v].sessions, T, ended')
          OBVIOUS
        <4>2. file[v].sessions \in Tables(Session, RecordsTo(now))
          BY <2>4, <4>1, FileState
        <4>3. Kept(v, file[v].sessions, mem[v].sessions, T, ended)
          BY <2>3, <3>2, <4>1 DEF FileSurvivesFor, Up
        <4>4. DOMAIN file[v].sessions \subseteq born
          BY <4>1 DEF BornInv, KeysIn
        <4> QED BY <2>3, <2>4, <3>2, <4>2, <4>3, <4>4, SurvivesMaking
      <3>5. FileSurvivesFor(v)'
        BY <2>6, <3>2, <3>4 DEF Resting
      <3> QED BY <2>5, <3>2, <3>3, <3>5
    <2> QED BY <1>2, <2>7, <2>8, <2>9, <2>10, <2>11, <2>12, <2>13, StepKinds
  <1> QED BY <1>1, <1>2 DEF Next

\* Where one installation is alone, and no file that is behind stands alone, a start
\* brings back every session of its own file, as it is there or newer, but for those
\* that were purged, also where appends fail (merge_local_mirror).
THEOREM FileComesBack ==
    ASSUME OneInstallation
    PROVE  Spec /\ []LimitHarmless => FileSurvives
  <1> DEFINE Survives(w) ==
               Starts(w) /\ file[w] \notin {None, Corrupt} =>
                 \A s \in DOMAIN file[w].sessions \ ended :
                   LET l == file[w].sessions[s] IN
                   BelongsTo(l, w) =>
                     /\ s \in DOMAIN mem'[w].sessions
                     /\ \/ mem'[w].sessions[s].updated >= l.updated
                        \/ s \in Logged("archived")
                     /\ l.archived => mem'[w].sessions[s].archived
             Action == NeverBehind => \A w \in Inst : Survives(w)
  <1>1. TypeInv /\ BornInv /\ SurvivesInv /\ LimitHarmless /\ [Next]_vars => [Action]_vars
    <2> SUFFICES ASSUME TypeInv, BornInv, SurvivesInv, LimitHarmless, Next, NeverBehind,
                        NEW w \in Inst, Starts(w), HasFile(w)
                 PROVE  Kept(w, file[w].sessions, mem'[w].sessions, Logged("archived"), ended)
      BY DEF Kept, HasFile
    <2>1. WorkerNext(w) /\ Inst = {w}
      BY DEF Next, OneInstallation
    <2>2. FileSurvivesFor(w) /\ SaidSo
      BY DEF SurvivesInv
    <2>3. CASE StartFromDataSpace(w)
      BY <2>1, <2>2, <2>3, SurvivesDataSpace
    <2>4. CASE StartFromFile(w)
      BY <2>2, <2>4, FileStartSafe, SurvivesFile
    <2>5. CASE ~(StartFromDataSpace(w) \/ StartFromFile(w))
      <3>1. work[w].pc = "down" /\ work'[w].pc # "down"
        BY DEF Starts, Up
      <3>2. ~(AppendEvent(w) \/ AppendSnapshot(w) \/ WriteLocal(w) \/ FailLocal(w) \/ Stop(w)
              \/ Crash(w))
        BY <3>1 DEF AppendEvent, AppendSnapshot, WriteLocal, FailLocal, Stop, Crash
      <3>3. ~AHandler(w)
        BY <3>1 DEF AHandler, Create, Update, ArchiveSession, PurgeArchived, RequestApproval,
                    ResolveApproval, Handler
      <3> QED BY <2>1, <2>5, <3>2, <3>3, StepKinds
    <2> QED BY <2>3, <2>4, <2>5
  <1> QED BY <1>1, InitTypes, NextTypes, InitBorn, NextBorn, InitSurvives, NextSurvives,
          PTL DEF Spec, FileSurvives
===============================================================================
