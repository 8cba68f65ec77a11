---------------------------- MODULE EventLogProofs ----------------------------
(***************************************************************************)
(* Proofs about EventLog, for rooms of any length, any messages and any    *)
(* page size and page limit.                                               *)
(***************************************************************************)
EXTENDS EventLog, FiniteSetTheorems, SequenceTheorems, WellFoundedInduction, TLAPS

\* Induction, with a set for the property.
LEMMA NatSetInduction ==
    ASSUME NEW S, 0 \in S, \A n \in Nat : n \in S => n + 1 \in S
    PROVE  \A n \in Nat : n \in S
  <1> DEFINE T == {n \in Nat : n \notin S}  R == OpToRel(<, Nat)
  <1>1. SUFFICES ASSUME T # {} PROVE FALSE
    OBVIOUS
  <1>2. IsWellFoundedOn(R, Nat)
    BY NatLessThanWellFounded
  <1>3. PICK x \in T : \A y \in T : ~(<<y, x>> \in R)
    <2> HIDE DEF R, T
    <2>1. T \subseteq Nat
      BY DEF T
    <2> QED BY <1>1, <1>2, <2>1, WFMin
  <1>4. \A y, z \in Nat : y < z => <<y, z>> \in R
    BY DEF OpToRel
  <1> HIDE DEF R
  <1>5. x \in Nat /\ x \notin S
    OBVIOUS
  <1>6. x # 0
    BY <1>5
  <1>7. x - 1 \in Nat /\ (x - 1) + 1 = x /\ x - 1 < x
    BY <1>5, <1>6
  <1>8. x - 1 \in S
    BY <1>3, <1>4, <1>5, <1>7
  <1>9. \A n \in Nat : n \in S => n + 1 \in S
    OBVIOUS
  <1> HIDE DEF T
  <1>10. (x - 1) + 1 \in S
    BY <1>7, <1>8, <1>9
  <1> QED BY <1>5, <1>7, <1>10

-----------------------------------------------------------------------------
(* The fold of a replay, message by message.                               *)

\* The states a fold goes through, up to the n-th message.
IsFold(f, n, base, messages) ==
    f = [k \in 0..n |-> IF k = 0 THEN base ELSE StepReplay(f[k - 1], messages[k])]

\* Such states there are.
LEMMA FoldExists ==
    ASSUME NEW base, NEW messages
    PROVE  \A n \in Nat : \E f : IsFold(f, n, base, messages)
  <1> DEFINE S == {n \in Nat : \E f : IsFold(f, n, base, messages)}
  <1>1. 0 \in S
    <2> DEFINE f == [k \in 0..0 |-> base]
    <2>1. IsFold(f, 0, base, messages)
      BY DEF IsFold
    <2> QED BY <2>1
  <1>2. ASSUME NEW n \in Nat, n \in S PROVE n + 1 \in S
    <2>1. PICK f : IsFold(f, n, base, messages)
      BY <1>2
    <2> DEFINE next == StepReplay(f[n], messages[n + 1])
               g == [k \in 0..(n + 1) |-> IF k = n + 1 THEN next ELSE f[k]]
    <2>2. ASSUME NEW k \in 0..(n + 1)
          PROVE  g[k] = IF k = 0 THEN base ELSE StepReplay(g[k - 1], messages[k])
      <3> HIDE DEF next
      <3>1. CASE k = n + 1
        <4>1. g[k] = next /\ k - 1 = n /\ n \in 0..(n + 1) /\ n # n + 1 /\ k # 0
          BY <3>1
        <4>2. g[k - 1] = f[n]
          BY <4>1
        <4> QED BY <3>1, <4>1, <4>2 DEF next
      <3>2. CASE k # n + 1 /\ k # 0
        <4>1. k \in 0..n /\ k - 1 \in 0..(n + 1) /\ k - 1 # n + 1
          BY <3>2
        <4>2. g[k] = f[k] /\ g[k - 1] = f[k - 1]
          BY <3>2, <4>1
        <4>3. f[k] = StepReplay(f[k - 1], messages[k])
          BY <2>1, <3>2, <4>1 DEF IsFold
        <4> QED BY <3>2, <4>2, <4>3
      <3>3. CASE k = 0
        <4>1. f[0] = base
          BY <2>1 DEF IsFold
        <4> QED BY <3>3, <4>1
      <3> QED BY <3>1, <3>2, <3>3
    <2> HIDE DEF next
    <2>3. IsFold(g, n + 1, base, messages)
      <3>1. g = [k \in 0..(n + 1) |-> g[k]]
        OBVIOUS
      <3> HIDE DEF g
      <3> QED BY <2>2, <3>1 DEF IsFold
    <2> QED BY <2>3
  <1> HIDE DEF S
  <1>3. \A n \in Nat : n \in S
    BY <1>1, <1>2, NatSetInduction
  <1> QED BY <1>3 DEF S

\* They are determined by the messages they are of.
LEMMA FoldUnique ==
    ASSUME NEW base, NEW p, NEW q, NEW m \in Nat, NEW n \in Nat, m <= n,
           \A k \in 1..m : p[k] = q[k],
           NEW f, IsFold(f, m, base, p), NEW g, IsFold(g, n, base, q)
    PROVE  f[m] = g[m]
  <1> DEFINE S == {k \in Nat : k <= m => f[k] = g[k]}
  <1>1. 0 \in S
    BY DEF IsFold
  <1>2. ASSUME NEW k \in Nat, k \in S PROVE k + 1 \in S
    <2> SUFFICES ASSUME k + 1 <= m PROVE f[k + 1] = g[k + 1]
      OBVIOUS
    <2>1. f[k] = g[k] /\ k + 1 \in 1..m /\ k + 1 \in 0..n /\ k + 1 \in 0..m
      BY <1>2
    <2>2. f[k + 1] = StepReplay(f[k], p[k + 1])
      BY <2>1 DEF IsFold
    <2>3. g[k + 1] = StepReplay(g[k], q[k + 1])
      BY <2>1 DEF IsFold
    <2> QED BY <2>1, <2>2, <2>3
  <1> HIDE DEF S
  <1>3. \A k \in Nat : k \in S
    BY <1>1, <1>2, NatSetInduction
  <1> QED BY <1>3 DEF S

\* A replay is the last of them.
LEMMA ReplayedIsFold ==
    ASSUME NEW base, NEW messages, Len(messages) \in Nat
    PROVE  \E f : /\ IsFold(f, Len(messages), base, messages)
                  /\ Replayed(base, messages) = f[Len(messages)]
  <1> DEFINE state == CHOOSE f : f = [k \in 0..Len(messages) |->
                        IF k = 0 THEN base ELSE StepReplay(f[k - 1], messages[k])]
  <1>1. IsFold(state, Len(messages), base, messages)
    BY FoldExists DEF IsFold
  <1>2. Replayed(base, messages) = state[Len(messages)]
    BY DEF Replayed
  <1> QED BY <1>1, <1>2

\* Nothing to replay leaves the base as it is.
LEMMA ReplayedNothing ==
    ASSUME NEW base PROVE Replayed(base, <<>>) = base
  <1>1. Len(<<>>) = 0
    OBVIOUS
  <1>2. PICK f : IsFold(f, 0, base, <<>>) /\ Replayed(base, <<>>) = f[0]
    BY <1>1, ReplayedIsFold
  <1> QED BY <1>2 DEF IsFold

\* One more message is one more step.
LEMMA ReplayedAppend ==
    ASSUME NEW base, NEW M, NEW q \in Seq(M), NEW m \in M
    PROVE  Replayed(base, Append(q, m)) = StepReplay(Replayed(base, q), m)
  <1> DEFINE n == Len(q)  p == Append(q, m)
  <1>1. /\ n \in Nat /\ Len(p) = n + 1 /\ p[n + 1] = m
        /\ \A k \in 1..n : p[k] = q[k]
    OBVIOUS
  <1> HIDE DEF n, p
  <1>2. PICK f : IsFold(f, n, base, q) /\ Replayed(base, q) = f[n]
    BY <1>1, ReplayedIsFold DEF n
  <1>3. PICK g : IsFold(g, n + 1, base, p) /\ Replayed(base, p) = g[n + 1]
    <2>1. Len(p) \in Nat
      BY <1>1
    <2> QED BY <1>1, <2>1, ReplayedIsFold
  <1>4. f[n] = g[n]
    <2>1. n + 1 \in Nat /\ n <= n + 1 /\ \A k \in 1..n : q[k] = p[k]
      BY <1>1
    <2> QED BY <1>1, <1>2, <1>3, <2>1, FoldUnique
  <1>5. g[n + 1] = StepReplay(g[n], p[n + 1])
    BY <1>1, <1>3 DEF IsFold
  <1> QED BY <1>1, <1>2, <1>3, <1>4, <1>5 DEF p

-----------------------------------------------------------------------------
(* The last of some places in a log.                                       *)

\* A set of places has a last one.
LEMMA PlacesHaveLast ==
    ASSUME NEW n \in Nat, NEW places \in SUBSET (1..n), places # {}
    PROVE  \E i \in places : \A j \in places : i >= j
  <1> DEFINE S == {k \in Nat : \A some \in SUBSET (1..k) :
                       some # {} => \E i \in some : \A j \in some : i >= j}
  <1>1. 0 \in S
    <2>1. 1..0 = {}
      OBVIOUS
    <2> QED BY <2>1
  <1>2. ASSUME NEW k \in Nat, k \in S PROVE k + 1 \in S
    <2> SUFFICES ASSUME NEW some \in SUBSET (1..(k + 1)), some # {}
                 PROVE  \E i \in some : \A j \in some : i >= j
      OBVIOUS
    <2>1. CASE k + 1 \in some
      BY <2>1
    <2>2. CASE k + 1 \notin some
      <3>1. some \in SUBSET (1..k)
        BY <2>2
      <3> QED BY <1>2, <3>1
    <2> QED BY <2>1, <2>2
  <1> HIDE DEF S
  <1>3. n \in S
    BY <1>1, <1>2, NatSetInduction
  <1> QED BY <1>3 DEF S

\* It is what Latest gives.
LEMMA LatestIsLast ==
    ASSUME NEW n \in Nat, NEW places \in SUBSET (1..n)
    PROVE  /\ Latest(places) \in 0..n
           /\ Latest(places) = 0 <=> places = {}
           /\ places # {} => /\ Latest(places) \in places
                             /\ \A j \in places : j <= Latest(places)
  <1>1. CASE places = {}
    BY <1>1 DEF Latest
  <1>2. CASE places # {}
    <2>1. /\ Max(places) \in places
          /\ \A j \in places : Max(places) >= j
      <3>1. \E i \in places : \A j \in places : i >= j
        BY <1>2, PlacesHaveLast
      <3> QED BY <3>1 DEF Max
    <2>2. Latest(places) = Max(places)
      BY <1>2 DEF Latest
    <2>3. Max(places) \in 1..n
      BY <2>1
    <2> HIDE DEF Max
    <2> QED BY <1>2, <2>1, <2>2, <2>3
  <1> QED BY <1>1, <1>2

\* A place of theirs that none of them exceeds is the last.
LEMMA LatestIsThis ==
    ASSUME NEW n \in Nat, NEW places \in SUBSET (1..n), NEW i \in places,
           \A j \in places : j <= i
    PROVE  Latest(places) = i
  <1>1. Latest(places) \in places /\ i <= Latest(places)
    BY LatestIsLast
  <1>2. Latest(places) <= i
    BY <1>1
  <1>3. i \in 1..n /\ Latest(places) \in 1..n
    BY <1>1
  <1> QED BY <1>1, <1>2, <1>3

\* A place after all of them is the last with them.
LEMMA LatestAdd ==
    ASSUME NEW n \in Nat, NEW places \in SUBSET (1..n)
    PROVE  Latest(places \cup {n + 1}) = n + 1
  <1>1. places \cup {n + 1} \in SUBSET (1..(n + 1)) /\ n + 1 \in Nat
    OBVIOUS
  <1>2. \A j \in places \cup {n + 1} : j <= n + 1
    OBVIOUS
  <1> QED BY <1>1, <1>2, LatestIsThis

-----------------------------------------------------------------------------
(* A replay, message by message.                                           *)

\* The last snapshot of a log is in it, and nothing after it is a snapshot.
LEMMA SnapshotIsLast ==
    ASSUME NEW q, Len(q) \in Nat, DOMAIN q = 1..Len(q)
    PROVE  /\ LatestSnapshot(q) \in 0..Len(q)
           /\ LatestSnapshot(q) # 0 => IsSnapshot(q[LatestSnapshot(q)])
           /\ \A i \in (LatestSnapshot(q) + 1)..Len(q) : ~IsSnapshot(q[i])
  <1> DEFINE places == {i \in DOMAIN q : IsSnapshot(q[i])}
  <1>1. places \in SUBSET (1..Len(q))
    OBVIOUS
  <1>2. /\ Latest(places) \in 0..Len(q)
        /\ Latest(places) = 0 <=> places = {}
        /\ places # {} => /\ Latest(places) \in places
                          /\ \A j \in places : j <= Latest(places)
    <2> HIDE DEF places
    <2> QED BY <1>1, LatestIsLast
  <1>3. LatestSnapshot(q) = Latest(places)
    BY DEF LatestSnapshot
  <1>4. ASSUME NEW i \in (Latest(places) + 1)..Len(q) PROVE ~IsSnapshot(q[i])
    <2>1. i \in 1..Len(q) /\ ~(i <= Latest(places))
      BY <1>2
    <2> QED BY <1>2, <2>1
  <1> QED BY <1>2, <1>3, <1>4

\* The last snapshot is the only place with these properties.
LEMMA SnapshotIsThis ==
    ASSUME NEW q, Len(q) \in Nat, DOMAIN q = 1..Len(q),
           NEW i \in 0..Len(q), i # 0 => IsSnapshot(q[i]),
           \A j \in (i + 1)..Len(q) : ~IsSnapshot(q[j])
    PROVE  LatestSnapshot(q) = i
  <1>1. /\ LatestSnapshot(q) \in 0..Len(q)
        /\ LatestSnapshot(q) # 0 => IsSnapshot(q[LatestSnapshot(q)])
        /\ \A j \in (LatestSnapshot(q) + 1)..Len(q) : ~IsSnapshot(q[j])
    BY SnapshotIsLast
  <1>2. ~(LatestSnapshot(q) < i)
    BY <1>1
  <1>3. ~(i < LatestSnapshot(q))
    BY <1>1
  <1> QED BY <1>1, <1>2, <1>3

\* A message more: a snapshot is now the last, anything else changes nothing.
LEMMA SnapshotAppend ==
    ASSUME NEW M, NEW q \in Seq(M), NEW m \in M
    PROVE  LatestSnapshot(Append(q, m)) =
             IF IsSnapshot(m) THEN Len(q) + 1 ELSE LatestSnapshot(q)
  <1> DEFINE n == Len(q)  p == Append(q, m)
  <1>1. /\ n \in Nat /\ Len(p) = n + 1 /\ p[n + 1] = m /\ DOMAIN p = 1..Len(p)
        /\ \A k \in 1..n : p[k] = q[k]
    OBVIOUS
  <1>2. /\ LatestSnapshot(q) \in 0..n
        /\ LatestSnapshot(q) # 0 => IsSnapshot(q[LatestSnapshot(q)])
        /\ \A j \in (LatestSnapshot(q) + 1)..n : ~IsSnapshot(q[j])
    BY SnapshotIsLast
  <1> DEFINE i == IF IsSnapshot(m) THEN n + 1 ELSE LatestSnapshot(q)
  <1> HIDE DEF n, p
  <1>3. i \in 0..Len(p) /\ Len(p) \in Nat
    BY <1>1, <1>2
  <1>4. i # 0 => IsSnapshot(p[i])
    BY <1>1, <1>2
  <1>5. \A j \in (i + 1)..Len(p) : ~IsSnapshot(p[j])
    <2> TAKE j \in (i + 1)..Len(p)
    <2>1. CASE IsSnapshot(m)
      BY <1>1, <2>1
    <2>2. CASE ~IsSnapshot(m) /\ j = n + 1
      BY <1>1, <2>2
    <2>3. CASE ~IsSnapshot(m) /\ j # n + 1
      <3>1. j \in (LatestSnapshot(q) + 1)..n /\ j \in 1..n
        BY <1>1, <1>2, <2>3
      <3> QED BY <1>1, <1>2, <3>1
    <2> QED BY <2>1, <2>2, <2>3
  <1> HIDE DEF i
  <1>6. LatestSnapshot(p) = i
    BY <1>1, <1>3, <1>4, <1>5, SnapshotIsThis
  <1> QED BY <1>6 DEF i, n, p

\* An empty room replays to nothing.
LEMMA ReplayNothing == ReplayMessages(<<>>) = NoReplay
  <1>1. LatestSnapshot(<<>>) = 0
    <2>1. Len(<<>>) = 0 /\ DOMAIN <<>> = 1..0
      OBVIOUS
    <2>2. LatestSnapshot(<<>>) \in 0..0
      BY <2>1, SnapshotIsLast
    <2> QED BY <2>2
  <1>2. SubSeq(<<>>, 0 + 1, Len(<<>>)) = <<>>
    OBVIOUS
  <1> QED BY <1>1, <1>2, ReplayedNothing DEF ReplayMessages

\* A snapshot replaces what was replayed before, an event is applied to it, and
\* nothing else counts.
LEMMA ReplayAppend ==
    ASSUME NEW M, NEW q \in Seq(M), NEW m \in M
    PROVE  ReplayMessages(Append(q, m)) =
             IF IsSnapshot(m) THEN FromSnapshot(m) ELSE StepReplay(ReplayMessages(q), m)
  <1> DEFINE n == Len(q)  p == Append(q, m)
  <1>1. /\ n \in Nat /\ Len(p) = n + 1 /\ p[n + 1] = m /\ p \in Seq(M)
        /\ \A k \in 1..n : p[k] = q[k]
    OBVIOUS
  <1>2. LatestSnapshot(p) = IF IsSnapshot(m) THEN n + 1 ELSE LatestSnapshot(q)
    BY SnapshotAppend
  <1>3. LatestSnapshot(q) \in 0..n
    BY SnapshotIsLast
  <1>4. CASE IsSnapshot(m)
    <2>1. SubSeq(p, n + 1 + 1, Len(p)) = <<>>
      BY <1>1
    <2>2. LatestSnapshot(p) # 0 /\ p[LatestSnapshot(p)] = m /\ LatestSnapshot(p) = n + 1
      BY <1>1, <1>2, <1>4
    <2> HIDE DEF n, p
    <2>3. ReplayMessages(p) = Replayed(FromSnapshot(m), <<>>)
      BY <2>1, <2>2 DEF ReplayMessages
    <2> QED BY <1>4, <2>3, ReplayedNothing DEF p
  <1>5. CASE ~IsSnapshot(m)
    <2> DEFINE last == LatestSnapshot(q)
               base == IF last = 0 THEN NoReplay ELSE FromSnapshot(q[last])
               rest == SubSeq(q, last + 1, Len(q))
    <2>1. LatestSnapshot(p) = last /\ (last # 0 => p[last] = q[last])
      BY <1>1, <1>2, <1>3, <1>5
    <2>2. rest \in Seq(M) /\ SubSeq(p, last + 1, Len(p)) = Append(rest, m)
      <3> HIDE DEF last
      <3>1. last \in 0..n
        BY <1>3 DEF last
      <3>2. rest \in Seq(M) /\ Len(rest) = n - last
            /\ \A k \in 1..(n - last) : rest[k] = q[last + k]
        BY <3>1
      <3>3. /\ SubSeq(p, last + 1, n + 1) \in Seq(M)
            /\ Len(SubSeq(p, last + 1, n + 1)) = (n + 1) - last
            /\ \A k \in 1..((n + 1) - last) : SubSeq(p, last + 1, n + 1)[k] = p[last + k]
        <4> HIDE DEF p
        <4> QED BY <1>1, <3>1
      <3>4. /\ Append(rest, m) \in Seq(M) /\ Len(Append(rest, m)) = (n - last) + 1
            /\ \A k \in 1..(n - last) : Append(rest, m)[k] = rest[k]
            /\ Append(rest, m)[(n - last) + 1] = m
        <4> HIDE DEF rest
        <4> QED BY <3>1, <3>2
      <3> HIDE DEF rest, p, n
      <3>5. ASSUME NEW k \in 1..((n + 1) - last)
            PROVE  SubSeq(p, last + 1, n + 1)[k] = Append(rest, m)[k]
        <4>1. CASE k = (n + 1) - last
          <5>1. last + k = n + 1 /\ k = (n - last) + 1
            BY <1>1, <3>1, <4>1
          <5> QED BY <1>1, <3>3, <3>4, <5>1
        <4>2. CASE k # (n + 1) - last
          <5>1. k \in 1..(n - last) /\ last + k \in 1..n
            BY <1>1, <3>1, <4>2
          <5> QED BY <1>1, <3>2, <3>3, <3>4, <5>1
        <4> QED BY <4>1, <4>2
      <3>6. (n + 1) - last = (n - last) + 1
        BY <1>1, <3>1
      <3>7. SubSeq(p, last + 1, n + 1) = Append(rest, m)
        BY <3>3, <3>4, <3>5, <3>6, SeqEqual
      <3> QED BY <1>1, <3>2, <3>7
    <2>3. ReplayMessages(p) = Replayed(base, Append(rest, m))
      <3> HIDE DEF p, n, rest
      <3> QED BY <2>1, <2>2 DEF ReplayMessages
    <2>4. ReplayMessages(q) = Replayed(base, rest)
      BY DEF ReplayMessages
    <2> HIDE DEF base, rest, last, n
    <2> QED BY <1>5, <2>2, <2>3, <2>4, ReplayedAppend
  <1> QED BY <1>4, <1>5

-----------------------------------------------------------------------------
(* What one step of a replay does to its parts.                            *)

\* A replay state has these parts and no others.
IsReplay(st) ==
    st = [sessions |-> st.sessions, approvals |-> st.approvals, count |-> st.count,
          snapAt |-> st.snapAt, archivedIds |-> st.archivedIds,
          purgedIds |-> st.purgedIds, resolvedIds |-> st.resolvedIds]

\* The archived flag is set where there is a session to set it on.
Flagged(sessions, s) ==
    IF s \in DOMAIN sessions THEN [sessions EXCEPT ![s].archived = TRUE] ELSE sessions

\* Only writing, archiving and purging touch the sessions.
LEMMA StepSessions ==
    ASSUME NEW st, IsReplay(st), NEW m
    PROVE  /\ IsReplay(StepReplay(st, m))
           /\ StepReplay(st, m).sessions =
                IF m.kind \in {"created", "updated"} THEN Put(st.sessions, m.id, m.session)
                ELSE IF m.kind = "archived" THEN Flagged(st.sessions, m.id)
                ELSE IF m.kind = "purged" THEN Drop(st.sessions, {m.id})
                ELSE st.sessions
  <1>1. CASE m.kind \in {"created", "updated"}
    BY <1>1 DEF StepReplay, IsEvent, EventKinds, Apply, IsReplay
  <1>2. CASE m.kind = "archived"
    BY <1>2 DEF StepReplay, IsEvent, EventKinds, Apply, IsReplay, Archive, Flagged
  <1>3. CASE m.kind = "purged"
    BY <1>3 DEF StepReplay, IsEvent, EventKinds, Apply, IsReplay, Purge
  <1>4. CASE m.kind = "requested"
    BY <1>4 DEF StepReplay, IsEvent, EventKinds, Apply, IsReplay
  <1>5. CASE m.kind = "resolved"
    BY <1>5 DEF StepReplay, IsEvent, EventKinds, Apply, IsReplay
  <1>6. CASE m.kind \notin EventKinds
    BY <1>6 DEF StepReplay, IsEvent, EventKinds
  <1> QED BY <1>1, <1>2, <1>3, <1>4, <1>5, <1>6 DEF EventKinds

\* Asking, resolving, and archiving or purging their session touch the approvals.
LEMMA StepApprovals ==
    ASSUME NEW st, IsReplay(st), NEW m
    PROVE  StepReplay(st, m).approvals =
             IF m.kind = "requested" THEN Put(st.approvals, m.id, m.approval)
             ELSE IF m.kind \in {"archived", "purged"}
                  THEN Drop(st.approvals, ApprovalsOf(st.approvals, m.id))
             ELSE IF m.kind = "resolved" THEN Drop(st.approvals, {m.id})
             ELSE st.approvals
  <1>1. CASE m.kind \in {"created", "updated"}
    BY <1>1 DEF StepReplay, IsEvent, EventKinds, Apply, IsReplay
  <1>2. CASE m.kind = "archived"
    BY <1>2 DEF StepReplay, IsEvent, EventKinds, Apply, IsReplay, Archive
  <1>3. CASE m.kind = "purged"
    BY <1>3 DEF StepReplay, IsEvent, EventKinds, Apply, IsReplay, Purge
  <1>4. CASE m.kind = "requested"
    BY <1>4 DEF StepReplay, IsEvent, EventKinds, Apply, IsReplay
  <1>5. CASE m.kind = "resolved"
    BY <1>5 DEF StepReplay, IsEvent, EventKinds, Apply, IsReplay
  <1>6. CASE m.kind \notin EventKinds
    BY <1>6 DEF StepReplay, IsEvent, EventKinds
  <1> QED BY <1>1, <1>2, <1>3, <1>4, <1>5, <1>6 DEF EventKinds

\* What is told of a key is kept; every event counts.
LEMMA StepTold ==
    ASSUME NEW st, IsReplay(st), NEW m
    PROVE  LET next == StepReplay(st, m) IN
           /\ next.archivedIds = IF m.kind = "archived" THEN st.archivedIds \cup {m.id}
                                 ELSE IF m.kind = "purged" THEN st.archivedIds \ {m.id}
                                 ELSE st.archivedIds
           /\ next.purgedIds = IF m.kind = "purged" THEN st.purgedIds \cup {m.id}
                               ELSE st.purgedIds
           /\ next.resolvedIds = IF m.kind = "resolved" THEN st.resolvedIds \cup {m.id}
                                 ELSE st.resolvedIds
           /\ next.count = IF IsEvent(m) THEN st.count + 1 ELSE st.count
           /\ next.snapAt = st.snapAt
  <1>1. CASE m.kind \in {"created", "updated"}
    BY <1>1 DEF StepReplay, IsEvent, EventKinds, Apply, IsReplay
  <1>2. CASE m.kind = "archived"
    BY <1>2 DEF StepReplay, IsEvent, EventKinds, Apply, IsReplay, Archive
  <1>3. CASE m.kind = "purged"
    BY <1>3 DEF StepReplay, IsEvent, EventKinds, Apply, IsReplay, Purge
  <1>4. CASE m.kind = "requested"
    BY <1>4 DEF StepReplay, IsEvent, EventKinds, Apply, IsReplay
  <1>5. CASE m.kind = "resolved"
    BY <1>5 DEF StepReplay, IsEvent, EventKinds, Apply, IsReplay
  <1>6. CASE m.kind \notin EventKinds
    BY <1>6 DEF StepReplay, IsEvent, EventKinds
  <1> QED BY <1>1, <1>2, <1>3, <1>4, <1>5, <1>6 DEF EventKinds

\* A snapshot sets its parts, and nothing has been told since.
LEMMA SnapshotParts ==
    ASSUME NEW m
    PROVE  LET st == FromSnapshot(m) IN
           /\ IsReplay(st) /\ st.sessions = m.sessions /\ st.approvals = m.approvals
           /\ st.archivedIds = {} /\ st.purgedIds = {} /\ st.resolvedIds = {}
           /\ st.count = 0 /\ st.snapAt = m.at
  <1>1. /\ IsReplay(NoReplay) /\ NoReplay.count = 0 /\ NoReplay.archivedIds = {}
        /\ NoReplay.purgedIds = {} /\ NoReplay.resolvedIds = {}
    BY DEF IsReplay, NoReplay
  <1> DEFINE base == NoReplay  st == FromSnapshot(m)
  <1>2. st = [base EXCEPT !.sessions = m.sessions, !.approvals = m.approvals,
                          !.snapAt = m.at]
    BY DEF FromSnapshot
  <1> HIDE DEF base, st
  <1>3. /\ IsReplay(base) /\ base.count = 0 /\ base.archivedIds = {}
        /\ base.purgedIds = {} /\ base.resolvedIds = {}
    BY <1>1 DEF base
  <1>4. /\ IsReplay(st) /\ st.sessions = m.sessions /\ st.approvals = m.approvals
        /\ st.archivedIds = {} /\ st.purgedIds = {} /\ st.resolvedIds = {}
        /\ st.count = 0 /\ st.snapAt = m.at
    BY <1>2, <1>3 DEF IsReplay
  <1> QED BY <1>4 DEF st

-----------------------------------------------------------------------------
(* What the next message does to the last words.                           *)

\* The last snapshot of the room, and what is said after it, are in the room.
LEMMA PlacesInLog ==
    ASSUME NEW M, log \in Seq(M)
    PROVE  /\ Len(log) \in Nat /\ Base \in 0..Len(log)
           /\ \A kinds, key : Said(kinds, key) \in SUBSET (1..Len(log))
           /\ Base # 0 => IsSnapshot(log[Base])
  <1>1. Len(log) \in Nat /\ DOMAIN log = 1..Len(log)
    OBVIOUS
  <1>2. Base \in 0..Len(log) /\ (Base # 0 => IsSnapshot(log[Base]))
    BY <1>1, SnapshotIsLast DEF Base
  <1>3. ASSUME NEW kinds, NEW key PROVE Said(kinds, key) \in SUBSET (1..Len(log))
    BY <1>1, <1>2 DEF Said, After
  <1> QED BY <1>1, <1>2, <1>3

\* A last word is in the log, 0 if there is none.
LEMMA WordsInLog ==
    ASSUME NEW M, log \in Seq(M)
    PROVE  /\ \A s : /\ Written(s) \in 0..Len(log) /\ Archived(s) \in 0..Len(log)
                     /\ Purged(s) \in 0..Len(log)
           /\ \A a : Asked(a) \in 0..Len(log) /\ Resolved(a) \in 0..Len(log)
  <1>1. ASSUME NEW kinds, NEW key PROVE Latest(Said(kinds, key)) \in 0..Len(log)
    <2>1. Len(log) \in Nat /\ Said(kinds, key) \in SUBSET (1..Len(log))
      BY PlacesInLog
    <2> QED BY <2>1, LatestIsLast
  <1> QED BY <1>1 DEF Written, Archived, Purged, Asked, Resolved

\* After a snapshot nothing has been said.
LEMMA WordsOfSnapshot ==
    ASSUME NEW M, log \in Seq(M), NEW m \in M, log' = Append(log, m), IsSnapshot(m)
    PROVE  /\ Base' = Len(log) + 1 /\ log'[Base'] = m /\ After(Base)' = {}
           /\ \A s : Written(s)' = 0 /\ Archived(s)' = 0 /\ Purged(s)' = 0
           /\ \A a : Asked(a)' = 0 /\ Resolved(a)' = 0
  <1>1. /\ Len(log) \in Nat /\ Len(log') = Len(log) + 1 /\ log'[Len(log) + 1] = m
    OBVIOUS
  <1>2. Base' = Len(log) + 1
    <2>1. LatestSnapshot(Append(log, m)) = Len(log) + 1
      BY SnapshotAppend
    <2> QED BY <2>1 DEF Base
  <1>3. After(Base)' = {}
    <2>1. (Base' + 1)..Len(log') = {}
      BY <1>1, <1>2
    <2> QED BY <2>1 DEF After
  <1>4. ASSUME NEW kinds, NEW key PROVE Latest(Said(kinds, key)') = 0
    <2>1. Said(kinds, key)' = {}
      BY <1>3 DEF Said
    <2> QED BY <2>1 DEF Latest
  <1> QED BY <1>1, <1>2, <1>3, <1>4 DEF Written, Archived, Purged, Asked, Resolved

\* Anything else may be a last word, of its key, and leaves the others as they are.
LEMMA WordsOfOther ==
    ASSUME NEW M, log \in Seq(M), NEW m \in M, log' = Append(log, m), ~IsSnapshot(m)
    PROVE  LET n == Len(log) + 1 IN
           /\ Base' = Base /\ After(Base)' = After(Base) \cup {n}
           /\ n \notin After(Base) /\ log'[n] = m
           /\ \A i \in 1..Len(log) : log'[i] = log[i]
           /\ \A s : /\ Written(s)' = IF m.kind \in {"created", "updated"} /\ m.id = s
                                      THEN n ELSE Written(s)
                     /\ Archived(s)' = IF m.kind = "archived" /\ m.id = s
                                       THEN n ELSE Archived(s)
                     /\ Purged(s)' = IF m.kind = "purged" /\ m.id = s
                                     THEN n ELSE Purged(s)
           /\ \A a : /\ Asked(a)' = IF m.kind = "requested" /\ m.id = a
                                    THEN n ELSE Asked(a)
                     /\ Resolved(a)' = IF m.kind = "resolved" /\ m.id = a
                                       THEN n ELSE Resolved(a)
  <1> DEFINE n == Len(log) + 1
  <1>1. /\ Len(log) \in Nat /\ Len(log') = n /\ log'[n] = m
        /\ \A i \in 1..Len(log) : log'[i] = log[i]
    OBVIOUS
  <1>2. Base' = Base
    <2>1. LatestSnapshot(Append(log, m)) = LatestSnapshot(log)
      BY SnapshotAppend
    <2> QED BY <2>1 DEF Base
  <1>3. Base \in 0..Len(log) /\ \A kinds, key : Said(kinds, key) \in SUBSET (1..Len(log))
    BY PlacesInLog
  <1>4. After(Base)' = After(Base) \cup {n} /\ n \notin After(Base)
        /\ After(Base) \subseteq 1..Len(log)
    <2>1. (Base + 1)..n = ((Base + 1)..Len(log)) \cup {n} /\ n \notin (Base + 1)..Len(log)
          /\ (Base + 1)..Len(log) \subseteq 1..Len(log)
      BY <1>1, <1>3
    <2> HIDE DEF n
    <2> QED BY <1>1, <1>2, <2>1 DEF After
  <1>5. ASSUME NEW kinds, NEW key
        PROVE  Latest(Said(kinds, key)') =
                 IF m.kind \in kinds /\ m.id = key THEN n ELSE Latest(Said(kinds, key))
    <2>1. CASE m.kind \in kinds /\ m.id = key
      <3>1. Said(kinds, key)' = Said(kinds, key) \cup {n}
        BY <1>1, <1>4, <2>1 DEF Said
      <3>2. Latest(Said(kinds, key) \cup {n}) = n
        BY <1>1, <1>3, LatestAdd
      <3> QED BY <2>1, <3>1, <3>2
    <2>2. CASE ~(m.kind \in kinds /\ m.id = key)
      <3>1. Said(kinds, key)' = Said(kinds, key)
        BY <1>1, <1>4, <2>2 DEF Said
      <3> QED BY <2>2, <3>1
    <2> QED BY <2>1, <2>2
  <1> HIDE DEF n
  <1>6. \A s : /\ Written(s)' = IF m.kind \in {"created", "updated"} /\ m.id = s
                                THEN n ELSE Written(s)
               /\ Archived(s)' = IF m.kind = "archived" /\ m.id = s
                                 THEN n ELSE Archived(s)
               /\ Purged(s)' = IF m.kind = "purged" /\ m.id = s THEN n ELSE Purged(s)
    BY <1>5 DEF Written, Archived, Purged
  <1>7. \A a : /\ Asked(a)' = IF m.kind = "requested" /\ m.id = a THEN n ELSE Asked(a)
               /\ Resolved(a)' = IF m.kind = "resolved" /\ m.id = a
                                 THEN n ELSE Resolved(a)
    BY <1>5 DEF Asked, Resolved
  <1> QED BY <1>1, <1>2, <1>4, <1>6, <1>7 DEF n

-----------------------------------------------------------------------------
(* A replay means what the log means: sessions.                            *)

\* The sessions of a replay state are those the log means.
SessionsMean(st) ==
    st.sessions = [s \in {s \in Session : SessionPresent(s)} |-> SessionMeans(s)]

\* A message that says nothing of a session does not change what the log means of it.
LEMMA SessionUntouched ==
    ASSUME NEW M, log \in Seq(M), NEW m \in M, log' = Append(log, m), ~IsSnapshot(m),
           NEW s, ~(m.kind \in {"created", "updated", "archived", "purged"} /\ m.id = s)
    PROVE  /\ SessionPresent(s)' <=> SessionPresent(s)
           /\ SessionPresent(s) => SessionMeans(s)' = SessionMeans(s)
  <1>1. /\ Base' = Base /\ \A i \in 1..Len(log) : log'[i] = log[i]
        /\ Written(s)' = Written(s) /\ Archived(s)' = Archived(s) /\ Purged(s)' = Purged(s)
    BY WordsOfOther
  <1>2. /\ Base \in 0..Len(log) /\ Written(s) \in 0..Len(log) /\ Len(log) \in Nat
        /\ Purged(s) \in 0..Len(log)
    BY PlacesInLog, WordsInLog
  <1>3. /\ Base # 0 => log'[Base] = log[Base]
        /\ Written(s) # 0 => log'[Written(s)] = log[Written(s)]
    BY <1>1, <1>2
  <1>4. SessionPresent(s)' <=> SessionPresent(s)
    BY <1>1, <1>3 DEF SessionPresent, InSnapshot
  <1>5. ASSUME SessionPresent(s) PROVE SessionMeans(s)' = SessionMeans(s)
    <2>1. Written(s) # 0 \/ Base # 0
      BY <1>2, <1>5 DEF SessionPresent, InSnapshot
    <2>2. CASE Written(s) # 0
      BY <1>1, <1>3, <2>2 DEF SessionMeans
    <2>3. CASE Written(s) = 0
      <3>1. log'[Base] = log[Base]
        BY <1>3, <2>1, <2>3
      <3> QED BY <1>1, <2>3, <3>1 DEF SessionMeans
    <2> QED BY <2>2, <2>3
  <1> QED BY <1>4, <1>5

\* A session that is written is there as it is written.
LEMMA SessionWritten ==
    ASSUME NEW M, log \in Seq(M), NEW m \in M, log' = Append(log, m), ~IsSnapshot(m),
           m.kind \in {"created", "updated"}, IsRecord(m.session)
    PROVE  SessionPresent(m.id)' /\ SessionMeans(m.id)' = m.session
  <1> DEFINE n == Len(log) + 1  s == m.id
  <1>1. /\ Written(s)' = n /\ Archived(s)' = Archived(s) /\ Purged(s)' = Purged(s)
        /\ log'[n] = m
    BY WordsOfOther
  <1>2. /\ Len(log) \in Nat /\ Archived(s) \in 0..Len(log) /\ Purged(s) \in 0..Len(log)
    BY WordsInLog, PlacesInLog
  <1>3. n # 0 /\ n > Purged(s) /\ ~(Archived(s) > n)
    BY <1>2
  <1> HIDE DEF n, s
  <1>4. SessionPresent(s)'
    BY <1>1, <1>3 DEF SessionPresent
  <1>5. SessionMeans(s)' = [m.session EXCEPT !.archived = m.session.archived \/ FALSE]
    BY <1>1, <1>3 DEF SessionMeans
  <1>6. [m.session EXCEPT !.archived = m.session.archived] = m.session
    BY DEF IsRecord
  <1>7. (m.session.archived \/ FALSE) = m.session.archived
    BY DEF IsRecord
  <1> QED BY <1>4, <1>5, <1>6, <1>7 DEF s

\* A session that is archived is there as before, with the flag.
LEMMA SessionArchived ==
    ASSUME NEW M, log \in Seq(M), NEW m \in M, log' = Append(log, m), ~IsSnapshot(m),
           m.kind = "archived"
    PROVE  /\ SessionPresent(m.id)' <=> SessionPresent(m.id)
           /\ SessionPresent(m.id) =>
                SessionMeans(m.id)' = [SessionMeans(m.id) EXCEPT !.archived = TRUE]
  <1> DEFINE n == Len(log) + 1  s == m.id
  <1>1. /\ Written(s)' = Written(s) /\ Archived(s)' = n /\ Purged(s)' = Purged(s)
        /\ Base' = Base /\ \A i \in 1..Len(log) : log'[i] = log[i]
    BY WordsOfOther
  <1>2. /\ Len(log) \in Nat /\ Written(s) \in 0..Len(log) /\ Purged(s) \in 0..Len(log)
        /\ Base \in 0..Len(log)
    BY WordsInLog, PlacesInLog
  <1>3. /\ n > Written(s)
        /\ Base # 0 => log'[Base] = log[Base]
        /\ Written(s) # 0 => log'[Written(s)] = log[Written(s)]
    BY <1>1, <1>2
  <1> HIDE DEF n, s
  <1>4. SessionPresent(s)' <=> SessionPresent(s)
    BY <1>1, <1>3 DEF SessionPresent, InSnapshot
  <1>5. ASSUME SessionPresent(s)
        PROVE  SessionMeans(s)' = [SessionMeans(s) EXCEPT !.archived = TRUE]
    <2> DEFINE rec == IF Written(s) = 0 THEN log[Base].sessions[s] ELSE log[Written(s)].session
    <2>1. Written(s) # 0 \/ Base # 0
      BY <1>2, <1>5 DEF SessionPresent, InSnapshot
    <2>2. rec = IF Written(s) = 0 THEN log'[Base].sessions[s] ELSE log'[Written(s)].session
      BY <1>3, <2>1
    <2> HIDE DEF rec
    <2>3. SessionMeans(s)' = [rec EXCEPT !.archived = rec.archived \/ TRUE]
      BY <1>1, <1>3, <2>2 DEF SessionMeans
    <2>4. (rec.archived \/ TRUE) = TRUE
      OBVIOUS
    <2>5. SessionMeans(s) = [rec EXCEPT !.archived = rec.archived \/ Archived(s) > Written(s)]
      BY DEF SessionMeans, rec
    <2> QED BY <2>3, <2>4, <2>5
  <1> QED BY <1>4, <1>5 DEF s

\* A session that is purged is not there.
LEMMA SessionPurged ==
    ASSUME NEW M, log \in Seq(M), NEW m \in M, log' = Append(log, m), ~IsSnapshot(m),
           m.kind = "purged"
    PROVE  ~SessionPresent(m.id)'
  <1>1. Written(m.id)' = Written(m.id) /\ Purged(m.id)' = Len(log) + 1
    BY WordsOfOther
  <1>2. Len(log) \in Nat /\ Written(m.id) \in 0..Len(log)
    BY WordsInLog, PlacesInLog
  <1> QED BY <1>1, <1>2 DEF SessionPresent

\* An event or anything else keeps the sessions what the log means.
LEMMA SessionsStep ==
    ASSUME NEW M, log \in Seq(M), NEW m \in M, log' = Append(log, m), ~IsSnapshot(m),
           WellFormed(m), NEW st, IsReplay(st), SessionsMean(st)
    PROVE  SessionsMean(StepReplay(st, m))'
  <1> DEFINE f == st.sessions  g == StepReplay(st, m).sessions
             x == m.id
             touched == m.kind \in {"created", "updated", "archived", "purged"}
  <1>1. /\ DOMAIN f = {s \in Session : SessionPresent(s)}
        /\ f = [s \in DOMAIN f |-> f[s]]
        /\ \A s \in DOMAIN f : f[s] = SessionMeans(s)
    BY DEF SessionsMean
  <1>2. SUFFICES /\ DOMAIN g = {s \in Session : SessionPresent(s)'}
                 /\ g = [s \in DOMAIN g |-> g[s]]
                 /\ \A s \in DOMAIN g : g[s] = SessionMeans(s)'
    BY DEF SessionsMean
  <1>3. g = IF m.kind \in {"created", "updated"} THEN Put(f, x, m.session)
            ELSE IF m.kind = "archived" THEN Flagged(f, x)
            ELSE IF m.kind = "purged" THEN Drop(f, {x})
            ELSE f
    BY StepSessions
  <1>4. \A s : ~(touched /\ x = s) =>
                  /\ SessionPresent(s)' <=> SessionPresent(s)
                  /\ SessionPresent(s) => SessionMeans(s)' = SessionMeans(s)
    BY SessionUntouched
  <1> DEFINE xrec == m.session  xnow == SessionMeans(x)' xthere == SessionPresent(x)'
  <1>5. CASE m.kind \in {"created", "updated"}
    <2>1. xthere /\ xnow = xrec /\ x \in Session
      BY <1>5, SessionWritten DEF WellFormed
    <2>2. g = [k \in DOMAIN f \cup {x} |-> IF k = x THEN xrec ELSE f[k]]
      BY <1>3, <1>5 DEF Put
    <2>3. DOMAIN g = DOMAIN f \cup {x} /\ g = [k \in DOMAIN g |-> g[k]]
          /\ \A k \in DOMAIN g : g[k] = IF k = x THEN xrec ELSE f[k]
      BY <2>2
    <2> HIDE DEF f, g, xrec
    <2>4. DOMAIN g = {s \in Session : SessionPresent(s)'}
      BY <1>1, <1>4, <2>1, <2>3
    <2>5. \A s \in DOMAIN g : g[s] = SessionMeans(s)'
      BY <1>1, <1>4, <2>1, <2>3
    <2> QED BY <2>3, <2>4, <2>5
  <1>6. CASE m.kind = "archived"
    <2>1. /\ xthere <=> SessionPresent(x)
          /\ SessionPresent(x) => xnow = [SessionMeans(x) EXCEPT !.archived = TRUE]
      BY <1>6, SessionArchived
    <2>2. g = Flagged(f, x)
      BY <1>3, <1>6
    <2> HIDE DEF f, g
    <2>3. DOMAIN g = DOMAIN f /\ g = [k \in DOMAIN g |-> g[k]]
      BY <1>1, <2>2 DEF Flagged
    <2>4. \A k \in DOMAIN f :
             g[k] = IF k = x THEN [f[k] EXCEPT !.archived = TRUE] ELSE f[k]
      BY <1>1, <2>2 DEF Flagged
    <2>5. DOMAIN g = {s \in Session : SessionPresent(s)'}
      BY <1>1, <1>4, <2>1, <2>3
    <2>6. \A s \in DOMAIN g : g[s] = SessionMeans(s)'
      BY <1>1, <1>4, <2>1, <2>3, <2>4
    <2> QED BY <2>3, <2>5, <2>6
  <1>7. CASE m.kind = "purged"
    <2>1. ~xthere
      BY <1>7, SessionPurged
    <2>2. g = [k \in DOMAIN f \ {x} |-> f[k]]
      BY <1>3, <1>7 DEF Drop, Restrict
    <2>3. DOMAIN g = DOMAIN f \ {x} /\ g = [k \in DOMAIN g |-> g[k]]
          /\ \A k \in DOMAIN g : g[k] = f[k]
      BY <2>2
    <2> HIDE DEF f, g
    <2>4. DOMAIN g = {s \in Session : SessionPresent(s)'}
      BY <1>1, <1>4, <2>1, <2>3
    <2>5. \A s \in DOMAIN g : g[s] = SessionMeans(s)'
      BY <1>1, <1>4, <2>1, <2>3
    <2> QED BY <2>3, <2>4, <2>5
  <1>8. CASE ~touched
    <2>1. g = f
      BY <1>3, <1>8
    <2> HIDE DEF f, g, x
    <2> QED BY <1>1, <1>4, <1>8, <2>1
  <1> QED BY <1>5, <1>6, <1>7, <1>8

-----------------------------------------------------------------------------
(* A replay means what the log means: approvals, and what was told.        *)

\* The approvals of a replay state are those the log means.
ApprovalsMean(st) ==
    st.approvals = [a \in {a \in Approval : ApprovalPresent(a)} |-> ApprovalMeans(a)]

\* A message that does not ask for an approval keeps it what it was; it ends it by
\* resolving it, or by archiving or purging its session.
LEMMA ApprovalKept ==
    ASSUME NEW M, log \in Seq(M), NEW m \in M, log' = Append(log, m), ~IsSnapshot(m),
           WellFormed(m), NEW a, ~(m.kind = "requested" /\ m.id = a)
    PROVE  /\ ApprovalPresent(a) => ApprovalMeans(a)' = ApprovalMeans(a)
           /\ ApprovalPresent(a)' <=>
                /\ ApprovalPresent(a) /\ ~(m.kind = "resolved" /\ m.id = a)
                /\ ~(m.kind \in {"archived", "purged"} /\ m.id = ApprovalMeans(a).session)
  <1> DEFINE n == Len(log) + 1  there == Asked(a) # 0 \/ InSnapshot("approvals", a)
  <1>1. /\ Base' = Base /\ \A i \in 1..Len(log) : log'[i] = log[i]
        /\ Asked(a)' = Asked(a)
        /\ Resolved(a)' = IF m.kind = "resolved" /\ m.id = a THEN n ELSE Resolved(a)
        /\ \A s : /\ Archived(s)' = IF m.kind = "archived" /\ m.id = s
                                    THEN n ELSE Archived(s)
                  /\ Purged(s)' = IF m.kind = "purged" /\ m.id = s THEN n ELSE Purged(s)
    BY WordsOfOther
  <1>2. /\ Base \in 0..Len(log) /\ Asked(a) \in 0..Len(log) /\ Len(log) \in Nat
    BY PlacesInLog, WordsInLog
  <1>3. /\ Base # 0 => log'[Base] = log[Base]
        /\ Asked(a) # 0 => log'[Asked(a)] = log[Asked(a)]
        /\ ~(n <= Asked(a))
    BY <1>1, <1>2
  <1>4. there' <=> there
    BY <1>1, <1>3 DEF InSnapshot
  <1>5. ASSUME there PROVE ApprovalMeans(a)' = ApprovalMeans(a)
    <2>1. CASE Asked(a) # 0
      BY <1>1, <1>3, <2>1 DEF ApprovalMeans
    <2>2. CASE Asked(a) = 0
      <3>1. Base # 0 /\ log'[Base] = log[Base]
        BY <1>3, <1>5, <2>2 DEF InSnapshot
      <3> QED BY <1>1, <2>2, <3>1 DEF ApprovalMeans
    <2> QED BY <2>1, <2>2
  <1> HIDE DEF n, there
  <1>6. ApprovalPresent(a) <=>
          /\ there /\ Resolved(a) <= Asked(a)
          /\ \A s \in Session : ApprovalMeans(a).session = s =>
                                Archived(s) <= Asked(a) /\ Purged(s) <= Asked(a)
    BY DEF ApprovalPresent, there
  <1>7. ApprovalPresent(a)' <=>
          /\ there' /\ Resolved(a)' <= Asked(a)'
          /\ \A s \in Session : ApprovalMeans(a)'.session = s =>
                                Archived(s)' <= Asked(a)' /\ Purged(s)' <= Asked(a)'
    BY DEF ApprovalPresent, there
  <1>8. m.kind \in {"archived", "purged"} => m.id \in Session
    BY DEF WellFormed
  <1>9. CASE there
    <2>1. ApprovalPresent(a)' <=>
            /\ there /\ Resolved(a)' <= Asked(a)
            /\ \A s \in Session : ApprovalMeans(a).session = s =>
                                  Archived(s)' <= Asked(a) /\ Purged(s)' <= Asked(a)
      BY <1>1, <1>4, <1>5, <1>7, <1>9
    <2>2. Resolved(a)' <= Asked(a) <=>
            Resolved(a) <= Asked(a) /\ ~(m.kind = "resolved" /\ m.id = a)
      BY <1>1, <1>3
    <2>3. \A s \in Session :
            Archived(s)' <= Asked(a) /\ Purged(s)' <= Asked(a) <=>
              /\ Archived(s) <= Asked(a) /\ Purged(s) <= Asked(a)
              /\ ~(m.kind \in {"archived", "purged"} /\ m.id = s)
      BY <1>1, <1>3
    <2> QED BY <1>5, <1>6, <1>8, <1>9, <2>1, <2>2, <2>3
  <1>10. CASE ~there
    BY <1>4, <1>6, <1>7, <1>10
  <1> QED BY <1>9, <1>10

\* An approval that is asked for is open, as it is asked for.
LEMMA ApprovalAsked ==
    ASSUME NEW M, log \in Seq(M), NEW m \in M, log' = Append(log, m), ~IsSnapshot(m),
           m.kind = "requested"
    PROVE  ApprovalPresent(m.id)' /\ ApprovalMeans(m.id)' = m.approval
  <1> DEFINE n == Len(log) + 1  a == m.id
  <1>1. /\ Asked(a)' = n /\ log'[n] = m /\ Resolved(a)' = Resolved(a)
        /\ \A s : Archived(s)' = Archived(s) /\ Purged(s)' = Purged(s)
    BY WordsOfOther
  <1>2. /\ Len(log) \in Nat /\ Resolved(a) \in 0..Len(log)
        /\ \A s : Archived(s) \in 0..Len(log) /\ Purged(s) \in 0..Len(log)
    BY WordsInLog, PlacesInLog
  <1>3. n # 0 /\ Resolved(a) <= n /\ \A s : Archived(s) <= n /\ Purged(s) <= n
    BY <1>2
  <1> HIDE DEF n, a
  <1>4. ApprovalMeans(a)' = m.approval
    BY <1>1, <1>3 DEF ApprovalMeans
  <1>5. ApprovalPresent(a)' <=>
          /\ (Asked(a)' # 0 \/ InSnapshot("approvals", a)') /\ Resolved(a)' <= Asked(a)'
          /\ \A s \in Session : ApprovalMeans(a)'.session = s =>
                                Archived(s)' <= Asked(a)' /\ Purged(s)' <= Asked(a)'
    BY DEF ApprovalPresent
  <1> QED BY <1>1, <1>3, <1>4, <1>5 DEF a

\* An event or anything else keeps the approvals what the log means.
LEMMA ApprovalsStep ==
    ASSUME NEW M, log \in Seq(M), NEW m \in M, log' = Append(log, m), ~IsSnapshot(m),
           WellFormed(m), NEW st, IsReplay(st), ApprovalsMean(st)
    PROVE  ApprovalsMean(StepReplay(st, m))'
  <1> DEFINE f == st.approvals  g == StepReplay(st, m).approvals  x == m.id
             asks == m.kind = "requested"
  <1>1. /\ DOMAIN f = {a \in Approval : ApprovalPresent(a)}
        /\ f = [a \in DOMAIN f |-> f[a]]
        /\ \A a \in DOMAIN f : f[a] = ApprovalMeans(a)
    BY DEF ApprovalsMean
  <1>2. SUFFICES /\ DOMAIN g = {a \in Approval : ApprovalPresent(a)'}
                 /\ g = [a \in DOMAIN g |-> g[a]]
                 /\ \A a \in DOMAIN g : g[a] = ApprovalMeans(a)'
    BY DEF ApprovalsMean
  <1>3. g = IF asks THEN Put(f, x, m.approval)
            ELSE IF m.kind \in {"archived", "purged"} THEN Drop(f, ApprovalsOf(f, x))
            ELSE IF m.kind = "resolved" THEN Drop(f, {x})
            ELSE f
    BY StepApprovals
  <1>4. \A a : ~(asks /\ x = a) =>
            /\ ApprovalPresent(a) => ApprovalMeans(a)' = ApprovalMeans(a)
            /\ ApprovalPresent(a)' <=>
                 /\ ApprovalPresent(a) /\ ~(m.kind = "resolved" /\ x = a)
                 /\ ~(m.kind \in {"archived", "purged"} /\ x = ApprovalMeans(a).session)
    BY ApprovalKept
  <1>5. CASE asks
    <2> DEFINE now == ApprovalMeans(x)'  there == ApprovalPresent(x)'
    <2>1. there /\ now = m.approval /\ x \in Approval
      BY <1>5, ApprovalAsked DEF WellFormed
    <2>2. g = [k \in DOMAIN f \cup {x} |-> IF k = x THEN m.approval ELSE f[k]]
      BY <1>3, <1>5 DEF Put
    <2>3. DOMAIN g = DOMAIN f \cup {x} /\ g = [k \in DOMAIN g |-> g[k]]
          /\ \A k \in DOMAIN g : g[k] = IF k = x THEN m.approval ELSE f[k]
      BY <2>2
    <2> HIDE DEF f, g
    <2>4. \A a : x # a => /\ ApprovalPresent(a) => ApprovalMeans(a)' = ApprovalMeans(a)
                          /\ ApprovalPresent(a)' <=> ApprovalPresent(a)
      BY <1>4, <1>5
    <2>5. DOMAIN g = {a \in Approval : ApprovalPresent(a)'}
      BY <1>1, <2>1, <2>3, <2>4
    <2>6. \A a \in DOMAIN g : g[a] = ApprovalMeans(a)'
      BY <1>1, <2>1, <2>3, <2>4
    <2> QED BY <2>3, <2>5, <2>6
  <1>6. CASE ~asks
    <2> DEFINE out == IF m.kind \in {"archived", "purged"} THEN ApprovalsOf(f, x)
                      ELSE IF m.kind = "resolved" THEN {x} ELSE {}
    <2>1. g = [k \in DOMAIN f \ out |-> f[k]]
      BY <1>1, <1>3, <1>6 DEF Drop, Restrict
    <2>2. \A a \in DOMAIN f : a \in out <=>
            \/ m.kind = "resolved" /\ x = a
            \/ m.kind \in {"archived", "purged"} /\ x = ApprovalMeans(a).session
      BY <1>1 DEF ApprovalsOf
    <2>3. DOMAIN g = DOMAIN f \ out /\ g = [k \in DOMAIN g |-> g[k]]
          /\ \A k \in DOMAIN g : g[k] = f[k]
      BY <2>1
    <2> HIDE DEF f, g, out
    <2>4. DOMAIN g = {a \in Approval : ApprovalPresent(a)'}
      BY <1>1, <1>4, <1>6, <2>2, <2>3
    <2>5. \A a \in DOMAIN g : g[a] = ApprovalMeans(a)'
      BY <1>1, <1>4, <1>6, <2>3
    <2> QED BY <2>3, <2>4, <2>5
  <1> QED BY <1>5, <1>6

\* What was told of a key since the snapshot, how many events there were, and when
\* the snapshot was taken.
ToldMeans(st) ==
    /\ st.archivedIds = {s \in Session : Archived(s) > Purged(s)}
    /\ st.purgedIds = {s \in Session : Purged(s) # 0}
    /\ st.resolvedIds = {a \in Approval : Resolved(a) # 0}
    /\ st.count = Cardinality({i \in After(Base) : IsEvent(log[i])})
    /\ st.snapAt = IF Base = 0 THEN None ELSE log[Base].at

\* An event or anything else keeps them what the log means.
LEMMA ToldStep ==
    ASSUME NEW M, log \in Seq(M), NEW m \in M, log' = Append(log, m), ~IsSnapshot(m),
           WellFormed(m), NEW st, IsReplay(st), ToldMeans(st)
    PROVE  ToldMeans(StepReplay(st, m))'
  <1> DEFINE n == Len(log) + 1  next == StepReplay(st, m)
             events == {i \in After(Base) : IsEvent(log[i])}
  <1>1. /\ Base' = Base /\ After(Base)' = After(Base) \cup {n} /\ n \notin After(Base)
        /\ log'[n] = m /\ \A i \in 1..Len(log) : log'[i] = log[i]
        /\ \A s : /\ Archived(s)' = IF m.kind = "archived" /\ m.id = s
                                    THEN n ELSE Archived(s)
                  /\ Purged(s)' = IF m.kind = "purged" /\ m.id = s THEN n ELSE Purged(s)
        /\ \A a : Resolved(a)' = IF m.kind = "resolved" /\ m.id = a THEN n ELSE Resolved(a)
    BY WordsOfOther
  <1>2. /\ Len(log) \in Nat /\ Base \in 0..Len(log)
        /\ \A s : Archived(s) \in 0..Len(log) /\ Purged(s) \in 0..Len(log)
    BY PlacesInLog, WordsInLog
  <1>3. n # 0 /\ \A s : ~(Archived(s) > n) /\ n > Purged(s)
    BY <1>2
  <1>4. /\ next.archivedIds = IF m.kind = "archived" THEN st.archivedIds \cup {m.id}
                              ELSE IF m.kind = "purged" THEN st.archivedIds \ {m.id}
                              ELSE st.archivedIds
        /\ next.purgedIds = IF m.kind = "purged" THEN st.purgedIds \cup {m.id}
                            ELSE st.purgedIds
        /\ next.resolvedIds = IF m.kind = "resolved" THEN st.resolvedIds \cup {m.id}
                              ELSE st.resolvedIds
        /\ next.count = IF IsEvent(m) THEN st.count + 1 ELSE st.count
        /\ next.snapAt = st.snapAt
    BY StepTold
  <1>5. /\ m.kind \in {"archived", "purged"} => m.id \in Session
        /\ m.kind = "resolved" => m.id \in Approval
    BY DEF WellFormed
  <1> HIDE DEF next
  <1>6. next.archivedIds = {s \in Session : Archived(s)' > Purged(s)'}
    <2> HIDE DEF n
    <2>1. ASSUME NEW s \in Session
          PROVE  s \in next.archivedIds <=> Archived(s)' > Purged(s)'
      BY <1>1, <1>3, <1>4 DEF ToldMeans
    <2>2. next.archivedIds \subseteq Session
      BY <1>4, <1>5 DEF ToldMeans
    <2> QED BY <2>1, <2>2
  <1>7. next.purgedIds = {s \in Session : Purged(s)' # 0}
    <2> HIDE DEF n
    <2>1. ASSUME NEW s \in Session PROVE s \in next.purgedIds <=> Purged(s)' # 0
      BY <1>1, <1>3, <1>4 DEF ToldMeans
    <2>2. next.purgedIds \subseteq Session
      BY <1>4, <1>5 DEF ToldMeans
    <2> QED BY <2>1, <2>2
  <1>8. next.resolvedIds = {a \in Approval : Resolved(a)' # 0}
    <2> HIDE DEF n
    <2>1. ASSUME NEW a \in Approval PROVE a \in next.resolvedIds <=> Resolved(a)' # 0
      BY <1>1, <1>3, <1>4 DEF ToldMeans
    <2>2. next.resolvedIds \subseteq Approval
      BY <1>4, <1>5 DEF ToldMeans
    <2> QED BY <2>1, <2>2
  <1>9. next.count = Cardinality({i \in After(Base)' : IsEvent(log'[i])})
    <2>1. IsFiniteSet(events) /\ After(Base) \subseteq 1..Len(log)
      <3>1. After(Base) \subseteq 1..Len(log)
        BY <1>2 DEF After
      <3>2. IsFiniteSet(1..Len(log))
        BY <1>2, FS_Interval
      <3> QED BY <3>1, <3>2, FS_Subset
    <2>2. {i \in After(Base)' : IsEvent(log'[i])} =
             IF IsEvent(m) THEN events \cup {n} ELSE events
      <3> HIDE DEF n
      <3> QED BY <1>1, <2>1
    <2>3. n \notin events
      BY <1>1
    <2>4. Cardinality(events \cup {n}) = Cardinality(events) + 1
      BY <2>1, <2>3, FS_AddElement
    <2>5. st.count = Cardinality(events)
      BY DEF ToldMeans
    <2> QED BY <1>4, <2>2, <2>4, <2>5
  <1>10. next.snapAt = IF Base' = 0 THEN None ELSE log'[Base'].at
    <2>1. Base # 0 => log'[Base] = log[Base]
      BY <1>1, <1>2
    <2>2. next.snapAt = IF Base = 0 THEN None ELSE log[Base].at
      BY <1>4 DEF ToldMeans
    <2>3. Base' = Base
      BY <1>1
    <2> QED BY <2>1, <2>2, <2>3
  <1> QED BY <1>6, <1>7, <1>8, <1>9, <1>10 DEF ToldMeans, next

\* A snapshot alone is what the log means, with all that was before it.
LEMMA SnapshotMeans ==
    ASSUME NEW M, log \in Seq(M), NEW m \in M, log' = Append(log, m), IsSnapshot(m),
           WellFormed(m)
    PROVE  LET st == FromSnapshot(m) IN
           SessionsMean(st)' /\ ApprovalsMean(st)' /\ ToldMeans(st)'
  <1> DEFINE st == FromSnapshot(m)
  <1>1. /\ Base' = Len(log) + 1 /\ log'[Base'] = m /\ After(Base)' = {}
        /\ \A s : Written(s)' = 0 /\ Archived(s)' = 0 /\ Purged(s)' = 0
        /\ \A a : Asked(a)' = 0 /\ Resolved(a)' = 0
    BY WordsOfSnapshot
  <1>2. Base' # 0
    <2>1. Len(log) \in Nat
      OBVIOUS
    <2> QED BY <1>1, <2>1
  <1>3. /\ st.sessions = m.sessions /\ st.approvals = m.approvals
        /\ st.archivedIds = {} /\ st.purgedIds = {} /\ st.resolvedIds = {}
        /\ st.count = 0 /\ st.snapAt = m.at
    BY SnapshotParts
  <1> HIDE DEF st
  <1>4. SessionsMean(st)'
    <2>1. PICK keys \in SUBSET Session : m.sessions = [s \in keys |-> m.sessions[s]]
      BY DEF WellFormed
    <2>2. \A s : SessionPresent(s)' <=> s \in keys
      BY <1>1, <1>2, <2>1 DEF SessionPresent, InSnapshot
    <2>3. ASSUME NEW s \in keys PROVE SessionMeans(s)' = m.sessions[s]
      <3> DEFINE rec == m.sessions[s]
      <3>1. IsRecord(rec)
        BY <2>1 DEF WellFormed
      <3>2. SessionMeans(s)' = [rec EXCEPT !.archived = rec.archived \/ FALSE]
        BY <1>1, <1>2 DEF SessionMeans
      <3> HIDE DEF rec
      <3>3. (rec.archived \/ FALSE) = rec.archived
        BY <3>1 DEF IsRecord
      <3>4. [rec EXCEPT !.archived = rec.archived] = rec
        BY <3>1 DEF IsRecord
      <3> QED BY <3>2, <3>3, <3>4 DEF rec
    <2>4. {s \in Session : SessionPresent(s)'} = keys
      BY <2>1, <2>2
    <2>5. m.sessions = [s \in {s \in Session : SessionPresent(s)'} |-> SessionMeans(s)']
      BY <2>1, <2>3, <2>4
    <2> QED BY <1>3, <2>5 DEF SessionsMean
  <1>5. ApprovalsMean(st)'
    <2>1. PICK keys \in SUBSET Approval : m.approvals = [a \in keys |-> m.approvals[a]]
      BY DEF WellFormed
    <2>2. \A a : ApprovalPresent(a)' <=> a \in keys
      BY <1>1, <1>2, <2>1 DEF ApprovalPresent, InSnapshot
    <2>3. \A a \in keys : ApprovalMeans(a)' = m.approvals[a]
      BY <1>1, <1>2 DEF ApprovalMeans
    <2>4. {a \in Approval : ApprovalPresent(a)'} = keys
      BY <2>1, <2>2
    <2>5. m.approvals = [a \in {a \in Approval : ApprovalPresent(a)'} |-> ApprovalMeans(a)']
      BY <2>1, <2>3, <2>4
    <2> QED BY <1>3, <2>5 DEF ApprovalsMean
  <1>6. ToldMeans(st)'
    <2>1. {i \in After(Base)' : IsEvent(log'[i])} = {}
      BY <1>1
    <2>2. Cardinality({}) = 0
      BY FS_EmptySet
    <2>3. /\ {s \in Session : Archived(s)' > Purged(s)'} = {}
          /\ {s \in Session : Purged(s)' # 0} = {}
          /\ {a \in Approval : Resolved(a)' # 0} = {}
      BY <1>1
    <2>4. Base' # 0 /\ log'[Base'].at = m.at
      BY <1>1, <1>2
    <2> QED BY <1>3, <2>1, <2>2, <2>3, <2>4 DEF ToldMeans
  <1> QED BY <1>4, <1>5, <1>6 DEF st

\* An empty room means nothing.
LEMMA NothingMeans ==
    ASSUME log = <<>>
    PROVE  /\ IsReplay(NoReplay) /\ SessionsMean(NoReplay)
           /\ ApprovalsMean(NoReplay) /\ ToldMeans(NoReplay)
  <1>1. log \in Seq({}) /\ Len(log) = 0
    OBVIOUS
  <1>2. /\ Base = 0 /\ \A s : Written(s) = 0 /\ Archived(s) = 0 /\ Purged(s) = 0
        /\ \A a : Asked(a) = 0 /\ Resolved(a) = 0
    <2>1. /\ Base \in 0..0
          /\ \A s : Written(s) \in 0..0 /\ Archived(s) \in 0..0 /\ Purged(s) \in 0..0
          /\ \A a : Asked(a) \in 0..0 /\ Resolved(a) \in 0..0
      BY <1>1, PlacesInLog, WordsInLog
    <2> QED BY <2>1
  <1>3. {s \in Session : SessionPresent(s)} = {} /\ {a \in Approval : ApprovalPresent(a)} = {}
    BY <1>2 DEF SessionPresent, ApprovalPresent, InSnapshot
  <1>4. After(Base) = {}
    <2>1. (0 + 1)..0 = {}
      OBVIOUS
    <2> QED BY <1>1, <1>2, <2>1 DEF After
  <1>5. {i \in After(Base) : IsEvent(log[i])} = {}
    BY <1>4
  <1>6. Cardinality({}) = 0
    BY FS_EmptySet
  <1>7. /\ NoReplay.sessions = Empty /\ NoReplay.approvals = Empty /\ NoReplay.count = 0
        /\ NoReplay.archivedIds = {} /\ NoReplay.purgedIds = {}
        /\ NoReplay.resolvedIds = {} /\ NoReplay.snapAt = None /\ IsReplay(NoReplay)
    BY DEF NoReplay, IsReplay
  <1>8. SessionsMean(NoReplay)
    <2>1. [s \in {} |-> SessionMeans(s)] = Empty
      BY DEF Empty
    <2> QED BY <1>3, <1>7, <2>1 DEF SessionsMean
  <1>9. ApprovalsMean(NoReplay)
    <2>1. [a \in {} |-> ApprovalMeans(a)] = Empty
      BY DEF Empty
    <2> QED BY <1>3, <1>7, <2>1 DEF ApprovalsMean
  <1>10. ToldMeans(NoReplay)
    <2>1. /\ {s \in Session : Archived(s) > Purged(s)} = {}
          /\ {s \in Session : Purged(s) # 0} = {}
          /\ {a \in Approval : Resolved(a) # 0} = {}
      BY <1>2
    <2> QED BY <1>2, <1>5, <1>6, <1>7, <2>1 DEF ToldMeans
  <1> QED BY <1>7, <1>8, <1>9, <1>10

-----------------------------------------------------------------------------
(* Every room that is written in replays to what it means.                 *)

\* The log is of messages that may be written, and its replay means what it means.
MeaningInv(M) ==
    /\ log \in Seq(M) /\ IsReplay(ReplayMessages(log))
    /\ SessionsMean(ReplayMessages(log)) /\ ApprovalsMean(ReplayMessages(log))
    /\ ToldMeans(ReplayMessages(log))

\* The parts of the invariant are those of the property.
LEMMA MeaningParts ==
    ASSUME NEW M, MeaningInv(M) PROVE ReplayIsMeaning
  BY DEF MeaningInv, SessionsMean, ApprovalsMean, ToldMeans, ReplayIsMeaning

\* A message more keeps it.
LEMMA MeaningStep ==
    ASSUME NEW M, \A m \in M : WellFormed(m), MeaningInv(M), [Write(M)]_log
    PROVE  MeaningInv(M)'
  <1>1. CASE UNCHANGED log
    <2>1. /\ ReplayMessages(log)' = ReplayMessages(log) /\ Base' = Base
          /\ \A i : After(i)' = After(i)
      BY <1>1 DEF Base, After
    <2>2. \A kinds, key : Said(kinds, key)' = Said(kinds, key)
      BY <1>1, <2>1 DEF Said, After
    <2>3. /\ \A s : /\ Written(s)' = Written(s) /\ Archived(s)' = Archived(s)
                    /\ Purged(s)' = Purged(s)
          /\ \A a : Asked(a)' = Asked(a) /\ Resolved(a)' = Resolved(a)
      BY <2>2 DEF Written, Archived, Purged, Asked, Resolved
    <2>4. \A s : /\ SessionPresent(s)' <=> SessionPresent(s)
                /\ SessionMeans(s)' = SessionMeans(s)
      BY <1>1, <2>1, <2>3 DEF SessionPresent, SessionMeans, InSnapshot
    <2>5. \A a : ApprovalMeans(a)' = ApprovalMeans(a)
      BY <1>1, <2>1, <2>3 DEF ApprovalMeans
    <2>6. \A a : ApprovalPresent(a)' <=> ApprovalPresent(a)
      BY <1>1, <2>1, <2>3, <2>5 DEF ApprovalPresent, InSnapshot
    <2>7. {i \in After(Base)' : IsEvent(log'[i])} = {i \in After(Base) : IsEvent(log[i])}
      BY <1>1, <2>1 DEF After
    <2>8. SessionsMean(ReplayMessages(log))'
      BY <2>1, <2>4 DEF MeaningInv, SessionsMean
    <2>9. ApprovalsMean(ReplayMessages(log))'
      BY <2>1, <2>5, <2>6 DEF MeaningInv, ApprovalsMean
    <2>10. ToldMeans(ReplayMessages(log))'
      BY <1>1, <2>1, <2>3, <2>7 DEF MeaningInv, ToldMeans
    <2> QED BY <1>1, <2>1, <2>8, <2>9, <2>10 DEF MeaningInv
  <1>2. ASSUME NEW m \in M, log' = Append(log, m) PROVE MeaningInv(M)'
    <2> DEFINE st == ReplayMessages(log)  next == ReplayMessages(Append(log, m))
    <2>1. log \in Seq(M) /\ log' \in Seq(M) /\ WellFormed(m) /\ IsReplay(st)
      BY <1>2 DEF MeaningInv
    <2>2. next = IF IsSnapshot(m) THEN FromSnapshot(m) ELSE StepReplay(st, m)
      BY <2>1, ReplayAppend
    <2>3. ReplayMessages(log)' = next
      BY <1>2
    <2>4. IsReplay(next)
      <3>1. IsReplay(FromSnapshot(m)) /\ IsReplay(StepReplay(st, m))
        BY <2>1, SnapshotParts, StepSessions
      <3> QED BY <2>2, <3>1
    <2>5. ASSUME NEW any, any = next
          PROVE  SessionsMean(any)' /\ ApprovalsMean(any)' /\ ToldMeans(any)'
      <3>1. CASE IsSnapshot(m)
        <4>1. any = FromSnapshot(m)
          BY <2>2, <2>5, <3>1
        <4> QED BY <1>2, <2>1, <3>1, <4>1, SnapshotMeans
      <3>2. CASE ~IsSnapshot(m)
        <4>1. PICK was : was = st
          OBVIOUS
        <4>2. any = StepReplay(was, m) /\ IsReplay(was) /\ SessionsMean(was)
              /\ ApprovalsMean(was) /\ ToldMeans(was)
          BY <2>1, <2>2, <2>5, <3>2, <4>1 DEF MeaningInv
        <4>3. SessionsMean(any)'
          BY <1>2, <2>1, <3>2, <4>2, SessionsStep
        <4>4. ApprovalsMean(any)'
          BY <1>2, <2>1, <3>2, <4>2, ApprovalsStep
        <4>5. ToldMeans(any)'
          BY <1>2, <2>1, <3>2, <4>2, ToldStep
        <4> QED BY <4>3, <4>4, <4>5
      <3> QED BY <3>1, <3>2
    <2>6. PICK any : any = next
      OBVIOUS
    <2>7. ReplayMessages(log)' = any
      BY <2>3, <2>6
    <2>8. SessionsMean(any)' /\ ApprovalsMean(any)' /\ ToldMeans(any)'
      BY <2>5, <2>6
    <2> HIDE DEF next, st
    <2> QED BY <2>1, <2>4, <2>6, <2>7, <2>8
            DEF MeaningInv, SessionsMean, ApprovalsMean, ToldMeans
  <1> QED BY <1>1, <1>2 DEF Write

\* Whatever is written in a room, and by whom, a replay of it gives the last word on
\* every session and every approval, every tombstone, and the number of events since
\* the last snapshot (replay_from_messages, ReplayState::apply).
THEOREM ReplayMeansTheLog ==
    ASSUME NEW CONSTANT M, \A m \in M : WellFormed(m)
    PROVE  Room(M) => []ReplayIsMeaning
  <1>1. log = <<>> => MeaningInv(M)
    <2> SUFFICES ASSUME log = <<>> PROVE MeaningInv(M)
      OBVIOUS
    <2>1. ReplayMessages(log) = NoReplay /\ log \in Seq(M)
      BY ReplayNothing
    <2> QED BY <2>1, NothingMeans DEF MeaningInv
  <1>2. MeaningInv(M) /\ [Write(M)]_log => MeaningInv(M)'
    BY MeaningStep
  <1>3. MeaningInv(M) => ReplayIsMeaning
    BY MeaningParts
  <1> QED BY <1>1, <1>2, <1>3, PTL DEF Room

-----------------------------------------------------------------------------
(* Paging.                                                                 *)

\* What is left of a log without its first messages.
LEMMA TailOfLog ==
    ASSUME NEW M, NEW q \in Seq(M), NEW d \in 0..Len(q)
    PROVE  LET rest == SubSeq(q, d + 1, Len(q)) IN
           /\ rest \in Seq(M) /\ Len(rest) = Len(q) - d /\ DOMAIN rest = 1..(Len(q) - d)
           /\ \A i \in 1..(Len(q) - d) : rest[i] = q[i + d]
  OBVIOUS

\* Leaving out messages before the last snapshot changes nothing.
LEMMA ReplayOfTail ==
    ASSUME NEW M, NEW q \in Seq(M), NEW d \in 0..Len(q), d < LatestSnapshot(q)
    PROVE  ReplayMessages(SubSeq(q, d + 1, Len(q))) = ReplayMessages(q)
  <1> DEFINE n == Len(q)  rest == SubSeq(q, d + 1, n)  b == LatestSnapshot(q)
  <1>1. /\ n \in Nat /\ rest \in Seq(M) /\ Len(rest) = n - d /\ DOMAIN rest = 1..(n - d)
        /\ \A i \in 1..(n - d) : rest[i] = q[i + d]
    BY TailOfLog
  <1>2. /\ b \in 0..n /\ (b # 0 => IsSnapshot(q[b]))
        /\ \A i \in (b + 1)..n : ~IsSnapshot(q[i])
    BY SnapshotIsLast
  <1> HIDE DEF n, rest, b
  <1>3. /\ b - d \in 0..(n - d) /\ b - d # 0 /\ b # 0 /\ b - d \in 1..(n - d)
        /\ (b - d) + d = b
    <2>1. d < b /\ d \in 0..n
      BY DEF b, n
    <2> QED BY <1>1, <1>2, <2>1
  <1>4. IsSnapshot(rest[b - d]) /\ rest[b - d] = q[b]
    BY <1>1, <1>2, <1>3
  <1>5. \A i \in (b - d + 1)..(n - d) : ~IsSnapshot(rest[i])
    <2> TAKE i \in (b - d + 1)..(n - d)
    <2>1. i \in 1..(n - d) /\ i + d \in (b + 1)..n
      BY <1>1, <1>2, <1>3 DEF n
    <2> QED BY <1>1, <1>2, <2>1
  <1>6. LatestSnapshot(rest) = b - d
    <2>1. n - d \in Nat
      BY <1>1 DEF n
    <2> QED BY <1>1, <1>3, <1>4, <1>5, <2>1, SnapshotIsThis
  <1> DEFINE after == SubSeq(q, b + 1, n)  afterRest == SubSeq(rest, (b - d) + 1, n - d)
  <1>7. afterRest = after
    <2>1. /\ after \in Seq(M) /\ Len(after) = n - b
          /\ \A i \in 1..(n - b) : after[i] = q[i + b]
      <3>1. b \in 0..Len(q)
        BY <1>2 DEF n
      <3> QED BY <3>1, TailOfLog DEF n
    <2>2. /\ afterRest \in Seq(M) /\ Len(afterRest) = (n - d) - (b - d)
          /\ \A i \in 1..((n - d) - (b - d)) : afterRest[i] = rest[i + (b - d)]
      <3>1. b - d \in 0..Len(rest)
        BY <1>1, <1>3
      <3>2. /\ SubSeq(rest, (b - d) + 1, Len(rest)) \in Seq(M)
            /\ Len(SubSeq(rest, (b - d) + 1, Len(rest))) = Len(rest) - (b - d)
            /\ \A i \in 1..(Len(rest) - (b - d)) :
                 SubSeq(rest, (b - d) + 1, Len(rest))[i] = rest[i + (b - d)]
        BY <1>1, <3>1, TailOfLog
      <3> QED BY <1>1, <3>2
    <2> HIDE DEF after, afterRest
    <2>3. (n - d) - (b - d) = n - b
      BY <1>1, <1>2 DEF n
    <2>4. ASSUME NEW i \in 1..(n - b) PROVE afterRest[i] = after[i]
      <3>1. i + (b - d) \in 1..(n - d) /\ (i + (b - d)) + d = i + b
        BY <1>1, <1>2, <1>3 DEF n
      <3> QED BY <1>1, <2>1, <2>2, <2>3, <3>1
    <2> QED BY <2>1, <2>2, <2>3, <2>4, SeqEqual
  <1>8. ReplayMessages(rest) = Replayed(FromSnapshot(q[b]), afterRest)
    BY <1>1, <1>3, <1>4, <1>6 DEF ReplayMessages
  <1>9. ReplayMessages(q) = Replayed(FromSnapshot(q[b]), after)
    BY <1>3 DEF ReplayMessages, b, n
  <1> QED BY <1>7, <1>8, <1>9 DEF rest, n

\* The messages of k pages, and of more pages.
LEMMA PageTimes ==
    /\ \A k \in Nat : k * PageSize \in Nat /\ k <= k * PageSize
    /\ \A j, k \in Nat : j <= k => j * PageSize <= k * PageSize
  <1>1. PageSize \in Nat /\ PageSize >= 1
    BY PageAssumption
  <1>2. ASSUME NEW k \in Nat PROVE k * PageSize \in Nat
    BY <1>1
  <1>3. ASSUME NEW k \in Nat PROVE k <= k * PageSize
    <2>1. k * PageSize = k + k * (PageSize - 1) /\ PageSize - 1 \in Nat
      BY <1>1
    <2>2. k * (PageSize - 1) \in Nat
      BY <2>1
    <2> QED BY <1>2, <2>1, <2>2
  <1>4. ASSUME NEW j \in Nat, NEW k \in Nat, j <= k
        PROVE  j * PageSize <= k * PageSize
    <2>1. k * PageSize = j * PageSize + (k - j) * PageSize /\ k - j \in Nat
      BY <1>1, <1>4
    <2>2. (k - j) * PageSize \in Nat
      BY <1>2, <2>1
    <2> QED BY <1>2, <2>1, <2>2
  <1> QED BY <1>2, <1>3, <1>4

\* A page more is needed as long as there are messages and none of those read is, or
\* looks like, a snapshot.
LEMMA NeedsPage ==
    ASSUME NEW M, NEW q \in Seq(M), NEW k \in Nat
    PROVE  NeedsOlderPage(q, k) <=>
             /\ k * PageSize <= Len(q)
             /\ \A i \in 1..Len(q) : HasSnapshotPrefix(q[i]) => i <= Len(q) - k * PageSize
  <1> DEFINE n == Len(q)  p == k * PageSize  rest == Pages(q, k)
  <1>1. n \in Nat /\ p \in Nat
    BY PageTimes
  <1>2. CASE p <= n
    <2>1. n - p \in 0..n
      BY <1>1, <1>2
    <2>2. rest = SubSeq(q, (n - p) + 1, n)
      <3>1. 1 + (IF n - p > 0 THEN n - p ELSE 0) = (n - p) + 1
        BY <1>1, <1>2
      <3> QED BY <3>1 DEF Pages
    <2>3. /\ DOMAIN rest = 1..(n - (n - p))
          /\ \A i \in 1..(n - (n - p)) : rest[i] = q[i + (n - p)]
      BY <2>1, <2>2, TailOfLog
    <2> HIDE DEF n, p, rest
    <2>4. n - (n - p) = p
      BY <1>1
    <2>5. ASSUME NEW i \in 1..n, HasSnapshotPrefix(q[i]), ~(i <= n - p)
          PROVE  \E j \in DOMAIN rest : HasSnapshotPrefix(rest[j])
      <3>1. i - (n - p) \in 1..p /\ (i - (n - p)) + (n - p) = i
        BY <1>1, <2>5
      <3>2. rest[i - (n - p)] = q[i]
        BY <2>3, <2>4, <3>1
      <3> QED BY <2>3, <2>4, <2>5, <3>1, <3>2
    <2>6. ASSUME NEW j \in DOMAIN rest, HasSnapshotPrefix(rest[j])
          PROVE  \E i \in 1..n : HasSnapshotPrefix(q[i]) /\ ~(i <= n - p)
      <3>1. j + (n - p) \in 1..n /\ ~(j + (n - p) <= n - p)
        BY <1>1, <1>2, <2>3, <2>4, <2>6
      <3>2. rest[j] = q[j + (n - p)]
        BY <2>3, <2>6
      <3> QED BY <2>6, <3>1, <3>2
    <2> QED BY <1>2, <2>5, <2>6 DEF NeedsOlderPage, n, p, rest
  <1>3. CASE ~(p <= n)
    BY <1>3 DEF NeedsOlderPage
  <1> QED BY <1>2, <1>3

\* There is a last page.
LEMMA PagesEnd ==
    ASSUME NEW M, NEW q \in Seq(M)
    PROVE  /\ PagesRead(q) \in 1..(Len(q) + 1) /\ ~NeedsOlderPage(q, PagesRead(q))
           /\ \A j \in 1..(PagesRead(q) - 1) : NeedsOlderPage(q, j)
  <1>1. Len(q) \in Nat
    OBVIOUS
  <1>2. ~NeedsOlderPage(q, Len(q) + 1)
    <2>1. Len(q) + 1 \in Nat
      BY <1>1
    <2>2. Len(q) + 1 <= (Len(q) + 1) * PageSize /\ (Len(q) + 1) * PageSize \in Nat
      BY <2>1, PageTimes
    <2>3. ~((Len(q) + 1) * PageSize <= Len(q))
      BY <1>1, <2>2
    <2> QED BY <2>1, <2>3, NeedsPage
  <1>3. \E k \in 1..(Len(q) + 1) : /\ ~NeedsOlderPage(q, k)
                                   /\ \A j \in 1..(k - 1) : NeedsOlderPage(q, j)
    <2> SUFFICES ASSUME \A k \in 1..(Len(q) + 1) :
                          ~NeedsOlderPage(q, k) =>
                             \E j \in 1..(k - 1) : ~NeedsOlderPage(q, j)
                 PROVE  FALSE
      OBVIOUS
    <2> DEFINE S == {n \in Nat : n <= Len(q) + 1 => \A j \in 1..n : NeedsOlderPage(q, j)}
    <2>1. 0 \in S
      OBVIOUS
    <2>2. ASSUME NEW n \in Nat, n \in S PROVE n + 1 \in S
      <3> SUFFICES ASSUME n + 1 <= Len(q) + 1
                   PROVE  \A j \in 1..(n + 1) : NeedsOlderPage(q, j)
        OBVIOUS
      <3>1. \A j \in 1..n : NeedsOlderPage(q, j)
        BY <1>1, <2>2
      <3>2. n + 1 \in 1..(Len(q) + 1) /\ (n + 1) - 1 = n
        BY <1>1
      <3>3. NeedsOlderPage(q, n + 1)
        BY <3>1, <3>2
      <3> QED BY <3>1, <3>3
    <2> HIDE DEF S
    <2>3. \A n \in Nat : n \in S
      BY <2>1, <2>2, NatSetInduction
    <2>4. Len(q) + 1 \in S /\ Len(q) + 1 \in 1..(Len(q) + 1)
      BY <1>1, <2>3
    <2>5. NeedsOlderPage(q, Len(q) + 1)
      BY <1>1, <2>4 DEF S
    <2> QED BY <1>2, <2>5
  <1> QED BY <1>3 DEF PagesRead

\* What the pages left out was before the last snapshot, or a snapshot that does not
\* decode ended the reading after it.
LEMMA PagesReplay ==
    ASSUME NEW M, NEW q \in Seq(M)
    PROVE  \/ Replay(q) = ReplayMessages(q)
           \/ \E i \in (LatestSnapshot(q) + 1)..Len(q) : q[i].kind = "bad snapshot"
  <1> DEFINE n == Len(q)  k == PagesRead(q)  p == k * PageSize  b == LatestSnapshot(q)
  <1>1. n \in Nat /\ k \in Nat /\ ~NeedsOlderPage(q, k)
    BY PagesEnd
  <1>2. p \in Nat
    BY <1>1, PageTimes
  <1>3. Pages(q, k) = SubSeq(q, 1 + (IF n - p > 0 THEN n - p ELSE 0), n)
    BY DEF Pages
  <1>4. b \in 0..n
    BY SnapshotIsLast
  <1> HIDE DEF k, p
  <1>5. CASE n <= p
    <2>1. 1 + (IF n - p > 0 THEN n - p ELSE 0) = 1
      BY <1>1, <1>2, <1>5
    <2>2. Pages(q, k) = q
      <3>1. SubSeq(q, 1, n) = q
        OBVIOUS
      <3> QED BY <1>3, <2>1, <3>1
    <2> QED BY <2>2 DEF Replay, k
  <1>6. CASE ~(n <= p)
    <2>1. n - p \in 0..n /\ 1 + (IF n - p > 0 THEN n - p ELSE 0) = (n - p) + 1 /\ p <= n
      BY <1>1, <1>2, <1>6
    <2>2. PICK i \in 1..n : HasSnapshotPrefix(q[i]) /\ ~(i <= n - p)
      BY <1>1, <2>1, NeedsPage DEF p
    <2>3. CASE n - p < b
      <3>1. ReplayMessages(SubSeq(q, (n - p) + 1, n)) = ReplayMessages(q)
        BY <2>1, <2>3, ReplayOfTail
      <3> QED BY <1>3, <2>1, <3>1 DEF Replay, k
    <2>4. CASE ~(n - p < b)
      <3>1. i \in (b + 1)..n
        BY <1>1, <1>2, <1>4, <2>2, <2>4
      <3>2. ~IsSnapshot(q[i])
        BY <3>1, SnapshotIsLast
      <3>3. q[i].kind = "bad snapshot"
        BY <2>2, <3>2 DEF HasSnapshotPrefix, IsSnapshot
      <3> QED BY <3>1, <3>3
    <2> QED BY <2>3, <2>4
  <1> QED BY <1>5, <1>6

\* More pages than the limit are asked for just when the pages up to the limit are
\* full and show no snapshot.
LEMMA LimitMet ==
    ASSUME NEW M, NEW q \in Seq(M)
    PROVE  ReachesPageLimit(q) <=>
             /\ Len(q) > MaxPages * PageSize
             /\ \A i \in 1..Len(q) :
                  HasSnapshotPrefix(q[i]) => i <= Len(q) - MaxPages * PageSize
  <1> DEFINE n == Len(q)  k == PagesRead(q)  limit == MaxPages * PageSize
             far == \A i \in 1..n : HasSnapshotPrefix(q[i]) => i <= n - limit
  <1>1. n \in Nat /\ MaxPages \in Nat /\ MaxPages >= 1 /\ limit \in Nat
    BY PageAssumption, PageTimes
  <1>2. /\ k \in 1..(n + 1) /\ ~NeedsOlderPage(q, k)
        /\ \A j \in 1..(k - 1) : NeedsOlderPage(q, j)
    BY PagesEnd
  <1>3. ASSUME k > MaxPages, n > limit PROVE far
    <2>1. MaxPages \in 1..(k - 1)
      BY <1>1, <1>2, <1>3
    <2>2. NeedsOlderPage(q, MaxPages)
      BY <1>2, <2>1
    <2> QED BY <1>1, <2>2, NeedsPage
  <1>4. ASSUME n > limit, far PROVE k > MaxPages
    <2>1. SUFFICES ASSUME k <= MaxPages PROVE FALSE
      BY <1>1, <1>2
    <2>2. k \in Nat /\ k * PageSize \in Nat /\ k * PageSize <= limit
      BY <1>1, <1>2, <2>1, PageTimes
    <2>3. NeedsOlderPage(q, k)
      <3>1. k * PageSize <= n
        BY <1>1, <1>4, <2>2
      <3>2. ASSUME NEW i \in 1..n, HasSnapshotPrefix(q[i]) PROVE i <= n - k * PageSize
        <4>1. i <= n - limit
          BY <1>4, <3>2
        <4> HIDE DEF limit, k
        <4> QED BY <1>1, <2>2, <4>1
      <3> QED BY <2>2, <3>1, <3>2, NeedsPage
    <2> QED BY <1>2, <2>3
  <1> QED BY <1>3, <1>4 DEF ReachesPageLimit

\* Whatever is written in a room, and whatever the size of a page and the number of
\* pages, reading it page by page gives what the whole room means, unless a snapshot
\* that does not decode or the limit ended it, and the limit does so only when there
\* is no snapshot within reach (EventLog::replay).
THEOREM PagingReadsTheLog ==
    ASSUME NEW CONSTANT M
    PROVE  Room(M) => []PagingIsExact
  <1> DEFINE Typed == log \in Seq(M)
  <1>1. log = <<>> => Typed
    OBVIOUS
  <1>2. Typed /\ [Write(M)]_log => Typed'
    BY DEF Write
  <1>3. Typed => PagingIsExact
    <2> SUFFICES ASSUME log \in Seq(M) PROVE PagingIsExact
      OBVIOUS
    <2>1. PagingLosesNothing
      BY PagesReplay DEF PagingLosesNothing, After, Base
    <2>2. LimitIsForLongLogs
      <3>1. DOMAIN log = 1..Len(log)
        OBVIOUS
      <3> QED BY <3>1, LimitMet DEF LimitIsForLongLogs
    <2> QED BY <2>1, <2>2 DEF PagingIsExact
  <1> QED BY <1>1, <1>2, <1>3, PTL DEF Room
===============================================================================
