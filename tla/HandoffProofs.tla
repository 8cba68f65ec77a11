----------------------------- MODULE HandoffProofs -----------------------------
(***************************************************************************)
(* Proofs about Handoff, for any messages and notifications, windows and   *)
(* budgets.                                                                *)
(***************************************************************************)
EXTENDS Handoff, SequenceTheorems, WellFoundedInduction, TLAPS

Runs(r) == worker[r].phase \in {"Active", "Quiescing"}

\* The release whose worker may process events: the old one until the new one opens.
Main == IF worker["old"].phase # "off" THEN "old" ELSE "new"

\* The copies of events a worker has, queued and in hand, and whether a replay
\* waits for one.
Held(w) == ToSet(w.queue) \cup ({w.job} \ {None})
Asks(c) == c.kind = "replay" /\ c.waits

\* The phases of the two releases.
PhasesInv ==
    /\ worker["old"].phase # "starting" /\ worker["new"].phase # "Quiescing"
    /\ worker["old"].phase = "off" => worker["new"].phase = "Active"
    /\ worker["old"].phase = "Active" => worker["new"].phase = "off"
    /\ worker["old"].phase = "Quiescing" => worker["new"].phase \in {"off", "starting"}

\* A worker that is not open has nothing to process, and a drained one has no more.
IdleInv ==
    /\ \A r \in Release :
          /\ worker[r].phase = "off" => worker[r] = NotRunning
          /\ ~Runs(r) \/ worker[r].drained =>
                worker[r].queue = <<>> /\ worker[r].job = None /\ replay[r] = NoReplay
          /\ worker[r].drained => worker[r].phase = "Quiescing"

\* What the host carries is what the old release has, which no longer changes; and
\* how far its import is.
CarriedInv ==
    /\ snapshot # None => /\ worker["old"].drained
                          /\ snapshot.records = store["old"]
                          /\ snapshot.recent = worker["old"].recent
    /\ worker["new"].phase = "starting" /\ worker["new"].recent # <<>> =>
          snapshot # None /\ worker["new"].recent = snapshot.recent
    /\ import.pc # "none" => worker["new"].phase # "off"

ImportingInv ==
    /\ import.pc \in {"records", "persist"} =>
          /\ worker["new"].phase = "starting" /\ snapshot # None
          /\ store[Home("new")] = import.before \cup import.created
          /\ import.before \cap import.created = {}
          /\ import.known = {record.event : record \in store[Home("new")]}
          /\ inst.shared => import.created = {}
    /\ import.pc = "persist" =>
          {record.event : record \in snapshot.records} \subseteq import.known
    /\ import.pc = "done" /\ worker["new"].phase = "starting" =>
          /\ snapshot # None /\ worker["new"].recent = snapshot.recent
          /\ \A record \in snapshot.records :
                \E kept \in store[Home("new")] : kept.event = record.event

\* A replay waits for one copy, of its record, and until that is answered.
Asked(w, p) ==
    /\ p.record = None => p.answer = "none"
    /\ \A c \in Held(w) : Asks(c) =>
          p.record # None /\ p.record.event = c.event /\ p.answer = "none"
    /\ \A i, j \in 1..Len(w.queue) : Asks(w.queue[i]) /\ Asks(w.queue[j]) => i = j
    /\ w.job # None /\ Asks(w.job) => \A i \in 1..Len(w.queue) : ~Asks(w.queue[i])

AskedInv == \A r \in Release : Asked(worker[r], replay[r])

\* The strengthening that makes TypeOK inductive: a window that is taken over is
\* one the new release does not add to, and only a record that is replayed can be
\* refused for good.
UpgradeInv == PhasesInv /\ IdleInv /\ CarriedInv /\ ImportingInv
ReleasesInv == TypeOK /\ UpgradeInv /\ AskedInv

\* A message comes from the provider once, or from a record; what is deferred is
\* not on its way any more, and what is in a worker's hands has arrived.
OriginInv ==
    /\ deferred \cap away = {}
    /\ \A r \in Release :
          /\ \A record \in store[r] : record.event \in deferred
          /\ replay[r].record # None => replay[r].record.event \in deferred
          /\ \A c \in Held(worker[r]) :
                /\ c.kind = "note" <=> c.event \in Notification
                /\ c.kind = "live" => c.event \notin away \cup deferred
                /\ c.kind = "replay" => c.event \in deferred
          /\ ToSet(worker[r].recent) \cap away = {}

\* A deferred message the window holds was processed, or is in hand; a replay
\* that was answered with success was processed.
RememberedInv ==
    \A r \in Release :
      /\ \A e \in ToSet(worker[r].recent) \cap deferred :
            e \in handled \/ (worker[r].job # None /\ worker[r].job.event = e)
      /\ replay[r].answer = "ok" => replay[r].record.event \in handled

\* What is still to be processed is where the release that runs looks.
PendingInv ==
    \A e \in deferred \ (handled \cup quarantine) :
        \E record \in store[Home(Main)] : record.event = e

\* What was processed is in the window of the release that runs, unless it has
\* left it; what is in hand is in the window, and was not processed before.
OnceInv ==
    /\ twice \subseteq forgotten
    /\ \A e \in handled \ forgotten : e \in ToSet(worker[Main].recent)
    /\ \A r \in Release : worker[r].job # None /\ worker[r].job.event \in Message =>
          /\ worker[r].job.event \in ToSet(worker[r].recent)
          /\ worker[r].job.event \in handled => worker[r].job.event \in forgotten

\* A notification in a window, or acknowledged, is with the host.
EnqueuedInv ==
    /\ \A r \in Release : ToSet(worker[r].recent) \cap Notification \subseteq host
    /\ AcknowledgedIsEnqueued
-----------------------------------------------------------------------------
(* The window of event ids.                                                *)

Window(recent) == /\ recent \in Seq(Event) /\ Len(recent) <= inst.window
                  /\ IsInjective(recent)

\* What an instance is made of.
LEMMA Constants ==
    ASSUME TypeOK
    PROVE  /\ inst.shared \in BOOLEAN /\ inst.window \in Nat /\ inst.window >= 1
           /\ inst.faults \subseteq {"write", "remove"} /\ inst \in Instances
           /\ inst.earlier \subseteq Message
  BY InstanceAssumption DEF TypeOK

\* The elements of a sequence, by their places.
LEMMA Elements ==
    ASSUME NEW S, NEW s \in Seq(S)
    PROVE  /\ ToSet(s) = {s[i] : i \in 1..Len(s)} /\ ToSet(s) \subseteq S
           /\ \A e : Contains(s, e) <=> e \in ToSet(s)
           /\ IsInjective(s) <=> \A i, j \in 1..Len(s) : s[i] = s[j] => i = j
  <1>1. DOMAIN s = 1..Len(s) /\ \A i \in 1..Len(s) : s[i] \in S
    BY ElementOfSeq, LenProperties
  <1> QED BY <1>1 DEF ToSet, Contains, IsInjective

\* An id that is appended is the last one.
LEMMA Appended ==
    ASSUME NEW S, NEW s \in Seq(S), NEW e \in S
    PROVE  /\ Append(s, e) \in Seq(S) /\ Len(Append(s, e)) = Len(s) + 1
           /\ ToSet(Append(s, e)) = ToSet(s) \cup {e}
           /\ IsInjective(s) /\ e \notin ToSet(s) => IsInjective(Append(s, e))
  <1> DEFINE t == Append(s, e)
  <1>1. /\ t \in Seq(S) /\ Len(t) = Len(s) + 1 /\ t[Len(s) + 1] = e
        /\ \A i \in 1..Len(s) : t[i] = s[i]
    BY AppendProperties
  <1>2. Len(s) \in Nat
    BY LenProperties
  <1> HIDE DEF t
  <1>3. 1..Len(t) = 1..Len(s) \cup {Len(s) + 1}
    BY <1>1, <1>2
  <1>4. ToSet(t) = {t[i] : i \in 1..Len(t)} /\ ToSet(s) = {s[i] : i \in 1..Len(s)}
    BY <1>1, Elements
  <1>5. ToSet(t) = ToSet(s) \cup {e}
    BY <1>1, <1>3, <1>4
  <1>6. ASSUME IsInjective(s), e \notin ToSet(s) PROVE IsInjective(t)
    <2>1. \A i, j \in 1..Len(s) : s[i] = s[j] => i = j
      BY <1>6, Elements
    <2>2. \A i \in 1..Len(s) : s[i] # e
      BY <1>4, <1>6
    <2>3. \A i, j \in 1..Len(t) : t[i] = t[j] => i = j
      BY <1>1, <1>3, <2>1, <2>2
    <2> QED BY <1>1, <2>3, Elements
  <1> QED BY <1>1, <1>5, <1>6 DEF t

\* Without its first id, a window holds the others.
LEMMA Tailed ==
    ASSUME NEW S, NEW s \in Seq(S), s # <<>>
    PROVE  /\ Head(s) \in ToSet(s) /\ Tail(s) \in Seq(S) /\ Len(Tail(s)) = Len(s) - 1
           /\ Len(s) \in Nat \ {0} /\ \A i \in 1..Len(Tail(s)) : Tail(s)[i] = s[i + 1]
           /\ Head(s) = s[1] /\ ToSet(Tail(s)) \subseteq ToSet(s)
           /\ ToSet(s) \subseteq ToSet(Tail(s)) \cup {Head(s)}
           /\ IsInjective(s) => IsInjective(Tail(s)) /\ Head(s) \notin ToSet(Tail(s))
  <1> DEFINE t == Tail(s)
  <1>1. /\ t \in Seq(S) /\ Len(t) = Len(s) - 1 /\ Len(s) \in Nat \ {0}
        /\ \A i \in 1..Len(t) : t[i] = s[i + 1]
    BY HeadTailProperties, EmptySeq
  <1>2. Head(s) = s[1]
    <2>1. 1 \in 1..Len(s) /\ Len(s) \in 1..Len(s)
      BY <1>1
    <2> QED BY <2>1, HeadTailOfSubSeq, SubSeqFull
  <1> HIDE DEF t
  <1>3. ToSet(t) = {t[i] : i \in 1..Len(t)} /\ ToSet(s) = {s[i] : i \in 1..Len(s)}
    BY <1>1, Elements
  <1>4. \A i \in 1..Len(t) : i + 1 \in 1..Len(s)
    BY <1>1
  <1>5. \A i \in 1..Len(s) : i = 1 \/ (i - 1 \in 1..Len(t) /\ (i - 1) + 1 = i)
    BY <1>1
  <1>6. ToSet(t) \subseteq ToSet(s)
    BY <1>1, <1>3, <1>4
  <1>7. ToSet(s) \subseteq ToSet(t) \cup {s[1]}
    <2> SUFFICES ASSUME NEW i \in 1..Len(s) PROVE s[i] \in ToSet(t) \cup {s[1]}
      BY <1>3
    <2>1. CASE i = 1
      BY <2>1
    <2>2. CASE i # 1
      <3>1. i - 1 \in 1..Len(t) /\ t[i - 1] = s[i]
        BY <1>1, <1>5, <2>2
      <3> QED BY <1>3, <3>1
    <2> QED BY <2>1, <2>2
  <1>8. ASSUME IsInjective(s) PROVE IsInjective(t) /\ s[1] \notin ToSet(t)
    <2>1. \A i, j \in 1..Len(s) : s[i] = s[j] => i = j
      BY <1>8, Elements
    <2>2. \A i, j \in 1..Len(t) : t[i] = t[j] => i = j
      BY <1>1, <1>4, <2>1
    <2>3. 1 \in 1..Len(s) /\ \A i \in 1..Len(t) : i + 1 # 1
      BY <1>1
    <2>4. \A i \in 1..Len(t) : t[i] # s[1]
      BY <1>1, <1>4, <2>1, <2>3
    <2> QED BY <1>1, <1>3, <2>2, <2>4, Elements
  <1>9. s[1] \in ToSet(s)
    BY <1>1, <1>3
  <1> QED BY <1>1, <1>2, <1>6, <1>7, <1>8, <1>9 DEF t

\* Remembering an id keeps the limit of the window and its ids different, and the
\* window holds the id afterwards.
LEMMA RememberKeeps ==
    ASSUME TypeOK, NEW recent, Window(recent), NEW e \in Event
    PROVE  /\ Window(Remember(recent, e)) /\ e \in ToSet(Remember(recent, e))
           /\ ToSet(Remember(recent, e)) \subseteq ToSet(recent) \cup {e}
           /\ ~Contains(recent, e) /\ Len(recent) < inst.window =>
                 Remember(recent, e) = Append(recent, e)
  <1>1. inst.window \in Nat /\ inst.window >= 1
    BY Constants
  <1>2. recent \in Seq(Event) /\ Len(recent) \in Nat /\ Len(recent) <= inst.window
    BY LenProperties DEF Window
  <1>3. IsInjective(recent) /\ (Contains(recent, e) <=> e \in ToSet(recent))
    BY <1>2, Elements DEF Window
  <1>4. CASE Contains(recent, e)
    BY <1>3, <1>4 DEF Remember
  <1>5. CASE ~Contains(recent, e) /\ Len(recent) < inst.window
    <2>1. Remember(recent, e) = Append(recent, e)
      BY <1>5 DEF Remember
    <2>2. Len(recent) + 1 <= inst.window
      BY <1>1, <1>2, <1>5
    <2> QED BY <1>2, <1>3, <1>5, <2>1, <2>2, Appended DEF Window
  <1>6. CASE ~Contains(recent, e) /\ ~(Len(recent) < inst.window)
    <2> DEFINE t == Tail(recent)
    <2>1. Remember(recent, e) = Append(t, e)
      BY <1>6 DEF Remember
    <2>2. recent # <<>>
      BY <1>1, <1>2, <1>6, EmptySeq
    <2>3. /\ t \in Seq(Event) /\ Len(t) = Len(recent) - 1 /\ IsInjective(t)
          /\ ToSet(t) \subseteq ToSet(recent)
      BY <1>2, <1>3, <2>2, Tailed
    <2> HIDE DEF t
    <2>4. (Len(recent) - 1) + 1 <= inst.window
      BY <1>1, <1>2
    <2> QED BY <1>3, <1>6, <2>1, <2>3, <2>4, Appended DEF Window
  <1> QED BY <1>4, <1>5, <1>6

\* An id that is taken out leaves the others, in their order.
LEMMA Removed ==
    ASSUME NEW S, NEW s \in Seq(S), NEW i \in 1..Len(s), IsInjective(s)
    PROVE  /\ RemoveAt(s, i) \in Seq(S) /\ Len(RemoveAt(s, i)) = Len(s) - 1
           /\ IsInjective(RemoveAt(s, i))
           /\ ToSet(RemoveAt(s, i)) = ToSet(s) \ {s[i]}
  <1> DEFINE a == SubSeq(s, 1, i - 1)  b == SubSeq(s, i + 1, Len(s))  t == a \o b
             from(j) == IF j < i THEN j ELSE j + 1
  <1>1. Len(s) \in Nat /\ i \in Nat /\ i >= 1 /\ i <= Len(s)
    BY LenProperties
  <1>2. \A j \in 1..Len(s) : s[j] \in S
    BY ElementOfSeq
  <1>3. a \in Seq(S) /\ Len(a) = i - 1 /\ \A j \in 1..(i - 1) : a[j] = s[j]
    <2>1. 1 \in Int /\ i - 1 \in Int /\ \A j \in 1..(i - 1) : s[j] \in S
      BY <1>1, <1>2
    <2>2. /\ a \in Seq(S) /\ Len(a) = IF 1 <= i - 1 THEN (i - 1) - 1 + 1 ELSE 0
          /\ \A j \in 1..((i - 1) - 1 + 1) : a[j] = s[1 + j - 1]
      BY <2>1, SubSeqProperties
    <2> HIDE DEF a
    <2>3. \A j \in 1..(i - 1) : j \in 1..((i - 1) - 1 + 1) /\ 1 + j - 1 = j
      BY <1>1
    <2>4. \A j \in 1..(i - 1) : a[j] = s[j]
      BY <2>2, <2>3
    <2> QED BY <1>1, <2>2, <2>4
  <1>4. /\ b \in Seq(S) /\ Len(b) = Len(s) - i
        /\ \A j \in 1..(Len(s) - i) : b[j] = s[i + j]
    <2>1. i + 1 \in Int /\ Len(s) \in Int /\ \A j \in (i + 1)..Len(s) : s[j] \in S
      BY <1>1, <1>2
    <2>2. /\ b \in Seq(S)
          /\ Len(b) = IF i + 1 <= Len(s) THEN Len(s) - (i + 1) + 1 ELSE 0
          /\ \A j \in 1..(Len(s) - (i + 1) + 1) : b[j] = s[(i + 1) + j - 1]
      BY <2>1, SubSeqProperties
    <2> HIDE DEF b
    <2>3. \A j \in 1..(Len(s) - i) :
             j \in 1..(Len(s) - (i + 1) + 1) /\ (i + 1) + j - 1 = i + j
      BY <1>1
    <2>4. \A j \in 1..(Len(s) - i) : b[j] = s[i + j]
      BY <2>2, <2>3
    <2> QED BY <1>1, <2>2, <2>4
  <1> HIDE DEF a, b
  <1>5. /\ t \in Seq(S) /\ Len(t) = Len(a) + Len(b)
        /\ \A j \in 1..Len(a) + Len(b) : t[j] = IF j <= Len(a) THEN a[j] ELSE b[j - Len(a)]
    BY <1>3, <1>4, ConcatProperties
  <1> HIDE DEF t
  <1>6. Len(t) = Len(s) - 1
    BY <1>1, <1>3, <1>4, <1>5
  <1>7. \A j \in 1..Len(t) : t[j] = s[from(j)]
    <2> TAKE j \in 1..Len(t)
    <2>1. j \in 1..Len(a) + Len(b)
      BY <1>5
    <2>2. CASE j < i
      <3>1. j <= Len(a) /\ j \in 1..(i - 1)
        BY <1>1, <1>3, <1>6, <2>2
      <3> QED BY <1>3, <1>5, <2>1, <2>2, <3>1
    <2>3. CASE ~(j < i)
      <3>1. /\ ~(j <= Len(a)) /\ j - Len(a) \in 1..(Len(s) - i)
            /\ i + (j - Len(a)) = j + 1
        BY <1>1, <1>3, <1>6, <2>3
      <3> QED BY <1>4, <1>5, <2>1, <2>3, <3>1
    <2> QED BY <2>2, <2>3
  <1>8. \A j \in 1..Len(t) : from(j) \in 1..Len(s) /\ from(j) # i
    BY <1>1, <1>6
  <1>9. \A j, k \in 1..Len(t) : from(j) = from(k) => j = k
    BY <1>1, <1>6
  <1>10. \A k \in 1..Len(s) : k # i => \E j \in 1..Len(t) : from(j) = k
    <2> TAKE k \in 1..Len(s)
    <2> HAVE k # i
    <2>1. CASE k < i
      <3>1. k \in 1..Len(t) /\ from(k) = k
        BY <1>1, <1>6, <2>1
      <3> QED BY <3>1
    <2>2. CASE ~(k < i)
      <3>1. k - 1 \in 1..Len(t) /\ from(k - 1) = k
        BY <1>1, <1>6, <2>2
      <3> QED BY <3>1
    <2> QED BY <2>1, <2>2
  <1> HIDE DEF from
  <1>11. \A j, k \in 1..Len(s) : s[j] = s[k] => j = k
    BY Elements
  <1>12. ToSet(t) = {t[j] : j \in 1..Len(t)} /\ ToSet(s) = {s[j] : j \in 1..Len(s)}
    BY <1>5, Elements
  <1>13. ToSet(t) = ToSet(s) \ {s[i]}
    <2>1. \A j \in 1..Len(t) : t[j] \in ToSet(s) \ {s[i]}
      BY <1>7, <1>8, <1>11, <1>12
    <2>2. \A k \in 1..Len(s) : s[k] # s[i] => s[k] \in ToSet(t)
      BY <1>7, <1>10, <1>12
    <2> QED BY <1>12, <2>1, <2>2
  <1>14. \A j, k \in 1..Len(t) : t[j] = t[k] => j = k
    BY <1>7, <1>8, <1>9, <1>11
  <1>15. IsInjective(t)
    BY <1>5, <1>14, Elements
  <1>16. RemoveAt(s, i) = t
    BY DEF RemoveAt, t, a, b
  <1> QED BY <1>5, <1>6, <1>13, <1>15, <1>16

\* Forgetting an id takes it, and nothing else, out of the window.
LEMMA ForgetKeeps ==
    ASSUME TypeOK, NEW recent, Window(recent), NEW e
    PROVE  /\ Window(Forget(recent, e))
           /\ ToSet(Forget(recent, e)) = ToSet(recent) \ {e}
  <1>1. recent \in Seq(Event) /\ IsInjective(recent)
    BY DEF Window
  <1>2. CASE ~Contains(recent, e)
    <2>1. Forget(recent, e) = recent /\ e \notin ToSet(recent)
      BY <1>1, <1>2, Elements DEF Forget
    <2> QED BY <2>1
  <1>3. CASE Contains(recent, e)
    <2> DEFINE i == CHOOSE j \in 1..Len(recent) : recent[j] = e
    <2>1. \E j \in 1..Len(recent) : recent[j] = e
      BY <1>3 DEF Contains
    <2>2. i \in 1..Len(recent) /\ recent[i] = e
      BY <2>1
    <2>3. Forget(recent, e) = RemoveAt(recent, i)
      BY <1>3 DEF Forget
    <2> HIDE DEF i
    <2>4. /\ RemoveAt(recent, i) \in Seq(Event) /\ IsInjective(RemoveAt(recent, i))
          /\ Len(RemoveAt(recent, i)) = Len(recent) - 1
          /\ ToSet(RemoveAt(recent, i)) = ToSet(recent) \ {e}
      BY <1>1, <2>2, Removed
    <2>5. Len(recent) - 1 <= inst.window
      BY <1>1, Constants, LenProperties DEF Window
    <2> QED BY <2>3, <2>4, <2>5 DEF Window
  <1> QED BY <1>2, <1>3

\* Induction, with a set for the property.
LEMMA NatSetInduction ==
    ASSUME NEW S, 0 \in S, \A n \in Nat : n \in S => n + 1 \in S
    PROVE  \A n \in Nat : n \in S
  <1> DEFINE T == {n \in Nat : n \notin S}  R == OpToRel(<, Nat)
  <1>1. SUFFICES ASSUME T # {} PROVE FALSE
    OBVIOUS
  <1>2. IsWellFoundedOn(R, Nat)
    BY NatLessThanWellFounded
  <1>3. PICK x \in T : \A y \in T : ~(<<y, x>> \in R)
    <2> HIDE DEF R, T
    <2>1. T \subseteq Nat
      BY DEF T
    <2> QED BY <1>1, <1>2, <2>1, WFMin
  <1>4. \A y, z \in Nat : y < z => <<y, z>> \in R
    BY DEF OpToRel
  <1> HIDE DEF R
  <1>5. x \in Nat /\ x \notin S
    OBVIOUS
  <1>6. x # 0
    BY <1>5
  <1>7. x - 1 \in Nat /\ (x - 1) + 1 = x /\ x - 1 < x
    BY <1>5, <1>6
  <1>8. x - 1 \in S
    BY <1>3, <1>4, <1>5, <1>7
  <1>9. \A n \in Nat : n \in S => n + 1 \in S
    OBVIOUS
  <1> HIDE DEF T
  <1>10. (x - 1) + 1 \in S
    BY <1>7, <1>8, <1>9
  <1> QED BY <1>5, <1>7, <1>10

\* A release that takes over a window, with none of its own or the same, has that
\* window: all its ids, in their order.
LEMMA MergeTakesOver ==
    ASSUME TypeOK, NEW ids, Window(ids), NEW recent, recent \in {<<>>, ids}
    PROVE  Merge(recent, ids) = ids
  <1> DEFINE I == 0..Len(ids)
             g == [i \in I |-> IF recent = ids THEN ids ELSE SubSeq(ids, 1, i)]
             step(f) == [i \in I |-> IF i = 0 THEN recent ELSE Remember(f[i - 1], ids[i])]
             f == CHOOSE h : h = step(h)
  <1>1. /\ ids \in Seq(Event) /\ Len(ids) \in Nat /\ Len(ids) <= inst.window
        /\ inst.window \in Nat /\ \A i \in 1..Len(ids) : ids[i] \in Event
    BY Constants, LenProperties, ElementOfSeq DEF Window
  <1>2. \A i, j \in 1..Len(ids) : ids[i] = ids[j] => i = j
    BY <1>1, Elements DEF Window
  <1>3. g[0] = recent
    <2>1. 0 \in I /\ 0 \in Int /\ 1 \in Int /\ 0 < 1
      BY <1>1
    <2>2. SubSeq(ids, 1, 0) = <<>>
      BY <2>1, SubSeqEmpty
    <2> QED BY <2>1, <2>2
  <1>4. ASSUME NEW i \in 1..Len(ids) PROVE Remember(g[i - 1], ids[i]) = g[i]
    <2>1. i - 1 \in I /\ i \in I /\ i - 1 < Len(ids) /\ i >= 1 /\ i \in Int
      BY <1>1
    <2>2. CASE recent = ids
      <3>1. Contains(ids, ids[i])
        BY DEF Contains
      <3> QED BY <2>1, <2>2, <3>1 DEF Remember
    <2>3. CASE recent # ids
      <3> DEFINE p == SubSeq(ids, 1, i - 1)
      <3>1. g[i - 1] = p /\ g[i] = SubSeq(ids, 1, i)
        BY <2>1, <2>3
      <3>2. p \in Seq(Event) /\ Len(p) = i - 1 /\ \A j \in 1..(i - 1) : p[j] = ids[j]
        <4>1. 1 \in Int /\ i - 1 \in Int /\ \A j \in 1..(i - 1) : ids[j] \in Event
          BY <1>1, <2>1
        <4>2. /\ p \in Seq(Event) /\ Len(p) = IF 1 <= i - 1 THEN (i - 1) - 1 + 1 ELSE 0
              /\ \A j \in 1..((i - 1) - 1 + 1) : p[j] = ids[1 + j - 1]
          BY <4>1, SubSeqProperties
        <4> HIDE DEF p
        <4>3. \A j \in 1..(i - 1) : j \in 1..((i - 1) - 1 + 1) /\ 1 + j - 1 = j
          BY <1>1, <2>1
        <4>4. \A j \in 1..(i - 1) : p[j] = ids[j]
          BY <4>2, <4>3
        <4> QED BY <2>1, <4>2, <4>4
      <3>3. SubSeq(ids, 1, i) = p \o <<ids[i]>>
        <4>1. 1 \in 1..Len(ids) /\ i \in 1..Len(ids)
          BY <1>1, <2>1
        <4> QED BY <1>1, <4>1, SubSeqRecursiveSecond
      <3> HIDE DEF p
      <3>4. SubSeq(ids, 1, i) = Append(p, ids[i])
        BY <1>1, <3>2, <3>3, AppendIsConcat
      <3>5. ~Contains(p, ids[i])
        <4>1. \A j \in 1..(i - 1) : j \in 1..Len(ids) /\ j # i
          BY <1>1, <2>1
        <4> QED BY <1>2, <3>2, <4>1 DEF Contains
      <3>6. Len(p) < inst.window
        BY <1>1, <2>1, <3>2
      <3> QED BY <3>1, <3>4, <3>5, <3>6 DEF Remember
    <2> QED BY <2>2, <2>3
  <1>5. g = step(g)
    <2>1. \A i \in I : i # 0 => i \in 1..Len(ids)
      BY <1>1
    <2> HIDE DEF I
    <2>2. \A i \in I : g[i] = IF i = 0 THEN recent ELSE Remember(g[i - 1], ids[i])
      BY <1>3, <1>4, <2>1
    <2>3. g = [i \in I |-> g[i]]
      OBVIOUS
    <2> QED BY <2>2, <2>3
  <1>6. f = step(f)
    BY <1>5
  <1>7. Merge(recent, ids) = f[Len(ids)]
    BY DEF Merge
  <1> HIDE DEF f, g
  <1>8. f[0] = recent /\ \A i \in 1..Len(ids) : f[i] = Remember(f[i - 1], ids[i])
    BY <1>1, <1>6
  <1> DEFINE S == {i \in Nat : i \in I => f[i] = g[i]}
  <1>9. 0 \in S
    BY <1>3, <1>8
  <1>10. \A n \in Nat : n \in S => n + 1 \in S
    <2> TAKE n \in Nat
    <2> HAVE n \in S
    <2>1. CASE n + 1 \in I
      <3>1. n \in I /\ n + 1 \in 1..Len(ids) /\ (n + 1) - 1 = n
        BY <1>1, <2>1
      <3> QED BY <1>4, <1>8, <3>1
    <2>2. CASE n + 1 \notin I
      BY <2>2
    <2> QED BY <2>1, <2>2
  <1> HIDE DEF S
  <1>11. \A n \in Nat : n \in S
    BY <1>9, <1>10, NatSetInduction
  <1>12. f[Len(ids)] = g[Len(ids)]
    BY <1>1, <1>11 DEF S
  <1>13. g[Len(ids)] = ids
    BY <1>1, SubSeqFull DEF g
  <1> QED BY <1>7, <1>12, <1>13
-----------------------------------------------------------------------------
(* The releases: types, phases, and what is carried from one to the other. *)

\* The parts of a worker, of a replay and of a record.
LEMMA Fields ==
    /\ \A w \in Workers :
          /\ w.phase \in {"off", "starting", "Active", "Quiescing"}
          /\ w.drained \in BOOLEAN /\ w.recent \in Seq(Event)
          /\ w.queue \in Seq(Copy) /\ w.job \in Copy \cup {None}
    /\ \A f \in Replays : /\ f.record \in Record \cup {None}
                          /\ f.answer \in {"none", "ok", "failed"}
    /\ \A f \in Record : f.event \in Message
    /\ \A c \in Copy : c.event \in Event /\ c.kind \in {"live", "replay", "note"}
                          /\ c.waits \in BOOLEAN
    /\ None \notin Record /\ None \notin Copy /\ None \notin Snapshot
    /\ Message \cap Notification = {} /\ None \notin Event
    /\ Event = Message \cup Notification
  <1>1. \A w \in Workers :
           /\ w.phase \in {"off", "starting", "Active", "Quiescing"}
           /\ w.drained \in BOOLEAN /\ w.recent \in Seq(Event)
           /\ w.queue \in Seq(Copy) /\ w.job \in Copy \cup {None}
    BY DEF Workers
  <1>2. \A f \in Replays : /\ f.record \in Record \cup {None}
                           /\ f.answer \in {"none", "ok", "failed"}
    BY DEF Replays
  <1>3. \A f \in Record : f.event \in Message
    BY DEF Record
  <1>4. \A c \in Copy : c.event \in Event /\ c.kind \in {"live", "replay", "note"}
                         /\ c.waits \in BOOLEAN
    BY DEF Copy
  <1>5. None \notin Record /\ None \notin Copy /\ None \notin Snapshot
    BY NoneAssumption
  <1>6. /\ Message \cap Notification = {} /\ None \notin Event
        /\ Event = Message \cup Notification
    BY InstanceAssumption DEF Event
  <1> QED BY <1>1, <1>2, <1>3, <1>4, <1>5, <1>6

\* A worker in its type stays there, whatever changes of it.
LEMMA WorkerMoves ==
    ASSUME NEW w \in Workers
    PROVE  /\ \A q \in Seq(Copy) : [w EXCEPT !.queue = q] \in Workers
           /\ \A q \in Seq(Copy), j \in Copy \cup {None} :
                 [w EXCEPT !.queue = q, !.job = j] \in Workers
           /\ \A q \in Seq(Copy), j \in Copy \cup {None}, rc \in Seq(Event) :
                 [w EXCEPT !.queue = q, !.job = j, !.recent = rc] \in Workers
           /\ \A j \in Copy \cup {None} : [w EXCEPT !.job = j] \in Workers
           /\ \A j \in Copy \cup {None}, rc \in Seq(Event) :
                 [w EXCEPT !.job = j, !.recent = rc] \in Workers
           /\ \A rc \in Seq(Event) : [w EXCEPT !.recent = rc] \in Workers
           /\ \A d \in BOOLEAN : [w EXCEPT !.drained = d] \in Workers
           /\ \A f \in {"off", "starting", "Active", "Quiescing"} :
                 [w EXCEPT !.phase = f] \in Workers
           /\ \A f \in {"off", "starting", "Active", "Quiescing"}, d \in BOOLEAN :
                 [w EXCEPT !.phase = f, !.drained = d] \in Workers
  BY DEF Workers

\* The workers a release begins with.
LEMMA FreshWorkers ==
    /\ NotRunning \in Workers /\ Started \in Workers /\ Open \in Workers
    /\ NotRunning.phase = "off" /\ Started.phase = "starting" /\ Open.phase = "Active"
    /\ \A w \in {NotRunning, Started, Open} :
          ~w.drained /\ w.recent = <<>> /\ w.queue = <<>> /\ w.job = None
    /\ NoReplay \in Replays /\ NoReplay.record = None /\ NoReplay.answer = "none"
    /\ NoImport \in Imports /\ NoImport.pc = "none"
  <1>1. <<>> \in Seq(Event) /\ <<>> \in Seq(Copy)
    BY EmptySeq
  <1>2. NotRunning \in Workers
    BY <1>1 DEF NotRunning, Workers
  <1>3. Started \in Workers /\ Open \in Workers
    BY <1>2, WorkerMoves DEF Started, Open
  <1>4. NoReplay \in Replays /\ NoImport \in Imports
    BY DEF NoReplay, NoImport, Replays, Imports
  <1>5. /\ NotRunning.phase = "off" /\ Started.phase = "starting" /\ Open.phase = "Active"
        /\ \A w \in {NotRunning, Started, Open} :
              ~w.drained /\ w.recent = <<>> /\ w.queue = <<>> /\ w.job = None
    BY DEF NotRunning, Started, Open
  <1>6. /\ NoReplay.record = None /\ NoReplay.answer = "none" /\ NoImport.pc = "none"
    BY DEF NoReplay, NoImport
  <1> QED BY <1>2, <1>3, <1>4, <1>5, <1>6

\* A window that holds nothing repeats nothing.
LEMMA EmptyInjective == IsInjective(<<>>)
  <1>1. DOMAIN <<>> = {}
    OBVIOUS
  <1> QED BY <1>1 DEF IsInjective

\* An empty window is a window.
LEMMA EmptyWindow ==
    ASSUME TypeOK
    PROVE  Window(<<>>)
  <1>1. <<>> \in Seq(Event) /\ Len(<<>>) = 0 /\ inst.window \in Nat
    BY EmptySeq, Constants
  <1> QED BY <1>1, EmptyInjective DEF Window

\* What the type invariant says of one release.
LEMMA OfRelease ==
    ASSUME TypeOK, NEW r \in Release
    PROVE  /\ worker[r] \in Workers /\ Window(worker[r].recent)
           /\ worker[r].phase \in {"off", "starting", "Active", "Quiescing"}
           /\ worker[r].drained \in BOOLEAN /\ worker[r].recent \in Seq(Event)
           /\ worker[r].queue \in Seq(Copy) /\ worker[r].job \in Copy \cup {None}
           /\ Len(worker[r].queue) \in Nat
           /\ replay[r] \in Replays /\ replay[r].record \in Record \cup {None}
           /\ replay[r].answer \in {"none", "ok", "failed"}
           /\ store[r] \subseteq Record /\ Home(r) \in Release /\ Home("old") = "old"
  <1>1. worker[r] \in Workers /\ replay[r] \in Replays /\ store[r] \subseteq Record
    BY DEF TypeOK
  <1>2. Len(worker[r].recent) <= inst.window /\ IsInjective(worker[r].recent)
    BY DEF TypeOK
  <1>3. Home(r) \in Release /\ Home("old") = "old"
    BY DEF Home, Release
  <1> QED BY <1>1, <1>2, <1>3, Fields, LenProperties DEF Window

\* One worker changes, and its window is one.
LEMMA OneWorker ==
    ASSUME TypeOK, NEW r \in Release, NEW w \in Workers, Window(w.recent),
           worker' = [worker EXCEPT ![r] = w], inst' = inst
    PROVE  /\ worker' \in [Release -> Workers]
           /\ \A q \in Release : /\ Len(worker'[q].recent) <= inst'.window
                                 /\ IsInjective(worker'[q].recent)
           /\ worker'[r] = w /\ \A q \in Release : q # r => worker'[q] = worker[q]
  BY DEF TypeOK, Window

\* A worker that runs and is not drained goes on: no upgrade is past its drain.
Works(r) ==
    /\ Runs(r) /\ ~worker[r].drained
    /\ UNCHANGED <<inst, snapshot, import>>
    /\ worker'[r].phase = worker[r].phase /\ worker'[r].drained = worker[r].drained
    /\ \A q \in Release : q # r => worker'[q] = worker[q] /\ replay'[q] = replay[q]

\* A step of a running worker keeps what is said of the upgrade.
LEMMA WorksKeeps ==
    ASSUME ReleasesInv, TypeOK', NEW r \in Release, Works(r)
    PROVE  UpgradeInv'
  <1>1. snapshot = None
    BY DEF ReleasesInv, UpgradeInv, PhasesInv, IdleInv, CarriedInv, Works, Runs, Release,
      NotRunning
  <1>2. \A q \in Release : worker'[q].phase = worker[q].phase
                              /\ worker'[q].drained = worker[q].drained
    BY DEF Works
  <1>3. PhasesInv'
    BY <1>2 DEF ReleasesInv, UpgradeInv, PhasesInv, Release
  <1>4. IdleInv'
    BY <1>2 DEF ReleasesInv, UpgradeInv, IdleInv, Works, Runs
  <1>5. CarriedInv'
    <2>1. worker["new"].phase = "starting" => worker'["new"] = worker["new"]
      BY DEF Works, Runs, Release
    <2> QED BY <1>1, <1>2, <2>1 DEF ReleasesInv, UpgradeInv, CarriedInv, Works, Release
  <1>6. ImportingInv'
    BY <1>1, <1>2 DEF ReleasesInv, UpgradeInv, ImportingInv, Works, Release
  <1> QED BY <1>3, <1>4, <1>5, <1>6 DEF UpgradeInv

Still(c, kind, e) == IF c # None /\ c.kind = kind /\ c.event = e
                     THEN [c EXCEPT !.waits = FALSE] ELSE c

\* A copy somebody stops waiting for is the same copy.
LEMMA StillCopy ==
    ASSUME NEW c \in Copy, NEW kind, NEW e
    PROVE  /\ Still(c, kind, e) \in Copy /\ Still(c, kind, e).event = c.event
           /\ Still(c, kind, e).kind = c.kind
           /\ Still(c, kind, e).waits => c.waits /\ ~(c.kind = kind /\ c.event = e)
  <1> DEFINE d == [c EXCEPT !.waits = FALSE]
  <1>1. d \in Copy /\ d.event = c.event /\ d.kind = c.kind /\ d.waits = FALSE
    BY DEF Copy
  <1>2. Still(c, kind, e) = IF c.kind = kind /\ c.event = e THEN d ELSE c
    BY Fields DEF Still
  <1> HIDE DEF d
  <1> QED BY <1>1, <1>2

\* Who stops waiting for an event takes nothing from the worker but that.
LEMMA Stopped ==
    ASSUME NEW w \in Workers, NEW kind, NEW e
    PROVE  LET v == StopWaiting(w, kind, e) IN
           /\ v \in Workers /\ v.phase = w.phase /\ v.drained = w.drained
           /\ v.recent = w.recent /\ v.job = Still(w.job, kind, e)
           /\ Len(v.queue) = Len(w.queue)
           /\ \A i \in 1..Len(w.queue) : v.queue[i] = Still(w.queue[i], kind, e)
           /\ w.queue = <<>> => v.queue = <<>>
           /\ w.job # None => v.job \in Copy
           /\ w.job = None => v.job = None
  <1> DEFINE q == [i \in DOMAIN w.queue |-> Still(w.queue[i], kind, e)]
             j == Still(w.job, kind, e)
             v == [w EXCEPT !.queue = q, !.job = j]
  <1>1. \A c \in Copy : Still(c, kind, e) \in Copy
    BY StillCopy
  <1>2. w.queue \in Seq(Copy) /\ w.job \in Copy \cup {None}
    BY Fields
  <1>3. /\ DOMAIN w.queue = 1..Len(w.queue) /\ Len(w.queue) \in Nat
        /\ \A i \in 1..Len(w.queue) : w.queue[i] \in Copy
    BY <1>2, ElementOfSeq, LenProperties
  <1>4. q \in Seq(Copy) /\ Len(q) = Len(w.queue)
    BY <1>1, <1>3
  <1>5. w.queue = <<>> => q = <<>>
    <2>1. w.queue = <<>> => Len(q) = 0
      BY <1>4
    <2> HIDE DEF q
    <2> QED BY <1>4, <2>1, EmptySeq
  <1>6. j \in Copy \cup {None} /\ (w.job # None => j \in Copy) /\ (w.job = None => j = None)
    BY <1>1, <1>2 DEF Still
  <1>7. \A i \in 1..Len(w.queue) : q[i] = Still(w.queue[i], kind, e)
    BY <1>3
  <1>8. StopWaiting(w, kind, e) = v
    BY DEF StopWaiting, Still
  <1> HIDE DEF q, j
  <1>9. v \in Workers
    BY <1>4, <1>6, WorkerMoves
  <1>10. /\ v.phase = w.phase /\ v.drained = w.drained /\ v.recent = w.recent
         /\ v.queue = q /\ v.job = j
    BY DEF Workers
  <1> QED BY <1>1, <1>4, <1>5, <1>6, <1>7, <1>8, <1>9, <1>10 DEF j

\* An answer goes to the replay, or to the sender, that waits for it.
LEMMA Answered ==
    ASSUME TypeOK, NEW r \in Release, NEW c \in Copy, NEW result \in {"ok", "failed"},
           Answer(r, c, result)
    PROVE  /\ replay' \in [Release -> Replays]
           /\ \A q \in Release : q # r => replay'[q] = replay[q]
           /\ replay'[r].record = replay[r].record
           /\ replay'[r].answer = IF c.kind = "replay" /\ c.waits
                                  THEN result ELSE replay[r].answer
           /\ note' \in [Notification -> {"away", "waiting", "ok", "failed"}]
           /\ \A e \in Notification :
                 note'[e] = "ok" /\ note[e] # "ok" => e = c.event /\ result = "ok"
  <1>1. /\ replay \in [Release -> Replays]
        /\ note \in [Notification -> {"away", "waiting", "ok", "failed"}]
    BY DEF TypeOK
  <1>2. [replay[r] EXCEPT !.answer = result] \in Replays
    BY <1>1 DEF Replays
  <1>3. /\ [replay[r] EXCEPT !.answer = result].record = replay[r].record
        /\ [replay[r] EXCEPT !.answer = result].answer = result
    BY <1>1 DEF Replays
  <1>4. replay' = IF c.kind = "replay" /\ c.waits
                  THEN [replay EXCEPT ![r] = [replay[r] EXCEPT !.answer = result]] ELSE replay
    BY DEF Answer
  <1>5. note' = IF c.kind = "note" /\ c.waits
                THEN [note EXCEPT ![c.event] = result] ELSE note
    BY DEF Answer
  <1>6. /\ note' \in [Notification -> {"away", "waiting", "ok", "failed"}]
        /\ \A e \in Notification :
              note'[e] = "ok" /\ note[e] # "ok" => e = c.event /\ result = "ok"
    BY <1>1, <1>5
  <1>7. CASE c.kind = "replay" /\ c.waits
    <2> DEFINE f == [replay[r] EXCEPT !.answer = result]
    <2>1. f \in Replays /\ f.record = replay[r].record /\ f.answer = result
      BY <1>2, <1>3
    <2> HIDE DEF f
    <2>2. replay' = [replay EXCEPT ![r] = f]
      BY <1>4, <1>7 DEF f
    <2> QED BY <1>1, <1>6, <1>7, <2>1, <2>2
  <1>8. CASE ~(c.kind = "replay" /\ c.waits)
    BY <1>1, <1>4, <1>6, <1>8
  <1> QED BY <1>7, <1>8

\* A message that is deferred is in a record of its own, and no other event's goes.
LEMMA Persisted ==
    ASSUME TypeOK, NEW r \in Release, NEW e \in Message, Persist(r, e)
    PROVE  /\ store' \in [Release -> SUBSET Record] /\ deferred' = deferred \cup {e}
           /\ \A q \in Release : q # Home(r) => store'[q] = store[q]
           /\ \A f \in store'[Home(r)] : f \in store[Home(r)] \/ f.event = e
           /\ \A f \in store[Home(r)] : f.event # e => f \in store'[Home(r)]
           /\ \E f \in store'[Home(r)] : f.event = e
  <1> DEFINE new == [event |-> e, name |-> "sidecar", release |-> r]
             kept == {f \in store[Home(r)] : f.event # e \/ f.name # "sidecar"}
  <1>1. new \in Record /\ new.event = e
    BY DEF Record, Release
  <1>2. kept \subseteq store[Home(r)] /\ \A f \in store[Home(r)] : f.event # e => f \in kept
    OBVIOUS
  <1> HIDE DEF new, kept
  <1>3. Home(r) \in Release /\ store \in [Release -> SUBSET Record]
    BY OfRelease DEF TypeOK
  <1>4. store' = [store EXCEPT ![Home(r)] = kept \cup {new}]
    BY DEF Persist, Put, kept, new
  <1>5. store'[Home(r)] = kept \cup {new}
    BY <1>3, <1>4
  <1>6. kept \cup {new} \in SUBSET Record
    BY <1>1, <1>2, <1>3
  <1> QED BY <1>1, <1>2, <1>3, <1>4, <1>5, <1>6 DEF Persist

\* Of a worker only its queue, what it has in hand or its window changes.
Same(r) == /\ worker'[r].phase = worker[r].phase /\ worker'[r].drained = worker[r].drained
           /\ \A q \in Release : q # r => worker'[q] = worker[q]

WorkerTypes == /\ worker' \in [Release -> Workers]
               /\ \A q \in Release : /\ Len(worker'[q].recent) <= inst'.window
                                     /\ IsInjective(worker'[q].recent)

\* What is queued is behind the others.
LEMMA QueuedKeeps ==
    ASSUME TypeOK, NEW r \in Release, NEW c \in Copy, Queued(r, c), inst' = inst
    PROVE  /\ WorkerTypes /\ Same(r)
           /\ worker'[r].recent = worker[r].recent /\ worker'[r].job = worker[r].job
           /\ worker'[r].queue = Append(worker[r].queue, c)
  <1> DEFINE w == [worker[r] EXCEPT !.queue = Append(worker[r].queue, c)]
  <1>1. worker[r] \in Workers /\ Window(worker[r].recent) /\ worker[r].queue \in Seq(Copy)
    BY OfRelease
  <1>2. Append(worker[r].queue, c) \in Seq(Copy)
    BY <1>1, AppendProperties
  <1>3. /\ w.phase = worker[r].phase /\ w.drained = worker[r].drained
        /\ w.recent = worker[r].recent /\ w.job = worker[r].job
        /\ w.queue = Append(worker[r].queue, c)
    BY <1>1 DEF Workers
  <1>4. w \in Workers
    BY <1>1, <1>2, WorkerMoves
  <1>5. worker' = [worker EXCEPT ![r] = w]
    BY DEF Queued
  <1> HIDE DEF w
  <1>6. WorkerTypes /\ worker'[r] = w /\ \A q \in Release : q # r => worker'[q] = worker[q]
    BY <1>1, <1>3, <1>4, <1>5, OneWorker DEF WorkerTypes
  <1> QED BY <1>3, <1>6 DEF Same

\* The worker takes the next event: it is one it remembers, or it has it in hand.
LEMMA BeginTakes ==
    ASSUME TypeOK, NEW r \in Release, Begin(r)
    PROVE  LET c == Head(worker[r].queue) IN
           /\ WorkerTypes /\ Same(r)
           /\ worker[r].queue # <<>> /\ c \in Copy /\ worker[r].job = None
           /\ worker'[r].queue = Tail(worker[r].queue)
           /\ \/ /\ c.event \in ToSet(worker[r].recent) /\ worker'[r].job = None
                 /\ worker'[r].recent = worker[r].recent
                 /\ Answer(r, c, "ok") /\ UNCHANGED forgotten
              \/ /\ c.event \notin ToSet(worker[r].recent) /\ worker'[r].job = c
                 /\ ToSet(worker'[r].recent) \subseteq
                       ToSet(worker[r].recent) \cup ({c.event} \cap Message)
                 /\ c.event \in Message => c.event \in ToSet(worker'[r].recent)
                 /\ forgotten' = forgotten \cup Lost(worker[r].recent, worker'[r].recent)
                 /\ UNCHANGED <<replay, note>>
  <1> DEFINE c == Head(worker[r].queue)  q == Tail(worker[r].queue)
             rc == RememberFirst(worker[r].recent, c)
  <1>1. /\ worker[r] \in Workers /\ Window(worker[r].recent)
        /\ worker[r].queue \in Seq(Copy) /\ worker[r].recent \in Seq(Event)
    BY OfRelease
  <1>2. worker[r].queue # <<>> /\ worker[r].job = None /\ inst' = inst
    BY DEF Begin
  <1>3. c \in Copy /\ q \in Seq(Copy)
    BY <1>1, <1>2, HeadTailProperties
  <1>4. c.event \in Event
    BY <1>3, Fields
  <1>5. Remembers(r, c.event) <=> c.event \in ToSet(worker[r].recent)
    BY <1>1, Elements DEF Remembers
  <1>6. /\ Window(rc) /\ rc \in Seq(Event)
        /\ ToSet(rc) \subseteq ToSet(worker[r].recent) \cup ({c.event} \cap Message)
        /\ c.event \in Message => c.event \in ToSet(rc)
    <2>1. CASE c.event \in Message
      BY ZenonT(40), <1>1, <1>4, <2>1, RememberKeeps DEF RememberFirst, Window
    <2>2. CASE c.event \notin Message
      BY <1>1, <2>2 DEF RememberFirst
    <2> QED BY <2>1, <2>2
  <1>7. CASE Remembers(r, c.event)
    <2> DEFINE w == [worker[r] EXCEPT !.queue = q]
    <2>1. worker' = [worker EXCEPT ![r] = w] /\ Answer(r, c, "ok") /\ UNCHANGED forgotten
      BY <1>7 DEF Begin
    <2>2. w \in Workers
      BY <1>1, <1>3, WorkerMoves
    <2>3. /\ w.phase = worker[r].phase /\ w.drained = worker[r].drained
          /\ w.recent = worker[r].recent /\ w.job = worker[r].job /\ w.queue = q
      BY <1>1 DEF Workers
    <2> HIDE DEF w, q, rc, c
    <2>4. WorkerTypes /\ worker'[r] = w /\ \A s \in Release : s # r => worker'[s] = worker[s]
      BY <1>1, <1>2, <2>1, <2>2, <2>3, OneWorker DEF WorkerTypes
    <2> QED BY <1>2, <1>3, <1>5, <1>7, <2>1, <2>3, <2>4 DEF Same, q, c
  <1>8. CASE ~Remembers(r, c.event)
    <2> DEFINE w == [worker[r] EXCEPT !.queue = q, !.job = c, !.recent = rc]
    <2>1. /\ worker' = [worker EXCEPT ![r] = w] /\ UNCHANGED <<replay, note>>
          /\ forgotten' = forgotten \cup Lost(worker[r].recent, worker'[r].recent)
      BY <1>8 DEF Begin
    <2>2. w \in Workers
      BY <1>1, <1>3, <1>6, WorkerMoves
    <2>3. /\ w.phase = worker[r].phase /\ w.drained = worker[r].drained
          /\ w.recent = rc /\ w.job = c /\ w.queue = q
      BY <1>1 DEF Workers
    <2> HIDE DEF w, q, rc, c
    <2>4. WorkerTypes /\ worker'[r] = w /\ \A s \in Release : s # r => worker'[s] = worker[s]
      BY <1>1, <1>2, <1>6, <2>1, <2>2, <2>3, OneWorker DEF WorkerTypes
    <2> QED BY <1>2, <1>3, <1>5, <1>6, <1>8, <2>1, <2>3, <2>4 DEF Same, q, c
  <1> QED BY <1>7, <1>8

\* What is in hand is done with.
LEMMA JobDone ==
    ASSUME TypeOK, NEW r \in Release, NEW rc, Window(rc), inst' = inst,
           worker' = [worker EXCEPT ![r].job = None, ![r].recent = rc]
    PROVE  /\ WorkerTypes /\ Same(r) /\ worker'[r].job = None
           /\ worker'[r].queue = worker[r].queue /\ worker'[r].recent = rc
  <1> DEFINE w == [worker[r] EXCEPT !.job = None, !.recent = rc]
  <1>1. worker[r] \in Workers /\ rc \in Seq(Event)
    BY OfRelease DEF Window
  <1>2. worker' = [worker EXCEPT ![r] = w]
    OBVIOUS
  <1>3. w \in Workers
    BY <1>1, WorkerMoves
  <1>4. /\ w.phase = worker[r].phase /\ w.drained = worker[r].drained
        /\ w.recent = rc /\ w.job = None /\ w.queue = worker[r].queue
    BY <1>1 DEF Workers
  <1> HIDE DEF w
  <1>5. WorkerTypes /\ worker'[r] = w /\ \A s \in Release : s # r => worker'[s] = worker[s]
    BY <1>2, <1>3, <1>4, OneWorker DEF WorkerTypes
  <1> QED BY <1>4, <1>5 DEF Same

\* A message has been processed: with success, or it failed, and then its id goes
\* when it was replayed.
LEMMA FinishTakes ==
    ASSUME TypeOK, NEW r \in Release, FinishMessage(r)
    PROVE  LET c == worker[r].job IN
           /\ c \in Copy /\ c.event \in Message
           /\ WorkerTypes /\ Same(r) /\ worker'[r].job = None
           /\ worker'[r].queue = worker[r].queue
           /\ \E result \in {"ok", "failed"} :
                 /\ Answer(r, c, result)
                 /\ IF result = "failed" /\ c.kind = "replay"
                    THEN ToSet(worker'[r].recent) = ToSet(worker[r].recent) \ {c.event}
                    ELSE worker'[r].recent = worker[r].recent
                 /\ IF result = "ok"
                    THEN /\ handled' = handled \cup {c.event}
                         /\ twice' = IF c.event \in handled THEN twice \cup {c.event} ELSE twice
                    ELSE handled' = handled /\ twice' = twice
  <1> DEFINE c == worker[r].job
  <1>1. c \in Copy /\ c.event \in Message /\ inst' = inst
    BY OfRelease DEF FinishMessage
  <1>2. PICK result \in {"ok", "failed"} :
           /\ worker' = [worker EXCEPT ![r].job = None,
                ![r].recent = IF result = "failed" /\ c.kind = "replay"
                              THEN Forget(@, c.event) ELSE @]
           /\ handled' = IF result = "ok" THEN handled \cup {c.event} ELSE handled
           /\ twice' = IF result = "ok" /\ c.event \in handled
                       THEN twice \cup {c.event} ELSE twice
           /\ Answer(r, c, result)
    BY DEF FinishMessage
  <1> DEFINE rc == IF result = "failed" /\ c.kind = "replay"
                   THEN Forget(worker[r].recent, c.event) ELSE worker[r].recent
  <1>3. Window(worker[r].recent) /\ worker[r] \in Workers
    BY OfRelease
  <1>4. /\ Window(rc)
        /\ IF result = "failed" /\ c.kind = "replay"
           THEN ToSet(rc) = ToSet(worker[r].recent) \ {c.event} ELSE rc = worker[r].recent
    BY <1>3, ForgetKeeps
  <1>5. worker' = [worker EXCEPT ![r].job = None, ![r].recent = rc]
    BY <1>2, <1>3 DEF TypeOK, Workers
  <1> HIDE DEF rc
  <1>6. /\ WorkerTypes /\ Same(r) /\ worker'[r].job = None
        /\ worker'[r].queue = worker[r].queue /\ worker'[r].recent = rc
    BY <1>1, <1>4, <1>5, JobDone
  <1> QED BY <1>1, <1>2, <1>4, <1>6

\* The host has the notification, and the worker its id.
LEMMA EnqueuedTakes ==
    ASSUME TypeOK, NEW r \in Release, Enqueued(r)
    PROVE  LET c == worker[r].job IN
           /\ c \in Copy /\ c.event \in Notification
           /\ WorkerTypes /\ Same(r) /\ worker'[r].job = None
           /\ worker'[r].queue = worker[r].queue
           /\ ToSet(worker'[r].recent) \subseteq ToSet(worker[r].recent) \cup {c.event}
           /\ forgotten' = forgotten \cup Lost(worker[r].recent, worker'[r].recent)
           /\ host' = host \cup {c.event} /\ Answer(r, c, "ok")
  <1> DEFINE c == worker[r].job  rc == Remember(worker[r].recent, c.event)
  <1>1. c \in Copy /\ c.event \in Notification /\ c.event \in Event /\ inst' = inst
    BY OfRelease, Fields DEF Enqueued, Forwarding
  <1>2. /\ worker' = [worker EXCEPT ![r].job = None, ![r].recent = rc]
        /\ forgotten' = forgotten \cup Lost(worker[r].recent, worker'[r].recent)
        /\ host' = host \cup {c.event} /\ Answer(r, c, "ok")
    BY OfRelease DEF Enqueued, TypeOK, Workers
  <1>3. Window(rc) /\ ToSet(rc) \subseteq ToSet(worker[r].recent) \cup {c.event}
    BY <1>1, OfRelease, RememberKeeps
  <1> HIDE DEF rc
  <1>4. /\ WorkerTypes /\ Same(r) /\ worker'[r].job = None
        /\ worker'[r].queue = worker[r].queue /\ worker'[r].recent = rc
    BY <1>1, <1>2, <1>3, JobDone
  <1> QED BY <1>1, <1>2, <1>3, <1>4

\* It could not be delivered, as far as the worker knows.
LEMMA NotEnqueuedTakes ==
    ASSUME TypeOK, NEW r \in Release, NotEnqueued(r)
    PROVE  LET c == worker[r].job IN
           /\ c \in Copy /\ c.event \in Notification
           /\ WorkerTypes /\ Same(r) /\ worker'[r].job = None
           /\ worker'[r].queue = worker[r].queue /\ worker'[r].recent = worker[r].recent
           /\ host' \in {host, host \cup {c.event}} /\ Answer(r, c, "failed")
  <1> DEFINE c == worker[r].job  rc == worker[r].recent
  <1>1. c \in Copy /\ c.event \in Notification /\ inst' = inst
    BY OfRelease DEF NotEnqueued, Forwarding
  <1>2. worker[r] \in Workers /\ Window(rc)
    BY OfRelease
  <1>3. [worker[r] EXCEPT !.job = None] = [worker[r] EXCEPT !.job = None, !.recent = rc]
    BY <1>2 DEF Workers
  <1>4. worker' = [worker EXCEPT ![r].job = None, ![r].recent = rc]
    BY <1>3 DEF NotEnqueued
  <1> HIDE DEF rc
  <1>5. /\ WorkerTypes /\ Same(r) /\ worker'[r].job = None
        /\ worker'[r].queue = worker[r].queue /\ worker'[r].recent = rc
    BY <1>1, <1>2, <1>4, JobDone
  <1> QED BY <1>1, <1>5 DEF NotEnqueued, rc

\* A worker that has something in hand, in its queue or under replay is not past
\* its drain.
LEMMA StillWorks ==
    ASSUME ReleasesInv, NEW r \in Release,
           \/ worker[r].job # None \/ worker[r].queue # <<>> \/ replay[r] # NoReplay
           \/ worker[r].phase = "Active"
    PROVE  Runs(r) /\ ~worker[r].drained
  BY DEF ReleasesInv, UpgradeInv, IdleInv, Runs

\* Only one of the releases runs: the one that processes events.
LEMMA OneRuns ==
    ASSUME ReleasesInv, NEW r \in Release, Runs(r)
    PROVE  Main = r
  <1>1. \A q \in Release : worker[q].phase \in {"off", "starting", "Active", "Quiescing"}
    BY OfRelease DEF ReleasesInv
  <1> QED BY <1>1 DEF ReleasesInv, UpgradeInv, PhasesInv, Runs, Main, Release

\* The steps of a sidecar, each for one running worker.
LEMMA SidecarStepReleases ==
    ASSUME ReleasesInv, NEW r \in Release, SidecarStep(r)
    PROVE  TypeOK' /\ Works(r)
  <1>1. TypeOK
    BY DEF ReleasesInv
  <1>2. \A record \in store[Home(r)] : record \in Record /\ record.event \in Message
    BY <1>1, OfRelease, Fields
  <1>3. replay \in [Release -> Replays] /\ NoReplay \in Replays
    BY <1>1, FreshWorkers DEF TypeOK
  <1>4. ASSUME NEW e \in Message, Arrive(r, e) PROVE TypeOK' /\ Works(r)
    <2> DEFINE c == [event |-> e, kind |-> "live", waits |-> FALSE]
    <2>1. c \in Copy
      BY DEF Copy, Event
    <2>2. Queued(r, c) /\ inst' = inst /\ worker[r].phase = "Active"
      BY <1>4 DEF Arrive
    <2> HIDE DEF c
    <2>3. WorkerTypes /\ Same(r)
      BY <1>1, <2>1, <2>2, QueuedKeeps
    <2>4. TypeOK'
      BY <1>1, <1>4, <2>3 DEF TypeOK, WorkerTypes, Arrive, upgradeVars, history
    <2> QED BY <1>4, <2>2, <2>3, <2>4, StillWorks DEF Works, Same, Arrive, upgradeVars
  <1>5. ASSUME NEW e \in Message, Defer(r, e) PROVE TypeOK' /\ Works(r)
    <2>1. Persist(r, e) /\ Runs(r) /\ ~worker[r].drained
      BY <1>5 DEF Defer, Runs
    <2>2. store' \in [Release -> SUBSET Record] /\ deferred' = deferred \cup {e}
      BY <1>1, <2>1, Persisted
    <2>3. TypeOK'
      BY <1>1, <1>5, <2>2 DEF TypeOK, Defer, upgradeVars
    <2> QED BY <1>5, <2>1, <2>3 DEF Works, Defer, upgradeVars
  <1>6. ASSUME NEW record \in store[Home(r)], PutAside(r, record) PROVE TypeOK' /\ Works(r)
    <2>1. Runs(r) /\ ~worker[r].drained
      BY <1>6, StillWorks DEF PutAside
    <2>2. store' \in [Release -> SUBSET Record] /\ quarantine' \subseteq Message
      BY <1>1, <1>2, <1>6, OfRelease DEF PutAside, Quarantine, TypeOK
    <2>3. TypeOK'
      BY <1>1, <1>6, <2>2 DEF TypeOK, PutAside, upgradeVars, history
    <2> QED BY <1>6, <2>1, <2>3 DEF Works, PutAside, upgradeVars
  <1>7. ASSUME NEW record \in store[Home(r)], Redefer(r, record) PROVE TypeOK' /\ Works(r)
    <2>1. Persist(r, record.event) /\ Runs(r) /\ ~worker[r].drained
      BY <1>7 DEF Redefer, Runs
    <2>2. store' \in [Release -> SUBSET Record] /\ deferred' = deferred \cup {record.event}
      BY <1>1, <1>2, <2>1, Persisted
    <2>3. TypeOK'
      BY <1>1, <1>2, <1>7, <2>2 DEF TypeOK, Redefer, upgradeVars
    <2> QED BY <1>7, <2>1, <2>3 DEF Works, Redefer, upgradeVars
  <1>8. ASSUME NEW record \in store[Home(r)], Replay(r, record) PROVE TypeOK' /\ Works(r)
    <2> DEFINE c == [event |-> record.event, kind |-> "replay", waits |-> TRUE]
    <2>1. c \in Copy
      BY <1>2 DEF Copy, Event
    <2>2. Queued(r, c) /\ inst' = inst /\ Runs(r) /\ ~worker[r].drained
      BY <1>8, StillWorks DEF Replay
    <2> HIDE DEF c
    <2>3. WorkerTypes /\ Same(r)
      BY <1>1, <2>1, <2>2, QueuedKeeps
    <2>4. replay' \in [Release -> Replays] /\ \A q \in Release : q # r => replay'[q] = replay[q]
      <3>1. [replay[r] EXCEPT !.record = record] \in Replays
        BY <1>2, <1>3 DEF Replays
      <3>2. replay' = [replay EXCEPT ![r] = [replay[r] EXCEPT !.record = record]]
        BY <1>8 DEF Replay
      <3> QED BY <1>3, <3>1, <3>2
    <2>5. TypeOK'
      BY <1>1, <1>8, <2>3, <2>4 DEF TypeOK, WorkerTypes, Replay, upgradeVars, history
    <2> QED BY <1>8, <2>2, <2>3, <2>4, <2>5 DEF Works, Same, Replay, upgradeVars
  <1>9. ASSUME ReplayEnds(r) PROVE TypeOK' /\ Works(r)
    <2>1. Runs(r) /\ ~worker[r].drained
      BY <1>9, FreshWorkers, StillWorks DEF ReplayEnds
    <2>2. replay' \in [Release -> Replays] /\ \A q \in Release : q # r => replay'[q] = replay[q]
      BY <1>3, <1>9 DEF ReplayEnds
    <2>3. store' \in [Release -> SUBSET Record]
      BY <1>1, <1>9 DEF ReplayEnds, Quarantine, TypeOK
    <2>4. quarantine' \subseteq Message
      <3>1. replay[r].record # None
        BY <1>9 DEF ReleasesInv, AskedInv, Asked, ReplayEnds
      <3>2. replay[r].record.event \in Message
        BY <1>1, <3>1, OfRelease, Fields
      <3> QED BY <1>1, <1>9, <3>2 DEF ReplayEnds, Quarantine, TypeOK
    <2>5. TypeOK'
      BY <1>1, <1>9, <2>2, <2>3, <2>4 DEF TypeOK, ReplayEnds, upgradeVars, history
    <2> QED BY <1>9, <2>1, <2>2, <2>5 DEF Works, ReplayEnds, upgradeVars
  <1>10. ASSUME ReplayLate(r) PROVE TypeOK' /\ Works(r)
    <2> DEFINE e == replay[r].record.event  w == StopWaiting(worker[r], "replay", e)
    <2>1. Runs(r) /\ ~worker[r].drained
      BY <1>10, FreshWorkers, StillWorks DEF ReplayLate
    <2>2. replay' \in [Release -> Replays] /\ \A q \in Release : q # r => replay'[q] = replay[q]
      BY <1>3, <1>10 DEF ReplayLate
    <2>3. e \in Message
      BY <1>1, <1>10, OfRelease, Fields DEF ReplayLate
    <2>4. worker' = [worker EXCEPT ![r] = w] /\ Persist(r, e) /\ inst' = inst
      BY <1>10 DEF ReplayLate
    <2>5. /\ w \in Workers /\ w.recent = worker[r].recent
          /\ w.phase = worker[r].phase /\ w.drained = worker[r].drained
      BY <1>1, OfRelease, Stopped
    <2> HIDE DEF w, e
    <2>6. WorkerTypes /\ Same(r)
      BY <1>1, <2>4, <2>5, OfRelease, OneWorker DEF WorkerTypes, Same
    <2>7. store' \in [Release -> SUBSET Record] /\ deferred' = deferred \cup {e}
      BY <1>1, <2>3, <2>4, Persisted
    <2>8. budget' \in Budgets
      BY <1>1, <1>10 DEF TypeOK, Budgets, ReplayLate
    <2>9. TypeOK'
      BY <1>1, <1>10, <2>2, <2>3, <2>6, <2>7, <2>8
      DEF TypeOK, WorkerTypes, ReplayLate, upgradeVars
    <2> QED BY <1>10, <2>1, <2>2, <2>6, <2>9 DEF Works, Same, ReplayLate, upgradeVars
  <1> QED BY <1>4, <1>5, <1>6, <1>7, <1>8, <1>9, <1>10 DEF SidecarStep

\* The steps of a worker, and what its senders ask of it.
LEMMA WorkerStepReleases ==
    ASSUME ReleasesInv, NEW r \in Release,
           WorkerStep(r) \/ \E e \in Notification : Notify(r, e)
    PROVE  TypeOK' /\ Works(r)
  <1>1. TypeOK
    BY DEF ReleasesInv
  <1>2. ASSUME Begin(r) PROVE TypeOK' /\ Works(r)
    <2>1. Runs(r) /\ ~worker[r].drained
      BY <1>2, StillWorks DEF Begin
    <2>2. /\ WorkerTypes /\ Same(r) /\ Head(worker[r].queue) \in Copy
          /\ \/ Answer(r, Head(worker[r].queue), "ok") /\ UNCHANGED forgotten
             \/ /\ forgotten' = forgotten \cup Lost(worker[r].recent, worker'[r].recent)
                /\ UNCHANGED <<replay, note>>
      BY <1>1, <1>2, BeginTakes
    <2>3. /\ replay' \in [Release -> Replays]
          /\ \A q \in Release : q # r => replay'[q] = replay[q]
          /\ note' \in [Notification -> {"away", "waiting", "ok", "failed"}]
      BY <1>1, <2>2, Answered DEF TypeOK
    <2>4. forgotten' \subseteq Event
      <3>1. ToSet(worker[r].recent) \subseteq Event
        BY <1>1, OfRelease, Elements
      <3> QED BY <1>1, <2>2, <3>1 DEF TypeOK, Lost
    <2>5. TypeOK'
      BY <1>1, <1>2, <2>2, <2>3, <2>4 DEF TypeOK, WorkerTypes, Begin, upgradeVars
    <2> QED BY <1>2, <2>1, <2>2, <2>3, <2>5 DEF Works, Same, Begin, upgradeVars
  <1>3. ASSUME FinishMessage(r) PROVE TypeOK' /\ Works(r)
    <2> DEFINE c == worker[r].job
    <2>1. Runs(r) /\ ~worker[r].drained
      BY <1>3, StillWorks DEF FinishMessage
    <2>2. /\ WorkerTypes /\ Same(r) /\ c \in Copy /\ c.event \in Message
          /\ \E result \in {"ok", "failed"} : Answer(r, c, result)
          /\ handled' \subseteq handled \cup {c.event} /\ twice' \subseteq twice \cup {c.event}
      BY <1>1, <1>3, FinishTakes
    <2>3. /\ replay' \in [Release -> Replays]
          /\ \A q \in Release : q # r => replay'[q] = replay[q]
          /\ note' \in [Notification -> {"away", "waiting", "ok", "failed"}]
      BY <1>1, <2>2, Answered
    <2>4. handled' \subseteq Event /\ twice' \subseteq Event
      BY <1>1, <2>2 DEF TypeOK, Event
    <2>5. TypeOK'
      BY <1>1, <1>3, <2>2, <2>3, <2>4 DEF TypeOK, WorkerTypes, FinishMessage, upgradeVars
    <2> QED BY <1>3, <2>1, <2>2, <2>3, <2>5 DEF Works, Same, FinishMessage, upgradeVars
  <1>4. ASSUME Enqueued(r) PROVE TypeOK' /\ Works(r)
    <2> DEFINE c == worker[r].job
    <2>1. Runs(r) /\ ~worker[r].drained
      BY <1>4, StillWorks DEF Enqueued, Forwarding
    <2>2. /\ WorkerTypes /\ Same(r) /\ c \in Copy /\ c.event \in Notification
          /\ Answer(r, c, "ok") /\ host' = host \cup {c.event}
          /\ forgotten' = forgotten \cup Lost(worker[r].recent, worker'[r].recent)
      BY <1>1, <1>4, EnqueuedTakes
    <2>3. /\ replay' \in [Release -> Replays]
          /\ \A q \in Release : q # r => replay'[q] = replay[q]
          /\ note' \in [Notification -> {"away", "waiting", "ok", "failed"}]
      BY <1>1, <2>2, Answered
    <2>4. forgotten' \subseteq Event /\ host' \subseteq Notification
      <3>1. ToSet(worker[r].recent) \subseteq Event
        BY <1>1, OfRelease, Elements
      <3> QED BY <1>1, <2>2, <3>1 DEF TypeOK, Lost
    <2>5. TypeOK'
      BY <1>1, <1>4, <2>2, <2>3, <2>4 DEF TypeOK, WorkerTypes, Enqueued, upgradeVars
    <2> QED BY <1>4, <2>1, <2>2, <2>3, <2>5 DEF Works, Same, Enqueued, upgradeVars
  <1>5. ASSUME NotEnqueued(r) PROVE TypeOK' /\ Works(r)
    <2> DEFINE c == worker[r].job
    <2>1. Runs(r) /\ ~worker[r].drained
      BY <1>5, StillWorks DEF NotEnqueued, Forwarding
    <2>2. /\ WorkerTypes /\ Same(r) /\ c \in Copy /\ c.event \in Notification
          /\ Answer(r, c, "failed") /\ host' \in {host, host \cup {c.event}}
      BY <1>1, <1>5, NotEnqueuedTakes
    <2>3. /\ replay' \in [Release -> Replays]
          /\ \A q \in Release : q # r => replay'[q] = replay[q]
          /\ note' \in [Notification -> {"away", "waiting", "ok", "failed"}]
      BY <1>1, <2>2, Answered
    <2>4. host' \subseteq Notification
      BY <1>1, <2>2 DEF TypeOK
    <2>5. TypeOK'
      BY <1>1, <1>5, <2>2, <2>3, <2>4
      DEF TypeOK, WorkerTypes, NotEnqueued, upgradeVars, history
    <2> QED BY <1>5, <2>1, <2>2, <2>3, <2>5 DEF Works, Same, NotEnqueued, upgradeVars
  <1>6. ASSUME NEW e \in Notification, Notify(r, e) PROVE TypeOK' /\ Works(r)
    <2> DEFINE c == [event |-> e, kind |-> "note", waits |-> TRUE]
    <2>1. c \in Copy
      BY DEF Copy, Event
    <2>2. Queued(r, c) /\ inst' = inst /\ Runs(r) /\ ~worker[r].drained
      BY <1>6, StillWorks DEF Notify
    <2> HIDE DEF c
    <2>3. WorkerTypes /\ Same(r)
      BY <1>1, <2>1, <2>2, QueuedKeeps
    <2>4. note' \in [Notification -> {"away", "waiting", "ok", "failed"}]
      BY <1>1, <1>6 DEF TypeOK, Notify
    <2>5. TypeOK'
      BY <1>1, <1>6, <2>3, <2>4 DEF TypeOK, WorkerTypes, Notify, upgradeVars, history
    <2> QED BY <1>6, <2>2, <2>3, <2>5 DEF Works, Same, Notify, upgradeVars
  <1> QED BY <1>2, <1>3, <1>4, <1>5, <1>6 DEF WorkerStep

\* A sender that waits no longer: nothing else changes.
LEMMA NotifyLateReleases ==
    ASSUME ReleasesInv, NEW e \in Notification, NotifyLate(e)
    PROVE  TypeOK' /\ UpgradeInv'
  <1>1. TypeOK
    BY DEF ReleasesInv
  <1>2. \A r \in Release :
           /\ worker'[r] \in Workers /\ worker'[r].phase = worker[r].phase
           /\ worker'[r].drained = worker[r].drained /\ worker'[r].recent = worker[r].recent
           /\ worker[r].queue = <<>> => worker'[r].queue = <<>>
           /\ worker[r].job = None => worker'[r].job = None
    <2> TAKE r \in Release
    <2>1. worker'[r] = StopWaiting(worker[r], "note", e)
      BY DEF NotifyLate
    <2> QED BY <1>1, <2>1, OfRelease, Stopped
  <1>3. worker' = [r \in Release |-> worker'[r]]
    BY DEF NotifyLate
  <1>4. worker' \in [Release -> Workers]
    BY <1>2, <1>3
  <1>5. budget' \in Budgets /\ note' \in [Notification -> {"away", "waiting", "ok", "failed"}]
    BY <1>1 DEF TypeOK, Budgets, NotifyLate
  <1>6. TypeOK'
    BY <1>1, <1>2, <1>4, <1>5 DEF TypeOK, NotifyLate, upgradeVars, history
  <1>7. \A r \in Release : worker[r].phase = "off" => worker'[r] = NotRunning
    <2> TAKE r \in Release
    <2> HAVE worker[r].phase = "off"
    <2>1. worker[r] = NotRunning
      BY DEF ReleasesInv, UpgradeInv, IdleInv
    <2>2. /\ worker'[r].phase = "off" /\ worker'[r].drained = FALSE
          /\ worker'[r].recent = <<>> /\ worker'[r].queue = <<>> /\ worker'[r].job = None
      BY <1>2, <2>1 DEF NotRunning
    <2>3. worker'[r] \in Workers
      BY <1>2
    <2> QED BY <2>2, <2>3 DEF Workers, NotRunning
  <1>8. UNCHANGED <<inst, replay, store, snapshot, import>>
    BY DEF NotifyLate, upgradeVars
  <1>9. PhasesInv'
    BY <1>2 DEF ReleasesInv, UpgradeInv, PhasesInv, Release
  <1>10. IdleInv'
    BY <1>2, <1>7, <1>8 DEF ReleasesInv, UpgradeInv, IdleInv, Runs
  <1>11. CarriedInv'
    BY <1>2, <1>8 DEF ReleasesInv, UpgradeInv, CarriedInv, Release
  <1>12. ImportingInv'
    BY <1>2, <1>8 DEF ReleasesInv, UpgradeInv, ImportingInv, Home, Release
  <1> QED BY <1>6, <1>9, <1>10, <1>11, <1>12 DEF UpgradeInv

\* The host quiesces and drains the old release, and carries what it exports.
LEMMA OldReleases ==
    ASSUME ReleasesInv, Quiesce \/ Drain \/ Export
    PROVE  TypeOK' /\ UpgradeInv'
  <1>1. /\ TypeOK /\ "old" \in Release /\ "new" \in Release /\ Home("old") = "old"
        /\ worker["old"] \in Workers /\ Window(worker["old"].recent)
    BY OfRelease DEF ReleasesInv, Release
  <1>2. CASE Quiesce
    <2> DEFINE w == [worker["old"] EXCEPT !.phase = "Quiescing", !.drained = FALSE]
    <2>1. w \in Workers
      BY <1>1, WorkerMoves
    <2>2. /\ w.phase = "Quiescing" /\ w.drained = FALSE /\ w.recent = worker["old"].recent
          /\ w.queue = worker["old"].queue /\ w.job = worker["old"].job
      BY <1>1 DEF Workers
    <2>3. worker' = [worker EXCEPT !["old"] = w] /\ UNCHANGED <<inst, replay, snapshot, import>>
      BY <1>2 DEF Quiesce, Others, upgradeVars
    <2> HIDE DEF w
    <2>4. WorkerTypes /\ worker'["old"] = w /\ worker'["new"] = worker["new"]
      BY <1>1, <2>1, <2>2, <2>3, OneWorker DEF WorkerTypes, Release
    <2>5. TypeOK'
      BY <1>1, <1>2, <2>4 DEF TypeOK, WorkerTypes, Quiesce, Others, upgradeVars
    <2>6. worker["old"].phase = "Active" /\ worker["new"].phase = "off" /\ snapshot = None
      BY <1>1, <1>2 DEF ReleasesInv, UpgradeInv, PhasesInv, IdleInv, CarriedInv, Quiesce
    <2>7. PhasesInv'
      BY <2>2, <2>4, <2>6 DEF PhasesInv
    <2>8. IdleInv'
      BY <2>2, <2>3, <2>4, <2>6 DEF ReleasesInv, UpgradeInv, IdleInv, Runs, Release
    <2>9. CarriedInv' /\ ImportingInv'
      BY <2>3, <2>4, <2>6 DEF ReleasesInv, UpgradeInv, CarriedInv, ImportingInv
    <2> QED BY <2>5, <2>7, <2>8, <2>9 DEF UpgradeInv
  <1>3. CASE Drain
    <2> DEFINE w == [worker["old"] EXCEPT !.drained = TRUE]
    <2>1. w \in Workers
      BY <1>1, WorkerMoves
    <2>2. /\ w.phase = worker["old"].phase /\ w.drained = TRUE /\ w.recent = worker["old"].recent
          /\ w.queue = worker["old"].queue /\ w.job = worker["old"].job
      BY <1>1 DEF Workers
    <2>3. worker' = [worker EXCEPT !["old"] = w]
      BY <1>3 DEF Drain
    <2> HIDE DEF w
    <2>4. UNCHANGED <<inst, replay, store, snapshot, import>>
      BY <1>3 DEF Drain, Others, upgradeVars
    <2>5. WorkerTypes /\ worker'["old"] = w /\ worker'["new"] = worker["new"]
      BY <1>1, <2>1, <2>2, <2>3, <2>4, OneWorker DEF WorkerTypes, Release
    <2>6. TypeOK'
      BY <1>1, <1>3, <2>5 DEF TypeOK, WorkerTypes, Drain, Others, upgradeVars
    <2>7. PhasesInv'
      BY <2>2, <2>5 DEF ReleasesInv, UpgradeInv, PhasesInv
    <2>8. IdleInv'
      BY <1>3, <2>2, <2>4, <2>5 DEF ReleasesInv, UpgradeInv, IdleInv, Runs, Release, Drain
    <2>9. CarriedInv' /\ ImportingInv'
      BY <2>2, <2>4, <2>5 DEF ReleasesInv, UpgradeInv, CarriedInv, ImportingInv, Home
    <2> QED BY <2>6, <2>7, <2>8, <2>9 DEF UpgradeInv
  <1>4. CASE Export
    <2>1. /\ UNCHANGED <<inst, worker, replay, store, import>> /\ snapshot = None
          /\ worker["old"].drained
          /\ snapshot' = [records |-> store["old"], recent |-> worker["old"].recent]
      BY <1>1, <1>4 DEF Export, Others, Collect
    <2>2. store["old"] \in SUBSET Record /\ worker["old"].recent \in Seq(Event)
      BY <1>1, OfRelease
    <2>3. /\ snapshot' \in Snapshot /\ snapshot'.records = store["old"]
          /\ snapshot'.recent = worker["old"].recent
      BY <2>1, <2>2 DEF Snapshot
    <2>4. budget' \in Budgets
      BY <1>1, <1>4 DEF TypeOK, Budgets, Export
    <2>5. TypeOK'
      BY <1>1, <1>4, <2>3, <2>4 DEF TypeOK, Export, Others
    <2>6. PhasesInv' /\ IdleInv'
      BY <2>1 DEF ReleasesInv, UpgradeInv, PhasesInv, IdleInv, Runs
    <2>7. CarriedInv'
      BY <2>1, <2>3 DEF ReleasesInv, UpgradeInv, CarriedInv
    <2>8. ImportingInv'
      BY <2>1 DEF ReleasesInv, UpgradeInv, ImportingInv
    <2> QED BY <2>5, <2>6, <2>7, <2>8 DEF UpgradeInv
  <1> QED BY <1>2, <1>3, <1>4

\* The new release is started, and later opens or is stopped with the upgrade.
LEMMA NewReleases ==
    ASSUME ReleasesInv, StartNew \/ Promote \/ Abort
    PROVE  TypeOK' /\ UpgradeInv'
  <1>1. /\ TypeOK /\ "old" \in Release /\ "new" \in Release /\ Home("old") = "old"
        /\ worker["old"] \in Workers /\ Window(worker["old"].recent)
        /\ worker["new"] \in Workers /\ Window(worker["new"].recent)
    BY OfRelease DEF ReleasesInv, Release
  <1>2. CASE StartNew
    <2>1. worker' = [worker EXCEPT !["new"] = Started] /\ worker["new"].phase = "off"
          /\ worker["old"].phase = "Quiescing"
      BY <1>2 DEF StartNew
    <2>2. UNCHANGED <<inst, replay, store, snapshot, import>>
      BY <1>2 DEF StartNew, Others, upgradeVars
    <2>3. Window(Started.recent)
      BY <1>1, FreshWorkers, EmptyWindow
    <2>4. WorkerTypes /\ worker'["new"] = Started /\ worker'["old"] = worker["old"]
      BY <1>1, <2>1, <2>2, <2>3, FreshWorkers, OneWorker DEF WorkerTypes, Release
    <2>5. TypeOK'
      BY <1>1, <1>2, <2>4 DEF TypeOK, WorkerTypes, StartNew, Others, upgradeVars
    <2>6. PhasesInv'
      BY <2>1, <2>4, FreshWorkers DEF PhasesInv
    <2>7. IdleInv'
      BY <2>1, <2>2, <2>4, FreshWorkers DEF ReleasesInv, UpgradeInv, IdleInv, Runs, Release
    <2>8. import.pc = "none"
      BY <1>1, <2>1 DEF ReleasesInv, UpgradeInv, CarriedInv, TypeOK, Imports
    <2>9. CarriedInv' /\ ImportingInv'
      BY <2>2, <2>4, <2>8, FreshWorkers DEF ReleasesInv, UpgradeInv, CarriedInv,
        ImportingInv
    <2> QED BY <2>5, <2>6, <2>7, <2>9 DEF UpgradeInv
  <1>3. CASE Promote
    <2> DEFINE w == [worker["new"] EXCEPT !.phase = "Active"]
    <2>1. w \in Workers
      BY <1>1, WorkerMoves
    <2>2. /\ w.phase = "Active" /\ w.drained = worker["new"].drained
          /\ w.recent = worker["new"].recent /\ w.queue = worker["new"].queue
          /\ w.job = worker["new"].job
      BY <1>1 DEF Workers
    <2>3. /\ worker["new"].phase = "starting" /\ worker["old"].drained
          /\ import.pc \in {"none", "done"}
          /\ worker' = [worker EXCEPT !["new"] = w, !["old"] = NotRunning]
          /\ forgotten' = IF import.pc = "done" THEN forgotten
                          ELSE forgotten \cup Lost(worker["old"].recent, worker["new"].recent)
      BY <1>3 DEF Promote
    <2>4. UNCHANGED <<inst, replay, store, import>> /\ snapshot' = None
      BY <1>3 DEF Promote, Others
    <2> HIDE DEF w
    <2>5. /\ worker'["new"] = w /\ worker'["old"] = NotRunning
          /\ worker' \in [Release -> Workers]
      BY <1>1, <2>1, <2>3, FreshWorkers DEF TypeOK, Release
    <2>6. WorkerTypes
      BY <1>1, <2>2, <2>4, <2>5, FreshWorkers, EmptyWindow DEF WorkerTypes, Release, Window
    <2>7. forgotten' \subseteq Event
      <3>1. ToSet(worker["old"].recent) \subseteq Event
        BY <1>1, OfRelease, Elements
      <3> QED BY <1>1, <2>3, <3>1 DEF TypeOK, Lost
    <2>8. TypeOK'
      BY <1>1, <1>3, <2>4, <2>6, <2>7 DEF TypeOK, WorkerTypes, Promote, Others
    <2>9. PhasesInv'
      BY <2>2, <2>5, FreshWorkers DEF PhasesInv
    <2>10. IdleInv'
      BY <2>2, <2>3, <2>4, <2>5, FreshWorkers DEF ReleasesInv, UpgradeInv, IdleInv, Runs,
        Release
    <2>11. CarriedInv' /\ ImportingInv'
      BY <2>2, <2>3, <2>4, <2>5 DEF CarriedInv, ImportingInv
    <2> QED BY <2>8, <2>9, <2>10, <2>11 DEF UpgradeInv
  <1>4. CASE Abort
    <2> DEFINE w == [worker["old"] EXCEPT !.phase = "Active", !.drained = FALSE]
    <2>1. w \in Workers
      BY <1>1, WorkerMoves
    <2>2. /\ w.phase = "Active" /\ w.drained = FALSE
          /\ w.recent = worker["old"].recent /\ w.queue = worker["old"].queue
          /\ w.job = worker["old"].job
      BY <1>1 DEF Workers
    <2>3. /\ worker["old"].phase = "Quiescing" /\ snapshot' = None /\ import' = NoImport
          /\ worker' = [worker EXCEPT !["old"] = w, !["new"] = NotRunning]
      BY <1>4 DEF Abort
    <2>4. UNCHANGED <<inst, replay, store>>
      BY <1>4 DEF Abort, Others
    <2> HIDE DEF w
    <2>5. /\ worker'["old"] = w /\ worker'["new"] = NotRunning
          /\ worker' \in [Release -> Workers]
      BY <1>1, <2>1, <2>3, FreshWorkers DEF TypeOK, Release
    <2>6. WorkerTypes
      BY <1>1, <2>2, <2>4, <2>5, FreshWorkers, EmptyWindow DEF WorkerTypes, Release, Window
    <2>7. TypeOK'
      BY <1>1, <1>4, <2>3, <2>4, <2>6, FreshWorkers DEF TypeOK, WorkerTypes, Abort, Others
    <2>8. PhasesInv'
      BY <2>2, <2>5, FreshWorkers DEF PhasesInv
    <2>9. IdleInv'
      BY <2>2, <2>3, <2>4, <2>5, FreshWorkers
      DEF ReleasesInv, UpgradeInv, PhasesInv, IdleInv, Runs, Release
    <2>10. CarriedInv' /\ ImportingInv'
      BY <2>2, <2>3, <2>5, FreshWorkers DEF CarriedInv, ImportingInv
    <2> QED BY <2>7, <2>8, <2>9, <2>10 DEF UpgradeInv
  <1> QED BY <1>2, <1>3, <1>4

\* The import, while the old release is drained and the new one not open: what is
\* written goes to the plugin home of the new one, and nothing is in a shared one,
\* where every record is already.
LEMMA ImportReleases ==
    ASSUME ReleasesInv,
           \/ BeginImport \/ \E record \in Record : ImportRecord(record)
           \/ ImportedRecords \/ ImportEnds \/ ImportFails
    PROVE  TypeOK' /\ UpgradeInv'
  <1> DEFINE h == Home("new")
  <1>1. /\ TypeOK /\ "old" \in Release /\ "new" \in Release
        /\ worker["new"] \in Workers /\ Window(worker["new"].recent)
        /\ h \in Release /\ (h = "old" <=> inst.shared)
        /\ store \in [Release -> SUBSET Record] /\ import \in Imports
    BY OfRelease DEF ReleasesInv, TypeOK, Release, Home
  <1>2. /\ import.pc \in {"none", "records", "persist", "done"}
        /\ import.created \subseteq Record /\ import.before \subseteq Record
        /\ import.known \subseteq Message
    BY <1>1 DEF Imports
  <1>3. UNCHANGED <<inst, replay, snapshot>> /\ h' = h
    BY DEF BeginImport, ImportRecord, ImportedRecords, ImportEnds, ImportFails, Others, Home
  <1>4. /\ worker["new"].phase = "starting" /\ snapshot # None
        /\ worker["old"].drained /\ snapshot.records = store["old"]
        /\ snapshot.recent = worker["old"].recent /\ Window(worker["old"].recent)
        /\ worker["new"].recent \in {<<>>, snapshot.recent}
    <2>1. worker["new"].phase = "starting" /\ snapshot # None
      BY DEF ReleasesInv, UpgradeInv, ImportingInv, BeginImport, ImportRecord,
             ImportedRecords, ImportEnds, ImportFails
    <2> QED BY <1>1, <2>1, OfRelease DEF ReleasesInv, UpgradeInv, CarriedInv
  <1>5. PhasesInv /\ IdleInv /\ CarriedInv /\ ImportingInv
    BY DEF ReleasesInv, UpgradeInv
  <1> HIDE DEF h
  <1>6. CASE BeginImport
    <2>1. UNCHANGED <<worker, store>>
      BY <1>6 DEF BeginImport, Others
    <2>2. import' = [pc |-> "records", created |-> {}, before |-> store[h],
                     known |-> {record.event : record \in store[h]}]
      BY <1>6 DEF BeginImport, h
    <2>3. store[h] \subseteq Record /\ \A record \in store[h] : record.event \in Message
      BY <1>1, Fields
    <2>4. import' \in Imports
      BY <2>2, <2>3 DEF Imports
    <2>5. TypeOK'
      BY <1>1, <1>6, <2>4 DEF TypeOK, BeginImport, Others
    <2>6. PhasesInv' /\ IdleInv'
      BY <1>3, <1>5, <2>1 DEF PhasesInv, IdleInv, Runs
    <2>7. CarriedInv'
      BY <1>3, <1>4, <1>5, <2>1 DEF CarriedInv
    <2>8. ImportingInv'
      BY <1>3, <1>4, <2>1, <2>2 DEF ImportingInv, h
    <2> QED BY <2>5, <2>6, <2>7, <2>8 DEF UpgradeInv
  <1>7. ASSUME NEW record \in Record, ImportRecord(record) PROVE TypeOK' /\ UpgradeInv'
    <2> DEFINE file == [record EXCEPT !.name = "import"]
    <2>1. file \in Record /\ file.event = record.event /\ record.event \in Message
      BY DEF Record
    <2>2. /\ import.pc = "records" /\ record \in snapshot.records
          /\ record.event \notin import.known /\ UNCHANGED worker
          /\ store' = [store EXCEPT ![h] = @ \cup {file}]
          /\ import' = [import EXCEPT !.created = import.created \cup {file},
                                      !.known = import.known \cup {file.event}]
      BY <1>7 DEF ImportRecord, Others, h
    <2> HIDE DEF file
    <2>3. /\ store[h] = import.before \cup import.created
          /\ import.before \cap import.created = {}
          /\ import.known = {f.event : f \in store[h]}
      BY <1>5, <2>2 DEF ImportingInv, h
    <2>4. h # "old" /\ ~inst.shared
      BY <1>1, <1>4, <2>2, <2>3
    <2>5. /\ import'.pc = "records" /\ import'.created = import.created \cup {file}
          /\ import'.before = import.before
          /\ import'.known = import.known \cup {file.event} /\ import' \in Imports
      BY <1>1, <1>2, <2>1, <2>2 DEF Imports
    <2>6. store'[h] = store[h] \cup {file} /\ store' \in [Release -> SUBSET Record]
          /\ store'["old"] = store["old"]
      BY <1>1, <2>1, <2>2, <2>4
    <2>7. TypeOK'
      BY <1>1, <1>7, <2>5, <2>6 DEF TypeOK, ImportRecord, Others
    <2>8. PhasesInv' /\ IdleInv'
      BY <1>3, <1>5, <2>2 DEF PhasesInv, IdleInv, Runs
    <2>9. CarriedInv'
      BY <1>3, <1>4, <1>5, <2>2, <2>6 DEF CarriedInv
    <2>10. file \notin import.before
      BY <2>1, <2>2, <2>3
    <2>11. ImportingInv'
      BY <1>3, <1>4, <2>1, <2>2, <2>3, <2>4, <2>5, <2>6, <2>10 DEF ImportingInv, h
    <2> QED BY <2>7, <2>8, <2>9, <2>11 DEF UpgradeInv
  <1>8. CASE ImportedRecords
    <2>1. /\ UNCHANGED <<worker, store>> /\ import.pc = "records"
          /\ {record.event : record \in snapshot.records} \subseteq import.known
          /\ import' = [import EXCEPT !.pc = "persist"]
      BY <1>8 DEF ImportedRecords, Others
    <2>2. /\ import' \in Imports /\ import'.pc = "persist" /\ import'.created = import.created
          /\ import'.before = import.before /\ import'.known = import.known
      BY <1>1, <2>1 DEF Imports
    <2>3. TypeOK'
      BY <1>1, <1>8, <2>2 DEF TypeOK, ImportedRecords, Others
    <2>4. PhasesInv' /\ IdleInv'
      BY <1>3, <1>5, <2>1 DEF PhasesInv, IdleInv, Runs
    <2>5. CarriedInv'
      BY <1>3, <1>4, <1>5, <2>1 DEF CarriedInv
    <2>6. ImportingInv'
      BY <1>3, <1>5, <2>1, <2>2 DEF ImportingInv, h
    <2> QED BY <2>3, <2>4, <2>5, <2>6 DEF UpgradeInv
  <1>9. CASE ImportEnds
    <2> DEFINE w == [worker["new"] EXCEPT !.recent = snapshot.recent]
    <2>1. Merge(worker["new"].recent, snapshot.recent) = snapshot.recent
      BY <1>1, <1>4, MergeTakesOver
    <2>2. w \in Workers /\ Window(snapshot.recent)
      BY <1>1, <1>4, WorkerMoves DEF Window
    <2>3. /\ w.phase = worker["new"].phase /\ w.drained = worker["new"].drained
          /\ w.recent = snapshot.recent /\ w.queue = worker["new"].queue
          /\ w.job = worker["new"].job
      BY <1>1 DEF Workers
    <2>4. /\ worker' = [worker EXCEPT !["new"] = w] /\ UNCHANGED store
          /\ import' = [NoImport EXCEPT !.pc = "done"] /\ import.pc = "persist"
          /\ forgotten' = forgotten \cup Lost(worker["new"].recent, worker'["new"].recent)
      BY <1>9, <2>1 DEF ImportEnds, Others
    <2> HIDE DEF w
    <2>5. WorkerTypes /\ worker'["new"] = w /\ worker'["old"] = worker["old"]
      BY <1>1, <1>3, <2>2, <2>3, <2>4, OneWorker DEF WorkerTypes, Release
    <2>6. import' \in Imports /\ import'.pc = "done"
      BY <2>4 DEF Imports, NoImport
    <2>7. forgotten' \subseteq Event
      <3>1. ToSet(worker["new"].recent) \subseteq Event
        BY <1>1, OfRelease, Elements
      <3> QED BY <1>1, <2>4, <3>1 DEF TypeOK, Lost
    <2>8. TypeOK'
      BY <1>1, <1>9, <2>5, <2>6, <2>7 DEF TypeOK, WorkerTypes, ImportEnds, Others
    <2>9. PhasesInv'
      BY <1>5, <2>3, <2>5 DEF PhasesInv
    <2>10. IdleInv'
      BY <1>3, <1>4, <1>5, <2>3, <2>5 DEF IdleInv, Runs, Release
    <2>11. CarriedInv'
      BY <1>3, <1>4, <1>5, <2>3, <2>4, <2>5 DEF CarriedInv
    <2>12. \A record \in snapshot.records : \E kept \in store[h] : kept.event = record.event
      BY <1>5, <2>4 DEF ImportingInv, h
    <2>13. ImportingInv'
      BY <1>3, <1>4, <2>3, <2>4, <2>5, <2>6, <2>12 DEF ImportingInv, h
    <2> QED BY <2>8, <2>9, <2>10, <2>11, <2>13 DEF UpgradeInv
  <1>10. CASE ImportFails
    <2>1. /\ UNCHANGED worker /\ import' = NoImport
          /\ import.pc \in {"records", "persist"}
          /\ store' = [store EXCEPT ![h] = @ \ import.created] \/ UNCHANGED store
      BY <1>10 DEF ImportFails, Others, Undone, h
    <2>2. store' \in [Release -> SUBSET Record]
      BY <1>1, <2>1
    <2>3. TypeOK'
      BY <1>1, <1>10, <2>1, <2>2, FreshWorkers DEF TypeOK, ImportFails, Others
    <2>4. PhasesInv' /\ IdleInv'
      BY <1>3, <1>5, <2>1 DEF PhasesInv, IdleInv, Runs
    <2>5. store'["old"] = store["old"]
      <3>1. inst.shared => import.created = {}
        BY <1>5, <2>1 DEF ImportingInv
      <3> QED BY <1>1, <2>1, <3>1
    <2>6. CarriedInv' /\ ImportingInv'
      BY <1>3, <1>4, <1>5, <2>1, <2>5, FreshWorkers DEF CarriedInv, ImportingInv
    <2> QED BY <2>3, <2>4, <2>6 DEF UpgradeInv
  <1> QED BY <1>6, <1>7, <1>8, <1>9, <1>10

\* A process dies, and with it what its worker had: nothing stays drained.
LEMMA CrashReleases ==
    ASSUME ReleasesInv, NEW r \in Release, Crash(r)
    PROVE  TypeOK' /\ UpgradeInv'
  <1>1. /\ TypeOK /\ "old" \in Release /\ "new" \in Release
        /\ PhasesInv /\ IdleInv /\ CarriedInv /\ ImportingInv
    BY DEF ReleasesInv, UpgradeInv, Release
  <1>2. /\ worker' \in [Release -> Workers]
        /\ worker'[r] = IF r = "new" /\ worker["old"].phase # "off" THEN Started ELSE Open
        /\ r = "old" => worker'["new"] = NotRunning
        /\ r = "new" => worker'["old"] = worker["old"]
    <2>1. worker \in [Release -> Workers]
      BY <1>1 DEF TypeOK
    <2>2. CASE r = "old"
      BY <1>1, <2>1, <2>2, FreshWorkers DEF Crash
    <2>3. CASE r = "new"
      BY <1>1, <2>1, <2>3, FreshWorkers DEF Crash
    <2> QED BY <2>2, <2>3 DEF Release
  <1>3. WorkerTypes
    BY <1>1, <1>2, FreshWorkers, EmptyWindow, OfRelease
    DEF WorkerTypes, Release, Window, Crash, Others
  <1>4. /\ UNCHANGED <<inst, store>> /\ import' = NoImport
        /\ snapshot' = IF r = "old" THEN None ELSE snapshot
        /\ replay' = [replay EXCEPT ![r] = NoReplay] /\ worker[r].phase # "off"
    BY DEF Crash, Others
  <1>5. TypeOK'
    <2>1. ToSet(worker[r].recent) \subseteq Event
      BY <1>1, OfRelease, Elements
    <2>2. forgotten' \subseteq Event
      BY <1>1, <2>1 DEF TypeOK, Crash
    <2>3. budget' \in Budgets /\ note' \in [Notification -> {"away", "waiting", "ok", "failed"}]
      BY <1>1 DEF TypeOK, Budgets, Crash
    <2>4. replay' \in [Release -> Replays] /\ snapshot' \in Snapshot \cup {None}
      BY <1>1, <1>4, FreshWorkers DEF TypeOK
    <2> QED BY <1>1, <1>3, <1>4, <2>2, <2>3, <2>4, FreshWorkers
        DEF TypeOK, WorkerTypes, Crash, Others
  <1>6. PhasesInv'
    BY <1>1, <1>2, <1>4, FreshWorkers DEF PhasesInv, Release
  <1>7. IdleInv'
    <2>1. replay \in [Release -> Replays]
      BY <1>1 DEF TypeOK
    <2>2. \A q \in Release : replay'[q] = NoReplay \/ (q # r /\ replay'[q] = replay[q])
      BY <1>4, <2>1
    <2>3. r = "old" => replay["new"] = NoReplay
      <3>1. worker["old"].phase \in {"off", "starting", "Active", "Quiescing"}
        BY <1>1, OfRelease
      <3> QED BY <1>1, <1>4, <3>1 DEF PhasesInv, IdleInv, Runs
    <2> QED BY <1>1, <1>2, <1>4, <2>2, <2>3, FreshWorkers DEF IdleInv, PhasesInv, Runs,
      Release
  <1>8. CarriedInv'
    BY <1>1, <1>2, <1>4, FreshWorkers DEF CarriedInv, Release
  <1>9. ImportingInv'
    BY <1>4, FreshWorkers DEF ImportingInv
  <1> QED BY <1>5, <1>6, <1>7, <1>8, <1>9 DEF UpgradeInv
-----------------------------------------------------------------------------
(* The copies of a worker, and who waits for one.                          *)

\* Queueing adds a copy, taking one or being done with one adds none.
LEMMA HeldCopies ==
    ASSUME NEW w \in Workers, NEW v \in Workers
    PROVE  /\ Held(w) \subseteq Copy
           /\ \A i \in 1..Len(w.queue) : w.queue[i] \in Held(w)
           /\ w.job # None => w.job \in Held(w)
           /\ w.queue = <<>> /\ w.job = None => Held(w) = {}
           /\ v.queue = w.queue /\ v.job \in {w.job, None} => Held(v) \subseteq Held(w)
           /\ \A c \in Copy : v.queue = Append(w.queue, c) /\ v.job = w.job =>
                 Held(v) = Held(w) \cup {c}
           /\ w.queue # <<>> => Head(w.queue) \in Held(w)
           /\ w.queue # <<>> /\ v.queue = Tail(w.queue) /\ v.job \in {None, Head(w.queue)} =>
                 Held(v) \subseteq Held(w)
  <1>1. /\ w.queue \in Seq(Copy) /\ w.job \in Copy \cup {None}
        /\ v.queue \in Seq(Copy) /\ v.job \in Copy \cup {None}
    BY Fields
  <1>2. ToSet(w.queue) = {w.queue[i] : i \in 1..Len(w.queue)} /\ ToSet(w.queue) \subseteq Copy
    BY <1>1, Elements
  <1>3. w.queue = <<>> => ToSet(w.queue) = {}
    BY <1>2, EmptySeq
  <1>4. \A c \in Copy : v.queue = Append(w.queue, c) => ToSet(v.queue) = ToSet(w.queue) \cup {c}
    BY <1>1, Appended
  <1>5. w.queue # <<>> => /\ Head(w.queue) \in ToSet(w.queue)
                          /\ ToSet(Tail(w.queue)) \subseteq ToSet(w.queue)
    BY <1>1, Tailed
  <1> QED BY <1>1, <1>2, <1>3, <1>4, <1>5 DEF Held

\* One more copy that no replay waits for.
LEMMA AskedByNone ==
    ASSUME NEW w \in Workers, NEW v \in Workers, NEW p \in Replays, NEW c \in Copy,
           v.queue = Append(w.queue, c), v.job = w.job, Asked(w, p), ~Asks(c)
    PROVE  Asked(v, p)
  <1>1. Held(v) = Held(w) \cup {c}
    BY HeldCopies
  <1>2. w.queue \in Seq(Copy) /\ Len(w.queue) \in Nat
    BY Fields, LenProperties
  <1>3. /\ Len(v.queue) = Len(w.queue) + 1 /\ v.queue[Len(w.queue) + 1] = c
        /\ \A i \in 1..Len(w.queue) : v.queue[i] = w.queue[i]
    BY <1>2, AppendProperties
  <1>4. \A i \in 1..Len(v.queue) : Asks(v.queue[i]) =>
           i \in 1..Len(w.queue) /\ v.queue[i] = w.queue[i]
    BY <1>2, <1>3
  <1> QED BY <1>1, <1>4 DEF Asked

\* The copy of a replay that begins, when none was under way.
LEMMA AskedByReplay ==
    ASSUME NEW w \in Workers, NEW v \in Workers, NEW p \in Replays, NEW c \in Copy,
           v.queue = Append(w.queue, c), v.job = w.job, Asked(w, NoReplay),
           p.record # None, p.record.event = c.event, p.answer = "none"
    PROVE  Asked(v, p)
  <1>1. Held(v) = Held(w) \cup {c}
    BY HeldCopies
  <1>2. w.queue \in Seq(Copy) /\ Len(w.queue) \in Nat
    BY Fields, LenProperties
  <1>3. /\ Len(v.queue) = Len(w.queue) + 1 /\ v.queue[Len(w.queue) + 1] = c
        /\ \A i \in 1..Len(w.queue) : v.queue[i] = w.queue[i]
    BY <1>2, AppendProperties
  <1>4. \A d \in Held(w) : ~Asks(d)
    BY FreshWorkers DEF Asked
  <1>5. \A i \in 1..Len(w.queue) : ~Asks(v.queue[i])
    BY <1>3, <1>4, HeldCopies
  <1>6. \A i \in 1..Len(v.queue) : i \in 1..Len(w.queue) \/ i = Len(w.queue) + 1
    BY <1>2, <1>3
  <1>7. \A i, j \in 1..Len(v.queue) : Asks(v.queue[i]) /\ Asks(v.queue[j]) => i = j
    BY <1>5, <1>6
  <1>8. ~(v.job # None /\ Asks(v.job))
    BY <1>4, HeldCopies
  <1> QED BY <1>1, <1>4, <1>7, <1>8 DEF Asked

\* The first copy is taken, and answered when it is not to be processed.
LEMMA AskedOnBegin ==
    ASSUME NEW w \in Workers, NEW v \in Workers, NEW p \in Replays, NEW s \in Replays,
           w.queue # <<>>, w.job = None, v.queue = Tail(w.queue), Asked(w, p),
           \/ v.job = Head(w.queue) /\ s = p
           \/ /\ v.job = None /\ s.record = p.record
              /\ s.answer = IF Asks(Head(w.queue)) THEN "ok" ELSE p.answer
    PROVE  Asked(v, s)
  <1> DEFINE c == Head(w.queue)
  <1>1. w.queue \in Seq(Copy) /\ c \in Copy
    BY Fields, HeadTailProperties
  <1>2. /\ Len(w.queue) \in Nat \ {0} /\ c = w.queue[1] /\ Len(v.queue) = Len(w.queue) - 1
        /\ \A i \in 1..Len(v.queue) : v.queue[i] = w.queue[i + 1]
    BY <1>1, Tailed
  <1>3. 1 \in 1..Len(w.queue) /\ \A i \in 1..Len(v.queue) : i + 1 \in 1..Len(w.queue) /\ i + 1 # 1
    BY <1>2
  <1>4. Held(v) \subseteq Held(w) /\ c \in Held(w)
    BY HeldCopies
  <1>5. \A i, j \in 1..Len(v.queue) : Asks(v.queue[i]) /\ Asks(v.queue[j]) => i = j
    <2> TAKE i, j \in 1..Len(v.queue)
    <2> HAVE Asks(v.queue[i]) /\ Asks(v.queue[j])
    <2>1. i + 1 = j + 1
      BY <1>2, <1>3 DEF Asked
    <2> QED BY <1>2, <2>1
  <1> HIDE DEF c
  <1>6. Asks(c) => \A i \in 1..Len(v.queue) : ~Asks(v.queue[i])
    BY <1>2, <1>3 DEF Asked
  <1>7. c # None
    BY <1>1, Fields
  <1>8. CASE v.job = c /\ s = p
    BY <1>4, <1>5, <1>6, <1>7, <1>8 DEF Asked
  <1>9. CASE v.job = None /\ s.record = p.record /\ ~Asks(c) /\ s.answer = p.answer
    BY <1>4, <1>5, <1>9 DEF Asked
  <1>10. CASE v.job = None /\ s.record = p.record /\ Asks(c) /\ s.answer = "ok"
    <2>1. s.record # None
      BY <1>4, <1>10 DEF Asked
    <2>2. Held(v) = ToSet(v.queue)
      BY <1>10 DEF Held
    <2>3. v.queue \in Seq(Copy)
      BY Fields
    <2>4. Held(v) = {v.queue[i] : i \in 1..Len(v.queue)}
      BY <2>2, <2>3, Elements
    <2>5. \A d \in Held(v) : ~Asks(d)
      BY <1>6, <1>10, <2>4
    <2> QED BY <1>5, <1>10, <2>1, <2>5 DEF Asked
  <1> QED BY <1>8, <1>9, <1>10 DEF c

\* What was in hand is answered.
LEMMA AskedOnEnd ==
    ASSUME NEW w \in Workers, NEW v \in Workers, NEW p \in Replays, NEW s \in Replays,
           w.job # None, v.job = None, v.queue = w.queue, Asked(w, p), s.record = p.record,
           Asks(w.job) \/ s.answer = p.answer
    PROVE  Asked(v, s)
  <1>1. Held(v) \subseteq Held(w) /\ w.job \in Held(w) /\ v.queue \in Seq(Copy)
    BY HeldCopies, Fields
  <1>2. CASE ~Asks(w.job)
    BY <1>1, <1>2 DEF Asked
  <1>3. CASE Asks(w.job)
    <2>1. s.record # None
      BY <1>1, <1>3 DEF Asked
    <2>2. \A i \in 1..Len(v.queue) : ~Asks(v.queue[i])
      BY <1>3 DEF Asked
    <2>3. \A d \in Held(v) : ~Asks(d)
      BY <1>1, <2>2, Elements DEF Held
    <2> QED BY <2>1, <2>2, <2>3 DEF Asked
  <1> QED BY <1>2, <1>3

\* Who stops waiting for a notification asks as little of the replays as before;
\* after a replay that was late no copy is waited for.
LEMMA AskedOnStop ==
    ASSUME NEW w \in Workers, NEW p \in Replays, NEW kind, NEW e, Asked(w, p)
    PROVE  LET v == StopWaiting(w, kind, e) IN
           /\ \A d \in Held(v) : \E c \in Held(w) : d.kind = c.kind /\ d.event = c.event
           /\ Asked(v, p)
           /\ kind = "replay" /\ e = p.record.event => Asked(v, NoReplay)
  <1> DEFINE v == StopWaiting(w, kind, e)
  <1>1. /\ v \in Workers /\ v.job = Still(w.job, kind, e) /\ Len(v.queue) = Len(w.queue)
        /\ \A i \in 1..Len(w.queue) : v.queue[i] = Still(w.queue[i], kind, e)
        /\ w.job # None => v.job \in Copy
        /\ w.job = None => v.job = None
        /\ \A c \in Copy :
              /\ Still(c, kind, e).event = c.event /\ Still(c, kind, e).kind = c.kind
              /\ Still(c, kind, e).waits => c.waits /\ ~(c.kind = kind /\ c.event = e)
    <2>1. /\ v \in Workers /\ v.job = Still(w.job, kind, e) /\ Len(v.queue) = Len(w.queue)
          /\ \A i \in 1..Len(w.queue) : v.queue[i] = Still(w.queue[i], kind, e)
      BY Stopped
    <2>2. /\ w.job # None => v.job \in Copy
          /\ w.job = None => v.job = None
      BY Stopped
    <2>3. \A c \in Copy :
             /\ Still(c, kind, e).event = c.event /\ Still(c, kind, e).kind = c.kind
             /\ Still(c, kind, e).waits => c.waits /\ ~(c.kind = kind /\ c.event = e)
      BY StillCopy
    <2> QED BY <2>1, <2>2, <2>3
  <1> HIDE DEF v
  <1>2. /\ w.queue \in Seq(Copy) /\ v.queue \in Seq(Copy)
        /\ w.job \in Copy \cup {None} /\ v.job \in Copy \cup {None}
    BY <1>1, Fields
  <1>3. /\ Held(v) = {v.queue[i] : i \in 1..Len(v.queue)} \cup ({v.job} \ {None})
        /\ Held(w) = {w.queue[i] : i \in 1..Len(w.queue)} \cup ({w.job} \ {None})
        /\ Held(w) \subseteq Copy
    BY <1>2, Elements, HeldCopies DEF Held
  <1>4. \A d \in Held(v) : \E c \in Held(w) :
           /\ d.kind = c.kind /\ d.event = c.event
           /\ d.waits => c.waits /\ ~(c.kind = kind /\ c.event = e)
    <2> TAKE d \in Held(v)
    <2>1. ASSUME NEW i \in 1..Len(v.queue), d = v.queue[i]
          PROVE  \E c \in Held(w) : /\ d.kind = c.kind /\ d.event = c.event
                                    /\ d.waits => c.waits /\ ~(c.kind = kind /\ c.event = e)
      <3>1. w.queue[i] \in Held(w) /\ d = Still(w.queue[i], kind, e)
        BY <1>1, <1>3, <2>1
      <3> QED BY <1>1, <1>3, <3>1
    <2>2. ASSUME d = v.job, v.job # None
          PROVE  \E c \in Held(w) : /\ d.kind = c.kind /\ d.event = c.event
                                    /\ d.waits => c.waits /\ ~(c.kind = kind /\ c.event = e)
      <3>1. w.job \in Held(w) /\ d = Still(w.job, kind, e)
        BY <1>1, <1>3, <2>2
      <3> QED BY <1>1, <1>3, <3>1
    <2> QED BY <1>3, <2>1, <2>2
  <1>5. \A i \in 1..Len(v.queue) : i \in 1..Len(w.queue) /\ (Asks(v.queue[i]) => Asks(w.queue[i]))
    BY <1>1, <1>2, ElementOfSeq DEF Asks
  <1>6. v.job # None /\ Asks(v.job) => w.job # None /\ Asks(w.job)
    BY <1>1, <1>2 DEF Asks
  <1>7. \A d \in Held(v) : Asks(d) => \E c \in Held(w) : Asks(c) /\ c.event = d.event
    BY <1>4 DEF Asks
  <1>8. Asked(v, p)
    BY <1>5, <1>6, <1>7 DEF Asked
  <1>9. ASSUME kind = "replay", e = p.record.event PROVE Asked(v, NoReplay)
    <2>1. \A d \in Held(v) : ~Asks(d)
      <3> TAKE d \in Held(v)
      <3> SUFFICES ASSUME Asks(d) PROVE FALSE
        OBVIOUS
      <3>1. PICK c \in Held(w) : /\ d.kind = c.kind /\ d.event = c.event
                                 /\ c.waits /\ ~(c.kind = kind /\ c.event = e)
        BY <1>4 DEF Asks
      <3>2. Asks(c)
        BY <3>1 DEF Asks
      <3>3. c.event = e
        BY <1>9, <3>2 DEF Asked
      <3> QED BY <1>9, <3>1, <3>2, <3>3 DEF Asks
    <2> QED BY <1>8, <2>1, FreshWorkers DEF Asked
  <1> QED BY <1>4, <1>8, <1>9 DEF v

\* A worker that has nothing, and a sidecar that replays nothing.
LEMMA AskedNothing ==
    ASSUME NEW w \in {NotRunning, Started, Open}
    PROVE  Asked(w, NoReplay) /\ Held(w) = {}
  <1>1. w.queue = <<>> /\ w.job = None /\ w \in Workers
    BY FreshWorkers
  <1>2. Held(w) = {} /\ 1..Len(w.queue) = {}
    BY <1>1, HeldCopies, EmptySeq
  <1> QED BY <1>1, <1>2, FreshWorkers DEF Asked

\* Whose queue and job are as they were asks for as much.
LEMMA AskedSame ==
    ASSUME NEW w, NEW v, NEW p, v.queue = w.queue, v.job = w.job, Asked(w, p)
    PROVE  Asked(v, p) /\ Held(v) = Held(w)
  BY DEF Asked, Held

\* One release changes, and a replay still waits for at most its own copy.
LEMMA AskedOne ==
    ASSUME AskedInv, NEW r \in Release, Asked(worker'[r], replay'[r]),
           \A q \in Release : q # r => worker'[q] = worker[q] /\ replay'[q] = replay[q]
    PROVE  AskedInv'
  BY DEF AskedInv

\* The steps of a sidecar, a worker and its senders.
LEMMA AskedWorks ==
    ASSUME ReleasesInv, NEW r \in Release, TypeOK', Works(r),
           SidecarStep(r) \/ WorkerStep(r) \/ \E e \in Notification : Notify(r, e)
    PROVE  AskedInv'
  <1> DEFINE w == worker[r]  v == worker'[r]  p == replay[r]  s == replay'[r]
  <1>1. /\ TypeOK /\ AskedInv /\ Asked(w, p)
        /\ w \in Workers /\ p \in Replays /\ v \in Workers /\ s \in Replays
    BY DEF ReleasesInv, AskedInv, TypeOK
  <1>2. \A q \in Release : q # r => worker'[q] = worker[q] /\ replay'[q] = replay[q]
    BY DEF Works
  <1>3. \A record \in store[Home(r)] : record \in Record /\ record.event \in Message
    BY <1>1, OfRelease, Fields
  <1>4. SUFFICES Asked(v, s)
    BY <1>1, <1>2, AskedOne
  <1>5. CASE UNCHANGED <<worker, replay>>
    BY <1>1, <1>5
  <1>6. ASSUME NEW c \in Copy, ~Asks(c), Queued(r, c), UNCHANGED <<inst, replay>>
        PROVE  Asked(v, s)
    BY <1>1, <1>6, QueuedKeeps, AskedByNone
  <1>7. ASSUME NEW e \in Message, Arrive(r, e) PROVE Asked(v, s)
    <2> DEFINE c == [event |-> e, kind |-> "live", waits |-> FALSE]
    <2>1. c \in Copy /\ ~Asks(c)
      BY DEF Copy, Event, Asks
    <2> QED BY <1>6, <1>7, <2>1 DEF Arrive
  <1>8. ASSUME NEW record \in store[Home(r)], Replay(r, record) PROVE Asked(v, s)
    <2> DEFINE c == [event |-> record.event, kind |-> "replay", waits |-> TRUE]
    <2>1. c \in Copy /\ c.event = record.event
      BY <1>3 DEF Copy, Event
    <2>2. Queued(r, c) /\ inst' = inst /\ p = NoReplay
      BY <1>8 DEF Replay
    <2> HIDE DEF c
    <2>3. s.record = record /\ s.answer = "none" /\ record # None
      <3>1. replay' = [replay EXCEPT ![r].record = record] /\ replay \in [Release -> Replays]
        BY <1>1, <1>8 DEF Replay, TypeOK
      <3>2. replay'[r] = [replay[r] EXCEPT !.record = record]
        BY <3>1
      <3>3. s.record = record /\ s.answer = p.answer
        BY <1>1, <3>2 DEF Replays
      <3> QED BY <1>3, <2>2, <3>3, FreshWorkers, Fields
    <2>4. v.queue = Append(w.queue, c) /\ v.job = w.job
      BY <1>1, <2>1, <2>2, QueuedKeeps
    <2>5. Asked(w, NoReplay)
      BY <1>1, <2>2
    <2> QED BY <1>1, <2>1, <2>3, <2>4, <2>5, AskedByReplay
  <1>9. CASE ReplayEnds(r)
    <2>1. worker' = worker /\ s = NoReplay /\ p.answer # "none"
      BY <1>1, <1>9 DEF ReplayEnds, TypeOK
    <2> QED BY <1>1, <2>1, FreshWorkers DEF Asked
  <1>10. CASE ReplayLate(r)
    <2>1. s = NoReplay /\ v = StopWaiting(w, "replay", p.record.event)
      BY <1>1, <1>10 DEF ReplayLate, TypeOK
    <2> QED BY <1>1, <2>1, AskedOnStop
  <1>11. CASE Begin(r)
    <2> DEFINE c == Head(w.queue)
    <2>1. /\ w.queue # <<>> /\ c \in Copy /\ w.job = None /\ v.queue = Tail(w.queue)
          /\ \/ v.job = None /\ Answer(r, c, "ok")
             \/ v.job = c /\ UNCHANGED <<replay, note>>
      BY <1>1, <1>11, BeginTakes
    <2>2. Answer(r, c, "ok") =>
             s.record = p.record /\ s.answer = IF Asks(c) THEN "ok" ELSE p.answer
      BY <1>1, <2>1, Answered DEF Asks
    <2>3. \/ v.job = c /\ s = p
          \/ /\ v.job = None /\ s.record = p.record
             /\ s.answer = IF Asks(c) THEN "ok" ELSE p.answer
      BY <2>1, <2>2
    <2> HIDE DEF w, v, p, s
    <2> QED BY <1>1, <2>1, <2>3, AskedOnBegin
  <1>12. ASSUME w.job \in Copy, v.job = None, v.queue = w.queue,
                NEW result \in {"ok", "failed"}, Answer(r, w.job, result)
         PROVE  Asked(v, s)
    <2>1. s.record = p.record /\ (Asks(w.job) \/ s.answer = p.answer)
      BY <1>1, <1>12, Answered DEF Asks
    <2>2. w.job # None
      BY <1>12, Fields
    <2> HIDE DEF w, v, p, s
    <2> QED BY <1>1, <1>12, <2>1, <2>2, AskedOnEnd
  <1>13. CASE FinishMessage(r)
    <2>1. /\ w.job \in Copy /\ v.job = None /\ v.queue = w.queue
          /\ \E result \in {"ok", "failed"} : Answer(r, w.job, result)
      BY <1>1, <1>13, FinishTakes
    <2> QED BY <1>12, <2>1
  <1>14. CASE Enqueued(r)
    <2>1. w.job \in Copy /\ v.job = None /\ v.queue = w.queue /\ Answer(r, w.job, "ok")
      BY <1>1, <1>14, EnqueuedTakes
    <2> QED BY <1>12, <2>1
  <1>15. CASE NotEnqueued(r)
    <2>1. w.job \in Copy /\ v.job = None /\ v.queue = w.queue /\ Answer(r, w.job, "failed")
      BY <1>1, <1>15, NotEnqueuedTakes
    <2> QED BY <1>12, <2>1
  <1>16. ASSUME NEW e \in Notification, Notify(r, e) PROVE Asked(v, s)
    <2> DEFINE c == [event |-> e, kind |-> "note", waits |-> TRUE]
    <2>1. c \in Copy /\ ~Asks(c)
      BY DEF Copy, Event, Asks
    <2> QED BY <1>6, <1>16, <2>1 DEF Notify
  <1>17. ASSUME NEW e \in Message, Defer(r, e) PROVE Asked(v, s)
    BY <1>5, <1>17 DEF Defer
  <1>18. ASSUME NEW record \in store[Home(r)], PutAside(r, record) \/ Redefer(r, record)
         PROVE  Asked(v, s)
    BY <1>5, <1>18 DEF PutAside, Redefer
  <1> QED BY <1>7, <1>8, <1>9, <1>10, <1>11, <1>13, <1>14, <1>15, <1>16, <1>17, <1>18
          DEF SidecarStep, WorkerStep

\* The upgrade and a crash put no copy into a queue.
LEMMA AskedUpgrade ==
    ASSUME ReleasesInv, TypeOK',
           UpgradeStep \/ (\E r \in Release : Crash(r)) \/ \E e \in Notification : NotifyLate(e)
    PROVE  AskedInv'
  <1>1. /\ TypeOK /\ AskedInv /\ PhasesInv /\ IdleInv
        /\ worker \in [Release -> Workers] /\ replay \in [Release -> Replays]
        /\ \A q \in Release : worker[q] \in Workers /\ Asked(worker[q], replay[q])
    BY DEF ReleasesInv, UpgradeInv, AskedInv, TypeOK
  <1>2. CASE /\ UNCHANGED replay
             /\ \A q \in Release :
                   worker'[q].queue = worker[q].queue /\ worker'[q].job = worker[q].job
    BY <1>1, <1>2, AskedSame DEF AskedInv
  <1>3. \A q \in Release : worker[q].phase \in {"off", "starting"} \/ worker[q].drained =>
           replay[q] = NoReplay /\ worker[q].queue = <<>> /\ worker[q].job = None
    BY <1>1 DEF IdleInv, Runs
  <1>4. "old" \in Release /\ "new" \in Release
    BY DEF Release
  <1>5. CASE Quiesce \/ Drain
    <2>1. \A q \in Release :
             worker'[q].queue = worker[q].queue /\ worker'[q].job = worker[q].job
      <3>1. CASE Quiesce
        <4>1. /\ worker'["old"].queue = worker["old"].queue
              /\ worker'["old"].job = worker["old"].job /\ worker'["new"] = worker["new"]
          BY <1>1, <1>4, <3>1 DEF Quiesce, Workers
        <4> QED BY <4>1 DEF Release
      <3>2. CASE Drain
        <4>1. /\ worker'["old"].queue = worker["old"].queue
              /\ worker'["old"].job = worker["old"].job /\ worker'["new"] = worker["new"]
          BY <1>1, <1>4, <3>2 DEF Drain, Workers
        <4> QED BY <4>1 DEF Release
      <3> QED BY <1>5, <3>1, <3>2
    <2> QED BY <1>2, <1>5, <2>1 DEF Quiesce, Drain
  <1>6. CASE Export \/ BeginImport \/ (\E record \in Record : ImportRecord(record))
             \/ ImportedRecords \/ ImportFails
    BY <1>2, <1>6 DEF Export, BeginImport, ImportRecord, ImportedRecords, ImportFails,
      Others
  <1>7. CASE ImportEnds
    <2>1. \A q \in Release :
             worker'[q].queue = worker[q].queue /\ worker'[q].job = worker[q].job
      BY <1>1, <1>7 DEF ImportEnds, Workers
    <2> QED BY <1>2, <1>7, <2>1 DEF ImportEnds
  <1>8. CASE StartNew
    <2>1. /\ worker'["new"] = Started /\ worker'["old"] = worker["old"] /\ replay' = replay
          /\ replay["new"] = NoReplay
      BY <1>1, <1>3, <1>8 DEF StartNew, Release
    <2> QED BY <1>1, <2>1, AskedNothing DEF AskedInv, Release
  <1>9. CASE Promote
    <2>1. /\ worker'["new"].queue = <<>> /\ worker'["new"].job = None
          /\ worker'["old"] = NotRunning /\ replay' = replay
          /\ replay["new"] = NoReplay /\ replay["old"] = NoReplay
      BY <1>1, <1>3, <1>9 DEF Promote, Release, Workers
    <2>2. Asked(worker'["new"], NoReplay)
      BY <2>1, AskedNothing, AskedSame, FreshWorkers
    <2> QED BY <2>1, <2>2, AskedNothing DEF AskedInv, Release
  <1>10. CASE Abort
    <2>1. /\ worker'["old"].queue = worker["old"].queue /\ worker'["old"].job = worker["old"].job
          /\ worker'["new"] = NotRunning /\ replay' = replay /\ replay["new"] = NoReplay
      BY <1>1, <1>3, <1>10 DEF Abort, Release, Workers, PhasesInv
    <2>2. Asked(worker'["old"], replay["old"])
      BY <1>1, <2>1, AskedSame DEF Release
    <2> QED BY <2>1, <2>2, AskedNothing DEF AskedInv, Release
  <1>11. ASSUME NEW r \in Release, Crash(r) PROVE AskedInv'
    <2>1. /\ worker'[r] \in {Started, Open} /\ replay'[r] = NoReplay
          /\ \A q \in Release : q # r => replay'[q] = replay[q]
      BY <1>1, <1>11 DEF Crash, Release
    <2>2. r = "old" => worker'["new"] = NotRunning /\ replay["new"] = NoReplay
      <3>1. worker["old"].phase \in {"off", "starting", "Active", "Quiescing"}
        BY <1>1, OfRelease DEF Release
      <3> QED BY <1>1, <1>3, <1>11, <3>1 DEF Crash, Release, PhasesInv
    <2>3. r = "new" => worker'["old"] = worker["old"]
      BY <1>1, <1>11 DEF Crash, Release
    <2> QED BY <1>1, <2>1, <2>2, <2>3, AskedNothing DEF AskedInv, Release
  <1>12. ASSUME NEW e \in Notification, NotifyLate(e) PROVE AskedInv'
    <2>1. \A q \in Release : worker'[q] = StopWaiting(worker[q], "note", e)
      BY <1>12 DEF NotifyLate
    <2>2. replay' = replay
      BY <1>12 DEF NotifyLate
    <2> QED BY <1>1, <2>1, <2>2, AskedOnStop DEF AskedInv
  <1> QED BY <1>5, <1>6, <1>7, <1>8, <1>9, <1>10, <1>11, <1>12 DEF UpgradeStep

\* It is so in every initial state.
LEMMA ReleasesInit ==
    ASSUME Init
    PROVE  ReleasesInv
  <1>1. /\ inst \in Instances /\ inst.earlier \subseteq Message /\ inst.window \in Nat
        /\ inst.crashes \in Nat /\ inst.late \in Nat /\ inst.exports \in Nat
    BY InstanceAssumption DEF Init
  <1>2. /\ worker = [r \in Release |-> IF r = "old" THEN Open ELSE NotRunning]
        /\ replay = [r \in Release |-> NoReplay] /\ snapshot = None /\ import = NoImport
    BY DEF Init
  <1>3. worker \in [Release -> Workers] /\ replay \in [Release -> Replays] /\ import \in Imports
    BY <1>2, FreshWorkers
  <1>4. IsInjective(<<>>) /\ Len(<<>>) <= inst.window
    <2>1. <<>> \in Seq(Event) /\ Len(<<>>) = 0
      BY EmptySeq
    <2> QED BY <1>1, <2>1, EmptyInjective
  <1>5. [event : inst.earlier, name : {"sidecar"}, release : {"earlier"}] \subseteq Record
    BY <1>1 DEF Record
  <1>6. store \in [Release -> SUBSET Record]
    BY <1>5 DEF Init
  <1>7. budget \in Budgets
    BY <1>1 DEF Init, Budgets
  <1>8. \A r \in Release : worker[r].recent = <<>>
    BY <1>2, FreshWorkers
  <1>9. TypeOK
    BY <1>1, <1>2, <1>3, <1>4, <1>6, <1>7, <1>8 DEF TypeOK, Init
  <1>10. PhasesInv /\ IdleInv /\ CarriedInv /\ ImportingInv
    BY <1>2, FreshWorkers DEF PhasesInv, IdleInv, CarriedInv, ImportingInv, Runs, Release
  <1>11. AskedInv
    BY <1>2, AskedNothing DEF AskedInv
  <1> QED BY <1>9, <1>10, <1>11 DEF ReleasesInv, UpgradeInv

\* Every step of every process keeps it.
LEMMA ReleasesStep ==
    ASSUME ReleasesInv, [Next]_vars
    PROVE  ReleasesInv'
  <1>1. ASSUME NEW r \in Release,
               SidecarStep(r) \/ WorkerStep(r) \/ \E e \in Notification : Notify(r, e)
        PROVE  ReleasesInv'
    <2>1. TypeOK' /\ Works(r)
      BY <1>1, SidecarStepReleases, WorkerStepReleases
    <2> QED BY <1>1, <2>1, WorksKeeps, AskedWorks DEF ReleasesInv
  <1>2. ASSUME NEW r \in Release, Crash(r) PROVE ReleasesInv'
    BY <1>2, CrashReleases, AskedUpgrade DEF ReleasesInv
  <1>3. ASSUME NEW e \in Notification, NotifyLate(e) PROVE ReleasesInv'
    BY <1>3, NotifyLateReleases, AskedUpgrade DEF ReleasesInv
  <1>4. ASSUME UpgradeStep PROVE ReleasesInv'
    BY <1>4, OldReleases, NewReleases, ImportReleases, AskedUpgrade DEF ReleasesInv,
      UpgradeStep
  <1>5. ASSUME UNCHANGED vars PROVE ReleasesInv'
    BY <1>5 DEF vars, upgradeVars, history, ReleasesInv, UpgradeInv, TypeOK, PhasesInv,
      IdleInv,
                CarriedInv, ImportingInv, AskedInv, Runs, Home
  <1> QED BY <1>1, <1>2, <1>3, <1>4, <1>5 DEF Next

\* Types, phases and what is carried are so in every state.
THEOREM ReleasesAlways == Spec => []ReleasesInv
  <1>1. Init => ReleasesInv
    BY ReleasesInit
  <1>2. ReleasesInv /\ [Next]_vars => ReleasesInv'
    BY ReleasesStep
  <1> QED BY <1>1, <1>2, PTL DEF Spec
-----------------------------------------------------------------------------
(* What the upgrade, a crash and a sender that gives up do to the events: they *)
(* bring none, and what the release that runs has is with the one that runs    *)
(* then.                                                                       *)

CopiesStay(q) ==
    /\ \A d \in Held(worker'[q]) : \E c \in Held(worker[q]) : d.kind = c.kind /\ d.event = c.event
    /\ worker'[q].job # None =>
          /\ worker[q].job # None /\ worker'[q].job.event = worker[q].job.event
          /\ worker'[q].recent = worker[q].recent
    /\ \/ worker'[q].recent = <<>>
       \/ worker'[q].recent = worker[q].recent /\ (worker[q].job # None => worker'[q].job # None)
       \/ worker'[q].recent = worker["old"].recent /\ worker["old"].job = None

RecordsStay ==
    /\ \A q \in Release : \A f \in store'[q] :
          \E s \in Release : \E g \in store[s] : g.event = f.event
    /\ \A f \in store[Home(Main)] : \E g \in store'[Home(Main)'] : g.event = f.event

WindowStays ==
    /\ forgotten \subseteq forgotten'
    /\ \A e \in ToSet(worker[Main].recent) \ forgotten' : e \in ToSet(worker'[Main'].recent)

Carries ==
    /\ UNCHANGED <<inst, away, deferred, handled, twice, quarantine, host>>
    /\ \A e \in Notification : note'[e] = "ok" => note[e] = "ok"
    /\ \A q \in Release : replay'[q] \in {replay[q], NoReplay}
    /\ \A q \in Release : CopiesStay(q)
    /\ RecordsStay /\ WindowStays

\* A step of the upgrade, a crash and a late sender carry what the releases have:
\* the copies, the records and the window of the release that runs.
LEMMA UpgradeCarries ==
    ASSUME ReleasesInv, ReleasesInv',
           UpgradeStep \/ (\E r \in Release : Crash(r)) \/ \E e \in Notification : NotifyLate(e)
    PROVE  Carries
  <1>1. /\ TypeOK /\ PhasesInv /\ IdleInv /\ CarriedInv /\ ImportingInv
        /\ worker \in [Release -> Workers] /\ replay \in [Release -> Replays]
        /\ store \in [Release -> SUBSET Record]
        /\ note \in [Notification -> {"away", "waiting", "ok", "failed"}]
        /\ "old" \in Release /\ "new" \in Release /\ Release = {"old", "new"}
        /\ Home("old") = "old" /\ Home("new") \in Release
    BY OfRelease DEF ReleasesInv, UpgradeInv, TypeOK, Release
  <1>2. \A q \in Release : /\ worker[q] \in Workers
                           /\ worker[q].phase \in {"off", "starting", "Active", "Quiescing"}
    BY <1>1, OfRelease
  <1>3. ASSUME NEW q \in Release, worker'[q].queue = worker[q].queue,
               worker'[q].job = worker[q].job, worker'[q].recent = worker[q].recent
        PROVE  CopiesStay(q)
    <2>1. Held(worker'[q]) = Held(worker[q])
      BY <1>3 DEF Held
    <2> QED BY <1>3, <2>1 DEF CopiesStay
  <1>4. ASSUME NEW q \in Release, worker'[q] \in {NotRunning, Started, Open}
        PROVE  CopiesStay(q)
    <2>1. /\ Held(worker'[q]) = {} /\ worker'[q].job = None /\ worker'[q].recent = <<>>
      BY <1>4, AskedNothing, FreshWorkers
    <2> QED BY <2>1 DEF CopiesStay
  <1>5. ASSUME UNCHANGED <<inst, store>>, Main' = Main PROVE RecordsStay
    <2>1. Home(Main)' = Home(Main) /\ Home(Main) \in Release
      BY <1>1, <1>5 DEF Home, Main
    <2> QED BY <1>5, <2>1 DEF RecordsStay
  <1>6. ASSUME UNCHANGED forgotten, worker'[Main'].recent = worker[Main].recent
        PROVE  WindowStays
    BY <1>6 DEF WindowStays
  <1>7. ASSUME UNCHANGED <<Others, worker, replay, note, forgotten>>, RecordsStay
        PROVE  Carries
    <2>1. Main' = Main
      BY <1>7 DEF Main
    <2> QED BY <1>3, <1>6, <1>7, <2>1 DEF Carries, Others
  <1>8. CASE Quiesce \/ Drain
    <2>1. /\ worker'["old"].queue = worker["old"].queue /\ worker'["old"].job = worker["old"].job
          /\ worker'["old"].recent = worker["old"].recent /\ worker'["new"] = worker["new"]
          /\ worker["old"].phase # "off" /\ worker'["old"].phase # "off"
      <3>1. CASE Quiesce
        BY <1>1, <3>1 DEF Quiesce, Workers
      <3>2. CASE Drain
        BY <1>1, <3>2 DEF Drain, Workers
      <3> QED BY <1>8, <3>1, <3>2
    <2>2. UNCHANGED <<Others, replay, store, note, forgotten>>
      BY <1>8 DEF Quiesce, Drain
    <2>3. Main = "old" /\ Main' = "old"
      BY <2>1 DEF Main
    <2>4. \A q \in Release : CopiesStay(q)
      BY <1>1, <1>3, <2>1
    <2> QED BY <1>5, <1>6, <2>1, <2>2, <2>3, <2>4 DEF Carries, Others
  <1>9. CASE Export \/ BeginImport \/ ImportedRecords
    <2>1. UNCHANGED <<Others, worker, replay, note, forgotten, store>>
      BY <1>9 DEF Export, BeginImport, ImportedRecords
    <2>2. Main' = Main
      BY <2>1 DEF Main
    <2> QED BY <1>5, <1>7, <2>1, <2>2 DEF Others
  <1>10. ASSUME NEW record \in Record, ImportRecord(record) PROVE Carries
    <2> DEFINE h == Home("new")  file == [record EXCEPT !.name = "import"]
    <2>1. /\ UNCHANGED <<Others, worker, replay, note, forgotten>>
          /\ store' = [store EXCEPT ![h] = @ \cup {file}] /\ record \in snapshot.records
          /\ import.pc = "records"
      BY <1>10 DEF ImportRecord
    <2>2. file.event = record.event
      BY DEF Record
    <2> HIDE DEF file
    <2>3. record \in store["old"]
      BY <1>1, <2>1 DEF ImportingInv, CarriedInv
    <2>4. /\ \A q \in Release : store'[q] \subseteq store[q] \cup {file} /\ store[q] \subseteq store'[q]
          /\ Home(Main)' = Home(Main) /\ Home(Main) \in Release
      BY <1>1, <2>1 DEF Main, Home, Others
    <2>5. RecordsStay
      BY <1>1, <2>2, <2>3, <2>4 DEF RecordsStay
    <2> QED BY <1>7, <2>1, <2>5
  <1>11. CASE ImportEnds
    <2>1. /\ worker' = [worker EXCEPT !["new"].recent = Merge(@, snapshot.recent)]
          /\ UNCHANGED <<Others, replay, store, note>> /\ import.pc = "persist"
          /\ forgotten \subseteq forgotten' /\ import'.pc = "done"
      BY <1>11 DEF ImportEnds, NoImport
    <2>2. /\ worker'["new"].queue = worker["new"].queue /\ worker'["new"].job = worker["new"].job
          /\ worker'["old"] = worker["old"] /\ worker'["new"].phase = worker["new"].phase
      BY <1>1, <2>1 DEF Workers
    <2>3. /\ snapshot' = snapshot /\ snapshot # None /\ worker["new"].phase = "starting"
          /\ worker["old"].drained
      BY <1>1, <1>11 DEF ImportingInv, CarriedInv, ImportEnds
    <2>4. worker'["new"].recent = worker["old"].recent
      BY <2>1, <2>2, <2>3 DEF ReleasesInv, UpgradeInv, ImportingInv, CarriedInv
    <2>5. /\ worker["old"].job = None /\ worker["new"].job = None /\ worker["new"].queue = <<>>
          /\ worker["old"].phase = "Quiescing"
      BY <1>1, <2>3 DEF IdleInv, Runs
    <2>6. Main = "old" /\ Main' = "old"
      BY <2>2, <2>5 DEF Main
    <2>7. CopiesStay("old")
      BY <1>1, <1>3, <2>2
    <2>8. CopiesStay("new")
      <3>1. Held(worker'["new"]) = Held(worker["new"])
        BY <2>2 DEF Held
      <3> QED BY <2>2, <2>4, <2>5, <3>1 DEF CopiesStay
    <2>9. WindowStays
      BY <2>1, <2>2, <2>6 DEF WindowStays
    <2> QED BY <1>1, <1>5, <2>1, <2>6, <2>7, <2>8, <2>9 DEF Carries, Others
  <1>12. CASE ImportFails
    <2> DEFINE h == Home("new")
    <2>1. /\ UNCHANGED <<Others, worker, replay, note, forgotten, snapshot>>
          /\ store' = [store EXCEPT ![h] = @ \ import.created] \/ UNCHANGED store
          /\ import.pc \in {"records", "persist"}
      BY <1>12 DEF ImportFails, Undone
    <2>2. worker["old"].drained /\ snapshot # None
      BY <1>1, <2>1 DEF ImportingInv, CarriedInv
    <2>3. worker["old"].phase = "Quiescing" /\ store'["old"] = store["old"]
      BY <1>1, <2>1, <2>2 DEF IdleInv, ReleasesInv, UpgradeInv, CarriedInv
    <2>4. Home(Main) = "old" /\ Home(Main)' = "old"
      BY <2>1, <2>3 DEF Home, Main, Others
    <2>5. RecordsStay
      BY <1>1, <2>1, <2>3, <2>4 DEF RecordsStay
    <2> QED BY <1>7, <2>1, <2>5
  <1>13. CASE StartNew
    <2>1. /\ worker'["new"] = Started /\ worker'["old"] = worker["old"]
          /\ UNCHANGED <<Others, replay, store, note, forgotten>>
          /\ worker["old"].phase = "Quiescing"
      BY <1>1, <1>13 DEF StartNew
    <2>2. Main = "old" /\ Main' = "old"
      BY <2>1 DEF Main
    <2>3. \A q \in Release : CopiesStay(q)
      BY <1>1, <1>3, <1>4, <2>1
    <2> QED BY <1>5, <1>6, <2>1, <2>2, <2>3 DEF Carries, Others
  <1>14. CASE Promote
    <2>1. /\ worker'["old"] = NotRunning
          /\ worker'["new"].queue = worker["new"].queue /\ worker'["new"].job = worker["new"].job
          /\ worker'["new"].recent = worker["new"].recent
          /\ worker["new"].phase = "starting" /\ worker["old"].drained
      BY <1>1, <1>14 DEF Promote, Workers
    <2>2. /\ UNCHANGED <<Others, replay, store, note>>
          /\ import.pc \in IF inst.shared THEN {"none", "done"} ELSE {"done"}
          /\ forgotten' = IF import.pc = "done" THEN forgotten
                          ELSE forgotten \cup Lost(worker["old"].recent, worker["new"].recent)
      BY <1>14 DEF Promote
    <2>3. worker["old"].phase = "Quiescing"
      BY <1>1, <2>1 DEF IdleInv
    <2>4. Main = "old" /\ Main' = "new"
      BY <2>1, <2>3, FreshWorkers DEF Main
    <2>5. \A q \in Release : CopiesStay(q)
      BY <1>1, <1>3, <1>4, <2>1
    <2>6. WindowStays
      <3>1. CASE import.pc = "done"
        <4>1. worker["new"].recent = worker["old"].recent
          BY <1>1, <2>1, <3>1 DEF ImportingInv, CarriedInv
        <4> QED BY <2>1, <2>2, <2>4, <3>1, <4>1 DEF WindowStays
      <3>2. CASE import.pc # "done"
        BY <2>1, <2>2, <2>4, <3>2 DEF WindowStays, Lost
      <3> QED BY <3>1, <3>2
    <2>7. RecordsStay
      <3>1. Home(Main) = "old" /\ Home(Main)' = Home("new")
        BY <2>2, <2>4 DEF Home, Others
      <3>2. \A f \in store["old"] : \E g \in store[Home("new")] : g.event = f.event
        <4>1. CASE import.pc = "done"
          <5>1. \A f \in snapshot.records : \E g \in store[Home("new")] : g.event = f.event
            BY <1>1, <2>1, <4>1 DEF ImportingInv
          <5>2. snapshot.records = store["old"]
            BY <1>1, <2>1, <4>1 DEF ImportingInv, CarriedInv
          <5> QED BY <5>1, <5>2
        <4>2. CASE inst.shared
          BY <4>2 DEF Home
        <4> QED BY <2>2, <4>1, <4>2
      <3> QED BY <2>2, <3>1, <3>2 DEF RecordsStay
    <2> QED BY <2>2, <2>5, <2>6, <2>7 DEF Carries, Others
  <1>15. CASE Abort
    <2>1. /\ worker'["new"] = NotRunning
          /\ worker'["old"].queue = worker["old"].queue /\ worker'["old"].job = worker["old"].job
          /\ worker'["old"].recent = worker["old"].recent /\ worker'["old"].phase = "Active"
          /\ worker["old"].phase = "Quiescing"
      BY <1>1, <1>15 DEF Abort, Workers
    <2>2. UNCHANGED <<Others, replay, store, note, forgotten>>
      BY <1>15 DEF Abort
    <2>3. Main = "old" /\ Main' = "old"
      BY <2>1 DEF Main
    <2>4. \A q \in Release : CopiesStay(q)
      BY <1>1, <1>3, <1>4, <2>1
    <2> QED BY <1>5, <1>6, <2>1, <2>2, <2>3, <2>4 DEF Carries, Others
  <1>16. ASSUME NEW r \in Release, Crash(r) PROVE Carries
    <2>1. /\ UNCHANGED <<Others, store>> /\ worker[r].phase # "off"
          /\ \A e \in Notification : note'[e] = "ok" => note[e] = "ok"
          /\ \A q \in Release : replay'[q] \in {replay[q], NoReplay}
          /\ forgotten' = IF worker[r].phase = "starting" THEN forgotten
                          ELSE forgotten \cup ToSet(worker[r].recent)
      BY <1>1, <1>16 DEF Crash
    <2>2. \/ r = "old" /\ worker'["old"] = Open /\ worker'["new"] = NotRunning
          \/ /\ r = "new" /\ worker["old"].phase # "off"
             /\ worker'["old"] = worker["old"] /\ worker'["new"] = Started
          \/ /\ r = "new" /\ worker["old"].phase = "off"
             /\ worker'["old"] = worker["old"] /\ worker'["new"] = Open
      BY <1>1, <1>16 DEF Crash
    <2>3. \A q \in Release : CopiesStay(q)
      BY <1>1, <1>3, <1>4, <2>2
    <2>4. Main' = Main
      BY <1>1, <2>1, <2>2, FreshWorkers DEF Main
    <2>5. RecordsStay
      BY <1>5, <2>1, <2>4 DEF Others
    <2>6. WindowStays
      <3>1. CASE r = Main
        <4>1. worker[r].phase # "starting"
          BY <1>1, <2>1, <3>1 DEF Main, PhasesInv
        <4> QED BY <2>1, <3>1, <4>1 DEF WindowStays
      <3>2. CASE r # Main
        <4>1. worker'[Main'].recent = worker[Main].recent
          BY <1>1, <2>1, <2>2, <2>4, <3>2 DEF Main
        <4> QED BY <2>1, <4>1 DEF WindowStays
      <3> QED BY <3>1, <3>2
    <2> QED BY <2>1, <2>3, <2>5, <2>6 DEF Carries, Others
  <1>17. ASSUME NEW e \in Notification, NotifyLate(e) PROVE Carries
    <2>1. /\ UNCHANGED <<inst, away, deferred, handled, twice, forgotten, quarantine, host, store,
                         replay>>
          /\ \A f \in Notification : note'[f] = "ok" => note[f] = "ok"
          /\ \A q \in Release : worker'[q] = StopWaiting(worker[q], "note", e)
      BY <1>1, <1>17 DEF NotifyLate, history
    <2>2. \A q \in Release :
             /\ worker'[q].recent = worker[q].recent /\ worker'[q].phase = worker[q].phase
             /\ worker'[q].job = Still(worker[q].job, "note", e)
             /\ worker[q].job # None => worker'[q].job \in Copy
             /\ worker[q].job = None => worker'[q].job = None
      BY <1>2, <2>1, Stopped
    <2>3. \A q \in Release : \A d \in Held(worker'[q]) :
             \E c \in Held(worker[q]) : d.kind = c.kind /\ d.event = c.event
      BY <1>1, <2>1, AskedOnStop DEF ReleasesInv, AskedInv
    <2>4. \A q \in Release : worker[q].job # None =>
             worker'[q].job # None /\ worker'[q].job.event = worker[q].job.event
      BY <1>1, <2>2, OfRelease, StillCopy, Fields
    <2>5. \A q \in Release : CopiesStay(q)
      BY <2>2, <2>3, <2>4 DEF CopiesStay
    <2>6. Main' = Main /\ Main \in Release
      BY <1>1, <2>2 DEF Main
    <2> QED BY <1>5, <1>6, <2>1, <2>2, <2>5, <2>6 DEF Carries
  <1> QED BY <1>8, <1>9, <1>10, <1>11, <1>12, <1>13, <1>14, <1>15, <1>16, <1>17
          DEF UpgradeStep
-----------------------------------------------------------------------------
(* The events: where they are, and what was done with them.                *)

\* All that is said of the events, inductive with the invariant of the releases.
EventsInv == OriginInv /\ RememberedInv /\ PendingInv /\ OnceInv /\ EnqueuedInv

\* What is said of the events is so in every initial state.
LEMMA EventsInit ==
    ASSUME Init
    PROVE  EventsInv
  <1>1. ReleasesInv /\ TypeOK
    BY ReleasesInit DEF ReleasesInv
  <1>2. /\ worker = [r \in Release |-> IF r = "old" THEN Open ELSE NotRunning]
        /\ replay = [r \in Release |-> NoReplay]
    BY DEF Init
  <1>3. \A r \in Release : /\ worker[r] \in {Open, NotRunning} /\ replay[r] = NoReplay
                           /\ worker[r].job = None /\ worker[r].recent = <<>>
                           /\ Held(worker[r]) = {}
    BY <1>2, FreshWorkers, AskedNothing
  <1>4. ToSet(<<>>) = {}
    BY EmptySeq, Elements
  <1>5. \A r \in Release : \A record \in store[r] : record.event \in inst.earlier
    BY DEF Init
  <1>6. OriginInv
    BY <1>3, <1>4, <1>5, FreshWorkers DEF OriginInv, Init
  <1>7. RememberedInv
    BY <1>3, <1>4, FreshWorkers DEF RememberedInv
  <1>8. PendingInv
    <2>1. worker["old"].phase = "Active" /\ Main = "old" /\ Home(Main) = "old"
      BY <1>2, FreshWorkers DEF Main, Home, Release
    <2>2. store["old"] = [event : inst.earlier, name : {"sidecar"}, release : {"earlier"}]
      BY DEF Init, Release
    <2>3. \A e \in inst.earlier : \E record \in store["old"] : record.event = e
      <3> TAKE e \in inst.earlier
      <3> DEFINE f == [event |-> e, name |-> "sidecar", release |-> "earlier"]
      <3>1. f \in store["old"] /\ f.event = e
        BY <2>2
      <3> QED BY <3>1
    <2> QED BY <2>1, <2>3 DEF PendingInv, Init
  <1>9. OnceInv
    BY <1>3 DEF OnceInv, Init
  <1>10. EnqueuedInv
    BY <1>3, <1>4 DEF EnqueuedInv, AcknowledgedIsEnqueued, Init
  <1> QED BY <1>6, <1>7, <1>8, <1>9, <1>10 DEF EventsInv

\* The upgrade, a crash or a sender that gives up change nothing of that.
LEMMA CarriesEvents ==
    ASSUME ReleasesInv, ReleasesInv', EventsInv, Carries
    PROVE  EventsInv'
  <1>1. /\ TypeOK /\ deferred \subseteq Message /\ Release = {"old", "new"}
        /\ \A q \in Release : CopiesStay(q) /\ replay'[q] \in {replay[q], NoReplay}
    BY DEF ReleasesInv, TypeOK, Release, Carries
  <1>2. ToSet(<<>>) = {}
    BY EmptySeq, Elements
  <1>3. UNCHANGED <<inst, away, deferred, handled, twice, quarantine, host>>
    BY DEF Carries
  <1>4. \A q \in Release : /\ ToSet(worker'[q].recent) = {}
                               \/ ToSet(worker'[q].recent) = ToSet(worker[q].recent)
                               \/ ToSet(worker'[q].recent) = ToSet(worker["old"].recent)
    BY <1>1, <1>2 DEF CopiesStay
  <1>5. OriginInv'
    <2>1. \A q \in Release : \A f \in store'[q] : f.event \in deferred
      BY DEF Carries, RecordsStay, EventsInv, OriginInv
    <2>2. \A q \in Release : replay'[q].record # None => replay'[q].record.event \in deferred
      BY <1>1, FreshWorkers DEF EventsInv, OriginInv
    <2>3. \A q \in Release : \A d \in Held(worker'[q]) :
             /\ d.kind = "note" <=> d.event \in Notification
             /\ d.kind = "live" => d.event \notin away \cup deferred
             /\ d.kind = "replay" => d.event \in deferred
      BY <1>1 DEF EventsInv, OriginInv, CopiesStay
    <2>4. \A q \in Release : ToSet(worker'[q].recent) \cap away = {}
      BY <1>1, <1>4 DEF EventsInv, OriginInv
    <2> QED BY <1>3, <2>1, <2>2, <2>3, <2>4 DEF EventsInv, OriginInv
  <1>6. RememberedInv'
    <2>1. \A q \in Release : replay'[q].answer = "ok" => replay'[q].record.event \in handled
      BY <1>1, FreshWorkers DEF EventsInv, RememberedInv
    <2>2. \A q \in Release : \A e \in ToSet(worker'[q].recent) \cap deferred :
             e \in handled \/ (worker'[q].job # None /\ worker'[q].job.event = e)
      BY <1>1, <1>2 DEF EventsInv, RememberedInv, CopiesStay
    <2> QED BY <1>3, <2>1, <2>2 DEF RememberedInv
  <1>7. PendingInv'
    BY <1>3 DEF Carries, RecordsStay, EventsInv, PendingInv
  <1>8. OnceInv'
    <2>1. twice' \subseteq forgotten' /\ \A e \in handled' \ forgotten' : e \in ToSet(worker'[Main'].recent)
      BY <1>3 DEF Carries, WindowStays, EventsInv, OnceInv
    <2>2. \A q \in Release : worker'[q].job # None /\ worker'[q].job.event \in Message =>
             /\ worker'[q].job.event \in ToSet(worker'[q].recent)
             /\ worker'[q].job.event \in handled' => worker'[q].job.event \in forgotten'
      BY <1>1, <1>3 DEF Carries, WindowStays, EventsInv, OnceInv, CopiesStay
    <2> QED BY <2>1, <2>2 DEF OnceInv
  <1>9. EnqueuedInv'
    <2>1. \A q \in Release : ToSet(worker'[q].recent) \cap Notification \subseteq host
      BY <1>1, <1>4 DEF EventsInv, EnqueuedInv
    <2>2. AcknowledgedIsEnqueued'
      BY <1>3 DEF Carries, EventsInv, EnqueuedInv, AcknowledgedIsEnqueued
    <2> QED BY <1>3, <2>1, <2>2 DEF EnqueuedInv
  <1> QED BY <1>5, <1>6, <1>7, <1>8, <1>9 DEF EventsInv

\* The worker that runs is the one of the release that counts.
LEMMA RunsIsMain ==
    ASSUME ReleasesInv, NEW r \in Release, Works(r)
    PROVE  /\ Main = r /\ Main' = r /\ Home(r) \in Release /\ Home(r)' = Home(r)
           /\ Home(Main) = Home(r) /\ Home(Main)' = Home(r)
  <1>1. Main = r /\ Home(r) \in Release
    BY OfRelease DEF Main, ReleasesInv, UpgradeInv, PhasesInv, Works, Runs, Release
  <1>2. \A q \in Release : worker'[q].phase = worker[q].phase
    BY DEF Works
  <1>3. Main' = Main /\ inst' = inst
    BY <1>2 DEF Main, Works, Release
  <1> QED BY <1>1, <1>3 DEF Home

\* What a step of a sidecar does to the events.
SidecarMoves(r) ==
    /\ UNCHANGED <<handled, twice, forgotten, host, note>> /\ away' \subseteq away
    /\ \/ deferred' = deferred
       \/ \E e \in away : deferred' = deferred \cup {e} /\ e \notin away'
    /\ worker'[r].recent = worker[r].recent
    /\ \A d \in Held(worker'[r]) :
          \/ \E c \in Held(worker[r]) : d.kind = c.kind /\ d.event = c.event
          \/ d.kind = "live" /\ d.event \in away /\ d.event \notin away'
                /\ deferred' = deferred
          \/ d.kind = "replay" /\ d.event \in deferred
    /\ (worker[r].job = None <=> worker'[r].job = None)
    /\ worker[r].job # None => worker'[r].job.event = worker[r].job.event
    /\ \A q \in Release : \A f \in store'[q] : f.event \in deferred'
    /\ replay'[r].record # None => replay'[r].record.event \in deferred
    /\ replay'[r].answer = "ok" => replay'[r] = replay[r]
    /\ \A e \in deferred' \ (handled \cup quarantine') :
          \E record \in store'[Home(r)] : record.event = e

\* Every step of a sidecar moves the events in that way.
LEMMA SidecarStepMoves ==
    ASSUME ReleasesInv, EventsInv, NEW r \in Release, SidecarStep(r), Works(r), TypeOK'
    PROVE  SidecarMoves(r)
  <1> DEFINE w == worker[r]  v == worker'[r]  h == Home(r)
  <1>1. /\ TypeOK /\ OriginInv /\ RememberedInv /\ PendingInv /\ Asked(w, replay[r])
        /\ store \in [Release -> SUBSET Record] /\ replay \in [Release -> Replays]
        /\ w \in Workers /\ v \in Workers /\ h \in Release /\ away \subseteq Message
    BY OfRelease DEF ReleasesInv, AskedInv, EventsInv, TypeOK
  <1>2. /\ \A q \in Release : \A f \in store[q] : f.event \in deferred
        /\ replay[r].record # None => replay[r].record.event \in deferred
        /\ deferred \cap away = {}
        /\ \A e \in deferred \ (handled \cup quarantine) : \E f \in store[h] : f.event = e
        /\ replay[r].answer = "ok" => replay[r].record.event \in handled
    BY <1>1, RunsIsMain DEF OriginInv, RememberedInv, PendingInv
  <1>3. \A f \in store[h] : f \in Record /\ f.event \in Message
    BY <1>1, Fields
  <1> HIDE DEF h
  <1>4. ASSUME NEW e \in Message, Arrive(r, e) PROVE SidecarMoves(r)
    <2> DEFINE c == [event |-> e, kind |-> "live", waits |-> FALSE]
    <2>1. c \in Copy /\ c.event = e /\ c.kind = "live"
      BY DEF Copy, Event
    <2>2. Queued(r, c) /\ inst' = inst
      BY <1>4 DEF Arrive
    <2> HIDE DEF c
    <2>3. v.queue = Append(w.queue, c) /\ v.job = w.job /\ v.recent = w.recent
      BY <1>1, <2>1, <2>2, QueuedKeeps
    <2>4. Held(v) = Held(w) \cup {c}
      BY <1>1, <2>1, <2>3, HeldCopies
    <2>5. /\ e \in away /\ away' = away \ {e}
          /\ UNCHANGED <<deferred, handled, twice, forgotten, host, note, store, replay,
                         quarantine>>
      BY <1>4 DEF Arrive, history
    <2> QED BY <1>1, <1>2, <2>1, <2>3, <2>4, <2>5 DEF SidecarMoves, h
  <1>5. ASSUME UNCHANGED worker
        PROVE  /\ v.recent = w.recent /\ (w.job = None <=> v.job = None)
               /\ w.job # None => v.job.event = w.job.event
               /\ \A d \in Held(v) : \E c \in Held(w) : d.kind = c.kind /\ d.event = c.event
    BY <1>5
  <1>6. ASSUME NEW e \in Message, Defer(r, e) PROVE SidecarMoves(r)
    <2>1. /\ e \in away /\ away' = away \ {e} /\ Persist(r, e)
          /\ UNCHANGED <<handled, twice, forgotten, host, note, worker, replay, quarantine>>
      BY <1>6 DEF Defer
    <2>2. /\ deferred' = deferred \cup {e} /\ \E f \in store'[h] : f.event = e
          /\ \A q \in Release : q # h => store'[q] = store[q]
          /\ \A f \in store'[h] : f \in store[h] \/ f.event = e
          /\ \A f \in store[h] : f.event # e => f \in store'[h]
      BY <1>1, <2>1, Persisted DEF h
    <2>3. \A q \in Release : \A f \in store'[q] : f.event \in deferred'
      BY <1>1, <1>2, <2>2
    <2>4. \A d \in deferred' \ (handled \cup quarantine') : \E f \in store'[h] : f.event = d
      BY <1>2, <2>1, <2>2
    <2> QED BY <1>1, <1>2, <1>5, <2>1, <2>2, <2>3, <2>4 DEF SidecarMoves, h
  <1>7. ASSUME NEW record \in store[h], PutAside(r, record) PROVE SidecarMoves(r)
    <2>1. /\ UNCHANGED <<handled, twice, forgotten, host, note, worker, replay, away, deferred>>
          /\ quarantine' = quarantine \cup {record.event}
          /\ store' = [store EXCEPT ![h] = @ \ {record}]
      BY <1>7 DEF PutAside, Quarantine, history, h
    <2>2. \A q \in Release : store'[q] \subseteq store[q]
      BY <1>1, <2>1
    <2>3. \A e \in deferred \ (handled \cup quarantine') : \E f \in store'[h] : f.event = e
      BY <1>1, <1>2, <2>1
    <2> QED BY <1>1, <1>2, <1>5, <2>1, <2>2, <2>3 DEF SidecarMoves, h
  <1>8. ASSUME NEW record \in store[h], Redefer(r, record) PROVE SidecarMoves(r)
    <2> DEFINE e == record.event
    <2>1. /\ Persist(r, e) /\ e \in Message
          /\ UNCHANGED <<handled, twice, forgotten, host, note, worker, replay, quarantine, away>>
      BY <1>3, <1>8 DEF Redefer
    <2>2. e \in deferred
      BY <1>1, <1>2
    <2> HIDE DEF e
    <2>3. /\ deferred' = deferred \cup {e} /\ \E f \in store'[h] : f.event = e
          /\ \A q \in Release : q # h => store'[q] = store[q]
          /\ \A f \in store'[h] : f \in store[h] \/ f.event = e
          /\ \A f \in store[h] : f.event # e => f \in store'[h]
      BY <1>1, <2>1, Persisted DEF h
    <2>4. deferred' = deferred
      BY <2>2, <2>3
    <2>5. \A q \in Release : \A f \in store'[q] : f.event \in deferred'
      BY <1>1, <1>2, <2>3
    <2>6. \A d \in deferred' \ (handled \cup quarantine') : \E f \in store'[h] : f.event = d
      BY <1>2, <2>1, <2>3
    <2> QED BY <1>1, <1>2, <1>5, <2>1, <2>4, <2>5, <2>6 DEF SidecarMoves, h
  <1>9. ASSUME NEW record \in store[h], Replay(r, record) PROVE SidecarMoves(r)
    <2> DEFINE c == [event |-> record.event, kind |-> "replay", waits |-> TRUE]
    <2>1. c \in Copy /\ c.event = record.event /\ c.kind = "replay" /\ c.event \in deferred
      BY <1>1, <1>2, <1>3 DEF Copy, Event
    <2>2. Queued(r, c) /\ inst' = inst /\ replay[r] = NoReplay
      BY <1>9 DEF Replay
    <2> HIDE DEF c
    <2>3. v.queue = Append(w.queue, c) /\ v.job = w.job /\ v.recent = w.recent
      BY <1>1, <2>1, <2>2, QueuedKeeps
    <2>4. Held(v) = Held(w) \cup {c}
      BY <1>1, <2>1, <2>3, HeldCopies
    <2>5. UNCHANGED <<away, deferred, handled, twice, forgotten, host, note, store, quarantine>>
      BY <1>9 DEF Replay, history
    <2>6. replay'[r].record = record /\ replay'[r].answer = "none"
      <3>1. replay'[r] = [replay[r] EXCEPT !.record = record]
        BY <1>1, <1>9 DEF Replay
      <3>2. replay[r] \in Replays /\ replay[r].answer = "none"
        BY <1>1, <2>2, FreshWorkers
      <3> QED BY <3>1, <3>2 DEF Replays
    <2> QED BY <1>1, <1>2, <2>1, <2>3, <2>4, <2>5, <2>6 DEF SidecarMoves, h
  <1>10. CASE ReplayEnds(r)
    <2> DEFINE record == replay[r].record
    <2>1. /\ UNCHANGED <<handled, twice, forgotten, host, note, worker, away, deferred>>
          /\ \/ quarantine' = quarantine /\ record.event \in handled
             \/ quarantine' = quarantine \cup {record.event}
          /\ store' = [store EXCEPT ![h] = @ \ {record}] /\ replay'[r] = NoReplay
      BY <1>1, <1>2, <1>10 DEF ReplayEnds, Quarantine, history, h
    <2> HIDE DEF record
    <2>2. \A q \in Release : store'[q] \subseteq store[q]
      BY <1>1, <2>1
    <2>3. \A e \in deferred \ (handled \cup quarantine') : \E f \in store'[h] : f.event = e
      BY <1>1, <1>2, <2>1
    <2> QED BY <1>1, <1>2, <1>5, <2>1, <2>2, <2>3, FreshWorkers DEF SidecarMoves, h
  <1>11. CASE ReplayLate(r)
    <2> DEFINE e == replay[r].record.event
    <2>1. /\ Persist(r, e) /\ replay'[r] = NoReplay /\ v = StopWaiting(w, "replay", e)
          /\ UNCHANGED <<handled, twice, forgotten, host, note, quarantine, away>>
          /\ replay[r].record # None
      BY <1>1, <1>11 DEF ReplayLate, TypeOK
    <2>2. e \in deferred /\ e \in Message
      BY <1>1, <1>2, <2>1, OfRelease, Fields
    <2> HIDE DEF e
    <2>3. /\ deferred' = deferred \cup {e} /\ \E f \in store'[h] : f.event = e
          /\ \A q \in Release : q # h => store'[q] = store[q]
          /\ \A f \in store'[h] : f \in store[h] \/ f.event = e
          /\ \A f \in store[h] : f.event # e => f \in store'[h]
      BY <1>1, <2>1, <2>2, Persisted DEF h
    <2>4. deferred' = deferred
      BY <2>2, <2>3
    <2>5. \A q \in Release : \A f \in store'[q] : f.event \in deferred'
      BY <1>1, <1>2, <2>3
    <2>6. \A d \in deferred' \ (handled \cup quarantine') : \E f \in store'[h] : f.event = d
      BY <1>2, <2>1, <2>3
    <2>7. \A d \in Held(v) : \E c \in Held(w) : d.kind = c.kind /\ d.event = c.event
      BY <1>1, <2>1, AskedOnStop
    <2>8. /\ v.recent = w.recent /\ v.job = Still(w.job, "replay", e)
          /\ w.job # None => v.job \in Copy
          /\ w.job = None => v.job = None
      BY <1>1, <2>1, Stopped
    <2>9. (w.job = None <=> v.job = None) /\ (w.job # None => v.job.event = w.job.event)
      BY <1>1, <2>8, OfRelease, StillCopy, Fields
    <2> QED BY <1>1, <1>2, <2>1, <2>4, <2>5, <2>6, <2>7, <2>8, <2>9, FreshWorkers
        DEF SidecarMoves, h
  <1> QED BY <1>4, <1>6, <1>7, <1>8, <1>9, <1>10, <1>11 DEF SidecarStep, h

\* Events that are moved in that way stay accounted for.
LEMMA SidecarStepEvents ==
    ASSUME ReleasesInv, ReleasesInv', EventsInv, NEW r \in Release, Works(r), SidecarMoves(r)
    PROVE  EventsInv'
  <1>1. /\ \A q \in Release : q # r => worker'[q] = worker[q] /\ replay'[q] = replay[q]
        /\ \A q \in Release : worker'[q].recent = worker[q].recent
        /\ deferred \cap away = {} /\ deferred \subseteq deferred' /\ away' \subseteq away
        /\ deferred' \cap away' = {} /\ deferred' \subseteq deferred \cup away
        /\ deferred \subseteq Message /\ away \subseteq Message /\ Message \cap Notification = {}
    BY Fields DEF Works, SidecarMoves, EventsInv, OriginInv, ReleasesInv, TypeOK
  <1>2. UNCHANGED <<handled, twice, forgotten, host, note>>
    BY DEF SidecarMoves
  <1>3. \A q \in Release : \A d \in Held(worker'[q]) :
           /\ d.kind = "note" <=> d.event \in Notification
           /\ d.kind = "live" => d.event \notin away' \cup deferred'
           /\ d.kind = "replay" => d.event \in deferred'
    <2>1. \A q \in Release : \A d \in Held(worker[q]) :
             /\ d.kind = "note" <=> d.event \in Notification
             /\ d.kind = "live" => d.event \notin away' \cup deferred'
             /\ d.kind = "replay" => d.event \in deferred'
      BY <1>1 DEF EventsInv, OriginInv
    <2>2. ASSUME NEW d \in Held(worker'[r])
          PROVE  /\ d.kind = "note" <=> d.event \in Notification
                 /\ d.kind = "live" => d.event \notin away' \cup deferred'
                 /\ d.kind = "replay" => d.event \in deferred'
      <3>1. CASE \E c \in Held(worker[r]) : d.kind = c.kind /\ d.event = c.event
        BY <2>1, <3>1
      <3>2. CASE /\ d.kind = "live" /\ d.event \in away /\ d.event \notin away'
                 /\ deferred' = deferred
        BY <1>1, <3>2
      <3>3. CASE d.kind = "replay" /\ d.event \in deferred
        BY <1>1, <3>3
      <3> QED BY <3>1, <3>2, <3>3 DEF SidecarMoves
    <2> QED BY <1>1, <2>1, <2>2
  <1>4. OriginInv'
    <2>1. \A q \in Release : replay'[q].record # None => replay'[q].record.event \in deferred'
      BY <1>1 DEF SidecarMoves, EventsInv, OriginInv
    <2>2. \A q \in Release : ToSet(worker'[q].recent) \cap away' = {}
      BY <1>1 DEF EventsInv, OriginInv
    <2> QED BY <1>1, <1>3, <2>1, <2>2 DEF SidecarMoves, OriginInv
  <1>5. \A q \in Release : /\ (worker[q].job = None <=> worker'[q].job = None)
                           /\ worker[q].job # None => worker'[q].job.event = worker[q].job.event
    BY <1>1 DEF SidecarMoves
  <1>6. RememberedInv'
    <2>1. \A q \in Release : \A e \in ToSet(worker'[q].recent) \cap deferred' : e \in deferred
      BY <1>1 DEF EventsInv, OriginInv
    <2>2. \A q \in Release : \A e \in ToSet(worker'[q].recent) \cap deferred' :
             e \in handled \/ (worker'[q].job # None /\ worker'[q].job.event = e)
      <3> TAKE q \in Release
      <3> TAKE e \in ToSet(worker'[q].recent) \cap deferred'
      <3>1. e \in ToSet(worker[q].recent) \cap deferred
        BY <1>1, <2>1
      <3>2. e \in handled \/ (worker[q].job # None /\ worker[q].job.event = e)
        BY <3>1 DEF EventsInv, RememberedInv
      <3> QED BY <1>5, <3>2
    <2>3. \A q \in Release : replay'[q].answer = "ok" => replay'[q].record.event \in handled
      BY <1>1 DEF SidecarMoves, EventsInv, RememberedInv
    <2> QED BY <1>2, <2>2, <2>3 DEF RememberedInv
  <1>7. PendingInv'
    BY <1>2, RunsIsMain DEF SidecarMoves, PendingInv
  <1>8. OnceInv'
    <2>1. \A e \in handled' \ forgotten' : e \in ToSet(worker'[Main'].recent)
      BY <1>1, <1>2, RunsIsMain DEF EventsInv, OnceInv
    <2>2. \A q \in Release : worker'[q].job # None /\ worker'[q].job.event \in Message =>
             /\ worker'[q].job.event \in ToSet(worker'[q].recent)
             /\ worker'[q].job.event \in handled => worker'[q].job.event \in forgotten
      <3> TAKE q \in Release
      <3> HAVE worker'[q].job # None /\ worker'[q].job.event \in Message
      <3>1. worker[q].job # None /\ worker'[q].job.event = worker[q].job.event
        BY <1>5
      <3> QED BY <1>1, <3>1 DEF EventsInv, OnceInv
    <2> QED BY <1>2, <2>1, <2>2 DEF EventsInv, OnceInv
  <1>9. EnqueuedInv'
    BY <1>1, <1>2 DEF EventsInv, EnqueuedInv, AcknowledgedIsEnqueued
  <1> QED BY <1>4, <1>6, <1>7, <1>8, <1>9 DEF EventsInv

\* The steps of a worker and of its senders move no record.
LEMMA WorkerStepEvents ==
    ASSUME ReleasesInv, ReleasesInv', EventsInv, NEW r \in Release, Works(r),
           WorkerStep(r) \/ \E e \in Notification : Notify(r, e)
    PROVE  EventsInv'
  <1> DEFINE w == worker[r]  v == worker'[r]  p == replay[r]  s == replay'[r]
  <1>1. /\ TypeOK /\ TypeOK' /\ OriginInv /\ RememberedInv /\ PendingInv /\ OnceInv
        /\ EnqueuedInv /\ Asked(w, p) /\ w \in Workers /\ v \in Workers
        /\ p \in Replays /\ s \in Replays /\ Main = r /\ Main' = r
        /\ deferred \subseteq Message /\ away \subseteq Message
        /\ Message \cap Notification = {} /\ Event = Message \cup Notification
        /\ note \in [Notification -> {"away", "waiting", "ok", "failed"}]
    BY RunsIsMain, Fields DEF ReleasesInv, AskedInv, EventsInv, TypeOK
  <1>2. \A q \in Release : q # r => worker'[q] = worker[q] /\ replay'[q] = replay[q]
    BY DEF Works
  <1>3. UNCHANGED <<inst, store, deferred, away, quarantine>>
    BY DEF WorkerStep, Begin, FinishMessage, Enqueued, NotEnqueued, Notify, history
  <1>4. \A c \in Held(w) : /\ c \in Copy /\ c.event \notin away
                           /\ c.kind = "note" <=> c.event \in Notification
                           /\ c.kind = "live" => c.event \notin away \cup deferred
                           /\ c.kind = "replay" => c.event \in deferred
                           /\ c.kind \in {"live", "replay", "note"}
    BY <1>1, HeldCopies, Fields DEF OriginInv
  <1>5. /\ \A e \in ToSet(w.recent) \cap deferred :
              e \in handled \/ (w.job # None /\ w.job.event = e)
        /\ p.answer = "ok" => p.record.event \in handled
        /\ twice \subseteq forgotten /\ \A e \in handled \ forgotten : e \in ToSet(w.recent)
        /\ w.job # None /\ w.job.event \in Message =>
              /\ w.job.event \in ToSet(w.recent)
              /\ w.job.event \in handled => w.job.event \in forgotten
        /\ ToSet(w.recent) \cap Notification \subseteq host /\ ToSet(w.recent) \cap away = {}
    BY <1>1 DEF RememberedInv, OnceInv, EnqueuedInv, OriginInv
  \* The invariants, from what they say of the worker that moved.
  <1>6. ASSUME \A d \in Held(v) : d \in Held(w) \/ (d.kind = "note" /\ d.event \in Notification),
               s.record = p.record, ToSet(v.recent) \cap away = {}
        PROVE  OriginInv'
    <2>1. \A d \in Held(v) : /\ d.kind = "note" <=> d.event \in Notification
                             /\ d.kind = "live" => d.event \notin away \cup deferred
                             /\ d.kind = "replay" => d.event \in deferred
      BY <1>4, <1>6
    <2> QED BY <1>1, <1>2, <1>3, <1>6, <2>1 DEF OriginInv
  <1>7. ASSUME handled \subseteq handled',
               \A e \in ToSet(v.recent) \cap deferred :
                  e \in handled' \/ (v.job # None /\ v.job.event = e),
               s.answer = "ok" => s.record.event \in handled'
        PROVE  RememberedInv' /\ PendingInv'
    <2>1. RememberedInv'
      <3> SUFFICES ASSUME NEW q \in Release
                   PROVE  /\ \A e \in ToSet(worker'[q].recent) \cap deferred :
                                e \in handled' \/ (worker'[q].job # None /\ worker'[q].job.event = e)
                          /\ replay'[q].answer = "ok" => replay'[q].record.event \in handled'
        BY <1>3 DEF RememberedInv
      <3>1. CASE q = r
        BY <1>7, <3>1
      <3>2. CASE q # r
        <4>1. /\ \A e \in ToSet(worker[q].recent) \cap deferred :
                    e \in handled \/ (worker[q].job # None /\ worker[q].job.event = e)
              /\ replay[q].answer = "ok" => replay[q].record.event \in handled
          BY <1>1 DEF RememberedInv
        <4> QED BY <1>2, <1>7, <3>2, <4>1
      <3> QED BY <3>1, <3>2
    <2>2. Home(Main)' = Home(Main)
      BY <1>1, <1>3 DEF Home
    <2>3. PendingInv'
      BY <1>1, <1>3, <1>7, <2>2 DEF PendingInv
    <2> QED BY <2>1, <2>3
  <1>8. ASSUME twice' \subseteq forgotten', handled' = handled, forgotten \subseteq forgotten',
               \A e \in handled' \ forgotten' : e \in ToSet(v.recent),
               v.job # None /\ v.job.event \in Message =>
                  /\ v.job.event \in ToSet(v.recent)
                  /\ v.job.event \in handled => v.job.event \in forgotten'
        PROVE  OnceInv'
    <2> SUFFICES ASSUME NEW q \in Release, worker'[q].job # None, worker'[q].job.event \in Message
                 PROVE  /\ worker'[q].job.event \in ToSet(worker'[q].recent)
                        /\ worker'[q].job.event \in handled' => worker'[q].job.event \in forgotten'
      BY <1>1, <1>8 DEF OnceInv
    <2>1. CASE q = r
      BY <1>8, <2>1
    <2>2. CASE q # r
      BY <1>1, <1>2, <1>8, <2>2 DEF OnceInv
    <2> QED BY <2>1, <2>2
  <1>9. ASSUME host \subseteq host', ToSet(v.recent) \cap Notification \subseteq host',
               \A e \in Notification : note'[e] = "ok" /\ note[e] # "ok" => e \in host'
        PROVE  EnqueuedInv'
    BY <1>1, <1>2, <1>9 DEF EnqueuedInv, AcknowledgedIsEnqueued
  <1>10. CASE Begin(r)
    <2> DEFINE c == Head(w.queue)
    <2>1. /\ w.queue # <<>> /\ c \in Copy /\ w.job = None /\ v.queue = Tail(w.queue)
          /\ UNCHANGED <<handled, twice, host>>
          /\ \/ /\ c.event \in ToSet(w.recent) /\ v.job = None
                /\ v.recent = w.recent
                /\ Answer(r, c, "ok") /\ UNCHANGED forgotten
             \/ /\ c.event \notin ToSet(w.recent) /\ v.job = c
                /\ ToSet(v.recent) \subseteq ToSet(w.recent) \cup ({c.event} \cap Message)
                /\ c.event \in Message => c.event \in ToSet(v.recent)
                /\ forgotten' = forgotten \cup Lost(w.recent, v.recent)
                /\ UNCHANGED <<replay, note>>
      BY <1>1, <1>10, BeginTakes DEF Begin
    <2>2. c \in Held(w) /\ Held(v) \subseteq Held(w)
      BY <1>1, <2>1, HeldCopies
    <2> HIDE DEF c
    <2>3. CASE c.event \in ToSet(w.recent) /\ v.job = None /\ v.recent = w.recent
               /\ Answer(r, c, "ok") /\ UNCHANGED forgotten
      <3>1. /\ s.record = p.record /\ s.answer = IF Asks(c) THEN "ok" ELSE p.answer
            /\ \A e \in Notification : note'[e] = "ok" /\ note[e] # "ok" => e = c.event
        BY <1>1, <2>1, <2>3, Answered DEF Asks
      <3>2. s.answer = "ok" => s.record.event \in handled
        <4>1. CASE Asks(c)
          <5>1. p.record.event = c.event /\ c.event \in deferred
            BY <1>1, <1>4, <2>2, <4>1 DEF Asked, Asks
          <5> QED BY <1>5, <2>1, <2>3, <3>1, <5>1
        <4>2. CASE ~Asks(c)
          BY <1>5, <3>1, <4>2
        <4> QED BY <4>1, <4>2
      <3>3. OriginInv'
        BY <1>5, <1>6, <2>2, <2>3, <3>1
      <3>4. RememberedInv' /\ PendingInv'
        BY <1>5, <1>7, <2>1, <2>3, <3>2
      <3>5. OnceInv'
        BY <1>5, <1>8, <2>1, <2>3
      <3>6. EnqueuedInv'
        BY <1>5, <1>9, <2>1, <2>3, <3>1
      <3> QED BY <3>3, <3>4, <3>5, <3>6 DEF EventsInv
    <2>4. CASE /\ c.event \notin ToSet(w.recent) /\ v.job = c
               /\ ToSet(v.recent) \subseteq ToSet(w.recent) \cup ({c.event} \cap Message)
               /\ c.event \in Message => c.event \in ToSet(v.recent)
               /\ forgotten' = forgotten \cup Lost(w.recent, v.recent)
               /\ UNCHANGED <<replay, note>>
      <3>1. OriginInv'
        BY <1>4, <1>5, <1>6, <2>2, <2>4
      <3>2. \A e \in ToSet(v.recent) \cap deferred :
               e \in handled \/ (v.job # None /\ v.job.event = e)
        BY <1>5, <2>1, <2>4, Fields
      <3>3. RememberedInv' /\ PendingInv'
        BY <1>5, <1>7, <2>1, <2>4, <3>2
      <3>4. OnceInv'
        <4>1. twice' \subseteq forgotten' /\ forgotten \subseteq forgotten'
          BY <1>5, <2>1, <2>4
        <4>2. \A e \in handled' \ forgotten' : e \in ToSet(v.recent)
          BY <1>5, <2>1, <2>4 DEF Lost
        <4>3. c.event \in handled => c.event \in forgotten
          BY <1>5, <2>4
        <4> QED BY <1>8, <2>1, <2>4, <4>1, <4>2, <4>3
      <3>5. EnqueuedInv'
        BY <1>1, <1>5, <1>9, <2>1, <2>4
      <3> QED BY <3>1, <3>3, <3>4, <3>5 DEF EventsInv
    <2> QED BY <2>1, <2>3, <2>4
  <1>11. CASE FinishMessage(r)
    <2> DEFINE c == w.job
    <2>1. /\ c \in Copy /\ c.event \in Message /\ v.job = None /\ v.queue = w.queue
          /\ UNCHANGED <<forgotten, host>>
          /\ \E result \in {"ok", "failed"} :
                /\ Answer(r, c, result)
                /\ IF result = "failed" /\ c.kind = "replay"
                   THEN ToSet(v.recent) = ToSet(w.recent) \ {c.event} ELSE v.recent = w.recent
                /\ IF result = "ok"
                   THEN /\ handled' = handled \cup {c.event}
                        /\ twice' = IF c.event \in handled THEN twice \cup {c.event} ELSE twice
                   ELSE handled' = handled /\ twice' = twice
      BY <1>1, <1>11, FinishTakes DEF FinishMessage
    <2>2. c # None /\ c \in Held(w) /\ Held(v) \subseteq Held(w)
      BY <1>1, <2>1, HeldCopies, Fields
    <2>3. PICK result \in {"ok", "failed"} :
             /\ Answer(r, c, result)
             /\ IF result = "failed" /\ c.kind = "replay"
                THEN ToSet(v.recent) = ToSet(w.recent) \ {c.event} ELSE v.recent = w.recent
             /\ IF result = "ok"
                THEN /\ handled' = handled \cup {c.event}
                     /\ twice' = IF c.event \in handled THEN twice \cup {c.event} ELSE twice
                ELSE handled' = handled /\ twice' = twice
      BY <2>1
    <2>4. /\ s.record = p.record /\ s.answer = IF Asks(c) THEN result ELSE p.answer
          /\ \A e \in Notification : note'[e] = "ok" /\ note[e] # "ok" => e = c.event
      BY <1>1, <2>1, <2>3, Answered DEF Asks
    <2>5. Asks(c) => p.record.event = c.event
      BY <1>1, <2>2 DEF Asked
    <2>6. /\ w.job # None /\ c.event \in ToSet(w.recent)
          /\ c.event \in handled => c.event \in forgotten
      BY <1>5, <2>1, <2>2
    <2>7. c.kind # "replay" => c.event \notin deferred
      BY <1>1, <1>4, <2>1, <2>2
    <2>8. \A e \in ToSet(w.recent) \cap deferred : e \in handled \/ c.event = e
      BY <1>5
    <2> HIDE DEF c
    <2>9. ToSet(v.recent) \subseteq ToSet(w.recent) /\ handled \subseteq handled'
      BY <2>3
    <2>10. OriginInv'
      BY <1>5, <1>6, <2>2, <2>4, <2>9
    <2>11. RememberedInv' /\ PendingInv'
      <3>1. \A e \in ToSet(v.recent) \cap deferred : e \in handled'
        BY <2>3, <2>7, <2>8, <2>9
      <3>2. s.answer = "ok" => s.record.event \in handled'
        BY <1>5, <2>3, <2>4, <2>5, <2>9
      <3> QED BY <1>7, <2>9, <3>1, <3>2
    <2>12. OnceInv'
      <3>1. twice' \subseteq forgotten'
        BY <1>5, <2>1, <2>3, <2>6
      <3>2. \A e \in handled' \ forgotten' : e \in ToSet(v.recent)
        BY <1>5, <2>1, <2>3, <2>6
      <3>3. \A q \in Release : q # r /\ worker[q].job # None => FALSE
        <4>1. \A q \in Release : worker[q].job # None => Runs(q) /\ ~worker[q].drained
          BY StillWorks
        <4> QED BY <1>1, <4>1, OneRuns
      <3>4. \A q \in Release : worker'[q].job = None
        BY <1>2, <2>1, <3>3
      <3> QED BY <1>1, <3>1, <3>2, <3>4 DEF OnceInv
    <2>13. EnqueuedInv'
      BY <1>1, <1>5, <1>9, <2>1, <2>4, <2>9
    <2> QED BY <2>10, <2>11, <2>12, <2>13 DEF EventsInv
  <1>12. CASE Enqueued(r) \/ NotEnqueued(r)
    <2> DEFINE c == w.job
    <2>1. /\ c \in Copy /\ c.event \in Notification /\ v.job = None /\ v.queue = w.queue
          /\ UNCHANGED <<handled, twice>> /\ host \subseteq host'
          /\ ToSet(v.recent) \subseteq ToSet(w.recent) \cup {c.event}
          /\ forgotten \subseteq forgotten'
          /\ \A e \in ToSet(w.recent) : e \in forgotten' \/ e \in ToSet(v.recent)
          /\ \/ Answer(r, c, "ok") /\ c.event \in host'
             \/ Answer(r, c, "failed") /\ v.recent = w.recent
      <3>1. CASE Enqueued(r)
        BY <1>1, <3>1, EnqueuedTakes DEF Enqueued, Lost
      <3>2. CASE NotEnqueued(r)
        BY <1>1, <3>2, NotEnqueuedTakes DEF NotEnqueued, history
      <3> QED BY <1>12, <3>1, <3>2
    <2>2. c # None /\ c \in Held(w) /\ Held(v) \subseteq Held(w)
      BY <1>1, <2>1, HeldCopies, Fields
    <2>3. ~Asks(c)
      BY <1>1, <1>4, <2>1, <2>2 DEF Asks
    <2>4. s.record = p.record /\ s.answer = p.answer
      BY <1>1, <2>1, <2>3, Answered DEF Asks
    <2>5. \A e \in Notification : note'[e] = "ok" /\ note[e] # "ok" => e \in host'
      BY <1>1, <2>1, Answered
    <2>6. \A e \in ToSet(w.recent) \cap deferred : e \in handled
      BY <1>1, <1>5, <2>1
    <2> HIDE DEF c
    <2>7. OriginInv'
      BY <1>1, <1>5, <1>6, <2>1, <2>2, <2>4
    <2>8. RememberedInv' /\ PendingInv'
      <3>1. \A e \in ToSet(v.recent) \cap deferred : e \in handled
        BY <1>1, <2>1, <2>6
      <3> QED BY <1>5, <1>7, <2>1, <2>4, <3>1
    <2>9. OnceInv'
      BY <1>5, <1>8, <2>1
    <2>10. EnqueuedInv'
      BY <1>5, <1>9, <2>1, <2>5
    <2> QED BY <2>7, <2>8, <2>9, <2>10 DEF EventsInv
  <1>13. ASSUME NEW e \in Notification, Notify(r, e) PROVE EventsInv'
    <2> DEFINE c == [event |-> e, kind |-> "note", waits |-> TRUE]
    <2>1. c \in Copy /\ c.kind = "note" /\ c.event = e
      BY DEF Copy, Event
    <2>2. /\ Queued(r, c) /\ inst' = inst /\ note' = [note EXCEPT ![e] = "waiting"]
          /\ UNCHANGED <<replay, host, handled, twice, forgotten>>
      BY <1>13 DEF Notify, history
    <2> HIDE DEF c
    <2>3. v.queue = Append(w.queue, c) /\ v.job = w.job /\ v.recent = w.recent
      BY <1>1, <2>1, <2>2, QueuedKeeps
    <2>4. Held(v) = Held(w) \cup {c}
      BY <1>1, <2>1, <2>3, HeldCopies
    <2>5. \A f \in Notification : note'[f] = "ok" => note[f] = "ok"
      BY <1>1, <2>2
    <2>6. OriginInv'
      BY <1>5, <1>6, <2>1, <2>2, <2>3, <2>4
    <2>7. RememberedInv' /\ PendingInv'
      BY <1>5, <1>7, <2>2, <2>3
    <2>8. OnceInv'
      BY <1>5, <1>8, <2>2, <2>3
    <2>9. EnqueuedInv'
      BY <1>5, <1>9, <2>2, <2>3, <2>5
    <2> QED BY <2>6, <2>7, <2>8, <2>9 DEF EventsInv
  <1> QED BY <1>10, <1>11, <1>12, <1>13 DEF WorkerStep

\* Every step keeps what is said of the events.
LEMMA EventsStep ==
    ASSUME ReleasesInv, ReleasesInv', EventsInv, [Next]_vars
    PROVE  EventsInv'
  <1>1. ASSUME NEW r \in Release, SidecarStep(r) PROVE EventsInv'
    <2>1. Works(r) /\ TypeOK'
      BY <1>1, SidecarStepReleases
    <2> QED BY <1>1, <2>1, SidecarStepMoves, SidecarStepEvents
  <1>2. ASSUME NEW r \in Release, WorkerStep(r) \/ \E e \in Notification : Notify(r, e)
        PROVE  EventsInv'
    BY <1>2, WorkerStepReleases, WorkerStepEvents
  <1>3. ASSUME UpgradeStep \/ (\E r \in Release : Crash(r))
                 \/ \E e \in Notification : NotifyLate(e)
        PROVE  EventsInv'
    BY <1>3, UpgradeCarries, CarriesEvents
  <1>4. CASE UNCHANGED vars
    BY <1>4 DEF vars, upgradeVars, history, EventsInv, OriginInv, RememberedInv, PendingInv,
                OnceInv, EnqueuedInv, AcknowledgedIsEnqueued, Main, Home
  <1> QED BY <1>1, <1>2, <1>3, <1>4 DEF Next

\* What is said of the events holds in every state.
THEOREM EventsAlways == Spec => [](ReleasesInv /\ EventsInv)
  <1>1. Init => ReleasesInv /\ EventsInv
    BY ReleasesInit, EventsInit
  <1>2. ReleasesInv /\ EventsInv /\ [Next]_vars => (ReleasesInv /\ EventsInv)'
    BY ReleasesStep, EventsStep
  <1> QED BY <1>1, <1>2, PTL DEF Spec

\* A deferred message is not lost, however an upgrade goes.
THEOREM DeferredAlways == Spec => []DeferredSurvives
  <1>1. ReleasesInv /\ EventsInv => DeferredSurvives
    <2> SUFFICES ASSUME ReleasesInv, EventsInv, NEW e \in deferred \ (handled \cup quarantine)
                 PROVE  \E r \in Release : /\ worker[r].phase # "off"
                                           /\ \E record \in store[Home(r)] : record.event = e
      BY DEF DeferredSurvives
    <2>1. Main \in Release /\ worker[Main].phase # "off"
      BY DEF ReleasesInv, UpgradeInv, PhasesInv, Main, Release
    <2>2. \E record \in store[Home(Main)] : record.event = e
      BY DEF EventsInv, PendingInv
    <2> QED BY <2>1, <2>2
  <1> QED BY <1>1, EventsAlways, PTL

\* A message is processed twice only when its id had left the window.
THEOREM OnceAlways == Spec => []ProcessedOnce
  <1>1. EventsInv => ProcessedOnce
    BY DEF EventsInv, OnceInv, ProcessedOnce
  <1> QED BY <1>1, EventsAlways, PTL

\* What a sender is told it sent is with the host.
THEOREM AcknowledgedAlways == Spec => []AcknowledgementInv
  <1>1. ReleasesInv /\ EventsInv => AcknowledgementInv
    BY DEF ReleasesInv, EventsInv, EnqueuedInv, AcknowledgementInv
  <1> QED BY <1>1, EventsAlways, PTL

\* Where an import is whole: what ImportIsWhole says of one step.
Whole ==
    import.pc \in {"records", "persist"} =>
      /\ import'.pc = "done" =>
           /\ \A record \in snapshot.records :
                 \E kept \in store'[Home("new")] : kept.event = record.event
           /\ \/ Len(snapshot.recent) + Len(worker["new"].recent) > inst.window
              \/ ToSet(snapshot.recent) \subseteq ToSet(worker'["new"].recent)
      /\ (ImportFails /\ "remove" \notin inst.faults) =>
           /\ store'[Home("new")] = import.before
           /\ worker'["new"].recent = worker["new"].recent

\* The step that ends an import leaves a record of each event and the window.
LEMMA EndIsWhole ==
    ASSUME ReleasesInv, ImportEnds
    PROVE  /\ \A record \in snapshot.records :
                 \E kept \in store'[Home("new")] : kept.event = record.event
           /\ ToSet(snapshot.recent) \subseteq ToSet(worker'["new"].recent)
  <1>1. /\ TypeOK /\ CarriedInv /\ ImportingInv /\ "old" \in Release /\ "new" \in Release
        /\ worker \in [Release -> Workers] /\ worker["new"] \in Workers
    BY OfRelease DEF ReleasesInv, UpgradeInv, Release, TypeOK
  <1>2. /\ import.pc = "persist" /\ UNCHANGED store
        /\ worker' = [worker EXCEPT !["new"].recent = Merge(@, snapshot.recent)]
    BY DEF ImportEnds, Others
  <1>3. /\ worker["new"].phase = "starting" /\ snapshot # None
        /\ import.known = {record.event : record \in store[Home("new")]}
        /\ {record.event : record \in snapshot.records} \subseteq import.known
    BY <1>1, <1>2 DEF ImportingInv
  <1>4. /\ snapshot.recent = worker["old"].recent /\ Window(snapshot.recent)
        /\ worker["new"].recent \in {<<>>, snapshot.recent}
    BY <1>1, <1>3, OfRelease DEF CarriedInv
  <1>5. Merge(worker["new"].recent, snapshot.recent) = snapshot.recent
    BY <1>1, <1>4, MergeTakesOver
  <1>6. worker'["new"].recent = snapshot.recent
    BY <1>1, <1>2, <1>5 DEF Workers
  <1> QED BY <1>2, <1>3, <1>6

\* A step that fails, or takes nothing over, is whole as well.
LEMMA WholeStep ==
    ASSUME ReleasesInv, [Next]_vars
    PROVE  Whole
  <1> SUFFICES ASSUME import.pc \in {"records", "persist"}
               PROVE  /\ import'.pc = "done" =>
                           /\ \A record \in snapshot.records :
                                 \E kept \in store'[Home("new")] : kept.event = record.event
                           /\ ToSet(snapshot.recent) \subseteq ToSet(worker'["new"].recent)
                      /\ (ImportFails /\ "remove" \notin inst.faults) =>
                           /\ store'[Home("new")] = import.before
                           /\ worker'["new"].recent = worker["new"].recent
    BY DEF Whole
  <1>1. ASSUME import'.pc = "done" PROVE ImportEnds
    <2>1. NoImport.pc = "none" /\ import \in Imports
      BY FreshWorkers DEF ReleasesInv, TypeOK
    <2>2. ASSUME UNCHANGED import PROVE FALSE
      BY <1>1, <2>2
    <2>3. ASSUME NEW r \in Release, SidecarStep(r) PROVE UNCHANGED import
      BY <2>3 DEF SidecarStep, Arrive, Defer, PutAside, Redefer, Replay, ReplayEnds,
                  ReplayLate, upgradeVars
    <2>4. ASSUME NEW r \in Release, WorkerStep(r) PROVE UNCHANGED import
      BY <2>4 DEF WorkerStep, Begin, FinishMessage, Enqueued, NotEnqueued, upgradeVars
    <2>5. ASSUME NEW r \in Release, Crash(r) PROVE FALSE
      BY <1>1, <2>1, <2>5 DEF Crash
    <2>6. ASSUME (\E r \in Release, e \in Notification : Notify(r, e))
                    \/ \E e \in Notification : NotifyLate(e)
          PROVE  UNCHANGED import
      BY <2>6 DEF Notify, NotifyLate, upgradeVars
    <2>7. ASSUME UpgradeStep PROVE ImportEnds
      <3>1. ASSUME NEW record \in Record, ImportRecord(record) PROVE import'.pc = "records"
        BY <2>1, <3>1 DEF ImportRecord, Imports
      <3>2. ASSUME ImportedRecords PROVE import'.pc = "persist"
        BY <2>1, <3>2 DEF ImportedRecords, Imports
      <3>3. ASSUME BeginImport \/ ImportFails \/ Abort PROVE import'.pc # "done"
        BY <2>1, <3>3 DEF BeginImport, ImportFails, Abort
      <3>4. ASSUME Quiesce \/ Drain \/ Export \/ StartNew \/ Promote PROVE UNCHANGED import
        BY <3>4 DEF Quiesce, Drain, Export, StartNew, Promote, upgradeVars
      <3> QED BY <1>1, <2>2, <2>7, <3>1, <3>2, <3>3, <3>4 DEF UpgradeStep
    <2>8. ASSUME UNCHANGED vars PROVE UNCHANGED import
      BY <2>8 DEF vars
    <2> QED BY <2>2, <2>3, <2>4, <2>5, <2>6, <2>7, <2>8 DEF Next
  <1>2. ASSUME ImportFails, "remove" \notin inst.faults
        PROVE  /\ store'[Home("new")] = import.before
               /\ worker'["new"].recent = worker["new"].recent
    <2>1. /\ Home("new") \in Release /\ store \in [Release -> SUBSET Record]
          /\ store[Home("new")] = import.before \cup import.created
          /\ import.before \cap import.created = {}
      BY OfRelease DEF ReleasesInv, UpgradeInv, ImportingInv, TypeOK, Release
    <2>2. /\ store' = [store EXCEPT ![Home("new")] = @ \ import.created]
          /\ UNCHANGED worker
      BY <1>2 DEF ImportFails, Others, Undone
    <2> QED BY <2>1, <2>2
  <1> QED BY <1>1, <1>2, EndIsWhole

\* An import takes over every record and the whole window, or undoes what it wrote.
THEOREM ImportWholeAlways == Spec => ImportIsWhole
  <1>1. ReleasesInv /\ [Next]_vars => [Whole]_vars
    BY WholeStep
  <1>2. Whole <=> (import.pc \in {"records", "persist"} =>
         /\ import'.pc = "done" =>
              /\ \A record \in snapshot.records :
                    \E kept \in store'[Home("new")] : kept.event = record.event
              /\ \/ Len(snapshot.recent) + Len(worker["new"].recent) > inst.window
                 \/ ToSet(snapshot.recent) \subseteq ToSet(worker'["new"].recent)
         /\ (ImportFails /\ "remove" \notin inst.faults) =>
              /\ store'[Home("new")] = import.before
              /\ worker'["new"].recent = worker["new"].recent)
    BY DEF Whole
  <1> QED BY <1>1, <1>2, ReleasesAlways, PTL DEF Spec, ImportIsWhole
=============================================================================
