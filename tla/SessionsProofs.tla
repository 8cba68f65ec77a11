---------------------------- MODULE SessionsProofs ----------------------------
(***************************************************************************)
(* Proofs about Sessions, for any number of sessions, threads, turns and   *)
(* approvals, and any faults a plan allows.                                *)
(***************************************************************************)
EXTENDS Sessions, FiniteSetTheorems, SequenceTheorems, TLAPS

-----------------------------------------------------------------------------
(* The table and its indexes, as values.                                   *)

RoutedIn(st) == {s \in DOMAIN st.table : Routed(st.table[s])}
IndexedIn(st) == {s \in DOMAIN st.table : Indexed(st.table[s])}

Map(f) == f = [x \in DOMAIN f |-> f[x]]
\* A record, as the handlers write one: the state is Archived only with the mark.
Proper == {r \in Records : r.state = "Archived" => r.archived}

Gives(f, k, v) == f[k] = v
Agree(f, g, S) == \A x \in S : f[x] = g[x]

\* A worker's state has its four parts, each a set or a function.
Whole(st) == st = [table |-> st.table, rooms |-> st.rooms, threads |-> st.threads,
                   pending |-> st.pending]
Shaped(st) ==
    /\ Map(st.table)
    /\ Map(st.threads)
    /\ IsFiniteSet(DOMAIN st.table)
    /\ \A s \in DOMAIN st.table : st.table[s] \in Proper

\* No two sessions have one thread.
Distinct(st) ==
    \A s, u \in DOMAIN st.table : st.table[s].thread = st.table[u].thread => s = u

Indexes(st) ==
    /\ st.rooms = RoutedIn(st)
    /\ DOMAIN st.threads = {st.table[s].thread : s \in IndexedIn(st)}
    /\ \A s \in IndexedIn(st) : st.threads[st.table[s].thread] = s

Tables(st) == Whole(st) /\ Shaped(st) /\ Distinct(st) /\ Indexes(st)

\* What Put makes of a table.
LEMMA PutIs ==
    ASSUME NEW f, NEW k, NEW v, NEW new, new = Put(f, k, v)
    PROVE  /\ DOMAIN new = DOMAIN f \cup {k} /\ Gives(new, k, v)
           /\ Agree(new, f, DOMAIN f \ {k})
           /\ Map(new)
  BY DEF Put, Map, Agree, Gives

\* What Drop makes of a table.
LEMMA DropIs ==
    ASSUME NEW f, NEW keys, NEW new, new = Drop(f, keys)
    PROVE  /\ DOMAIN new = DOMAIN f \ keys
           /\ Agree(new, f, DOMAIN f \ keys)
           /\ Map(new)
  BY DEF Drop, Restrict, Map, Agree, Gives

\* Indexes of that kind are what a rebuild makes them: the thread of a session
\* leads to no other.
LEMMA TablesAreRebuilt == \A st : Tables(st) => st = Rebuilt(st)
  <1> SUFFICES ASSUME NEW st, Tables(st) PROVE st = Rebuilt(st)
    OBVIOUS
  <1> DEFINE threads == [t \in {st.table[s].thread : s \in IndexedIn(st)} |->
                           CHOOSE s \in IndexedIn(st) : st.table[s].thread = t]
  <1>1. ASSUME NEW t \in {st.table[s].thread : s \in IndexedIn(st)}
        PROVE  st.threads[t] = CHOOSE s \in IndexedIn(st) : st.table[s].thread = t
    <2>1. PICK s \in IndexedIn(st) : st.table[s].thread = t
      OBVIOUS
    <2>2. \A u \in IndexedIn(st) : st.table[u].thread = t => u = s
      BY <2>1 DEF Tables, Distinct, IndexedIn
    <2>3. (CHOOSE u \in IndexedIn(st) : st.table[u].thread = t) = s
      BY <2>1, <2>2
    <2>4. st.threads[t] = s
      BY <2>1 DEF Tables, Indexes
    <2> QED BY <2>3, <2>4
  <1>2. st.threads = threads
    BY <1>1 DEF Tables, Shaped, Indexes, Map
  <1>3. Rebuilt(st) = [table |-> st.table, rooms |-> RoutedIn(st), threads |-> threads,
                       pending |-> st.pending]
    BY DEF Rebuilt, RoutedIn, IndexedIn
  <1>4. st.rooms = RoutedIn(st)
    BY DEF Tables, Indexes
  <1> HIDE DEF threads
  <1> QED BY <1>2, <1>3, <1>4 DEF Tables, Whole

\* s, new to the table or not, has the thread of r to itself.
Owns(st, s, r) ==
    /\ r \in Proper
    /\ \A u \in DOMAIN st.table : u # s => st.table[u].thread # r.thread
    /\ s \in DOMAIN st.table => st.table[s].thread = r.thread

\* new is st with s in the table, in the room index and in the thread index.
Inserted(new, st, s, r) ==
    /\ Whole(new) /\ new.pending = st.pending
    /\ DOMAIN new.table = DOMAIN st.table \cup {s} /\ Gives(new.table, s, r)
    /\ Agree(new.table, st.table, DOMAIN st.table \ {s})
    /\ Map(new.table)
    /\ new.rooms = IF Routed(r) THEN st.rooms \cup {s} ELSE st.rooms \ {s}
    /\ Map(new.threads)
    /\ DOMAIN new.threads = (DOMAIN st.threads \ {r.thread}) \cup
                              (IF Indexed(r) THEN {r.thread} ELSE {})
    /\ Agree(new.threads, st.threads, DOMAIN st.threads \ {r.thread})
    /\ Indexed(r) => Gives(new.threads, r.thread, s)

\* What Upsert makes of a worker's state, part by part.
LEMMA UpsertIs ==
    ASSUME NEW st, Tables(st), NEW s, NEW r, Owns(st, s, r),
           NEW new, new = Upsert(st, s, r)
    PROVE  Inserted(new, st, s, r)
  <1>1. PICK old : old = IF s \in DOMAIN st.table THEN {st.table[s].thread} ELSE {}
    OBVIOUS
  <1>2. PICK dropped : dropped = Drop(st.threads, old)
    OBVIOUS
  <1>3. PICK threads : threads = IF Indexed(r) THEN Put(dropped, r.thread, s) ELSE dropped
    OBVIOUS
  <1>4. PICK table : table = Put(st.table, s, r)
    OBVIOUS
  <1>5. PICK rooms : rooms = IF Routed(r) THEN st.rooms \cup {s} ELSE st.rooms \ {s}
    OBVIOUS
  <1>6. new = [table |-> table, rooms |-> rooms, threads |-> threads,
                pending |-> st.pending]
    BY <1>1, <1>2, <1>3, <1>4, <1>5 DEF Upsert
  <1>7. /\ DOMAIN dropped = DOMAIN st.threads \ old
        /\ Agree(dropped, st.threads, DOMAIN st.threads \ old)
        /\ Map(dropped)
    BY <1>2, DropIs
  <1>8. DOMAIN st.threads \ old = DOMAIN st.threads \ {r.thread}
    BY <1>1 DEF Tables, Indexes, IndexedIn, Owns
  <1>9. /\ DOMAIN threads = (DOMAIN st.threads \ {r.thread}) \cup
                              (IF Indexed(r) THEN {r.thread} ELSE {})
        /\ Agree(threads, st.threads, DOMAIN st.threads \ {r.thread})
        /\ Indexed(r) => Gives(threads, r.thread, s)
        /\ Map(threads)
    <2>1. CASE Indexed(r)
      <3>1. threads = Put(dropped, r.thread, s)
        BY <1>3, <2>1
      <3>2. /\ DOMAIN threads = DOMAIN dropped \cup {r.thread} /\ Gives(threads, r.thread, s)
            /\ Agree(threads, dropped, DOMAIN dropped \ {r.thread})
            /\ Map(threads)
        BY <3>1, PutIs
      <3> QED BY <1>7, <1>8, <2>1, <3>2 DEF Agree
    <2>2. CASE ~Indexed(r)
      BY <1>3, <1>7, <1>8, <2>2
    <2> QED BY <2>1, <2>2
  <1>10. /\ DOMAIN table = DOMAIN st.table \cup {s} /\ Gives(table, s, r)
         /\ Agree(table, st.table, DOMAIN st.table \ {s})
         /\ Map(table)
    BY <1>4, PutIs
  <1> QED BY <1>5, <1>6, <1>9, <1>10 DEF Whole, Inserted

\* A session that is put in the table with a thread of its own keeps the indexes.
LEMMA UpsertKeeps ==
    ASSUME NEW st, Tables(st), NEW s, NEW r, Owns(st, s, r),
           NEW new, new = Upsert(st, s, r)
    PROVE  Tables(new)
  <1>1. Inserted(new, st, s, r)
    BY UpsertIs
  <1>2. /\ Whole(new) /\ Map(new.threads)
        /\ DOMAIN new.table = DOMAIN st.table \cup {s} /\ Gives(new.table, s, r)
        /\ Agree(new.table, st.table, DOMAIN st.table \ {s})
        /\ Map(new.table)
        /\ new.rooms = IF Routed(r) THEN st.rooms \cup {s} ELSE st.rooms \ {s}
        /\ DOMAIN new.threads = (DOMAIN st.threads \ {r.thread}) \cup
                                  (IF Indexed(r) THEN {r.thread} ELSE {})
        /\ Agree(new.threads, st.threads, DOMAIN st.threads \ {r.thread})
        /\ Indexed(r) => Gives(new.threads, r.thread, s)
    BY <1>1 DEF Inserted
  <1>3. Shaped(new)
    <2>1. IsFiniteSet(DOMAIN st.table \cup {s})
      BY FS_AddElement DEF Tables, Shaped
    <2>2. \A u \in DOMAIN new.table : new.table[u] \in Proper
      BY <1>2 DEF Tables, Shaped, Owns, Agree, Gives
    <2> QED BY <1>2, <2>1, <2>2 DEF Shaped
  <1>4. Distinct(new)
    BY <1>2 DEF Tables, Distinct, Owns, Agree, Gives
  <1>5. new.rooms = RoutedIn(new)
    BY <1>2 DEF Tables, Indexes, RoutedIn, Agree, Gives
  <1>6. IndexedIn(new) = (IndexedIn(st) \ {s}) \cup (IF Indexed(r) THEN {s} ELSE {})
    BY <1>2 DEF IndexedIn, Agree, Gives
  <1>7. \A u \in IndexedIn(st) \ {s} : /\ new.table[u].thread = st.table[u].thread
                                       /\ new.table[u].thread # r.thread
    BY <1>2 DEF IndexedIn, Agree, Owns
  <1>8. \A t \in DOMAIN st.threads \ {r.thread} :
           \E u \in IndexedIn(st) \ {s} : t = st.table[u].thread
    BY DEF Tables, Indexes, IndexedIn, Owns
  <1>9. DOMAIN new.threads = {new.table[u].thread : u \in IndexedIn(new)}
    <2>1. ASSUME NEW t \in DOMAIN new.threads
          PROVE  \E u \in IndexedIn(new) : t = new.table[u].thread
      BY <1>2, <1>6, <1>7, <1>8 DEF Gives
    <2>2. ASSUME NEW u \in IndexedIn(new)
          PROVE  new.table[u].thread \in DOMAIN new.threads
      BY <1>2, <1>6, <1>7 DEF Tables, Indexes, Agree, Gives
    <2> QED BY <2>1, <2>2
  <1>10. ASSUME NEW u \in IndexedIn(new)
         PROVE  new.threads[new.table[u].thread] = u
    BY <1>2, <1>6, <1>7 DEF Tables, Indexes, Agree, Gives
  <1> QED BY <1>2, <1>3, <1>4, <1>5, <1>9, <1>10 DEF Tables, Indexes


\* new has the table and the indexes of st.
Same(new, st) ==
    /\ Whole(new) /\ new.table = st.table /\ new.rooms = st.rooms
    /\ new.threads = st.threads

\* Then they are in order too.
LEMMA SameKeeps ==
    ASSUME NEW st, Tables(st), NEW new, Same(new, st)
    PROVE  Tables(new)
  BY DEF Same, Tables, Shaped, Distinct, Indexes, RoutedIn, IndexedIn

\* Every pending approval is of a session that is not archived, with its thread.
Asked(st) ==
    \A a \in DOMAIN st.pending :
        /\ st.pending[a] \in [session : DOMAIN st.table, thread : Thread]
        /\ ~st.table[st.pending[a].session].archived
        /\ st.table[st.pending[a].session].thread = st.pending[a].thread

\* A handler changes the record of a session, but not its thread, and it does not
\* archive it.
Keeps(old, r) == r \in Proper /\ r.thread = old.thread /\ r.archived = old.archived

\* A session that keeps its thread may be put in the table.
LEMMA KeepsOwns ==
    ASSUME NEW st, Tables(st), NEW s \in DOMAIN st.table, NEW r \in Proper,
           r.thread = st.table[s].thread
    PROVE  Owns(st, s, r)
  BY DEF Tables, Distinct, Owns

\* A session that is made, or changed and not archived, keeps the approvals in order.
LEMMA InsertedAsked ==
    ASSUME NEW st, Tables(st), Asked(st), NEW s, NEW r, Owns(st, s, r),
           NEW new, Inserted(new, st, s, r),
           s \in DOMAIN st.table => r.archived = st.table[s].archived
    PROVE  Asked(new)
  <1>1. /\ new.pending = st.pending /\ new.table[s] = r
        /\ DOMAIN new.table = DOMAIN st.table \cup {s}
        /\ \A u \in DOMAIN st.table : u # s => new.table[u] = st.table[u]
    BY DEF Inserted, Gives, Agree
  <1>2. \A u \in DOMAIN st.table : /\ new.table[u].archived = st.table[u].archived
                                   /\ new.table[u].thread = st.table[u].thread
    BY <1>1 DEF Owns
  <1> SUFFICES ASSUME NEW a \in DOMAIN st.pending
               PROVE  /\ st.pending[a] \in [session : DOMAIN new.table, thread : Thread]
                      /\ ~new.table[st.pending[a].session].archived
                      /\ new.table[st.pending[a].session].thread = st.pending[a].thread
    BY <1>1 DEF Asked
  <1>3. /\ st.pending[a] \in [session : DOMAIN st.table, thread : Thread]
        /\ ~st.table[st.pending[a].session].archived
        /\ st.table[st.pending[a].session].thread = st.pending[a].thread
    BY DEF Asked
  <1> QED BY <1>1, <1>2, <1>3

\* What WithoutApprovals leaves.
LEMMA WithoutIs ==
    ASSUME NEW st, Whole(st), NEW s, NEW new, new = WithoutApprovals(st, s)
    PROVE  /\ Same(new, st)
           /\ DOMAIN new.pending = {a \in DOMAIN st.pending : st.pending[a].session # s}
           /\ Agree(new.pending, st.pending, DOMAIN new.pending)
  <1>1. PICK dropped : dropped = {a \in DOMAIN st.pending : st.pending[a].session = s}
    OBVIOUS
  <1>2. PICK pending : pending = Drop(st.pending, dropped)
    OBVIOUS
  <1>3. new = [st EXCEPT !.pending = pending]
    BY <1>1, <1>2 DEF WithoutApprovals
  <1>4. /\ Whole(new) /\ new.table = st.table /\ new.rooms = st.rooms
        /\ new.threads = st.threads /\ new.pending = pending
    BY <1>3 DEF Whole
  <1>5. /\ DOMAIN pending = DOMAIN st.pending \ dropped
        /\ Agree(pending, st.pending, DOMAIN st.pending \ dropped)
    BY <1>2, DropIs
  <1>6. DOMAIN st.pending \ dropped = {a \in DOMAIN st.pending : st.pending[a].session # s}
    BY <1>1
  <1> QED BY <1>4, <1>5, <1>6 DEF Same

\* new is st without the approvals of s.
Unasked(new, st, s) ==
    /\ DOMAIN new.pending = {a \in DOMAIN st.pending : st.pending[a].session # s}
    /\ Agree(new.pending, st.pending, DOMAIN new.pending)

\* new is st with s archived, or without it.
Archives(new, st, s, r) ==
    /\ DOMAIN new.table = DOMAIN st.table /\ Gives(new.table, s, r)
    /\ Agree(new.table, st.table, DOMAIN st.table \ {s})
    /\ Unasked(new, st, s)
    /\ DOMAIN new.threads = (DOMAIN st.threads \ {r.thread}) \cup
                              (IF Indexed(r) THEN {r.thread} ELSE {})
Removes(new, st, s) ==
    /\ DOMAIN new.table = DOMAIN st.table \ {s}
    /\ Agree(new.table, st.table, DOMAIN st.table \ {s})
    /\ Unasked(new, st, s)
    /\ DOMAIN new.threads = DOMAIN st.threads \ {st.table[s].thread}

\* A session that is archived takes its approvals with it.
LEMMA ArchivedKeeps ==
    ASSUME NEW st, Tables(st), Asked(st), NEW s \in DOMAIN st.table, NEW r \in Proper,
           r.thread = st.table[s].thread,
           NEW new, new = WithoutApprovals(Upsert(st, s, r), s)
    PROVE  Tables(new) /\ Asked(new) /\ Archives(new, st, s, r)
  <1>1. PICK mid : mid = Upsert(st, s, r)
    OBVIOUS
  <1>2. Owns(st, s, r)
    BY KeepsOwns
  <1>3. Inserted(mid, st, s, r) /\ Tables(mid)
    BY <1>1, <1>2, UpsertIs, UpsertKeeps
  <1>4. new = WithoutApprovals(mid, s) /\ Whole(mid)
    BY <1>1, <1>3 DEF Tables
  <1>5. /\ Same(new, mid)
        /\ DOMAIN new.pending = {a \in DOMAIN mid.pending : mid.pending[a].session # s}
        /\ Agree(new.pending, mid.pending, DOMAIN new.pending)
    BY <1>4, WithoutIs
  <1>6. Tables(new)
    BY <1>3, <1>5, SameKeeps
  <1>7. /\ DOMAIN new.table = DOMAIN st.table /\ Gives(new.table, s, r)
        /\ Agree(new.table, st.table, DOMAIN st.table \ {s})
        /\ DOMAIN new.pending = {a \in DOMAIN st.pending : st.pending[a].session # s}
        /\ Agree(new.pending, st.pending, DOMAIN new.pending)
        /\ DOMAIN new.threads = (DOMAIN st.threads \ {r.thread}) \cup
                                  (IF Indexed(r) THEN {r.thread} ELSE {})
    BY <1>3, <1>5 DEF Same, Inserted
  <1>8. Asked(new)
    <2> SUFFICES ASSUME NEW a \in DOMAIN new.pending
                 PROVE  /\ new.pending[a] \in [session : DOMAIN new.table, thread : Thread]
                        /\ ~new.table[new.pending[a].session].archived
                        /\ new.table[new.pending[a].session].thread = new.pending[a].thread
      BY DEF Asked
    <2>1. /\ a \in DOMAIN st.pending /\ st.pending[a].session # s
          /\ new.pending[a] = st.pending[a]
      BY <1>7 DEF Agree
    <2>2. /\ st.pending[a] \in [session : DOMAIN st.table, thread : Thread]
          /\ ~st.table[st.pending[a].session].archived
          /\ st.table[st.pending[a].session].thread = st.pending[a].thread
      BY <2>1 DEF Asked
    <2>3. new.table[st.pending[a].session] = st.table[st.pending[a].session]
      BY <1>7, <2>1, <2>2 DEF Agree
    <2> QED BY <1>7, <2>1, <2>2, <2>3
  <1> QED BY <1>6, <1>7, <1>8 DEF Archives, Unasked

\* A session that is purged leaves the tables in order, and no approval.
LEMMA RemovedKeeps ==
    ASSUME NEW st, Tables(st), Asked(st), NEW s \in DOMAIN st.table,
           NEW new, new = Remove(st, s)
    PROVE  Tables(new) /\ Asked(new) /\ Removes(new, st, s)
  <1>1. PICK table : table = Drop(st.table, {s})
    OBVIOUS
  <1>2. PICK threads : threads = Drop(st.threads, {st.table[s].thread})
    OBVIOUS
  <1>3. PICK mid : mid = [table |-> table, rooms |-> st.rooms \ {s}, threads |-> threads,
                          pending |-> st.pending]
    OBVIOUS
  <1>4. new = WithoutApprovals(mid, s) /\ Whole(mid)
    BY <1>1, <1>2, <1>3 DEF Remove, Whole
  <1>5. /\ Same(new, mid)
        /\ DOMAIN new.pending = {a \in DOMAIN mid.pending : mid.pending[a].session # s}
        /\ Agree(new.pending, mid.pending, DOMAIN new.pending)
    BY <1>4, WithoutIs
  <1>6. /\ DOMAIN table = DOMAIN st.table \ {s} /\ Map(table)
        /\ Agree(table, st.table, DOMAIN st.table \ {s})
    BY <1>1, DropIs
  <1>7. /\ DOMAIN threads = DOMAIN st.threads \ {st.table[s].thread} /\ Map(threads)
        /\ Agree(threads, st.threads, DOMAIN st.threads \ {st.table[s].thread})
    BY <1>2, DropIs
  <1>8. /\ Whole(new) /\ new.table = table /\ new.rooms = st.rooms \ {s}
        /\ new.threads = threads
        /\ DOMAIN new.pending = {a \in DOMAIN st.pending : st.pending[a].session # s}
        /\ Agree(new.pending, st.pending, DOMAIN new.pending)
    BY <1>3, <1>5 DEF Same
  <1>9. Shaped(new)
    <2>1. IsFiniteSet(DOMAIN st.table \ {s})
      BY FS_RemoveElement DEF Tables, Shaped
    <2>2. \A u \in DOMAIN table : table[u] \in Proper
      BY <1>6 DEF Tables, Shaped, Agree
    <2> QED BY <1>6, <1>7, <1>8, <2>1, <2>2 DEF Shaped
  <1>10. Distinct(new)
    BY <1>6, <1>8 DEF Tables, Distinct, Agree
  <1>11. IndexedIn(new) = IndexedIn(st) \ {s} /\ RoutedIn(new) = RoutedIn(st) \ {s}
    BY <1>6, <1>8 DEF IndexedIn, RoutedIn, Agree
  <1>12. \A u \in IndexedIn(st) \ {s} : /\ table[u] = st.table[u]
                                        /\ st.table[u].thread # st.table[s].thread
    BY <1>6 DEF IndexedIn, Agree, Tables, Distinct
  <1>13. DOMAIN threads = {table[u].thread : u \in IndexedIn(st) \ {s}}
    <2>1. ASSUME NEW t \in DOMAIN threads
          PROVE  \E u \in IndexedIn(st) \ {s} : t = table[u].thread
      BY <1>7, <1>12 DEF Tables, Indexes
    <2>2. ASSUME NEW u \in IndexedIn(st) \ {s}
          PROVE  table[u].thread \in DOMAIN threads
      BY <1>7, <1>12 DEF Tables, Indexes
    <2> QED BY <2>1, <2>2
  <1>14. ASSUME NEW u \in IndexedIn(st) \ {s} PROVE threads[table[u].thread] = u
    BY <1>7, <1>12 DEF Tables, Indexes, Agree
  <1>15. Indexes(new)
    BY <1>8, <1>11, <1>13, <1>14 DEF Tables, Indexes
  <1>16. Asked(new)
    <2> SUFFICES ASSUME NEW a \in DOMAIN new.pending
                 PROVE  /\ new.pending[a] \in [session : DOMAIN new.table, thread : Thread]
                        /\ ~new.table[new.pending[a].session].archived
                        /\ new.table[new.pending[a].session].thread = new.pending[a].thread
      BY DEF Asked
    <2>1. /\ a \in DOMAIN st.pending /\ st.pending[a].session # s
          /\ new.pending[a] = st.pending[a]
      BY <1>8 DEF Agree
    <2>2. /\ st.pending[a] \in [session : DOMAIN st.table, thread : Thread]
          /\ ~st.table[st.pending[a].session].archived
          /\ st.table[st.pending[a].session].thread = st.pending[a].thread
      BY <2>1 DEF Asked
    <2>3. new.table[st.pending[a].session] = st.table[st.pending[a].session]
      BY <1>6, <1>8, <2>1, <2>2 DEF Agree
    <2> QED BY <1>6, <1>8, <2>1, <2>2, <2>3
  <1> QED BY <1>6, <1>7, <1>8, <1>9, <1>10, <1>15, <1>16 DEF Tables, Removes, Unasked

\* A restart changes every record but no thread, archives none, and rebuilds the indexes.
LEMMA RebuiltKeeps ==
    ASSUME NEW st, Tables(st), Asked(st), NEW table, Map(table),
           DOMAIN table = DOMAIN st.table,
           \A s \in DOMAIN table : Keeps(st.table[s], table[s]),
           NEW new, new = Rebuilt([st EXCEPT !.table = table])
    PROVE  Tables(new) /\ Asked(new) /\ new.table = table /\ new.pending = st.pending
  <1>1. PICK mid : mid = [st EXCEPT !.table = table]
    OBVIOUS
  <1>2. mid.table = table /\ mid.pending = st.pending
    BY <1>1 DEF Tables, Whole
  <1>3. PICK threads : threads = [t \in {table[s].thread : s \in IndexedIn(mid)} |->
                                    CHOOSE s \in IndexedIn(mid) : table[s].thread = t]
    OBVIOUS
  <1>4. new = [table |-> table, rooms |-> RoutedIn(mid), threads |-> threads,
               pending |-> st.pending]
    BY <1>1, <1>2, <1>3 DEF Rebuilt, RoutedIn, IndexedIn
  <1>5. /\ Whole(new) /\ new.table = table /\ new.rooms = RoutedIn(mid)
        /\ new.threads = threads /\ new.pending = st.pending
    BY <1>4 DEF Whole
  <1>6. IndexedIn(new) = IndexedIn(mid) /\ RoutedIn(new) = RoutedIn(mid)
    BY <1>2, <1>5 DEF IndexedIn, RoutedIn
  <1>7. Distinct(new)
    BY <1>5 DEF Tables, Distinct, Keeps
  <1>8. DOMAIN threads = {table[s].thread : s \in IndexedIn(mid)} /\ Map(threads)
    BY <1>3 DEF Map
  <1>9. ASSUME NEW u \in IndexedIn(mid) PROVE threads[table[u].thread] = u
    <2>1. PICK t : t = table[u].thread
      OBVIOUS
    <2>2. \A s \in IndexedIn(mid) : table[s].thread = t => s = u
      BY <1>2, <1>5, <1>7, <2>1 DEF IndexedIn, Distinct
    <2>3. (CHOOSE s \in IndexedIn(mid) : table[s].thread = t) = u
      BY <2>1, <2>2
    <2>4. t \in {table[s].thread : s \in IndexedIn(mid)}
      BY <2>1
    <2>5. threads[t] = CHOOSE s \in IndexedIn(mid) : table[s].thread = t
      BY <1>3, <2>4
    <2> QED BY <2>1, <2>3, <2>5
  <1>10. Indexes(new)
    BY <1>5, <1>6, <1>8, <1>9 DEF Indexes
  <1>11. Shaped(new)
    BY <1>5, <1>8 DEF Shaped, Tables, Keeps
  <1>12. Asked(new)
    <2> SUFFICES ASSUME NEW a \in DOMAIN st.pending
                 PROVE  /\ st.pending[a] \in [session : DOMAIN table, thread : Thread]
                        /\ ~table[st.pending[a].session].archived
                        /\ table[st.pending[a].session].thread = st.pending[a].thread
      BY <1>5 DEF Asked
    <2>1. /\ st.pending[a] \in [session : DOMAIN st.table, thread : Thread]
          /\ ~st.table[st.pending[a].session].archived
          /\ st.table[st.pending[a].session].thread = st.pending[a].thread
      BY DEF Asked
    <2>2. Keeps(st.table[st.pending[a].session], table[st.pending[a].session])
      BY <2>1
    <2> QED BY <2>1, <2>2 DEF Keeps
  <1> QED BY <1>5, <1>7, <1>10, <1>11, <1>12 DEF Tables

-----------------------------------------------------------------------------
(* What a handler writes in a record, and what Codex does with a thread.   *)

\* Every handler but archive keeps the thread of a session, and whether it is archived.
LEMMA RecordMoves ==
    ASSUME NEW r \in Proper
    PROVE  /\ \A x \in States \ {"Archived"} : Keeps(r, [r EXCEPT !.state = x])
           /\ \A n \in Nat : Keeps(r, [r EXCEPT !.turn = n, !.state = "Running"])
           /\ Keeps(r, Final(r))
           /\ \A probe : Keeps(r, Probed(r, probe))
  <1>1. /\ r.state \in States /\ r.archived \in BOOLEAN /\ r.turn \in Nat
        /\ r.thread \in Thread /\ r.final \in BOOLEAN
    BY DEF Proper, Records
  <1>2. ASSUME NEW x \in States \ {"Archived"} PROVE Keeps(r, [r EXCEPT !.state = x])
    BY DEF Proper, Records, Keeps
  <1>3. ASSUME NEW n \in Nat PROVE Keeps(r, [r EXCEPT !.turn = n, !.state = "Running"])
    <2>1. "Running" \in States
      BY DEF States
    <2> QED BY <2>1 DEF Proper, Records, Keeps
  <1>4. Keeps(r, Final(r))
    <2>1. "Completed" \in States
      BY DEF States
    <2> QED BY <2>1 DEF Proper, Records, Keeps, Final
  <1>5. ASSUME NEW probe PROVE Keeps(r, Probed(r, probe))
    <2>1. Keeps(r, r)
      BY DEF Keeps
    <2>2. Keeps(r, [r EXCEPT !.state = "Idle"]) /\ Keeps(r, [r EXCEPT !.state = "Failed"])
      BY <1>2 DEF States
    <2>3. Probed(r, probe) \in {r, [r EXCEPT !.state = "Idle"], [r EXCEPT !.state = "Failed"]}
      BY DEF Probed
    <2> QED BY <2>1, <2>2, <2>3
  <1> QED BY <1>2, <1>3, <1>4, <1>5

\* The records of sessions that are made, and of one that is archived.
LEMMA NewRecords ==
    /\ \A t \in Thread : /\ Record(t) \in Proper /\ Record(t).thread = t
                         /\ ~Record(t).archived
                         /\ Created(t) \in Proper /\ Created(t).thread = t
                         /\ ~Created(t).archived
    /\ \A r \in Proper : LET archived == [r EXCEPT !.archived = TRUE, !.state = "Archived"]
                          IN  /\ archived \in Proper /\ archived.thread = r.thread
                              /\ archived.archived /\ archived.state = "Archived"
  BY DEF Record, Created, Proper, Records, States

\* A thread is changed, and no other.
Changed(t, kind, turn, asks) ==
    /\ codex' \in [Thread -> Threads]
    /\ codex'[t].kind = kind /\ codex'[t].turn = turn /\ codex'[t].asks = asks
    /\ \A u \in Thread \ {t} : codex'[u] = codex[u]

\* What Codex does with a thread.
LEMMA CodexMoves ==
    ASSUME codex \in [Thread -> Threads], NEW t \in Thread
    PROVE  /\ codex' = [codex EXCEPT ![t].turn = 0, ![t].asks = {}] =>
                Changed(t, codex[t].kind, 0, {})
           /\ \A a \in Approval : codex' = [codex EXCEPT ![t].asks = @ \cup {a}] =>
                Changed(t, codex[t].kind, codex[t].turn, codex[t].asks \cup {a})
           /\ \A a \in Approval : codex' = [codex EXCEPT ![t].asks = @ \ {a}] =>
                Changed(t, codex[t].kind, codex[t].turn, codex[t].asks \ {a})
           /\ codex' = [codex EXCEPT ![t] = [kind |-> "archived", turn |-> 0, asks |-> {}]] =>
                Changed(t, "archived", 0, {})
           /\ \A n \in Nat :
                codex' = [codex EXCEPT ![t] = [kind |-> "listed", turn |-> n, asks |-> {}]] =>
                  Changed(t, "listed", n, {})
           /\ codex' = [codex EXCEPT ![t].kind = "listed"] =>
                Changed(t, "listed", codex[t].turn, codex[t].asks)
  <1> USE DEF Changed, Threads
  <1>1. codex' = [codex EXCEPT ![t].turn = 0, ![t].asks = {}] =>
          Changed(t, codex[t].kind, 0, {})
    <2> SUFFICES ASSUME codex' = [codex EXCEPT ![t].turn = 0, ![t].asks = {}]
                 PROVE  Changed(t, codex[t].kind, 0, {})
      OBVIOUS
    <2>1. DOMAIN codex' = Thread /\ \A u \in Thread \ {t} : codex'[u] = codex[u]
      OBVIOUS
    <2>2. codex'[t] = [codex[t] EXCEPT !.turn = 0, !.asks = {}]
      OBVIOUS
    <2>3. /\ codex'[t].kind = codex[t].kind /\ codex'[t].turn = 0 /\ codex'[t].asks = {}
          /\ codex'[t] \in Threads
      BY <2>2
    <2>4. codex' \in [Thread -> Threads]
      BY <2>1, <2>3
    <2> QED BY <2>1, <2>3, <2>4
  <1>2. \A a \in Approval : codex' = [codex EXCEPT ![t].asks = @ \cup {a}] =>
          Changed(t, codex[t].kind, codex[t].turn, codex[t].asks \cup {a})
    OBVIOUS
  <1>3. \A a \in Approval : codex' = [codex EXCEPT ![t].asks = @ \ {a}] =>
          Changed(t, codex[t].kind, codex[t].turn, codex[t].asks \ {a})
    OBVIOUS
  <1>4. codex' = [codex EXCEPT ![t] = [kind |-> "archived", turn |-> 0, asks |-> {}]] =>
          Changed(t, "archived", 0, {})
    OBVIOUS
  <1>5. \A n \in Nat :
          codex' = [codex EXCEPT ![t] = [kind |-> "listed", turn |-> n, asks |-> {}]] =>
            Changed(t, "listed", n, {})
    OBVIOUS
  <1>6. codex' = [codex EXCEPT ![t].kind = "listed"] =>
          Changed(t, "listed", codex[t].turn, codex[t].asks)
    OBVIOUS
  <1> QED BY <1>1, <1>2, <1>3, <1>4, <1>5, <1>6

-----------------------------------------------------------------------------
(* The state, part by part.                                                *)

Notices == [kind : {"status"}, thread : Thread, to : {"active", "idle"}]
           \cup [kind : {"started"}, thread : Thread, turn : Nat]
           \cup [kind : {"completed"}, thread : Thread]
           \cup [kind : {"request"}, thread : Thread, id : Approval]

StateInv ==
    /\ born \subseteq Session \cup Approval
    /\ Tables(state) /\ Asked(state)
    /\ DOMAIN state.table \subseteq born /\ DOMAIN state.pending \subseteq born

CodexInv ==
    /\ plan \in Plans /\ turns \in Nat /\ turns <= plan.turns
    /\ codex \in [Thread -> Threads]
    /\ \A t \in Thread : codex[t].turn <= turns

\* A thread that a session has is there: it never goes.
ThreadsThere == \A s \in DOMAIN state.table : codex[state.table[s].thread].kind # "absent"

EventsInv ==
    /\ events \in Seq(Notices)
    /\ \A e \in Range(events) : e.kind = "request" => e.id \in born

BaseInv == StateInv /\ CodexInv /\ ThreadsThere /\ EventsInv

\* What the handlers do to the worker's state: a session is made, ...
Made ==
    \E s \in Session, r \in Proper :
        /\ s \notin born /\ s \in born' /\ ~r.archived
        /\ \A u \in DOMAIN state.table : state.table[u].thread # r.thread
        /\ codex'[r.thread].kind # "absent"
        /\ state' = Upsert(state, s, r)

\* ... a record is written, after the approvals were changed or as they are, ...
Refers(st) == Same(st, state) /\ Asked(st) /\ DOMAIN st.pending \subseteq born
Rewritten ==
    \E s \in DOMAIN state.table : \E st, r :
        Refers(st) /\ Keeps(state.table[s], r) /\ state' = Upsert(st, s, r)

\* ... a session is archived, purged, or all are read again.
ArchivedOne ==
    \E s \in DOMAIN state.table, r \in Proper :
        /\ r.thread = state.table[s].thread /\ r.archived /\ r.state = "Archived"
        /\ state' = WithoutApprovals(Upsert(state, s, r), s)
Purged == \E s \in DOMAIN state.table : ~Routed(state.table[s]) /\ state' = Remove(state, s)
Reread ==
    \E table : /\ Map(table) /\ DOMAIN table = DOMAIN state.table
               /\ \A s \in DOMAIN table : Keeps(state.table[s], table[s])
               /\ state' = Rebuilt([state EXCEPT !.table = table])

StateMove ==
    \/ UNCHANGED state \/ Made \/ Rewritten \/ ArchivedOne \/ Purged \/ Reread

\* A thread of a session is one of the threads, and no session of another has it.
LEMMA OwnThread ==
    ASSUME StateInv, NEW s \in DOMAIN state.table
    PROVE  /\ state.table[s] \in Proper /\ state.table[s].thread \in Thread
           /\ Refers(state)
  BY DEF StateInv, Tables, Shaped, Proper, Records, Refers, Same

\* A thread that is indexed leads to its session.
LEMMA Led ==
    ASSUME StateInv, NEW t \in DOMAIN state.threads
    PROVE  /\ state.threads[t] \in DOMAIN state.table
           /\ Of(t) = state.table[state.threads[t]] /\ Of(t).thread = t
           /\ Indexed(Of(t)) /\ t \in Thread /\ Of(t) \in Proper
  BY DEF StateInv, Tables, Shaped, Indexes, IndexedIn, Of, Proper, Records

\* A record written with the approvals as they are.
LEMMA SetRewrites ==
    ASSUME StateInv, NEW s \in DOMAIN state.table, NEW r, Keeps(state.table[s], r), Set(s, r)
    PROVE  Rewritten
  BY OwnThread DEF Set, Rewritten

\* Each move keeps the tables and the approvals in order.
LEMMA MovesKeep ==
    ASSUME StateInv, StateMove, born' \subseteq Session \cup Approval, born \subseteq born'
    PROVE  StateInv'
  <1>1. Tables(state) /\ Asked(state)
    BY DEF StateInv
  <1>2. DOMAIN state.table \subseteq born' /\ DOMAIN state.pending \subseteq born'
    BY DEF StateInv
  <1>3. CASE UNCHANGED state
    BY <1>3, <1>1, <1>2 DEF StateInv, Tables, Shaped, Whole, Distinct, Indexes, Asked,
          RoutedIn, IndexedIn
  <1>4. CASE Made
    <2>1. PICK s \in Session, r \in Proper :
            /\ s \notin born /\ s \in born' /\ ~r.archived
            /\ \A u \in DOMAIN state.table : state.table[u].thread # r.thread
            /\ state' = Upsert(state, s, r)
      BY <1>4 DEF Made
    <2>2. Owns(state, s, r) /\ s \notin DOMAIN state.table
      BY <2>1 DEF Owns, StateInv
    <2>3. Inserted(state', state, s, r)
      BY <1>1, <2>1, <2>2, UpsertIs
    <2>4. Tables(state')
      BY <1>1, <2>1, <2>2, UpsertKeeps
    <2>5. Asked(state')
      BY <1>1, <2>2, <2>3, InsertedAsked
    <2>6. DOMAIN state'.table \subseteq born' /\ DOMAIN state'.pending \subseteq born'
      BY <1>2, <2>1, <2>3 DEF Inserted
    <2> QED BY <2>4, <2>5, <2>6 DEF StateInv
  <1>5. CASE Rewritten
    <2>1. PICK s \in DOMAIN state.table : \E st, r :
            Refers(st) /\ Keeps(state.table[s], r) /\ state' = Upsert(st, s, r)
      BY <1>5 DEF Rewritten
    <2>2. PICK st, r : Refers(st) /\ Keeps(state.table[s], r) /\ state' = Upsert(st, s, r)
      BY <2>1
    <2>3. Tables(st) /\ Asked(st) /\ st.table = state.table
      BY <1>1, <2>2, SameKeeps DEF Refers, Same
    <2>4. /\ r \in Proper /\ r.thread = st.table[s].thread
          /\ r.archived = st.table[s].archived
      BY <2>2, <2>3 DEF Keeps
    <2>5. Owns(st, s, r)
      BY <2>3, <2>4, KeepsOwns
    <2>6. Inserted(state', st, s, r)
      BY <2>2, <2>3, <2>5, UpsertIs
    <2>7. Tables(state')
      BY <2>2, <2>3, <2>5, UpsertKeeps
    <2>8. Asked(state')
      BY <2>3, <2>4, <2>5, <2>6, InsertedAsked
    <2>9. DOMAIN state'.table \subseteq born' /\ DOMAIN state'.pending \subseteq born'
      BY <1>2, <2>2, <2>3, <2>6 DEF Inserted, Refers
    <2> QED BY <2>7, <2>8, <2>9 DEF StateInv
  <1>6. CASE ArchivedOne
    <2>1. PICK s \in DOMAIN state.table, r \in Proper :
            /\ r.thread = state.table[s].thread
            /\ state' = WithoutApprovals(Upsert(state, s, r), s)
      BY <1>6 DEF ArchivedOne
    <2>2. Tables(state') /\ Asked(state') /\ Archives(state', state, s, r)
      BY <1>1, <2>1, ArchivedKeeps
    <2>3. DOMAIN state'.table \subseteq born' /\ DOMAIN state'.pending \subseteq born'
      BY <1>2, <2>2 DEF Archives, Unasked
    <2> QED BY <2>2, <2>3 DEF StateInv
  <1>7. CASE Purged
    <2>1. PICK s \in DOMAIN state.table : state' = Remove(state, s)
      BY <1>7 DEF Purged
    <2>2. Tables(state') /\ Asked(state') /\ Removes(state', state, s)
      BY <1>1, <2>1, RemovedKeeps
    <2>3. DOMAIN state'.table \subseteq born' /\ DOMAIN state'.pending \subseteq born'
      BY <1>2, <2>2 DEF Removes, Unasked
    <2> QED BY <2>2, <2>3 DEF StateInv
  <1>8. CASE Reread
    <2>1. PICK table : /\ Map(table) /\ DOMAIN table = DOMAIN state.table
                       /\ \A s \in DOMAIN table : Keeps(state.table[s], table[s])
                       /\ state' = Rebuilt([state EXCEPT !.table = table])
      BY <1>8 DEF Reread
    <2>2. /\ Tables(state') /\ Asked(state') /\ state'.table = table
          /\ state'.pending = state.pending
      BY <1>1, <2>1, RebuiltKeeps
    <2> QED BY <1>2, <2>1, <2>2 DEF StateInv
  <1> QED BY <1>3, <1>4, <1>5, <1>6, <1>7, <1>8 DEF StateMove

-----------------------------------------------------------------------------
(* The channel.                                                            *)

\* An event that says which turn of t runs, and the turn it says.
Says(e, t) == e.thread = t /\ e.kind \in {"started", "completed"}
Said(e) == IF e.kind = "started" THEN e.turn ELSE 0

\* q says nothing of the turn of t; the last that q says of it is n.
Mute(q, t) == \A i \in DOMAIN q : ~Says(q[i], t)
LastSays(q, t, n) ==
    \E i \in DOMAIN q : /\ Says(q[i], t) /\ Said(q[i]) = n
                        /\ \A j \in DOMAIN q : j > i => ~Says(q[j], t)

\* d tells of t alone, that n runs, and asks nothing.
Tells(d, t, n) ==
    /\ d \in Seq(Notices) /\ LastSays(d, t, n)
    /\ \A e \in Range(d) : e.thread = t /\ e.kind # "request"

\* The elements of a sequence that grew, or lost its first.
LEMMA Grown ==
    ASSUME NEW S, NEW q \in Seq(S), NEW d \in Seq(S), NEW new, new = q \o d
    PROVE  /\ new \in Seq(S) /\ Len(new) = Len(q) + Len(d)
           /\ Len(q) \in Nat /\ Len(d) \in Nat
           /\ DOMAIN new = 1..(Len(q) + Len(d))
           /\ DOMAIN q = 1..Len(q) /\ DOMAIN d = 1..Len(d)
           /\ \A i \in 1..Len(q) : new[i] = q[i]
           /\ \A j \in 1..Len(d) : new[Len(q) + j] = d[j]
  <1>1. /\ new \in Seq(S) /\ Len(new) = Len(q) + Len(d)
        /\ Len(q) \in Nat /\ Len(d) \in Nat
    BY ConcatProperties, LenProperties
  <1>2. /\ DOMAIN new = 1..(Len(q) + Len(d))
        /\ DOMAIN q = 1..Len(q) /\ DOMAIN d = 1..Len(d)
    BY <1>1, LenProperties
  <1>3. \A i \in 1..(Len(q) + Len(d)) : new[i] = IF i <= Len(q) THEN q[i] ELSE d[i - Len(q)]
    BY ConcatProperties
  <1>4. \A i \in 1..Len(q) : new[i] = q[i]
    BY <1>1, <1>3
  <1>5. ASSUME NEW j \in 1..Len(d) PROVE new[Len(q) + j] = d[j]
    <2>1. Len(q) + j \in 1..(Len(q) + Len(d)) /\ ~(Len(q) + j <= Len(q))
      BY <1>1
    <2>2. Len(q) + j - Len(q) = j
      BY <1>1
    <2> QED BY <1>3, <2>1, <2>2
  <1> QED BY <1>1, <1>2, <1>4, <1>5

\* The elements of a sequence that lost its first.
LEMMA Taken ==
    ASSUME NEW S, NEW q \in Seq(S), q # <<>>, NEW new, new = Tail(q)
    PROVE  /\ new \in Seq(S) /\ Len(q) \in Nat \ {0}
           /\ Head(q) = q[1] /\ Head(q) \in S
           /\ DOMAIN q = 1..Len(q) /\ DOMAIN new = 1..(Len(q) - 1)
           /\ \A i \in 1..(Len(q) - 1) : new[i] = q[i + 1]
  <1>1. /\ new \in Seq(S) /\ Len(new) = Len(q) - 1 /\ Head(q) \in S
        /\ \A i \in 1..Len(new) : new[i] = q[i + 1]
    BY HeadTailProperties
  <1>2. Len(q) \in Nat /\ DOMAIN q = 1..Len(q) /\ Len(q) # 0
    BY LenProperties, EmptySeq
  <1>3. DOMAIN new = 1..Len(new) /\ Head(q) = q[1]
    BY <1>1, <1>2, LenProperties
  <1> QED BY <1>1, <1>2, <1>3

\* What is added last says last; what says nothing changes nothing.
LEMMA GrownSays ==
    ASSUME NEW q \in Seq(Notices), NEW d \in Seq(Notices), NEW t, NEW n,
           NEW new, new = q \o d
    PROVE  /\ LastSays(d, t, n) => LastSays(new, t, n)
           /\ Mute(d, t) /\ LastSays(q, t, n) => LastSays(new, t, n)
           /\ Mute(d, t) /\ Mute(q, t) => Mute(new, t)
  <1>1. /\ Len(q) \in Nat /\ Len(d) \in Nat
        /\ DOMAIN new = 1..(Len(q) + Len(d))
        /\ DOMAIN q = 1..Len(q) /\ DOMAIN d = 1..Len(d)
        /\ \A i \in 1..Len(q) : new[i] = q[i]
        /\ \A j \in 1..Len(d) : new[Len(q) + j] = d[j]
    BY Grown
  <1>2. \A i \in DOMAIN new : i > Len(q) => i - Len(q) \in 1..Len(d) /\ new[i] = d[i - Len(q)]
    <2> SUFFICES ASSUME NEW i \in DOMAIN new, i > Len(q)
                 PROVE  i - Len(q) \in 1..Len(d) /\ new[i] = d[i - Len(q)]
      OBVIOUS
    <2>1. i - Len(q) \in 1..Len(d) /\ Len(q) + (i - Len(q)) = i
      BY <1>1
    <2> QED BY <1>1, <2>1
  <1>3. ASSUME LastSays(d, t, n) PROVE LastSays(new, t, n)
    <2>1. PICK j \in 1..Len(d) : /\ Says(d[j], t) /\ Said(d[j]) = n
                                 /\ \A k \in 1..Len(d) : k > j => ~Says(d[k], t)
      BY <1>1, <1>3 DEF LastSays
    <2>2. Len(q) + j \in DOMAIN new /\ Says(new[Len(q) + j], t) /\ Said(new[Len(q) + j]) = n
      BY <1>1, <2>1
    <2>3. ASSUME NEW k \in DOMAIN new, k > Len(q) + j PROVE ~Says(new[k], t)
      <3>1. k > Len(q) /\ k - Len(q) > j
        BY <1>1, <2>1, <2>3
      <3> QED BY <1>2, <2>1, <3>1
    <2> QED BY <2>2, <2>3 DEF LastSays
  <1>4. ASSUME Mute(d, t), LastSays(q, t, n) PROVE LastSays(new, t, n)
    <2>1. PICK j \in 1..Len(q) : /\ Says(q[j], t) /\ Said(q[j]) = n
                                 /\ \A k \in 1..Len(q) : k > j => ~Says(q[k], t)
      BY <1>1, <1>4 DEF LastSays
    <2>2. j \in DOMAIN new /\ Says(new[j], t) /\ Said(new[j]) = n
      BY <1>1, <2>1
    <2>3. ASSUME NEW k \in DOMAIN new, k > j PROVE ~Says(new[k], t)
      <3>1. CASE k > Len(q)
        BY <1>1, <1>2, <1>4, <3>1 DEF Mute
      <3>2. CASE k <= Len(q)
        BY <1>1, <2>1, <2>3, <3>2
      <3> QED BY <1>1, <3>1, <3>2
    <2> QED BY <2>2, <2>3 DEF LastSays
  <1>5. ASSUME Mute(d, t), Mute(q, t) PROVE Mute(new, t)
    <2> SUFFICES ASSUME NEW k \in DOMAIN new PROVE ~Says(new[k], t)
      BY DEF Mute
    <2>1. CASE k > Len(q)
      BY <1>1, <1>2, <1>5, <2>1 DEF Mute
    <2>2. CASE k <= Len(q)
      BY <1>1, <1>5, <2>2 DEF Mute
    <2> QED BY <1>1, <2>1, <2>2
  <1> QED BY <1>3, <1>4, <1>5

\* When the first is taken, either another says last or it did.
LEMMA TakenSays ==
    ASSUME NEW q \in Seq(Notices), q # <<>>, NEW t, NEW n, NEW new, new = Tail(q)
    PROVE  /\ Mute(q, t) => Mute(new, t) /\ ~Says(Head(q), t)
           /\ LastSays(q, t, n) =>
                LastSays(new, t, n) \/ (Mute(new, t) /\ Says(Head(q), t) /\ Said(Head(q)) = n)
  <1>1. /\ Len(q) \in Nat \ {0} /\ Head(q) = q[1]
        /\ DOMAIN q = 1..Len(q) /\ DOMAIN new = 1..(Len(q) - 1)
        /\ \A i \in 1..(Len(q) - 1) : new[i] = q[i + 1]
    BY Taken
  <1>2. 1 \in DOMAIN q /\ \A i \in DOMAIN new : i + 1 \in DOMAIN q
    BY <1>1
  <1>3. Mute(q, t) => Mute(new, t) /\ ~Says(Head(q), t)
    BY <1>1, <1>2 DEF Mute
  <1>4. ASSUME LastSays(q, t, n)
        PROVE  \/ LastSays(new, t, n)
               \/ Mute(new, t) /\ Says(Head(q), t) /\ Said(Head(q)) = n
    <2>1. PICK j \in DOMAIN q : /\ Says(q[j], t) /\ Said(q[j]) = n
                                /\ \A k \in DOMAIN q : k > j => ~Says(q[k], t)
      BY <1>4 DEF LastSays
    <2>2. CASE j = 1
      <3>1. ASSUME NEW k \in DOMAIN new PROVE ~Says(new[k], t)
        <4>1. k + 1 > j
          BY <1>1, <2>2
        <4> QED BY <1>1, <1>2, <2>1, <4>1
      <3> QED BY <1>1, <2>1, <2>2, <3>1 DEF Mute
    <2>3. CASE j # 1
      <3>1. j - 1 \in DOMAIN new /\ (j - 1) + 1 = j
        BY <1>1, <2>3
      <3>2. Says(new[j - 1], t) /\ Said(new[j - 1]) = n
        BY <1>1, <2>1, <3>1
      <3>3. ASSUME NEW k \in DOMAIN new, k > j - 1 PROVE ~Says(new[k], t)
        <4>1. k + 1 > j
          BY <1>1, <3>3
        <4> QED BY <1>1, <1>2, <2>1, <4>1
      <3> QED BY <3>1, <3>2, <3>3 DEF LastSays
    <2> QED BY <2>2, <2>3
  <1> QED BY <1>3, <1>4

\* What is in the channel, after it grew or the first was taken.
LEMMA GrownRange ==
    ASSUME NEW q \in Seq(Notices), NEW d \in Seq(Notices), NEW new, new = q \o d
    PROVE  Range(new) = Range(q) \cup Range(d)
  <1>1. /\ Len(q) \in Nat /\ Len(d) \in Nat
        /\ DOMAIN new = 1..(Len(q) + Len(d))
        /\ DOMAIN q = 1..Len(q) /\ DOMAIN d = 1..Len(d)
        /\ \A i \in 1..Len(q) : new[i] = q[i]
        /\ \A j \in 1..Len(d) : new[Len(q) + j] = d[j]
    BY Grown
  <1>2. ASSUME NEW i \in DOMAIN new PROVE new[i] \in Range(q) \cup Range(d)
    <2>1. CASE i <= Len(q)
      BY <1>1, <2>1 DEF Range
    <2>2. CASE i > Len(q)
      <3>1. i - Len(q) \in 1..Len(d) /\ Len(q) + (i - Len(q)) = i
        BY <1>1, <2>2
      <3>2. new[i] = d[i - Len(q)]
        BY <1>1, <3>1
      <3> QED BY <1>1, <3>1, <3>2 DEF Range
    <2> QED BY <1>1, <2>1, <2>2
  <1>3. ASSUME NEW i \in DOMAIN q PROVE q[i] \in Range(new)
    <2>1. i \in DOMAIN new /\ new[i] = q[i]
      BY <1>1
    <2> QED BY <2>1 DEF Range
  <1>4. ASSUME NEW j \in DOMAIN d PROVE d[j] \in Range(new)
    <2>1. Len(q) + j \in DOMAIN new /\ new[Len(q) + j] = d[j]
      BY <1>1
    <2> QED BY <2>1 DEF Range
  <1> QED BY ZenonT(40), <1>2, <1>3, <1>4 DEF Range

\* What is in it then.
LEMMA TakenRange ==
    ASSUME NEW q \in Seq(Notices), q # <<>>, NEW new, new = Tail(q)
    PROVE  Range(q) = Range(new) \cup {Head(q)}
  <1>1. /\ Len(q) \in Nat \ {0} /\ Head(q) = q[1]
        /\ DOMAIN q = 1..Len(q) /\ DOMAIN new = 1..(Len(q) - 1)
        /\ \A i \in 1..(Len(q) - 1) : new[i] = q[i + 1]
    BY Taken
  <1>2. ASSUME NEW i \in DOMAIN q PROVE q[i] \in Range(new) \cup {Head(q)}
    <2>1. CASE i = 1
      BY <1>1, <2>1
    <2>2. CASE i # 1
      <3>1. i - 1 \in DOMAIN new /\ (i - 1) + 1 = i
        BY <1>1, <2>2
      <3>2. new[i - 1] = q[i]
        BY <1>1, <3>1
      <3> QED BY <3>1, <3>2 DEF Range
    <2> QED BY <2>1, <2>2
  <1>3. ASSUME NEW i \in DOMAIN new PROVE new[i] \in Range(q)
    <2>1. i + 1 \in DOMAIN q /\ new[i] = q[i + 1]
      BY <1>1
    <2> QED BY <2>1 DEF Range
  <1>4. Head(q) \in Range(q)
    BY <1>1 DEF Range
  <1> QED BY <1>2, <1>3, <1>4 DEF Range

\* The channel grows by d, or its first event is taken.
Grows(d) == /\ d \in Seq(Notices) /\ events' = events \o d
            /\ \A e \in Range(d) : e.kind = "request" => e.id \in born'
Takes == events # <<>> /\ events' = Tail(events)

\* Either way the channel stays well formed, and its events are known: when it grows, ...
LEMMA GrowsKeeps ==
    ASSUME EventsInv, NEW d, Grows(d), born \subseteq born'
    PROVE  EventsInv' /\ Range(events') = Range(events) \cup Range(d)
  <1>1. events \in Seq(Notices) /\ d \in Seq(Notices) /\ events' = events \o d
    BY DEF EventsInv, Grows
  <1>2. Range(events') = Range(events) \cup Range(d)
    BY <1>1, GrownRange
  <1>3. events' \in Seq(Notices)
    BY <1>1, ConcatProperties
  <1> QED BY <1>2, <1>3 DEF EventsInv, Grows

\* ... and when the oldest event is taken.
LEMMA TakesKeeps ==
    ASSUME EventsInv, Takes, born \subseteq born'
    PROVE  /\ EventsInv' /\ Range(events) = Range(events') \cup {Head(events)}
           /\ Head(events) \in Notices
  <1>1. events \in Seq(Notices) /\ events # <<>> /\ events' = Tail(events)
    BY DEF EventsInv, Takes
  <1>2. Range(events) = Range(events') \cup {Head(events)}
    BY <1>1, TakenRange
  <1>3. events' \in Seq(Notices) /\ Head(events) \in Notices
    BY <1>1, HeadTailProperties
  <1> QED BY <1>2, <1>3 DEF EventsInv

\* The channels of one to three events that Codex sends.
LEMMA TellsIs ==
    ASSUME NEW t \in Thread, NEW n \in Nat
    PROVE  /\ Tells(Started(t, n), t, n)
           /\ Tells(<<Completed(t)>> \o Started(t, n), t, n)
           /\ Tells(<<Completed(t)>>, t, 0)
           /\ Tells(<<Completed(t), Status(t, "idle")>>, t, 0)
           /\ Tells(<<Status(t, "idle"), Completed(t)>>, t, 0)
  <1> DEFINE starts == [kind |-> "started", thread |-> t, turn |-> n]
             active == Status(t, "active")
             idle == Status(t, "idle")
             over == Completed(t)
  <1>1. /\ starts \in Notices /\ Says(starts, t) /\ Said(starts) = n
        /\ starts.thread = t /\ starts.kind # "request"
    BY DEF Notices, Says, Said
  <1>2. /\ active \in Notices /\ ~Says(active, t) /\ active.thread = t
        /\ active.kind # "request"
    BY DEF Notices, Says, Status
  <1>3. /\ idle \in Notices /\ ~Says(idle, t) /\ idle.thread = t
        /\ idle.kind # "request"
    BY DEF Notices, Says, Status
  <1>4. /\ over \in Notices /\ Says(over, t) /\ Said(over) = 0
        /\ over.thread = t /\ over.kind # "request"
    BY DEF Notices, Says, Said, Completed
  <1>5. Started(t, n) = <<active, starts>>
    BY DEF Started
  <1>6. <<Completed(t)>> \o Started(t, n) = <<over, active, starts>>
    <2> HIDE DEF starts, active, over
    <2>1. <<over>> \o <<active, starts>> = <<over, active, starts>>
      <3>1. PICK both : both = <<over>> \o <<active, starts>>
        OBVIOUS
      <3>2. /\ <<over>> \in Seq(Notices) /\ <<active, starts>> \in Seq(Notices)
            /\ Len(<<over>>) = 1 /\ Len(<<active, starts>>) = 2
            /\ <<over, active, starts>> \in Seq(Notices)
        BY <1>1, <1>2, <1>4
      <3>3. /\ both \in Seq(Notices) /\ Len(both) = 3
            /\ \A i \in 1..1 : both[i] = <<over>>[i]
            /\ \A j \in 1..2 : both[1 + j] = <<active, starts>>[j]
        BY <3>1, <3>2, Grown
      <3>4. both[1] = over /\ both[2] = active /\ both[3] = starts
        BY <3>3
      <3>5. PICK want : want = <<over, active, starts>>
        OBVIOUS
      <3>6. /\ want \in Seq(Notices) /\ Len(want) = 3
            /\ want[1] = over /\ want[2] = active /\ want[3] = starts
        BY <3>2, <3>5
      <3>7. \A i \in 1..Len(both) : both[i] = want[i]
        BY <3>3, <3>4, <3>6
      <3>8. both = want
        BY <3>3, <3>6, <3>7, SeqEqual
      <3> QED BY <3>1, <3>5, <3>8
    <2>2. <<over>> \o Started(t, n) = <<over, active, starts>>
      BY <1>5, <2>1
    <2> QED BY <2>2 DEF over
  <1> HIDE DEF starts, active, idle, over
  <1>7. Tells(<<active, starts>>, t, n)
    BY <1>1, <1>2 DEF Tells, LastSays, Range
  <1>8. Tells(<<over, active, starts>>, t, n)
    BY <1>1, <1>2, <1>4 DEF Tells, LastSays, Range
  <1>9. Tells(<<over>>, t, 0)
    BY <1>4 DEF Tells, LastSays, Range
  <1>10. Tells(<<over, idle>>, t, 0)
    BY <1>3, <1>4 DEF Tells, LastSays, Range
  <1>11. Tells(<<idle, over>>, t, 0)
    BY <1>3, <1>4 DEF Tells, LastSays, Range
  <1> QED BY <1>5, <1>6, <1>7, <1>8, <1>9, <1>10, <1>11 DEF idle, over

-----------------------------------------------------------------------------
(* What the actions do, in these terms.                                    *)

\* Codex tells that the turn of t is n now.
Announces(t, n) == \E d : Tells(d, t, n) /\ Grows(d)

\* Anything told of one turn is well formed.
LEMMA TellsGrows ==
    ASSUME NEW d, NEW t, NEW n, Tells(d, t, n), events' = events \o d
    PROVE  Announces(t, n)
  BY DEF Announces, Tells, Grows

\* A turn of t is started: the session follows it, unless the answer is lost.
LEMMA StartTurnIs ==
    ASSUME CodexInv, EventsInv, NEW s, NEW r \in Proper, StartTurn(s, r)
    PROVE  /\ turns < plan.turns /\ turns' = turns + 1
           /\ Changed(r.thread, "listed", turns', {})
           /\ Announces(r.thread, turns')
           /\ \/ Set(s, [r EXCEPT !.turn = turns', !.state = "Running"])
              \/ Set(s, r)
  <1>1. /\ r.thread \in Thread /\ turns' = turns + 1 /\ turns < plan.turns /\ turns' \in Nat
        /\ codex \in [Thread -> Threads]
    BY DEF CodexInv, StartTurn, Proper, Records
  <1>2. codex' = [codex EXCEPT ![r.thread] = [kind |-> "listed", turn |-> turns',
                                              asks |-> {}]]
    BY DEF StartTurn
  <1>3. Changed(r.thread, "listed", turns', {})
    BY <1>1, <1>2, CodexMoves
  <1>4. PICK t : t = r.thread
    OBVIOUS
  <1>5. PICK n : n = turns'
    OBVIOUS
  <1>6. \E d : Tells(d, t, n) /\ events' = events \o d
    <2>1. /\ Tells(Started(t, n), t, n)
          /\ Tells(<<Completed(t)>> \o Started(t, n), t, n) /\ Tells(<<Completed(t)>>, t, 0)
      BY <1>1, <1>4, <1>5, TellsIs
    <2>2. /\ Started(t, n) \in Seq(Notices) /\ <<Completed(t)>> \in Seq(Notices)
          /\ events \in Seq(Notices)
      BY <2>1 DEF Tells, EventsInv
    <2>3. CASE codex[t].turn = 0
      <3>1. events' = events \o <<>> \o Started(t, n)
        BY <1>4, <1>5, <2>3 DEF StartTurn
      <3>2. events' = events \o Started(t, n)
        BY <2>2, <3>1, ConcatEmptySeq
      <3> QED BY <2>1, <3>2
    <2>4. CASE codex[t].turn # 0
      <3>1. events' = events \o <<Completed(t)>> \o Started(t, n)
        BY <1>4, <1>5, <2>4 DEF StartTurn
      <3>2. events' = events \o (<<Completed(t)>> \o Started(t, n))
        BY <2>2, <3>1, ConcatAssociative
      <3> QED BY <2>1, <3>2
    <2> QED BY <2>3, <2>4
  <1>7. Announces(r.thread, turns')
    BY <1>4, <1>5, <1>6, TellsGrows
  <1>8. \/ Set(s, [r EXCEPT !.turn = turns', !.state = "Running"])
        \/ Set(s, r)
    BY DEF StartTurn
  <1> QED BY <1>1, <1>3, <1>7, <1>8

\* A turn ends.
LEMMA TurnEndsIs ==
    ASSUME CodexInv, NEW t \in Thread, TurnEnds(t)
    PROVE  Changed(t, codex[t].kind, 0, {}) /\ Announces(t, 0)
  <1>1. codex \in [Thread -> Threads]
    BY DEF CodexInv
  <1>2. Changed(t, codex[t].kind, 0, {})
    BY <1>1, CodexMoves DEF TurnEnds
  <1>3. /\ Tells(<<Completed(t), Status(t, "idle")>>, t, 0)
        /\ Tells(<<Status(t, "idle"), Completed(t)>>, t, 0)
    BY TellsIs
  <1> QED BY <1>2, <1>3, TellsGrows DEF TurnEnds

\* A thread is archived, which ends its turn.
LEMMA CodexArchiveIs ==
    ASSUME CodexInv, EventsInv, NEW t \in Thread, CodexArchive(t)
    PROVE  Changed(t, "archived", 0, {}) /\ (UNCHANGED events \/ Announces(t, 0))
  <1>1. codex \in [Thread -> Threads] /\ events \in Seq(Notices)
    BY DEF CodexInv, EventsInv
  <1>2. Changed(t, "archived", 0, {})
    BY <1>1, CodexMoves DEF CodexArchive
  <1>3. UNCHANGED events \/ events' = Append(events, Completed(t))
    BY DEF CodexArchive
  <1>4. ASSUME events' = Append(events, Completed(t)) PROVE Announces(t, 0)
    <2>1. Tells(<<Completed(t)>>, t, 0) /\ Completed(t) \in Notices
      BY TellsIs DEF Completed, Notices
    <2>2. events' = events \o <<Completed(t)>>
      BY <1>1, <1>4, <2>1, AppendIsConcat
    <2> QED BY <2>1, <2>2, TellsGrows
  <1> QED BY <1>2, <1>3, <1>4

\* A record that keeps thread and mark is inserted.
LEMMA SetIs ==
    ASSUME StateInv, NEW s \in DOMAIN state.table, NEW r, Keeps(state.table[s], r), Set(s, r)
    PROVE  Rewritten /\ Inserted(state', state, s, r)
  <1>1. Tables(state) /\ r \in Proper /\ r.thread = state.table[s].thread
    BY DEF StateInv, Keeps
  <1>2. Owns(state, s, r)
    BY <1>1, KeepsOwns
  <1>3. Inserted(state', state, s, r)
    BY <1>1, <1>2, UpsertIs DEF Set
  <1> QED BY <1>3, SetRewrites

\* So is the record of a session that is made.
LEMMA MakeIs ==
    ASSUME StateInv, NEW s \in Session, s \notin born, s \in born', NEW r \in Proper,
           ~r.archived, ~Attached(r.thread), codex'[r.thread].kind # "absent",
           state' = Upsert(state, s, r)
    PROVE  Made /\ Inserted(state', state, s, r)
  <1>1. \A u \in DOMAIN state.table : state.table[u].thread # r.thread
    BY DEF Attached
  <1>2. Owns(state, s, r)
    BY <1>1 DEF Owns, StateInv
  <1>3. Tables(state)
    BY DEF StateInv
  <1>4. Inserted(state', state, s, r)
    BY <1>2, <1>3, UpsertIs
  <1> QED BY <1>1, <1>4 DEF Made

-----------------------------------------------------------------------------
(* Every step keeps the parts of the state in order.                       *)

\* A thread that is there stays, and no turn starts on the thread of an archived
\* session.
CodexStep ==
    \A t \in Thread :
        /\ codex[t].kind # "absent" => codex'[t].kind # "absent"
        /\ \/ codex'[t].turn \in {0, codex[t].turn}
           \/ \A s \in DOMAIN state.table :
                state.table[s].thread = t => ~state.table[s].archived

Moves == /\ StateMove /\ born \subseteq born' /\ born' \subseteq Session \cup Approval
         /\ CodexInv' /\ CodexStep /\ EventsInv'

\* What a session keeps over a step, or what is so of one that is made.
Kept ==
    \A s \in DOMAIN state'.table :
        \/ /\ s \in DOMAIN state.table
           /\ state'.table[s].thread = state.table[s].thread
           /\ state.table[s].archived => state'.table[s].archived
        \/ s \notin born /\ codex'[state'.table[s].thread].kind # "absent"

\* Each move keeps that.
LEMMA MovesKept ==
    ASSUME StateInv, StateMove
    PROVE  Kept
  <1>1. Tables(state) /\ Asked(state)
    BY DEF StateInv
  <1>2. CASE UNCHANGED state
    BY <1>2 DEF Kept
  <1>3. CASE Made
    <2>1. PICK s \in Session, r \in Proper :
            /\ s \notin born /\ codex'[r.thread].kind # "absent"
            /\ \A u \in DOMAIN state.table : state.table[u].thread # r.thread
            /\ state' = Upsert(state, s, r)
      BY <1>3 DEF Made
    <2>2. Owns(state, s, r)
      BY <2>1 DEF Owns, StateInv
    <2>3. Inserted(state', state, s, r)
      BY <1>1, <2>1, <2>2, UpsertIs
    <2> QED BY <2>1, <2>3 DEF Kept, Inserted, Gives, Agree
  <1>4. CASE Rewritten
    <2>1. PICK s \in DOMAIN state.table : \E st, r :
            Refers(st) /\ Keeps(state.table[s], r) /\ state' = Upsert(st, s, r)
      BY <1>4 DEF Rewritten
    <2>2. PICK st, r : Refers(st) /\ Keeps(state.table[s], r) /\ state' = Upsert(st, s, r)
      BY <2>1
    <2>3. Tables(st) /\ Asked(st) /\ st.table = state.table
      BY <1>1, <2>2, SameKeeps DEF Refers, Same
    <2>4. /\ r \in Proper /\ r.thread = st.table[s].thread
          /\ r.archived = st.table[s].archived
      BY <2>2, <2>3 DEF Keeps
    <2>5. Owns(st, s, r)
      BY <2>3, <2>4, KeepsOwns
    <2>6. Inserted(state', st, s, r)
      BY <2>2, <2>3, <2>5, UpsertIs
    <2> QED BY <2>3, <2>4, <2>6 DEF Kept, Inserted, Gives, Agree
  <1>5. CASE ArchivedOne
    <2>1. PICK s \in DOMAIN state.table, r \in Proper :
            /\ r.thread = state.table[s].thread /\ r.archived
            /\ state' = WithoutApprovals(Upsert(state, s, r), s)
      BY <1>5 DEF ArchivedOne
    <2>2. Archives(state', state, s, r)
      BY <1>1, <2>1, ArchivedKeeps
    <2> QED BY <2>1, <2>2 DEF Kept, Archives, Gives, Agree
  <1>6. CASE Purged
    <2>1. PICK s \in DOMAIN state.table : state' = Remove(state, s)
      BY <1>6 DEF Purged
    <2>2. Removes(state', state, s)
      BY <1>1, <2>1, RemovedKeeps
    <2> QED BY <2>2 DEF Kept, Removes, Agree
  <1>7. CASE Reread
    <2>1. PICK table : /\ Map(table) /\ DOMAIN table = DOMAIN state.table
                       /\ \A s \in DOMAIN table : Keeps(state.table[s], table[s])
                       /\ state' = Rebuilt([state EXCEPT !.table = table])
      BY <1>7 DEF Reread
    <2>2. state'.table = table
      BY <1>1, <2>1, RebuiltKeeps
    <2> QED BY <2>1, <2>2 DEF Kept, Keeps
  <1> QED BY <1>2, <1>3, <1>4, <1>5, <1>6, <1>7 DEF StateMove

\* A thread that is changed, and how the turns go on.
LEMMA ChangedKeeps ==
    ASSUME CodexInv, NEW t \in Thread, NEW kind, NEW turn, NEW asks,
           Changed(t, kind, turn, asks), UNCHANGED plan,
           turns' = turns \/ (turns' = turns + 1 /\ turns < plan.turns),
           turn <= turns', kind # "absent" \/ kind = codex[t].kind
    PROVE  /\ CodexInv'
           /\ \A u \in Thread : codex[u].kind # "absent" => codex'[u].kind # "absent"
           /\ \A u \in Thread \ {t} : codex'[u].turn = codex[u].turn
           /\ codex'[t].turn = turn
  <1>1. plan \in Plans /\ plan.turns \in Nat
    BY SessionAssumption DEF CodexInv
  <1>2. turns \in Nat /\ turns' \in Nat /\ turns <= turns' /\ turns' <= plan.turns
    BY <1>1 DEF CodexInv
  <1>3. \A u \in Thread : codex[u].turn \in Nat /\ codex'[u].turn \in Nat
    BY DEF CodexInv, Changed, Threads
  <1>4. ASSUME NEW u \in Thread PROVE codex'[u].turn <= turns'
    <2>1. CASE u = t
      BY <2>1 DEF Changed
    <2>2. CASE u # t
      <3>1. codex'[u].turn = codex[u].turn /\ codex[u].turn <= turns
        BY <2>2 DEF Changed, CodexInv
      <3> QED BY <1>2, <1>3, <3>1
    <2> QED BY <2>1, <2>2
  <1>5. codex' \in [Thread -> Threads]
    BY DEF Changed
  <1>6. CodexInv'
    BY <1>1, <1>2, <1>4, <1>5 DEF CodexInv
  <1>7. \A u \in Thread : codex[u].kind # "absent" => codex'[u].kind # "absent"
    BY DEF Changed
  <1> QED BY <1>6, <1>7 DEF Changed

\* The channel stays in order, whatever is told or taken.
LEMMA EventsKeep ==
    ASSUME EventsInv, born \subseteq born',
           \/ UNCHANGED events
           \/ \E t, n : Announces(t, n)
           \/ Takes
           \/ events' = <<>>
    PROVE  EventsInv'
  <1>1. CASE UNCHANGED events
    BY <1>1 DEF EventsInv
  <1>2. CASE \E t, n : Announces(t, n)
    <2>1. PICK d : Grows(d)
      BY <1>2 DEF Announces
    <2> QED BY <2>1, GrowsKeeps
  <1>3. CASE Takes
    BY <1>3, TakesKeeps
  <1>4. CASE events' = <<>>
    <2>1. events' \in Seq(Notices) /\ Range(events') = {}
      BY <1>4 DEF Range
    <2> QED BY <2>1 DEF EventsInv
  <1> QED BY <1>1, <1>2, <1>3, <1>4

\* When nothing becomes of the threads.
LEMMA SameCodex ==
    ASSUME CodexInv, UNCHANGED <<plan, codex, turns>>
    PROVE  CodexInv' /\ CodexStep
  BY DEF CodexInv, CodexStep

\* A thread that no session has archived may get a turn; others only lose theirs.
LEMMA ChangedStep ==
    ASSUME CodexInv, NEW t \in Thread, NEW kind, NEW turn, NEW asks,
           Changed(t, kind, turn, asks), UNCHANGED plan,
           turns' = turns \/ (turns' = turns + 1 /\ turns < plan.turns),
           turn <= turns', kind # "absent" \/ kind = codex[t].kind,
           \/ turn \in {0, codex[t].turn}
           \/ \A s \in DOMAIN state.table :
                state.table[s].thread = t => ~state.table[s].archived
    PROVE  CodexInv' /\ CodexStep
  <1>1. /\ CodexInv'
        /\ \A u \in Thread : codex[u].kind # "absent" => codex'[u].kind # "absent"
        /\ \A u \in Thread \ {t} : codex'[u].turn = codex[u].turn
        /\ codex'[t].turn = turn
    BY ChangedKeeps
  <1> QED BY <1>1 DEF CodexStep

\* A session is made: new, and resume local.
LEMMA NewMoves ==
    ASSUME BaseInv, NEW s \in Session, NEW t \in Thread, New(s, t)
    PROVE  Moves
  <1>1. /\ StateInv /\ CodexInv /\ ThreadsThere /\ EventsInv /\ t \in Thread
        /\ codex \in [Thread -> Threads] /\ codex[t].turn <= turns
    BY DEF BaseInv, CodexInv
  <1>2. /\ s \notin born /\ s \in born' /\ born' = born \cup {s} /\ UNCHANGED plan
        /\ codex[t].kind = "absent"
    BY DEF New
  <1>3. ~Attached(t)
    BY <1>1, <1>2 DEF Attached, ThreadsThere
  <1>4. /\ Record(t) \in Proper /\ Record(t).thread = t /\ ~Record(t).archived
        /\ Created(t) \in Proper /\ Created(t).thread = t /\ ~Created(t).archived
    BY NewRecords
  <1>5. /\ born \subseteq born' /\ born' \subseteq Session \cup Approval
    BY <1>1, <1>2 DEF StateInv
  <1>6. \A u \in DOMAIN state.table :
          state.table[u].thread = t => ~state.table[u].archived
    BY <1>3 DEF Attached
  <1>7. CASE StartTurn(s, Created(t))
    <2>1. /\ turns < plan.turns /\ turns' = turns + 1
          /\ Changed(t, "listed", turns', {})
          /\ Announces(t, turns')
          /\ \/ Set(s, [Created(t) EXCEPT !.turn = turns', !.state = "Running"])
             \/ Set(s, Created(t))
      BY <1>1, <1>4, <1>7, StartTurnIs
    <2>2. turns' \in Nat /\ turns' <= turns' /\ "listed" # "absent"
      BY <1>1, <2>1 DEF CodexInv
    <2>3. CodexInv' /\ CodexStep
      BY <1>1, <1>2, <1>6, <2>1, <2>2, ChangedStep
    <2>4. \E r \in Proper : r.thread = t /\ ~r.archived /\ state' = Upsert(state, s, r)
      <3>1. Keeps(Created(t), [Created(t) EXCEPT !.turn = turns', !.state = "Running"])
        BY <1>4, <2>2, RecordMoves
      <3> QED BY <1>4, <2>1, <3>1 DEF Set, Keeps
    <2>5. codex'[t].kind # "absent"
      BY <2>1 DEF Changed
    <2>6. Made
      BY <1>1, <1>2, <1>3, <2>4, <2>5, MakeIs
    <2>7. EventsInv'
      BY <1>1, <1>5, <2>1, EventsKeep
    <2> QED BY <1>5, <2>3, <2>6, <2>7 DEF Moves, StateMove
  <1>8. CASE /\ codex' = [codex EXCEPT ![t].kind = "listed"]
             /\ \/ Set(s, Created(t))
                \/ CreationFails(s, t)
                \/ UNCHANGED state
             /\ UNCHANGED <<turns, events>>
    <2>1. Changed(t, "listed", codex[t].turn, codex[t].asks)
      BY <1>1, <1>8, CodexMoves
    <2>2. CodexInv' /\ CodexStep
      BY <1>1, <1>2, <1>6, <1>8, <2>1, ChangedStep
    <2>3. codex'[t].kind # "absent"
      BY <2>1 DEF Changed
    <2>4. UNCHANGED state \/ state' \in {Upsert(state, s, Created(t)), Upsert(state, s, Record(t))}
      BY <1>8 DEF Set, CreationFails
    <2>5. UNCHANGED state \/ Made
      BY <1>1, <1>2, <1>3, <1>4, <2>3, <2>4, MakeIs
    <2>6. EventsInv'
      BY <1>1, <1>5, <1>8, EventsKeep
    <2> QED BY <1>5, <2>2, <2>5, <2>6 DEF Moves, StateMove
  <1> QED BY <1>7, <1>8 DEF New

\* So it is when the thread was there before.
LEMMA ResumeLocalMoves ==
    ASSUME BaseInv, NEW s \in Session, NEW t \in Thread, ResumeLocal(s, t)
    PROVE  Moves
  <1>1. /\ StateInv /\ CodexInv /\ EventsInv
        /\ codex \in [Thread -> Threads] /\ codex[t].turn <= turns /\ turns \in Nat
    BY DEF BaseInv, CodexInv
  <1>2. /\ s \notin born /\ s \in born' /\ born' = born \cup {s} /\ UNCHANGED plan
        /\ UNCHANGED turns /\ codex[t].kind = "listed" /\ ~Attached(t)
    BY DEF ResumeLocal
  <1>3. /\ Record(t) \in Proper /\ Record(t).thread = t /\ ~Record(t).archived
        /\ Created(t) \in Proper /\ Created(t).thread = t /\ ~Created(t).archived
    BY NewRecords
  <1>4. /\ born \subseteq born' /\ born' \subseteq Session \cup Approval
    BY <1>1, <1>2 DEF StateInv
  <1>5. UNCHANGED state \/ state' \in {Upsert(state, s, Created(t)), Upsert(state, s, Record(t))}
    BY DEF ResumeLocal, Set, CreationFails
  <1>6. CASE UNCHANGED <<codex, events>>
    <2>1. CodexInv' /\ CodexStep
      BY <1>1, <1>2, <1>6, SameCodex
    <2>2. codex'[t].kind # "absent"
      BY <1>2, <1>6
    <2>3. UNCHANGED state \/ Made
      BY <1>1, <1>2, <1>3, <1>5, <2>2, MakeIs
    <2>4. EventsInv'
      BY <1>1, <1>4, <1>6, EventsKeep
    <2> QED BY <1>4, <2>1, <2>3, <2>4 DEF Moves, StateMove
  <1>7. CASE CodexArchive(t)
    <2>1. Changed(t, "archived", 0, {}) /\ (UNCHANGED events \/ Announces(t, 0))
      BY <1>1, <1>7, CodexArchiveIs
    <2>2. CodexInv' /\ CodexStep
      BY <1>1, <1>2, <2>1, ChangedStep
    <2>3. codex'[t].kind # "absent"
      BY <2>1 DEF Changed
    <2>4. UNCHANGED state \/ Made
      BY <1>1, <1>2, <1>3, <1>5, <2>3, MakeIs
    <2>5. EventsInv'
      BY <1>1, <1>4, <2>1, EventsKeep
    <2> QED BY <1>4, <2>2, <2>4, <2>5 DEF Moves, StateMove
  <1> QED BY <1>6, <1>7 DEF ResumeLocal

\* A session is archived, by command or by cleanup, and purged.
LEMMA ArchiveMoves ==
    ASSUME BaseInv, NEW s \in DOMAIN state.table, Archive(s)
    PROVE  Moves
  <1>1. /\ StateInv /\ CodexInv /\ EventsInv /\ turns \in Nat
        /\ born \subseteq Session \cup Approval
    BY DEF BaseInv, CodexInv, StateInv
  <1>2. PICK r : r = state.table[s]
    OBVIOUS
  <1>3. r \in Proper /\ r.thread \in Thread
    BY <1>1, <1>2, OwnThread
  <1>4. PICK archived : archived = [r EXCEPT !.archived = TRUE, !.state = "Archived"]
    OBVIOUS
  <1>5. /\ archived \in Proper /\ archived.thread = r.thread
        /\ archived.archived /\ archived.state = "Archived"
    BY <1>3, <1>4, NewRecords
  <1>6. UNCHANGED <<plan, born, turns>>
    BY DEF Archive
  <1>7. \/ state' = WithoutApprovals(Upsert(state, s, archived), s)
        \/ UNCHANGED state
    BY <1>2, <1>4 DEF Archive
  <1>8. StateMove
    BY <1>2, <1>5, <1>7 DEF StateMove, ArchivedOne
  <1>9. CASE CodexArchive(r.thread)
    <2>1. Changed(r.thread, "archived", 0, {}) /\ (UNCHANGED events \/ Announces(r.thread, 0))
      BY <1>1, <1>3, <1>9, CodexArchiveIs
    <2>2. CodexInv' /\ CodexStep
      BY <1>1, <1>3, <1>6, <2>1, ChangedStep
    <2>3. EventsInv'
      BY <1>1, <1>6, <2>1, EventsKeep
    <2> QED BY <1>1, <1>6, <1>8, <2>2, <2>3 DEF Moves
  <1>10. CASE UNCHANGED <<codex, events>>
    <2>1. CodexInv' /\ CodexStep
      BY <1>1, <1>6, <1>10, SameCodex
    <2>2. EventsInv'
      BY <1>1, <1>6, <1>10, EventsKeep
    <2> QED BY <1>1, <1>6, <1>8, <2>1, <2>2 DEF Moves
  <1> QED BY <1>2, <1>9, <1>10 DEF Archive

\* A step that writes the worker's state and nothing else.
LEMMA QuietMoves ==
    ASSUME BaseInv, StateMove, UNCHANGED <<plan, born, codex, turns, events>>
    PROVE  Moves
  <1>1. CodexInv /\ EventsInv /\ born \subseteq Session \cup Approval
    BY DEF BaseInv, StateInv
  <1>2. CodexInv' /\ CodexStep
    BY <1>1, SameCodex
  <1>3. EventsInv'
    BY <1>1, EventsKeep
  <1> QED BY <1>1, <1>2, <1>3 DEF Moves

\* A purge writes the worker's state alone.
LEMMA PurgeMoves ==
    ASSUME BaseInv, NEW s \in Session, Purge(s)
    PROVE  Moves
  BY QuietMoves DEF Purge, Purged, StateMove

\* A session is probed, or set to go on.
LEMMA DiagnoseMoves ==
    ASSUME BaseInv, NEW s \in Session, Diagnose(s)
    PROVE  Moves
  <1>1. StateInv /\ s \in DOMAIN state.table
    BY DEF BaseInv, Diagnose
  <1>2. state.table[s] \in Proper
    BY <1>1, OwnThread
  <1>3. PICK probe : Set(s, Probed(state.table[s], probe))
    BY DEF Diagnose
  <1>4. Keeps(state.table[s], Probed(state.table[s], probe))
    BY <1>2, RecordMoves
  <1>5. StateMove
    BY <1>1, <1>3, <1>4, SetRewrites DEF StateMove
  <1> QED BY <1>5, QuietMoves DEF Diagnose

\* So does a resume.
LEMMA ResumeMoves ==
    ASSUME BaseInv, NEW s \in Session, Resume(s)
    PROVE  Moves
  <1>1. StateInv /\ s \in DOMAIN state.table
    BY DEF BaseInv, Resume
  <1>2. state.table[s] \in Proper /\ "Idle" \in States \ {"Archived"}
    BY <1>1, OwnThread DEF States
  <1>3. Keeps(state.table[s], [state.table[s] EXCEPT !.state = "Idle"])
    BY <1>2, RecordMoves
  <1>4. StateMove
    BY <1>1, <1>3, SetRewrites DEF StateMove, Resume
  <1> QED BY <1>4, QuietMoves DEF Resume

\* A session that takes prompts is indexed, so it is not archived and its thread leads
\* to it.
LEMMA Prompted ==
    ASSUME StateInv, NEW s \in state.rooms
    PROVE  /\ s \in DOMAIN state.table /\ Routed(state.table[s])
           /\ \A u \in DOMAIN state.table :
                state.table[u].thread = state.table[s].thread => u = s
  BY DEF StateInv, Tables, Indexes, RoutedIn, Distinct

\* A prompt starts a turn.
LEMMA PromptMoves ==
    ASSUME BaseInv, NEW s \in Session, Prompt(s)
    PROVE  Moves
  <1>1. /\ StateInv /\ CodexInv /\ EventsInv /\ turns \in Nat
        /\ born \subseteq Session \cup Approval
    BY DEF BaseInv, CodexInv, StateInv
  <1>2. PICK r : r = state.table[s]
    OBVIOUS
  <1>3. /\ s \in DOMAIN state.table /\ Routed(r)
        /\ \A u \in DOMAIN state.table : state.table[u].thread = r.thread => u = s
    BY <1>1, <1>2, Prompted DEF Prompt
  <1>4. r \in Proper /\ r.thread \in Thread
    BY <1>1, <1>2, <1>3, OwnThread
  <1>5. /\ turns < plan.turns /\ turns' = turns + 1
        /\ Changed(r.thread, "listed", turns', {})
        /\ Announces(r.thread, turns')
        /\ \/ Set(s, [r EXCEPT !.turn = turns', !.state = "Running"])
           \/ Set(s, r)
    BY <1>1, <1>2, <1>4, StartTurnIs DEF Prompt
  <1>6. turns' \in Nat /\ turns' <= turns' /\ UNCHANGED <<plan, born>>
    BY <1>1, <1>5 DEF Prompt
  <1>7. Keeps(r, r) /\ Keeps(r, [r EXCEPT !.turn = turns', !.state = "Running"])
    BY <1>4, <1>6, RecordMoves DEF Keeps
  <1>8. StateMove
    BY <1>1, <1>2, <1>3, <1>5, <1>7, SetRewrites DEF StateMove
  <1>9. \A u \in DOMAIN state.table :
          state.table[u].thread = r.thread => ~state.table[u].archived
    BY <1>2, <1>3 DEF Routed
  <1>10. CodexInv' /\ CodexStep
    BY <1>1, <1>4, <1>5, <1>6, <1>9, ChangedStep
  <1>11. EventsInv'
    BY <1>1, <1>5, <1>6, EventsKeep
  <1> QED BY <1>1, <1>6, <1>8, <1>10, <1>11 DEF Moves

\* A pause ends the turn that the session knows, if it runs.
LEMMA PauseMoves ==
    ASSUME BaseInv, NEW s \in Session, Pause(s)
    PROVE  Moves
  <1>1. /\ StateInv /\ CodexInv /\ EventsInv /\ turns \in Nat
        /\ born \subseteq Session \cup Approval
    BY DEF BaseInv, CodexInv, StateInv
  <1>2. PICK r : r = state.table[s]
    OBVIOUS
  <1>3. s \in DOMAIN state.table /\ UNCHANGED <<plan, born, turns>>
    BY DEF Pause
  <1>4. r \in Proper /\ r.thread \in Thread /\ "Paused" \in States \ {"Archived"}
    BY <1>1, <1>2, <1>3, OwnThread DEF States
  <1>5. Keeps(r, [r EXCEPT !.state = "Paused"])
    BY <1>4, RecordMoves
  <1>6. UNCHANGED state \/ Set(s, [r EXCEPT !.state = "Paused"])
    BY <1>2 DEF Pause
  <1>7. StateMove
    BY <1>1, <1>2, <1>3, <1>5, <1>6, SetRewrites DEF StateMove
  <1>8. CASE TurnEnds(r.thread)
    <2>1. Changed(r.thread, codex[r.thread].kind, 0, {}) /\ Announces(r.thread, 0)
      BY <1>1, <1>4, <1>8, TurnEndsIs
    <2>2. CodexInv' /\ CodexStep
      BY <1>1, <1>3, <1>4, <2>1, ChangedStep
    <2>3. EventsInv'
      BY <1>1, <1>3, <2>1, EventsKeep
    <2> QED BY <1>1, <1>3, <1>7, <2>2, <2>3 DEF Moves
  <1>9. CASE UNCHANGED <<codex, events>>
    BY <1>3, <1>7, <1>9, QuietMoves
  <1> QED BY <1>2, <1>8, <1>9 DEF Pause

\* The approvals without one that was answered.
LEMMA AnsweredRefers ==
    ASSUME StateInv, NEW a \in DOMAIN state.pending,
           NEW st, st = [state EXCEPT !.pending = Drop(@, {a})]
    PROVE  /\ Refers(st) /\ DOMAIN st.pending = DOMAIN state.pending \ {a}
           /\ Agree(st.pending, state.pending, DOMAIN state.pending \ {a})
  <1>1. PICK pending : pending = Drop(state.pending, {a})
    OBVIOUS
  <1>2. st = [state EXCEPT !.pending = pending]
    BY <1>1
  <1>3. /\ DOMAIN pending = DOMAIN state.pending \ {a}
        /\ Agree(pending, state.pending, DOMAIN state.pending \ {a})
    BY <1>1, DropIs
  <1>4. /\ Whole(st) /\ st.table = state.table /\ st.rooms = state.rooms
        /\ st.threads = state.threads /\ st.pending = pending
    BY <1>2 DEF StateInv, Tables, Whole
  <1>5. Asked(st)
    BY <1>3, <1>4 DEF StateInv, Asked, Agree
  <1> QED BY <1>3, <1>4, <1>5 DEF Refers, Same, StateInv

\* The approvals with one that is asked for an indexed thread.
LEMMA AskedRefers ==
    ASSUME StateInv, NEW t \in DOMAIN state.threads, NEW a \in born,
           NEW st, st = [state EXCEPT !.pending =
                           Put(@, a, [session |-> state.threads[t], thread |-> t])]
    PROVE  /\ Refers(st) /\ DOMAIN st.pending = DOMAIN state.pending \cup {a}
           /\ Gives(st.pending, a, [session |-> state.threads[t], thread |-> t])
           /\ Agree(st.pending, state.pending, DOMAIN state.pending \ {a})
  <1>1. PICK p : p = [session |-> state.threads[t], thread |-> t]
    OBVIOUS
  <1>2. PICK pending : pending = Put(state.pending, a, p)
    OBVIOUS
  <1>3. st = [state EXCEPT !.pending = pending]
    BY <1>1, <1>2
  <1>4. /\ DOMAIN pending = DOMAIN state.pending \cup {a} /\ Gives(pending, a, p)
        /\ Agree(pending, state.pending, DOMAIN state.pending \ {a})
    BY <1>2, PutIs
  <1>5. /\ Whole(st) /\ st.table = state.table /\ st.rooms = state.rooms
        /\ st.threads = state.threads /\ st.pending = pending
    BY <1>3 DEF StateInv, Tables, Whole
  <1>6. /\ state.threads[t] \in DOMAIN state.table /\ t \in Thread
        /\ state.table[state.threads[t]].thread = t
        /\ ~state.table[state.threads[t]].archived
    BY Led DEF Indexed, Routed
  <1>7. Asked(st)
    <2> SUFFICES ASSUME NEW b \in DOMAIN pending
                 PROVE  /\ pending[b] \in [session : DOMAIN state.table, thread : Thread]
                        /\ ~state.table[pending[b].session].archived
                        /\ state.table[pending[b].session].thread = pending[b].thread
      BY <1>5 DEF Asked
    <2>1. CASE b = a
      BY <1>1, <1>4, <1>6, <2>1 DEF Gives
    <2>2. CASE b # a
      <3>1. b \in DOMAIN state.pending /\ pending[b] = state.pending[b]
        BY <1>4, <2>2 DEF Agree
      <3> QED BY <3>1 DEF StateInv, Asked
    <2> QED BY <2>1, <2>2
  <1> QED BY <1>1, <1>4, <1>5, <1>7 DEF Refers, Same, StateInv

\* A record written with the approvals changed.
LEMMA RefersIs ==
    ASSUME StateInv, NEW st, Refers(st), NEW s \in DOMAIN state.table, NEW r,
           Keeps(state.table[s], r), state' = Upsert(st, s, r)
    PROVE  Rewritten /\ Inserted(state', st, s, r)
  <1>1. Tables(state) /\ Tables(st) /\ st.table = state.table
    BY SameKeeps DEF StateInv, Refers, Same
  <1>2. r \in Proper /\ r.thread = st.table[s].thread
    BY <1>1 DEF Keeps
  <1>3. Owns(st, s, r)
    BY <1>1, <1>2, KeepsOwns
  <1>4. Inserted(state', st, s, r)
    BY <1>1, <1>2, <1>3, UpsertIs
  <1> QED BY <1>4 DEF Rewritten

\* An approval is answered.
LEMMA ResolveMoves ==
    ASSUME BaseInv, NEW a \in Approval, ResolveApproval(a)
    PROVE  Moves
  <1>1. /\ StateInv /\ CodexInv /\ EventsInv /\ turns \in Nat
        /\ born \subseteq Session \cup Approval /\ codex \in [Thread -> Threads]
        /\ a \in DOMAIN state.pending
    BY DEF BaseInv, CodexInv, StateInv, ResolveApproval
  <1>2. PICK p : p = state.pending[a]
    OBVIOUS
  <1>3. p.session \in DOMAIN state.table /\ p.thread \in Thread
    BY <1>1, <1>2 DEF StateInv, Asked
  <1>4. UNCHANGED <<plan, born, turns, events>>
    BY DEF ResolveApproval
  <1>5. CASE /\ codex' = [codex EXCEPT ![p.thread].asks = @ \ {a}]
             /\ state' = Upsert([state EXCEPT !.pending = Drop(@, {a})], p.session,
                                [state.table[p.session] EXCEPT !.state = "Running"])
    <2>1. PICK st : st = [state EXCEPT !.pending = Drop(@, {a})]
      OBVIOUS
    <2>2. Refers(st)
      BY <1>1, <2>1, AnsweredRefers
    <2>3. state.table[p.session] \in Proper /\ "Running" \in States \ {"Archived"}
      BY <1>1, <1>3, OwnThread DEF States
    <2>4. Keeps(state.table[p.session], [state.table[p.session] EXCEPT !.state = "Running"])
      BY <2>3, RecordMoves
    <2>5. state' = Upsert(st, p.session, [state.table[p.session] EXCEPT !.state = "Running"])
      BY <1>5, <2>1
    <2>6. Rewritten
      BY <1>1, <1>3, <2>2, <2>4, <2>5, RefersIs
    <2>7. Changed(p.thread, codex[p.thread].kind, codex[p.thread].turn,
                  codex[p.thread].asks \ {a})
      BY <1>1, <1>3, <1>5, CodexMoves
    <2>8. codex[p.thread].turn <= turns'
      BY <1>1, <1>3, <1>4 DEF CodexInv
    <2>9. CodexInv' /\ CodexStep
      BY <1>1, <1>3, <1>4, <2>7, <2>8, ChangedStep
    <2>10. EventsInv'
      BY <1>1, <1>4, EventsKeep
    <2> QED BY <1>1, <1>4, <2>6, <2>9, <2>10 DEF Moves, StateMove
  <1>6. CASE UNCHANGED <<state, codex>>
    BY <1>4, <1>6, QuietMoves DEF StateMove
  <1> QED BY <1>2, <1>5, <1>6 DEF ResolveApproval, AnswerFails

\* Codex ends a turn, or asks.
LEMMA CompleteMoves ==
    ASSUME BaseInv, NEW t \in Thread, CodexComplete(t)
    PROVE  Moves
  <1>1. /\ CodexInv /\ EventsInv /\ turns \in Nat /\ born \subseteq Session \cup Approval
        /\ UNCHANGED <<plan, state, born, turns>>
    BY DEF BaseInv, CodexInv, StateInv, CodexComplete
  <1>2. Changed(t, codex[t].kind, 0, {}) /\ Announces(t, 0)
    BY <1>1, TurnEndsIs DEF CodexComplete
  <1>3. CodexInv' /\ CodexStep
    BY <1>1, <1>2, ChangedStep
  <1>4. EventsInv'
    BY <1>1, <1>2, EventsKeep
  <1> QED BY <1>1, <1>3, <1>4 DEF Moves, StateMove

\* A request in the channel.
Request(t, a) == [kind |-> "request", thread |-> t, id |-> a]

\* A question of Codex is one event and one more thing its thread waits for.
LEMMA CodexAskIs ==
    ASSUME CodexInv, EventsInv, NEW t \in Thread, NEW a \in Approval, CodexAsk(t, a)
    PROVE  /\ Changed(t, codex[t].kind, codex[t].turn, codex[t].asks \cup {a})
           /\ Grows(<<Request(t, a)>>) /\ <<Request(t, a)>> \in Seq(Notices)
           /\ Range(<<Request(t, a)>>) = {Request(t, a)}
  <1>1. codex \in [Thread -> Threads] /\ events \in Seq(Notices)
    BY DEF CodexInv, EventsInv
  <1>2. Changed(t, codex[t].kind, codex[t].turn, codex[t].asks \cup {a})
    BY <1>1, CodexMoves DEF CodexAsk
  <1>3. Request(t, a) \in Notices /\ Request(t, a).id = a /\ a \in born'
    BY DEF Request, Notices, CodexAsk
  <1>4. events' = Append(events, Request(t, a))
    BY DEF CodexAsk, Request
  <1>5. events' = events \o <<Request(t, a)>>
    BY <1>1, <1>3, <1>4, AppendIsConcat
  <1>6. <<Request(t, a)>> \in Seq(Notices) /\ Range(<<Request(t, a)>>) = {Request(t, a)}
    BY <1>3 DEF Range
  <1> QED BY <1>2, <1>3, <1>5, <1>6 DEF Grows

\* That keeps every part in order.
LEMMA AskMoves ==
    ASSUME BaseInv, NEW t \in Thread, NEW a \in Approval, CodexAsk(t, a)
    PROVE  Moves
  <1>1. /\ CodexInv /\ EventsInv /\ turns \in Nat /\ codex[t].turn <= turns
        /\ born \subseteq born' /\ born' \subseteq Session \cup Approval
        /\ UNCHANGED <<plan, state, turns>>
    BY DEF BaseInv, CodexInv, StateInv, CodexAsk
  <1>2. /\ Changed(t, codex[t].kind, codex[t].turn, codex[t].asks \cup {a})
        /\ Grows(<<Request(t, a)>>)
    BY <1>1, CodexAskIs
  <1>3. CodexInv' /\ CodexStep
    BY <1>1, <1>2, ChangedStep
  <1>4. EventsInv'
    BY <1>1, <1>2, GrowsKeeps
  <1> QED BY <1>1, <1>3, <1>4 DEF Moves, StateMove

\* The loop takes an event: what it may find.
LEMMA Took ==
    ASSUME EventsInv, NEW kind, TakeEvent(kind)
    PROVE  /\ Takes /\ Head(events) \in Notices /\ Head(events).kind = kind
           /\ Head(events).thread \in Thread
           /\ kind = "started" => Head(events).turn \in Nat
           /\ kind = "request" => Head(events).id \in Approval
  <1>1. Takes /\ Head(events).kind = kind
    BY DEF TakeEvent, Takes
  <1>2. Head(events) \in Notices
    BY <1>1, HeadTailProperties DEF EventsInv, Takes
  <1> QED BY <1>1, <1>2 DEF Notices

\* The session of a thread, if one is indexed, follows.
LEMMA FollowIs ==
    ASSUME StateInv, NEW t, NEW r, Follow(t, r),
           t \in DOMAIN state.threads => Keeps(Of(t), r)
    PROVE  /\ StateMove
           /\ \/ t \in DOMAIN state.threads /\ Inserted(state', state, state.threads[t], r)
              \/ t \notin DOMAIN state.threads /\ UNCHANGED state
  <1>1. CASE t \in DOMAIN state.threads
    <2>1. state.threads[t] \in DOMAIN state.table /\ Of(t) = state.table[state.threads[t]]
      BY <1>1, Led
    <2>2. Set(state.threads[t], r)
      BY <1>1 DEF Follow
    <2> QED BY <1>1, <2>1, <2>2, SetIs DEF StateMove
  <1>2. CASE t \notin DOMAIN state.threads
    BY <1>2 DEF Follow, StateMove
  <1> QED BY <1>1, <1>2

\* What the session of an event's thread becomes.
LEMMA StatusIs ==
    ASSUME StateInv, EventsInv, StatusChanged
    PROVE  /\ Takes /\ Head(events).kind = "status" /\ Head(events).thread \in Thread
           /\ \E x \in States \ {"Archived", "Failed"} :
                Follow(Head(events).thread, [Of(Head(events).thread) EXCEPT !.state = x])
           /\ UNCHANGED <<plan, born, codex, turns>>
  <1>1. TakeEvent("status")
    BY DEF StatusChanged
  <1>2. /\ Takes /\ Head(events).kind = "status" /\ Head(events).thread \in Thread
    BY <1>1, Took
  <1>3. PICK x : x = IF Head(events).to = "active" THEN "Running"
                     ELSE IF Of(Head(events).thread).final THEN "Completed" ELSE "Idle"
    OBVIOUS
  <1>4. x \in States \ {"Archived", "Failed"}
    BY <1>3 DEF States
  <1>5. Follow(Head(events).thread, [Of(Head(events).thread) EXCEPT !.state = x])
    BY <1>3 DEF StatusChanged
  <1> QED BY <1>2, <1>4, <1>5 DEF StatusChanged

\* An event of a thread's status is taken.
LEMMA StatusMoves ==
    ASSUME BaseInv, StatusChanged
    PROVE  Moves
  <1>1. /\ StateInv /\ CodexInv /\ EventsInv /\ born \subseteq Session \cup Approval
    BY DEF BaseInv, StateInv
  <1>2. PICK t : t = Head(events).thread
    OBVIOUS
  <1>3. /\ Takes /\ UNCHANGED <<plan, born, codex, turns>>
        /\ \E x \in States \ {"Archived", "Failed"} : Follow(t, [Of(t) EXCEPT !.state = x])
    BY <1>1, <1>2, StatusIs
  <1>4. PICK x \in States \ {"Archived", "Failed"} : Follow(t, [Of(t) EXCEPT !.state = x])
    BY <1>3
  <1>5. t \in DOMAIN state.threads => Keeps(Of(t), [Of(t) EXCEPT !.state = x])
    BY <1>1, Led, RecordMoves
  <1>6. StateMove
    BY <1>1, <1>4, <1>5, FollowIs
  <1>7. CodexInv' /\ CodexStep
    BY <1>1, <1>3, SameCodex
  <1>8. EventsInv'
    BY <1>1, <1>3, EventsKeep
  <1> QED BY <1>1, <1>3, <1>6, <1>7, <1>8 DEF Moves

\* The start of a turn is taken.
LEMMA StartedMoves ==
    ASSUME BaseInv, TurnStarted
    PROVE  Moves
  <1>1. /\ StateInv /\ CodexInv /\ EventsInv /\ born \subseteq Session \cup Approval
    BY DEF BaseInv, StateInv
  <1>2. PICK t : t = Head(events).thread
    OBVIOUS
  <1>3. PICK n : n = Head(events).turn
    OBVIOUS
  <1>4. TakeEvent("started")
    BY DEF TurnStarted
  <1>5. /\ Takes /\ UNCHANGED <<plan, born, codex, turns>> /\ n \in Nat
        /\ Follow(t, [Of(t) EXCEPT !.turn = n, !.state = "Running"])
    BY <1>1, <1>2, <1>3, <1>4, Took DEF TurnStarted
  <1>6. t \in DOMAIN state.threads =>
          Keeps(Of(t), [Of(t) EXCEPT !.turn = n, !.state = "Running"])
    BY <1>1, <1>5, Led, RecordMoves
  <1>7. StateMove
    BY <1>1, <1>5, <1>6, FollowIs
  <1>8. CodexInv' /\ CodexStep
    BY <1>1, <1>5, SameCodex
  <1>9. EventsInv'
    BY <1>1, <1>5, EventsKeep
  <1> QED BY <1>1, <1>5, <1>7, <1>8, <1>9 DEF Moves

\* The end of a turn is taken.
LEMMA CompletedMoves ==
    ASSUME BaseInv, TurnCompleted
    PROVE  Moves
  <1>1. /\ StateInv /\ CodexInv /\ EventsInv /\ born \subseteq Session \cup Approval
    BY DEF BaseInv, StateInv
  <1>2. PICK t : t = Head(events).thread
    OBVIOUS
  <1>3. TakeEvent("completed")
    BY DEF TurnCompleted
  <1>4. /\ Takes /\ UNCHANGED <<plan, born, codex, turns>>
        /\ Follow(t, Final(Of(t)))
    BY <1>1, <1>2, <1>3, Took DEF TurnCompleted
  <1>5. t \in DOMAIN state.threads => Keeps(Of(t), Final(Of(t)))
    BY <1>1, Led, RecordMoves
  <1>6. StateMove
    BY <1>1, <1>4, <1>5, FollowIs
  <1>7. CodexInv' /\ CodexStep
    BY <1>1, <1>4, SameCodex
  <1>8. EventsInv'
    BY <1>1, <1>4, EventsKeep
  <1> QED BY <1>1, <1>4, <1>6, <1>7, <1>8 DEF Moves

\* A request becomes an approval of the session, unless it has none or its card fails.
LEMMA RequestIs ==
    ASSUME StateInv, EventsInv, RequestApproval
    PROVE  LET t == Head(events).thread
               a == Head(events).id
           IN  /\ Takes /\ Head(events) \in Notices /\ Head(events).kind = "request"
               /\ t \in Thread /\ a \in Approval
               /\ UNCHANGED <<plan, born, codex, turns>>
               /\ \/ /\ t \in DOMAIN state.threads /\ Rewritten
                     /\ \E st : /\ Refers(st) /\ DOMAIN st.pending = DOMAIN state.pending \cup {a}
                                /\ Gives(st.pending, a,
                                         [session |-> state.threads[t], thread |-> t])
                                /\ Agree(st.pending, state.pending, DOMAIN state.pending \ {a})
                                /\ Inserted(state', st, state.threads[t],
                                            [Of(t) EXCEPT !.state = "WaitingApproval"])
                                /\ Keeps(Of(t), [Of(t) EXCEPT !.state = "WaitingApproval"])
                  \/ UNCHANGED state /\ (t \notin DOMAIN state.threads \/ May("card"))
  <1>1. PICK t : t = Head(events).thread
    OBVIOUS
  <1>2. PICK a : a = Head(events).id
    OBVIOUS
  <1>3. TakeEvent("request")
    BY DEF RequestApproval
  <1>4. /\ Takes /\ Head(events) \in Notices /\ Head(events).kind = "request"
        /\ t \in Thread /\ a \in Approval /\ UNCHANGED <<plan, born, codex, turns>>
    BY <1>1, <1>2, <1>3, Took DEF RequestApproval
  <1>5. a \in born
    BY <1>2, <1>4, TakesKeeps DEF EventsInv
  <1>6. ASSUME NEW st, t \in DOMAIN state.threads,
               st = [state EXCEPT !.pending =
                       Put(@, a, [session |-> state.threads[t], thread |-> t])],
               state' = Upsert(st, state.threads[t],
                               [Of(t) EXCEPT !.state = "WaitingApproval"])
        PROVE  /\ Rewritten /\ Refers(st)
               /\ DOMAIN st.pending = DOMAIN state.pending \cup {a}
               /\ Gives(st.pending, a, [session |-> state.threads[t], thread |-> t])
               /\ Agree(st.pending, state.pending, DOMAIN state.pending \ {a})
               /\ Inserted(state', st, state.threads[t],
                           [Of(t) EXCEPT !.state = "WaitingApproval"])
               /\ Keeps(Of(t), [Of(t) EXCEPT !.state = "WaitingApproval"])
    <2>1. /\ Refers(st) /\ DOMAIN st.pending = DOMAIN state.pending \cup {a}
          /\ Gives(st.pending, a, [session |-> state.threads[t], thread |-> t])
          /\ Agree(st.pending, state.pending, DOMAIN state.pending \ {a})
      BY <1>5, <1>6, AskedRefers
    <2>2. /\ Of(t) \in Proper /\ "WaitingApproval" \in States \ {"Archived"}
          /\ state.threads[t] \in DOMAIN state.table
          /\ Of(t) = state.table[state.threads[t]]
      BY <1>6, Led DEF States
    <2>3. Keeps(Of(t), [Of(t) EXCEPT !.state = "WaitingApproval"])
      BY <2>2, RecordMoves
    <2>4. PICK s : s = state.threads[t]
      OBVIOUS
    <2>5. PICK r : r = [Of(t) EXCEPT !.state = "WaitingApproval"]
      OBVIOUS
    <2>6. s \in DOMAIN state.table /\ Keeps(state.table[s], r) /\ state' = Upsert(st, s, r)
      BY <1>6, <2>2, <2>3, <2>4, <2>5
    <2>7. Rewritten /\ Inserted(state', st, s, r)
      BY <2>1, <2>6, RefersIs
    <2> QED BY <2>1, <2>3, <2>4, <2>5, <2>7
  <1>7. \/ /\ t \in DOMAIN state.threads
           /\ state' = Upsert([state EXCEPT !.pending =
                                 Put(@, a, [session |-> state.threads[t], thread |-> t])],
                              state.threads[t], [Of(t) EXCEPT !.state = "WaitingApproval"])
        \/ UNCHANGED state /\ (t \notin DOMAIN state.threads \/ May("card"))
    BY <1>1, <1>2 DEF RequestApproval
  <1> QED BY <1>1, <1>2, <1>4, <1>6, <1>7

\* A question is taken.
LEMMA RequestMoves ==
    ASSUME BaseInv, RequestApproval
    PROVE  Moves
  <1>1. /\ StateInv /\ CodexInv /\ EventsInv /\ born \subseteq Session \cup Approval
    BY DEF BaseInv, StateInv
  <1>2. /\ Takes /\ UNCHANGED <<plan, born, codex, turns>>
        /\ UNCHANGED state \/ Rewritten
    BY <1>1, RequestIs
  <1>3. CodexInv' /\ CodexStep
    BY <1>1, <1>2, SameCodex
  <1>4. EventsInv'
    BY <1>1, <1>2, EventsKeep
  <1> QED BY <1>1, <1>2, <1>3, <1>4 DEF Moves, StateMove

\* The worker starts again.
LEMMA RestartMoves ==
    ASSUME BaseInv, Restart
    PROVE  Moves
  <1>1. /\ StateInv /\ CodexInv /\ EventsInv /\ born \subseteq Session \cup Approval
        /\ codex \in [Thread -> Threads] /\ turns \in Nat
    BY DEF BaseInv, StateInv, CodexInv
  <1>2. UNCHANGED <<plan, born, turns>> /\ events' = <<>>
    BY DEF Restart
  <1>3. CodexInv' /\ CodexStep
    <2>1. CASE UNCHANGED codex
      BY <1>1, <1>2, <2>1, SameCodex
    <2>2. CASE codex' = [t \in Thread |-> [codex[t] EXCEPT !.turn = 0, !.asks = {}]]
      <3>1. ASSUME NEW t \in Thread
            PROVE  /\ codex'[t] \in Threads /\ codex'[t].turn = 0
                   /\ codex'[t].kind = codex[t].kind
        BY <1>1, <2>2 DEF Threads
      <3>2. codex' \in [Thread -> Threads]
        BY <2>2, <3>1
      <3>3. \A t \in Thread : codex'[t].turn <= turns
        BY <1>1, <3>1
      <3> QED BY <1>1, <1>2, <3>1, <3>2, <3>3 DEF CodexInv, CodexStep
    <2> QED BY <2>1, <2>2 DEF Restart
  <1>4. PICK probe : state' = Rebuilt([state EXCEPT !.table =
                       [s \in DOMAIN @ |-> Probed(@[s], probe[s])]])
    BY DEF Restart
  <1>5. PICK table : table = [s \in DOMAIN state.table |-> Probed(state.table[s], probe[s])]
    OBVIOUS
  <1>6. Map(table) /\ DOMAIN table = DOMAIN state.table
    BY <1>5 DEF Map
  <1>7. ASSUME NEW s \in DOMAIN table PROVE Keeps(state.table[s], table[s])
    <2>1. state.table[s] \in Proper /\ table[s] = Probed(state.table[s], probe[s])
      BY <1>1, <1>5, <1>6, OwnThread
    <2> QED BY <2>1, RecordMoves
  <1>8. state' = Rebuilt([state EXCEPT !.table = table])
    BY <1>4, <1>5
  <1>9. StateMove
    BY <1>6, <1>7, <1>8 DEF StateMove, Reread
  <1>10. EventsInv'
    BY <1>1, <1>2, EventsKeep
  <1> QED BY <1>1, <1>2, <1>3, <1>9, <1>10 DEF Moves

-----------------------------------------------------------------------------
(* What holds of every worker.                                             *)

\* A worker starts with no session, and the threads that Codex had.
LEMMA BaseInit == Init => BaseInv
  <1> SUFFICES ASSUME Init PROVE BaseInv
    OBVIOUS
  <1>1. /\ state.table = <<>> /\ state.rooms = {} /\ state.threads = <<>>
        /\ state.pending = <<>> /\ Whole(state)
    BY DEF Init, Empty, Whole
  <1>2. DOMAIN state.table = {} /\ DOMAIN state.threads = {} /\ DOMAIN state.pending = {}
    BY <1>1
  <1>3. Map(state.table) /\ Map(state.threads)
    BY <1>1 DEF Map
  <1>4. Tables(state)
    <2>1. IsFiniteSet(DOMAIN state.table)
      BY <1>2, FS_EmptySet
    <2>2. RoutedIn(state) = {} /\ IndexedIn(state) = {}
      BY <1>2 DEF RoutedIn, IndexedIn
    <2> QED BY <1>1, <1>2, <1>3, <2>1, <2>2 DEF Tables, Shaped, Distinct, Indexes
  <1>5. StateInv
    BY <1>2, <1>4 DEF StateInv, Asked, Init
  <1>6. CodexInv
    <2>1. plan \in Plans /\ plan.turns \in Nat /\ turns = 0
      BY SessionAssumption DEF Init
    <2>2. PICK local : codex = [t \in Thread |->
                                  [kind |-> IF t \in local THEN "listed" ELSE "absent",
                                   turn |-> 0, asks |-> {}]]
      BY DEF Init
    <2>3. \A t \in Thread : codex[t] \in Threads /\ codex[t].turn = 0
      BY <2>2 DEF Threads
    <2>4. codex \in [Thread -> Threads]
      BY <2>2, <2>3
    <2> QED BY <2>1, <2>3, <2>4 DEF CodexInv
  <1>7. EventsInv
    <2>1. events = <<>>
      BY DEF Init
    <2>2. events \in Seq(Notices) /\ Range(events) = {}
      BY <2>1 DEF Range
    <2> QED BY <2>2 DEF EventsInv
  <1>8. ThreadsThere
    BY <1>2 DEF ThreadsThere
  <1> QED BY <1>5, <1>6, <1>7, <1>8 DEF BaseInv

\* Every step of the worker and of Codex is one of the moves.
LEMMA StepMoves ==
    ASSUME BaseInv, Next
    PROVE  Moves
  <1>1. CASE \E s \in Session :
               \/ ArchiveSession(s) \/ CleanupFailed(s) \/ Purge(s) \/ Diagnose(s)
               \/ Prompt(s) \/ Resume(s) \/ Pause(s)
               \/ \E t \in Thread : New(s, t) \/ ResumeLocal(s, t)
    <2>1. PICK s \in Session :
               \/ ArchiveSession(s) \/ CleanupFailed(s) \/ Purge(s) \/ Diagnose(s)
               \/ Prompt(s) \/ Resume(s) \/ Pause(s)
               \/ \E t \in Thread : New(s, t) \/ ResumeLocal(s, t)
      BY <1>1
    <2>2. CASE ArchiveSession(s) \/ CleanupFailed(s)
      BY <2>2, ArchiveMoves DEF ArchiveSession, CleanupFailed, Failures
    <2>3. CASE Purge(s)
      BY <2>3, PurgeMoves
    <2>4. CASE Diagnose(s)
      BY <2>4, DiagnoseMoves
    <2>5. CASE Prompt(s)
      BY <2>5, PromptMoves
    <2>6. CASE Resume(s)
      BY <2>6, ResumeMoves
    <2>7. CASE Pause(s)
      BY <2>7, PauseMoves
    <2>8. CASE \E t \in Thread : New(s, t) \/ ResumeLocal(s, t)
      BY <2>8, NewMoves, ResumeLocalMoves
    <2> QED BY <2>1, <2>2, <2>3, <2>4, <2>5, <2>6, <2>7, <2>8
  <1>2. CASE \E a \in Approval : ResolveApproval(a) \/ \E t \in Thread : CodexAsk(t, a)
    BY <1>2, ResolveMoves, AskMoves
  <1>3. CASE \E t \in Thread : CodexComplete(t)
    BY <1>3, CompleteMoves
  <1>4. CASE StatusChanged
    BY <1>4, StatusMoves
  <1>5. CASE TurnStarted
    BY <1>5, StartedMoves
  <1>6. CASE TurnCompleted
    BY <1>6, CompletedMoves
  <1>7. CASE RequestApproval
    BY <1>7, RequestMoves
  <1>8. CASE Restart
    BY <1>8, RestartMoves
  <1> QED BY <1>1, <1>2, <1>3, <1>4, <1>5, <1>6, <1>7, <1>8 DEF Next

\* A step that changes nothing is one of them.
LEMMA StutterMoves ==
    ASSUME BaseInv, UNCHANGED vars
    PROVE  Moves
  <1>1. UNCHANGED <<plan, state, born, codex, turns, events>>
    BY DEF vars
  <1> QED BY <1>1, QuietMoves DEF StateMove

\* The moves keep the invariant.
LEMMA BaseNext == BaseInv /\ [Next]_vars => BaseInv' /\ Moves /\ Kept
  <1> SUFFICES ASSUME BaseInv, [Next]_vars PROVE BaseInv' /\ Moves /\ Kept
    OBVIOUS
  <1>1. Moves
    BY StepMoves, StutterMoves
  <1>2. StateInv /\ ThreadsThere
    BY DEF BaseInv
  <1>3. StateInv' /\ Kept
    BY <1>1, <1>2, MovesKeep, MovesKept DEF Moves
  <1>4. CodexInv' /\ EventsInv' /\ CodexStep
    BY <1>1 DEF Moves
  <1>5. ThreadsThere'
    <2> SUFFICES ASSUME NEW s \in DOMAIN state'.table
                 PROVE  codex'[state'.table[s].thread].kind # "absent"
      BY DEF ThreadsThere
    <2>1. CASE /\ s \in DOMAIN state.table
               /\ state'.table[s].thread = state.table[s].thread
      <3>1. /\ state.table[s].thread \in Thread
            /\ codex[state.table[s].thread].kind # "absent"
        BY <1>2, <2>1, OwnThread DEF ThreadsThere
      <3> QED BY <1>4, <2>1, <3>1 DEF CodexStep
    <2>2. CASE codex'[state'.table[s].thread].kind # "absent"
      BY <2>2
    <2> QED BY <1>3, <2>1, <2>2 DEF Kept
  <1> QED BY <1>1, <1>3, <1>4, <1>5 DEF BaseInv

\* Every state that is reached has its parts in order.
LEMMA BaseInvariant == Spec => []BaseInv
  <1>1. BaseInv /\ [Next]_vars => BaseInv'
    BY BaseNext
  <1> QED BY BaseInit, <1>1, PTL DEF Spec

\* Every part of the state has its type, and what waits for an answer is of a session
\* that still has the thread that asked: upsert_approval and archive_session keep the
\* approvals in step with the table, for any plan.
THEOREM ApprovalsAreLive == Spec => []SessionInv
  <1>1. BaseInv => SessionInv
    <2> SUFFICES ASSUME BaseInv PROVE SessionInv
      OBVIOUS
    <2>1. StateInv /\ CodexInv /\ plan.turns \in Nat
      BY SessionAssumption DEF BaseInv, CodexInv
    <2>2. plan \in Plans /\ turns \in 0..plan.turns /\ born \subseteq Session \cup Approval
      BY <2>1 DEF StateInv, CodexInv
    <2>3. \A s \in DOMAIN state.table : state.table[s] \in Records
      BY <2>1, OwnThread DEF Proper
    <2>4. state.rooms \subseteq DOMAIN state.table
      BY <2>1 DEF StateInv, Tables, Indexes, RoutedIn
    <2>5. \A t \in DOMAIN state.threads :
            t \in Thread /\ state.threads[t] \in DOMAIN state.table
      BY <2>1, Led
    <2>6. \A a \in DOMAIN state.pending :
            state.pending[a] \in [session : DOMAIN state.table, thread : Thread]
      BY <2>1 DEF StateInv, Asked
    <2>7. TypeOK
      BY <2>1, <2>2, <2>3, <2>4, <2>5, <2>6 DEF TypeOK, StateInv, CodexInv
    <2>8. ApprovalsLive
      BY <2>1 DEF ApprovalsLive, StateInv, Asked
    <2> QED BY <2>7, <2>8 DEF SessionInv
  <1> QED BY <1>1, BaseInvariant, PTL

\* The room and thread indexes are what a rebuild would make them after every handler
\* (upsert_session, remove_session, rebuild_indexes).
THEOREM IndexesAreRebuilt == Spec => []IndexesAgree
  <1>1. BaseInv => IndexesAgree
    BY TablesAreRebuilt DEF BaseInv, StateInv, IndexesAgree
  <1> QED BY <1>1, BaseInvariant, PTL

\* What a step may not do to an archived session.
StaysArchived ==
    \A s \in DOMAIN state.table : state.table[s].archived =>
          /\ s \in DOMAIN state'.table => state'.table[s].archived
          /\ LET t == state.table[s].thread
             IN  codex'[t].turn # codex[t].turn => codex'[t].turn = 0

\* An archived session stays archived until it is purged, and Codex gets no turn for it,
\* whatever its card or late events do (archive_session).
THEOREM ArchivedStays == Spec => ArchivedForGood
  <1>1. BaseInv /\ [Next]_vars => [StaysArchived]_vars
    <2> SUFFICES ASSUME BaseInv, [Next]_vars PROVE StaysArchived
      OBVIOUS
    <2>1. StateInv /\ Kept /\ CodexStep /\ DOMAIN state.table \subseteq born
      BY BaseNext DEF BaseInv, Moves, StateInv
    <2>2. ASSUME NEW s \in DOMAIN state.table, state.table[s].archived
          PROVE  /\ s \in DOMAIN state'.table => state'.table[s].archived
                 /\ codex'[state.table[s].thread].turn # codex[state.table[s].thread].turn =>
                      codex'[state.table[s].thread].turn = 0
      <3>1. s \in born
        BY <2>1
      <3>2. s \in DOMAIN state'.table => state'.table[s].archived
        BY <2>1, <2>2, <3>1 DEF Kept
      <3>3. state.table[s].thread \in Thread
        BY <2>1, OwnThread
      <3>4. codex'[state.table[s].thread].turn \in {0, codex[state.table[s].thread].turn}
        BY <2>1, <2>2, <3>3 DEF CodexStep
      <3> QED BY <3>2, <3>4
    <2> QED BY <2>2 DEF StaysArchived
  <1> QED BY <1>1, BaseInvariant, PTL DEF Spec, ArchivedForGood, StaysArchived

-----------------------------------------------------------------------------
(* A session knows the turn of its thread.  As long as threads can be read *)
(* and the worker does not start again, this is so of every thread t: only *)
(* an indexed thread runs a turn, a thread that lost its session is over,  *)
(* and of a turn the channel says last what is so, or nothing when the     *)
(* session already knows.                                                  *)

\* No session keeps a thread that it has given up.
GivenUp(t) ==
    \A s \in DOMAIN state.table :
        state.table[s].thread = t /\ (state.table[s].archived \/ state.table[s].state = "Failed")
            => codex[t].kind = "archived"

\* What the session of t knows, or will be told.
Knows(t) ==
    t \in DOMAIN state.threads /\ codex[t].kind = "listed" =>
        \/ LastSays(events, t, codex[t].turn)
        \/ Mute(events, t) /\ Of(t).turn = codex[t].turn

Sound(t) ==
    /\ GivenUp(t) /\ Knows(t)
    /\ codex[t].turn # 0 => codex[t].kind = "listed" /\ t \in DOMAIN state.threads
    /\ codex[t].kind # "archived" /\ t \notin DOMAIN state.threads => Silent(t)
    /\ codex[t].asks # {} => codex[t].turn # 0

TurnsInv == Reliable => \A t \in Thread : Sound(t)

\* A step that is about another thread: what it leaves of the tables and the channel.
TableFrame(t) ==
    /\ t \in DOMAIN state'.threads <=> t \in DOMAIN state.threads
    /\ t \in DOMAIN state.threads =>
         state'.table[state'.threads[t]] = state.table[state.threads[t]]
    /\ \A s \in DOMAIN state'.table : state'.table[s].thread = t =>
         s \in DOMAIN state.table /\ state'.table[s] = state.table[s]

EventFrame(t) ==
    /\ Silent(t) => (Silent(t))'
    /\ Mute(events, t) => Mute(events', t)
    /\ \A n : LastSays(events, t, n) => LastSays(events', t, n)

\* Silence, as a set.
LEMMA SilentIs ==
    /\ \A t : Silent(t) <=> \A e \in Range(events) : e.thread # t
    /\ \A t : (Silent(t))' <=> \A e \in Range(events') : e.thread # t
  BY DEF Silent, Range

\* Such a step leaves the thread sound.
LEMMA FrameSound ==
    ASSUME NEW t \in Thread, Sound(t), TableFrame(t), EventFrame(t), codex'[t] = codex[t]
    PROVE  (Sound(t))'
  <1>1. (GivenUp(t))'
    BY DEF Sound, GivenUp, TableFrame
  <1>2. (Knows(t))'
    BY DEF Sound, Knows, TableFrame, EventFrame, Of
  <1>3. /\ codex'[t].turn # 0 => codex'[t].kind = "listed" /\ t \in DOMAIN state'.threads
        /\ codex'[t].kind # "archived" /\ t \notin DOMAIN state'.threads => (Silent(t))'
        /\ codex'[t].asks # {} => codex'[t].turn # 0
    BY DEF Sound, TableFrame, EventFrame
  <1> QED BY <1>1, <1>2, <1>3 DEF Sound

\* What is told of one thread, asked for it or taken of it leaves the channel of
\* another.
LEMMA EventsFrame ==
    ASSUME EventsInv, NEW t \in Thread, NEW u \in Thread, u # t,
           \/ UNCHANGED events
           \/ \E n : Announces(t, n)
           \/ \E a \in Approval : Grows(<<Request(t, a)>>)
           \/ Takes /\ Head(events).thread = t
    PROVE  EventFrame(u)
  <1>0. events \in Seq(Notices)
    BY DEF EventsInv
  <1>1. CASE UNCHANGED events
    BY <1>1 DEF EventFrame, Silent
  <1>2. ASSUME NEW d, d \in Seq(Notices), events' = events \o d,
               \A e \in Range(d) : e.thread = t
        PROVE  EventFrame(u)
    <2>1. Range(events') = Range(events) \cup Range(d)
      BY <1>0, <1>2, GrownRange
    <2>2. Silent(u) => (Silent(u))'
      BY <1>2, <2>1, SilentIs
    <2>3. Mute(d, u)
      BY <1>2 DEF Mute, Says, Range
    <2>4. /\ Mute(events, u) => Mute(events', u)
          /\ \A n : LastSays(events, u, n) => LastSays(events', u, n)
      BY <1>0, <1>2, <2>3, GrownSays
    <2> QED BY <2>2, <2>4 DEF EventFrame
  <1>3. CASE \E n : Announces(t, n)
    <2>1. PICK n, d : Tells(d, t, n) /\ Grows(d)
      BY <1>3 DEF Announces
    <2> QED BY <1>2, <2>1 DEF Tells, Grows
  <1>4. CASE \E a \in Approval : Grows(<<Request(t, a)>>)
    <2>1. PICK a \in Approval : Grows(<<Request(t, a)>>)
      BY <1>4
    <2>2. PICK d : d = <<Request(t, a)>>
      OBVIOUS
    <2>3. \A e \in Range(d) : e.thread = t
      BY <2>2 DEF Range, Request
    <2>4. d \in Seq(Notices) /\ events' = events \o d
      BY <2>1, <2>2 DEF Grows
    <2> QED BY <1>2, <2>3, <2>4
  <1>5. CASE Takes /\ Head(events).thread = t
    <2>1. events # <<>> /\ events' = Tail(events)
      BY <1>5 DEF Takes
    <2>2. Range(events) = Range(events') \cup {Head(events)}
      BY <1>0, <2>1, TakenRange
    <2>3. Silent(u) => (Silent(u))'
      BY <2>2, SilentIs
    <2>4. ~Says(Head(events), u)
      BY <1>5 DEF Says
    <2>5. /\ Mute(events, u) => Mute(events', u)
          /\ \A n : LastSays(events, u, n) => LastSays(events', u, n)
      BY <1>0, <2>1, <2>4, TakenSays
    <2> QED BY <2>3, <2>5 DEF EventFrame
  <1> QED BY <1>1, <1>3, <1>4, <1>5

\* A record that is written leaves the tables of the other threads.
LEMMA InsertedFrame ==
    ASSUME StateInv, NEW st, Refers(st), NEW s, NEW r, Owns(st, s, r),
           Inserted(state', st, s, r), NEW u \in Thread, u # r.thread
    PROVE  TableFrame(u)
  <1>1. st.table = state.table /\ st.threads = state.threads
    BY DEF Refers, Same
  <1>2. /\ DOMAIN state'.table = DOMAIN state.table \cup {s} /\ state'.table[s] = r
        /\ \A v \in DOMAIN state.table \ {s} : state'.table[v] = state.table[v]
        /\ DOMAIN state'.threads = (DOMAIN state.threads \ {r.thread}) \cup
                                     (IF Indexed(r) THEN {r.thread} ELSE {})
        /\ \A t \in DOMAIN state.threads \ {r.thread} : state'.threads[t] = state.threads[t]
    BY <1>1 DEF Inserted, Gives, Agree
  <1>3. u \in DOMAIN state'.threads <=> u \in DOMAIN state.threads
    BY <1>2
  <1>4. ASSUME u \in DOMAIN state.threads
        PROVE  state'.table[state'.threads[u]] = state.table[state.threads[u]]
    <2>1. /\ state.threads[u] \in DOMAIN state.table
          /\ state.table[state.threads[u]].thread = u
      BY <1>4, Led
    <2>2. state.threads[u] # s
      BY <1>1, <2>1 DEF Owns
    <2> QED BY <1>2, <1>4, <2>1, <2>2
  <1>5. ASSUME NEW v \in DOMAIN state'.table, state'.table[v].thread = u
        PROVE  v \in DOMAIN state.table /\ state'.table[v] = state.table[v]
    BY <1>2, <1>5
  <1> QED BY <1>3, <1>4, <1>5 DEF TableFrame

\* The tables of a thread whose session has the record r.
Has(r) ==
    /\ \A v \in DOMAIN state'.table : state'.table[v].thread = r.thread => state'.table[v] = r
    /\ r.thread \in DOMAIN state'.threads => Indexed(r)
    /\ Indexed(r) => /\ r.thread \in DOMAIN state'.threads
                     /\ state'.table[state'.threads[r.thread]] = r

\* A session that is inserted is the one that its thread leads to.
LEMMA InsertedHas ==
    ASSUME StateInv, NEW st, Refers(st), NEW s, NEW r, Owns(st, s, r),
           Inserted(state', st, s, r)
    PROVE  Has(r)
  <1>1. st.table = state.table /\ st.threads = state.threads
    BY DEF Refers, Same
  <1>2. /\ DOMAIN state'.table = DOMAIN state.table \cup {s} /\ state'.table[s] = r
        /\ \A v \in DOMAIN state.table \ {s} : state'.table[v] = state.table[v]
        /\ DOMAIN state'.threads = (DOMAIN state.threads \ {r.thread}) \cup
                                     (IF Indexed(r) THEN {r.thread} ELSE {})
        /\ Indexed(r) => state'.threads[r.thread] = s
    BY <1>1 DEF Inserted, Gives, Agree
  <1>3. \A v \in DOMAIN state'.table : state'.table[v].thread = r.thread => state'.table[v] = r
    BY <1>1, <1>2 DEF Owns
  <1> QED BY <1>2, <1>3 DEF Has

\* A session that nothing was written of has its record.
LEMMA StillHas ==
    ASSUME StateInv, UNCHANGED state, NEW s \in DOMAIN state.table
    PROVE  Has(state.table[s])
  BY DEF Has, StateInv, Tables, Distinct, Indexes, IndexedIn

AllSound == \A t \in Thread : Sound(t)

\* A step that is about t.
About(t) ==
    \A u \in Thread \ {t} : TableFrame(u) /\ EventFrame(u) /\ codex'[u] = codex[u]

\* It has to leave t sound.
LEMMA AboutSound ==
    ASSUME AllSound, NEW t \in Thread, About(t), (Sound(t))'
    PROVE  AllSound'
  <1>1. ASSUME NEW u \in Thread, u # t PROVE (Sound(u))'
    BY <1>1, FrameSound DEF AllSound, About
  <1>2. \A u \in Thread : (Sound(u))'
    BY <1>1
  <1> QED BY <1>2 DEF AllSound

\* The record of a thread's session suits the thread.
Suits(r, t) ==
    /\ r.archived \/ r.state = "Failed" => codex'[t].kind = "archived"
    /\ codex'[t].turn # 0 => codex'[t].kind = "listed"
    /\ codex'[t].asks # {} => codex'[t].turn # 0
    /\ codex'[t].kind = "listed" =>
         \/ LastSays(events', t, codex'[t].turn)
         \/ Mute(events', t) /\ r.turn = codex'[t].turn

\* A thread is sound when its session has a record that suits it.
LEMMA OwnSound ==
    ASSUME NEW r \in Proper, NEW t \in Thread, r.thread = t, Has(r), Suits(r, t)
    PROVE  (Sound(t))'
  <1>1. ~Indexed(r) => r.archived \/ r.state = "Failed"
    BY DEF Indexed, Routed, Proper
  <1>2. t \in DOMAIN state'.threads <=> Indexed(r)
    BY DEF Has
  <1>3. t \in DOMAIN state'.threads => state'.table[state'.threads[t]] = r
    BY <1>2 DEF Has
  <1>4. (GivenUp(t))'
    BY DEF GivenUp, Has, Suits
  <1>5. (Knows(t))'
    BY <1>3 DEF Knows, Of, Suits
  <1>6. /\ codex'[t].turn # 0 => codex'[t].kind = "listed" /\ t \in DOMAIN state'.threads
        /\ codex'[t].kind # "archived" /\ t \notin DOMAIN state'.threads => (Silent(t))'
        /\ codex'[t].asks # {} => codex'[t].turn # 0
    BY <1>1, <1>2 DEF Suits
  <1> QED BY <1>4, <1>5, <1>6 DEF Sound

\* The session of a listed thread is indexed, and knows or will be told.
LEMMA ListedIs ==
    ASSUME StateInv, NEW s \in DOMAIN state.table, NEW r, r = state.table[s],
           Sound(r.thread), codex[r.thread].kind = "listed"
    PROVE  /\ Indexed(r) /\ r.thread \in DOMAIN state.threads
           /\ state.threads[r.thread] = s /\ Of(r.thread) = r
           /\ \/ LastSays(events, r.thread, codex[r.thread].turn)
              \/ Mute(events, r.thread) /\ r.turn = codex[r.thread].turn
  <1>1. r \in Proper /\ ~r.archived /\ r.state # "Failed"
    BY OwnThread DEF Sound, GivenUp
  <1>2. Indexed(r)
    BY <1>1 DEF Indexed, Routed, Proper
  <1>3. r.thread \in DOMAIN state.threads /\ state.threads[r.thread] = s
    BY <1>2 DEF StateInv, Tables, Indexes, IndexedIn
  <1>4. Of(r.thread) = r
    BY <1>3 DEF Of
  <1> QED BY <1>2, <1>3, <1>4 DEF Sound, Knows

\* A session's record is written, and its thread or the channel may change with it.
LEMMA WrittenSound ==
    ASSUME BaseInv, AllSound, NEW st, Refers(st), NEW s, NEW r, Owns(st, s, r),
           Inserted(state', st, s, r), NEW t \in Thread, r.thread = t,
           \A u \in Thread \ {t} : EventFrame(u) /\ codex'[u] = codex[u],
           Suits(r, t)
    PROVE  AllSound'
  <1>1. StateInv /\ r \in Proper
    BY DEF BaseInv, Owns
  <1>2. About(t)
    BY <1>1, InsertedFrame DEF About
  <1>3. Has(r)
    BY <1>1, InsertedHas
  <1>4. (Sound(t))'
    BY <1>1, <1>3, OwnSound
  <1> QED BY <1>2, <1>4, AboutSound

\* The same when nothing is written.
LEMMA UnwrittenSound ==
    ASSUME BaseInv, AllSound, UNCHANGED state, NEW t \in Thread,
           \A u \in Thread \ {t} : EventFrame(u) /\ codex'[u] = codex[u],
           \/ \E s \in DOMAIN state.table : state.table[s].thread = t /\ Suits(state.table[s], t)
           \/ (Sound(t))'
    PROVE  AllSound'
  <1>1. StateInv
    BY DEF BaseInv
  <1>2. About(t)
    BY DEF About, TableFrame
  <1>3. CASE \E s \in DOMAIN state.table :
               state.table[s].thread = t /\ Suits(state.table[s], t)
    <2>1. PICK s \in DOMAIN state.table :
            state.table[s].thread = t /\ Suits(state.table[s], t)
      BY <1>3
    <2>2. state.table[s] \in Proper /\ Has(state.table[s])
      BY <1>1, OwnThread, StillHas
    <2>3. (Sound(t))'
      BY <2>1, <2>2, OwnSound
    <2> QED BY <1>2, <2>3, AboutSound
  <1>4. CASE (Sound(t))'
    BY <1>2, <1>4, AboutSound
  <1> QED BY <1>3, <1>4

\* The other threads are left alone.
Others(t) == \A u \in Thread \ {t} : EventFrame(u) /\ codex'[u] = codex[u]

\* A step about one thread leaves the events and the turns of the others.
LEMMA OthersLeft ==
    ASSUME EventsInv, NEW t \in Thread,
           \/ UNCHANGED codex
           \/ \E kind, turn, asks : Changed(t, kind, turn, asks),
           \/ UNCHANGED events
           \/ \E n : Announces(t, n)
           \/ \E a \in Approval : Grows(<<Request(t, a)>>)
           \/ Takes /\ Head(events).thread = t
    PROVE  Others(t)
  <1>1. \A u \in Thread \ {t} : codex'[u] = codex[u]
    BY DEF Changed
  <1>2. \A u \in Thread \ {t} : EventFrame(u)
    BY EventsFrame
  <1> QED BY <1>1, <1>2 DEF Others

\* A record of a session is written over.
LEMMA SetSound ==
    ASSUME BaseInv, AllSound, NEW s \in DOMAIN state.table, NEW r,
           Keeps(state.table[s], r), Set(s, r),
           NEW t, t = state.table[s].thread, Others(t), Suits(r, t)
    PROVE  AllSound'
  <1>1. StateInv /\ Tables(state)
    BY DEF BaseInv, StateInv
  <1>2. r \in Proper /\ r.thread = t /\ t \in Thread /\ Refers(state)
    BY <1>1, OwnThread DEF Keeps
  <1>3. Owns(state, s, r)
    BY <1>1, <1>2, KeepsOwns
  <1>4. Inserted(state', state, s, r)
    BY <1>1, SetIs
  <1> QED BY <1>2, <1>3, <1>4, WrittenSound DEF Others

\* What a session knew suits its thread when nothing becomes of that.
LEMMA StillSuits ==
    ASSUME StateInv, AllSound, NEW s \in DOMAIN state.table, NEW r,
           r.turn = state.table[s].turn, r.archived = state.table[s].archived,
           NEW t, t = state.table[s].thread,
           r.state = "Failed" => codex[t].kind = "archived",
           UNCHANGED <<codex, events>>
    PROVE  Suits(r, t)
  <1>1. t \in Thread /\ Sound(t)
    BY OwnThread DEF AllSound
  <1>2. r.archived => codex[t].kind = "archived"
    BY <1>1 DEF Sound, GivenUp
  <1>3. codex[t].kind = "listed" =>
          \/ LastSays(events, t, codex[t].turn)
          \/ Mute(events, t) /\ r.turn = codex[t].turn
    BY <1>1, ListedIs
  <1> QED BY <1>1, <1>2, <1>3 DEF Suits, Sound

\* A thread that is archived suits any record.
LEMMA ArchivedSuits ==
    ASSUME NEW r, NEW t \in Thread, Changed(t, "archived", 0, {})
    PROVE  Suits(r, t)
  BY DEF Suits, Changed

\* So does a turn that was just told of.
LEMMA ToldSuits ==
    ASSUME EventsInv, NEW r, NEW t \in Thread, NEW n, NEW asks, Announces(t, n),
           codex'[t].turn = n, codex'[t].asks = asks, asks = {},
           n # 0 => codex'[t].kind = "listed",
           r.archived \/ r.state = "Failed" => codex'[t].kind = "archived"
    PROVE  Suits(r, t)
  <1>1. PICK d : Tells(d, t, n) /\ Grows(d)
    BY DEF Announces
  <1>2. LastSays(events', t, n)
    BY ZenonT(40), <1>1, GrownSays DEF Tells, Grows, EventsInv
  <1> QED BY <1>2 DEF Suits

\* Diagnose and resume.
LEMMA DiagnoseSound ==
    ASSUME BaseInv, AllSound, Reliable, NEW s \in Session, Diagnose(s)
    PROVE  AllSound'
  <1>1. StateInv /\ EventsInv /\ ThreadsThere /\ s \in DOMAIN state.table
    BY DEF BaseInv, Diagnose
  <1>2. PICK r : r = state.table[s]
    OBVIOUS
  <1>3. PICK t : t = r.thread
    OBVIOUS
  <1>4. r \in Proper /\ t \in Thread /\ Sound(t) /\ UNCHANGED <<codex, events>>
    BY <1>1, <1>2, <1>3, OwnThread DEF AllSound, Diagnose
  <1>5. PICK probe \in Probes(t) : Set(s, Probed(r, probe))
    BY <1>2, <1>3 DEF Diagnose
  <1>6. probe = IF codex[t].kind = "listed" THEN "readable" ELSE "missing"
    BY <1>5 DEF Probes, May, Reliable
  <1>7. Keeps(r, Probed(r, probe))
    BY <1>4, RecordMoves
  <1>8. Probed(r, probe).turn = r.turn
    BY <1>4 DEF Probed, Proper, Records
  <1>9. Probed(r, probe).state = "Failed" => codex[t].kind = "archived"
    <2>1. CASE codex[t].kind = "listed"
      <3>1. r.state # "Failed"
        BY <1>1, <1>2, <1>3, <1>4, <2>1 DEF Sound, GivenUp
      <3>2. Probed(r, probe) = r
        BY <1>6, <2>1, <3>1 DEF Probed
      <3> QED BY <3>1, <3>2
    <2>2. CASE codex[t].kind # "listed"
      <3>1. codex[t].kind # "absent" /\ codex[t] \in Threads
        BY <1>1, <1>2, <1>3, <1>4 DEF ThreadsThere, BaseInv, CodexInv
      <3> QED BY <2>2, <3>1 DEF Threads
    <2> QED BY <2>1, <2>2
  <1>10. Suits(Probed(r, probe), t)
    BY <1>1, <1>2, <1>3, <1>4, <1>7, <1>8, <1>9, StillSuits DEF Keeps
  <1>11. Others(t)
    BY <1>1, <1>4, OthersLeft
  <1> QED BY <1>1, <1>2, <1>3, <1>5, <1>7, <1>10, <1>11, SetSound

\* A resume changes the state of a session, not its turn.
LEMMA ResumeSound ==
    ASSUME BaseInv, AllSound, NEW s \in Session, Resume(s)
    PROVE  AllSound'
  <1>1. StateInv /\ EventsInv /\ s \in DOMAIN state.table
    BY DEF BaseInv, Resume
  <1>2. PICK r : r = state.table[s]
    OBVIOUS
  <1>3. PICK t : t = r.thread
    OBVIOUS
  <1>4. r \in Proper /\ t \in Thread /\ UNCHANGED <<codex, events>>
    BY <1>1, <1>2, <1>3, OwnThread DEF Resume
  <1>5. PICK x : x = [r EXCEPT !.state = "Idle"]
    OBVIOUS
  <1>6. Keeps(r, x) /\ Set(s, x) /\ x.turn = r.turn /\ x.state = "Idle"
    <2>1. "Idle" \in States \ {"Archived"}
      BY DEF States
    <2>2. Keeps(r, x)
      BY <1>4, <1>5, <2>1, RecordMoves
    <2> QED BY <1>2, <1>4, <1>5, <2>2 DEF Resume, Proper, Records
  <1>7. Suits(x, t)
    BY <1>1, <1>2, <1>3, <1>4, <1>6, StillSuits DEF Keeps
  <1>8. Others(t)
    BY <1>1, <1>4, OthersLeft
  <1> QED BY <1>1, <1>2, <1>3, <1>6, <1>7, <1>8, SetSound

\* A prompt.
LEMMA PromptSound ==
    ASSUME BaseInv, AllSound, NEW s \in Session, Prompt(s)
    PROVE  AllSound'
  <1>1. StateInv /\ CodexInv /\ EventsInv /\ turns \in Nat
    BY DEF BaseInv, CodexInv
  <1>2. PICK r : r = state.table[s]
    OBVIOUS
  <1>3. PICK t : t = r.thread
    OBVIOUS
  <1>4. s \in DOMAIN state.table /\ ~r.archived /\ r.state # "Failed"
    BY <1>1, <1>2, Prompted DEF Prompt, Routed
  <1>5. r \in Proper /\ t \in Thread
    BY <1>1, <1>2, <1>3, <1>4, OwnThread
  <1>6. /\ turns' = turns + 1 /\ Changed(t, "listed", turns', {}) /\ Announces(t, turns')
        /\ \/ Set(s, [r EXCEPT !.turn = turns', !.state = "Running"])
           \/ Set(s, r)
    BY <1>1, <1>2, <1>3, <1>5, StartTurnIs DEF Prompt
  <1>7. PICK x : /\ Set(s, x)
                 /\ x \in {r, [r EXCEPT !.turn = turns', !.state = "Running"]}
    BY <1>6
  <1>8. Keeps(r, x) /\ x.state # "Failed"
    <2>1. turns' \in Nat
      BY <1>1, <1>6
    <2>2. Keeps(r, r) /\ Keeps(r, [r EXCEPT !.turn = turns', !.state = "Running"])
      BY <1>5, <2>1, RecordMoves DEF Keeps
    <2> QED BY <1>4, <1>5, <1>7, <2>2 DEF Proper, Records
  <1>9. Suits(x, t)
    BY <1>1, <1>4, <1>5, <1>6, <1>8, ToldSuits DEF Changed, Keeps
  <1>10. Others(t)
    BY <1>1, <1>5, <1>6, OthersLeft
  <1> QED BY <1>2, <1>3, <1>4, <1>7, <1>8, <1>9, <1>10, SetSound

\* A pause.
LEMMA PauseSound ==
    ASSUME BaseInv, AllSound, NEW s \in Session, Pause(s)
    PROVE  AllSound'
  <1>1. StateInv /\ CodexInv /\ EventsInv
    BY DEF BaseInv
  <1>2. PICK r : r = state.table[s]
    OBVIOUS
  <1>3. PICK t : t = r.thread
    OBVIOUS
  <1>4. s \in DOMAIN state.table /\ r.state # "Failed"
    BY <1>2 DEF Pause
  <1>5. r \in Proper /\ t \in Thread /\ Sound(t)
    BY <1>1, <1>2, <1>3, <1>4, OwnThread DEF AllSound
  <1>6. PICK x : x = [r EXCEPT !.state = "Paused"]
    OBVIOUS
  <1>7. Keeps(r, x) /\ x.turn = r.turn /\ x.state = "Paused"
    <2>1. "Paused" \in States \ {"Archived"}
      BY DEF States
    <2>2. Keeps(r, x)
      BY <1>5, <1>6, <2>1, RecordMoves
    <2> QED BY <1>5, <1>6, <2>2 DEF Proper, Records
  <1>8. UNCHANGED state \/ Set(s, x)
    BY <1>2, <1>6 DEF Pause
  <1>9. CASE TurnEnds(t)
    <2>1. Changed(t, codex[t].kind, 0, {}) /\ Announces(t, 0)
      BY <1>1, <1>5, <1>9, TurnEndsIs
    <2>2. r.archived => codex'[t].kind = "archived"
      BY <1>2, <1>3, <1>4, <1>5, <2>1 DEF Changed, Sound, GivenUp
    <2>3. Suits(x, t) /\ Suits(r, t)
      BY <1>1, <1>4, <1>5, <1>7, <2>1, <2>2, ToldSuits DEF Changed, Keeps
    <2>4. Others(t)
      BY <1>1, <1>5, <2>1, OthersLeft
    <2>5. CASE Set(s, x)
      BY <1>2, <1>3, <1>4, <1>7, <2>3, <2>4, <2>5, SetSound
    <2>6. CASE UNCHANGED state
      BY <1>2, <1>3, <1>4, <1>5, <2>3, <2>4, <2>6, UnwrittenSound DEF Others
    <2> QED BY <1>8, <2>5, <2>6
  <1>10. CASE UNCHANGED <<codex, events>>
    <2>1. Suits(x, t) /\ Suits(r, t)
      BY <1>1, <1>2, <1>3, <1>4, <1>7, <1>10, StillSuits DEF Keeps
    <2>2. Others(t)
      BY <1>1, <1>5, <1>10, OthersLeft
    <2>3. CASE Set(s, x)
      BY <1>2, <1>3, <1>4, <1>7, <2>1, <2>2, <2>3, SetSound
    <2>4. CASE UNCHANGED state
      BY <1>2, <1>3, <1>4, <1>5, <2>1, <2>2, <2>4, UnwrittenSound DEF Others
    <2> QED BY <1>8, <2>3, <2>4
  <1> QED BY <1>2, <1>3, <1>9, <1>10 DEF Pause

\* The tables of a thread whose sessions are the same, as the indexes are in order.
LEMMA SameFrame ==
    ASSUME Tables(state), Tables(state'), NEW u \in Thread,
           \A v \in DOMAIN state.table : state.table[v].thread = u =>
             v \in DOMAIN state'.table /\ state'.table[v] = state.table[v],
           \A v \in DOMAIN state'.table : state'.table[v].thread = u =>
             v \in DOMAIN state.table /\ state'.table[v] = state.table[v]
    PROVE  TableFrame(u)
  <1>1. ASSUME u \in DOMAIN state.threads
        PROVE  /\ u \in DOMAIN state'.threads
               /\ state'.table[state'.threads[u]] = state.table[state.threads[u]]
    <2>1. PICK v \in DOMAIN state.table : /\ Indexed(state.table[v])
                                          /\ state.table[v].thread = u
                                          /\ state.threads[u] = v
      BY <1>1 DEF Tables, Indexes, IndexedIn
    <2>2. v \in DOMAIN state'.table /\ state'.table[v] = state.table[v]
      BY <2>1
    <2>3. u \in DOMAIN state'.threads /\ state'.threads[u] = v
      BY <2>1, <2>2 DEF Tables, Indexes, IndexedIn
    <2> QED BY <2>1, <2>2, <2>3
  <1>2. ASSUME u \in DOMAIN state'.threads PROVE u \in DOMAIN state.threads
    <2>1. PICK v \in DOMAIN state'.table : /\ Indexed(state'.table[v])
                                           /\ state'.table[v].thread = u
      BY <1>2 DEF Tables, Indexes, IndexedIn
    <2>2. v \in DOMAIN state.table /\ state'.table[v] = state.table[v]
      BY <2>1
    <2> QED BY <2>1, <2>2 DEF Tables, Indexes, IndexedIn
  <1> QED BY <1>1, <1>2 DEF TableFrame

\* A session is archived.
LEMMA ArchiveSound ==
    ASSUME BaseInv, AllSound, Reliable, NEW s \in DOMAIN state.table, Archive(s)
    PROVE  AllSound'
  <1>1. StateInv /\ CodexInv /\ EventsInv /\ Tables(state) /\ Asked(state)
    BY DEF BaseInv, StateInv
  <1>2. PICK r : r = state.table[s]
    OBVIOUS
  <1>3. PICK t : t = r.thread
    OBVIOUS
  <1>4. r \in Proper /\ t \in Thread
    BY <1>1, <1>2, <1>3, OwnThread
  <1>5. CodexArchive(t)
    BY <1>2, <1>3 DEF Archive, May, Reliable
  <1>6. Changed(t, "archived", 0, {}) /\ (UNCHANGED events \/ Announces(t, 0))
    BY <1>1, <1>4, <1>5, CodexArchiveIs
  <1>7. Others(t)
    BY <1>1, <1>4, <1>6, OthersLeft
  <1>8. PICK archived : archived = [r EXCEPT !.archived = TRUE, !.state = "Archived"]
    OBVIOUS
  <1>9. /\ archived \in Proper /\ archived.thread = t /\ archived.archived
        /\ archived.state = "Archived"
    BY <1>3, <1>4, <1>8, NewRecords
  <1>10. \/ state' = WithoutApprovals(Upsert(state, s, archived), s)
         \/ UNCHANGED state
    BY <1>2, <1>8 DEF Archive
  <1>11. CASE state' = WithoutApprovals(Upsert(state, s, archived), s)
    <2>1. Tables(state') /\ Archives(state', state, s, archived)
      BY <1>1, <1>2, <1>3, <1>9, <1>11, ArchivedKeeps
    <2>2. /\ DOMAIN state'.table = DOMAIN state.table /\ state'.table[s] = archived
          /\ \A v \in DOMAIN state.table \ {s} : state'.table[v] = state.table[v]
          /\ t \notin DOMAIN state'.threads
      BY <1>9, <2>1 DEF Archives, Gives, Agree, Indexed, Routed
    <2>3. \A u \in Thread \ {t} : TableFrame(u)
      BY <1>1, <1>2, <1>3, <1>9, <2>1, <2>2, SameFrame
    <2>4. About(t)
      BY <1>7, <2>3 DEF About, Others
    <2>5. \A v \in DOMAIN state.table : state.table[v].thread = t => v = s
      BY <1>1, <1>2, <1>3 DEF Tables, Distinct
    <2>6. Has(archived)
      BY <1>9, <2>2, <2>5 DEF Has, Indexed, Routed
    <2>7. (Sound(t))'
      BY <1>4, <1>6, <1>9, <2>6, ArchivedSuits, OwnSound
    <2> QED BY <1>4, <2>4, <2>7, AboutSound
  <1>12. CASE UNCHANGED state
    <2>1. Suits(state.table[s], t)
      BY <1>4, <1>6, ArchivedSuits
    <2> QED BY <1>2, <1>3, <1>4, <1>7, <1>12, <2>1, UnwrittenSound DEF Others
  <1> QED BY <1>10, <1>11, <1>12

\* A session is purged: its thread is over.
LEMMA PurgeSound ==
    ASSUME BaseInv, AllSound, NEW s \in Session, Purge(s)
    PROVE  AllSound'
  <1>1. /\ StateInv /\ EventsInv /\ Tables(state) /\ Asked(state)
        /\ s \in DOMAIN state.table /\ UNCHANGED <<codex, events>>
    BY DEF BaseInv, StateInv, Purge
  <1>2. PICK t : t = state.table[s].thread
    OBVIOUS
  <1>3. state.table[s] \in Proper /\ t \in Thread /\ Sound(t) /\ state.table[s].archived
    BY <1>1, <1>2, OwnThread DEF AllSound, Purge, Routed, Proper
  <1>4. codex[t].kind = "archived" /\ codex[t].turn = 0 /\ codex[t].asks = {}
    BY <1>1, <1>2, <1>3 DEF Sound, GivenUp
  <1>5. Tables(state') /\ Removes(state', state, s)
    BY <1>1, RemovedKeeps DEF Purge
  <1>6. /\ DOMAIN state'.table = DOMAIN state.table \ {s}
        /\ \A v \in DOMAIN state.table \ {s} : state'.table[v] = state.table[v]
        /\ t \notin DOMAIN state'.threads
    BY <1>2, <1>5 DEF Removes, Agree
  <1>7. \A u \in Thread \ {t} : TableFrame(u)
    BY <1>1, <1>2, <1>5, <1>6, SameFrame
  <1>8. About(t)
    BY <1>1, <1>3, <1>7, OthersLeft DEF About, Others
  <1>9. (Sound(t))'
    BY <1>1, <1>4, <1>6 DEF Sound, GivenUp, Knows
  <1> QED BY <1>3, <1>8, <1>9, AboutSound

\* A session is made with a record that suits its thread, or not at all.
LEMMA MadeSound ==
    ASSUME BaseInv, AllSound, NEW s \in Session, s \notin born, NEW r \in Proper,
           ~Attached(r.thread), state' = Upsert(state, s, r),
           NEW t, t = r.thread, Others(t), Suits(r, t)
    PROVE  AllSound'
  <1>1. StateInv /\ Tables(state) /\ Refers(state) /\ s \notin DOMAIN state.table
    BY DEF BaseInv, StateInv, Refers, Same, Tables
  <1>2. Owns(state, s, r)
    BY <1>1 DEF Owns, Attached
  <1>3. Inserted(state', state, s, r)
    BY <1>1, <1>2, UpsertIs
  <1>4. t \in Thread
    BY DEF Proper, Records
  <1> QED BY <1>1, <1>2, <1>3, <1>4, WrittenSound DEF Others

\* A session that is made knows its turn, or will be told.
LEMMA NewSound ==
    ASSUME BaseInv, AllSound, NEW s \in Session, NEW t \in Thread, New(s, t)
    PROVE  AllSound'
  <1>1. /\ StateInv /\ CodexInv /\ ThreadsThere /\ EventsInv /\ Sound(t)
        /\ codex \in [Thread -> Threads] /\ turns \in Nat
    BY DEF BaseInv, CodexInv, AllSound
  <1>2. s \notin born /\ codex[t].kind = "absent"
    BY DEF New
  <1>3. ~Attached(t)
    BY <1>1, <1>2 DEF Attached, ThreadsThere
  <1>4. t \notin DOMAIN state.threads
    BY <1>1, <1>3, Led DEF Attached
  <1>5. codex[t].turn = 0 /\ codex[t].asks = {} /\ Silent(t)
    BY <1>1, <1>2, <1>4 DEF Sound
  <1>6. /\ Record(t) \in Proper /\ Record(t).thread = t /\ ~Record(t).archived
        /\ Created(t) \in Proper /\ Created(t).thread = t /\ ~Created(t).archived
    BY NewRecords
  <1>7. /\ Record(t).turn = 0 /\ Created(t).turn = 0
        /\ Record(t).state # "Failed" /\ Created(t).state # "Failed"
    BY DEF Record, Created
  <1>8. CASE StartTurn(s, Created(t))
    <2>1. /\ turns' = turns + 1 /\ Changed(t, "listed", turns', {}) /\ Announces(t, turns')
          /\ \/ Set(s, [Created(t) EXCEPT !.turn = turns', !.state = "Running"])
             \/ Set(s, Created(t))
      BY <1>1, <1>6, <1>8, StartTurnIs
    <2>2. PICK x : /\ Set(s, x)
                   /\ x \in {Created(t), [Created(t) EXCEPT !.turn = turns', !.state = "Running"]}
      BY <2>1
    <2>3. Keeps(Created(t), x) /\ x.state # "Failed"
      <3>1. turns' \in Nat
        BY <1>1, <2>1
      <3>2. /\ Keeps(Created(t), Created(t))
            /\ Keeps(Created(t), [Created(t) EXCEPT !.turn = turns', !.state = "Running"])
        BY <1>6, <3>1, RecordMoves DEF Keeps
      <3>3. Created(t) \in Records
        BY <1>6 DEF Proper
      <3> QED BY <1>7, <2>2, <3>2, <3>3 DEF Records
    <2>4. Suits(x, t)
      BY <1>1, <1>6, <2>1, <2>3, ToldSuits DEF Changed, Keeps
    <2>5. Others(t)
      BY <1>1, <2>1, OthersLeft
    <2>6. x \in Proper /\ x.thread = t /\ state' = Upsert(state, s, x)
      BY <1>6, <2>2, <2>3 DEF Keeps, Set
    <2> QED BY <1>2, <1>3, <2>4, <2>5, <2>6, MadeSound
  <1>9. CASE /\ codex' = [codex EXCEPT ![t].kind = "listed"]
             /\ \/ Set(s, Created(t))
                \/ CreationFails(s, t)
                \/ UNCHANGED state
             /\ UNCHANGED <<turns, events>>
    <2>1. Changed(t, "listed", 0, {})
      BY <1>1, <1>5, <1>9, CodexMoves
    <2>2. Others(t)
      BY <1>1, <1>9, <2>1, OthersLeft
    <2>3. Mute(events', t) /\ (Silent(t))'
      BY <1>5, <1>9 DEF Mute, Says, Silent
    <2>4. Suits(Record(t), t) /\ Suits(Created(t), t)
      BY <1>6, <1>7, <2>1, <2>3 DEF Suits, Changed
    <2>5. \/ UNCHANGED state
          \/ state' = Upsert(state, s, Created(t))
          \/ state' = Upsert(state, s, Record(t))
      BY <1>9 DEF Set, CreationFails
    <2>6. CASE UNCHANGED state
      <3>1. (Sound(t))'
        BY <1>1, <1>3, <1>4, <2>1, <2>3, <2>6 DEF Sound, GivenUp, Knows, Changed, Attached
      <3> QED BY <2>2, <2>6, <3>1, UnwrittenSound DEF Others
    <2>7. CASE state' = Upsert(state, s, Created(t))
      BY <1>2, <1>3, <1>6, <2>2, <2>4, <2>7, MadeSound
    <2>8. CASE state' = Upsert(state, s, Record(t))
      BY <1>2, <1>3, <1>6, <2>2, <2>4, <2>8, MadeSound
    <2> QED BY <2>5, <2>6, <2>7, <2>8
  <1> QED BY <1>8, <1>9 DEF New

\* A session made of a thread that was there finds it without a turn of its own.
LEMMA ResumeLocalSound ==
    ASSUME BaseInv, AllSound, Reliable, NEW s \in Session, NEW t \in Thread,
           ResumeLocal(s, t)
    PROVE  AllSound'
  <1>1. /\ StateInv /\ CodexInv /\ EventsInv /\ Sound(t)
        /\ codex \in [Thread -> Threads]
    BY DEF BaseInv, CodexInv, AllSound
  <1>2. s \notin born /\ codex[t].kind = "listed" /\ ~Attached(t)
    BY DEF ResumeLocal
  <1>3. t \notin DOMAIN state.threads
    BY <1>1, <1>2, Led DEF Attached
  <1>4. codex[t].turn = 0 /\ codex[t].asks = {} /\ Silent(t)
    BY <1>1, <1>2, <1>3 DEF Sound
  <1>5. /\ Record(t) \in Proper /\ Record(t).thread = t /\ ~Record(t).archived
        /\ Created(t) \in Proper /\ Created(t).thread = t /\ ~Created(t).archived
    BY NewRecords
  <1>6. CASE Set(s, Created(t)) /\ UNCHANGED <<codex, events>>
    <2>1. Created(t).turn = 0 /\ Created(t).state # "Failed"
      BY DEF Record, Created
    <2>2. Mute(events', t)
      BY <1>4, <1>6 DEF Mute, Says, Silent
    <2>3. Suits(Created(t), t)
      BY <1>4, <1>5, <1>6, <2>1, <2>2 DEF Suits
    <2>4. Others(t)
      BY <1>1, <1>6, OthersLeft
    <2> QED BY <1>2, <1>5, <1>6, <2>3, <2>4, MadeSound DEF Set
  <1>7. CASE CreationFails(s, t) /\ CodexArchive(t)
    <2>1. Changed(t, "archived", 0, {}) /\ (UNCHANGED events \/ Announces(t, 0))
      BY <1>1, <1>7, CodexArchiveIs
    <2>2. Others(t)
      BY <1>1, <2>1, OthersLeft
    <2>3. CASE state' = Upsert(state, s, Record(t))
      BY <1>2, <1>5, <2>1, <2>2, <2>3, ArchivedSuits, MadeSound
    <2>4. CASE UNCHANGED state
      <3>1. (Sound(t))'
        BY <1>3, <2>1, <2>4 DEF Sound, GivenUp, Knows, Changed
      <3> QED BY <2>2, <2>4, <3>1, UnwrittenSound DEF Others
    <2> QED BY <1>7, <2>3, <2>4 DEF CreationFails
  <1> QED BY <1>6, <1>7 DEF ResumeLocal, May, Reliable

\* An approval is answered: the thread asks less.
LEMMA ResolveSound ==
    ASSUME BaseInv, AllSound, NEW a \in Approval, ResolveApproval(a)
    PROVE  AllSound'
  <1>1. /\ StateInv /\ EventsInv /\ codex \in [Thread -> Threads]
        /\ a \in DOMAIN state.pending /\ UNCHANGED events
    BY DEF BaseInv, CodexInv, ResolveApproval
  <1>2. PICK p : p = state.pending[a]
    OBVIOUS
  <1>3. PICK s : s = p.session
    OBVIOUS
  <1>4. PICK r : r = state.table[s]
    OBVIOUS
  <1>5. PICK t : t = p.thread
    OBVIOUS
  <1>6. s \in DOMAIN state.table /\ t \in Thread /\ r.thread = t /\ ~r.archived
    BY <1>1, <1>2, <1>3, <1>4, <1>5 DEF StateInv, Asked
  <1>7. r \in Proper /\ Sound(t)
    BY <1>1, <1>4, <1>6, OwnThread DEF AllSound
  <1>8. CASE UNCHANGED <<state, codex>>
    <2>1. (Sound(t))'
      BY <1>1, <1>7, <1>8 DEF Sound, GivenUp, Knows, Of, Silent
    <2>2. Others(t)
      BY <1>1, <1>6, <1>8, OthersLeft
    <2> QED BY <1>6, <1>8, <2>1, <2>2, UnwrittenSound DEF Others
  <1>9. CASE /\ codex' = [codex EXCEPT ![t].asks = @ \ {a}]
             /\ state' = Upsert([state EXCEPT !.pending = Drop(@, {a})], s,
                                [r EXCEPT !.state = "Running"])
    <2>1. PICK st : st = [state EXCEPT !.pending = Drop(@, {a})]
      OBVIOUS
    <2>2. PICK x : x = [r EXCEPT !.state = "Running"]
      OBVIOUS
    <2>3. Refers(st)
      BY <1>1, <2>1, AnsweredRefers
    <2>4. Keeps(r, x) /\ x.turn = r.turn /\ x.state = "Running"
      <3>1. "Running" \in States \ {"Archived"}
        BY DEF States
      <3>2. Keeps(r, x)
        BY <1>7, <2>2, <3>1, RecordMoves
      <3> QED BY <1>7, <2>2, <3>2 DEF Proper, Records
    <2>5. Inserted(state', st, s, x)
      BY <1>1, <1>4, <1>6, <1>9, <2>1, <2>2, <2>3, <2>4, RefersIs
    <2>6. Tables(state) /\ st.table = state.table
      BY <1>1, <2>3 DEF StateInv, Refers, Same
    <2>7. x \in Proper /\ x.thread = state.table[s].thread /\ x.thread = t
      BY <1>4, <1>6, <2>4 DEF Keeps
    <2>8. Owns(state, s, x)
      BY <1>6, <2>6, <2>7, KeepsOwns
    <2>9. Owns(st, s, x)
      BY <2>6, <2>8 DEF Owns
    <2>10. Changed(t, codex[t].kind, codex[t].turn, codex[t].asks \ {a})
      BY <1>1, <1>6, <1>9, CodexMoves
    <2>11. Others(t)
      BY <1>1, <1>6, <2>10, OthersLeft
    <2>12. codex[t].kind = "listed" =>
              \/ LastSays(events, t, codex[t].turn)
              \/ Mute(events, t) /\ r.turn = codex[t].turn
      BY <1>1, <1>4, <1>6, <1>7, ListedIs
    <2>13. Suits(x, t)
      <3>1. ~(x.archived \/ x.state = "Failed")
        BY <1>6, <2>4 DEF Keeps
      <3>2. codex'[t].turn # 0 => codex'[t].kind = "listed"
        BY <1>7, <2>10 DEF Sound, Changed
      <3>3. codex'[t].asks # {} => codex'[t].turn # 0
        BY <1>7, <2>10 DEF Sound, Changed
      <3>4. codex'[t].kind = "listed" =>
              \/ LastSays(events', t, codex'[t].turn)
              \/ Mute(events', t) /\ x.turn = codex'[t].turn
        BY <1>1, <2>4, <2>10, <2>12 DEF Changed
      <3> QED BY <3>1, <3>2, <3>3, <3>4 DEF Suits
    <2> QED BY <1>6, <2>3, <2>5, <2>7, <2>9, <2>11, <2>13, WrittenSound DEF Others
  <1> QED BY <1>2, <1>3, <1>4, <1>5, <1>8, <1>9 DEF ResolveApproval, AnswerFails

\* A turn ends or asks: its thread is indexed.
LEMMA Running ==
    ASSUME StateInv, NEW t \in Thread, Sound(t), codex[t].turn # 0
    PROVE  /\ state.threads[t] \in DOMAIN state.table
           /\ state.table[state.threads[t]].thread = t
           /\ Indexed(state.table[state.threads[t]])
           /\ codex[t].kind = "listed"
  BY Led DEF Sound

\* The end of a turn is said.
LEMMA CompleteSound ==
    ASSUME BaseInv, AllSound, NEW t \in Thread, CodexComplete(t)
    PROVE  AllSound'
  <1>1. /\ StateInv /\ CodexInv /\ EventsInv /\ Sound(t) /\ UNCHANGED state
        /\ codex[t].turn # 0
    BY DEF BaseInv, AllSound, CodexComplete
  <1>2. Changed(t, codex[t].kind, 0, {}) /\ Announces(t, 0)
    BY <1>1, TurnEndsIs DEF CodexComplete
  <1>3. PICK s \in DOMAIN state.table : state.table[s].thread = t /\ Indexed(state.table[s])
    BY <1>1, Running
  <1>4. Suits(state.table[s], t)
    BY <1>1, <1>2, <1>3, ToldSuits DEF Changed, Indexed, Routed
  <1>5. Others(t)
    BY <1>1, <1>2, OthersLeft
  <1> QED BY <1>1, <1>3, <1>4, <1>5, UnwrittenSound DEF Others

\* A question says nothing of turns.
LEMMA AskSound ==
    ASSUME BaseInv, AllSound, NEW t \in Thread, NEW a \in Approval, CodexAsk(t, a)
    PROVE  AllSound'
  <1>1. /\ StateInv /\ CodexInv /\ EventsInv /\ Sound(t) /\ UNCHANGED state
        /\ codex[t].turn # 0
    BY DEF BaseInv, AllSound, CodexAsk
  <1>2. /\ Changed(t, codex[t].kind, codex[t].turn, codex[t].asks \cup {a})
        /\ Grows(<<Request(t, a)>>)
    BY <1>1, CodexAskIs
  <1>3. PICK s \in DOMAIN state.table : state.table[s].thread = t /\ Indexed(state.table[s])
    BY <1>1, Running
  <1>4. PICK d : d = <<Request(t, a)>>
    OBVIOUS
  <1>5. /\ d \in Seq(Notices) /\ events' = events \o d /\ Mute(d, t)
        /\ events \in Seq(Notices)
    BY <1>1, <1>2, <1>4 DEF Grows, Mute, Says, Request, EventsInv
  <1>6. \/ LastSays(events, t, codex[t].turn)
        \/ Mute(events, t) /\ state.table[s].turn = codex[t].turn
    BY <1>1, <1>3, ListedIs DEF Sound
  <1>7. \/ LastSays(events', t, codex[t].turn)
        \/ Mute(events', t) /\ state.table[s].turn = codex[t].turn
    BY <1>5, <1>6, GrownSays
  <1>8. Suits(state.table[s], t)
    <2>1. ~(state.table[s].archived \/ state.table[s].state = "Failed")
      BY <1>3 DEF Indexed, Routed
    <2>2. codex'[t].turn # 0 /\ codex'[t].kind = "listed" /\ codex'[t].turn = codex[t].turn
      BY <1>1, <1>2 DEF Changed, Sound
    <2> QED BY <1>7, <2>1, <2>2 DEF Suits
  <1>9. Others(t)
    BY <1>1, <1>2, OthersLeft
  <1> QED BY <1>1, <1>3, <1>8, <1>9, UnwrittenSound DEF Others

\* An event is taken that nobody follows: of a thread that is not indexed, or one that
\* says nothing of the turn.
LEMMA DroppedSound ==
    ASSUME BaseInv, AllSound, Takes, UNCHANGED <<state, codex>>,
           NEW t \in Thread, t = Head(events).thread,
           t \notin DOMAIN state.threads \/ ~Says(Head(events), t)
    PROVE  AllSound'
  <1>1. EventsInv /\ Sound(t)
    BY DEF BaseInv, AllSound
  <1>2. Range(events) = Range(events') \cup {Head(events)}
    BY <1>1, TakenRange DEF EventsInv, Takes
  <1>3. Silent(t) => (Silent(t))'
    BY <1>2, SilentIs
  <1>4. (Knows(t))'
    <2>1. CASE t \notin DOMAIN state.threads
      BY <2>1 DEF Knows
    <2>2. CASE ~Says(Head(events), t)
      <3>1. /\ Mute(events, t) => Mute(events', t)
            /\ LastSays(events, t, codex[t].turn) => LastSays(events', t, codex[t].turn)
        BY <1>1, <2>2, TakenSays DEF EventsInv, Takes
      <3> QED BY <1>1, <3>1 DEF Sound, Knows, Of
    <2> QED BY <2>1, <2>2
  <1>5. (Sound(t))'
    BY <1>1, <1>3, <1>4 DEF Sound, GivenUp
  <1>6. Others(t)
    BY <1>1, OthersLeft
  <1> QED BY <1>5, <1>6, UnwrittenSound DEF Others

\* An event is taken and the session follows it: it knows the turn it was told of.
LEMMA FollowedSound ==
    ASSUME BaseInv, AllSound, Takes, UNCHANGED codex,
           NEW t \in Thread, t = Head(events).thread, t \in DOMAIN state.threads,
           NEW st, Refers(st), NEW r, Keeps(Of(t), r), r.state # "Failed",
           Inserted(state', st, state.threads[t], r),
           r.turn = IF Says(Head(events), t) THEN Said(Head(events)) ELSE Of(t).turn
    PROVE  AllSound'
  <1>1. StateInv /\ EventsInv /\ Sound(t) /\ Tables(state) /\ st.table = state.table
    BY DEF BaseInv, StateInv, AllSound, Refers, Same
  <1>2. /\ state.threads[t] \in DOMAIN state.table /\ Of(t) = state.table[state.threads[t]]
        /\ Of(t).thread = t /\ Indexed(Of(t))
    BY <1>1, Led
  <1>3. PICK s : s = state.threads[t]
    OBVIOUS
  <1>4. r \in Proper /\ r.thread = state.table[s].thread /\ r.thread = t /\ ~r.archived
    BY <1>2, <1>3 DEF Keeps, Indexed, Routed
  <1>5. Owns(state, s, r)
    BY <1>1, <1>2, <1>3, <1>4, KeepsOwns
  <1>6. Owns(st, s, r)
    BY <1>1, <1>5 DEF Owns
  <1>7. events \in Seq(Notices) /\ events # <<>> /\ events' = Tail(events)
    BY <1>1 DEF EventsInv, Takes
  <1>8. codex[t].kind = "listed" =>
          \/ LastSays(events', t, codex[t].turn)
          \/ Mute(events', t) /\ r.turn = codex[t].turn
    <2> SUFFICES ASSUME codex[t].kind = "listed"
                 PROVE  \/ LastSays(events', t, codex[t].turn)
                        \/ Mute(events', t) /\ r.turn = codex[t].turn
      OBVIOUS
    <2>1. \/ LastSays(events, t, codex[t].turn)
          \/ Mute(events, t) /\ Of(t).turn = codex[t].turn
      BY <1>1 DEF Sound, Knows
    <2>2. CASE LastSays(events, t, codex[t].turn)
      <3>1. \/ LastSays(events', t, codex[t].turn)
            \/ /\ Mute(events', t) /\ Says(Head(events), t)
               /\ Said(Head(events)) = codex[t].turn
        BY <1>7, <2>2, TakenSays
      <3> QED BY <3>1
    <2>3. CASE Mute(events, t) /\ Of(t).turn = codex[t].turn
      <3>1. Mute(events', t) /\ ~Says(Head(events), t)
        BY <1>7, <2>3, TakenSays
      <3> QED BY <2>3, <3>1
    <2> QED BY <2>1, <2>2, <2>3
  <1>9. Suits(r, t)
    BY <1>1, <1>4, <1>8 DEF Suits, Sound
  <1>10. Others(t)
    BY <1>1, OthersLeft
  <1> QED BY <1>3, <1>4, <1>6, <1>9, <1>10, WrittenSound DEF Others

\* A status that is taken changes no turn.
LEMMA StatusSound ==
    ASSUME BaseInv, AllSound, StatusChanged
    PROVE  AllSound'
  <1>1. StateInv /\ EventsInv
    BY DEF BaseInv
  <1>2. PICK t : t = Head(events).thread
    OBVIOUS
  <1>3. /\ Takes /\ Head(events).kind = "status" /\ t \in Thread /\ UNCHANGED codex
        /\ \E x \in States \ {"Archived", "Failed"} : Follow(t, [Of(t) EXCEPT !.state = x])
    BY <1>1, <1>2, StatusIs
  <1>4. PICK x \in States \ {"Archived", "Failed"} : Follow(t, [Of(t) EXCEPT !.state = x])
    BY <1>3
  <1>5. PICK r : r = [Of(t) EXCEPT !.state = x]
    OBVIOUS
  <1>6. CASE t \in DOMAIN state.threads
    <2>1. Of(t) \in Proper
      BY <1>1, <1>6, Led
    <2>2. Keeps(Of(t), r) /\ r.turn = Of(t).turn /\ r.state = x
      BY <1>5, <2>1, RecordMoves DEF Proper, Records
    <2>3. Inserted(state', state, state.threads[t], r)
      BY <1>1, <1>4, <1>5, <1>6, <2>2, FollowIs
    <2>4. ~Says(Head(events), t)
      BY <1>3 DEF Says
    <2>5. Refers(state)
      BY <1>1 DEF Refers, Same, StateInv, Tables
    <2> QED BY <1>2, <1>3, <1>4, <1>6, <2>2, <2>3, <2>4, <2>5, FollowedSound
  <1>7. CASE t \notin DOMAIN state.threads
    BY <1>2, <1>3, <1>4, <1>7, DroppedSound DEF Follow
  <1> QED BY <1>6, <1>7

\* The start that is taken says last, or another does.
LEMMA StartedSound ==
    ASSUME BaseInv, AllSound, TurnStarted
    PROVE  AllSound'
  <1>1. StateInv /\ EventsInv /\ TakeEvent("started")
    BY DEF BaseInv, TurnStarted
  <1>2. PICK t : t = Head(events).thread
    OBVIOUS
  <1>3. PICK n : n = Head(events).turn
    OBVIOUS
  <1>4. /\ Takes /\ Head(events).kind = "started" /\ t \in Thread /\ n \in Nat
        /\ UNCHANGED codex /\ Follow(t, [Of(t) EXCEPT !.turn = n, !.state = "Running"])
    BY <1>1, <1>2, <1>3, Took DEF TurnStarted
  <1>5. PICK r : r = [Of(t) EXCEPT !.turn = n, !.state = "Running"]
    OBVIOUS
  <1>6. CASE t \in DOMAIN state.threads
    <2>1. Of(t) \in Proper
      BY <1>1, <1>6, Led
    <2>2. Keeps(Of(t), r) /\ r.turn = n /\ r.state = "Running"
      BY <1>4, <1>5, <2>1, RecordMoves DEF Proper, Records
    <2>3. Inserted(state', state, state.threads[t], r)
      BY <1>1, <1>4, <1>5, <1>6, <2>2, FollowIs
    <2>4. Says(Head(events), t) /\ Said(Head(events)) = n
      BY <1>2, <1>3, <1>4 DEF Says, Said
    <2>5. Refers(state)
      BY <1>1 DEF Refers, Same, StateInv, Tables
    <2> QED BY <1>2, <1>4, <1>6, <2>2, <2>3, <2>4, <2>5, FollowedSound
  <1>7. CASE t \notin DOMAIN state.threads
    BY <1>2, <1>4, <1>7, DroppedSound DEF Follow
  <1> QED BY <1>6, <1>7

\* So does the end.
LEMMA CompletedSound ==
    ASSUME BaseInv, AllSound, TurnCompleted
    PROVE  AllSound'
  <1>1. StateInv /\ EventsInv /\ TakeEvent("completed")
    BY DEF BaseInv, TurnCompleted
  <1>2. PICK t : t = Head(events).thread
    OBVIOUS
  <1>3. /\ Takes /\ Head(events).kind = "completed" /\ t \in Thread
        /\ UNCHANGED codex /\ Follow(t, Final(Of(t)))
    BY <1>1, <1>2, Took DEF TurnCompleted
  <1>4. PICK r : r = Final(Of(t))
    OBVIOUS
  <1>5. CASE t \in DOMAIN state.threads
    <2>1. Of(t) \in Proper
      BY <1>1, <1>5, Led
    <2>2. Keeps(Of(t), r)
      BY <1>4, <2>1, RecordMoves
    <2>3. r.turn = 0 /\ r.state = "Completed"
      BY <1>4, <2>1 DEF Proper, Records, Final
    <2>4. Inserted(state', state, state.threads[t], r)
      BY <1>1, <1>3, <1>4, <1>5, <2>2, FollowIs
    <2>5. Says(Head(events), t) /\ Said(Head(events)) = 0
      BY <1>2, <1>3 DEF Says, Said
    <2>6. Refers(state)
      BY <1>1 DEF Refers, Same, StateInv, Tables
    <2> QED BY <1>2, <1>3, <1>5, <2>2, <2>3, <2>4, <2>5, <2>6, FollowedSound
  <1>6. CASE t \notin DOMAIN state.threads
    BY <1>2, <1>3, <1>6, DroppedSound DEF Follow
  <1> QED BY <1>5, <1>6

\* A question that is taken changes no turn.
LEMMA RequestSound ==
    ASSUME BaseInv, AllSound, RequestApproval
    PROVE  AllSound'
  <1>1. StateInv /\ EventsInv
    BY DEF BaseInv
  <1>2. PICK t : t = Head(events).thread
    OBVIOUS
  <1>3. PICK r : r = [Of(t) EXCEPT !.state = "WaitingApproval"]
    OBVIOUS
  <1>4. /\ Takes /\ Head(events).kind = "request" /\ t \in Thread /\ UNCHANGED codex
        /\ \/ /\ t \in DOMAIN state.threads
              /\ \E st : /\ Refers(st) /\ Inserted(state', st, state.threads[t], r)
                         /\ Keeps(Of(t), r)
           \/ UNCHANGED state
    BY <1>1, <1>2, <1>3, RequestIs
  <1>5. ~Says(Head(events), t)
    BY <1>4 DEF Says
  <1>6. CASE UNCHANGED state
    BY <1>2, <1>4, <1>5, <1>6, DroppedSound
  <1>7. ASSUME t \in DOMAIN state.threads, NEW st, Refers(st),
               Inserted(state', st, state.threads[t], r), Keeps(Of(t), r)
        PROVE  AllSound'
    <2>1. Of(t) \in Proper
      BY <1>1, <1>7, Led
    <2>2. r.turn = Of(t).turn /\ r.state # "Failed"
      BY <1>3, <2>1 DEF Proper, Records
    <2> QED BY <1>2, <1>4, <1>5, <1>7, <2>2, FollowedSound
  <1> QED BY <1>4, <1>6, <1>7

\* Every thread is sound, initially and after every step of a plan without restarts and
\* unreadable threads.
LEMMA TurnsInit == Init => TurnsInv
  <1> SUFFICES ASSUME Init PROVE TurnsInv
    OBVIOUS
  <1>1. DOMAIN state.table = {} /\ DOMAIN state.threads = {}
    <2>1. state.table = <<>> /\ state.threads = <<>>
      BY DEF Init, Empty
    <2> QED BY <2>1
  <1>2. DOMAIN events = {}
    <2>1. events = <<>>
      BY DEF Init
    <2> QED BY <2>1
  <1>3. PICK local : codex = [t \in Thread |->
                                [kind |-> IF t \in local THEN "listed" ELSE "absent",
                                 turn |-> 0, asks |-> {}]]
    BY DEF Init
  <1>4. \A t \in Thread : codex[t].turn = 0 /\ codex[t].asks = {}
    BY <1>3
  <1>5. \A t \in Thread : GivenUp(t) /\ Knows(t) /\ Silent(t)
    BY <1>1, <1>2 DEF GivenUp, Knows, Silent
  <1> QED BY <1>4, <1>5 DEF TurnsInv, Sound

\* Every step keeps every thread sound.
LEMMA StepSound ==
    ASSUME BaseInv, AllSound, Reliable, Next
    PROVE  AllSound'
  <1>1. CASE \E s \in Session :
               \/ ArchiveSession(s) \/ CleanupFailed(s) \/ Purge(s) \/ Diagnose(s)
               \/ Prompt(s) \/ Resume(s) \/ Pause(s)
               \/ \E t \in Thread : New(s, t) \/ ResumeLocal(s, t)
    <2>1. PICK s \in Session :
               \/ ArchiveSession(s) \/ CleanupFailed(s) \/ Purge(s) \/ Diagnose(s)
               \/ Prompt(s) \/ Resume(s) \/ Pause(s)
               \/ \E t \in Thread : New(s, t) \/ ResumeLocal(s, t)
      BY <1>1
    <2>2. CASE ArchiveSession(s) \/ CleanupFailed(s)
      BY <2>2, ArchiveSound DEF ArchiveSession, CleanupFailed, Failures
    <2>3. CASE Purge(s)
      BY <2>3, PurgeSound
    <2>4. CASE Diagnose(s)
      BY <2>4, DiagnoseSound
    <2>5. CASE Prompt(s)
      BY <2>5, PromptSound
    <2>6. CASE Resume(s)
      BY <2>6, ResumeSound
    <2>7. CASE Pause(s)
      BY <2>7, PauseSound
    <2>8. CASE \E t \in Thread : New(s, t) \/ ResumeLocal(s, t)
      BY <2>8, NewSound, ResumeLocalSound
    <2> QED BY <2>1, <2>2, <2>3, <2>4, <2>5, <2>6, <2>7, <2>8
  <1>2. CASE \E a \in Approval : ResolveApproval(a) \/ \E t \in Thread : CodexAsk(t, a)
    BY <1>2, ResolveSound, AskSound
  <1>3. CASE \E t \in Thread : CodexComplete(t)
    BY <1>3, CompleteSound
  <1>4. CASE StatusChanged
    BY <1>4, StatusSound
  <1>5. CASE TurnStarted
    BY <1>5, StartedSound
  <1>6. CASE TurnCompleted
    BY <1>6, CompletedSound
  <1>7. CASE RequestApproval
    BY <1>7, RequestSound
  <1>8. CASE Restart
    BY <1>8 DEF Restart, May, Reliable
  <1> QED BY <1>1, <1>2, <1>3, <1>4, <1>5, <1>6, <1>7, <1>8 DEF Next

\* So does every step of the specification, for a plan that is reliable.
LEMMA TurnsNext == BaseInv /\ TurnsInv /\ [Next]_vars => TurnsInv'
  <1> SUFFICES ASSUME BaseInv, TurnsInv, [Next]_vars, Reliable' PROVE AllSound'
    BY DEF TurnsInv, AllSound
  <1>1. plan' = plan
    BY DEF Next, vars, ArchiveSession, CleanupFailed, Archive, Purge, Diagnose, Prompt,
       Resume, Pause, New, ResumeLocal, ResolveApproval, CodexAsk, CodexComplete,
       StatusChanged, TurnStarted, TurnCompleted, RequestApproval, Restart
  <1>2. Reliable /\ AllSound
    BY <1>1 DEF Reliable, TurnsInv, AllSound
  <1>3. CASE Next
    BY <1>2, <1>3, StepSound
  <1>4. CASE UNCHANGED vars
    <2>1. UNCHANGED <<state, codex, events>>
      BY <1>4 DEF vars
    <2>2. \A t \in Thread : (Sound(t))'
      BY <1>2, <2>1 DEF AllSound, Sound, GivenUp, Knows, Of, Silent
    <2> QED BY <2>2 DEF AllSound
  <1> QED BY <1>3, <1>4

\* Every thread is sound in every state that is reached.
LEMMA TurnsInvariant == Spec => []TurnsInv
  BY TurnsInit, TurnsNext, BaseInvariant, PTL DEF Spec

\* When the loop has taken the events of a thread, its session knows the turn that runs
\* or that none does, however prompts, answers and events crossed (handle_codex_event).
THEOREM TurnsAreFollowed == Spec => []TurnFollowsCodex
  <1>1. TurnsInv /\ BaseInv => TurnFollowsCodex
    <2> SUFFICES ASSUME TurnsInv, BaseInv, Reliable, NEW t \in DOMAIN state.threads,
                        Silent(t), codex[t].kind = "listed"
                 PROVE  Of(t).turn = codex[t].turn
      BY DEF TurnFollowsCodex
    <2>1. t \in Thread /\ Knows(t)
      BY Led DEF BaseInv, TurnsInv, Sound
    <2>2. ~LastSays(events, t, codex[t].turn)
      BY DEF LastSays, Says, Silent
    <2> QED BY <2>1, <2>2 DEF Knows
  <1> QED BY <1>1, TurnsInvariant, BaseInvariant, PTL

\* A worker that counts no runtime work after it has emptied the channel leaves no turn
\* of a session running (lifecycle_codex_in_flight_count).
THEOREM DrainedIsIdle == Spec => []DrainedRuntimeIsIdle
  <1>1. TurnsInv /\ BaseInv => DrainedRuntimeIsIdle
    <2> SUFFICES ASSUME TurnsInv, BaseInv, Reliable, events = <<>>, InFlight = 0,
                        NEW t \in DOMAIN state.threads, codex[t].turn # 0
                 PROVE  FALSE
      BY DEF DrainedRuntimeIsIdle
    <2>1. /\ t \in Thread /\ Knows(t) /\ codex[t].kind = "listed"
          /\ state.threads[t] \in DOMAIN state.table
          /\ Of(t) = state.table[state.threads[t]] /\ Indexed(Of(t))
      BY Led DEF BaseInv, TurnsInv, Sound
    <2>2. DOMAIN events = {}
      OBVIOUS
    <2>3. Of(t).turn = codex[t].turn
      BY <2>1, <2>2 DEF Knows, LastSays
    <2>4. PICK busy : busy = {s \in DOMAIN state.table : Busy(state.table[s])}
      OBVIOUS
    <2>5. state.threads[t] \in busy
      BY <2>1, <2>3, <2>4 DEF Busy, Indexed
    <2>6. IsFiniteSet(busy)
      <3>1. IsFiniteSet(DOMAIN state.table) /\ busy \subseteq DOMAIN state.table
        BY <2>4 DEF BaseInv, StateInv, Tables, Shaped
      <3> QED BY <3>1, FS_Subset
    <2>7. Cardinality(busy) = 0
      BY <2>4 DEF InFlight
    <2> QED BY <2>5, <2>6, <2>7, FS_EmptySet
  <1> QED BY <1>1, TurnsInvariant, BaseInvariant, PTL


-----------------------------------------------------------------------------
(* What Codex asks.  As long as Webex takes the cards and the worker does  *)
(* not start again, a question that waits for its answer is in the channel *)
(* or with the user, and it is of one thread, wherever it is.              *)

Heard == plan.faults \subseteq {"codex"}

Home(t, a) ==
    /\ a \in born
    /\ \A u \in Thread : a \in codex[u].asks => u = t
    /\ a \in DOMAIN state.pending => state.pending[a].thread = t
    /\ \A u : Request(u, a) \in Range(events) => u = t
    /\ Request(t, a) \in Range(events) \/ a \in DOMAIN state.pending

AtHome == \A t \in Thread : \A a \in codex[t].asks : Home(t, a)
AsksInv == Heard => AtHome

\* A step that asks nothing: no question is new, none is taken from the channel, and
\* one that the user no longer sees has its answer.
AsksFall == \A u \in Thread : codex'[u].asks \subseteq codex[u].asks
RequestsSame == \A u, a : Request(u, a) \in Range(events') <=> Request(u, a) \in Range(events)
PendingFalls ==
    \A a \in DOMAIN state'.pending :
        a \in DOMAIN state.pending /\ state'.pending[a].thread = state.pending[a].thread
LostAnswered ==
    \A a \in DOMAIN state.pending :
        a \in DOMAIN state'.pending \/ a \notin codex'[state.pending[a].thread].asks

Falls == AsksFall /\ RequestsSame /\ PendingFalls /\ LostAnswered

\* Then every question is where it was.
LEMMA FallsKeep ==
    ASSUME AtHome, Falls, born \subseteq born'
    PROVE  AtHome'
  <1> SUFFICES ASSUME NEW t \in Thread, NEW a \in codex'[t].asks PROVE (Home(t, a))'
    BY DEF AtHome
  <1>1. a \in codex[t].asks /\ Home(t, a)
    BY DEF AtHome, Falls, AsksFall
  <1>2. a \in born' /\ \A u \in Thread : a \in codex'[u].asks => u = t
    BY <1>1 DEF Home, Falls, AsksFall
  <1>3. a \in DOMAIN state'.pending => state'.pending[a].thread = t
    BY <1>1 DEF Home, Falls, PendingFalls
  <1>4. \A u : Request(u, a) \in Range(events') => u = t
    BY <1>1 DEF Home, Falls, RequestsSame
  <1>5. Request(t, a) \in Range(events') \/ a \in DOMAIN state'.pending
    BY <1>1 DEF Home, Falls, RequestsSame, LostAnswered
  <1> QED BY <1>2, <1>3, <1>4, <1>5 DEF Home

\* What Codex tells of a turn asks nothing.
LEMMA RequestsKeep ==
    ASSUME EventsInv, born \subseteq born',
           \/ UNCHANGED events
           \/ \E t, n : Announces(t, n)
           \/ Takes /\ Head(events).kind # "request"
    PROVE  RequestsSame
  <1>1. \A u, a : Request(u, a).kind = "request"
    BY DEF Request
  <1>2. CASE UNCHANGED events
    BY <1>2 DEF RequestsSame
  <1>3. CASE \E t, n : Announces(t, n)
    <2>1. PICK t, n, d : Tells(d, t, n) /\ Grows(d)
      BY <1>3 DEF Announces
    <2>2. Range(events') = Range(events) \cup Range(d)
      BY <2>1, GrowsKeeps
    <2>3. \A e \in Range(d) : e.kind # "request"
      BY <2>1 DEF Tells
    <2> HIDE DEF Request
    <2> QED BY <1>1, <2>2, <2>3 DEF RequestsSame
  <1>4. CASE Takes /\ Head(events).kind # "request"
    <2>1. Range(events) = Range(events') \cup {Head(events)}
      BY <1>4, TakesKeeps
    <2> QED BY <1>1, <1>4, <2>1 DEF RequestsSame
  <1> QED BY <1>2, <1>3, <1>4

\* A record that is written leaves the approvals alone.
LEMMA PendingKeeps ==
    ASSUME UNCHANGED state \/ \E s, r : state' = Upsert(state, s, r)
    PROVE  PendingFalls /\ LostAnswered
  <1>1. \A s, r : Upsert(state, s, r).pending = state.pending
    BY DEF Upsert
  <1>2. state'.pending = state.pending
    BY <1>1
  <1> QED BY <1>2 DEF PendingFalls, LostAnswered

\* One thread loses questions, the others keep theirs.
LEMMA ChangedFalls ==
    ASSUME NEW t \in Thread, NEW kind, NEW turn, NEW asks, Changed(t, kind, turn, asks),
           asks \subseteq codex[t].asks
    PROVE  AsksFall
  BY DEF AsksFall, Changed

\* A step about one turn, and about the record of a session.
LEMMA TurnFalls ==
    ASSUME EventsInv, born \subseteq born', NEW t \in Thread,
           \/ UNCHANGED codex
           \/ \E kind, turn, asks : Changed(t, kind, turn, asks) /\ asks \subseteq codex[t].asks,
           \/ UNCHANGED events
           \/ \E u, n : Announces(u, n)
           \/ Takes /\ Head(events).kind # "request",
           UNCHANGED state \/ \E s, r : state' = Upsert(state, s, r)
    PROVE  Falls
  <1>1. AsksFall
    BY ChangedFalls DEF AsksFall
  <1> QED BY <1>1, RequestsKeep, PendingKeeps DEF Falls


\* A session is made.
LEMMA NewFalls ==
    ASSUME BaseInv, NEW s \in Session, NEW t \in Thread, New(s, t)
    PROVE  Falls
  <1>1. /\ CodexInv /\ EventsInv /\ codex \in [Thread -> Threads] /\ born \subseteq born'
        /\ Created(t) \in Proper /\ Created(t).thread = t
    BY NewRecords DEF BaseInv, CodexInv, New
  <1>2. CASE StartTurn(s, Created(t))
    <2>1. /\ Changed(t, "listed", turns', {}) /\ Announces(t, turns')
          /\ \E r : state' = Upsert(state, s, r)
      BY <1>1, <1>2, StartTurnIs DEF Set
    <2> QED BY <1>1, <2>1, TurnFalls
  <1>3. CASE /\ codex' = [codex EXCEPT ![t].kind = "listed"]
             /\ \/ Set(s, Created(t))
                \/ CreationFails(s, t)
                \/ UNCHANGED state
             /\ UNCHANGED <<turns, events>>
    <2>1. Changed(t, "listed", codex[t].turn, codex[t].asks)
      BY <1>1, <1>3, CodexMoves
    <2>2. UNCHANGED state \/ \E r : state' = Upsert(state, s, r)
      BY <1>3 DEF Set, CreationFails
    <2> QED BY <1>1, <1>3, <2>1, <2>2, TurnFalls
  <1> QED BY <1>2, <1>3 DEF New

\* A session is made of a thread that was there.
LEMMA ResumeLocalFalls ==
    ASSUME BaseInv, NEW s \in Session, NEW t \in Thread, ResumeLocal(s, t)
    PROVE  Falls
  <1>1. CodexInv /\ EventsInv /\ born \subseteq born'
    BY DEF BaseInv, ResumeLocal
  <1>2. UNCHANGED state \/ \E r : state' = Upsert(state, s, r)
    BY DEF ResumeLocal, Set, CreationFails
  <1>3. CASE UNCHANGED <<codex, events>>
    BY <1>1, <1>2, <1>3, TurnFalls
  <1>4. CASE CodexArchive(t)
    <2>1. Changed(t, "archived", 0, {}) /\ (UNCHANGED events \/ Announces(t, 0))
      BY <1>1, <1>4, CodexArchiveIs
    <2> QED BY <1>1, <1>2, <2>1, TurnFalls
  <1> QED BY <1>3, <1>4 DEF ResumeLocal

\* The approvals of a session go, and what its thread asked is over.
LEMMA UnaskedFalls ==
    ASSUME StateInv, NEW s \in DOMAIN state.table, Unasked(state', state, s),
           codex'[state.table[s].thread].asks = {}
    PROVE  PendingFalls /\ LostAnswered
  <1>1. /\ DOMAIN state'.pending = {a \in DOMAIN state.pending : state.pending[a].session # s}
        /\ \A a \in DOMAIN state'.pending : state'.pending[a] = state.pending[a]
    BY DEF Unasked, Agree
  <1>2. \A a \in DOMAIN state.pending :
          state.table[state.pending[a].session].thread = state.pending[a].thread
    BY DEF StateInv, Asked
  <1> QED BY <1>1, <1>2 DEF PendingFalls, LostAnswered

\* A session is archived.
LEMMA ArchiveFalls ==
    ASSUME BaseInv, Heard, NEW s \in DOMAIN state.table, Archive(s)
    PROVE  Falls
  <1>1. StateInv /\ CodexInv /\ EventsInv /\ Tables(state) /\ Asked(state) /\ born' = born
    BY DEF BaseInv, StateInv, Archive
  <1>2. PICK r : r = state.table[s]
    OBVIOUS
  <1>3. r \in Proper /\ r.thread \in Thread
    BY <1>1, <1>2, OwnThread
  <1>4. PICK archived : archived = [r EXCEPT !.archived = TRUE, !.state = "Archived"]
    OBVIOUS
  <1>5. archived \in Proper /\ archived.thread = r.thread
    BY <1>3, <1>4, NewRecords
  <1>6. /\ CodexArchive(r.thread)
        /\ \/ state' = WithoutApprovals(Upsert(state, s, archived), s)
           \/ UNCHANGED state
    BY <1>2, <1>4 DEF Archive, Heard, May
  <1>7. Changed(r.thread, "archived", 0, {}) /\ (UNCHANGED events \/ Announces(r.thread, 0))
    BY <1>1, <1>3, <1>6, CodexArchiveIs
  <1>8. AsksFall /\ RequestsSame
    BY <1>1, <1>3, <1>7, ChangedFalls, RequestsKeep
  <1>9. CASE state' = WithoutApprovals(Upsert(state, s, archived), s)
    <2>1. Unasked(state', state, s)
      BY <1>1, <1>2, <1>5, <1>9, ArchivedKeeps DEF Archives
    <2>2. codex'[state.table[s].thread].asks = {}
      BY <1>2, <1>7 DEF Changed
    <2> QED BY <1>1, <1>8, <2>1, <2>2, UnaskedFalls DEF Falls
  <1>10. CASE UNCHANGED state
    BY <1>8, <1>10, PendingKeeps DEF Falls
  <1> QED BY <1>6, <1>9, <1>10

\* A session is purged: it had no approval left.
LEMMA PurgeFalls ==
    ASSUME BaseInv, NEW s \in Session, Purge(s)
    PROVE  Falls
  <1>1. /\ StateInv /\ EventsInv /\ Tables(state) /\ Asked(state) /\ s \in DOMAIN state.table
        /\ ~Routed(state.table[s]) /\ state' = Remove(state, s)
        /\ UNCHANGED <<born, codex, events>>
    BY DEF BaseInv, StateInv, Purge
  <1>2. Unasked(state', state, s)
    BY <1>1, RemovedKeeps DEF Removes
  <1>3. state.table[s] \in Proper
    BY <1>1, OwnThread
  <1>4. state.table[s].archived
    BY <1>1, <1>3 DEF Routed, Proper
  <1>5. \A a \in DOMAIN state.pending : state.pending[a].session # s
    BY <1>1, <1>4 DEF Asked
  <1>6. PendingFalls /\ LostAnswered
    BY <1>2, <1>5 DEF Unasked, Agree, PendingFalls, LostAnswered
  <1>7. AsksFall /\ RequestsSame
    BY <1>1, RequestsKeep DEF AsksFall
  <1> QED BY <1>6, <1>7 DEF Falls

\* A prompt replaces the turn, and with it what it asked.
LEMMA PromptFalls ==
    ASSUME BaseInv, NEW s \in Session, Prompt(s)
    PROVE  Falls
  <1>1. StateInv /\ CodexInv /\ EventsInv /\ born' = born /\ s \in DOMAIN state.table
    BY Prompted DEF BaseInv, Prompt
  <1>2. state.table[s] \in Proper /\ state.table[s].thread \in Thread
    BY <1>1, OwnThread
  <1>3. /\ Changed(state.table[s].thread, "listed", turns', {})
        /\ Announces(state.table[s].thread, turns')
        /\ \E r : state' = Upsert(state, s, r)
    BY <1>1, <1>2, StartTurnIs DEF Prompt, Set
  <1> QED BY <1>1, <1>2, <1>3, TurnFalls

\* A pause ends the turn, and with it what it asked.
LEMMA PauseFalls ==
    ASSUME BaseInv, NEW s \in Session, Pause(s)
    PROVE  Falls
  <1>1. StateInv /\ CodexInv /\ EventsInv /\ born' = born /\ s \in DOMAIN state.table
    BY DEF BaseInv, Pause
  <1>2. PICK t : t = state.table[s].thread
    OBVIOUS
  <1>3. t \in Thread
    BY <1>1, <1>2, OwnThread
  <1>4. UNCHANGED state \/ \E r : state' = Upsert(state, s, r)
    BY DEF Pause, Set
  <1>5. CASE TurnEnds(t)
    <2>1. Changed(t, codex[t].kind, 0, {}) /\ Announces(t, 0)
      BY <1>1, <1>3, <1>5, TurnEndsIs
    <2> QED BY <1>1, <1>3, <1>4, <2>1, TurnFalls
  <1>6. CASE UNCHANGED <<codex, events>>
    BY <1>1, <1>3, <1>4, <1>6, TurnFalls
  <1> QED BY <1>2, <1>5, <1>6 DEF Pause

\* An approval that is answered goes, and so does the question.
LEMMA ResolveFalls ==
    ASSUME BaseInv, NEW a \in Approval, ResolveApproval(a)
    PROVE  Falls
  <1>1. /\ StateInv /\ CodexInv /\ EventsInv /\ codex \in [Thread -> Threads]
        /\ a \in DOMAIN state.pending /\ UNCHANGED <<born, events>>
    BY DEF BaseInv, CodexInv, ResolveApproval
  <1>2. PICK p : p = state.pending[a]
    OBVIOUS
  <1>3. p.thread \in Thread
    BY <1>1, <1>2 DEF StateInv, Asked
  <1>4. RequestsSame
    BY <1>1, RequestsKeep
  <1>5. CASE /\ codex' = [codex EXCEPT ![p.thread].asks = @ \ {a}]
             /\ state' = Upsert([state EXCEPT !.pending = Drop(@, {a})], p.session,
                                [state.table[p.session] EXCEPT !.state = "Running"])
    <2>1. PICK st : st = [state EXCEPT !.pending = Drop(@, {a})]
      OBVIOUS
    <2>2. /\ DOMAIN st.pending = DOMAIN state.pending \ {a}
          /\ Agree(st.pending, state.pending, DOMAIN state.pending \ {a})
      BY <1>1, <2>1, AnsweredRefers
    <2>3. state' = Upsert(st, p.session, [state.table[p.session] EXCEPT !.state = "Running"])
      BY <1>5, <2>1
    <2>4. state'.pending = st.pending
      BY <2>3 DEF Upsert
    <2>5. Changed(p.thread, codex[p.thread].kind, codex[p.thread].turn,
                  codex[p.thread].asks \ {a})
      BY <1>1, <1>3, <1>5, CodexMoves
    <2>6. a \notin codex'[state.pending[a].thread].asks
      BY <1>2, <2>5 DEF Changed
    <2>7. PendingFalls /\ LostAnswered
      BY <2>2, <2>4, <2>6 DEF Agree, PendingFalls, LostAnswered
    <2>8. AsksFall
      BY <1>3, <2>5, ChangedFalls
    <2> QED BY <1>4, <2>7, <2>8 DEF Falls
  <1>6. CASE UNCHANGED <<state, codex>>
    BY <1>4, <1>6, PendingKeeps DEF Falls, AsksFall
  <1> QED BY <1>2, <1>5, <1>6 DEF ResolveApproval, AnswerFails

\* A turn ends by itself; and the events that ask nothing.
LEMMA CompleteFalls ==
    ASSUME BaseInv, NEW t \in Thread, CodexComplete(t)
    PROVE  Falls
  <1>1. CodexInv /\ EventsInv /\ UNCHANGED <<state, born>>
    BY DEF BaseInv, CodexComplete
  <1>2. Changed(t, codex[t].kind, 0, {}) /\ Announces(t, 0)
    BY <1>1, TurnEndsIs DEF CodexComplete
  <1> QED BY <1>1, <1>2, TurnFalls

\* An event that asks nothing is taken.
LEMMA TakenFalls ==
    ASSUME BaseInv, StatusChanged \/ TurnStarted \/ TurnCompleted
    PROVE  Falls
  <1>1. EventsInv /\ UNCHANGED <<born, codex>>
    BY DEF BaseInv, StatusChanged, TurnStarted, TurnCompleted
  <1>2. Takes /\ Head(events).kind # "request"
    BY DEF StatusChanged, TurnStarted, TurnCompleted, TakeEvent, Takes
  <1>3. UNCHANGED state \/ \E s, r : state' = Upsert(state, s, r)
    BY DEF StatusChanged, TurnStarted, TurnCompleted, Follow, Set
  <1>4. AsksFall
    BY <1>1 DEF AsksFall
  <1> QED BY <1>1, <1>2, <1>3, <1>4, RequestsKeep, PendingKeeps DEF Falls


\* Codex asks: the question is new, and it is in the channel.
LEMMA AskKeeps ==
    ASSUME BaseInv, AtHome, NEW t \in Thread, NEW a \in Approval, CodexAsk(t, a)
    PROVE  AtHome'
  <1>1. /\ StateInv /\ CodexInv /\ EventsInv /\ a \notin born /\ born' = born \cup {a}
        /\ UNCHANGED state
    BY DEF BaseInv, CodexAsk
  <1>2. /\ Changed(t, codex[t].kind, codex[t].turn, codex[t].asks \cup {a})
        /\ Grows(<<Request(t, a)>>) /\ Range(<<Request(t, a)>>) = {Request(t, a)}
    BY <1>1, CodexAskIs
  <1>3. Range(events') = Range(events) \cup {Request(t, a)}
    BY <1>1, <1>2, GrowsKeeps
  <1>4. \A u, b : /\ Request(u, b).kind = "request" /\ Request(u, b).id = b
                  /\ Request(u, b).thread = u
    BY DEF Request
  <1>5. \A u, b : Request(u, b) \in Range(events) => b \in born
    BY <1>1, <1>4 DEF EventsInv
  <1>6. \A u \in Thread : codex'[u].asks \subseteq codex[u].asks \cup {a}
    BY <1>2 DEF Changed
  <1>7. \A u \in Thread : a \in codex'[u].asks => u = t
    BY <1>1, <1>2 DEF Changed, AtHome, Home
  <1> SUFFICES ASSUME NEW u \in Thread, NEW b \in codex'[u].asks PROVE (Home(u, b))'
    BY DEF AtHome
  <1>8. CASE b = a
    <2>1. u = t /\ a \notin DOMAIN state.pending
      BY <1>1, <1>7, <1>8 DEF StateInv
    <2>2. \A v : Request(v, a) \in Range(events') => v = t
      BY <1>1, <1>3, <1>4, <1>5
    <2> QED BY <1>1, <1>3, <1>7, <1>8, <2>1, <2>2 DEF Home
  <1>9. CASE b # a
    <2>1. b \in codex[u].asks /\ Home(u, b)
      BY <1>6, <1>9 DEF AtHome
    <2>2. \A v \in Thread : b \in codex'[v].asks => v = u
      BY <1>6, <1>9, <2>1 DEF Home
    <2>3. \A v : Request(v, b) \in Range(events') => v = u
      BY <1>3, <1>4, <1>9, <2>1 DEF Home
    <2> QED BY <1>1, <1>3, <2>1, <2>2, <2>3 DEF Home
  <1> QED BY <1>8, <1>9

\* A request is taken: the card is accepted, and the thread that asks is indexed.
LEMMA RequestKeeps ==
    ASSUME BaseInv, AllSound, AtHome, Heard, RequestApproval
    PROVE  AtHome'
  <1>1. StateInv /\ EventsInv
    BY DEF BaseInv
  <1>2. PICK t : t = Head(events).thread
    OBVIOUS
  <1>3. PICK a : a = Head(events).id
    OBVIOUS
  <1>4. /\ Takes /\ Head(events) \in Notices /\ Head(events).kind = "request"
        /\ t \in Thread /\ a \in Approval /\ UNCHANGED <<plan, born, codex, turns>>
    BY <1>1, <1>2, <1>3, RequestIs
  <1>5. Range(events) = Range(events') \cup {Request(t, a)}
    <2>1. Head(events) = Request(t, a)
      BY <1>2, <1>3, <1>4 DEF Notices, Request
    <2> QED BY <1>1, <1>4, <2>1, TakesKeeps
  <1>6. /\ a \in codex[t].asks => a \in DOMAIN state'.pending
        /\ DOMAIN state'.pending \in {DOMAIN state.pending, DOMAIN state.pending \cup {a}}
        /\ \A b \in DOMAIN state'.pending : b # a =>
             state'.pending[b] = state.pending[b]
        /\ a \in DOMAIN state'.pending =>
             \/ state'.pending[a].thread = t
             \/ a \in DOMAIN state.pending /\ state'.pending[a] = state.pending[a]
    <2>1. CASE \E st : /\ DOMAIN st.pending = DOMAIN state.pending \cup {a}
                       /\ Gives(st.pending, a, [session |-> state.threads[t], thread |-> t])
                       /\ Agree(st.pending, state.pending, DOMAIN state.pending \ {a})
                       /\ state'.pending = st.pending
      BY <2>1 DEF Gives, Agree
    <2>2. CASE UNCHANGED state /\ t \notin DOMAIN state.threads
      BY <1>4, <2>2 DEF AllSound, Sound
    <2>3. \/ \E st : /\ DOMAIN st.pending = DOMAIN state.pending \cup {a}
                     /\ Gives(st.pending, a, [session |-> state.threads[t], thread |-> t])
                     /\ Agree(st.pending, state.pending, DOMAIN state.pending \ {a})
                     /\ state'.pending = st.pending
          \/ UNCHANGED state /\ t \notin DOMAIN state.threads
      BY <1>1, <1>2, <1>3, RequestIs DEF Inserted, Heard, May
    <2> QED BY <2>1, <2>2, <2>3
  <1>7. \A u, b : Request(u, b).id = b
    BY DEF Request
  <1> SUFFICES ASSUME NEW u \in Thread, NEW b \in codex'[u].asks PROVE (Home(u, b))'
    BY DEF AtHome
  <1>8. b \in codex[u].asks /\ Home(u, b)
    BY <1>4 DEF AtHome
  <1>9. \A v : Request(v, b) \in Range(events') => v = u
    BY <1>5, <1>8 DEF Home
  <1>10. b = a => u = t
    BY <1>5, <1>8 DEF Home
  <1>11. b \in DOMAIN state'.pending => state'.pending[b].thread = u
    BY <1>6, <1>8, <1>10 DEF Home
  <1>12. Request(u, b) \in Range(events') \/ b \in DOMAIN state'.pending
    <2>1. CASE b = a
      BY <1>6, <1>8, <1>10, <2>1
    <2>2. CASE b # a
      BY <1>5, <1>6, <1>7, <1>8, <2>2 DEF Home
    <2> QED BY <2>1, <2>2
  <1> QED BY <1>4, <1>8, <1>9, <1>11, <1>12 DEF Home

\* Every step keeps the questions where they belong.
LEMMA StepKeeps ==
    ASSUME BaseInv, AllSound, AtHome, Heard, Next
    PROVE  AtHome'
  <1>1. born \subseteq born'
    BY StepMoves DEF Moves
  <1>2. CASE \E s \in Session :
               \/ ArchiveSession(s) \/ CleanupFailed(s) \/ Purge(s) \/ Diagnose(s)
               \/ Prompt(s) \/ Resume(s) \/ Pause(s)
               \/ \E t \in Thread : New(s, t) \/ ResumeLocal(s, t)
    <2>1. PICK s \in Session :
               \/ ArchiveSession(s) \/ CleanupFailed(s) \/ Purge(s) \/ Diagnose(s)
               \/ Prompt(s) \/ Resume(s) \/ Pause(s)
               \/ \E t \in Thread : New(s, t) \/ ResumeLocal(s, t)
      BY <1>2
    <2>2. CASE ArchiveSession(s) \/ CleanupFailed(s)
      BY <2>2, ArchiveFalls, <1>1, FallsKeep DEF ArchiveSession, CleanupFailed, Failures
    <2>3. CASE Purge(s)
      BY <2>3, PurgeFalls, <1>1, FallsKeep
    <2>4. CASE Diagnose(s) \/ Resume(s)
      <3>1. /\ \E r : state' = Upsert(state, s, r)
            /\ UNCHANGED <<born, codex, events>>
        BY <2>4 DEF Diagnose, Resume, Set
      <3>2. EventsInv
        BY DEF BaseInv
      <3>3. Falls
        BY <3>1, <3>2, RequestsKeep, PendingKeeps DEF Falls, AsksFall
      <3> QED BY <1>1, <3>3, FallsKeep
    <2>5. CASE Prompt(s)
      BY <2>5, PromptFalls, <1>1, FallsKeep
    <2>6. CASE Pause(s)
      BY <2>6, PauseFalls, <1>1, FallsKeep
    <2>7. CASE \E t \in Thread : New(s, t) \/ ResumeLocal(s, t)
      BY <2>7, NewFalls, ResumeLocalFalls, <1>1, FallsKeep
    <2> QED BY <2>1, <2>2, <2>3, <2>4, <2>5, <2>6, <2>7
  <1>3. CASE \E a \in Approval : ResolveApproval(a) \/ \E t \in Thread : CodexAsk(t, a)
    BY <1>1, <1>3, ResolveFalls, FallsKeep, AskKeeps
  <1>4. CASE \E t \in Thread : CodexComplete(t)
    BY <1>1, <1>4, CompleteFalls, FallsKeep
  <1>5. CASE StatusChanged \/ TurnStarted \/ TurnCompleted
    BY <1>1, <1>5, TakenFalls, FallsKeep
  <1>6. CASE RequestApproval
    BY <1>6, RequestKeeps
  <1>7. CASE Restart
    BY <1>7 DEF Restart, May, Heard
  <1> QED BY <1>2, <1>3, <1>4, <1>5, <1>6, <1>7 DEF Next

\* So does every step of the specification, as long as the plan has nothing more.
LEMMA AsksNext == BaseInv /\ TurnsInv /\ AsksInv /\ [Next]_vars => AsksInv'
  <1> SUFFICES ASSUME BaseInv, TurnsInv, AsksInv, [Next]_vars, Heard' PROVE AtHome'
    BY DEF AsksInv
  <1>1. plan' = plan
    BY DEF Next, vars, ArchiveSession, CleanupFailed, Archive, Purge, Diagnose, Prompt,
       Resume, Pause, New, ResumeLocal, ResolveApproval, CodexAsk, CodexComplete,
       StatusChanged, TurnStarted, TurnCompleted, RequestApproval, Restart
  <1>2. Heard /\ AtHome
    BY <1>1 DEF Heard, AsksInv
  <1>3. AllSound
    BY <1>2 DEF Heard, Reliable, TurnsInv, AllSound
  <1>4. CASE Next
    BY <1>2, <1>3, <1>4, StepKeeps
  <1>5. CASE UNCHANGED vars
    <2>1. UNCHANGED <<state, codex, events, born>>
      BY <1>5 DEF vars
    <2>2. Falls /\ born \subseteq born'
      BY <2>1 DEF Falls, AsksFall, RequestsSame, PendingFalls, LostAnswered
    <2> QED BY <1>2, <2>2, FallsKeep
  <1> QED BY <1>4, <1>5

\* What Codex asks and the loop has taken waits for the user, as long as Webex accepts
\* the card and the worker does not start again (request_approval, resolve_approval).
THEOREM QuestionsAreSeen == Spec => []AsksReachTheUser
  <1>1. Init => AsksInv
    <2> SUFFICES ASSUME Init PROVE AtHome
      BY DEF AsksInv
    <2>1. \A t \in Thread : codex[t].asks = {}
      BY DEF Init
    <2> QED BY <2>1 DEF AtHome
  <1>2. AsksInv => AsksReachTheUser
    <2> SUFFICES ASSUME AtHome, NEW t \in Thread, NEW a \in codex[t].asks, Silent(t)
                 PROVE  a \in DOMAIN state.pending
      BY DEF AsksInv, Heard, AsksReachTheUser
    <2>1. Request(t, a) \notin Range(events)
      BY SilentIs DEF Request
    <2> QED BY <2>1 DEF AtHome, Home
  <1> QED BY <1>1, <1>2, AsksNext, BaseInvariant, TurnsInvariant, PTL DEF Spec
=============================================================================
