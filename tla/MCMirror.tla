------------------------------- MODULE MCMirror -------------------------------
(* Instances of Mirror for TLC.                                             *)
EXTENDS Mirror

CONSTANTS w1, s1, s2, a1

AllThreads == [w \in Inst |-> Session]

Plan(faults, ids, interval, time, most) ==
    [faults |-> faults, ids |-> ids, interval |-> interval, time |-> time, starts |-> most]

\* Each fault with those it can meet, and as many changes as tell it apart.
SomeFaults ==
    {Plan({"crash", "local", "list"}, {s1, s2}, 2, 4, 3),
     Plan({"crash", "local"}, {s1, a1}, 3, 5, 3),
     Plan({"crash"}, {s1, s2, a1}, 3, 5, 2),
     Plan({"crash", "append", "local"}, {s1}, 2, 4, 3),
     Plan({"append", "replay", "list"}, {s1, s2}, 2, 3, 3),
     Plan({"replay"}, {s1, a1}, 2, 4, 3)}
=============================================================================
