------------------------------ MODULE MCSessions ------------------------------
(* Instances of Sessions for TLC.                                           *)
EXTENDS Sessions

CONSTANTS s1, s2, t1, t2, a1, a2

Plan(faults, sessions, threads, most) ==
    [faults |-> faults, sessions |-> sessions, threads |-> threads, turns |-> most]

\* Two sessions with a thread each; one whose calls fail; two after each other on
\* one thread, over restarts.
SomeFaults ==
    {Plan({}, {s1, s2}, {t1, t2}, 2), Plan({"codex"}, {s1}, {t1}, 3),
     Plan({"codex", "card"}, {s1}, {t1}, 2),
     Plan({"card", "read", "list", "restart"}, {s1, s2}, {t1}, 2)}
=============================================================================
