----------------------------- MODULE MCSupervisor -----------------------------
(* Instances of Supervisor for TLC.                                         *)
EXTENDS Supervisor

Bounds(plugin, grants, runs, marks, switches) ==
    [plugin |-> plugin, grants |-> grants, runs |-> runs, marks |-> marks,
     switches |-> switches]

\* Plugin mode with the term that is asked for, 120 s, or with short ones, down to
\* the margin; and a supervisor without plugin mode whose release is switched.
Supervisors ==
    {Bounds(TRUE, {24}, 2, 2, 0), Bounds(TRUE, {1, 2, 8}, 1, 1, 0),
     Bounds(FALSE, {24}, 2, 0, 1)}
=============================================================================
