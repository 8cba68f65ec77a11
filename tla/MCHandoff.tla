------------------------------- MODULE MCHandoff -------------------------------
(* Instances of Handoff for TLC.                                            *)
EXTENDS Handoff

CONSTANTS m1, m2, n1

Upgrade(shared, window, earlier, crashes, late, exports, faults) ==
    [shared |-> shared, window |-> window, earlier |-> earlier, crashes |-> crashes,
     late |-> late, exports |-> exports, faults |-> faults]

\* Into a plugin home of its own, in two attempts, with writes that fail; into the
\* same one, with late answers; with a window that is too small; with crashes, and
\* files that can not be removed.
Upgrades ==
    {Upgrade(FALSE, 3, {m1}, 0, 1, 2, {"write"}), Upgrade(TRUE, 3, {m1}, 1, 2, 1, {}),
     Upgrade(FALSE, 1, {}, 0, 2, 1, {}), Upgrade(FALSE, 3, {m1}, 2, 1, 1, {"write", "remove"})}
=============================================================================
