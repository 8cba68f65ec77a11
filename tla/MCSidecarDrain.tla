---------------------------- MODULE MCSidecarDrain ----------------------------
(* Instances of SidecarDrain for TLC.                                       *)
EXTENDS SidecarDrain, TLC

CONSTANTS e1, e2

Limit(events, time, transitions, late, leftFiles) ==
    [events |-> events, time |-> time, transitions |-> transitions, late |-> late,
     left |-> leftFiles]

\* One event and its late copy; two fences with an unquiesce between them, within
\* one millisecond; a message and an attachment action whose callbacks overlap;
\* and what an earlier sidecar may have left.
FencesOrCallbacks ==
    {Limit({e1}, 1, 2, 1, {"none"}), Limit({e1}, 0, 4, 1, {"none"}),
     Limit({e1, e2}, 0, 1, 0, {"none"}), Limit({}, 2, 1, 0, LeftFiles \ {"none"})}

OneFence == {Limit({e1}, 2, 1, 0, {"none"})}
=============================================================================
