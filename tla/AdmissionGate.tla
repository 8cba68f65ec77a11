---------------------------- MODULE AdmissionGate ----------------------------
(***************************************************************************)
(* What the lifecycle plane promises about a worker's admission, without   *)
(* tasks, queues, tokens or deadlines: a gate that is quiesced, claimed    *)
(* for an activation that commits or is taken back, and fenced for a       *)
(* shutdown that is final or gives the gate back exactly as it found it.   *)
(***************************************************************************)
VARIABLES phase,   \* what the gate lets in
          beneath  \* the phase a refused shutdown goes back to

gate == <<phase, beneath>>

Move(from, to) == phase \in from /\ phase' = to /\ beneath' = to

Init == phase \in {"Active", "Quiescing"} /\ beneath = phase

Quiesce == Move({"Active", "Quiescing"}, "Quiescing")
Claim == Move({"Quiescing"}, "Activating")
Commit == Move({"Activating"}, "Active")
TakeBack == Move({"Activating"}, "Quiescing")

Fence == /\ phase \in {"Active", "Quiescing"}
         /\ phase' = "ShuttingDown" /\ beneath' = phase

Release == phase = "ShuttingDown" /\ phase' = beneath /\ UNCHANGED beneath

Next == Quiesce \/ Claim \/ Commit \/ TakeBack \/ Fence \/ Release

Spec == Init /\ [][Next]_gate
=============================================================================
