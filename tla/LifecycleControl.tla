-------------------------- MODULE LifecycleControl --------------------------
(***************************************************************************)
(* The admission gate of wxcd-worker (struct LifecycleControl), as pure     *)
(* operators on its mutex-protected state: every operation below is one     *)
(* critical section of the `phase` mutex, so one atomic step.               *)
(*                                                                          *)
(*   phase       LifecycleAdmissionPhase                                    *)
(*   generation  bumped by every change; a u64 in the code, a Nat here (a   *)
(*               wrap takes 2^64 transitions)                               *)
(*   since       phase_started_at in milliseconds, the resolution at which  *)
(*               the code compares it                                       *)
(*                                                                          *)
(* An operation the code refuses leaves the state alone: the guard is an    *)
(* operator of its own (CanFence, IsCurrentQuiesce) and the callers test it.*)
(***************************************************************************)
EXTENDS Naturals

Phases == {"Active", "Quiescing", "Activating", "ShuttingDown"}

ControlStates == [phase : Phases, generation : Nat, since : Nat]

NewControl(phase, now) == [phase |-> phase, generation |-> 0, since |-> now]

Advance(s, phase, since) ==
    [phase |-> phase, generation |-> s.generation + 1, since |-> since]

\* Mutant: an activation in progress no longer excludes other transitions.
CanFenceAnytime(s) == s.phase # "ShuttingDown"

\* begin_quiesce, prepare_unquiesce and begin_shutdown all answer None while
\* an activation or a shutdown owns the gate.
CanFence(s) == s.phase \in {"Active", "Quiescing"}

\* A later quiesce keeps the cutoff of the first one.
BeginQuiesce(s, now) ==
    Advance(s, "Quiescing", IF s.phase = "Active" THEN now ELSE s.since)

IsCurrentQuiesce(s, generation) ==
    s.phase = "Quiescing" /\ s.generation = generation

\* Mutant: the token of an unquiesce is not compared.
TakesAnyToken(s, generation) == CanFence(s)

\* begin_unquiesce_if_current, begin_unquiesce_activation: nothing happened to
\* the gate since the token was taken.
TakesToken(s, generation) == CanFence(s) /\ s.generation = generation

BeginActivation(s) == Advance(s, "Activating", s.since)

OwnsActivation(s, generation) ==
    s.phase = "Activating" /\ s.generation = generation

CompleteActivation(s, generation, now) ==
    IF OwnsActivation(s, generation) THEN Advance(s, "Active", now) ELSE s

\* Mutant: a failed activation is not taken back.
CancelForgotten(s, activation) == s

CancelActivation(s, activation) ==
    IF OwnsActivation(s, activation.generation)
    THEN Advance(s, "Quiescing", activation.since)
    ELSE s

BeginShutdown(s, now) ==
    Advance(s, "ShuttingDown", IF s.phase = "Active" THEN now ELSE s.since)

\* Mutant: a refused shutdown always reopens the gate.
RestoreToActive(s, previous) ==
    IF s.phase = "ShuttingDown" THEN Advance(s, "Active", previous.since) ELSE s

\* The restore compares the phase only, never the generation.
RestoreShutdownPhase(s, previous) ==
    IF s.phase = "ShuttingDown"
    THEN Advance(s, previous.phase, previous.since)
    ELSE s

\* Mutant: any stamp passes the cutoff.
ReceivedWhenever(receivedAt, cutoff) == TRUE

ReceivedBeforeCutoff(receivedAt, cutoff) == receivedAt <= cutoff

\* Admission of one ingress event; `stamped` says whether the envelope carries
\* a sidecar_received_at.
Admits(s, stamped, receivedAt) ==
    \/ s.phase = "Active"
    \/ /\ s.phase \in {"Quiescing", "ShuttingDown"}
       /\ stamped
       /\ ReceivedBeforeCutoff(receivedAt, s.since)
=============================================================================
