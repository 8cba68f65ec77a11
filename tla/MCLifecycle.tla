----------------------------- MODULE MCLifecycle -----------------------------
(* Instances of Lifecycle for TLC.                                          *)
EXTENDS Lifecycle, TLC

CONSTANTS r1, r2, r3, i1, i2

Plan(m1, m2, m3) == (r1 :> m1) @@ (r2 :> m2) @@ (r3 :> m3)

\* One upgrade manager: at most one shutdown, with what may overlap it.
OneShutdown ==
    {Plan("shutdown", "quiesce", "unquiesce"), Plan("shutdown", "drain", "unquiesce"),
     Plan("quiesce", "unquiesce", "unquiesce")}

\* A second shutdown request while the first is still being decided.
TwoShutdowns == {Plan("shutdown", "quiesce", "shutdown")}

\* Two requests, one of them a shutdown, next to ingress traffic.
ShutdownAndTraffic ==
    {(r1 :> "shutdown") @@ (r2 :> m) : m \in {"drain", "unquiesce"}}
=============================================================================
