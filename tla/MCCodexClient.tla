---------------------------- MODULE MCCodexClient ----------------------------
(* Instances of CodexClient for TLC.                                        *)
EXTENDS CodexClient

Bounds(transport, requests, events, room, control, strays, doubles, frames) ==
    [transport |-> transport, requests |-> requests, events |-> events,
     room |-> room, control |-> control, strays |-> strays,
     doubles |-> doubles, wire |-> frames]

\* Two requests with a repeated answer over stdio; control frames and protocol
\* errors around the fragments of a websocket.
Connections ==
    {Bounds("stdio", 2, 3, 2, 1, 0, 1, 2),
     Bounds("websocket", 1, 2, 1, 1, 1, 0, 3)}
=============================================================================
