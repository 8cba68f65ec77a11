------------------------------ MODULE CodexClient ------------------------------
(***************************************************************************)
(* The JSON-RPC client of one codex app-server (crate wxcd-codex): the      *)
(* worker loop, which makes one request at a time and takes the events      *)
(* when it is not in one, next to the reader task, which puts frames        *)
(* together, resolves the pending request or hands an event to a bounded    *)
(* channel, and answers pings through the writer the requests use too.      *)
(*                                                                          *)
(* The app-server and the connection are the environment: it may answer     *)
(* late, twice or never, split a message in two frames with control frames  *)
(* in between, break the websocket protocol, and end at any moment.         *)
(* Payloads are numbers; a size is 1 (at most 125 bytes), 2 (at most        *)
(* MAX_WEBSOCKET_FRAME_BYTES) or 3.                                         *)
(***************************************************************************)
EXTENDS Naturals, Sequences, FiniteSets

CONSTANTS None,
          Instances  \* the bounds under which a run looks at the client

\* requests: made by the worker; events: sent by the server; room: capacity of
\* the event channel (512); control, strays, doubles: control frames, protocol
\* errors and repeated answers of the server; wire: frames under way.
ASSUME InstanceAssumption ==
    Instances \subseteq [transport : {"stdio", "websocket"}, requests : Nat,
                         events : Nat, room : Nat \ {0}, control : Nat,
                         strays : Nat, doubles : Nat, wire : Nat \ {0}]

VARIABLES inst,     \* one of Instances, for the whole behaviour
          state,    \* ConnectionState: pending, closed
          caller,   \* the worker loop and its last next_id
          outcome,  \* what each request came to
          lock,     \* who holds the writer mutex
          reader,   \* read_stdout or read_websocket
          partial,  \* WebSocketReadState::partial_text, no pieces for None
          channel,  \* the event channel
          taken,    \* history: events the worker loop received
          wire,     \* frames from the server, not read yet
          server,   \* the app-server
          said      \* history: how many events it sent, and each answer it
                    \* sent with the number of the events before it

clientVars == <<state, caller, outcome, lock>>
readerVars == <<reader, partial, channel>>
vars == <<inst, state, caller, outcome, lock, reader, partial, channel, taken,
          wire, server, said>>

Requests == 1..inst.requests
Answers == [kind : {"answer"}, n : Requests]
Event(n) == [kind |-> "event", n |-> n]
Events == {Event(n) : n \in 1..inst.events}
Junk == [kind |-> "junk", n |-> 0]
Messages == Answers \cup Events \cup {Junk}

\* A piece of a text message: all of it, or one of two halves.
Pieces == [of : Messages, part : {"whole", "first", "second"}]
Frames == [op : {"text", "cont", "close", "ping", "pong", "other"},
           fin : BOOLEAN, size : 1..3, piece : Pieces]

NoPiece == [of |-> Junk, part |-> "whole"]
Control(op) == [op |-> op, fin |-> TRUE, size |-> 1, piece |-> NoPiece]
Text(op, fin, size, m, part) ==
    [op |-> op, fin |-> fin, size |-> size, piece |-> [of |-> m, part |-> part]]
Whole(m) == Text("text", TRUE, 1, m, "whole")

States == [pending : SUBSET Requests, closed : BOOLEAN]
Callers == [pc : {"connect", "idle", "lock", "write", "wait", "replyLock", "reply", "gone"},
            id : 0..inst.requests]
Outcomes == [Requests -> {"none", "answered", "failed"}]
Readers == [pc : {"off", "read", "send", "lock", "pong", "close", "tell", "ended"},
            event : Events \cup {None}, drained : SUBSET Requests]
Partials == [size : 0..2, pieces : Seq(Pieces)]
Servers == [up : BOOLEAN, got : SUBSET Requests, half : Messages \cup {None},
            control : Nat, strays : Nat, doubles : Nat]
Sayings == [events : 0..inst.events, answers : SUBSET (Requests \X (0..inst.events))]

TypeOK ==
    /\ inst \in Instances
    /\ state \in States /\ caller \in Callers /\ outcome \in Outcomes
    /\ lock \in {"free", "caller", "reader"}
    /\ reader \in Readers /\ partial \in Partials
    /\ channel \in Seq(Events) /\ taken \in Seq(Events)
    /\ wire \in Seq(Frames) /\ server \in Servers /\ said \in Sayings

Init ==
    /\ inst \in Instances
    /\ state = [pending |-> {}, closed |-> FALSE]
    /\ caller = [pc |-> "connect", id |-> 0]
    /\ outcome = [i \in Requests |-> "none"]
    /\ lock = "free"
    /\ reader = [pc |-> "off", event |-> None, drained |-> {}]
    /\ partial = [size |-> 0, pieces |-> <<>>] /\ channel = <<>> /\ taken = <<>> /\ wire = <<>>
    /\ server = [up |-> TRUE, got |-> {}, half |-> None, control |-> 0,
                 strays |-> 0, doubles |-> 0]
    /\ said = [events |-> 0, answers |-> {}]
-----------------------------------------------------------------------------
(* The connection: spawn and connect_websocket.                            *)

\* The answer to the handshake, read up to its blank line or to 16 KiB.
Handshakes == [status : {101, 400}, accept : {"ours", "another", "none"},
               complete : BOOLEAN]
HandshakeAccepted(h) == h.complete /\ h.status = 101 /\ h.accept = "ours"

\* The loopback addresses of the URL are tried in turn; any other is left out.
Connected(addresses) == "listening" \in addresses

\* Mutant: the handshake is read through a buffer, with what follows it.
ReadAhead(frames) == <<>>

\* The handshake is read byte by byte, so what follows it stays to be read.
AfterHandshake(frames) == frames

Opened ==
    /\ caller' = [caller EXCEPT !.pc = "idle"]
    /\ reader' = [reader EXCEPT !.pc = "read"]
    /\ wire' = AfterHandshake(wire)
    /\ UNCHANGED server

NotOpened ==
    /\ caller' = [caller EXCEPT !.pc = "gone"]
    /\ reader' = [reader EXCEPT !.pc = "ended"]
    /\ server' = [server EXCEPT !.up = FALSE]
    /\ UNCHANGED wire

Connect ==
    /\ caller.pc = "connect"
    /\ \/ inst.transport = "stdio" /\ (Opened \/ NotOpened)
       \/ /\ inst.transport = "websocket"
          /\ \E addresses \in SUBSET {"listening", "refusing"}, h \in Handshakes :
               IF Connected(addresses) /\ HandshakeAccepted(h) THEN Opened ELSE NotOpened
    /\ UNCHANGED <<inst, state, outcome, lock, partial, channel, taken, said>>
-----------------------------------------------------------------------------
(* The caller: request, write_line, events().recv, shutdown.               *)

\* Mutant: a request does not look whether the connection is closed.
BeginUnchecked ==
    /\ caller.pc = "idle" /\ caller.id < inst.requests
    /\ caller' = [pc |-> "lock", id |-> caller.id + 1]
    /\ state' = [state EXCEPT !.pending = @ \cup {caller.id + 1}]
    /\ UNCHANGED outcome

\* Under the state's mutex: closed is looked at and the request made pending.
Begin ==
    /\ caller.pc = "idle" /\ caller.id < inst.requests
    /\ LET i == caller.id + 1 IN
         IF state.closed
         THEN /\ caller' = [caller EXCEPT !.id = i]
              /\ outcome' = [outcome EXCEPT ![i] = "failed"]
              /\ UNCHANGED state
         ELSE /\ caller' = [pc |-> "lock", id |-> i]
              /\ state' = [state EXCEPT !.pending = @ \cup {i}]
              /\ UNCHANGED outcome

LockWriter ==
    /\ caller.pc = "lock" /\ lock = "free"
    /\ caller' = [caller EXCEPT !.pc = "write"] /\ lock' = "caller"
    /\ UNCHANGED <<state, outcome, server>>

\* The frame is written; a server that is gone does not get it.
Write ==
    /\ caller.pc = "write"
    /\ caller' = [caller EXCEPT !.pc = "wait"] /\ lock' = "free"
    /\ server' = IF server.up THEN [server EXCEPT !.got = @ \cup {caller.id}]
                 ELSE server
    /\ UNCHANGED <<state, outcome>>

\* Mutant: the state is closed, the requests stay pending.
CloseKeepsPending(s) == [s EXCEPT !.closed = TRUE]

\* close_connection_state: close, and take all that is pending.
Close(s) == [pending |-> {}, closed |-> TRUE]

\* A write that fails (or a request over the size limit) closes the client,
\* whatever the state of the connection.
WriteFails ==
    /\ caller.pc = "write"
    /\ caller' = [caller EXCEPT !.pc = "idle"] /\ lock' = "free"
    /\ state' = Close(state)
    /\ outcome' = [outcome EXCEPT ![caller.id] = "failed"]
    /\ UNCHANGED server

\* The oneshot has its value.
EndRequest ==
    /\ caller.pc = "wait" /\ outcome[caller.id] # "none"
    /\ caller' = [caller EXCEPT !.pc = "idle"]
    /\ UNCHANGED <<state, outcome, lock, server>>

\* respond and respond_error: the answer to a request of the server.  A write
\* that fails is an error of the call and closes nothing.
Respond ==
    /\ \/ /\ caller.pc = "idle" /\ taken # <<>> /\ UNCHANGED lock
          /\ caller' = [caller EXCEPT !.pc = "replyLock"]
       \/ /\ caller.pc = "replyLock" /\ lock = "free" /\ lock' = "caller"
          /\ caller' = [caller EXCEPT !.pc = "reply"]
       \/ /\ caller.pc = "reply" /\ lock' = "free"
          /\ caller' = [caller EXCEPT !.pc = "idle"]
    /\ UNCHANGED <<state, outcome, server>>

\* The worker loop takes an event, and may only do so between requests.
TakeEvent ==
    /\ caller.pc = "idle" /\ channel # <<>>
    /\ channel' = Tail(channel) /\ taken' = Append(taken, Head(channel))
    /\ UNCHANGED <<inst, clientVars, reader, partial, wire, server, said>>

\* The worker ends: the child is killed and the client dropped with its channel.
Drop ==
    /\ caller.pc = "idle"
    /\ caller' = [caller EXCEPT !.pc = "gone"]
    /\ server' = [server EXCEPT !.up = FALSE]
    /\ UNCHANGED <<state, outcome, lock>>

CallerStep ==
    /\ \/ LockWriter \/ Write \/ WriteFails \/ EndRequest \/ Respond \/ Drop
       \/ Begin /\ UNCHANGED <<lock, server>>
    /\ UNCHANGED <<inst, readerVars, taken, wire, said>>
-----------------------------------------------------------------------------
(* The reader: read_raw_websocket_frame, read_websocket_frame ...           *)

FrameLimit == 2
ControlLimit == 1

RawError(f) ==
    \/ f.size > FrameLimit
    \/ f.op \in {"close", "ping", "pong"} /\ (~f.fin \/ f.size > ControlLimit)

Fragmented == partial.pieces # <<>>

ProtocolError(f) ==
    \/ RawError(f)
    \/ f.op = "text" /\ Fragmented
    \/ f.op = "cont" /\ (~Fragmented \/ partial.size + f.size > FrameLimit)
    \/ f.op = "other" /\ ~f.fin

NoPartial == [size |-> 0, pieces |-> <<>>]
Gathered(f) == [size |-> partial.size + f.size, pieces |-> Append(partial.pieces, f.piece)]

\* What the gathered bytes decode to; anything but one message is junk.
Decode(pieces) ==
    LET m == pieces[1].of IN
    IF pieces \in {<<[of |-> m, part |-> "whole"]>>,
                   <<[of |-> m, part |-> "first"], [of |-> m, part |-> "second"]>>}
    THEN m ELSE Junk

\* ... and handle_codex_message: an answer ends the request that is pending
\* under its id, or nothing; an event goes to the channel.
Handle(m) ==
    CASE m.kind = "answer" ->
           /\ state' = [state EXCEPT !.pending = @ \ {m.n}]
           /\ outcome' = IF m.n \in state.pending
                         THEN [outcome EXCEPT ![m.n] = "answered"] ELSE outcome
           /\ UNCHANGED reader
      [] m.kind = "event" ->
           /\ reader' = [reader EXCEPT !.pc = "send", !.event = m]
           /\ UNCHANGED <<state, outcome>>
      [] OTHER -> UNCHANGED <<state, outcome, reader>>

CanRead == reader.pc = "read" /\ wire # <<>>
NextFrame == Head(wire)

ReadPart ==
    /\ CanRead /\ ~ProtocolError(NextFrame) /\ NextFrame.op \in {"text", "cont"} /\ ~NextFrame.fin
    /\ partial' = Gathered(NextFrame) /\ wire' = Tail(wire)
    /\ UNCHANGED <<state, outcome, lock, reader, channel>>

ReadText ==
    /\ CanRead /\ ~ProtocolError(NextFrame) /\ NextFrame.op \in {"text", "cont"} /\ NextFrame.fin
    /\ partial' = NoPartial /\ wire' = Tail(wire)
    /\ Handle(Decode(Gathered(NextFrame).pieces))
    /\ UNCHANGED <<lock, channel>>

ReadPing ==
    /\ CanRead /\ ~ProtocolError(NextFrame) /\ NextFrame.op = "ping"
    /\ reader' = [reader EXCEPT !.pc = "lock"] /\ wire' = Tail(wire)
    /\ UNCHANGED <<state, outcome, lock, partial, channel>>

ReadOther ==
    /\ CanRead /\ ~ProtocolError(NextFrame) /\ NextFrame.op \in {"pong", "other"}
    /\ wire' = Tail(wire)
    /\ UNCHANGED <<state, outcome, lock, reader, partial, channel>>

\* A close frame, an error, or the end of the stream ends the reading.
ReadEnd ==
    /\ reader.pc = "read"
    /\ \/ wire = <<>> /\ ~server.up /\ UNCHANGED wire
       \/ /\ CanRead /\ (NextFrame.op = "close" \/ ProtocolError(NextFrame))
          /\ wire' = Tail(wire)
    /\ reader' = [reader EXCEPT !.pc = "close"]
    /\ UNCHANGED <<state, outcome, lock, partial, channel>>

\* The reader waits for the writer, then for its pong to be written.
Pong ==
    /\ \/ /\ reader.pc = "lock" /\ lock = "free"
          /\ lock' = "reader" /\ reader' = [reader EXCEPT !.pc = "pong"]
       \/ /\ reader.pc = "pong" /\ lock' = "free"
          /\ \/ reader' = [reader EXCEPT !.pc = "read"]
             \/ ~server.up /\ reader' = [reader EXCEPT !.pc = "close"]
    /\ UNCHANGED <<state, outcome, partial, channel, wire>>

\* The reader waits for room, unless nobody will receive.
Send ==
    /\ reader.pc = "send"
    /\ \/ /\ caller.pc # "gone" /\ Len(channel) < inst.room
          /\ channel' = Append(channel, reader.event)
          /\ reader' = [reader EXCEPT !.pc = "read", !.event = None]
       \/ /\ caller.pc = "gone"
          /\ reader' = [reader EXCEPT !.pc = "close", !.event = None]
          /\ UNCHANGED channel
    /\ UNCHANGED <<state, outcome, lock, partial, wire>>

\* close_connection_state: drain under the mutex, then fail what was drained.
ReaderCloses ==
    /\ reader.pc = "close"
    /\ state' = Close(state)
    /\ reader' = [reader EXCEPT !.pc = "tell",
                                !.drained = state.pending \ Close(state).pending]
    /\ UNCHANGED <<outcome, lock, partial, channel, wire>>

ReaderTells ==
    /\ reader.pc = "tell"
    /\ reader' = [reader EXCEPT !.pc = "ended", !.drained = {}]
    /\ outcome' = [i \in Requests |-> IF i \in reader.drained THEN "failed" ELSE outcome[i]]
    /\ UNCHANGED <<state, lock, partial, channel, wire>>

ReaderStep ==
    /\ \/ ReadPart \/ ReadText \/ ReadPing \/ ReadOther
       \/ ReadEnd \/ Pong \/ Send \/ ReaderCloses \/ ReaderTells
    /\ UNCHANGED <<inst, caller, taken, server, said>>
-----------------------------------------------------------------------------
(* The environment: codex app-server and the connection.                   *)

Said(i) == \E k \in 0..said.events : <<i, k>> \in said.answers

\* An answer, the next event, or a line that is no message.
MaySay(m) ==
    \/ m.kind = "answer" /\ m.n \in server.got
       /\ (Said(m.n) => server.doubles < inst.doubles)
    \/ m.kind = "event" /\ m.n = said.events + 1
    \/ m = Junk /\ server.control < inst.control

Says(m) ==
    said' = CASE m.kind = "answer" -> [said EXCEPT !.answers = @ \cup {<<m.n, said.events>>}]
              [] m.kind = "event" -> [said EXCEPT !.events = @ + 1]
              [] OTHER -> said

Counted(m) ==
    IF m.kind = "answer" /\ Said(m.n) THEN [server EXCEPT !.doubles = @ + 1]
    ELSE IF m = Junk THEN [server EXCEPT !.control = @ + 1] ELSE server

Speaks(f) == server.up /\ Len(wire) < inst.wire /\ wire' = Append(wire, f)
WebSocket == inst.transport = "websocket"

ServerSays ==
    \E m \in Messages :
       /\ server.half = None /\ MaySay(m) /\ Speaks(Whole(m))
       /\ Says(m) /\ server' = Counted(m)

ServerSaysHalf ==
    \E m \in Messages \ {Junk} :
       /\ WebSocket /\ server.half = None /\ MaySay(m)
       /\ Speaks(Text("text", FALSE, 1, m, "first"))
       /\ server' = [server EXCEPT !.half = m] /\ UNCHANGED said

ServerSaysRest ==
    /\ server.half # None /\ Speaks(Text("cont", TRUE, 1, server.half, "second"))
    /\ Says(server.half) /\ server' = [Counted(server.half) EXCEPT !.half = None]

ServerControls ==
    \E op \in {"close", "ping", "pong", "other"} :
       /\ WebSocket /\ server.control < inst.control /\ Speaks(Control(op))
       /\ server' = [server EXCEPT !.control = @ + 1] /\ UNCHANGED said

\* Frames no conforming server sends: over a limit, a fragmented control or
\* binary frame, a text inside a fragmented one, a continuation of nothing, and
\* fragments that together are over the limit.
Strays ==
    {Text("text", TRUE, 3, Junk, "whole"), [Control("ping") EXCEPT !.size = 2],
     [Control("close") EXCEPT !.fin = FALSE], [Control("other") EXCEPT !.fin = FALSE]}
    \cup IF server.half = None THEN {Text("cont", TRUE, 1, Junk, "second")}
         ELSE {Whole(Junk), Text("cont", FALSE, 2, Junk, "second")}

ServerStrays ==
    \E f \in Strays :
       /\ WebSocket /\ server.strays < inst.strays /\ Speaks(f)
       /\ server' = [server EXCEPT !.strays = @ + 1] /\ UNCHANGED said

ServerEnds ==
    server.up /\ server' = [server EXCEPT !.up = FALSE] /\ UNCHANGED <<wire, said>>

ServerStep ==
    /\ \/ ServerSays \/ ServerSaysHalf \/ ServerSaysRest \/ ServerControls
       \/ ServerStrays \/ ServerEnds
    /\ UNCHANGED <<inst, clientVars, readerVars, taken>>
-----------------------------------------------------------------------------
Next == Connect \/ CallerStep \/ TakeEvent \/ ReaderStep \/ ServerStep

Spec == Init /\ [][Next]_vars

\* The worker loop goes on, and takes events when it is idle; both tasks are
\* scheduled.  Nothing is asked of the server, which may never answer.
Fairness ==
    /\ WF_vars(LockWriter /\ UNCHANGED <<inst, readerVars, taken, wire, said>>)
    /\ WF_vars((Write \/ WriteFails) /\ UNCHANGED <<inst, readerVars, taken, wire, said>>)
    /\ WF_vars(caller.pc # "idle" /\ Respond /\ UNCHANGED <<inst, readerVars, taken, wire, said>>)
    /\ WF_vars(EndRequest /\ UNCHANGED <<inst, readerVars, taken, wire, said>>)
    /\ WF_vars(TakeEvent) /\ WF_vars(ReaderStep)

FairSpec == Spec /\ Fairness
-----------------------------------------------------------------------------
\* A request that was made and not ended is pending, or was drained by a close
\* that will fail it, whichever of the two tasks closed the connection; once it
\* is closed nothing is pending (request, close_connection_state).
NoRequestForgotten ==
    /\ state.closed => state.pending = {}
    /\ caller.pc \in {"lock", "write", "wait"} /\ outcome[caller.id] = "none" =>
         caller.id \in state.pending \cup reader.drained

\* Every part of the connection has its type, and no interleaving of a request,
\* the reader and a close leaves a request out (request, close_connection_state).
ConnectionInv == TypeOK /\ NoRequestForgotten

Arrived ==
    taken \o channel \o (IF reader.pc = "send" THEN <<reader.event>> ELSE <<>>)

\* The worker gets the events whole, once and in the order they were sent, and
\* when a request is answered every event sent before the answer is in the
\* channel: the worker will see it (read_websocket_frame, handle_codex_message).
EventsInOrder ==
    /\ Len(Arrived) <= said.events /\ \A i \in DOMAIN Arrived : Arrived[i] = Event(i)
    /\ \A i \in Requests : outcome[i] = "answered" =>
         \E k \in 0..said.events : <<i, k>> \in said.answers /\ k <= Len(taken \o channel)

\* The reader waits for room that only the worker loop can make, and the worker
\* loop waits for a request.
Stuck == /\ reader.pc = "send" /\ Len(channel) = inst.room
         /\ caller.pc \in {"lock", "write", "wait"}

\* A request whose answer was sent, or whose connection came to an end, ends,
\* unless the reader is held up by a full event channel (request, read_stdout,
\* read_websocket: there is no deadline).
RequestsEnd ==
    \A i \in 1..2 :
       (/\ caller.id = i /\ caller.pc \in {"lock", "write", "wait"}
        /\ Said(i) \/ ~server.up \/ reader.pc \in {"close", "tell", "ended"})
          ~> (caller.pc \notin {"lock", "write", "wait"} \/ caller.id # i \/ Stuck)
=============================================================================
