---------------------------- MODULE CodexClientProofs ----------------------------
(***************************************************************************)
(* Proofs about CodexClient, for any number of requests and events, any    *)
(* room in the channel, and whatever the server and the connection do.     *)
(***************************************************************************)
EXTENDS CodexClient, SequenceTheorems, TLAPS

-----------------------------------------------------------------------------
(* The parts of the client agree.                                          *)

InRequest == caller.pc \in {"lock", "write", "wait"}

\* The second half of an event is sent before any other event.
HalfIsNext ==
    server.half # None /\ server.half.kind = "event" => server.half.n = said.events + 1

\* A request that is made has an id; there is no reader before there is a connection;
\* the reader hands over an event, and holds what it drained only until it has failed
\* it; a text is gathered from its first piece.
PartsAgree ==
    /\ InRequest => caller.id \in Requests
    /\ caller.pc = "connect" => reader.pc = "off"
    /\ reader.pc = "send" => reader.event \in Events
    /\ reader.pc # "tell" => reader.drained = {}
    /\ Fragmented <=> partial.size # 0
    /\ HalfIsNext

ClientInv == TypeOK /\ PartsAgree /\ NoRequestForgotten

-----------------------------------------------------------------------------
(* What is on its way.                                                     *)

Reading == reader.pc \in {"off", "read", "send", "lock", "pong"}

\* How many events the reader has handed over, or is about to.
Handed == Len(taken) + Len(channel) + (IF reader.pc = "send" THEN 1 ELSE 0)

\* A frame that ends a message, and the frames a message in two halves has.
Ends(f, kind) == f.op \in {"text", "cont"} /\ f.fin /\ f.piece.of.kind = kind
Opens(f, m) == f.op = "text" /\ ~f.fin /\ f.piece = [of |-> m, part |-> "first"]
Goes(f) == f.op = "cont" => f.size # 1

\* A frame of the server, or one that no server sends.
Shaped(f) ==
    /\ f.op = "text" => f.piece.part = IF f.fin THEN "whole" ELSE "first"
    /\ f.op = "cont" => f.piece.part = "second" /\ (f.fin <=> f.size = 1)

\* When the frames of w before i are read, the first half of m is there.
HasFirst(w, pieces, i, m) ==
    \/ \E j \in DOMAIN w : /\ j < i /\ Opens(w[j], m)
                           /\ \A k \in DOMAIN w : j < k /\ k < i => Goes(w[k])
    \/ /\ pieces = <<[of |-> m, part |-> "first"]>>
       /\ \A k \in DOMAIN w : k < i => Goes(w[k])

\* The second half of a message is sent after its first, which is still there.
Halves ==
    /\ \A i \in DOMAIN wire :
         wire[i].op = "cont" /\ wire[i].size = 1 /\ wire[i].piece.of # Junk =>
           HasFirst(wire, partial.pieces, i, wire[i].piece.of)
    /\ server.half # None => HasFirst(wire, partial.pieces, Len(wire) + 1, server.half)

\* Every event that is not handed over is in the wire, one after the other.
EventsThere ==
    \A n \in (Handed + 1)..said.events :
        \E i \in DOMAIN wire : Ends(wire[i], "event") /\ wire[i].piece.of.n = n
EventsOnly ==
    \A i \in DOMAIN wire :
        Ends(wire[i], "event") => wire[i].piece.of.n \in (Handed + 1)..said.events
EventsSorted ==
    \A i, j \in DOMAIN wire :
        i < j /\ Ends(wire[i], "event") /\ Ends(wire[j], "event") =>
          wire[i].piece.of.n < wire[j].piece.of.n
EventsComing == EventsThere /\ EventsOnly /\ EventsSorted

\* An answer in the wire was sent before the events that follow it there.
AnswersComing ==
    \A i \in DOMAIN wire : Ends(wire[i], "answer") =>
        \E k \in 0..said.events :
           /\ <<wire[i].piece.of.n, k>> \in said.answers
           /\ \A j \in DOMAIN wire :
                i < j /\ Ends(wire[j], "event") => k < wire[j].piece.of.n

\* The events that were handed over are in order.
InOrder ==
    /\ Handed <= said.events
    /\ \A i \in DOMAIN taken : taken[i] = Event(i)
    /\ \A i \in DOMAIN channel : channel[i] = Event(Len(taken) + i)
    /\ reader.pc = "send" => reader.event = Event(Handed)

\* An answered request was sent an answer, after events that are all handed over.
AnsweredInTime ==
    \A i \in Requests : outcome[i] = "answered" =>
        \E k \in 0..said.events : <<i, k>> \in said.answers /\ k <= Len(taken) + Len(channel)

Coming == Reading => Halves /\ EventsComing /\ AnswersComing
WireInv == (\A i \in DOMAIN wire : Shaped(wire[i])) /\ Coming
OrderInv == InOrder /\ AnsweredInTime /\ WireInv

-----------------------------------------------------------------------------
(* Types.                                                                  *)

\* The bounds of a behaviour stay what they are, and so do the sets made of them.
LEMMA Bounded ==
    ASSUME inst \in Instances
    PROVE  /\ inst.requests \in Nat /\ inst.events \in Nat /\ inst.room \in Nat \ {0}
           /\ Requests = 1..inst.requests
  BY InstanceAssumption DEF Requests

\* The sets that the bounds make stay too.
LEMMA SameSets ==
    ASSUME UNCHANGED inst
    PROVE  /\ Requests' = Requests /\ Messages' = Messages /\ Events' = Events
           /\ Frames' = Frames /\ Pieces' = Pieces
           /\ States' = States /\ Callers' = Callers /\ Outcomes' = Outcomes
           /\ Readers' = Readers /\ Partials' = Partials /\ Servers' = Servers
           /\ Sayings' = Sayings
  BY DEF Requests, Messages, Answers, Events, Junk, Pieces, Frames, States, Callers, Outcomes,
     Readers, Partials, Servers, Sayings

\* The messages, by their kind.
LEMMA MessageKinds ==
    /\ \A m \in Messages :
         /\ m.kind \in {"answer", "event", "junk"}
         /\ m.kind = "answer" => m.n \in Requests
         /\ m.kind = "event" => m \in Events /\ m.n \in 1..inst.events /\ m = Event(m.n)
         /\ m.kind = "junk" <=> m = Junk
    /\ Junk \in Messages /\ \A n : Event(n).kind = "event" /\ Event(n).n = n
  BY DEF Messages, Answers, Events, Event, Junk

\* What a caller becomes.
LEMMA CallerMoves ==
    ASSUME NEW c \in Callers
    PROVE  /\ c.id \in 0..inst.requests
           /\ \A pc \in {"connect", "idle", "lock", "write", "wait", "replyLock", "reply", "gone"} :
                /\ [c EXCEPT !.pc = pc] \in Callers
                /\ [c EXCEPT !.pc = pc].pc = pc /\ [c EXCEPT !.pc = pc].id = c.id
           /\ \A i \in 0..inst.requests :
                /\ [c EXCEPT !.id = i] \in Callers
                /\ [c EXCEPT !.id = i].pc = c.pc /\ [c EXCEPT !.id = i].id = i
                /\ [pc |-> "lock", id |-> i] \in Callers
  BY DEF Callers

\* What the reader becomes.
LEMMA ReaderMoves ==
    ASSUME NEW q \in Readers
    PROVE  /\ q.drained \subseteq Requests /\ q.event \in Events \cup {None}
           /\ \A pc \in {"off", "read", "send", "lock", "pong", "close", "tell", "ended"} :
                /\ [q EXCEPT !.pc = pc] \in Readers
                /\ [q EXCEPT !.pc = pc].pc = pc /\ [q EXCEPT !.pc = pc].event = q.event
                /\ [q EXCEPT !.pc = pc].drained = q.drained
                /\ [q EXCEPT !.pc = pc, !.event = None] \in Readers
                /\ [q EXCEPT !.pc = pc, !.event = None].pc = pc
                /\ [q EXCEPT !.pc = pc, !.event = None].drained = q.drained
                /\ \A e \in Events :
                     /\ [q EXCEPT !.pc = pc, !.event = e] \in Readers
                     /\ [q EXCEPT !.pc = pc, !.event = e].pc = pc
                     /\ [q EXCEPT !.pc = pc, !.event = e].event = e
                     /\ [q EXCEPT !.pc = pc, !.event = e].drained = q.drained
                /\ \A d \in SUBSET Requests :
                     /\ [q EXCEPT !.pc = pc, !.drained = d] \in Readers
                     /\ [q EXCEPT !.pc = pc, !.drained = d].pc = pc
                     /\ [q EXCEPT !.pc = pc, !.drained = d].drained = d
  BY ZenonT(40) DEF Readers

\* What the server becomes.
LEMMA ServerMoves ==
    ASSUME NEW v \in Servers
    PROVE  /\ v.half \in Messages \cup {None}
           /\ [v EXCEPT !.up = FALSE] \in Servers /\ [v EXCEPT !.up = FALSE].half = v.half
           /\ \A g \in SUBSET Requests : /\ [v EXCEPT !.got = g] \in Servers
                                         /\ [v EXCEPT !.got = g].half = v.half
           /\ \A h \in Messages \cup {None} : /\ [v EXCEPT !.half = h] \in Servers
                                              /\ [v EXCEPT !.half = h].half = h
           /\ [v EXCEPT !.control = @ + 1] \in Servers
           /\ [v EXCEPT !.control = @ + 1].half = v.half
           /\ [v EXCEPT !.strays = @ + 1] \in Servers
           /\ [v EXCEPT !.strays = @ + 1].half = v.half
           /\ [v EXCEPT !.doubles = @ + 1] \in Servers
           /\ [v EXCEPT !.doubles = @ + 1].half = v.half
  <1>1. /\ v.half \in Messages \cup {None}
        /\ [v EXCEPT !.up = FALSE] \in Servers /\ [v EXCEPT !.up = FALSE].half = v.half
    BY DEF Servers
  <1>2. \A g \in SUBSET Requests : /\ [v EXCEPT !.got = g] \in Servers
                                   /\ [v EXCEPT !.got = g].half = v.half
    BY DEF Servers
  <1>3. \A h \in Messages \cup {None} : /\ [v EXCEPT !.half = h] \in Servers
                                        /\ [v EXCEPT !.half = h].half = h
    BY DEF Servers
  <1>4. v.control + 1 \in Nat /\ v.strays + 1 \in Nat /\ v.doubles + 1 \in Nat
    BY DEF Servers
  <1>5. \A n \in Nat : /\ [v EXCEPT !.control = n] \in Servers
                       /\ [v EXCEPT !.control = n].half = v.half
    BY DEF Servers
  <1>6. \A n \in Nat : /\ [v EXCEPT !.strays = n] \in Servers
                       /\ [v EXCEPT !.strays = n].half = v.half
    BY DEF Servers
  <1>7. \A n \in Nat : /\ [v EXCEPT !.doubles = n] \in Servers
                       /\ [v EXCEPT !.doubles = n].half = v.half
    BY DEF Servers
  <1> QED BY <1>1, <1>2, <1>3, <1>4, <1>5, <1>6, <1>7

\* Every frame the server sends is a frame, whatever the message.
LEMMA SentFrames ==
    ASSUME NEW m \in Messages
    PROVE  /\ Whole(m) \in Frames
           /\ Text("text", FALSE, 1, m, "first") \in Frames
           /\ Text("cont", TRUE, 1, m, "second") \in Frames
           /\ \A op \in {"close", "ping", "pong", "other"} : Control(op) \in Frames
           /\ \A f \in Strays : f \in Frames
  <1>1. Junk \in Messages
    BY MessageKinds
  <1>2. \A c \in Messages :
           /\ Text("text", TRUE, 1, c, "whole") \in Frames
           /\ Text("text", TRUE, 3, c, "whole") \in Frames
           /\ Text("text", FALSE, 1, c, "first") \in Frames
           /\ Text("cont", TRUE, 1, c, "second") \in Frames
           /\ Text("cont", FALSE, 2, c, "second") \in Frames
    BY DEF Text, Frames, Pieces
  <1>3. \A op \in {"close", "ping", "pong", "other"} : Control(op) \in Frames
    BY <1>1 DEF Control, Frames, Pieces, NoPiece
  <1>4. \A f \in Frames : [f EXCEPT !.size = 2] \in Frames
    BY DEF Frames
  <1>5. \A f \in Frames : [f EXCEPT !.fin = FALSE] \in Frames
    BY DEF Frames
  <1>6. /\ Text("text", TRUE, 3, Junk, "whole") \in Frames /\ Whole(Junk) \in Frames
        /\ Text("cont", TRUE, 1, Junk, "second") \in Frames
        /\ Text("cont", FALSE, 2, Junk, "second") \in Frames
    BY <1>1, <1>2 DEF Whole
  <1>7. \A f \in Strays : f \in Frames
    BY <1>3, <1>4, <1>5, <1>6 DEF Strays
  <1>8. /\ Whole(m) \in Frames
        /\ Text("text", FALSE, 1, m, "first") \in Frames
        /\ Text("cont", TRUE, 1, m, "second") \in Frames
    BY <1>2 DEF Whole
  <1> QED BY <1>3, <1>7, <1>8


\* What the state of the connection becomes, and the outcomes.
LEMMA StateMoves ==
    ASSUME NEW st \in States, NEW out \in Outcomes
    PROVE  /\ st.pending \subseteq Requests /\ st.closed \in BOOLEAN
           /\ Close(st) \in States /\ Close(st).pending = {} /\ Close(st).closed
           /\ \A p \in SUBSET Requests :
                /\ [st EXCEPT !.pending = p] \in States
                /\ [st EXCEPT !.pending = p].pending = p
                /\ [st EXCEPT !.pending = p].closed = st.closed
           /\ \A i \in Requests : \A x \in {"none", "answered", "failed"} :
                /\ [out EXCEPT ![i] = x] \in Outcomes /\ [out EXCEPT ![i] = x][i] = x
                /\ \A j \in Requests : j # i => [out EXCEPT ![i] = x][j] = out[j]
  BY DEF States, Close, Outcomes

-----------------------------------------------------------------------------
(* Every step keeps the parts of the client in order.                      *)

\* The loop connects, or does not.
LEMMA ConnectKeeps ==
    ASSUME ClientInv, Connect
    PROVE  ClientInv'
  <1>1. TypeOK /\ UNCHANGED <<inst, state, outcome, lock, partial, channel, taken, said>>
    BY DEF ClientInv, Connect
  <1>2. caller \in Callers /\ reader \in Readers /\ server \in Servers /\ caller.pc = "connect"
    BY <1>1 DEF TypeOK, Connect
  <1>3. reader.pc = "off" /\ reader.drained = {}
    BY <1>2 DEF ClientInv, PartsAgree
  <1>4. Opened \/ NotOpened
    BY DEF Connect
  <1>5. caller' \in Callers /\ caller'.pc \in {"idle", "gone"}
    BY <1>2, <1>4 DEF Opened, NotOpened, Callers
  <1>6. reader' \in Readers /\ reader'.pc \in {"read", "ended"} /\ reader'.drained = {}
    BY <1>2, <1>3, <1>4 DEF Opened, NotOpened, Readers
  <1>7. server' \in Servers /\ server'.half = server.half
    BY <1>2, <1>4, ServerMoves DEF Opened, NotOpened
  <1>8. wire' = wire
    BY <1>4 DEF Opened, NotOpened, AfterHandshake
  <1>9. TypeOK'
    BY <1>1, <1>5, <1>6, <1>7, <1>8, SameSets DEF TypeOK
  <1>10. PartsAgree'
    BY <1>1, <1>5, <1>6, <1>7 DEF ClientInv, PartsAgree, InRequest, Fragmented, HalfIsNext
  <1>11. NoRequestForgotten'
    BY <1>1, <1>5 DEF ClientInv, NoRequestForgotten
  <1> QED BY <1>9, <1>10, <1>11 DEF ClientInv

\* What the caller's steps leave alone, and what is left to be shown of them.
LEMMA CallerSide ==
    ASSUME ClientInv, UNCHANGED <<inst, readerVars, taken, wire, said>>,
           caller' \in Callers, caller'.pc # "connect", InRequest' => caller'.id \in Requests,
           state' \in States, outcome' \in Outcomes, lock' \in {"free", "caller", "reader"},
           server' \in Servers, server'.half = server.half, NoRequestForgotten'
    PROVE  ClientInv'
  <1>1. TypeOK'
    BY SameSets DEF ClientInv, TypeOK, readerVars
  <1>2. PartsAgree'
    BY SameSets DEF ClientInv, PartsAgree, Fragmented, HalfIsNext, readerVars
  <1> QED BY <1>1, <1>2 DEF ClientInv

\* A request is made pending, or refused.
LEMMA BeginKeeps ==
    ASSUME ClientInv, Begin, UNCHANGED <<lock, server>>,
           UNCHANGED <<inst, readerVars, taken, wire, said>>
    PROVE  ClientInv'
  <1> DEFINE i == caller.id + 1
  <1>1. /\ caller \in Callers /\ state \in States /\ outcome \in Outcomes /\ inst \in Instances
        /\ lock \in {"free", "caller", "reader"} /\ server \in Servers
    BY DEF ClientInv, TypeOK
  <1>2. caller.pc = "idle" /\ caller.id < inst.requests /\ caller.id \in 0..inst.requests
    BY <1>1, CallerMoves DEF Begin
  <1>3. i \in Requests /\ i \in 0..inst.requests
    BY <1>1, <1>2, Bounded
  <1>4. CASE state.closed
    <2>1. /\ caller' = [caller EXCEPT !.id = i] /\ outcome' = [outcome EXCEPT ![i] = "failed"]
          /\ UNCHANGED state
      BY <1>4 DEF Begin
    <2>2. caller' \in Callers /\ caller'.pc = "idle"
      BY <2>1, <1>1, <1>2, <1>3 DEF Callers
    <2>3. outcome' \in Outcomes
      BY <2>1, <1>1, <1>3 DEF Outcomes
    <2>4. NoRequestForgotten'
      BY <2>1, <2>2 DEF ClientInv, NoRequestForgotten
    <2> QED BY <1>1, <2>1, <2>2, <2>3, <2>4, CallerSide DEF InRequest
  <1>5. CASE ~state.closed
    <2>1. /\ caller' = [pc |-> "lock", id |-> i] /\ UNCHANGED outcome
          /\ state' = [state EXCEPT !.pending = state.pending \cup {i}]
      BY <1>5 DEF Begin
    <2>2. caller' \in Callers /\ caller'.pc = "lock" /\ caller'.id = i
      BY <2>1, <1>3 DEF Callers
    <2>3. state.pending \cup {i} \in SUBSET Requests
      BY <1>1, <1>3, StateMoves
    <2>4. /\ state' \in States /\ state'.pending = state.pending \cup {i}
          /\ state'.closed = state.closed
      BY <2>1, <2>3, <1>1 DEF States
    <2>5. NoRequestForgotten'
      BY <2>2, <2>4, <1>5 DEF NoRequestForgotten
    <2>6. InRequest' => caller'.id \in Requests
      BY <2>2, <1>3
    <2> HIDE DEF i
    <2> QED BY <1>1, <2>1, <2>2, <2>4, <2>5, <2>6, CallerSide
  <1> QED BY <1>4, <1>5

\* The writer is locked, and the frame written.
LEMMA WriteKeeps ==
    ASSUME ClientInv, LockWriter \/ Write, UNCHANGED <<inst, readerVars, taken, wire, said>>
    PROVE  ClientInv'
  <1>1. /\ caller \in Callers /\ state \in States /\ outcome \in Outcomes
        /\ server \in Servers /\ caller.pc \in {"lock", "write"} /\ UNCHANGED <<state, outcome>>
    BY DEF ClientInv, TypeOK, LockWriter, Write
  <1>2. caller.id \in Requests
    BY <1>1 DEF ClientInv, PartsAgree, InRequest
  <1>3. /\ caller' \in Callers /\ caller'.pc \in {"write", "wait"} /\ caller'.id = caller.id
        /\ lock' \in {"free", "caller"}
    BY <1>1 DEF LockWriter, Write, Callers
  <1>4. server' \in Servers /\ server'.half = server.half
    <2>1. server.got \cup {caller.id} \in SUBSET Requests
      BY <1>1, <1>2 DEF Servers
    <2> QED BY <1>1, <2>1 DEF LockWriter, Write, Servers
  <1>5. NoRequestForgotten'
    BY <1>1, <1>3 DEF ClientInv, NoRequestForgotten, readerVars
  <1> QED BY <1>1, <1>2, <1>3, <1>4, <1>5, CallerSide

\* A write that fails closes the connection, and with it what is pending.
LEMMA WriteFailsKeeps ==
    ASSUME ClientInv, WriteFails, UNCHANGED <<inst, readerVars, taken, wire, said>>
    PROVE  ClientInv'
  <1>1. /\ caller \in Callers /\ state \in States /\ outcome \in Outcomes
        /\ server \in Servers /\ caller.pc = "write"
    BY DEF ClientInv, TypeOK, WriteFails
  <1>2. caller.id \in Requests
    BY <1>1 DEF ClientInv, PartsAgree, InRequest
  <1>3. caller' \in Callers /\ caller'.pc = "idle"
    BY <1>1, CallerMoves DEF WriteFails
  <1>4. state' \in States /\ state'.pending = {} /\ outcome' \in Outcomes
    BY <1>1, <1>2, StateMoves DEF WriteFails
  <1>5. NoRequestForgotten'
    BY <1>3, <1>4 DEF NoRequestForgotten
  <1> QED BY <1>1, <1>3, <1>4, <1>5, CallerSide DEF WriteFails, InRequest

\* A request is over, a request of the server is answered, the worker ends.
LEMMA RestKeeps ==
    ASSUME ClientInv, EndRequest \/ Respond \/ Drop,
           UNCHANGED <<inst, readerVars, taken, wire, said>>
    PROVE  ClientInv'
  <1>1. /\ caller \in Callers /\ state \in States /\ outcome \in Outcomes
        /\ server \in Servers /\ UNCHANGED <<state, outcome>>
        /\ lock \in {"free", "caller", "reader"}
    BY DEF ClientInv, TypeOK, EndRequest, Respond, Drop
  <1>2. caller' \in Callers /\ caller'.pc \in {"idle", "replyLock", "reply", "gone"}
    BY <1>1 DEF EndRequest, Respond, Drop, Callers
  <1>3. server' \in Servers /\ server'.half = server.half
    BY <1>1, ServerMoves DEF EndRequest, Respond, Drop
  <1>4. NoRequestForgotten'
    BY <1>1, <1>2 DEF ClientInv, NoRequestForgotten
  <1>5. lock' \in {"free", "caller", "reader"}
    BY <1>1 DEF EndRequest, Respond, Drop
  <1> QED BY <1>1, <1>2, <1>3, <1>4, <1>5, CallerSide DEF InRequest

\* The worker takes an event.
LEMMA TakeEventKeeps ==
    ASSUME ClientInv, TakeEvent
    PROVE  ClientInv'
  <1>1. /\ channel \in Seq(Events) /\ taken \in Seq(Events) /\ channel # <<>>
        /\ UNCHANGED <<inst, clientVars, reader, partial, wire, server, said>>
    BY DEF ClientInv, TypeOK, TakeEvent
  <1>2. channel' \in Seq(Events) /\ taken' \in Seq(Events)
    <2>1. Head(channel) \in Events /\ Tail(channel) \in Seq(Events)
      BY <1>1
    <2> QED BY <1>1, <2>1, AppendProperties DEF TakeEvent
  <1>3. TypeOK'
    BY <1>1, <1>2, SameSets DEF ClientInv, TypeOK, clientVars
  <1>4. PartsAgree'
    BY <1>1, SameSets DEF ClientInv, PartsAgree, InRequest, Fragmented, HalfIsNext, clientVars
  <1>5. NoRequestForgotten'
    BY <1>1 DEF ClientInv, NoRequestForgotten, clientVars
  <1> QED BY <1>3, <1>4, <1>5 DEF ClientInv


\* The text a frame ends or goes on with is made of one more piece.
LEMMA GatheredText ==
    ASSUME ClientInv, CanRead, ~ProtocolError(NextFrame), NextFrame.op \in {"text", "cont"}
    PROVE  /\ Gathered(NextFrame) \in Partials
           /\ Gathered(NextFrame).size # 0 /\ Gathered(NextFrame).pieces # <<>>
           /\ Decode(Gathered(NextFrame).pieces) \in Messages
           /\ wire' = Tail(wire) => wire' \in Seq(Frames)
  <1> DEFINE f == NextFrame  g == Gathered(f)
  <1>1. partial \in Partials /\ wire \in Seq(Frames) /\ wire # <<>>
    BY DEF ClientInv, TypeOK, CanRead
  <1>2. f \in Frames /\ Tail(wire) \in Seq(Frames)
    BY <1>1 DEF NextFrame
  <1>3. /\ f.size \in 1..3 /\ f.piece \in Pieces /\ f.piece.of \in Messages
        /\ partial.size \in 0..2 /\ partial.pieces \in Seq(Pieces)
    BY <1>1, <1>2 DEF Frames, Pieces, Partials
  <1>4. f.size <= 2
    BY <1>3 DEF ProtocolError, RawError, FrameLimit
  <1>5. partial.size + f.size \in 1..2
    <2>1. CASE f.op = "text"
      <3>1. partial.size = 0
        BY <2>1, <1>3 DEF ProtocolError, ClientInv, PartsAgree
      <3> QED BY <3>1, <1>3, <1>4
    <2>2. CASE f.op = "cont"
      <3>1. ~(partial.size + f.size > 2)
        BY <2>2 DEF ProtocolError, FrameLimit
      <3> QED BY <3>1, <1>3
    <2> QED BY <2>1, <2>2
  <1>6. /\ Append(partial.pieces, f.piece) \in Seq(Pieces)
        /\ Len(Append(partial.pieces, f.piece)) = Len(partial.pieces) + 1
        /\ Append(partial.pieces, f.piece) # <<>>
    BY <1>3, AppendProperties
  <1>7. /\ g \in Partials /\ g.size = partial.size + f.size
        /\ g.pieces = Append(partial.pieces, f.piece)
    BY <1>5, <1>6 DEF Gathered, Partials
  <1>8. g.pieces[1] \in Pieces
    <2>1. Len(g.pieces) \in Nat /\ Len(g.pieces) # 0
      BY <1>6, <1>7
    <2> QED BY <2>1, <1>6, <1>7, ElementOfSeq
  <1>9. Decode(g.pieces) \in Messages
    <2>1. g.pieces[1].of \in Messages /\ Junk \in Messages
      BY <1>8, MessageKinds DEF Pieces
    <2> HIDE DEF g
    <2>2. ASSUME NEW p
          PROVE  Decode(p) = p[1].of \/ Decode(p) = Junk
      BY DEF Decode
    <2>3. Decode(g.pieces) = g.pieces[1].of \/ Decode(g.pieces) = Junk
      BY <2>2
    <2> QED BY <2>1, <2>3
  <1>10. wire' = Tail(wire) => wire' \in Seq(Frames)
    BY <1>2
  <1>11. g \in Partials /\ g.size # 0 /\ g.pieces # <<>>
    BY <1>5, <1>6, <1>7
  <1> QED BY <1>9, <1>10, <1>11

\* What the reader's steps leave alone, and what is left to be shown of them.
LEMMA ReaderSide ==
    ASSUME ClientInv, UNCHANGED <<inst, caller, taken, server, said>>,
           state' \in States, outcome' \in Outcomes, lock' \in {"free", "caller", "reader"},
           reader' \in Readers, partial' \in Partials, channel' \in Seq(Events),
           wire' \in Seq(Frames), reader.pc # "off",
           reader'.pc = "send" => reader'.event \in Events,
           reader'.pc # "tell" => reader'.drained = {},
           partial'.pieces # <<>> <=> partial'.size # 0, NoRequestForgotten'
    PROVE  ClientInv'
  <1>1. TypeOK'
    BY SameSets DEF ClientInv, TypeOK
  <1>2. PartsAgree'
    BY SameSets DEF ClientInv, PartsAgree, InRequest, Fragmented, HalfIsNext
  <1> QED BY <1>1, <1>2 DEF ClientInv

\* What a step of the reader starts from.
LEMMA ReaderTypes ==
    ASSUME ClientInv
    PROVE  /\ state \in States /\ outcome \in Outcomes /\ lock \in {"free", "caller", "reader"}
           /\ reader \in Readers /\ partial \in Partials /\ channel \in Seq(Events)
           /\ wire \in Seq(Frames)
           /\ wire # <<>> => Tail(wire) \in Seq(Frames)
           /\ reader.pc = "send" => reader.event \in Events
           /\ reader.pc # "tell" => reader.drained = {}
           /\ partial.pieces # <<>> <=> partial.size # 0
           /\ NoRequestForgotten
  <1>1. wire \in Seq(Frames)
    BY DEF ClientInv, TypeOK
  <1>2. wire # <<>> => Tail(wire) \in Seq(Frames)
    BY <1>1
  <1> QED BY <1>1, <1>2 DEF ClientInv, TypeOK, PartsAgree, Fragmented

\* A text goes on.
LEMMA ReadPartKeeps ==
    ASSUME ClientInv, ReadPart, UNCHANGED <<inst, caller, taken, server, said>>
    PROVE  ClientInv'
  <1>1. /\ CanRead /\ reader.pc = "read" /\ partial' = Gathered(NextFrame) /\ wire' = Tail(wire)
        /\ UNCHANGED <<state, outcome, lock, reader, channel>>
    BY DEF ReadPart, CanRead
  <1>2. /\ partial' \in Partials /\ wire' \in Seq(Frames)
        /\ partial'.size # 0 /\ partial'.pieces # <<>>
    BY <1>1, GatheredText DEF ReadPart
  <1>3. NoRequestForgotten'
    BY <1>1 DEF ClientInv, NoRequestForgotten
  <1> QED BY <1>1, <1>2, <1>3, ReaderTypes, ReaderSide

\* A text ends: an answer, an event, or junk.
LEMMA ReadTextKeeps ==
    ASSUME ClientInv, ReadText, UNCHANGED <<inst, caller, taken, server, said>>
    PROVE  ClientInv'
  <1> DEFINE m == Decode(Gathered(NextFrame).pieces)
  <1>1. /\ CanRead /\ reader.pc = "read" /\ partial' = NoPartial /\ wire' = Tail(wire)
        /\ UNCHANGED <<lock, channel>> /\ Handle(m)
    BY DEF ReadText, CanRead
  <1>2. m \in Messages /\ wire' \in Seq(Frames)
    BY <1>1, GatheredText DEF ReadText
  <1>3. partial' \in Partials /\ partial'.size = 0 /\ partial'.pieces = <<>>
    BY <1>1 DEF NoPartial, Partials
  <1>4. /\ state \in States /\ outcome \in Outcomes /\ reader \in Readers
        /\ NoRequestForgotten /\ reader.drained = {} /\ channel \in Seq(Events)
        /\ lock \in {"free", "caller", "reader"}
    BY <1>1, ReaderTypes
  <1> HIDE DEF m
  <1>5. CASE m.kind = "answer"
    <2>1. /\ state' = [state EXCEPT !.pending = state.pending \ {m.n}]
          /\ outcome' = IF m.n \in state.pending
                        THEN [outcome EXCEPT ![m.n] = "answered"] ELSE outcome
          /\ UNCHANGED reader
      BY <1>1, <1>5 DEF Handle
    <2>2. m.n \in Requests
      BY <1>2, <1>5, MessageKinds
    <2>3. /\ state' \in States /\ state'.pending = state.pending \ {m.n}
          /\ state'.closed = state.closed
      BY <2>1, <1>4 DEF States
    <2>4. /\ outcome' \in Outcomes
          /\ m.n \in state.pending => outcome'[m.n] = "answered"
          /\ \A i \in Requests \ {m.n} : outcome'[i] = outcome[i]
          /\ m.n \notin state.pending => outcome' = outcome
      BY <2>1, <2>2, <1>4 DEF Outcomes
    <2>5. InRequest => caller.id \in Requests
      BY DEF ClientInv, PartsAgree
    <2>6. NoRequestForgotten'
      BY <2>1, <2>3, <2>4, <2>5, <1>4 DEF NoRequestForgotten, InRequest
    <2> QED BY <2>1, <2>3, <2>4, <2>6, <1>1, <1>2, <1>3, <1>4, ReaderSide
  <1>6. CASE m.kind = "event"
    <2>1. /\ reader' = [reader EXCEPT !.pc = "send", !.event = m]
          /\ UNCHANGED <<state, outcome>>
      BY <1>1, <1>6 DEF Handle
    <2>2. m \in Events
      BY <1>2, <1>6, MessageKinds
    <2>3. /\ reader' \in Readers /\ reader'.pc = "send" /\ reader'.event = m
          /\ reader'.drained = {}
      BY <2>1, <2>2, <1>4 DEF Readers
    <2>4. NoRequestForgotten'
      BY <2>1, <2>3, <1>4 DEF NoRequestForgotten
    <2> QED BY <2>1, <2>2, <2>3, <2>4, <1>1, <1>2, <1>3, <1>4, ReaderSide
  <1>7. CASE m.kind \notin {"answer", "event"}
    <2>1. UNCHANGED <<state, outcome, reader>>
      BY <1>1, <1>7 DEF Handle
    <2>2. NoRequestForgotten'
      BY <2>1, <1>4 DEF NoRequestForgotten
    <2> QED BY <2>1, <2>2, <1>1, <1>2, <1>3, <1>4, ReaderTypes, ReaderSide
  <1> QED BY <1>5, <1>6, <1>7

\* A control frame is read, or the reading comes to its end.
LEMMA ReadControlKeeps ==
    ASSUME ClientInv, ReadPing \/ ReadOther \/ ReadEnd,
           UNCHANGED <<inst, caller, taken, server, said>>
    PROVE  ClientInv'
  <1>1. /\ reader.pc = "read" /\ UNCHANGED <<state, outcome, lock, partial, channel>>
        /\ wire' = wire \/ (wire # <<>> /\ wire' = Tail(wire))
        /\ \/ reader' = reader
           \/ \E pc \in {"lock", "close"} : reader' = [reader EXCEPT !.pc = pc]
    BY DEF ReadPing, ReadOther, ReadEnd, CanRead
  <1>2. /\ reader' \in Readers /\ reader'.pc \in {"read", "lock", "close"}
        /\ reader'.drained = reader.drained
    BY <1>1, ReaderTypes DEF Readers
  <1>3. wire' \in Seq(Frames)
    BY <1>1, ReaderTypes
  <1>4. NoRequestForgotten'
    BY <1>1, <1>2 DEF ClientInv, NoRequestForgotten
  <1> QED BY <1>1, <1>2, <1>3, <1>4, ReaderTypes, ReaderSide

\* A pong is written.
LEMMA PongKeeps ==
    ASSUME ClientInv, Pong, UNCHANGED <<inst, caller, taken, server, said>>
    PROVE  ClientInv'
  <1>1. /\ reader.pc \in {"lock", "pong"}
        /\ UNCHANGED <<state, outcome, partial, channel, wire>>
        /\ lock' \in {"free", "reader"}
        /\ \E pc \in {"pong", "read", "close"} : reader' = [reader EXCEPT !.pc = pc]
    BY DEF Pong
  <1>2. /\ reader' \in Readers /\ reader'.pc \in {"pong", "read", "close"}
        /\ reader'.drained = reader.drained
    BY <1>1, ReaderTypes DEF Readers
  <1>3. NoRequestForgotten'
    BY <1>1, <1>2 DEF ClientInv, NoRequestForgotten
  <1> QED BY <1>1, <1>2, <1>3, ReaderTypes, ReaderSide

\* An event is put in the channel, or nobody will receive.
LEMMA SendKeeps ==
    ASSUME ClientInv, Send, UNCHANGED <<inst, caller, taken, server, said>>
    PROVE  ClientInv'
  <1>1. /\ reader.pc = "send" /\ UNCHANGED <<state, outcome, lock, partial, wire>>
        /\ channel' = channel \/ channel' = Append(channel, reader.event)
        /\ \E pc \in {"read", "close"} : reader' = [reader EXCEPT !.pc = pc, !.event = None]
    BY DEF Send
  <1>2. /\ reader' \in Readers /\ reader'.pc \in {"read", "close"}
        /\ reader'.drained = reader.drained
    BY <1>1, ReaderTypes DEF Readers
  <1>3. channel' \in Seq(Events)
    BY <1>1, ReaderTypes, AppendProperties
  <1>4. NoRequestForgotten'
    BY <1>1, <1>2 DEF ClientInv, NoRequestForgotten
  <1> QED BY <1>1, <1>2, <1>3, <1>4, ReaderTypes, ReaderSide

\* The reader takes all that is pending, and fails it.
LEMMA CloseKeeps ==
    ASSUME ClientInv, ReaderCloses \/ ReaderTells,
           UNCHANGED <<inst, caller, taken, server, said>>
    PROVE  ClientInv'
  <1>1. /\ state \in States /\ outcome \in Outcomes /\ reader \in Readers
        /\ NoRequestForgotten
    BY ReaderTypes
  <1>2. CASE ReaderCloses
    <2>1. /\ reader.pc = "close" /\ UNCHANGED <<outcome, lock, partial, channel, wire>>
          /\ state' \in States /\ state'.pending = {}
          /\ reader' = [reader EXCEPT !.pc = "tell", !.drained = state.pending \ {}]
      BY <1>1, <1>2 DEF ReaderCloses, Close, States
    <2>2. reader' \in Readers /\ reader'.pc = "tell" /\ reader'.drained = state.pending
      BY <1>1, <2>1 DEF Readers, States
    <2>3. reader.drained = {}
      BY <2>1, ReaderTypes
    <2>4. NoRequestForgotten'
      BY <1>1, <2>1, <2>2, <2>3 DEF NoRequestForgotten
    <2> QED BY <2>1, <2>2, <2>4, ReaderTypes, ReaderSide
  <1>3. CASE ReaderTells
    <2>1. /\ reader.pc = "tell" /\ UNCHANGED <<state, lock, partial, channel, wire>>
          /\ reader' = [reader EXCEPT !.pc = "ended", !.drained = {}]
          /\ outcome' = [i \in Requests |-> IF i \in reader.drained THEN "failed"
                                            ELSE outcome[i]]
      BY <1>3 DEF ReaderTells
    <2>2. reader' \in Readers /\ reader'.pc = "ended" /\ reader'.drained = {}
      BY <1>1, <2>1 DEF Readers
    <2>3. outcome' \in Outcomes
      BY <1>1, <2>1 DEF Outcomes
    <2>4. InRequest => caller.id \in Requests
      BY DEF ClientInv, PartsAgree
    <2>5. NoRequestForgotten'
      BY <1>1, <2>1, <2>2, <2>4 DEF NoRequestForgotten, InRequest
    <2> QED BY <2>1, <2>2, <2>3, <2>5, ReaderTypes, ReaderSide
  <1> QED BY <1>2, <1>3


\* What the server's steps leave alone, and what is left to be shown of them.
LEMMA ServerSide ==
    ASSUME ClientInv, UNCHANGED <<inst, clientVars, readerVars, taken>>,
           server' \in Servers, said' \in Sayings, wire' \in Seq(Frames), HalfIsNext'
    PROVE  ClientInv'
  <1>1. TypeOK'
    BY SameSets DEF ClientInv, TypeOK, clientVars, readerVars
  <1>2. PartsAgree'
    BY SameSets DEF ClientInv, PartsAgree, InRequest, Fragmented, clientVars, readerVars
  <1>3. NoRequestForgotten'
    BY DEF ClientInv, NoRequestForgotten, clientVars, readerVars
  <1> QED BY <1>1, <1>2, <1>3 DEF ClientInv

\* A message is said once the request it answers was made, or the event before it sent.
LEMMA SayingKeeps ==
    ASSUME ClientInv, NEW m \in Messages, Says(m),
           m.kind = "event" => m.n = said.events + 1
    PROVE  /\ said' \in Sayings
           /\ said'.events = IF m.kind = "event" THEN m.n ELSE said.events
           /\ said'.answers = IF m.kind = "answer" THEN said.answers \cup {<<m.n, said.events>>}
                              ELSE said.answers
  <1>1. said \in Sayings /\ inst.events \in Nat
    BY Bounded DEF ClientInv, TypeOK
  <1>2. said.events \in 0..inst.events /\ said.answers \subseteq Requests \X (0..inst.events)
    BY <1>1 DEF Sayings
  <1>3. CASE m.kind = "answer"
    <2>1. said' = [said EXCEPT !.answers = said.answers \cup {<<m.n, said.events>>}]
      BY <1>3 DEF Says
    <2>2. said.answers \cup {<<m.n, said.events>>} \in SUBSET (Requests \X (0..inst.events))
      BY <1>2, <1>3, MessageKinds
    <2> QED BY <1>1, <1>3, <2>1, <2>2 DEF Sayings
  <1>4. CASE m.kind = "event"
    <2>1. said' = [said EXCEPT !.events = said.events + 1]
      BY <1>4 DEF Says
    <2>2. said.events + 1 \in 0..inst.events /\ said.events + 1 = m.n
      BY <1>1, <1>4, MessageKinds
    <2> QED BY <1>1, <1>4, <2>1, <2>2 DEF Sayings
  <1>5. CASE m.kind \notin {"answer", "event"}
    BY <1>1, <1>5 DEF Says
  <1> QED BY <1>3, <1>4, <1>5

\* A message is counted as a repeated answer or as junk.
LEMMA CountedServer ==
    ASSUME ClientInv, NEW m \in Messages
    PROVE  Counted(m) \in Servers /\ Counted(m).half = server.half
  <1>1. server \in Servers
    BY DEF ClientInv, TypeOK
  <1> QED BY <1>1, ServerMoves DEF Counted

\* A frame is put in the wire.
LEMMA Spoken ==
    ASSUME ClientInv, NEW f \in Frames, Speaks(f)
    PROVE  wire' \in Seq(Frames)
  BY AppendProperties DEF ClientInv, TypeOK, Speaks

\* The server says something, whole or in halves.
LEMMA ServerSaysKeeps ==
    ASSUME ClientInv, ServerSays \/ ServerSaysHalf \/ ServerSaysRest,
           UNCHANGED <<inst, clientVars, readerVars, taken>>
    PROVE  ClientInv'
  <1>1. server \in Servers /\ server.half \in Messages \cup {None} /\ said \in Sayings
    BY ServerMoves DEF ClientInv, TypeOK
  <1>2. CASE ServerSays
    <2>1. PICK m \in Messages : /\ server.half = None /\ MaySay(m) /\ Speaks(Whole(m))
                                /\ Says(m) /\ server' = Counted(m)
      BY <1>2 DEF ServerSays
    <2>2. m.kind = "event" => m.n = said.events + 1
      BY <2>1, MessageKinds DEF MaySay
    <2>3. said' \in Sayings
      BY <2>1, <2>2, SayingKeeps
    <2>4. server' \in Servers /\ server'.half = None
      BY <2>1, CountedServer
    <2>5. wire' \in Seq(Frames)
      BY <2>1, SentFrames, Spoken
    <2> QED BY <2>3, <2>4, <2>5, ServerSide DEF HalfIsNext
  <1>3. CASE ServerSaysHalf
    <2>1. PICK m \in Messages \ {Junk} :
               /\ MaySay(m) /\ Speaks(Text("text", FALSE, 1, m, "first"))
               /\ server' = [server EXCEPT !.half = m] /\ UNCHANGED said
      BY <1>3 DEF ServerSaysHalf
    <2>2. m.kind = "event" => m.n = said.events + 1
      BY <2>1, MessageKinds DEF MaySay
    <2>3. server' \in Servers /\ server'.half = m
      BY <1>1, <2>1, ServerMoves
    <2>4. HalfIsNext'
      BY <2>1, <2>2, <2>3 DEF HalfIsNext
    <2>5. wire' \in Seq(Frames)
      BY <2>1, SentFrames, Spoken
    <2> QED BY <1>1, <2>1, <2>3, <2>4, <2>5, ServerSide
  <1>4. CASE ServerSaysRest
    <2> DEFINE m == server.half
    <2>1. /\ m # None /\ Speaks(Text("cont", TRUE, 1, m, "second")) /\ Says(m)
          /\ server' = [Counted(m) EXCEPT !.half = None]
      BY <1>4 DEF ServerSaysRest
    <2>2. m \in Messages /\ (m.kind = "event" => m.n = said.events + 1)
      BY <1>1, <2>1 DEF ClientInv, PartsAgree, HalfIsNext
    <2>3. said' \in Sayings
      BY <2>1, <2>2, SayingKeeps
    <2>4. server' \in Servers /\ server'.half = None
      <3>1. Counted(m) \in Servers
        BY <2>2, CountedServer
      <3> HIDE DEF m
      <3> QED BY <3>1, <2>1, ServerMoves
    <2>5. wire' \in Seq(Frames)
      BY <2>1, <2>2, SentFrames, Spoken
    <2> QED BY <2>3, <2>4, <2>5, ServerSide DEF HalfIsNext
  <1> QED BY <1>2, <1>3, <1>4

\* The server sends a control frame, or one that breaks the protocol, or ends.
LEMMA ServerRestKeeps ==
    ASSUME ClientInv, ServerControls \/ ServerStrays \/ ServerEnds,
           UNCHANGED <<inst, clientVars, readerVars, taken>>
    PROVE  ClientInv'
  <1>1. server \in Servers /\ said \in Sayings /\ wire \in Seq(Frames) /\ HalfIsNext
    BY DEF ClientInv, TypeOK, PartsAgree
  <1>2. said' = said
    BY DEF ServerControls, ServerStrays, ServerEnds
  <1>3. server' \in Servers /\ server'.half = server.half
    BY <1>1, ServerMoves DEF ServerControls, ServerStrays, ServerEnds
  <1>4. wire' \in Seq(Frames)
    <2>1. CASE ServerControls
      BY <2>1, MessageKinds, SentFrames, Spoken DEF ServerControls
    <2>2. CASE ServerStrays
      BY <2>2, MessageKinds, SentFrames, Spoken DEF ServerStrays
    <2>3. CASE ServerEnds
      BY <2>3, <1>1 DEF ServerEnds
    <2> QED BY <2>1, <2>2, <2>3
  <1>5. HalfIsNext'
    BY <1>1, <1>2, <1>3 DEF HalfIsNext
  <1> QED BY <1>1, <1>2, <1>3, <1>4, <1>5, ServerSide

\* At first nothing is under way.
LEMMA ClientStarts ==
    ASSUME Init
    PROVE  ClientInv
  <1>1. inst \in Instances /\ inst.requests \in Nat /\ inst.events \in Nat
    BY Bounded DEF Init
  <1>2. state \in States /\ caller \in Callers /\ outcome \in Outcomes /\ reader \in Readers
    BY <1>1 DEF Init, States, Callers, Outcomes, Readers
  <1>3. partial \in Partials /\ server \in Servers /\ said \in Sayings
    BY <1>1 DEF Init, Partials, Servers, Sayings
  <1>4. TypeOK
    BY <1>2, <1>3 DEF Init, TypeOK
  <1>5. PartsAgree /\ NoRequestForgotten
    BY DEF Init, PartsAgree, NoRequestForgotten, InRequest, Fragmented, HalfIsNext
  <1> QED BY <1>4, <1>5 DEF ClientInv

\* Every step keeps the parts of the client in order.
LEMMA ClientStep ==
    ASSUME ClientInv, [Next]_vars
    PROVE  ClientInv'
  <1>1. CASE Connect
    BY <1>1, ConnectKeeps
  <1>2. CASE CallerStep
    BY <1>2, BeginKeeps, WriteKeeps, WriteFailsKeeps, RestKeeps DEF CallerStep
  <1>3. CASE TakeEvent
    BY <1>3, TakeEventKeeps
  <1>4. CASE ReaderStep
    BY <1>4, ReadPartKeeps, ReadTextKeeps, ReadControlKeeps, PongKeeps, SendKeeps, CloseKeeps
    DEF ReaderStep
  <1>5. CASE ServerStep
    BY <1>5, ServerSaysKeeps, ServerRestKeeps DEF ServerStep
  <1>6. CASE UNCHANGED vars
    <2>1. TypeOK'
      BY <1>6, SameSets DEF ClientInv, TypeOK, vars
    <2>2. PartsAgree' /\ NoRequestForgotten'
      BY <1>6, SameSets DEF ClientInv, PartsAgree, NoRequestForgotten, InRequest, Fragmented,
         HalfIsNext, vars
    <2> QED BY <2>1, <2>2 DEF ClientInv
  <1> QED BY <1>1, <1>2, <1>3, <1>4, <1>5, <1>6 DEF Next

\* The parts of the client agree in every state.
LEMMA ClientAlways == Spec => []ClientInv
  BY ClientStarts, ClientStep, PTL DEF Spec

\* No interleaving of a request, the reader and a close, by whichever of the two tasks,
\* leaves a request out: until it ends it is pending, or in the hands of a close that
\* will fail it; and nothing is pending once the connection is closed (request,
\* close_connection_state).
THEOREM NoRequestIsForgotten == Spec => []ConnectionInv
  <1>1. ClientInv => ConnectionInv
    BY DEF ClientInv, ConnectionInv
  <1> QED BY <1>1, ClientAlways, PTL


-----------------------------------------------------------------------------
(* Frames and counts.                                                      *)

\* When a frame is read, those behind it move up.
LEMMA MovedUp ==
    ASSUME NEW S, NEW w \in Seq(S), w # <<>>
    PROVE  /\ Tail(w) \in Seq(S) /\ 1 \in DOMAIN w /\ Head(w) = w[1]
           /\ \A i \in DOMAIN Tail(w) : /\ i \in Nat \ {0} /\ i + 1 \in DOMAIN w
                                        /\ Tail(w)[i] = w[i + 1]
           /\ \A i \in DOMAIN w : i # 1 => /\ i \in Nat \ {0} /\ i - 1 \in DOMAIN Tail(w)
                                           /\ Tail(w)[i - 1] = w[i]
  <1>1. Len(w) \in Nat /\ Len(w) # 0 /\ DOMAIN w = 1..Len(w)
    BY LenProperties, EmptySeq
  <1>2. Tail(w) \in Seq(S) /\ Len(Tail(w)) = Len(w) - 1 /\ Head(w) = w[1]
    BY <1>1, HeadTailProperties
  <1>3. DOMAIN Tail(w) = 1..(Len(w) - 1)
    BY <1>2, LenProperties
  <1>4. \A i \in 1..(Len(w) - 1) : Tail(w)[i] = w[i + 1]
    BY <1>1, <1>2, HeadTailProperties
  <1> QED BY <1>1, <1>2, <1>3, <1>4

\* A frame that is sent goes behind the others.
LEMMA PutBehind ==
    ASSUME NEW S, NEW w \in Seq(S), NEW f \in S
    PROVE  /\ Append(w, f) \in Seq(S) /\ Len(w) \in Nat /\ Len(w) + 1 \in DOMAIN Append(w, f)
           /\ Append(w, f)[Len(w) + 1] = f
           /\ Len(Append(w, f)) = Len(w) + 1
           /\ \A i \in DOMAIN w : /\ i \in Nat \ {0} /\ i <= Len(w)
                                  /\ i \in DOMAIN Append(w, f) /\ Append(w, f)[i] = w[i]
           /\ \A i \in DOMAIN Append(w, f) : i = Len(w) + 1 \/ i \in DOMAIN w
  <1>1. /\ Append(w, f) \in Seq(S) /\ Len(Append(w, f)) = Len(w) + 1
        /\ Append(w, f)[Len(w) + 1] = f
        /\ \A i \in 1..Len(w) : Append(w, f)[i] = w[i]
    BY AppendProperties
  <1>2. Len(w) \in Nat /\ DOMAIN w = 1..Len(w) /\ DOMAIN Append(w, f) = 1..(Len(w) + 1)
    BY <1>1, LenProperties
  <1> QED BY <1>1, <1>2

\* The frames and the counts have their types.
LEMMA FrameTypes ==
    ASSUME ClientInv
    PROVE  /\ wire \in Seq(Frames) /\ taken \in Seq(Events) /\ channel \in Seq(Events)
           /\ Len(taken) \in Nat /\ Len(channel) \in Nat /\ Handed \in Nat
           /\ Len(taken) + Len(channel) <= Handed
           /\ reader.pc # "send" => Handed = Len(taken) + Len(channel)
           /\ said.events \in Nat /\ said.events \in 0..inst.events
           /\ \A i \in DOMAIN wire :
                /\ i \in Nat \ {0} /\ wire[i] \in Frames /\ wire[i].piece.of \in Messages
                /\ Ends(wire[i], "event") => /\ wire[i].piece.of.n \in Nat
                                             /\ wire[i].piece.of = Event(wire[i].piece.of.n)
  <1>1. /\ wire \in Seq(Frames) /\ taken \in Seq(Events) /\ channel \in Seq(Events)
        /\ said \in Sayings /\ inst.events \in Nat
    BY Bounded DEF ClientInv, TypeOK
  <1>2. Len(taken) \in Nat /\ Len(channel) \in Nat
    BY <1>1, LenProperties
  <1>3. /\ Handed \in Nat /\ Len(taken) + Len(channel) <= Handed
        /\ reader.pc # "send" => Handed = Len(taken) + Len(channel)
    BY <1>2 DEF Handed
  <1>4. said.events \in Nat /\ said.events \in 0..inst.events
    BY <1>1 DEF Sayings
  <1>5. \A i \in DOMAIN wire : i \in Nat \ {0} /\ wire[i] \in Frames
    BY <1>1, LenProperties, ElementOfSeq
  <1>6. \A f \in Frames :
           /\ f.piece.of \in Messages
           /\ Ends(f, "event") => f.piece.of.n \in Nat /\ f.piece.of = Event(f.piece.of.n)
    <2>1. \A f \in Frames : f.piece.of \in Messages
      BY DEF Frames, Pieces
    <2> QED BY <2>1, <1>1, MessageKinds DEF Ends
  <1> QED BY <1>1, <1>2, <1>3, <1>4, <1>5, <1>6

-----------------------------------------------------------------------------
(* The order of the events: steps that neither read nor send.              *)

\* What decides the order stays the same.
LEMMA SameOrder ==
    ASSUME ClientInv, OrderInv, UNCHANGED <<inst, wire, partial, taken, channel, said>>,
           server'.half = server.half, Reading' => Reading,
           reader'.pc = "send" <=> reader.pc = "send",
           reader.pc = "send" => reader'.event = reader.event,
           \A i \in Requests : outcome'[i] = "answered" => outcome[i] = "answered"
    PROVE  OrderInv'
  <1>1. Handed' = Handed /\ Requests' = Requests
    BY SameSets DEF Handed
  <1>2. InOrder'
    BY <1>1 DEF OrderInv, InOrder
  <1>3. AnsweredInTime'
    BY <1>1 DEF OrderInv, AnsweredInTime
  <1>4. Reading' => Halves' /\ EventsComing' /\ AnswersComing'
    <2> SUFFICES ASSUME Reading' PROVE Halves' /\ EventsComing' /\ AnswersComing'
      OBVIOUS
    <2>1. Halves /\ EventsComing /\ AnswersComing
      BY DEF OrderInv, WireInv, Coming
    <2>2. EventsComing'
      BY <1>1, <2>1 DEF EventsComing, EventsThere, EventsOnly, EventsSorted
    <2>3. AnswersComing'
      BY <2>1 DEF AnswersComing
    <2>4. Halves'
      BY <2>1 DEF Halves, HasFirst
    <2> QED BY <2>2, <2>3, <2>4
  <1>5. WireInv'
    BY <1>4 DEF OrderInv, WireInv, Coming
  <1> QED BY <1>2, <1>3, <1>5 DEF OrderInv

\* Connecting sends nothing.
LEMMA ConnectOrder ==
    ASSUME ClientInv, OrderInv, Connect
    PROVE  OrderInv'
  <1>1. /\ reader \in Readers /\ server \in Servers /\ reader.pc = "off"
        /\ UNCHANGED <<inst, outcome, partial, channel, taken, said>>
    BY DEF ClientInv, TypeOK, PartsAgree, Connect
  <1>2. Opened \/ NotOpened
    BY DEF Connect
  <1>3. /\ reader'.pc \in {"read", "ended"} /\ wire' = wire /\ server'.half = server.half
    BY <1>1, <1>2 DEF Opened, NotOpened, AfterHandshake, Readers, Servers
  <1> QED BY <1>1, <1>3, SameOrder DEF Reading

\* Neither does a step of the caller, and it gives no request an answer.
LEMMA CallerOrder ==
    ASSUME ClientInv, OrderInv, CallerStep
    PROVE  OrderInv'
  <1>1. /\ server \in Servers /\ outcome \in Outcomes /\ UNCHANGED <<inst, readerVars, taken, wire, said>>
    BY DEF ClientInv, TypeOK, CallerStep
  <1>2. server'.half = server.half
    BY SMTT(30), <1>1, ServerMoves DEF CallerStep, LockWriter, Write, WriteFails, EndRequest, Respond,
       Drop, Servers
  <1>3. outcome' = outcome \/ \E i : outcome' = [outcome EXCEPT ![i] = "failed"]
    BY DEF CallerStep, Begin, LockWriter, Write, WriteFails, EndRequest, Respond, Drop
  <1>4. \A i \in Requests : outcome'[i] = "answered" => outcome[i] = "answered"
    BY <1>1, <1>3 DEF Outcomes
  <1> QED BY <1>1, <1>2, <1>4, SameOrder DEF readerVars, Reading

\* Neither does a step of the reader that reads nothing.
LEMMA ReaderRests ==
    ASSUME ClientInv, OrderInv, Pong \/ ReaderCloses \/ ReaderTells,
           UNCHANGED <<inst, caller, taken, server, said>>
    PROVE  OrderInv'
  <1>1. reader \in Readers /\ outcome \in Outcomes
    BY DEF ClientInv, TypeOK
  <1>2. UNCHANGED <<partial, channel, wire>>
    BY DEF Pong, ReaderCloses, ReaderTells
  <1>3. /\ reader.pc # "send" /\ reader'.pc # "send"
        /\ (Reading' => Reading)
    BY <1>1 DEF Pong, ReaderCloses, ReaderTells, Readers, Reading
  <1>4. \A i \in Requests : outcome'[i] = "answered" => outcome[i] = "answered"
    BY <1>1 DEF Pong, ReaderCloses, ReaderTells
  <1> QED BY <1>2, <1>3, <1>4, SameOrder

\* The end of the server, too.
LEMMA EndOrder ==
    ASSUME ClientInv, OrderInv, ServerEnds, UNCHANGED <<inst, clientVars, readerVars, taken>>
    PROVE  OrderInv'
  <1>1. server'.half = server.half /\ UNCHANGED <<wire, said>>
    BY ServerMoves DEF ClientInv, TypeOK, ServerEnds
  <1> QED BY <1>1, SameOrder DEF clientVars, readerVars, Reading

-----------------------------------------------------------------------------
(* The order of the events: the channel and the worker loop.               *)

\* The worker takes the first event of the channel; the others move up.
LEMMA TakeOrder ==
    ASSUME ClientInv, OrderInv, TakeEvent
    PROVE  OrderInv'
  <1>1. /\ channel # <<>> /\ channel' = Tail(channel) /\ taken' = Append(taken, Head(channel))
        /\ UNCHANGED <<inst, state, outcome, reader, partial, wire, server, said>>
    BY DEF TakeEvent, clientVars
  <1>2. /\ channel \in Seq(Events) /\ taken \in Seq(Events) /\ InOrder
        /\ Len(taken) \in Nat /\ Len(channel) \in Nat
    BY FrameTypes DEF OrderInv
  <1>3. /\ Len(taken') = Len(taken) + 1 /\ Len(channel') = Len(channel) - 1
        /\ taken'[Len(taken) + 1] = channel[1]
        /\ \A i \in DOMAIN taken' :
             i = Len(taken) + 1 \/ (i \in DOMAIN taken /\ taken'[i] = taken[i])
        /\ 1 \in DOMAIN channel
        /\ \A i \in DOMAIN channel' : /\ i \in Nat /\ i + 1 \in DOMAIN channel
                                      /\ channel'[i] = channel[i + 1]
    <2>1. channel[1] \in Events /\ Head(channel) = channel[1]
      BY <1>1, <1>2, MovedUp, ElementOfSeq, LenProperties
    <2>2. Len(Tail(channel)) = Len(channel) - 1
      BY <1>1, <1>2, HeadTailProperties
    <2> QED BY <1>1, <1>2, <2>1, <2>2, MovedUp, PutBehind
  <1>4. Handed' = Handed
    BY <1>1, <1>2, <1>3 DEF Handed
  <1>5. InOrder'
    <2>1. \A i \in DOMAIN taken' : taken'[i] = Event(i)
      BY <1>2, <1>3 DEF InOrder
    <2>2. \A i \in DOMAIN channel' : channel'[i] = Event(Len(taken') + i)
      <3> SUFFICES ASSUME NEW i \in DOMAIN channel'
                   PROVE  channel'[i] = Event(Len(taken') + i)
        OBVIOUS
      <3>1. channel'[i] = Event(Len(taken) + (i + 1)) /\ i \in Nat
        BY <1>2, <1>3 DEF InOrder
      <3>2. Len(taken) + (i + 1) = Len(taken') + i
        BY <1>2, <1>3, <3>1
      <3> QED BY <3>1, <3>2
    <2> QED BY <1>1, <1>2, <1>4, <2>1, <2>2 DEF InOrder
  <1>6. Len(taken') + Len(channel') = Len(taken) + Len(channel) /\ Requests' = Requests
    BY <1>1, <1>2, <1>3, SameSets
  <1>7. AnsweredInTime'
    BY <1>1, <1>6 DEF OrderInv, AnsweredInTime
  <1>8. EventsComing <=> EventsComing'
    BY <1>1, <1>4 DEF EventsComing, EventsThere, EventsOnly, EventsSorted
  <1>9. (AnswersComing <=> AnswersComing') /\ (Halves <=> Halves')
    BY <1>1 DEF AnswersComing, Halves, HasFirst
  <1>10. WireInv'
    BY <1>1, <1>8, <1>9 DEF OrderInv, WireInv, Coming, Reading
  <1> QED BY <1>5, <1>7, <1>10 DEF OrderInv

\* The event the reader holds goes behind the others in the channel, or the reading ends.
LEMMA SendOrder ==
    ASSUME ClientInv, OrderInv, Send, UNCHANGED <<inst, caller, taken, server, said>>
    PROVE  OrderInv'
  <1>1. /\ reader.pc = "send" /\ UNCHANGED <<inst, state, outcome, partial, wire, taken, said>>
        /\ server' = server
        /\ \/ channel' = Append(channel, reader.event) /\ reader'.pc = "read"
           \/ channel' = channel /\ reader'.pc = "close"
    BY DEF Send, ClientInv, TypeOK, Readers
  <1>2. /\ channel \in Seq(Events) /\ taken \in Seq(Events) /\ InOrder
        /\ Len(taken) \in Nat /\ Len(channel) \in Nat /\ reader.event \in Events
        /\ Handed = Len(taken) + Len(channel) + 1 /\ Handed \in Nat /\ said.events \in Nat
    BY <1>1, FrameTypes DEF OrderInv, ClientInv, PartsAgree, Handed
  <1>3. reader.event = Event(Handed)
    BY <1>1, <1>2 DEF InOrder
  <1>4. CASE channel' = Append(channel, reader.event) /\ reader'.pc = "read"
    <2>1. /\ Len(channel') = Len(channel) + 1 /\ channel'[Len(channel) + 1] = Event(Handed)
          /\ \A i \in DOMAIN channel' :
               i = Len(channel) + 1 \/ (i \in DOMAIN channel /\ channel'[i] = channel[i])
      BY <1>2, <1>3, <1>4, PutBehind
    <2>2. Handed' = Handed
      BY <1>1, <1>2, <1>4, <2>1 DEF Handed
    <2>3. InOrder'
      <3>1. \A i \in DOMAIN channel' : channel'[i] = Event(Len(taken) + i)
        <4> SUFFICES ASSUME NEW i \in DOMAIN channel'
                     PROVE  channel'[i] = Event(Len(taken) + i)
          OBVIOUS
        <4>1. CASE i = Len(channel) + 1
          <5>1. Len(taken) + i = Handed
            BY <4>1, <1>2
          <5> QED BY <4>1, <5>1, <2>1
        <4>2. CASE i \in DOMAIN channel /\ channel'[i] = channel[i]
          BY <4>2, <1>2 DEF InOrder
        <4> QED BY <4>1, <4>2, <2>1
      <3> QED BY <1>1, <1>2, <1>4, <2>2, <3>1 DEF InOrder
    <2>4. AnsweredInTime'
      <3> SUFFICES ASSUME NEW i \in Requests, outcome[i] = "answered"
                   PROVE  \E k \in 0..said.events :
                             <<i, k>> \in said.answers /\ k <= Len(taken) + Len(channel')
        BY <1>1, SameSets DEF AnsweredInTime
      <3>1. PICK k \in 0..said.events :
                 <<i, k>> \in said.answers /\ k <= Len(taken) + Len(channel)
        BY DEF OrderInv, AnsweredInTime
      <3>2. k <= Len(taken) + Len(channel')
        BY <1>2, <2>1, <3>1
      <3> QED BY <3>1, <3>2
    <2>5. EventsComing <=> EventsComing'
      BY <1>1, <2>2 DEF EventsComing, EventsThere, EventsOnly, EventsSorted
    <2>6. (AnswersComing <=> AnswersComing') /\ (Halves <=> Halves')
      BY <1>1 DEF AnswersComing, Halves, HasFirst
    <2>7. WireInv'
      BY <1>1, <1>4, <2>5, <2>6 DEF OrderInv, WireInv, Coming, Reading
    <2> QED BY <2>3, <2>4, <2>7 DEF OrderInv
  <1>5. CASE channel' = channel /\ reader'.pc = "close"
    <2>1. Handed' = Len(taken) + Len(channel)
      BY <1>1, <1>2, <1>5 DEF Handed
    <2>2. InOrder'
      BY <1>1, <1>2, <1>5, <2>1 DEF InOrder
    <2>3. AnsweredInTime'
      BY <1>1, <1>5, SameSets DEF OrderInv, AnsweredInTime
    <2>4. WireInv'
      BY <1>1, <1>5 DEF OrderInv, WireInv, Coming, Reading
    <2> QED BY <2>2, <2>3, <2>4 DEF OrderInv
  <1> QED BY <1>1, <1>4, <1>5

-----------------------------------------------------------------------------
(* The order of the events: the reader.                                    *)

\* The frames that are left keep their shape.
LEMMA ShapesMoveUp ==
    ASSUME ClientInv, WireInv, wire # <<>>, wire' = Tail(wire)
    PROVE  \A i \in DOMAIN wire' : Shaped(wire'[i])
  <1>1. \A i \in DOMAIN wire : Shaped(wire[i])
    BY DEF WireInv
  <1> QED BY <1>1, FrameTypes, MovedUp

\* What is beyond the next place is beyond this one, and is not the next.
LEMMA OneFurther ==
    \A here, next, last \in Nat : next = here \/ next = here + 1 =>
        \A n \in (next + 1)..last :
            n \in (here + 1)..last /\ (next = here + 1 => n # here + 1)
  OBVIOUS

\* When the first frame ends no event, or the one that comes next, the rest come as before.
LEMMA EventsMoveUp ==
    ASSUME ClientInv, EventsComing, wire # <<>>, wire' = Tail(wire), said' = said,
           \/ ~Ends(wire[1], "event") /\ Handed' = Handed
           \/ /\ Ends(wire[1], "event") /\ Handed' = Handed + 1
              /\ wire[1].piece.of.n = Handed + 1
    PROVE  EventsComing'
  <1>1. /\ wire \in Seq(Frames) /\ Handed \in Nat /\ Handed' \in Nat /\ said.events \in Nat
        /\ 1 \in DOMAIN wire
        /\ \A i \in DOMAIN wire : Ends(wire[i], "event") => wire[i].piece.of.n \in Nat
    BY FrameTypes, MovedUp
  <1>2. /\ \A i \in DOMAIN wire' : /\ i \in Nat \ {0} /\ i + 1 \in DOMAIN wire
                                   /\ wire'[i] = wire[i + 1]
        /\ \A i \in DOMAIN wire : i # 1 => /\ i \in Nat \ {0} /\ i - 1 \in DOMAIN wire'
                                           /\ wire'[i - 1] = wire[i]
    BY <1>1, MovedUp
  <1>3. EventsThere'
    <2> SUFFICES ASSUME NEW n \in (Handed' + 1)..said.events
                 PROVE  \E i \in DOMAIN wire' : Ends(wire'[i], "event") /\ wire'[i].piece.of.n = n
      BY DEF EventsThere
    <2>1. n \in (Handed + 1)..said.events /\ (Handed' = Handed + 1 => n # Handed + 1)
      <3>1. Handed' = Handed \/ Handed' = Handed + 1
        OBVIOUS
      <3> QED BY <1>1, <3>1, OneFurther
    <2>2. PICK i \in DOMAIN wire : Ends(wire[i], "event") /\ wire[i].piece.of.n = n
      BY <2>1 DEF EventsComing, EventsThere
    <2>3. i # 1
      BY <2>1, <2>2
    <2> QED BY <1>2, <2>2, <2>3
  <1>4. EventsSorted'
    <2> SUFFICES ASSUME NEW i \in DOMAIN wire', NEW j \in DOMAIN wire', i < j,
                        Ends(wire'[i], "event"), Ends(wire'[j], "event")
                 PROVE  wire'[i].piece.of.n < wire'[j].piece.of.n
      BY DEF EventsSorted
    <2>1. /\ i + 1 \in DOMAIN wire /\ j + 1 \in DOMAIN wire /\ i + 1 < j + 1
          /\ wire'[i] = wire[i + 1] /\ wire'[j] = wire[j + 1]
      BY <1>2
    <2> QED BY <2>1 DEF EventsComing, EventsSorted
  <1>5. EventsOnly'
    <2> SUFFICES ASSUME NEW i \in DOMAIN wire', Ends(wire'[i], "event")
                 PROVE  wire'[i].piece.of.n \in (Handed' + 1)..said.events
      BY DEF EventsOnly
    <2>1. i + 1 \in DOMAIN wire /\ wire'[i] = wire[i + 1] /\ 1 < i + 1
      BY <1>2
    <2>2. wire'[i].piece.of.n \in (Handed + 1)..said.events
      BY <2>1 DEF EventsComing, EventsOnly
    <2>3. Ends(wire[1], "event") => wire[1].piece.of.n < wire'[i].piece.of.n
      BY <1>1, <2>1 DEF EventsComing, EventsSorted
    <2> QED BY <1>1, <2>2, <2>3
  <1> QED BY <1>3, <1>4, <1>5 DEF EventsComing

\* The answers that are left in the wire come as before.
LEMMA AnswersMoveUp ==
    ASSUME ClientInv, AnswersComing, wire # <<>>, wire' = Tail(wire), said' = said
    PROVE  AnswersComing'
  <1>1. /\ \A i \in DOMAIN wire' : /\ i \in Nat \ {0} /\ i + 1 \in DOMAIN wire
                                   /\ wire'[i] = wire[i + 1]
    BY FrameTypes, MovedUp
  <1> SUFFICES ASSUME NEW i \in DOMAIN wire', Ends(wire'[i], "answer")
               PROVE  \E k \in 0..said.events :
                         /\ <<wire'[i].piece.of.n, k>> \in said.answers
                         /\ \A j \in DOMAIN wire' :
                              i < j /\ Ends(wire'[j], "event") => k < wire'[j].piece.of.n
    BY DEF AnswersComing
  <1>2. i + 1 \in DOMAIN wire /\ wire'[i] = wire[i + 1]
    BY <1>1
  <1>3. PICK k \in 0..said.events :
             /\ <<wire[i + 1].piece.of.n, k>> \in said.answers
             /\ \A j \in DOMAIN wire :
                  i + 1 < j /\ Ends(wire[j], "event") => k < wire[j].piece.of.n
    BY <1>2 DEF AnswersComing
  <1>4. \A j \in DOMAIN wire' :
           i < j /\ Ends(wire'[j], "event") => k < wire'[j].piece.of.n
    <2> SUFFICES ASSUME NEW j \in DOMAIN wire', i < j, Ends(wire'[j], "event")
                 PROVE  k < wire'[j].piece.of.n
      OBVIOUS
    <2>1. j + 1 \in DOMAIN wire /\ wire'[j] = wire[j + 1] /\ i + 1 < j + 1
      BY <1>1
    <2> QED BY <1>3, <2>1
  <1> QED BY <1>2, <1>3, <1>4

\* A first half stays where it is needed, in the wire or put aside by the reader.
LEMMA HalvesMoveUp ==
    ASSUME ClientInv, Halves, wire # <<>>, wire' = Tail(wire), server' = server,
           \A m : Opens(wire[1], m) => partial'.pieces = <<[of |-> m, part |-> "first"]>>,
           \/ partial' = partial
           \/ ~Fragmented
           \/ ~Goes(wire[1])
    PROVE  Halves'
  <1>1. /\ wire \in Seq(Frames) /\ 1 \in DOMAIN wire
        /\ \A i \in DOMAIN wire' : /\ i \in Nat \ {0} /\ i + 1 \in DOMAIN wire
                                   /\ wire'[i] = wire[i + 1]
        /\ \A i \in DOMAIN wire : i # 1 => /\ i \in Nat \ {0} /\ i - 1 \in DOMAIN wire'
                                           /\ wire'[i - 1] = wire[i]
    BY FrameTypes, MovedUp
  <1>2. ASSUME NEW i \in Nat, 0 < i, NEW m, HasFirst(wire, partial.pieces, i + 1, m)
        PROVE  HasFirst(wire', partial'.pieces, i, m)
    <2>1. ASSUME NEW j \in DOMAIN wire, j < i + 1, Opens(wire[j], m),
                 \A k \in DOMAIN wire : j < k /\ k < i + 1 => Goes(wire[k])
          PROVE  HasFirst(wire', partial'.pieces, i, m)
      <3>1. CASE j = 1
        <4>1. partial'.pieces = <<[of |-> m, part |-> "first"]>>
          BY <2>1, <3>1
        <4>2. \A k \in DOMAIN wire' : k < i => Goes(wire'[k])
          <5> SUFFICES ASSUME NEW k \in DOMAIN wire', k < i
                       PROVE  Goes(wire'[k])
            OBVIOUS
          <5>1. k + 1 \in DOMAIN wire /\ wire'[k] = wire[k + 1] /\ 1 < k + 1 /\ k + 1 < i + 1
            BY <1>1
          <5> QED BY <2>1, <3>1, <5>1
        <4> QED BY <4>1, <4>2 DEF HasFirst
      <3>2. CASE j # 1
        <4>1. j - 1 \in DOMAIN wire' /\ wire'[j - 1] = wire[j] /\ j - 1 < i /\ j \in Nat
          BY <1>1, <2>1, <3>2
        <4>2. \A k \in DOMAIN wire' : j - 1 < k /\ k < i => Goes(wire'[k])
          <5> SUFFICES ASSUME NEW k \in DOMAIN wire', j - 1 < k, k < i
                       PROVE  Goes(wire'[k])
            OBVIOUS
          <5>1. k + 1 \in DOMAIN wire /\ wire'[k] = wire[k + 1] /\ j < k + 1 /\ k + 1 < i + 1
            BY SMTT(30), <1>1, <4>1
          <5> QED BY <2>1, <5>1
        <4> QED BY <2>1, <4>1, <4>2 DEF HasFirst
      <3> QED BY <3>1, <3>2
    <2>2. ASSUME partial.pieces = <<[of |-> m, part |-> "first"]>>,
                 \A k \in DOMAIN wire : k < i + 1 => Goes(wire[k])
          PROVE  HasFirst(wire', partial'.pieces, i, m)
      <3>1. Fragmented /\ Goes(wire[1])
        BY <1>1, <1>2, <2>2 DEF Fragmented
      <3>2. partial' = partial
        BY <3>1
      <3>3. \A k \in DOMAIN wire' : k < i => Goes(wire'[k])
        <4> SUFFICES ASSUME NEW k \in DOMAIN wire', k < i
                     PROVE  Goes(wire'[k])
          OBVIOUS
        <4>1. k + 1 \in DOMAIN wire /\ wire'[k] = wire[k + 1] /\ k + 1 < i + 1
          BY <1>1
        <4> QED BY <2>2, <4>1
      <3> QED BY <2>2, <3>2, <3>3 DEF HasFirst
    <2> QED BY <1>2, <2>1, <2>2 DEF HasFirst
  <1>3. \A i \in DOMAIN wire' :
           wire'[i].op = "cont" /\ wire'[i].size = 1 /\ wire'[i].piece.of # Junk =>
             HasFirst(wire', partial'.pieces, i, wire'[i].piece.of)
    <2> SUFFICES ASSUME NEW i \in DOMAIN wire', wire'[i].op = "cont", wire'[i].size = 1,
                        wire'[i].piece.of # Junk
                 PROVE  HasFirst(wire', partial'.pieces, i, wire'[i].piece.of)
      OBVIOUS
    <2>1. i \in Nat /\ 0 < i /\ i + 1 \in DOMAIN wire /\ wire'[i] = wire[i + 1]
      BY <1>1
    <2>2. HasFirst(wire, partial.pieces, i + 1, wire[i + 1].piece.of)
      BY <2>1 DEF Halves
    <2> QED BY <1>2, <2>1, <2>2
  <1>4. server'.half # None => HasFirst(wire', partial'.pieces, Len(wire') + 1, server'.half)
    <2> SUFFICES ASSUME server.half # None
                 PROVE  HasFirst(wire', partial'.pieces, Len(wire') + 1, server.half)
      OBVIOUS
    <2>1. Len(wire) \in Nat /\ Len(wire') + 1 = Len(wire) /\ 0 < Len(wire)
      BY <1>1, LenProperties, HeadTailProperties, EmptySeq
    <2>2. HasFirst(wire, partial.pieces, Len(wire) + 1, server.half)
      BY DEF Halves
    <2>3. HasFirst(wire', partial'.pieces, Len(wire), server.half)
      BY <1>2, <2>1, <2>2
    <2> QED BY <2>1, <2>3
  <1> QED BY <1>3, <1>4 DEF Halves


\* Appending to no piece, and to one.
LEMMA TwoPieces ==
    ASSUME NEW a, NEW b
    PROVE  Append(<<>>, b) = <<b>> /\ Append(<<a>>, b) = <<a, b>>
  <1> DEFINE S == {a, b}  s == Append(<<a>>, b)  t == <<a, b>>
  <1>1. Append(<<>>, b) = <<b>>
    OBVIOUS
  <1>2. <<a>> \in Seq(S) /\ Len(<<a>>) = 1 /\ <<a>>[1] = a
    OBVIOUS
  <1>3. s \in Seq(S) /\ Len(s) = 2 /\ s[2] = b /\ s[1] = a
    BY <1>2, AppendProperties
  <1>4. t \in Seq(S) /\ Len(t) = 2 /\ t[2] = b /\ t[1] = a
    OBVIOUS
  <1> HIDE DEF s, t, S
  <1>5. \A i \in 1..2 : s[i] = t[i]
    BY <1>3, <1>4
  <1>6. s = t
    BY <1>3, <1>4, <1>5, SeqEqual
  <1> QED BY <1>1, <1>6 DEF s, t

\* A message in one piece, or in its two halves, is decoded to itself.
LEMMA DecodesMessage ==
    ASSUME NEW m
    PROVE  /\ Decode(Append(<<>>, [of |-> m, part |-> "whole"])) = m
           /\ Decode(Append(<<[of |-> m, part |-> "first"]>>,
                            [of |-> m, part |-> "second"])) = m
  <1> DEFINE p == <<[of |-> m, part |-> "whole"]>>
             q == <<[of |-> m, part |-> "first"], [of |-> m, part |-> "second"]>>
  <1>1. /\ Append(<<>>, [of |-> m, part |-> "whole"]) = p
        /\ Append(<<[of |-> m, part |-> "first"]>>, [of |-> m, part |-> "second"]) = q
    BY TwoPieces
  <1>2. p[1].of = m /\ q[1].of = m
    OBVIOUS
  <1>3. Decode(p) = m /\ Decode(q) = m
    BY <1>2 DEF Decode
  <1> QED BY <1>1, <1>3

\* What ends with a second half of junk is junk.
LEMMA DecodesJunk ==
    ASSUME NEW p \in Seq(Pieces), p # <<>>
    PROVE  Decode(Append(p, [of |-> Junk, part |-> "second"])) = Junk
  <1> DEFINE x == [of |-> Junk, part |-> "second"]
             q == Append(p, x)
             m == q[1].of
  <1>1. x \in Pieces
    BY MessageKinds DEF Pieces
  <1>2. /\ Len(p) \in Nat /\ Len(p) # 0 /\ q \in Seq(Pieces)
        /\ Len(q) = Len(p) + 1 /\ q[Len(p) + 1] = x
    BY <1>1, LenProperties, EmptySeq, AppendProperties
  <1> HIDE DEF q
  <1>3. q # <<[of |-> m, part |-> "whole"]>>
    BY <1>2
  <1>4. q = <<[of |-> m, part |-> "first"], [of |-> m, part |-> "second"]>> => m = Junk
    <2> SUFFICES ASSUME q = <<[of |-> m, part |-> "first"], [of |-> m, part |-> "second"]>>
                 PROVE  m = Junk
      OBVIOUS
    <2>1. Len(q) = 2 /\ q[2].of = m
      OBVIOUS
    <2>2. Len(p) + 1 = 2
      BY <1>2, <2>1
    <2> QED BY <1>2, <2>1, <2>2
  <1>5. Decode(q) = Junk
    BY <1>3, <1>4 DEF Decode
  <1> QED BY <1>5 DEF q

\* A text that ends is the message its last frame ends, as its first half is still there.
LEMMA TextIsWhole ==
    ASSUME ClientInv, WireInv, ReadText
    PROVE  /\ Decode(Gathered(NextFrame).pieces) = wire[1].piece.of
           /\ ~Fragmented \/ ~Goes(wire[1])
           /\ \A m : ~Opens(wire[1], m)
  <1> DEFINE f == wire[1]
  <1>1. /\ CanRead /\ wire # <<>> /\ reader.pc = "read" /\ NextFrame = f /\ 1 \in DOMAIN wire
        /\ ~ProtocolError(f) /\ f.op \in {"text", "cont"} /\ f.fin
        /\ f \in Frames /\ f.piece \in Pieces /\ Shaped(f)
    <2>1. CanRead /\ wire # <<>> /\ NextFrame = f /\ 1 \in DOMAIN wire
      BY FrameTypes, MovedUp DEF ReadText, CanRead, NextFrame
    <2>2. f \in Frames /\ f.piece \in Pieces
      BY <2>1, FrameTypes DEF Frames
    <2> QED BY <2>1, <2>2 DEF ReadText, CanRead, WireInv
  <1>2. f.piece = [of |-> f.piece.of, part |-> f.piece.part]
    BY <1>1 DEF Pieces
  <1>3. partial \in Partials /\ partial.pieces \in Seq(Pieces)
    BY DEF ClientInv, TypeOK, Partials
  <1>4. Gathered(NextFrame).pieces = Append(partial.pieces, f.piece)
    BY <1>1 DEF Gathered
  <1>5. \A m : ~Opens(f, m)
    BY <1>1 DEF Opens
  <1>6. CASE f.op = "text"
    <2>1. ~Fragmented /\ partial.pieces = <<>>
      BY <1>1, <1>6 DEF ProtocolError, Fragmented
    <2>2. f.piece.part = "whole"
      BY <1>1, <1>6 DEF Shaped
    <2> QED BY <1>2, <1>4, <1>5, <2>1, <2>2, DecodesMessage
  <1>7. CASE f.op = "cont"
    <2>1. Fragmented /\ partial.pieces # <<>>
      BY <1>1, <1>7 DEF ProtocolError, Fragmented
    <2>2. f.piece.part = "second" /\ f.size = 1 /\ ~Goes(f)
      BY <1>1, <1>7 DEF Shaped, Goes
    <2>3. CASE f.piece.of = Junk
      BY <1>2, <1>3, <1>4, <1>5, <2>1, <2>2, <2>3, DecodesJunk
    <2>4. CASE f.piece.of # Junk
      <3>1. HasFirst(wire, partial.pieces, 1, f.piece.of)
        BY <1>1, <1>7, <2>2, <2>4 DEF WireInv, Coming, Reading, Halves
      <3>2. \A j \in DOMAIN wire : ~(j < 1)
        BY FrameTypes
      <3>3. partial.pieces = <<[of |-> f.piece.of, part |-> "first"]>>
        BY <3>1, <3>2 DEF HasFirst
      <3> QED BY <1>2, <1>4, <1>5, <2>2, <3>3, DecodesMessage
    <2> QED BY <2>3, <2>4
  <1> QED BY <1>1, <1>6, <1>7

\* Of the fragments only a first half goes on with the text.
LEMMA PartIsFirst ==
    ASSUME ClientInv, WireInv, ReadPart
    PROVE  /\ ~Fragmented /\ Gathered(NextFrame).pieces = <<wire[1].piece>>
           /\ ~wire[1].fin /\ wire[1].op = "text"
  <1> DEFINE f == wire[1]
  <1>1. /\ CanRead /\ wire # <<>> /\ NextFrame = f /\ 1 \in DOMAIN wire
        /\ ~ProtocolError(f) /\ f.op \in {"text", "cont"} /\ ~f.fin
        /\ f \in Frames /\ Shaped(f)
    <2>1. CanRead /\ wire # <<>> /\ NextFrame = f /\ 1 \in DOMAIN wire
      BY FrameTypes, MovedUp DEF ReadPart, CanRead, NextFrame
    <2> QED BY <2>1, FrameTypes DEF ReadPart, CanRead, WireInv
  <1>2. partial \in Partials /\ partial.size \in 0..2
    BY DEF ClientInv, TypeOK, Partials
  <1>3. f.op # "cont"
    <2> SUFFICES ASSUME f.op = "cont" PROVE FALSE
      OBVIOUS
    <2>1. Fragmented /\ ~(partial.size + f.size > 2)
      BY <1>1 DEF ProtocolError, FrameLimit
    <2>2. f.size \in 1..3 /\ f.size # 1
      BY <1>1 DEF Shaped, Frames
    <2>3. partial.size # 0
      BY <2>1 DEF ClientInv, PartsAgree
    <2> QED BY <1>2, <2>1, <2>2, <2>3
  <1>4. ~Fragmented /\ partial.pieces = <<>>
    BY <1>1, <1>3 DEF ProtocolError, Fragmented
  <1>5. Gathered(NextFrame).pieces = Append(<<>>, f.piece)
    BY <1>1, <1>4 DEF Gathered
  <1> QED BY <1>1, <1>3, <1>4, <1>5

\* A first half is put aside.
LEMMA ReadPartOrder ==
    ASSUME ClientInv, OrderInv, ReadPart, UNCHANGED <<inst, caller, taken, server, said>>
    PROVE  OrderInv'
  <1>1. /\ wire # <<>> /\ wire' = Tail(wire) /\ partial' = Gathered(NextFrame)
        /\ UNCHANGED <<inst, outcome, reader, channel, taken, server, said>> /\ reader.pc = "read"
    BY DEF ReadPart, CanRead
  <1>2. WireInv /\ Halves /\ EventsComing /\ AnswersComing
    BY <1>1 DEF OrderInv, WireInv, Coming, Reading
  <1>3. /\ ~Fragmented /\ partial'.pieces = <<wire[1].piece>>
        /\ ~wire[1].fin /\ wire[1].op = "text"
    BY <1>1, <1>2, PartIsFirst
  <1>4. Handed' = Handed /\ Requests' = Requests
    BY <1>1, SameSets DEF Handed
  <1>5. EventsComing' /\ AnswersComing'
    BY <1>1, <1>2, <1>3, <1>4, EventsMoveUp, AnswersMoveUp DEF Ends
  <1>6. Halves'
    BY <1>1, <1>2, <1>3, HalvesMoveUp DEF Opens
  <1>7. \A i \in DOMAIN wire' : Shaped(wire'[i])
    BY <1>1, <1>2, ShapesMoveUp
  <1>8. InOrder'
    BY <1>1, <1>4 DEF OrderInv, InOrder
  <1>9. AnsweredInTime'
    BY <1>1, <1>4 DEF OrderInv, AnsweredInTime
  <1> QED BY <1>5, <1>6, <1>7, <1>8, <1>9 DEF OrderInv, WireInv, Coming

\* A control frame is in nobody's way, and the end of the reading leaves nothing to come.
LEMMA ReadControlOrder ==
    ASSUME ClientInv, OrderInv, ReadPing \/ ReadOther \/ ReadEnd,
           UNCHANGED <<inst, caller, taken, server, said>>
    PROVE  OrderInv'
  <1>1. /\ UNCHANGED <<inst, outcome, partial, channel, taken, server, said>>
        /\ reader.pc = "read" /\ reader'.pc # "send"
        /\ wire' = wire \/ (wire # <<>> /\ wire' = Tail(wire))
    BY DEF ReadPing, ReadOther, ReadEnd, CanRead, ClientInv, TypeOK, Readers
  <1>2. Handed' = Handed /\ Requests' = Requests
    BY <1>1, SameSets DEF Handed
  <1>3. WireInv /\ Halves /\ EventsComing /\ AnswersComing
    BY <1>1 DEF OrderInv, WireInv, Coming, Reading
  <1>4. \A i \in DOMAIN wire' : Shaped(wire'[i])
    BY <1>1, <1>3, ShapesMoveUp DEF WireInv
  <1>5. InOrder'
    BY <1>1, <1>2 DEF OrderInv, InOrder
  <1>6. AnsweredInTime'
    BY <1>1, <1>2 DEF OrderInv, AnsweredInTime
  <1>7. WireInv'
    <2>1. CASE ReadPing \/ ReadOther
      <3>1. wire # <<>> /\ wire' = Tail(wire) /\ wire[1].op \in {"ping", "pong", "other"}
        BY <2>1, FrameTypes, MovedUp DEF ReadPing, ReadOther, CanRead, NextFrame
      <3>2. EventsComing' /\ AnswersComing'
        BY <1>1, <1>2, <1>3, <3>1, EventsMoveUp, AnswersMoveUp DEF Ends
      <3>3. Halves'
        BY <1>1, <1>3, <3>1, HalvesMoveUp DEF Opens
      <3> QED BY <1>4, <3>2, <3>3 DEF WireInv, Coming
    <2>2. CASE ReadEnd
      <3>1. reader'.pc = "close"
        BY <2>2 DEF ReadEnd, ClientInv, TypeOK, Readers
      <3> QED BY <1>4, <3>1 DEF Reading, WireInv, Coming
    <2> QED BY <2>1, <2>2
  <1> QED BY <1>5, <1>6, <1>7 DEF OrderInv


\* The event that ends is the next one.
LEMMA NextEvent ==
    ASSUME ClientInv, EventsComing, wire # <<>>, Ends(wire[1], "event")
    PROVE  wire[1].piece.of = Event(Handed + 1) /\ Handed + 1 <= said.events
  <1> DEFINE n == wire[1].piece.of.n
  <1>1. /\ 1 \in DOMAIN wire /\ Handed \in Nat /\ said.events \in Nat
        /\ n \in Nat /\ wire[1].piece.of = Event(n)
        /\ \A i \in DOMAIN wire : i \in Nat \ {0}
    BY FrameTypes, MovedUp
  <1>2. n \in (Handed + 1)..said.events
    BY <1>1 DEF EventsComing, EventsOnly
  <1>3. Handed + 1 \in (Handed + 1)..said.events
    BY <1>1, <1>2
  <1>4. PICK i \in DOMAIN wire : Ends(wire[i], "event") /\ wire[i].piece.of.n = Handed + 1
    BY <1>3 DEF EventsComing, EventsThere
  <1>5. i # 1 => n < Handed + 1
    BY <1>1, <1>4 DEF EventsComing, EventsSorted
  <1>6. n = Handed + 1
    BY <1>1, <1>2, <1>4, <1>5
  <1> QED BY <1>1, <1>2, <1>6

\* An answer that ends was sent after events that are all handed over.
LEMMA NextAnswer ==
    ASSUME ClientInv, EventsComing, AnswersComing, wire # <<>>, Ends(wire[1], "answer")
    PROVE  \E k \in 0..said.events : <<wire[1].piece.of.n, k>> \in said.answers /\ k <= Handed
  <1>1. /\ 1 \in DOMAIN wire /\ Handed \in Nat /\ said.events \in Nat
        /\ \A i \in DOMAIN wire : i \in Nat \ {0}
        /\ ~Ends(wire[1], "event")
    BY FrameTypes, MovedUp DEF Ends
  <1>2. PICK k \in 0..said.events :
             /\ <<wire[1].piece.of.n, k>> \in said.answers
             /\ \A j \in DOMAIN wire :
                  1 < j /\ Ends(wire[j], "event") => k < wire[j].piece.of.n
    BY <1>1 DEF AnswersComing
  <1>3. k <= Handed
    <2> SUFFICES ASSUME ~(k <= Handed) PROVE FALSE
      OBVIOUS
    <2>1. k \in (Handed + 1)..said.events
      BY <1>1
    <2>2. PICK i \in DOMAIN wire : Ends(wire[i], "event") /\ wire[i].piece.of.n = k
      BY <2>1 DEF EventsComing, EventsThere
    <2>3. 1 < i
      BY <1>1, <2>2
    <2>4. k < k
      BY <1>2, <2>2, <2>3
    <2> QED BY <1>1, <2>4
  <1> QED BY <1>2, <1>3

\* A text ends: an answer comes after the events before it, an event after the others.
LEMMA ReadTextOrder ==
    ASSUME ClientInv, OrderInv, ReadText, UNCHANGED <<inst, caller, taken, server, said>>
    PROVE  OrderInv'
  <1> DEFINE m == wire[1].piece.of
  <1>1. /\ wire # <<>> /\ wire' = Tail(wire) /\ reader.pc = "read" /\ reader \in Readers
        /\ UNCHANGED <<inst, channel, taken, server, said>>
        /\ outcome \in Outcomes
    BY DEF ReadText, CanRead, ClientInv, TypeOK
  <1>2. WireInv /\ Halves /\ EventsComing /\ AnswersComing
    BY <1>1 DEF OrderInv, WireInv, Coming, Reading
  <1>3. /\ Decode(Gathered(NextFrame).pieces) = m
        /\ ~Fragmented \/ ~Goes(wire[1])
        /\ \A x : ~Opens(wire[1], x)
    BY <1>2, TextIsWhole
  <1>4. Handle(m)
    BY <1>3 DEF ReadText
  <1>5. /\ 1 \in DOMAIN wire /\ m \in Messages /\ wire[1].op \in {"text", "cont"} /\ wire[1].fin
        /\ Handed = Len(taken) + Len(channel) /\ Handed \in Nat /\ said.events \in Nat
        /\ Len(taken) \in Nat /\ Len(channel) \in Nat
    BY <1>1, FrameTypes, MovedUp DEF ReadText, CanRead, NextFrame
  <1>6. \A kind : Ends(wire[1], kind) <=> m.kind = kind
    BY <1>5 DEF Ends
  <1>7. Halves'
    BY <1>1, <1>2, <1>3, HalvesMoveUp
  <1>8. AnswersComing'
    BY <1>1, <1>2, AnswersMoveUp
  <1>9. \A i \in DOMAIN wire' : Shaped(wire'[i])
    BY <1>1, <1>2, ShapesMoveUp
  <1> HIDE DEF m
  <1>10. CASE m.kind = "event"
    <2>1. /\ reader' = [reader EXCEPT !.pc = "send", !.event = m] /\ UNCHANGED outcome
      BY <1>4, <1>10 DEF Handle
    <2>2. m = Event(Handed + 1) /\ Handed + 1 <= said.events
      BY <1>1, <1>2, <1>6, <1>10, NextEvent DEF m
    <2>3. reader'.pc = "send" /\ reader'.event = Event(Handed + 1)
      BY <1>1, <2>1, <2>2 DEF Readers
    <2>4. Handed' = Handed + 1
      BY <1>1, <1>5, <2>3 DEF Handed
    <2>5. m.n = Handed + 1
      BY <2>2 DEF Event
    <2>6. EventsComing'
      BY <1>1, <1>2, <1>6, <1>10, <2>4, <2>5, EventsMoveUp DEF m
    <2>7. InOrder'
      BY <1>1, <2>2, <2>3, <2>4 DEF OrderInv, InOrder
    <2>8. AnsweredInTime'
      BY <1>1, <2>1, SameSets DEF OrderInv, AnsweredInTime
    <2> QED BY <1>7, <1>8, <1>9, <2>6, <2>7, <2>8 DEF OrderInv, WireInv, Coming
  <1>11. CASE m.kind # "event"
    <2>1. UNCHANGED reader
      BY <1>4, <1>11 DEF Handle
    <2>2. Handed' = Handed
      BY <1>1, <2>1 DEF Handed
    <2>3. EventsComing'
      BY <1>1, <1>2, <1>6, <1>11, <2>2, EventsMoveUp
    <2>4. InOrder'
      BY <1>1, <2>1, <2>2 DEF OrderInv, InOrder
    <2>5. AnsweredInTime'
      <3> SUFFICES ASSUME NEW i \in Requests, outcome'[i] = "answered"
                   PROVE  \E k \in 0..said.events :
                             <<i, k>> \in said.answers /\ k <= Len(taken) + Len(channel)
        BY <1>1, SameSets DEF AnsweredInTime
      <3>1. CASE outcome[i] = "answered"
        BY <3>1 DEF OrderInv, AnsweredInTime
      <3>2. CASE outcome[i] # "answered"
        <4>1. m.kind = "answer" /\ m.n = i
          BY <1>1, <1>4, <1>11, <3>2 DEF Handle, Outcomes
        <4> QED BY <1>1, <1>2, <1>5, <1>6, <4>1, NextAnswer DEF m
      <3> QED BY <3>1, <3>2
    <2> QED BY <1>7, <1>8, <1>9, <2>3, <2>4, <2>5 DEF OrderInv, WireInv, Coming
  <1> QED BY <1>10, <1>11


-----------------------------------------------------------------------------
(* The order of the events: the server.                                    *)

\* A frame that is sent leaves the halves before it where they are.
LEMMA HalvesStay ==
    ASSUME ClientInv, Halves, NEW f \in Frames, wire' = Append(wire, f), partial' = partial,
           f.op = "cont" /\ f.size = 1 /\ f.piece.of # Junk =>
             server.half # None /\ server.half = f.piece.of,
           server'.half # None =>
             (server'.half = server.half /\ Goes(f)) \/ Opens(f, server'.half)
    PROVE  Halves'
  <1>1. /\ wire \in Seq(Frames) /\ Len(wire) \in Nat /\ Len(wire') = Len(wire) + 1
        /\ Len(wire) + 1 \in DOMAIN wire' /\ wire'[Len(wire) + 1] = f
        /\ \A i \in DOMAIN wire : /\ i \in Nat \ {0} /\ i <= Len(wire) /\ i \in DOMAIN wire'
                                  /\ wire'[i] = wire[i]
        /\ \A i \in DOMAIN wire' : i = Len(wire) + 1 \/ i \in DOMAIN wire
    BY FrameTypes, PutBehind
  <1>2. ASSUME NEW i \in Nat, NEW m, HasFirst(wire, partial.pieces, i, m),
               i <= Len(wire) + 1 \/ Goes(f)
        PROVE  HasFirst(wire', partial'.pieces, i, m)
    <2>1. ASSUME NEW k \in DOMAIN wire', k < i, k \in DOMAIN wire => Goes(wire[k])
          PROVE  Goes(wire'[k])
      <3>1. CASE k = Len(wire) + 1
        BY <1>1, <1>2, <2>1, <3>1
      <3>2. CASE k \in DOMAIN wire
        BY <1>1, <2>1, <3>2
      <3> QED BY <1>1, <3>1, <3>2
    <2>2. ASSUME NEW j \in DOMAIN wire, j < i, Opens(wire[j], m),
                 \A k \in DOMAIN wire : j < k /\ k < i => Goes(wire[k])
          PROVE  HasFirst(wire', partial'.pieces, i, m)
      <3>1. j \in DOMAIN wire' /\ wire'[j] = wire[j]
        BY <1>1
      <3>2. \A k \in DOMAIN wire' : j < k /\ k < i => Goes(wire'[k])
        BY <2>1, <2>2
      <3> QED BY <2>2, <3>1, <3>2 DEF HasFirst
    <2>3. ASSUME partial.pieces = <<[of |-> m, part |-> "first"]>>,
                 \A k \in DOMAIN wire : k < i => Goes(wire[k])
          PROVE  HasFirst(wire', partial'.pieces, i, m)
      <3>1. \A k \in DOMAIN wire' : k < i => Goes(wire'[k])
        BY <2>1, <2>3
      <3> QED BY <2>3, <3>1 DEF HasFirst
    <2> QED BY <1>2, <2>2, <2>3 DEF HasFirst
  <1>3. ASSUME NEW i \in DOMAIN wire', wire'[i].op = "cont", wire'[i].size = 1,
               wire'[i].piece.of # Junk
        PROVE  HasFirst(wire', partial'.pieces, i, wire'[i].piece.of)
    <2>1. CASE i \in DOMAIN wire
      <3>1. i \in Nat /\ i <= Len(wire) + 1 /\ wire'[i] = wire[i]
        BY <1>1, <2>1
      <3>2. HasFirst(wire, partial.pieces, i, wire[i].piece.of)
        BY <1>3, <2>1, <3>1 DEF Halves
      <3> QED BY <1>2, <3>1, <3>2
    <2>2. CASE i = Len(wire) + 1
      <3>1. wire'[i] = f /\ server.half # None /\ server.half = f.piece.of
        BY <1>1, <1>3, <2>2
      <3>2. HasFirst(wire, partial.pieces, Len(wire) + 1, server.half)
        BY <3>1 DEF Halves
      <3>3. HasFirst(wire', partial'.pieces, Len(wire) + 1, server.half)
        BY <1>1, <1>2, <3>2
      <3> QED BY <2>2, <3>1, <3>3
    <2> QED BY <1>1, <2>1, <2>2
  <1>4. ASSUME server'.half # None
        PROVE  HasFirst(wire', partial'.pieces, Len(wire') + 1, server'.half)
    <2>1. CASE server'.half = server.half /\ Goes(f)
      <3>1. HasFirst(wire, partial.pieces, Len(wire) + 1, server.half)
        BY <1>4, <2>1 DEF Halves
      <3>2. HasFirst(wire, partial.pieces, Len(wire) + 2, server.half)
        BY <1>1, <3>1 DEF HasFirst
      <3>3. HasFirst(wire', partial'.pieces, Len(wire) + 2, server.half)
        BY <1>1, <1>2, <2>1, <3>2
      <3> QED BY <1>1, <2>1, <3>3
    <2>2. CASE Opens(f, server'.half)
      <3>1. \A k \in DOMAIN wire' : ~(Len(wire) + 1 < k /\ k < Len(wire') + 1)
        BY <1>1
      <3> QED BY <1>1, <2>2, <3>1 DEF HasFirst
    <2> QED BY <1>4, <2>1, <2>2
  <1> QED BY <1>3, <1>4 DEF Halves

\* A frame is sent that ends the next event, an answer, or nothing of the two.
LEMMA SaidInOrder ==
    ASSUME ClientInv, OrderInv, UNCHANGED <<inst, clientVars, readerVars, taken>>,
           NEW f \in Frames, wire' = Append(wire, f), Shaped(f), Reading => Halves',
           said' \in Sayings, said.answers \subseteq said'.answers,
           Ends(f, "event") => f.piece.of.n = said.events + 1,
           said'.events = IF Ends(f, "event") THEN said.events + 1 ELSE said.events,
           Ends(f, "answer") => <<f.piece.of.n, said.events>> \in said'.answers
    PROVE  OrderInv'
  <1>1. /\ UNCHANGED <<inst, state, caller, outcome, lock, reader, partial, channel, taken>>
        /\ Handed' = Handed /\ Requests' = Requests
    BY SameSets DEF clientVars, readerVars, Handed
  <1>2. /\ Handed \in Nat /\ said.events \in Nat /\ said'.events \in Nat
        /\ said.events <= said'.events
    BY FrameTypes
  <1>3. /\ wire \in Seq(Frames) /\ Len(wire) \in Nat
        /\ Len(wire) + 1 \in DOMAIN wire' /\ wire'[Len(wire) + 1] = f
        /\ \A i \in DOMAIN wire : /\ i \in Nat \ {0} /\ i <= Len(wire) /\ i \in DOMAIN wire'
                                  /\ wire'[i] = wire[i]
        /\ \A i \in DOMAIN wire' : i = Len(wire) + 1 \/ i \in DOMAIN wire
    BY FrameTypes, PutBehind
  <1>4. InOrder'
    BY <1>1, <1>2 DEF OrderInv, InOrder
  <1>5. AnsweredInTime'
    <2> SUFFICES ASSUME NEW i \in Requests, outcome[i] = "answered"
                 PROVE  \E k \in 0..said'.events :
                           <<i, k>> \in said'.answers /\ k <= Len(taken) + Len(channel)
      BY <1>1 DEF AnsweredInTime
    <2>1. PICK k \in 0..said.events :
               <<i, k>> \in said.answers /\ k <= Len(taken) + Len(channel)
      BY DEF OrderInv, AnsweredInTime
    <2>2. k \in 0..said'.events
      BY <1>2
    <2> QED BY <2>1, <2>2
  <1>6. \A i \in DOMAIN wire' : Shaped(wire'[i])
    BY <1>3 DEF OrderInv, WireInv
  <1>7. ASSUME Reading
        PROVE  EventsComing' /\ AnswersComing'
    <2>1. EventsComing /\ AnswersComing /\ Handed <= said.events
      BY <1>7 DEF OrderInv, WireInv, Coming, InOrder
    <2>2. \A i \in DOMAIN wire : Ends(wire[i], "event") =>
             /\ wire[i].piece.of.n \in Nat
             /\ Handed + 1 <= wire[i].piece.of.n /\ wire[i].piece.of.n <= said.events
      BY <1>2, <2>1, FrameTypes DEF EventsComing, EventsOnly
    <2>3. ASSUME NEW n \in (Handed + 1)..said'.events
          PROVE  \E i \in DOMAIN wire' : Ends(wire'[i], "event") /\ wire'[i].piece.of.n = n
      <3>1. CASE n \in (Handed + 1)..said.events
        <4>1. PICK i \in DOMAIN wire : Ends(wire[i], "event") /\ wire[i].piece.of.n = n
          BY <2>1, <3>1 DEF EventsComing, EventsThere
        <4> QED BY <1>3, <4>1
      <3>2. CASE n \notin (Handed + 1)..said.events
        <4>1. Ends(f, "event") /\ n = said.events + 1
          BY <1>2, <3>2
        <4> QED BY <1>3, <4>1
      <3> QED BY <3>1, <3>2
    <2>4. ASSUME NEW i \in DOMAIN wire', Ends(wire'[i], "event")
          PROVE  wire'[i].piece.of.n \in (Handed + 1)..said'.events
      <3>1. CASE i \in DOMAIN wire
        BY <1>2, <1>3, <2>2, <2>4, <3>1
      <3>2. CASE i = Len(wire) + 1
        <4>1. /\ wire'[i] = f /\ f.piece.of.n = said.events + 1
              /\ said'.events = said.events + 1
          BY <1>3, <2>4, <3>2
        <4> QED BY <1>2, <2>1, <4>1
      <3> QED BY <1>3, <3>1, <3>2
    <2>5. ASSUME NEW i \in DOMAIN wire', NEW j \in DOMAIN wire', i < j,
                 Ends(wire'[i], "event"), Ends(wire'[j], "event")
          PROVE  wire'[i].piece.of.n < wire'[j].piece.of.n
      <3>1. i \in DOMAIN wire /\ wire'[i] = wire[i]
        BY <1>3, <2>5
      <3>2. CASE j \in DOMAIN wire
        <4>1. wire'[j] = wire[j]
          BY <1>3, <3>2
        <4> QED BY <2>1, <2>5, <3>1, <3>2, <4>1 DEF EventsComing, EventsSorted
      <3>3. CASE j = Len(wire) + 1
        <4>1. wire'[j] = f /\ f.piece.of.n = said.events + 1
          BY <1>3, <2>5, <3>3
        <4> QED BY <1>2, <2>2, <2>5, <3>1, <4>1
      <3> QED BY <1>3, <3>2, <3>3
    <2>6. EventsComing'
      BY <1>1, <2>3, <2>4, <2>5 DEF EventsComing, EventsThere, EventsOnly, EventsSorted
    <2>7. ASSUME NEW i \in DOMAIN wire', Ends(wire'[i], "answer")
          PROVE  \E k \in 0..said'.events :
                    /\ <<wire'[i].piece.of.n, k>> \in said'.answers
                    /\ \A j \in DOMAIN wire' :
                         i < j /\ Ends(wire'[j], "event") => k < wire'[j].piece.of.n
      <3>1. CASE i \in DOMAIN wire
        <4>1. wire'[i] = wire[i]
          BY <1>3, <3>1
        <4>2. PICK k \in 0..said.events :
                   /\ <<wire[i].piece.of.n, k>> \in said.answers
                   /\ \A j \in DOMAIN wire :
                        i < j /\ Ends(wire[j], "event") => k < wire[j].piece.of.n
          BY <2>1, <2>7, <3>1, <4>1 DEF AnswersComing
        <4>3. ASSUME NEW j \in DOMAIN wire', i < j, Ends(wire'[j], "event")
              PROVE  k < wire'[j].piece.of.n
          <5>1. CASE j \in DOMAIN wire
            BY <1>3, <4>2, <4>3, <5>1
          <5>2. CASE j = Len(wire) + 1
            <6>1. wire'[j] = f /\ f.piece.of.n = said.events + 1
              BY <1>3, <4>3, <5>2
            <6> QED BY <1>2, <4>2, <6>1
          <5> QED BY <1>3, <5>1, <5>2
        <4>4. k \in 0..said'.events
          BY <1>2
        <4> QED BY <4>1, <4>2, <4>3, <4>4
      <3>2. CASE i = Len(wire) + 1
        <4>1. wire'[i] = f /\ <<f.piece.of.n, said.events>> \in said'.answers
          BY <1>3, <2>7, <3>2
        <4>2. \A j \in DOMAIN wire' : ~(i < j)
          BY <1>3, <3>2
        <4>3. said.events \in 0..said'.events
          BY <1>2
        <4> QED BY <4>1, <4>2, <4>3
      <3> QED BY <1>3, <3>1, <3>2
    <2>8. AnswersComing'
      BY <2>7 DEF AnswersComing
    <2> QED BY <2>6, <2>8
  <1>8. WireInv'
    BY <1>1, <1>6, <1>7 DEF WireInv, Coming, Reading
  <1> QED BY <1>4, <1>5, <1>8 DEF OrderInv


\* A message goes out in one frame.
LEMMA WholeOrder ==
    ASSUME ClientInv, OrderInv, ServerSays, UNCHANGED <<inst, clientVars, readerVars, taken>>
    PROVE  OrderInv'
  <1>1. PICK m \in Messages : /\ server.half = None /\ MaySay(m) /\ Speaks(Whole(m))
                              /\ Says(m) /\ server' = Counted(m)
    BY DEF ServerSays
  <1> DEFINE f == Whole(m)
  <1>2. m.kind = "event" => m.n = said.events + 1
    BY <1>1, MessageKinds DEF MaySay
  <1>3. /\ said' \in Sayings
        /\ said'.events = IF m.kind = "event" THEN m.n ELSE said.events
        /\ said'.answers = IF m.kind = "answer" THEN said.answers \cup {<<m.n, said.events>>}
                           ELSE said.answers
    BY <1>1, <1>2, SayingKeeps
  <1>4. /\ f \in Frames /\ wire' = Append(wire, f) /\ Shaped(f)
        /\ f.piece.of = m /\ f.op = "text" /\ f.fin
    BY <1>1, SentFrames DEF Whole, Text, Speaks, Shaped
  <1>5. \A kind : Ends(f, kind) <=> m.kind = kind
    BY <1>4 DEF Ends
  <1>6. server'.half = None
    BY <1>1, CountedServer
  <1> HIDE DEF f
  <1>7. Reading => Halves'
    BY <1>4, <1>6, HalvesStay DEF OrderInv, WireInv, Coming, readerVars
  <1> QED BY <1>2, <1>3, <1>4, <1>5, <1>7, SaidInOrder

\* The first half of a message ends nothing yet.
LEMMA HalfOrder ==
    ASSUME ClientInv, OrderInv, ServerSaysHalf,
           UNCHANGED <<inst, clientVars, readerVars, taken>>
    PROVE  OrderInv'
  <1>1. PICK m \in Messages \ {Junk} :
             /\ Speaks(Text("text", FALSE, 1, m, "first"))
             /\ server' = [server EXCEPT !.half = m] /\ UNCHANGED said
    BY DEF ServerSaysHalf
  <1> DEFINE f == Text("text", FALSE, 1, m, "first")
  <1>2. f \in Frames /\ wire' = Append(wire, f) /\ Shaped(f) /\ f.op = "text" /\ Opens(f, m)
    BY <1>1, SentFrames DEF Text, Speaks, Shaped, Opens
  <1>3. \A kind : ~Ends(f, kind)
    BY DEF Ends, Text
  <1>4. server'.half = m
    BY <1>1, ServerMoves DEF ClientInv, TypeOK
  <1>5. said' \in Sayings
    BY <1>1, SameSets DEF ClientInv, TypeOK
  <1> HIDE DEF f
  <1>6. Reading => Halves'
    BY <1>2, <1>4, HalvesStay DEF OrderInv, WireInv, Coming, readerVars
  <1> QED BY <1>1, <1>2, <1>3, <1>5, <1>6, SaidInOrder

\* The second half of a message ends it.
LEMMA RestOrder ==
    ASSUME ClientInv, OrderInv, ServerSaysRest,
           UNCHANGED <<inst, clientVars, readerVars, taken>>
    PROVE  OrderInv'
  <1> DEFINE m == server.half  f == Text("cont", TRUE, 1, m, "second")
  <1>1. /\ m # None /\ Speaks(f) /\ Says(m) /\ server' = [Counted(m) EXCEPT !.half = None]
    BY DEF ServerSaysRest
  <1>2. m \in Messages /\ (m.kind = "event" => m.n = said.events + 1)
    BY <1>1, ServerMoves DEF ClientInv, TypeOK, PartsAgree, HalfIsNext
  <1>3. /\ said' \in Sayings
        /\ said'.events = IF m.kind = "event" THEN m.n ELSE said.events
        /\ said'.answers = IF m.kind = "answer" THEN said.answers \cup {<<m.n, said.events>>}
                           ELSE said.answers
    BY <1>1, <1>2, SayingKeeps
  <1>4. /\ f \in Frames /\ wire' = Append(wire, f) /\ Shaped(f)
        /\ f.piece.of = m /\ f.op = "cont" /\ f.fin /\ f.size = 1
    BY <1>1, <1>2, SentFrames DEF Text, Speaks, Shaped
  <1>5. \A kind : Ends(f, kind) <=> m.kind = kind
    BY <1>4 DEF Ends
  <1>6. server'.half = None
    BY <1>1, <1>2, CountedServer DEF Servers
  <1>7. Reading => Halves'
    <2> HIDE DEF f
    <2> QED BY <1>1, <1>4, <1>6, HalvesStay DEF OrderInv, WireInv, Coming, readerVars
  <1> HIDE DEF f, m
  <1> QED BY <1>2, <1>3, <1>4, <1>5, <1>7, SaidInOrder

\* A frame that is neither a message nor a part of one leaves the order as it is.
LEMMA NoiseOrder ==
    ASSUME ClientInv, OrderInv, ServerControls \/ ServerStrays,
           UNCHANGED <<inst, clientVars, readerVars, taken>>
    PROVE  OrderInv'
  <1>1. PICK f \in Frames :
             /\ wire' = Append(wire, f) /\ server'.half = server.half /\ said' = said
             /\ Shaped(f) /\ ~Ends(f, "event") /\ ~Ends(f, "answer")
             /\ ~(f.op = "cont" /\ f.size = 1 /\ f.piece.of # Junk)
             /\ server.half # None => Goes(f)
    <2>1. server \in Servers
      BY DEF ClientInv, TypeOK
    <2>2. CASE ServerControls
      <3>1. PICK op \in {"close", "ping", "pong", "other"} :
                 Speaks(Control(op)) /\ server' = [server EXCEPT !.control = @ + 1]
                 /\ said' = said
        BY <2>2 DEF ServerControls
      <3>2. Control(op) \in Frames /\ Control(op).op = op
        BY MessageKinds, SentFrames DEF Control
      <3> HIDE DEF Control
      <3>3. server'.half = server.half
        BY <2>1, <3>1, ServerMoves
      <3> QED BY <3>1, <3>2, <3>3 DEF Speaks, Shaped, Ends, Goes
    <2>3. CASE ServerStrays
      <3>1. PICK f \in Strays : /\ Speaks(f) /\ server' = [server EXCEPT !.strays = @ + 1]
                                /\ said' = said
        BY <2>3 DEF ServerStrays
      <3>2. f \in Frames
        BY <3>1, MessageKinds, SentFrames
      <3>3. server'.half = server.half
        BY <2>1, <3>1, ServerMoves
      <3>4. /\ Shaped(f) /\ ~Ends(f, "event") /\ ~Ends(f, "answer")
            /\ ~(f.op = "cont" /\ f.size = 1 /\ f.piece.of # Junk)
            /\ server.half # None => Goes(f)
        BY <3>1 DEF Strays, Text, Whole, Control, NoPiece, Junk, Shaped, Ends, Goes
      <3> QED BY <3>1, <3>2, <3>3, <3>4 DEF Speaks
    <2> QED BY <2>2, <2>3
  <1>2. Reading => Halves'
    BY <1>1, HalvesStay DEF OrderInv, WireInv, Coming, readerVars
  <1>3. said' \in Sayings
    BY <1>1, SameSets DEF ClientInv, TypeOK
  <1> QED BY <1>1, <1>2, <1>3, SaidInOrder

-----------------------------------------------------------------------------
(* The order of the events in every state.                                 *)

\* At first nothing is sent.
LEMMA OrderStarts ==
    ASSUME Init
    PROVE  OrderInv
  <1>1. /\ DOMAIN wire = {} /\ DOMAIN taken = {} /\ DOMAIN channel = {} /\ said.events = 0
        /\ Handed = 0 /\ reader.pc = "off" /\ server.half = None
        /\ \A i \in Requests : outcome[i] = "none"
    BY DEF Init, Handed
  <1>2. InOrder /\ AnsweredInTime
    BY <1>1 DEF InOrder, AnsweredInTime
  <1>3. Halves /\ EventsComing /\ AnswersComing
    BY <1>1 DEF Halves, EventsComing, EventsThere, EventsOnly, EventsSorted, AnswersComing
  <1> QED BY <1>1, <1>2, <1>3 DEF OrderInv, WireInv, Coming

\* Every step keeps the order.
LEMMA OrderStep ==
    ASSUME ClientInv, OrderInv, [Next]_vars
    PROVE  OrderInv'
  <1>1. CASE Connect
    BY <1>1, ConnectOrder
  <1>2. CASE CallerStep
    BY <1>2, CallerOrder
  <1>3. CASE TakeEvent
    BY <1>3, TakeOrder
  <1>4. CASE ReaderStep
    BY <1>4, ReadPartOrder, ReadTextOrder, ReadControlOrder, ReaderRests, SendOrder
    DEF ReaderStep
  <1>5. CASE ServerStep
    BY <1>5, WholeOrder, HalfOrder, RestOrder, NoiseOrder, EndOrder DEF ServerStep
  <1>6. CASE UNCHANGED vars
    BY <1>6, SameOrder DEF vars, Reading
  <1> QED BY <1>1, <1>2, <1>3, <1>4, <1>5, <1>6 DEF Next

\* What is on its way is in order in every state.
LEMMA OrderAlways == Spec => []OrderInv
  BY OrderStarts, OrderStep, ClientAlways, PTL DEF Spec

\* The worker gets the events whole, once and in the order they were sent, and a request
\* is answered only when every event sent before the answer is in the channel or taken,
\* for any room in it and whatever else the server sends (read_websocket_frame,
\* handle_codex_message).
THEOREM EventsComeInOrder == Spec => []EventsInOrder
  <1>1. ASSUME ClientInv, OrderInv
        PROVE  EventsInOrder
    <2> DEFINE last == IF reader.pc = "send" THEN <<reader.event>> ELSE <<>>
               both == taken \o channel
    <2>1. /\ taken \in Seq(Events) /\ channel \in Seq(Events) /\ InOrder
          /\ Len(taken) \in Nat /\ Len(channel) \in Nat /\ Handed \in Nat
      BY <1>1, FrameTypes DEF OrderInv
    <2>2. /\ last \in Seq(Events) /\ Len(last) = IF reader.pc = "send" THEN 1 ELSE 0
          /\ reader.pc = "send" => last[1] = Event(Handed)
      BY <1>1, <2>1 DEF ClientInv, PartsAgree, InOrder
    <2>3. /\ both \in Seq(Events) /\ Len(both) = Len(taken) + Len(channel)
          /\ \A i \in 1..Len(both) :
               both[i] = IF i <= Len(taken) THEN taken[i] ELSE channel[i - Len(taken)]
      BY <2>1, ConcatProperties
    <2> HIDE DEF last, both
    <2>4. \A i \in 1..Len(both) : both[i] = Event(i)
      <3> SUFFICES ASSUME NEW i \in 1..Len(both) PROVE both[i] = Event(i)
        OBVIOUS
      <3>1. CASE i <= Len(taken)
        BY <2>1, <2>3, <3>1, LenProperties DEF InOrder
      <3>2. CASE ~(i <= Len(taken))
        <4>1. i - Len(taken) \in DOMAIN channel /\ Len(taken) + (i - Len(taken)) = i
          BY <2>1, <2>3, <3>2, LenProperties
        <4>2. channel[i - Len(taken)] = Event(Len(taken) + (i - Len(taken)))
          BY <2>1, <4>1 DEF InOrder
        <4> QED BY <2>3, <3>2, <4>1, <4>2
      <3> QED BY <3>1, <3>2
    <2>5. /\ both \o last \in Seq(Events) /\ Len(both \o last) = Handed
          /\ \A i \in 1..Handed :
               (both \o last)[i] = IF i <= Len(both) THEN both[i] ELSE last[i - Len(both)]
      <3>1. Len(both) + Len(last) = Handed
        BY <2>1, <2>2, <2>3 DEF Handed
      <3>2. /\ both \o last \in Seq(Events) /\ Len(both \o last) = Len(both) + Len(last)
            /\ \A i \in 1..(Len(both) + Len(last)) :
                 (both \o last)[i] = IF i <= Len(both) THEN both[i] ELSE last[i - Len(both)]
        <4>1. both \in Seq(Events) /\ last \in Seq(Events)
          BY <2>2, <2>3
        <4> QED BY ONLY <4>1, ConcatProperties
      <3> QED BY <3>1, <3>2
    <2>6. \A i \in 1..Handed : (both \o last)[i] = Event(i)
      <3> SUFFICES ASSUME NEW i \in 1..Handed PROVE (both \o last)[i] = Event(i)
        OBVIOUS
      <3>1. CASE i <= Len(both)
        BY <2>1, <2>3, <2>4, <2>5, <3>1
      <3>2. CASE ~(i <= Len(both))
        <4>1. reader.pc = "send" /\ i = Handed /\ i - Len(both) = 1
          BY <2>1, <2>3, <3>2 DEF Handed
        <4> QED BY <2>2, <2>5, <3>2, <4>1
      <3> QED BY <3>1, <3>2
    <2>7. Arrived = both \o last
      BY DEF Arrived, both, last
    <2>8. DOMAIN Arrived = 1..Handed /\ Len(Arrived) = Handed
      BY <2>5, <2>7, LenProperties
    <2>9. \A i \in Requests : outcome[i] = "answered" =>
             \E k \in 0..said.events : <<i, k>> \in said.answers /\ k <= Len(taken \o channel)
      BY <1>1, <2>3 DEF OrderInv, AnsweredInTime, both
    <2> QED BY <2>1, <2>6, <2>7, <2>8, <2>9 DEF EventsInOrder, InOrder
  <1> QED BY <1>1, ClientAlways, OrderAlways, PTL
=============================================================================
