------------------------------ MODULE MCEventLog ------------------------------
(***************************************************************************)
(* EventLog over every log of a few messages, against what a log means.    *)
(***************************************************************************)
EXTENDS EventLog

CONSTANTS s1, s2, a1, MaxLength, Foreign

Rec(v) == [v |-> v, archived |-> FALSE]
OfSession(s) == [session |-> s]

Events ==
    [kind : {"created"}, id : Session, session : {Rec(1)}]
    \cup [kind : {"updated"}, id : Session, session : {Rec(2)}]
    \cup [kind : {"archived", "purged"}, id : Session]
    \cup [kind : {"requested"}, id : Approval, approval : {OfSession(s) : s \in Session}]
    \cup [kind : {"resolved"}, id : Approval]

\* A first snapshot with everything, a later one of an empty table.
Snapshots ==
    {[kind |-> "snapshot", at |-> 1, sessions |-> [s \in Session |-> Rec(0)],
      approvals |-> [a \in Approval |-> OfSession(s1)]],
     [kind |-> "snapshot", at |-> 2, sessions |-> Empty, approvals |-> Empty]}

Messages == Events \cup Snapshots \cup [kind : Foreign]

ASSUME MessagesWellFormed == \A m \in Messages : WellFormed(m)

\* The room, up to a length.
Init == log = <<>>
Next == Len(log) < MaxLength /\ Write(Messages)
Spec == Init /\ [][Next]_log
=============================================================================
