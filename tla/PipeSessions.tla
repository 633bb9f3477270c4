----------------------------- MODULE PipeSessions -----------------------------
(***************************************************************************)
(* What named_pipe_server promises to the INotify of its application        *)
(* (include/pipe-server-basics.hpp): the callbacks made under one instance   *)
(* number are one OnConnect, then an OnMessage for each request of one       *)
(* client, in the order sent and with none left out, then one OnDisconnect;  *)
(* a number is never used for a second session.                              *)
(***************************************************************************)
EXTENDS Naturals, FiniteSets

CONSTANTS
    Number,     \* instance numbers
    Client      \* the clients that may connect

VARIABLES
    opened,     \* numbers passed to OnConnect so far
    closed,     \* numbers passed to OnDisconnect so far
    delivered   \* the messages passed to OnMessage, with their numbers

vars == <<opened, closed, delivered>>

Init == opened = {} /\ closed = {} /\ delivered = {}

\* Requests of client c seen so far.
Of(c) == {d \in delivered : d.msg.client = c}

Open(n) ==
    /\ n \notin opened
    /\ opened' = opened \cup {n}
    /\ UNCHANGED <<closed, delivered>>

Message(n, c) ==
    /\ n \in opened \ closed
    /\ \A d \in delivered : d.no = n <=> d.msg.client = c
    /\ delivered' = delivered \cup
         {[no |-> n, msg |-> [client |-> c, n |-> Cardinality(Of(c)) + 1]]}
    /\ UNCHANGED <<opened, closed>>

Close(n) ==
    /\ n \in opened \ closed
    /\ closed' = closed \cup {n}
    /\ UNCHANGED <<opened, delivered>>

Next == \E n \in Number :
          Open(n) \/ Close(n) \/ \E c \in Client : Message(n, c)

Spec == Init /\ [][Next]_vars
=============================================================================
