---------------------------- MODULE PipeConnection ----------------------------
(***************************************************************************)
(* What named_pipe_client promises to the INotify of its application        *)
(* (include/pipe-client-basics.hpp): OnConnect and OnDisconnect alternate,   *)
(* and between them come OnMessage for the messages of this one connection,  *)
(* in the order the server sent them and with none left out.  The thread     *)
(* never ends in the middle of a connection.                                 *)
(***************************************************************************)
EXTENDS Naturals

VARIABLES
    up,         \* OnConnect was called, and OnDisconnect not since
    session,    \* connections announced so far
    heard,      \* number of the last message of this connection passed on
    done        \* the thread has left ThreadProc

vars == <<up, session, heard, done>>

Init == up = FALSE /\ session = 0 /\ heard = 0 /\ done = FALSE

Connect ==
    /\ ~up /\ ~done
    /\ up' = TRUE /\ session' = session + 1 /\ heard' = 0
    /\ UNCHANGED done

Message ==
    /\ up
    /\ heard' = heard + 1
    /\ UNCHANGED <<up, session, done>>

Disconnect ==
    /\ up
    /\ up' = FALSE
    /\ UNCHANGED <<session, heard, done>>

End ==
    /\ ~up /\ ~done
    /\ done' = TRUE
    /\ UNCHANGED <<up, session, heard>>

Next == Connect \/ Message \/ Disconnect \/ End

Spec == Init /\ [][Next]_vars
=============================================================================
