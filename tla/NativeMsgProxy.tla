---------------------------- MODULE NativeMsgProxy ----------------------------
(***************************************************************************)
(* native-msg-proxy.cpp: the process the browser starts for the extension.   *)
(* Its main thread passes what it reads from stdin to the pipe client; the   *)
(* client's thread passes the server's messages, and news of the connection, *)
(* to stdout.                                                                *)
(*                                                                           *)
(* The client is what PipeConnection promises, which NamedPipeClient is      *)
(* shown to implement: every callback below is a step of it.                 *)
(***************************************************************************)
EXTENDS NativePort

CONSTANTS
    MaxSessions,    \* bound: connections to the server
    MaxReplies      \* bound: messages of the server in a connection

ASSUME ProxyBoundsAssumption == MaxSessions \in Nat /\ MaxReplies \in Nat

VARIABLES
    up, session, heard, done,   \* the client, as in PipeConnection
    running,        \* client.Run() started its thread, and nobody terminated it
    locked,         \* it is inside the heap, stdout or stderr, with the lock
    silent          \* history: the last OnDisconnect pushed no frame

Client == INSTANCE PipeConnection

clientVars == <<up, session, heard, done, running, locked, silent>>

\* A failing client.Run() is noted and the loop entered all the same.
ProxyInit ==
    /\ Client!Init
    /\ running \in BOOLEAN
    /\ locked = FALSE /\ silent = FALSE

ThreadRuns == running /\ ~done
CallbackMayCome == running /\ ~locked /\ ppc # "exited"

\* Malloc, free, and the writes of Printf and push_msg, in the middle of anything
\* the client's thread does.
EnterLock ==
    /\ ThreadRuns /\ ~locked /\ ppc # "exited"
    /\ locked' = TRUE
    /\ UNCHANGED <<portVars, up, session, heard, done, running, silent>>

LeaveLock ==
    /\ ThreadRuns /\ locked /\ ppc # "exited"
    /\ locked' = FALSE
    /\ UNCHANGED <<portVars, up, session, heard, done, running, silent>>

OnConnect ==
    /\ CallbackMayCome /\ session < MaxSessions
    /\ Client!Connect
    /\ Push("connected")
    /\ silent' = FALSE
    /\ UNCHANGED <<stdin, port, ppc, running, locked>>

\* A message from the server, that is not empty, is a frame of its own.
OnMessage ==
    /\ CallbackMayCome /\ heard < MaxReplies
    /\ Client!Message
    /\ Push("reply")
    /\ UNCHANGED <<stdin, port, ppc, running, locked, silent>>

\* fOrigin: the client says that it broke the connection itself.
OnDisconnect(fOrigin) ==
    /\ CallbackMayCome
    /\ Client!Disconnect
    /\ IF fOrigin THEN UNCHANGED stdout ELSE Push("disconnected")
    /\ silent' = fOrigin
    /\ UNCHANGED <<stdin, port, ppc, running, locked>>

ClientEnds ==
    /\ CallbackMayCome
    /\ Client!End
    /\ UNCHANGED <<portVars, running, locked, silent>>

\* The loop of _tmain: a message goes to client.SendMessage (NamedPipeClient
\* has what becomes of it), ...
ReadMessage ==
    /\ ppc = "reading" /\ stdin # <<>>
    /\ stdin' = Tail(stdin)
    /\ UNCHANGED <<stdout, port, ppc, clientVars>>

\* ... and a read that fails, at the end of the stream, breaks the loop.
ReadFails ==
    /\ ppc = "reading" /\ stdin = <<>> /\ port # "open"
    /\ ppc' = "stopping"
    /\ UNCHANGED <<stdin, stdout, port, clientVars>>

\* client.Stop() returns when the thread has ended, or was never started, ...
Joined ==
    /\ ppc = "stopping" /\ ~ThreadRuns
    /\ ppc' = "leaving"
    /\ UNCHANGED <<stdin, stdout, port, clientVars>>

\* ... and when WORKER_THREAD_FINISH_TIMEOUT is over ...
TimesOut_Never == FALSE
TimesOut == ThreadRuns

JoinTimesOut ==
    /\ ppc = "stopping" /\ TimesOut
    /\ ppc' = "killing"
    /\ UNCHANGED <<stdin, stdout, port, clientVars>>

\* ... it terminates the thread where it stands, a lock in its hands perhaps.
Terminate ==
    /\ ppc = "killing"
    /\ running' = FALSE
    /\ ppc' = "leaving"
    /\ UNCHANGED <<stdin, stdout, port, up, session, heard, done, locked, silent>>

\* The last Printf, the destructor of the client, and the end of the process, which
\* flushes the streams: a lock nobody will release never lets it come.
Exit ==
    /\ ppc = "leaving" /\ ~locked
    /\ ppc' = "exited"
    /\ UNCHANGED <<stdin, stdout, port, clientVars>>

\* The process is ended from outside.
ProxyDies ==
    /\ ppc # "exited"
    /\ ppc' = "exited"
    /\ UNCHANGED <<stdin, stdout, port, clientVars>>

MainThread ==
    \/ ReadMessage \/ ReadFails
    \/ Joined \/ JoinTimesOut \/ Terminate \/ Exit

ProxyNext ==
    \/ EnterLock \/ LeaveLock
    \/ OnConnect \/ OnMessage \/ ClientEnds
    \/ \E fOrigin \in BOOLEAN : OnDisconnect(fOrigin)
    \/ MainThread \/ ProxyDies
=============================================================================
