--------------------------- MODULE NamedPipeClient ---------------------------
(***************************************************************************)
(* named_pipe_client<BUFSIZE> (include/named-pipe-client.hpp): one worker    *)
(* thread opens the pipe, drives it with overlapped I/O, and opens it again  *)
(* whenever the server has gone, until it is asked to stop.                  *)
(*                                                                           *)
(* The worker's steps are the actions on wpc.  Around it run application     *)
(* threads that call SendMessage, the thread that calls Stop, and the server *)
(* at the other end of the pipe, which is external.  Messages are whole and  *)
(* the outbound quota counts messages.                                       *)
(***************************************************************************)
EXTENDS Integers, Sequences, FiniteSets

CONSTANTS
    OutQuota,       \* messages the pipe buffers before a write stays pending
    Senders,        \* application threads; each calls SendMessage once
    NoSender,       \* the value of a free critical section
    MaxSessions,    \* bound: times the pipe is opened
    MaxMessages     \* bound: messages the server sends in a session

ASSUME QuotaAssumption == OutQuota \in Nat
ASSUME BoundsAssumption == MaxSessions \in Nat /\ MaxMessages \in Nat
ASSUME SendersAssumption == NoSender \notin Senders

\* A message to the server: its sender and the session in which it was queued,
\* 0 between sessions.
Message == [by : Senders, in : Nat]

VARIABLES
    wpc,            \* what the worker thread does next
    fOrigin,        \* the parameter of reset
    fStop,          \* main_loop has returned
    retry,          \* dwTimeout is WRITE_RETRY_TIMEOUT, not INFINITE
    stopping,       \* Stop was called
    pending,        \* which of m_fPendingRead, m_fPendingWrite are set
    signalled,      \* the signalled events of m_aWaitObj
    ovRead,         \* what became of the last operation on m_ovRead
    ovWrite,        \* the same for m_ovWrite
    m_inputBuffer,  \* the messages whose chunks it holds
    m_outputBuffers,
    m_cs,           \* the application thread inside m_cs
    spc,            \* SendMessage of an application thread
    pipe,           \* "none" without a handle, else the state of its other end
    inbound, outbound,  \* messages in the pipe
    served,         \* messages the server sent in this session
    up, session, heard  \* history: the callbacks made so far

workerVars == <<wpc, fOrigin, fStop, retry>>
ioVars == <<pending, ovRead, ovWrite>>
queueVars == <<m_outputBuffers, m_cs, spc>>
pipeVars == <<pipe, inbound, outbound, served>>
notifyVars == <<up, session, heard>>
vars == <<workerVars, stopping, ioVars, signalled, m_inputBuffer, queueVars,
          pipeVars, notifyVars>>

Init ==
    /\ wpc = "open" /\ fOrigin = FALSE /\ fStop = FALSE /\ retry = FALSE
    /\ stopping = FALSE
    /\ pending = {} /\ signalled = {}
    /\ ovRead = "idle" /\ ovWrite = "idle"
    /\ m_inputBuffer = {} /\ m_outputBuffers = <<>>
    /\ m_cs = NoSender /\ spc = [s \in Senders |-> "idle"]
    /\ pipe = "none" /\ inbound = <<>> /\ outbound = <<>> /\ served = 0
    /\ up = FALSE /\ session = 0 /\ heard = 0

(***************************************************************************)
(* Helpers                                                                  *)
(***************************************************************************)
\* Overlapped writes that the pipe has not accepted yet.
Stalled == Len(outbound) > OutQuota

\* Issuing an overlapped operation resets the event of its OVERLAPPED.
Issued_NotReset(e) == signalled
Issued(e) == signalled \ {e}

\* m_inputBuffer.Clear()
Cleared_Not == m_inputBuffer
Cleared == {}

\* The exceptions that is_pipe_broken calls the server's doing.
ServersDoing(error) ==
    error \in {"ERROR_BROKEN_PIPE", "ERROR_PIPE_NOT_CONNECTED"}

\* ThreadProc catches the exception and calls reset.
Throw(error) ==
    /\ wpc' = "cancel"
    /\ fOrigin' = ~ServersDoing(error)
    /\ UNCHANGED <<fStop, retry>>

\* What a client gets from a pipe that its server has disconnected or closed.
GoneError ==
    IF pipe = "disconnected" THEN "ERROR_PIPE_NOT_CONNECTED"
                             ELSE "ERROR_BROKEN_PIPE"

(***************************************************************************)
(* ThreadProc: open_pipe and set_message_mode                               *)
(***************************************************************************)
\* What open_pipe does about m_fPendingRead and m_evRead: main_loop will serve
\* m_evRead first and so begin to read.
Unread_Not == pending
Unread == pending \ {"read"}

Primed_Not == signalled
Primed == signalled \cup {"evRead"}

OpenSucceeds ==
    /\ wpc = "open"
    /\ session < MaxSessions
    /\ wpc' = "mode"
    /\ pipe' = "up" /\ served' = 0
    /\ up' = TRUE /\ session' = session + 1 /\ heard' = 0
    /\ pending' = Unread
    /\ signalled' = Primed
    /\ UNCHANGED <<fOrigin, fStop, retry, stopping, ovRead, ovWrite,
                   m_inputBuffer, queueVars, inbound, outbound>>

\* ERROR_PIPE_BUSY: WaitNamedPipe returns when an instance is free, and another
\* client may be faster; m_evStop is not looked at.
OpenIsBusy ==
    /\ wpc = "open"
    /\ wpc' = "busy"
    /\ UNCHANGED <<fOrigin, fStop, retry, stopping, ioVars, signalled,
                   m_inputBuffer, queueVars, pipeVars, notifyVars>>

OpenAgain ==
    /\ wpc = "busy"
    /\ wpc' = "open"
    /\ UNCHANGED <<fOrigin, fStop, retry, stopping, ioVars, signalled,
                   m_inputBuffer, queueVars, pipeVars, notifyVars>>

\* CreateFile or WaitNamedPipe fails.  There is no handle to close: reset goes
\* on at its end.
OpenFails ==
    /\ wpc \in {"open", "busy"}
    /\ wpc' = "clear"
    /\ UNCHANGED <<fOrigin, fStop, retry, stopping, ioVars, signalled,
                   m_inputBuffer, queueVars, pipeVars, notifyVars>>

SetMessageMode ==
    /\ wpc = "mode"
    /\ wpc' = "wait"
    /\ retry' = FALSE
    /\ UNCHANGED <<fOrigin, fStop, stopping, ioVars, signalled, m_inputBuffer,
                   queueVars, pipeVars, notifyVars>>

SetMessageModeFails ==
    /\ wpc = "mode"
    /\ pipe # "up"
    /\ Throw(GoneError)
    /\ UNCHANGED <<stopping, ioVars, signalled, m_inputBuffer, queueVars,
                   pipeVars, notifyVars>>

(***************************************************************************)
(* main_loop: WaitForMultipleObjects serves the first signalled event of    *)
(* m_aWaitObj.  All but evRead are auto-reset.                              *)
(***************************************************************************)
m_aWaitObj == <<"evRead", "evWrite", "evNewMsg", "evStop">>

Chosen(n) ==
    /\ wpc = "wait"
    /\ m_aWaitObj[n] \in signalled
    /\ \A k \in 1 .. (n - 1) : m_aWaitObj[k] \notin signalled

ServeRead ==
    /\ Chosen(1)
    /\ pending' = pending \ {"read"}
    /\ IF "read" \in pending /\ ovRead = "broken"
       THEN wpc' = "cancel" /\ fOrigin' = ~ServersDoing(GoneError)
       ELSE /\ wpc' = IF "read" \in pending THEN "deliver" ELSE "read"
            /\ UNCHANGED fOrigin
    /\ retry' = FALSE
    /\ UNCHANGED <<fStop, stopping, signalled, ovRead, ovWrite, m_inputBuffer,
                   queueVars, pipeVars, notifyVars>>

\* Case 1 falls through to the write loop.
AfterWrite_Break == "wait"
AfterWrite == "write"

ServeWrite ==
    /\ Chosen(2)
    /\ pending' = pending \ {"write"}
    /\ signalled' = signalled \ {"evWrite"}
    /\ wpc' = AfterWrite
    /\ retry' = FALSE
    /\ UNCHANGED <<fOrigin, fStop, stopping, ovRead, ovWrite, m_inputBuffer,
                   queueVars, pipeVars, notifyVars>>

ServeNewMsg ==
    /\ Chosen(3)
    /\ signalled' = signalled \ {"evNewMsg"}
    /\ wpc' = "write"
    /\ retry' = FALSE
    /\ UNCHANGED <<fOrigin, fStop, stopping, ioVars, m_inputBuffer, queueVars,
                   pipeVars, notifyVars>>

\* WAIT_TIMEOUT: try the write loop again.
ServeTimeout ==
    /\ wpc = "wait" /\ signalled = {}
    /\ retry
    /\ wpc' = "write"
    /\ retry' = FALSE
    /\ UNCHANGED <<fOrigin, fStop, stopping, ioVars, signalled, m_inputBuffer,
                   queueVars, pipeVars, notifyVars>>

\* m_evStop: main_loop calls reset(true) and returns.
ServeStop ==
    /\ Chosen(4)
    /\ signalled' = signalled \ {"evStop"}
    /\ wpc' = "cancel"
    /\ fOrigin' = TRUE
    /\ fStop' = TRUE
    /\ retry' = FALSE
    /\ UNCHANGED <<stopping, ioVars, m_inputBuffer, queueVars, pipeVars,
                   notifyVars>>

(***************************************************************************)
(* sync_or_async_read and message_completed                                 *)
(***************************************************************************)
\* A message is there: it is read synchronously, which signals evRead.
ReadMessage ==
    /\ wpc = "read"
    /\ inbound # <<>>
    /\ m_inputBuffer' = m_inputBuffer \cup {Head(inbound)}
    /\ inbound' = Tail(inbound)
    /\ ovRead' = "data"
    /\ signalled' = signalled \cup {"evRead"}
    /\ wpc' = "deliver"
    /\ UNCHANGED <<fOrigin, fStop, retry, stopping, pending, ovWrite,
                   queueVars, pipe, outbound, served, notifyVars>>

ReadPends ==
    /\ wpc = "read"
    /\ inbound = <<>> /\ pipe = "up"
    /\ pending' = pending \cup {"read"}
    /\ signalled' = Issued("evRead")
    /\ ovRead' = "pending"
    /\ wpc' = "wait"
    /\ UNCHANGED <<fOrigin, fStop, retry, stopping, ovWrite, m_inputBuffer,
                   queueVars, pipeVars, notifyVars>>

\* PeekNamedPipe fails only once the messages are drained.
Broken_AtOnce == pipe # "up"
Broken == pipe # "up" /\ inbound = <<>>

ReadBroken ==
    /\ wpc = "read"
    /\ Broken
    /\ Throw(GoneError)
    /\ UNCHANGED <<stopping, ioVars, signalled, m_inputBuffer, queueVars,
                   pipeVars, notifyVars>>

\* OnMessage
Deliver ==
    /\ wpc = "deliver"
    /\ heard' \in m_inputBuffer
    /\ m_inputBuffer' = Cleared
    /\ wpc' = "read"
    /\ UNCHANGED <<fOrigin, fStop, retry, stopping, ioVars, signalled,
                   queueVars, pipeVars, up, session>>

(***************************************************************************)
(* sync_or_async_write and get_out_buffer                                   *)
(***************************************************************************)
\* CANNOT_LOCK_BUFFER_LIST
WriteLocked ==
    /\ wpc = "write"
    /\ m_cs # NoSender
    /\ retry' = TRUE
    /\ wpc' = "wait"
    /\ UNCHANGED <<fOrigin, fStop, stopping, ioVars, signalled, m_inputBuffer,
                   queueVars, pipeVars, notifyVars>>

\* NO_MORE_BUFFERS
WriteNothing ==
    /\ wpc = "write"
    /\ m_cs = NoSender /\ m_outputBuffers = <<>>
    /\ wpc' = "wait"
    /\ UNCHANGED <<fOrigin, fStop, retry, stopping, ioVars, signalled,
                   m_inputBuffer, queueVars, pipeVars, notifyVars>>

PopHead ==
    /\ wpc = "write"
    /\ m_cs = NoSender /\ m_outputBuffers # <<>>
    /\ m_outputBuffers' = Tail(m_outputBuffers)

\* The pipe takes the message at once and signals evWrite, or the write stays
\* pending on m_ovWrite, behind those already pending there.
WriteMessage ==
    /\ PopHead
    /\ pipe = "up"
    /\ outbound' = Append(outbound, Head(m_outputBuffers))
    /\ IF Len(outbound) < OutQuota
       THEN /\ signalled' = signalled \cup {"evWrite"}
            /\ pending' = pending \ {"write"}
            /\ ovWrite' = "ok"
            /\ wpc' = "write"
       ELSE /\ signalled' = Issued("evWrite")
            /\ pending' = pending \cup {"write"}
            /\ ovWrite' = "pending"
            /\ wpc' = "wait"
    /\ UNCHANGED <<fOrigin, fStop, retry, stopping, ovRead, m_inputBuffer,
                   m_cs, spc, pipe, inbound, served, notifyVars>>

\* ERROR_NO_DATA of a pipe being closed, or ERROR_PIPE_NOT_CONNECTED.
WriteFails ==
    /\ PopHead
    /\ pipe # "up"
    /\ signalled' = Issued("evWrite")
    /\ Throw(IF pipe = "closed" THEN "ERROR_NO_DATA" ELSE GoneError)
    /\ UNCHANGED <<stopping, ioVars, m_inputBuffer, m_cs, spc, pipeVars,
                   notifyVars>>

(***************************************************************************)
(* reset                                                                    *)
(***************************************************************************)
\* The operations that CancelIoEx cancels.  It finds nothing when the operation
\* has completed meanwhile; the build without assertions goes on.
Cancelled_WriteOnly == {f \in pending : f = "write" /\ Stalled}
Cancelled == {f \in pending : IF f = "read" THEN ovRead = "pending"
                                            ELSE Stalled}

Cancel ==
    /\ wpc = "cancel"
    /\ LET read == "read" \in Cancelled
           write == "write" \in Cancelled
       IN /\ ovRead' = IF read THEN "aborted" ELSE ovRead
          /\ ovWrite' = IF write THEN "aborted" ELSE ovWrite
          /\ outbound' = IF write THEN SubSeq(outbound, 1, OutQuota) ELSE outbound
          /\ signalled' = signalled \cup (IF read THEN {"evRead"} ELSE {})
                                    \cup (IF write THEN {"evWrite"} ELSE {})
    /\ wpc' = "waitAll"
    /\ UNCHANGED <<fOrigin, fStop, retry, stopping, pending, m_inputBuffer,
                   queueVars, pipe, inbound, served, notifyVars>>

\* The events of the operations that the flags call pending.
Awaited == {e \in {"evRead", "evWrite"} :
               (e = "evRead" /\ "read" \in pending)
               \/ (e = "evWrite" /\ "write" \in pending)}

\* The INFINITE wait for an event that nothing will signal any more.
Hung == wpc = "waitAll" /\ ~(Awaited \subseteq signalled)

WaitAll ==
    /\ wpc = "waitAll"
    /\ Awaited \subseteq signalled
    /\ signalled' = signalled \ (Awaited \ {"evRead"})
    /\ wpc' = "finish"
    /\ UNCHANGED <<fOrigin, fStop, retry, stopping, ioVars, m_inputBuffer,
                   queueVars, pipeVars, notifyVars>>

\* A flag whose operation ended otherwise than by success or abortion stays set.
StillPending == {f \in pending : IF f = "read" THEN ovRead = "broken"
                                 ELSE ovWrite \notin {"ok", "aborted"}}

\* Up to m_pipe.Close and OnDisconnect(fOrigin).
Finish ==
    /\ wpc = "finish"
    /\ pending' = StillPending
    /\ pipe' = "none" /\ inbound' = <<>> /\ outbound' = <<>>
    /\ up' = FALSE
    /\ wpc' = "clear"
    /\ UNCHANGED <<fOrigin, fStop, retry, stopping, ovRead, ovWrite, signalled,
                   m_inputBuffer, queueVars, served, session, heard>>

\* The end of reset: m_outputBuffers.RemoveAll takes no lock.
Emptied_Not == m_outputBuffers
Emptied == <<>>

Clear ==
    /\ wpc = "clear"
    /\ signalled' = signalled \ {"evRead"}
    /\ m_inputBuffer' = Cleared
    /\ m_outputBuffers' = Emptied
    /\ wpc' = IF fStop THEN "ended" ELSE "backoff"
    /\ UNCHANGED <<fOrigin, fStop, retry, stopping, ioVars, m_cs, spc,
                   pipeVars, notifyVars>>

\* RemoveAll while a thread is inside AddTail: a data race, which the list may
\* not survive.
ClearRaces ==
    /\ wpc = "clear"
    /\ m_cs # NoSender
    /\ wpc' = "crashed"
    /\ UNCHANGED <<fOrigin, fStop, retry, stopping, ioVars, signalled,
                   m_inputBuffer, queueVars, pipeVars, notifyVars>>

(***************************************************************************)
(* ThreadProc: WaitForSingleObject(m_evStop, CONNECT_TIMEOUT)               *)
(***************************************************************************)
BackoffEnds ==
    /\ wpc = "backoff"
    /\ "evStop" \notin signalled
    /\ wpc' = "open"
    /\ UNCHANGED <<fOrigin, fStop, retry, stopping, ioVars, signalled,
                   m_inputBuffer, queueVars, pipeVars, notifyVars>>

BackoffStops ==
    /\ wpc = "backoff"
    /\ "evStop" \in signalled
    /\ signalled' = signalled \ {"evStop"}
    /\ wpc' = "ended"
    /\ UNCHANGED <<fOrigin, fStop, retry, stopping, ioVars, m_inputBuffer,
                   queueVars, pipeVars, notifyVars>>

Worker ==
    \/ OpenSucceeds \/ OpenIsBusy \/ OpenAgain \/ OpenFails
    \/ SetMessageMode \/ SetMessageModeFails
    \/ ServeRead \/ ServeWrite \/ ServeNewMsg \/ ServeTimeout \/ ServeStop
    \/ ReadMessage \/ ReadPends \/ ReadBroken \/ Deliver
    \/ WriteLocked \/ WriteNothing \/ WriteMessage \/ WriteFails
    \/ Cancel \/ WaitAll \/ Finish \/ Clear \/ ClearRaces
    \/ BackoffEnds \/ BackoffStops

(***************************************************************************)
(* SendMessage on an application thread, and Stop                           *)
(***************************************************************************)
SendLock(s) ==
    /\ spc[s] = "idle"
    /\ m_cs = NoSender
    /\ m_cs' = s
    /\ spc' = [spc EXCEPT ![s] = "locked"]
    /\ UNCHANGED <<workerVars, stopping, ioVars, signalled, m_inputBuffer,
                   m_outputBuffers, pipeVars, notifyVars>>

SendAdd(s) ==
    /\ spc[s] = "locked"
    /\ m_outputBuffers' =
         Append(m_outputBuffers, [by |-> s, in |-> IF up THEN session ELSE 0])
    /\ m_cs' = NoSender
    /\ spc' = [spc EXCEPT ![s] = "added"]
    /\ UNCHANGED <<workerVars, stopping, ioVars, signalled, m_inputBuffer,
                   pipeVars, notifyVars>>

SendSignal(s) ==
    /\ spc[s] = "added"
    /\ signalled' = signalled \cup {"evNewMsg"}
    /\ spc' = [spc EXCEPT ![s] = "sent"]
    /\ UNCHANGED <<workerVars, stopping, ioVars, m_inputBuffer,
                   m_outputBuffers, m_cs, pipeVars, notifyVars>>

Sending(s) == SendLock(s) \/ SendAdd(s) \/ SendSignal(s)

\* worker_thread::Stop up to its wait for the thread.
Stop ==
    /\ ~stopping
    /\ stopping' = TRUE
    /\ signalled' = signalled \cup {"evStop"}
    /\ UNCHANGED <<workerVars, ioVars, m_inputBuffer, queueVars, pipeVars,
                   notifyVars>>

(***************************************************************************)
(* External: the server's end of the pipe.                                  *)
(***************************************************************************)
ServerSends ==
    /\ pipe = "up"
    /\ served < MaxMessages
    /\ served' = served + 1
    /\ IF ovRead = "pending" /\ "read" \in pending
       THEN /\ ovRead' = "data"
            /\ signalled' = signalled \cup {"evRead"}
            /\ m_inputBuffer' = m_inputBuffer \cup {served + 1}
            /\ UNCHANGED inbound
       ELSE /\ inbound' = Append(inbound, served + 1)
            /\ UNCHANGED <<ovRead, signalled, m_inputBuffer>>
    /\ UNCHANGED <<workerVars, stopping, pending, ovWrite, queueVars, pipe,
                   outbound, notifyVars>>

ServerReceives ==
    /\ pipe = "up"
    /\ outbound # <<>>
    /\ outbound' = Tail(outbound)
    /\ IF Stalled THEN /\ signalled' = signalled \cup {"evWrite"}
                       /\ ovWrite' = "ok"
                  ELSE UNCHANGED <<signalled, ovWrite>>
    /\ UNCHANGED <<workerVars, stopping, pending, ovRead, m_inputBuffer,
                   queueVars, pipe, inbound, served, notifyVars>>

\* DisconnectNamedPipe discards what the client has not read; CloseHandle does
\* not.  The operations in flight complete.
ServerLeaves ==
    /\ pipe = "up"
    /\ \/ pipe' = "closed" /\ UNCHANGED inbound
       \/ pipe' = "disconnected" /\ inbound' = <<>>
    /\ outbound' = <<>>
    /\ LET read == ovRead = "pending" /\ "read" \in pending
       IN /\ ovRead' = IF read THEN "broken" ELSE ovRead
          /\ ovWrite' = IF Stalled THEN "broken" ELSE ovWrite
          /\ signalled' = signalled \cup (IF read THEN {"evRead"} ELSE {})
                                    \cup (IF Stalled THEN {"evWrite"} ELSE {})
    /\ UNCHANGED <<workerVars, stopping, pending, m_inputBuffer, queueVars,
                   served, notifyVars>>

Server == ServerSends \/ ServerReceives \/ ServerLeaves

\* The thread is gone, or hangs; what is left of the system may stop.
Finished == (wpc \in {"ended", "crashed"} \/ Hung) /\ UNCHANGED vars

Next == Worker \/ (\E s \in Senders : Sending(s)) \/ Stop \/ Server \/ Finished

\* Windows schedules every thread; a server that stays reads its pipe; an attempt
\* to open a busy pipe does not lose every race.
Fairness ==
    /\ WF_vars(Worker)
    /\ SF_vars(OpenSucceeds \/ OpenFails)
    /\ \A s \in Senders : WF_vars(SendAdd(s) \/ SendSignal(s))
    /\ WF_vars(ServerReceives)

Spec == Init /\ [][Next]_vars
FairSpec == Spec /\ Fairness

-----------------------------------------------------------------------------
(***************************************************************************)
(* Properties                                                               *)
(***************************************************************************)
\* Type invariant.
WorkerTypes ==
    /\ wpc \in {"open", "busy", "mode", "wait", "read", "deliver", "write", "cancel",
                "waitAll", "finish", "clear", "backoff", "ended", "crashed"}
    /\ fOrigin \in BOOLEAN /\ fStop \in BOOLEAN /\ retry \in BOOLEAN
    /\ stopping \in BOOLEAN
IoTypes ==
    /\ pending \in SUBSET {"read", "write"}
    /\ signalled \in SUBSET {"evRead", "evWrite", "evNewMsg", "evStop"}
    /\ ovRead \in {"idle", "pending", "data", "broken", "aborted"}
    /\ ovWrite \in {"idle", "pending", "ok", "broken", "aborted"}
QueueTypes ==
    /\ m_inputBuffer \in {{}} \cup {{m} : m \in 1 .. MaxMessages}
    /\ m_outputBuffers \in Seq(Message)
    /\ m_cs \in Senders \cup {NoSender}
    /\ spc \in [Senders -> {"idle", "locked", "added", "sent"}]
PipeTypes ==
    /\ pipe \in {"none", "up", "closed", "disconnected"}
    /\ inbound \in Seq(1 .. MaxMessages)
    /\ outbound \in Seq(Message)
    /\ served \in 0 .. MaxMessages
NotifyTypes ==
    /\ up \in BOOLEAN
    /\ session \in 0 .. MaxSessions
    /\ heard \in 0 .. MaxMessages
TypeOK == WorkerTypes /\ IoTypes /\ QueueTypes /\ PipeTypes /\ NotifyTypes

\* The client is not lost to the server: when the worker waits, a read is in
\* flight or evRead will bring it to the read loop.
NeverDeaf ==
    wpc = "wait" =>
        \/ "evRead" \in signalled
        \/ "read" \in pending /\ ovRead = "pending"

\* The worker is not in reset: messages in the queue are not about to be
\* thrown away.
Keeping ==
    wpc \in {"open", "busy", "mode", "wait", "read", "deliver", "write",
             "backoff"}

\* A message in the queue does not wait for luck, in this session or until the
\* next: the worker is in the write loop, or an event that leads it there is
\* signalled, or will be, by a stalled write or a thread inside SendMessage.
NoLostWakeup ==
    Keeping /\ m_outputBuffers # <<>> =>
        \/ signalled \cap {"evWrite", "evNewMsg"} # {}
        \/ Stalled
        \/ wpc = "write"
        \/ \E s \in Senders : spc[s] \in {"locked", "added"}

\* A message queued during one connection never reaches the server through a
\* later one, whatever RemoveAll, AddTail and the write loop race for.
NoMessageCrossesSessions ==
    \A k \in DOMAIN outbound : outbound[k].in \in {0, session}

\* OnDisconnect(fOrigin) says rightly whose doing it was: false only when the
\* server has gone, true only when Stop was served, or when a write was the first
\* to find the pipe closed (its ERROR_NO_DATA is not in is_pipe_broken).
BlamesServerRightly ==
    wpc = "finish" =>
        IF fOrigin THEN fStop \/ pipe = "closed"
                   ELSE pipe \in {"closed", "disconnected"}

\* When a read finds that the server has closed its end, the application has
\* been given every message the server sent before.
LastWordsAreHeard ==
    [][(/\ wpc \in {"wait", "read"} /\ wpc' = "cancel"
        /\ pipe = "closed" /\ ~fOrigin')
       => heard = served]_vars

\* The wait in reset is for ever only because of m_fPendingWrite: it was left
\* set by an earlier reset, or a failing WriteFile has reset the event that the
\* completed write had signalled.  No read can block it.
HangsOnlyOnWrite ==
    Hung =>
        /\ Awaited \ signalled = {"evWrite"}
        /\ ovWrite # "aborted" /\ ~Stalled

\* ATLASSERT(SUCCEEDED(hRes)) after each CancelIoEx of reset (lines 205, 212):
\* what the flags call pending can be cancelled.
CancelsSucceed ==
    wpc = "cancel" => pending = Cancelled

\* "access to m_outputBuffers" (line 29, of m_cs): nobody is inside m_cs when
\* the list is changed by another thread.
ListIsGuarded ==
    [][m_outputBuffers' # m_outputBuffers /\ UNCHANGED spc =>
           m_cs = NoSender]_vars

\* The callbacks keep the promise of PipeConnection.
Connection == INSTANCE PipeConnection WITH done <- wpc = "ended"
CallbacksAreConnection == Connection!Spec

\* Once Stop is called the thread leaves ThreadProc, unless it hangs in reset
\* or RemoveAll has met AddTail.
StopEndsThread == stopping ~> (wpc \in {"ended", "crashed"} \/ Hung)

\* While the connection lasts, a queued message leaves the queue for the pipe.
QueuedIsSent ==
    \A s \in Senders :
        (\E k \in DOMAIN m_outputBuffers : m_outputBuffers[k].by = s)
        ~> (\/ \A k \in DOMAIN m_outputBuffers : m_outputBuffers[k].by # s
            \/ pipe # "up" \/ stopping)

-----------------------------------------------------------------------------
(***************************************************************************)
(* The inductive invariant: what each variable of one actor may rely on     *)
(* about the others between any two steps.                                  *)
(***************************************************************************)
\* The worker has a handle from open_pipe to m_pipe.Close in reset.
HasHandle ==
    wpc \in {"mode", "wait", "read", "deliver", "write", "cancel", "waitAll",
             "finish"}

\* The pipe, its handle and the callbacks tell one story.
OneConnection ==
    /\ up <=> pipe # "none"
    /\ up <=> HasHandle
    /\ pipe = "none" => inbound = <<>>
    /\ pipe # "up" => outbound = <<>>

\* m_fPendingRead, m_ovRead, m_evRead and the buffer tell one story while a
\* read can be in flight; a read that is has an empty pipe before it.
ReadCoherent ==
    /\ ovRead = "pending" =>
          /\ "read" \in pending /\ "evRead" \notin signalled
          /\ pipe = "up" /\ inbound = <<>>
          /\ wpc \in {"wait", "write", "cancel"}
    /\ wpc \in {"wait", "write", "cancel"} /\ "read" \in pending =>
          /\ ovRead \in {"pending", "data", "broken"}
          /\ ovRead # "pending" => "evRead" \in signalled
          /\ ovRead = "data" <=> m_inputBuffer # {}
          /\ ovRead = "broken" => pipe # "up" /\ inbound = <<>>
    /\ wpc \in {"mode", "read", "deliver"} => "read" \notin pending
    /\ wpc = "waitAll" /\ "read" \in pending => "evRead" \in signalled

\* The buffer is empty wherever the code relies on it.
BufferEmptied ==
    /\ wpc \in {"open", "busy", "backoff", "mode", "read"} => m_inputBuffer = {}
    /\ wpc \in {"wait", "write"} /\ "read" \notin pending => m_inputBuffer = {}
    /\ wpc = "deliver" => m_inputBuffer # {}

\* Wherever main_loop may next wait, something brings it to the read loop.
Engaged ==
    wpc \in {"mode", "wait", "write"} =>
        "evRead" \in signalled \/ ("read" \in pending /\ ovRead = "pending")

\* What the server has sent and the application has not heard is in the buffer
\* and the pipe, in order; only DisconnectNamedPipe can take any of it away.
Held == IF m_inputBuffer = {} THEN 0 ELSE 1
MessagesInOrder ==
    up => /\ m_inputBuffer \subseteq {heard + 1}
          /\ \A k \in DOMAIN inbound : inbound[k] = heard + Held + k
          /\ pipe \in {"up", "closed"} => Len(inbound) = served - heard - Held

\* m_cs is held by the thread that is between its two halves; between sessions
\* the queue holds nothing that was meant for an earlier one.
QueueCoherent ==
    /\ m_cs # NoSender => spc[m_cs] = "locked"
    /\ \A k \in DOMAIN m_outputBuffers :
          /\ m_outputBuffers[k].in \in {0, session}
          /\ wpc \in {"open", "busy", "backoff"} => m_outputBuffers[k].in = 0

\* From the exception, or the stop event, on: whose doing it was is settled.
BlameIsSettled ==
    wpc \in {"cancel", "waitAll", "finish"} =>
        IF fOrigin THEN fStop \/ pipe = "closed"
                   ELSE pipe \in {"closed", "disconnected"}

\* The write that reset waits for has been cancelled, or was over before.
WriteSettled ==
    /\ "write" \in pending /\ ovWrite = "aborted" => wpc \in {"waitAll", "finish"}
    /\ wpc = "waitAll" /\ "write" \in pending =>
          /\ ~Stalled
          /\ ovWrite = "aborted" => "evWrite" \in signalled

IInv ==
    /\ TypeOK /\ OneConnection
    /\ ReadCoherent /\ BufferEmptied /\ Engaged /\ MessagesInOrder
    /\ QueueCoherent /\ NoMessageCrossesSessions /\ NoLostWakeup
    /\ BlameIsSettled /\ WriteSettled

=============================================================================
