--------------------------- MODULE NamedPipeServer ---------------------------
(***************************************************************************)
(* named_pipe_server<INSTANCES, BUFSIZE, S> (include/named-pipe-server.hpp): *)
(* one worker thread drives INSTANCES instances of a message pipe with       *)
(* overlapped I/O and notifies the application from that thread.             *)
(*                                                                           *)
(* The worker's steps are the actions on wpc.  Around it run the clients at  *)
(* the other ends of the pipes, application threads that call SendMessage,   *)
(* and the thread that asks the worker to stop.  The Windows pipe itself is  *)
(* external: its part is only what the server can observe of it.             *)
(*                                                                           *)
(* Messages are whole here (chunks and sizes belong to the reader of the     *)
(* input buffer), and the pipe's outbound quota counts messages.             *)
(***************************************************************************)
EXTENDS Integers, Sequences, FiniteSets

CONSTANTS
    INSTANCES,      \* number of pipe instances
    OutQuota,       \* messages the pipe buffers before a write stays pending
    Senders,        \* application threads that call SendMessage
    NoSender,       \* the value of a free critical section
    MaxClients,     \* bound: client connections in a behaviour
    MaxRequests     \* bound: requests a client sends

ASSUME InstancesAssumption == INSTANCES \in Nat \ {0}
ASSUME QuotaAssumption == OutQuota \in Nat
ASSUME BoundsAssumption == MaxClients \in Nat /\ MaxRequests \in Nat
ASSUME SendersAssumption == NoSender \notin Senders

Instance == 1 .. INSTANCES
Client == 1 .. MaxClients
Request == [client : Client, n : 1 .. MaxRequests]
NoRequest == [client |-> 0, n |-> 0]
\* A message the server writes: the instance number it was sent to, and the
\* request it answers or the application thread it comes from.
Message == [to : Nat, re : Request \cup Senders]

VARIABLES
    wpc,             \* what the worker thread does next
    cur,             \* the instance it is busy with
    retry,           \* dwTimeout is WRITE_RETRY_TIMEOUT, not INFINITE
    evStop,          \* m_evStop is signalled
    stopping,        \* Stop was called
    m_instanceCnt,
    m_instanceNo,
    reading,         \* instances with m_eState = INSTANCE_STATE_READING
    m_fPendingIO,    \* instances whose flag is set
    m_fPendingWrite,
    evRead,          \* instances whose (manual-reset) event is signalled
    evWrite,         \* the same, auto-reset
    evNewMsg,
    ovRead,          \* what became of the last operation on m_ovRead
    m_inputBuffer,   \* the complete message it holds, or NoRequest
    m_outputBuffers,
    m_cs,            \* the application thread inside m_cs
    spc, target, addressee,        \* SendMessage of an application thread
    pipeState, client, inbound, outbound,   \* the Windows pipe of an instance
    connCnt, sent, received,       \* the clients
    opened, closed, delivered      \* history: the callbacks made so far

workerVars == <<wpc, cur, retry>>
stopVars == <<evStop, stopping>>
numberVars == <<m_instanceCnt, m_instanceNo>>
flagVars == <<m_fPendingIO, m_fPendingWrite>>
eventVars == <<evRead, evWrite, evNewMsg>>
queueVars == <<m_outputBuffers, m_cs>>
senderVars == <<spc, target, addressee>>
pipeVars == <<pipeState, client, inbound, outbound>>
clientVars == <<connCnt, sent, received>>
notifyVars == <<opened, closed, delivered>>
vars == <<workerVars, stopVars, numberVars, reading, flagVars, eventVars,
          ovRead, m_inputBuffer, queueVars, senderVars, pipeVars, clientVars,
          notifyVars>>

(***************************************************************************)
(* The constructor has created the instances; a client may connect to one   *)
(* from now on, before the worker has called ConnectNamedPipe.              *)
(***************************************************************************)
Init ==
    /\ wpc = "start" /\ cur = 1 /\ retry = FALSE
    /\ evStop = FALSE /\ stopping = FALSE
    /\ m_instanceCnt = INSTANCES
    /\ m_instanceNo = [i \in Instance |-> i]
    /\ reading = {} /\ m_fPendingIO = {} /\ m_fPendingWrite = {}
    /\ evRead = {} /\ evWrite = {} /\ evNewMsg = {}
    /\ ovRead = [i \in Instance |-> "idle"]
    /\ m_inputBuffer = [i \in Instance |-> NoRequest]
    /\ m_outputBuffers = [i \in Instance |-> <<>>]
    /\ m_cs = [i \in Instance |-> NoSender]
    /\ spc = [s \in Senders |-> "idle"]
    /\ target = [s \in Senders |-> 1]
    /\ addressee = [s \in Senders |-> 0]
    /\ pipeState = [i \in Instance |-> "listening"]
    /\ client = [i \in Instance |-> 0]
    /\ inbound = [i \in Instance |-> <<>>]
    /\ outbound = [i \in Instance |-> <<>>]
    /\ connCnt = 0
    /\ sent = [c \in Client |-> 0]
    /\ received = [c \in Client |-> <<>>]
    /\ opened = {} /\ closed = {} /\ delivered = {}

(***************************************************************************)
(* Helpers                                                                  *)
(***************************************************************************)
\* Overlapped writes of the instance that the pipe has not accepted yet.
Stalled(i) == Len(outbound[i]) > OutQuota

\* Issuing an overlapped operation resets the event of its OVERLAPPED.
IssueReset_Forgotten(i) == evRead
IssueReset(i) == evRead \ {i}

\* INotify::OnConnect(m_instanceNo) and INotify::OnDisconnect(m_instanceNo, ..)
OnConnect_Skipped(i) == opened' = opened
OnConnect(i) == opened' = opened \cup {m_instanceNo[i]}

OnDisconnect_NewNumber(i) == closed' = closed \cup {m_instanceCnt + 1}
OnDisconnect(i) == closed' = closed \cup {m_instanceNo[i]}

\* ConnectToNewClient: ConnectNamedPipe resets the event, then the connection
\* is pending, or a client was there before the call, or came and left.
ConnectPends(i) ==
    /\ pipeState[i] \in {"listening", "disconnected"}
    /\ pipeState' = [pipeState EXCEPT ![i] = "listening"]
    /\ m_fPendingIO' = m_fPendingIO \cup {i}
    /\ evRead' = IssueReset(i)
    /\ ovRead' = [ovRead EXCEPT ![i] = "pending"]

ConnectedBefore_NoEvent(i) ==
    /\ pipeState[i] = "connected"
    /\ OnConnect(i)
    /\ reading' = reading \cup {i}
    /\ UNCHANGED <<evRead, pipeState, m_fPendingIO, ovRead>>

ConnectedBefore(i) ==
    /\ pipeState[i] = "connected"
    /\ evRead' = evRead \cup {i}
    /\ OnConnect(i)
    /\ reading' = reading \cup {i}
    /\ UNCHANGED <<pipeState, m_fPendingIO, ovRead>>

\* CancelIoEx finds nothing to cancel: the operation completed after its flag
\* was set.  AtlThrow leaves the enclosing function.
CancelFails(i) ==
    \/ i \in m_fPendingIO /\ ovRead[i] # "pending"
    \/ i \in m_fPendingWrite /\ ~Stalled(i)

\* GetOverlappedResult succeeds or reports ERROR_OPERATION_ABORTED.
AbortSucceeded(i) == ovRead[i] # "broken"

\* FinishCancelingAndDisconnect takes the result of m_ovRead for both flags.
FinishCanceling(i) ==
    /\ m_fPendingWrite' = IF AbortSucceeded(i) THEN m_fPendingWrite \ {i}
                                               ELSE m_fPendingWrite
    /\ m_fPendingIO' = IF AbortSucceeded(i) THEN m_fPendingIO \ {i}
                                            ELSE m_fPendingIO
    /\ IF i \in reading
       THEN /\ OnDisconnect(i)
            /\ pipeState' = [pipeState EXCEPT ![i] = "disconnected"]
            /\ inbound' = [inbound EXCEPT ![i] = <<>>]
            /\ outbound' = [outbound EXCEPT ![i] = <<>>]
       ELSE UNCHANGED <<closed, pipeState, inbound, outbound>>

(***************************************************************************)
(* ThreadProc: connect_pipes                                                *)
(***************************************************************************)
Start(i) ==
    /\ wpc = "start" /\ cur = i
    /\ \/ ConnectPends(i) /\ UNCHANGED <<reading, opened>>
       \/ ConnectedBefore(i)
    /\ wpc' = IF i = INSTANCES THEN "wait" ELSE "start"
    /\ cur' = IF i = INSTANCES THEN i ELSE i + 1
    /\ UNCHANGED <<retry, stopVars, numberVars, m_fPendingWrite, evWrite,
                   evNewMsg, m_inputBuffer, queueVars, senderVars, client,
                   inbound, outbound, clientVars, closed, delivered>>

\* ERROR_NO_DATA: nothing catches the exception but thread_proc.
StartFails(i) ==
    /\ wpc = "start" /\ cur = i
    /\ pipeState[i] = "closing"
    /\ wpc' = "failed"
    /\ UNCHANGED <<cur, retry, stopVars, numberVars, reading, flagVars,
                   eventVars, ovRead, m_inputBuffer, queueVars, senderVars,
                   pipeVars, clientVars, notifyVars>>

(***************************************************************************)
(* ThreadProc: WaitForMultipleObjects serves the signalled handle with the  *)
(* lowest index: evRead, evWrite, evNewMsg of the first instance, then of   *)
(* the second, ..., and m_evStop last.                                      *)
(***************************************************************************)
Ready(i) == i \in evRead \cup evWrite \cup evNewMsg
Chosen(i) ==
    /\ wpc = "wait"
    /\ Ready(i)
    /\ \A j \in 1 .. (i - 1) : ~Ready(j)

\* Run(0): the flag is cleared before GetOverlappedResult can throw.
ClearPendingIO_AfterThrow(i) ==
    IF ovRead[i] = "broken" THEN m_fPendingIO ELSE m_fPendingIO \ {i}
ClearPendingIO(i) == m_fPendingIO \ {i}

\* Run(0): what the completed operation leads to.
Outcome_NoStateSwitch(i) ==
    IF i \in m_fPendingIO /\ ovRead[i] = "broken" THEN "disconnect"
    ELSE IF i \in m_fPendingIO THEN "deliver"
    ELSE "read"
Outcome(i) ==
    IF i \in m_fPendingIO /\ ovRead[i] = "broken" THEN "disconnect"
    ELSE IF i \in m_fPendingIO /\ ovRead[i] = "data" THEN "deliver"
    ELSE "read"

ServeRead(i) ==
    /\ Chosen(i)
    /\ i \in evRead
    /\ m_fPendingIO' = ClearPendingIO(i)
    /\ IF i \in m_fPendingIO /\ ovRead[i] = "connected"
       THEN OnConnect(i) /\ reading' = reading \cup {i}
       ELSE UNCHANGED <<opened, reading>>
    /\ wpc' = Outcome(i)
    /\ cur' = i
    /\ retry' = FALSE
    /\ UNCHANGED <<stopVars, numberVars, m_fPendingWrite, eventVars, ovRead,
                   m_inputBuffer, queueVars, senderVars, pipeVars, clientVars,
                   closed, delivered>>

\* Case 1 of Run falls through to case 2.
AfterWrite_Break == "wait"
AfterWrite == "write"

\* Run(1) up to the write loop.
ServeWrite(i) ==
    /\ Chosen(i)
    /\ i \in evWrite \ evRead
    /\ evWrite' = evWrite \ {i}
    /\ m_fPendingWrite' = m_fPendingWrite \ {i}
    /\ wpc' = AfterWrite
    /\ cur' = i
    /\ retry' = FALSE
    /\ UNCHANGED <<stopVars, numberVars, reading, m_fPendingIO, evRead,
                   evNewMsg, ovRead, m_inputBuffer, queueVars, senderVars,
                   pipeVars, clientVars, notifyVars>>

\* Run(2) up to the write loop.
ServeNewMsg(i) ==
    /\ Chosen(i)
    /\ i \in evNewMsg \ (evRead \cup evWrite)
    /\ evNewMsg' = evNewMsg \ {i}
    /\ wpc' = "write"
    /\ cur' = i
    /\ retry' = FALSE
    /\ UNCHANGED <<stopVars, numberVars, reading, flagVars, evRead, evWrite,
                   ovRead, m_inputBuffer, queueVars, senderVars, pipeVars,
                   clientVars, notifyVars>>

Idle == wpc = "wait" /\ \A i \in Instance : ~Ready(i)

\* WAIT_TIMEOUT: Run(WAIT_TIMEOUT) matches no case of its switch.
ServeTimeout ==
    /\ Idle /\ ~evStop
    /\ retry
    /\ retry' = FALSE
    /\ UNCHANGED <<wpc, cur, stopVars, numberVars, reading, flagVars,
                   eventVars, ovRead, m_inputBuffer, queueVars, senderVars,
                   pipeVars, clientVars, notifyVars>>

ServeStop ==
    /\ Idle /\ evStop
    /\ evStop' = FALSE
    /\ wpc' = "cancel"
    /\ cur' = 1
    /\ retry' = FALSE
    /\ UNCHANGED <<stopping, numberVars, reading, flagVars, eventVars, ovRead,
                   m_inputBuffer, queueVars, senderVars, pipeVars, clientVars,
                   notifyVars>>

(***************************************************************************)
(* Run: sync_or_async_read                                                  *)
(***************************************************************************)
\* A message is there: it is read synchronously, which signals evRead.
ReadMessage(i) ==
    /\ wpc = "read" /\ cur = i
    /\ inbound[i] # <<>>
    /\ m_inputBuffer' = [m_inputBuffer EXCEPT ![i] = Head(inbound[i])]
    /\ inbound' = [inbound EXCEPT ![i] = Tail(inbound[i])]
    /\ ovRead' = [ovRead EXCEPT ![i] = "data"]
    /\ evRead' = evRead \cup {i}
    /\ wpc' = "deliver"
    /\ UNCHANGED <<cur, retry, stopVars, numberVars, reading, flagVars,
                   evWrite, evNewMsg, queueVars, senderVars, pipeState, client,
                   outbound, clientVars, notifyVars>>

\* ERROR_IO_PENDING: issuing the read has reset evRead.
ReadPends(i) ==
    /\ wpc = "read" /\ cur = i
    /\ inbound[i] = <<>> /\ pipeState[i] = "connected"
    /\ m_fPendingIO' = m_fPendingIO \cup {i}
    /\ evRead' = IssueReset(i)
    /\ ovRead' = [ovRead EXCEPT ![i] = "pending"]
    /\ wpc' = "wait"
    /\ UNCHANGED <<cur, retry, stopVars, numberVars, reading, m_fPendingWrite,
                   evWrite, evNewMsg, m_inputBuffer, queueVars, senderVars,
                   pipeVars, clientVars, notifyVars>>

\* PeekNamedPipe reports ERROR_BROKEN_PIPE once the messages are drained.
Broken_AtOnce(i) == pipeState[i] = "closing"
Broken(i) == inbound[i] = <<>> /\ pipeState[i] = "closing"

ReadBroken(i) ==
    /\ wpc = "read" /\ cur = i
    /\ Broken(i)
    /\ wpc' = "disconnect"
    /\ UNCHANGED <<cur, retry, stopVars, numberVars, reading, flagVars,
                   eventVars, ovRead, m_inputBuffer, queueVars, senderVars,
                   pipeVars, clientVars, notifyVars>>

\* SendMessage looks for the number from the first instance on.
FirstWith_Any(n) == 1
FirstWith(n) ==
    CHOOSE i \in Instance : /\ m_instanceNo[i] = n
                            /\ \A j \in 1 .. (i - 1) : m_instanceNo[j] # n

\* CPipeInstance::SendMessage: AddTail under m_cs.
AddTail_AtHead(q, m) == <<m>> \o q
AddTail(q, m) == Append(q, m)

\* The application's reply, sent from inside OnMessage on the worker thread.
Answer(i) ==
    LET j == FirstWith(m_instanceNo[i]) IN
    /\ m_cs[j] = NoSender
    /\ m_outputBuffers' =
         [m_outputBuffers EXCEPT ![j] =
            AddTail(@, [to |-> m_instanceNo[i], re |-> m_inputBuffer[i]])]
    /\ evNewMsg' = evNewMsg \cup {j}

\* message_completed: the application answers the request or does not.
Deliver(i) ==
    /\ wpc = "deliver" /\ cur = i
    /\ delivered' = delivered \cup {[no |-> m_instanceNo[i],
                                     msg |-> m_inputBuffer[i]]}
    /\ m_inputBuffer' = [m_inputBuffer EXCEPT ![i] = NoRequest]
    /\ Answer(i) \/ UNCHANGED <<m_outputBuffers, evNewMsg>>
    /\ wpc' = "read"
    /\ UNCHANGED <<cur, retry, stopVars, numberVars, reading, flagVars, evRead,
                   evWrite, ovRead, m_cs, senderVars, pipeVars, clientVars,
                   opened, closed>>

(***************************************************************************)
(* Run: sync_or_async_write and get_out_buffer                              *)
(***************************************************************************)
\* CANNOT_LOCK_BUFFER_LIST
WriteLocked(i) ==
    /\ wpc = "write" /\ cur = i
    /\ m_cs[i] # NoSender
    /\ retry' = TRUE
    /\ wpc' = "wait"
    /\ UNCHANGED <<cur, stopVars, numberVars, reading, flagVars, eventVars,
                   ovRead, m_inputBuffer, queueVars, senderVars, pipeVars,
                   clientVars, notifyVars>>

\* NO_MORE_BUFFERS
WriteNothing(i) ==
    /\ wpc = "write" /\ cur = i
    /\ m_cs[i] = NoSender
    /\ m_outputBuffers[i] = <<>>
    /\ wpc' = "wait"
    /\ UNCHANGED <<cur, retry, stopVars, numberVars, reading, flagVars,
                   eventVars, ovRead, m_inputBuffer, queueVars, senderVars,
                   pipeVars, clientVars, notifyVars>>

PopHead(i) ==
    /\ wpc = "write" /\ cur = i
    /\ m_cs[i] = NoSender
    /\ m_outputBuffers[i] # <<>>
    /\ m_outputBuffers' = [m_outputBuffers EXCEPT ![i] = Tail(@)]

\* BUFFER_RETURNED and WriteFile: the pipe takes the message at once and
\* signals evWrite, or the write stays pending, behind those already pending.
WriteMessage(i) ==
    /\ PopHead(i)
    /\ pipeState[i] = "connected"
    /\ outbound' = [outbound EXCEPT ![i] = Append(@, Head(m_outputBuffers[i]))]
    /\ IF Len(outbound[i]) < OutQuota
       THEN /\ evWrite' = evWrite \cup {i}
            /\ m_fPendingWrite' = m_fPendingWrite \ {i}
            /\ wpc' = "write"
       ELSE /\ evWrite' = evWrite \ {i}
            /\ m_fPendingWrite' = m_fPendingWrite \cup {i}
            /\ wpc' = "wait"
    /\ UNCHANGED <<cur, retry, stopVars, numberVars, reading, m_fPendingIO,
                   evRead, evNewMsg, ovRead, m_inputBuffer, m_cs, senderVars,
                   pipeState, client, inbound, clientVars, notifyVars>>

\* ERROR_NO_DATA or ERROR_PIPE_LISTENING: ThreadProc swallows the exception
\* and the message taken from the list is gone.
WriteFails(i) ==
    /\ PopHead(i)
    /\ pipeState[i] # "connected"
    /\ evWrite' = evWrite \ {i}
    /\ wpc' = "wait"
    /\ UNCHANGED <<cur, retry, stopVars, numberVars, reading, flagVars, evRead,
                   evNewMsg, ovRead, m_inputBuffer, m_cs, senderVars, pipeVars,
                   clientVars, notifyVars>>

(***************************************************************************)
(* ThreadProc: ERROR_BROKEN_PIPE, DisconnectAndReconnect(++m_instanceCnt)   *)
(***************************************************************************)
NewInstanceNo_NoIncrement == m_instanceCnt
NewInstanceNo == m_instanceCnt + 1

\* OnDisconnect is called before the number changes.
Disconnect(i) ==
    /\ wpc = "disconnect" /\ cur = i
    /\ ~CancelFails(i)
    /\ FinishCanceling(i)
    /\ m_instanceCnt' = NewInstanceNo
    /\ wpc' = "reconnect"
    /\ UNCHANGED <<cur, retry, stopVars, m_instanceNo, reading, eventVars,
                   ovRead, m_inputBuffer, queueVars, senderVars, client,
                   clientVars, opened, delivered>>

\* The exception of CancelPendingWriteOperation is thrown inside the handler:
\* it ends the thread.
DisconnectFails(i) ==
    /\ wpc = "disconnect" /\ cur = i
    /\ CancelFails(i)
    /\ m_instanceCnt' = NewInstanceNo
    /\ wpc' = "failed"
    /\ UNCHANGED <<cur, retry, stopVars, m_instanceNo, reading, flagVars,
                   eventVars, ovRead, m_inputBuffer, queueVars, senderVars,
                   pipeVars, clientVars, notifyVars>>

\* The messages still in m_outputBuffers stay there.
Reconnect(i) ==
    /\ wpc = "reconnect" /\ cur = i
    /\ reading' = reading \ {i}
    /\ m_instanceNo' = [m_instanceNo EXCEPT ![i] = m_instanceCnt]
    /\ m_inputBuffer' = [m_inputBuffer EXCEPT ![i] = NoRequest]
    /\ ConnectPends(i)
    /\ wpc' = "wait"
    /\ UNCHANGED <<cur, retry, stopVars, m_instanceCnt, m_fPendingWrite,
                   evWrite, evNewMsg, queueVars, senderVars, client, inbound,
                   outbound, clientVars, notifyVars>>

(***************************************************************************)
(* ThreadProc: disconnect_pipes                                             *)
(***************************************************************************)
\* CancelPendingConnectOrRead and CancelPendingWriteOperation of an instance:
\* the pipe drops what it had not accepted and stops listening.
Cancel(i) ==
    /\ wpc = "cancel" /\ cur = i
    /\ ~CancelFails(i)
    /\ IF i \in m_fPendingIO
       THEN /\ ovRead' = [ovRead EXCEPT ![i] = "aborted"]
            /\ evRead' = evRead \cup {i}
            /\ pipeState' = IF pipeState[i] = "listening"
                            THEN [pipeState EXCEPT ![i] = "disconnected"]
                            ELSE pipeState
       ELSE UNCHANGED <<ovRead, evRead, pipeState>>
    /\ IF i \in m_fPendingWrite
       THEN /\ outbound' = [outbound EXCEPT ![i] = SubSeq(@, 1, OutQuota)]
            /\ evWrite' = evWrite \cup {i}
       ELSE UNCHANGED <<outbound, evWrite>>
    /\ wpc' = IF i = INSTANCES THEN "waitAll" ELSE "cancel"
    /\ cur' = IF i = INSTANCES THEN 1 ELSE i + 1
    /\ UNCHANGED <<retry, stopVars, numberVars, reading, flagVars, evNewMsg,
                   m_inputBuffer, queueVars, senderVars, client, inbound,
                   clientVars, notifyVars>>

CancelThrows(i) ==
    /\ wpc = "cancel" /\ cur = i
    /\ CancelFails(i)
    /\ wpc' = "failed"
    /\ UNCHANGED <<cur, retry, stopVars, numberVars, reading, flagVars,
                   eventVars, ovRead, m_inputBuffer, queueVars, senderVars,
                   pipeVars, clientVars, notifyVars>>

\* WaitForMultipleObjects for every cancelled operation.
WaitAll ==
    /\ wpc = "waitAll"
    /\ m_fPendingIO \subseteq evRead
    /\ m_fPendingWrite \subseteq evWrite
    /\ evWrite' = evWrite \ m_fPendingWrite
    /\ wpc' = "finish"
    /\ UNCHANGED <<cur, retry, stopVars, numberVars, reading, flagVars, evRead,
                   evNewMsg, ovRead, m_inputBuffer, queueVars, senderVars,
                   pipeVars, clientVars, notifyVars>>

Finish(i) ==
    /\ wpc = "finish" /\ cur = i
    /\ FinishCanceling(i)
    /\ wpc' = IF i = INSTANCES THEN "ended" ELSE "finish"
    /\ cur' = IF i = INSTANCES THEN i ELSE i + 1
    /\ UNCHANGED <<retry, stopVars, numberVars, reading, eventVars, ovRead,
                   m_inputBuffer, queueVars, senderVars, client, clientVars,
                   opened, delivered>>

Worker ==
    \/ \E i \in Instance :
         \/ Start(i) \/ StartFails(i)
         \/ ServeRead(i) \/ ServeWrite(i) \/ ServeNewMsg(i)
         \/ ReadMessage(i) \/ ReadPends(i) \/ ReadBroken(i) \/ Deliver(i)
         \/ WriteLocked(i) \/ WriteNothing(i) \/ WriteMessage(i)
         \/ WriteFails(i)
         \/ Disconnect(i) \/ DisconnectFails(i) \/ Reconnect(i)
         \/ Cancel(i) \/ CancelThrows(i) \/ Finish(i)
    \/ ServeTimeout \/ ServeStop \/ WaitAll

(***************************************************************************)
(* SendMessage(instanceNo, msg) on an application thread, which learned the *)
(* number from OnConnect.  The numbers are compared without any lock.       *)
(***************************************************************************)
SendFind(s, i) ==
    /\ spc[s] = "idle"
    /\ m_instanceNo[i] \in opened
    /\ i = FirstWith(m_instanceNo[i])
    /\ spc' = [spc EXCEPT ![s] = "found"]
    /\ target' = [target EXCEPT ![s] = i]
    /\ addressee' = [addressee EXCEPT ![s] = m_instanceNo[i]]
    /\ UNCHANGED <<workerVars, stopVars, numberVars, reading, flagVars,
                   eventVars, ovRead, m_inputBuffer, queueVars, pipeVars,
                   clientVars, notifyVars>>

SendLock(s) ==
    /\ spc[s] = "found"
    /\ m_cs[target[s]] = NoSender
    /\ m_cs' = [m_cs EXCEPT ![target[s]] = s]
    /\ spc' = [spc EXCEPT ![s] = "locked"]
    /\ UNCHANGED <<workerVars, stopVars, numberVars, reading, flagVars,
                   eventVars, ovRead, m_inputBuffer, m_outputBuffers, target,
                   addressee, pipeVars, clientVars, notifyVars>>

\* AddTail, and the end of the locker's scope.
SendAdd(s) ==
    /\ spc[s] = "locked"
    /\ m_outputBuffers' =
         [m_outputBuffers EXCEPT ![target[s]] =
            AddTail(@, [to |-> addressee[s], re |-> s])]
    /\ m_cs' = [m_cs EXCEPT ![target[s]] = NoSender]
    /\ spc' = [spc EXCEPT ![s] = "added"]
    /\ UNCHANGED <<workerVars, stopVars, numberVars, reading, flagVars,
                   eventVars, ovRead, m_inputBuffer, target, addressee,
                   pipeVars, clientVars, notifyVars>>

SendSignal(s) ==
    /\ spc[s] = "added"
    /\ evNewMsg' = evNewMsg \cup {target[s]}
    /\ spc' = [spc EXCEPT ![s] = "sent"]
    /\ UNCHANGED <<workerVars, stopVars, numberVars, reading, flagVars, evRead,
                   evWrite, ovRead, m_inputBuffer, queueVars, target,
                   addressee, pipeVars, clientVars, notifyVars>>

\* worker_thread::Stop up to its wait for the thread.
Stop ==
    /\ ~stopping
    /\ stopping' = TRUE
    /\ evStop' = TRUE
    /\ UNCHANGED <<workerVars, numberVars, reading, flagVars, eventVars,
                   ovRead, m_inputBuffer, queueVars, senderVars, pipeVars,
                   clientVars, notifyVars>>

Sending(s) ==
    \/ \E i \in Instance : SendFind(s, i)
    \/ SendLock(s) \/ SendAdd(s) \/ SendSignal(s)

(***************************************************************************)
(* External: the clients, and what the pipe does at their calls.            *)
(***************************************************************************)
Connect(i) ==
    /\ pipeState[i] = "listening"
    /\ connCnt < MaxClients
    /\ connCnt' = connCnt + 1
    /\ pipeState' = [pipeState EXCEPT ![i] = "connected"]
    /\ client' = [client EXCEPT ![i] = connCnt + 1]
    /\ IF ovRead[i] = "pending"
       THEN /\ ovRead' = [ovRead EXCEPT ![i] = "connected"]
            /\ evRead' = evRead \cup {i}
       ELSE UNCHANGED <<ovRead, evRead>>
    /\ UNCHANGED <<workerVars, stopVars, numberVars, reading, flagVars,
                   evWrite, evNewMsg, m_inputBuffer, queueVars, senderVars,
                   inbound, outbound, sent, received, notifyVars>>

\* A request completes the pending read or waits in the pipe.
SendRequest(i) ==
    /\ pipeState[i] = "connected"
    /\ LET c == client[i]
           r == [client |-> c, n |-> sent[c] + 1]
       IN /\ sent[c] < MaxRequests
          /\ sent' = [sent EXCEPT ![c] = @ + 1]
          /\ IF ovRead[i] = "pending"
             THEN /\ ovRead' = [ovRead EXCEPT ![i] = "data"]
                  /\ evRead' = evRead \cup {i}
                  /\ m_inputBuffer' = [m_inputBuffer EXCEPT ![i] = r]
                  /\ UNCHANGED inbound
             ELSE /\ inbound' = [inbound EXCEPT ![i] = Append(@, r)]
                  /\ UNCHANGED <<ovRead, evRead, m_inputBuffer>>
    /\ UNCHANGED <<workerVars, stopVars, numberVars, reading, flagVars,
                   evWrite, evNewMsg, queueVars, senderVars, pipeState, client,
                   outbound, connCnt, received, notifyVars>>

\* Reading a message lets the pipe accept the oldest stalled write.
Receive(i) ==
    /\ pipeState[i] = "connected"
    /\ outbound[i] # <<>>
    /\ received' = [received EXCEPT ![client[i]] = Append(@, Head(outbound[i]))]
    /\ outbound' = [outbound EXCEPT ![i] = Tail(@)]
    /\ evWrite' = IF Stalled(i) THEN evWrite \cup {i} ELSE evWrite
    /\ UNCHANGED <<workerVars, stopVars, numberVars, reading, flagVars, evRead,
                   evNewMsg, ovRead, m_inputBuffer, queueVars, senderVars,
                   pipeState, client, inbound, connCnt, sent, notifyVars>>

\* The client's end closes: the pending read and every stalled write complete
\* with ERROR_BROKEN_PIPE; requests already in the pipe can still be read.
Close(i) ==
    /\ pipeState[i] = "connected"
    /\ pipeState' = [pipeState EXCEPT ![i] = "closing"]
    /\ outbound' = [outbound EXCEPT ![i] = <<>>]
    /\ evWrite' = IF Stalled(i) THEN evWrite \cup {i} ELSE evWrite
    /\ IF ovRead[i] = "pending"
       THEN /\ ovRead' = [ovRead EXCEPT ![i] = "broken"]
            /\ evRead' = evRead \cup {i}
       ELSE UNCHANGED <<ovRead, evRead>>
    /\ UNCHANGED <<workerVars, stopVars, numberVars, reading, flagVars,
                   evNewMsg, m_inputBuffer, queueVars, senderVars, client,
                   inbound, clientVars, notifyVars>>

Clients == \E i \in Instance :
              Connect(i) \/ SendRequest(i) \/ Receive(i) \/ Close(i)

\* The thread is gone; what is left of the system may stop.
Finished == wpc \in {"ended", "failed"} /\ UNCHANGED vars

Next == Worker \/ (\E s \in Senders : Sending(s)) \/ Stop \/ Clients \/ Finished

\* Windows schedules every thread; a client that stays connected reads.
Fairness ==
    /\ WF_vars(Worker)
    /\ \A s \in Senders : WF_vars(SendLock(s) \/ SendAdd(s) \/ SendSignal(s))
    /\ \A i \in Instance : WF_vars(Receive(i))

Spec == Init /\ [][Next]_vars
FairSpec == Spec /\ Fairness

-----------------------------------------------------------------------------
(***************************************************************************)
(* Properties                                                               *)
(***************************************************************************)
\* Type invariant.
WorkerTypes ==
    /\ wpc \in {"start", "wait", "read", "deliver", "write", "disconnect",
                "reconnect", "cancel", "waitAll", "finish", "ended", "failed"}
    /\ cur \in Instance
    /\ retry \in BOOLEAN /\ evStop \in BOOLEAN /\ stopping \in BOOLEAN
    /\ m_instanceCnt \in Nat
    /\ m_instanceNo \in [Instance -> Nat]
EventTypes ==
    /\ reading \in SUBSET Instance
    /\ m_fPendingIO \in SUBSET Instance /\ m_fPendingWrite \in SUBSET Instance
    /\ evRead \in SUBSET Instance /\ evWrite \in SUBSET Instance
    /\ evNewMsg \in SUBSET Instance
    /\ ovRead \in [Instance -> {"idle", "pending", "connected", "data",
                                "broken", "aborted"}]
QueueTypes ==
    /\ m_inputBuffer \in [Instance -> Request \cup {NoRequest}]
    /\ m_outputBuffers \in [Instance -> Seq(Message)]
    /\ m_cs \in [Instance -> Senders \cup {NoSender}]
SenderTypes ==
    /\ spc \in [Senders -> {"idle", "found", "locked", "added", "sent"}]
    /\ target \in [Senders -> Instance]
    /\ addressee \in [Senders -> Nat]
PipeTypes ==
    /\ pipeState \in [Instance -> {"listening", "connected", "closing",
                                   "disconnected"}]
    /\ client \in [Instance -> Client \cup {0}]
    /\ inbound \in [Instance -> Seq(Request)]
    /\ outbound \in [Instance -> Seq(Message)]
ClientTypes ==
    /\ connCnt \in 0 .. MaxClients
    /\ sent \in [Client -> 0 .. MaxRequests]
    /\ received \in [Client -> Seq(Message)]
NotifyTypes ==
    /\ opened \in SUBSET Nat /\ closed \in SUBSET Nat
    /\ delivered \in SUBSET [no : Nat, msg : Request]
TypeOK ==
    /\ WorkerTypes /\ EventTypes /\ QueueTypes /\ SenderTypes /\ PipeTypes
    /\ ClientTypes /\ NotifyTypes

\* The thread is leaving ThreadProc, or has left it.
Leaving == wpc \in {"cancel", "waitAll", "finish", "ended", "failed"}

\* SendMessage(n) finds one instance at most, and none once OnDisconnect(n) was
\* called and its handler is done: the numbers given by ++m_instanceCnt are never
\* met twice.
NumbersNameSessions ==
    /\ \A i, j \in Instance : m_instanceNo[i] = m_instanceNo[j] => i = j
    /\ \A i \in Instance : m_instanceNo[i] \in closed =>
          Leaving \/ (wpc = "reconnect" /\ cur = i)

\* No instance is lost to the outside: whenever the worker waits, each has an
\* operation in flight on m_ovRead, or evRead will bring the worker to it.
NoDeafInstance ==
    wpc = "wait" => \A i \in Instance :
        i \in evRead \/ (i \in m_fPendingIO /\ ovRead[i] = "pending")

\* The client now connected to the instance is session n, and a message for it
\* is in the instance's queue.
Queued(i, n) ==
    /\ pipeState[i] = "connected" /\ m_instanceNo[i] = n
    /\ \E k \in DOMAIN m_outputBuffers[i] : m_outputBuffers[i][k].to = n

\* The worker is in the write loop of the instance, or an event that leads it
\* there is signalled, or will be, by a stalled write or by a thread that is
\* inside SendMessage.
WriterComes(i) ==
    \/ i \in evNewMsg \cup evWrite
    \/ Stalled(i)
    \/ wpc = "write" /\ cur = i
    \/ \E s \in Senders : target[s] = i /\ spc[s] \in {"locked", "added"}

\* A message queued for the client now connected does not wait for luck: no
\* interleaving of TryEnter, AddTail, SetEvent and the auto-reset events
\* leaves it in the queue with nothing to bring the worker to the write loop.
NoLostWakeup ==
    ~Leaving => \A i \in Instance :
        Queued(i, m_instanceNo[i]) => WriterComes(i)

\* The thread dies of one client only: one that came and left before the first
\* ConnectNamedPipe, or one that left while m_fPendingWrite was set.
DiesOnlyOfStalledWrite ==
    wpc = "failed" /\ ~stopping =>
        /\ pipeState[cur] = "closing"
        /\ cur \in reading => cur \in m_fPendingWrite

\* A client that left was heard to the end: when its instance has been taken
\* back, each of its requests has been passed to OnMessage.
LeaversAreDrained ==
    \A c \in 1 .. connCnt :
        \/ wpc \in {"finish", "ended"}
        \/ \E i \in Instance : client[i] = c /\ pipeState[i] # "disconnected"
        \/ \A k \in 1 .. sent[c] :
              \E d \in delivered : d.msg = [client |-> c, n |-> k]

\* The message is the application's answer to a request.
IsReply(m) == m.re \notin Senders

\* Replies to one client's requests keep the order of the requests and come
\* once each, however many writes were in flight on m_ovWrite.
RepliesInOrder ==
    \A c \in Client : \A j, k \in DOMAIN received[c] :
        LET a == received[c][j]
            b == received[c][k]
        IN  j < k /\ IsReply(a) /\ IsReply(b) /\ a.re.client = b.re.client =>
                a.re.n < b.re.n

\* A reply may reach a later client of the instance, but never an earlier one.
NoReplyToEarlierClient ==
    \A c \in Client : \A k \in DOMAIN received[c] :
        IsReply(received[c][k]) => received[c][k].re.client <= c

\* "Return value is send back to the caller" (include/sm-srv.h:68): a reply
\* that a client receives answers one of its own requests.
RepliesReachTheirCaller ==
    \A c \in Client : \A k \in DOMAIN received[c] :
        IsReply(received[c][k]) => received[c][k].re.client = c

\* The callbacks keep the promise of PipeSessions.
Sessions == INSTANCE PipeSessions
                WITH Number <- 1 .. (INSTANCES + MaxClients)
CallbacksAreSessions == Sessions!Spec

\* Once Stop is called the thread leaves ThreadProc, one way or the other.
StopEndsThread == stopping ~> wpc \in {"ended", "failed"}

\* A message queued for the client now connected leaves the queue for the
\* pipe, unless the client or the server leaves first.
QueuedIsSent ==
    \A i \in Instance, n \in 1 .. (INSTANCES + MaxClients) :
        Queued(i, n) ~> (Leaving \/ ~Queued(i, n))

\* A client that connects is announced to the application, unless it or the
\* server leaves first.
ConnectIsAnnounced ==
    \A i \in Instance :
        pipeState[i] = "connected" ~>
            (m_instanceNo[i] \in opened \/ pipeState[i] # "connected" \/ Leaving)

-----------------------------------------------------------------------------
(***************************************************************************)
(* The inductive invariant: what each variable of one actor may rely on     *)
(* about the others between any two steps.                                  *)
(***************************************************************************)
\* The worker is inside Run(0) of its instance, or in the handler after it.
Serving == wpc \in {"read", "deliver", "disconnect", "reconnect"}

\* A pipe with a client at its other end knows the client, and a completed
\* read has left a request in the buffer for message_completed.
BuffersFilled ==
    /\ \A i \in Instance :
          /\ pipeState[i] \in {"connected", "closing"} => client[i] \in Client
          /\ i \in m_fPendingIO /\ ovRead[i] = "data" =>
                m_inputBuffer[i] \in Request
    /\ Serving => cur \notin m_fPendingIO
    /\ wpc = "deliver" =>
          ovRead[cur] = "data" /\ m_inputBuffer[cur] \in Request

\* Numbers are given out in increasing order, each to one instance.
NumbersGrow ==
    /\ \A i \in Instance : m_instanceNo[i] <= m_instanceCnt
    /\ \A n \in opened \cup closed : n <= m_instanceCnt
    /\ wpc = "reconnect" =>
          /\ \A i \in Instance : m_instanceNo[i] # m_instanceCnt
          /\ m_instanceCnt \notin opened \cup closed

\* Each started instance waits for an operation on m_ovRead or has been
\* signalled, except the one whose evRead is being served.
Engaged(i) == i \in evRead \/ (i \in m_fPendingIO /\ ovRead[i] = "pending")
AllEngaged ==
    /\ wpc = "start" => \A i \in 1 .. (cur - 1) : Engaged(i)
    /\ ~Leaving /\ wpc # "start" =>
          \A i \in Instance : Engaged(i) \/ (Serving /\ cur = i)

\* An instance that connect_pipes has not come to has issued nothing.
NotStartedYet ==
    wpc = "start" =>
        \A i \in cur .. INSTANCES :
            i \notin m_fPendingIO \cup reading /\ ovRead[i] = "idle"

\* The flag m_fPendingIO, the state of m_ovRead and evRead, m_eState and the
\* state of the pipe tell one story.
CoherentAt(i) ==
    /\ i \in m_fPendingIO /\ i \in evRead =>
          ovRead[i] \in {"connected", "data", "broken"}
    /\ i \in m_fPendingIO /\ ovRead[i] = "connected" =>
          pipeState[i] \in {"connected", "closing"}
    /\ i \in m_fPendingIO /\ ovRead[i] = "data" => i \in reading
    /\ i \in m_fPendingIO /\ ovRead[i] = "broken" =>
          pipeState[i] = "closing" /\ i \in reading
    /\ ovRead[i] = "pending" => i \in m_fPendingIO
    /\ ovRead[i] = "pending" /\ pipeState[i] = "connected" => i \in reading
    /\ i \in evRead \ m_fPendingIO => i \in reading
    /\ i \in reading => pipeState[i] # "listening"
OverlappedReadCoherent == ~Leaving => \A i \in Instance : CoherentAt(i)

\* A session is announced exactly while its instance is in READING state.
SessionsMatchStates ==
    /\ \A i \in Instance : i \in reading => m_instanceNo[i] \in opened
    /\ ~Leaving => \A i \in Instance : m_instanceNo[i] \in opened => i \in reading
    /\ Serving => cur \in reading
    /\ wpc = "disconnect" => pipeState[cur] = "closing"
    /\ wpc = "reconnect" => pipeState[cur] = "disconnected"

\* Messages are addressed to announced sessions only; m_cs is held by the
\* thread that is between its two halves.
MessagesAddressed ==
    /\ \A i \in Instance : \A k \in DOMAIN m_outputBuffers[i] :
          m_outputBuffers[i][k].to \in opened
    /\ \A s \in Senders : spc[s] \in {"found", "locked"} => addressee[s] \in opened
    /\ \A i \in Instance : m_cs[i] # NoSender =>
          spc[m_cs[i]] = "locked" /\ target[m_cs[i]] = i

\* Only Stop makes the thread leave.
LeavesOnStop ==
    /\ evStop => stopping
    /\ wpc \in {"cancel", "waitAll", "finish", "ended"} => stopping

IInv ==
    /\ TypeOK /\ BuffersFilled
    /\ NumbersNameSessions /\ NumbersGrow
    /\ AllEngaged /\ NotStartedYet
    /\ OverlappedReadCoherent /\ SessionsMatchStates
    /\ MessagesAddressed /\ NoLostWakeup
    /\ LeavesOnStop /\ DiesOnlyOfStalledWrite

-----------------------------------------------------------------------------
(***************************************************************************)
(* The invariant behind the sessions: which requests a client has been       *)
(* heard of, and where its replies are.  It is inductive together with IInv. *)
(***************************************************************************)
\* A client has the pipe of the instance, or has left it and was not let go yet.
Attached(i) == pipeState[i] \in {"connected", "closing"}

\* A client uses one instance, and sends and receives only there.
ClientsApart ==
    /\ \A i \in Instance : client[i] <= connCnt
    /\ \A i, j \in Instance : i # j /\ client[i] # 0 => client[i] # client[j]
    /\ \A c \in Client : c > connCnt => sent[c] = 0 /\ received[c] = <<>>
    /\ \A d \in delivered : d.msg.client <= connCnt /\ d.no \in opened

\* What m_eState says of the pipe and of the announced numbers also holds in a
\* thread that is leaving.
StatesTold ==
    /\ \A i \in Instance : i \in reading => pipeState[i] # "listening"
    /\ \A i \in Instance : m_instanceNo[i] \in opened => i \in reading
    /\ ~Leaving =>
          \A i \in reading : Attached(i) \/ (wpc = "reconnect" /\ cur = i)

\* Every operation has been cancelled when disconnect_pipes waits, and each
\* session is closed in its turn.
Cancelled ==
    /\ wpc = "cancel" => \A j \in Instance :
          IF j < cur THEN ovRead[j] = "aborted" ELSE j \in m_fPendingIO
    /\ wpc \in {"waitAll", "finish", "ended"} =>
          \A j \in Instance : ovRead[j] = "aborted"
    /\ wpc \in {"cancel", "waitAll"} =>
          \A j \in Instance : m_instanceNo[j] \notin closed
    /\ wpc = "finish" => \A j \in cur .. INSTANCES : m_instanceNo[j] \notin closed

\* Nothing of a client is left in the pipe of the next, nor in m_inputBuffer; a
\* pending read has nothing to read, and a broken one left nothing.
PipesEmptied ==
    /\ \A i \in Instance : pipeState[i] # "connected" => outbound[i] = <<>>
    /\ \A i \in Instance : ~Attached(i) =>
          inbound[i] = <<>> /\ m_inputBuffer[i] = NoRequest
    /\ \A i \in Instance : m_inputBuffer[i] # NoRequest =>
          /\ ovRead[i] = "data"
          /\ i \in m_fPendingIO \/ (wpc = "deliver" /\ cur = i)
    /\ \A i \in Instance : ovRead[i] = "pending" =>
          i \in m_fPendingIO /\ inbound[i] = <<>>
    /\ \A i \in Instance : i \in m_fPendingIO /\ ovRead[i] = "broken" =>
          pipeState[i] = "closing" /\ inbound[i] = <<>>
    /\ wpc = "disconnect" => inbound[cur] = <<>>

\* How many requests of its client the instance has passed to OnMessage.
HeardOf(i) ==
    sent[client[i]] - Len(inbound[i])
        - (IF m_inputBuffer[i] = NoRequest THEN 0 ELSE 1)

\* A client's requests are delivered up to HeardOf, under its number alone; the
\* next is in m_inputBuffer, or the first in the pipe.
InOrderAt(i) ==
    /\ HeardOf(i) >= 0
    /\ m_inputBuffer[i] # NoRequest =>
          m_inputBuffer[i] = [client |-> client[i], n |-> HeardOf(i) + 1]
    /\ \A k \in DOMAIN inbound[i] :
          inbound[i][k] = [client |-> client[i],
                           n |-> sent[client[i]] - Len(inbound[i]) + k]
    /\ \A d \in delivered : d.no = m_instanceNo[i] <=> d.msg.client = client[i]
    /\ \A d \in delivered : d.msg.client = client[i] => d.msg.n \in 1 .. HeardOf(i)
    /\ \A k \in 1 .. HeardOf(i) :
          [no |-> m_instanceNo[i], msg |-> [client |-> client[i], n |-> k]]
              \in delivered
RequestsInOrder == \A i \in Instance : Attached(i) => InOrderAt(i)

\* LeaversAreDrained, with the clients' pipes taken back in between.
Drained ==
    \A c \in 1 .. connCnt :
        \/ wpc \in {"finish", "ended"}
        \/ \E i \in Instance : Attached(i) /\ client[i] = c
        \/ \A k \in 1 .. sent[c] :
              \E d \in delivered : d.msg = [client |-> c, n |-> k]

\* Each new number replaces that of a client that is gone.
Gone == {c \in 1 .. connCnt : \A i \in Instance : Attached(i) => client[i] # c}
NumbersCounted ==
    /\ wpc # "failed" => m_instanceCnt <= INSTANCES + Cardinality(Gone)
    /\ m_instanceCnt >= 1
    /\ \A i \in Instance : m_instanceNo[i] >= 1

\* Replies on their way stand in the order of the requests they answer: those
\* of earlier clients first, then the client's own.
Ordered(a, b) ==
    IsReply(a) /\ IsReply(b) =>
        \/ a.re.client < b.re.client
        \/ a.re.client = b.re.client /\ a.re.n < b.re.n
Sorted(q) == \A j, k \in DOMAIN q : j < k => Ordered(q[j], q[k])
Precedes(q, r) == \A j \in DOMAIN q, k \in DOMAIN r : Ordered(q[j], r[k])

\* They answer requests of clients before c, or of c itself up to the n-th.
UpTo(q, c, n) ==
    \A k \in DOMAIN q : IsReply(q[k]) =>
        q[k].re.client < c \/ (q[k].re.client = c /\ q[k].re.n <= n)

\* The last request of its client that the instance may have answered.
Heard(i) == IF Attached(i) THEN HeardOf(i) ELSE MaxRequests

OnTheirWay(i) ==
    /\ Sorted(outbound[i]) /\ Sorted(m_outputBuffers[i])
    /\ Precedes(outbound[i], m_outputBuffers[i])
    /\ UpTo(outbound[i], client[i], Heard(i))
    /\ UpTo(m_outputBuffers[i], client[i], Heard(i))
    /\ pipeState[i] = "connected" =>
          /\ Precedes(received[client[i]], outbound[i])
          /\ Precedes(received[client[i]], m_outputBuffers[i])
          /\ UpTo(received[client[i]], client[i], Heard(i))
RepliesSorted ==
    /\ \A c \in Client : Sorted(received[c])
    /\ NoReplyToEarlierClient
    /\ \A i \in Instance : OnTheirWay(i)

\* What ties each client to one instance and its requests and replies to their
\* order, in every state of the worker: nothing is delivered twice, under another
\* number or out of turn, and nothing is left in a pipe for the next client.
SInv ==
    /\ ClientsApart /\ StatesTold /\ Cancelled /\ PipesEmptied
    /\ RequestsInOrder /\ Drained /\ NumbersCounted /\ RepliesSorted

=============================================================================
