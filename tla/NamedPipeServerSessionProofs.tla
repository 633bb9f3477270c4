--------------------- MODULE NamedPipeServerSessionProofs ---------------------
(***************************************************************************)
(* The sessions of NamedPipeServer: clients that left were heard to the end, *)
(* replies keep their order, and the callbacks implement PipeSessions.  SInv *)
(* is inductive together with IInv of NamedPipeServerProofs.                 *)
(***************************************************************************)
EXTENDS NamedPipeServerProofs, FiniteSetTheorems

USE DEF Instance, Client, vars, workerVars, stopVars, numberVars, flagVars,
        eventVars, queueVars, senderVars, pipeVars, clientVars, notifyVars

-----------------------------------------------------------------------------
(* Lemmas about the operators *)

\* An empty m_inputBuffer is no request of a client.
LEMMA RequestIsSome == \A r \in Request : r # NoRequest
BY BoundsAssumption DEF Request, NoRequest

-----------------------------------------------------------------------------
(* The inductive invariant *)

\* The constructor establishes the invariant.
LEMMA InitSInv == Init => SInv
<1> SUFFICES ASSUME Init PROVE SInv
  OBVIOUS
<1> USE InstancesAssumption, BoundsAssumption
<1>1. ClientsApart /\ StatesTold /\ Cancelled /\ PipesEmptied
  BY DEF Init, ClientsApart, StatesTold, Cancelled, PipesEmptied, Leaving, Attached
<1>2. RequestsInOrder /\ Drained
  BY DEF Init, RequestsInOrder, Drained, Attached
<1>3. NumbersCounted
  <2>1. Gone = {}
    BY DEF Init, Gone
  <2>2. Cardinality(Gone) = 0
    BY <2>1, FS_EmptySet
  <2> QED BY <2>2 DEF Init, NumbersCounted
<1>4. RepliesSorted
  BY DEF Init, RepliesSorted, OnTheirWay, Sorted, Precedes, UpTo,
     NoReplyToEarlierClient
<1> QED BY <1>1, <1>2, <1>3, <1>4 DEF SInv

\* Clients stay apart.
LEMMA ClientsStep == IInv /\ SInv /\ [Next]_vars => ClientsApart'
<1> SUFFICES ASSUME IInv, SInv, [Next]_vars PROVE ClientsApart'
  OBVIOUS
<1> USE InstancesAssumption, BoundsAssumption
<1>0. /\ PipeTypes /\ ClientTypes /\ WorkerTypes /\ BuffersFilled
      /\ SessionsMatchStates /\ ClientsApart /\ StatesTold /\ RequestsInOrder
  BY DEF IInv, TypeOK, SInv
<1> DEFINE Kept == /\ UNCHANGED <<client, connCnt, sent, received, delivered>>
                   /\ opened \subseteq opened'
<1>1. ASSUME NEW i \in Instance,
             \/ StartFails(i) \/ ServeWrite(i) \/ ServeNewMsg(i)
             \/ ReadMessage(i) \/ ReadPends(i) \/ ReadBroken(i)
             \/ WriteLocked(i) \/ WriteNothing(i) \/ WriteMessage(i) \/ WriteFails(i)
             \/ Disconnect(i) \/ DisconnectFails(i) \/ Reconnect(i)
             \/ Cancel(i) \/ CancelThrows(i) \/ Finish(i) \/ Close(i)
      PROVE  Kept
  BY <1>1 DEF StartFails, ServeWrite, ServeNewMsg, ReadMessage, ReadPends, ReadBroken,
     WriteLocked, WriteNothing, WriteMessage, WriteFails, PopHead, Disconnect,
     DisconnectFails, Reconnect, Cancel, CancelThrows, Finish, Close
<1>2. ASSUME NEW i \in Instance, Start(i) \/ ServeRead(i) PROVE Kept
  BY <1>2 DEF Start, ConnectPends, ConnectedBefore, ServeRead, OnConnect
<1>3. ASSUME NEW s \in Senders, Sending(s) PROVE Kept
  BY <1>3 DEF Sending, SendFind, SendLock, SendAdd, SendSignal
<1>4. ASSUME ServeTimeout \/ ServeStop \/ WaitAll \/ Stop \/ UNCHANGED vars PROVE Kept
  BY <1>4 DEF ServeTimeout, ServeStop, WaitAll, Stop
<1>5. ASSUME Kept PROVE ClientsApart'
  BY <1>0, <1>5 DEF ClientsApart
<1>6. ASSUME NEW i \in Instance, Deliver(i) PROVE ClientsApart'
  <2>0. m_inputBuffer[i] # NoRequest
    BY <1>0, <1>6, RequestIsSome DEF Deliver, BuffersFilled
  <2>1. Attached(i) /\ i \in reading
    BY <1>0, <1>6 DEF Deliver, StatesTold, Leaving, SessionsMatchStates, Serving
  <2>2. m_inputBuffer[i].client = client[i]
    <3>1. InOrderAt(i)
      BY <1>0, <2>1 DEF RequestsInOrder
    <3> QED BY <2>0, <3>1 DEF InOrderAt
  <2>3. m_instanceNo[i] \in opened
    BY <1>0, <2>1 DEF SessionsMatchStates
  <2> QED BY <1>0, <1>6, <2>2, <2>3 DEF Deliver, ClientsApart
<1>7. ASSUME NEW i \in Instance, Connect(i) PROVE ClientsApart'
  <2>1. connCnt \in Nat /\ connCnt' = connCnt + 1
    BY <1>0, <1>7 DEF Connect, ClientTypes
  <2>2. \A j \in Instance : client'[j] = IF j = i THEN connCnt + 1 ELSE client[j]
    BY <1>0, <1>7 DEF Connect, PipeTypes
  <2>3. \A j \in Instance : client[j] \in Nat
    BY <1>0 DEF PipeTypes
  <2>4. UNCHANGED <<sent, received, delivered, opened>>
    BY <1>7 DEF Connect
  <2>5. \A d \in delivered : d.msg.client \in Nat
    BY DEF IInv, TypeOK, NotifyTypes, Request
  <2>6. \A j, k \in Instance : j # k /\ client'[j] # 0 => client'[j] # client'[k]
    BY <1>0, <2>1, <2>2, <2>3 DEF ClientsApart
  <2>7. \A c \in Client : c > connCnt' => sent'[c] = 0 /\ received'[c] = <<>>
    BY <1>0, <2>1, <2>4 DEF ClientsApart
  <2>8. /\ \A j \in Instance : client'[j] <= connCnt'
        /\ \A d \in delivered' : d.msg.client <= connCnt' /\ d.no \in opened'
    BY <1>0, <2>1, <2>2, <2>3, <2>4, <2>5 DEF ClientsApart
  <2> QED BY <2>6, <2>7, <2>8 DEF ClientsApart
<1>8. ASSUME NEW i \in Instance, SendRequest(i) PROVE ClientsApart'
  <2>1. client[i] \in Client /\ client[i] <= connCnt
    BY <1>0, <1>8 DEF SendRequest, BuffersFilled, ClientsApart
  <2>2. UNCHANGED <<client, connCnt, received, delivered, opened>>
    BY <1>8 DEF SendRequest
  <2>3. \A c \in Client : c # client[i] => sent'[c] = sent[c]
    BY <1>0, <1>8 DEF SendRequest, ClientTypes
  <2>4. \A c \in Client : c > connCnt => c # client[i]
    BY <1>0, <2>1 DEF ClientTypes
  <2> QED BY <1>0, <2>2, <2>3, <2>4 DEF ClientsApart
<1>9. ASSUME NEW i \in Instance, Receive(i) PROVE ClientsApart'
  <2>1. client[i] \in Client /\ client[i] <= connCnt
    BY <1>0, <1>9 DEF Receive, BuffersFilled, ClientsApart
  <2>2. \A c \in Client : c # client[i] => received'[c] = received[c]
    BY <1>0, <1>9 DEF Receive, ClientTypes
  <2>3. UNCHANGED <<client, connCnt, sent, delivered, opened>>
    BY <1>9 DEF Receive
  <2>4. \A c \in Client : c > connCnt => received'[c] = <<>>
    <3>1. connCnt \in Nat /\ \A c \in Client : c > connCnt => c # client[i]
      BY <1>0, <2>1 DEF ClientTypes
    <3> QED BY <1>0, <2>2, <3>1 DEF ClientsApart
  <2> QED BY <1>0, <2>3, <2>4 DEF ClientsApart
<1> QED
  BY <1>1, <1>2, <1>3, <1>4, <1>5, <1>6, <1>7, <1>8, <1>9
     DEF Next, Worker, Clients, Finished

\* m_eState, the pipe and the announced numbers agree in a leaving thread, too.
LEMMA StatesStep == IInv /\ SInv /\ [Next]_vars => StatesTold'
<1> SUFFICES ASSUME IInv, SInv, [Next]_vars PROVE StatesTold'
  OBVIOUS
<1> USE InstancesAssumption
<1>0. /\ PipeTypes /\ WorkerTypes /\ EventTypes /\ NumbersGrow /\ NumbersNameSessions
      /\ SessionsMatchStates /\ OverlappedReadCoherent /\ NotStartedYet /\ StatesTold
  BY DEF IInv, TypeOK, SInv
<1> DEFINE Kept == /\ UNCHANGED <<reading, pipeState, m_instanceNo, opened>>
                   /\ ~Leaving' => ~Leaving /\ wpc # "reconnect"
<1>1. ASSUME NEW i \in Instance,
             \/ StartFails(i) \/ ServeWrite(i) \/ ServeNewMsg(i)
             \/ ReadMessage(i) \/ ReadPends(i) \/ ReadBroken(i) \/ Deliver(i)
             \/ WriteLocked(i) \/ WriteNothing(i) \/ WriteMessage(i) \/ WriteFails(i)
             \/ DisconnectFails(i) \/ CancelThrows(i)
      PROVE  Kept
  BY <1>1 DEF StartFails, ServeWrite, Chosen, ServeNewMsg, ReadMessage, ReadPends, ReadBroken,
     Deliver, WriteLocked, WriteNothing, WriteMessage, WriteFails, PopHead, DisconnectFails,
     CancelThrows, Leaving
<1>2. ASSUME ServeTimeout \/ ServeStop \/ WaitAll PROVE Kept
  BY <1>2 DEF ServeTimeout, ServeStop, WaitAll, Idle, Leaving
<1>3. ASSUME Kept PROVE StatesTold'
  BY <1>0, <1>3 DEF StatesTold, Attached
<1>4. ASSUME UNCHANGED <<wpc, cur, reading, pipeState, m_instanceNo, opened>>
      PROVE  StatesTold'
  BY <1>0, <1>4 DEF StatesTold, Attached, Leaving
<1>5. ASSUME NEW s \in Senders, Sending(s) PROVE StatesTold'
  BY <1>4, <1>5 DEF Sending, SendFind, SendLock, SendAdd, SendSignal
<1>6. ASSUME Stop \/ UNCHANGED vars PROVE StatesTold'
  BY <1>4, <1>6 DEF Stop
<1>7. ASSUME NEW i \in Instance, SendRequest(i) \/ Receive(i) PROVE StatesTold'
  BY <1>4, <1>7 DEF SendRequest, Receive
<1>8. ASSUME NEW i \in Instance, Start(i) PROVE StatesTold'
  <2>1. i \notin reading /\ ~Leaving /\ wpc # "reconnect"
    BY <1>0, <1>8 DEF Start, NotStartedYet, Leaving, WorkerTypes
  <2>2. CASE ConnectPends(i)
    <3>1. /\ UNCHANGED m_instanceNo /\ ~Leaving'
          /\ reading' = reading /\ opened' = opened
      BY <1>8, <2>2 DEF Start, ConnectPends, ConnectedBefore, Leaving
    <3>5. \A j \in Instance : j # i => pipeState'[j] = pipeState[j]
      BY <1>0, <2>2 DEF ConnectPends, PipeTypes
    <3>2. \A j \in reading : j \in Instance /\ j # i
      BY <1>0, <2>1 DEF EventTypes
    <3>3. \A j \in reading : pipeState[j] # "listening" /\ Attached(j)
      BY <1>0, <2>1, <3>2 DEF StatesTold
    <3>4. \A j \in Instance : m_instanceNo[j] \in opened => j \in reading
      BY <1>0 DEF StatesTold
    <3> QED BY <3>1, <3>5, <3>2, <3>3, <3>4 DEF StatesTold, Attached
  <2>3. CASE ConnectedBefore(i)
    BY <1>0, <1>8, <2>1, <2>3 DEF Start, ConnectedBefore, OnConnect, StatesTold, Attached,
       PipeTypes, Leaving, NumbersNameSessions
  <2> QED BY <1>8, <2>2, <2>3 DEF Start
<1>9. ASSUME NEW i \in Instance, ServeRead(i) PROVE StatesTold'
  <2>1. ~Leaving /\ wpc # "reconnect"
    BY <1>9 DEF ServeRead, Chosen, Leaving
  <2>2. CASE i \in m_fPendingIO /\ ovRead[i] = "connected"
    <3>1. Attached(i)
      BY <1>0, <2>1, <2>2 DEF OverlappedReadCoherent, CoherentAt, Attached
    <3> QED BY <1>0, <1>9, <2>1, <2>2, <3>1 DEF ServeRead, OnConnect, StatesTold, Attached,
           NumbersNameSessions
  <2>3. CASE ~(i \in m_fPendingIO /\ ovRead[i] = "connected")
    BY <1>0, <1>9, <2>1, <2>3 DEF ServeRead, StatesTold, Attached
  <2> QED BY <2>2, <2>3
<1>10. ASSUME NEW i \in Instance, Disconnect(i) PROVE StatesTold'
  <2>1. /\ UNCHANGED <<reading, opened, m_instanceNo>> /\ ~Leaving /\ wpc # "reconnect"
        /\ wpc' = "reconnect" /\ cur' = i
    BY <1>10 DEF Disconnect, Leaving
  <2>2. /\ \A j \in Instance : j # i => pipeState'[j] = pipeState[j]
        /\ pipeState'[i] \in {pipeState[i], "disconnected"}
    BY <1>0, <1>10 DEF Disconnect, FinishCanceling, PipeTypes
  <2> QED BY <1>0, <2>1, <2>2 DEF StatesTold, Attached, EventTypes
<1>11. ASSUME NEW i \in Instance, Reconnect(i) PROVE StatesTold'
  <2>1. m_instanceCnt \notin opened
    BY <1>0, <1>11 DEF Reconnect, NumbersGrow
  <2> QED BY <1>0, <1>11, <2>1 DEF Reconnect, ConnectPends, StatesTold, Attached, PipeTypes,
         WorkerTypes, Leaving
<1>12. ASSUME NEW i \in Instance, Cancel(i) PROVE StatesTold'
  <2>1. /\ UNCHANGED <<reading, m_instanceNo, opened>>
        /\ pipeState' = pipeState \/ pipeState' = [pipeState EXCEPT ![i] = "disconnected"]
        /\ Leaving'
    BY <1>12 DEF Cancel, Leaving
  <2> QED BY <1>0, <2>1 DEF StatesTold, PipeTypes
<1>13. ASSUME NEW i \in Instance, Finish(i) PROVE StatesTold'
  <2>1. /\ UNCHANGED <<reading, m_instanceNo, opened>>
        /\ pipeState' = pipeState \/ pipeState' = [pipeState EXCEPT ![i] = "disconnected"]
        /\ Leaving'
    BY <1>13 DEF Finish, FinishCanceling, Leaving
  <2> QED BY <1>0, <2>1 DEF StatesTold, PipeTypes
<1>14. ASSUME NEW i \in Instance, Connect(i) PROVE StatesTold'
  BY <1>0, <1>14 DEF Connect, StatesTold, Attached, PipeTypes, Leaving
<1>15. ASSUME NEW i \in Instance, Close(i) PROVE StatesTold'
  BY <1>0, <1>15 DEF Close, StatesTold, Attached, PipeTypes, Leaving
<1> QED
  BY <1>1, <1>2, <1>3, <1>5, <1>6, <1>7, <1>8, <1>9, <1>10, <1>11, <1>12, <1>13, <1>14, <1>15
     DEF Next, Worker, Clients, Finished

\* disconnect_pipes cancels the instances one after the other, waits, and closes
\* their sessions one after the other.
LEMMA CancelledStep == IInv /\ SInv /\ [Next]_vars => Cancelled'
<1> SUFFICES ASSUME IInv, SInv, [Next]_vars PROVE Cancelled'
  OBVIOUS
<1> USE InstancesAssumption
<1>0. /\ PipeTypes /\ WorkerTypes /\ EventTypes /\ NumbersNameSessions
      /\ AllEngaged /\ Cancelled
  BY DEF IInv, TypeOK, SInv
<1> DEFINE Stays == wpc' \notin {"cancel", "waitAll", "finish", "ended"}
           Kept == /\ UNCHANGED <<wpc, cur, m_fPendingIO, m_instanceNo, closed>>
                   /\ \A j \in Instance : ovRead[j] = "aborted" => ovRead'[j] = "aborted"
<1>1. ASSUME NEW i \in Instance,
             \/ Start(i) \/ StartFails(i) \/ ServeRead(i) \/ ServeWrite(i)
             \/ ServeNewMsg(i)
             \/ ReadMessage(i) \/ ReadPends(i) \/ ReadBroken(i) \/ Deliver(i)
             \/ WriteLocked(i) \/ WriteNothing(i) \/ WriteMessage(i) \/ WriteFails(i)
             \/ Disconnect(i) \/ DisconnectFails(i) \/ Reconnect(i) \/ CancelThrows(i)
      PROVE  Stays
  BY <1>1 DEF Start, StartFails, ServeRead, Outcome, ServeWrite, AfterWrite, ServeNewMsg,
     ReadMessage, ReadPends, ReadBroken, Deliver, WriteLocked, WriteNothing, WriteMessage,
     WriteFails, Disconnect, DisconnectFails, Reconnect, CancelThrows
<1>2. ASSUME ServeTimeout PROVE Stays
  BY <1>2 DEF ServeTimeout, Idle
<1>3. ASSUME Stays PROVE Cancelled'
  BY <1>3 DEF Cancelled
<1>4. ASSUME NEW i \in Instance, Connect(i) \/ SendRequest(i) \/ Receive(i) \/ Close(i)
      PROVE  Kept
  BY <1>0, <1>4 DEF Connect, SendRequest, Receive, Close, EventTypes
<1>5. ASSUME NEW s \in Senders, Sending(s) PROVE Kept
  BY <1>5 DEF Sending, SendFind, SendLock, SendAdd, SendSignal
<1>6. ASSUME Stop \/ UNCHANGED vars PROVE Kept
  BY <1>6 DEF Stop
<1>7. ASSUME Kept PROVE Cancelled'
  BY <1>0, <1>7 DEF Cancelled, WorkerTypes
<1>8. ASSUME ServeStop PROVE Cancelled'
  <2>1. wpc = "wait" /\ wpc' = "cancel" /\ cur' = 1
        /\ UNCHANGED <<m_fPendingIO, m_instanceNo, closed>>
    BY <1>8 DEF ServeStop, Idle
  <2>2. \A j \in Instance : j \in m_fPendingIO
    BY <1>0, <1>8 DEF ServeStop, Idle, Ready, AllEngaged, Engaged, Serving, Leaving
  <2>3. \A j \in Instance : m_instanceNo[j] \notin closed
    BY <1>0, <2>1 DEF NumbersNameSessions, Leaving
  <2> QED BY <2>1, <2>2, <2>3 DEF Cancelled
<1>9. ASSUME NEW i \in Instance, Cancel(i) PROVE Cancelled'
  <2>1. i \in m_fPendingIO /\ \A j \in Instance : m_instanceNo[j] \notin closed
    BY <1>0, <1>9 DEF Cancel, Cancelled
  <2>2. \A j \in Instance : j <= i => ovRead'[j] = "aborted"
    BY <1>0, <1>9, <2>1 DEF Cancel, Cancelled, EventTypes
  <2>3. \A j \in Instance : j > i => j \in m_fPendingIO
    BY <1>0, <1>9 DEF Cancel, Cancelled
  <2>4. /\ wpc' = IF i = INSTANCES THEN "waitAll" ELSE "cancel"
        /\ cur' = IF i = INSTANCES THEN 1 ELSE i + 1
        /\ UNCHANGED <<m_fPendingIO, m_instanceNo, closed>>
    BY <1>9 DEF Cancel
  <2> QED BY <2>1, <2>2, <2>3, <2>4 DEF Cancelled
<1>10. ASSUME WaitAll PROVE Cancelled'
  <2>1. /\ wpc = "waitAll" /\ wpc' = "finish"
        /\ UNCHANGED <<cur, ovRead, m_instanceNo, closed>>
    BY <1>10 DEF WaitAll
  <2> QED BY <1>0, <2>1 DEF Cancelled, WorkerTypes
<1>11. ASSUME NEW i \in Instance, Finish(i) PROVE Cancelled'
  <2>1. /\ wpc = "finish" /\ cur = i
        /\ wpc' = IF i = INSTANCES THEN "ended" ELSE "finish"
        /\ cur' = IF i = INSTANCES THEN i ELSE i + 1
        /\ UNCHANGED <<ovRead, m_instanceNo>>
        /\ closed' \subseteq closed \cup {m_instanceNo[i]}
    BY <1>11 DEF Finish, FinishCanceling, OnDisconnect
  <2>2. \A j \in Instance : ovRead'[j] = "aborted"
    BY <1>0, <2>1 DEF Cancelled
  <2>3. \A j \in Instance : j > i => m_instanceNo[j] \notin closed'
    BY <1>0, <2>1 DEF Cancelled, NumbersNameSessions
  <2> QED BY <2>1, <2>2, <2>3 DEF Cancelled
<1> QED
  BY <1>1, <1>2, <1>3, <1>4, <1>5, <1>6, <1>7, <1>8, <1>9, <1>10, <1>11
     DEF Next, Worker, Clients, Finished

\* Pipes and buffers are empty when a client comes.
LEMMA PipesStep == IInv /\ SInv /\ [Next]_vars => PipesEmptied'
<1> SUFFICES ASSUME IInv, SInv, [Next]_vars PROVE PipesEmptied'
  OBVIOUS
<1> USE InstancesAssumption, QuotaAssumption
<1>0. /\ PipeTypes /\ WorkerTypes /\ EventTypes /\ QueueTypes /\ BuffersFilled
      /\ SessionsMatchStates /\ OverlappedReadCoherent
      /\ StatesTold /\ Cancelled /\ PipesEmptied
  BY DEF IInv, TypeOK, SInv
<1> DEFINE Same == UNCHANGED <<pipeState, outbound, inbound, m_inputBuffer, ovRead,
                               m_fPendingIO>>
<1>1. ASSUME NEW i \in Instance,
             \/ StartFails(i) \/ ServeWrite(i) \/ ServeNewMsg(i)
             \/ WriteLocked(i) \/ WriteNothing(i) \/ WriteFails(i)
             \/ DisconnectFails(i) \/ CancelThrows(i)
      PROVE  Same /\ wpc # "deliver" /\ wpc' # "disconnect"
  BY <1>1 DEF StartFails, ServeWrite, Chosen, AfterWrite, ServeNewMsg, WriteLocked,
     WriteNothing, WriteFails, PopHead, DisconnectFails, CancelThrows
<1>2. ASSUME ServeTimeout \/ ServeStop \/ WaitAll
      PROVE  Same /\ wpc # "deliver" /\ wpc' # "disconnect"
  BY <1>2 DEF ServeTimeout, ServeStop, WaitAll, Idle
<1>3. ASSUME Same, wpc # "deliver", wpc' # "disconnect" PROVE PipesEmptied'
  BY <1>0, <1>3 DEF PipesEmptied, Attached
<1>4. ASSUME NEW s \in Senders, Sending(s) PROVE Same /\ UNCHANGED <<wpc, cur>>
  BY <1>4 DEF Sending, SendFind, SendLock, SendAdd, SendSignal
<1>5. ASSUME Stop \/ UNCHANGED vars PROVE Same /\ UNCHANGED <<wpc, cur>>
  BY <1>5 DEF Stop
<1>6. ASSUME Same, UNCHANGED <<wpc, cur>> PROVE PipesEmptied'
  BY <1>0, <1>6 DEF PipesEmptied, Attached
<1>7. ASSUME NEW i \in Instance, ReadBroken(i) PROVE PipesEmptied'
  BY <1>0, <1>7 DEF ReadBroken, Broken, PipesEmptied, Attached
<1>8. ASSUME NEW i \in Instance, Start(i) PROVE PipesEmptied'
  <2>1. CASE ConnectPends(i)
    BY <1>0, <1>8, <2>1 DEF Start, ConnectPends, PipesEmptied, Attached, PipeTypes, EventTypes
  <2>2. CASE ConnectedBefore(i)
    BY <1>0, <1>8, <2>2 DEF Start, ConnectedBefore, PipesEmptied, Attached
  <2> QED BY <1>8, <2>1, <2>2 DEF Start
<1>9. ASSUME NEW i \in Instance, ServeRead(i) PROVE PipesEmptied'
  <2>1. ovRead[i] # "pending"
    BY <1>0, <1>9 DEF ServeRead, Chosen, PipesEmptied, OverlappedReadCoherent, CoherentAt, Leaving
  <2> QED BY <1>0, <1>9, <2>1 DEF ServeRead, Chosen, Outcome, ClearPendingIO, PipesEmptied, Attached
<1>10. ASSUME NEW i \in Instance, ReadMessage(i) PROVE PipesEmptied'
  <2>1. i \notin m_fPendingIO /\ Attached(i)
    BY <1>0, <1>10 DEF ReadMessage, BuffersFilled, Serving, PipesEmptied
  <2> QED BY <1>0, <1>10, <2>1 DEF ReadMessage, PipesEmptied, Attached, PipeTypes, EventTypes, QueueTypes
<1>11. ASSUME NEW i \in Instance, ReadPends(i) PROVE PipesEmptied'
  <2>1. m_inputBuffer[i] = NoRequest
    BY <1>0, <1>11 DEF ReadPends, BuffersFilled, Serving, PipesEmptied
  <2> QED BY <1>0, <1>11, <2>1 DEF ReadPends, PipesEmptied, Attached, EventTypes
<1>12. ASSUME NEW i \in Instance, Deliver(i) PROVE PipesEmptied'
  BY <1>0, <1>12 DEF Deliver, PipesEmptied, Attached, QueueTypes
<1>13. ASSUME NEW i \in Instance, WriteMessage(i) PROVE PipesEmptied'
  <2>1. /\ UNCHANGED <<pipeState, inbound, m_inputBuffer, ovRead, m_fPendingIO>>
        /\ wpc # "deliver" /\ wpc' # "disconnect"
    BY <1>13 DEF WriteMessage, PopHead
  <2>2. \A j \in Instance : pipeState[j] # "connected" => outbound'[j] = <<>>
    BY <1>0, <1>13 DEF WriteMessage, PopHead, PipesEmptied, PipeTypes
  <2> QED BY <1>0, <2>1, <2>2 DEF PipesEmptied, Attached
<1>14. ASSUME NEW i \in Instance, Disconnect(i) PROVE PipesEmptied'
  <2>1. m_inputBuffer[i] = NoRequest /\ i \in reading
    BY <1>0, <1>14 DEF Disconnect, BuffersFilled, SessionsMatchStates, Serving, PipesEmptied
  <2>2. /\ UNCHANGED <<m_inputBuffer, ovRead>>
        /\ wpc # "deliver" /\ wpc' # "disconnect"
        /\ i \notin m_fPendingIO /\ m_fPendingIO' = m_fPendingIO
    BY <1>0, <1>14 DEF Disconnect, FinishCanceling, BuffersFilled, Serving
  <2>3. \A j \in Instance :
          IF j = i THEN pipeState'[j] = "disconnected" /\ inbound'[j] = <<>> /\ outbound'[j] = <<>>
          ELSE /\ pipeState'[j] = pipeState[j] /\ inbound'[j] = inbound[j]
               /\ outbound'[j] = outbound[j]
    BY <1>0, <1>14, <2>1 DEF Disconnect, FinishCanceling, PipeTypes
  <2> QED BY <1>0, <2>1, <2>2, <2>3 DEF PipesEmptied, Attached
<1>15. ASSUME NEW i \in Instance, Reconnect(i) PROVE PipesEmptied'
  <2>1. inbound[i] = <<>>
    BY <1>0, <1>15 DEF Reconnect, SessionsMatchStates, PipesEmptied, Attached
  <2> QED BY <1>0, <1>15, <2>1 DEF Reconnect, ConnectPends, PipesEmptied, Attached, PipeTypes,
         EventTypes, QueueTypes
<1>16. ASSUME NEW i \in Instance, Cancel(i) PROVE PipesEmptied'
  <2>1. i \in m_fPendingIO
    BY <1>0, <1>16 DEF Cancel, Cancelled
  <2>2. ovRead[i] = "pending" /\ m_inputBuffer[i] = NoRequest
    BY <1>0, <1>16, <2>1 DEF Cancel, CancelFails, PipesEmptied
  <2>3. /\ UNCHANGED <<inbound, m_inputBuffer, m_fPendingIO>>
        /\ wpc # "deliver" /\ wpc' # "disconnect"
        /\ ovRead' = [ovRead EXCEPT ![i] = "aborted"]
        /\ \/ pipeState' = pipeState
           \/ /\ pipeState[i] = "listening"
              /\ pipeState' = [pipeState EXCEPT ![i] = "disconnected"]
    BY <1>16, <2>1 DEF Cancel
  <2>4. \A j \in Instance : pipeState[j] # "connected" => outbound'[j] = <<>>
    <3>1. i \in m_fPendingWrite => pipeState[i] = "connected"
      BY <1>0, <1>16 DEF Cancel, CancelFails, Stalled, PipesEmptied
    <3> QED BY <1>0, <1>16, <3>1 DEF Cancel, PipesEmptied, PipeTypes
  <2>5. \A j \in Instance :
          /\ ovRead'[j] = IF j = i THEN "aborted" ELSE ovRead[j]
          /\ Attached(j)' = Attached(j)
    BY <1>0, <2>3 DEF Attached, PipeTypes, EventTypes
  <2>6. \A j \in Instance : j # i => pipeState'[j] = pipeState[j]
    BY <1>0, <2>3 DEF PipeTypes
  <2> QED BY <1>0, <2>2, <2>3, <2>4, <2>5, <2>6 DEF PipesEmptied
<1>17. ASSUME NEW i \in Instance, Finish(i) PROVE PipesEmptied'
  <2>1. \A j \in Instance : ovRead[j] = "aborted" /\ m_inputBuffer[j] = NoRequest
    BY <1>0, <1>17 DEF Finish, Cancelled, PipesEmptied
  <2>2. UNCHANGED <<m_inputBuffer, ovRead>> /\ wpc' # "disconnect"
    BY <1>17 DEF Finish
  <2>3. \A j \in Instance :
          \/ pipeState'[j] = "disconnected" /\ inbound'[j] = <<>> /\ outbound'[j] = <<>>
          \/ /\ pipeState'[j] = pipeState[j] /\ inbound'[j] = inbound[j]
             /\ outbound'[j] = outbound[j]
    BY <1>0, <1>17 DEF Finish, FinishCanceling, PipeTypes
  <2> QED BY <1>0, <2>1, <2>2, <2>3 DEF PipesEmptied, Attached
<1>18. ASSUME NEW i \in Instance, Connect(i) PROVE PipesEmptied'
  <2>1. /\ UNCHANGED <<wpc, cur, m_inputBuffer, m_fPendingIO, inbound, outbound>>
        /\ pipeState[i] = "listening"
    BY <1>18 DEF Connect
  <2>2. \A j \in Instance :
          /\ pipeState'[j] = IF j = i THEN "connected" ELSE pipeState[j]
          /\ ovRead'[j] = ovRead[j] \/ ovRead'[j] = "connected"
          /\ j # i => ovRead'[j] = ovRead[j]
    BY <1>0, <1>18 DEF Connect, PipeTypes, EventTypes
  <2>3. m_inputBuffer[i] = NoRequest /\ ~(i \in m_fPendingIO /\ ovRead[i] = "broken")
    BY <1>0, <2>1 DEF PipesEmptied, Attached
  <2> QED BY <1>0, <2>1, <2>2, <2>3 DEF PipesEmptied, Attached
<1>19. ASSUME NEW i \in Instance, SendRequest(i) PROVE PipesEmptied'
  <2>1. /\ UNCHANGED <<wpc, cur, pipeState, outbound, m_fPendingIO>>
        /\ pipeState[i] = "connected"
    BY <1>19 DEF SendRequest
  <2>2. wpc = "disconnect" => cur # i
    BY <1>0, <2>1 DEF SessionsMatchStates
  <2>3. ~(i \in m_fPendingIO /\ ovRead[i] = "broken")
    BY <1>0, <2>1 DEF PipesEmptied
  <2>4. CASE ovRead[i] = "pending"
    <3>1. /\ UNCHANGED inbound
          /\ \A j \in Instance : j # i => /\ ovRead'[j] = ovRead[j]
                                         /\ m_inputBuffer'[j] = m_inputBuffer[j]
          /\ ovRead'[i] = "data" /\ i \in m_fPendingIO
      BY <1>0, <1>19, <2>4 DEF SendRequest, PipesEmptied, EventTypes, QueueTypes
    <3> QED BY <1>0, <2>1, <3>1 DEF PipesEmptied, Attached
  <2>5. CASE ovRead[i] # "pending"
    <3>1. /\ UNCHANGED <<ovRead, m_inputBuffer>>
          /\ \A j \in Instance : j # i => inbound'[j] = inbound[j]
      BY <1>0, <1>19, <2>5 DEF SendRequest, PipeTypes
    <3>2. \A j \in Instance :
            ~Attached(j) \/ ovRead[j] = "pending" \/ (j \in m_fPendingIO /\ ovRead[j] = "broken")
              => inbound'[j] = inbound[j]
      BY <2>1, <2>3, <2>5, <3>1 DEF Attached
    <3>3. wpc = "disconnect" => inbound'[cur] = inbound[cur]
      BY <1>0, <2>2, <3>1 DEF WorkerTypes
    <3> QED BY <1>0, <2>1, <3>1, <3>2, <3>3 DEF PipesEmptied, Attached
  <2> QED BY <2>4, <2>5
<1>20. ASSUME NEW i \in Instance, Receive(i) PROVE PipesEmptied'
  BY <1>0, <1>20 DEF Receive, PipesEmptied, Attached, PipeTypes
<1>21. ASSUME NEW i \in Instance, Close(i) PROVE PipesEmptied'
  <2>1. /\ UNCHANGED <<wpc, cur, m_inputBuffer, m_fPendingIO, inbound>>
        /\ pipeState[i] = "connected"
    BY <1>21 DEF Close
  <2>2. \A j \in Instance :
          /\ pipeState'[j] = IF j = i THEN "closing" ELSE pipeState[j]
          /\ outbound'[j] = IF j = i THEN <<>> ELSE outbound[j]
          /\ ovRead'[j] = IF j = i /\ ovRead[i] = "pending" THEN "broken" ELSE ovRead[j]
    BY <1>0, <1>21 DEF Close, PipeTypes, EventTypes
  <2>3. ovRead[i] = "pending" => inbound[i] = <<>> /\ m_inputBuffer[i] = NoRequest
    BY <1>0 DEF PipesEmptied
  <2> QED BY <1>0, <2>1, <2>2, <2>3 DEF PipesEmptied, Attached
<1> QED
  BY <1>1, <1>2, <1>3, <1>4, <1>5, <1>6, <1>7, <1>8, <1>9, <1>10, <1>11, <1>12, <1>13, <1>14,
     <1>15, <1>16, <1>17, <1>18, <1>19, <1>20, <1>21 DEF Next, Worker, Clients, Finished

\* The worker is never past "failed".
LEMMA FailedForGood == [Next]_vars /\ wpc = "failed" => wpc' = "failed"
<1> SUFFICES ASSUME [Next]_vars, wpc = "failed" PROVE wpc' = "failed"
  OBVIOUS
<1>1. ASSUME NEW i \in Instance PROVE
        /\ ~(Start(i) \/ StartFails(i) \/ ServeRead(i) \/ ServeWrite(i) \/ ServeNewMsg(i))
        /\ ~(ReadMessage(i) \/ ReadPends(i) \/ ReadBroken(i) \/ Deliver(i))
        /\ ~(WriteLocked(i) \/ WriteNothing(i) \/ WriteMessage(i) \/ WriteFails(i))
        /\ ~(Disconnect(i) \/ DisconnectFails(i) \/ Reconnect(i))
        /\ ~(Cancel(i) \/ CancelThrows(i) \/ Finish(i))
  BY DEF Start, StartFails, ServeRead, ServeWrite, ServeNewMsg, Chosen, ReadMessage, ReadPends,
     ReadBroken, Deliver, WriteLocked, WriteNothing, WriteMessage, WriteFails, PopHead,
     Disconnect, DisconnectFails, Reconnect, Cancel, CancelThrows, Finish
<1>2. ~(ServeTimeout \/ ServeStop \/ WaitAll)
  BY DEF ServeTimeout, ServeStop, WaitAll, Idle
<1>3. ASSUME NEW i \in Instance, Connect(i) \/ SendRequest(i) \/ Receive(i) \/ Close(i)
      PROVE  wpc' = wpc
  BY <1>3 DEF Connect, SendRequest, Receive, Close
<1>4. ASSUME NEW s \in Senders, Sending(s) PROVE wpc' = wpc
  BY <1>4 DEF Sending, SendFind, SendLock, SendAdd, SendSignal
<1>5. ASSUME Stop \/ UNCHANGED vars PROVE wpc' = wpc
  BY <1>5 DEF Stop
<1> QED
  BY <1>1, <1>2, <1>3, <1>4, <1>5 DEF Next, Worker, Clients, Finished

\* The requests of a client are delivered in the order sent, under one number.
LEMMA HeardStep == IInv /\ SInv /\ [Next]_vars => RequestsInOrder'
<1> SUFFICES ASSUME IInv, SInv, [Next]_vars, NEW j \in Instance, Attached(j)'
             PROVE  InOrderAt(j)'
  BY DEF RequestsInOrder
<1> USE InstancesAssumption, BoundsAssumption
<1>0. /\ PipeTypes /\ ClientTypes /\ WorkerTypes /\ QueueTypes /\ BuffersFilled
      /\ SessionsMatchStates /\ NumbersNameSessions
      /\ ClientsApart /\ StatesTold /\ PipesEmptied /\ RequestsInOrder
  BY DEF IInv, TypeOK, SInv
<1> DEFINE KeptHere == /\ pipeState'[j] = pipeState[j] \/ pipeState'[j] = "disconnected"
                                \/ pipeState'[j] = "listening"
                                \/ (pipeState'[j] = "closing" /\ pipeState[j] = "connected")
                       /\ client'[j] = client[j] /\ inbound'[j] = inbound[j]
                       /\ m_inputBuffer'[j] = m_inputBuffer[j]
                       /\ m_instanceNo'[j] = m_instanceNo[j]
                       /\ sent'[client[j]] = sent[client[j]]
           Kept == KeptHere /\ delivered' = delivered
<1>1. ASSUME NEW i \in Instance,
             \/ StartFails(i) \/ ServeRead(i) \/ ServeWrite(i) \/ ServeNewMsg(i)
             \/ ReadPends(i) \/ ReadBroken(i)
             \/ WriteLocked(i) \/ WriteNothing(i) \/ WriteMessage(i) \/ WriteFails(i)
             \/ DisconnectFails(i) \/ CancelThrows(i)
      PROVE  Kept
  BY <1>1 DEF StartFails, ServeRead, ServeWrite, ServeNewMsg, ReadPends, ReadBroken,
     WriteLocked, WriteNothing, WriteMessage, WriteFails, PopHead, DisconnectFails, CancelThrows
<1>2. ASSUME ServeTimeout \/ ServeStop \/ WaitAll \/ Stop \/ UNCHANGED vars PROVE Kept
  BY <1>2 DEF ServeTimeout, ServeStop, WaitAll, Stop
<1>3. ASSUME NEW s \in Senders, Sending(s) PROVE Kept
  BY <1>3 DEF Sending, SendFind, SendLock, SendAdd, SendSignal
<1>4. ASSUME NEW i \in Instance, Start(i) \/ Cancel(i) \/ Receive(i) \/ Close(i)
      PROVE  Kept
  <2>1. CASE Start(i)
    BY <1>0, <2>1 DEF Start, ConnectPends, ConnectedBefore, PipeTypes
  <2>2. CASE Cancel(i)
    BY <1>0, <2>2 DEF Cancel, PipeTypes
  <2>3. CASE Receive(i)
    BY <2>3 DEF Receive
  <2>4. CASE Close(i)
    BY <1>0, <2>4 DEF Close, PipeTypes
  <2> QED BY <1>4, <2>1, <2>2, <2>3, <2>4
\* The instance that is taken back is not attached; the others are kept.
<1>5. ASSUME NEW i \in Instance, Disconnect(i) \/ Finish(i) PROVE Kept
  <2>1. /\ UNCHANGED <<client, m_inputBuffer, m_instanceNo, sent, delivered>>
        /\ \/ UNCHANGED <<pipeState, inbound>>
           \/ /\ pipeState' = [pipeState EXCEPT ![i] = "disconnected"]
              /\ inbound' = [inbound EXCEPT ![i] = <<>>]
    BY <1>5 DEF Disconnect, Finish, FinishCanceling
  <2>2. j # i \/ inbound' = inbound
    BY <1>0, <2>1 DEF Attached, PipeTypes
  <2> QED BY <1>0, <2>1, <2>2 DEF PipeTypes
<1>6. ASSUME NEW i \in Instance, Reconnect(i) PROVE Kept
  <2>1. /\ pipeState' = [pipeState EXCEPT ![i] = "listening"]
        /\ m_instanceNo' = [m_instanceNo EXCEPT ![i] = m_instanceCnt]
        /\ m_inputBuffer' = [m_inputBuffer EXCEPT ![i] = NoRequest]
        /\ UNCHANGED <<client, inbound, sent, delivered>>
    BY <1>6 DEF Reconnect, ConnectPends
  <2>2. j # i
    BY <1>0, <2>1 DEF Attached, PipeTypes
  <2> QED BY <1>0, <2>1, <2>2 DEF PipeTypes, WorkerTypes, QueueTypes
<1>7. ASSUME KeptHere PROVE Attached(j) /\ InOrderAt(j) /\ HeardOf(j)' = HeardOf(j)
  <2>1. Attached(j)
    BY <1>7 DEF Attached
  <2> QED BY <1>0, <1>7, <2>1 DEF RequestsInOrder, HeardOf
<1>8. ASSUME Kept PROVE InOrderAt(j)'
  <2>1. InOrderAt(j) /\ HeardOf(j)' = HeardOf(j)
    BY <1>7, <1>8
  <2> QED BY <1>8, <2>1 DEF InOrderAt
<1>9. ASSUME NEW i \in Instance, ReadMessage(i) PROVE InOrderAt(j)'
  <2>1. CASE j # i
    <3>1. Kept
      BY <1>0, <1>9, <2>1 DEF ReadMessage, PipeTypes, QueueTypes
    <3> QED BY <1>8, <3>1
  <2>2. CASE j = i
    <3>1. /\ InOrderAt(i) /\ Attached(i)
      BY <1>0, <1>9, <2>2 DEF ReadMessage, RequestsInOrder, Attached
    <3>2. m_inputBuffer[i] = NoRequest
      BY <1>0, <1>9 DEF ReadMessage, BuffersFilled, Serving, PipesEmptied
    <3>3. /\ m_inputBuffer'[i] = Head(inbound[i]) /\ inbound'[i] = Tail(inbound[i])
          /\ UNCHANGED <<client, m_instanceNo, sent, delivered>>
      BY <1>0, <1>9 DEF ReadMessage, PipeTypes, QueueTypes
    <3>4. inbound[i] \in Seq(Request) /\ inbound[i] # <<>> /\ client[i] \in Client
          /\ sent[client[i]] \in Nat
      BY <1>0, <1>9, <3>1 DEF ReadMessage, PipeTypes, ClientTypes, BuffersFilled, Attached
    <3>5. /\ Len(inbound[i]) \in Nat \ {0}
          /\ Len(inbound'[i]) = Len(inbound[i]) - 1
          /\ \A k \in DOMAIN inbound'[i] : inbound'[i][k] = inbound[i][k + 1]
                                           /\ k + 1 \in DOMAIN inbound[i]
          /\ m_inputBuffer'[i] = inbound[i][1] /\ 1 \in DOMAIN inbound[i]
          /\ inbound[i][1] \in Request
      BY <3>3, <3>4
    <3>6. m_inputBuffer'[i] # NoRequest
      BY <3>5, RequestIsSome
    <3>7. HeardOf(i)' = HeardOf(i) /\ HeardOf(i) = sent[client[i]] - Len(inbound[i])
      <4>1. HeardOf(i) = sent[client[i]] - Len(inbound[i])
        BY <3>2, <3>4, <3>5 DEF HeardOf
      <4>2. HeardOf(i)' = sent[client[i]] - Len(inbound'[i]) - 1
        BY <3>3, <3>6 DEF HeardOf
      <4>3. HeardOf(i)' = sent[client[i]] - (Len(inbound[i]) - 1) - 1
        BY <3>5, <4>2
      <4> QED BY <3>4, <3>5, <4>1, <4>3
    <3>8. m_inputBuffer'[i] = [client |-> client[i], n |-> HeardOf(i) + 1]
      BY <3>1, <3>5, <3>7 DEF InOrderAt
    <3>9. \A k \in DOMAIN inbound'[i] :
            inbound'[i][k] = [client |-> client[i],
                              n |-> sent[client[i]] - Len(inbound'[i]) + k]
      <4>1. ASSUME NEW k \in DOMAIN inbound'[i]
            PROVE  inbound'[i][k] = [client |-> client[i],
                              n |-> sent[client[i]] - Len(inbound'[i]) + k]
        <5>1. inbound'[i][k] = [client |-> client[i],
                              n |-> sent[client[i]] - Len(inbound[i]) + (k + 1)]
          BY <3>1, <3>5 DEF InOrderAt
        <5>2. k \in Int
          BY <3>3, <3>4
        <5>3. sent[client[i]] - Len(inbound[i]) + (k + 1) = sent[client[i]] - (Len(inbound[i]) - 1) + k
          <6> DEFINE a == sent[client[i]]
                     b == Len(inbound[i])
          <6>1. a \in Int /\ b \in Int
            BY <3>4, <3>5
          <6> HIDE DEF a, b
          <6>2. a - b + (k + 1) = a - (b - 1) + k
            BY <5>2, <6>1
          <6> QED BY <6>2, Zenon DEF a, b
        <5> QED BY <3>5, <5>1, <5>3
      <4> QED BY <4>1
    <3> QED BY <2>2, <3>1, <3>3, <3>7, <3>8, <3>9 DEF InOrderAt
  <2> QED BY <2>1, <2>2
<1>10. ASSUME NEW i \in Instance, Deliver(i) PROVE InOrderAt(j)'
  <2>1. Attached(i) /\ InOrderAt(i)
    BY <1>0, <1>10 DEF Deliver, StatesTold, Leaving, SessionsMatchStates, Serving, RequestsInOrder
  <2>2. m_inputBuffer[i] # NoRequest
    BY <1>0, <1>10, RequestIsSome DEF Deliver, BuffersFilled
  <2>3. /\ UNCHANGED <<pipeState, client, inbound, m_instanceNo, sent>>
        /\ m_inputBuffer' = [m_inputBuffer EXCEPT ![i] = NoRequest]
        /\ delivered' = delivered \cup
              {[no |-> m_instanceNo[i], msg |-> [client |-> client[i], n |-> HeardOf(i) + 1]]}
    BY <1>10, <2>1, <2>2 DEF Deliver, InOrderAt
  <2>4. CASE j # i
    <3>1. KeptHere
      BY <1>0, <2>3, <2>4 DEF QueueTypes
    <3>2. InOrderAt(j) /\ HeardOf(j)' = HeardOf(j) /\ Attached(j)
      BY <1>7, <3>1
    <3>3. client[i] # client[j] /\ m_instanceNo[i] # m_instanceNo[j]
      BY <1>0, <2>1, <2>4 DEF ClientsApart, NumbersNameSessions, BuffersFilled, Attached
    <3> QED BY <3>1, <3>2, <3>3, <2>3 DEF InOrderAt
  <2>5. CASE j = i
    <3>1. client[i] \in Client /\ sent[client[i]] \in Nat /\ Len(inbound[i]) \in Nat
      BY <1>0, <2>1 DEF BuffersFilled, Attached, ClientTypes, PipeTypes
    <3>2. m_inputBuffer'[i] = NoRequest
      BY <1>0, <2>3 DEF QueueTypes
    <3>3. HeardOf(i)' = HeardOf(i) + 1 /\ HeardOf(i) \in Int
      BY <2>2, <2>3, <3>1, <3>2 DEF HeardOf
    <3>4. HeardOf(i) \in Nat
      BY <2>1, <3>3 DEF InOrderAt
    <3>5. /\ \A d \in delivered' : d.no = m_instanceNo[i] <=> d.msg.client = client[i]
          /\ \A d \in delivered' : d.msg.client = client[i] => d.msg.n \in 1 .. (HeardOf(i) + 1)
      BY <2>1, <2>3, <3>4 DEF InOrderAt
    <3>6. \A k \in 1 .. (HeardOf(i) + 1) :
             [no |-> m_instanceNo[i], msg |-> [client |-> client[i], n |-> k]] \in delivered'
      <4>1. \A k \in 1 .. (HeardOf(i) + 1) : k \in 1 .. HeardOf(i) \/ k = HeardOf(i) + 1
        BY <3>4
      <4> QED BY <2>1, <2>3, <4>1 DEF InOrderAt
    <3>7. \A k \in DOMAIN inbound[i] :
            inbound[i][k] = [client |-> client[i], n |-> sent[client[i]] - Len(inbound[i]) + k]
      BY <2>1 DEF InOrderAt
    <3>8. HeardOf(i)' >= 0
      BY <3>3, <3>4
    <3> QED BY <2>3, <2>5, <3>2, <3>3, <3>5, <3>6, <3>7, <3>8 DEF InOrderAt
  <2> QED BY <2>4, <2>5
<1>11. ASSUME NEW i \in Instance, Connect(i) PROVE InOrderAt(j)'
  <2>1. CASE j # i
    <3>1. Kept
      BY <1>0, <1>11, <2>1 DEF Connect, PipeTypes
    <3> QED BY <1>8, <3>1
  <2>2. CASE j = i
    <3>1. /\ connCnt \in Nat /\ connCnt < MaxClients /\ pipeState[i] = "listening"
          /\ client'[i] = connCnt + 1
          /\ UNCHANGED <<inbound, m_inputBuffer, m_instanceNo, sent, delivered, opened>>
      BY <1>0, <1>11 DEF Connect, PipeTypes, ClientTypes
    <3>2. connCnt + 1 \in Client /\ sent[connCnt + 1] = 0
      BY <1>0, <3>1 DEF ClientsApart
    <3>3. inbound[i] = <<>> /\ m_inputBuffer[i] = NoRequest
      BY <1>0, <3>1 DEF PipesEmptied, Attached
    <3>4. m_instanceNo[i] \notin opened
      BY <1>0, <3>1 DEF StatesTold
    <3>5. \A d \in delivered : d.msg.client # connCnt + 1 /\ d.no # m_instanceNo[i]
      <4>1. \A d \in delivered : d.msg.client \in Nat
        BY DEF IInv, TypeOK, NotifyTypes, Request
      <4> QED BY <1>0, <3>1, <3>4, <4>1 DEF ClientsApart
    <3>6. HeardOf(i)' = 0
      <4>1. HeardOf(i)' = sent[connCnt + 1] - Len(inbound[i]) - 0
        BY <3>1, <3>3 DEF HeardOf
      <4>2. Len(inbound[i]) = 0
        BY <3>3
      <4> QED BY <3>2, <4>1, <4>2
    <3>7. DOMAIN inbound[i] = {}
      BY <3>3
    <3> QED BY <2>2, <3>1, <3>3, <3>5, <3>6, <3>7 DEF InOrderAt
  <2> QED BY <2>1, <2>2
<1>12. ASSUME NEW i \in Instance, SendRequest(i) PROVE InOrderAt(j)'
  <2> DEFINE c == client[i]
             r == [client |-> c, n |-> sent[c] + 1]
  <2>1. /\ Attached(i) /\ InOrderAt(i) /\ c \in Client /\ sent[c] \in Nat
        /\ inbound[i] \in Seq(Request) /\ Len(inbound[i]) \in Nat
    BY <1>0, <1>12 DEF SendRequest, RequestsInOrder, Attached, BuffersFilled, ClientTypes, PipeTypes
  <2>2. /\ UNCHANGED <<client, pipeState, m_instanceNo, delivered>>
        /\ sent' = [sent EXCEPT ![c] = sent[c] + 1] /\ sent[c] < MaxRequests
    BY <1>12 DEF SendRequest
  <2>3. CASE j # i
    <3>1. client[j] # c
      BY <1>0, <2>1, <2>2, <2>3 DEF ClientsApart
    <3>2. sent'[client[j]] = sent[client[j]]
      BY <1>0, <2>2, <3>1 DEF ClientTypes
    <3>3. inbound'[j] = inbound[j] /\ m_inputBuffer'[j] = m_inputBuffer[j]
      BY <1>0, <1>12, <2>3 DEF SendRequest, PipeTypes, QueueTypes
    <3>4. Kept
      BY <2>2, <3>2, <3>3
    <3> QED BY <1>8, <3>4
  <2>4. CASE j = i /\ ovRead[i] = "pending"
    <3>1. inbound[i] = <<>> /\ m_inputBuffer[i] = NoRequest
      BY <1>0, <2>4 DEF PipesEmptied
    <3>2. inbound' = inbound /\ m_inputBuffer'[i] = r
      BY <1>0, <1>12, <2>4 DEF SendRequest, QueueTypes
    <3>3. r # NoRequest
      BY <2>1, BoundsAssumption DEF NoRequest
    <3>4. sent'[c] = sent[c] + 1
      BY <1>0, <2>1, <2>2 DEF ClientTypes
    <3>5. HeardOf(i)' = HeardOf(i) /\ HeardOf(i) = sent[c]
      BY <2>1, <2>2, <3>1, <3>2, <3>3, <3>4 DEF HeardOf
    <3> QED BY <2>1, <2>2, <2>4, <3>1, <3>2, <3>5 DEF InOrderAt
  <2>5. CASE j = i /\ ovRead[i] # "pending"
    <3>1. inbound'[i] = Append(inbound[i], r) /\ m_inputBuffer' = m_inputBuffer
      BY <1>0, <1>12, <2>5 DEF SendRequest, PipeTypes
    <3>2. sent'[c] = sent[c] + 1
      BY <1>0, <2>1, <2>2 DEF ClientTypes
    <3>3. /\ Len(inbound'[i]) = Len(inbound[i]) + 1
          /\ \A k \in DOMAIN inbound[i] : inbound'[i][k] = inbound[i][k]
          /\ inbound'[i][Len(inbound[i]) + 1] = r
          /\ DOMAIN inbound'[i] = 1 .. (Len(inbound[i]) + 1)
          /\ DOMAIN inbound[i] = 1 .. Len(inbound[i])
      BY <2>1, <3>1
    <3>4. HeardOf(i)' = HeardOf(i)
      <4>1. HeardOf(i)' = (sent[c] + 1) - (Len(inbound[i]) + 1)
                            - (IF m_inputBuffer[i] = NoRequest THEN 0 ELSE 1)
        BY <2>2, <3>1, <3>2, <3>3 DEF HeardOf
      <4>2. (sent[c] + 1) - (Len(inbound[i]) + 1) = sent[c] - Len(inbound[i])
        <5> DEFINE a == sent[c]
                   b == Len(inbound[i])
        <5>1. a \in Int /\ b \in Int
          BY <2>1
        <5> HIDE DEF a, b
        <5>2. (a + 1) - (b + 1) = a - b
          BY <5>1
        <5> QED BY <5>2, Zenon DEF a, b
      <4> QED BY <4>1, <4>2 DEF HeardOf
    <3>5. ASSUME NEW k \in DOMAIN inbound'[i]
          PROVE  inbound'[i][k] = [client |-> c, n |-> sent'[c] - Len(inbound'[i]) + k]
      <4>1. sent'[c] - Len(inbound'[i]) + k = sent[c] - Len(inbound[i]) + k
        <5>1. k \in Int /\ sent[c] \in Int /\ Len(inbound[i]) \in Int
          BY <2>1, <3>3
        <5>2. (sent[c] + 1) - (Len(inbound[i]) + 1) + k = sent[c] - Len(inbound[i]) + k
          <6> DEFINE a == sent[c]
                     b == Len(inbound[i])
          <6>1. a \in Int /\ b \in Int
            BY <5>1, Zenon DEF a, b
          <6> HIDE DEF a, b
          <6>2. (a + 1) - (b + 1) + k = a - b + k
            BY <5>1, <6>1
          <6> QED BY <6>2, Zenon DEF a, b
        <5> QED BY <3>2, <3>3, <5>2
      <4>2. CASE k = Len(inbound[i]) + 1
        <5>1. sent[c] - Len(inbound[i]) + k = sent[c] + 1
          BY <2>1, <4>2
        <5> QED BY <3>3, <4>1, <4>2, <5>1
      <4>3. CASE k # Len(inbound[i]) + 1
        <5>1. k \in DOMAIN inbound[i]
          BY <2>1, <3>3, <4>3
        <5> QED BY <2>1, <3>3, <4>1, <5>1 DEF InOrderAt
      <4> QED BY <4>2, <4>3
    <3> QED BY <2>1, <2>2, <2>5, <3>1, <3>4, <3>5 DEF InOrderAt
  <2> QED BY <2>3, <2>4, <2>5
<1> QED
  BY <1>1, <1>2, <1>3, <1>4, <1>5, <1>6, <1>8, <1>9, <1>10, <1>11, <1>12
     DEF Next, Worker, Clients, Finished

\* A client is let go when all it sent has been delivered.
LEMMA DrainedStep == IInv /\ SInv /\ [Next]_vars => Drained'
<1> SUFFICES ASSUME IInv, SInv, [Next]_vars PROVE Drained'
  OBVIOUS
<1> USE InstancesAssumption
<1>0. /\ PipeTypes /\ ClientTypes /\ WorkerTypes /\ BuffersFilled
      /\ SessionsMatchStates
      /\ ClientsApart /\ StatesTold /\ PipesEmptied /\ RequestsInOrder /\ Drained
  BY DEF IInv, TypeOK, SInv
<1> DEFINE Kept == /\ UNCHANGED <<client, connCnt, sent>> /\ delivered \subseteq delivered'
                   /\ \A j \in Instance : Attached(j) => Attached(j)'
                   /\ wpc \in {"finish", "ended"} => wpc' \in {"finish", "ended"}
<1>1. ASSUME NEW i \in Instance,
             \/ StartFails(i) \/ ServeRead(i) \/ ServeWrite(i) \/ ServeNewMsg(i)
             \/ ReadMessage(i) \/ ReadPends(i) \/ ReadBroken(i) \/ Deliver(i)
             \/ WriteLocked(i) \/ WriteNothing(i) \/ WriteMessage(i) \/ WriteFails(i)
             \/ DisconnectFails(i) \/ CancelThrows(i)
      PROVE  Kept
  BY <1>1 DEF StartFails, ServeRead, ServeWrite, ServeNewMsg, Chosen, ReadMessage, ReadPends,
     ReadBroken, Deliver, WriteLocked, WriteNothing, WriteMessage, WriteFails, PopHead,
     DisconnectFails, CancelThrows, Attached
<1>2. ASSUME ServeTimeout \/ ServeStop \/ Stop \/ UNCHANGED vars PROVE Kept
  BY <1>2 DEF ServeTimeout, ServeStop, Stop, Idle, Attached
<1>3. ASSUME NEW s \in Senders, Sending(s) PROVE Kept
  BY <1>3 DEF Sending, SendFind, SendLock, SendAdd, SendSignal, Attached
<1>4. ASSUME NEW i \in Instance, Receive(i) \/ Close(i) PROVE Kept
  BY <1>0, <1>4 DEF Receive, Close, Attached, PipeTypes
<1>5. ASSUME NEW i \in Instance, Start(i) \/ Reconnect(i) PROVE Kept
  <2>1. CASE Start(i)
    BY <1>0, <2>1 DEF Start, ConnectPends, ConnectedBefore, Attached, PipeTypes
  <2>2. CASE Reconnect(i)
    BY <1>0, <2>2 DEF Reconnect, ConnectPends, Attached, PipeTypes
  <2> QED BY <1>5, <2>1, <2>2
<1>6. ASSUME NEW i \in Instance, Cancel(i) PROVE Kept
  BY <1>0, <1>6 DEF Cancel, Attached, PipeTypes
<1>7. ASSUME Kept PROVE Drained'
  <2> SUFFICES ASSUME NEW c \in 1 .. connCnt
               PROVE  \/ wpc' \in {"finish", "ended"}
                      \/ \E i \in Instance : Attached(i)' /\ client'[i] = c
                      \/ \A k \in 1 .. sent[c] :
                           \E d \in delivered' : d.msg = [client |-> c, n |-> k]
    BY <1>7 DEF Drained
  <2> QED BY <1>0, <1>7 DEF Drained
<1>8. ASSUME NEW i \in Instance, WaitAll \/ Finish(i) PROVE Drained'
  BY <1>8 DEF WaitAll, Finish, Drained
<1>9. ASSUME NEW i \in Instance, Disconnect(i) PROVE Drained'
  <2>1. Attached(i) /\ i \in reading /\ m_inputBuffer[i] = NoRequest /\ inbound[i] = <<>>
    BY <1>0, <1>9 DEF Disconnect, SessionsMatchStates, Serving, StatesTold, Leaving,
       BuffersFilled, PipesEmptied
  <2>2. client[i] \in Client /\ sent[client[i]] \in Nat
    BY <1>0, <2>1 DEF Attached, BuffersFilled, ClientTypes
  <2>3. HeardOf(i) = sent[client[i]]
    <3>1. Len(inbound[i]) = 0
      BY <2>1
    <3> QED BY <2>1, <2>2, <3>1 DEF HeardOf
  <2>4. \A k \in 1 .. sent[client[i]] :
          \E d \in delivered : d.msg = [client |-> client[i], n |-> k]
    <3>1. InOrderAt(i)
      BY <1>0, <2>1 DEF RequestsInOrder
    <3>2. ASSUME NEW k \in 1 .. sent[client[i]]
          PROVE  \E d \in delivered : d.msg = [client |-> client[i], n |-> k]
      <4>1. [no |-> m_instanceNo[i], msg |-> [client |-> client[i], n |-> k]] \in delivered
        BY <2>3, <3>1 DEF InOrderAt
      <4> QED BY <4>1
    <3> QED BY <3>2
  <2>5. /\ UNCHANGED <<client, connCnt, sent, delivered>>
        /\ \A j \in Instance : j # i /\ Attached(j) => Attached(j)'
        /\ wpc \notin {"finish", "ended"}
    BY <1>0, <1>9 DEF Disconnect, FinishCanceling, Attached, PipeTypes
  <2>6. ASSUME NEW c \in 1 .. connCnt
        PROVE  \/ \E j \in Instance : Attached(j)' /\ client'[j] = c
               \/ \A k \in 1 .. sent[c] :
                     \E d \in delivered : d.msg = [client |-> c, n |-> k]
    <3>1. CASE c = client[i]
      BY <2>4, <3>1
    <3>2. CASE c # client[i]
      BY <1>0, <2>5, <3>2 DEF Drained
    <3> QED BY <3>1, <3>2
  <2> QED BY <2>5, <2>6 DEF Drained
<1>10. ASSUME NEW i \in Instance, Connect(i) PROVE Drained'
  <2>1. /\ connCnt \in Nat /\ connCnt' = connCnt + 1
        /\ UNCHANGED <<sent, delivered, wpc>>
        /\ ~Attached(i) /\ Attached(i)' /\ client'[i] = connCnt + 1
        /\ \A j \in Instance : j # i => (Attached(j)' = Attached(j)) /\ client'[j] = client[j]
    BY <1>0, <1>10 DEF Connect, Attached, PipeTypes, ClientTypes
  <2>2. ASSUME NEW c \in 1 .. connCnt'
        PROVE  \/ wpc \in {"finish", "ended"}
               \/ \E j \in Instance : Attached(j)' /\ client'[j] = c
               \/ \A k \in 1 .. sent[c] :
                     \E d \in delivered : d.msg = [client |-> c, n |-> k]
    <3>1. CASE c = connCnt + 1
      BY <2>1, <3>1
    <3>2. CASE c \in 1 .. connCnt
      BY <1>0, <2>1, <3>2 DEF Drained
    <3> QED BY <2>1, <3>1, <3>2
  <2> QED BY <2>1, <2>2 DEF Drained
<1>11. ASSUME NEW i \in Instance, SendRequest(i) PROVE Drained'
  <2>1. /\ UNCHANGED <<client, pipeState, connCnt, delivered, wpc>>
        /\ sent' = [sent EXCEPT ![client[i]] = sent[client[i]] + 1]
        /\ Attached(i)
    BY <1>11 DEF SendRequest, Attached
  <2>2. \A c \in 1 .. connCnt : c # client[i] => sent'[c] = sent[c]
    BY <1>0, <2>1 DEF ClientTypes
  <2>3. ASSUME NEW c \in 1 .. connCnt
        PROVE  \/ wpc \in {"finish", "ended"}
               \/ \E j \in Instance : Attached(j) /\ client[j] = c
               \/ \A k \in 1 .. sent'[c] :
                     \E d \in delivered : d.msg = [client |-> c, n |-> k]
    <3>1. CASE c = client[i]
      BY <2>1, <3>1
    <3>2. CASE c # client[i]
      BY <1>0, <2>2, <3>2 DEF Drained
    <3> QED BY <3>1, <3>2
  <2> QED BY <2>1, <2>3 DEF Drained, Attached
<1> QED
  BY <1>1, <1>2, <1>3, <1>4, <1>5, <1>6, <1>7, <1>8, <1>9, <1>10, <1>11, InstancesAssumption
     DEF Next, Worker, Clients, Finished

\* Some of n clients.
LEMMA SomeOf ==
    ASSUME NEW n \in Nat, NEW S \in SUBSET (1 .. n)
    PROVE  IsFiniteSet(S) /\ Cardinality(S) \in Nat /\ Cardinality(S) <= n
<1>1. IsFiniteSet(1 .. n) /\ Cardinality(1 .. n) = n
  BY FS_Interval
<1>2. IsFiniteSet(S) /\ Cardinality(S) <= n
  BY <1>1, FS_Subset
<1> QED BY <1>2, FS_CardinalityType

\* Each new number replaces that of a client that is gone.
LEMMA CountedStep == IInv /\ SInv /\ [Next]_vars => NumbersCounted'
<1> SUFFICES ASSUME IInv, SInv, [Next]_vars PROVE NumbersCounted'
  OBVIOUS
<1> USE InstancesAssumption, BoundsAssumption
<1>0. /\ PipeTypes /\ ClientTypes /\ WorkerTypes /\ BuffersFilled /\ SessionsMatchStates
      /\ ClientsApart /\ StatesTold /\ PipesEmptied /\ NumbersCounted
  BY DEF IInv, TypeOK, SInv
<1>00. IsFiniteSet(Gone) /\ Cardinality(Gone) \in Nat /\ INSTANCES \in Nat /\ m_instanceCnt \in Nat
  <2>1. connCnt \in Nat /\ Gone \in SUBSET (1 .. connCnt)
    BY <1>0 DEF ClientTypes, Gone
  <2> QED BY <1>0, <2>1, SomeOf DEF WorkerTypes
<1> DEFINE AttachedKept == /\ UNCHANGED <<connCnt, client>>
                           /\ \A j \in Instance : Attached(j)' = Attached(j)
           Kept == AttachedKept /\ UNCHANGED <<m_instanceCnt, m_instanceNo>>
<1>1. ASSUME NEW i \in Instance,
             \/ StartFails(i) \/ ServeRead(i) \/ ServeWrite(i) \/ ServeNewMsg(i)
             \/ ReadMessage(i) \/ ReadPends(i) \/ ReadBroken(i) \/ Deliver(i)
             \/ WriteLocked(i) \/ WriteNothing(i) \/ WriteMessage(i) \/ WriteFails(i)
             \/ CancelThrows(i) \/ SendRequest(i) \/ Receive(i)
      PROVE  Kept
  BY <1>1 DEF StartFails, ServeRead, ServeWrite, ServeNewMsg, Chosen, ReadMessage, ReadPends,
     ReadBroken, Deliver, WriteLocked, WriteNothing, WriteMessage, WriteFails, PopHead,
     CancelThrows, SendRequest, Receive, Attached
<1>2. ASSUME ServeTimeout \/ ServeStop \/ WaitAll \/ Stop \/ UNCHANGED vars PROVE Kept
  BY <1>2 DEF ServeTimeout, ServeStop, WaitAll, Stop, Idle, Attached
<1>3. ASSUME NEW s \in Senders, Sending(s) PROVE Kept
  BY <1>3 DEF Sending, SendFind, SendLock, SendAdd, SendSignal, Attached
<1>4. ASSUME NEW i \in Instance, Start(i) \/ Cancel(i) \/ Close(i) PROVE Kept
  <2>1. CASE Start(i)
    BY <1>0, <2>1 DEF Start, ConnectPends, ConnectedBefore, Attached, PipeTypes
  <2>2. CASE Cancel(i)
    BY <1>0, <2>2 DEF Cancel, Attached, PipeTypes
  <2>3. CASE Close(i)
    BY <1>0, <2>3 DEF Close, Attached, PipeTypes
  <2> QED BY <1>4, <2>1, <2>2, <2>3
<1>5. ASSUME AttachedKept PROVE Gone' = Gone
  BY <1>5 DEF Gone
<1>6. ASSUME Kept PROVE NumbersCounted'
  <2>1. Gone' = Gone /\ (wpc' # "failed" => wpc # "failed")
    BY <1>5, <1>6, FailedForGood
  <2> QED BY <1>0, <1>6, <2>1 DEF NumbersCounted
<1>7. ASSUME NEW i \in Instance, DisconnectFails(i) PROVE NumbersCounted'
  <2>1. m_instanceCnt' = m_instanceCnt + 1 /\ wpc' = "failed" /\ m_instanceNo' = m_instanceNo
    BY <1>7 DEF DisconnectFails, NewInstanceNo
  <2> QED BY <1>0, <1>00, <2>1 DEF NumbersCounted
<1>8. ASSUME NEW i \in Instance, Reconnect(i) PROVE NumbersCounted'
  <2>1. AttachedKept
    BY <1>0, <1>8 DEF Reconnect, ConnectPends, Attached, PipeTypes
  <2>2. Gone' = Gone /\ wpc # "failed"
    BY <1>5, <1>8, <2>1 DEF Reconnect
  <2>3. m_instanceCnt' = m_instanceCnt /\ m_instanceNo' = [m_instanceNo EXCEPT ![i] = m_instanceCnt]
    BY <1>8 DEF Reconnect
  <2> QED BY <1>0, <2>2, <2>3 DEF NumbersCounted, WorkerTypes
<1>9. ASSUME NEW i \in Instance, Disconnect(i) PROVE NumbersCounted'
  <2>1. Attached(i) /\ i \in reading /\ wpc = "disconnect"
    BY <1>0, <1>9 DEF Disconnect, SessionsMatchStates, Serving, StatesTold, Leaving
  <2>2. client[i] \in 1 .. connCnt /\ client[i] \notin Gone
    <3>1. client[i] \in Client
      BY <1>0, <2>1 DEF BuffersFilled, Attached
    <3>2. client[i] <= connCnt /\ connCnt \in Nat
      BY <1>0 DEF ClientTypes, ClientsApart
    <3>3. client[i] \in 1 .. connCnt
      BY <3>1, <3>2
    <3> QED BY <2>1, <3>3 DEF Gone
  <2>3. /\ UNCHANGED <<client, connCnt, m_instanceNo>>
        /\ \A j \in Instance : Attached(j)' = (j # i /\ Attached(j))
        /\ m_instanceCnt' = m_instanceCnt + 1
    BY <1>0, <1>9, <2>1 DEF Disconnect, FinishCanceling, NewInstanceNo, Attached, PipeTypes
  <2>4. \A j \in Instance : j # i => client[j] # client[i]
    BY <1>0, <2>2 DEF ClientsApart
  <2>5. Gone' = Gone \cup {client[i]}
    BY <2>1, <2>2, <2>3, <2>4 DEF Gone
  <2>6. Cardinality(Gone') = Cardinality(Gone) + 1
    BY <1>00, <2>2, <2>5, FS_AddElement
  <2> QED BY <1>0, <1>00, <2>1, <2>3, <2>6 DEF NumbersCounted
<1>10. ASSUME NEW i \in Instance, Finish(i) PROVE NumbersCounted'
  <2>1. /\ UNCHANGED <<client, connCnt, m_instanceNo, m_instanceCnt>> /\ wpc # "failed"
        /\ \A j \in Instance : Attached(j)' => Attached(j)
    BY <1>0, <1>10 DEF Finish, FinishCanceling, Attached, PipeTypes
  <2>2. Gone \in SUBSET (Gone')
    BY <2>1 DEF Gone
  <2>3. connCnt \in Nat /\ Gone' \in SUBSET (1 .. connCnt)
    BY <1>0, <2>1 DEF ClientTypes, Gone
  <2>4. IsFiniteSet(Gone') /\ Cardinality(Gone') \in Nat
    BY <2>3, SomeOf
  <2>5. Cardinality(Gone) <= Cardinality(Gone')
    BY <2>2, <2>4, FS_Subset
  <2> QED BY <1>0, <1>00, <2>1, <2>4, <2>5 DEF NumbersCounted
<1>11. ASSUME NEW i \in Instance, Connect(i) PROVE NumbersCounted'
  <2>1. /\ connCnt \in Nat /\ connCnt' = connCnt + 1
        /\ UNCHANGED <<m_instanceCnt, m_instanceNo, wpc>>
        /\ ~Attached(i) /\ Attached(i)' /\ client'[i] = connCnt + 1
        /\ \A j \in Instance : j # i => (Attached(j)' = Attached(j)) /\ client'[j] = client[j]
    BY <1>0, <1>11 DEF Connect, Attached, PipeTypes, ClientTypes
  <2>2. \A c \in 1 .. (connCnt + 1) : c \in Gone' <=> c \in Gone
    <3>1. ASSUME NEW c \in 1 .. (connCnt + 1) PROVE c \in Gone' <=> c \in Gone
      <4>1. CASE c = connCnt + 1
        BY <2>1, <4>1 DEF Gone
      <4>2. CASE c \in 1 .. connCnt
        BY <2>1, <4>2 DEF Gone
      <4> QED BY <2>1, <4>1, <4>2
    <3> QED BY <3>1
  <2>3. Gone' \subseteq 1 .. (connCnt + 1) /\ Gone \subseteq 1 .. (connCnt + 1)
    BY <2>1 DEF Gone
  <2>4. Gone' = Gone
    BY <2>2, <2>3
  <2> QED BY <1>0, <2>1, <2>4 DEF NumbersCounted
<1> QED
  BY <1>1, <1>2, <1>3, <1>4, <1>6, <1>7, <1>8, <1>9, <1>10, <1>11
     DEF Next, Worker, Clients, Finished

-----------------------------------------------------------------------------
(* Lemmas about queues of replies *)

\* Where the messages of a queue come from when one is added or taken.
LEMMA AddedFrom ==
    ASSUME NEW q \in Seq(Message), NEW m
    PROVE  \A k \in DOMAIN Append(q, m) :
              \/ k \in DOMAIN q /\ Append(q, m)[k] = q[k]
              \/ k = Len(q) + 1 /\ Append(q, m)[k] = m
<1>1. Len(q) \in Nat /\ DOMAIN q = 1 .. Len(q)
  OBVIOUS
<1>2. DOMAIN Append(q, m) = 1 .. (Len(q) + 1)
  BY <1>1
<1>3. \A k \in 1 .. (Len(q) + 1) : k \in 1 .. Len(q) \/ k = Len(q) + 1
  BY <1>1
<1> QED BY <1>1, <1>2, <1>3

LEMMA TailFrom ==
    ASSUME NEW q \in Seq(Message), q # <<>>
    PROVE  /\ Tail(q) \in Seq(Message) /\ Head(q) = q[1] /\ 1 \in DOMAIN q
           /\ \A k \in DOMAIN Tail(q) :
                 k + 1 \in DOMAIN q /\ k + 1 > 1 /\ Tail(q)[k] = q[k + 1]
<1>1. Len(q) \in Nat \ {0} /\ DOMAIN q = 1 .. Len(q)
  OBVIOUS
<1>2. Tail(q) \in Seq(Message) /\ Len(Tail(q)) = Len(q) - 1
  BY <1>1
<1>3. DOMAIN Tail(q) = 1 .. (Len(q) - 1)
  BY <1>2
<1>4. \A k \in 1 .. (Len(q) - 1) : k + 1 \in DOMAIN q /\ k + 1 > 1 /\ Tail(q)[k] = q[k + 1]
  BY <1>1
<1> QED BY <1>1, <1>2, <1>3, <1>4

LEMMA PrefixFrom ==
    ASSUME NEW q \in Seq(Message), NEW n \in Nat, n <= Len(q)
    PROVE  \A k \in DOMAIN SubSeq(q, 1, n) :
              k \in DOMAIN q /\ SubSeq(q, 1, n)[k] = q[k]
<1>1. Len(q) \in Nat /\ DOMAIN q = 1 .. Len(q)
  OBVIOUS
<1>2. DOMAIN SubSeq(q, 1, n) = 1 .. n
  BY <1>1
<1> QED BY <1>1, <1>2

\* A queue stays sorted when a message that all others precede is added, ...
LEMMA SortedAdd ==
    ASSUME NEW q \in Seq(Message), NEW m, Sorted(q),
           \A k \in DOMAIN q : Ordered(q[k], m)
    PROVE  Sorted(Append(q, m))
<1> SUFFICES ASSUME NEW j \in DOMAIN Append(q, m), NEW k \in DOMAIN Append(q, m), j < k
             PROVE  Ordered(Append(q, m)[j], Append(q, m)[k])
  BY DEF Sorted
<1>1. Len(q) \in Nat /\ DOMAIN q = 1 .. Len(q) /\ DOMAIN Append(q, m) = 1 .. (Len(q) + 1)
  OBVIOUS
<1>2. j \in DOMAIN q /\ Append(q, m)[j] = q[j]
  BY <1>1, AddedFrom
<1>3. \/ k \in DOMAIN q /\ Append(q, m)[k] = q[k]
      \/ Append(q, m)[k] = m
  BY AddedFrom
<1> QED BY <1>2, <1>3 DEF Sorted

\* ... and when messages are taken from either end.
LEMMA SortedTail ==
    ASSUME NEW q \in Seq(Message), q # <<>>, Sorted(q)
    PROVE  Sorted(Tail(q)) /\ Precedes(<<Head(q)>>, Tail(q))
<1>1. Sorted(Tail(q))
  <2> SUFFICES ASSUME NEW j \in DOMAIN Tail(q), NEW k \in DOMAIN Tail(q), j < k
               PROVE  Ordered(Tail(q)[j], Tail(q)[k])
    BY DEF Sorted
  <2>1. j \in Int /\ k \in Int
    BY TailFrom
  <2>2. j + 1 < k + 1
    BY <2>1
  <2> QED BY <2>2, TailFrom DEF Sorted
<1>2. \A k \in DOMAIN Tail(q) : Ordered(Head(q), Tail(q)[k])
  <2> TAKE k \in DOMAIN Tail(q)
  <2> QED BY TailFrom DEF Sorted
<1> QED BY <1>1, <1>2 DEF Precedes

LEMMA SortedPrefix ==
    ASSUME NEW q \in Seq(Message), NEW n \in Nat, n <= Len(q), Sorted(q)
    PROVE  Sorted(SubSeq(q, 1, n))
BY PrefixFrom DEF Sorted

\* What precedes a queue precedes the rest of it, and what a queue precedes its
\* rest precedes.
LEMMA PrecedesTail ==
    ASSUME NEW q \in Seq(Message), NEW r \in Seq(Message), Precedes(q, r), r # <<>>
    PROVE  Precedes(q, Tail(r))
BY TailFrom DEF Precedes

LEMMA PrecedesAdd ==
    ASSUME NEW q \in Seq(Message), NEW r \in Seq(Message), NEW m,
           Precedes(q, r), \A j \in DOMAIN q : Ordered(q[j], m)
    PROVE  Precedes(q, Append(r, m))
<1> SUFFICES ASSUME NEW j \in DOMAIN q, NEW k \in DOMAIN Append(r, m)
             PROVE  Ordered(q[j], Append(r, m)[k])
  BY DEF Precedes
<1>1. \/ k \in DOMAIN r /\ Append(r, m)[k] = r[k]
      \/ Append(r, m)[k] = m
  BY AddedFrom
<1> QED BY <1>1 DEF Precedes

LEMMA PrecedesPrefix ==
    ASSUME NEW q \in Seq(Message), NEW r \in Seq(Message), NEW n \in Nat, n <= Len(q),
           Precedes(q, r)
    PROVE  Precedes(SubSeq(q, 1, n), r)
BY PrefixFrom DEF Precedes

LEMMA PrecededPrefix ==
    ASSUME NEW q \in Seq(Message), NEW r \in Seq(Message), NEW n \in Nat, n <= Len(r),
           Precedes(q, r)
    PROVE  Precedes(q, SubSeq(r, 1, n))
BY PrefixFrom DEF Precedes

\* The head of one queue moves to the end of the queue before it.
LEMMA MoveHead ==
    ASSUME NEW q \in Seq(Message), NEW r \in Seq(Message), r # <<>>,
           Sorted(q), Sorted(r), Precedes(q, r)
    PROVE  /\ Append(q, Head(r)) \in Seq(Message) /\ Tail(r) \in Seq(Message)
           /\ Sorted(Append(q, Head(r))) /\ Sorted(Tail(r))
           /\ Precedes(Append(q, Head(r)), Tail(r))
<1>1. /\ Head(r) = r[1] /\ 1 \in DOMAIN r /\ Tail(r) \in Seq(Message) /\ Head(r) \in Message
  BY TailFrom
<1>2. \A j \in DOMAIN q : Ordered(q[j], Head(r))
  BY <1>1 DEF Precedes
<1>3. Append(q, Head(r)) \in Seq(Message)
  BY <1>1
<1>4. Sorted(Append(q, Head(r))) /\ Sorted(Tail(r))
  BY <1>2, SortedAdd, SortedTail
<1>5. ASSUME NEW j \in DOMAIN Append(q, Head(r)), NEW k \in DOMAIN Tail(r)
      PROVE  Ordered(Append(q, Head(r))[j], Tail(r)[k])
  <2>1. CASE j \in DOMAIN q /\ Append(q, Head(r))[j] = q[j]
    <3>1. Precedes(q, Tail(r))
      BY PrecedesTail
    <3> QED BY <2>1, <3>1 DEF Precedes
  <2>2. CASE Append(q, Head(r))[j] = Head(r)
    <3>1. k + 1 \in DOMAIN r /\ 1 < k + 1 /\ Tail(r)[k] = r[k + 1]
      BY TailFrom
    <3> QED BY <1>1, <2>2, <3>1 DEF Sorted
  <2> QED BY <2>1, <2>2, AddedFrom
<1> QED BY <1>1, <1>3, <1>4, <1>5 DEF Precedes

\* Replies up to a request stay so for a later request, and in parts.
LEMMA UpToLater ==
    ASSUME NEW q \in Seq(Message), NEW c \in Int, NEW n \in Int, NEW d \in Int, NEW l \in Int,
           UpTo(q, c, n), c < d \/ (c = d /\ n <= l)
    PROVE  UpTo(q, d, l)
<1> SUFFICES ASSUME NEW k \in DOMAIN q, IsReply(q[k])
             PROVE  q[k].re.client < d \/ (q[k].re.client = d /\ q[k].re.n <= l)
  BY DEF UpTo
<1>1. q[k] \in Message
  OBVIOUS
<1>2. q[k].re.client \in Int /\ q[k].re.n \in Int
  BY <1>1, BoundsAssumption DEF Message, IsReply, Request
<1>3. q[k].re.client < c \/ (q[k].re.client = c /\ q[k].re.n <= n)
  BY DEF UpTo
<1> QED BY <1>2, <1>3

LEMMA UpToTail ==
    ASSUME NEW q \in Seq(Message), q # <<>>, NEW c, NEW n, UpTo(q, c, n)
    PROVE  UpTo(Tail(q), c, n)
BY TailFrom DEF UpTo

LEMMA UpToPrefix ==
    ASSUME NEW q \in Seq(Message), NEW l \in Nat, l <= Len(q), NEW c, NEW n, UpTo(q, c, n)
    PROVE  UpTo(SubSeq(q, 1, l), c, n)
BY PrefixFrom DEF UpTo

LEMMA UpToAdd ==
    ASSUME NEW q \in Seq(Message), NEW m, NEW c, NEW n, UpTo(q, c, n),
           IsReply(m) => m.re.client < c \/ (m.re.client = c /\ m.re.n <= n)
    PROVE  UpTo(Append(q, m), c, n)
<1> SUFFICES ASSUME NEW k \in DOMAIN Append(q, m), IsReply(Append(q, m)[k])
             PROVE  LET x == Append(q, m)[k] IN
                    x.re.client < c \/ (x.re.client = c /\ x.re.n <= n)
  BY DEF UpTo
<1>1. \/ k \in DOMAIN q /\ Append(q, m)[k] = q[k]
      \/ Append(q, m)[k] = m
  BY AddedFrom
<1> QED BY <1>1 DEF UpTo

LEMMA UpToHead ==
    ASSUME NEW q \in Seq(Message), q # <<>>, NEW c, NEW n, UpTo(q, c, n)
    PROVE  IsReply(Head(q)) =>
              Head(q).re.client < c \/ (Head(q).re.client = c /\ Head(q).re.n <= n)
BY TailFrom DEF UpTo

\* The answer to the next request comes after them all.
LEMMA NextAnswer ==
    ASSUME NEW q \in Seq(Message), NEW c \in Nat, NEW n \in Nat, UpTo(q, c, n),
           NEW m, m.re = [client |-> c, n |-> n + 1]
    PROVE  \A k \in DOMAIN q : Ordered(q[k], m)
<1> TAKE k \in DOMAIN q
<1> SUFFICES ASSUME IsReply(q[k])
             PROVE  q[k].re.client < c \/ (q[k].re.client = c /\ q[k].re.n < n + 1)
  BY DEF Ordered
<1>1. q[k] \in Message
  OBVIOUS
<1>2. q[k].re.client \in Int /\ q[k].re.n \in Int
  BY <1>1, BoundsAssumption DEF Message, IsReply, Request
<1>3. q[k].re.client < c \/ (q[k].re.client = c /\ q[k].re.n <= n)
  BY DEF UpTo
<1> QED BY <1>2, <1>3

-----------------------------------------------------------------------------
(* The order of replies *)

\* What the instance has heard is a number up to MaxRequests.
LEMMA HeardIsNumber ==
    ASSUME TypeOK, BuffersFilled, RequestsInOrder, NEW j \in Instance
    PROVE  /\ Heard(j) \in Int
           /\ Attached(j) => HeardOf(j) \in Nat /\ HeardOf(j) <= MaxRequests
<1> USE BoundsAssumption
<1>1. ASSUME Attached(j) PROVE HeardOf(j) \in Nat /\ HeardOf(j) <= MaxRequests
  <2>1. /\ client[j] \in Client /\ sent[client[j]] \in 0 .. MaxRequests
        /\ Len(inbound[j]) \in Nat
    BY <1>1 DEF TypeOK, PipeTypes, ClientTypes, BuffersFilled, Attached
  <2>2. HeardOf(j) >= 0
    BY <1>1 DEF RequestsInOrder, InOrderAt
  <2> DEFINE a == sent[client[j]]
             b == Len(inbound[j])
             q == IF m_inputBuffer[j] = NoRequest THEN 0 ELSE 1
  <2>3. HeardOf(j) = a - b - q
    BY Zenon DEF HeardOf
  <2>4. a \in 0 .. MaxRequests /\ b \in Nat /\ q \in {0, 1}
    BY <2>1
  <2> HIDE DEF a, b, q
  <2> QED BY <2>2, <2>3, <2>4
<1> QED BY <1>1 DEF Heard

\* Deliveries are never taken back, and only a connection attaches a client.
LEMMA OnlyConnectAttaches ==
    IInv /\ SInv /\ [Next]_vars =>
        /\ delivered \subseteq delivered'
        /\ \A j \in Instance : Attached(j)' /\ client'[j] = client[j] => Attached(j)
<1> SUFFICES ASSUME IInv, SInv, [Next]_vars
             PROVE  /\ delivered \subseteq delivered'
                    /\ \A j \in Instance :
                          Attached(j)' /\ client'[j] = client[j] => Attached(j)
  OBVIOUS
<1> USE InstancesAssumption
<1>0. PipeTypes /\ ClientTypes /\ ClientsApart
  BY DEF IInv, TypeOK, SInv
<1> DEFINE Kept == /\ delivered \subseteq delivered'
                   /\ \A j \in Instance : Attached(j)' => Attached(j)
<1>1. ASSUME NEW i \in Instance,
             \/ StartFails(i) \/ ServeRead(i) \/ ServeWrite(i) \/ ServeNewMsg(i)
             \/ ReadMessage(i) \/ ReadPends(i) \/ ReadBroken(i) \/ Deliver(i)
             \/ WriteLocked(i) \/ WriteNothing(i) \/ WriteMessage(i) \/ WriteFails(i)
             \/ DisconnectFails(i) \/ CancelThrows(i) \/ SendRequest(i) \/ Receive(i)
      PROVE  Kept
  BY <1>1 DEF StartFails, ServeRead, ServeWrite, ServeNewMsg, ReadMessage, ReadPends,
     ReadBroken, Deliver, WriteLocked, WriteNothing, WriteMessage, WriteFails, PopHead,
     DisconnectFails, CancelThrows, SendRequest, Receive, Attached
<1>2. ASSUME ServeTimeout \/ ServeStop \/ WaitAll \/ Stop \/ UNCHANGED vars PROVE Kept
  BY <1>2 DEF ServeTimeout, ServeStop, WaitAll, Stop, Attached
<1>3. ASSUME NEW s \in Senders, Sending(s) PROVE Kept
  BY <1>3 DEF Sending, SendFind, SendLock, SendAdd, SendSignal, Attached
<1>4. ASSUME NEW i \in Instance, Start(i) \/ Reconnect(i) PROVE Kept
  <2>1. CASE Start(i)
    BY <1>0, <2>1 DEF Start, ConnectPends, ConnectedBefore, Attached, PipeTypes
  <2>2. CASE Reconnect(i)
    BY <1>0, <2>2 DEF Reconnect, ConnectPends, Attached, PipeTypes
  <2> QED BY <1>4, <2>1, <2>2
<1>5. ASSUME NEW i \in Instance, Disconnect(i) \/ Finish(i) PROVE Kept
  BY <1>0, <1>5 DEF Disconnect, Finish, FinishCanceling, Attached, PipeTypes
<1>6. ASSUME NEW i \in Instance, Cancel(i) \/ Close(i) PROVE Kept
  <2>1. CASE Cancel(i)
    BY <1>0, <2>1 DEF Cancel, Attached, PipeTypes
  <2>2. CASE Close(i)
    BY <1>0, <2>2 DEF Close, Attached, PipeTypes
  <2> QED BY <1>6, <2>1, <2>2
<1>7. ASSUME NEW i \in Instance, Connect(i)
      PROVE  /\ delivered \subseteq delivered'
             /\ \A j \in Instance : Attached(j)' /\ client'[j] = client[j] => Attached(j)
  <2>1. /\ delivered' = delivered /\ client'[i] = connCnt + 1 /\ connCnt \in Nat
        /\ \A j \in Instance : j # i => pipeState'[j] = pipeState[j]
    BY <1>0, <1>7 DEF Connect, PipeTypes, ClientTypes
  <2>2. client'[i] # client[i]
    <3>1. client[i] <= connCnt /\ client[i] \in Nat
      BY <1>0 DEF ClientsApart, PipeTypes
    <3> QED BY <2>1, <3>1
  <2> QED BY <2>1, <2>2 DEF Attached
<1> QED
  BY <1>1, <1>2, <1>3, <1>4, <1>5, <1>6, <1>7 DEF Next, Worker, Clients, Finished

\* While an instance has the same client, what it has heard grows.
LEMMA HeardGrows ==
    IInv /\ SInv /\ [Next]_vars =>
        \A j \in Instance : /\ Heard(j) \in Int /\ Heard(j)' \in Int
                            /\ client'[j] = client[j] => Heard(j) <= Heard(j)'
<1> SUFFICES ASSUME IInv, SInv, [Next]_vars, NEW j \in Instance
             PROVE  /\ Heard(j) \in Int /\ Heard(j)' \in Int
                    /\ client'[j] = client[j] => Heard(j) <= Heard(j)'
  OBVIOUS
<1> USE BoundsAssumption
<1>1. TypeOK /\ BuffersFilled /\ RequestsInOrder
  BY DEF IInv, SInv
<1>2. TypeOK' /\ BuffersFilled' /\ RequestsInOrder'
  BY Inductive, HeardStep DEF IInv
<1>3. /\ Heard(j) \in Int
      /\ Attached(j) => HeardOf(j) \in Nat /\ HeardOf(j) <= MaxRequests
  BY <1>1, HeardIsNumber
<1>4. /\ Heard(j)' \in Int
      /\ Attached(j)' => HeardOf(j)' \in Nat /\ HeardOf(j)' <= MaxRequests
  <2>1. ASSUME Attached(j)' PROVE HeardOf(j)' \in Nat /\ HeardOf(j)' <= MaxRequests
    <3>1. /\ client'[j] \in Client /\ sent'[client'[j]] \in 0 .. MaxRequests
          /\ Len(inbound'[j]) \in Nat
      BY <1>2, <2>1 DEF TypeOK, PipeTypes, ClientTypes, BuffersFilled, Attached
    <3>2. HeardOf(j)' >= 0
      BY <1>2, <2>1 DEF RequestsInOrder, InOrderAt
    <3> DEFINE a == sent'[client'[j]]
               b == Len(inbound'[j])
               q == IF m_inputBuffer'[j] = NoRequest THEN 0 ELSE 1
    <3>3. HeardOf(j)' = a - b - q
      BY Zenon DEF HeardOf
    <3>4. a \in 0 .. MaxRequests /\ b \in Nat /\ q \in {0, 1}
      BY <3>1
    <3> HIDE DEF a, b, q
    <3> QED BY <3>2, <3>3, <3>4
  <2> QED BY <2>1 DEF Heard
<1>5. ASSUME client'[j] = client[j] PROVE Heard(j) <= Heard(j)'
  <2>1. CASE ~Attached(j)'
    BY <1>3, <2>1 DEF Heard
  <2>2. CASE Attached(j)'
    <3>1. Attached(j) /\ delivered \subseteq delivered'
      BY <1>5, <2>2, OnlyConnectAttaches
    <3>2. Heard(j) = HeardOf(j) /\ Heard(j)' = HeardOf(j)'
      BY <2>2, <3>1 DEF Heard
    <3>3. InOrderAt(j) /\ InOrderAt(j)'
      BY <1>1, <1>2, <2>2, <3>1 DEF RequestsInOrder
    <3>4. CASE HeardOf(j) = 0
      BY <1>4, <2>2, <3>2, <3>4
    <3>5. CASE HeardOf(j) # 0
      <4> DEFINE d == [no |-> m_instanceNo[j],
                       msg |-> [client |-> client[j], n |-> HeardOf(j)]]
      <4>1. HeardOf(j) \in 1 .. HeardOf(j)
        BY <1>3, <3>1, <3>5
      <4>2. d \in delivered'
        BY <3>1, <3>3, <4>1 DEF InOrderAt
      <4>3. d.msg.n \in 1 .. HeardOf(j)'
        BY <1>5, <3>3, <4>2 DEF InOrderAt
      <4> QED BY <1>3, <1>4, <2>2, <3>1, <3>2, <4>3
    <3> QED BY <3>4, <3>5
  <2> QED BY <2>1, <2>2
<1> QED BY <1>3, <1>4, <1>5

\* Replies on their way keep their order at every step.
LEMMA OrderStep == IInv /\ SInv /\ [Next]_vars => RepliesSorted'
<1> SUFFICES ASSUME IInv, SInv, [Next]_vars PROVE RepliesSorted'
  OBVIOUS
<1> USE InstancesAssumption, BoundsAssumption, QuotaAssumption
<1>0. /\ PipeTypes /\ ClientTypes /\ WorkerTypes /\ EventTypes /\ QueueTypes /\ SenderTypes
      /\ TypeOK /\ BuffersFilled /\ SessionsMatchStates /\ NumbersNameSessions
      /\ ClientsApart /\ StatesTold /\ PipesEmptied /\ RequestsInOrder /\ RepliesSorted
  BY DEF IInv, TypeOK, SInv
<1>a. \A j \in Instance :
         /\ Heard(j) \in Int /\ Heard(j)' \in Int
         /\ client'[j] = client[j] => Heard(j) <= Heard(j)'
  BY HeardGrows
<1>b. /\ \A j \in Instance : outbound[j] \in Seq(Message) /\ m_outputBuffers[j] \in Seq(Message)
                             /\ client[j] \in Int /\ OnTheirWay(j)
      /\ \A c \in Client : received[c] \in Seq(Message) /\ Sorted(received[c])
      /\ NoReplyToEarlierClient
  <2>1. \A j \in Instance : outbound[j] \in Seq(Message) /\ m_outputBuffers[j] \in Seq(Message)
                             /\ client[j] \in Int
    BY <1>0 DEF PipeTypes, QueueTypes
  <2>2. \A c \in Client : received[c] \in Seq(Message)
    BY <1>0 DEF ClientTypes
  <2> QED BY <1>0, <2>1, <2>2 DEF RepliesSorted
<1>c. \A j \in Instance : pipeState[j] = "connected" =>
         client[j] \in Client /\ received[client[j]] \in Seq(Message)
  BY <1>0, <1>b DEF BuffersFilled
\* What is up to the requests heard of stays so.
<1>d. ASSUME NEW j \in Instance, client'[j] = client[j], NEW q \in Seq(Message),
             UpTo(q, client[j], Heard(j))
      PROVE  UpTo(q, client[j], Heard(j)')
  BY <1>a, <1>b, <1>d, UpToLater
<1> DEFINE Told == UNCHANGED received
           Kept(j) == /\ outbound'[j] \in {outbound[j], <<>>}
                      /\ m_outputBuffers'[j] = m_outputBuffers[j]
                      /\ client'[j] = client[j]
                      /\ pipeState'[j] = "connected" => pipeState[j] = "connected"
           KeptAll == Told /\ \A j \in Instance : Kept(j)
<1>1. ASSUME NEW j \in Instance, Kept(j),
             pipeState[j] = "connected" => received'[client[j]] = received[client[j]]
      PROVE  OnTheirWay(j)'
  <2>1. OnTheirWay(j)
    BY <1>b
  <2>2. Sorted(outbound'[j]) /\ Sorted(m_outputBuffers'[j]) /\ Precedes(outbound'[j], m_outputBuffers'[j])
    BY <1>1, <2>1 DEF OnTheirWay, Sorted, Precedes
  <2>3. UpTo(outbound'[j], client[j], Heard(j)') /\ UpTo(m_outputBuffers'[j], client[j], Heard(j)')
    <3>1. UpTo(outbound[j], client[j], Heard(j)') /\ UpTo(m_outputBuffers[j], client[j], Heard(j)')
      BY <1>b, <1>d, <1>1, <2>1 DEF OnTheirWay
    <3> QED BY <1>1, <3>1 DEF UpTo
  <2>4. ASSUME pipeState'[j] = "connected"
        PROVE  /\ Precedes(received'[client[j]], outbound'[j])
               /\ Precedes(received'[client[j]], m_outputBuffers'[j])
               /\ UpTo(received'[client[j]], client[j], Heard(j)')
    <3>1. pipeState[j] = "connected" /\ received'[client[j]] = received[client[j]]
      BY <1>1, <2>4
    <3>2. UpTo(received[client[j]], client[j], Heard(j)')
      BY <1>c, <1>d, <1>1, <2>1, <3>1 DEF OnTheirWay
    <3> QED BY <1>1, <2>1, <3>1, <3>2 DEF OnTheirWay, Precedes
  <2> QED BY <1>1, <2>2, <2>3, <2>4 DEF OnTheirWay
<1>2. ASSUME Told, \A j \in Instance : OnTheirWay(j)' PROVE RepliesSorted'
  BY <1>b, <1>2 DEF RepliesSorted, NoReplyToEarlierClient
<1>3. ASSUME KeptAll PROVE RepliesSorted'
  BY <1>1, <1>2, <1>3
<1>4. ASSUME NEW i \in Instance,
             \/ StartFails(i) \/ ServeRead(i) \/ ServeWrite(i) \/ ServeNewMsg(i)
             \/ ReadMessage(i) \/ ReadPends(i) \/ ReadBroken(i)
             \/ WriteLocked(i) \/ WriteNothing(i)
             \/ DisconnectFails(i) \/ CancelThrows(i) \/ SendRequest(i)
      PROVE  KeptAll
  BY <1>4 DEF StartFails, ServeRead, ServeWrite, ServeNewMsg, ReadMessage, ReadPends,
     ReadBroken, WriteLocked, WriteNothing, DisconnectFails, CancelThrows, SendRequest
<1>5. ASSUME ServeTimeout \/ ServeStop \/ WaitAll \/ Stop \/ UNCHANGED vars PROVE KeptAll
  BY <1>5 DEF ServeTimeout, ServeStop, WaitAll, Stop
<1>6. ASSUME NEW s \in Senders, (\E i \in Instance : SendFind(s, i)) \/ SendLock(s) \/ SendSignal(s)
      PROVE  KeptAll
  BY <1>6 DEF SendFind, SendLock, SendSignal
<1>7. ASSUME NEW i \in Instance, Start(i) \/ Reconnect(i) PROVE KeptAll
  <2>1. CASE Start(i)
    BY <1>0, <2>1 DEF Start, ConnectPends, ConnectedBefore, PipeTypes
  <2>2. CASE Reconnect(i)
    BY <1>0, <2>2 DEF Reconnect, ConnectPends, PipeTypes
  <2> QED BY <1>7, <2>1, <2>2
<1>8. ASSUME NEW i \in Instance, Disconnect(i) \/ Finish(i) \/ Close(i) PROVE KeptAll
  <2>1. /\ UNCHANGED <<received, m_outputBuffers, client>>
        /\ outbound' = outbound \/ outbound' = [outbound EXCEPT ![i] = <<>>]
        /\ \/ pipeState' = pipeState
           \/ pipeState' = [pipeState EXCEPT ![i] = "disconnected"]
           \/ pipeState' = [pipeState EXCEPT ![i] = "closing"]
    BY <1>8 DEF Disconnect, Finish, FinishCanceling, Close
  <2> QED BY <1>0, <2>1 DEF PipeTypes
<1>9. ASSUME NEW i \in Instance, Deliver(i) PROVE RepliesSorted'
  <2> DEFINE m == [to |-> m_instanceNo[i], re |-> m_inputBuffer[i]]
             q == m_outputBuffers[i]
  <2>1. FirstWith(m_instanceNo[i]) = i
    BY <1>0, FirstWithOwn
  <2>2. /\ UNCHANGED <<outbound, client, pipeState, received, inbound, sent>>
        /\ m_inputBuffer' = [m_inputBuffer EXCEPT ![i] = NoRequest]
        /\ \/ m_outputBuffers' = m_outputBuffers
           \/ m_outputBuffers' = [m_outputBuffers EXCEPT ![i] = Append(q, m)]
    BY <1>9, <2>1 DEF Deliver, Answer, AddTail
  <2>3. ASSUME NEW j \in Instance, j # i \/ m_outputBuffers' = m_outputBuffers
        PROVE  OnTheirWay(j)'
    <3>1. Kept(j)
      BY <1>0, <2>2, <2>3 DEF QueueTypes
    <3> QED BY <1>1, <2>2, <3>1
  <2>4. ASSUME m_outputBuffers' = [m_outputBuffers EXCEPT ![i] = Append(q, m)]
        PROVE  OnTheirWay(i)'
    <3>1. m_inputBuffer[i] # NoRequest /\ m_inputBuffer[i] \in Request
      BY <1>0, <1>9, RequestIsSome DEF Deliver, BuffersFilled
    <3>2. Attached(i) /\ InOrderAt(i)
      BY <1>0, <1>9 DEF Deliver, StatesTold, Leaving, SessionsMatchStates, Serving, RequestsInOrder
    <3>3. Heard(i) = HeardOf(i) /\ HeardOf(i) \in Nat /\ client[i] \in Nat
      BY <1>0, <3>2, HeardIsNumber DEF Heard, PipeTypes
    <3>4. m.re = [client |-> client[i], n |-> HeardOf(i) + 1]
      BY <3>1, <3>2 DEF InOrderAt
    <3>5. Heard(i)' = HeardOf(i) + 1
      <4>1. client[i] \in Client /\ sent[client[i]] \in Nat /\ Len(inbound[i]) \in Nat
        BY <1>0, <3>2 DEF BuffersFilled, Attached, ClientTypes, PipeTypes
      <4>2. m_inputBuffer'[i] = NoRequest
        BY <1>0, <2>2 DEF QueueTypes
      <4>3. HeardOf(i)' = HeardOf(i) + 1
        BY <2>2, <3>1, <4>1, <4>2 DEF HeardOf
      <4> QED BY <2>2, <3>2, <4>3 DEF Heard, Attached
    <3>6. m_outputBuffers'[i] = Append(q, m) /\ m \in Message
      BY <1>0, <2>4, <3>1 DEF QueueTypes, Message, WorkerTypes
    <3>7. OnTheirWay(i)
      BY <1>b
    <3>8. Sorted(Append(q, m))
      <4>1. \A k \in DOMAIN q : Ordered(q[k], m)
        BY <1>b, <3>3, <3>4, <3>7, NextAnswer DEF OnTheirWay
      <4> QED BY <1>b, <3>7, <4>1, SortedAdd DEF OnTheirWay
    <3>9. Precedes(outbound[i], Append(q, m))
      <4>1. \A k \in DOMAIN outbound[i] : Ordered(outbound[i][k], m)
        BY <1>b, <3>3, <3>4, <3>7, NextAnswer DEF OnTheirWay
      <4> QED BY <1>b, <3>7, <4>1, PrecedesAdd DEF OnTheirWay
    <3>10. UpTo(outbound[i], client[i], Heard(i)') /\ UpTo(q, client[i], Heard(i)')
      BY <1>b, <1>d, <2>2, <3>7 DEF OnTheirWay
    <3>11. UpTo(Append(q, m), client[i], Heard(i)')
      BY <1>b, <3>3, <3>4, <3>5, <3>10, UpToAdd
    <3>12. ASSUME pipeState[i] = "connected"
           PROVE  /\ Precedes(received[client[i]], outbound[i])
                  /\ Precedes(received[client[i]], Append(q, m))
                  /\ UpTo(received[client[i]], client[i], Heard(i)')
      <4> DEFINE r == received[client[i]]
      <4>1. r \in Seq(Message) /\ Precedes(r, outbound[i]) /\ Precedes(r, q)
            /\ UpTo(r, client[i], Heard(i))
        BY <1>c, <3>7, <3>12 DEF OnTheirWay
      <4> HIDE DEF r
      <4>2. \A k \in DOMAIN r : Ordered(r[k], m)
        BY <3>3, <3>4, <4>1, NextAnswer
      <4>3. Precedes(r, Append(q, m))
        BY <1>b, <4>1, <4>2, PrecedesAdd
      <4>4. UpTo(r, client[i], Heard(i)')
        BY <1>d, <2>2, <4>1
      <4> QED BY <4>1, <4>3, <4>4 DEF r
    <3> QED BY <2>2, <3>6, <3>7, <3>8, <3>9, <3>10, <3>11, <3>12 DEF OnTheirWay
  <2> QED BY <1>2, <2>2, <2>3, <2>4
<1>10. ASSUME NEW s \in Senders, SendAdd(s) PROVE RepliesSorted'
  <2>0. PICK i \in Instance : target[s] = i
    BY <1>0 DEF SenderTypes
  <2> DEFINE m == [to |-> addressee[s], re |-> s]
             q == m_outputBuffers[i]
  <2>1. /\ UNCHANGED <<outbound, client, pipeState, received>>
        /\ m_outputBuffers' = [m_outputBuffers EXCEPT ![i] = Append(q, m)]
    BY <1>10, <2>0 DEF SendAdd, AddTail
  <2>2. ~IsReply(m)
    BY DEF IsReply
  <2>3. ASSUME NEW j \in Instance, j # i PROVE OnTheirWay(j)'
    <3>1. Kept(j)
      BY <1>0, <2>1, <2>3 DEF QueueTypes
    <3> QED BY <1>1, <2>1, <3>1
  <2> HIDE DEF m
  <2>4. OnTheirWay(i)'
    <3>1. m_outputBuffers'[i] = Append(q, m)
      BY <1>0, <2>1 DEF QueueTypes
    <3>2. OnTheirWay(i) /\ \A x : Ordered(x, m)
      BY <1>b, <2>1, <2>2 DEF Ordered
    <3>3. Sorted(Append(q, m)) /\ Precedes(outbound[i], Append(q, m))
      BY <1>b, <2>1, <3>2, SortedAdd, PrecedesAdd DEF OnTheirWay
    <3>4. UpTo(outbound[i], client[i], Heard(i)') /\ UpTo(q, client[i], Heard(i)')
      BY <1>b, <1>d, <2>1, <3>2 DEF OnTheirWay
    <3>5. UpTo(Append(q, m), client[i], Heard(i)')
      BY <1>b, <2>1, <2>2, <3>4, UpToAdd
    <3>6. ASSUME pipeState[i] = "connected"
          PROVE  /\ Precedes(received[client[i]], outbound[i])
                 /\ Precedes(received[client[i]], Append(q, m))
                 /\ UpTo(received[client[i]], client[i], Heard(i)')
      <4> DEFINE r == received[client[i]]
      <4>1. r \in Seq(Message) /\ Precedes(r, outbound[i]) /\ Precedes(r, q)
            /\ UpTo(r, client[i], Heard(i))
        BY <1>c, <2>1, <3>2, <3>6 DEF OnTheirWay
      <4> HIDE DEF r
      <4>2. Precedes(r, Append(q, m))
        BY <1>b, <2>1, <3>2, <4>1, PrecedesAdd
      <4>3. UpTo(r, client[i], Heard(i)')
        BY <1>d, <2>1, <4>1
      <4> QED BY <4>1, <4>2, <4>3 DEF r
    <3> QED BY <2>1, <3>1, <3>2, <3>3, <3>4, <3>5, <3>6 DEF OnTheirWay
  <2> QED BY <1>2, <2>1, <2>3, <2>4
<1>11. ASSUME NEW i \in Instance, WriteMessage(i) \/ WriteFails(i) PROVE RepliesSorted'
  <2> DEFINE q == m_outputBuffers[i]
             o == outbound[i]
  <2>1. /\ UNCHANGED <<client, pipeState, received>> /\ q # <<>>
        /\ m_outputBuffers' = [m_outputBuffers EXCEPT ![i] = Tail(q)]
        /\ \/ outbound' = outbound
           \/ outbound' = [outbound EXCEPT ![i] = Append(o, Head(q))]
    BY <1>11 DEF WriteMessage, WriteFails, PopHead
  <2>2. ASSUME NEW j \in Instance, j # i PROVE OnTheirWay(j)'
    <3>1. Kept(j)
      BY <1>0, <2>1, <2>2 DEF QueueTypes, PipeTypes
    <3> QED BY <1>1, <2>1, <3>1
  <2>3. OnTheirWay(i)'
    <3>1. /\ m_outputBuffers'[i] = Tail(q)
          /\ outbound'[i] = o \/ outbound'[i] = Append(o, Head(q))
      BY <1>0, <2>1 DEF QueueTypes, PipeTypes
    <3>2. /\ o \in Seq(Message) /\ q \in Seq(Message)
          /\ Sorted(o) /\ Sorted(q) /\ Precedes(o, q)
          /\ UpTo(o, client[i], Heard(i)') /\ UpTo(q, client[i], Heard(i)')
      BY <1>b, <1>d, <2>1 DEF OnTheirWay
    <3>3. ASSUME pipeState[i] = "connected"
          PROVE  /\ received[client[i]] \in Seq(Message)
                 /\ Precedes(received[client[i]], o) /\ Precedes(received[client[i]], q)
                 /\ UpTo(received[client[i]], client[i], Heard(i)')
      BY <1>b, <1>c, <1>d, <2>1, <3>3 DEF OnTheirWay
    <3> DEFINE r == received[client[i]]
    <3> HIDE DEF o, q, r
    <3>4. /\ Sorted(Tail(q)) /\ Precedes(o, Tail(q)) /\ UpTo(Tail(q), client[i], Heard(i)')
      BY <2>1, <3>2, SortedTail, PrecedesTail, UpToTail
    <3>5. /\ Sorted(Append(o, Head(q))) /\ Precedes(Append(o, Head(q)), Tail(q))
          /\ UpTo(Append(o, Head(q)), client[i], Heard(i)')
      BY <2>1, <3>2, MoveHead, UpToHead, UpToAdd
    <3>6. ASSUME pipeState[i] = "connected"
          PROVE  /\ Precedes(r, o) /\ Precedes(r, Append(o, Head(q))) /\ Precedes(r, Tail(q))
                 /\ UpTo(r, client[i], Heard(i)')
      <4>0. Head(q) = q[1] /\ 1 \in DOMAIN q
        BY <2>1, <3>2, TailFrom
      <4>1. \A k \in DOMAIN r : Ordered(r[k], Head(q))
        BY <3>3, <3>6, <4>0 DEF Precedes, r
      <4>2. Precedes(r, Append(o, Head(q)))
        BY <3>2, <3>3, <3>6, <4>1, PrecedesAdd DEF r
      <4>3. Precedes(r, Tail(q))
        BY <2>1, <3>2, <3>3, <3>6, PrecedesTail DEF r
      <4> QED BY <3>3, <3>6, <4>2, <4>3 DEF r
    <3>7. received'[client'[i]] = r /\ client'[i] = client[i] /\ pipeState'[i] = pipeState[i]
      BY <2>1 DEF r
    <3> QED BY <3>1, <3>2, <3>4, <3>5, <3>6, <3>7 DEF OnTheirWay
  <2> QED BY <1>2, <2>1, <2>2, <2>3
<1>12. ASSUME NEW i \in Instance, Cancel(i) PROVE RepliesSorted'
  <2> DEFINE o == outbound[i]
  <2>1. /\ UNCHANGED <<client, received, m_outputBuffers>>
        /\ outbound' = outbound
             \/ (outbound' = [outbound EXCEPT ![i] = SubSeq(o, 1, OutQuota)] /\ OutQuota <= Len(o))
        /\ \/ pipeState' = pipeState
           \/ pipeState' = [pipeState EXCEPT ![i] = "disconnected"]
    <3>1. Len(o) \in Nat
      BY <1>b
    <3> QED BY <1>12, <3>1 DEF Cancel, CancelFails, Stalled
  <2>2. ASSUME NEW j \in Instance, j # i \/ outbound' = outbound PROVE OnTheirWay(j)'
    <3>1. Kept(j)
      BY <1>0, <2>1, <2>2 DEF PipeTypes
    <3> QED BY <1>1, <2>1, <3>1
  <2>3. ASSUME outbound' = [outbound EXCEPT ![i] = SubSeq(o, 1, OutQuota)], OutQuota <= Len(o)
        PROVE  OnTheirWay(i)'
    <3> DEFINE p == SubSeq(o, 1, OutQuota)
               q == m_outputBuffers[i]
               r == received[client[i]]
    <3>1. outbound'[i] = p /\ (pipeState'[i] = "connected" => pipeState[i] = "connected")
      BY <1>0, <2>1, <2>3 DEF PipeTypes
    <3>2. /\ o \in Seq(Message) /\ q \in Seq(Message)
          /\ Sorted(o) /\ Sorted(q) /\ Precedes(o, q)
          /\ UpTo(o, client[i], Heard(i)') /\ UpTo(q, client[i], Heard(i)')
      BY <1>b, <1>d, <2>1 DEF OnTheirWay
    <3>3. ASSUME pipeState[i] = "connected"
          PROVE  r \in Seq(Message) /\ Precedes(r, o) /\ Precedes(r, q)
                 /\ UpTo(r, client[i], Heard(i)')
      BY <1>b, <1>c, <1>d, <2>1, <3>3 DEF OnTheirWay
    <3>7. received'[client'[i]] = r /\ client'[i] = client[i] /\ m_outputBuffers'[i] = q
      BY <2>1
    <3> HIDE DEF o, q, r
    <3>4. Sorted(p) /\ Precedes(p, q) /\ UpTo(p, client[i], Heard(i)')
      BY <2>3, <3>2, SortedPrefix, PrecedesPrefix, UpToPrefix
    <3>5. ASSUME pipeState[i] = "connected" PROVE Precedes(r, p)
      BY <2>3, <3>2, <3>3, <3>5, PrecededPrefix
    <3> HIDE DEF p
    <3> QED BY <3>1, <3>2, <3>3, <3>4, <3>5, <3>7 DEF OnTheirWay
  <2> QED BY <1>2, <2>1, <2>2, <2>3
<1>13. ASSUME NEW i \in Instance, Receive(i) PROVE RepliesSorted'
  <2> DEFINE o == outbound[i]
             q == m_outputBuffers[i]
             c == client[i]
             r == received[c]
             new == Append(r, Head(o))
  <2>1. /\ UNCHANGED <<client, pipeState, m_outputBuffers>>
        /\ pipeState[i] = "connected" /\ o # <<>>
        /\ outbound' = [outbound EXCEPT ![i] = Tail(o)]
        /\ received' = [received EXCEPT ![c] = new]
    BY <1>13 DEF Receive
  <2>2. /\ outbound'[i] = Tail(o) /\ received'[c] = new /\ c \in Client
        /\ \A b \in Client : b # c => received'[b] = received[b]
    BY <1>0, <1>c, <2>1 DEF PipeTypes, ClientTypes
  <2>3. ASSUME NEW j \in Instance, j # i PROVE OnTheirWay(j)'
    <3>1. Kept(j)
      BY <1>0, <2>1, <2>3 DEF PipeTypes
    <3>2. pipeState[j] = "connected" => received'[client[j]] = received[client[j]]
      BY <1>0, <1>c, <2>2, <2>3 DEF ClientsApart
    <3> QED BY <1>1, <3>1, <3>2
  <2>4. /\ o \in Seq(Message) /\ q \in Seq(Message) /\ r \in Seq(Message)
        /\ Sorted(o) /\ Sorted(q) /\ Precedes(o, q) /\ Precedes(r, o) /\ Precedes(r, q)
        /\ UpTo(o, c, Heard(i)') /\ UpTo(q, c, Heard(i)') /\ UpTo(r, c, Heard(i)')
        /\ Sorted(r)
    BY <1>b, <1>c, <1>d, <2>1 DEF OnTheirWay
  <2>5. received'[client'[i]] = new /\ client'[i] = c /\ m_outputBuffers'[i] = q
    BY <2>1, <2>2
  <2>6. c \in Int /\ Heard(i)' \in Int
    BY <1>a, <1>b
  <2> HIDE DEF o, q, c, r
  <2>7. /\ Sorted(new) /\ Sorted(Tail(o)) /\ Precedes(new, Tail(o))
        /\ UpTo(new, c, Heard(i)') /\ UpTo(Tail(o), c, Heard(i)') /\ new \in Seq(Message)
    BY <2>1, <2>4, MoveHead, UpToHead, UpToAdd, UpToTail
  <2>8. Precedes(Tail(o), q) /\ Precedes(new, q)
    <3>1. Precedes(Tail(o), q)
      BY <2>1, <2>4, TailFrom DEF Precedes
    <3>2. ASSUME NEW j \in DOMAIN new, NEW k \in DOMAIN q PROVE Ordered(new[j], q[k])
      <4>1. (j \in DOMAIN r /\ new[j] = r[j]) \/ new[j] = Head(o)
        BY <2>4, AddedFrom
      <4>2. 1 \in DOMAIN o /\ Head(o) = o[1]
        BY <2>1, <2>4, TailFrom
      <4> QED BY <2>4, <4>1, <4>2 DEF Precedes
    <3> QED BY <3>1, <3>2 DEF Precedes
  <2> HIDE DEF new
  <2>9. OnTheirWay(i)'
    BY <2>1, <2>2, <2>4, <2>5, <2>7, <2>8 DEF OnTheirWay
  <2>10. NoReplyToEarlierClient'
    <3>1. ASSUME NEW k \in DOMAIN new, IsReply(new[k]) PROVE new[k].re.client <= c
      <4>1. new[k].re.client < c \/ new[k].re.client = c
        BY <2>7, <3>1 DEF UpTo
      <4>2. new[k] \in Message
        BY <2>7
      <4>3. new[k].re.client \in Int
        BY <3>1, <4>2 DEF IsReply, Message, Request
      <4> QED BY <2>6, <4>1, <4>3
    <3> QED BY <1>b, <2>2, <3>1 DEF NoReplyToEarlierClient
  <2>11. \A b \in Client : Sorted(received'[b])
    BY <1>b, <2>2, <2>7
  <2> QED BY <2>3, <2>9, <2>10, <2>11 DEF RepliesSorted
<1>14. ASSUME NEW i \in Instance, Connect(i) PROVE RepliesSorted'
  <2>1. /\ UNCHANGED <<outbound, received, m_outputBuffers>>
        /\ connCnt \in Nat /\ connCnt + 1 \in Client /\ client'[i] = connCnt + 1
        /\ pipeState[i] = "listening"
        /\ \A j \in Instance : j # i => client'[j] = client[j] /\ pipeState'[j] = pipeState[j]
    BY <1>0, <1>14 DEF Connect, PipeTypes, ClientTypes
  <2>2. ASSUME NEW j \in Instance, j # i PROVE OnTheirWay(j)'
    <3>1. Kept(j)
      BY <2>1, <2>2
    <3> QED BY <1>1, <2>1, <3>1
  <2>3. OnTheirWay(i)'
    <3>1. received[connCnt + 1] = <<>> /\ client[i] < connCnt + 1
      <4>1. client[i] \in Int /\ client[i] <= connCnt
        BY <1>0, <1>b DEF ClientsApart
      <4>2. connCnt + 1 > connCnt
        BY <2>1
      <4>3. received[connCnt + 1] = <<>>
        BY <1>0, <2>1, <4>2 DEF ClientsApart
      <4> QED BY <2>1, <4>1, <4>3
    <3>2. OnTheirWay(i) /\ Heard(i) \in Int /\ Heard(i)' \in Int
      BY <1>a, <1>b
    <3>3. /\ UpTo(outbound[i], connCnt + 1, Heard(i)')
          /\ UpTo(m_outputBuffers[i], connCnt + 1, Heard(i)')
      BY <1>b, <2>1, <3>1, <3>2, UpToLater DEF OnTheirWay
    <3>4. /\ Precedes(<<>>, outbound[i]) /\ Precedes(<<>>, m_outputBuffers[i])
          /\ UpTo(<<>>, connCnt + 1, Heard(i)')
      BY DEF Precedes, UpTo
    <3> QED BY <2>1, <3>1, <3>2, <3>3, <3>4 DEF OnTheirWay
  <2> QED BY <1>2, <2>1, <2>2, <2>3
<1> QED
  BY <1>3, <1>4, <1>5, <1>6, <1>7, <1>8, <1>9, <1>10, <1>11, <1>12, <1>13, <1>14
     DEF Next, Worker, Clients, Finished, Sending

\* SInv is inductive together with IInv.
LEMMA SInductive == IInv /\ SInv /\ [Next]_vars => SInv'
BY ClientsStep, StatesStep, CancelledStep, PipesStep, HeardStep, DrainedStep, CountedStep,
   OrderStep DEF SInv

\* In every reachable state of the server SInv holds.
THEOREM SessionInvariance == Spec => []SInv
<1>1. Init => SInv
  BY InitSInv
<1>2. IInv /\ SInv /\ [Next]_vars => SInv'
  BY SInductive
<1> QED BY <1>1, <1>2, Invariance, PTL DEF Spec

-----------------------------------------------------------------------------
(* The theorems *)

\* LeaversAreDrained, whatever order the worker serves the handles in: when the
\* instance of a client that left is taken back, all it sent was delivered.
THEOREM LeaversAreHeard == Spec => []LeaversAreDrained
<1>1. SInv => LeaversAreDrained
  BY DEF SInv, Drained, Attached, LeaversAreDrained
<1> QED BY <1>1, SessionInvariance, PTL

\* RepliesInOrder, for any number of writes in flight on m_ovWrite: the replies
\* to a client's requests come in the order of the requests, once each.
THEOREM RepliesStayInOrder == Spec => []RepliesInOrder
<1>1. TypeOK /\ SInv => RepliesInOrder
  <2> SUFFICES ASSUME TypeOK, SInv, NEW c \in Client,
                      NEW j \in DOMAIN received[c], NEW k \in DOMAIN received[c], j < k,
                      IsReply(received[c][j]), IsReply(received[c][k]),
                      received[c][j].re.client = received[c][k].re.client
               PROVE  received[c][j].re.n < received[c][k].re.n
    BY DEF RepliesInOrder
  <2>1. received[c] \in Seq(Message) /\ Sorted(received[c])
    BY DEF TypeOK, ClientTypes, SInv, RepliesSorted
  <2>2. received[c][j].re.client \in Int
    <3>1. received[c][j] \in Message
      BY <2>1
    <3> QED BY <3>1 DEF IsReply, Message, Request
  <2>3. Ordered(received[c][j], received[c][k])
    BY <2>1 DEF Sorted
  <2> QED BY <2>2, <2>3 DEF Ordered
<1> QED BY <1>1, SessionInvariance, TypeCorrect, PTL

\* NoReplyToEarlierClient: what the queue of an instance keeps for its next
\* client never flows backwards.
THEOREM RepliesNeverGoBack == Spec => []NoReplyToEarlierClient
<1>1. SInv => NoReplyToEarlierClient
  BY DEF SInv, RepliesSorted
<1> QED BY <1>1, SessionInvariance, PTL

\* The numbers in use stay within those that PipeSessions is given.
LEMMA NumbersBounded ==
    IInv /\ SInv /\ wpc # "failed" =>
        \A i \in Instance : m_instanceNo[i] \in 1 .. (INSTANCES + MaxClients)
<1> SUFFICES ASSUME IInv, SInv, wpc # "failed", NEW i \in Instance
             PROVE  m_instanceNo[i] \in 1 .. (INSTANCES + MaxClients)
  OBVIOUS
<1> USE InstancesAssumption, BoundsAssumption
<1>1. m_instanceNo[i] \in Nat /\ m_instanceNo[i] >= 1 /\ m_instanceNo[i] <= m_instanceCnt
      /\ m_instanceCnt \in Nat /\ m_instanceCnt <= INSTANCES + Cardinality(Gone)
  BY DEF IInv, SInv, TypeOK, WorkerTypes, NumbersGrow, NumbersCounted
<1>2. Cardinality(Gone) \in Nat /\ Cardinality(Gone) <= connCnt
  <2>1. connCnt \in Nat /\ Gone \in SUBSET (1 .. connCnt)
    BY DEF IInv, TypeOK, ClientTypes, Gone
  <2> QED BY <2>1, SomeOf
<1>3. connCnt \in Nat /\ connCnt <= MaxClients
  BY DEF IInv, TypeOK, ClientTypes
<1> QED BY <1>1, <1>2, <1>3

\* PipeSessions counts as this module does.
LEMMA CountedAlike == \A S : Sessions!Cardinality(S) = Cardinality(S)
BY DEF Sessions!Cardinality, Cardinality

\* The requests counted by PipeSessions are those the instance has heard of.
LEMMA HeardAreCounted ==
    ASSUME IInv, SInv, NEW i \in Instance, Attached(i)
    PROVE  Cardinality(Sessions!Of(client[i])) = HeardOf(i)
<1> DEFINE h == HeardOf(i)
           c == client[i]
           S == Sessions!Of(c)
           entry(k) == [no |-> m_instanceNo[i], msg |-> [client |-> c, n |-> k]]
           f == [k \in 1 .. h |-> entry(k)]
<1>1. h \in Nat
  BY HeardIsNumber DEF IInv, SInv
<1>2. InOrderAt(i)
  BY DEF SInv, RequestsInOrder
<1>3. \A k \in 1 .. h : entry(k) \in S
  BY <1>2 DEF InOrderAt, Sessions!Of
<1>4. \A d \in S : d.msg.n \in 1 .. h /\ d = entry(d.msg.n)
  <2> TAKE d \in S
  <2>1. d \in delivered /\ d.msg.client = c
    BY DEF Sessions!Of
  <2>2. d.no = m_instanceNo[i] /\ d.msg.n \in 1 .. h
    BY <1>2, <2>1 DEF InOrderAt
  <2>3. d \in [no : Nat, msg : Request]
    BY <2>1 DEF IInv, TypeOK, NotifyTypes
  <2>4. d = [no |-> d.no, msg |-> d.msg] /\ d.msg = [client |-> d.msg.client, n |-> d.msg.n]
    BY <2>3 DEF Request
  <2> QED BY <2>1, <2>2, <2>4
<1> HIDE DEF h, c, S
<1>5. f \in Injection(1 .. h, S)
  <2>1. f \in [1 .. h -> S]
    BY <1>3
  <2>2. \A a, b \in 1 .. h : f[a] = f[b] => a = b
    <3>1. \A k \in 1 .. h : f[k].msg.n = k
      OBVIOUS
    <3> QED BY <3>1
  <2> QED BY <2>1, <2>2 DEF Injection, IsInjective
<1>6. f \in Surjection(1 .. h, S)
  BY <1>3, <1>4 DEF Surjection
<1>7. ExistsBijection(1 .. h, S)
  BY <1>5, <1>6 DEF ExistsBijection, Bijection
<1>8. Cardinality(S) = h
  BY <1>1, <1>7, FS_CountingElements
<1> QED BY <1>8 DEF h, c, S

\* Every step of the server is a step of PipeSessions or makes no callback.
LEMMA CallbacksSimulate ==
    IInv /\ SInv /\ [Next]_vars => [Sessions!Next]_(Sessions!vars)
<1> SUFFICES ASSUME IInv, SInv, [Next]_vars PROVE [Sessions!Next]_(Sessions!vars)
  OBVIOUS
<1> USE DEF Sessions!vars
<1>0. /\ WorkerTypes /\ NumbersNameSessions /\ SessionsMatchStates /\ BuffersFilled
      /\ NumbersGrow /\ StatesTold /\ Cancelled /\ RequestsInOrder
  BY DEF IInv, TypeOK, SInv
<1>1. ASSUME NEW n \in 1 .. (INSTANCES + MaxClients),
             opened' = opened \cup {n}, UNCHANGED <<closed, delivered>>
      PROVE  [Sessions!Next]_(Sessions!vars)
  <2>1. CASE n \in opened
    <3>1. opened' = opened
      BY <1>1, <2>1
    <3> QED BY <1>1, <3>1
  <2>2. CASE n \notin opened
    BY <1>1, <2>2 DEF Sessions!Next, Sessions!Open
  <2> QED BY <2>1, <2>2
<1>2. ASSUME NEW n \in 1 .. (INSTANCES + MaxClients), n \in opened \ closed,
             closed' = closed \cup {n}, UNCHANGED <<opened, delivered>>
      PROVE  Sessions!Next
  BY <1>2 DEF Sessions!Next, Sessions!Close
<1>3. ASSUME NEW i \in Instance, Start(i) \/ ServeRead(i)
      PROVE  [Sessions!Next]_(Sessions!vars)
  <2>1. m_instanceNo[i] \in 1 .. (INSTANCES + MaxClients)
    BY <1>3, NumbersBounded DEF Start, ServeRead, Chosen
  <2>2. /\ UNCHANGED <<closed, delivered>>
        /\ opened' = opened \/ opened' = opened \cup {m_instanceNo[i]}
    BY <1>3 DEF Start, ConnectedBefore, ServeRead, OnConnect
  <2>3. CASE opened' = opened
    BY <2>2, <2>3
  <2> QED BY <1>1, <2>1, <2>2, <2>3
<1>4. ASSUME NEW i \in Instance, Disconnect(i) \/ Finish(i)
      PROVE  [Sessions!Next]_(Sessions!vars)
  <2>1. m_instanceNo[i] \in 1 .. (INSTANCES + MaxClients)
    BY <1>4, NumbersBounded DEF Disconnect, Finish
  <2>2. /\ UNCHANGED <<opened, delivered>>
        /\ \/ closed' = closed
           \/ i \in reading /\ closed' = closed \cup {m_instanceNo[i]}
    BY <1>4 DEF Disconnect, Finish, FinishCanceling, OnDisconnect
  <2>3. m_instanceNo[i] \notin closed
    <3>1. CASE Disconnect(i)
      BY <1>0, <3>1 DEF Disconnect, NumbersNameSessions, Leaving
    <3>2. CASE Finish(i)
      BY <1>0, <3>2, InstancesAssumption DEF Finish, Cancelled
    <3> QED BY <1>4, <3>1, <3>2
  <2>4. CASE closed' = closed
    BY <2>2, <2>4
  <2>5. CASE i \in reading /\ closed' = closed \cup {m_instanceNo[i]}
    <3>1. m_instanceNo[i] \in opened \ closed
      BY <1>0, <2>3, <2>5 DEF SessionsMatchStates
    <3> QED BY <1>2, <2>1, <2>2, <2>5, <3>1
  <2> QED BY <2>2, <2>4, <2>5
<1>5. ASSUME NEW i \in Instance, Deliver(i) PROVE Sessions!Next
  <2>1. m_instanceNo[i] \in 1 .. (INSTANCES + MaxClients)
    BY <1>5, NumbersBounded DEF Deliver
  <2>2. Attached(i) /\ InOrderAt(i) /\ m_instanceNo[i] \in opened \ closed
    BY <1>0, <1>5
    DEF Deliver, StatesTold, SessionsMatchStates, Serving, RequestsInOrder, NumbersNameSessions,
        Leaving
  <2>3. client[i] \in Client /\ m_inputBuffer[i] # NoRequest
    BY <1>0, <1>5, <2>2, RequestIsSome DEF Deliver, BuffersFilled, Attached
  <2>4. delivered' = delivered \cup
           {[no |-> m_instanceNo[i],
             msg |-> [client |-> client[i], n |-> Cardinality(Sessions!Of(client[i])) + 1]]}
    BY <1>5, <2>2, <2>3, HeardAreCounted DEF Deliver, InOrderAt
  <2>5. UNCHANGED <<opened, closed>>
    BY <1>5 DEF Deliver
  <2>6. \A d \in delivered : d.no = m_instanceNo[i] <=> d.msg.client = client[i]
    BY <2>2 DEF InOrderAt
  <2>7. Sessions!Message(m_instanceNo[i], client[i])
    <3> DEFINE n == m_instanceNo[i]
               c == client[i]
    <3>1. n \in opened \ closed /\ \A d \in delivered : d.no = n <=> d.msg.client = c
      BY <2>2, <2>6
    <3>2. delivered' = delivered \cup
             {[no |-> n, msg |-> [client |-> c, n |-> Cardinality(Sessions!Of(c)) + 1]]}
      BY <2>4
    <3> HIDE DEF n, c
    <3>3. Sessions!Message(n, c)
      BY <2>5, <3>1, <3>2, CountedAlike DEF Sessions!Message, Sessions!Of
    <3> QED BY <3>3 DEF n, c
  <2>8. \E n \in 1 .. (INSTANCES + MaxClients) : \E c \in Client : Sessions!Message(n, c)
    BY <2>1, <2>3, <2>7
  <2> QED BY <2>8 DEF Sessions!Next
<1>6. ASSUME NEW i \in Instance,
             \/ StartFails(i) \/ ServeWrite(i) \/ ServeNewMsg(i)
             \/ ReadMessage(i) \/ ReadPends(i) \/ ReadBroken(i)
             \/ WriteLocked(i) \/ WriteNothing(i) \/ WriteMessage(i) \/ WriteFails(i)
             \/ DisconnectFails(i) \/ Reconnect(i) \/ Cancel(i) \/ CancelThrows(i)
      PROVE  UNCHANGED Sessions!vars
  BY <1>6 DEF StartFails, ServeWrite, ServeNewMsg, ReadMessage, ReadPends, ReadBroken,
     WriteLocked, WriteNothing, WriteMessage, WriteFails, PopHead, DisconnectFails, Reconnect,
     Cancel, CancelThrows
<1>7. ASSUME NEW i \in Instance, Connect(i) \/ SendRequest(i) \/ Receive(i) \/ Close(i)
      PROVE  UNCHANGED Sessions!vars
  BY <1>7 DEF Connect, SendRequest, Receive, Close
<1>8. ASSUME NEW s \in Senders, Sending(s) PROVE UNCHANGED Sessions!vars
  BY <1>8 DEF Sending, SendFind, SendLock, SendAdd, SendSignal
<1>9. ASSUME ServeTimeout \/ ServeStop \/ WaitAll \/ Stop \/ UNCHANGED vars
      PROVE  UNCHANGED Sessions!vars
  BY <1>9 DEF ServeTimeout, ServeStop, WaitAll, Stop
<1> HIDE DEF Sessions!vars
<1> QED
  BY <1>3, <1>4, <1>5, <1>6, <1>7, <1>8, <1>9 DEF Next, Worker, Clients, Finished

\* Whatever the clients, the senders and Stop do, the application sees sessions:
\* under each number one OnConnect, the requests of one client in the order sent,
\* and one OnDisconnect.
THEOREM CallbacksImplementSessions == Spec => CallbacksAreSessions
<1>1. Init => Sessions!Init
  BY DEF Init, Sessions!Init
<1> QED
  BY <1>1, CallbacksSimulate, Invariance, SessionInvariance, PTL
  DEF CallbacksAreSessions, Sessions!Spec, Spec
=============================================================================
