----------------------- MODULE NamedPipeServerProofs -----------------------
(***************************************************************************)
(* The invariants of NamedPipeServer for every number of instances, senders, *)
(* clients and requests, and every outbound quota.  IInv is inductive; there *)
(* is one lemma for each group of its conjuncts, and in it one step for each  *)
(* action that can disturb the group.                                        *)
(***************************************************************************)
EXTENDS NamedPipeServer, TLAPS

USE DEF Instance, Client, vars, workerVars, stopVars, numberVars, flagVars,
        eventVars, queueVars, senderVars, pipeVars, clientVars, notifyVars

-----------------------------------------------------------------------------
(* Lemmas about the operators *)

\* SendMessage finds the instance that has the number (lines 125-137): no other
\* instance carries it.
LEMMA FirstWithOwn ==
    ASSUME TypeOK, NumbersNameSessions, NEW i \in Instance
    PROVE  FirstWith(m_instanceNo[i]) = i
<1>1. /\ m_instanceNo[i] = m_instanceNo[i]
      /\ \A j \in 1 .. (i - 1) : m_instanceNo[j] # m_instanceNo[i]
  BY InstancesAssumption DEF NumbersNameSessions
<1>2. \A j \in Instance : m_instanceNo[j] = m_instanceNo[i] => j = i
  BY DEF NumbersNameSessions
<1> QED BY <1>1, <1>2 DEF FirstWith

\* AddTail adds no addressee but that of the new message.
LEMMA AddedAddressees ==
    ASSUME NEW q \in Seq(Message), NEW m \in Message, NEW S,
           \A k \in DOMAIN q : q[k].to \in S, m.to \in S
    PROVE  \A k \in DOMAIN AddTail(q, m) : AddTail(q, m)[k].to \in S
BY DEF AddTail

\* Taking the head of a queue adds no addressee.
LEMMA TailAddressees ==
    ASSUME NEW q \in Seq(Message), q # <<>>, NEW S,
           \A k \in DOMAIN q : q[k].to \in S
    PROVE  \A k \in DOMAIN Tail(q) : Tail(q)[k].to \in S
<1>1. Len(q) \in Nat \ {0} /\ DOMAIN q = 1 .. Len(q)
  OBVIOUS
<1>2. Tail(q) \in Seq(Message) /\ Len(Tail(q)) = Len(q) - 1
  BY <1>1
<1>3. \A k \in 1 .. (Len(q) - 1) : Tail(q)[k] = q[k + 1] /\ k + 1 \in DOMAIN q
  BY <1>1
<1> QED BY <1>1, <1>2, <1>3

-----------------------------------------------------------------------------
(* The inductive invariant *)

\* The constructor establishes the invariant.
LEMMA InitIInv == Init => IInv
<1> SUFFICES ASSUME Init PROVE IInv
  OBVIOUS
<1> USE InstancesAssumption, QuotaAssumption, BoundsAssumption, SendersAssumption
<1>1. 1 \in Instance /\ <<>> \in Seq(Message) /\ <<>> \in Seq(Request)
  OBVIOUS
<1>2. WorkerTypes
  <2>1. m_instanceNo \in [Instance -> Nat] /\ m_instanceCnt \in Nat /\ cur \in Instance
    BY <1>1 DEF Init
  <2> QED BY <2>1 DEF Init, WorkerTypes
<1>3. EventTypes
  BY DEF Init, EventTypes
<1>4. QueueTypes /\ SenderTypes
  BY <1>1 DEF Init, QueueTypes, SenderTypes
<1>5. PipeTypes /\ ClientTypes
  BY <1>1 DEF Init, PipeTypes, ClientTypes
<1>6. NotifyTypes
  BY DEF Init, NotifyTypes
<1>7. BuffersFilled /\ AllEngaged /\ NotStartedYet
  BY DEF Init, BuffersFilled, Serving, AllEngaged, NotStartedYet, Leaving
<1>8. NumbersNameSessions /\ NumbersGrow
  BY DEF Init, NumbersNameSessions, NumbersGrow
<1>9. OverlappedReadCoherent /\ SessionsMatchStates
  BY DEF Init, OverlappedReadCoherent, CoherentAt, SessionsMatchStates, Serving
<1>10. MessagesAddressed /\ NoLostWakeup
  BY <1>1 DEF Init, MessagesAddressed, NoLostWakeup, Queued
<1>11. LeavesOnStop /\ DiesOnlyOfStalledWrite
  BY DEF Init, LeavesOnStop, DiesOnlyOfStalledWrite
<1> QED
  BY <1>2, <1>3, <1>4, <1>5, <1>6, <1>7, <1>8, <1>9, <1>10, <1>11 DEF IInv, TypeOK

\* Every step keeps the variables in their types.
LEMMA TypeStep == TypeOK /\ BuffersFilled /\ NumbersNameSessions /\ [Next]_vars => TypeOK'
<1> SUFFICES ASSUME TypeOK, BuffersFilled, NumbersNameSessions, [Next]_vars PROVE TypeOK'
    OBVIOUS
<1>0. WorkerTypes /\ EventTypes /\ QueueTypes /\ SenderTypes /\ PipeTypes
      /\ ClientTypes /\ NotifyTypes
  BY DEF TypeOK
<1> USE <1>0, InstancesAssumption, QuotaAssumption, BoundsAssumption, SendersAssumption 
<1>1. ASSUME NEW i \in Instance,
             \/ StartFails(i) \/ ReadBroken(i) \/ WriteLocked(i)
             \/ WriteNothing(i) \/ DisconnectFails(i) \/ CancelThrows(i)
      PROVE  TypeOK'
  <2>1. WorkerTypes'
    <3>1. /\ wpc' \in {"failed", "disconnect", "wait"}
          /\ retry' \in BOOLEAN
          /\ m_instanceCnt' = m_instanceCnt \/ m_instanceCnt' = m_instanceCnt + 1
          /\ UNCHANGED <<cur, stopVars, m_instanceNo>>
      BY <1>1 DEF StartFails, ReadBroken, WriteLocked, WriteNothing,
         DisconnectFails, NewInstanceNo, CancelThrows, WorkerTypes
    <3>2. m_instanceCnt' \in Nat
      BY <3>1 DEF WorkerTypes
    <3> QED BY <3>1, <3>2 DEF WorkerTypes
  <2>2. UNCHANGED <<reading, flagVars, eventVars, ovRead, m_inputBuffer, queueVars,
                    senderVars, pipeVars, clientVars, notifyVars>>
    BY <1>1 DEF StartFails, ReadBroken, WriteLocked, WriteNothing, DisconnectFails,
       CancelThrows
  <2> QED BY <2>1, <2>2 DEF TypeOK, EventTypes, QueueTypes, SenderTypes, PipeTypes,
      ClientTypes, NotifyTypes
<1>2. ASSUME ServeTimeout \/ ServeStop \/ Stop PROVE TypeOK'
  <2>1. WorkerTypes'
    <3>1. cur' = cur \/ cur' = 1
      BY <1>2 DEF ServeTimeout, ServeStop, Stop
    <3>2. cur' \in Instance
      BY <3>1 DEF WorkerTypes
    <3>3. CASE ServeTimeout
      BY <3>2, <3>3 DEF ServeTimeout, WorkerTypes
    <3>4. CASE ServeStop
      BY <3>2, <3>4 DEF ServeStop, WorkerTypes
    <3>5. CASE Stop
      BY <3>2, <3>5 DEF Stop, WorkerTypes
    <3> QED BY <1>2, <3>3, <3>4, <3>5
  <2>2. UNCHANGED <<reading, flagVars, eventVars, ovRead, m_inputBuffer, queueVars,
                    senderVars, pipeVars, clientVars, notifyVars>>
    BY <1>2 DEF ServeTimeout, ServeStop, Stop
  <2> QED BY <2>1, <2>2 DEF TypeOK, EventTypes, QueueTypes, SenderTypes, PipeTypes,
      ClientTypes, NotifyTypes
<1>3. ASSUME NEW i \in Instance, Start(i) PROVE TypeOK'
  <2>1. WorkerTypes'
    BY <1>3 DEF Start, WorkerTypes
  <2>2. EventTypes'
    BY <1>3 DEF Start, ConnectPends, ConnectedBefore, IssueReset, EventTypes
  <2>3. PipeTypes'
    BY <1>3 DEF Start, ConnectPends, ConnectedBefore, PipeTypes
  <2>4. NotifyTypes'
    BY <1>3 DEF Start, ConnectPends, ConnectedBefore, OnConnect, WorkerTypes, NotifyTypes
  <2>5. QueueTypes' /\ SenderTypes' /\ ClientTypes'
    BY <1>3 DEF Start, ConnectPends, ConnectedBefore, QueueTypes, SenderTypes, ClientTypes
  <2> QED BY <2>1, <2>2, <2>3, <2>4, <2>5 DEF TypeOK
<1>4. ASSUME NEW i \in Instance, ServeRead(i) PROVE TypeOK'
  <2>1. WorkerTypes'
    BY <1>4 DEF ServeRead, Outcome, WorkerTypes
  <2>2. EventTypes'
    BY <1>4 DEF ServeRead, ClearPendingIO, EventTypes
  <2>3. NotifyTypes'
    <3>1. m_instanceNo[i] \in Nat
      BY DEF WorkerTypes
    <3>2. opened' \in {opened, opened \cup {m_instanceNo[i]}}
      BY <1>4 DEF ServeRead, OnConnect
    <3>3. UNCHANGED <<closed, delivered>>
      BY <1>4 DEF ServeRead
    <3> QED BY <3>1, <3>2, <3>3 DEF NotifyTypes
  <2>4. QueueTypes' /\ SenderTypes' /\ PipeTypes' /\ ClientTypes'
    BY <1>4 DEF ServeRead, QueueTypes, SenderTypes, PipeTypes, ClientTypes
  <2> QED BY <2>1, <2>2, <2>3, <2>4 DEF TypeOK
<1>5. ASSUME NEW i \in Instance, ServeWrite(i) PROVE TypeOK'
  <2>1. WorkerTypes'
    BY <1>5 DEF ServeWrite, AfterWrite, WorkerTypes
  <2>2. EventTypes'
    BY <1>5 DEF ServeWrite, EventTypes
  <2>3. QueueTypes' /\ SenderTypes' /\ PipeTypes' /\ ClientTypes' /\ NotifyTypes'
    BY <1>5 DEF ServeWrite, QueueTypes, SenderTypes, PipeTypes, ClientTypes, NotifyTypes
  <2> QED BY <2>1, <2>2, <2>3 DEF TypeOK
<1>6. ASSUME NEW i \in Instance, ServeNewMsg(i) PROVE TypeOK'
  <2>1. WorkerTypes'
    BY <1>6 DEF ServeNewMsg, WorkerTypes
  <2>2. EventTypes'
    BY <1>6 DEF ServeNewMsg, EventTypes
  <2>3. QueueTypes' /\ SenderTypes' /\ PipeTypes' /\ ClientTypes' /\ NotifyTypes'
    BY <1>6 DEF ServeNewMsg, QueueTypes, SenderTypes, PipeTypes, ClientTypes, NotifyTypes
  <2> QED BY <2>1, <2>2, <2>3 DEF TypeOK
<1>7. ASSUME NEW i \in Instance, ReadMessage(i) PROVE TypeOK'
  <2>1. WorkerTypes'
    BY <1>7 DEF ReadMessage, WorkerTypes
  <2>2. EventTypes'
    BY <1>7 DEF ReadMessage, EventTypes
  <2>3. QueueTypes'
    BY <1>7 DEF ReadMessage, PipeTypes, QueueTypes
  <2>4. PipeTypes'
    BY <1>7 DEF ReadMessage, PipeTypes
  <2>5. SenderTypes' /\ ClientTypes' /\ NotifyTypes'
    BY <1>7 DEF ReadMessage, SenderTypes, ClientTypes, NotifyTypes
  <2> QED BY <2>1, <2>2, <2>3, <2>4, <2>5 DEF TypeOK
<1>8. ASSUME NEW i \in Instance, ReadPends(i) PROVE TypeOK'
  <2>1. WorkerTypes'
    BY <1>8 DEF ReadPends, WorkerTypes
  <2>2. EventTypes'
    BY <1>8 DEF ReadPends, IssueReset, EventTypes
  <2>3. QueueTypes' /\ SenderTypes' /\ PipeTypes' /\ ClientTypes' /\ NotifyTypes'
    BY <1>8 DEF ReadPends, QueueTypes, SenderTypes, PipeTypes, ClientTypes, NotifyTypes
  <2> QED BY <2>1, <2>2, <2>3 DEF TypeOK
<1>9. ASSUME NEW i \in Instance, Deliver(i) PROVE TypeOK'
  <2>1. FirstWith(m_instanceNo[i]) = i
    BY FirstWithOwn
  <2>2. WorkerTypes'
    BY <1>9 DEF Deliver, WorkerTypes
  <2>3. EventTypes'
    BY <1>9, <2>1 DEF Deliver, Answer, EventTypes
  <2>4. QueueTypes'
    <3>1. [to |-> m_instanceNo[i], re |-> m_inputBuffer[i]] \in Message
      BY <1>9 DEF Deliver, Message, WorkerTypes, BuffersFilled
    <3>2. AddTail(m_outputBuffers[i],
                  [to |-> m_instanceNo[i], re |-> m_inputBuffer[i]])
            \in Seq(Message)
      BY <3>1 DEF AddTail, QueueTypes
    <3>3. m_outputBuffers' \in [Instance -> Seq(Message)]
      BY <1>9, <2>1, <3>2 DEF Deliver, Answer, QueueTypes
    <3> QED BY <1>9, <3>3 DEF Deliver, QueueTypes
  <2>5. NotifyTypes'
    BY <1>9 DEF Deliver, WorkerTypes, BuffersFilled, NotifyTypes
  <2>6. SenderTypes' /\ PipeTypes' /\ ClientTypes'
    BY <1>9 DEF Deliver, SenderTypes, PipeTypes, ClientTypes
  <2> QED BY <2>2, <2>3, <2>4, <2>5, <2>6 DEF TypeOK
<1>10. ASSUME NEW i \in Instance, WriteMessage(i) PROVE TypeOK'
  <2>1. WorkerTypes'
    BY <1>10 DEF WriteMessage, WorkerTypes
  <2>2. EventTypes'
    BY <1>10 DEF WriteMessage, EventTypes
  <2>3. QueueTypes'
    BY <1>10 DEF WriteMessage, PopHead, QueueTypes
  <2>4. PipeTypes'
    <3>1. Head(m_outputBuffers[i]) \in Message
      BY <1>10 DEF WriteMessage, PopHead, QueueTypes
    <3> QED BY <1>10, <3>1 DEF WriteMessage, PipeTypes
  <2>5. SenderTypes' /\ ClientTypes' /\ NotifyTypes'
    BY <1>10 DEF WriteMessage, PopHead, SenderTypes, ClientTypes, NotifyTypes
  <2> QED BY <2>1, <2>2, <2>3, <2>4, <2>5 DEF TypeOK
<1>11. ASSUME NEW i \in Instance, WriteFails(i) PROVE TypeOK'
  <2>1. WorkerTypes'
    BY <1>11 DEF WriteFails, WorkerTypes
  <2>2. EventTypes'
    BY <1>11 DEF WriteFails, EventTypes
  <2>3. QueueTypes'
    BY <1>11 DEF WriteFails, PopHead, QueueTypes
  <2>4. SenderTypes' /\ PipeTypes' /\ ClientTypes' /\ NotifyTypes'
    BY <1>11 DEF WriteFails, PopHead, SenderTypes, PipeTypes, ClientTypes, NotifyTypes
  <2> QED BY <2>1, <2>2, <2>3, <2>4 DEF TypeOK
<1>12. ASSUME NEW i \in Instance, Disconnect(i) PROVE TypeOK'
  <2>1. WorkerTypes'
    BY <1>12 DEF Disconnect, NewInstanceNo, WorkerTypes
  <2>2. EventTypes'
    BY <1>12 DEF Disconnect, FinishCanceling, EventTypes
  <2>3. QueueTypes'
    BY <1>12 DEF Disconnect, QueueTypes
  <2>4. PipeTypes'
    <3>0. <<>> \in Seq(Request) /\ <<>> \in Seq(Message)
      OBVIOUS
    <3>1. CASE i \in reading
      BY <1>12, <3>0, <3>1 DEF Disconnect, FinishCanceling, PipeTypes
    <3>2. CASE i \notin reading
      BY <1>12, <3>2 DEF Disconnect, FinishCanceling, PipeTypes
    <3> QED BY <3>1, <3>2
  <2>5. NotifyTypes'
    <3>1. m_instanceNo[i] \in Nat
      BY DEF WorkerTypes
    <3>2. closed' = closed \/ closed' = closed \cup {m_instanceNo[i]}
      BY <1>12 DEF Disconnect, FinishCanceling, OnDisconnect
    <3> QED BY <1>12, <3>1, <3>2 DEF Disconnect, NotifyTypes
  <2>6. SenderTypes' /\ ClientTypes'
    BY <1>12 DEF Disconnect, FinishCanceling, SenderTypes, ClientTypes
  <2> QED BY <2>1, <2>2, <2>3, <2>4, <2>5, <2>6 DEF TypeOK
<1>13. ASSUME NEW i \in Instance, Reconnect(i) PROVE TypeOK'
  <2>1. WorkerTypes'
    BY <1>13 DEF Reconnect, WorkerTypes
  <2>2. EventTypes'
    BY <1>13 DEF Reconnect, ConnectPends, IssueReset, EventTypes
  <2>3. PipeTypes'
    BY <1>13 DEF Reconnect, ConnectPends, PipeTypes
  <2>4. NotifyTypes'
    BY <1>13 DEF Reconnect, ConnectPends, NotifyTypes
  <2>5. QueueTypes' /\ SenderTypes' /\ ClientTypes'
    BY <1>13 DEF Reconnect, ConnectPends, QueueTypes, SenderTypes, ClientTypes
  <2> QED BY <2>1, <2>2, <2>3, <2>4, <2>5 DEF TypeOK
<1>14. ASSUME NEW i \in Instance, Cancel(i) PROVE TypeOK'
  <2>1. WorkerTypes'
    BY <1>14 DEF Cancel, WorkerTypes
  <2>2. EventTypes'
    BY <1>14 DEF Cancel, EventTypes
  <2>3. PipeTypes'
    <3>1. CASE i \in m_fPendingWrite
      <4>1. OutQuota <= Len(outbound[i])
        BY <1>14, <3>1 DEF Cancel, CancelFails, Stalled, PipeTypes
      <4>2. SubSeq(outbound[i], 1, OutQuota) \in Seq(Message)
        BY <4>1 DEF PipeTypes
      <4> QED BY <1>14, <3>1, <4>2 DEF Cancel, PipeTypes
    <3>2. CASE i \notin m_fPendingWrite
      BY <1>14, <3>2 DEF Cancel, PipeTypes
    <3> QED BY <3>1, <3>2
  <2>4. QueueTypes' /\ SenderTypes' /\ ClientTypes' /\ NotifyTypes'
    BY <1>14 DEF Cancel, QueueTypes, SenderTypes, ClientTypes, NotifyTypes
  <2> QED BY <2>1, <2>2, <2>3, <2>4 DEF TypeOK
<1>15. ASSUME WaitAll PROVE TypeOK'
  <2>1. WorkerTypes'
    BY <1>15 DEF WaitAll, WorkerTypes
  <2>2. EventTypes'
    BY <1>15 DEF WaitAll, EventTypes
  <2>3. QueueTypes' /\ SenderTypes' /\ PipeTypes' /\ ClientTypes' /\ NotifyTypes'
    BY <1>15 DEF WaitAll, QueueTypes, SenderTypes, PipeTypes, ClientTypes, NotifyTypes
  <2> QED BY <2>1, <2>2, <2>3 DEF TypeOK
<1>16. ASSUME NEW i \in Instance, Finish(i) PROVE TypeOK'
  <2>1. WorkerTypes'
    BY <1>16 DEF Finish, WorkerTypes
  <2>2. EventTypes'
    BY <1>16 DEF Finish, FinishCanceling, EventTypes
  <2>3. PipeTypes'
    <3>0. <<>> \in Seq(Request) /\ <<>> \in Seq(Message)
      OBVIOUS
    <3>1. CASE i \in reading
      BY <1>16, <3>0, <3>1 DEF Finish, FinishCanceling, PipeTypes
    <3>2. CASE i \notin reading
      BY <1>16, <3>2 DEF Finish, FinishCanceling, PipeTypes
    <3> QED BY <3>1, <3>2
  <2>4. NotifyTypes'
    <3>1. m_instanceNo[i] \in Nat
      BY DEF WorkerTypes
    <3>2. closed' = closed \/ closed' = closed \cup {m_instanceNo[i]}
      BY <1>16 DEF Finish, FinishCanceling, OnDisconnect
    <3> QED BY <1>16, <3>1, <3>2 DEF Finish, NotifyTypes
  <2>5. QueueTypes' /\ SenderTypes' /\ ClientTypes'
    BY <1>16 DEF Finish, FinishCanceling, QueueTypes, SenderTypes, ClientTypes
  <2> QED BY <2>1, <2>2, <2>3, <2>4, <2>5 DEF TypeOK
<1>17. ASSUME NEW s \in Senders, NEW i \in Instance, SendFind(s, i) PROVE TypeOK'
  <2>1. SenderTypes'
    BY <1>17 DEF SendFind, WorkerTypes, SenderTypes
  <2>2. WorkerTypes' /\ EventTypes' /\ QueueTypes' /\ PipeTypes' /\ ClientTypes' /\ NotifyTypes'
    BY <1>17 DEF SendFind, WorkerTypes, EventTypes, QueueTypes, PipeTypes, ClientTypes, NotifyTypes
  <2> QED BY <2>1, <2>2 DEF TypeOK
<1>18. ASSUME NEW s \in Senders, SendLock(s) PROVE TypeOK'
  <2>1. QueueTypes'
    BY <1>18 DEF SendLock, SenderTypes, QueueTypes
  <2>2. SenderTypes'
    BY <1>18 DEF SendLock, SenderTypes
  <2>3. WorkerTypes' /\ EventTypes' /\ PipeTypes' /\ ClientTypes' /\ NotifyTypes'
    BY <1>18 DEF SendLock, WorkerTypes, EventTypes, PipeTypes, ClientTypes, NotifyTypes
  <2> QED BY <2>1, <2>2, <2>3 DEF TypeOK
<1>19. ASSUME NEW s \in Senders, SendAdd(s) PROVE TypeOK'
  <2>1. QueueTypes'
    <3>1. [to |-> addressee[s], re |-> s] \in Message
      BY DEF Message, SenderTypes
    <3>2. target[s] \in Instance
      BY DEF SenderTypes
    <3> QED BY <1>19, <3>1, <3>2 DEF SendAdd, AddTail, QueueTypes
  <2>2. SenderTypes'
    BY <1>19 DEF SendAdd, SenderTypes
  <2>3. WorkerTypes' /\ EventTypes' /\ PipeTypes' /\ ClientTypes' /\ NotifyTypes'
    BY <1>19 DEF SendAdd, WorkerTypes, EventTypes, PipeTypes, ClientTypes, NotifyTypes
  <2> QED BY <2>1, <2>2, <2>3 DEF TypeOK
<1>20. ASSUME NEW s \in Senders, SendSignal(s) PROVE TypeOK'
  <2>1. EventTypes'
    BY <1>20 DEF SendSignal, SenderTypes, EventTypes
  <2>2. SenderTypes'
    BY <1>20 DEF SendSignal, SenderTypes
  <2>3. WorkerTypes' /\ QueueTypes' /\ PipeTypes' /\ ClientTypes' /\ NotifyTypes'
    BY <1>20 DEF SendSignal, WorkerTypes, QueueTypes, PipeTypes, ClientTypes, NotifyTypes
  <2> QED BY <2>1, <2>2, <2>3 DEF TypeOK
<1>21. ASSUME NEW i \in Instance, Connect(i) PROVE TypeOK'
  <2>1. EventTypes'
    BY <1>21 DEF Connect, EventTypes
  <2>2. PipeTypes'
    <3>1. connCnt + 1 \in Client
      BY <1>21 DEF Connect, ClientTypes
    <3>2. /\ pipeState' = [pipeState EXCEPT ![i] = "connected"]
          /\ client' = [client EXCEPT ![i] = connCnt + 1]
          /\ UNCHANGED <<inbound, outbound>>
      BY <1>21 DEF Connect
    <3> QED BY <3>1, <3>2 DEF PipeTypes
  <2>3. ClientTypes'
    BY <1>21 DEF Connect, ClientTypes
  <2>4. WorkerTypes' /\ QueueTypes' /\ SenderTypes' /\ NotifyTypes'
    BY <1>21 DEF Connect, WorkerTypes, QueueTypes, SenderTypes, NotifyTypes
  <2> QED BY <2>1, <2>2, <2>3, <2>4 DEF TypeOK
<1>22. ASSUME NEW i \in Instance, SendRequest(i) PROVE TypeOK'
  <2>1. client[i] \in Client
    BY <1>22 DEF SendRequest, BuffersFilled
  <2>2. EventTypes'
    BY <1>22 DEF SendRequest, EventTypes
  <2>3. [client |-> client[i], n |-> sent[client[i]] + 1] \in Request
    BY <1>22, <2>1 DEF SendRequest, ClientTypes, Request
  <2>4. QueueTypes'
    BY <1>22, <2>3 DEF SendRequest, QueueTypes
  <2>5. PipeTypes'
    <3>1. Append(inbound[i], [client |-> client[i], n |-> sent[client[i]] + 1])
            \in Seq(Request)
      BY <2>3 DEF PipeTypes
    <3>2. CASE ovRead[i] = "pending"
      BY <1>22, <3>2 DEF SendRequest, PipeTypes
    <3>3. CASE ovRead[i] # "pending"
      BY <1>22, <3>1, <3>3 DEF SendRequest, PipeTypes
    <3> QED BY <3>2, <3>3
  <2>6. ClientTypes'
    <3>1. sent[client[i]] + 1 \in 0 .. MaxRequests
      BY <1>22, <2>1 DEF SendRequest, ClientTypes
    <3>2. /\ sent' = [sent EXCEPT ![client[i]] = sent[client[i]] + 1]
          /\ UNCHANGED <<connCnt, received>>
      BY <1>22 DEF SendRequest
    <3> QED BY <3>1, <3>2 DEF ClientTypes
  <2>7. WorkerTypes' /\ SenderTypes' /\ NotifyTypes'
    BY <1>22 DEF SendRequest, WorkerTypes, SenderTypes, NotifyTypes
  <2> QED BY <2>2, <2>4, <2>5, <2>6, <2>7 DEF TypeOK
<1>23. ASSUME NEW i \in Instance, Receive(i) PROVE TypeOK'
  <2>1. client[i] \in Client
    BY <1>23 DEF Receive, BuffersFilled
  <2>2. EventTypes'
    BY <1>23 DEF Receive, EventTypes
  <2>3. PipeTypes'
    BY <1>23 DEF Receive, PipeTypes
  <2>4. ClientTypes'
    <3>1. Head(outbound[i]) \in Message
      BY <1>23 DEF Receive, PipeTypes
    <3> QED BY <1>23, <2>1, <3>1 DEF Receive, ClientTypes
  <2>5. WorkerTypes' /\ QueueTypes' /\ SenderTypes' /\ NotifyTypes'
    BY <1>23 DEF Receive, WorkerTypes, QueueTypes, SenderTypes, NotifyTypes
  <2> QED BY <2>2, <2>3, <2>4, <2>5 DEF TypeOK
<1>24. ASSUME NEW i \in Instance, Close(i) PROVE TypeOK'
  <2>1. EventTypes'
    BY <1>24 DEF Close, EventTypes
  <2>2. PipeTypes'
    BY <1>24 DEF Close, PipeTypes
  <2>3. WorkerTypes' /\ QueueTypes' /\ SenderTypes' /\ ClientTypes' /\ NotifyTypes'
    BY <1>24 DEF Close, WorkerTypes, QueueTypes, SenderTypes, ClientTypes, NotifyTypes
  <2> QED BY <2>1, <2>2, <2>3 DEF TypeOK
<1>25. ASSUME UNCHANGED vars PROVE TypeOK'
  BY <1>25 DEF TypeOK, WorkerTypes, EventTypes, QueueTypes, SenderTypes, PipeTypes, ClientTypes, NotifyTypes
<1> QED
  BY <1>1, <1>2, <1>3, <1>4, <1>5, <1>6, <1>7, <1>8, <1>9, <1>10, <1>11, <1>12, <1>13, <1>14, <1>15, <1>16, <1>17, <1>18, <1>19, <1>20, <1>21, <1>22, <1>23, <1>24, <1>25
  DEF Next, Worker, Sending, Clients, Finished

\* Numbers stay distinct: only DisconnectAndReconnect(++m_instanceCnt) gives one
\* out, and OnDisconnect is called with the number that is being given up.
LEMMA NumbersStep ==
    IInv /\ [Next]_vars => NumbersNameSessions' /\ NumbersGrow'
<1> SUFFICES ASSUME IInv, [Next]_vars PROVE NumbersNameSessions' /\ NumbersGrow'
  OBVIOUS
<1> USE InstancesAssumption
<1>0. WorkerTypes /\ NotifyTypes /\ NumbersNameSessions /\ NumbersGrow
  BY DEF IInv, TypeOK
<1> DEFINE Kept ==
      /\ UNCHANGED <<numberVars, opened, closed>>
      /\ Leaving => Leaving'
      /\ wpc = "reconnect" => Leaving' \/ (wpc' = "reconnect" /\ cur' = cur)
      /\ wpc' = "reconnect" => wpc = "reconnect"
<1>1. ASSUME NEW i \in Instance,
             \/ StartFails(i) \/ ServeWrite(i) \/ ServeNewMsg(i) \/ ReadMessage(i)
             \/ ReadPends(i) \/ ReadBroken(i) \/ Deliver(i) \/ WriteLocked(i)
             \/ WriteNothing(i) \/ WriteMessage(i) \/ WriteFails(i)
             \/ Cancel(i) \/ CancelThrows(i)
      PROVE  Kept
  BY <1>1 DEF StartFails, ServeWrite, ServeNewMsg, ReadMessage, ReadPends,
     ReadBroken, Deliver, WriteLocked, WriteNothing, WriteMessage, WriteFails,
     PopHead, AfterWrite, Cancel, CancelThrows, Leaving, Chosen
<1>2. ASSUME \/ ServeTimeout \/ ServeStop \/ WaitAll \/ Stop \/ UNCHANGED vars
             \/ \E s \in Senders : Sending(s)
             \/ Clients
      PROVE  Kept
  BY <1>2 DEF ServeTimeout, ServeStop, WaitAll, Stop, Sending, SendFind, SendLock,
     SendAdd, SendSignal, Clients, Connect, SendRequest, Receive, Close, Leaving, Idle
<1>3. ASSUME Kept
      PROVE  NumbersNameSessions' /\ NumbersGrow'
  BY <1>0, <1>3 DEF NumbersNameSessions, NumbersGrow
<1>4. ASSUME NEW i \in Instance, Start(i) \/ ServeRead(i)
      PROVE  NumbersNameSessions' /\ NumbersGrow'
  <2>1. UNCHANGED <<numberVars, closed>> /\ ~Leaving
        /\ wpc # "reconnect" /\ wpc' # "reconnect"
    BY <1>4 DEF Start, ServeRead, Outcome, Chosen, Leaving
  <2>2. opened' \subseteq opened \cup {m_instanceNo[i]}
    BY <1>4 DEF Start, ServeRead, ConnectPends, ConnectedBefore, OnConnect
  <2> QED BY <1>0, <2>1, <2>2 DEF NumbersNameSessions, NumbersGrow
<1>5. ASSUME NEW i \in Instance, Disconnect(i) PROVE  NumbersNameSessions' /\ NumbersGrow'
  <2>1. /\ wpc = "disconnect" /\ cur = i /\ wpc' = "reconnect" /\ cur' = i
        /\ m_instanceCnt' = m_instanceCnt + 1
        /\ m_instanceNo' = m_instanceNo
        /\ closed' \subseteq closed \cup {m_instanceNo[i]}
        /\ opened' = opened
    BY <1>5 DEF Disconnect, FinishCanceling, OnDisconnect, NewInstanceNo
  <2>2. ~Leaving
    BY <2>1 DEF Leaving
  <2>3. NumbersNameSessions'
    BY <1>0, <2>1, <2>2 DEF NumbersNameSessions
  <2>4. NumbersGrow'
    BY <1>0, <2>1 DEF NumbersGrow, NotifyTypes, WorkerTypes
  <2> QED BY <2>3, <2>4
<1>6. ASSUME NEW i \in Instance, DisconnectFails(i) \/ Finish(i)
      PROVE  NumbersNameSessions' /\ NumbersGrow'
  <2>1. /\ m_instanceCnt' \in {m_instanceCnt, m_instanceCnt + 1}
        /\ m_instanceNo' = m_instanceNo
        /\ closed' \subseteq closed \cup {m_instanceNo[i]}
        /\ opened' = opened
        /\ Leaving' /\ wpc' # "reconnect"
    BY <1>6 DEF DisconnectFails, Finish, FinishCanceling, OnDisconnect, NewInstanceNo, Leaving
  <2> QED BY <1>0, <2>1 DEF NumbersNameSessions, NumbersGrow, WorkerTypes, NotifyTypes
<1>7. ASSUME NEW i \in Instance, Reconnect(i) PROVE NumbersNameSessions' /\ NumbersGrow'
  <2>1. /\ wpc = "reconnect" /\ cur = i /\ wpc' = "wait"
        /\ m_instanceNo' = [m_instanceNo EXCEPT ![i] = m_instanceCnt]
        /\ UNCHANGED <<m_instanceCnt, opened, closed>>
    BY <1>7 DEF Reconnect
  <2>2. \A j \in Instance : m_instanceNo'[j] = IF j = i THEN m_instanceCnt
                                               ELSE m_instanceNo[j]
    BY <1>0, <2>1 DEF WorkerTypes
  <2>3. ~Leaving /\ m_instanceCnt \in Nat
    BY <1>0, <2>1 DEF WorkerTypes, Leaving
  <2> QED BY <1>0, <2>1, <2>2, <2>3 DEF NumbersNameSessions, NumbersGrow
<1> QED
  BY <1>1, <1>2, <1>3, <1>4, <1>5, <1>6, <1>7 DEF Next, Worker, Finished

\* A completed read has left a message for message_completed.
LEMMA BuffersStep == IInv /\ [Next]_vars => BuffersFilled'
<1> SUFFICES ASSUME IInv, [Next]_vars PROVE BuffersFilled'
  OBVIOUS
<1> USE InstancesAssumption, BoundsAssumption
<1>0. /\ WorkerTypes /\ EventTypes /\ QueueTypes /\ PipeTypes /\ ClientTypes
      /\ BuffersFilled
  BY DEF IInv, TypeOK
<1> DEFINE Kept ==
      /\ UNCHANGED <<pipeState, client, m_fPendingIO, ovRead, m_inputBuffer>>
      /\ Serving' => Serving /\ cur' = cur
      /\ wpc' = "deliver" => wpc = "deliver"
<1>1. ASSUME NEW i \in Instance,
             \/ StartFails(i) \/ ServeWrite(i) \/ ServeNewMsg(i) \/ ReadBroken(i)
             \/ WriteLocked(i) \/ WriteNothing(i) \/ WriteMessage(i)
             \/ WriteFails(i) \/ DisconnectFails(i) \/ CancelThrows(i)
             \/ Receive(i)
      PROVE  Kept
  BY <1>1 DEF StartFails, ServeWrite, AfterWrite, ServeNewMsg, ReadBroken, WriteLocked,
     WriteNothing, WriteMessage, WriteFails, PopHead, DisconnectFails,
     CancelThrows, Receive, Serving
<1>2. ASSUME \/ ServeTimeout \/ ServeStop \/ WaitAll \/ Stop \/ UNCHANGED vars
             \/ \E s \in Senders : Sending(s)
      PROVE  Kept
  BY <1>2 DEF ServeTimeout, ServeStop, WaitAll, Stop, Sending, SendFind, SendLock,
     SendAdd, SendSignal, Serving
<1>3. ASSUME Kept PROVE BuffersFilled'
  BY <1>0, <1>3 DEF BuffersFilled, Serving
<1>4. ASSUME NEW i \in Instance, Start(i) \/ Reconnect(i) \/ ReadPends(i)
      PROVE  BuffersFilled'
  <2>1. /\ ~Serving' /\ client' = client
        /\ \/ m_inputBuffer' = m_inputBuffer
           \/ /\ m_inputBuffer' = [m_inputBuffer EXCEPT ![i] = NoRequest]
              /\ ovRead' = [ovRead EXCEPT ![i] = "pending"]
        /\ m_fPendingIO' \subseteq m_fPendingIO \cup {i}
        /\ \/ ovRead' = [ovRead EXCEPT ![i] = "pending"]
           \/ ovRead' = ovRead /\ m_fPendingIO' = m_fPendingIO
        /\ \/ pipeState' = [pipeState EXCEPT ![i] = "listening"]
           \/ pipeState' = pipeState
    BY <1>4 DEF Start, Reconnect, ReadPends, ConnectPends, ConnectedBefore, Serving
  <2> QED BY <1>0, <2>1 DEF BuffersFilled, EventTypes, PipeTypes, QueueTypes, Serving
<1>5. ASSUME NEW i \in Instance, ServeRead(i) PROVE BuffersFilled'
  <2>1. wpc' = "deliver" => ovRead[i] = "data" /\ m_inputBuffer[i] \in Request
    BY <1>0, <1>5 DEF ServeRead, Outcome, BuffersFilled, EventTypes
  <2> QED BY <1>0, <1>5, <2>1 DEF ServeRead, ClearPendingIO, BuffersFilled, Serving
<1>6. ASSUME NEW i \in Instance, ReadMessage(i) \/ Deliver(i) PROVE BuffersFilled'
  <2>1. i \notin m_fPendingIO /\ cur' = i
    BY <1>0, <1>6 DEF ReadMessage, Deliver, BuffersFilled, Serving
  <2>2. CASE ReadMessage(i)
    <3>1. m_inputBuffer'[i] \in Request /\ ovRead'[i] = "data"
      BY <1>0, <2>2 DEF ReadMessage, PipeTypes, QueueTypes, EventTypes
    <3> QED BY <1>0, <2>1, <2>2, <3>1 DEF ReadMessage, BuffersFilled, QueueTypes, EventTypes
  <2>3. CASE Deliver(i)
    BY <1>0, <2>1, <2>3 DEF Deliver, BuffersFilled, QueueTypes
  <2> QED BY <1>6, <2>2, <2>3
<1>7. ASSUME NEW i \in Instance, Disconnect(i) PROVE BuffersFilled'
  <2>1. i \notin m_fPendingIO
    BY <1>0, <1>7 DEF Disconnect, BuffersFilled, Serving
  <2>2. /\ m_fPendingIO' \subseteq m_fPendingIO
        /\ \/ pipeState' = pipeState
           \/ pipeState' = [pipeState EXCEPT ![i] = "disconnected"]
    BY <1>7 DEF Disconnect, FinishCanceling
  <2> QED BY <1>0, <1>7, <2>1, <2>2 DEF Disconnect, BuffersFilled, PipeTypes, QueueTypes
<1>8. ASSUME NEW i \in Instance, Cancel(i) \/ Finish(i) PROVE BuffersFilled'
  <2>1. /\ ~Serving' /\ UNCHANGED <<client, m_inputBuffer>>
        /\ m_fPendingIO' \subseteq m_fPendingIO
        /\ ovRead' = ovRead \/ ovRead' = [ovRead EXCEPT ![i] = "aborted"]
        /\ \/ pipeState' = pipeState
           \/ pipeState' = [pipeState EXCEPT ![i] = "disconnected"]
    BY <1>8 DEF Cancel, Finish, FinishCanceling, Serving
  <2> QED BY <1>0, <2>1 DEF BuffersFilled, PipeTypes, EventTypes, Serving
<1>9. ASSUME NEW i \in Instance, Connect(i) PROVE BuffersFilled'
  <2>1. connCnt + 1 \in Client
    BY <1>0, <1>9 DEF Connect, ClientTypes
  <2>2. /\ client' = [client EXCEPT ![i] = connCnt + 1]
        /\ pipeState' = [pipeState EXCEPT ![i] = "connected"]
        /\ UNCHANGED <<wpc, cur, m_fPendingIO, m_inputBuffer>>
        /\ ovRead' = ovRead \/ (ovRead[i] = "pending" /\ ovRead' = [ovRead EXCEPT ![i] = "connected"])
    BY <1>9 DEF Connect
  <2>3. ASSUME NEW j \in Instance
        PROVE  /\ pipeState'[j] \in {"connected", "closing"} => client'[j] \in Client
               /\ j \in m_fPendingIO' /\ ovRead'[j] = "data" =>
                     m_inputBuffer'[j] \in Request
    BY <1>0, <2>1, <2>2 DEF BuffersFilled, PipeTypes, EventTypes
  <2>4. wpc' = "deliver" => ovRead'[cur'] = "data" /\ m_inputBuffer'[cur'] \in Request
    BY <1>0, <2>1, <2>2 DEF BuffersFilled, WorkerTypes, PipeTypes, EventTypes
  <2> QED BY <1>0, <2>1, <2>2, <2>3, <2>4 DEF BuffersFilled, Serving
<1>10. ASSUME NEW i \in Instance, SendRequest(i) PROVE BuffersFilled'
  <2>1. [client |-> client[i], n |-> sent[client[i]] + 1] \in Request
    BY <1>0, <1>10 DEF SendRequest, BuffersFilled, ClientTypes, Request
  <2>2. /\ UNCHANGED <<wpc, cur, m_fPendingIO, client, pipeState>>
        /\ \/ UNCHANGED <<ovRead, m_inputBuffer>>
           \/ /\ ovRead[i] = "pending"
              /\ ovRead' = [ovRead EXCEPT ![i] = "data"]
              /\ m_inputBuffer' = [m_inputBuffer EXCEPT ![i] =
                     [client |-> client[i], n |-> sent[client[i]] + 1]]
    BY <1>10 DEF SendRequest
  <2>3. ASSUME NEW j \in Instance
        PROVE  /\ pipeState'[j] \in {"connected", "closing"} => client'[j] \in Client
               /\ j \in m_fPendingIO' /\ ovRead'[j] = "data" =>
                     m_inputBuffer'[j] \in Request
    BY <1>0, <2>1, <2>2 DEF BuffersFilled, QueueTypes, EventTypes
  <2>4. wpc' = "deliver" => ovRead'[cur'] = "data" /\ m_inputBuffer'[cur'] \in Request
    BY <1>0, <2>1, <2>2 DEF BuffersFilled, WorkerTypes, QueueTypes, EventTypes
  <2> QED BY <1>0, <2>1, <2>2, <2>3, <2>4 DEF BuffersFilled, Serving
<1>11. ASSUME NEW i \in Instance, Close(i) PROVE BuffersFilled'
  <2>1. /\ pipeState[i] = "connected"
        /\ pipeState' = [pipeState EXCEPT ![i] = "closing"]
        /\ UNCHANGED <<wpc, cur, m_fPendingIO, client, m_inputBuffer>>
        /\ ovRead' = ovRead \/ (ovRead[i] = "pending" /\ ovRead' = [ovRead EXCEPT ![i] = "broken"])
    BY <1>11 DEF Close
  <2>3. ASSUME NEW j \in Instance
        PROVE  /\ pipeState'[j] \in {"connected", "closing"} => client'[j] \in Client
               /\ j \in m_fPendingIO' /\ ovRead'[j] = "data" =>
                     m_inputBuffer'[j] \in Request
    BY <1>0, <2>1 DEF BuffersFilled, PipeTypes, EventTypes
  <2>4. wpc' = "deliver" => ovRead'[cur'] = "data" /\ m_inputBuffer'[cur'] \in Request
    BY <1>0, <2>1 DEF BuffersFilled, WorkerTypes, PipeTypes, EventTypes
  <2> QED BY <1>0, <2>1, <2>3, <2>4 DEF BuffersFilled, Serving
<1> QED
  BY <1>1, <1>2, <1>3, <1>4, <1>5, <1>6, <1>7, <1>8, <1>9, <1>10, <1>11
     DEF Next, Worker, Clients, Finished

\* Each step that resets evRead[i] or clears the flag of an instance issues the
\* next operation on m_ovRead before the worker waits again.
LEMMA EngagedStep == IInv /\ [Next]_vars => AllEngaged' /\ NotStartedYet'
<1> SUFFICES ASSUME IInv, [Next]_vars PROVE AllEngaged' /\ NotStartedYet'
  OBVIOUS
<1> USE InstancesAssumption
<1>0. WorkerTypes /\ EventTypes /\ AllEngaged /\ NotStartedYet
  BY DEF IInv, TypeOK
<1> DEFINE Kept ==
      /\ UNCHANGED <<evRead, m_fPendingIO, ovRead>>
      /\ wpc' = "start" => reading' = reading
      /\ wpc' = "start" => wpc = "start" /\ cur' = cur
      /\ ~Leaving' /\ wpc' # "start" => ~Leaving /\ wpc # "start"
      /\ Serving => Leaving' \/ (Serving' /\ cur' = cur)
<1>1. ASSUME NEW i \in Instance,
             \/ StartFails(i) \/ ServeWrite(i) \/ ServeNewMsg(i) \/ ReadBroken(i)
             \/ Deliver(i)
             \/ WriteLocked(i) \/ WriteNothing(i) \/ WriteMessage(i)
             \/ WriteFails(i) \/ DisconnectFails(i) \/ CancelThrows(i)
             \/ Receive(i)
      PROVE  Kept
  BY <1>1 DEF StartFails, Chosen, ServeWrite, AfterWrite, ServeNewMsg, ReadBroken, Deliver,
     WriteLocked, WriteNothing, WriteMessage, WriteFails, PopHead, DisconnectFails,
     CancelThrows, Receive, Serving, Leaving
<1>2. ASSUME \/ ServeTimeout \/ ServeStop \/ WaitAll \/ Stop \/ UNCHANGED vars
             \/ \E s \in Senders : Sending(s)
      PROVE  Kept
  BY <1>2 DEF ServeTimeout, ServeStop, WaitAll, Stop, Sending, SendFind, SendLock,
     SendAdd, SendSignal, Serving, Leaving, Idle
<1>3. ASSUME Kept PROVE AllEngaged' /\ NotStartedYet'
  BY <1>0, <1>3 DEF AllEngaged, NotStartedYet, Engaged
<1>4. ASSUME NEW i \in Instance, Start(i) PROVE AllEngaged' /\ NotStartedYet'
  <2>1. /\ wpc = "start" /\ cur = i
        /\ wpc' = IF i = INSTANCES THEN "wait" ELSE "start"
        /\ cur' = IF i = INSTANCES THEN i ELSE i + 1
        /\ reading' = reading \/ reading' = reading \cup {i}
        /\ \/ /\ m_fPendingIO' = m_fPendingIO \cup {i}
              /\ evRead' = evRead \ {i}
              /\ ovRead' = [ovRead EXCEPT ![i] = "pending"]
           \/ /\ evRead' = evRead \cup {i}
              /\ UNCHANGED <<m_fPendingIO, ovRead>>
    BY <1>4 DEF Start, ConnectPends, ConnectedBefore, IssueReset
  <2>2. ASSUME NEW j \in 1 .. i PROVE Engaged(j)'
    BY <1>0, <2>1 DEF AllEngaged, Engaged, EventTypes
  <2>3. AllEngaged'
    BY <2>1, <2>2 DEF AllEngaged, Serving
  <2>4. NotStartedYet'
    BY <1>0, <2>1 DEF NotStartedYet, EventTypes
  <2> QED BY <2>3, <2>4
<1>5. ASSUME NEW i \in Instance,
             ServeRead(i) \/ ReadMessage(i) \/ ReadPends(i) \/ Disconnect(i) \/ Reconnect(i)
      PROVE AllEngaged' /\ NotStartedYet'
  <2>1. /\ wpc # "start" /\ ~Leaving /\ wpc' # "start"
        /\ Serving => cur = i
        /\ cur' = i
    BY <1>5 DEF ServeRead, Chosen, Outcome, ReadMessage, ReadPends, Disconnect, Reconnect,
       Serving, Leaving
  <2>2. ASSUME NEW j \in Instance \ {i}
        PROVE  /\ j \in evRead' <=> j \in evRead
               /\ j \in m_fPendingIO' <=> j \in m_fPendingIO
               /\ ovRead'[j] = ovRead[j]
    <3>1. CASE ServeRead(i) \/ Disconnect(i)
      BY <3>1 DEF ServeRead, ClearPendingIO, Disconnect, FinishCanceling
    <3>2. CASE ReadMessage(i) \/ ReadPends(i) \/ Reconnect(i)
      BY <1>0, <3>2 DEF ReadMessage, ReadPends, Reconnect, ConnectPends, IssueReset,
         EventTypes
    <3> QED BY <1>5, <3>1, <3>2
  <2>3. Serving' \/ Engaged(i)'
    BY <1>0, <1>5 DEF ServeRead, Outcome, ReadMessage, ReadPends, Disconnect, Reconnect,
       ConnectPends, Serving, Engaged, EventTypes
  <2>4. \A j \in Instance : Engaged(j)' \/ (Serving' /\ cur' = j)
    BY <1>0, <2>1, <2>2, <2>3 DEF AllEngaged, Engaged
  <2> QED BY <2>1, <2>4 DEF AllEngaged, NotStartedYet
<1>6. ASSUME NEW i \in Instance, Cancel(i) \/ Finish(i) PROVE AllEngaged' /\ NotStartedYet'
  BY <1>6 DEF Cancel, Finish, AllEngaged, NotStartedYet, Leaving
<1>7. ASSUME NEW i \in Instance, Connect(i) \/ SendRequest(i) \/ Close(i)
      PROVE AllEngaged' /\ NotStartedYet'
  <2>1. /\ UNCHANGED <<wpc, cur, reading, m_fPendingIO>>
        /\ \/ UNCHANGED <<ovRead, evRead>>
           \/ /\ ovRead[i] = "pending"
              /\ evRead' = evRead \cup {i}
              /\ \/ ovRead' = [ovRead EXCEPT ![i] = "connected"]
                 \/ ovRead' = [ovRead EXCEPT ![i] = "data"]
                 \/ ovRead' = [ovRead EXCEPT ![i] = "broken"]
    BY <1>7 DEF Connect, SendRequest, Close
  <2>2. ASSUME NEW j \in Instance, Engaged(j) PROVE Engaged(j)'
    BY <1>0, <2>1, <2>2 DEF Engaged, EventTypes
  <2>3. AllEngaged'
    BY <1>0, <2>1, <2>2 DEF AllEngaged, Serving, Leaving, WorkerTypes
  <2>4. NotStartedYet'
    BY <1>0, <2>1 DEF NotStartedYet, EventTypes, WorkerTypes
  <2> QED BY <2>3, <2>4
<1> QED
  BY <1>1, <1>2, <1>3, <1>4, <1>5, <1>6, <1>7 DEF Next, Worker, Clients, Finished

\* m_fPendingIO, m_ovRead, evRead, m_eState and the pipe keep telling one story.
LEMMA CoherentStep == IInv /\ [Next]_vars => OverlappedReadCoherent'
<1> SUFFICES ASSUME IInv, [Next]_vars, ~Leaving'
             PROVE  \A j \in Instance : CoherentAt(j)'
  BY DEF OverlappedReadCoherent
<1> USE InstancesAssumption
<1>0. /\ WorkerTypes /\ EventTypes /\ PipeTypes
      /\ BuffersFilled /\ OverlappedReadCoherent /\ SessionsMatchStates /\ NotStartedYet
  BY DEF IInv, TypeOK
<1> DEFINE Kept ==
      /\ ~Leaving
      /\ UNCHANGED <<evRead, m_fPendingIO, ovRead, pipeState, reading>>
      /\ wpc = "reconnect" => wpc' = "reconnect" /\ cur' = cur
<1>1. ASSUME NEW i \in Instance,
             \/ StartFails(i) \/ ServeWrite(i) \/ ServeNewMsg(i) \/ ReadBroken(i)
             \/ Deliver(i)
             \/ WriteLocked(i) \/ WriteNothing(i) \/ WriteMessage(i)
             \/ WriteFails(i) \/ DisconnectFails(i) \/ CancelThrows(i)
             \/ Cancel(i) \/ Finish(i)
             \/ Receive(i)
      PROVE  Kept
  BY <1>1 DEF StartFails, Chosen, ServeWrite, AfterWrite, ServeNewMsg, ReadBroken, Deliver,
     WriteLocked, WriteNothing, WriteMessage, WriteFails, PopHead, DisconnectFails,
     CancelThrows, Receive, Cancel, Finish, Leaving
<1>2. ASSUME \/ ServeTimeout \/ ServeStop \/ WaitAll \/ Stop \/ UNCHANGED vars
             \/ \E s \in Senders : Sending(s)
      PROVE  Kept
  BY <1>2 DEF ServeTimeout, ServeStop, WaitAll, Stop, Sending, SendFind, SendLock,
     SendAdd, SendSignal, Leaving, Idle
<1>3. ASSUME Kept PROVE \A j \in Instance : CoherentAt(j)'
  BY <1>0, <1>3 DEF OverlappedReadCoherent, CoherentAt
\* What a step on one instance leaves to show.
<1>4. ASSUME NEW i \in Instance, ~Leaving, CoherentAt(i)',
             wpc = "reconnect" => cur = i \/ (wpc' = "reconnect" /\ cur' = cur),
             \A j \in Instance \ {i} :
                 /\ j \in evRead' <=> j \in evRead
                 /\ j \in m_fPendingIO' <=> j \in m_fPendingIO
                 /\ j \in reading' <=> j \in reading
                 /\ ovRead'[j] = ovRead[j] /\ pipeState'[j] = pipeState[j]
      PROVE  \A j \in Instance : CoherentAt(j)'
  <2>1. ASSUME NEW j \in Instance \ {i} PROVE CoherentAt(j)'
    <3>1. CoherentAt(j)
      BY <1>0, <1>4 DEF OverlappedReadCoherent
    <3> QED BY <1>4, <3>1 DEF CoherentAt
  <2> QED BY <1>4, <2>1
<1>5. ASSUME NEW i \in Instance, Start(i) PROVE \A j \in Instance : CoherentAt(j)'
  <2>1. CoherentAt(i) /\ ~Leaving
    BY <1>0, <1>5 DEF Start, OverlappedReadCoherent, Leaving
  <2>2. CoherentAt(i)'
    <3>1. i \notin m_fPendingIO \cup reading /\ ovRead[i] = "idle"
      BY <1>0, <1>5 DEF Start, NotStartedYet
    <3>2. CASE ConnectPends(i)
      <4>1. reading' = reading
        BY <1>0, <1>5, <3>2 DEF Start, ConnectPends, ConnectedBefore, PipeTypes
      <4> QED BY <1>0, <2>1, <3>1, <3>2, <4>1
          DEF ConnectPends, IssueReset, CoherentAt, EventTypes, PipeTypes
    <3>3. CASE ConnectedBefore(i)
      BY <1>0, <2>1, <3>1, <3>3 DEF ConnectedBefore, CoherentAt, EventTypes
    <3> QED BY <1>5, <3>2, <3>3 DEF Start
  <2>3. /\ wpc # "reconnect"
        /\ \A j \in Instance \ {i} :
             /\ j \in evRead' <=> j \in evRead
             /\ j \in m_fPendingIO' <=> j \in m_fPendingIO
             /\ j \in reading' <=> j \in reading
             /\ ovRead'[j] = ovRead[j] /\ pipeState'[j] = pipeState[j]
    BY <1>0, <1>5 DEF Start, ConnectPends, ConnectedBefore, IssueReset, EventTypes, PipeTypes
  <2> QED BY <1>4, <2>1, <2>2, <2>3
<1>6. ASSUME NEW i \in Instance, ServeRead(i) PROVE \A j \in Instance : CoherentAt(j)'
  <2>1. CoherentAt(i) /\ ~Leaving /\ wpc = "wait" /\ i \in evRead
    BY <1>0, <1>6 DEF ServeRead, Chosen, OverlappedReadCoherent, Leaving
  <2>2. /\ m_fPendingIO' = m_fPendingIO \ {i}
        /\ UNCHANGED <<evRead, ovRead, pipeState>>
        /\ IF i \in m_fPendingIO /\ ovRead[i] = "connected"
           THEN reading' = reading \cup {i} ELSE reading' = reading
    BY <1>6 DEF ServeRead, ClearPendingIO
  <2>3. CoherentAt(i)'
    BY <1>0, <2>1, <2>2 DEF CoherentAt, EventTypes
  <2> QED BY <1>4, <2>1, <2>2, <2>3
<1>7. ASSUME NEW i \in Instance, ReadMessage(i) \/ ReadPends(i)
      PROVE  \A j \in Instance : CoherentAt(j)'
  <2>1. CoherentAt(i) /\ ~Leaving /\ wpc = "read" /\ cur = i /\ i \in reading
        /\ i \notin m_fPendingIO
    BY <1>0, <1>7 DEF ReadMessage, ReadPends, OverlappedReadCoherent, Leaving,
       SessionsMatchStates, BuffersFilled, Serving
  <2>2. CoherentAt(i)'
    BY <1>0, <1>7, <2>1 DEF ReadMessage, ReadPends, IssueReset, CoherentAt, EventTypes
  <2>3. \A j \in Instance \ {i} :
             /\ j \in evRead' <=> j \in evRead
             /\ j \in m_fPendingIO' <=> j \in m_fPendingIO
             /\ j \in reading' <=> j \in reading
             /\ ovRead'[j] = ovRead[j] /\ pipeState'[j] = pipeState[j]
    BY <1>0, <1>7 DEF ReadMessage, ReadPends, IssueReset, EventTypes, PipeTypes
  <2> QED BY <1>4, <2>1, <2>2, <2>3
<1>8. ASSUME NEW i \in Instance, Disconnect(i) PROVE \A j \in Instance : CoherentAt(j)'
  <2>1. CoherentAt(i) /\ ~Leaving /\ wpc = "disconnect" /\ cur = i
        /\ i \notin m_fPendingIO /\ i \in reading
    BY <1>0, <1>8 DEF Disconnect, OverlappedReadCoherent, Leaving, BuffersFilled, Serving,
       SessionsMatchStates
  <2>2. /\ \A j \in Instance \ {i} : j \in m_fPendingIO' <=> j \in m_fPendingIO
        /\ i \notin m_fPendingIO'
        /\ UNCHANGED <<evRead, ovRead, cur>>
        /\ wpc' = "reconnect"
        /\ pipeState' = [pipeState EXCEPT ![i] = "disconnected"]
        /\ reading' = reading
    BY <1>8, <2>1 DEF Disconnect, FinishCanceling
  <2>3. CoherentAt(i)'
    BY <1>0, <2>1, <2>2 DEF CoherentAt, EventTypes
  <2> QED BY <1>0, <1>4, <2>1, <2>2, <2>3 DEF PipeTypes
<1>9. ASSUME NEW i \in Instance, Reconnect(i) PROVE \A j \in Instance : CoherentAt(j)'
  <2>1. CoherentAt(i) /\ ~Leaving /\ wpc = "reconnect" /\ cur = i
    BY <1>0, <1>9 DEF Reconnect, OverlappedReadCoherent, Leaving
  <2>2. CoherentAt(i)'
    BY <1>0, <1>9, <2>1 DEF Reconnect, ConnectPends, IssueReset, CoherentAt, EventTypes,
       PipeTypes
  <2>3. \A j \in Instance \ {i} :
             /\ j \in evRead' <=> j \in evRead
             /\ j \in m_fPendingIO' <=> j \in m_fPendingIO
             /\ j \in reading' <=> j \in reading
             /\ ovRead'[j] = ovRead[j] /\ pipeState'[j] = pipeState[j]
    BY <1>0, <1>9 DEF Reconnect, ConnectPends, IssueReset, EventTypes, PipeTypes
  <2> QED BY <1>4, <2>1, <2>2, <2>3
<1>10. ASSUME NEW i \in Instance, Connect(i) \/ SendRequest(i) \/ Close(i)
       PROVE  \A j \in Instance : CoherentAt(j)'
  <2>1. /\ UNCHANGED <<wpc, cur, m_fPendingIO, reading>>
        /\ \/ UNCHANGED <<ovRead, evRead>> /\ ovRead[i] # "pending"
           \/ ovRead[i] = "pending" /\ evRead' = evRead \cup {i}
        /\ \A j \in Instance \ {i} : ovRead'[j] = ovRead[j] /\ pipeState'[j] = pipeState[j]
    BY <1>0, <1>10 DEF Connect, SendRequest, Close, EventTypes, PipeTypes
  <2>2. CoherentAt(i) /\ ~Leaving
    BY <1>0, <2>1 DEF OverlappedReadCoherent, Leaving
  <2>3. CoherentAt(i)'
    BY <1>0, <1>10, <2>1, <2>2 DEF Connect, SendRequest, Close, CoherentAt, EventTypes, PipeTypes
  <2> QED BY <1>4, <2>1, <2>2, <2>3
<1> QED
  BY <1>1, <1>2, <1>3, <1>5, <1>6, <1>7, <1>8, <1>9, <1>10 DEF Next, Worker, Clients, Finished

\* OnConnect is called exactly when an instance enters the READING state.
LEMMA SessionsStep == IInv /\ [Next]_vars => SessionsMatchStates'
<1> SUFFICES ASSUME IInv, [Next]_vars PROVE SessionsMatchStates'
  OBVIOUS
<1> USE InstancesAssumption
<1>0. /\ WorkerTypes /\ EventTypes /\ PipeTypes /\ NotifyTypes
      /\ NumbersNameSessions /\ NumbersGrow
      /\ OverlappedReadCoherent /\ SessionsMatchStates
  BY DEF IInv, TypeOK
<1> DEFINE Kept ==
      /\ UNCHANGED <<m_instanceNo, opened, reading>>
      /\ Leaving => Leaving'
      /\ Serving' => Serving /\ cur' = cur
      /\ wpc' = "disconnect" =>
            /\ wpc = "disconnect" \/ pipeState[cur] = "closing"
            /\ pipeState[cur] = "closing" => pipeState'[cur] = "closing"
      /\ wpc' = "reconnect" =>
            /\ wpc = "reconnect"
            /\ pipeState[cur] = "disconnected" => pipeState'[cur] = "disconnected"
<1>1. ASSUME NEW i \in Instance,
             \/ StartFails(i) \/ ServeWrite(i) \/ ServeNewMsg(i) \/ ReadBroken(i)
             \/ ReadMessage(i) \/ ReadPends(i) \/ Deliver(i)
             \/ WriteLocked(i) \/ WriteNothing(i) \/ WriteMessage(i)
             \/ WriteFails(i) \/ DisconnectFails(i)
             \/ Cancel(i) \/ CancelThrows(i) \/ Finish(i)
      PROVE  Kept
  BY <1>1 DEF StartFails, Chosen, ServeWrite, AfterWrite, ServeNewMsg, ReadBroken, Broken,
     ReadMessage, ReadPends, Deliver, WriteLocked, WriteNothing, WriteMessage, WriteFails,
     PopHead, DisconnectFails, Cancel, CancelThrows, Finish, Leaving, Serving
<1>2. ASSUME \/ ServeTimeout \/ ServeStop \/ WaitAll \/ Stop \/ UNCHANGED vars
             \/ \E s \in Senders : Sending(s)
      PROVE  Kept
  BY <1>2 DEF ServeTimeout, ServeStop, WaitAll, Stop, Sending, SendFind, SendLock,
     SendAdd, SendSignal, Leaving, Idle, Serving
<1>3. ASSUME NEW i \in Instance, Connect(i) \/ SendRequest(i) \/ Receive(i) \/ Close(i)
      PROVE  Kept
  BY <1>0, <1>3 DEF Connect, SendRequest, Receive, Close, Leaving, Serving, PipeTypes, WorkerTypes
<1>4. ASSUME Kept PROVE SessionsMatchStates'
  BY <1>0, <1>4 DEF SessionsMatchStates, Serving
<1>5. ASSUME NEW i \in Instance, Start(i) PROVE SessionsMatchStates'
  <2>1. /\ wpc = "start" /\ wpc' \in {"start", "wait"}
        /\ m_instanceNo' = m_instanceNo
        /\ \/ UNCHANGED <<opened, reading>>
           \/ /\ opened' = opened \cup {m_instanceNo[i]}
              /\ reading' = reading \cup {i}
    BY <1>5 DEF Start, ConnectPends, ConnectedBefore, OnConnect
  <2> QED BY <1>0, <2>1 DEF SessionsMatchStates, NumbersNameSessions, Leaving, Serving
<1>6. ASSUME NEW i \in Instance, ServeRead(i) PROVE SessionsMatchStates'
  <2>1. /\ wpc = "wait" /\ CoherentAt(i) /\ i \in evRead
        /\ cur' = i /\ m_instanceNo' = m_instanceNo /\ pipeState' = pipeState
        /\ IF i \in m_fPendingIO /\ ovRead[i] = "connected"
           THEN /\ opened' = opened \cup {m_instanceNo[i]}
                /\ reading' = reading \cup {i}
           ELSE UNCHANGED <<opened, reading>>
        /\ wpc' \in {"read", "deliver", "disconnect"}
        /\ wpc' = "disconnect" => i \in m_fPendingIO /\ ovRead[i] = "broken"
    BY <1>0, <1>6 DEF ServeRead, Chosen, OnConnect, Outcome, OverlappedReadCoherent, Leaving
  <2>2. i \in reading' /\ (wpc' = "disconnect" => pipeState'[i] = "closing")
    BY <1>0, <2>1 DEF CoherentAt, EventTypes
  <2> QED BY <1>0, <2>1, <2>2 DEF SessionsMatchStates, NumbersNameSessions, Leaving, Serving
<1>7. ASSUME NEW i \in Instance, Disconnect(i) PROVE SessionsMatchStates'
  <2>1. i \in reading
    BY <1>0, <1>7 DEF Disconnect, SessionsMatchStates, Serving
  <2>2. /\ wpc = "disconnect" /\ wpc' = "reconnect" /\ cur = i /\ cur' = i
        /\ UNCHANGED <<opened, m_instanceNo, reading>>
        /\ pipeState' = [pipeState EXCEPT ![i] = "disconnected"]
    BY <1>7, <2>1 DEF Disconnect, FinishCanceling
  <2>3. pipeState'[i] = "disconnected"
    BY <1>0, <2>2 DEF PipeTypes
  <2> QED BY <1>0, <2>1, <2>2, <2>3 DEF SessionsMatchStates, Leaving, Serving
<1>8. ASSUME NEW i \in Instance, Reconnect(i) PROVE SessionsMatchStates'
  <2>1. /\ wpc = "reconnect" /\ wpc' = "wait" /\ opened' = opened
        /\ m_instanceNo' = [m_instanceNo EXCEPT ![i] = m_instanceCnt]
        /\ reading' = reading \ {i}
    BY <1>8 DEF Reconnect
  <2>2. m_instanceCnt \notin opened
    BY <1>0, <2>1 DEF NumbersGrow
  <2> QED BY <1>0, <2>1, <2>2 DEF SessionsMatchStates, Leaving, Serving, WorkerTypes
<1> QED
  BY <1>1, <1>2, <1>3, <1>4, <1>5, <1>6, <1>7, <1>8 DEF Next, Worker, Clients, Finished

\* Queues hold messages for announced sessions; m_cs is held by its owner.
LEMMA AddressedStep == IInv /\ [Next]_vars => MessagesAddressed'
<1> SUFFICES ASSUME IInv, [Next]_vars PROVE MessagesAddressed'
  OBVIOUS
<1> USE InstancesAssumption
<1>0. /\ TypeOK /\ NumbersNameSessions
      /\ QueueTypes /\ SenderTypes /\ WorkerTypes
      /\ BuffersFilled /\ SessionsMatchStates /\ MessagesAddressed
  BY DEF IInv, TypeOK
<1> DEFINE Kept == UNCHANGED <<m_outputBuffers, m_cs, senderVars>> /\ opened \subseteq opened'
<1>1. ASSUME NEW i \in Instance,
             \/ Start(i) \/ StartFails(i)
             \/ ServeRead(i) \/ ServeWrite(i) \/ ServeNewMsg(i)
             \/ ReadBroken(i) \/ ReadMessage(i) \/ ReadPends(i)
             \/ WriteLocked(i) \/ WriteNothing(i)
      PROVE  Kept
  BY <1>1 DEF Start, ConnectPends, ConnectedBefore, OnConnect, StartFails, ServeRead,
     ServeWrite, ServeNewMsg, ReadBroken, ReadMessage, ReadPends, WriteLocked, WriteNothing
<1>2. ASSUME NEW i \in Instance,
             \/ Disconnect(i) \/ DisconnectFails(i) \/ Reconnect(i)
             \/ Cancel(i) \/ CancelThrows(i) \/ Finish(i)
             \/ Connect(i) \/ SendRequest(i) \/ Receive(i) \/ Close(i)
      PROVE  Kept
  BY <1>2 DEF Disconnect, DisconnectFails, Reconnect, ConnectPends, Cancel, CancelThrows,
     Finish, Connect, SendRequest, Receive, Close
<1>3. ASSUME ServeTimeout \/ ServeStop \/ WaitAll \/ Stop \/ UNCHANGED vars PROVE Kept
  BY <1>3 DEF ServeTimeout, ServeStop, WaitAll, Stop, Idle
<1>4. ASSUME Kept PROVE MessagesAddressed'
  BY <1>0, <1>4 DEF MessagesAddressed
<1>5. ASSUME NEW i \in Instance, Deliver(i) PROVE MessagesAddressed'
  <2> DEFINE r == [to |-> m_instanceNo[i], re |-> m_inputBuffer[i]]
  <2>1. FirstWith(m_instanceNo[i]) = i /\ m_instanceNo[i] \in opened
    BY <1>0, <1>5, FirstWithOwn DEF Deliver, SessionsMatchStates, Serving
  <2>2. r \in Message /\ r.to = m_instanceNo[i]
    BY <1>0, <1>5 DEF Deliver, BuffersFilled, Message, WorkerTypes
  <2>3. \A k \in DOMAIN AddTail(m_outputBuffers[i], r) :
            AddTail(m_outputBuffers[i], r)[k].to \in opened
    BY <1>0, <2>1, <2>2, AddedAddressees DEF QueueTypes, MessagesAddressed
  <2>4. /\ UNCHANGED <<m_cs, senderVars, opened>>
        /\ \/ m_outputBuffers' = m_outputBuffers
           \/ m_outputBuffers' = [m_outputBuffers EXCEPT ![i] = AddTail(m_outputBuffers[i], r)]
    BY <1>5, <2>1 DEF Deliver, Answer
  <2>5. \A j \in Instance : \A k \in DOMAIN m_outputBuffers'[j] :
            m_outputBuffers'[j][k].to \in opened
    <3>1. CASE m_outputBuffers' = m_outputBuffers
      BY <1>0, <3>1 DEF MessagesAddressed
    <3>2. ASSUME NEW j \in Instance, 
                 m_outputBuffers' = [m_outputBuffers EXCEPT ![i] = AddTail(m_outputBuffers[i], r)]
          PROVE  m_outputBuffers'[j] = IF j = i THEN AddTail(m_outputBuffers[i], r)
                                       ELSE m_outputBuffers[j]
      BY <1>0, <3>2 DEF QueueTypes
    <3> HIDE DEF r
    <3> QED BY <1>0, <2>3, <2>4, <3>1, <3>2 DEF MessagesAddressed
  <2> QED BY <1>0, <2>4, <2>5 DEF MessagesAddressed
<1>6. ASSUME NEW i \in Instance, WriteMessage(i) \/ WriteFails(i) PROVE MessagesAddressed'
  <2>1. /\ m_outputBuffers[i] # <<>>
        /\ m_outputBuffers' = [m_outputBuffers EXCEPT ![i] = Tail(m_outputBuffers[i])]
        /\ UNCHANGED <<m_cs, senderVars, opened>>
    BY <1>6 DEF WriteMessage, WriteFails, PopHead
  <2>2. \A k \in DOMAIN Tail(m_outputBuffers[i]) : Tail(m_outputBuffers[i])[k].to \in opened
    BY <1>0, <2>1, TailAddressees DEF QueueTypes, MessagesAddressed
  <2>3. \A j \in Instance : m_outputBuffers'[j] = IF j = i THEN Tail(m_outputBuffers[i])
                                                  ELSE m_outputBuffers[j]
    BY <1>0, <2>1 DEF QueueTypes
  <2> QED BY <1>0, <2>1, <2>2, <2>3 DEF MessagesAddressed
<1>7. ASSUME NEW s \in Senders, NEW i \in Instance, SendFind(s, i) PROVE MessagesAddressed'
  <2>1. ASSUME NEW j \in Instance, m_cs[j] # NoSender
        PROVE  spc'[m_cs[j]] = "locked" /\ target'[m_cs[j]] = j
    <3>1. spc[m_cs[j]] = "locked" /\ target[m_cs[j]] = j /\ m_cs[j] # s /\ m_cs[j] \in Senders
      BY <1>0, <1>7, <2>1 DEF SendFind, MessagesAddressed, QueueTypes
    <3> QED BY <1>0, <1>7, <3>1 DEF SendFind, SenderTypes
  <2>2. ASSUME NEW t \in Senders, spc'[t] \in {"found", "locked"} PROVE addressee'[t] \in opened
    BY <1>0, <1>7, <2>2 DEF SendFind, MessagesAddressed, SenderTypes
  <2> QED BY <1>0, <1>7, <2>1, <2>2 DEF SendFind, MessagesAddressed
<1>8. ASSUME NEW s \in Senders, SendLock(s) PROVE MessagesAddressed'
  <2>1. target[s] \in Instance
    BY <1>0 DEF SenderTypes
  <2>2. ASSUME NEW j \in Instance, m_cs'[j] # NoSender
        PROVE  spc'[m_cs'[j]] = "locked" /\ target'[m_cs'[j]] = j
    <3>1. CASE j = target[s]
      BY <1>0, <1>8, <3>1 DEF SendLock, QueueTypes, SenderTypes
    <3>2. CASE j # target[s]
      <4>1. m_cs'[j] = m_cs[j] /\ m_cs[j] \in Senders
        BY <1>0, <1>8, <2>2, <3>2 DEF SendLock, QueueTypes
      <4>2. spc[m_cs[j]] = "locked" /\ target[m_cs[j]] = j
        BY <1>0, <2>2, <4>1 DEF MessagesAddressed
      <4> QED BY <1>0, <1>8, <4>1, <4>2 DEF SendLock, SenderTypes
    <3> QED BY <3>1, <3>2
  <2>3. ASSUME NEW t \in Senders, spc'[t] \in {"found", "locked"} PROVE addressee'[t] \in opened
    BY <1>0, <1>8, <2>3 DEF SendLock, MessagesAddressed, SenderTypes
  <2> QED BY <1>0, <1>8, <2>2, <2>3 DEF SendLock, MessagesAddressed
<1>9. ASSUME NEW s \in Senders, SendAdd(s) PROVE MessagesAddressed'
  <2> DEFINE m == [to |-> addressee[s], re |-> s]
             q == m_outputBuffers[target[s]]
  <2>1. target[s] \in Instance /\ addressee[s] \in opened /\ m \in Message
    BY <1>0, <1>9 DEF SendAdd, SenderTypes, MessagesAddressed, Message
  <2>2. \A k \in DOMAIN AddTail(q, m) : AddTail(q, m)[k].to \in opened
    BY <1>0, <2>1, AddedAddressees DEF QueueTypes, MessagesAddressed
  <2>3. \A j \in Instance : m_outputBuffers'[j] = IF j = target[s] THEN AddTail(q, m)
                                                  ELSE m_outputBuffers[j]
    BY <1>0, <1>9, <2>1 DEF SendAdd, QueueTypes
  <2>4. \A j \in Instance : \A k \in DOMAIN m_outputBuffers'[j] :
            m_outputBuffers'[j][k].to \in opened
    BY <1>0, <2>2, <2>3 DEF MessagesAddressed
  <2>5. ASSUME NEW j \in Instance, m_cs'[j] # NoSender
        PROVE  spc'[m_cs'[j]] = "locked" /\ target'[m_cs'[j]] = j
    <3>1. j # target[s] /\ m_cs'[j] = m_cs[j]
      BY <1>0, <1>9, <2>1, <2>5 DEF SendAdd, QueueTypes
    <3>2. spc[m_cs[j]] = "locked" /\ target[m_cs[j]] = j /\ m_cs[j] \in Senders
      BY <1>0, <2>5, <3>1 DEF MessagesAddressed, QueueTypes
    <3> QED BY <1>0, <1>9, <3>1, <3>2 DEF SendAdd, SenderTypes
  <2>6. ASSUME NEW t \in Senders, spc'[t] \in {"found", "locked"} PROVE addressee'[t] \in opened
    BY <1>0, <1>9, <2>6 DEF SendAdd, MessagesAddressed, SenderTypes
  <2>7. opened' = opened
    BY <1>9 DEF SendAdd
  <2> QED BY <2>4, <2>5, <2>6, <2>7 DEF MessagesAddressed
<1>10. ASSUME NEW s \in Senders, SendSignal(s) PROVE MessagesAddressed'
  <2>1. ASSUME NEW j \in Instance, m_cs[j] # NoSender
        PROVE  spc'[m_cs[j]] = "locked" /\ target'[m_cs[j]] = j
    <3>1. spc[m_cs[j]] = "locked" /\ target[m_cs[j]] = j /\ m_cs[j] # s /\ m_cs[j] \in Senders
      BY <1>0, <1>10, <2>1 DEF SendSignal, MessagesAddressed, QueueTypes
    <3> QED BY <1>0, <1>10, <3>1 DEF SendSignal, SenderTypes
  <2>2. ASSUME NEW t \in Senders, spc'[t] \in {"found", "locked"} PROVE addressee'[t] \in opened
    BY <1>0, <1>10, <2>2 DEF SendSignal, MessagesAddressed, SenderTypes
  <2> QED BY <1>0, <1>10, <2>1, <2>2 DEF SendSignal, MessagesAddressed
<1> QED
  BY <1>1, <1>2, <1>3, <1>4, <1>5, <1>6, <1>7, <1>8, <1>9, <1>10
  DEF Next, Worker, Sending, Clients, Finished

\* No step leaves a message for the connected client with nothing to bring the
\* worker to the write loop.
LEMMA WakeupStep == IInv /\ [Next]_vars => NoLostWakeup'
<1> SUFFICES ASSUME IInv, [Next]_vars, ~Leaving',
                    NEW j \in Instance, Queued(j, m_instanceNo[j])'
             PROVE  WriterComes(j)'
  BY DEF NoLostWakeup
<1> USE InstancesAssumption
<1>0. /\ TypeOK /\ NumbersNameSessions
      /\ WorkerTypes /\ QueueTypes /\ SenderTypes /\ PipeTypes
      /\ SessionsMatchStates /\ OverlappedReadCoherent
      /\ MessagesAddressed /\ NoLostWakeup
  BY DEF IInv, TypeOK
\* What keeps a writer coming to j.
<1> DEFINE QueueKept == /\ m_outputBuffers'[j] = m_outputBuffers[j]
                        /\ m_instanceNo'[j] = m_instanceNo[j]
                        /\ pipeState'[j] = "connected" => pipeState[j] = "connected"
           WriterKept == /\ j \in evNewMsg \cup evWrite => j \in evNewMsg' \cup evWrite'
                         /\ outbound'[j] = outbound[j]
                         /\ wpc = "write" /\ cur = j => wpc' = "write" /\ cur' = j
                         /\ UNCHANGED <<target, spc>>
           Kept == ~Leaving /\ QueueKept /\ WriterKept
<1>1. ASSUME Kept PROVE WriterComes(j)'
  <2>1. WriterComes(j)
    BY <1>0, <1>1 DEF NoLostWakeup, Queued
  <2> QED BY <1>1, <2>1 DEF WriterComes, Stalled
<1>2. ASSUME NEW i \in Instance,
             \/ Start(i) \/ ServeRead(i) \/ ReadBroken(i) \/ ReadMessage(i)
             \/ ReadPends(i) \/ SendRequest(i)
      PROVE  Kept
  <2>1. /\ UNCHANGED <<m_outputBuffers, m_instanceNo, evNewMsg, evWrite, outbound, target, spc>>
        /\ \/ pipeState' = pipeState
           \/ pipeState' = [pipeState EXCEPT ![i] = "listening"]
        /\ wpc = "write" => wpc' = "write" /\ cur' = cur
        /\ ~Leaving
    BY <1>2 DEF Start, ConnectPends, ConnectedBefore, ServeRead, Chosen, ReadBroken,
       ReadMessage, ReadPends, SendRequest, Leaving
  <2> QED BY <1>0, <2>1 DEF PipeTypes
<1>3. ASSUME ServeTimeout \/ Stop \/ UNCHANGED vars PROVE Kept
  BY <1>3 DEF ServeTimeout, Stop, Leaving, Idle
<1>4. ASSUME NEW i \in Instance,
             \/ StartFails(i) \/ DisconnectFails(i) \/ Cancel(i)
             \/ CancelThrows(i) \/ Finish(i)
      PROVE  FALSE
  BY <1>4 DEF StartFails, DisconnectFails, Cancel, CancelThrows, Finish, Leaving
<1>5. ASSUME ServeStop \/ WaitAll PROVE FALSE
  BY <1>5 DEF ServeStop, WaitAll, Leaving
<1>6. ASSUME NEW i \in Instance, ServeWrite(i) \/ ServeNewMsg(i) PROVE WriterComes(j)'
  <2>1. wpc' = "write" /\ cur' = i
    BY <1>6 DEF ServeWrite, AfterWrite, ServeNewMsg
  <2>2. CASE j = i
    BY <2>1, <2>2 DEF WriterComes
  <2>3. CASE j # i
    <3>1. Kept
      BY <1>6, <2>3 DEF ServeWrite, ServeNewMsg, Chosen, Leaving
    <3> QED BY <1>1, <3>1
  <2> QED BY <2>2, <2>3
<1>7. ASSUME NEW i \in Instance, Deliver(i) PROVE WriterComes(j)'
  <2>1. FirstWith(m_instanceNo[i]) = i
    BY <1>0, FirstWithOwn
  <2>2. CASE j = i /\ evNewMsg' = evNewMsg \cup {i}
    BY <2>2 DEF WriterComes
  <2>3. CASE j # i \/ UNCHANGED <<m_outputBuffers, evNewMsg>>
    <3>1. Kept
      BY <1>0, <1>7, <2>1, <2>3 DEF Deliver, Answer, QueueTypes, Leaving
    <3> QED BY <1>1, <3>1
  <2> QED BY <1>7, <2>1, <2>2, <2>3 DEF Deliver, Answer
<1>8. ASSUME NEW i \in Instance, WriteLocked(i) PROVE WriterComes(j)'
  <2>1. CASE j = i
    <3>1. /\ m_cs[i] \in Senders
          /\ spc[m_cs[i]] = "locked" /\ target[m_cs[i]] = i
      BY <1>0, <1>8 DEF WriteLocked, MessagesAddressed, QueueTypes
    <3> QED BY <1>8, <2>1, <3>1 DEF WriteLocked, WriterComes
  <2>2. CASE j # i
    <3>1. Kept
      BY <1>8, <2>2 DEF WriteLocked, Leaving
    <3> QED BY <1>1, <3>1
  <2> QED BY <2>1, <2>2
<1>9. ASSUME NEW i \in Instance, WriteNothing(i) PROVE WriterComes(j)'
  <2>1. j # i
    BY <1>9 DEF WriteNothing, Queued
  <2>2. Kept
    BY <1>9, <2>1 DEF WriteNothing, Leaving
  <2> QED BY <1>1, <2>2
<1>10. ASSUME NEW i \in Instance, WriteMessage(i) PROVE WriterComes(j)'
  <2>1. CASE j = i /\ Len(outbound[i]) < OutQuota
    BY <1>10, <2>1 DEF WriteMessage, PopHead, WriterComes
  <2>2. CASE j = i /\ ~(Len(outbound[i]) < OutQuota)
    <3>1. Head(m_outputBuffers[i]) \in Message
      BY <1>0, <1>10 DEF WriteMessage, PopHead, QueueTypes
    <3>2. Len(outbound'[i]) = Len(outbound[i]) + 1
      BY <1>0, <1>10, <3>1 DEF WriteMessage, PipeTypes
    <3>3. Len(outbound[i]) \in Nat
      BY <1>0 DEF PipeTypes
    <3> QED BY <2>2, <3>2, <3>3, QuotaAssumption DEF WriterComes, Stalled
  <2>3. CASE j # i
    <3>1. Kept
      BY <1>0, <1>10, <2>3 DEF WriteMessage, PopHead, QueueTypes, PipeTypes, Leaving
    <3> QED BY <1>1, <3>1
  <2> QED BY <2>1, <2>2, <2>3
<1>11. ASSUME NEW i \in Instance, WriteFails(i) PROVE WriterComes(j)'
  <2>1. j # i
    BY <1>11 DEF WriteFails, Queued
  <2>2. Kept
    BY <1>0, <1>11, <2>1 DEF WriteFails, PopHead, QueueTypes, Leaving
  <2> QED BY <1>1, <2>2
<1>12. ASSUME NEW i \in Instance, Disconnect(i) PROVE WriterComes(j)'
  <2>1. i \in reading
    BY <1>0, <1>12 DEF Disconnect, SessionsMatchStates, Serving
  <2>2. j # i
    BY <1>0, <1>12, <2>1 DEF Disconnect, FinishCanceling, Queued, PipeTypes
  <2>3. Kept
    BY <1>0, <1>12, <2>1, <2>2 DEF Disconnect, FinishCanceling, WorkerTypes, PipeTypes, Leaving
  <2> QED BY <1>1, <2>3
<1>13. ASSUME NEW s \in Senders, NEW i \in Instance, SendFind(s, i) PROVE WriterComes(j)'
  <2>1. ~Leaving /\ QueueKept
    BY <1>13 DEF SendFind, Leaving
  <2>2. WriterComes(j)
    BY <1>0, <2>1 DEF NoLostWakeup, Queued
  <2> QED BY <1>0, <1>13, <2>2 DEF SendFind, WriterComes, Stalled, SenderTypes
<1>14. ASSUME NEW s \in Senders, SendLock(s) PROVE WriterComes(j)'
  <2>1. ~Leaving /\ QueueKept
    BY <1>14 DEF SendLock, Leaving
  <2>2. WriterComes(j)
    BY <1>0, <2>1 DEF NoLostWakeup, Queued
  <2> QED BY <1>0, <1>14, <2>2 DEF SendLock, WriterComes, Stalled, SenderTypes
<1>15. ASSUME NEW s \in Senders, SendAdd(s) PROVE WriterComes(j)'
  <2>1. CASE j = target[s]
    BY <1>0, <1>15, <2>1 DEF SendAdd, WriterComes, SenderTypes
  <2>2. CASE j # target[s]
    <3>1. ~Leaving /\ QueueKept
      BY <1>0, <1>15, <2>2 DEF SendAdd, Leaving, QueueTypes
    <3>2. WriterComes(j)
      BY <1>0, <3>1 DEF NoLostWakeup, Queued
    <3> QED BY <1>0, <1>15, <2>2, <3>2 DEF SendAdd, WriterComes, Stalled, SenderTypes
  <2> QED BY <2>1, <2>2
<1>16. ASSUME NEW s \in Senders, SendSignal(s) PROVE WriterComes(j)'
  <2>1. CASE j = target[s]
    BY <1>16, <2>1 DEF SendSignal, WriterComes
  <2>2. CASE j # target[s]
    <3>1. ~Leaving /\ QueueKept
      BY <1>16 DEF SendSignal, Leaving
    <3>2. WriterComes(j)
      BY <1>0, <3>1 DEF NoLostWakeup, Queued
    <3> QED BY <1>0, <1>16, <2>2, <3>2 DEF SendSignal, WriterComes, Stalled, SenderTypes
  <2> QED BY <2>1, <2>2
\* A message for the session of i would make i a READING instance, whose pipe
\* does not listen.
<1>17. ASSUME NEW i \in Instance, Connect(i) PROVE WriterComes(j)'
  <2>1. ~Leaving
    BY <1>17 DEF Connect, Leaving
  <2>2. m_instanceNo[j] \in opened
    BY <1>0, <1>17 DEF Connect, Queued, MessagesAddressed
  <2>3. pipeState[j] # "listening"
    BY <1>0, <2>1, <2>2 DEF SessionsMatchStates, OverlappedReadCoherent, CoherentAt
  <2>4. Kept
    BY <1>0, <1>17, <2>1, <2>3 DEF Connect, PipeTypes
  <2> QED BY <1>1, <2>4
<1>18. ASSUME NEW i \in Instance, Receive(i) PROVE WriterComes(j)'
  <2>1. CASE j = i /\ Stalled(i)
    BY <1>18, <2>1 DEF Receive, WriterComes
  <2>2. CASE j # i \/ ~Stalled(i)
    <3>1. ~Leaving /\ QueueKept
      BY <1>18 DEF Receive, Leaving
    <3>2. WriterComes(j)
      BY <1>0, <3>1 DEF NoLostWakeup, Queued
    <3>3. evWrite \subseteq evWrite' /\ (Stalled(j) => outbound'[j] = outbound[j])
      BY <1>0, <1>18, <2>2 DEF Receive, PipeTypes
    <3> QED BY <1>18, <3>2, <3>3 DEF Receive, WriterComes, Stalled
  <2> QED BY <2>1, <2>2
<1>19. ASSUME NEW i \in Instance, Close(i) PROVE WriterComes(j)'
  <2>1. j # i
    BY <1>0, <1>19 DEF Close, Queued, PipeTypes
  <2>2. Kept
    BY <1>0, <1>19, <2>1 DEF Close, PipeTypes, Leaving
  <2> QED BY <1>1, <2>2
<1>20. ASSUME NEW i \in Instance, Reconnect(i) PROVE WriterComes(j)'
  <2>1. j # i
    BY <1>0, <1>20 DEF Reconnect, ConnectPends, Queued, PipeTypes
  <2>2. Kept
    BY <1>0, <1>20, <2>1 DEF Reconnect, ConnectPends, PipeTypes, WorkerTypes, Leaving
  <2> QED BY <1>1, <2>2
<1> QED
  BY <1>1, <1>2, <1>3, <1>4, <1>5, <1>6, <1>7, <1>8, <1>9, <1>10, <1>11, <1>12, <1>13,
     <1>14, <1>15, <1>16, <1>17, <1>18, <1>19, <1>20 DEF Next, Worker, Sending, Clients, Finished

\* A failure of the thread before Stop comes from a client that left.
LEMMA DiesStep == IInv /\ [Next]_vars => LeavesOnStop' /\ DiesOnlyOfStalledWrite'
<1> SUFFICES ASSUME IInv, [Next]_vars PROVE LeavesOnStop' /\ DiesOnlyOfStalledWrite'
  OBVIOUS
<1> USE InstancesAssumption
<1>0. /\ WorkerTypes /\ EventTypes /\ PipeTypes
      /\ BuffersFilled /\ SessionsMatchStates /\ OverlappedReadCoherent
      /\ LeavesOnStop /\ DiesOnlyOfStalledWrite /\ NotStartedYet
  BY DEF IInv, TypeOK
<1> DEFINE Kept ==
      /\ UNCHANGED stopping
      /\ evStop' => evStop
      /\ wpc' \in {"cancel", "waitAll", "finish", "ended"} =>
            wpc \in {"cancel", "waitAll", "finish", "ended"}
      /\ wpc' = "failed" => /\ wpc = "failed"
                            /\ UNCHANGED <<cur, reading, m_fPendingWrite>>
                            /\ pipeState[cur] = "closing" => pipeState'[cur] = "closing"
<1>1. ASSUME NEW i \in Instance,
             \/ Start(i) \/ ServeRead(i) \/ ServeWrite(i) \/ ServeNewMsg(i)
             \/ ReadBroken(i) \/ ReadMessage(i) \/ ReadPends(i) \/ Deliver(i)
             \/ WriteLocked(i) \/ WriteNothing(i) \/ WriteMessage(i)
             \/ WriteFails(i) \/ Disconnect(i) \/ Reconnect(i)
             \/ Cancel(i) \/ Finish(i)
      PROVE  Kept
  BY <1>1 DEF Start, ServeRead, Outcome, ServeWrite, AfterWrite, ServeNewMsg, ReadBroken,
     ReadMessage, ReadPends, Deliver, WriteLocked, WriteNothing, WriteMessage, WriteFails,
     PopHead, Disconnect, Reconnect, Cancel, Finish
<1>2. ASSUME \/ ServeTimeout \/ WaitAll \/ UNCHANGED vars
             \/ \E s \in Senders : Sending(s)
      PROVE  Kept
  <2>1. CASE ServeTimeout \/ WaitAll
    BY <2>1 DEF ServeTimeout, WaitAll, Idle
  <2>2. CASE UNCHANGED vars
    BY <2>2
  <2>3. ASSUME NEW s \in Senders, Sending(s) PROVE Kept
    BY <2>3 DEF Sending, SendFind, SendLock, SendAdd, SendSignal
  <2> QED BY <1>2, <2>1, <2>2, <2>3
<1>3. ASSUME NEW i \in Instance, Connect(i) \/ SendRequest(i) \/ Receive(i) \/ Close(i)
      PROVE  Kept
  <2>1. /\ UNCHANGED <<wpc, cur, reading, m_fPendingWrite, stopping, evStop>>
        /\ \/ pipeState' = pipeState
           \/ /\ pipeState[i] = "listening"
              /\ pipeState' = [pipeState EXCEPT ![i] = "connected"]
           \/ pipeState' = [pipeState EXCEPT ![i] = "closing"]
    BY <1>3 DEF Connect, SendRequest, Receive, Close
  <2>2. pipeState[cur] = "closing" => pipeState'[cur] = "closing"
    BY <1>0, <2>1 DEF PipeTypes, WorkerTypes
  <2> QED BY <2>1, <2>2
<1>4. ASSUME Kept PROVE LeavesOnStop' /\ DiesOnlyOfStalledWrite'
  BY <1>0, <1>4 DEF LeavesOnStop, DiesOnlyOfStalledWrite
<1>5. ASSUME ServeStop \/ Stop PROVE LeavesOnStop' /\ DiesOnlyOfStalledWrite'
  BY <1>0, <1>5 DEF ServeStop, Stop, Idle, LeavesOnStop, DiesOnlyOfStalledWrite
<1>6. ASSUME NEW i \in Instance, StartFails(i)
      PROVE  LeavesOnStop' /\ DiesOnlyOfStalledWrite'
  <2>1. i \notin reading
    BY <1>0, <1>6 DEF StartFails, NotStartedYet
  <2> QED BY <1>0, <1>6, <2>1 DEF StartFails, LeavesOnStop, DiesOnlyOfStalledWrite
<1>7. ASSUME NEW i \in Instance, DisconnectFails(i)
      PROVE  LeavesOnStop' /\ DiesOnlyOfStalledWrite'
  <2>1. i \in m_fPendingWrite /\ pipeState[i] = "closing"
    BY <1>0, <1>7 DEF DisconnectFails, CancelFails, BuffersFilled, Serving, SessionsMatchStates
  <2> QED BY <1>0, <1>7, <2>1 DEF DisconnectFails, LeavesOnStop, DiesOnlyOfStalledWrite
<1>8. ASSUME NEW i \in Instance, CancelThrows(i)
      PROVE  LeavesOnStop' /\ DiesOnlyOfStalledWrite'
  BY <1>0, <1>8 DEF CancelThrows, LeavesOnStop, DiesOnlyOfStalledWrite
<1> QED
  BY <1>1, <1>2, <1>3, <1>4, <1>5, <1>6, <1>7, <1>8 DEF Next, Worker, Clients, Finished

\* IInv is inductive.
LEMMA Inductive == IInv /\ [Next]_vars => IInv'
<1> SUFFICES ASSUME IInv, [Next]_vars PROVE IInv'
  OBVIOUS
<1>1. TypeOK'
  BY TypeStep DEF IInv
<1> QED
  BY <1>1, NumbersStep, BuffersStep, EngagedStep, CoherentStep, SessionsStep,
     AddressedStep, WakeupStep, DiesStep DEF IInv

\* Hence it holds in every state of the server.
THEOREM Invariance == Spec => []IInv
BY InitIInv, Inductive, PTL DEF Spec

-----------------------------------------------------------------------------
(* The theorems *)

\* Every variable of the server stays in its type.
THEOREM TypeCorrect == Spec => []TypeOK
<1>1. IInv => TypeOK
  BY DEF IInv
<1> QED BY <1>1, Invariance, PTL

\* A number handed to OnConnect names one session for good: SendMessage(n) never
\* finds a second instance, nor one that has given the number up
\* (include/named-pipe-server.hpp:121-143).
THEOREM NumbersAreSafe == Spec => []NumbersNameSessions
<1>1. IInv => NumbersNameSessions
  BY DEF IInv
<1> QED BY <1>1, Invariance, PTL

\* The worker never waits without an operation in flight on an instance, or its
\* evRead signalled: no instance stops answering while the thread lives.
THEOREM NoInstanceIsDeaf == Spec => []NoDeafInstance
<1>1. IInv => NoDeafInstance
  BY DEF IInv, AllEngaged, Engaged, NoDeafInstance, Leaving, Serving
<1> QED BY <1>1, Invariance, PTL

\* A message queued for the connected client never waits for luck, in every
\* interleaving of SendMessage with the write loop (lines 267-291, 574-639).
THEOREM NoWakeupIsLost == Spec => []NoLostWakeup
<1>1. IInv => NoLostWakeup
  BY DEF IInv
<1> QED BY <1>1, Invariance, PTL

\* Before Stop the thread ends only because of a client that left with a write
\* in flight, or before the first ConnectNamedPipe (lines 198-204, 309, 359-375).
THEOREM FailuresAreKnown == Spec => []DiesOnlyOfStalledWrite
<1>1. IInv => DiesOnlyOfStalledWrite
  BY DEF IInv
<1> QED BY <1>1, Invariance, PTL
=============================================================================
