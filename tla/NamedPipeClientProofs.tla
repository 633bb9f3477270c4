----------------------- MODULE NamedPipeClientProofs -----------------------
(***************************************************************************)
(* The invariants of NamedPipeClient, and that it implements PipeConnection, *)
(* for every number of senders, sessions and messages, and every outbound    *)
(* quota.  IInv is inductive; there is one lemma for each group of its       *)
(* conjuncts, and in it one step for each action that can disturb the group; *)
(* the actions that leave the group alone share a step.                      *)
(***************************************************************************)
EXTENDS NamedPipeClient, TLAPS

USE QuotaAssumption, BoundsAssumption, SendersAssumption
    DEF vars, workerVars, ioVars, queueVars, pipeVars, notifyVars

-----------------------------------------------------------------------------
(* The inductive invariant *)

\* The constructor establishes the invariant.
LEMMA InitIInv == Init => IInv
<1> SUFFICES ASSUME Init PROVE IInv
  OBVIOUS
<1>1. WorkerTypes /\ IoTypes
  BY DEF Init, WorkerTypes, IoTypes
<1>2. QueueTypes /\ PipeTypes /\ NotifyTypes
  <2>1. <<>> \in Seq(Message) /\ <<>> \in Seq(1 .. MaxMessages)
    OBVIOUS
  <2>2. QueueTypes
    BY <2>1 DEF Init, QueueTypes
  <2>3. PipeTypes
    BY <2>1 DEF Init, PipeTypes
  <2>4. NotifyTypes
    <3>1. session \in 0 .. MaxSessions /\ heard \in 0 .. MaxMessages
      BY DEF Init
    <3> QED BY <3>1 DEF Init, NotifyTypes
  <2> QED BY <2>2, <2>3, <2>4
<1>3. OneConnection /\ ReadCoherent /\ BufferEmptied /\ Engaged /\ MessagesInOrder
  BY DEF Init, OneConnection, HasHandle, ReadCoherent, BufferEmptied, Engaged, MessagesInOrder
<1>4. QueueCoherent /\ NoMessageCrossesSessions /\ NoLostWakeup
  BY DEF Init, QueueCoherent, NoMessageCrossesSessions, NoLostWakeup
<1>5. BlameIsSettled /\ WriteSettled
  BY DEF Init, BlameIsSettled, WriteSettled
<1> QED BY <1>1, <1>2, <1>3, <1>4, <1>5 DEF IInv, TypeOK

\* Every step keeps the variables in their types.
LEMMA TypeStep == IInv /\ [Next]_vars => TypeOK'
<1> SUFFICES ASSUME IInv, [Next]_vars PROVE TypeOK'
  OBVIOUS
<1>0. /\ WorkerTypes /\ IoTypes /\ QueueTypes
      /\ PipeTypes /\ NotifyTypes /\ ReadCoherent /\ BufferEmptied
  BY DEF IInv, TypeOK
<1>1. ASSUME OpenSucceeds PROVE TypeOK'
  BY <1>0, <1>1
  DEF OpenSucceeds, Unread, Primed, TypeOK, WorkerTypes, IoTypes, QueueTypes, PipeTypes,
      NotifyTypes
<1>2. ASSUME \/ OpenIsBusy \/ OpenAgain \/ OpenFails \/ WriteNothing \/ ClearRaces
             \/ BackoffEnds
      PROVE  TypeOK'
  <2>1. WorkerTypes'
    BY <1>0, <1>2
    DEF OpenIsBusy, OpenAgain, OpenFails, WriteNothing, ClearRaces, BackoffEnds,
        WorkerTypes
  <2>2. UNCHANGED <<ioVars, signalled, m_inputBuffer, queueVars, pipeVars, notifyVars>>
    BY <1>2 DEF OpenIsBusy, OpenAgain, OpenFails, WriteNothing, ClearRaces, BackoffEnds
  <2> QED
    BY <1>0, <2>1, <2>2 DEF TypeOK, IoTypes, QueueTypes, PipeTypes, NotifyTypes
<1>3. ASSUME SetMessageMode \/ ServeTimeout \/ WriteLocked PROVE TypeOK'
  <2>1. WorkerTypes'
    BY <1>0, <1>3 DEF SetMessageMode, ServeTimeout, WriteLocked, WorkerTypes
  <2>2. UNCHANGED <<ioVars, signalled, m_inputBuffer, queueVars, pipeVars, notifyVars>>
    BY <1>3 DEF SetMessageMode, ServeTimeout, WriteLocked
  <2> QED
    BY <1>0, <2>1, <2>2 DEF TypeOK, IoTypes, QueueTypes, PipeTypes, NotifyTypes
<1>4. ASSUME SetMessageModeFails \/ ReadBroken PROVE TypeOK'
  <2>1. WorkerTypes'
    BY <1>0, <1>4
    DEF SetMessageModeFails, Throw, GoneError, ServersDoing, ReadBroken, Broken,
        WorkerTypes
  <2>2. UNCHANGED <<ioVars, signalled, m_inputBuffer, queueVars, pipeVars, notifyVars>>
    BY <1>4 DEF SetMessageModeFails, Throw, GoneError, ServersDoing, ReadBroken, Broken
  <2> QED
    BY <1>0, <2>1, <2>2 DEF TypeOK, IoTypes, QueueTypes, PipeTypes, NotifyTypes
<1>5. ASSUME ServeRead PROVE TypeOK'
  <2>1. WorkerTypes'
    BY <1>0, <1>5 DEF ServeRead, Chosen, m_aWaitObj, GoneError, ServersDoing, WorkerTypes
  <2>2. IoTypes'
    BY <1>0, <1>5 DEF ServeRead, Chosen, m_aWaitObj, GoneError, ServersDoing, IoTypes
  <2>3. QueueTypes' /\ PipeTypes' /\ NotifyTypes'
    BY <1>0, <1>5
    DEF ServeRead, Chosen, m_aWaitObj, GoneError, ServersDoing, QueueTypes, PipeTypes,
        NotifyTypes
  <2> QED BY <2>1, <2>2, <2>3 DEF TypeOK
<1>6. ASSUME ServeWrite PROVE TypeOK'
  <2>1. WorkerTypes'
    BY <1>0, <1>6 DEF ServeWrite, Chosen, m_aWaitObj, AfterWrite, WorkerTypes
  <2>2. IoTypes'
    BY <1>0, <1>6 DEF ServeWrite, Chosen, m_aWaitObj, AfterWrite, IoTypes
  <2>3. QueueTypes' /\ PipeTypes' /\ NotifyTypes'
    BY <1>0, <1>6
    DEF ServeWrite, Chosen, m_aWaitObj, AfterWrite, QueueTypes, PipeTypes, NotifyTypes
  <2> QED BY <2>1, <2>2, <2>3 DEF TypeOK
<1>7. ASSUME ServeNewMsg PROVE TypeOK'
  <2>1. WorkerTypes'
    BY <1>0, <1>7 DEF ServeNewMsg, Chosen, m_aWaitObj, WorkerTypes
  <2>2. IoTypes'
    BY <1>0, <1>7 DEF ServeNewMsg, Chosen, m_aWaitObj, IoTypes
  <2>3. QueueTypes' /\ PipeTypes' /\ NotifyTypes'
    BY <1>0, <1>7 DEF ServeNewMsg, Chosen, m_aWaitObj, QueueTypes, PipeTypes, NotifyTypes
  <2> QED BY <2>1, <2>2, <2>3 DEF TypeOK
<1>8. ASSUME ServeStop PROVE TypeOK'
  <2>1. WorkerTypes'
    BY <1>0, <1>8 DEF ServeStop, Chosen, m_aWaitObj, WorkerTypes
  <2>2. IoTypes'
    BY <1>0, <1>8 DEF ServeStop, Chosen, m_aWaitObj, IoTypes
  <2>3. QueueTypes' /\ PipeTypes' /\ NotifyTypes'
    BY <1>0, <1>8 DEF ServeStop, Chosen, m_aWaitObj, QueueTypes, PipeTypes, NotifyTypes
  <2> QED BY <2>1, <2>2, <2>3 DEF TypeOK
<1>9. ASSUME ReadMessage PROVE TypeOK'
  <2>1. WorkerTypes'
    BY <1>0, <1>9 DEF ReadMessage, WorkerTypes
  <2>2. IoTypes'
    BY <1>0, <1>9 DEF ReadMessage, IoTypes
  <2>3. QueueTypes'
    BY <1>0, <1>9 DEF ReadMessage, QueueTypes, ReadCoherent, BufferEmptied, PipeTypes
  <2>4. PipeTypes'
    BY <1>0, <1>9 DEF ReadMessage, PipeTypes
  <2>5. NotifyTypes'
    BY <1>0, <1>9 DEF ReadMessage, NotifyTypes
  <2> QED BY <2>1, <2>2, <2>3, <2>4, <2>5 DEF TypeOK
<1>10. ASSUME ReadPends PROVE TypeOK'
  <2>1. WorkerTypes'
    BY <1>0, <1>10 DEF ReadPends, Issued, WorkerTypes
  <2>2. IoTypes'
    BY <1>0, <1>10 DEF ReadPends, Issued, IoTypes
  <2>3. QueueTypes' /\ PipeTypes' /\ NotifyTypes'
    BY <1>0, <1>10 DEF ReadPends, Issued, QueueTypes, PipeTypes, NotifyTypes
  <2> QED BY <2>1, <2>2, <2>3 DEF TypeOK
<1>11. ASSUME Deliver PROVE TypeOK'
  <2>1. WorkerTypes'
    BY <1>0, <1>11 DEF Deliver, Cleared, WorkerTypes
  <2>2. QueueTypes'
    BY <1>0, <1>11 DEF Deliver, Cleared, QueueTypes
  <2>3. NotifyTypes'
    BY <1>0, <1>11
    DEF Deliver, Cleared, NotifyTypes, ReadCoherent, BufferEmptied, QueueTypes
  <2>4. IoTypes' /\ PipeTypes'
    BY <1>0, <1>11 DEF Deliver, Cleared, IoTypes, PipeTypes
  <2> QED BY <2>1, <2>2, <2>3, <2>4 DEF TypeOK
<1>12. ASSUME WriteMessage PROVE TypeOK'
  <2>1. WorkerTypes'
    BY <1>0, <1>12 DEF WriteMessage, PopHead, Issued, WorkerTypes
  <2>2. IoTypes'
    BY <1>0, <1>12 DEF WriteMessage, PopHead, Issued, IoTypes
  <2>3. QueueTypes'
    BY <1>0, <1>12 DEF WriteMessage, PopHead, Issued, QueueTypes
  <2>4. PipeTypes'
    BY <1>0, <1>12 DEF WriteMessage, PopHead, Issued, PipeTypes, QueueTypes
  <2>5. NotifyTypes'
    BY <1>0, <1>12 DEF WriteMessage, PopHead, Issued, NotifyTypes
  <2> QED BY <2>1, <2>2, <2>3, <2>4, <2>5 DEF TypeOK
<1>13. ASSUME WriteFails PROVE TypeOK'
  <2>1. WorkerTypes'
    BY <1>0, <1>13
    DEF WriteFails, PopHead, Issued, Throw, GoneError, ServersDoing, WorkerTypes
  <2>2. IoTypes'
    BY <1>0, <1>13 DEF WriteFails, PopHead, Issued, Throw, GoneError, ServersDoing, IoTypes
  <2>3. QueueTypes'
    BY <1>0, <1>13
    DEF WriteFails, PopHead, Issued, Throw, GoneError, ServersDoing, QueueTypes
  <2>4. PipeTypes' /\ NotifyTypes'
    BY <1>0, <1>13
    DEF WriteFails, PopHead, Issued, Throw, GoneError, ServersDoing, PipeTypes,
        NotifyTypes
  <2> QED BY <2>1, <2>2, <2>3, <2>4 DEF TypeOK
<1>14. ASSUME Cancel PROVE TypeOK'
  <2>1. WorkerTypes'
    BY <1>0, <1>14 DEF Cancel, Cancelled, Stalled, WorkerTypes
  <2>2. IoTypes'
    BY <1>0, <1>14 DEF Cancel, Cancelled, Stalled, IoTypes
  <2>3. PipeTypes'
    BY <1>0, <1>14 DEF Cancel, Cancelled, Stalled, PipeTypes
  <2>4. QueueTypes' /\ NotifyTypes'
    BY <1>0, <1>14 DEF Cancel, Cancelled, Stalled, QueueTypes, NotifyTypes
  <2> QED BY <2>1, <2>2, <2>3, <2>4 DEF TypeOK
<1>15. ASSUME WaitAll PROVE TypeOK'
  <2>1. WorkerTypes'
    BY <1>0, <1>15 DEF WaitAll, Awaited, WorkerTypes
  <2>2. IoTypes'
    BY <1>0, <1>15 DEF WaitAll, Awaited, IoTypes
  <2>3. QueueTypes' /\ PipeTypes' /\ NotifyTypes'
    BY <1>0, <1>15 DEF WaitAll, Awaited, QueueTypes, PipeTypes, NotifyTypes
  <2> QED BY <2>1, <2>2, <2>3 DEF TypeOK
<1>16. ASSUME Finish PROVE TypeOK'
  <2>1. WorkerTypes'
    BY <1>0, <1>16 DEF Finish, StillPending, WorkerTypes
  <2>2. IoTypes'
    BY <1>0, <1>16 DEF Finish, StillPending, IoTypes
  <2>3. PipeTypes'
    BY <1>0, <1>16 DEF Finish, StillPending, PipeTypes
  <2>4. NotifyTypes'
    BY <1>0, <1>16 DEF Finish, StillPending, NotifyTypes
  <2>5. QueueTypes'
    BY <1>0, <1>16 DEF Finish, StillPending, QueueTypes
  <2> QED BY <2>1, <2>2, <2>3, <2>4, <2>5 DEF TypeOK
<1>17. ASSUME Clear PROVE TypeOK'
  <2>1. WorkerTypes'
    BY <1>0, <1>17 DEF Clear, Cleared, Emptied, WorkerTypes
  <2>2. IoTypes'
    BY <1>0, <1>17 DEF Clear, Cleared, Emptied, IoTypes
  <2>3. QueueTypes'
    BY <1>0, <1>17 DEF Clear, Cleared, Emptied, QueueTypes
  <2>4. PipeTypes' /\ NotifyTypes'
    BY <1>0, <1>17 DEF Clear, Cleared, Emptied, PipeTypes, NotifyTypes
  <2> QED BY <2>1, <2>2, <2>3, <2>4 DEF TypeOK
<1>18. ASSUME BackoffStops PROVE TypeOK'
  <2>1. WorkerTypes'
    BY <1>0, <1>18 DEF BackoffStops, WorkerTypes
  <2>2. IoTypes'
    BY <1>0, <1>18 DEF BackoffStops, IoTypes
  <2>3. QueueTypes' /\ PipeTypes' /\ NotifyTypes'
    BY <1>0, <1>18 DEF BackoffStops, QueueTypes, PipeTypes, NotifyTypes
  <2> QED BY <2>1, <2>2, <2>3 DEF TypeOK
<1>19. ASSUME NEW s \in Senders, SendLock(s) PROVE TypeOK'
  <2>1. QueueTypes'
    BY <1>0, <1>19 DEF SendLock, QueueTypes
  <2>2. WorkerTypes' /\ IoTypes' /\ PipeTypes' /\ NotifyTypes'
    BY <1>0, <1>19 DEF SendLock, WorkerTypes, IoTypes, PipeTypes, NotifyTypes
  <2> QED BY <2>1, <2>2 DEF TypeOK
<1>20. ASSUME NEW s \in Senders, SendAdd(s) PROVE TypeOK'
  <2>1. QueueTypes'
    BY <1>0, <1>20 DEF SendAdd, QueueTypes, Message, NotifyTypes
  <2>2. WorkerTypes' /\ IoTypes' /\ PipeTypes' /\ NotifyTypes'
    BY <1>0, <1>20 DEF SendAdd, WorkerTypes, IoTypes, PipeTypes, NotifyTypes
  <2> QED BY <2>1, <2>2 DEF TypeOK
<1>21. ASSUME NEW s \in Senders, SendSignal(s) PROVE TypeOK'
  <2>1. IoTypes'
    BY <1>0, <1>21 DEF SendSignal, IoTypes
  <2>2. QueueTypes'
    BY <1>0, <1>21 DEF SendSignal, QueueTypes
  <2>3. WorkerTypes' /\ PipeTypes' /\ NotifyTypes'
    BY <1>0, <1>21 DEF SendSignal, WorkerTypes, PipeTypes, NotifyTypes
  <2> QED BY <2>1, <2>2, <2>3 DEF TypeOK
<1>22. ASSUME Stop PROVE TypeOK'
  BY <1>0, <1>22
  DEF Stop, TypeOK, WorkerTypes, IoTypes, QueueTypes, PipeTypes, NotifyTypes
<1>23. ASSUME ServerSends PROVE TypeOK'
  <2>0. served + 1 \in 1 .. MaxMessages
    BY <1>0, <1>23 DEF ServerSends, PipeTypes
  <2>1. IoTypes'
    <3>1. /\ UNCHANGED <<pending, ovWrite>>
          /\ ovRead' \in {ovRead, "data"}
          /\ signalled' \in {signalled, signalled \cup {"evRead"}}
      BY <1>23 DEF ServerSends
    <3> QED BY <1>0, <3>1 DEF IoTypes
  <2>2. QueueTypes'
    <3>1. CASE ovRead = "pending" /\ "read" \in pending
      <4>1. m_inputBuffer' = {served + 1}
        BY <1>0, <1>23, <3>1 DEF ServerSends, ReadCoherent
      <4> QED BY <1>0, <1>23, <2>0, <4>1 DEF ServerSends, QueueTypes
    <3>2. CASE ~(ovRead = "pending" /\ "read" \in pending)
      BY <1>0, <1>23, <3>2 DEF ServerSends, QueueTypes
    <3> QED BY <3>1, <3>2
  <2>3. PipeTypes'
    <3>1. Append(inbound, served + 1) \in Seq(1 .. MaxMessages)
      BY <1>0, <2>0 DEF PipeTypes
    <3>2. inbound' \in Seq(1 .. MaxMessages)
      BY <1>0, <1>23, <3>1 DEF ServerSends, PipeTypes
    <3> QED BY <1>0, <1>23, <2>0, <3>2 DEF ServerSends, PipeTypes
  <2>4. WorkerTypes' /\ NotifyTypes'
    BY <1>0, <1>23 DEF ServerSends, WorkerTypes, NotifyTypes
  <2> QED BY <2>1, <2>2, <2>3, <2>4 DEF TypeOK
<1>24. ASSUME ServerReceives PROVE TypeOK'
  <2>1. IoTypes'
    BY <1>0, <1>24 DEF ServerReceives, Stalled, IoTypes
  <2>2. PipeTypes'
    BY <1>0, <1>24 DEF ServerReceives, Stalled, PipeTypes
  <2>3. WorkerTypes' /\ QueueTypes' /\ NotifyTypes'
    BY <1>0, <1>24 DEF ServerReceives, Stalled, WorkerTypes, QueueTypes, NotifyTypes
  <2> QED BY <2>1, <2>2, <2>3 DEF TypeOK
<1>25. ASSUME ServerLeaves PROVE TypeOK'
  <2>1. IoTypes'
    BY <1>0, <1>25 DEF ServerLeaves, Stalled, IoTypes
  <2>2. PipeTypes'
    <3>1. <<>> \in Seq(Message) /\ <<>> \in Seq(1 .. MaxMessages)
      OBVIOUS
    <3>2. inbound' \in Seq(1 .. MaxMessages) /\ outbound' \in Seq(Message)
      BY <1>0, <1>25, <3>1 DEF ServerLeaves, PipeTypes
    <3> QED BY <1>0, <1>25, <3>2 DEF ServerLeaves, PipeTypes
  <2>3. WorkerTypes' /\ QueueTypes' /\ NotifyTypes'
    BY <1>0, <1>25 DEF ServerLeaves, Stalled, WorkerTypes, QueueTypes, NotifyTypes
  <2> QED BY <2>1, <2>2, <2>3 DEF TypeOK
<1>26. ASSUME UNCHANGED vars PROVE TypeOK'
  BY <1>0, <1>26 DEF TypeOK, WorkerTypes, IoTypes, QueueTypes, PipeTypes, NotifyTypes
<1> QED
  BY <1>1, <1>2, <1>3, <1>4, <1>5, <1>6, <1>7, <1>8, <1>9, <1>10, <1>11, <1>12, <1>13,
     <1>14, <1>15, <1>16, <1>17, <1>18, <1>19, <1>20, <1>21, <1>22, <1>23, <1>24, <1>25,
     <1>26
  DEF Next, Worker, Sending, Server, Finished

\* No step lets the pipe, its handle and the callbacks disagree.
LEMMA ConnectionStep == IInv /\ [Next]_vars => OneConnection'
<1> SUFFICES ASSUME IInv, [Next]_vars PROVE OneConnection'
  OBVIOUS
<1>0. OneConnection
  BY DEF IInv, TypeOK
<1>1. ASSUME OpenSucceeds PROVE OneConnection'
  BY <1>0, <1>1 DEF OpenSucceeds, Unread, Primed, OneConnection, HasHandle
<1>2. ASSUME \/ OpenIsBusy \/ OpenAgain \/ OpenFails \/ ClearRaces \/ BackoffEnds
             \/ BackoffStops
      PROVE  OneConnection'
  BY <1>0, <1>2
  DEF OpenIsBusy, OpenAgain, OpenFails, ClearRaces, BackoffEnds, BackoffStops,
      OneConnection, HasHandle
<1>3. ASSUME \/ SetMessageMode \/ SetMessageModeFails \/ ServeRead \/ ServeWrite
             \/ ServeNewMsg \/ ServeTimeout \/ ServeStop
      PROVE  OneConnection'
  BY <1>0, <1>3
  DEF SetMessageMode, SetMessageModeFails, Throw, GoneError, ServersDoing, ServeRead,
      Chosen, m_aWaitObj, ServeWrite, AfterWrite, ServeNewMsg, ServeTimeout, ServeStop,
      OneConnection, HasHandle
<1>4. ASSUME ReadMessage PROVE OneConnection'
  BY <1>0, <1>4 DEF ReadMessage, OneConnection, HasHandle
<1>5. ASSUME \/ ReadPends \/ ReadBroken \/ Deliver \/ WriteLocked \/ WriteNothing
             \/ WriteFails
      PROVE  OneConnection'
  BY <1>0, <1>5
  DEF ReadPends, Issued, ReadBroken, Broken, Throw, GoneError, ServersDoing, Deliver,
      Cleared, WriteLocked, WriteNothing, WriteFails, PopHead, OneConnection, HasHandle
<1>6. ASSUME WriteMessage PROVE OneConnection'
  BY <1>0, <1>6 DEF WriteMessage, PopHead, Issued, OneConnection, HasHandle
<1>7. ASSUME Cancel PROVE OneConnection'
  BY <1>0, <1>7 DEF Cancel, Cancelled, Stalled, OneConnection, HasHandle
<1>8. ASSUME WaitAll PROVE OneConnection'
  BY <1>0, <1>8 DEF WaitAll, Awaited, OneConnection, HasHandle
<1>9. ASSUME Finish PROVE OneConnection'
  BY <1>0, <1>9 DEF Finish, StillPending, OneConnection, HasHandle
<1>10. ASSUME Clear PROVE OneConnection'
  BY <1>0, <1>10 DEF Clear, Cleared, Emptied, OneConnection, HasHandle
<1>11. ASSUME ServerSends PROVE OneConnection'
  BY <1>0, <1>11 DEF ServerSends, OneConnection, HasHandle
<1>12. ASSUME ServerReceives PROVE OneConnection'
  BY <1>0, <1>12 DEF ServerReceives, Stalled, OneConnection, HasHandle
<1>13. ASSUME ServerLeaves PROVE OneConnection'
  BY <1>0, <1>13 DEF ServerLeaves, Stalled, OneConnection, HasHandle
<1>14. ASSUME NEW s \in Senders, \/ SendLock(s) \/ SendAdd(s) \/ SendSignal(s)
       PROVE  OneConnection'
  BY <1>0, <1>14 DEF SendLock, SendAdd, SendSignal, OneConnection, HasHandle
<1>15. ASSUME Stop \/ UNCHANGED vars PROVE OneConnection'
  BY <1>0, <1>15 DEF Stop, OneConnection, HasHandle
<1> QED
  BY <1>1, <1>2, <1>3, <1>4, <1>5, <1>6, <1>7, <1>8, <1>9, <1>10, <1>11, <1>12, <1>13,
     <1>14, <1>15
  DEF Next, Worker, Sending, Server, Finished

\* No step loses the read that is in flight, or its message.
LEMMA ReadStep == IInv /\ [Next]_vars => ReadCoherent' /\ BufferEmptied' /\ Engaged'
<1> SUFFICES ASSUME IInv, [Next]_vars PROVE ReadCoherent' /\ BufferEmptied' /\ Engaged'
  OBVIOUS
<1>0. IoTypes /\ OneConnection /\ ReadCoherent /\ BufferEmptied /\ Engaged
  BY DEF IInv, TypeOK
<1>1. ASSUME OpenSucceeds PROVE ReadCoherent' /\ BufferEmptied' /\ Engaged'
  BY <1>0, <1>1 DEF OpenSucceeds, Unread, Primed, ReadCoherent, BufferEmptied, Engaged
<1>2. ASSUME \/ OpenIsBusy \/ OpenAgain \/ OpenFails \/ ClearRaces \/ BackoffEnds
             \/ BackoffStops
      PROVE  ReadCoherent' /\ BufferEmptied' /\ Engaged'
  BY <1>0, <1>2
  DEF OpenIsBusy, OpenAgain, OpenFails, ClearRaces, BackoffEnds, BackoffStops,
      ReadCoherent, BufferEmptied, Engaged
<1>3. ASSUME \/ SetMessageMode \/ SetMessageModeFails
      PROVE  ReadCoherent' /\ BufferEmptied' /\ Engaged'
  BY <1>0, <1>3
  DEF SetMessageMode, SetMessageModeFails, Throw, GoneError, ServersDoing, ReadCoherent,
      BufferEmptied, Engaged
<1>4. ASSUME ServeRead PROVE ReadCoherent' /\ BufferEmptied' /\ Engaged'
  BY <1>0, <1>4
  DEF ServeRead, Chosen, m_aWaitObj, GoneError, ServersDoing, ReadCoherent,
      BufferEmptied, Engaged, IoTypes
<1>5. ASSUME \/ ServeWrite \/ ServeNewMsg \/ ServeTimeout \/ WriteLocked
             \/ WriteNothing
      PROVE  ReadCoherent' /\ BufferEmptied' /\ Engaged'
  BY <1>0, <1>5
  DEF ServeWrite, Chosen, m_aWaitObj, AfterWrite, ServeNewMsg, ServeTimeout,
      WriteLocked, WriteNothing, ReadCoherent, BufferEmptied, Engaged
<1>6. ASSUME ServeStop PROVE ReadCoherent' /\ BufferEmptied' /\ Engaged'
  BY <1>0, <1>6 DEF ServeStop, Chosen, m_aWaitObj, ReadCoherent, BufferEmptied, Engaged
<1>7. ASSUME ReadMessage PROVE ReadCoherent' /\ BufferEmptied' /\ Engaged'
  BY <1>0, <1>7 DEF ReadMessage, ReadCoherent, BufferEmptied, Engaged
<1>8. ASSUME ReadPends PROVE ReadCoherent' /\ BufferEmptied' /\ Engaged'
  BY <1>0, <1>8
  DEF ReadPends, Issued, ReadCoherent, BufferEmptied, Engaged, OneConnection, HasHandle
<1>9. ASSUME ReadBroken \/ Deliver PROVE ReadCoherent' /\ BufferEmptied' /\ Engaged'
  BY <1>0, <1>9
  DEF ReadBroken, Broken, Throw, GoneError, ServersDoing, Deliver, Cleared,
      ReadCoherent, BufferEmptied, Engaged
<1>10. ASSUME WriteMessage PROVE ReadCoherent' /\ BufferEmptied' /\ Engaged'
  BY <1>0, <1>10 DEF WriteMessage, PopHead, Issued, ReadCoherent, BufferEmptied, Engaged
<1>11. ASSUME WriteFails PROVE ReadCoherent' /\ BufferEmptied' /\ Engaged'
  BY <1>0, <1>11
  DEF WriteFails, PopHead, Issued, Throw, GoneError, ServersDoing, ReadCoherent,
      BufferEmptied, Engaged
<1>12. ASSUME Cancel PROVE ReadCoherent' /\ BufferEmptied' /\ Engaged'
  BY <1>0, <1>12
  DEF Cancel, Cancelled, Stalled, ReadCoherent, BufferEmptied, Engaged, IoTypes
<1>13. ASSUME WaitAll PROVE ReadCoherent' /\ BufferEmptied' /\ Engaged'
  BY <1>0, <1>13 DEF WaitAll, Awaited, ReadCoherent, BufferEmptied, Engaged
<1>14. ASSUME Finish PROVE ReadCoherent' /\ BufferEmptied' /\ Engaged'
  BY <1>0, <1>14 DEF Finish, StillPending, ReadCoherent, BufferEmptied, Engaged
<1>15. ASSUME Clear PROVE ReadCoherent' /\ BufferEmptied' /\ Engaged'
  BY <1>0, <1>15 DEF Clear, Cleared, Emptied, ReadCoherent, BufferEmptied, Engaged
<1>16. ASSUME ServerSends PROVE ReadCoherent' /\ BufferEmptied' /\ Engaged'
  BY <1>0, <1>16 DEF ServerSends, ReadCoherent, BufferEmptied, Engaged
<1>17. ASSUME ServerReceives PROVE ReadCoherent' /\ BufferEmptied' /\ Engaged'
  BY <1>0, <1>17 DEF ServerReceives, Stalled, ReadCoherent, BufferEmptied, Engaged
<1>18. ASSUME ServerLeaves PROVE ReadCoherent' /\ BufferEmptied' /\ Engaged'
  BY <1>0, <1>18 DEF ServerLeaves, Stalled, ReadCoherent, BufferEmptied, Engaged
<1>19. ASSUME NEW s \in Senders, \/ SendLock(s) \/ SendAdd(s) \/ SendSignal(s)
       PROVE  ReadCoherent' /\ BufferEmptied' /\ Engaged'
  BY <1>0, <1>19 DEF SendLock, SendAdd, SendSignal, ReadCoherent, BufferEmptied, Engaged
<1>20. ASSUME Stop \/ UNCHANGED vars PROVE ReadCoherent' /\ BufferEmptied' /\ Engaged'
  BY <1>0, <1>20 DEF Stop, ReadCoherent, BufferEmptied, Engaged
<1> QED
  BY <1>1, <1>2, <1>3, <1>4, <1>5, <1>6, <1>7, <1>8, <1>9, <1>10, <1>11, <1>12, <1>13,
     <1>14, <1>15, <1>16, <1>17, <1>18, <1>19, <1>20
  DEF Next, Worker, Sending, Server, Finished

\* No step loses or reorders what the server has sent.
LEMMA OrderStep == IInv /\ [Next]_vars => MessagesInOrder'
<1> SUFFICES ASSUME IInv, [Next]_vars PROVE MessagesInOrder'
  OBVIOUS
<1>0. /\ PipeTypes /\ NotifyTypes /\ OneConnection
      /\ ReadCoherent /\ BufferEmptied /\ MessagesInOrder
  BY DEF IInv, TypeOK
<1>1. ASSUME OpenSucceeds PROVE MessagesInOrder'
  BY <1>0, <1>1
  DEF OpenSucceeds, Unread, Primed, MessagesInOrder, Held, OneConnection, HasHandle,
      BufferEmptied, PipeTypes
<1>2. ASSUME \/ OpenIsBusy \/ OpenAgain \/ OpenFails \/ SetMessageMode
             \/ SetMessageModeFails \/ ServeRead \/ ServeWrite \/ ServeNewMsg
             \/ ServeTimeout \/ ServeStop
      PROVE  MessagesInOrder'
  BY <1>0, <1>2
  DEF OpenIsBusy, OpenAgain, OpenFails, SetMessageMode, SetMessageModeFails, Throw,
      GoneError, ServersDoing, ServeRead, Chosen, m_aWaitObj, ServeWrite, AfterWrite,
      ServeNewMsg, ServeTimeout, ServeStop, MessagesInOrder, Held
<1>3. ASSUME ReadMessage PROVE MessagesInOrder'
  <2> SUFFICES ASSUME up' PROVE MessagesInOrder'
    BY DEF MessagesInOrder
  <2>1. up /\ m_inputBuffer = {} /\ Held = 0
    BY <1>0, <1>3 DEF ReadMessage, BufferEmptied, Held
  <2>2. /\ Len(inbound) \in Nat \ {0} /\ DOMAIN inbound = 1 .. Len(inbound)
        /\ \A k \in 1 .. Len(inbound) : inbound[k] = heard + k
    BY <1>0, <1>3, <2>1 DEF ReadMessage, MessagesInOrder, PipeTypes, NotifyTypes
  <2>3. m_inputBuffer' = {heard + 1} /\ Held' = 1
    <3>1. Head(inbound) = heard + 1
      BY <1>0, <2>2 DEF PipeTypes
    <3>2. m_inputBuffer' = {} \cup {heard + 1}
      BY <1>3, <2>1, <3>1 DEF ReadMessage
    <3> QED BY <3>2 DEF Held
  <2>4. /\ Len(Tail(inbound)) = Len(inbound) - 1
        /\ \A k \in 1 .. (Len(inbound) - 1) : Tail(inbound)[k] = inbound[k + 1]
    BY <1>0, <2>2 DEF PipeTypes
  <2>5. \A k \in DOMAIN inbound' : inbound'[k] = heard + 1 + k
    <3>1. DOMAIN Tail(inbound) = 1 .. (Len(inbound) - 1)
      BY <1>0, <2>2, <2>4 DEF PipeTypes
    <3> QED BY <1>0, <1>3, <2>2, <2>4, <3>1 DEF ReadMessage, NotifyTypes
  <2>6. pipe \in {"up", "closed"} => Len(inbound') = served - heard - 1
    BY <1>0, <1>3, <2>1, <2>4 DEF ReadMessage, MessagesInOrder, PipeTypes, NotifyTypes
  <2> QED BY <1>3, <2>3, <2>5, <2>6 DEF ReadMessage, MessagesInOrder
<1>4. ASSUME Deliver PROVE MessagesInOrder'
  BY <1>0, <1>4
  DEF Deliver, Cleared, MessagesInOrder, Held, BufferEmptied, PipeTypes, NotifyTypes
<1>5. ASSUME \/ ReadPends \/ ReadBroken \/ WriteLocked \/ WriteNothing \/ WriteMessage
             \/ WriteFails \/ Cancel \/ WaitAll \/ ClearRaces \/ BackoffEnds
             \/ BackoffStops
      PROVE  MessagesInOrder'
  BY <1>0, <1>5
  DEF ReadPends, Issued, ReadBroken, Broken, Throw, GoneError, ServersDoing,
      WriteLocked, WriteNothing, WriteMessage, PopHead, WriteFails, Cancel, Cancelled,
      Stalled, WaitAll, Awaited, ClearRaces, BackoffEnds, BackoffStops, MessagesInOrder,
      Held
<1>6. ASSUME Finish PROVE MessagesInOrder'
  BY <1>0, <1>6 DEF Finish, StillPending, MessagesInOrder, Held
<1>7. ASSUME Clear PROVE MessagesInOrder'
  BY <1>0, <1>7
  DEF Clear, Cleared, Emptied, MessagesInOrder, Held, OneConnection, HasHandle
<1>8. ASSUME ServerSends PROVE MessagesInOrder'
  <2> SUFFICES ASSUME up' PROVE MessagesInOrder'
    BY DEF MessagesInOrder
  <2>1. /\ UNCHANGED <<up, heard, pipe>> /\ up
        /\ m_inputBuffer \subseteq {heard + 1}
        /\ \A k \in DOMAIN inbound : inbound[k] = heard + Held + k
        /\ Len(inbound) = served - heard - Held
    BY <1>0, <1>8 DEF ServerSends, MessagesInOrder
  <2>2. CASE ovRead = "pending" /\ "read" \in pending
    <3>1. inbound = <<>> /\ m_inputBuffer = {} /\ Held = 0
      BY <1>0, <2>2 DEF ReadCoherent, Held
    <3>2. served = heard
      BY <1>0, <2>1, <3>1 DEF PipeTypes, NotifyTypes
    <3>3. /\ m_inputBuffer' = {heard + 1} /\ Held' = 1
          /\ inbound' = <<>> /\ served' = heard + 1
      BY <1>8, <2>2, <3>1, <3>2 DEF ServerSends, Held
    <3> QED BY <1>0, <2>1, <3>3 DEF MessagesInOrder, NotifyTypes
  <2>3. CASE ~(ovRead = "pending" /\ "read" \in pending)
    <3>1. /\ UNCHANGED m_inputBuffer /\ Held' = Held
          /\ inbound' = Append(inbound, served + 1) /\ served' = served + 1
      BY <1>8, <2>3 DEF ServerSends, Held
    <3>2. Held \in Nat
      BY DEF Held
    <3>3. Len(inbound') = Len(inbound) + 1 /\ DOMAIN inbound' = 1 .. (Len(inbound) + 1)
      BY <1>0, <3>1 DEF PipeTypes
    <3>4. \A k \in DOMAIN inbound' : inbound'[k] = heard + Held + k
      BY <1>0, <2>1, <3>1, <3>2, <3>3 DEF PipeTypes, NotifyTypes
    <3> QED BY <1>0, <2>1, <3>1, <3>2, <3>3, <3>4 DEF MessagesInOrder, PipeTypes, NotifyTypes
  <2> QED BY <2>2, <2>3
<1>9. ASSUME ServerReceives PROVE MessagesInOrder'
  BY <1>0, <1>9 DEF ServerReceives, Stalled, MessagesInOrder, Held
<1>10. ASSUME ServerLeaves PROVE MessagesInOrder'
  BY <1>0, <1>10 DEF ServerLeaves, Stalled, MessagesInOrder, Held
<1>11. ASSUME NEW s \in Senders, \/ SendLock(s) \/ SendAdd(s) \/ SendSignal(s)
       PROVE  MessagesInOrder'
  BY <1>0, <1>11 DEF SendLock, SendAdd, SendSignal, MessagesInOrder, Held
<1>12. ASSUME Stop \/ UNCHANGED vars PROVE MessagesInOrder'
  BY <1>0, <1>12 DEF Stop, MessagesInOrder, Held
<1> QED
  BY <1>1, <1>2, <1>3, <1>4, <1>5, <1>6, <1>7, <1>8, <1>9, <1>10, <1>11, <1>12
  DEF Next, Worker, Sending, Server, Finished

\* No step carries a message into a later session.
LEMMA QueueStep == IInv /\ [Next]_vars => QueueCoherent' /\ NoMessageCrossesSessions'
<1> SUFFICES ASSUME IInv, [Next]_vars PROVE QueueCoherent' /\ NoMessageCrossesSessions'
  OBVIOUS
<1>0. /\ QueueTypes /\ PipeTypes /\ NotifyTypes
      /\ OneConnection /\ QueueCoherent /\ NoMessageCrossesSessions
  BY DEF IInv, TypeOK
<1>1. ASSUME OpenSucceeds PROVE QueueCoherent' /\ NoMessageCrossesSessions'
  BY <1>0, <1>1
  DEF OpenSucceeds, Unread, Primed, QueueCoherent, NoMessageCrossesSessions,
      OneConnection, HasHandle
<1>2. ASSUME \/ OpenIsBusy \/ OpenAgain \/ OpenFails \/ SetMessageMode
             \/ SetMessageModeFails \/ ServeRead \/ ServeWrite \/ ServeNewMsg
             \/ ServeTimeout \/ ServeStop
      PROVE  QueueCoherent' /\ NoMessageCrossesSessions'
  BY <1>0, <1>2
  DEF OpenIsBusy, OpenAgain, OpenFails, SetMessageMode, SetMessageModeFails, Throw,
      GoneError, ServersDoing, ServeRead, Chosen, m_aWaitObj, ServeWrite, AfterWrite,
      ServeNewMsg, ServeTimeout, ServeStop, QueueCoherent, NoMessageCrossesSessions
<1>3. ASSUME \/ ReadMessage \/ ReadPends \/ ReadBroken \/ Deliver \/ WriteLocked
             \/ WriteNothing \/ WaitAll \/ ClearRaces \/ BackoffEnds \/ BackoffStops
      PROVE  QueueCoherent' /\ NoMessageCrossesSessions'
  BY <1>0, <1>3
  DEF ReadMessage, ReadPends, Issued, ReadBroken, Broken, Throw, GoneError,
      ServersDoing, Deliver, Cleared, WriteLocked, WriteNothing, WaitAll, Awaited,
      ClearRaces, BackoffEnds, BackoffStops, QueueCoherent, NoMessageCrossesSessions
<1>4. ASSUME WriteMessage PROVE QueueCoherent' /\ NoMessageCrossesSessions'
  <2>1. /\ m_outputBuffers # <<>> /\ m_outputBuffers' = Tail(m_outputBuffers)
        /\ outbound' = Append(outbound, Head(m_outputBuffers))
        /\ UNCHANGED <<m_cs, spc, session>>
    BY <1>4 DEF WriteMessage, PopHead
  <2>2. wpc \notin {"open", "busy", "backoff"} /\ wpc' \notin {"open", "busy", "backoff"}
    BY <1>4 DEF WriteMessage, PopHead
  <2>3. \A k \in DOMAIN Tail(m_outputBuffers) : Tail(m_outputBuffers)[k].in \in {0, session}
    BY <1>0, <2>1 DEF QueueCoherent, QueueTypes
  <2>4. \A k \in DOMAIN outbound' : outbound'[k].in \in {0, session}
    <3>1. Head(m_outputBuffers) \in Message /\ Head(m_outputBuffers).in \in {0, session}
      BY <1>0, <2>1 DEF QueueCoherent, QueueTypes
    <3> QED BY <1>0, <2>1, <3>1 DEF NoMessageCrossesSessions, PipeTypes
  <2> QED BY <1>0, <2>1, <2>2, <2>3, <2>4 DEF QueueCoherent, NoMessageCrossesSessions
<1>5. ASSUME WriteFails PROVE QueueCoherent' /\ NoMessageCrossesSessions'
  BY <1>0, <1>5
  DEF WriteFails, PopHead, Issued, Throw, GoneError, ServersDoing, QueueCoherent,
      NoMessageCrossesSessions, QueueTypes, PipeTypes
<1>6. ASSUME Cancel PROVE QueueCoherent' /\ NoMessageCrossesSessions'
  BY <1>0, <1>6
  DEF Cancel, Cancelled, Stalled, QueueCoherent, NoMessageCrossesSessions, QueueTypes,
      PipeTypes
<1>7. ASSUME Finish PROVE QueueCoherent' /\ NoMessageCrossesSessions'
  BY <1>0, <1>7 DEF Finish, StillPending, QueueCoherent, NoMessageCrossesSessions
<1>8. ASSUME Clear PROVE QueueCoherent' /\ NoMessageCrossesSessions'
  BY <1>0, <1>8 DEF Clear, Cleared, Emptied, QueueCoherent, NoMessageCrossesSessions
<1>9. ASSUME NEW s \in Senders, SendLock(s)
      PROVE  QueueCoherent' /\ NoMessageCrossesSessions'
  BY <1>0, <1>9
  DEF SendLock, QueueCoherent, NoMessageCrossesSessions, QueueTypes, PipeTypes
<1>10. ASSUME NEW s \in Senders, SendAdd(s)
       PROVE  QueueCoherent' /\ NoMessageCrossesSessions'
  <2> DEFINE m == [by |-> s, in |-> IF up THEN session ELSE 0]
  <2>1. m \in Message /\ m.in \in {0, session}
    BY <1>0 DEF Message, NotifyTypes
  <2>2. \A k \in DOMAIN m_outputBuffers' :
            \/ m_outputBuffers'[k] = m
            \/ /\ k \in DOMAIN m_outputBuffers
               /\ m_outputBuffers'[k] = m_outputBuffers[k]
    BY <1>0, <1>10, <2>1 DEF SendAdd, QueueTypes
  <2>3. wpc \in {"open", "busy", "backoff"} => m.in = 0
    BY <1>0 DEF OneConnection, HasHandle
  <2> QED BY <1>0, <1>10, <2>1, <2>2, <2>3 DEF SendAdd, QueueCoherent, NoMessageCrossesSessions
<1>11. ASSUME NEW s \in Senders, SendSignal(s)
       PROVE  QueueCoherent' /\ NoMessageCrossesSessions'
  BY <1>0, <1>11
  DEF SendSignal, QueueCoherent, NoMessageCrossesSessions, QueueTypes, PipeTypes
<1>12. ASSUME ServerReceives PROVE QueueCoherent' /\ NoMessageCrossesSessions'
  BY <1>0, <1>12
  DEF ServerReceives, Stalled, QueueCoherent, NoMessageCrossesSessions, QueueTypes,
      PipeTypes
<1>13. ASSUME ServerLeaves PROVE QueueCoherent' /\ NoMessageCrossesSessions'
  BY <1>0, <1>13 DEF ServerLeaves, Stalled, QueueCoherent, NoMessageCrossesSessions
<1>14. ASSUME \/ Stop \/ ServerSends \/ UNCHANGED vars
       PROVE  QueueCoherent' /\ NoMessageCrossesSessions'
  BY <1>0, <1>14 DEF Stop, ServerSends, QueueCoherent, NoMessageCrossesSessions
<1> QED
  BY <1>1, <1>2, <1>3, <1>4, <1>5, <1>6, <1>7, <1>8, <1>9, <1>10, <1>11, <1>12, <1>13,
     <1>14
  DEF Next, Worker, Sending, Server, Finished

\* No step leaves a message with nothing to bring the worker to the write loop.
LEMMA WakeupStep == IInv /\ [Next]_vars => NoLostWakeup'
<1> SUFFICES ASSUME IInv, [Next]_vars PROVE NoLostWakeup'
  OBVIOUS
<1>0. QueueTypes /\ PipeTypes /\ OneConnection /\ QueueCoherent /\ NoLostWakeup
  BY DEF IInv, TypeOK
<1>1. ASSUME OpenSucceeds PROVE NoLostWakeup'
  BY <1>0, <1>1
  DEF OpenSucceeds, Unread, Primed, NoLostWakeup, Keeping, Stalled, OneConnection,
      HasHandle, PipeTypes
<1>2. ASSUME \/ OpenIsBusy \/ OpenAgain \/ SetMessageMode \/ ServeRead \/ BackoffEnds
      PROVE  NoLostWakeup'
  BY <1>0, <1>2
  DEF OpenIsBusy, OpenAgain, SetMessageMode, ServeRead, Chosen, m_aWaitObj, GoneError,
      ServersDoing, BackoffEnds, NoLostWakeup, Keeping, Stalled
<1>3. ASSUME \/ OpenFails \/ SetMessageModeFails \/ ServeStop \/ ReadBroken
             \/ WriteFails \/ Cancel \/ WaitAll \/ Finish \/ ClearRaces
             \/ BackoffStops
      PROVE  NoLostWakeup'
  BY <1>0, <1>3
  DEF OpenFails, SetMessageModeFails, Throw, GoneError, ServersDoing, ServeStop, Chosen,
      m_aWaitObj, ReadBroken, Broken, WriteFails, PopHead, Issued, Cancel, Cancelled,
      Stalled, WaitAll, Awaited, Finish, StillPending, ClearRaces, BackoffStops,
      NoLostWakeup, Keeping
<1>4. ASSUME \/ ServeWrite \/ ServeNewMsg \/ ServeTimeout \/ ReadMessage \/ ReadPends
             \/ Deliver
      PROVE  NoLostWakeup'
  BY <1>0, <1>4
  DEF ServeWrite, Chosen, m_aWaitObj, AfterWrite, ServeNewMsg, ServeTimeout,
      ReadMessage, ReadPends, Issued, Deliver, Cleared, NoLostWakeup, Keeping, Stalled
<1>5. ASSUME WriteLocked PROVE NoLostWakeup'
  BY <1>0, <1>5
  DEF WriteLocked, NoLostWakeup, Keeping, Stalled, QueueTypes, QueueCoherent
<1>6. ASSUME WriteNothing PROVE NoLostWakeup'
  BY <1>0, <1>6 DEF WriteNothing, NoLostWakeup, Keeping, Stalled
<1>7. ASSUME WriteMessage PROVE NoLostWakeup'
  BY <1>0, <1>7
  DEF WriteMessage, PopHead, Issued, NoLostWakeup, Keeping, Stalled, QueueTypes,
      PipeTypes
<1>8. ASSUME Clear PROVE NoLostWakeup'
  BY <1>0, <1>8 DEF Clear, Cleared, Emptied, NoLostWakeup, Keeping, Stalled
<1>9. ASSUME NEW s \in Senders, SendLock(s) PROVE NoLostWakeup'
  BY <1>0, <1>9 DEF SendLock, NoLostWakeup, Keeping, Stalled, QueueTypes, PipeTypes
<1>10. ASSUME NEW s \in Senders, SendAdd(s) PROVE NoLostWakeup'
  BY <1>0, <1>10 DEF SendAdd, NoLostWakeup, Keeping, Stalled, QueueTypes, PipeTypes
<1>11. ASSUME NEW s \in Senders, SendSignal(s) PROVE NoLostWakeup'
  BY <1>0, <1>11 DEF SendSignal, NoLostWakeup, Keeping, Stalled, QueueTypes, PipeTypes
<1>12. ASSUME ServerReceives PROVE NoLostWakeup'
  BY <1>0, <1>12 DEF ServerReceives, Stalled, NoLostWakeup, Keeping, PipeTypes
<1>13. ASSUME ServerLeaves PROVE NoLostWakeup'
  BY <1>0, <1>13 DEF ServerLeaves, Stalled, NoLostWakeup, Keeping
<1>14. ASSUME Stop \/ ServerSends \/ UNCHANGED vars PROVE NoLostWakeup'
  BY <1>0, <1>14 DEF Stop, ServerSends, NoLostWakeup, Keeping, Stalled
<1> QED
  BY <1>1, <1>2, <1>3, <1>4, <1>5, <1>6, <1>7, <1>8, <1>9, <1>10, <1>11, <1>12, <1>13,
     <1>14
  DEF Next, Worker, Sending, Server, Finished

\* No step changes whose doing it was.
LEMMA BlameStep == IInv /\ [Next]_vars => BlameIsSettled'
<1> SUFFICES ASSUME IInv, [Next]_vars PROVE BlameIsSettled'
  OBVIOUS
<1>0. PipeTypes /\ OneConnection /\ ReadCoherent /\ BlameIsSettled
  BY DEF IInv, TypeOK
<1>1. ASSUME SetMessageModeFails PROVE BlameIsSettled'
  BY <1>0, <1>1
  DEF SetMessageModeFails, Throw, GoneError, ServersDoing, BlameIsSettled, PipeTypes,
      OneConnection, HasHandle
<1>2. ASSUME ServeRead PROVE BlameIsSettled'
  BY <1>0, <1>2
  DEF ServeRead, Chosen, m_aWaitObj, GoneError, ServersDoing, BlameIsSettled, PipeTypes,
      ReadCoherent, OneConnection, HasHandle
<1>3. ASSUME ServeStop PROVE BlameIsSettled'
  BY <1>0, <1>3 DEF ServeStop, Chosen, m_aWaitObj, BlameIsSettled
<1>4. ASSUME ReadBroken PROVE BlameIsSettled'
  BY <1>0, <1>4
  DEF ReadBroken, Broken, Throw, GoneError, ServersDoing, BlameIsSettled, PipeTypes,
      OneConnection, HasHandle
<1>5. ASSUME WriteFails PROVE BlameIsSettled'
  BY <1>0, <1>5
  DEF WriteFails, PopHead, Issued, Throw, GoneError, ServersDoing, BlameIsSettled,
      PipeTypes, OneConnection, HasHandle
<1>6. ASSUME Cancel \/ WaitAll \/ Finish PROVE BlameIsSettled'
  BY <1>0, <1>6
  DEF Cancel, Cancelled, Stalled, WaitAll, Awaited, Finish, StillPending, BlameIsSettled
<1>7. ASSUME ServerSends \/ ServerReceives \/ ServerLeaves PROVE BlameIsSettled'
  BY <1>0, <1>7 DEF ServerSends, ServerReceives, Stalled, ServerLeaves, BlameIsSettled
<1>8. ASSUME \/ OpenSucceeds \/ OpenIsBusy \/ OpenAgain \/ OpenFails \/ SetMessageMode
             \/ ServeWrite \/ ServeNewMsg \/ ServeTimeout \/ ReadMessage \/ ReadPends
             \/ Deliver
      PROVE  BlameIsSettled'
  BY <1>0, <1>8
  DEF OpenSucceeds, Unread, Primed, OpenIsBusy, OpenAgain, OpenFails, SetMessageMode,
      ServeWrite, Chosen, m_aWaitObj, AfterWrite, ServeNewMsg, ServeTimeout,
      ReadMessage, ReadPends, Issued, Deliver, Cleared, BlameIsSettled
<1>9. ASSUME \/ WriteLocked \/ WriteNothing \/ WriteMessage \/ Clear \/ ClearRaces
             \/ BackoffEnds \/ BackoffStops
      PROVE  BlameIsSettled'
  BY <1>0, <1>9
  DEF WriteLocked, WriteNothing, WriteMessage, PopHead, Issued, Clear, Cleared, Emptied,
      ClearRaces, BackoffEnds, BackoffStops, BlameIsSettled
<1>10. ASSUME NEW s \in Senders, \/ SendLock(s) \/ SendAdd(s) \/ SendSignal(s)
       PROVE  BlameIsSettled'
  BY <1>0, <1>10 DEF SendLock, SendAdd, SendSignal, BlameIsSettled
<1>11. ASSUME Stop \/ UNCHANGED vars PROVE BlameIsSettled'
  BY <1>0, <1>11 DEF Stop, BlameIsSettled
<1> QED
  BY <1>1, <1>2, <1>3, <1>4, <1>5, <1>6, <1>7, <1>8, <1>9, <1>10, <1>11
  DEF Next, Worker, Sending, Server, Finished

\* No step brings back the write that reset waits for.
LEMMA WriteStep == IInv /\ [Next]_vars => WriteSettled'
<1> SUFFICES ASSUME IInv, [Next]_vars PROVE WriteSettled'
  OBVIOUS
<1>0. IoTypes /\ PipeTypes /\ WriteSettled
  BY DEF IInv, TypeOK
<1>1. ASSUME \/ OpenSucceeds \/ OpenIsBusy \/ OpenAgain \/ OpenFails \/ SetMessageMode
             \/ SetMessageModeFails \/ ServeRead \/ ServeWrite \/ ServeNewMsg
             \/ ServeTimeout \/ ServeStop
      PROVE  WriteSettled'
  BY <1>0, <1>1
  DEF OpenSucceeds, Unread, Primed, OpenIsBusy, OpenAgain, OpenFails, SetMessageMode,
      SetMessageModeFails, Throw, GoneError, ServersDoing, ServeRead, Chosen,
      m_aWaitObj, ServeWrite, AfterWrite, ServeNewMsg, ServeTimeout, ServeStop,
      WriteSettled, Stalled
<1>2. ASSUME \/ ReadMessage \/ ReadPends \/ ReadBroken \/ Deliver \/ WriteLocked
             \/ WriteNothing \/ WriteFails \/ Clear \/ ClearRaces \/ BackoffEnds
             \/ BackoffStops
      PROVE  WriteSettled'
  BY <1>0, <1>2
  DEF ReadMessage, ReadPends, Issued, ReadBroken, Broken, Throw, GoneError,
      ServersDoing, Deliver, Cleared, WriteLocked, WriteNothing, WriteFails, PopHead,
      Clear, Emptied, ClearRaces, BackoffEnds, BackoffStops, WriteSettled, Stalled
<1>3. ASSUME WriteMessage PROVE WriteSettled'
  BY <1>0, <1>3 DEF WriteMessage, PopHead, Issued, WriteSettled, Stalled
<1>4. ASSUME Cancel PROVE WriteSettled'
  BY <1>0, <1>4 DEF Cancel, Cancelled, Stalled, WriteSettled, IoTypes, PipeTypes
<1>5. ASSUME WaitAll PROVE WriteSettled'
  BY <1>0, <1>5 DEF WaitAll, Awaited, WriteSettled, Stalled
<1>6. ASSUME Finish PROVE WriteSettled'
  BY <1>0, <1>6 DEF Finish, StillPending, WriteSettled, Stalled
<1>7. ASSUME ServerSends PROVE WriteSettled'
  BY <1>0, <1>7 DEF ServerSends, WriteSettled, Stalled
<1>8. ASSUME ServerReceives PROVE WriteSettled'
  BY <1>0, <1>8 DEF ServerReceives, Stalled, WriteSettled, PipeTypes
<1>9. ASSUME ServerLeaves PROVE WriteSettled'
  BY <1>0, <1>9 DEF ServerLeaves, Stalled, WriteSettled
<1>10. ASSUME NEW s \in Senders, \/ SendLock(s) \/ SendAdd(s) \/ SendSignal(s)
       PROVE  WriteSettled'
  BY <1>0, <1>10 DEF SendLock, SendAdd, SendSignal, WriteSettled, Stalled
<1>11. ASSUME Stop \/ UNCHANGED vars PROVE WriteSettled'
  BY <1>0, <1>11 DEF Stop, WriteSettled, Stalled
<1> QED
  BY <1>1, <1>2, <1>3, <1>4, <1>5, <1>6, <1>7, <1>8, <1>9, <1>10, <1>11
  DEF Next, Worker, Sending, Server, Finished

\* IInv is inductive.
LEMMA Inductive == IInv /\ [Next]_vars => IInv'
<1> SUFFICES ASSUME IInv, [Next]_vars PROVE IInv'
  OBVIOUS
<1> QED
  BY TypeStep, ConnectionStep, ReadStep, OrderStep, QueueStep, WakeupStep, BlameStep,
     WriteStep DEF IInv

\* Hence it holds in every state of the client.
THEOREM Invariance == Spec => []IInv
BY InitIInv, Inductive, PTL DEF Spec

-----------------------------------------------------------------------------
(* The theorems *)

\* Every variable of the client stays in its type.
THEOREM TypeCorrect == Spec => []TypeOK
<1>1. IInv => TypeOK
  BY DEF IInv
<1> QED BY <1>1, Invariance, PTL

\* Whenever main_loop waits, a read is in flight or m_evRead is signalled: a
\* client that is connected hears what the server sends next.
THEOREM ClientIsNeverDeaf == Spec => []NeverDeaf
<1>1. IInv => NeverDeaf
  BY DEF IInv, Engaged, NeverDeaf
<1> QED BY <1>1, Invariance, PTL

\* A message in the queue never waits for luck, in every interleaving of
\* SendMessage with the write loop and with reset.
THEOREM NoWakeupIsLost == Spec => []NoLostWakeup
<1>1. IInv => NoLostWakeup
  BY DEF IInv
<1> QED BY <1>1, Invariance, PTL

\* A message queued during one connection never goes out through a later one,
\* although RemoveAll takes no lock.
THEOREM SessionsAreApart == Spec => []NoMessageCrossesSessions
<1>1. IInv => NoMessageCrossesSessions
  BY DEF IInv
<1> QED BY <1>1, Invariance, PTL

\* OnDisconnect(fOrigin) says rightly whose doing it was.
THEOREM BlameIsRight == Spec => []BlamesServerRightly
<1>1. IInv => BlamesServerRightly
  BY DEF IInv, BlameIsSettled, BlamesServerRightly
<1> QED BY <1>1, Invariance, PTL

\* Nothing but a write whose event was taken away blocks reset for ever.
THEOREM OnlyWritesHang == Spec => []HangsOnlyOnWrite
<1>1. ASSUME IInv PROVE HangsOnlyOnWrite
  <2> SUFFICES ASSUME Hung
               PROVE  Awaited \ signalled = {"evWrite"} /\ ovWrite # "aborted" /\ ~Stalled
    BY DEF HangsOnlyOnWrite
  <2>1. "read" \in pending => "evRead" \in signalled
    BY <1>1 DEF IInv, Hung, ReadCoherent
  <2>2. "write" \in pending /\ "evWrite" \notin signalled
    BY <2>1 DEF Hung, Awaited
  <2>3. ovWrite # "aborted" /\ ~Stalled
    BY <1>1, <2>2 DEF IInv, Hung, WriteSettled
  <2> QED BY <2>1, <2>2, <2>3 DEF Awaited
<1> QED BY <1>1, Invariance, PTL

\* When a read finds that the server has closed its end, the application has
\* been given every message sent before.
THEOREM LastWordsReachTheApplication == Spec => LastWordsAreHeard
<1> DEFINE Step == (/\ wpc \in {"wait", "read"} /\ wpc' = "cancel"
                    /\ pipe = "closed" /\ ~fOrigin')
                   => heard = served
<1>1. ASSUME IInv, [Next]_vars PROVE [Step]_vars
  <2> SUFFICES ASSUME wpc \in {"wait", "read"}, wpc' = "cancel", pipe = "closed", ~fOrigin'
               PROVE  heard = served
    OBVIOUS
  <2>1. ServeRead \/ ReadBroken
    BY <1>1
    DEF Next, Worker, Server, Sending, Finished, Hung, OpenSucceeds, OpenIsBusy, OpenAgain,
        OpenFails, SetMessageMode, SetMessageModeFails, ServeWrite, AfterWrite, ServeNewMsg,
        ServeTimeout, ServeStop, ReadMessage, ReadPends, Deliver, WriteLocked, WriteNothing,
        PopHead, WriteMessage, WriteFails, Cancel, WaitAll, Finish, Clear, ClearRaces,
        BackoffEnds, BackoffStops, SendLock, SendAdd, SendSignal, Stop, ServerSends,
        ServerReceives, ServerLeaves
  <2>2. inbound = <<>> /\ m_inputBuffer = {}
    BY <1>1, <2>1
    DEF IInv, ServeRead, ReadBroken, Broken, Chosen, ReadCoherent, BufferEmptied
  <2>3. up
    BY <1>1 DEF IInv, OneConnection
  <2>4. Len(inbound) = served - heard
    BY <1>1, <2>2, <2>3 DEF IInv, TypeOK, PipeTypes, NotifyTypes, MessagesInOrder, Held
  <2> QED BY <1>1, <2>2, <2>4 DEF IInv, TypeOK, PipeTypes, NotifyTypes
<1> QED BY <1>1, Invariance, PTL DEF LastWordsAreHeard, Spec

-----------------------------------------------------------------------------
(* The client implements PipeConnection *)

\* A callback is a step of PipeConnection, and no other step is one.
LEMMA ConnectionSimulates == IInv /\ [Next]_vars => [Connection!Next]_(Connection!vars)
<1> SUFFICES ASSUME IInv, [Next]_vars PROVE [Connection!Next]_(Connection!vars)
  OBVIOUS
<1> USE DEF Connection!vars, Connection!Next
<1>0. OneConnection /\ BufferEmptied /\ MessagesInOrder /\ QueueTypes /\ NotifyTypes
  BY DEF IInv, TypeOK
<1>1. ASSUME OpenSucceeds PROVE Connection!Connect
  BY <1>0, <1>1 DEF OpenSucceeds, OneConnection, HasHandle, Connection!Connect
<1>2. ASSUME Deliver PROVE Connection!Message
  <2>1. up /\ m_inputBuffer \subseteq {heard + 1}
    BY <1>0, <1>2 DEF Deliver, OneConnection, HasHandle, MessagesInOrder
  <2> QED BY <1>2, <2>1 DEF Deliver, Connection!Message
<1>3. ASSUME Finish PROVE Connection!Disconnect
  BY <1>0, <1>3 DEF Finish, OneConnection, HasHandle, Connection!Disconnect
<1>4. ASSUME Clear PROVE [Connection!End]_(Connection!vars)
  BY <1>0, <1>4 DEF Clear, OneConnection, HasHandle, Connection!End
<1>5. ASSUME BackoffStops PROVE Connection!End
  BY <1>0, <1>5 DEF BackoffStops, OneConnection, HasHandle, Connection!End
<1>6. ASSUME \/ OpenIsBusy \/ OpenAgain \/ OpenFails \/ SetMessageMode
             \/ SetMessageModeFails \/ ServeRead \/ ServeWrite \/ ServeNewMsg
             \/ ServeTimeout \/ ServeStop \/ ReadMessage \/ ReadPends \/ ReadBroken
             \/ WriteLocked \/ WriteNothing \/ WriteMessage \/ WriteFails \/ Cancel
             \/ WaitAll \/ ClearRaces \/ BackoffEnds
      PROVE  UNCHANGED Connection!vars
  BY <1>6
  DEF OpenIsBusy, OpenAgain, OpenFails, SetMessageMode, SetMessageModeFails, Throw,
      ServeRead, Chosen, ServeWrite, AfterWrite, ServeNewMsg, ServeTimeout, ServeStop,
      ReadMessage, ReadPends, ReadBroken, WriteLocked, WriteNothing, PopHead, WriteMessage,
      WriteFails, Cancel, WaitAll, ClearRaces, BackoffEnds
<1>7. ASSUME NEW s \in Senders, Sending(s) PROVE UNCHANGED Connection!vars
  BY <1>7 DEF Sending, SendLock, SendAdd, SendSignal
<1>8. ASSUME Stop \/ Server \/ UNCHANGED vars PROVE UNCHANGED Connection!vars
  BY <1>8 DEF Stop, Server, ServerSends, ServerReceives, ServerLeaves
<1> QED
  BY <1>1, <1>2, <1>3, <1>4, <1>5, <1>6, <1>7, <1>8 DEF Next, Worker, Finished

\* Whatever the server, the senders and Stop do, the application sees
\* connections: OnConnect and OnDisconnect alternate, and the messages between
\* them are those the server sent, in order and none left out.
THEOREM CallbacksImplementConnection == Spec => CallbacksAreConnection
<1>1. Init => Connection!Init
  BY DEF Init, Connection!Init
<1> QED
  BY <1>1, ConnectionSimulates, Invariance, PTL
  DEF CallbacksAreConnection, Connection!Spec, Spec
=============================================================================
