--------------------------- MODULE ServerHostProofs ---------------------------
(***************************************************************************)
(* The host of ServerHost: its window never frees what the worker uses, the  *)
(* handle names the object, answers are those of the handlers, and a handler *)
(* gets the text of the request it is called for, which the list then shows. *)
(***************************************************************************)
EXTENDS ServerHost, ApiStringsProofs

USE DEF objectVars, threadVars, windowVars, listVars, requestVars, replyVars,
        clientVars, vars,
        NoRequest, NoText

-----------------------------------------------------------------------------
(* Lemmas about the operators *)

\* Requests with a text, and what the handler's result makes of them.
LEMMA CallsHaveText ==
    \A r : Calls(r) => /\ r.val # <<>> /\ r.val[1] # <<>> /\ r.val # <<<<>>>>
                       /\ Reply(r, SM_SRV_RPLY_NOREPLY) = <<>>
                       /\ Reply(r, SM_SRV_RPLY_OK) # <<>>
                       /\ Reply(r, SM_SRV_RPLY_OK)[1] =
                            [rply |-> SM_SRV_RPLY_OK, cmd |-> r.cmd[1], val |-> r.val[1]]
BY DEF Calls, HasText, Reply, SM_SRV_RPLY_NOREPLY, SM_SRV_RPLY_OK

\* What becomes of a queue when its client has gone.
LEMMA EarlierReplies ==
    ASSUME NEW q \in Seq(Answers)
    PROVE  Earlier(q) \in Seq(Answers) /\ AllEarlier(Earlier(q))
<1>1. \A k \in 1 .. Len(q) : [asker |-> "earlier", reply |-> q[k].reply] \in Answers
  <2> SUFFICES ASSUME NEW k \in 1 .. Len(q)
               PROVE  [asker |-> "earlier", reply |-> q[k].reply] \in Answers
    OBVIOUS
  <2>1. q[k] \in Answers
    OBVIOUS
  <2> QED BY <2>1 DEF Answers
<1>2. DOMAIN q = 1 .. Len(q) /\ Len(q) \in Nat
  OBVIOUS
<1> DEFINE e == [k \in 1 .. Len(q) |-> [asker |-> "earlier", reply |-> q[k].reply]]
<1>3. e \in Seq(Answers) /\ Len(e) = Len(q)
  BY <1>1, <1>2
<1>4. Earlier(q) = e
  BY <1>2 DEF Earlier
<1>5. \A k \in 1 .. Len(q) : e[k].asker = "earlier"
  OBVIOUS
<1> HIDE DEF e
<1> QED BY <1>3, <1>4, <1>5 DEF AllEarlier

\* One queue changes.
LEMMA QueueChanged ==
    ASSUME ClientTypes, NEW i \in 1 .. INSTANCES, NEW q \in Seq(Answers),
           queue' = [queue EXCEPT ![i] = q]
    PROVE  /\ queue' \in [1 .. INSTANCES -> Seq(Answers)]
           /\ queue'[i] = q
           /\ \A j \in 1 .. INSTANCES : j # i => queue'[j] = queue[j]
BY DEF ClientTypes

\* The head of a queue, once it is read.
LEMMA HeadRead ==
    ASSUME NEW D, NEW a \in Seq(D), NEW q \in Seq(D), q # <<>>
    PROVE  /\ Head(q) \in D /\ Tail(q) \in Seq(D)
           /\ Append(a, Head(q)) \in Seq(D)
           /\ Append(a, Head(q)) \o Tail(q) = a \o q
  OBVIOUS

\* A reply more.
EndsWith(got, before, x) == got # <<>> /\ Last(got) = x /\ Front(got) = before

LEMMA ReplyAppended ==
    ASSUME NEW a \in Seq(Answers), NEW q \in Seq(Answers), NEW x \in Answers
    PROVE  EndsWith(a \o Append(q, x), a \o q, x)
<1> DEFINE s == a \o q
           t == a \o Append(q, x)
<1>1. s \in Seq(Answers) /\ t \in Seq(Answers) /\ t = Append(s, x)
  OBVIOUS
<1> HIDE DEF s, t
<1>2. Len(t) = Len(s) + 1 /\ t[Len(t)] = x /\ \A k \in 1 .. Len(s) : t[k] = s[k]
  BY <1>1
<1>3. SubSeq(t, 1, Len(t) - 1) = s
  BY <1>1, <1>2
<1>4. Last(t) = x /\ Front(t) = s
  BY <1>2, <1>3 DEF Last, Front
<1>5. t # <<>>
  <2>1. Len(t) # 0 /\ Len(<<>>) = 0
    BY <1>1, <1>2
  <2> QED BY <2>1, Zenon
<1>6. EndsWith(t, s, x)
  BY <1>4, <1>5 DEF EndsWith
<1> QED BY <1>6 DEF s, t

-----------------------------------------------------------------------------
(* The inductive invariant *)

\* Everything is as before the first SMSrvRegister.
LEMMA InitHInv == Init => HInv
<1> SUFFICES ASSUME Init PROVE HInv
  OBVIOUS
<1> USE InstancesAssumption, HostBoundsAssumption
<1>1. HostTypes /\ ThreadTypes /\ ClientTypes
  <2>1. HostTypes
    <3>1. WindowFlags
      BY DEF Init, WindowFlags
    <3>2. ObjectFlags
      BY DEF Init, ObjectFlags
    <3>3. created \in 0 .. INSTANCES
      BY DEF Init
    <3> QED BY <3>1, <3>2, <3>3 DEF Init, HostTypes
  <2>2. ThreadTypes
    BY DEF Init, ThreadTypes, SM_SRV_RPLY_OK
  <2>3. ClientTypes
    BY DEF Init, ClientTypes
  <2> QED BY <2>1, <2>2, <2>3
<1>2. EventsBounded
  <2>1. Waiting = {} /\ events = 0
    BY DEF Init, Waiting
  <2>2. Cardinality(Waiting) = 0 /\ Cardinality(Clients) \in Nat
    BY <2>1, FS_EmptySet, FS_CardinalityType, ClientsAssumption
  <2> QED BY <2>1, <2>2 DEF EventsBounded
<1>3. Registering /\ Unregistering /\ OneRequest
  BY DEF Init, Registering, Unregistering, OneRequest, Running, SM_SRV_RPLY_OK,
         SM_SRV_RPLY_NOREPLY
<1>5. OneClientEach /\ ComesAnew
  <2>1. OnObject = {} /\ \A i \in 1 .. INSTANCES : queue[i] = <<>>
    BY DEF Init, OnObject
  <2> QED BY <2>1 DEF Init, OneClientEach, ComesAnew, AllEarlier, Running
<1>4. NoThreadOutlivesItsObject /\ HandleNamesObject /\ AnswersAreTheHandlers
  BY DEF Init, NoThreadOutlivesItsObject, HandleNamesObject, AnswersAreTheHandlers, Present,
         Running
<1> QED BY <1>1, <1>2, <1>3, <1>4, <1>5 DEF HInv

\* The Boolean variables of the window, of the object and of the thread's heap.
LEMMA FlagsStep ==
    WindowFlags /\ ObjectFlags /\ [Next]_vars => WindowFlags' /\ ObjectFlags'
<1> SUFFICES ASSUME WindowFlags, ObjectFlags, [Next]_vars PROVE WindowFlags' /\ ObjectFlags'
  OBVIOUS
<1>1. ASSUME NEW callback \in BOOLEAN, Register(callback) PROVE WindowFlags' /\ ObjectFlags'
  <2>1. WindowFlags'
    BY <1>1 DEF Register, WindowFlags
  <2>2. ObjectFlags'
    BY <1>1 DEF Register, ObjectFlags
  <2> QED BY <2>1, <2>2
<1>2. CASE ConstructFails \/ BeginThreadFails \/ ResumeThreadFails \/ Delete
  <2>1. UNCHANGED <<exiting, handler, doReply, srv_handler, m_thread, m_evStop, timedOut, inHeap>>
    BY <1>2 DEF ConstructFails, BeginThreadFails, ResumeThreadFails, Delete
  <2>2. object' = FALSE
    BY <1>2 DEF ConstructFails, BeginThreadFails, ResumeThreadFails, Delete, Destroy
  <2>3. srvHandle' \in BOOLEAN /\ connected' \in BOOLEAN
    BY <1>2 DEF ConstructFails, BeginThreadFails, ResumeThreadFails, Delete, Registered,
                WindowFlags
  <2>4. WindowFlags'
    BY <2>1, <2>3 DEF WindowFlags
  <2> QED BY <2>1, <2>2, <2>4 DEF ObjectFlags
<1>3. CASE ResumeThread \/ Free \/ Close \/ CheckReply
  <2>1. WindowFlags'
    BY <1>3 DEF ResumeThread, Registered, Free, Forgotten, Close, CheckReply, WindowFlags
  <2>2. UNCHANGED <<objectVars, inHeap>>
    BY <1>3 DEF ResumeThread, Free, Close, CheckReply
  <2> QED BY <2>1, <2>2 DEF ObjectFlags
<1>4. CASE BeginThread \/ Stop \/ Joined \/ JoinTimesOut \/ EnterHeap \/ LeaveHeap
  <2>1. ObjectFlags'
    <3>1. CASE BeginThread \/ Stop \/ Joined
      BY <3>1 DEF BeginThread, Stop, Joined, Closed, ObjectFlags
    <3>2. CASE JoinTimesOut \/ EnterHeap \/ LeaveHeap
      BY <3>2 DEF JoinTimesOut, EnterHeap, LeaveHeap, ObjectFlags
    <3> QED BY <1>4, <3>1, <3>2
  <2>2. UNCHANGED windowVars
    BY <1>4 DEF BeginThread, Stop, Joined, JoinTimesOut, EnterHeap, LeaveHeap
  <2> QED BY <2>1, <2>2 DEF WindowFlags
<1>5. CASE UNCHANGED <<windowVars, object, srv_handler, m_thread, m_evStop, timedOut, inHeap>>
  <2>1. WindowFlags'
    BY <1>5 DEF WindowFlags
  <2>2. ObjectFlags'
    BY <1>5 DEF ObjectFlags
  <2> QED BY <2>1, <2>2
<1>6. ASSUME \/ CreateInstance \/ Unregister \/ Terminate \/ ShowUrl \/ Clear \/ SendToDummy
             \/ CallNull \/ SendReply \/ ThreadEnds \/ ThreadFails \/ UNCHANGED vars
             \/ \E c \in Clients : \/ Accept(c) \/ Reconnect(c) \/ OnMessage(c) \/ Open(c)
                                   \/ Leave(c) \/ WriteReply(c) \/ \E r \in Requests : Ask(c, r)
             \/ \E i \in 1 .. INSTANCES : LoseReply(i)
      PROVE  UNCHANGED <<windowVars, object, srv_handler, m_thread, m_evStop, timedOut, inHeap>>
  BY <1>6
  DEF CreateInstance, Unregister, Terminate, ShowUrl, Clear, SendToDummy, CallNull, SendReply,
      ThreadEnds, ThreadFails, Accept, Reconnect, OnMessage, Open, Leave, Ask, WriteReply,
      LoseReply
<1> QED
  BY <1>1, <1>2, <1>3, <1>4, <1>5, <1>6 DEF Next, InCall, Window, Worker, Environment

\* Every variable but those of the list keeps its type.
LEMMA TypesStep == HInv /\ [Next]_vars => HostTypes' /\ ThreadTypes' /\ ClientTypes'
<1> SUFFICES ASSUME HInv, [Next]_vars PROVE HostTypes' /\ ThreadTypes' /\ ClientTypes'
  OBVIOUS
<1> USE InstancesAssumption
<1>0. HostTypes /\ ThreadTypes /\ ClientTypes /\ OneRequest /\ OneClientEach
  BY DEF HInv
<1>1. WindowFlags' /\ ObjectFlags'
  BY <1>0, FlagsStep DEF HostTypes
<1> DEFINE Kept ==
      /\ created \in 0 .. INSTANCES => created' \in 0 .. INSTANCES
      /\ hpc' = hpc \/ hpc' \in {"idle", "construct", "run", "resume", "stop", "join", "kill",
                                 "delete", "free", "closed"}
<1>2. SUFFICES Kept /\ ThreadTypes' /\ ClientTypes'
  BY <1>0, <1>1, <1>2 DEF HostTypes
<1>3. ASSUME NEW callback \in BOOLEAN, Register(callback)
      PROVE  Kept /\ ThreadTypes' /\ ClientTypes'
  <2>1. Kept
    BY <1>3 DEF Register
  <2>2. ThreadTypes'
    BY <1>0, <1>3 DEF Register, ThreadTypes
  <2>3. ClientTypes'
    BY <1>0, <1>3 DEF Register, ClientTypes
  <2> QED BY <2>1, <2>2, <2>3
<1>4. ASSUME CreateInstance PROVE Kept /\ ThreadTypes' /\ ClientTypes'
  <2>1. created' \in 0 .. INSTANCES
    <3>1. created \in Nat /\ Cardinality(Lingering) \in Nat
      <4>1. IsFiniteSet(Lingering)
        BY ClientsAssumption, FS_Subset DEF Lingering
      <4> QED BY <1>0, <4>1, FS_CardinalityType DEF HostTypes
    <3> QED BY <1>4, <3>1 DEF CreateInstance
  <2>2. hpc' = hpc \/ hpc' = "run"
    BY <1>4 DEF CreateInstance
  <2> QED BY <1>0, <1>4, <2>1, <2>2 DEF CreateInstance, ThreadTypes, ClientTypes
<1>5. ASSUME Destroy PROVE ClientTypes' /\ created' = 0
  BY <1>0, <1>5 DEF Destroy, NothingAsked, ClientTypes
<1>6. ASSUME ConstructFails \/ BeginThreadFails \/ ResumeThreadFails \/ Delete
      PROVE Kept /\ ThreadTypes' /\ ClientTypes'
  <2>1. ClientTypes' /\ created' = 0
    BY <1>5, <1>6 DEF ConstructFails, BeginThreadFails, ResumeThreadFails, Delete
  <2>2. hpc' \in {"idle", "free"} /\ UNCHANGED threadVars
    BY <1>6 DEF ConstructFails, BeginThreadFails, ResumeThreadFails, Delete, Registered
  <2> QED BY <1>0, <2>1, <2>2 DEF ThreadTypes
<1>7. ASSUME BeginThread \/ ResumeThread \/ Unregister \/ Close \/ Stop \/ Joined
               \/ JoinTimesOut \/ Terminate \/ Free
      PROVE Kept /\ ThreadTypes' /\ ClientTypes'
  <2> USE DEF BeginThread, ResumeThread, Registered, Unregister, FirstOfUnregister, Close,
              Stop, Joined, JoinTimesOut, Terminate, Terminated, Free
  <2>1. Kept
    BY <1>7
  <2>2. ThreadTypes' /\ ClientTypes'
    BY <1>0, <1>7 DEF ThreadTypes, ClientTypes
  <2> QED BY <2>1, <2>2
<1>8. ASSUME CheckReply \/ ShowUrl \/ Clear \/ EnterHeap \/ LeaveHeap \/ SendToDummy
               \/ CallNull \/ ThreadFails \/ UNCHANGED vars
      PROVE Kept /\ ThreadTypes' /\ ClientTypes'
  <2> USE DEF CheckReply, ShowUrl, Clear, EnterHeap, LeaveHeap, SendToDummy, CallNull,
              ThreadFails
  <2>1. Kept
    BY <1>8
  <2>2. ThreadTypes'
    BY <1>0, <1>8 DEF ThreadTypes
  <2>3. ClientTypes'
    BY <1>0, <1>8 DEF ClientTypes
  <2> QED BY <2>1, <2>2, <2>3
<1>9. ASSUME NEW c \in Clients,
             Accept(c) \/ OnMessage(c) \/ Open(c) \/ Leave(c) \/ \E r \in Requests : Ask(c, r)
      PROVE Kept /\ ThreadTypes' /\ ClientTypes'
  <2> USE DEF Accept, OnMessage, Open, Leave, Ask
  <2>1. Kept /\ queue' = queue
    BY <1>9
  <2>2. ThreadTypes'
    BY <1>0, <1>9 DEF ThreadTypes
  <2>3. at' \in [Clients -> 0 .. INSTANCES]
    BY <1>0, <1>9 DEF ClientTypes, HostTypes
  <2>4. answer' \in [Clients -> Seq(Answers)]
    <3>1. <<>> \in Seq(Answers)
      OBVIOUS
    <3> QED BY <1>0, <1>9, <3>1 DEF ClientTypes
  <2>5. /\ client' \in [Clients -> {"away", "connecting", "connected", "left", "lingering"}]
        /\ rply' = rply
    BY <1>0, <1>9 DEF ClientTypes
  <2>6. /\ asked' \in [Clients -> Requests \cup {NoRequest}]
        /\ taken' \in [Clients -> Requests \cup {NoRequest}]
    <3>1. CASE OnMessage(c)
      BY <1>0, <3>1 DEF ClientTypes
    <3>2. CASE \E r \in Requests : Ask(c, r)
      BY <1>0, <3>2 DEF ClientTypes
    <3>3. CASE Accept(c) \/ Open(c) \/ Leave(c)
      BY <1>0, <3>3 DEF ClientTypes
    <3> QED BY <1>9, <3>1, <3>2, <3>3
  <2>7. ClientTypes'
    BY <1>0, <2>1, <2>3, <2>4, <2>5, <2>6 DEF ClientTypes
  <2> QED BY <2>1, <2>2, <2>7
<1>10. ASSUME ThreadEnds PROVE Kept /\ ThreadTypes' /\ ClientTypes'
  BY <1>0, <1>10 DEF ThreadEnds, ThreadTypes, ClientTypes
<1>11. ASSUME SendReply PROVE Kept /\ ThreadTypes' /\ ClientTypes'
  <2> DEFINE reply == Reply(taken[serves], rply[serves])
             x == [asker |-> "this", reply |-> reply[1]]
  <2>1. /\ serves \in Clients /\ taken[serves] \in Requests /\ Calls(taken[serves])
        /\ at[serves] \in 1 .. INSTANCES
        /\ rply[serves] \in {SM_SRV_RPLY_OK, SM_SRV_RPLY_NOREPLY}
    BY <1>0, <1>11 DEF SendReply, OneRequest, OneClientEach, OnObject, ClientTypes
  <2>2. reply # <<>> => x \in Answers
    <3> SUFFICES ASSUME reply # <<>> PROVE x \in Answers
      OBVIOUS
    <3>1. rply[serves] = SM_SRV_RPLY_OK
      BY <2>1, CallsHaveText
    <3>2. x = [asker |-> "this", reply |-> Reply(taken[serves], SM_SRV_RPLY_OK)[1]]
      BY <3>1
    <3> QED BY <2>1, <3>2 DEF Answers
  <2> HIDE DEF reply, x
  <2>3. queue' = IF reply = <<>> THEN queue
                 ELSE [queue EXCEPT ![at[serves]] = Append(queue[at[serves]], x)]
    BY <1>11 DEF SendReply, reply, x
  <2>4. queue' \in [1 .. INSTANCES -> Seq(Answers)]
    <3>1. reply # <<>> => Append(queue[at[serves]], x) \in Seq(Answers)
      <4>1. queue[at[serves]] \in Seq(Answers)
        BY <1>0, <2>1 DEF ClientTypes
      <4> QED BY <2>2, <4>1
    <3> QED BY <1>0, <2>1, <2>3, <3>1, QueueChanged DEF ClientTypes
  <2>5. ClientTypes'
    BY <1>0, <1>11, <2>4 DEF SendReply, ClientTypes
  <2> QED BY <1>0, <1>11, <2>5 DEF SendReply, ThreadTypes
<1>12. ASSUME NEW c \in Clients, Reconnect(c) PROVE Kept /\ ThreadTypes' /\ ClientTypes'
  <2>1. at[c] \in 1 .. INSTANCES
    BY <1>0, <1>12 DEF Reconnect, OneClientEach, OnObject
  <2> DEFINE q == Earlier(queue[at[c]])
  <2>2. q \in Seq(Answers)
    <3>1. queue[at[c]] \in Seq(Answers)
      BY <1>0, <2>1 DEF ClientTypes
    <3> QED BY <3>1, EarlierReplies
  <2>3. queue' = [queue EXCEPT ![at[c]] = q]
    BY <1>12 DEF Reconnect
  <2> HIDE DEF q
  <2>4. queue' \in [1 .. INSTANCES -> Seq(Answers)]
    BY <1>0, <2>1, <2>2, <2>3, QueueChanged
  <2>5. at' \in [Clients -> 0 .. INSTANCES]
    BY <1>0, <1>12 DEF Reconnect, ClientTypes
  <2>6. ClientTypes'
    BY <1>0, <1>12, <2>4, <2>5 DEF Reconnect, ClientTypes
  <2> QED BY <1>0, <1>12, <2>6 DEF Reconnect, ThreadTypes
<1>13. ASSUME NEW c \in Clients, WriteReply(c) PROVE Kept /\ ThreadTypes' /\ ClientTypes'
  <2> DEFINE q == queue[at[c]]
  <2>1. at[c] \in 1 .. INSTANCES
    BY <1>0, <1>13 DEF WriteReply, OneClientEach, OnObject, Present
  <2>2. q \in Seq(Answers) /\ answer[c] \in Seq(Answers) /\ q # <<>>
    BY <1>0, <1>13, <2>1 DEF WriteReply, ClientTypes
  <2>3. queue' = [queue EXCEPT ![at[c]] = Tail(q)]
        /\ answer' = [answer EXCEPT ![c] = Append(answer[c], Head(q))]
    BY <1>13 DEF WriteReply
  <2> HIDE DEF q
  <2>4. Tail(q) \in Seq(Answers) /\ Append(answer[c], Head(q)) \in Seq(Answers)
    BY <2>2, HeadRead
  <2>5. queue' \in [1 .. INSTANCES -> Seq(Answers)]
    BY <1>0, <2>1, <2>3, <2>4, QueueChanged
  <2>6. answer' \in [Clients -> Seq(Answers)]
    BY <1>0, <2>3, <2>4 DEF ClientTypes
  <2>7. ClientTypes'
    BY <1>0, <1>13, <2>5, <2>6 DEF WriteReply, ClientTypes
  <2> QED BY <1>0, <1>13, <2>7 DEF WriteReply, ThreadTypes
<1>14. ASSUME NEW i \in 1 .. INSTANCES, LoseReply(i) PROVE Kept /\ ThreadTypes' /\ ClientTypes'
  <2> DEFINE q == Tail(queue[i])
  <2>1. q \in Seq(Answers)
    <3>1. queue[i] \in Seq(Answers) /\ queue[i] # <<>>
      BY <1>0, <1>14 DEF LoseReply, ClientTypes
    <3> QED BY <3>1
  <2>2. queue' = [queue EXCEPT ![i] = q]
    BY <1>14 DEF LoseReply
  <2> HIDE DEF q
  <2>3. queue' \in [1 .. INSTANCES -> Seq(Answers)]
    BY <1>0, <2>1, <2>2, QueueChanged
  <2>4. ClientTypes'
    BY <1>0, <1>14, <2>3 DEF LoseReply, ClientTypes
  <2> QED BY <1>0, <1>14, <2>4 DEF LoseReply, ThreadTypes
<1> QED
  BY <1>3, <1>4, <1>6, <1>7, <1>8, <1>9, <1>10, <1>11, <1>12, <1>13, <1>14
     DEF Next, InCall, Window, Worker, Environment

-----------------------------------------------------------------------------
(* Where the window's thread may be *)

\* What SMSrvRegister and SMSrvUnRegister rely on in each step, and what the idle
\* window relies on between them.
HostPart ==
    /\ Registering /\ Unregistering
    /\ NoThreadOutlivesItsObject /\ HandleNamesObject

\* A step that is none of the API's; a worker that ends is no trouble.
LEMMA HostPartFrame ==
    ASSUME HostPart, HostTypes, ThreadTypes,
           UNCHANGED <<hpc, handler, srvHandle, connected, object, srv_handler, created,
                       m_thread, timedOut>>,
           Running' => Running,
           thread \in {"none", "suspended"} => thread' = thread
    PROVE  HostPart'
<1>1. Registering'
  BY DEF HostPart, Registering
<1>2. Unregistering'
  BY DEF HostPart, Unregistering
<1>3. NoThreadOutlivesItsObject' /\ HandleNamesObject'
  BY DEF HostPart, NoThreadOutlivesItsObject, HandleNamesObject
<1> QED BY <1>1, <1>2, <1>3 DEF HostPart

LEMMA HostPartStep == HInv /\ [Next]_vars => HostPart'
<1> SUFFICES ASSUME HInv, [Next]_vars PROVE HostPart'
  OBVIOUS
<1>0. HostPart /\ HostTypes /\ ThreadTypes /\ OneRequest /\ WindowFlags /\ ObjectFlags
  BY DEF HInv, HostPart, HostTypes
<1>1. ASSUME NEW callback \in BOOLEAN, Register(callback) PROVE HostPart'
  BY <1>0, <1>1
  DEF Register, HostPart, Registering, Unregistering, NoThreadOutlivesItsObject,
      HandleNamesObject, Running
<1>2. CASE CreateInstance
  BY <1>0, <1>2
  DEF CreateInstance, HostPart, Registering, Unregistering, NoThreadOutlivesItsObject,
      HandleNamesObject, Running
<1>3. CASE ConstructFails \/ BeginThreadFails \/ ResumeThreadFails
  <2>1. /\ hpc' = "idle" /\ ~object' /\ ~srvHandle' /\ connected'
        /\ ~Running'
    BY <1>0, <1>3
    DEF ConstructFails, BeginThreadFails, ResumeThreadFails, Destroy, Registered, HostPart,
        Registering, Running
  <2>2. srvHandle' = object'
    BY <1>3
    DEF ConstructFails, BeginThreadFails, ResumeThreadFails, Destroy, Registered
  <2> QED BY <2>1, <2>2
          DEF HostPart, Registering, Unregistering, NoThreadOutlivesItsObject, HandleNamesObject
<1>4. CASE BeginThread
  BY <1>0, <1>4
  DEF BeginThread, HostPart, Registering, Unregistering, NoThreadOutlivesItsObject,
      HandleNamesObject, Running
<1>5. CASE ResumeThread
  BY <1>0, <1>5
  DEF ResumeThread, Registered, HostPart, Registering, Unregistering,
      NoThreadOutlivesItsObject, HandleNamesObject, Running, WindowFlags, ObjectFlags
<1>6. CASE Unregister \/ Close
  BY <1>0, <1>6
  DEF Unregister, Close, FirstOfUnregister, HostPart, Registering, Unregistering,
      NoThreadOutlivesItsObject, HandleNamesObject, Running, WindowFlags, ObjectFlags
<1>7. CASE Stop \/ JoinTimesOut
  BY <1>0, <1>7
  DEF Stop, JoinTimesOut, HostPart, Registering, Unregistering,
      NoThreadOutlivesItsObject, HandleNamesObject, Running
<1>8. CASE Joined \/ Terminate
  BY <1>0, <1>8
  DEF Joined, Closed, Terminate, Terminated, HostPart, Registering, Unregistering,
      NoThreadOutlivesItsObject, HandleNamesObject, Running, WindowFlags, ObjectFlags
<1>9. CASE Delete
  BY <1>0, <1>9
  DEF Delete, Destroy, HostPart, Registering, Unregistering, NoThreadOutlivesItsObject,
      HandleNamesObject, Running
<1>10. CASE Free
  BY <1>0, <1>10
  DEF Free, Forgotten, HostPart, Registering, Unregistering, NoThreadOutlivesItsObject,
      HandleNamesObject, Running, WindowFlags, ObjectFlags
<1>11. CASE CallNull
  BY <1>0, <1>11
  DEF CallNull, HostPart, Registering, Unregistering, NoThreadOutlivesItsObject,
      HandleNamesObject, Running
<1>12. CASE CheckReply \/ ShowUrl \/ Clear \/ EnterHeap \/ LeaveHeap \/ UNCHANGED vars
  BY <1>0, <1>12, HostPartFrame DEF CheckReply, ShowUrl, Clear, EnterHeap, LeaveHeap, Running
<1>13. CASE SendToDummy \/ SendReply \/ ThreadEnds \/ ThreadFails
  BY <1>0, <1>13, HostPartFrame
  DEF SendToDummy, SendReply, ThreadEnds, ThreadFails, Serving, Running
<1>14. ASSUME NEW c \in Clients,
              Accept(c) \/ Reconnect(c) \/ OnMessage(c) \/ Open(c) \/ Leave(c)
                \/ WriteReply(c) \/ \E r \in Requests : Ask(c, r)
       PROVE HostPart'
  BY <1>0, <1>14, HostPartFrame
  DEF Accept, Reconnect, OnMessage, Open, Leave, WriteReply, Ask, Serving, Running
<1>15. ASSUME NEW i \in 1 .. INSTANCES, LoseReply(i) PROVE HostPart'
  BY <1>0, <1>15, HostPartFrame DEF LoseReply, Running
<1> QED
  BY <1>1, <1>2, <1>3, <1>4, <1>5, <1>6, <1>7, <1>8, <1>9, <1>10, <1>11, <1>12, <1>13, <1>14,
     <1>15
     DEF Next, InCall, Window, Worker, Environment

-----------------------------------------------------------------------------
(* Requests and their answers *)

RequestsPart == OneRequest /\ OneClientEach /\ ComesAnew /\ AnswersAreTheHandlers

\* What a client gets is as it was.
LEMMA AnswersKept ==
    ASSUME AnswersAreTheHandlers, Present' \subseteq Present,
           \A c \in Present' : /\ Replies(c)' = Replies(c)
                               /\ Answered(c)' <=> Answered(c)
                               /\ Answered(c) => taken'[c] = taken[c]
    PROVE  AnswersAreTheHandlers'
<1> SUFFICES ASSUME NEW c \in Present'
             PROVE  IF Answered(c)'
                    THEN /\ Replies(c)' # <<>>
                         /\ Last(Replies(c)') = AnswerTo(taken'[c])
                         /\ AllEarlier(Front(Replies(c)'))
                    ELSE AllEarlier(Replies(c)')
  BY DEF AnswersAreTheHandlers, AllEarlier, AnswerTo
<1>1. IF Answered(c)
      THEN /\ Replies(c) # <<>>
           /\ Last(Replies(c)) = AnswerTo(taken[c])
           /\ AllEarlier(Front(Replies(c)))
      ELSE AllEarlier(Replies(c))
  BY DEF AnswersAreTheHandlers
<1>2. Replies(c)' = Replies(c) /\ (Answered(c)' <=> Answered(c))
  OBVIOUS
<1>3. CASE Answered(c)
  BY <1>1, <1>2, <1>3
<1>4. CASE ~Answered(c)
  BY <1>1, <1>2, <1>4
<1> QED BY <1>3, <1>4

\* A step that touches neither the clients nor what they ask and get, and after
\* which the worker is where it was, or runs no more.
LEMMA RequestsFrame ==
    ASSUME RequestsPart, UNCHANGED <<clientVars, serves, object>>,
           \/ thread' = thread
           \/ thread = "none" /\ thread' = "suspended"
           \/ thread' \in {"ended", "failed", "terminated"}
    PROVE  RequestsPart'
<1>1. OneRequest'
  BY DEF RequestsPart, OneRequest
<1>2. OneClientEach'
  BY DEF RequestsPart, OneClientEach, OnObject, On, AllEarlier
<1>3. ComesAnew'
  BY DEF RequestsPart, ComesAnew, OnObject, Running
<1>4. AnswersAreTheHandlers'
  BY AnswersKept DEF RequestsPart, Present, Replies, Answered
<1> QED BY <1>1, <1>2, <1>3, <1>4 DEF RequestsPart

\* The client of the worker's request is on the object.
LEMMA ServedIsOnObject ==
    HInv /\ thread \in {"handling", "returning"} =>
        /\ serves \in OnObject /\ at[serves] \in 1 .. INSTANCES
        /\ object /\ Running
        /\ \A c \in OnObject : c # serves => at[c] # at[serves]
BY DEF HInv, OneRequest, OneClientEach, OnObject, Running, NoThreadOutlivesItsObject

LEMMA RequestsStep == HInv /\ [Next]_vars => RequestsPart'
<1> SUFFICES ASSUME HInv, [Next]_vars PROVE RequestsPart'
  OBVIOUS
<1>0. /\ RequestsPart /\ HostPart /\ HostTypes /\ ThreadTypes /\ ClientTypes
      /\ OneRequest /\ OneClientEach /\ ComesAnew /\ AnswersAreTheHandlers
  BY DEF HInv, HostPart, RequestsPart
<1>1. ASSUME NEW callback \in BOOLEAN, Register(callback) PROVE RequestsPart'
  <2>1. ~object /\ thread' = "none" /\ serves' = NoClient /\ UNCHANGED clientVars
    BY <1>0, <1>1 DEF Register, HostPart, HandleNamesObject
  <2>2. OnObject = {} /\ OnObject' = {} /\ Present' = {}
    BY <1>0, <2>1 DEF OneClientEach, OnObject, Present
  <2>3. OneRequest'
    BY <1>0, <2>1 DEF OneRequest
  <2>4. OneClientEach'
    BY <1>0, <2>1, <2>2 DEF OneClientEach, On, AllEarlier
  <2>5. ComesAnew'
    BY <1>0, <2>1, <2>2 DEF ComesAnew, Running
  <2>6. AnswersAreTheHandlers'
    BY <2>2 DEF AnswersAreTheHandlers
  <2> QED BY <2>3, <2>4, <2>5, <2>6 DEF RequestsPart
<1>2. CASE ConstructFails \/ BeginThreadFails \/ ResumeThreadFails \/ Delete
  <2>1. Destroy /\ UNCHANGED <<thread, serves>> /\ ~Running'
    BY <1>0, <1>2
    DEF ConstructFails, BeginThreadFails, ResumeThreadFails, Delete, HostPart, Registering,
        Unregistering, Running
  <2>2. OnObject' = {} /\ Present' = {}
    BY <1>0, <2>1 DEF Destroy, ClientTypes, OnObject, Present
  <2>3. OneRequest'
    BY <1>0, <2>1 DEF Destroy, NothingAsked, OneRequest, Running, SM_SRV_RPLY_OK,
                      SM_SRV_RPLY_NOREPLY
  <2>4. OneClientEach'
    BY <2>1, <2>2 DEF Destroy, NothingAsked, OneClientEach, AllEarlier
  <2>5. ComesAnew'
    BY <2>1, <2>2 DEF Destroy, NothingAsked, ComesAnew
  <2>6. AnswersAreTheHandlers'
    BY <2>2 DEF AnswersAreTheHandlers
  <2> QED BY <2>3, <2>4, <2>5, <2>6 DEF RequestsPart
<1>3. CASE CreateInstance \/ Unregister \/ Close \/ Stop \/ Joined \/ JoinTimesOut \/ Free
             \/ CheckReply \/ ShowUrl \/ Clear \/ EnterHeap \/ LeaveHeap \/ UNCHANGED vars
  <2>1. UNCHANGED <<clientVars, serves, object, thread>>
    BY <1>3
    DEF CreateInstance, Unregister, Close, Stop, Joined, JoinTimesOut, Free, CheckReply,
        ShowUrl, Clear, EnterHeap, LeaveHeap
  <2> QED BY <1>0, <2>1, RequestsFrame
<1>4. CASE BeginThread \/ Terminate \/ CallNull \/ ThreadFails
  <2>1. UNCHANGED <<clientVars, serves, object>>
    BY <1>4 DEF BeginThread, Terminate, CallNull, ThreadFails
  <2>2. \/ thread' = thread
        \/ thread = "none" /\ thread' = "suspended"
        \/ thread' \in {"ended", "failed", "terminated"}
    BY <1>0, <1>4
    DEF BeginThread, Terminate, Terminated, CallNull, ThreadFails, HostPart, Registering
  <2> QED BY <1>0, <2>1, <2>2, RequestsFrame
<1>5. CASE ResumeThread
  <2>1. /\ thread = "suspended" /\ thread' = "serving" /\ object
        /\ UNCHANGED <<clientVars, serves, object>>
    BY <1>0, <1>5 DEF ResumeThread, HostPart, Registering
  <2>2. OneRequest'
    BY <1>0, <2>1 DEF OneRequest
  <2>3. OneClientEach'
    BY <1>0, <2>1 DEF OneClientEach, OnObject, On, AllEarlier
  <2>4. ComesAnew'
    BY <1>0, <2>1 DEF ComesAnew, OnObject
  <2>5. AnswersAreTheHandlers'
    BY <1>0, <2>1, AnswersKept DEF Present, Replies, Answered
  <2> QED BY <2>2, <2>3, <2>4, <2>5 DEF RequestsPart
<1>6. CASE ThreadEnds
  <2>1. /\ thread' = "ended"
        /\ UNCHANGED <<at, asked, taken, rply, queue, answer, serves, object>>
        /\ client' = [c \in Clients |-> IF client[c] = "connected" THEN "left" ELSE client[c]]
    BY <1>6 DEF ThreadEnds
  <2>2. OnObject' = OnObject /\ Present' \subseteq Present
    BY <1>0, <2>1 DEF ClientTypes, OnObject, Present
  <2>3. OneRequest'
    BY <1>0, <2>1 DEF OneRequest
  <2>4. OneClientEach'
    BY <1>0, <2>1, <2>2 DEF OneClientEach, On, AllEarlier
  <2>5. ComesAnew'
    BY <1>0, <2>1, <2>2 DEF ComesAnew, Running
  <2>6. AnswersAreTheHandlers'
    BY <1>0, <2>1, <2>2, AnswersKept DEF Replies, Answered
  <2> QED BY <2>3, <2>4, <2>5, <2>6 DEF RequestsPart
<1>7. CASE SendToDummy
  <2>1. /\ thread = "handling" /\ thread' = "returning"
        /\ UNCHANGED <<client, at, asked, taken, queue, answer, serves, object>>
        /\ rply' = [rply EXCEPT ![serves] =
                      IF doReply THEN SM_SRV_RPLY_OK ELSE SM_SRV_RPLY_NOREPLY]
    BY <1>7 DEF SendToDummy
  <2>2. serves \in OnObject /\ \A c \in Clients : c # serves => rply'[c] = rply[c]
    BY <1>0, <2>1, ServedIsOnObject DEF ClientTypes
  <2>3. OnObject' = OnObject /\ Present' = Present
    BY <2>1 DEF OnObject, Present
  <2>4. OneRequest'
    BY <1>0, <2>1, <2>2 DEF OneRequest
  <2>5. OneClientEach'
    BY <1>0, <2>1, <2>3 DEF OneClientEach, On, AllEarlier
  <2>6. ComesAnew'
    BY <1>0, <2>1, <2>2, <2>3 DEF ComesAnew, Running
  <2>7. \A c \in Present' : /\ Replies(c)' = Replies(c)
                            /\ Answered(c)' <=> Answered(c)
                            /\ Answered(c) => taken'[c] = taken[c]
    BY <2>1, <2>2 DEF Present, Replies, Answered
  <2>8. AnswersAreTheHandlers'
    BY <1>0, <2>3, <2>7, AnswersKept
  <2> QED BY <2>4, <2>5, <2>6, <2>8 DEF RequestsPart
<1>8. CASE SendReply
  <2> DEFINE reply == Reply(taken[serves], rply[serves])
             x == [asker |-> "this", reply |-> reply[1]]
             i == at[serves]
  <2>1. /\ thread = "returning" /\ thread' = "serving" /\ serves' = NoClient
        /\ UNCHANGED <<client, at, asked, taken, rply, answer, object>>
        /\ queue' = IF reply = <<>> THEN queue ELSE [queue EXCEPT ![i] = Append(queue[i], x)]
    BY <1>8 DEF SendReply
  <2>2. /\ serves \in OnObject /\ serves \in Clients /\ i \in 1 .. INSTANCES /\ object
        /\ Running /\ \A c \in OnObject : c # serves => at[c] # i
        /\ taken[serves] \in Requests /\ Calls(taken[serves])
        /\ rply[serves] \in {SM_SRV_RPLY_OK, SM_SRV_RPLY_NOREPLY}
    BY <1>0, <2>1, ServedIsOnObject DEF OnObject, OneRequest, ClientTypes
  <2>3. /\ reply = <<>> <=> rply[serves] # SM_SRV_RPLY_OK
        /\ reply # <<>> => x = AnswerTo(taken[serves]) /\ x \in Answers
    <3>1. CASE rply[serves] = SM_SRV_RPLY_OK
      <4>1. /\ reply # <<>>
            /\ reply[1] = [rply |-> SM_SRV_RPLY_OK, cmd |-> taken[serves].cmd[1],
                           val |-> taken[serves].val[1]]
        BY <2>2, <3>1, CallsHaveText
      <4>2. x \in Answers
        BY <2>2, <3>1 DEF Answers
      <4>3. x = AnswerTo(taken[serves])
        BY <4>1 DEF AnswerTo
      <4> HIDE DEF reply, x
      <4> QED BY <3>1, <4>1, <4>2, <4>3
    <3>2. CASE rply[serves] = SM_SRV_RPLY_NOREPLY
      <4>1. reply = <<>> /\ rply[serves] # SM_SRV_RPLY_OK
        BY <2>2, <3>2, CallsHaveText DEF SM_SRV_RPLY_OK, SM_SRV_RPLY_NOREPLY
      <4> HIDE DEF reply, x
      <4> QED BY <4>1
    <3> HIDE DEF reply, x
    <3> QED BY <2>2, <3>1, <3>2
  <2> HIDE DEF reply, x
  <2>4. OnObject' = OnObject /\ Present' = Present /\ \A k : On(k)' = On(k)
    BY <2>1 DEF OnObject, Present, On
  <2>5. queue[i] \in Seq(Answers) /\ answer[serves] \in Seq(Answers)
    BY <1>0, <2>2 DEF ClientTypes
  <2>6. \A k \in 1 .. INSTANCES : k # i => queue'[k] = queue[k]
    BY <1>0, <2>1, <2>2 DEF ClientTypes
  <2>7. OneRequest'
    BY <1>0, <2>1 DEF OneRequest
  <2>8. OneClientEach'
    <3>1. \A k \in 1 .. INSTANCES : On(k) = {} => k # i
      BY <2>2 DEF On
    <3> QED BY <1>0, <2>1, <2>4, <2>6, <3>1 DEF OneClientEach, AllEarlier
  <2>9. ComesAnew'
    BY <1>0, <2>1, <2>2, <2>4 DEF ComesAnew, Running
  <2>10. AnswersAreTheHandlers'
    <3> SUFFICES ASSUME NEW c \in Present'
                 PROVE  IF Answered(c)'
                        THEN /\ Replies(c)' # <<>>
                             /\ Last(Replies(c)') = AnswerTo(taken'[c])
                             /\ AllEarlier(Front(Replies(c)'))
                        ELSE AllEarlier(Replies(c)')
      BY DEF AnswersAreTheHandlers, AllEarlier, AnswerTo
    <3>1. c \in Present /\ c \in OnObject /\ c \in Clients /\ taken' = taken
          /\ (Answered(c)' <=> rply[c] = SM_SRV_RPLY_OK)
      BY <2>1, <2>4, ClientsAssumption DEF Present, OnObject, Answered
    <3>2. CASE c # serves \/ reply = <<>>
      <4>1. Replies(c)' = Replies(c)
        <5>1. at[c] \in 1 .. INSTANCES /\ (c # serves => at[c] # i)
          BY <1>0, <2>2, <3>1 DEF OneClientEach
        <5>2. queue'[at[c]] = queue[at[c]]
          BY <2>1, <2>6, <3>2, <5>1
        <5> QED BY <2>1, <5>2 DEF Replies
      <4>2. Answered(c)' <=> Answered(c)
        BY <2>3, <3>1, <3>2 DEF Answered
      <4>3. IF Answered(c)
            THEN /\ Replies(c) # <<>>
                 /\ Last(Replies(c)) = AnswerTo(taken[c])
                 /\ AllEarlier(Front(Replies(c)))
            ELSE AllEarlier(Replies(c))
        BY <1>0, <3>1 DEF AnswersAreTheHandlers
      <4>4. CASE Answered(c)
        BY <3>1, <4>1, <4>2, <4>3, <4>4
      <4>5. CASE ~Answered(c)
        BY <3>1, <4>1, <4>2, <4>3, <4>5
      <4> QED BY <4>4, <4>5
    <3>3. CASE c = serves /\ reply # <<>>
      <4> DEFINE a == answer[serves]
                 q == queue[i]
                 got == a \o Append(q, x)
      <4>1. Replies(c)' = got
        <5>1. queue'[i] = Append(q, x)
          BY <1>0, <2>1, <2>2, <3>3 DEF ClientTypes
        <5> QED BY <2>1, <3>3, <5>1 DEF Replies
      <4>2. Answered(c)' /\ x = AnswerTo(taken[c]) /\ x \in Answers
        BY <2>3, <3>1, <3>3
      <4>3. AllEarlier(a \o q)
        <5>1. ~Answered(c)
          BY <3>3 DEF Answered
        <5>2. Replies(c) = a \o q
          BY <3>3 DEF Replies
        <5> QED BY <1>0, <3>1, <5>1, <5>2 DEF AnswersAreTheHandlers
      <4>4. got # <<>> /\ Last(got) = x /\ Front(got) = a \o q
        <5>1. a \in Seq(Answers) /\ q \in Seq(Answers) /\ x \in Answers
          BY <2>5, <4>2
        <5> HIDE DEF a, q
        <5>2. EndsWith(a \o Append(q, x), a \o q, x)
          BY <5>1, ReplyAppended
        <5> QED BY <5>2 DEF got, EndsWith
      <4> HIDE DEF got
      <4> QED BY <3>1, <4>1, <4>2, <4>3, <4>4
    <3> QED BY <3>2, <3>3
  <2> QED BY <2>7, <2>8, <2>9, <2>10 DEF RequestsPart
<1>9. ASSUME NEW c \in Clients, Accept(c) PROVE RequestsPart'
  <2>1. /\ client[c] = "connecting" /\ client' = [client EXCEPT ![c] = "connected"]
        /\ UNCHANGED <<thread, at, asked, taken, rply, queue, answer, serves, object>>
    BY <1>9 DEF Accept
  <2>2. OnObject' = OnObject /\ Present' = Present
    BY <1>0, <2>1 DEF ClientTypes, OnObject, Present
  <2>3. OneRequest'
    BY <1>0, <2>1 DEF OneRequest, ClientTypes
  <2>4. OneClientEach'
    BY <1>0, <2>1, <2>2 DEF OneClientEach, On, AllEarlier
  <2>5. ComesAnew'
    BY <1>0, <2>1, <2>2 DEF ComesAnew, ClientTypes, Running
  <2>6. AnswersAreTheHandlers'
    BY <1>0, <2>1, <2>2, AnswersKept DEF Replies, Answered
  <2> QED BY <2>3, <2>4, <2>5, <2>6 DEF RequestsPart
<1>10. ASSUME NEW c \in Clients, Reconnect(c) PROVE RequestsPart'
  <2> DEFINE i == at[c]
             q == Earlier(queue[i])
  <2>1. /\ thread = "serving" /\ client[c] = "left" /\ client' = [client EXCEPT ![c] = "away"]
        /\ at' = [at EXCEPT ![c] = 0] /\ asked' = [asked EXCEPT ![c] = NoRequest]
        /\ taken' = [taken EXCEPT ![c] = NoRequest]
        /\ rply' = [rply EXCEPT ![c] = SM_SRV_RPLY_NOREPLY]
        /\ queue' = [queue EXCEPT ![i] = q]
        /\ UNCHANGED <<thread, answer, serves, object>>
    BY <1>10 DEF Reconnect, Serving
  <2>2. /\ OnObject' = OnObject \ {c} /\ Present' = Present /\ c \in OnObject
        /\ c \notin Present /\ Running /\ serves = NoClient /\ answer[c] = <<>>
    BY <1>0, <2>1 DEF ClientTypes, OnObject, Present, Running, OneRequest, ComesAnew
  <2>3. i \in 1 .. INSTANCES /\ \A d \in OnObject : d # c => at[d] # i
    BY <1>0, <2>2 DEF OneClientEach
  <2>4. q \in Seq(Answers) /\ AllEarlier(q)
    <3>1. queue[i] \in Seq(Answers)
      BY <1>0, <2>3 DEF ClientTypes
    <3> HIDE DEF i
    <3> QED BY <3>1, EarlierReplies
  <2> HIDE DEF q
  <2>5. queue'[i] = q /\ \A k \in 1 .. INSTANCES : k # i => queue'[k] = queue[k]
    BY <1>0, <2>1, <2>3 DEF ClientTypes
  <2>6. \A d \in Clients : d # c =>
          /\ client'[d] = client[d] /\ at'[d] = at[d] /\ asked'[d] = asked[d]
          /\ taken'[d] = taken[d] /\ rply'[d] = rply[d]
    BY <1>0, <2>1 DEF ClientTypes
  <2>7. /\ asked'[c] = NoRequest /\ taken'[c] = NoRequest /\ client'[c] = "away"
        /\ rply'[c] = SM_SRV_RPLY_NOREPLY
    BY <1>0, <2>1 DEF ClientTypes
  <2>8. OneRequest'
    BY <1>0, <2>1, <2>6, <2>7 DEF OneRequest, SM_SRV_RPLY_OK, SM_SRV_RPLY_NOREPLY
  <2>9. OneClientEach'
    <3>1. \A d \in OnObject' : d \in OnObject /\ at'[d] = at[d]
      BY <2>2, <2>6 DEF OnObject
    <3>2. \A k \in 1 .. INSTANCES : On(k)' = {} => AllEarlier(queue'[k])
      <4> SUFFICES ASSUME NEW k \in 1 .. INSTANCES, On(k)' = {} PROVE AllEarlier(queue'[k])
        OBVIOUS
      <4>1. CASE k = i
        BY <2>4, <2>5, <4>1
      <4>2. CASE k # i
        <5>1. On(k) = {}
          BY <2>2, <2>6, <4>2 DEF On, OnObject
        <5> QED BY <1>0, <2>5, <4>2, <5>1 DEF OneClientEach
      <4> QED BY <4>1, <4>2
    <3>3. object'
      BY <1>0, <2>1, <2>2 DEF OneClientEach
    <3>4. OneClientEach' <=>
            /\ ~object' => OnObject' = {}
            /\ \A d \in OnObject' : at'[d] \in 1 .. INSTANCES
            /\ \A d, e \in OnObject' : at'[d] = at'[e] => d = e
            /\ \A k \in 1 .. INSTANCES : On(k)' = {} => AllEarlier(queue'[k])
      BY DEF OneClientEach, AllEarlier
    <3>5. \A d, e \in OnObject' : at'[d] = at'[e] => d = e
      BY <1>0, <3>1 DEF OneClientEach
    <3>6. \A d \in OnObject' : at'[d] \in 1 .. INSTANCES
      BY <1>0, <3>1 DEF OneClientEach
    <3> QED BY <3>2, <3>3, <3>4, <3>5, <3>6
  <2>10. ComesAnew'
    BY <1>0, <2>1, <2>2, <2>6, <2>7 DEF ComesAnew
  <2>11. \A d \in Present' : /\ Replies(d)' = Replies(d)
                             /\ Answered(d)' <=> Answered(d)
                             /\ Answered(d) => taken'[d] = taken[d]
    <3> SUFFICES ASSUME NEW d \in Present
                 PROVE  /\ Replies(d)' = Replies(d)
                        /\ Answered(d)' <=> Answered(d)
                        /\ Answered(d) => taken'[d] = taken[d]
      BY <2>2
    <3>1. d \in OnObject /\ d \in Clients /\ d # c
      BY <2>2 DEF Present, OnObject
    <3>2. at'[d] = at[d] /\ at[d] # i /\ at[d] \in 1 .. INSTANCES
      BY <1>0, <2>3, <2>6, <3>1 DEF OneClientEach
    <3>3. queue'[at[d]] = queue[at[d]]
      BY <2>5, <3>2
    <3>4. Replies(d)' = Replies(d)
      BY <2>1, <3>2, <3>3 DEF Replies
    <3>5. taken'[d] = taken[d] /\ rply'[d] = rply[d] /\ serves' = serves
      BY <2>1, <2>6, <3>1
    <3> QED BY <3>4, <3>5 DEF Answered
  <2>12. AnswersAreTheHandlers'
    BY <1>0, <2>2, <2>11, AnswersKept
  <2> QED BY <2>8, <2>9, <2>10, <2>12 DEF RequestsPart
<1>11. ASSUME NEW c \in Clients, OnMessage(c) PROVE RequestsPart'
  <2>1. /\ thread = "serving" /\ client[c] \in {"connected", "left"} /\ asked[c] # NoRequest
        /\ asked' = [asked EXCEPT ![c] = NoRequest]
        /\ taken' = [taken EXCEPT ![c] = asked[c]]
        /\ \/ Calls(asked[c]) /\ thread' = "handling" /\ serves' = c
           \/ UNCHANGED <<thread, serves>>
        /\ UNCHANGED <<client, at, rply, queue, answer, object>>
    BY <1>11 DEF OnMessage, Serving
  <2>2. /\ taken[c] = NoRequest /\ rply[c] # SM_SRV_RPLY_OK /\ serves = NoClient
        /\ asked'[c] = NoRequest /\ taken'[c] = asked[c]
        /\ \A d \in Clients : d # c => asked'[d] = asked[d] /\ taken'[d] = taken[d]
    BY <1>0, <2>1 DEF OneRequest, ClientTypes
  <2>3. OnObject' = OnObject /\ Present' = Present
    BY <2>1 DEF OnObject, Present
  <2>4. OneRequest'
    BY <1>0, <2>1, <2>2 DEF OneRequest
  <2>5. OneClientEach'
    BY <1>0, <2>1, <2>3 DEF OneClientEach, On, AllEarlier
  <2>6. ComesAnew'
    BY <1>0, <2>1, <2>3 DEF ComesAnew, Running
  <2>7. \A d \in Present' : /\ Replies(d)' = Replies(d)
                            /\ Answered(d)' <=> Answered(d)
                            /\ Answered(d) => taken'[d] = taken[d]
    <3> SUFFICES ASSUME NEW d \in Clients
                 PROVE  /\ Replies(d)' = Replies(d)
                        /\ Answered(d)' <=> Answered(d)
                        /\ Answered(d) => taken'[d] = taken[d]
      BY <2>3 DEF Present
    <3>1. d # NoClient
      BY ClientsAssumption
    <3> QED BY <2>1, <2>2, <3>1 DEF Replies, Answered
  <2>8. AnswersAreTheHandlers'
    BY <1>0, <2>3, <2>7, AnswersKept
  <2> QED BY <2>4, <2>5, <2>6, <2>8 DEF RequestsPart
<1>12. ASSUME NEW c \in Clients, WriteReply(c) PROVE RequestsPart'
  <2> DEFINE i == at[c]
             q == queue[i]
             a == answer[c]
  <2>1. /\ c \in Present /\ thread = "serving" /\ q # <<>>
        /\ answer' = [answer EXCEPT ![c] = Append(a, Head(q))]
        /\ queue' = [queue EXCEPT ![i] = Tail(q)]
        /\ UNCHANGED <<thread, client, at, asked, taken, rply, serves, object>>
    BY <1>12 DEF WriteReply, Serving
  <2>2. /\ c \in OnObject /\ i \in 1 .. INSTANCES /\ Running /\ object
        /\ \A d \in OnObject : d # c => at[d] # i
        /\ client[c] # "left"
    BY <1>0, <2>1 DEF OneClientEach, OnObject, Present, Running, HostPart,
                      NoThreadOutlivesItsObject
  <2>3. q \in Seq(Answers) /\ a \in Seq(Answers)
    BY <1>0, <2>2 DEF ClientTypes
  <2>4. /\ queue'[i] = Tail(q) /\ \A k \in 1 .. INSTANCES : k # i => queue'[k] = queue[k]
        /\ answer'[c] = Append(a, Head(q)) /\ \A d \in Clients : d # c => answer'[d] = answer[d]
    BY <1>0, <2>1, <2>2 DEF ClientTypes
  <2>5. OnObject' = OnObject /\ Present' = Present /\ \A k : On(k)' = On(k)
    BY <2>1 DEF OnObject, Present, On
  <2>6. OneRequest'
    BY <1>0, <2>1 DEF OneRequest
  <2>7. OneClientEach'
    <3>1. \A k \in 1 .. INSTANCES : On(k) = {} => k # i
      BY <2>2 DEF On
    <3> QED BY <1>0, <2>1, <2>4, <2>5, <3>1 DEF OneClientEach, AllEarlier
  <2>8. ComesAnew'
    BY <1>0, <2>1, <2>2, <2>4, <2>5 DEF ComesAnew
  <2>9. \A d \in Present' : /\ Replies(d)' = Replies(d)
                            /\ Answered(d)' <=> Answered(d)
                            /\ Answered(d) => taken'[d] = taken[d]
    <3> SUFFICES ASSUME NEW d \in Present
                 PROVE  /\ Replies(d)' = Replies(d)
                        /\ Answered(d)' <=> Answered(d)
                        /\ Answered(d) => taken'[d] = taken[d]
      BY <2>5
    <3>1. (Answered(d)' <=> Answered(d)) /\ taken'[d] = taken[d]
      BY <2>1 DEF Answered
    <3>2. CASE d = c
      <4>1. Replies(d) = a \o q
        BY <3>2 DEF Replies
      <4>2. Replies(d)' = Append(a, Head(q)) \o Tail(q)
        BY <2>1, <2>4, <3>2 DEF Replies
      <4> HIDE DEF a, q
      <4>3. Append(a, Head(q)) \o Tail(q) = a \o q
        BY <2>1, <2>3, HeadRead
      <4> QED BY <3>1, <4>1, <4>2, <4>3
    <3>3. CASE d # c
      <4>1. d \in OnObject /\ d \in Clients
        BY DEF Present, OnObject
      <4>2. at[d] \in 1 .. INSTANCES /\ at[d] # i
        BY <1>0, <2>2, <3>3, <4>1 DEF OneClientEach
      <4> QED BY <2>1, <2>4, <3>1, <3>3, <4>1, <4>2 DEF Replies
    <3> QED BY <3>2, <3>3
  <2>10. AnswersAreTheHandlers'
    BY <1>0, <2>5, <2>9, AnswersKept
  <2> QED BY <2>6, <2>7, <2>8, <2>10 DEF RequestsPart
<1>13. ASSUME NEW i \in 1 .. INSTANCES, LoseReply(i) PROVE RequestsPart'
  <2> DEFINE q == queue[i]
  <2>1. /\ On(i) \cap Present = {} /\ q # <<>>
        /\ queue' = [queue EXCEPT ![i] = Tail(q)]
        /\ UNCHANGED <<thread, client, at, asked, taken, rply, answer, serves, object>>
    BY <1>13 DEF LoseReply
  <2>2. q \in Seq(Answers)
    BY <1>0 DEF ClientTypes
  <2>3. queue'[i] = Tail(q) /\ \A k \in 1 .. INSTANCES : k # i => queue'[k] = queue[k]
    BY <1>0, <2>1 DEF ClientTypes
  <2>4. OnObject' = OnObject /\ Present' = Present /\ \A k : On(k)' = On(k)
    BY <2>1 DEF OnObject, Present, On
  <2>5. OneRequest'
    BY <1>0, <2>1 DEF OneRequest
  <2>6. OneClientEach'
    <3>1. AllEarlier(q) => AllEarlier(Tail(q))
      <4> HIDE DEF q
      <4> QED BY <2>1, <2>2 DEF AllEarlier
    <3>2. \A k \in 1 .. INSTANCES : On(k) = {} => AllEarlier(queue'[k])
      BY <1>0, <2>3, <3>1 DEF OneClientEach
    <3> QED BY <1>0, <2>1, <2>4, <3>2 DEF OneClientEach, AllEarlier
  <2>7. ComesAnew'
    BY <1>0, <2>1, <2>4 DEF ComesAnew, Running
  <2>8. \A d \in Present' : /\ Replies(d)' = Replies(d)
                            /\ Answered(d)' <=> Answered(d)
                            /\ Answered(d) => taken'[d] = taken[d]
    <3> SUFFICES ASSUME NEW d \in Present
                 PROVE  /\ Replies(d)' = Replies(d)
                        /\ Answered(d)' <=> Answered(d)
                        /\ Answered(d) => taken'[d] = taken[d]
      BY <2>4
    <3>1. d \in OnObject /\ at[d] \in 1 .. INSTANCES
      BY <1>0 DEF Present, OnObject, OneClientEach
    <3>2. at[d] # i
      BY <2>1, <3>1 DEF On
    <3> QED BY <2>1, <2>3, <3>1, <3>2 DEF Replies, Answered
  <2>9. AnswersAreTheHandlers'
    BY <1>0, <2>4, <2>8, AnswersKept
  <2> QED BY <2>5, <2>6, <2>7, <2>9 DEF RequestsPart
<1>14. ASSUME NEW c \in Clients, Open(c) PROVE RequestsPart'
  <2>1. PICK i \in 1 .. created : On(i) = {} /\ at' = [at EXCEPT ![c] = i]
    BY <1>14 DEF Open
  <2>2. /\ object /\ client[c] = "away" /\ client' = [client EXCEPT ![c] = "connecting"]
        /\ UNCHANGED <<thread, asked, taken, rply, queue, answer, serves, object>>
    BY <1>14 DEF Open
  <2>3. /\ OnObject' = OnObject \cup {c} /\ c \notin OnObject /\ Present' = Present \cup {c}
        /\ i \in 1 .. INSTANCES /\ at'[c] = i
        /\ \A d \in Clients : d # c => at'[d] = at[d] /\ client'[d] = client[d]
    <3>1. i \in 1 .. INSTANCES
      BY <1>0, InstancesAssumption DEF HostTypes
    <3>2. at'[c] = i /\ \A d \in Clients : d # c => at'[d] = at[d] /\ client'[d] = client[d]
      BY <1>0, <2>1, <2>2 DEF ClientTypes
    <3>3. client'[c] = "connecting"
      BY <1>0, <2>2 DEF ClientTypes
    <3>4. OnObject' = OnObject \cup {c} /\ c \notin OnObject /\ Present' = Present \cup {c}
      BY <2>2, <3>2, <3>3 DEF OnObject, Present
    <3> QED BY <3>1, <3>2, <3>4
  <2>4. answer[c] = <<>> /\ rply[c] = SM_SRV_RPLY_NOREPLY /\ AllEarlier(queue[i])
    BY <1>0, <2>1, <2>3 DEF ComesAnew, OneClientEach
  <2>5. OneRequest'
    BY <1>0, <2>2, <2>3 DEF OneRequest
  <2>6. OneClientEach'
    <3>1. \A d \in OnObject : at[d] # i /\ at'[d] = at[d]
      BY <2>1, <2>3 DEF On, OnObject
    <3>2. \A k \in 1 .. INSTANCES : On(k)' = {} => AllEarlier(queue'[k])
      <4> SUFFICES ASSUME NEW k \in 1 .. INSTANCES, On(k)' = {} PROVE AllEarlier(queue'[k])
        OBVIOUS
      <4>1. On(k) = {}
        BY <2>3, <3>1 DEF On
      <4> QED BY <1>0, <2>2, <4>1 DEF OneClientEach
    <3>3. \A d \in OnObject' : at'[d] \in 1 .. INSTANCES
      BY <1>0, <2>3, <3>1 DEF OneClientEach
    <3>4. \A d, e \in OnObject' : at'[d] = at'[e] => d = e
      BY <1>0, <2>3, <3>1 DEF OneClientEach
    <3> QED BY <2>2, <3>2, <3>3, <3>4 DEF OneClientEach, AllEarlier
  <2>7. ComesAnew'
    BY <1>0, <2>2, <2>3 DEF ComesAnew, Running
  <2>8. AnswersAreTheHandlers'
    <3> SUFFICES ASSUME NEW d \in Present'
                 PROVE  IF Answered(d)'
                        THEN /\ Replies(d)' # <<>>
                             /\ Last(Replies(d)') = AnswerTo(taken'[d])
                             /\ AllEarlier(Front(Replies(d)'))
                        ELSE AllEarlier(Replies(d)')
      BY DEF AnswersAreTheHandlers, AllEarlier, AnswerTo
    <3>1. CASE d = c
      <4>1. Replies(c)' = answer[c] \o queue[i]
        BY <2>2, <2>3 DEF Replies
      <4>2. Replies(c)' = queue[i]
        <5>1. queue[i] \in Seq(Answers)
          BY <1>0, <2>3 DEF ClientTypes
        <5>2. <<>> \o queue[i] = queue[i]
          BY <5>1
        <5> QED BY <2>4, <4>1, <5>2
      <4>3. ~Answered(c)'
        BY <2>2, <2>4 DEF Answered, SM_SRV_RPLY_OK, SM_SRV_RPLY_NOREPLY
      <4> QED BY <2>4, <3>1, <4>2, <4>3
    <3>2. CASE d # c
      <4>1. d \in Present /\ d \in Clients
        BY <2>3, <3>2 DEF Present
      <4>2. Replies(d)' = Replies(d) /\ (Answered(d)' <=> Answered(d)) /\ taken' = taken
        BY <2>2, <2>3, <3>2, <4>1 DEF Replies, Answered
      <4>3. IF Answered(d)
            THEN /\ Replies(d) # <<>>
                 /\ Last(Replies(d)) = AnswerTo(taken[d])
                 /\ AllEarlier(Front(Replies(d)))
            ELSE AllEarlier(Replies(d))
        BY <1>0, <4>1 DEF AnswersAreTheHandlers
      <4>4. CASE Answered(d)
        BY <4>2, <4>3, <4>4
      <4>5. CASE ~Answered(d)
        BY <4>2, <4>3, <4>5
      <4> QED BY <4>4, <4>5
    <3> QED BY <3>1, <3>2
  <2> QED BY <2>5, <2>6, <2>7, <2>8 DEF RequestsPart
<1>15. ASSUME NEW c \in Clients, NEW r \in Requests, Ask(c, r) PROVE RequestsPart'
  <2>1. /\ asked[c] = NoRequest /\ taken[c] = NoRequest
        /\ asked' = [asked EXCEPT ![c] = r]
        /\ UNCHANGED <<thread, client, at, taken, rply, queue, answer, serves, object>>
    BY <1>15 DEF Ask
  <2>2. OnObject' = OnObject /\ Present' = Present
    BY <2>1 DEF OnObject, Present
  <2>3. OneRequest'
    BY <1>0, <2>1 DEF OneRequest, ClientTypes
  <2>4. OneClientEach'
    BY <1>0, <2>1, <2>2 DEF OneClientEach, On, AllEarlier
  <2>5. ComesAnew'
    BY <1>0, <2>1, <2>2 DEF ComesAnew, Running
  <2>6. AnswersAreTheHandlers'
    BY <1>0, <2>1, <2>2, AnswersKept DEF Replies, Answered
  <2> QED BY <2>3, <2>4, <2>5, <2>6 DEF RequestsPart
<1>16. ASSUME NEW c \in Clients, Leave(c) PROVE RequestsPart'
  <2>1. /\ client[c] \in {"connecting", "connected", "lingering"}
        /\ client' = [client EXCEPT ![c] = IF client[c] = "lingering" THEN "away" ELSE "left"]
        /\ answer' = [answer EXCEPT ![c] = <<>>]
        /\ UNCHANGED <<thread, at, asked, taken, rply, queue, serves, object>>
    BY <1>16 DEF Leave
  <2>2. /\ OnObject' = OnObject /\ Present' = Present \ {c} /\ answer'[c] = <<>>
        /\ \A d \in Clients : d # c => answer'[d] = answer[d] /\ client'[d] = client[d]
        /\ client'[c] \in {"away", "left"} /\ (client[c] # "lingering" => client'[c] = "left")
    <3>1. /\ answer'[c] = <<>> /\ client'[c] \in {"away", "left"}
          /\ client'[c] = IF client[c] = "lingering" THEN "away" ELSE "left"
          /\ \A d \in Clients : d # c => answer'[d] = answer[d] /\ client'[d] = client[d]
      BY <1>0, <2>1 DEF ClientTypes
    <3> QED BY <2>1, <3>1 DEF OnObject, Present
  <2>3. OneRequest'
    BY <1>0, <2>1, <2>2 DEF OneRequest
  <2>4. OneClientEach'
    BY <1>0, <2>1, <2>2 DEF OneClientEach, On, AllEarlier
  <2>5. ComesAnew'
    BY <1>0, <2>1, <2>2 DEF ComesAnew, Running
  <2>6. \A d \in Present' : /\ Replies(d)' = Replies(d)
                            /\ Answered(d)' <=> Answered(d)
                            /\ Answered(d) => taken'[d] = taken[d]
    BY <2>1, <2>2 DEF Present, Replies, Answered
  <2>7. AnswersAreTheHandlers'
    BY <1>0, <2>2, <2>6, AnswersKept
  <2> QED BY <2>3, <2>4, <2>5, <2>7 DEF RequestsPart
<1> QED
  BY <1>1, <1>2, <1>3, <1>4, <1>5, <1>6, <1>7, <1>8, <1>9, <1>10, <1>11, <1>12, <1>13, <1>14,
     <1>15, <1>16
     DEF Next, InCall, Window, Worker, Environment

-----------------------------------------------------------------------------
(* Events that wait *)

LEMMA WaitingIsFinite ==
    IsFiniteSet(Waiting) /\ Cardinality(Waiting) \in 0 .. Cardinality(Clients)
<1>1. Waiting \subseteq Clients
  BY DEF Waiting
<1> QED BY <1>1, ClientsAssumption, FS_Subset, FS_CardinalityType

\* The same of the next state.
LEMMA WaitingStaysFinite ==
    IsFiniteSet(Waiting)' /\ Cardinality(Waiting') \in 0 .. Cardinality(Clients)
<1>1. Waiting' \subseteq Clients
  BY DEF Waiting
<1> QED BY <1>1, ClientsAssumption, FS_Subset, FS_CardinalityType

\* An event more only where a request less waits for it.
LEMMA EventsStep == HInv /\ [Next]_vars => EventsBounded'
<1> SUFFICES ASSUME HInv, [Next]_vars PROVE EventsBounded'
  OBVIOUS
<1> USE HostBoundsAssumption
<1>0. EventsBounded /\ ClientTypes /\ OneRequest
  BY DEF HInv
<1>1. /\ IsFiniteSet(Waiting) /\ Cardinality(Waiting) \in Nat
      /\ IsFiniteSet(Waiting') /\ Cardinality(Waiting') \in Nat
      /\ Cardinality(Clients) \in Nat /\ Cardinality(Waiting') <= Cardinality(Clients)
  BY WaitingIsFinite, WaitingStaysFinite, FS_CardinalityType, ClientsAssumption
<1>2. ASSUME Waiting' \subseteq Waiting, events' \in Nat, events' <= events
      PROVE  EventsBounded'
  <2>1. Cardinality(Waiting') <= Cardinality(Waiting)
    BY <1>1, <1>2, FS_Subset
  <2> QED BY <1>0, <1>1, <1>2, <2>1 DEF EventsBounded
<1>3. ASSUME NEW c \in Clients, NEW r \in Requests, Ask(c, r) PROVE EventsBounded'
  <2>1. events' = events /\ events < MaxEvents /\ events \in Nat
    BY <1>0, <1>3 DEF Ask, EventsBounded
  <2> QED BY <1>1, <2>1 DEF EventsBounded
<1>4. ASSUME SendToDummy PROVE EventsBounded'
  <2>1. serves \in Waiting /\ asked[serves] = NoRequest
    BY <1>0, <1>4 DEF SendToDummy, OneRequest, Waiting
  <2>2. Waiting' \subseteq Waiting \ {serves}
    BY <1>4, <2>1 DEF SendToDummy, Waiting
  <2>3. Cardinality(Waiting') <= Cardinality(Waiting) - 1
    <3>1. IsFiniteSet(Waiting \ {serves})
          /\ Cardinality(Waiting \ {serves}) = Cardinality(Waiting) - 1
      BY <1>1, <2>1, FS_RemoveElement
    <3> QED BY <2>2, <3>1, FS_Subset
  <2>4. events' = events + 1 /\ events \in Nat
    BY <1>0, <1>4 DEF SendToDummy, EventsBounded
  <2> QED BY <1>0, <1>1, <2>3, <2>4 DEF EventsBounded
<1>5. events \in Nat
  BY <1>0 DEF EventsBounded
<1>6. ASSUME ShowUrl PROVE EventsBounded'
  BY <1>2, <1>5, <1>6 DEF ShowUrl, Waiting
<1>7. ASSUME NEW callback \in BOOLEAN, Register(callback) PROVE EventsBounded'
  BY <1>2, <1>5, <1>7 DEF Register, Waiting
<1>8. ASSUME ConstructFails \/ BeginThreadFails \/ ResumeThreadFails \/ Delete
      PROVE  EventsBounded'
  <2>1. NothingAsked /\ UNCHANGED <<events, thread, serves>>
    BY <1>8 DEF ConstructFails, BeginThreadFails, ResumeThreadFails, Delete, Destroy
  <2>2. Waiting' \subseteq Waiting
    BY <2>1 DEF NothingAsked, Waiting
  <2> QED BY <1>2, <1>5, <2>1, <2>2
<1>9. ASSUME \/ CreateInstance \/ BeginThread \/ ResumeThread \/ Unregister \/ Close \/ Stop
             \/ Joined \/ JoinTimesOut \/ Terminate \/ Free \/ CheckReply \/ Clear
             \/ EnterHeap \/ LeaveHeap \/ CallNull \/ SendReply \/ ThreadEnds \/ ThreadFails
             \/ UNCHANGED vars
      PROVE  EventsBounded'
  <2>1. UNCHANGED <<events, asked>> /\ (thread' = "handling" => thread = "handling")
    BY <1>9
    DEF CreateInstance, BeginThread, ResumeThread, Unregister, Close, Stop, Joined,
        JoinTimesOut, Terminate, Terminated, Free, CheckReply, Clear, EnterHeap, LeaveHeap,
        CallNull, SendReply, ThreadEnds, ThreadFails
  <2>2. thread' = "handling" => serves' = serves
    BY <1>9
    DEF CreateInstance, BeginThread, ResumeThread, Unregister, Close, Stop, Joined,
        JoinTimesOut, Terminate, Terminated, Free, CheckReply, Clear, EnterHeap, LeaveHeap,
        CallNull, SendReply, ThreadEnds, ThreadFails
  <2>3. Waiting' \subseteq Waiting
    BY <2>1, <2>2 DEF Waiting
  <2> QED BY <1>2, <1>5, <2>1, <2>3
<1>10. ASSUME NEW c \in Clients,
              \/ Accept(c) \/ Reconnect(c) \/ OnMessage(c) \/ WriteReply(c) \/ Open(c)
              \/ Leave(c)
       PROVE  EventsBounded'
  <2>1. Waiting' \subseteq Waiting
    BY <1>0, <1>10
    DEF Accept, Reconnect, OnMessage, WriteReply, Open, Leave, Serving, ClientTypes, Waiting
  <2>2. events' = events
    BY <1>10 DEF Accept, Reconnect, OnMessage, WriteReply, Open, Leave
  <2> QED BY <1>2, <1>5, <2>1, <2>2
<1>11. ASSUME NEW i \in 1 .. INSTANCES, LoseReply(i) PROVE EventsBounded'
  BY <1>2, <1>5, <1>11 DEF LoseReply, Waiting
<1> QED
  BY <1>3, <1>4, <1>6, <1>7, <1>8, <1>9, <1>10, <1>11
     DEF Next, InCall, Window, Worker, Environment

-----------------------------------------------------------------------------
(* Theorems *)

THEOREM HInductive == HInv /\ [Next]_vars => HInv'
<1> SUFFICES ASSUME HInv, [Next]_vars PROVE HInv'
  OBVIOUS
<1>1. HostTypes' /\ ThreadTypes' /\ ClientTypes'
  BY TypesStep
<1>2. EventsBounded'
  BY EventsStep
<1>3. HostPart' /\ RequestsPart'
  BY HostPartStep, RequestsStep
<1> QED BY <1>1, <1>2, <1>3 DEF HInv, HostPart, RequestsPart

\* Every state of the host satisfies the inductive invariant.
THEOREM HostInvariance == Spec => []HInv
<1> QED BY InitHInv, HInductive, PTL DEF Spec

\* Neither SMSrvUnRegister, nor unregister(), nor closing the window frees the server
\* object or the callback under a worker that runs.
THEOREM WorkerHasItsObject == Spec => []NoThreadOutlivesItsObject
<1>1. HInv => NoThreadOutlivesItsObject
  BY DEF HInv
<1> QED BY <1>1, HostInvariance, PTL

\* Between two calls of the API $srvHandle names the object that exists, if there is
\* one, and a button offers the way on.
THEOREM IdleHandleNamesObject == Spec => []HandleNamesObject
<1>1. HInv => HandleNamesObject
  BY DEF HInv
<1> QED BY <1>1, HostInvariance, PTL

\* A client reads what earlier clients of its instance left in the queue, if they left
\* anything, and then the handler's reply to its own request, whole and once, if the
\* handler gave one: whatever the order of writes, departures and reconnects.
THEOREM ClientsGetTheHandlersAnswers == Spec => []AnswersAreTheHandlers
<1>1. HInv => AnswersAreTheHandlers
  BY DEF HInv
<1> QED BY <1>1, HostInvariance, PTL

\* The assertion of ~worker_thread fails only after a timeout of Stop, or where the new
\* thread was not resumed.
THEOREM DestroyedWithoutItsThread == Spec => AssertionFailsOnlyAfterTimeout
<1>1. HInv /\ [Next]_vars =>
        [object /\ ~object' => m_thread = (timedOut \/ hpc = "resume")]_vars
  <2> SUFFICES ASSUME HInv, [Next]_vars, object, ~object'
               PROVE  m_thread = (timedOut \/ hpc = "resume")
    OBVIOUS
  <2>0. HostPart /\ ObjectFlags
    BY DEF HInv, HostPart, HostTypes
  <2>1. ConstructFails \/ BeginThreadFails \/ ResumeThreadFails \/ Delete
    BY DEF Next, InCall, Window, Worker, Environment, Register, CreateInstance, BeginThread,
           ResumeThread, Registered, Unregister, Close, Stop, Joined, JoinTimesOut, Terminate,
           Free, CheckReply, ShowUrl, Clear, EnterHeap, LeaveHeap, Accept, Reconnect,
           OnMessage, SendToDummy, CallNull, SendReply, WriteReply, LoseReply, ThreadEnds,
           ThreadFails, Open, Ask, Leave
  <2>2. CASE hpc \in {"construct", "run", "resume"}
    BY <2>0, <2>2 DEF HostPart, Registering, ObjectFlags
  <2>3. CASE hpc = "delete"
    BY <2>0, <2>3 DEF HostPart, Unregistering, ObjectFlags
  <2> QED BY <2>1, <2>2, <2>3
          DEF ConstructFails, BeginThreadFails, ResumeThreadFails, Delete
<1> QED BY <1>1, HostInvariance, PTL DEF Spec, AssertionFailsOnlyAfterTimeout

-----------------------------------------------------------------------------
(* What the handler gets, and what the list shows *)

\* Each request a handler is called for is one that a client made, with a text.
LEMMA HandledIsRequest ==
    HInv /\ thread = "handling" =>
        /\ taken[serves] \in Requests /\ Calls(taken[serves])
        /\ taken[serves].val[1] \in Seq(Char)
<1> SUFFICES ASSUME HInv, thread = "handling"
             PROVE  /\ taken[serves] \in Requests /\ Calls(taken[serves])
                    /\ taken[serves].val[1] \in Seq(Char)
  OBVIOUS
<1>1. taken[serves] \in Requests /\ Calls(taken[serves])
  BY DEF HInv, ClientTypes, OneRequest
<1> QED BY <1>1, CallsHaveText, RequestsAssumption DEF Char

LEMMA HandledTextFits == HInv => StringsFit
<1> SUFFICES ASSUME HInv, thread = "handling" PROVE StringsFit
  BY DEF StringsFit
<1> DEFINE r == taken[serves]
           bytes == Utf8(r.val[1])
<1>1. Calls(r) /\ r.val[1] \in Seq(Char)
  BY HandledIsRequest
<1> HIDE DEF r
<1>2. Len(bytes) \in Nat
  BY <1>1, TextsArrive
<1>3. \A n \in 0 .. (Len(bytes) + 2) : n \in Nat
  BY <1>2
<1> QED BY <1>1, <1>3, TextsArrive DEF StringsFit, Filled, r

\* The routines of the API copy the text of every request whole, whatever the
\* buffer it is asked for with, and write past no end.
THEOREM StringsAlwaysFit == Spec => []StringsFit
<1> QED BY HostInvariance, HandledTextFits, PTL

\* The empty text is one that ends nowhere earlier, and so is that of a request.
LEMMA TextsAskedWith ==
    /\ NoText \in AskedTexts /\ UpToNul(NoText) = NoText
    /\ \A r \in Requests : Calls(r) => r.val[1] \in AskedTexts
    /\ \A text \in AskedTexts :
          /\ text \in Texts /\ UpToNul(text) \in Texts
          /\ UpToNul(UpToNul(text)) = UpToNul(text)
<1>1. NoText \in AskedTexts
  BY DEF AskedTexts
<1>2. UpToNul(NoText) = NoText
  <2>1. NoText \in Seq(Char) /\ \A i \in 1 .. Len(NoText) : NoText[i] # 0
    BY DEF NoText
  <2> QED BY <2>1, BeforeNone DEF UpToNul, Has
<1>3. \A r \in Requests : Calls(r) => r.val[1] \in AskedTexts
  BY CallsHaveText DEF AskedTexts
<1>4. AskedTexts \subseteq Seq(Char)
  <2>1. NoText \in Seq(Char)
    BY DEF NoText
  <2>2. \A r \in Requests : r.val # <<>> => r.val[1] \in Seq(Char)
    BY RequestsAssumption DEF Char
  <2> HIDE DEF Char, NoText
  <2> QED BY <2>1, <2>2 DEF AskedTexts
<1>5. ASSUME NEW text \in AskedTexts
      PROVE  /\ text \in Texts /\ UpToNul(text) \in Texts
             /\ UpToNul(UpToNul(text)) = UpToNul(text)
  <2>1. text \in Texts /\ UpToNul(text) \in Texts
    BY DEF Texts
  <2>2. UpToNul(UpToNul(text)) = UpToNul(text)
    BY <1>4, UpToNulTwice
  <2> QED BY <2>1, <2>2
<1> QED BY <1>1, <1>2, <1>3, <1>5

LEMMA InitTexts == Init => TextsInv
BY TextsAskedWith DEF Init, TextsInv, LastUrlIsShown

LEMMA TextsStep == HInv /\ TextsInv /\ [Next]_vars => TextsInv'
<1> SUFFICES ASSUME HInv, TextsInv, [Next]_vars PROVE TextsInv'
  OBVIOUS
<1>0. events \in Nat
  BY DEF HInv, EventsBounded
<1>1. CASE SendToDummy
  <2>1. taken[serves] \in Requests /\ Calls(taken[serves])
    BY <1>1, HandledIsRequest DEF SendToDummy
  <2> DEFINE text == taken[serves].val[1]
  <2>2. HandlerText(UrlStruct(taken[serves])) \in {text, UpToNul(text)}
    BY <1>1, HandledTextFits DEF SendToDummy, StringsFit, HandlerText
  <2>3. text \in AskedTexts
    BY <2>1, TextsAskedWith
  <2>4. dummy' \in {text, UpToNul(text)} /\ lastUrl' = text /\ shown' = shown /\ events' # 0
    BY <1>0, <1>1, <2>2 DEF SendToDummy, Sent
  <2> HIDE DEF text
  <2>5. dummy' \in Texts /\ UpToNul(dummy') = UpToNul(lastUrl')
    BY <2>3, <2>4, TextsAskedWith
  <2> QED BY <2>3, <2>4, <2>5 DEF TextsInv, LastUrlIsShown
<1>2. CASE ShowUrl
  <2>1. shown' = UpToNul(dummy) /\ UNCHANGED <<dummy, lastUrl>>
    BY <1>2 DEF ShowUrl
  <2>2. shown' = UpToNul(lastUrl) /\ shown' \in Texts
    BY <2>1, TextsAskedWith DEF TextsInv
  <2> QED BY <2>1, <2>2 DEF TextsInv, LastUrlIsShown
<1>3. CASE Clear
  BY <1>3, TextsAskedWith DEF Clear, TextsInv, LastUrlIsShown
<1>4. CASE UNCHANGED listVars
  BY <1>4 DEF TextsInv, LastUrlIsShown
<1>5. \/ SendToDummy \/ ShowUrl \/ Clear \/ UNCHANGED listVars
  BY DEF Next, InCall, Window, Worker, Environment, Register, CreateInstance, ConstructFails,
         BeginThread, BeginThreadFails, ResumeThread, ResumeThreadFails, Unregister, Close,
         Stop, Joined, JoinTimesOut, Terminate, Delete, Free, CheckReply, EnterHeap,
         LeaveHeap, Accept, Reconnect, OnMessage, CallNull, SendReply, WriteReply,
         LoseReply, ThreadEnds, ThreadFails, Open, Ask, Leave
<1> QED BY <1>1, <1>2, <1>3, <1>4, <1>5

\* The types, and a bound on the events that wait.
THEOREM HostTypesHold == Spec => []TypeOK
<1>1. HInv /\ TextsInv => TypeOK
  <2> SUFFICES ASSUME HInv, TextsInv PROVE TypeOK
    OBVIOUS
  <2>1. events \in 0 .. (MaxEvents + Cardinality(Clients))
    <3>1. Cardinality(Waiting) \in Nat /\ Cardinality(Clients) \in Nat
      BY WaitingIsFinite, FS_CardinalityType, ClientsAssumption
    <3> QED BY <3>1, HostBoundsAssumption DEF HInv, EventsBounded
  <2>2. {dummy, shown, lastUrl} \subseteq Texts
    BY TextsAskedWith DEF TextsInv
  <2> QED BY <2>1, <2>2 DEF HInv, TypeOK, ListTypes
<1>2. HInv /\ TextsInv /\ [Next]_vars => TextsInv'
  BY TextsStep
<1> QED BY <1>1, <1>2, InitTexts, HostInvariance, PTL DEF Spec

\* Before the thread of an object is resumed, and after delete, there is no object
\* with a thread to wait for; the heap is entered and left by a thread that runs.
LEMMA WayStep == HInv /\ WayInv /\ [Next]_vars => WayInv'
<1> SUFFICES ASSUME HInv, WayInv, [Next]_vars PROVE WayInv'
  OBVIOUS
<1>0. HostPart
  BY DEF HInv, HostPart
<1>1. ASSUME NEW callback \in BOOLEAN, Register(callback) PROVE WayInv'
  <2>1. ~Running
    BY <1>0, <1>1 DEF Register, HostPart, NoThreadOutlivesItsObject, HandleNamesObject
  <2> QED BY <1>1, <2>1 DEF Register, WayInv
<1>2. CASE ConstructFails \/ BeginThreadFails \/ ResumeThreadFails \/ Delete
  <2>1. object' = FALSE /\ UNCHANGED <<thread, inHeap>>
    BY <1>2 DEF ConstructFails, BeginThreadFails, ResumeThreadFails, Delete, Destroy
  <2>2. hpc = "delete" => ~inHeap
    BY <1>2 DEF ConstructFails, BeginThreadFails, ResumeThreadFails, Delete
  <2> QED BY <2>1, <2>2 DEF WayInv, Running
<1>3. CASE BeginThread \/ ResumeThread
  BY <1>0, <1>3 DEF BeginThread, ResumeThread, Registered, HostPart, Registering, WayInv, Running
<1>4. CASE CreateInstance \/ Unregister \/ Close \/ Stop \/ Joined \/ JoinTimesOut \/ Free
  BY <1>0, <1>4
  DEF CreateInstance, Unregister, Close, FirstOfUnregister, Stop, Joined, JoinTimesOut, Free,
      HostPart, Unregistering, WayInv, Running
<1>5. CASE Terminate
  BY <1>5 DEF Terminate, Terminated, WayInv, Running
<1>6. CASE EnterHeap \/ LeaveHeap \/ CheckReply \/ ShowUrl \/ Clear \/ UNCHANGED vars
  BY <1>6 DEF EnterHeap, LeaveHeap, CheckReply, ShowUrl, Clear, WayInv, Running
<1>7. CASE SendToDummy \/ CallNull \/ SendReply \/ ThreadEnds \/ ThreadFails
  BY <1>7
  DEF SendToDummy, CallNull, SendReply, ThreadEnds, ThreadFails, Serving, WayInv, Running
<1>8. ASSUME NEW c \in Clients,
             \/ Accept(c) \/ Reconnect(c) \/ OnMessage(c) \/ WriteReply(c)
             \/ Open(c) \/ Leave(c) \/ \E r \in Requests : Ask(c, r)
      PROVE WayInv'
  BY <1>8
  DEF Accept, Reconnect, OnMessage, WriteReply, Open, Leave, Ask, Serving, WayInv, Running
<1>9. ASSUME NEW i \in 1 .. INSTANCES, LoseReply(i) PROVE WayInv'
  BY <1>9 DEF LoseReply, WayInv, Running
<1> QED
  BY <1>1, <1>2, <1>3, <1>4, <1>5, <1>6, <1>7, <1>8, <1>9
     DEF Next, InCall, Window, Worker, Environment

\* The safety part of UnRegisterReturns: neither the wait of Stop nor delete meets a
\* thread that will let it wait for ever, but one terminated inside the heap.
THEOREM UnRegisterIsNeverStuck == Spec => []UnRegisterHasAWay
<1>1. Init => WayInv
  BY DEF Init, WayInv
<1>2. HInv /\ WayInv => UnRegisterHasAWay
  BY DEF HInv, Unregistering, WayInv, UnRegisterHasAWay, TimesOut, HeapStuck
<1> QED BY <1>1, <1>2, WayStep, HostInvariance, PTL DEF Spec

\* With no event waiting the list shows the last URL handled, as far as an item of it
\* can, unless it was cleared.
THEOREM ListShowsLastUrl == Spec => []LastUrlIsShown
<1>1. TextsInv => LastUrlIsShown
  BY DEF TextsInv
<1>2. HInv /\ TextsInv /\ [Next]_vars => TextsInv'
  BY TextsStep
<1> QED BY <1>1, <1>2, InitTexts, HostInvariance, PTL DEF Spec
=============================================================================
