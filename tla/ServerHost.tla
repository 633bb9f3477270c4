------------------------------ MODULE ServerHost ------------------------------
(***************************************************************************)
(* A program that hosts the server: the AutoIt window of server-mbdd.au3,    *)
(* the API of server-mbdd.cpp it calls (SMSrvRegister, SMSrvUnRegister), the *)
(* thread that worker-thread.hpp starts and stops for it, and the handler    *)
(* that thread calls for a request (MsgProcess, ApiStrings).                 *)
(*                                                                           *)
(* hpc is the thread of the window; it is inside one call of the API, or     *)
(* idle.  The server object is abstracted to its pipe instances, one per     *)
(* client; what a connection does in detail is NamedPipeServer's business.   *)
(* Clients and the Windows user are the environment.                         *)
(***************************************************************************)
EXTENDS Integers, Sequences, FiniteSets, MsgProcess

CONSTANTS
    INSTANCES,      \* pipe instances a server creates
    Clients,        \* processes that open the pipe
    NoClient,       \* the value of serves between requests
    Requests,       \* what clients ask
    USE_WSTR,       \* which string routine the host's handler calls
    MaxEvents,      \* bound: clients ask while fewer events wait ...
    MaxQueued       \* ... and while fewer replies are on their way to them

ASSUME InstancesAssumption == INSTANCES \in Nat \ {0}
ASSUME ClientsAssumption == NoClient \notin Clients /\ IsFiniteSet(Clients)
ASSUME RequestsAssumption ==    \* what they ask with is a text of ApiStrings
    \A r \in Requests : r.val # <<>> => r.val[1] \in Seq(0..4)
ASSUME HostBoundsAssumption ==
    USE_WSTR \in BOOLEAN /\ MaxEvents \in Nat /\ MaxQueued \in Nat

VARIABLES
    hpc,            \* where the window's thread is
    exiting,        \* the window was closed
    handler,        \* $handler: the callback is allocated
    srvHandle,      \* $srvHandle is not NULL
    connected,      \* the buttons as update_buttons_state left them
    doReply,        \* $doReply
    events, dummy,  \* events of $DummyUrlMsg that wait, and its one value
    shown,          \* the URL last added to the list
    object,         \* the svr_instance exists
    srv_handler,    \* its m_srv_handler is not NULL
    created,        \* pipe instances it has created
    m_thread,       \* its m_thread is not NULL
    m_evStop,
    timedOut,       \* history: Stop has given up waiting for its thread
    thread,         \* its worker thread
    inHeap,         \* the thread is inside malloc or free
    serves,         \* whose request is being handled
    client, at,     \* client -> what became of its connection; its instance
    asked, taken, rply,     \* client -> the one request of this connection, in
                            \* the pipe and with the worker; nRes, the
                            \* handler's result for it
    queue, answer,  \* instance -> m_outputBuffers; client -> what it has read
    lastUrl         \* history: the text of the last request handled

objectVars == <<object, srv_handler, created, m_thread, m_evStop, timedOut>>
threadVars == <<thread, inHeap, serves>>
windowVars == <<exiting, handler, srvHandle, connected, doReply>>
listVars == <<events, dummy, shown, lastUrl>>
requestVars == <<asked, taken, rply>>
replyVars == <<queue, answer>>
clientVars == <<client, at, requestVars, replyVars>>
vars == <<hpc, windowVars, listVars, objectVars, threadVars, clientVars>>

NoRequest == <<>>
NoText == <<>>

Init ==
    /\ hpc = "idle" /\ exiting = FALSE
    /\ handler = FALSE /\ srvHandle = FALSE /\ connected = FALSE /\ doReply = TRUE
    /\ events = 0 /\ dummy = NoText /\ shown = NoText /\ lastUrl = NoText
    /\ object = FALSE /\ srv_handler = FALSE /\ created = 0
    /\ m_thread = FALSE /\ m_evStop = FALSE /\ timedOut = FALSE
    /\ thread = "none" /\ inHeap = FALSE /\ serves = NoClient
    /\ client = [c \in Clients |-> "away"] /\ at = [c \in Clients |-> 0]
    /\ asked = [c \in Clients |-> NoRequest]
    /\ taken = [c \in Clients |-> NoRequest]
    /\ rply = [c \in Clients |-> SM_SRV_RPLY_NOREPLY]
    /\ queue = [i \in 1..INSTANCES |-> <<>>]
    /\ answer = [c \in Clients |-> <<>>]

(***************************************************************************)
(* Helpers                                                                  *)
(***************************************************************************)
Running == thread \in {"serving", "handling", "returning"}

\* An instance whose client has not let go outlives the object.
Lingering == {c \in Clients : client[c] = "lingering"}
OnObject == {c \in Clients : client[c] \in {"connecting", "connected", "left"}}

Present == {c \in Clients : client[c] \in {"connecting", "connected"}}
On(i) == {c \in OnObject : at[c] = i}

\* What c has read over this connection and is still to read, in the order in
\* which it gets it.  A reply is tagged with whom it answers, as c sees it: "this"
\* connection, or an "earlier" one of its instance.
Replies(c) == answer[c] \o queue[at[c]]
Earlier(q) == [k \in DOMAIN q |-> [asker |-> "earlier", reply |-> q[k].reply]]

NothingAsked ==
    /\ at' = [c \in Clients |-> 0]
    /\ asked' = [c \in Clients |-> NoRequest]
    /\ taken' = [c \in Clients |-> NoRequest]
    /\ rply' = [c \in Clients |-> SM_SRV_RPLY_NOREPLY]
    /\ queue' = [i \in 1..INSTANCES |-> <<>>]
    /\ answer' = [c \in Clients |-> <<>>]

\* ~svr_instance: closing the server's handles ends every connection, and frees
\* only the instances without a client.
Destroy ==
    /\ object' = FALSE /\ created' = 0
    /\ NothingAsked
    /\ client' = [c \in Clients |->
                    CASE client[c] = "left" -> "away"
                      [] client[c] \in {"connecting", "connected"} -> "lingering"
                      [] OTHER -> client[c]]

\* SMSrvRegister returns to register(); a NULL handle is shown like any other.
Registered(h) ==
    /\ srvHandle' = h /\ connected' = TRUE
    /\ hpc' = "idle"

(***************************************************************************)
(* register() and SMSrvRegister                                              *)
(***************************************************************************)
\* The button.  When DllCallbackRegister fails, a message is shown and NULL is
\* registered all the same.
Register(callback) ==
    /\ hpc = "idle" /\ ~connected /\ ~handler
    /\ handler' = callback
    /\ object' = TRUE /\ srv_handler' = callback /\ created' = 0
    /\ m_thread' = FALSE /\ m_evStop' = FALSE /\ timedOut' = FALSE
    /\ thread' = "none" /\ serves' = NoClient
    /\ hpc' = "construct"
    /\ UNCHANGED <<exiting, srvHandle, connected, doReply, listVars, inHeap,
                   clientVars>>

\* The constructor creates the instances; the system has room for INSTANCES.
CreateInstance ==
    /\ hpc = "construct"
    /\ created + Cardinality(Lingering) < INSTANCES
    /\ created' = created + 1
    /\ hpc' = IF created' = INSTANCES THEN "run" ELSE hpc
    /\ UNCHANGED <<windowVars, listVars, object, srv_handler, m_thread, m_evStop,
                   timedOut, threadVars, clientVars>>

\* AtlThrow in create_named_pipe (ERROR_PIPE_BUSY), or a security policy that
\* cannot be initialised (IsValid).
ConstructFails ==
    /\ hpc = "construct"
    /\ created = 0 \/ created + Cardinality(Lingering) = INSTANCES
    /\ Destroy /\ Registered(FALSE)
    /\ UNCHANGED <<exiting, handler, doReply, listVars, srv_handler, m_thread,
                   m_evStop, timedOut, threadVars>>

BeginThread ==
    /\ hpc = "run"
    /\ thread' = "suspended" /\ m_thread' = TRUE
    /\ hpc' = "resume"
    /\ UNCHANGED <<windowVars, listVars, object, srv_handler, created, m_evStop,
                   timedOut, inHeap, serves, clientVars>>

BeginThreadFails ==
    /\ hpc = "run"
    /\ Destroy /\ Registered(FALSE)
    /\ UNCHANGED <<exiting, handler, doReply, listVars, srv_handler, m_thread,
                   m_evStop, timedOut, threadVars>>

ResumeThread ==
    /\ hpc = "resume"
    /\ thread' = "serving"
    /\ Registered(TRUE)
    /\ UNCHANGED <<exiting, handler, doReply, listVars, objectVars, inHeap,
                   serves, clientVars>>

\* resume_thread throws; SMSrvRegister deletes the object with m_thread set.
ResumeThreadFails ==
    /\ hpc = "resume"
    /\ Destroy /\ Registered(FALSE)
    /\ UNCHANGED <<exiting, handler, doReply, listVars, srv_handler, m_thread,
                   m_evStop, timedOut, threadVars>>

(***************************************************************************)
(* unregister() and SMSrvUnRegister                                          *)
(***************************************************************************)
\* Where unregister() goes first: a NULL handle is S_OK at once.
FirstOfUnregister == IF srvHandle THEN "stop" ELSE "free"

Unregister ==
    /\ hpc = "idle" /\ connected
    /\ handler
    /\ hpc' = FirstOfUnregister
    /\ UNCHANGED <<windowVars, listVars, objectVars, threadVars, clientVars>>

\* Closing the window leaves the loop; unregister() returns at once without a
\* callback.
Close ==
    /\ hpc = "idle"
    /\ exiting' = TRUE
    /\ hpc' = IF handler THEN FirstOfUnregister ELSE "closed"
    /\ UNCHANGED <<handler, srvHandle, connected, doReply, listVars, objectVars,
                   threadVars, clientVars>>

\* worker_thread::Stop sets the event ...
Stop ==
    /\ hpc = "stop"
    /\ m_evStop' = TRUE
    /\ hpc' = "join"
    /\ UNCHANGED <<windowVars, listVars, object, srv_handler, created, m_thread,
                   timedOut, threadVars, clientVars>>

\* ... waits, and closes the handle of a thread that has ended.
Closed_Not == m_thread
Closed == FALSE

Joined ==
    /\ hpc = "join" /\ thread \in {"ended", "failed"}
    /\ m_thread' = Closed
    /\ hpc' = "delete"
    /\ UNCHANGED <<windowVars, listVars, object, srv_handler, created, m_evStop,
                   timedOut, threadVars, clientVars>>

\* WORKER_THREAD_FINISH_TIMEOUT is over, ...
TimesOut_Never == FALSE
TimesOut == Running

JoinTimesOut ==
    /\ hpc = "join" /\ TimesOut
    /\ timedOut' = TRUE
    /\ hpc' = "kill"
    /\ UNCHANGED <<windowVars, listVars, object, srv_handler, created, m_thread,
                   m_evStop, threadVars, clientVars>>

\* ... and the thread dies where it stands, the lock of the heap in its hands
\* perhaps, unless it has just ended; m_thread stays set.
Terminated_Not == thread
Terminated == IF Running THEN "terminated" ELSE thread

Terminate ==
    /\ hpc = "kill"
    /\ thread' = Terminated
    /\ hpc' = "delete"
    /\ UNCHANGED <<windowVars, listVars, objectVars, inHeap, serves,
                   clientVars>>

\* delete pInstance; a heap whose lock nobody will release never lets it end.
Delete ==
    /\ hpc = "delete" /\ ~inHeap
    /\ Destroy
    /\ hpc' = "free"
    /\ UNCHANGED <<windowVars, listVars, srv_handler, m_thread, m_evStop,
                   timedOut, threadVars>>

\* update_buttons_state(False), DllCallbackFree; after Close, DllClose and exit.
Forgotten_Not == srvHandle
Forgotten == FALSE

Free ==
    /\ hpc = "free"
    /\ connected' = FALSE /\ handler' = FALSE /\ srvHandle' = Forgotten
    /\ hpc' = IF exiting THEN "closed" ELSE "idle"
    /\ UNCHANGED <<exiting, doReply, listVars, objectVars, threadVars, clientVars>>

(***************************************************************************)
(* The rest of the window                                                    *)
(***************************************************************************)
CheckReply ==
    /\ hpc = "idle"
    /\ doReply' = ~doReply
    /\ UNCHANGED <<hpc, exiting, handler, srvHandle, connected, listVars,
                   objectVars, threadVars, clientVars>>

\* GUICtrlRead gives the control's value of now, not that of the event; an item
\* of the list ends at a U+0000.
ShowUrl ==
    /\ hpc = "idle" /\ events > 0
    /\ events' = events - 1
    /\ shown' = UpToNul(dummy)
    /\ UNCHANGED <<hpc, windowVars, dummy, lastUrl, objectVars, threadVars,
                   clientVars>>

Clear ==
    /\ hpc = "idle"
    /\ shown' = NoText
    /\ UNCHANGED <<hpc, windowVars, events, dummy, lastUrl, objectVars, threadVars,
                   clientVars>>

(***************************************************************************)
(* The worker thread                                                         *)
(***************************************************************************)
\* Malloc and free, in the middle of anything the thread does.
EnterHeap ==
    /\ Running /\ ~inHeap
    /\ inHeap' = TRUE
    /\ UNCHANGED <<hpc, windowVars, listVars, objectVars, thread, serves,
                   clientVars>>

LeaveHeap ==
    /\ Running /\ inHeap
    /\ inHeap' = FALSE
    /\ UNCHANGED <<hpc, windowVars, listVars, objectVars, thread, serves,
                   clientVars>>

Serving == thread = "serving" /\ ~inHeap

Accept(c) ==
    /\ Serving /\ client[c] = "connecting"
    /\ client' = [client EXCEPT ![c] = "connected"]
    /\ UNCHANGED <<hpc, windowVars, listVars, objectVars, threadVars, at,
                   requestVars, replyVars>>

\* DisconnectAndReconnect: the instance is free for the next client, with the
\* replies that are still in its m_outputBuffers.
Reconnect(c) ==
    /\ Serving /\ client[c] = "left"
    /\ client' = [client EXCEPT ![c] = "away"] /\ at' = [at EXCEPT ![c] = 0]
    /\ asked' = [asked EXCEPT ![c] = NoRequest]
    /\ taken' = [taken EXCEPT ![c] = NoRequest]
    /\ rply' = [rply EXCEPT ![c] = SM_SRV_RPLY_NOREPLY]
    /\ queue' = [queue EXCEPT ![at[c]] = Earlier(@)]
    /\ UNCHANGED <<hpc, windowVars, listVars, objectVars, threadVars, answer>>

\* OnMessage: process_message returns early, or calls the handler.  What a
\* client wrote before it left is still read, or lost with the instance.
OnMessage(c) ==
    /\ Serving /\ client[c] \in {"connected", "left"} /\ asked[c] # NoRequest
    /\ asked' = [asked EXCEPT ![c] = NoRequest]
    /\ taken' = [taken EXCEPT ![c] = asked[c]]
    /\ IF Calls(asked[c])
       THEN thread' = "handling" /\ serves' = c
       ELSE UNCHANGED <<thread, serves>>
    /\ UNCHANGED <<hpc, windowVars, listVars, objectVars, inHeap, client, at, rply,
                   replyVars>>

\* my_primitive_handler: the text, then the value it returns.
HandlerText(s) ==
    IF USE_WSTR THEN get_wide_string(s, s.urlOffset, s.urlSize)
    ELSE get_utf8_string(s, s.urlOffset, s.urlSize)

Sent_IfEmpty(text) == IF events = 0 THEN text ELSE dummy
Sent(text) == text

SendToDummy ==
    /\ thread = "handling" /\ ~inHeap /\ srv_handler
    /\ dummy' = Sent(HandlerText(UrlStruct(taken[serves])))
    /\ events' = events + 1
    /\ lastUrl' = taken[serves].val[1]
    /\ thread' = "returning"
    /\ rply' = [rply EXCEPT ![serves] =
                  IF doReply THEN SM_SRV_RPLY_OK ELSE SM_SRV_RPLY_NOREPLY]
    /\ UNCHANGED <<hpc, windowVars, shown, objectVars, inHeap, serves, client, at,
                   asked, taken, replyVars>>

\* A handler that is NULL ends the process.
CallNull ==
    /\ thread = "handling" /\ ~inHeap /\ ~srv_handler
    /\ thread' = "failed" /\ hpc' = "closed"
    /\ UNCHANGED <<windowVars, listVars, objectVars, inHeap, serves, clientVars>>

\* send_message_to_sender: SendMessage finds the instance by its number, which
\* only this thread changes, and queues the reply there, whoever is left to
\* read it.
SendReply ==
    /\ thread = "returning" /\ ~inHeap
    /\ LET reply == Reply(taken[serves], rply[serves])
       IN  queue' = IF reply = <<>> THEN queue
                    ELSE [queue EXCEPT ![at[serves]] =
                            Append(@, [asker |-> "this", reply |-> reply[1]])]
    /\ thread' = "serving" /\ serves' = NoClient
    /\ UNCHANGED <<hpc, windowVars, listVars, objectVars, inHeap, client, at,
                   requestVars, answer>>

\* sync_or_async_write takes the head of the queue, for whoever is connected
\* now, announced or not.  One whose write stalls counts as queued until it is
\* over.
WriteReply(c) ==
    /\ Serving /\ c \in Present /\ queue[at[c]] # <<>>
    /\ answer' = [answer EXCEPT ![c] = Append(@, Head(queue[at[c]]))]
    /\ queue' = [queue EXCEPT ![at[c]] = Tail(@)]
    /\ UNCHANGED <<hpc, windowVars, listVars, objectVars, threadVars, client, at,
                   requestVars>>

\* With nobody at the other end the write fails, and the head is lost.
LoseReply(i) ==
    /\ Serving /\ On(i) \cap Present = {} /\ queue[i] # <<>>
    /\ queue' = [queue EXCEPT ![i] = Tail(@)]
    /\ UNCHANGED <<hpc, windowVars, listVars, objectVars, threadVars, client, at,
                   requestVars, answer>>

\* m_evStop: disconnect_pipes drops the clients that were announced.
ThreadEnds ==
    /\ Serving /\ m_evStop
    /\ thread' = "ended"
    /\ client' = [c \in Clients |->
                    IF client[c] = "connected" THEN "left" ELSE client[c]]
    /\ UNCHANGED <<hpc, windowVars, listVars, objectVars, inHeap, serves, at,
                   requestVars, replyVars>>

\* An exception that leaves ThreadProc.
ThreadFails ==
    /\ Serving
    /\ thread' = "failed"
    /\ UNCHANGED <<hpc, windowVars, listVars, objectVars, inHeap, serves,
                   clientVars>>

(***************************************************************************)
(* Clients                                                                  *)
(***************************************************************************)
\* CreateFile is given any instance without a client.
Open(c) ==
    /\ object /\ client[c] = "away"
    /\ \E i \in 1..created : On(i) = {} /\ at' = [at EXCEPT ![c] = i]
    /\ client' = [client EXCEPT ![c] = "connecting"]
    /\ UNCHANGED <<hpc, windowVars, listVars, objectVars, threadVars, requestVars,
                   replyVars>>

Ask(c, r) ==
    /\ c \in Present
    /\ asked[c] = NoRequest /\ taken[c] = NoRequest
    /\ events < MaxEvents /\ Len(Replies(c)) < MaxQueued
    /\ asked' = [asked EXCEPT ![c] = r]
    /\ UNCHANGED <<hpc, windowVars, listVars, objectVars, threadVars, client, at,
                   taken, rply, replyVars>>

\* The instance of a client that left is the server's to recycle, if there is one.
Leave(c) ==
    /\ client[c] \in {"connecting", "connected", "lingering"}
    /\ client' = [client EXCEPT ![c] =
                    IF client[c] = "lingering" THEN "away" ELSE "left"]
    /\ answer' = [answer EXCEPT ![c] = <<>>]
    /\ UNCHANGED <<hpc, windowVars, listVars, objectVars, threadVars, at,
                   requestVars, queue>>

(***************************************************************************)
(* The specification                                                        *)
(***************************************************************************)
\* The calls of the API, and of the AutoIt functions around them, run to their
\* end once they are entered.
InCall ==
    \/ CreateInstance \/ ConstructFails
    \/ BeginThread \/ BeginThreadFails
    \/ ResumeThread \/ ResumeThreadFails
    \/ Stop \/ Joined \/ JoinTimesOut \/ Terminate \/ Delete \/ Free

Window ==
    \/ \E callback \in BOOLEAN : Register(callback)
    \/ Unregister \/ Close \/ CheckReply \/ ShowUrl \/ Clear

Worker ==
    \/ EnterHeap \/ LeaveHeap
    \/ \E c \in Clients : Accept(c) \/ Reconnect(c) \/ OnMessage(c)
    \/ SendToDummy \/ CallNull \/ SendReply
    \/ \E c \in Clients : WriteReply(c)
    \/ \E i \in 1..INSTANCES : LoseReply(i)
    \/ ThreadEnds \/ ThreadFails

Environment ==
    \E c \in Clients :
        \/ Open(c) \/ Leave(c)
        \/ \E r \in Requests : Ask(c, r)

Next == InCall \/ Window \/ Worker \/ Environment

\* Only the window's thread is known to go on: a handler may never return.
Spec == Init /\ [][Next]_vars /\ WF_vars(InCall)

(***************************************************************************)
(* Properties                                                                *)
(***************************************************************************)
AskedTexts == {r.val[1] : r \in {q \in Requests : q.val # <<>>}} \cup {NoText}
Texts == AskedTexts \cup {UpToNul(text) : text \in AskedTexts}

\* Replies, whole, as queues hold them.
Answers ==
    {[asker |-> a, reply |-> Reply(r, SM_SRV_RPLY_OK)[1]] :
        a \in {"this", "earlier"}, r \in {q \in Requests : Calls(q)}}

WindowFlags ==
    /\ exiting \in BOOLEAN /\ handler \in BOOLEAN /\ srvHandle \in BOOLEAN
    /\ connected \in BOOLEAN /\ doReply \in BOOLEAN
ObjectFlags ==
    /\ object \in BOOLEAN /\ srv_handler \in BOOLEAN /\ m_thread \in BOOLEAN
    /\ m_evStop \in BOOLEAN /\ timedOut \in BOOLEAN /\ inHeap \in BOOLEAN
HostTypes ==
    /\ WindowFlags /\ ObjectFlags
    /\ hpc \in {"idle", "construct", "run", "resume", "stop", "join", "kill",
               "delete", "free", "closed"}
    /\ created \in 0..INSTANCES
ThreadTypes ==
    /\ thread \in {"none", "suspended", "serving", "handling", "returning",
                  "ended", "failed", "terminated"}
    /\ serves \in Clients \cup {NoClient}
ClientTypes ==
    /\ client \in [Clients -> {"away", "connecting", "connected", "left",
                              "lingering"}]
    /\ at \in [Clients -> 0..INSTANCES]
    /\ asked \in [Clients -> Requests \cup {NoRequest}]
    /\ taken \in [Clients -> Requests \cup {NoRequest}]
    /\ rply \in [Clients -> {SM_SRV_RPLY_OK, SM_SRV_RPLY_NOREPLY}]
    /\ queue \in [1..INSTANCES -> Seq(Answers)]
    /\ answer \in [Clients -> Seq(Answers)]
ListTypes ==
    /\ events \in 0..(MaxEvents + Cardinality(Clients))
    /\ {dummy, shown, lastUrl} \subseteq Texts
\* Type invariant; no more events wait than the clients' requests call for.
TypeOK == HostTypes /\ ThreadTypes /\ ClientTypes /\ ListTypes

\* A worker thread that runs uses a server object that exists and, but where
\* DllCallbackRegister failed, a callback that is still allocated: neither is
\* freed under it by SMSrvUnRegister, by unregister() or by closing the window
\* (server-mbdd.cpp:144, server-mbdd.au3:171, worker-thread.hpp:53).
NoThreadOutlivesItsObject ==
    Running => object /\ (srv_handler => handler /\ hpc # "closed")

\* Whenever the window is idle, $srvHandle names the server object that exists
\* and is NULL when there is none, on every path by which SMSrvRegister fails
\* and SMSrvUnRegister ends; a button offers the way on (server-mbdd.cpp:101,
\* server-mbdd.au3:152).
HandleNamesObject ==
    hpc = "idle" =>
        /\ srvHandle = object
        /\ object => connected /\ created = INSTANCES /\ m_thread
        /\ handler => connected

\* The object is destroyed without its assertion (worker-thread.hpp:35) failing
\* but where Stop gave up waiting for the thread, or the new thread could not be
\* resumed (server-mbdd.cpp:101, 144).
AssertionFailsOnlyAfterTimeout ==
    [][object /\ ~object' => m_thread = (timedOut \/ hpc = "resume")]_vars

\* The handler's result for the request of c has been passed on; what it is.
Answered(c) == rply[c] = SM_SRV_RPLY_OK /\ serves # c
AnswerTo(request) ==
    [asker |-> "this",
     reply |-> [rply |-> SM_SRV_RPLY_OK, cmd |-> request.cmd[1],
                val |-> request.val[1]]]
AllEarlier(q) == \A k \in 1..Len(q) : q[k].asker = "earlier"

\* The replies a client reads come whole and in order: those left over by earlier
\* clients of its instance, if any, then exactly one to its own request, with the
\* command and the value of that request, if the handler was called for it and
\* returned SM_SRV_RPLY_OK, and none if process_message passed the request over or
\* the handler returned SM_SRV_RPLY_NOREPLY.  Nothing of this depends on when the
\* worker writes, or on who left meanwhile (msg-process.hpp:89, 132, 169,
\* named-pipe-server.hpp:267, 332, 594).
AnswersAreTheHandlers ==
    \A c \in Present :
        IF Answered(c)
        THEN /\ Replies(c) # <<>>
             /\ Last(Replies(c)) = AnswerTo(taken[c])
             /\ AllEarlier(Front(Replies(c)))
        ELSE AllEarlier(Replies(c))

\* With no event waiting, the list shows the last URL handled, whole, unless it
\* has been cleared; of several URLs that arrive together the earlier ones are
\* lost (server-mbdd.au3:118, 202).
LastUrlIsShown ==
    events = 0 => shown \in {NoText, UpToNul(lastUrl)}

\* For the struct a handler is given, and a buffer of any size: SMSrvGetString
\* copies what fits and terminates it where there is room; SMSrvGetWideString
\* with a buffer one longer than the length its query returns holds the whole
\* string, and leaves a smaller one alone (QueriedLengthSuffices says what is
\* promised of that length); no call writes past its buffer.  The script's own
\* two readers, which rely on this, get the text whole, or up to its first U+0000
\* from an array of wchar (str-encode.cpp:43, 85; msg-process.hpp:112,
\* server-mbdd.au3:67, 99).
StringsFit ==
    thread = "handling" =>
        LET text == taken[serves].val[1]
            s == UrlStruct(taken[serves])
            bytes == Utf8(text)
            units == Utf16(text)
            Filled(cells, n) ==
                [i \in 1..n |-> IF i <= Len(cells) THEN cells[i] ELSE Junk]
        IN  /\ SMSrvGetWideString(s, s.urlOffset, s.urlSize, NoBuffer).ret
                    = Len(units)
            /\ \A n \in 0..(Len(bytes) + 2) :
                /\ SMSrvGetString(s, s.urlOffset, s.urlSize, Buffer(n))
                     = Result(IF n < Len(bytes) THEN n ELSE Len(bytes),
                              [null |-> FALSE, cells |-> Filled(bytes \o <<NUL>>, n)])
                /\ SMSrvGetWideString(s, s.urlOffset, s.urlSize, Buffer(n))
                     = IF n > Len(units)
                       THEN Result(Len(units),
                              [null |-> FALSE, cells |-> Filled(units \o <<NUL>>, n)])
                       ELSE Result(-2, Buffer(n))
            /\ get_wide_string(s, s.urlOffset, s.urlSize) = UpToNul(text)
            /\ get_utf8_string(s, s.urlOffset, s.urlSize) = text

\* sm-srv.h:112: "In order to query required buffer length specify `wStr=NULL`
\* and `nWStrLen=0`."  A buffer of the length the query returns is then one
\* SMSrvGetWideString fills; it is one short, and the call fails with -2
\* (str-encode.cpp:28, 31).
QueriedLengthSuffices ==
    thread = "handling" /\ srv_handler =>
        LET s == UrlStruct(taken[serves])
            required == SMSrvGetWideString(s, s.urlOffset, s.urlSize, NoBuffer).ret
        IN  SMSrvGetWideString(s, s.urlOffset, s.urlSize, Buffer(required)).ret
                = required

\* A thread terminated inside the heap leaves its lock taken (the exception of
\* UnRegisterReturns).
HeapStuck == inHeap /\ thread = "terminated"

\* SMSrvUnRegister returns to the window whatever the handler and the clients
\* do, but where the thread it terminates held the heap's lock
\* (worker-thread.hpp:58, server-mbdd.cpp:155).
UnRegisterReturns == hpc = "stop" ~> hpc \in {"idle", "closed"} \/ HeapStuck

-----------------------------------------------------------------------------
(***************************************************************************)
(* The inductive invariant: what the thread of the window, inside a call of  *)
(* the API or between two, may rely on, and what the worker may.             *)
(***************************************************************************)
\* How far SMSrvRegister has come.
Registering ==
    /\ hpc \in {"construct", "run"} => thread = "none" /\ ~m_thread
    /\ hpc = "resume" => thread = "suspended" /\ m_thread
    /\ hpc \in {"run", "resume"} => created = INSTANCES
    /\ hpc \in {"construct", "run", "resume"} =>
          object /\ (srv_handler => handler) /\ ~timedOut

\* How far SMSrvUnRegister has come: Stop leaves m_thread set only where it gave
\* up waiting, and the object is there until delete has come to its end.
Unregistering ==
    /\ hpc \in {"stop", "join", "kill", "delete"} => object
    /\ hpc \in {"stop", "join"} => m_thread /\ ~timedOut
    /\ hpc = "kill" => m_thread /\ timedOut
    /\ hpc = "delete" => m_thread = timedOut
    /\ hpc = "idle" /\ object => ~timedOut
    /\ hpc \in {"delete", "free"} => ~Running
    /\ hpc = "free" => ~object

\* A client has one request, in the pipe or with the worker; the worker handles
\* one at a time, and the handler was called for each that it gave a result for.
OneRequest ==
    /\ \A c \in Clients : asked[c] = NoRequest \/ taken[c] = NoRequest
    /\ \A c \in Clients : rply[c] = SM_SRV_RPLY_OK =>
          taken[c] # NoRequest /\ Calls(taken[c])
    /\ thread \in {"none", "suspended", "serving"} => serves = NoClient
    /\ thread \in {"handling", "returning"} =>
          /\ serves \in Clients /\ client[serves] \in {"connected", "left"}
          /\ taken[serves] # NoRequest /\ Calls(taken[serves])

\* An instance of the object has one client, and one without a client has only
\* replies to those it had before.
OneClientEach ==
    /\ ~object => OnObject = {}
    /\ \A c \in OnObject : at[c] \in 1..INSTANCES
    /\ \A c, d \in OnObject : at[c] = at[d] => c = d
    /\ \A i \in 1..INSTANCES : On(i) = {} => AllEarlier(queue[i])

\* Whoever opens the pipe has read nothing of it, and been promised nothing.
ComesAnew ==
    /\ \A c \in Clients \ OnObject :
          answer[c] = <<>> /\ rply[c] = SM_SRV_RPLY_NOREPLY
    /\ \A c \in Clients : thread \in {"none", "suspended"} \/ ~object =>
          answer[c] = <<>>
    /\ \A c \in Clients : Running /\ client[c] = "left" => answer[c] = <<>>

\* Each event is of a request that was made while few events waited.
Waiting ==
    {c \in Clients : asked[c] # NoRequest \/ (thread = "handling" /\ serves = c)}
EventsBounded ==
    events \in Nat /\ events + Cardinality(Waiting) <= MaxEvents + Cardinality(Clients)

\* What holds of the host whatever its handlers make of the texts.
HInv ==
    /\ HostTypes /\ ThreadTypes /\ ClientTypes /\ EventsBounded
    /\ Registering /\ Unregistering
    /\ OneRequest /\ OneClientEach /\ ComesAnew
    /\ NoThreadOutlivesItsObject /\ HandleNamesObject /\ AnswersAreTheHandlers

\* What holds of the list, given StringsFit: the control has the text of the
\* last request, to its end or to its first U+0000.
TextsInv ==
    /\ lastUrl \in AskedTexts
    /\ dummy \in Texts /\ shown \in Texts
    /\ UpToNul(dummy) = UpToNul(lastUrl)
    /\ LastUrlIsShown

\* What UnRegisterReturns needs of every state: the thread Stop waits for is one
\* that has ended, or one its timeout is for (worker-thread.hpp:58), and delete
\* finds the heap free but for the lock of a thread that was terminated.
UnRegisterHasAWay ==
    /\ hpc = "join" => thread \in {"ended", "failed"} \/ TimesOut
    /\ hpc = "delete" /\ inHeap => HeapStuck

\* Why: the thread of an object that is registered was resumed, and whoever is
\* inside the heap runs, or died there and nothing comes after.
WayInv ==
    /\ object /\ hpc \in {"idle", "stop", "join"} =>
          Running \/ thread \in {"ended", "failed"}
    /\ inHeap => Running \/ (thread = "terminated" /\ hpc = "delete")
=============================================================================
