# Verification of sm-pipes

sm-pipes connects a browser to SuperMemo. A browser extension talks to a native
messaging host (`native-msg-proxy`) over its standard streams; the host is a
client of a Windows named pipe; at the other end of the pipe a DLL inside a
host program (`server-mbdd`, driven by an AutoIt script) serves several clients
and hands their messages to a handler. Everything that can go wrong between two
processes that come and go lives in two templates, `named_pipe_server` and
`named_pipe_client`: each is one worker thread doing overlapped I/O, with
application threads, a stopping thread and a peer around it. The repository has
no tests and no documents beyond the comments in its headers, so the reference
for what follows is the code.

## 1. Inventory

| part | source | state it keeps | operations | what makes it correct |
|---|---|---|---|---|
| server worker | `include/named-pipe-server.hpp` | per instance: number, `m_eState`, `m_fPendingIO`, `m_fPendingWrite`, three events, input chunks, output list under `m_cs` | `ThreadProc` (connect, serve the first signalled handle, disconnect and reconnect, cancel at stop), `SendMessage` | callbacks pair up under one number; no instance goes deaf; no queued message is forgotten; replies in order and to the right client; the thread survives its clients and ends at Stop |
| client worker | `include/named-pipe-client.hpp` | handle, `m_fPendingRead`, `m_fPendingWrite`, three events, input chunks, output list under `m_cs` | `ThreadProc` (open, mode, main loop, reset, pause), `SendMessage` | callbacks alternate; no message crosses a reconnection; last words are heard; Stop always works |
| worker thread | `include/worker-thread.hpp` | `m_thread`, `m_evStop` | `Run`, `Stop` (2 s, then `TerminateThread`), destructor | Run and Stop pair up; the object is not destroyed under a live thread |
| message reader | `include/chunked-buffer.hpp` and the size rules of both `sync_or_async_read` | list of chunks | `AddBuffer`, `GetLastChunk`, `TrimLastChunk`, `GetData`, `Clear` | the bytes of a message, all of them, once, whatever the sizes of reads |
| message processor | `include/msg-process.hpp` | none | `process_message`, `send_message_to_sender` | each request is answered once, with the handler's value, or for a stated reason not |
| API of the DLL | `include/sm-srv.h`, `server-mbdd/server-mbdd.cpp` | the handle (`svr_instance`) | `SMSrvRegister`, `SMSrvUnRegister` | nothing leaks or is used after a failed registration or a timed-out stop |
| string routines | `server-mbdd/str-encode.cpp` | none | `SMSrvGetString`, `SMSrvGetWideString` | lengths and terminators |
| proxy | `native-msg-proxy/native-msg-proxy.cpp` | none beyond the client's | callbacks to stdout, loop on stdin | framing; the extension learns of each connection and disconnection |
| AutoIt host | `server-mbdd/au3/server-mbdd.au3` | `$handler`, `$srvHandle`, buttons, the value of a dummy control | register, unregister, show a URL, the handler | the callback outlives the thread that calls it; the handle names the object; texts arrive whole |
| extension | `extensions/extension/background.js`, `content-script.js` | button, menus, ports of the tabs | handlers of messages and clicks | the button shows the state of the connection; each tab's port is its own |
| registration, console tools, policies, wrappers, build | `native-msg-proxy/registry.cpp`, `client-app`, `server-echo-app`, `security-*.hpp`, `named-pipe.hpp`, ... | - | - | not protocol state; not modelled |

How they interact: the application calls `SendMessage` from any thread (and, in
the server, from inside `OnMessage` on the worker itself); the workers call
`INotify` back; the proxy joins stdin/stdout with the client; `process_message`
joins the server with the handler. Server and client meet only in the pipe. The
window registers a handler and stops the server from one thread while the worker
calls the handler on another; the extension sees the connection only through
frames that arrive later, and its menus only through calls that end later.

What is hard: one `OVERLAPPED` shared by operations of two kinds; manual- and
auto-reset events with a fixed priority; flags that say what was pending, not
what is; `TryEnter` against a critical section; cancellations that race with
completions; exceptions that leave a worker in the middle of a transition;
numbers that change while other threads compare them. `PROJECT.json` lists
these hazards line by line with the properties that watch them.

## 2. Plan

Order of work, most important first.

1. **NamedPipeServer** - done: model, runs, and proofs of all its safety properties,
   those about the history of requests and replies included.
2. **NamedPipeClient** - done: model, runs, and proofs of all its safety properties.
3. **MessageReader** - done: the chunks and sizes behind the whole messages of the two
   workers; model, run and proofs.
4. **ServerHost**, **MsgProcess**, **ApiStrings** - done: the life of a registration,
   and what happens to a request in the handler; model, run and proofs of all its
   safety properties, what the string routines compute for any text included.
5. **NativeMsgProxy**, **Extension**, **BrowserBridge** - done: the way from the
   connection to the button and back; model, runs and proofs of its safety.
6. The refinements as theorems - done: `Spec => CallbacksAreSessions` for the server
   and `Spec => CallbacksAreConnection` for the client. They join the detailed modules
   to the abstractions in the compositions: the host's server is abstracted to
   its instances, the proxy's client to PipeConnection.
7. **ClientServer**, a client against a server through one modelled pipe, was planned
   and is not written (section 10 says what stands in its place).

Modules that are proved about use no RECURSIVE operator.

## 3. The server: `NamedPipeServer.tla`

The state is the code's. A set of instances stands for a Boolean member of each
instance (`m_fPendingIO`, `m_fPendingWrite`), for an event that is signalled
(`evRead`, `evWrite`, `evNewMsg`) or for `m_eState` (`reading`). `wpc` and `cur`
say where the worker is:

| `wpc` | code |
|---|---|
| start | `connect_pipes`, at instance `cur` |
| wait | `WaitForMultipleObjects` (158) |
| read, deliver | `sync_or_async_read`, `message_completed` |
| write | the loop of `sync_or_async_write` |
| disconnect, reconnect | the two halves of `DisconnectAndReconnect`: up to `OnDisconnect`, and from the change of number on |
| cancel, waitAll, finish | `disconnect_pipes` |
| ended, failed | `ThreadProc` has returned, or an exception has left it |

Each action is what happens between two points where another thread or the
peer can interfere: a wait, a system call, a critical section. `SendMessage` of
an application thread is four actions (find the number, take `m_cs`, AddTail,
SetEvent); from inside `OnMessage` it is part of `Deliver`, since nothing else
runs on that thread. Messages are whole, abstract and distinct: a request is
known by its client and its position, a message to a client by the number it was
addressed to and the request it answers.

External, modelled from how the code uses it: the Windows pipe. Issuing an
overlapped operation resets its event; completing it, even synchronously, sets
it. A pipe listens from its creation. A client that closes its end completes
pending operations with ERROR_BROKEN_PIPE, leaves its requests readable, and
makes `CancelIoEx` find nothing. A write to an instance without a client fails
with an error that `ThreadProc` swallows. `OutQuota` messages are taken at once;
more make writes pend, several on one `OVERLAPPED` if the code issues them.

`PipeSessions.tla` is the abstract specification, the promise of `INotify`: under
each number one OnConnect, the messages of one client in order and with none left
out, one OnDisconnect, and never again. `CallbacksAreSessions` checks that the
server implements it (the refinement mapping is the identity on the history
variables `opened`, `closed`, `delivered`).

## 4. The client: `NamedPipeClient.tla`

Same conventions, one pipe. `wpc` adds open, busy, mode (`open_pipe`,
`WaitNamedPipe`, `set_message_mode`), clear (the end of `reset`) and backoff (the pause of
`ThreadProc`); `fOrigin` is the parameter of `reset`, `fStop` says that
`main_loop` is on its way out. The server is external: it sends, receives,
closes its handle (what it has sent stays readable) or calls
`DisconnectNamedPipe` (what it has sent is lost). Two outcomes of `reset` that
the code allows are kept: `Hung`, the INFINITE wait for an event that no
operation will signal, and `ClearRaces`, `RemoveAll` while another thread is
inside `AddTail`. The build without assertions is modelled; the assertions are
checked in a run of their own. `PipeConnection.tla` is the promise of the
client's `INotify`, and `CallbacksAreConnection` the refinement.

## 5. The message reader, the host and the browser

### The message reader: `MessageReader.tla`

It refines what the two worker modules take for granted, that a
read gives a message. It keeps the chunks of `m_inputBuffer` and names every byte
by session, message and place. The peek and the read are separate steps, since
the peer may send or disconnect between them; a pending read is filled when a
message comes and served later. `MessagesArriveWhole` is the fact on which the
whole messages of the other modules rest. The sizes 0, 1, 2, 3, 6, 7 and 12 with a
buffer of two bytes and a limit of seven stand on both sides of each comparison
in the code: empty, less than, exactly and more than a buffer, just below, at
and far above the limit.

### The host: `ServerHost.tla`, `MsgProcess.tla`, `ApiStrings.tla`

`hpc` is the window's thread, `thread` the worker it starts:

| `hpc` | code |
|---|---|
| idle | the loop around `GUIGetMsg`; a button is an action |
| construct | the constructor of `svr_instance`, one pipe instance a step |
| run, resume | the two halves of `worker_thread::Run` |
| stop, join, kill, delete | `SMSrvUnRegister`: `SetEvent`, the wait, `TerminateThread`, `delete` |
| free | the rest of `unregister()` |
| closed | the loop was left and `DllClose` called, or the process has crashed |

`srvHandle` and `m_thread` say whether the pointer and the handle are not NULL.
Two facts of Windows carry the hard cases. A pipe instance lives until its last
handle is closed: a client that keeps its end after the server's object has gone
is `lingering`, and a new registration that finds no instance left throws in
`create_named_pipe`. And a thread that is terminated keeps the locks it holds:
`inHeap` lets it stand inside malloc or free at any time, and `delete` then
never ends (`HeapStuck`, the exception `UnRegisterReturns` names).
`disconnect_pipes` disconnects announced clients only, so a client that opened
the pipe at the last moment lingers even after a clean stop.

Replies do not go straight to their client. `SendReply` puts one into the queue of the
instance (`m_outputBuffers`), under the number that only the worker changes; the write
loop takes it later (`WriteReply`), for whoever is connected to the instance then, or
loses it when nobody is (`LoseReply`), and `Reconnect` leaves the queue to the next
client. So a client may find replies of an earlier one before its own: the finding
of `server_replies`. A reply is tagged with whether it answers this connection of
the instance or an earlier one, and `AnswersAreTheHandlers` says what of a client's replies can
be relied on: behind those of others, exactly one to its own request, whole, if the handler gave
one, and none otherwise. A request without a usable value is thus silent like one with
SM_SRV_RPLY_NOREPLY; that the caller cannot tell them apart is what the code does.

The worker's way through a request is MsgProcess (which requests reach the
handler, the struct, the reply) and ApiStrings (the two routines of the DLL and the
two functions of the script). A text is the sequence of its characters, each given by the
number of its UTF-8 bytes, or 0 for U+0000, which JSON allows; a byte or UTF-16 unit is
the pair of its character and its place in it, so that a
byte left out or a terminator overwritten shows, and a U+0000 inside a text looks like its
terminator to whoever stops at one (`UpToNul`). `StringsFit` compares the
routines with a reference for every buffer size around the text's length; what
`sm-srv.h` says of the length that the query returns is `QueriedLengthSuffices`, and
fails (section 9). A URL
reaches the list through the value of one control, read later by the window: of
two that come together the first is lost, and `LastUrlIsShown` says what is left.
If `DllCallbackRegister` fails, the script goes on to register NULL; the first URL
then ends the process (`CallNull`).

### The browser: `NativePort.tla`, `NativeMsgProxy.tla`, `Extension.tla`, `BrowserBridge.tla`

NativePort holds the two streams between the proxy and the extension and the two
ends of them; both modules extend it, and BrowserBridge joins them. The proxy's
client is an instance of PipeConnection, the specification that NamedPipeClient is
shown to implement: each callback is a step of it together with the frame it
pushes (`OnDisconnect(true)` pushes none). `Client.Run()` may fail, the process may
be ended from outside.

The end of stdin takes the main thread (`ppc`) into `client.Stop()`, where it waits for the
client's thread (stopping) and, when the timeout is over first, terminates it (killing),
then on to the last `Printf`, the destructor of the client and the end of the process (leaving).
The client's thread may stand inside malloc, free or a write to stdout or stderr at any
time (`locked`, `EnterLock`); terminated there it keeps that lock, and the process
never ends (`LockStuck`, as `HeapStuck` in the host). Waiting for a lock that a thread holds which still runs
is not modelled: it lets go. That is true of a write to stdout too, where it matters: once the
browser has closed its end, writes fail and do not block.

In the extension a handler is one step; what it asks of the browser is put into
`calls` and carried out in order, and the completion of `removeAll` comes back
through `removed` and makes further calls. So a "connected" can overtake a
removal: the items are there and the button is disabled until the next
connection. `raced` remembers that, and `MenusTellTruth` shows that this
and an unannounced disconnection are the only ways in which the quiet
extension is wrong. `csPort` is modelled with its indices, and `filter` as what it does to
an array with holes.

## 6. Runs

- **server_sessions** (`MCNamedPipeServer_sessions.cfg`, passes): TypeOK, NumbersNameSessions, NoDeafInstance, DiesOnlyOfStalledWrite, LeaversAreDrained, RepliesInOrder, NoReplyToEarlierClient, CallbacksAreSessions. Two instances, two clients of two requests each that come, leave and stall in any order: numbers, callbacks, drained requests, the order and the addressees of the replies, and the refinement of PipeSessions.
- **server_threads** (`MCNamedPipeServer_threads.cfg`, passes): IInv, NoLostWakeup, StopEndsThread, QueuedIsSent, ConnectIsAnnounced. One instance with an application thread inside SendMessage: the inductive invariant of the proofs, no lost wakeup, and under fairness that Stop ends the thread, queued messages are sent and connections announced.
- **server_replies** (`MCNamedPipeServer_replies.cfg`, finds a violation): RepliesReachTheirCaller. A reply left in m_outputBuffers when its client disconnects is written to the next client of the instance.
- **client_sessions** (`MCNamedPipeClient_sessions.cfg`, passes): TypeOK, NeverDeaf, NoLostWakeup, NoMessageCrossesSessions, BlamesServerRightly, HangsOnlyOnWrite, CallbacksAreConnection, LastWordsAreHeard, StopEndsThread, QueuedIsSent. Three connections, two senders, a server that leaves in both ways at any time: the client stays reachable, no message crosses sessions, reset can hang on a write only, the callbacks implement PipeConnection, and under fairness Stop ends the thread unless reset hangs and a queued message leaves the queue while the connection lasts.
- **client_asserts** (`MCNamedPipeClient_asserts.cfg`, finds a violation): CancelsSucceed. Between the wait that served m_evStop and CancelIoEx a message of the server completes the pending read: there is nothing to cancel and the assertion after CancelIoEx fails.
- **client_lock** (`MCNamedPipeClient_lock.cfg`, finds a violation): ListIsGuarded. reset empties m_outputBuffers while an application thread is inside m_cs.
- **reader_sizes** (`MCMessageReader_sizes.cfg`, passes): TypeOK, MessagesArriveWhole, NothingIsLeft, BufferIsBounded. Messages of every size around the buffer and the limit, arriving before, between and after peek and read, over two sessions: each is delivered once and whole, and the buffer stays below the limit.
- **reader_long** (`MCMessageReader_long.cfg`, finds a violation): LongMessagesAreIgnored. The beginning of a message of the limit's size is dropped, but as soon as less than the limit is left of it the rest is delivered as a message.
- **host** (`MCServerHost.cfg`, passes): TypeOK, NoThreadOutlivesItsObject, HandleNamesObject, AnswersAreTheHandlers, LastUrlIsShown, StringsFit, AssertionFailsOnlyAfterTimeout, UnRegisterReturns. A window that registers and unregisters again and again, an instance that two clients share, come to, ask, linger at and leave, replies that wait on it, texts with U+0000: threads, objects and handles stay together on every failing path, each client reads its own answer after what earlier clients left, texts are right, and SMSrvUnRegister returns.
- **host_query** (`MCServerHost_query.cfg`, finds a violation): QueriedLengthSuffices. SMSrvGetWideString refuses a buffer of the length that its own query returns.
- **button** (`MCBrowserBridge_button.cfg`, passes): TypeOK, MenusTellTruth, PermanentWhenQuiet, PermanentAtLast, ProxyEndsWithBrowser. The extension over the proxy through two connections to the server, with commands of the user, a page, a proxy that may die and a browser that may end: what the button and the menus say when all is quiet, for good after the proxy's end, and the end of the proxy with the browser, through Stop and its timeout.
- **tabs** (`MCBrowserBridge_tabs.cfg`, finds a violation): PageCommandReachesItsTab. Two tabs connect, the page of one is left, and csPort no longer has the port of the other under its identifier.

Bounds. Every bound is a constant: `INSTANCES`, `MaxClients`, `MaxRequests`,
`MaxSessions`, `MaxMessages`, the set `Senders` and `OutQuota`. Two clients on two
instances give every reuse of an instance (a client leaves, the next arrives on
the same or the other one) and two requests every order of completion, delivery
and reply; a quota of one makes the second message in flight stall, a third
write share the `OVERLAPPED`. In `client_sessions` the pipe takes nothing at
once (a quota of zero), so that every write stays pending and with two senders the second
already shares the `OVERLAPPED` of the first. Writes that end at once are left there to the
safety theorems, which hold for any quota and any number of senders. Three client sessions let a flag left over from
one meet a second and a third. Application threads are explored in `server_threads`
with one instance, where they add the most and the product stays small; the
theorems of section 8 do not depend on any of these numbers.

In `host` the number of registrations is not bounded, and clients come back as often as
they like; each asks once in a connection. Two clients share one instance: it is free, taken,
held by a lingering client when the next registration comes, or left with replies when the
next client does. A constructor that fails between two instances does not happen there; the
theorems of section 8 hold for any number of instances. `MaxEvents` and
`MaxQueued` bound the events and the replies on their way while clients may ask: two
events let one URL overwrite another, and two replies let a client find one of an
earlier client before its own. In `button` two connections
let a removal be overtaken and then be followed by another one; one tab and one
command suffice there, since they share only `stdin` with the rest. In `tabs` two tabs
are enough for a port to move.

Deadlock is checked in the runs of the server, the client and the message reader, whose
`Finished` lets the system rest when the worker is gone (or hangs); in the host
and the browser everything may really end (the window is closed, the browser is
gone and the user is done), and the configurations say so.

Symmetry is not used: most runs check liveness, or are small enough without it.

## 7. Fairness

`FairSpec` asks for weak fairness of the worker (a runnable thread runs), of a
thread that is inside SendMessage (it does not die holding `m_cs`), and of the
peer's reads (a client, or the server, that stays connected drains its end).
Nothing is asked of Stop, of connections, of messages or of departures: they may
happen or not. The liveness properties say "unless the peer or the server
leaves" where the code gives no more. `StopEndsThread` rests on peers that fall
silent in the end (the bounds on requests and messages): `m_evStop` has the last
index in both waits, and the read loops return only when there is nothing to
read, so a peer that never pauses may delay Stop without limit. The loop
of `open_pipe` on a busy pipe does not look at `m_evStop` either; the client's
strong fairness of `OpenSucceeds \/ OpenFails` says that its attempts do not lose
every race for a free instance, and without it `StopEndsThread` does not hold.

In ServerHost only the window's thread is fair, and only inside a call (`InCall`):
the handler and the clients may stop for ever, and `UnRegisterReturns` holds
because the wait for the thread has a timeout. In BrowserBridge the
proxy's main thread and the event loop of the browser are fair; the user, the
server, the client's thread and downloads are not. The main thread's fairness includes the
timeout of `Stop`, so that ProxyEndsWithBrowser asks nothing of the client's thread; what it
cannot promise is named in it (`LockStuck`).

## 8. Proofs

Every theorem holds for all constants that satisfy the named assumptions of the
component's module, and for nothing else unless it says so. Each component has an
inductive invariant, written out in the component's module with a comment on each
conjunct; in the module of proofs there is one lemma for each group of conjuncts, with one
step per action that can disturb the group, and the theorems that `PROJECT.json` lists
follow at its end. TLC has confirmed every one of these invariants on the instance of
the component's run before it was proved; the runs check the properties that follow from
them, and `server_threads` the server's `IInv` itself.

**NamedPipeServer** (`NamedPipeServerProofs.tla`: at least one instance, bounds and quota
natural numbers, `NoSender` not a sender). `IInv` gives type correctness,
NumbersNameSessions, NoDeafInstance, NoLostWakeup and DiesOnlyOfStalledWrite. None of
them is inductive alone. `NoDeafInstance` speaks of the
moments when the worker waits; in between, the instance being served has neither
an operation in flight nor a signal, so `AllEngaged` says it of all others at all
times, and `OverlappedReadCoherent` ties `m_fPendingIO`, the last completion of
`m_ovRead`, `m_evRead`, `m_eState` and the pipe's state together, so that each
completion is taken for what it is. `NumbersNameSessions` needs `NumbersGrow`, and
`SessionsMatchStates` (a number is announced exactly while its instance is in
READING state), which also carries `DiesOnlyOfStalledWrite`. `NoLostWakeup` needs
`MessagesAddressed`: a queue holds messages of announced sessions only, so a
new client never has a message waiting without an event.

**The sessions of the server** (`NamedPipeServerSessionProofs.tla`, which builds on `IInv`).
`SInv` says where each request of a client is (in the pipe, in the chunks, delivered) and
where each reply (in the queue, in `m_ovWrite`, in the pipe, received), so that the order
of what a client receives can be compared with the order of what it sent. It gives
LeaversAreDrained, RepliesInOrder and NoReplyToEarlierClient: a reply may be written
to a later client of the instance (section 9), never to an earlier one. `CallbacksImplementSessions` is
the refinement of PipeSessions: each step of the server is a step of PipeSessions under
the mapping of section 3, or a stutter.

**NamedPipeClient** (`NamedPipeClientProofs.tla`: quota and bounds natural numbers, `NoSender`
not a sender). `IInv` again says which flag, event and completion may be
met together: `ReadCoherent` and `Engaged` carry NeverDeaf, `QueueCoherent` carries
NoLostWakeup, `OneConnection` and `MessagesInOrder` carry NoMessageCrossesSessions, and
`BlameIsSettled` and `WriteSettled` say what is known in the middle of `reset`, from
which BlamesServerRightly and HangsOnlyOnWrite follow. The action property
LastWordsAreHeard and the refinement of PipeConnection
(`CallbacksImplementConnection`) follow from the same invariant.

**Induction** (`InductionTheorems.tla`: about no component). The provers cannot instantiate a
theorem whose parameter is an operator, so induction over the natural numbers is stated
of a set here (`SetInduction`: a set that has 0 and the successor of each of its elements has
them all), and proved from the cardinalities of finite sets. From it follows that the recursive
function inside FlattenSeq is defined, and `FlattenAppend`: one sequence more at the end is
concatenated to the rest.

**MessageReader** (`MessageReaderProofs.tla`: `MAX_INPUT_MESSAGE_SIZE` more than twice `BUFSIZE`,
as in the code). `MInv` says which bytes of which message are in the chunks and which
are left in the pipe. Its key is that a buffer never has three chunks: a chunk
is kept only when a read that found the pipe empty ends with more to come, and the next
read takes all that the peek then finds. Hence what GetData returns, recursive over the
chunks, is needed for two chunks only, and MessagesArriveWhole, NothingIsLeft and
BufferIsBounded hold for every size of the buffer, the limit and the messages.

**ServerHost** (`ServerHostProofs.tla`: at least one instance, a finite set of clients, requests
that are texts).
`HInv` ties the window's place in a call (`hpc`) to the worker (`thread`), the object and the
handle, on every failing path of SMSrvRegister and through the timeout of
SMSrvUnRegister, and bounds the waiting events by the clients that can still raise one. Two
conjuncts carry the replies: an instance has one client, and without one only replies to
those before (`OneClientEach`), and whoever opens the pipe has read nothing of it and been
promised nothing (`ComesAnew`); with AnswersAreTheHandlers itself they are inductive.
It gives NoThreadOutlivesItsObject, HandleNamesObject, AnswersAreTheHandlers and
the action property AssertionFailsOnlyAfterTimeout; and, as every request with the handler is
one that a client made, StringsFit, from which the types of the list's texts and
LastUrlIsShown follow. `RequestsAssumption` says that what a client asks with is a text in the
sense of ApiStrings: characters of one to four bytes and U+0000, in any number. The safety part of
UnRegisterReturns is `UnRegisterIsNeverStuck`: with `WayInv`, the wait of Stop and the delete after
it never meet a thread that would let them wait for ever, but one terminated inside the heap.

**ApiStrings and MsgProcess** (`ApiStringsProofs.tla`). By induction over the text, encoding it in UTF-8 or
UTF-16 and decoding it again gives it back (`UnitsDecoded`), and the first terminator a reader
meets in it is its own first U+0000 or, in a text without one, the one behind it. What is left is arithmetic of offsets and lengths: where process_message
puts the bytes in the struct, what each routine copies to a buffer of `n` cells, and where
a terminator ends what the script reads. `TextsArrive` joins them, for every text and every
`n`, and `StringsAlwaysFit` carries it to the host.

**BrowserBridge** (`BrowserBridgeProofs.tla`: finite sets of tabs, natural bounds). `BInv` speaks of
what is on its way between the proxy, the port and the menus: the last news of the connection among
frames and calls is the truth (`TruthIsOnItsWay`), menus removed under an enabled
button will disable it (`HideFollows`), without a race nothing under way can disable the
button again (`NoRace`), the calls of `disconnect_handler` are the last
(`EndIsOnItsWay`), and a lock is lost only to TerminateThread (`ExitHasAWay`). It gives MenusTellTruth, PermanentWhenQuiet, and with it the safety part of
PermanentAtLast: what disconnect_handler has made of the button is never taken back
(`PermanentIsForGood`), and that of ProxyEndsWithBrowser: past `Stop` the main thread meets no
lock but that of a terminated thread (`OnlyTheTerminatedBlockTheExit`). The types need lemmas about `csPort.filter`, which renumbers
the ports: the ports of a finite array take the ranks 0, 1, ... without a hole.

Only model-checked is liveness, since the proof system has no rule for fairness here:
StopEndsThread and QueuedIsSent of both workers, ConnectIsAnnounced, UnRegisterReturns,
PermanentAtLast and ProxyEndsWithBrowser. Every invariant and every action property of the
passing runs is a theorem. For each of these liveness properties a theorem says what it needs of
every single state, and the runs add that the fair steps get there: NoLostWakeup for QueuedIsSent,
NoDeafInstance for ConnectIsAnnounced and, with DiesOnlyOfStalledWrite, NeverDeaf and
HangsOnlyOnWrite, for StopEndsThread, UnRegisterIsNeverStuck for UnRegisterReturns,
PermanentIsForGood for PermanentAtLast, OnlyTheTerminatedBlockTheExit for ProxyEndsWithBrowser.

## 9. What the violation runs show

- `server_replies` / RepliesReachTheirCaller (include/named-pipe-server.hpp:332): src/include/sm-srv.h:68 says "Return value is send back to the caller." DisconnectAndReconnect clears m_inputBuffer but not m_outputBuffers: a reply still queued when its client disconnects is written to the next client that connects to the instance.
- `client_asserts` / CancelsSucceed (include/named-pipe-client.hpp:204): src/include/named-pipe-client.hpp:205 asserts "ATLASSERT(SUCCEEDED(hRes));" after CancelIoEx(&m_ovRead). The flag m_fPendingRead says only that the read was pending when it was issued: one that a message completes before CancelIoEx runs makes it fail with ERROR_NOT_FOUND, and the debug build stops on the assertion.
- `client_lock` / ListIsGuarded (include/named-pipe-client.hpp:246): src/include/named-pipe-client.hpp:29 says of m_cs "access to m_outputBuffers". reset calls m_outputBuffers.RemoveAll() without taking m_cs, while SendMessage may be inside AddTail on another thread: two threads change one CAtlList at once.
- `reader_long` / LongMessagesAreIgnored (include/named-pipe-client.hpp:341): src/include/named-pipe-client.hpp:340 says of a message that is too long "just ignore this message silently" (the same at src/include/named-pipe-server.hpp:540). Only the part read so far is cleared: the next peek finds less than MAX_INPUT_MESSAGE_SIZE left of the same message, reads it and passes it to OnMessage.
- `host_query` / QueriedLengthSuffices (server-mbdd/str-encode.cpp:31): src/include/sm-srv.h:112 says "In order to query required buffer length specify `wStr=NULL` and `nWStrLen=0`." The query returns nLen16 (line 28) without the terminating zero, and line 31 refuses a buffer of that length with -2: the buffer that is required has one wide character more, which the caller has to know (the script adds it).
- `tabs` / PageCommandReachesItsTab (extensions/extension/background.js:163): src/extensions/extension/background.js:36 promises in its title "Send page to SuperMemo", and line 251 looks the tab's port up as csPort[tab.id]. When the page of any tab is left, csPort.filter returns a dense array: the ports of all other tabs move to the indices 0, 1, ..., so that their page and selection commands do nothing (or reach another page) until they are loaded again.

## 10. Not modelled

The parts that `PROJECT.json` marks so, each with its reason. Within the modelled
parts: `WAIT_FAILED` and handles that fail, lack of memory, the security
descriptors and the contents of messages. In the host: `DllOpen` and `DllCall` that fail, and
AutoIt's interpreter being entered from two threads, of which its source says
nothing here. In the proxy: the registration commands, and writes to stdout that
block while the browser lives and does not read. In the extension: icons, and content scripts of frames (the manifest asks
for none).

No module joins NamedPipeClient to NamedPipeServer. Each has the other end as an
external process, which may connect, send, read and leave at any time; what is proved of one
end holds whatever the other does. That a reply comes to the process that asked is thus two
statements: the server never writes a reply to an earlier client and keeps replies in order
(NoReplyToEarlierClient, RepliesInOrder), and the client hands on no message of an earlier
connection (NoMessageCrossesSessions). A reply that goes to a later client is the finding
of `server_replies`.
