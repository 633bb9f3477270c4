------------------------------ MODULE Extension ------------------------------
(***************************************************************************)
(* The browser extension: background.js, and the content script of a page.   *)
(*                                                                           *)
(* The browser is external.  It carries out the calls of its API in the      *)
(* order they are made (calls), and gives events and results back in order;  *)
(* a handler runs to its end.  The four menu items come and go together.     *)
(***************************************************************************)
EXTENDS NativePort, FiniteSets

CONSTANTS
    Tabs,           \* tab identifiers, small positive numbers
    MaxLoads,       \* bound: pages loaded
    MaxCommands     \* bound: commands the user gives

ASSUME TabsAssumption == Tabs \subseteq Nat \ {0} /\ IsFiniteSet(Tabs)
ASSUME ExtensionBoundsAssumption == MaxLoads \in Nat /\ MaxCommands \in Nat

VARIABLES
    calls,          \* API calls not yet carried out: [op, title]
    removed,        \* results of removeAll not yet delivered: their titles
    enabled, title, \* the button
    menus,          \* the menu items exist
    csPort,         \* csPort[i] is the tab whose port it holds, or NoPort
    page,           \* tab -> its content script is "none", "new" or "known"
    csMessages,     \* messages from content scripts: [tab, cmd]
    pageCommands,   \* commands on their way to a content script: [tab, cmd]
    downloads,      \* images being downloaded
    loads, commands,    \* counted for the bounds
    raced           \* history: the last "connected" met a removeAll under way

buttonVars == <<calls, removed, enabled, title, menus, raced>>
tabVars == <<csPort, page, csMessages, pageCommands, loads>>
userVars == <<downloads, commands>>

NoPort == 0
NoTitle == "undefined"
send_to_sm == "send"
cannot_send_to_sm == "connecting"
permanently_disconnected_from_sm == "permanently disconnected"

Indices == 0..(CHOOSE n \in Tabs : \A t \in Tabs : t <= n)

ExtensionInit ==
    /\ calls = <<>> /\ removed = <<>>
    /\ enabled = FALSE /\ title = cannot_send_to_sm /\ menus = FALSE
    /\ csPort = [i \in Indices |-> NoPort]
    /\ page = [t \in Tabs |-> "none"]
    /\ csMessages = <<>> /\ pageCommands = {} /\ downloads = 0
    /\ loads = 0 /\ commands = 0
    /\ raced = FALSE

Alive == port # "gone"

(***************************************************************************)
(* The state of the button and the menus                                     *)
(***************************************************************************)
TitleOr_Given(given, default) == given
TitleOr(given, default) == IF given = NoTitle THEN default ELSE given

Call(op, given) == calls' = Append(calls, [op |-> op, title |-> given])

\* update_extension_state: what it calls at once, ...
update_extension_state(on, given) ==
    IF on THEN Call("show", TitleOr(given, send_to_sm))
    ELSE Call("removeAll", TitleOr(given, cannot_send_to_sm))

RemovalUnderWay ==
    removed # <<>> \/ \E i \in DOMAIN calls : calls[i].op # "show"

\* ... and what it does when removeAll is done.
OnRemoved ==
    /\ Alive /\ removed # <<>>
    /\ removed' = Tail(removed)
    /\ Call("hide", Head(removed))
    /\ UNCHANGED <<enabled, title, menus, raced, tabVars, userVars, portVars>>

message_handler ==
    /\ port = "open" /\ stdout # <<>>
    /\ stdout' = Tail(stdout)
    /\ CASE Head(stdout) = "connected" ->
                /\ update_extension_state(TRUE, NoTitle)
                /\ raced' = RemovalUnderWay
         [] Head(stdout) = "disconnected" ->
                update_extension_state(FALSE, NoTitle) /\ UNCHANGED raced
         [] OTHER -> UNCHANGED <<calls, raced>>
    /\ UNCHANGED <<removed, enabled, title, menus, tabVars, userVars, stdin,
                   port, ppc>>

AtTheEnd_NoTitle == NoTitle
AtTheEnd == permanently_disconnected_from_sm

\* The proxy has gone and its last frame has been handled.
disconnect_handler ==
    /\ port = "open" /\ ppc = "exited" /\ stdout = <<>>
    /\ port' = "closed"
    /\ update_extension_state(FALSE, AtTheEnd)
    /\ UNCHANGED <<removed, enabled, title, menus, raced, tabVars, userVars, stdin,
                   stdout, ppc>>

\* The browser carries out the next call: enable, setTitle and the creation of
\* the items (an item that exists already stays); removeAll; disable and
\* setTitle.
AfterRemoval_Kept == menus
AfterRemoval == FALSE

CarryOut ==
    /\ Alive /\ calls # <<>>
    /\ calls' = Tail(calls)
    /\ LET call == Head(calls) IN
        CASE call.op = "show" ->
                /\ enabled' = TRUE /\ title' = call.title /\ menus' = TRUE
                /\ UNCHANGED removed
          [] call.op = "removeAll" ->
                /\ menus' = AfterRemoval
                /\ removed' = Append(removed, call.title)
                /\ UNCHANGED <<enabled, title>>
          [] call.op = "hide" ->
                /\ enabled' = FALSE /\ title' = call.title
                /\ UNCHANGED <<menus, removed>>
    /\ UNCHANGED <<raced, tabVars, userVars, portVars>>

(***************************************************************************)
(* Content scripts and their ports                                           *)
(***************************************************************************)
\* A page loads and its script connects; then it says hello, which is logged.
Load(t) ==
    /\ Alive /\ page[t] = "none" /\ loads < MaxLoads
    /\ page' = [page EXCEPT ![t] = "new"]
    /\ loads' = loads + 1
    /\ csMessages' = Append(csMessages, [tab |-> t, cmd |-> "greeting"])
    /\ UNCHANGED <<csPort, pageCommands, buttonVars, userVars, portVars>>

cs_connected(t) ==
    /\ Alive /\ page[t] = "new"
    /\ csPort' = [csPort EXCEPT ![t] = t]
    /\ page' = [page EXCEPT ![t] = "known"]
    /\ UNCHANGED <<csMessages, pageCommands, loads, buttonVars, userVars, portVars>>

\* Array.filter skips the holes of csPort and closes them up.
Without(t) ==
    LET kept == {i \in Indices : csPort[i] # NoPort /\ i # t}
        Rank(i) == Cardinality({j \in kept : j < i})
    IN  [i \in Indices |->
            IF i < Cardinality(kept)
            THEN csPort[CHOOSE k \in kept : Rank(k) = i]
            ELSE NoPort]

\* The page is left, and what its script had sent has been handled.
cs_disconnected(t) ==
    /\ Alive /\ page[t] = "known"
    /\ \A i \in DOMAIN csMessages : csMessages[i].tab # t
    /\ csPort' = Without(t)
    /\ page' = [page EXCEPT ![t] = "none"]
    /\ pageCommands' = {c \in pageCommands : c.tab # t}
    /\ UNCHANGED <<csMessages, loads, buttonVars, userVars, portVars>>

\* content-script.js: the page or its selection; without a selection
\* getRangeAt throws and nothing is sent.
on_message(c) ==
    /\ Alive /\ c \in pageCommands
    /\ pageCommands' = pageCommands \ {c}
    /\ \/ csMessages' = Append(csMessages, c)
       \/ c.cmd = "selection" /\ UNCHANGED csMessages
    /\ UNCHANGED <<csPort, page, loads, buttonVars, userVars, portVars>>

\* Messages with a cmd and a val are passed on.
on_content_script_message ==
    /\ Alive /\ csMessages # <<>> /\ page[Head(csMessages).tab] = "known"
    /\ csMessages' = Tail(csMessages)
    /\ Post(IF Head(csMessages).cmd = "greeting" THEN <<>>
            ELSE <<Head(csMessages).cmd>>)
    /\ UNCHANGED <<csPort, page, pageCommands, loads, buttonVars, userVars, stdout,
                   port, ppc>>

(***************************************************************************)
(* The user                                                                 *)
(***************************************************************************)
Command ==
    /\ Alive /\ commands < MaxCommands
    /\ commands' = commands + 1
    /\ UNCHANGED <<buttonVars, stdout, port, ppc>>

on_button_clicked ==
    /\ enabled /\ Command
    /\ Post(<<"url">>)
    /\ UNCHANGED <<tabVars, downloads>>

\* The link goes out twice, the second time for older servers.
SendLink ==
    /\ menus /\ Command
    /\ Post(<<"lnk", "url">>)
    /\ UNCHANGED <<tabVars, downloads>>

\* send-page-to-supermemo and send-selection-to-supermemo; the port of a page
\* that was left throws.
SendPage(t, cmd) ==
    /\ menus /\ Command
    /\ pageCommands' = pageCommands \cup
            {[tab |-> u, cmd |-> cmd] :
                u \in {v \in Tabs : csPort[t] = v /\ page[v] = "known"}}
    /\ UNCHANGED <<stdin, csPort, page, csMessages, loads, downloads>>

SendImage ==
    /\ menus /\ Command
    /\ downloads' = downloads + 1
    /\ UNCHANGED <<stdin, tabVars>>

\* download_binary: nothing says that a promise settles.
Downloaded(succeeds) ==
    /\ Alive /\ downloads > 0
    /\ downloads' = downloads - 1
    /\ IF succeeds THEN Post(<<"img">>) ELSE UNCHANGED stdin
    /\ UNCHANGED <<commands, tabVars, buttonVars, stdout, port, ppc>>

\* The browser, or the extension in it, ends.
BrowserEnds ==
    /\ Alive
    /\ port' = "gone"
    /\ UNCHANGED <<stdin, stdout, ppc, buttonVars, tabVars, userVars>>

EventLoop == OnRemoved \/ message_handler \/ disconnect_handler \/ CarryOut

ExtensionNext ==
    \/ EventLoop
    \/ \E t \in Tabs : Load(t) \/ cs_connected(t) \/ cs_disconnected(t)
    \/ \E c \in pageCommands : on_message(c)
    \/ on_content_script_message
    \/ on_button_clicked \/ SendLink \/ SendImage
    \/ \E t \in Tabs, cmd \in {"page", "selection"} : SendPage(t, cmd)
    \/ \E succeeds \in BOOLEAN : Downloaded(succeeds)
    \/ BrowserEnds
=============================================================================
