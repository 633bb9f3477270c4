---------------------------- MODULE BrowserBridge ----------------------------
(***************************************************************************)
(* The extension and the proxy together, from the button the user sees to    *)
(* the connection with the server.                                           *)
(***************************************************************************)
EXTENDS NativeMsgProxy, Extension

vars == <<portVars, clientVars, buttonVars, tabVars, userVars>>

Init == PortInit /\ ProxyInit /\ ExtensionInit

Next ==
    \/ ProxyNext /\ UNCHANGED <<buttonVars, tabVars, userVars>>
    \/ ExtensionNext /\ UNCHANGED clientVars

ProxyRuns == MainThread /\ UNCHANGED <<buttonVars, tabVars, userVars>>
BrowserRuns == EventLoop /\ UNCHANGED clientVars

\* The main thread of the proxy and the event loop of the browser go on; the
\* server, the client's thread and the user need not.
Spec ==
    /\ Init /\ [][Next]_vars
    /\ WF_vars(ProxyRuns) /\ WF_vars(BrowserRuns)

(***************************************************************************)
(* Properties                                                                *)
(***************************************************************************)
Titles == {send_to_sm, cannot_send_to_sm, permanently_disconnected_from_sm}

PortTypes ==
    /\ stdin \in Seq({"url", "lnk", "img", "page", "selection"})
    /\ stdout \in Seq({"connected", "disconnected", "reply"})
    /\ port \in {"open", "closed", "gone"}
    /\ ppc \in {"reading", "stopping", "killing", "leaving", "exited"}
ProxyTypes ==
    /\ up \in BOOLEAN /\ done \in BOOLEAN /\ silent \in BOOLEAN
    /\ running \in BOOLEAN /\ locked \in BOOLEAN
    /\ session \in 0..MaxSessions /\ heard \in 0..MaxReplies
ButtonTypes ==
    /\ calls \in Seq([op : {"show", "removeAll", "hide"}, title : Titles])
    /\ removed \in Seq(Titles)
    /\ title \in Titles
    /\ enabled \in BOOLEAN /\ menus \in BOOLEAN /\ raced \in BOOLEAN
TabTypes ==
    /\ csPort \in [Indices -> Tabs \cup {NoPort}]
    /\ page \in [Tabs -> {"none", "new", "known"}]
    /\ csMessages \in Seq([tab : Tabs, cmd : {"greeting", "page", "selection"}])
    /\ pageCommands \subseteq [tab : Tabs, cmd : {"page", "selection"}]
    /\ loads \in 0..MaxLoads
UserTypes ==
    /\ commands \in 0..MaxCommands
    /\ downloads \in 0..commands
\* Type invariant.
TypeOK == PortTypes /\ ProxyTypes /\ ButtonTypes /\ TabTypes /\ UserTypes

\* Nothing is on its way to the button or the menus.
Quiet == port = "open" /\ stdout = <<>> /\ calls = <<>> /\ removed = <<>>

\* When nothing is on its way, the menu items exist just when the client is
\* connected, or broke the connection without a word (fOrigin); an enabled
\* button comes with them, and they come without it only if the connection
\* came back before removeAll had called back (background.js:62, 94;
\* native-msg-proxy.cpp:86, 102).
MenusTellTruth ==
    Quiet =>
        /\ menus = (up \/ silent)
        /\ enabled => menus
        /\ menus /\ ~raced => enabled

\* Once the proxy has gone, for whatever reason, and unless the browser goes
\* too, the button ends up disabled for good, without menu items and with the
\* title that says so: no callback of an earlier removeAll and no late frame
\* takes it back (background.js:110).
Permanent ==
    ~enabled /\ ~menus /\ title = permanently_disconnected_from_sm
PermanentAtLast == ppc = "exited" ~> [](port = "gone" \/ Permanent)

\* It is so as soon as disconnect_handler's calls have been carried out, whatever
\* calls and callbacks were on their way when the proxy went (background.js:70, 110).
PermanentWhenQuiet ==
    port = "closed" /\ calls = <<>> /\ removed = <<>> => Permanent

\* A thread that Stop terminated had a lock that the rest of the proxy needs (the
\* exception of ProxyEndsWithBrowser).
LockStuck == locked /\ ~running

\* The end of the browser, or of its port, ends the proxy, whatever its client's
\* thread does and with messages still to be read, but where the thread it
\* terminates held the lock of the heap or of a stream (native-msg-proxy.cpp:245,
\* 271, 273, worker-thread.hpp:58, 61).
ProxyEndsWithBrowser == port = "gone" ~> ppc = "exited" \/ LockStuck

\* "Send page to SuperMemo" (background.js:36) sends the page of the tab it is
\* called in: csPort has, under the identifier of a tab, the port of that tab.
PageCommandReachesItsTab ==
    \A t \in Tabs : csPort[t] = (IF page[t] = "known" THEN t ELSE NoPort)

-----------------------------------------------------------------------------
(***************************************************************************)
(* The inductive invariant: what is on its way to the button and the menus.  *)
(***************************************************************************)
Pending(op) == \E i \in DOMAIN calls : calls[i].op = op

\* The last news of the connection that is on its way, a frame or a call, is the
\* truth; with none on its way the menus are.
TruthIsOnItsWay ==
    port = "open" =>
        /\ \A i \in DOMAIN stdout :
              /\ stdout[i] # "reply"
              /\ \A j \in DOMAIN stdout : j > i => stdout[j] = "reply"
              => (stdout[i] = "connected") = (up \/ silent)
        /\ (\A i \in DOMAIN stdout : stdout[i] = "reply") =>
              /\ \A i \in DOMAIN calls :
                    /\ calls[i].op # "hide"
                    /\ \A j \in DOMAIN calls : j > i => calls[j].op = "hide"
                    => (calls[i].op = "show") = (up \/ silent)
              /\ ~Pending("show") /\ ~Pending("removeAll") => menus = (up \/ silent)

\* Menus that were removed under an enabled button will disable it.
HideFollows == enabled /\ ~menus => removed # <<>> \/ Pending("hide")

\* Where the last "connected" met no removeAll under way, no callback of one can
\* disable the button that comes with it.
NoRace ==
    ~raced =>
        /\ \A i, j \in DOMAIN calls :
              i < j /\ calls[j].op = "show" => calls[i].op = "show"
        /\ Pending("show") => removed = <<>> /\ ~Pending("hide")
        /\ removed # <<>> \/ Pending("hide") => ~menus
        /\ menus /\ ~enabled => Pending("show")

\* The calls of disconnect_handler are the last, the removal first and the rest
\* when it has called back.
EndIsOnItsWay ==
    port = "closed" =>
        \/ \E i \in DOMAIN calls :
              /\ calls[i] = [op |-> "removeAll", title |-> permanently_disconnected_from_sm]
              /\ \A j \in DOMAIN calls : j > i => calls[j].op = "hide"
        \/ /\ ~menus /\ ~Pending("show") /\ ~Pending("removeAll")
           /\ \/ /\ removed # <<>>
                 /\ removed[Len(removed)] = permanently_disconnected_from_sm
              \/ /\ removed = <<>> /\ calls # <<>>
                 /\ calls[Len(calls)].title = permanently_disconnected_from_sm
              \/ removed = <<>> /\ calls = <<>> /\ Permanent

\* Only a thread that runs takes a lock, and Stop leaves none that runs; one that
\* was terminated leaves its lock to nobody but a main thread that is past Stop.
ExitHasAWay ==
    /\ locked => ~done
    /\ ppc = "leaving" => ~ThreadRuns
    /\ LockStuck => ppc \in {"leaving", "exited"}

BInv ==
    /\ TypeOK /\ TruthIsOnItsWay /\ HideFollows /\ NoRace /\ EndIsOnItsWay
    /\ ExitHasAWay
=============================================================================
