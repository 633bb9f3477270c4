-------------------------- MODULE BrowserBridgeProofs --------------------------
(***************************************************************************)
(* The extension and the proxy of BrowserBridge: what the button and the     *)
(* menus say when nothing is on its way, for any number of connections,      *)
(* replies, tabs, pages and commands.                                        *)
(***************************************************************************)
EXTENDS BrowserBridge, InductionTheorems

USE DEF vars, portVars, clientVars, buttonVars, tabVars, userVars

-----------------------------------------------------------------------------
(* Lemmas about csPort *)

LEMMA IndicesOfTabs ==
    Tabs # {} => IsFiniteSet(Indices) /\ Indices \subseteq Nat /\ Tabs \subseteq Indices
<1> SUFFICES ASSUME Tabs # {}
             PROVE  IsFiniteSet(Indices) /\ Indices \subseteq Nat /\ Tabs \subseteq Indices
  OBVIOUS
<1> DEFINE n == CHOOSE n \in Tabs : \A t \in Tabs : t <= n
<1>1. n \in Tabs /\ \A t \in Tabs : t <= n
  BY TabsAssumption, GreatestExists
<1> HIDE DEF n
<1>2. Indices = 0 .. n
  BY DEF Indices, n
<1> QED BY <1>1, <1>2, TabsAssumption, FS_Interval

\* Closing the holes of csPort moves ports, and makes none up.
LEMMA WithoutIsTyped ==
    ASSUME csPort \in [Indices -> Tabs \cup {NoPort}], NEW t \in Tabs
    PROVE  Without(t) \in [Indices -> Tabs \cup {NoPort}]
<1> DEFINE kept == {i \in Indices : csPort[i] # NoPort /\ i # t}
           Rank(i) == Cardinality({j \in kept : j < i})
<1>1. IsFiniteSet(kept) /\ kept \subseteq Nat
  BY IndicesOfTabs, FS_Subset
<1>2. ASSUME NEW i \in Indices, i < Cardinality(kept)
      PROVE  csPort[CHOOSE k \in kept : Rank(k) = i] \in Tabs
  <2>1. i \in 0 .. (Cardinality(kept) - 1)
    BY <1>1, <1>2, IndicesOfTabs, FS_CardinalityType
  <2>2. \E k \in kept : Rank(k) = i
    BY <1>1, <2>1, RanksAreTaken
  <2>3. (CHOOSE k \in kept : Rank(k) = i) \in kept
    BY <2>2
  <2> QED BY <2>3
<1> QED BY <1>2 DEF Without

-----------------------------------------------------------------------------
(* Types *)

Frames == {"connected", "disconnected", "reply"}
Messages == {"url", "lnk", "img", "page", "selection"}
Calls == [op : {"show", "removeAll", "hide"}, title : Titles]

LEMMA PushIsTyped ==
    ASSUME PortTypes, NEW frame \in Frames, Push(frame)
    PROVE  stdout' \in Seq(Frames)
BY DEF PortTypes, Frames, Push

LEMMA ListsOfMessages ==
    <<>> \in Seq(Messages) /\ \A m, n \in Messages : <<m>> \in Seq(Messages) /\ <<m, n>> \in Seq(Messages)
OBVIOUS

LEMMA PostIsTyped ==
    ASSUME PortTypes, NEW messages \in Seq(Messages), Post(messages)
    PROVE  stdin' \in Seq(Messages)
BY DEF PortTypes, Messages, Post

LEMMA CallIsTyped ==
    ASSUME ButtonTypes, NEW on \in BOOLEAN, NEW given \in Titles \cup {NoTitle},
           update_extension_state(on, given)
    PROVE  calls' \in Seq(Calls)
<1>1. calls \in Seq(Calls)
  BY DEF ButtonTypes, Calls
<1>2. TitleOr(given, send_to_sm) \in Titles /\ TitleOr(given, cannot_send_to_sm) \in Titles
  BY DEF TitleOr, Titles
<1>3. PICK call \in Calls : calls' = Append(calls, call)
  BY <1>2 DEF update_extension_state, Call, Calls
<1> QED BY <1>1, <1>3

LEMMA InitTypes == Init => TypeOK
<1> SUFFICES ASSUME Init PROVE TypeOK
  OBVIOUS
<1> USE ProxyBoundsAssumption, ExtensionBoundsAssumption
<1>1. PortTypes
  BY DEF Init, PortInit, PortTypes
<1>2. ProxyTypes
  <2>1. session \in 0 .. MaxSessions /\ heard \in 0 .. MaxReplies
    BY DEF Init, ProxyInit, Client!Init
  <2> QED BY <2>1 DEF Init, ProxyInit, Client!Init, ProxyTypes
<1>3. ButtonTypes
  <2>1. calls \in Seq([op : {"show", "removeAll", "hide"}, title : Titles])
        /\ removed \in Seq(Titles)
    BY DEF Init, ExtensionInit
  <2>2. title \in Titles
    BY DEF Init, ExtensionInit, Titles
  <2> QED BY <2>1, <2>2 DEF Init, ExtensionInit, ButtonTypes
<1>4. TabTypes
  BY DEF Init, ExtensionInit, TabTypes
<1>5. UserTypes
  BY DEF Init, ExtensionInit, UserTypes
<1> QED BY <1>1, <1>2, <1>3, <1>4, <1>5 DEF TypeOK

\* Steps of the proxy.
LEMMA ProxyTypesStep ==
    ASSUME PortTypes, ProxyTypes, ProxyNext
    PROVE  PortTypes' /\ ProxyTypes'
<1> USE ProxyBoundsAssumption
<1>1. CASE OnConnect
  <2>1. stdout' \in Seq(Frames)
    BY <1>1, PushIsTyped DEF OnConnect, Frames
  <2>2. PortTypes'
    BY <1>1, <2>1 DEF OnConnect, PortTypes, Frames
  <2>3. ProxyTypes'
    <3>1. session' \in 0 .. MaxSessions /\ heard' \in 0 .. MaxReplies
      BY <1>1 DEF OnConnect, Client!Connect, ProxyTypes
    <3> QED BY <1>1, <3>1 DEF OnConnect, Client!Connect, ProxyTypes
  <2> QED BY <2>2, <2>3
<1>2. CASE OnMessage
  <2>1. stdout' \in Seq(Frames)
    BY <1>2, PushIsTyped DEF OnMessage, Frames
  <2>2. PortTypes'
    BY <1>2, <2>1 DEF OnMessage, PortTypes, Frames
  <2>3. ProxyTypes'
    BY <1>2 DEF OnMessage, Client!Message, ProxyTypes
  <2> QED BY <2>2, <2>3
<1>3. ASSUME NEW fOrigin \in BOOLEAN, OnDisconnect(fOrigin) PROVE PortTypes' /\ ProxyTypes'
  <2>1. stdout' \in Seq(Frames)
    <3>1. CASE fOrigin
      BY <1>3, <3>1 DEF OnDisconnect, PortTypes, Frames
    <3>2. CASE ~fOrigin
      BY <1>3, <3>2, PushIsTyped DEF OnDisconnect, Frames
    <3> QED BY <3>1, <3>2
  <2>2. PortTypes'
    BY <1>3, <2>1 DEF OnDisconnect, PortTypes, Frames
  <2>3. ProxyTypes'
    BY <1>3 DEF OnDisconnect, Client!Disconnect, ProxyTypes
  <2> QED BY <2>2, <2>3
<1>4. CASE ClientEnds
  BY <1>4 DEF ClientEnds, Client!End, ProxyTypes, PortTypes
<1>5. CASE EnterLock \/ LeaveLock \/ MainThread \/ ProxyDies
  <2>1. PortTypes'
    <3>1. CASE ReadMessage
      BY <3>1 DEF ReadMessage, PortTypes
    <3>2. CASE EnterLock \/ LeaveLock
      BY <3>2 DEF EnterLock, LeaveLock, PortTypes
    <3>3. CASE ReadFails \/ Joined \/ JoinTimesOut \/ Terminate \/ Exit \/ ProxyDies
      BY <3>3 DEF ReadFails, Joined, JoinTimesOut, Terminate, Exit, ProxyDies, PortTypes
    <3> QED BY <1>5, <3>1, <3>2, <3>3 DEF MainThread
  <2>2. ProxyTypes'
    BY <1>5
    DEF EnterLock, LeaveLock, MainThread, ReadMessage, ReadFails, Joined, JoinTimesOut,
        Terminate, Exit, ProxyDies, ProxyTypes
  <2> QED BY <2>1, <2>2
<1> QED BY <1>1, <1>2, <1>3, <1>4, <1>5 DEF ProxyNext

\* Steps of the browser's event loop.
LEMMA LoopTypesStep ==
    ASSUME PortTypes, ButtonTypes, EventLoop \/ BrowserEnds
    PROVE  PortTypes' /\ ButtonTypes'
<1>1. CASE OnRemoved
  <2>1. calls' \in Seq(Calls)
    BY <1>1 DEF OnRemoved, Call, ButtonTypes, Calls
  <2>2. removed' \in Seq(Titles)
    BY <1>1 DEF OnRemoved, ButtonTypes
  <2> QED BY <1>1, <2>1, <2>2 DEF OnRemoved, PortTypes, ButtonTypes, Calls
<1>2. CASE message_handler
  <2>1. calls' \in Seq(Calls)
    <3>1. CASE Head(stdout) = "connected"
      BY <1>2, <3>1, CallIsTyped DEF message_handler
    <3>2. CASE Head(stdout) = "disconnected"
      BY <1>2, <3>2, CallIsTyped DEF message_handler
    <3>3. CASE Head(stdout) \notin {"connected", "disconnected"}
      BY <1>2, <3>3 DEF message_handler, ButtonTypes, Calls
    <3> QED BY <3>1, <3>2, <3>3
  <2>2. stdout' \in Seq(Frames)
    BY <1>2 DEF message_handler, PortTypes, Frames
  <2>3. raced' \in BOOLEAN
    BY <1>2 DEF message_handler, RemovalUnderWay, ButtonTypes
  <2>4. PortTypes'
    BY <1>2, <2>2 DEF message_handler, PortTypes, Frames
  <2> QED BY <1>2, <2>1, <2>3, <2>4 DEF message_handler, ButtonTypes, Calls
<1>3. CASE disconnect_handler
  <2>1. calls' \in Seq(Calls)
    BY <1>3, CallIsTyped DEF disconnect_handler, AtTheEnd, Titles
  <2> QED BY <1>3, <2>1 DEF disconnect_handler, PortTypes, ButtonTypes, Calls
<1>4. CASE CarryOut
  <2>1. calls \in Seq(Calls) /\ calls # <<>>
    BY <1>4 DEF CarryOut, ButtonTypes, Calls
  <2>2. Tail(calls) \in Seq(Calls) /\ Head(calls) \in Calls
    BY <2>1
  <2>3. Head(calls).title \in Titles /\ Head(calls).op \in {"show", "removeAll", "hide"}
    BY <2>2 DEF Calls
  <2>4. removed' = removed \/ removed' = Append(removed, Head(calls).title)
    BY <1>4, <2>3 DEF CarryOut
  <2>5. removed' \in Seq(Titles)
    BY <2>3, <2>4 DEF ButtonTypes
  <2>6. title' \in {title, Head(calls).title} /\ enabled' \in {enabled, TRUE, FALSE}
        /\ menus' \in {menus, TRUE, FALSE}
    BY <1>4, <2>3 DEF CarryOut, AfterRemoval
  <2>7. calls' = Tail(calls) /\ UNCHANGED <<raced, portVars>>
    BY <1>4 DEF CarryOut
  <2>8. ButtonTypes'
    BY <2>2, <2>3, <2>5, <2>6, <2>7 DEF ButtonTypes, Calls
  <2> QED BY <2>7, <2>8 DEF PortTypes
<1>5. CASE BrowserEnds
  BY <1>5 DEF BrowserEnds, PortTypes, ButtonTypes
<1> QED BY <1>1, <1>2, <1>3, <1>4, <1>5 DEF EventLoop

\* Steps of pages, of their scripts and of the user.
PageStep ==
    \/ \E t \in Tabs : Load(t) \/ cs_connected(t) \/ cs_disconnected(t)
    \/ \E c \in pageCommands : on_message(c)
    \/ on_content_script_message
UserStep ==
    \/ on_button_clicked \/ SendLink \/ SendImage
    \/ \E t \in Tabs, cmd \in {"page", "selection"} : SendPage(t, cmd)
    \/ \E succeeds \in BOOLEAN : Downloaded(succeeds)

Said == [tab : Tabs, cmd : {"greeting", "page", "selection"}]

LEMMA PageTypesStep ==
    ASSUME PortTypes, TabTypes, PageStep
    PROVE  PortTypes' /\ TabTypes'
<1> USE ExtensionBoundsAssumption
<1>0. csMessages \in Seq(Said)
  BY DEF TabTypes, Said
<1>1. ASSUME NEW t \in Tabs, Load(t) PROVE PortTypes' /\ TabTypes'
  <2>1. csMessages' \in Seq(Said)
    <3>1. [tab |-> t, cmd |-> "greeting"] \in Said
      BY DEF Said
    <3>2. csMessages' = Append(csMessages, [tab |-> t, cmd |-> "greeting"])
      BY <1>1 DEF Load
    <3> QED BY <1>0, <3>1, <3>2
  <2>2. page' \in [Tabs -> {"none", "new", "known"}] /\ loads' \in 0 .. MaxLoads
    BY <1>1 DEF Load, TabTypes
  <2> QED BY <1>1, <2>1, <2>2 DEF Load, TabTypes, PortTypes, Said
<1>2. ASSUME NEW t \in Tabs, cs_connected(t) PROVE PortTypes' /\ TabTypes'
  <2>1. csPort' \in [Indices -> Tabs \cup {NoPort}]
    BY <1>2, IndicesOfTabs DEF cs_connected, TabTypes
  <2>2. page' \in [Tabs -> {"none", "new", "known"}]
    BY <1>2 DEF cs_connected, TabTypes
  <2> QED BY <1>2, <2>1, <2>2 DEF cs_connected, TabTypes, PortTypes
<1>3. ASSUME NEW t \in Tabs, cs_disconnected(t) PROVE PortTypes' /\ TabTypes'
  <2>1. csPort' \in [Indices -> Tabs \cup {NoPort}]
    BY <1>3, WithoutIsTyped DEF cs_disconnected, TabTypes
  <2>2. page' \in [Tabs -> {"none", "new", "known"}]
    BY <1>3 DEF cs_disconnected, TabTypes
  <2>3. pageCommands' \subseteq pageCommands
    BY <1>3 DEF cs_disconnected
  <2> QED BY <1>3, <2>1, <2>2, <2>3 DEF cs_disconnected, TabTypes, PortTypes
<1>4. ASSUME NEW c \in pageCommands, on_message(c) PROVE PortTypes' /\ TabTypes'
  <2>1. c \in Said
    BY DEF TabTypes, Said
  <2>2. csMessages' \in Seq(Said)
    BY <1>0, <1>4, <2>1 DEF on_message
  <2>3. pageCommands' \subseteq pageCommands
    BY <1>4 DEF on_message
  <2> QED BY <1>4, <2>2, <2>3 DEF on_message, TabTypes, PortTypes, Said
<1>5. CASE on_content_script_message
  <2>1. Head(csMessages) \in Said /\ Tail(csMessages) \in Seq(Said)
    BY <1>0, <1>5 DEF on_content_script_message
  <2>2. stdin' \in Seq(Messages)
    <3> DEFINE messages == IF Head(csMessages).cmd = "greeting" THEN <<>>
                           ELSE <<Head(csMessages).cmd>>
    <3>1. messages \in Seq(Messages)
      <4>1. Head(csMessages).cmd = "greeting" \/ Head(csMessages).cmd \in Messages
        BY <2>1 DEF Said, Messages
      <4> QED BY <4>1, ListsOfMessages
    <3>2. Post(messages)
      BY <1>5 DEF on_content_script_message
    <3> QED BY <3>1, <3>2, PostIsTyped
  <2>3. PortTypes'
    BY <1>5, <2>2 DEF on_content_script_message, PortTypes, Messages
  <2> QED BY <1>5, <2>1, <2>3 DEF on_content_script_message, TabTypes, Said
<1> QED BY <1>1, <1>2, <1>3, <1>4, <1>5 DEF PageStep

LEMMA UserTypesStep ==
    ASSUME PortTypes, TabTypes, UserTypes, UserStep
    PROVE  PortTypes' /\ TabTypes' /\ UserTypes'
<1> USE ExtensionBoundsAssumption
<1>1. ASSUME Command PROVE commands' \in 0 .. MaxCommands /\ commands' = commands + 1
  BY <1>1 DEF Command, UserTypes
<1>2. ASSUME NEW messages \in Seq(Messages), Post(messages), UNCHANGED <<stdout, port, ppc>>
      PROVE  PortTypes'
  <2>1. stdin' \in Seq(Messages)
    BY <1>2, PostIsTyped
  <2> QED BY <1>2, <2>1 DEF PortTypes, Messages
<1>3. CASE on_button_clicked
  <2>1. PortTypes'
    <3>1. <<"url">> \in Seq(Messages)
      BY ListsOfMessages DEF Messages
    <3> QED BY <1>2, <1>3, <3>1 DEF on_button_clicked, Command
  <2>2. TabTypes'
    BY <1>3 DEF on_button_clicked, TabTypes
  <2> QED BY <1>1, <1>3, <2>1, <2>2 DEF on_button_clicked, UserTypes
<1>4. CASE SendLink
  <2>1. PortTypes'
    <3>1. <<"lnk", "url">> \in Seq(Messages)
      BY ListsOfMessages DEF Messages
    <3> QED BY <1>2, <1>4, <3>1 DEF SendLink, Command
  <2>2. TabTypes'
    BY <1>4 DEF SendLink, TabTypes
  <2> QED BY <1>1, <1>4, <2>1, <2>2 DEF SendLink, UserTypes
<1>5. CASE SendImage
  <2>1. PortTypes' /\ TabTypes'
    BY <1>5 DEF SendImage, Command, PortTypes, TabTypes
  <2> QED BY <1>1, <1>5, <2>1 DEF SendImage, UserTypes
<1>6. ASSUME NEW t \in Tabs, NEW cmd \in {"page", "selection"}, SendPage(t, cmd)
      PROVE  PortTypes' /\ TabTypes' /\ UserTypes'
  <2>1. pageCommands' \subseteq [tab : Tabs, cmd : {"page", "selection"}]
    BY <1>6 DEF SendPage, TabTypes
  <2>2. TabTypes'
    BY <1>6, <2>1 DEF SendPage, TabTypes
  <2>3. PortTypes'
    BY <1>6 DEF SendPage, Command, PortTypes
  <2> QED BY <1>1, <1>6, <2>2, <2>3 DEF SendPage, UserTypes
<1>7. ASSUME NEW succeeds \in BOOLEAN, Downloaded(succeeds)
      PROVE  PortTypes' /\ TabTypes' /\ UserTypes'
  <2>1. PortTypes'
    <3>1. CASE succeeds
      <4>1. <<"img">> \in Seq(Messages)
        BY ListsOfMessages DEF Messages
      <4> QED BY <1>2, <1>7, <3>1, <4>1 DEF Downloaded
    <3>2. CASE ~succeeds
      BY <1>7, <3>2 DEF Downloaded, PortTypes
    <3> QED BY <3>1, <3>2
  <2>2. TabTypes'
    BY <1>7 DEF Downloaded, TabTypes
  <2> QED BY <1>7, <2>1, <2>2 DEF Downloaded, UserTypes
<1> QED BY <1>3, <1>4, <1>5, <1>6, <1>7 DEF UserStep

\* What a step of a page or of the user leaves alone.
LEMMA PagesLeaveTheButtonAlone ==
    PageStep \/ UserStep => UNCHANGED <<buttonVars, stdout, port, ppc>>
BY DEF PageStep, UserStep, Load, cs_connected, cs_disconnected, on_message,
       on_content_script_message, on_button_clicked, SendLink, SendImage, SendPage,
       Downloaded, Command

LEMMA TypesStep == TypeOK /\ [Next]_vars => TypeOK'
<1> SUFFICES ASSUME TypeOK, [Next]_vars PROVE TypeOK'
  OBVIOUS
<1> USE DEF TypeOK
<1>1. CASE ProxyNext /\ UNCHANGED <<buttonVars, tabVars, userVars>>
  BY <1>1, ProxyTypesStep DEF ButtonTypes, TabTypes, UserTypes
<1>2. CASE (EventLoop \/ BrowserEnds) /\ UNCHANGED clientVars
  <2>1. UNCHANGED <<tabVars, userVars>>
    BY <1>2 DEF EventLoop, BrowserEnds, OnRemoved, message_handler, disconnect_handler, CarryOut
  <2> QED BY <1>2, <2>1, LoopTypesStep DEF ProxyTypes, TabTypes, UserTypes
<1>3. CASE PageStep /\ UNCHANGED clientVars
  <2>1. UNCHANGED userVars
    BY <1>3 DEF PageStep, Load, cs_connected, cs_disconnected, on_message,
                on_content_script_message
  <2> QED BY <1>3, <2>1, PageTypesStep, PagesLeaveTheButtonAlone
          DEF ProxyTypes, ButtonTypes, UserTypes
<1>4. CASE UserStep /\ UNCHANGED clientVars
  BY <1>4, UserTypesStep, PagesLeaveTheButtonAlone DEF ProxyTypes, ButtonTypes
<1>5. CASE UNCHANGED vars
  BY <1>5 DEF PortTypes, ProxyTypes, ButtonTypes, TabTypes, UserTypes
<1> QED BY <1>1, <1>2, <1>3, <1>4, <1>5 DEF Next, ExtensionNext, PageStep, UserStep

-----------------------------------------------------------------------------
(* What is on its way *)

LEMMA Appended ==
    ASSUME NEW S, NEW s \in Seq(S), NEW e \in S
    PROVE  /\ Append(s, e) \in Seq(S) /\ Append(s, e) # <<>>
           /\ Len(s) \in Nat /\ Len(Append(s, e)) = Len(s) + 1
           /\ DOMAIN s = 1 .. Len(s) /\ DOMAIN Append(s, e) = 1 .. (Len(s) + 1)
           /\ \A i \in 1 .. Len(s) : Append(s, e)[i] = s[i]
           /\ Append(s, e)[Len(s) + 1] = e
OBVIOUS

LEMMA NothingLeft ==
    ASSUME NEW S, NEW s \in Seq(S), Len(s) = 0
    PROVE  s = <<>>
OBVIOUS

LEMMA Shortened ==
    ASSUME NEW S, NEW s \in Seq(S), s # <<>>
    PROVE  /\ Tail(s) \in Seq(S) /\ Head(s) = s[1] /\ s[1] \in S
           /\ Len(s) \in Nat /\ Len(s) >= 1 /\ Len(Tail(s)) = Len(s) - 1
           /\ DOMAIN s = 1 .. Len(s) /\ DOMAIN Tail(s) = 1 .. (Len(s) - 1)
           /\ \A i \in 1 .. (Len(s) - 1) : Tail(s)[i] = s[i + 1]
OBVIOUS

\* Steps that leave the button, the frames and the connection alone.
Still == UNCHANGED <<buttonVars, stdout, port, up, silent>>

LEMMA InitBInv == Init => BInv
<1> SUFFICES ASSUME Init PROVE BInv
  OBVIOUS
<1>1. TypeOK
  BY InitTypes
<1>2. TruthIsOnItsWay /\ HideFollows /\ NoRace /\ EndIsOnItsWay
  <2>1. port = "open" /\ DOMAIN stdout = {} /\ DOMAIN calls = {} /\ removed = <<>>
    BY DEF Init, PortInit, ExtensionInit
  <2>2. ~menus /\ ~enabled /\ ~up /\ ~silent
    BY DEF Init, ProxyInit, Client!Init, ExtensionInit
  <2>3. menus = (up \/ silent)
    BY DEF Init, ProxyInit, Client!Init, ExtensionInit
  <2>4. TruthIsOnItsWay
    BY <2>1, <2>3 DEF TruthIsOnItsWay
  <2> QED BY <2>1, <2>2, <2>4 DEF HideFollows, NoRace, EndIsOnItsWay, Pending
<1>3. ExitHasAWay
  BY DEF Init, PortInit, ProxyInit, Client!Init, ExitHasAWay, LockStuck
<1> QED BY <1>1, <1>2, <1>3 DEF BInv

LEMMA StillStep ==
    ASSUME BInv, Still
    PROVE  TruthIsOnItsWay' /\ HideFollows' /\ NoRace' /\ EndIsOnItsWay'
<1>1. TruthIsOnItsWay'
  BY DEF BInv, Still, TruthIsOnItsWay, Pending
<1>2. HideFollows' /\ NoRace'
  BY DEF BInv, Still, HideFollows, NoRace, Pending
<1>3. EndIsOnItsWay'
  BY DEF BInv, Still, EndIsOnItsWay, Pending, Permanent
<1> QED BY <1>1, <1>2, <1>3

\* Who holds a lock, and how far the main thread has come in leaving.
LEMMA ExitStep == BInv /\ [Next]_vars => ExitHasAWay'
<1> SUFFICES ASSUME BInv, [Next]_vars PROVE ExitHasAWay'
  OBVIOUS
<1>0. ExitHasAWay
  BY DEF BInv
<1> USE DEF ExitHasAWay, LockStuck, ThreadRuns
<1>1. CASE EnterLock \/ LeaveLock
  BY <1>0, <1>1 DEF EnterLock, LeaveLock
<1>2. CASE OnConnect \/ OnMessage \/ \E fOrigin \in BOOLEAN : OnDisconnect(fOrigin)
  BY <1>0, <1>2
  DEF OnConnect, OnMessage, OnDisconnect, Client!Connect, Client!Message, Client!Disconnect
<1>3. CASE ClientEnds
  BY <1>0, <1>3 DEF ClientEnds, CallbackMayCome, Client!End
<1>4. CASE ReadMessage \/ ReadFails \/ Joined \/ JoinTimesOut \/ Exit \/ ProxyDies
  BY <1>0, <1>4 DEF ReadMessage, ReadFails, Joined, JoinTimesOut, TimesOut, Exit, ProxyDies
<1>5. CASE Terminate
  BY <1>0, <1>5 DEF Terminate
<1>6. CASE UNCHANGED <<ppc, clientVars>>
  BY <1>0, <1>6
<1>7. ASSUME ExtensionNext, UNCHANGED clientVars PROVE UNCHANGED <<ppc, clientVars>>
  <2>1. ASSUME EventLoop \/ BrowserEnds PROVE ppc' = ppc
    BY <2>1 DEF EventLoop, OnRemoved, message_handler, disconnect_handler, CarryOut, BrowserEnds
  <2>2. ASSUME PageStep \/ UserStep PROVE ppc' = ppc
    BY <2>2, PagesLeaveTheButtonAlone
  <2> QED BY <1>7, <2>1, <2>2 DEF ExtensionNext, PageStep, UserStep
<1> QED BY <1>1, <1>2, <1>3, <1>4, <1>5, <1>6, <1>7 DEF Next, ProxyNext, MainThread

\* A callback of the client pushes the truth, or does not change it.
LEMMA CallbackStep ==
    ASSUME BInv, OnConnect \/ OnMessage \/ (\E fOrigin \in BOOLEAN : OnDisconnect(fOrigin)),
           UNCHANGED buttonVars
    PROVE  TruthIsOnItsWay' /\ HideFollows' /\ NoRace' /\ EndIsOnItsWay'
<1>1. UNCHANGED <<buttonVars, port>>
  BY DEF OnConnect, OnMessage, OnDisconnect
<1>2. HideFollows' /\ NoRace' /\ EndIsOnItsWay'
  BY <1>1 DEF BInv, HideFollows, NoRace, EndIsOnItsWay, Pending, Permanent
<1>3. ASSUME port = "open" PROVE TruthIsOnItsWay'
  <2>0. stdout \in Seq(Frames) /\ up \in BOOLEAN /\ silent \in BOOLEAN
    BY DEF BInv, TypeOK, PortTypes, ProxyTypes, Frames
  <2>1. ASSUME NEW frame \in {"connected", "disconnected"}, stdout' = Append(stdout, frame),
               (frame = "connected") = (up' \/ silent')
        PROVE  TruthIsOnItsWay'
    <3>1. /\ Len(stdout) \in Nat /\ DOMAIN stdout' = 1 .. (Len(stdout) + 1)
          /\ stdout'[Len(stdout) + 1] = frame
      BY <2>0, <2>1, Appended DEF Frames
    <3>2. \A i \in DOMAIN stdout' : i = Len(stdout) + 1 \/ Len(stdout) + 1 > i
      BY <3>1
    <3>3. Len(stdout) + 1 \in DOMAIN stdout' /\ frame # "reply"
      BY <3>1
    <3> QED BY <2>1, <3>1, <3>2, <3>3 DEF TruthIsOnItsWay
  <2>2. CASE OnConnect
    BY <1>3, <2>1, <2>2 DEF OnConnect, Client!Connect, Push
  <2>3. CASE OnMessage
    <3>1. stdout' = Append(stdout, "reply")
      BY <1>3, <2>3 DEF OnMessage, Push
    <3>2. UNCHANGED <<up, silent>>
      BY <2>3 DEF OnMessage, Client!Message
    <3>3. /\ Len(stdout) \in Nat /\ DOMAIN stdout = 1 .. Len(stdout)
          /\ DOMAIN stdout' = 1 .. (Len(stdout) + 1)
          /\ \A i \in 1 .. Len(stdout) : stdout'[i] = stdout[i]
          /\ stdout'[Len(stdout) + 1] = "reply"
      BY <2>0, <3>1, Appended DEF Frames
    <3>4. \A i \in DOMAIN stdout' : stdout'[i] # "reply" => i \in DOMAIN stdout
      BY <3>3
    <3>5. \A i \in DOMAIN stdout : i \in DOMAIN stdout' /\ stdout'[i] = stdout[i]
      BY <3>3
    <3> QED BY <1>1, <1>3, <3>2, <3>4, <3>5 DEF BInv, TruthIsOnItsWay, Pending
  <2>4. ASSUME NEW fOrigin \in BOOLEAN, OnDisconnect(fOrigin) PROVE TruthIsOnItsWay'
    <3>1. CASE fOrigin
      <4>1. (up' \/ silent') = (up \/ silent) /\ stdout' = stdout
        BY <2>4, <3>1 DEF OnDisconnect, Client!Disconnect
      <4> QED BY <1>1, <1>3, <4>1 DEF BInv, TruthIsOnItsWay, Pending
    <3>2. CASE ~fOrigin
      BY <1>3, <2>1, <2>4, <3>2 DEF OnDisconnect, Client!Disconnect, Push
    <3> QED BY <3>1, <3>2
  <2> QED BY <2>2, <2>3, <2>4
<1>4. ASSUME port # "open" PROVE TruthIsOnItsWay'
  <2>1. port' # "open"
    BY <1>1, <1>4
  <2> QED BY <2>1 DEF TruthIsOnItsWay
<1> QED BY <1>2, <1>3, <1>4

\* removeAll has called back: the button is to be disabled.
LEMMA OnRemovedStep ==
    ASSUME BInv, OnRemoved, UNCHANGED clientVars
    PROVE  TruthIsOnItsWay' /\ HideFollows' /\ NoRace' /\ EndIsOnItsWay'
<1> DEFINE n == Len(calls)
           hide == [op |-> "hide", title |-> Head(removed)]
<1>0. calls \in Seq(Calls) /\ removed \in Seq(Titles) /\ removed # <<>> /\ Head(removed) \in Titles
  BY DEF BInv, TypeOK, ButtonTypes, OnRemoved, Calls
<1>1. calls' = Append(calls, hide) /\ hide \in Calls /\ removed' = Tail(removed)
  BY <1>0 DEF OnRemoved, Call, Calls
<1>2. /\ n \in Nat /\ DOMAIN calls = 1 .. n /\ DOMAIN calls' = 1 .. (n + 1) /\ Len(calls') = n + 1
      /\ \A i \in 1 .. n : calls'[i] = calls[i]
      /\ calls'[n + 1] = hide /\ calls' # <<>>
  BY <1>0, <1>1, Appended
<1>3. UNCHANGED <<enabled, title, menus, raced, stdout, port, up, silent>>
  BY DEF OnRemoved
<1> HIDE DEF n
<1>4. /\ \A i \in DOMAIN calls : i \in DOMAIN calls' /\ calls'[i] = calls[i]
      /\ n + 1 \in DOMAIN calls' /\ calls'[n + 1].op = "hide" /\ calls'[n + 1].title = Head(removed)
      /\ \A i \in DOMAIN calls' : calls'[i].op # "hide" => i \in DOMAIN calls
  BY <1>2
<1>5. (Pending("show")' = Pending("show")) /\ (Pending("removeAll")' = Pending("removeAll"))
      /\ Pending("hide")'
  BY <1>4 DEF Pending
<1>6. TruthIsOnItsWay'
  BY <1>3, <1>4, <1>5 DEF BInv, TruthIsOnItsWay
<1>7. HideFollows'
  BY <1>5 DEF HideFollows
<1>8. NoRace'
  <2> SUFFICES ASSUME ~raced
               PROVE  /\ \A i, j \in DOMAIN calls' :
                            i < j /\ calls'[j].op = "show" => calls'[i].op = "show"
                      /\ ~Pending("show")' /\ ~menus'
    BY <1>3 DEF NoRace
  <2>1. ~Pending("show") /\ ~menus
    BY <1>0 DEF BInv, NoRace
  <2> QED BY <1>3, <1>5, <2>1 DEF Pending
<1>9. EndIsOnItsWay'
  <2> SUFFICES ASSUME port = "closed" PROVE EndIsOnItsWay'
    BY <1>3 DEF EndIsOnItsWay
  <2>1. ASSUME NEW i \in DOMAIN calls,
               calls[i] = [op |-> "removeAll", title |-> permanently_disconnected_from_sm],
               \A j \in DOMAIN calls : j > i => calls[j].op = "hide"
        PROVE  EndIsOnItsWay'
    <3>1. i \in DOMAIN calls' /\ calls'[i] = calls[i]
      BY <1>4
    <3>2. \A j \in DOMAIN calls' : j > i => calls'[j].op = "hide"
      BY <1>2, <1>4, <2>1
    <3> QED BY <2>1, <3>1, <3>2 DEF EndIsOnItsWay
  <2>2. ASSUME ~menus, ~Pending("show"), ~Pending("removeAll"),
               removed[Len(removed)] = permanently_disconnected_from_sm
        PROVE  EndIsOnItsWay'
    <3>1. \/ Len(removed) > 1 /\ Tail(removed) # <<>>
             /\ Tail(removed)[Len(Tail(removed))] = removed[Len(removed)]
          \/ Tail(removed) = <<>> /\ Head(removed) = removed[Len(removed)]
      <4>1. /\ Tail(removed) \in Seq(Titles) /\ Head(removed) = removed[1]
            /\ Len(removed) \in Nat /\ Len(removed) >= 1 /\ Len(Tail(removed)) = Len(removed) - 1
            /\ \A i \in 1 .. (Len(removed) - 1) : Tail(removed)[i] = removed[i + 1]
        BY <1>0, Shortened
      <4>2. CASE Len(removed) = 1
        <5>1. Len(Tail(removed)) = 0
          BY <4>1, <4>2
        <5>2. Tail(removed) = <<>>
          BY <4>1, <5>1, NothingLeft
        <5> QED BY <4>1, <4>2, <5>2
      <4>3. CASE Len(removed) > 1
        <5>1. Tail(removed) # <<>>
          <6>1. Len(Tail(removed)) # 0 /\ Len(<<>>) = 0
            BY <4>1, <4>3
          <6> QED BY <6>1, Zenon
        <5>2. Tail(removed)[Len(removed) - 1] = removed[Len(removed) - 1 + 1]
          BY <4>1, <4>3
        <5> QED BY <4>1, <4>3, <5>1, <5>2
      <4> QED BY <4>1, <4>2, <4>3
    <3> QED BY <1>1, <1>2, <1>3, <1>4, <1>5, <2>2, <3>1 DEF EndIsOnItsWay
  <2> QED BY <1>0, <2>1, <2>2 DEF BInv, EndIsOnItsWay
<1> QED BY <1>6, <1>7, <1>8, <1>9

\* The handler of a frame makes the frame's news a call.
LEMMA MessageStep ==
    ASSUME BInv, message_handler, UNCHANGED clientVars
    PROVE  TruthIsOnItsWay' /\ HideFollows' /\ NoRace' /\ EndIsOnItsWay'
<1> DEFINE n == Len(calls)
           m == Len(stdout)
<1>0. /\ calls \in Seq(Calls) /\ stdout \in Seq(Frames) /\ stdout # <<>> /\ port = "open"
      /\ port' = "open" /\ stdout' = Tail(stdout)
      /\ UNCHANGED <<removed, enabled, title, menus, up, silent>>
  BY DEF BInv, TypeOK, ButtonTypes, PortTypes, message_handler, Calls, Frames
<1>1. /\ m \in Nat /\ m >= 1 /\ DOMAIN stdout = 1 .. m /\ DOMAIN stdout' = 1 .. (m - 1)
      /\ \A i \in 1 .. (m - 1) : stdout'[i] = stdout[i + 1]
      /\ Head(stdout) = stdout[1] /\ stdout[1] \in Frames
  BY <1>0, Shortened
<1> HIDE DEF m
<1>2. EndIsOnItsWay'
  BY <1>0 DEF EndIsOnItsWay
\* The frames that are left say what they said.
<1>3. ASSUME NEW i \in DOMAIN stdout', stdout'[i] # "reply",
             \A j \in DOMAIN stdout' : j > i => stdout'[j] = "reply"
      PROVE  (stdout'[i] = "connected") = (up \/ silent)
  <2>1. i + 1 \in DOMAIN stdout /\ stdout[i + 1] = stdout'[i]
    BY <1>1
  <2>2. \A j \in DOMAIN stdout : j > i + 1 => stdout[j] = "reply"
    <3> SUFFICES ASSUME NEW j \in DOMAIN stdout, j > i + 1 PROVE stdout[j] = "reply"
      OBVIOUS
    <3>1. j - 1 \in DOMAIN stdout' /\ j - 1 > i /\ stdout'[j - 1] = stdout[j - 1 + 1]
      BY <1>1
    <3>2. j - 1 + 1 = j
      BY <1>1
    <3> QED BY <1>3, <3>1, <3>2
  <2> QED BY <1>0, <1>3, <2>1, <2>2 DEF BInv, TruthIsOnItsWay
<1>4. ASSUME \A i \in DOMAIN stdout' : stdout'[i] = "reply"
      PROVE  \A i \in DOMAIN stdout : i > 1 => stdout[i] = "reply"
  <2> SUFFICES ASSUME NEW i \in DOMAIN stdout, i > 1 PROVE stdout[i] = "reply"
    OBVIOUS
  <2>1. i - 1 \in DOMAIN stdout' /\ stdout'[i - 1] = stdout[i - 1 + 1] /\ i - 1 + 1 = i
    BY <1>1
  <2> QED BY <1>4, <2>1
<1>5. CASE stdout[1] = "reply"
  <2>1. UNCHANGED <<calls, raced>>
    BY <1>1, <1>5 DEF message_handler
  <2>2. TruthIsOnItsWay'
    <3>1. ASSUME \A i \in DOMAIN stdout' : stdout'[i] = "reply"
          PROVE  \A i \in DOMAIN stdout : stdout[i] = "reply"
      <4>1. \A i \in DOMAIN stdout : i = 1 \/ i > 1
        BY <1>1
      <4> QED BY <1>4, <1>5, <3>1, <4>1
    <3> QED BY <1>0, <1>3, <2>1, <3>1 DEF BInv, TruthIsOnItsWay, Pending
  <2>3. HideFollows' /\ NoRace'
    BY <1>0, <2>1 DEF BInv, HideFollows, NoRace, Pending
  <2> QED BY <1>2, <2>2, <2>3
<1>6. ASSUME NEW op \in {"show", "removeAll"}, NEW call \in Calls,
             call.op = op, calls' = Append(calls, call),
             stdout[1] # "reply", (op = "show") = (stdout[1] = "connected")
      PROVE  /\ \A i \in DOMAIN calls : i \in DOMAIN calls' /\ calls'[i] = calls[i]
             /\ n + 1 \in DOMAIN calls' /\ calls'[n + 1].op = op
             /\ \A i \in DOMAIN calls' : i \in DOMAIN calls \/ i = n + 1
             /\ \A i \in DOMAIN calls : n + 1 > i
             /\ TruthIsOnItsWay' /\ HideFollows'
  <2>1. /\ n \in Nat /\ DOMAIN calls = 1 .. n /\ DOMAIN calls' = 1 .. (n + 1)
        /\ \A i \in 1 .. n : calls'[i] = calls[i]
        /\ calls'[n + 1] = call
    BY <1>0, <1>6, Appended
  <2> HIDE DEF n
  <2>2. /\ \A i \in DOMAIN calls : i \in DOMAIN calls' /\ calls'[i] = calls[i]
        /\ n + 1 \in DOMAIN calls' /\ calls'[n + 1].op = op
        /\ \A i \in DOMAIN calls' : i \in DOMAIN calls \/ i = n + 1
        /\ \A i \in DOMAIN calls : n + 1 > i
    BY <1>6, <2>1
  <2>3. HideFollows'
    <3>1. Pending("hide") => Pending("hide")'
      BY <2>2 DEF Pending
    <3> QED BY <1>0, <3>1 DEF BInv, HideFollows
  <2>4. ASSUME \A i \in DOMAIN stdout' : stdout'[i] = "reply"
        PROVE  (op = "show") = (up \/ silent)
    <3>1. 1 \in DOMAIN stdout /\ \A i \in DOMAIN stdout : i > 1 => stdout[i] = "reply"
      BY <1>1, <1>4, <2>4
    <3> QED BY <1>0, <1>6, <3>1 DEF BInv, TruthIsOnItsWay
  <2>5. Pending("show")' \/ Pending("removeAll")'
    BY <2>2 DEF Pending
  <2>6. TruthIsOnItsWay'
    BY <1>0, <1>3, <2>2, <2>4, <2>5 DEF TruthIsOnItsWay
  <2> QED BY <2>2, <2>3, <2>6
<1>7. CASE stdout[1] = "connected"
  <2> DEFINE call == [op |-> "show", title |-> send_to_sm]
  <2>1. call \in Calls /\ calls' = Append(calls, call) /\ raced' = RemovalUnderWay
    BY <1>1, <1>7
    DEF message_handler, update_extension_state, Call, TitleOr, Calls, Titles
  <2>2. TruthIsOnItsWay' /\ HideFollows'
    BY <1>6, <1>7, <2>1
  <2>3. NoRace'
    <3> SUFFICES ASSUME ~RemovalUnderWay PROVE NoRace'
      BY <2>1 DEF NoRace
    <3>1. removed = <<>> /\ \A i \in DOMAIN calls : calls[i].op = "show"
      BY DEF RemovalUnderWay
    <3>2. \A i \in DOMAIN calls' : calls'[i].op = "show"
      BY <1>6, <1>7, <2>1, <3>1
    <3>3. Pending("show")' /\ ~Pending("hide")'
      BY <1>6, <1>7, <2>1, <3>2 DEF Pending
    <3> QED BY <1>0, <3>1, <3>2, <3>3 DEF NoRace
  <2> QED BY <1>2, <2>2, <2>3
<1>8. CASE stdout[1] = "disconnected"
  <2> DEFINE call == [op |-> "removeAll", title |-> cannot_send_to_sm]
  <2>1. call \in Calls /\ calls' = Append(calls, call) /\ raced' = raced
    BY <1>1, <1>8
    DEF message_handler, update_extension_state, Call, TitleOr, Calls, Titles
  <2>2. TruthIsOnItsWay' /\ HideFollows'
    BY <1>6, <1>8, <2>1
  <2>3. NoRace'
    <3>1. /\ \A i \in DOMAIN calls : i \in DOMAIN calls' /\ calls'[i] = calls[i]
          /\ \A i \in DOMAIN calls' : i \in DOMAIN calls \/ calls'[i].op = "removeAll"
      BY <1>6, <1>8, <2>1
    <3>2. \A j \in DOMAIN calls' : calls'[j].op = "show" => j \in DOMAIN calls
      BY <3>1
    <3>3. \A i, j \in DOMAIN calls' : i < j /\ j \in DOMAIN calls => i \in DOMAIN calls
      BY <1>6, <1>8, <2>1
    <3>4. (Pending("show")' = Pending("show")) /\ (Pending("hide")' = Pending("hide"))
      BY <3>1 DEF Pending
    <3> QED BY <1>0, <2>1, <3>1, <3>2, <3>3, <3>4 DEF BInv, NoRace
  <2> QED BY <1>2, <2>2, <2>3
<1> QED BY <1>1, <1>5, <1>7, <1>8 DEF Frames

\* The end of the proxy comes after every frame; its call is the last.
LEMMA DisconnectStep ==
    ASSUME BInv, disconnect_handler, UNCHANGED clientVars
    PROVE  TruthIsOnItsWay' /\ HideFollows' /\ NoRace' /\ EndIsOnItsWay'
<1> DEFINE n == Len(calls)
           call == [op |-> "removeAll", title |-> permanently_disconnected_from_sm]
<1>0. calls \in Seq(Calls) /\ port' = "closed" /\ UNCHANGED <<removed, enabled, title, menus, raced>>
  BY DEF BInv, TypeOK, ButtonTypes, disconnect_handler, Calls
<1>1. calls' = Append(calls, call) /\ call \in Calls
  <2>1. AtTheEnd # NoTitle
    BY DEF AtTheEnd, NoTitle, permanently_disconnected_from_sm
  <2> QED BY <2>1 DEF disconnect_handler, update_extension_state, Call, TitleOr, AtTheEnd,
                      Calls, Titles
<1>2. /\ n \in Nat /\ DOMAIN calls = 1 .. n /\ DOMAIN calls' = 1 .. (n + 1)
      /\ \A i \in 1 .. n : calls'[i] = calls[i]
      /\ calls'[n + 1] = call
  BY <1>0, <1>1, Appended
<1> HIDE DEF n
<1>3. /\ \A i \in DOMAIN calls : i \in DOMAIN calls' /\ calls'[i] = calls[i]
      /\ \A i \in DOMAIN calls' : i \in DOMAIN calls \/ calls'[i].op = "removeAll"
      /\ \A i, j \in DOMAIN calls' : i < j /\ j \in DOMAIN calls => i \in DOMAIN calls
      /\ n + 1 \in DOMAIN calls' /\ \A i \in DOMAIN calls' : ~(i > n + 1)
  BY <1>2
<1>4. (Pending("show")' = Pending("show")) /\ (Pending("hide")' = Pending("hide"))
  BY <1>3 DEF Pending
<1>5. TruthIsOnItsWay'
  BY <1>0 DEF TruthIsOnItsWay
<1>6. HideFollows'
  BY <1>0, <1>4 DEF BInv, HideFollows
<1>7. NoRace'
  <2>1. \A j \in DOMAIN calls' : calls'[j].op = "show" => j \in DOMAIN calls
    BY <1>3
  <2> QED BY <1>0, <1>3, <1>4, <2>1 DEF BInv, NoRace
<1>8. EndIsOnItsWay'
  BY <1>2, <1>3 DEF EndIsOnItsWay
<1> QED BY <1>5, <1>6, <1>7, <1>8

\* The browser carries out a call.
LEMMA CarryOutStep ==
    ASSUME BInv, CarryOut, UNCHANGED clientVars
    PROVE  TruthIsOnItsWay' /\ HideFollows' /\ NoRace' /\ EndIsOnItsWay'
<1> DEFINE n == Len(calls)
           call == calls[1]
<1>0. /\ calls \in Seq(Calls) /\ calls # <<>> /\ calls' = Tail(calls) /\ removed \in Seq(Titles)
      /\ UNCHANGED <<raced, port, stdout, up, silent>>
  BY DEF BInv, TypeOK, ButtonTypes, CarryOut, Calls
<1>1. /\ n \in Nat /\ n >= 1 /\ DOMAIN calls = 1 .. n /\ DOMAIN calls' = 1 .. (n - 1)
      /\ \A i \in 1 .. (n - 1) : calls'[i] = calls[i + 1]
      /\ Head(calls) = call /\ call \in Calls
      /\ Len(calls') = n - 1 /\ calls' \in Seq(Calls)
  BY <1>0, Shortened
<1> HIDE DEF n
<1>2. 1 \in DOMAIN calls /\ call.op \in {"show", "removeAll", "hide"} /\ call.title \in Titles
  BY <1>1 DEF Calls
<1>3. ASSUME NEW i \in DOMAIN calls' PROVE i + 1 \in DOMAIN calls /\ calls[i + 1] = calls'[i]
  BY <1>1
<1>4. ASSUME NEW i \in DOMAIN calls, i # 1
      PROVE  i - 1 \in DOMAIN calls' /\ calls'[i - 1] = calls[i] /\ i - 1 + 1 = i
  <2>1. i - 1 \in 1 .. (n - 1) /\ i - 1 + 1 = i
    BY <1>1, <1>4
  <2> QED BY <1>1, <2>1
<1>5. ASSUME NEW op PROVE Pending(op) = (call.op = op \/ Pending(op)')
  <2>1. ASSUME Pending(op) PROVE call.op = op \/ Pending(op)'
    <3>1. PICK i \in DOMAIN calls : calls[i].op = op
      BY <2>1 DEF Pending
    <3> QED BY <1>4, <3>1 DEF Pending
  <2>2. ASSUME call.op = op PROVE Pending(op)
    BY <1>2, <2>2 DEF Pending
  <2>3. ASSUME Pending(op)' PROVE Pending(op)
    <3>1. PICK i \in DOMAIN calls' : calls'[i].op = op
      BY <2>3 DEF Pending
    <3> QED BY <1>3, <3>1 DEF Pending
  <2>4. Pending(op) \in BOOLEAN /\ Pending(op)' \in BOOLEAN
    BY DEF Pending
  <2> QED BY <2>1, <2>2, <2>3, <2>4
<1>6. /\ call.op = "show" => enabled' /\ menus' /\ removed' = removed
      /\ call.op = "removeAll" =>
            ~menus' /\ enabled' = enabled /\ title' = title /\ removed' = Append(removed, call.title)
      /\ call.op = "hide" =>
            ~enabled' /\ title' = call.title /\ menus' = menus /\ removed' = removed
  BY <1>1, <1>2 DEF CarryOut, AfterRemoval
\* The rest of the calls say what they said.
<1>7. ASSUME NEW i \in DOMAIN calls', \A j \in DOMAIN calls' : j > i => calls'[j].op = "hide"
      PROVE  \A j \in DOMAIN calls : j > i + 1 => calls[j].op = "hide"
  <2> SUFFICES ASSUME NEW j \in DOMAIN calls, j > i + 1 PROVE calls[j].op = "hide"
    OBVIOUS
  <2>1. j # 1 /\ j - 1 > i
    BY <1>1
  <2> QED BY <1>4, <1>7, <2>1
<1>8. ASSUME ~Pending("show")', ~Pending("removeAll")', call.op # "hide"
      PROVE  \A j \in DOMAIN calls : j > 1 => calls[j].op = "hide"
  <2> SUFFICES ASSUME NEW j \in DOMAIN calls, j > 1 PROVE calls[j].op = "hide"
    OBVIOUS
  <2>1. j - 1 \in DOMAIN calls' /\ calls'[j - 1] = calls[j]
    BY <1>1, <1>4
  <2>2. calls[j].op \in {"show", "removeAll", "hide"}
    <3>1. calls[j] \in Calls
      BY <1>0
    <3> QED BY <3>1 DEF Calls
  <2>3. calls[j].op # "show"
    BY <1>8, <2>1 DEF Pending
  <2>4. calls[j].op # "removeAll"
    BY <1>8, <2>1 DEF Pending
  <2> QED BY <2>2, <2>3, <2>4
<1>9. TruthIsOnItsWay'
  <2> SUFFICES ASSUME port = "open" PROVE TruthIsOnItsWay'
    BY <1>0 DEF TruthIsOnItsWay
  <2>1. ASSUME \A i \in DOMAIN stdout : stdout[i] = "reply",
               NEW i \in DOMAIN calls', calls'[i].op # "hide",
               \A j \in DOMAIN calls' : j > i => calls'[j].op = "hide"
        PROVE  (calls'[i].op = "show") = (up \/ silent)
    BY <1>3, <1>7, <2>1 DEF BInv, TruthIsOnItsWay
  <2>2. ASSUME \A i \in DOMAIN stdout : stdout[i] = "reply",
               ~Pending("show")', ~Pending("removeAll")'
        PROVE  menus' = (up \/ silent)
    <3>1. CASE call.op = "hide"
      <4>1. ~Pending("show") /\ ~Pending("removeAll")
        BY <1>5, <2>2, <3>1
      <4> QED BY <1>6, <2>2, <3>1, <4>1 DEF BInv, TruthIsOnItsWay
    <3>2. CASE call.op # "hide"
      <4>1. (call.op = "show") = (up \/ silent)
        BY <1>2, <1>8, <2>2, <3>2 DEF BInv, TruthIsOnItsWay
      <4>2. menus \in BOOLEAN /\ menus' \in BOOLEAN
        BY <1>1, <1>2, <3>2 DEF BInv, TypeOK, ButtonTypes, CarryOut, AfterRemoval
      <4> QED BY <1>2, <1>6, <3>2, <4>1, <4>2
    <3> QED BY <3>1, <3>2
  <2>3. \A i \in DOMAIN stdout :
          /\ stdout[i] # "reply"
          /\ \A j \in DOMAIN stdout : j > i => stdout[j] = "reply"
          => (stdout[i] = "connected") = (up \/ silent)
    BY DEF BInv, TruthIsOnItsWay
  <2> QED BY <1>0, <2>1, <2>2, <2>3 DEF TruthIsOnItsWay
<1>10. HideFollows'
  <2>1. call.op = "removeAll" => removed' # <<>>
    BY <1>0, <1>2, <1>6
  <2> QED BY <1>2, <1>6, <2>1 DEF HideFollows
<1>11. NoRace'
  <2> SUFFICES ASSUME ~raced PROVE NoRace'
    BY <1>0 DEF NoRace
  <2>1. /\ \A i, j \in DOMAIN calls : i < j /\ calls[j].op = "show" => calls[i].op = "show"
        /\ Pending("show") => removed = <<>> /\ ~Pending("hide")
        /\ removed # <<>> \/ Pending("hide") => ~menus
        /\ menus /\ ~enabled => Pending("show")
    BY DEF BInv, NoRace
  <2>2. ASSUME NEW i \in DOMAIN calls', NEW j \in DOMAIN calls', i < j, calls'[j].op = "show"
        PROVE  calls'[i].op = "show"
    <3>1. i + 1 < j + 1
      BY <1>1, <2>2
    <3> QED BY <1>3, <2>1, <2>2, <3>1
  <2>3. Pending("show")' => call.op = "show"
    <3> SUFFICES ASSUME NEW j \in DOMAIN calls', calls'[j].op = "show" PROVE call.op = "show"
      BY DEF Pending
    <3>1. 1 < j + 1
      BY <1>1
    <3> QED BY <1>2, <1>3, <2>1, <3>1
  <2>4. Pending("show")' => removed' = <<>> /\ ~Pending("hide")'
    BY <1>5, <1>6, <2>1, <2>3
  <2>5. removed' # <<>> \/ Pending("hide")' => ~menus'
    BY <1>2, <1>5, <1>6, <2>1
  <2>6. menus' /\ ~enabled' => Pending("show")'
    BY <1>2, <1>5, <1>6, <2>1
  <2> QED BY <2>2, <2>4, <2>5, <2>6 DEF NoRace
<1>12. EndIsOnItsWay'
  <2> SUFFICES ASSUME port = "closed" PROVE EndIsOnItsWay'
    BY <1>0 DEF EndIsOnItsWay
  <2>1. ASSUME NEW i \in DOMAIN calls,
               calls[i] = [op |-> "removeAll", title |-> permanently_disconnected_from_sm],
               \A j \in DOMAIN calls : j > i => calls[j].op = "hide"
        PROVE  EndIsOnItsWay'
    <3>1. CASE i = 1
      <4>1. ~Pending("show")' /\ ~Pending("removeAll")'
        <5>1. \A k \in DOMAIN calls' : calls'[k].op = "hide"
          <6> SUFFICES ASSUME NEW k \in DOMAIN calls' PROVE calls'[k].op = "hide"
            OBVIOUS
          <6>1. k + 1 > 1
            BY <1>1
          <6> QED BY <1>3, <2>1, <3>1, <6>1
        <5> QED BY <5>1 DEF Pending
      <4>2. ~menus' /\ removed' = Append(removed, permanently_disconnected_from_sm)
        BY <1>6, <2>1, <3>1
      <4>3. removed' # <<>> /\ removed'[Len(removed')] = permanently_disconnected_from_sm
        BY <1>0, <4>2
      <4> QED BY <4>1, <4>2, <4>3 DEF EndIsOnItsWay
    <3>2. CASE i # 1
      <4>1. i - 1 \in DOMAIN calls' /\ calls'[i - 1] = calls[i]
        BY <1>4, <3>2
      <4>2. \A j \in DOMAIN calls' : j > i - 1 => calls'[j].op = "hide"
        <5> SUFFICES ASSUME NEW j \in DOMAIN calls', j > i - 1 PROVE calls'[j].op = "hide"
          OBVIOUS
        <5>1. j + 1 > i
          BY <1>1
        <5> QED BY <1>3, <2>1, <5>1
      <4> QED BY <2>1, <4>1, <4>2 DEF EndIsOnItsWay
    <3> QED BY <3>1, <3>2
  <2>2. ASSUME ~menus, ~Pending("show"), ~Pending("removeAll")
        PROVE  /\ call.op = "hide" /\ ~menus' /\ ~enabled' /\ removed' = removed
               /\ title' = call.title
               /\ ~Pending("show")' /\ ~Pending("removeAll")'
    <3>1. call.op = "hide"
      BY <1>2, <1>5, <2>2
    <3>2. ~Pending("show")' /\ ~Pending("removeAll")'
      BY <1>5, <2>2
    <3> QED BY <1>6, <2>2, <3>1, <3>2
  <2>3. ASSUME ~menus, ~Pending("show"), ~Pending("removeAll"), removed # <<>>,
               removed[Len(removed)] = permanently_disconnected_from_sm
        PROVE  EndIsOnItsWay'
    BY <2>2, <2>3 DEF EndIsOnItsWay
  <2>4. ASSUME ~menus, ~Pending("show"), ~Pending("removeAll"), removed = <<>>,
               calls[Len(calls)].title = permanently_disconnected_from_sm
        PROVE  EndIsOnItsWay'
    <3>1. CASE n = 1
      <4>1. calls' = <<>>
        <5>1. Len(calls') = 0
          BY <1>1, <3>1
        <5> QED BY <1>1, <5>1, NothingLeft
      <4>2. title' = permanently_disconnected_from_sm
        BY <2>2, <2>4, <3>1 DEF n
      <4> QED BY <2>2, <2>4, <4>1, <4>2 DEF EndIsOnItsWay, Permanent
    <3>2. CASE n # 1
      <4>1. n - 1 \in DOMAIN calls' /\ calls'[n - 1] = calls[n]
        BY <1>1, <1>4, <3>2
      <4>2. calls' # <<>> /\ calls'[Len(calls')].title = permanently_disconnected_from_sm
        BY <1>1, <2>4, <4>1 DEF n
      <4> QED BY <2>2, <2>4, <4>2 DEF EndIsOnItsWay
    <3> QED BY <3>1, <3>2
  <2> QED BY <1>0, <2>1, <2>3, <2>4 DEF BInv, EndIsOnItsWay
<1> QED BY <1>9, <1>10, <1>11, <1>12

-----------------------------------------------------------------------------
(* Theorems *)

THEOREM BInductive == BInv /\ [Next]_vars => BInv'
<1> SUFFICES ASSUME BInv, [Next]_vars PROVE BInv'
  OBVIOUS
<1> DEFINE Rest == TruthIsOnItsWay' /\ HideFollows' /\ NoRace' /\ EndIsOnItsWay'
<1>1. TypeOK'
  BY TypesStep DEF BInv
<1>2. ASSUME OnConnect \/ OnMessage \/ (\E fOrigin \in BOOLEAN : OnDisconnect(fOrigin)),
             UNCHANGED buttonVars
      PROVE  Rest
  BY <1>2, CallbackStep
<1>3. ASSUME EnterLock \/ LeaveLock \/ ClientEnds \/ MainThread \/ ProxyDies,
             UNCHANGED buttonVars
      PROVE  Rest
  <2>1. Still
    BY <1>3 DEF EnterLock, LeaveLock, ClientEnds, Client!End, MainThread, ReadMessage,
                ReadFails, Joined, JoinTimesOut, Terminate, Exit, ProxyDies, Still
  <2> QED BY <2>1, StillStep
<1>4. ASSUME PageStep \/ UserStep, UNCHANGED clientVars PROVE Rest
  <2>1. Still
    BY <1>4, PagesLeaveTheButtonAlone DEF Still
  <2> QED BY <2>1, StillStep
<1>5. ASSUME EventLoop, UNCHANGED clientVars PROVE Rest
  BY <1>5, OnRemovedStep, MessageStep, DisconnectStep, CarryOutStep DEF EventLoop
<1>6. ASSUME BrowserEnds, UNCHANGED clientVars PROVE Rest
  <2>1. port' = "gone" /\ UNCHANGED buttonVars
    BY <1>6 DEF BrowserEnds
  <2>2. TruthIsOnItsWay' /\ EndIsOnItsWay'
    BY <2>1 DEF TruthIsOnItsWay, EndIsOnItsWay
  <2>3. HideFollows' /\ NoRace'
    BY <2>1 DEF BInv, HideFollows, NoRace, Pending
  <2> QED BY <2>2, <2>3
<1>7. ASSUME UNCHANGED vars PROVE Rest
  BY <1>7, StillStep DEF Still
<1>8. ExitHasAWay'
  BY ExitStep DEF BInv
<1> QED BY <1>1, <1>2, <1>3, <1>4, <1>5, <1>6, <1>7, <1>8
        DEF BInv, Next, ProxyNext, ExtensionNext, PageStep, UserStep

\* Every state of the extension and the proxy satisfies the inductive invariant.
THEOREM BridgeInvariance == Spec => []BInv
<1> QED BY InitBInv, BInductive, PTL DEF Spec

\* The types; in particular csPort holds tabs, however often its holes are closed.
THEOREM BridgeTypes == Spec => []TypeOK
<1>1. BInv => TypeOK
  BY DEF BInv
<1> QED BY <1>1, BridgeInvariance, PTL

\* With nothing on its way, the menus are there just when the client is connected or
\* broke the connection silently, and the button goes with them.
THEOREM QuietMenusTellTruth == Spec => []MenusTellTruth
<1>1. BInv => MenusTellTruth
  <2> SUFFICES ASSUME BInv, Quiet PROVE MenusTellTruth
    BY DEF MenusTellTruth
  <2>1. port = "open" /\ DOMAIN stdout = {} /\ DOMAIN calls = {} /\ removed = <<>>
    BY DEF Quiet
  <2>2. ~Pending("show") /\ ~Pending("removeAll") /\ ~Pending("hide")
    BY <2>1 DEF Pending
  <2>3. menus = (up \/ silent)
    BY <2>1, <2>2 DEF BInv, TruthIsOnItsWay
  <2>4. (enabled => menus) /\ (menus /\ ~raced => enabled)
    BY <2>1, <2>2 DEF BInv, HideFollows, NoRace
  <2> QED BY <2>3, <2>4 DEF MenusTellTruth
<1> QED BY <1>1, BridgeInvariance, PTL

\* When disconnect_handler's calls have been carried out the button is disabled for
\* good.
THEOREM QuietEndIsPermanent == Spec => []PermanentWhenQuiet
<1>1. BInv => PermanentWhenQuiet
  BY DEF BInv, EndIsOnItsWay, PermanentWhenQuiet
<1> QED BY <1>1, BridgeInvariance, PTL

\* The safety part of ProxyEndsWithBrowser: past client.Stop() nobody holds a lock that
\* the destructor and the exit need but a thread that was terminated with it, and
\* before that no lock is lost.
THEOREM OnlyTheTerminatedBlockTheExit ==
    Spec => [](locked /\ (ppc = "leaving" \/ ~ThreadRuns) => LockStuck /\ ppc \in {"leaving", "exited"})
<1>1. BInv => (locked /\ (ppc = "leaving" \/ ~ThreadRuns) => LockStuck /\ ppc \in {"leaving", "exited"})
  BY DEF BInv, ExitHasAWay, LockStuck, ThreadRuns
<1> QED BY <1>1, BridgeInvariance, PTL

\* The calls of disconnect_handler have been carried out.
Ended == port = "closed" /\ calls = <<>> /\ removed = <<>>

LEMMA EndedStays ==
    BInv /\ [Next]_vars => /\ Ended => Ended' \/ port' = "gone"
                           /\ port = "gone" => port' = "gone"
<1> SUFFICES ASSUME BInv, [Next]_vars
             PROVE  /\ Ended => Ended' \/ port' = "gone"
                    /\ port = "gone" => port' = "gone"
  OBVIOUS
<1>1. ASSUME ProxyNext
      PROVE  UNCHANGED port
  BY <1>1 DEF ProxyNext, EnterLock, LeaveLock, OnConnect, OnMessage, ClientEnds,
              OnDisconnect, MainThread, ReadMessage, ReadFails, Joined, JoinTimesOut,
              Terminate, Exit, ProxyDies
<1>2. CASE ProxyNext /\ UNCHANGED <<buttonVars, tabVars, userVars>>
  BY <1>1, <1>2 DEF Ended
<1>3. CASE OnRemoved \/ CarryOut
  BY <1>3 DEF OnRemoved, CarryOut, Alive, Ended
<1>4. CASE message_handler \/ disconnect_handler
  BY <1>4 DEF message_handler, disconnect_handler, Ended
<1>5. CASE BrowserEnds
  BY <1>5 DEF BrowserEnds
<1>6. ASSUME \/ \E t \in Tabs : Load(t) \/ cs_connected(t) \/ cs_disconnected(t)
             \/ \E c \in pageCommands : on_message(c)
             \/ on_content_script_message
             \/ on_button_clicked \/ SendLink \/ SendImage
             \/ \E t \in Tabs, cmd \in {"page", "selection"} : SendPage(t, cmd)
             \/ \E succeeds \in BOOLEAN : Downloaded(succeeds)
             \/ UNCHANGED vars
      PROVE  UNCHANGED <<port, calls, removed>>
  BY <1>6 DEF Load, cs_connected, cs_disconnected, on_message, on_content_script_message,
              on_button_clicked, SendLink, SendImage, SendPage, Downloaded, Command
<1>7. CASE UNCHANGED <<port, calls, removed>>
  BY <1>7 DEF Ended
<1> QED BY <1>2, <1>3, <1>4, <1>5, <1>6, <1>7 DEF Next, ExtensionNext, EventLoop

\* The safety part of PermanentAtLast: what the calls of disconnect_handler have made
\* of the button and the menus is never taken back, while the browser lives.
THEOREM PermanentIsForGood ==
    Spec => [](Ended => [](port = "gone" \/ Permanent))
<1>1. BInv => (Ended => Permanent)
  BY DEF BInv, EndIsOnItsWay, Ended
<1> DEFINE Gone == port = "gone"
<1>2. BInv /\ [Next]_vars => (Ended => Ended' \/ Gone') /\ (Gone => Gone')
  BY EndedStays
<1> HIDE DEF Gone
<1>3. Spec => [](Ended => [](Gone \/ Permanent))
  BY <1>1, <1>2, BridgeInvariance, PTL DEF Spec
<1> QED BY <1>3 DEF Gone
=============================================================================
