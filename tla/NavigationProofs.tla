-------------------------- MODULE NavigationProofs --------------------------
(***************************************************************************)
(* For every set of calls and every value of the bounds, Navigation keeps  *)
(* its types, strands no entry of Handler.navigations and loses no caller; *)
(* the browser is asked for one navigation at a time, a goto that nothing  *)
(* disturbs succeeds only after its document has loaded, and the pipeline  *)
(* as a whole implements the line of gotos of NavigationQueue.             *)
(***************************************************************************)
EXTENDS Navigation, TLAPS, WellFoundedInduction

USE CallsAssumption, BoundsAssumption

-----------------------------------------------------------------------------
(* Sequences *)

LEMMA HeadTail ==
  ASSUME NEW S, NEW s \in Seq(S), s # <<>>
  PROVE  /\ Len(s) \in Nat \ {0}
         /\ Head(s) \in S
         /\ Head(s) = s[1]
         /\ Tail(s) \in Seq(S)
         /\ Len(Tail(s)) = Len(s) - 1
         /\ \A i \in 1..Len(Tail(s)) : Tail(s)[i] = s[i + 1]
  OBVIOUS

LEMMA AppendFacts ==
  ASSUME NEW S, NEW s \in Seq(S), NEW x \in S
  PROVE  /\ Append(s, x) \in Seq(S)
         /\ Len(Append(s, x)) = Len(s) + 1
         /\ Append(s, x)[Len(s) + 1] = x
         /\ \A i \in 1..Len(s) : Append(s, x)[i] = s[i]
  OBVIOUS

-----------------------------------------------------------------------------
(* Types *)

LEMMA EventTypes ==
  ASSUME NEW c \in Calls
  PROVE  /\ Command(c) \in TargetEvent
         /\ NavigationRequest(c) \in TargetEvent
         /\ \A r \in {"ok", "timeout", "frameNotFound"} :
              NavigationResult(c, r) \in TargetEvent
  BY DEF Command, NavigationRequest, NavigationResult, TargetEvent

LEMMA MessageTypes ==
  /\ \A c \in Calls, r \in {"ok", "chromeError"} : Response(c, r) \in Message
  /\ \A t \in FrameEventTypes, f \in FrameIds, l \in Loader :
       FrameEvent(t, f, l) \in Message
  /\ Destroyed \in Message
  BY DEF Response, FrameEvent, Destroyed, Message

LEMMA InitTypeOK == Init => TypeOK
  <1> SUFFICES ASSUME Init PROVE TypeOK
    OBVIOUS
  <1>1. /\ main_frame \in [id : FrameIds, loader : Loader, loaded : BOOLEAN]
        /\ chrome \in [live : BOOLEAN, frame : FrameIds, committed : Loader,
                       loading : BOOLEAN, starting : Loader \cup {NoLoader},
                       owed : SUBSET Calls, pages : SUBSET PageLoaders,
                       pushes : 0..MaxPushes]
    <2>1. /\ 0 \in FrameIds /\ 0 \in 0..MaxPushes
          /\ InitialLoader \in Loader
      BY DEF FrameIds, Loader
    <2> QED BY <2>1 DEF Init
  <1>2. /\ outcome \in [Calls -> Outcomes]
        /\ navigations \in [Calls -> Entry \cup {NoEntry}]
        /\ navigation \in Watcher \cup {NoNavigation}
    BY DEF Init, Outcomes
  <1>3. /\ page_rx \in Seq(Calls) /\ outbox \in Seq(Calls)
        /\ queued_events \in Seq(TargetEvent) /\ inbox \in Seq(Message)
        /\ pending_navigations \in Seq(Watcher)
    BY DEF Init
  <1> QED
    BY <1>1, <1>2, <1>3 DEF Init, TypeOK

LEMMA GotoTypeOK ==
  ASSUME TypeOK, NEW c \in Calls, Goto(c)
  PROVE  TypeOK'
  <1> USE DEF TypeOK
  <1>1. page_rx' \in Seq(Calls)
    <2>1. Append(page_rx, c) \in Seq(Calls)
      OBVIOUS
    <2> QED BY <2>1 DEF Goto
  <1>2. outcome' \in [Calls -> Outcomes]
    <2>1. outcome \in [Calls -> Outcomes]
      OBVIOUS
    <2> HIDE DEF TypeOK
    <2>2. /\ \/ outcome' = [outcome EXCEPT ![c] = "waiting"]
             \/ outcome' = [outcome EXCEPT ![c] = "disconnected"]
          /\ {"waiting", "disconnected"} \subseteq Outcomes
      BY DEF Goto, Outcomes
    <2> QED BY <2>1, <2>2
  <1> QED
    BY <1>1, <1>2 DEF Goto, handlerVars, connVars, ghostVars

LEMMA TimersTypeOK ==
  ASSUME TypeOK, NEW c \in Calls,
         ClientTimeout(c) \/ CommandExpires(c)
  PROVE  TypeOK'
  <1>1. CASE ClientTimeout(c)
    BY <1>1 DEF ClientTimeout, TypeOK, Outcomes, targetVars, handlerVars,
                connVars, ghostVars
  <1>2. CASE CommandExpires(c)
    BY <1>2 DEF CommandExpires, TypeOK, callerVars, targetVars, connVars, ghostVars
  <1> QED BY <1>1, <1>2

LEMMA DeadlineTypeOK ==
  ASSUME TypeOK, DeadlinePasses
  PROVE  TypeOK'
  BY DEF DeadlinePasses, TypeOK, callerVars, handlerVars, connVars, ghostVars

LEMMA DeliverTypeOK ==
  ASSUME TypeOK, NEW c \in Calls, NEW r \in Outcomes, Deliver(c, r)
  PROVE  outcome' \in [Calls -> Outcomes]
  BY DEF Deliver, TypeOK

LEMMA HandleTargetEventTypeOK ==
  ASSUME TypeOK, HandleTargetEvent
  PROVE  TypeOK'
  <1> DEFINE ev == Head(queued_events)
  <1>1. /\ ev \in TargetEvent
        /\ Tail(queued_events) \in Seq(TargetEvent)
    BY HeadTail DEF HandleTargetEvent, TypeOK
  <1>2. ev.id \in Calls /\ ev.res \in {"none", "ok", "timeout", "frameNotFound"}
    BY <1>1 DEF TargetEvent
  <1>3. PICK c \in Calls : c = ev.id
    BY <1>2
  <1>7. ev.type = "NavigationResult" => ev.res \in {"ok", "timeout", "frameNotFound"}
    BY <1>1 DEF TargetEvent
  <1> HIDE DEF ev
  <1>4. CASE ev.type = "Command" /\ OnCommand(c)
    <2>1. pending_navigations' \in Seq(Watcher)
      <3>1. [id |-> c, frame |-> main_frame.id, loader |-> main_frame.loader,
             same_document |-> FALSE] \in Watcher
        BY DEF TypeOK, Watcher
      <3> QED BY <1>4, <3>1, AppendFacts DEF OnCommand, NavigateFrame, TypeOK
    <2>2. navigations' \in [Calls -> Entry \cup {NoEntry}]
      BY <1>4 DEF OnCommand, TypeOK, InProgress, Entry
    <2>3. solo' \subseteq Calls
      BY <1>4 DEF OnCommand
    <2> QED
      BY <1>1, <1>4, <2>1, <2>2, <2>3 DEF HandleTargetEvent, OnCommand, TypeOK, ev
  <1>5. CASE ev.type = "NavigationRequest" /\ OnNavigationRequest(c)
    <2>1. outbox' \in Seq(Calls)
      BY <1>5, AppendFacts DEF OnNavigationRequest, TypeOK
    <2> QED
      BY <1>1, <1>5, <2>1 DEF HandleTargetEvent, OnNavigationRequest, TypeOK, ev
  <1>6. CASE ev.type = "NavigationResult" /\ OnLifecycleCompleted(c, ev.res)
    <2>1. navigations[c] \in Entry \cup {NoEntry}
      BY DEF TypeOK
    <2>2. /\ outcome' \in [Calls -> Outcomes]
          /\ navigations' \in [Calls -> Entry \cup {NoEntry}]
      <3>1. CASE navigations[c] = NoEntry
        BY <1>6, <3>1 DEF OnLifecycleCompleted, TypeOK
      <3>2. CASE navigations[c] # NoEntry
        <4>1. /\ navigations[c] \in Entry
              /\ [navigations[c] EXCEPT !.navigated = TRUE] \in Entry
          BY <2>1, <3>2 DEF Entry
        <4>2. CASE ev.res = "ok" /\ navigations[c].response = NoResponse
          <5>1. /\ outcome' = outcome
                /\ navigations' = [navigations EXCEPT ![c].navigated = TRUE]
            BY <1>6, <3>2, <4>2 DEF OnLifecycleCompleted
          <5>2. navigations' =
                  [navigations EXCEPT ![c] = [navigations[c] EXCEPT !.navigated = TRUE]]
            BY <5>1
          <5> QED BY <4>1, <5>1, <5>2 DEF TypeOK
        <4>3. CASE ~(ev.res = "ok" /\ navigations[c].response = NoResponse)
          <5> DEFINE r == IF ev.res = "ok" THEN navigations[c].response ELSE ev.res
          <5>1. r \in Outcomes
            BY <1>6, <1>7, <4>1, <4>3 DEF Entry, Outcomes
          <5>2. /\ Deliver(c, r)
                /\ navigations' = [navigations EXCEPT ![c] = NoEntry]
            BY <1>6, <3>2, <4>3 DEF OnLifecycleCompleted
          <5> HIDE DEF r
          <5> QED BY <5>1, <5>2, DeliverTypeOK DEF TypeOK
        <4> QED BY <4>2, <4>3
      <3> QED BY <3>1, <3>2
    <2> QED
      BY <1>1, <1>6, <2>2 DEF HandleTargetEvent, OnLifecycleCompleted, TypeOK, ev
  <1> QED
    BY <1>3, <1>4, <1>5, <1>6 DEF HandleTargetEvent, ev

LEMMA DrainTypeOK ==
  ASSUME TypeOK, DrainPageChannel
  PROVE  TypeOK'
  <1>1. queued_events' \in Seq(TargetEvent)
    <2>1. \A i \in 1..Len(page_rx) : Command(page_rx[i]) \in TargetEvent
      BY EventTypes DEF TypeOK
    <2> QED BY <2>1 DEF DrainPageChannel, TypeOK
  <1>2. page_rx' \in Seq(Calls)
    BY DEF DrainPageChannel
  <1> QED
    BY <1>1, <1>2 DEF DrainPageChannel, TypeOK, callerVars, handlerVars, connVars,
                      ghostVars

LEMMA PollTypeOK ==
  ASSUME TypeOK, PollFrameManager
  PROVE  TypeOK'
  <1> USE DEF TypeOK
  <1>1. CASE PollWatched
    <2>1. navigation.id \in Calls
      BY <1>1 DEF PollWatched, Watcher
    <2>2. queued_events' \in Seq(TargetEvent)
      <3>1. PICK r \in {"ok", "timeout", "frameNotFound"} : NavigationEnds(r)
        BY <1>1 DEF PollWatched
      <3>2. NavigationResult(navigation.id, r) \in TargetEvent
        BY <2>1, EventTypes
      <3> QED BY <3>1, <3>2, AppendFacts DEF NavigationEnds
    <2> QED
      BY <1>1, <2>2 DEF PollFrameManager, PollWatched, NavigationEnds, callerVars,
                        handlerVars, connVars, ghostVars
  <1>2. CASE StartNext
    <2>1. /\ Head(pending_navigations) \in Watcher
          /\ Tail(pending_navigations) \in Seq(Watcher)
      BY <1>2, HeadTail DEF StartNext
    <2>2. Head(pending_navigations).id \in Calls
      BY <2>1 DEF Watcher
    <2>3. queued_events' \in Seq(TargetEvent)
      BY <1>2, <2>2, EventTypes, AppendFacts DEF StartNext
    <2> QED
      BY <1>2, <2>1, <2>3 DEF PollFrameManager, StartNext, callerVars,
                              handlerVars, connVars, ghostVars
  <1>3. CASE NothingToReport
    BY <1>3 DEF PollFrameManager, NothingToReport, callerVars, handlerVars,
                connVars, ghostVars
  <1> QED BY <1>1, <1>2, <1>3 DEF PollFrameManager

LEMMA ReadMessageTypeOK ==
  ASSUME TypeOK, ReadMessage
  PROVE  TypeOK'
  <1> DEFINE m == Head(inbox)
  <1>1. m \in Message /\ inbox' \in Seq(Message)
    BY HeadTail DEF ReadMessage, TypeOK
  <1>2. UNCHANGED <<pc, outbox, chrome, settled, solo>>
    BY DEF ReadMessage, ghostVars
  <1>3. \/ m.type = "response" /\ OnResponse(m.id, m.res)
        \/ m.type \in FrameEventTypes /\ OnFrameEvent(m)
        \/ UNCHANGED <<outcome, targetVars, handlerVars>>
        \/ OnTargetDestroyed
    BY DEF ReadMessage
  <1> HIDE DEF m
  <1>4. CASE m.type = "response" /\ OnResponse(m.id, m.res)
    <2>1. PICK c \in Calls, r \in {"ok", "chromeError"} : c = m.id /\ r = m.res
      BY <1>1, <1>4 DEF Message, Destroyed, FrameEventTypes
    <2>2. navigations[c] \in Entry \cup {NoEntry}
      BY DEF TypeOK
    <2>3. navigations' \in [Calls -> Entry \cup {NoEntry}]
      <3>1. navigations[c] # NoEntry => [navigations[c] EXCEPT !.response = r] \in Entry
        BY <2>2 DEF Entry
      <3> QED BY <1>4, <2>1, <3>1, SMTT(30) DEF OnResponse, TypeOK
    <2>4. outcome' \in [Calls -> Outcomes]
      <3>1. UNCHANGED outcome \/ Deliver(c, r)
        BY <1>4, <2>1 DEF OnResponse
      <3>2. r \in Outcomes
        BY DEF Outcomes
      <3> QED BY <3>1, <3>2, DeliverTypeOK DEF TypeOK
    <2> QED
      BY <1>1, <1>2, <1>4, <2>1, <2>3, <2>4 DEF OnResponse, TypeOK, targetVars
  <1>5. CASE m.type \in FrameEventTypes /\ OnFrameEvent(m)
    <2>1. m.frame \in FrameIds /\ m.loader \in Loader
      BY <1>1, <1>5 DEF Message, Destroyed, FrameEventTypes
    <2>2. main_frame' \in [id : FrameIds, loader : Loader, loaded : BOOLEAN]
      BY <1>5, <2>1 DEF OnFrameEvent, TypeOK
    <2>3. navigation' \in Watcher \cup {NoNavigation}
      BY <1>5 DEF OnFrameEvent, TypeOK, Watcher
    <2> QED
      BY <1>1, <1>2, <1>5, <2>2, <2>3 DEF OnFrameEvent, TypeOK, handlerVars
  <1>6. CASE UNCHANGED <<outcome, targetVars, handlerVars>>
    BY <1>1, <1>2, <1>6 DEF TypeOK, targetVars, handlerVars
  <1>7. CASE OnTargetDestroyed
    <2>1. outcome' \in [Calls -> Outcomes]
      BY <1>7 DEF OnTargetDestroyed, TypeOK, Outcomes
    <2>2. page_rx' \in Seq(Calls) /\ pending_navigations' \in Seq(Watcher)
      BY <1>7 DEF OnTargetDestroyed
    <2> QED
      BY <1>1, <1>2, <1>7, <2>1, <2>2 DEF OnTargetDestroyed, TypeOK, handlerVars
  <1> QED BY <1>3, <1>4, <1>5, <1>6, <1>7

LEMMA EvictTypeOK ==
  ASSUME TypeOK, EvictTimedOut
  PROVE  TypeOK'
  <1>1. outcome' \in [Calls -> Outcomes]
    BY DEF EvictTimedOut, TypeOK, Outcomes
  <1>2. navigations' \in [Calls -> Entry \cup {NoEntry}]
    BY DEF EvictTimedOut, TypeOK
  <1> QED
    BY <1>1, <1>2 DEF EvictTimedOut, TypeOK, targetVars, connVars, ghostVars

-----------------------------------------------------------------------------
(* The browser's steps *)

LEMMA BeginTypeOK ==
  ASSUME TypeOK, NEW l \in Calls \cup PageLoaders, NEW owed \in SUBSET Calls,
         Begin(l, owed)
  PROVE  /\ inbox' \in Seq(Message)
         /\ chrome' \in [live : BOOLEAN, frame : FrameIds, committed : Loader,
                         loading : BOOLEAN, starting : Loader \cup {NoLoader},
                         owed : SUBSET Calls, pages : SUBSET PageLoaders,
                         pushes : 0..MaxPushes]
  <1> DEFINE started == FrameEvent("startedLoading", chrome.frame, chrome.committed)
             aborted == {chrome.starting} \cap chrome.owed
             before == IF aborted = {} THEN inbox
                       ELSE Append(inbox, Response(chrome.starting, "chromeError"))
  <1>1. started \in Message
    BY MessageTypes DEF TypeOK, FrameEventTypes
  <1>2. before \in Seq(Message)
    <2>1. aborted # {} => Response(chrome.starting, "chromeError") \in Message
      BY MessageTypes DEF TypeOK
    <2> QED BY <2>1 DEF TypeOK
  <1>3. inbox' = before \o <<started>>
    BY DEF Begin
  <1>4. chrome' = [chrome EXCEPT !.starting = l, !.owed = (@ \ aborted) \cup owed,
                                 !.pages = @ \ {l}]
    BY DEF Begin
  <1>5. l \in Loader
    BY DEF Loader
  <1> HIDE DEF before, started, aborted
  <1>6. inbox' \in Seq(Message)
    BY <1>1, <1>2, <1>3
  <1> QED BY <1>4, <1>5, <1>6 DEF TypeOK

LEMMA ChromeSendsTypeOK ==
  ASSUME TypeOK, NEW m \in Message, inbox' = Append(inbox, m)
  PROVE  inbox' \in Seq(Message)
  BY DEF TypeOK

LEMMA ChromeNavigateTypeOK ==
  ASSUME TypeOK, ChromeNavigate
  PROVE  TypeOK'
  <1> DEFINE c == Head(outbox)
             ChromeType == [live : BOOLEAN, frame : FrameIds, committed : Loader,
                            loading : BOOLEAN, starting : Loader \cup {NoLoader},
                            owed : SUBSET Calls, pages : SUBSET PageLoaders,
                            pushes : 0..MaxPushes]
  <1>1. c \in Calls /\ outbox' \in Seq(Calls)
    BY HeadTail DEF ChromeNavigate, TypeOK
  <1>2. /\ inbox' \in Seq(Message)
        /\ chrome' \in ChromeType
        /\ settled' \subseteq Calls
    <2>1. CASE Begin(c, {c}) /\ UNCHANGED settled
      BY <1>1, <2>1, BeginTypeOK DEF TypeOK
    <2>2. CASE /\ inbox' = Append(inbox, FrameEvent("withinDocument", chrome.frame,
                                                    chrome.committed))
               /\ chrome' = [chrome EXCEPT !.owed = @ \cup {c}]
               /\ settled' = settled \cup {c}
      <3>1. FrameEvent("withinDocument", chrome.frame, chrome.committed) \in Message
        BY MessageTypes DEF TypeOK, FrameEventTypes
      <3>2. inbox' \in Seq(Message)
        BY <2>2, <3>1, ChromeSendsTypeOK
      <3> QED BY <1>1, <2>2, <3>2 DEF TypeOK
    <2>3. CASE /\ inbox' = Append(inbox, Response(c, "chromeError"))
               /\ UNCHANGED <<chrome, settled>>
      <3>1. Response(c, "chromeError") \in Message
        BY <1>1, MessageTypes
      <3>2. inbox' \in Seq(Message)
        BY <2>3, <3>1, ChromeSendsTypeOK
      <3> QED BY <2>3, <3>2 DEF TypeOK
    <2>4. CASE UNCHANGED <<inbox, chrome, settled>>
      BY <2>4 DEF TypeOK
    <2> QED BY <2>1, <2>2, <2>3, <2>4 DEF ChromeNavigate
  <1>3. UNCHANGED <<callerVars, targetVars, handlerVars, pc, solo>>
    BY DEF ChromeNavigate
  <1> HIDE DEF c
  <1> QED
    BY <1>1, <1>2, <1>3 DEF TypeOK, callerVars, targetVars, handlerVars

LEMMA ChromeEventTypeOK ==
  ASSUME TypeOK, ChromeEvent
  PROVE  TypeOK'
  <1> DEFINE ChromeType == [live : BOOLEAN, frame : FrameIds, committed : Loader,
                            loading : BOOLEAN, starting : Loader \cup {NoLoader},
                            owed : SUBSET Calls, pages : SUBSET PageLoaders,
                            pushes : 0..MaxPushes]
             Safe == /\ inbox' \in Seq(Message)
                     /\ chrome' \in ChromeType
                     /\ settled' \subseteq Calls /\ solo' \subseteq Calls
  <1>1. /\ chrome \in ChromeType /\ settled \subseteq Calls /\ solo \subseteq Calls
        /\ MaxPushes \in Nat /\ MaxSwaps \in Nat
    BY DEF TypeOK
  <1>2. ASSUME NEW c \in Calls, ChromeRespond(c) PROVE Safe
    <2>1. inbox' \in Seq(Message)
      <3>1. \A r \in {"ok", "chromeError"} : Response(c, r) \in Message
        BY MessageTypes
      <3> QED BY <1>2, <3>1, ChromeSendsTypeOK DEF ChromeRespond
    <2> QED BY <1>1, <1>2, <2>1 DEF ChromeRespond
  <1>3. ASSUME ChromeCommit PROVE Safe
    <2>1. chrome.starting \in Loader
      BY <1>1, <1>3 DEF ChromeCommit
    <2>2. FrameEvent("init", chrome.frame, chrome.starting) \in Message
      BY <1>1, <2>1, MessageTypes DEF FrameEventTypes
    <2>3. inbox' \in Seq(Message)
      BY <1>3, <2>2, ChromeSendsTypeOK DEF ChromeCommit
    <2> QED BY <1>1, <1>3, <2>1, <2>3 DEF ChromeCommit
  <1>4. ASSUME ChromeLoad PROVE Safe
    <2>1. FrameEvent("load", chrome.frame, chrome.committed) \in Message
      BY <1>1, MessageTypes DEF FrameEventTypes
    <2>2. inbox' \in Seq(Message)
      BY <1>4, <2>1, ChromeSendsTypeOK DEF ChromeLoad
    <2> QED BY <1>1, <1>4, <2>2 DEF ChromeLoad
  <1>5. ASSUME NEW l \in PageLoaders, ChromePageNavigates(l) PROVE Safe
    <2>1. Begin(l, {}) /\ {} \in SUBSET Calls
      BY <1>5 DEF ChromePageNavigates
    <2>2. inbox' \in Seq(Message) /\ chrome' \in ChromeType
      BY <2>1, BeginTypeOK
    <2> QED BY <1>1, <1>5, <2>2 DEF ChromePageNavigates
  <1>6. ASSUME ChromePushState PROVE Safe
    <2>1. FrameEvent("withinDocument", chrome.frame, chrome.committed) \in Message
      BY <1>1, MessageTypes DEF FrameEventTypes
    <2>2. inbox' \in Seq(Message)
      BY <1>6, <2>1, ChromeSendsTypeOK DEF ChromePushState
    <2>3. chrome.pushes + 1 \in 0..MaxPushes
      BY <1>1, <1>6 DEF ChromePushState
    <2> QED BY <1>1, <1>6, <2>2, <2>3 DEF ChromePushState
  <1>7. ASSUME ChromeSwapsFrame PROVE Safe
    <2>1. chrome.frame + 1 \in FrameIds
      BY <1>1, <1>7 DEF ChromeSwapsFrame, FrameIds
    <2>2. FrameEvent("frameNavigated", chrome.frame + 1, chrome.committed) \in Message
      BY <1>1, <2>1, MessageTypes DEF FrameEventTypes
    <2>3. inbox' \in Seq(Message)
      BY <1>7, <2>2, ChromeSendsTypeOK DEF ChromeSwapsFrame
    <2> QED BY <1>1, <1>7, <2>1, <2>3 DEF ChromeSwapsFrame
  <1>8. ASSUME ChromeDestroysTarget PROVE Safe
    <2>1. inbox' \in Seq(Message)
      BY <1>8, MessageTypes, ChromeSendsTypeOK DEF ChromeDestroysTarget
    <2> QED BY <1>1, <1>8, <2>1 DEF ChromeDestroysTarget
  <1>9. Safe
    BY <1>2, <1>3, <1>4, <1>5, <1>6, <1>7, <1>8 DEF ChromeEvent
  <1>10. UNCHANGED <<callerVars, targetVars, handlerVars, pc, outbox>>
    BY DEF ChromeEvent
  <1> QED
    BY <1>9, <1>10 DEF TypeOK, callerVars, targetVars, handlerVars

LEMMA NextTypeOK == TypeOK /\ [Next]_vars => TypeOK'
  <1> SUFFICES ASSUME TypeOK, [Next]_vars PROVE TypeOK'
    OBVIOUS
  <1>1. CASE UNCHANGED vars
    BY <1>1 DEF vars, TypeOK
  <1>2. CASE Next
    BY <1>2, GotoTypeOK, TimersTypeOK, DeadlineTypeOK, HandleTargetEventTypeOK, DrainTypeOK,
       PollTypeOK, ReadMessageTypeOK, EvictTypeOK, ChromeNavigateTypeOK,
       ChromeEventTypeOK
       DEF Next, HandlerStep
  <1> QED BY <1>1, <1>2

\* Every variable keeps its type: in particular an evicted command is no longer
\* pending, and an entry holds a response only of a call that is in progress.
THEOREM TypeInvariance == Spec => []TypeOK
  BY InitTypeOK, NextTypeOK, PTL DEF Spec

-----------------------------------------------------------------------------
(* What a queue holds *)

LEMMA HasAppend ==
  ASSUME NEW S, NEW s \in Seq(S), NEW x \in S, NEW y
  PROVE  Has(Append(s, x), y) <=> Has(s, y) \/ y = x
  <1>1. /\ Len(s) \in Nat
        /\ Len(Append(s, x)) = Len(s) + 1
        /\ Append(s, x)[Len(s) + 1] = x
        /\ \A i \in 1..Len(s) : Append(s, x)[i] = s[i]
    BY AppendFacts
  <1>2. ASSUME Has(Append(s, x), y) PROVE Has(s, y) \/ y = x
    <2>1. PICK i \in 1..Len(s) + 1 : Append(s, x)[i] = y
      BY <1>1, <1>2 DEF Has
    <2>2. CASE i = Len(s) + 1
      BY <1>1, <2>1, <2>2
    <2>3. CASE i \in 1..Len(s)
      BY <1>1, <2>1, <2>3 DEF Has
    <2> QED BY <1>1, <2>2, <2>3
  <1>3. ASSUME Has(s, y) PROVE Has(Append(s, x), y)
    <2>1. PICK i \in 1..Len(s) : s[i] = y
      BY <1>3 DEF Has
    <2>2. i \in 1..Len(Append(s, x)) /\ Append(s, x)[i] = y
      BY <1>1, <2>1
    <2> QED BY <2>2 DEF Has
  <1>4. ASSUME y = x PROVE Has(Append(s, x), y)
    BY <1>1, <1>4 DEF Has
  <1> QED BY <1>2, <1>3, <1>4

LEMMA HasTail ==
  ASSUME NEW S, NEW s \in Seq(S), s # <<>>, NEW y, Has(s, y)
  PROVE  y = Head(s) \/ Has(Tail(s), y)
  <1>1. /\ Len(s) \in Nat \ {0}
        /\ Head(s) = s[1]
        /\ Len(Tail(s)) = Len(s) - 1
        /\ \A i \in 1..Len(Tail(s)) : Tail(s)[i] = s[i + 1]
    BY HeadTail
  <1>2. PICK i \in 1..Len(s) : s[i] = y
    BY DEF Has
  <1>3. CASE i = 1
    BY <1>1, <1>2, <1>3
  <1>4. CASE i # 1
    <2>1. i - 1 \in 1..Len(Tail(s)) /\ Tail(s)[i - 1] = y
      BY <1>1, <1>2, <1>4
    <2> QED BY <2>1 DEF Has
  <1> QED BY <1>3, <1>4

LEMMA HasMap ==
  ASSUME NEW s \in Seq(Calls), NEW c, Has(s, c)
  PROVE  Has([i \in 1..Len(s) |-> Command(s[i])], Command(c))
  BY DEF Has

LEMMA PendingAppend ==
  ASSUME TypeOK, NEW w \in Watcher, NEW c,
         pending_navigations' = Append(pending_navigations, w)
  PROVE  IsPending(c)' <=> IsPending(c) \/ w.id = c
  <1>1. /\ Len(pending_navigations) \in Nat
        /\ Len(pending_navigations') = Len(pending_navigations) + 1
        /\ pending_navigations'[Len(pending_navigations) + 1] = w
        /\ \A i \in 1..Len(pending_navigations) :
             pending_navigations'[i] = pending_navigations[i]
    BY AppendFacts DEF TypeOK
  <1>2. ASSUME IsPending(c)' PROVE IsPending(c) \/ w.id = c
    <2>1. PICK i \in 1..Len(pending_navigations) + 1 : pending_navigations'[i].id = c
      BY <1>1, <1>2 DEF IsPending
    <2> QED BY <1>1, <2>1 DEF IsPending
  <1>3. ASSUME IsPending(c) PROVE IsPending(c)'
    <2>1. PICK i \in 1..Len(pending_navigations) : pending_navigations[i].id = c
      BY <1>3 DEF IsPending
    <2>2. i \in 1..Len(pending_navigations') /\ pending_navigations'[i].id = c
      BY <1>1, <2>1
    <2> QED BY <2>2 DEF IsPending
  <1>4. ASSUME w.id = c PROVE IsPending(c)'
    BY <1>1, <1>4 DEF IsPending
  <1> QED BY <1>2, <1>3, <1>4

LEMMA PendingTail ==
  ASSUME TypeOK, pending_navigations # <<>>, NEW c, IsPending(c),
         pending_navigations' = Tail(pending_navigations)
  PROVE  Head(pending_navigations).id = c \/ IsPending(c)'
  <1>1. /\ Len(pending_navigations) \in Nat \ {0}
        /\ Head(pending_navigations) = pending_navigations[1]
        /\ Len(pending_navigations') = Len(pending_navigations) - 1
        /\ \A i \in 1..Len(pending_navigations') :
             pending_navigations'[i] = pending_navigations[i + 1]
    BY HeadTail DEF TypeOK
  <1>2. PICK i \in 1..Len(pending_navigations) : pending_navigations[i].id = c
    BY DEF IsPending
  <1>3. CASE i = 1
    BY <1>1, <1>2, <1>3
  <1>4. CASE i # 1
    <2>1. i - 1 \in 1..Len(pending_navigations') /\ pending_navigations'[i - 1].id = c
      BY <1>1, <1>2, <1>4
    <2> QED BY <2>1 DEF IsPending
  <1> QED BY <1>3, <1>4
-----------------------------------------------------------------------------
(* No entry of Handler.navigations is stranded *)

\* What is true of one entry of a living target.
Served(c) ==
  navigations[c] # NoEntry =>
    /\ navigations[c].navigated => navigations[c].response = NoResponse
    /\ alive /\ ~navigations[c].navigated => LoadIsWatched(c)
    /\ alive /\ navigations[c].response = NoResponse => ResponseIsAwaited(c)

\* An entry that a step leaves alone stays served while nobody who will report
\* to it goes away.
LEMMA StillServed ==
  ASSUME NEW c \in Calls, Served(c),
         navigations'[c] = navigations[c],
         alive' => alive,
         LoadIsWatched(c) => LoadIsWatched(c)',
         ResponseIsAwaited(c) => ResponseIsAwaited(c)'
  PROVE  Served(c)'
  <1> HIDE DEF LoadIsWatched, ResponseIsAwaited
  <1> QED BY DEF Served

LEMMA ServedSame ==
  ASSUME EntriesAreServed,
         UNCHANGED <<navigations, alive, pending_navigations, navigation,
                     queued_events, pending_commands>>
  PROVE  EntriesAreServed'
  BY DEF EntriesAreServed, LoadIsWatched, ResponseIsAwaited, IsPending, Has

LEMMA EventsDiffer ==
  ASSUME NEW c, NEW d, NEW r, NEW q
  PROVE  /\ Command(c) # NavigationRequest(d)
         /\ Command(c) # NavigationResult(d, r)
         /\ NavigationRequest(c) # NavigationResult(d, r)
         /\ Command(c) = Command(d) => c = d
         /\ NavigationRequest(c) = NavigationRequest(d) => c = d
         /\ NavigationResult(c, r) = NavigationResult(d, q) => c = d
  <1>1. /\ Command(c).type = "Command" /\ Command(c).id = c
        /\ Command(d).id = d
        /\ NavigationRequest(c).type = "NavigationRequest"
        /\ NavigationRequest(d).type = "NavigationRequest"
        /\ NavigationRequest(c).id = c /\ NavigationRequest(d).id = d
        /\ NavigationResult(d, r).type = "NavigationResult"
        /\ NavigationResult(c, r).id = c /\ NavigationResult(d, q).id = d
    BY DEF Command, NavigationRequest, NavigationResult
  <1> QED BY <1>1

\* The event at the head of the queue is the one its fields say.
LEMMA EventByFields ==
  ASSUME NEW ev \in TargetEvent
  PROVE  /\ ev.type = "Command" => ev = Command(ev.id)
         /\ ev.type = "NavigationRequest" => ev = NavigationRequest(ev.id)
         /\ ev.type = "NavigationResult" => ev = NavigationResult(ev.id, ev.res)
         /\ ev.id \in Calls
  BY DEF TargetEvent, Command, NavigationRequest, NavigationResult

LEMMA HandleTargetEventServed ==
  ASSUME TypeOK, EntriesAreServed, HandleTargetEvent
  PROVE  EntriesAreServed'
  <1> SUFFICES ASSUME NEW c \in Calls PROVE Served(c)'
    BY DEF EntriesAreServed, Served
  <1> DEFINE ev == Head(queued_events)
  <1>1. /\ queued_events \in Seq(TargetEvent) /\ queued_events # <<>>
        /\ queued_events' = Tail(queued_events)
        /\ UNCHANGED <<navigation, alive>>
        /\ Served(c)
    BY DEF HandleTargetEvent, TypeOK, EntriesAreServed, Served
  <1>2. ev \in TargetEvent
    BY <1>1, HeadTail
  <1>3. \A e : Has(queued_events, e) => e = ev \/ Has(queued_events, e)'
    BY <1>1, HasTail
  <1>4. /\ navigations \in [Calls -> Entry \cup {NoEntry}]
        /\ navigations[c] \in Entry \cup {NoEntry}
    BY DEF TypeOK
  <1> HIDE DEF ev
  <1>5. CASE ev.type = "Command" /\ OnCommand(ev.id)
    <2>1. /\ ev = Command(ev.id) /\ ev.id \in Calls
          /\ pending_commands' = pending_commands
      BY <1>2, <1>5, EventByFields DEF OnCommand
    <2> DEFINE w == [id |-> ev.id, frame |-> main_frame.id,
                     loader |-> main_frame.loader, same_document |-> FALSE]
    <2>2. w \in Watcher /\ w.id = ev.id
          /\ pending_navigations' = Append(pending_navigations, w)
      BY <1>5, <2>1 DEF OnCommand, NavigateFrame, TypeOK, Watcher
    <2> HIDE DEF w
    <2>3. IsPending(c)' <=> IsPending(c) \/ c = ev.id
      BY <2>2, PendingAppend
    <2>4. CASE c = ev.id
      <3>1. navigations'[c] = InProgress
        BY <1>4, <1>5, <2>4 DEF OnCommand
      <3> QED
        BY <2>3, <2>4, <3>1
        DEF Served, LoadIsWatched, ResponseIsAwaited, InProgress
    <2>5. CASE c # ev.id
      <3>1. navigations'[c] = navigations[c]
        BY <1>4, <1>5, <2>5 DEF OnCommand
      <3>2. LoadIsWatched(c) => LoadIsWatched(c)'
        BY <1>1, <1>3, <2>1, <2>3, EventsDiffer DEF LoadIsWatched
      <3>3. ResponseIsAwaited(c) => ResponseIsAwaited(c)'
        BY <1>3, <2>1, <2>3, EventsDiffer DEF ResponseIsAwaited
      <3> QED BY <1>1, <3>1, <3>2, <3>3, StillServed
    <2> QED BY <2>4, <2>5
  <1>6. CASE ev.type = "NavigationRequest" /\ OnNavigationRequest(ev.id)
    <2>1. /\ ev = NavigationRequest(ev.id)
          /\ pending_commands' = pending_commands \cup {ev.id}
          /\ UNCHANGED <<pending_navigations, navigations>>
      BY <1>2, <1>6, EventByFields DEF OnNavigationRequest
    <2>2. IsPending(c)' <=> IsPending(c)
      BY <2>1 DEF IsPending
    <2>3. LoadIsWatched(c) => LoadIsWatched(c)'
      BY <1>1, <1>3, <2>1, <2>2, EventsDiffer DEF LoadIsWatched
    <2>4. ResponseIsAwaited(c) => ResponseIsAwaited(c)'
      BY <1>3, <2>1, <2>2, EventsDiffer DEF ResponseIsAwaited
    <2> QED BY <1>1, <2>1, <2>3, <2>4, StillServed
  <1>7. CASE ev.type = "NavigationResult" /\ OnLifecycleCompleted(ev.id, ev.res)
    <2>1. /\ ev = NavigationResult(ev.id, ev.res) /\ ev.id \in Calls
          /\ UNCHANGED <<pending_navigations, pending_commands>>
      BY <1>2, <1>7, EventByFields DEF OnLifecycleCompleted
    <2>2. IsPending(c)' <=> IsPending(c)
      BY <2>1 DEF IsPending
    <2>3. ResponseIsAwaited(c) => ResponseIsAwaited(c)'
      BY <1>3, <2>1, <2>2, EventsDiffer DEF ResponseIsAwaited
    <2>4. CASE c # ev.id
      <3>1. navigations'[c] = navigations[c]
        BY <1>4, <1>7, <2>4 DEF OnLifecycleCompleted
      <3>2. LoadIsWatched(c) => LoadIsWatched(c)'
        BY <1>1, <1>3, <2>1, <2>2, <2>4, EventsDiffer DEF LoadIsWatched
      <3> QED BY <1>1, <2>3, <3>1, <3>2, StillServed
    <2>5. CASE c = ev.id
      <3>1. CASE navigations'[c] = NoEntry
        BY <3>1 DEF Served
      <3>2. CASE /\ navigations[c] # NoEntry
                 /\ navigations[c].response = NoResponse
                 /\ navigations' = [navigations EXCEPT ![c].navigated = TRUE]
        <4>1. navigations'[c] = [navigations[c] EXCEPT !.navigated = TRUE]
          BY <1>4, <3>2
        <4>2. navigations[c] \in Entry
          BY <1>4, <3>2
        <4>3. navigations'[c].navigated /\ navigations'[c].response = NoResponse
          BY <3>2, <4>1, <4>2 DEF Entry
        <4>4. alive' => ResponseIsAwaited(c)'
          BY <1>1, <2>3, <3>2 DEF Served
        <4> QED BY <4>3, <4>4 DEF Served
      <3> QED BY <1>4, <1>7, <2>5, <3>1, <3>2 DEF OnLifecycleCompleted
    <2> QED BY <2>4, <2>5
  <1> QED BY <1>5, <1>6, <1>7 DEF HandleTargetEvent, ev

LEMMA DrainServed ==
  ASSUME TypeOK, EntriesAreServed, DrainPageChannel
  PROVE  EntriesAreServed'
  <1> SUFFICES ASSUME NEW c \in Calls PROVE Served(c)'
    BY DEF EntriesAreServed, Served
  <1>1. /\ queued_events = <<>> /\ Served(c)
        /\ UNCHANGED <<navigations, alive, pending_navigations, navigation,
                       pending_commands>>
    BY DEF DrainPageChannel, EntriesAreServed, Served, handlerVars
  <1>2. \A e : ~Has(queued_events, e)
    BY <1>1 DEF Has
  <1>3. LoadIsWatched(c) => LoadIsWatched(c)'
    BY <1>1, <1>2 DEF LoadIsWatched, IsPending
  <1>4. ResponseIsAwaited(c) => ResponseIsAwaited(c)'
    BY <1>1, <1>2 DEF ResponseIsAwaited, IsPending
  <1> QED BY <1>1, <1>3, <1>4, StillServed

LEMMA PollServed ==
  ASSUME TypeOK, EntriesAreServed, PollFrameManager
  PROVE  EntriesAreServed'
  <1> SUFFICES ASSUME NEW c \in Calls PROVE Served(c)'
    BY DEF EntriesAreServed, Served
  <1>1. Served(c) /\ UNCHANGED <<navigations, alive, pending_commands>>
    BY DEF PollFrameManager, EntriesAreServed, Served, handlerVars
  <1>2. queued_events \in Seq(TargetEvent)
    BY DEF TypeOK
  <1>3. CASE PollWatched
    <2>1. PICK r \in {"ok", "timeout", "frameNotFound"} : NavigationEnds(r)
      BY <1>3 DEF PollWatched
    <2>2. navigation.id \in Calls
      BY <1>3 DEF PollWatched, TypeOK, Watcher
    <2> DEFINE e == NavigationResult(navigation.id, r)
    <2>3. e \in TargetEvent
      BY <2>2, EventTypes
    <2>4. /\ queued_events' = Append(queued_events, e)
          /\ pending_navigations' = pending_navigations
      BY <2>1 DEF NavigationEnds
    <2> HIDE DEF e
    <2>5. \A x : Has(queued_events, x)' <=> Has(queued_events, x) \/ x = e
      BY <1>2, <2>3, <2>4, HasAppend
    <2>6. LoadIsWatched(c) => LoadIsWatched(c)'
      BY <2>4, <2>5 DEF LoadIsWatched, IsPending, e
    <2>7. ResponseIsAwaited(c) => ResponseIsAwaited(c)'
      BY <1>1, <2>4, <2>5 DEF ResponseIsAwaited, IsPending
    <2> QED BY <1>1, <2>6, <2>7, StillServed
  <1>4. CASE StartNext
    <2> DEFINE w == Head(pending_navigations)
               e == NavigationRequest(w.id)
    <2>1. /\ navigation = NoNavigation /\ navigation' = w
          /\ pending_navigations # <<>>
          /\ pending_navigations' = Tail(pending_navigations)
          /\ queued_events' = Append(queued_events, e)
      BY <1>4 DEF StartNext
    <2>2. w \in Watcher
      BY <2>1, HeadTail DEF TypeOK
    <2>3. w.id \in Calls /\ w # NoNavigation
      BY <2>2 DEF Watcher, NoNavigation
    <2>4. e \in TargetEvent
      BY <2>3, EventTypes
    <2>5. IsPending(c) => w.id = c \/ IsPending(c)'
      BY <2>1, PendingTail
    <2> HIDE DEF w, e
    <2>6. \A x : Has(queued_events, x)' <=> Has(queued_events, x) \/ x = e
      BY <1>2, <2>1, <2>4, HasAppend
    <2>7. LoadIsWatched(c) => LoadIsWatched(c)'
      BY <2>1, <2>3, <2>5, <2>6 DEF LoadIsWatched
    <2>8. ResponseIsAwaited(c) => ResponseIsAwaited(c)'
      BY <1>1, <2>5, <2>6 DEF ResponseIsAwaited, e
    <2> QED BY <1>1, <2>7, <2>8, StillServed
  <1>5. CASE NothingToReport
    BY <1>1, <1>5, ServedSame
    DEF NothingToReport, EntriesAreServed, Served
  <1> QED BY <1>3, <1>4, <1>5 DEF PollFrameManager

LEMMA ReadMessageServed ==
  ASSUME TypeOK, EntriesAreServed, ReadMessage
  PROVE  EntriesAreServed'
  <1> SUFFICES ASSUME NEW c \in Calls PROVE Served(c)'
    BY DEF EntriesAreServed, Served
  <1> DEFINE m == Head(inbox)
  <1>1. /\ Served(c)
        /\ navigations \in [Calls -> Entry \cup {NoEntry}]
        /\ navigations[c] \in Entry \cup {NoEntry}
    BY DEF TypeOK, EntriesAreServed, Served
  <1>2. m \in Message
    BY HeadTail DEF ReadMessage, TypeOK
  <1>3. \/ m.type = "response" /\ OnResponse(m.id, m.res)
        \/ OnFrameEvent(m)
        \/ UNCHANGED <<outcome, targetVars, handlerVars>>
        \/ OnTargetDestroyed
    BY DEF ReadMessage
  <1> HIDE DEF m
  <1>4. CASE m.type = "response" /\ OnResponse(m.id, m.res)
    <2>1. PICK d \in Calls, r \in {"ok", "chromeError"} : d = m.id /\ r = m.res
      BY <1>2, <1>4 DEF Message, Destroyed, FrameEventTypes
    <2>2. /\ pending_commands' = pending_commands \ {d}
          /\ UNCHANGED <<queued_events, pending_navigations, navigation, alive>>
      BY <1>4, <2>1 DEF OnResponse, targetVars
    <2>3. LoadIsWatched(c) => LoadIsWatched(c)'
      BY <2>2 DEF LoadIsWatched, IsPending, Has
    <2>4. c # d \/ c \notin pending_commands =>
            (ResponseIsAwaited(c) => ResponseIsAwaited(c)')
      BY <2>2 DEF ResponseIsAwaited, IsPending, Has
    <2>5. CASE c # d \/ c \notin pending_commands
      <3>1. navigations'[c] = navigations[c]
        BY <1>1, <1>4, <2>1, <2>5 DEF OnResponse
      <3> QED BY <1>1, <2>2, <2>3, <2>4, <2>5, <3>1, StillServed
    <2>6. CASE c = d /\ c \in pending_commands
      <3>1. CASE navigations'[c] = NoEntry
        BY <3>1 DEF Served
      <3>2. CASE /\ navigations[c] # NoEntry /\ ~navigations[c].navigated
                 /\ navigations' = [navigations EXCEPT ![c].response = r]
        <4>1. navigations'[c] = [navigations[c] EXCEPT !.response = r]
          BY <1>1, <3>2
        <4>2. navigations[c] \in Entry /\ r # NoResponse
          BY <1>1, <3>2 DEF NoResponse
        <4>3. ~navigations'[c].navigated /\ navigations'[c].response # NoResponse
          BY <3>2, <4>1, <4>2 DEF Entry
        <4>4. alive' => LoadIsWatched(c)'
          BY <1>1, <2>2, <2>3, <3>2 DEF Served
        <4> QED BY <4>3, <4>4 DEF Served
      <3> QED BY <1>1, <1>4, <2>1, <2>6, <3>1, <3>2 DEF OnResponse
    <2> QED BY <2>5, <2>6
  <1>5. CASE OnFrameEvent(m)
    <2>1. /\ navigation # NoNavigation =>
               navigation' # NoNavigation /\ navigation'.id = navigation.id
          /\ UNCHANGED <<queued_events, pending_navigations, alive, navigations,
                         pending_commands>>
      BY <1>5 DEF OnFrameEvent, handlerVars, TypeOK, Watcher, NoNavigation
    <2>2. LoadIsWatched(c) => LoadIsWatched(c)'
      BY <2>1 DEF LoadIsWatched, IsPending, Has
    <2>3. ResponseIsAwaited(c) => ResponseIsAwaited(c)'
      BY <2>1 DEF ResponseIsAwaited, IsPending, Has
    <2> QED BY <1>1, <2>1, <2>2, <2>3, StillServed
  <1>6. CASE UNCHANGED <<outcome, targetVars, handlerVars>>
    BY <1>6, ServedSame DEF targetVars, handlerVars, EntriesAreServed, Served
  <1>7. CASE OnTargetDestroyed
    <2>1. ~alive' /\ navigations' = navigations
      BY <1>7 DEF OnTargetDestroyed, handlerVars
    <2> QED BY <1>1, <2>1 DEF Served
  <1> QED BY <1>3, <1>4, <1>5, <1>6, <1>7

LEMMA EvictServed ==
  ASSUME TypeOK, EntriesAreServed, EvictTimedOut
  PROVE  EntriesAreServed'
  <1> SUFFICES ASSUME NEW c \in Calls PROVE Served(c)'
    BY DEF EntriesAreServed, Served
  <1>1. /\ Served(c)
        /\ pending_commands' = pending_commands \ expired
        /\ navigations'[c] = IF c \in expired THEN NoEntry ELSE navigations[c]
        /\ UNCHANGED <<queued_events, pending_navigations, navigation, alive>>
    BY DEF EvictTimedOut, targetVars, EntriesAreServed, Served
  <1>2. CASE c \in expired
    BY <1>1, <1>2 DEF Served
  <1>3. CASE c \notin expired
    <2>1. LoadIsWatched(c) => LoadIsWatched(c)'
      BY <1>1 DEF LoadIsWatched, IsPending, Has
    <2>2. ResponseIsAwaited(c) => ResponseIsAwaited(c)'
      BY <1>1, <1>3 DEF ResponseIsAwaited, IsPending, Has
    <2> QED BY <1>1, <1>3, <2>1, <2>2, StillServed
  <1> QED BY <1>2, <1>3

\* The steps of callers, clock and browser do not touch what serves an entry.
LEMMA OutsideSteps ==
  ASSUME Next, ~HandlerStep
  PROVE  UNCHANGED <<navigations, alive, pending_navigations, navigation,
                     queued_events, pending_commands>>
  BY DEF Next, Goto, ClientTimeout, CommandExpires, DeadlinePasses,
         ChromeNavigate, ChromeEvent, targetVars, handlerVars

LEMMA NextServed ==
  TypeOK /\ EntriesAreServed /\ [Next]_vars => EntriesAreServed'
  <1> SUFFICES ASSUME TypeOK, EntriesAreServed, [Next]_vars PROVE EntriesAreServed'
    OBVIOUS
  <1>1. CASE UNCHANGED vars
    BY <1>1, ServedSame DEF vars
  <1>2. CASE HandlerStep
    BY <1>2, HandleTargetEventServed, DrainServed, PollServed, ReadMessageServed,
       EvictServed
    DEF HandlerStep
  <1>3. CASE Next /\ ~HandlerStep
    BY <1>3, OutsideSteps, ServedSame
  <1> QED BY <1>1, <1>2, <1>3

\* Whatever the number of calls and the order of responses, loads, timeouts and
\* evictions, an entry of Handler.navigations never waits for a report that
\* nobody will make while its target lives.
THEOREM NoEntryStranded == Spec => []EntriesAreServed
  <1>1. Init => EntriesAreServed
    BY DEF Init, EntriesAreServed
  <1> QED BY <1>1, NextServed, TypeInvariance, PTL DEF Spec
-----------------------------------------------------------------------------
(* No caller is lost *)

\* Where the sender of a waiting caller can be.
Held(c) ==
  outcome[c] = "waiting" =>
    Has(page_rx, c) \/ Has(queued_events, Command(c)) \/ navigations[c] # NoEntry

LEMMA HeldSame ==
  ASSUME NEW c \in Calls, Held(c),
         outcome'[c] = "waiting" => outcome[c] = "waiting",
         Has(page_rx, c) => Has(page_rx, c)',
         Has(queued_events, Command(c)) => Has(queued_events, Command(c))',
         navigations'[c] = navigations[c]
  PROVE  Held(c)'
  BY DEF Held

\* Delivering a result never makes a caller wait.
LEMMA DeliverEnds ==
  ASSUME TypeOK, NEW c \in Calls, NEW d \in Calls, NEW r, Deliver(d, r),
         outcome'[c] = "waiting"
  PROVE  outcome[c] = "waiting" /\ (c = d => r = "waiting")
  BY DEF Deliver, TypeOK

LEMMA HandleTargetEventHeld ==
  ASSUME TypeOK, HandleTargetEvent, NEW c \in Calls, Held(c)
  PROVE  Held(c)'
  <1> DEFINE ev == Head(queued_events)
  <1>1. /\ queued_events \in Seq(TargetEvent) /\ queued_events # <<>>
        /\ queued_events' = Tail(queued_events)
        /\ page_rx' = page_rx
        /\ navigations \in [Calls -> Entry \cup {NoEntry}]
    BY DEF HandleTargetEvent, TypeOK
  <1>2. ev \in TargetEvent /\ ev.id \in Calls
    BY <1>1, HeadTail, EventByFields
  <1>3. Has(queued_events, Command(c)) =>
          Command(c) = ev \/ Has(queued_events, Command(c))'
    BY <1>1, HasTail
  <1>4. Has(page_rx, c) => Has(page_rx, c)'
    BY <1>1 DEF Has
  <1> HIDE DEF ev
  <1>5. CASE ev.type = "Command" /\ OnCommand(ev.id)
    <2>1. ev = Command(ev.id) /\ outcome' = outcome
      BY <1>2, <1>5, EventByFields DEF OnCommand
    <2>2. CASE c = ev.id
      <3>1. navigations'[c] = InProgress
        BY <1>1, <1>5, <2>2 DEF OnCommand
      <3>2. InProgress # NoEntry
        <4>1. InProgress.response = "noResponse" /\ NoEntry.response = "absent"
          BY DEF InProgress, NoEntry, NoResponse
        <4> QED BY <4>1
      <3> QED BY <3>1, <3>2 DEF Held
    <2>3. CASE c # ev.id
      <3>1. navigations'[c] = navigations[c]
        BY <1>1, <1>5, <2>3 DEF OnCommand
      <3>2. Command(c) # ev
        BY <2>1, <2>3, EventsDiffer
      <3> QED BY <1>3, <1>4, <2>1, <3>1, <3>2, HeldSame
    <2> QED BY <2>2, <2>3
  <1>6. CASE ev.type = "NavigationRequest" /\ OnNavigationRequest(ev.id)
    <2>1. /\ ev = NavigationRequest(ev.id)
          /\ UNCHANGED <<outcome, navigations>>
      BY <1>2, <1>6, EventByFields DEF OnNavigationRequest
    <2> QED BY <1>3, <1>4, <2>1, EventsDiffer, HeldSame
  <1>7. CASE ev.type = "NavigationResult" /\ OnLifecycleCompleted(ev.id, ev.res)
    <2>1. ev = NavigationResult(ev.id, ev.res)
      BY <1>2, <1>7, EventByFields
    <2>2. ev.res \in {"ok", "timeout", "frameNotFound"}
      BY <1>2, <1>7 DEF TargetEvent
    <2>3. Has(queued_events, Command(c)) => Has(queued_events, Command(c))'
      BY <1>3, <2>1, EventsDiffer
    <2>4. CASE navigations[ev.id] = NoEntry
      BY <1>4, <1>7, <2>3, <2>4, HeldSame DEF OnLifecycleCompleted
    <2>5. CASE /\ navigations[ev.id] # NoEntry
               /\ ev.res = "ok" /\ navigations[ev.id].response = NoResponse
      <3>1. /\ outcome' = outcome
            /\ navigations' = [navigations EXCEPT ![ev.id].navigated = TRUE]
        BY <1>7, <2>5 DEF OnLifecycleCompleted
      <3>2. CASE c # ev.id
        BY <1>1, <1>4, <2>3, <3>1, <3>2, HeldSame
      <3>3. CASE c = ev.id
        <4>1. navigations'[c] = [navigations[c] EXCEPT !.navigated = TRUE]
          BY <1>1, <3>1, <3>3
        <4>2. navigations[c] \in Entry
          BY <1>1, <2>5, <3>3
        <4>3. navigations'[c].navigated = TRUE /\ NoEntry.navigated = FALSE
          BY <4>1, <4>2 DEF Entry, NoEntry
        <4>4. navigations'[c] # NoEntry
          BY <4>3
        <4> QED BY <4>4 DEF Held
      <3> QED BY <3>2, <3>3
    <2>6. CASE /\ navigations[ev.id] # NoEntry
               /\ ~(ev.res = "ok" /\ navigations[ev.id].response = NoResponse)
      <3> DEFINE r == IF ev.res = "ok" THEN navigations[ev.id].response ELSE ev.res
      <3>1. /\ Deliver(ev.id, r)
            /\ navigations' = [navigations EXCEPT ![ev.id] = NoEntry]
        BY <1>7, <2>6 DEF OnLifecycleCompleted
      <3>2. navigations[ev.id] \in Entry
        BY <1>1, <1>2, <2>6
      <3>3. r # "waiting"
        BY <2>2, <2>6, <3>2 DEF Entry, NoResponse
      <3> HIDE DEF r
      <3>4. outcome'[c] = "waiting" => outcome[c] = "waiting" /\ c # ev.id
        BY <1>2, <3>1, <3>3, DeliverEnds
      <3>5. c # ev.id => navigations'[c] = navigations[c]
        BY <1>1, <3>1
      <3>6. CASE c = ev.id
        BY <3>4, <3>6 DEF Held
      <3>7. CASE c # ev.id
        BY <1>4, <2>3, <3>4, <3>5, <3>7, HeldSame
      <3> QED BY <3>6, <3>7
    <2> QED BY <2>4, <2>5, <2>6
  <1> QED BY <1>5, <1>6, <1>7 DEF HandleTargetEvent, ev

LEMMA ReadMessageHeld ==
  ASSUME TypeOK, ReadMessage, NEW c \in Calls, Held(c)
  PROVE  Held(c)'
  <1> DEFINE m == Head(inbox)
  <1>1. m \in Message
    BY HeadTail DEF ReadMessage, TypeOK
  <1>2. /\ navigations \in [Calls -> Entry \cup {NoEntry}]
        /\ navigations[c] \in Entry \cup {NoEntry}
    BY DEF TypeOK
  <1>3. \/ m.type = "response" /\ OnResponse(m.id, m.res)
        \/ UNCHANGED <<outcome, page_rx, queued_events, navigations>>
        \/ OnTargetDestroyed
    BY DEF ReadMessage, OnFrameEvent, targetVars, handlerVars
  <1> HIDE DEF m
  <1>4. CASE m.type = "response" /\ OnResponse(m.id, m.res)
    <2>1. PICK d \in Calls, r \in {"ok", "chromeError"} : d = m.id /\ r = m.res
      BY <1>1, <1>4 DEF Message, Destroyed, FrameEventTypes
    <2>2. /\ Has(page_rx, c) => Has(page_rx, c)'
          /\ Has(queued_events, Command(c)) => Has(queued_events, Command(c))'
      BY <1>4 DEF OnResponse, targetVars, Has
    <2>3. CASE UNCHANGED <<outcome, navigations>>
      BY <2>2, <2>3, HeldSame
    <2>4. CASE Deliver(d, r) /\ navigations' = [navigations EXCEPT ![d] = NoEntry]
      <3>1. outcome'[c] = "waiting" => outcome[c] = "waiting" /\ c # d
        BY <2>4, DeliverEnds
      <3>2. c # d => navigations'[c] = navigations[c]
        BY <1>2, <2>4
      <3>3. CASE c = d
        BY <3>1, <3>3 DEF Held
      <3>4. CASE c # d
        BY <2>2, <3>1, <3>2, <3>4, HeldSame
      <3> QED BY <3>3, <3>4
    <2>5. CASE /\ navigations[d] # NoEntry /\ outcome' = outcome
               /\ navigations' = [navigations EXCEPT ![d].response = r]
      <3>1. CASE c # d
        BY <1>2, <2>2, <2>5, <3>1, HeldSame
      <3>2. CASE c = d
        <4>1. navigations'[c] = [navigations[c] EXCEPT !.response = r]
          BY <1>2, <2>5, <3>2
        <4>2. navigations[c] \in Entry
          BY <1>2, <2>5, <3>2
        <4>3. navigations'[c].response = r /\ NoEntry.response = "absent"
          BY <4>1, <4>2 DEF Entry, NoEntry
        <4>4. navigations'[c] # NoEntry
          BY <4>3
        <4> QED BY <4>4 DEF Held
      <3> QED BY <3>1, <3>2
    <2> QED BY <1>4, <2>1, <2>3, <2>4, <2>5 DEF OnResponse
  <1>5. CASE UNCHANGED <<outcome, page_rx, queued_events, navigations>>
    BY <1>5 DEF Held, Has
  <1>6. CASE OnTargetDestroyed
    <2>1. outcome'[c] = IF outcome[c] = "waiting" /\ Has(page_rx, c)
                          THEN "canceled" ELSE outcome[c]
      BY <1>6 DEF OnTargetDestroyed
    <2>2. UNCHANGED <<queued_events, navigations>>
      BY <1>6 DEF OnTargetDestroyed, handlerVars
    <2>3. CASE Has(page_rx, c)
      BY <2>1, <2>3 DEF Held
    <2>4. CASE ~Has(page_rx, c)
      BY <2>1, <2>2, <2>4 DEF Held, Has
    <2> QED BY <2>3, <2>4
  <1> QED BY <1>3, <1>4, <1>5, <1>6

LEMMA DrainHeld ==
  ASSUME TypeOK, DrainPageChannel, NEW c \in Calls, Held(c)
  PROVE  Held(c)'
  <1>1. /\ queued_events = <<>> /\ page_rx \in Seq(Calls)
        /\ queued_events' = [i \in 1..Len(page_rx) |-> Command(page_rx[i])]
        /\ UNCHANGED <<outcome, navigations>>
    BY DEF DrainPageChannel, TypeOK, callerVars, handlerVars
  <1>2. ~Has(queued_events, Command(c))
    BY <1>1 DEF Has
  <1>3. Has(page_rx, c) => Has(queued_events, Command(c))'
    BY <1>1, HasMap
  <1> QED BY <1>1, <1>2, <1>3 DEF Held

LEMMA PollHeld ==
  ASSUME TypeOK, PollFrameManager, NEW c \in Calls, Held(c)
  PROVE  Held(c)'
  <1>1. UNCHANGED <<outcome, page_rx, navigations>>
    BY DEF PollFrameManager, callerVars, handlerVars
  <1>2. Has(queued_events, Command(c)) => Has(queued_events, Command(c))'
    <2>1. \/ queued_events' = queued_events
          \/ \E e \in TargetEvent : queued_events' = Append(queued_events, e)
      <3>1. CASE PollWatched
        <4>1. navigation.id \in Calls
          BY <3>1 DEF PollWatched, TypeOK, Watcher
        <4> QED BY <3>1, <4>1, EventTypes DEF PollWatched, NavigationEnds
      <3>2. CASE StartNext
        <4>1. Head(pending_navigations) \in Watcher
          BY <3>2, HeadTail DEF StartNext, TypeOK
        <4>2. Head(pending_navigations).id \in Calls
          BY <4>1 DEF Watcher
        <4> QED BY <3>2, <4>2, EventTypes DEF StartNext
      <3>3. CASE NothingToReport
        BY <3>3 DEF NothingToReport
      <3> QED BY <3>1, <3>2, <3>3 DEF PollFrameManager
    <2>2. queued_events \in Seq(TargetEvent)
      BY DEF TypeOK
    <2>3. CASE queued_events' = queued_events
      BY <2>3 DEF Has
    <2>4. ASSUME NEW e \in TargetEvent, queued_events' = Append(queued_events, e),
                 Has(queued_events, Command(c))
          PROVE  Has(queued_events, Command(c))'
      <3>1. Has(Append(queued_events, e), Command(c))
        BY <2>2, <2>4, HasAppend
      <3> QED BY <2>4, <3>1 DEF Has
    <2> QED BY <2>1, <2>3, <2>4
  <1>3. Has(page_rx, c) => Has(page_rx, c)'
    BY <1>1 DEF Has
  <1> QED BY <1>1, <1>2, <1>3, HeldSame

LEMMA EvictHeld ==
  ASSUME TypeOK, EvictTimedOut, NEW c \in Calls, Held(c)
  PROVE  Held(c)'
  <1>1. /\ outcome'[c] = IF c \in expired /\ navigations[c] # NoEntry
                            /\ outcome[c] = "waiting" THEN "timeout" ELSE outcome[c]
        /\ navigations'[c] = IF c \in expired THEN NoEntry ELSE navigations[c]
        /\ UNCHANGED <<page_rx, queued_events>>
    BY DEF EvictTimedOut, targetVars
  <1> QED BY <1>1 DEF Held, Has

LEMMA GotoHeld ==
  ASSUME TypeOK, NEW d \in Calls, Goto(d), NEW c \in Calls, Held(c)
  PROVE  Held(c)'
  <1>1. UNCHANGED <<queued_events, navigations>>
    BY DEF Goto, handlerVars
  <1>2. CASE alive
    <2>1. /\ page_rx' = Append(page_rx, d) /\ page_rx \in Seq(Calls)
          /\ outcome' = [outcome EXCEPT ![d] = "waiting"]
      BY <1>2 DEF Goto, TypeOK
    <2>2. Has(page_rx, c)' <=> Has(page_rx, c) \/ c = d
      <3>1. Has(Append(page_rx, d), c) <=> Has(page_rx, c) \/ c = d
        BY <2>1, HasAppend
      <3> QED BY <2>1, <3>1 DEF Has
    <2>3. c # d => outcome'[c] = outcome[c]
      BY <2>1 DEF TypeOK
    <2> QED BY <1>1, <2>2, <2>3 DEF Held, Has
  <1>3. CASE ~alive
    <2>1. /\ page_rx' = page_rx
          /\ outcome' = [outcome EXCEPT ![d] = "disconnected"]
      BY <1>3 DEF Goto
    <2>2. outcome'[c] = "waiting" => outcome[c] = "waiting"
      BY <2>1 DEF TypeOK
    <2> QED BY <1>1, <2>1, <2>2 DEF Held, Has
  <1> QED BY <1>2, <1>3

LEMMA OutsideHeld ==
  ASSUME TypeOK, NEW c \in Calls, Held(c),
         \/ \E d \in Calls : ClientTimeout(d) \/ CommandExpires(d)
         \/ DeadlinePasses \/ ChromeNavigate \/ ChromeEvent \/ UNCHANGED vars
  PROVE  Held(c)'
  <1>1. UNCHANGED <<page_rx, queued_events, navigations>>
    BY DEF ClientTimeout, CommandExpires, DeadlinePasses, ChromeNavigate,
           ChromeEvent, targetVars, handlerVars, vars
  <1>2. outcome'[c] = "waiting" => outcome[c] = "waiting"
    BY DEF ClientTimeout, CommandExpires, DeadlinePasses, ChromeNavigate,
           ChromeEvent, callerVars, vars, TypeOK
  <1> QED BY <1>1, <1>2 DEF Held, Has

LEMMA NextHeld ==
  TypeOK /\ CallersAreHeld /\ [Next]_vars => CallersAreHeld'
  <1> SUFFICES ASSUME TypeOK, CallersAreHeld, [Next]_vars, NEW c \in Calls
               PROVE  Held(c)'
    BY DEF CallersAreHeld, Held
  <1>1. Held(c)
    BY DEF CallersAreHeld, Held
  <1> QED
    BY <1>1, HandleTargetEventHeld, DrainHeld, PollHeld, ReadMessageHeld,
       EvictHeld, GotoHeld, OutsideHeld
    DEF Next, HandlerStep

\* Whatever is queued, answered, evicted or destroyed, the sender of a caller
\* that still waits is held by the page channel, the Target or the Handler.
THEOREM NoCallerLost == Spec => []CallersAreHeld
  <1>1. Init => CallersAreHeld
    BY DEF Init, CallersAreHeld
  <1> QED BY <1>1, NextHeld, TypeInvariance, PTL DEF Spec

-----------------------------------------------------------------------------
(* One navigation is in flight at a time *)

IsResult(ev) == ev.type = "NavigationResult"
IsRequest(ev) == ev.type = "NavigationRequest"

\* The load of c is watched, or its end is on its way to the Handler.
Began(c) ==
  \/ navigation.id = c
  \/ \E i \in 1..Len(queued_events) : IsResult(queued_events[i]) /\ queued_events[i].id = c

\* The Page.navigate of c has been asked for and is not written yet.
Unsent(c) == outcome[c] \in {"waiting", "clientTimeout"} /\ c \notin pending_commands

\* A call whose Page.navigate is not written is in one place only: the page channel,
\* the queued events (as a command, later as a request) or the pending navigations.
OnePlace ==
  /\ \A i, j \in 1..Len(page_rx) : page_rx[i] = page_rx[j] => i = j
  /\ \A i, j \in 1..Len(pending_navigations) :
       pending_navigations[i].id = pending_navigations[j].id => i = j
  /\ \A i, j \in 1..Len(queued_events) :
       /\ ~IsResult(queued_events[i]) /\ ~IsResult(queued_events[j])
       /\ queued_events[i].id = queued_events[j].id
       => i = j
  /\ \A i \in 1..Len(queued_events), j \in 1..Len(page_rx) :
       ~IsResult(queued_events[i]) => queued_events[i].id # page_rx[j]
  /\ \A i \in 1..Len(queued_events), j \in 1..Len(pending_navigations) :
       ~IsResult(queued_events[i]) => queued_events[i].id # pending_navigations[j].id
  /\ \A i \in 1..Len(pending_navigations), j \in 1..Len(page_rx) :
       pending_navigations[i].id # page_rx[j]

\* There it is unsent, its load has not begun, and its entry is as it was made.
NotSentYet ==
  \A c \in Calls :
    /\ \A i \in 1..Len(page_rx) : page_rx[i] = c => Unsent(c) /\ ~Began(c)
    /\ \A i \in 1..Len(pending_navigations) :
         pending_navigations[i].id = c =>
           Unsent(c) /\ ~Began(c) /\ navigations[c] = InProgress
    /\ \A i \in 1..Len(queued_events) :
         ~IsResult(queued_events[i]) /\ queued_events[i].id = c =>
           /\ Unsent(c)
           /\ IF IsRequest(queued_events[i]) THEN navigations[c] = InProgress ELSE ~Began(c)
    /\ outcome[c] = "idle" => ~Began(c) /\ c \notin pending_commands

\* Among the queued events the load of a call ends after its request, and the next
\* request comes after that.
InOrder ==
  /\ \A i, k \in 1..Len(queued_events) :
       /\ IsResult(queued_events[i]) /\ IsRequest(queued_events[k])
       /\ queued_events[k].id = queued_events[i].id
       => k < i
  /\ \A i, j \in 1..Len(queued_events) :
       IsResult(queued_events[i]) /\ IsResult(queued_events[j]) /\ i < j =>
         \E k \in i + 1..j - 1 :
           IsRequest(queued_events[k]) /\ queued_events[k].id = queued_events[j].id
  /\ \A i \in 1..Len(queued_events) :
       IsResult(queued_events[i]) /\ navigation # NoNavigation =>
         \E k \in i + 1..Len(queued_events) :
           IsRequest(queued_events[k]) /\ queued_events[k].id = navigation.id

OrderInv == TypeOK /\ EntriesAreServed /\ OnePlace /\ NotSentYet /\ InOrder

USE DEF IsResult, IsRequest

LEMMA OneInFlight == OrderInv => OneNavigationInFlight
<1> SUFFICES ASSUME OrderInv, alive, NEW c \in InFlight, NEW d \in InFlight, c # d
             PROVE  FALSE
  BY DEF OneNavigationInFlight
<1> DEFINE Ends(x, i) == IsResult(queued_events[i]) /\ queued_events[i].id = x
<1>1. ASSUME NEW x \in InFlight
      PROVE  /\ x \in Calls
             /\ \A k \in 1..Len(queued_events) :
                  IsRequest(queued_events[k]) => queued_events[k].id # x
             /\ \/ navigation # NoNavigation /\ navigation.id = x
                \/ \E i \in 1..Len(queued_events) : Ends(x, i)
  <2>1. /\ x \in Calls /\ navigations[x] # NoEntry /\ ~navigations[x].navigated
        /\ x \in pending_commands \/ navigations[x].response # NoResponse
    BY <1>1 DEF InFlight
  <2>2. \A k \in 1..Len(queued_events) :
          IsRequest(queued_events[k]) => queued_events[k].id # x
    BY <2>1 DEF OrderInv, NotSentYet, Unsent, InProgress
  <2>3. ~IsPending(x)
    BY <2>1 DEF OrderInv, NotSentYet, Unsent, InProgress, IsPending
  <2>4. LoadIsWatched(x)
    BY <2>1 DEF OrderInv, EntriesAreServed
  <2> QED BY <2>1, <2>2, <2>3, <2>4 DEF LoadIsWatched, Has, NavigationResult, IsResult
<1>6. Len(queued_events) \in Nat
  BY DEF OrderInv, TypeOK
<1>2. ASSUME NEW x \in InFlight, NEW y \in InFlight, x # y,
             NEW i \in 1..Len(queued_events), Ends(x, i),
             NEW j \in 1..Len(queued_events), Ends(y, j), i < j
      PROVE  FALSE
  <2>1. PICK k \in i + 1..j - 1 :
          IsRequest(queued_events[k]) /\ queued_events[k].id = queued_events[j].id
    BY <1>2 DEF OrderInv, InOrder
  <2>2. k \in 1..Len(queued_events)
    BY <1>6
  <2> QED BY <1>1, <1>2, <2>1, <2>2
<1>3. ASSUME NEW x \in InFlight,
             NEW i \in 1..Len(queued_events), Ends(x, i),
             navigation # NoNavigation, navigation.id \in InFlight
      PROVE  FALSE
  <2>1. PICK k \in i + 1..Len(queued_events) :
          IsRequest(queued_events[k]) /\ queued_events[k].id = navigation.id
    BY <1>3 DEF OrderInv, InOrder
  <2>2. k \in 1..Len(queued_events)
    BY <1>6
  <2> QED BY <1>1, <1>3, <2>1, <2>2
<1> HIDE DEF Ends
<1>4. CASE navigation # NoNavigation /\ (navigation.id = c \/ navigation.id = d)
  BY <1>1, <1>3, <1>4
<1>5. CASE \E i, j \in 1..Len(queued_events) : Ends(c, i) /\ Ends(d, j)
  <2>1. PICK i, j \in 1..Len(queued_events) : Ends(c, i) /\ Ends(d, j)
    BY <1>5
  <2>2. i # j /\ i \in Nat /\ j \in Nat
    BY <2>1 DEF Ends, OrderInv, TypeOK
  <2> QED BY <1>2, <2>1, <2>2
<1> QED BY <1>1, <1>4, <1>5

LEMMA InitOrderInv == Init => OrderInv
<1> SUFFICES ASSUME Init PROVE OrderInv
  OBVIOUS
<1>1. TypeOK /\ EntriesAreServed
  BY InitTypeOK DEF Init, EntriesAreServed
<1>2. NoCall \notin Calls /\ navigation.id = NoCall
  BY DEF Init, NoNavigation
<1> QED BY <1>1, <1>2 DEF Init, OrderInv, OnePlace, NotSentYet, InOrder, Began

\* What a step may do to the places at once: an event is read from the queue, nothing is
\* added to it.
LEMMA TailFacts ==
  ASSUME TypeOK, queued_events # <<>>, queued_events' = Tail(queued_events)
  PROVE  /\ Len(queued_events) \in Nat \ {0} /\ Len(queued_events') = Len(queued_events) - 1
         /\ Head(queued_events) = queued_events[1]
         /\ \A i \in 1..Len(queued_events') :
              /\ i + 1 \in 1..Len(queued_events)
              /\ queued_events'[i] = queued_events[i + 1]
<1>1. queued_events \in Seq(TargetEvent)
  BY DEF TypeOK
<1>2. /\ Len(queued_events) \in Nat \ {0} /\ Len(queued_events') = Len(queued_events) - 1
      /\ Head(queued_events) = queued_events[1]
      /\ \A i \in 1..Len(queued_events') : queued_events'[i] = queued_events[i + 1]
  BY <1>1, HeadTail
<1> QED BY <1>2

LEMMA InOrderTail ==
  ASSUME TypeOK, InOrder, queued_events # <<>>, queued_events' = Tail(queued_events),
         navigation' = navigation
  PROVE  InOrder'
<1> DEFINE n == Len(queued_events)
           m == Len(queued_events')
<1>1. /\ n \in Nat \ {0} /\ m = n - 1
      /\ \A i \in 1..m : i + 1 \in 1..n /\ queued_events'[i] = queued_events[i + 1]
  BY TailFacts
<1> HIDE DEF n, m
<1>2. \A i, k \in 1..m :
        /\ IsResult(queued_events'[i]) /\ IsRequest(queued_events'[k])
        /\ queued_events'[k].id = queued_events'[i].id
        => k < i
  <2> SUFFICES ASSUME NEW i \in 1..m, NEW k \in 1..m,
                      IsResult(queued_events'[i]), IsRequest(queued_events'[k]),
                      queued_events'[k].id = queued_events'[i].id
               PROVE  k < i
    OBVIOUS
  <2>1. k + 1 < i + 1
    BY <1>1 DEF InOrder, n
  <2> QED BY <1>1, <2>1
<1>3. \A i, j \in 1..m :
        IsResult(queued_events'[i]) /\ IsResult(queued_events'[j]) /\ i < j =>
          \E k \in i + 1..j - 1 :
            IsRequest(queued_events'[k]) /\ queued_events'[k].id = queued_events'[j].id
  <2> SUFFICES ASSUME NEW i \in 1..m, NEW j \in 1..m,
                      IsResult(queued_events'[i]), IsResult(queued_events'[j]), i < j
               PROVE  \E k \in i + 1..j - 1 :
                        /\ IsRequest(queued_events'[k])
                        /\ queued_events'[k].id = queued_events'[j].id
    OBVIOUS
  <2>1. i + 1 < j + 1 /\ i + 1 \in 1..n /\ j + 1 \in 1..n
    BY <1>1
  <2>2. PICK k \in (i + 1) + 1..(j + 1) - 1 :
          IsRequest(queued_events[k]) /\ queued_events[k].id = queued_events[j + 1].id
    BY <1>1, <2>1 DEF InOrder, n
  <2>3. k - 1 \in i + 1..j - 1 /\ k - 1 \in 1..m /\ k - 1 + 1 = k
    BY <1>1
  <2> QED BY <1>1, <2>2, <2>3
<1>4. \A i \in 1..m :
        IsResult(queued_events'[i]) /\ navigation' # NoNavigation =>
          \E k \in i + 1..m :
            IsRequest(queued_events'[k]) /\ queued_events'[k].id = navigation'.id
  <2> SUFFICES ASSUME NEW i \in 1..m, IsResult(queued_events'[i]), navigation # NoNavigation
               PROVE  \E k \in i + 1..m :
                        /\ IsRequest(queued_events'[k])
                        /\ queued_events'[k].id = navigation.id
    OBVIOUS
  <2>1. PICK k \in (i + 1) + 1..n :
          IsRequest(queued_events[k]) /\ queued_events[k].id = navigation.id
    BY <1>1 DEF InOrder, n
  <2>2. k - 1 \in i + 1..m /\ k - 1 \in 1..m /\ k - 1 + 1 = k
    BY <1>1
  <2> QED BY <1>1, <2>1, <2>2
<1> QED BY <1>2, <1>3, <1>4 DEF InOrder, m

LEMMA OnePlaceTail ==
  ASSUME TypeOK, OnePlace, queued_events # <<>>, queued_events' = Tail(queued_events),
         page_rx' = page_rx, pending_navigations' = pending_navigations
  PROVE  OnePlace'
<1> DEFINE n == Len(queued_events)
<1>1. /\ n \in Nat \ {0} /\ Len(queued_events') = n - 1
      /\ \A i \in 1..n - 1 : i + 1 \in 1..n /\ queued_events'[i] = queued_events[i + 1]
  BY TailFacts
<1> HIDE DEF n
<1>2. ASSUME NEW i \in 1..n - 1, NEW j \in 1..n - 1,
             ~IsResult(queued_events'[i]), ~IsResult(queued_events'[j]),
             queued_events'[i].id = queued_events'[j].id
      PROVE  i = j
  <2>1. i + 1 = j + 1
    BY <1>1, <1>2 DEF OnePlace, n
  <2> QED BY <1>1, <2>1
<1>3. ASSUME NEW i \in 1..n - 1, ~IsResult(queued_events'[i])
      PROVE  /\ \A j \in 1..Len(page_rx) : queued_events'[i].id # page_rx[j]
             /\ \A j \in 1..Len(pending_navigations) :
                  queued_events'[i].id # pending_navigations[j].id
  BY <1>1, <1>3 DEF OnePlace, n
<1>4. 1..Len(queued_events') = 1..n - 1
  BY <1>1
<1> QED BY <1>2, <1>3, <1>4 DEF OnePlace

LEMMA HandleOrder ==
  ASSUME OrderInv, HandleTargetEvent
  PROVE  OnePlace' /\ NotSentYet' /\ InOrder'
<1> DEFINE ev == Head(queued_events)
           n == Len(queued_events)
<1>1. /\ TypeOK /\ OnePlace /\ NotSentYet /\ InOrder
      /\ queued_events # <<>> /\ queued_events' = Tail(queued_events)
      /\ UNCHANGED <<page_rx, navigation>>
  BY DEF OrderInv, HandleTargetEvent
<1>2. /\ n \in Nat \ {0} /\ Len(queued_events') = n - 1 /\ ev = queued_events[1]
      /\ 1 \in 1..n
      /\ \A i \in 1..n - 1 :
           i + 1 \in 1..n /\ i + 1 # 1 /\ queued_events'[i] = queued_events[i + 1]
  BY <1>1, TailFacts
<1>3. InOrder'
  BY <1>1, InOrderTail
<1>4. /\ ev \in TargetEvent /\ ev.id \in Calls
      /\ navigations \in [Calls -> Entry \cup {NoEntry}] /\ outcome \in [Calls -> Outcomes]
      /\ pending_navigations \in Seq(Watcher) /\ queued_events \in Seq(TargetEvent)
      /\ page_rx \in Seq(Calls)
  <2>1. queued_events \in Seq(TargetEvent)
    BY <1>1 DEF TypeOK
  <2> QED BY <1>1, <2>1, HeadTail, EventByFields DEF TypeOK
<1>5. \A c : Began(c)' => Began(c)
  BY <1>1, <1>2 DEF Began, n
<1>9. /\ \A i \in 1..n : queued_events[i].id \in Calls
      /\ \A i \in 1..Len(pending_navigations) : pending_navigations[i].id \in Calls
      /\ \A i \in 1..Len(page_rx) : page_rx[i] \in Calls
  <2>1. \A i \in 1..n : queued_events[i] \in TargetEvent
    BY <1>4
  <2>2. \A i \in 1..Len(pending_navigations) : pending_navigations[i] \in Watcher
    BY <1>4
  <2> QED BY <1>4, <2>1, <2>2, EventByFields DEF Watcher
<1> HIDE DEF ev, n
<1>6. CASE ev.type = "Command" /\ OnCommand(ev.id)
  <2> DEFINE w == [id |-> ev.id, frame |-> main_frame.id,
                   loader |-> main_frame.loader, same_document |-> FALSE]
             m == Len(pending_navigations)
  <2>1. /\ UNCHANGED <<outcome, pending_commands>>
        /\ pending_navigations' = Append(pending_navigations, w)
        /\ navigations' = [navigations EXCEPT ![ev.id] = InProgress]
    BY <1>6 DEF OnCommand, NavigateFrame
  <2>2. w \in Watcher /\ w.id = ev.id
    BY <1>1, <1>4 DEF TypeOK, Watcher
  <2> HIDE DEF w
  <2>3. /\ m \in Nat /\ Len(pending_navigations') = m + 1
        /\ pending_navigations'[m + 1] = w
        /\ \A i \in 1..m : pending_navigations'[i] = pending_navigations[i]
    BY <1>4, <2>1, <2>2, AppendFacts
  <2>4. ~IsResult(queued_events[1]) /\ ~IsRequest(queued_events[1])
        /\ Unsent(ev.id) /\ ~Began(ev.id)
    <3>1. ~IsResult(queued_events[1]) /\ ~IsRequest(queued_events[1])
          /\ queued_events[1].id = ev.id
      BY <1>2, <1>6
    <3> HIDE DEF Unsent, Began
    <3> QED BY <1>1, <1>2, <1>4, <3>1 DEF NotSentYet, n
  <2> HIDE DEF m
  <2>5. OnePlace'
    <3>1. \A i \in 1..n - 1 : ~IsResult(queued_events'[i]) => queued_events'[i].id # ev.id
      BY <1>1, <1>2, <2>4 DEF OnePlace, n
    <3>2. /\ \A i \in 1..Len(page_rx) : page_rx[i] # ev.id
          /\ \A i \in 1..m : pending_navigations[i].id # ev.id
      BY <1>1, <1>2, <2>4 DEF OnePlace, m, n
    <3>3. ASSUME NEW i \in 1..n - 1, NEW j \in 1..n - 1,
                 ~IsResult(queued_events'[i]), ~IsResult(queued_events'[j]),
                 queued_events'[i].id = queued_events'[j].id
          PROVE  i = j
      <4>1. i + 1 = j + 1
        BY <1>1, <1>2, <3>3 DEF OnePlace, n
      <4> QED BY <1>2, <4>1
    <3>4. ASSUME NEW i \in 1..m + 1, NEW j \in 1..m + 1,
                 pending_navigations'[i].id = pending_navigations'[j].id
          PROVE  i = j
      BY <1>1, <2>2, <2>3, <3>2, <3>4 DEF OnePlace, m
    <3>5. ASSUME NEW i \in 1..n - 1, ~IsResult(queued_events'[i])
          PROVE  /\ \A j \in 1..Len(page_rx) : queued_events'[i].id # page_rx[j]
                 /\ \A j \in 1..m + 1 : queued_events'[i].id # pending_navigations'[j].id
      BY <1>1, <1>2, <2>2, <2>3, <3>1, <3>5 DEF OnePlace, m, n
    <3>6. \A i \in 1..m + 1, j \in 1..Len(page_rx) : pending_navigations'[i].id # page_rx[j]
      BY <1>1, <2>2, <2>3, <3>2 DEF OnePlace, m
    <3>7. \A i, j \in 1..Len(page_rx) : page_rx[i] = page_rx[j] => i = j
      BY <1>1 DEF OnePlace
    <3> QED BY <1>1, <1>2, <2>3, <3>3, <3>4, <3>5, <3>6, <3>7 DEF OnePlace
  <2>6. NotSentYet'
    <3> SUFFICES ASSUME NEW c \in Calls
                 PROVE  /\ \A i \in 1..Len(page_rx) : page_rx[i] = c => Unsent(c)' /\ ~Began(c)'
                        /\ \A i \in 1..m + 1 :
                             pending_navigations'[i].id = c =>
                               Unsent(c)' /\ ~Began(c)' /\ navigations'[c] = InProgress
                        /\ \A i \in 1..n - 1 :
                             ~IsResult(queued_events'[i]) /\ queued_events'[i].id = c =>
                               /\ Unsent(c)'
                               /\ IF IsRequest(queued_events'[i])
                                  THEN navigations'[c] = InProgress ELSE ~Began(c)'
                        /\ outcome'[c] = "idle" =>
                             ~Began(c)' /\ c \notin pending_commands
      BY <1>1, <1>2, <2>1, <2>3 DEF NotSentYet
    <3>1. (Unsent(c)' <=> Unsent(c)) /\ (Began(c)' => Began(c))
      BY <1>5, <2>1 DEF Unsent
    <3>2. navigations'[c] = IF c = ev.id THEN InProgress ELSE navigations[c]
      BY <1>4, <2>1
    <3> HIDE DEF Unsent, Began
    <3>3. \A i \in 1..m + 1 :
            pending_navigations'[i].id = c =>
              Unsent(c)' /\ ~Began(c)' /\ navigations'[c] = InProgress
      BY <1>1, <2>2, <2>3, <2>4, <3>1, <3>2 DEF NotSentYet, m
    <3>4. ASSUME NEW i \in 1..n - 1,
                 ~IsResult(queued_events'[i]), queued_events'[i].id = c
          PROVE  /\ Unsent(c)'
                 /\ IF IsRequest(queued_events'[i])
                    THEN navigations'[c] = InProgress ELSE ~Began(c)'
      BY <1>1, <1>2, <3>1, <3>2, <3>4 DEF NotSentYet, n
    <3> QED BY <1>1, <2>1, <3>1, <3>3, <3>4 DEF NotSentYet
  <2> QED BY <1>3, <2>5, <2>6
<1>7. CASE ev.type = "NavigationRequest" /\ OnNavigationRequest(ev.id)
  <2>1. /\ UNCHANGED <<outcome, pending_navigations, navigations>>
        /\ pending_commands' = pending_commands \cup {ev.id}
        /\ ~IsResult(queued_events[1])
    BY <1>2, <1>7 DEF OnNavigationRequest, IsResult
  <2>2. OnePlace'
    BY <1>1, <2>1, OnePlaceTail
  <2>3. \A c : c # ev.id /\ Unsent(c) => Unsent(c)'
    BY <2>1 DEF Unsent
  <2> HIDE DEF Unsent, Began
  <2>4. /\ \A i \in 1..Len(page_rx) : page_rx[i] # ev.id
        /\ \A i \in 1..Len(pending_navigations) : pending_navigations[i].id # ev.id
        /\ \A i \in 1..n - 1 : ~IsResult(queued_events'[i]) => queued_events'[i].id # ev.id
    BY <1>1, <1>2, <2>1 DEF OnePlace, n
  <2>5. NotSentYet'
    <3>1. outcome[ev.id] # "idle"
      <4>1. Unsent(ev.id)
        BY <1>1, <1>2, <1>4, <2>1 DEF NotSentYet, n
      <4> QED BY <4>1 DEF Unsent
    <3> QED BY <1>1, <1>2, <1>5, <2>1, <2>3, <2>4, <3>1 DEF NotSentYet, n
  <2> QED BY <1>3, <2>2, <2>5
<1>8. CASE ev.type = "NavigationResult" /\ OnLifecycleCompleted(ev.id, ev.res)
  <2>1. /\ UNCHANGED <<pending_navigations, pending_commands>>
        /\ IsResult(queued_events[1]) /\ queued_events[1].id = ev.id
    BY <1>2, <1>8 DEF OnLifecycleCompleted, IsResult
  <2>2. \A c \in Calls : c # ev.id =>
          outcome'[c] = outcome[c] /\ navigations'[c] = navigations[c]
    BY <1>4, <1>8 DEF OnLifecycleCompleted, Deliver
  <2>3. \A c \in Calls : c # ev.id /\ Unsent(c) => Unsent(c)'
    BY <2>1, <2>2 DEF Unsent
  <2>4. Began(ev.id)
    BY <1>2, <2>1 DEF Began, n
  <2>5. \A i \in 1..n - 1 : IsRequest(queued_events'[i]) => queued_events'[i].id # ev.id
    <3> SUFFICES ASSUME NEW i \in 1..n - 1, IsRequest(queued_events[i + 1]),
                        queued_events[i + 1].id = ev.id
                 PROVE  FALSE
      BY <1>2
    <3>1. i + 1 < 1
      BY <1>1, <1>2, <2>1 DEF InOrder, n
    <3> QED BY <1>2, <3>1
  <2>6. outcome[ev.id] # "idle"
    BY <1>1, <1>4, <2>4 DEF NotSentYet
  <2>7. outcome'[ev.id] # "idle"
    <3>1. ev.res \in {"ok", "timeout", "frameNotFound"}
      BY <1>4, <1>8 DEF TargetEvent
    <3>2. navigations[ev.id].response # "idle"
      BY <1>4 DEF Entry, NoEntry, NoResponse
    <3> QED BY <1>4, <1>8, <2>6, <3>1, <3>2 DEF OnLifecycleCompleted, Deliver
  <2>9. OnePlace'
    BY <1>1, <2>1, OnePlaceTail
  <2> HIDE DEF Unsent, Began
  <2>10. NotSentYet'
    BY <1>1, <1>2, <1>5, <2>1, <2>2, <2>3, <2>4, <2>5, <2>7, <1>9 DEF NotSentYet, n
  <2> QED BY <1>3, <2>9, <2>10
<1> QED BY <1>6, <1>7, <1>8 DEF HandleTargetEvent, ev

\* A step that adds nothing to the places and does nothing to an unsent call.
LEMMA PlacesSame ==
  ASSUME OrderInv,
         UNCHANGED <<page_rx, queued_events, pending_navigations>>,
         navigation'.id = navigation.id,
         navigation' # NoNavigation => navigation # NoNavigation,
         \A c \in Calls : Unsent(c) => Unsent(c)' /\ navigations'[c] = navigations[c],
         \A c \in Calls : outcome'[c] = "idle" => outcome[c] = "idle",
         pending_commands' \subseteq pending_commands
  PROVE  OnePlace' /\ NotSentYet' /\ InOrder'
<1>1. OnePlace'
  BY DEF OrderInv, OnePlace
<1>2. InOrder'
  BY DEF OrderInv, InOrder
<1>3. \A c : Began(c)' <=> Began(c)
  BY DEF Began
<1> HIDE DEF Unsent, Began
<1>4. NotSentYet'
  BY <1>3 DEF OrderInv, NotSentYet
<1> QED BY <1>1, <1>2, <1>4

LEMMA DrainOrder ==
  ASSUME OrderInv, DrainPageChannel
  PROVE  OnePlace' /\ NotSentYet' /\ InOrder'
<1>1. /\ queued_events = <<>> /\ page_rx' = <<>>
      /\ queued_events' = [i \in 1..Len(page_rx) |-> Command(page_rx[i])]
      /\ UNCHANGED <<outcome, pending_navigations, navigation, navigations, pending_commands>>
  BY DEF DrainPageChannel, callerVars, handlerVars
<1>2. /\ page_rx \in Seq(Calls) /\ Len(page_rx) \in Nat /\ TypeOK /\ OnePlace /\ NotSentYet
      /\ Len(queued_events) = 0 /\ Len(page_rx') = 0
  BY <1>1 DEF OrderInv, TypeOK
<1>3. /\ Len(queued_events') = Len(page_rx)
      /\ \A i \in 1..Len(page_rx) :
           /\ queued_events'[i].id = page_rx[i]
           /\ ~IsResult(queued_events'[i]) /\ ~IsRequest(queued_events'[i])
  BY <1>1, <1>2 DEF Command
<1>4. \A c : (Began(c)' => Began(c)) /\ (Unsent(c)' <=> Unsent(c))
  BY <1>1, <1>3 DEF Began, Unsent
<1> HIDE DEF Unsent, Began
<1>5. OnePlace'
  BY <1>1, <1>2, <1>3 DEF OnePlace
<1>6. InOrder'
  BY <1>3 DEF InOrder
<1>7. NotSentYet'
  BY <1>1, <1>2, <1>3, <1>4 DEF NotSentYet
<1> QED BY <1>5, <1>6, <1>7

LEMMA PollOrder ==
  ASSUME OrderInv, PollFrameManager
  PROVE  OnePlace' /\ NotSentYet' /\ InOrder'
<1> DEFINE n == Len(queued_events)
           m == Len(pending_navigations)
<1>1. /\ TypeOK /\ OnePlace /\ NotSentYet /\ InOrder
      /\ UNCHANGED <<outcome, page_rx, navigations, pending_commands>>
  BY DEF OrderInv, PollFrameManager, callerVars, handlerVars
<1>2. /\ queued_events \in Seq(TargetEvent) /\ pending_navigations \in Seq(Watcher)
      /\ navigation \in Watcher \cup {NoNavigation} /\ n \in Nat /\ m \in Nat
  BY <1>1 DEF TypeOK
<1>3. \A c : Unsent(c)' <=> Unsent(c)
  BY <1>1 DEF Unsent
<1> HIDE DEF Unsent, n, m
<1>4. CASE PollWatched
  <2>1. PICK r \in {"ok", "timeout", "frameNotFound"} : NavigationEnds(r)
    BY <1>4 DEF PollWatched
  <2>2. navigation # NoNavigation /\ navigation.id \in Calls
    BY <1>2, <1>4 DEF PollWatched, Watcher
  <2> DEFINE e == NavigationResult(navigation.id, r)
  <2>3. e \in TargetEvent /\ IsResult(e) /\ ~IsRequest(e) /\ e.id = navigation.id
    BY <2>2, EventTypes DEF NavigationResult
  <2>4. queued_events' = Append(queued_events, e) /\ navigation' = NoNavigation
        /\ pending_navigations' = pending_navigations
    BY <2>1 DEF NavigationEnds
  <2> HIDE DEF e
  <2>5. /\ Len(queued_events') = n + 1 /\ queued_events'[n + 1] = e
        /\ \A i \in 1..n : queued_events'[i] = queued_events[i]
    BY <1>2, <2>3, <2>4, AppendFacts DEF n
  <2>6. ASSUME NEW c \in Calls, Began(c)' PROVE Began(c)
    BY <1>2, <2>2, <2>3, <2>4, <2>5, <2>6 DEF Began, NoNavigation, n
  <2> HIDE DEF Began
  <2>7. OnePlace'
    BY <1>1, <1>2, <2>3, <2>4, <2>5 DEF OnePlace, n
  <2>8. NotSentYet'
    BY <1>1, <1>2, <1>3, <2>3, <2>4, <2>5, <2>6 DEF NotSentYet, n
  <2>9. InOrder'
    <3>1. \A i, k \in 1..n + 1 :
            /\ IsResult(queued_events'[i]) /\ IsRequest(queued_events'[k])
            /\ queued_events'[k].id = queued_events'[i].id
            => k < i
      <4> SUFFICES ASSUME NEW i \in 1..n + 1, NEW k \in 1..n + 1,
                          IsResult(queued_events'[i]), IsRequest(queued_events'[k]),
                          queued_events'[k].id = queued_events'[i].id
                   PROVE  k < i
        OBVIOUS
      <4>1. k \in 1..n
        BY <1>2, <2>3, <2>5
      <4> QED BY <1>1, <1>2, <2>5, <4>1 DEF InOrder, n
    <3>2. \A i, j \in 1..n + 1 :
            IsResult(queued_events'[i]) /\ IsResult(queued_events'[j]) /\ i < j =>
              \E k \in i + 1..j - 1 :
                IsRequest(queued_events'[k]) /\ queued_events'[k].id = queued_events'[j].id
      <4> SUFFICES ASSUME NEW i \in 1..n + 1, NEW j \in 1..n + 1,
                          IsResult(queued_events'[i]), IsResult(queued_events'[j]), i < j
                   PROVE  \E k \in i + 1..j - 1 :
                            /\ IsRequest(queued_events'[k])
                            /\ queued_events'[k].id = queued_events'[j].id
        OBVIOUS
      <4>1. i \in 1..n /\ IsResult(queued_events[i])
        BY <1>2, <2>5
      <4>2. CASE j = n + 1
        <5>1. PICK k \in i + 1..n :
                IsRequest(queued_events[k]) /\ queued_events[k].id = navigation.id
          BY <1>1, <2>2, <4>1 DEF InOrder, n
        <5>2. k \in 1..n /\ k \in i + 1..j - 1
          BY <1>2, <4>1, <4>2
        <5> QED BY <2>3, <2>5, <4>2, <5>1, <5>2
      <4>3. CASE j \in 1..n
        <5>1. PICK k \in i + 1..j - 1 :
                IsRequest(queued_events[k]) /\ queued_events[k].id = queued_events[j].id
          BY <1>1, <2>5, <4>1, <4>3 DEF InOrder, n
        <5>2. k \in 1..n
          BY <1>2, <4>1, <4>3
        <5> QED BY <2>5, <4>3, <5>1, <5>2
      <4> QED BY <1>2, <4>2, <4>3
    <3> QED BY <2>4, <2>5, <3>1, <3>2 DEF InOrder
  <2> QED BY <2>7, <2>8, <2>9
<1>5. CASE StartNext
  <2> DEFINE w == Head(pending_navigations)
             e == NavigationRequest(w.id)
  <2>1. /\ navigation = NoNavigation /\ navigation' = w
        /\ pending_navigations # <<>>
        /\ pending_navigations' = Tail(pending_navigations)
        /\ queued_events' = Append(queued_events, e)
    BY <1>5 DEF StartNext
  <2>2. /\ w \in Watcher /\ w = pending_navigations[1] /\ m \in Nat \ {0} /\ 1 \in 1..m
        /\ Len(pending_navigations') = m - 1
        /\ \A i \in 1..m - 1 :
             i + 1 \in 1..m /\ i + 1 # 1 /\ pending_navigations'[i] = pending_navigations[i + 1]
    BY <1>2, <2>1, HeadTail DEF m
  <2>3. w.id \in Calls /\ w # NoNavigation
    BY <2>2 DEF Watcher, NoNavigation
  <2>4. e \in TargetEvent /\ IsRequest(e) /\ ~IsResult(e) /\ e.id = w.id
    BY <2>3, EventTypes DEF NavigationRequest
  <2> HIDE DEF w, e
  <2>5. /\ Len(queued_events') = n + 1 /\ queued_events'[n + 1] = e
        /\ \A i \in 1..n : queued_events'[i] = queued_events[i]
    BY <1>2, <2>1, <2>4, AppendFacts DEF n
  <2>6. ASSUME NEW c \in Calls, Began(c)', c # w.id PROVE Began(c)
    BY <1>2, <2>1, <2>3, <2>4, <2>5, <2>6 DEF Began, NoNavigation, n
  <2>7. ~Began(w.id) /\ Unsent(w.id) /\ navigations[w.id] = InProgress
    <3> HIDE DEF Began
    <3> QED BY <1>1, <2>2, <2>3 DEF NotSentYet, m
  <2>8. \A i \in 1..n : IsResult(queued_events[i]) => queued_events[i].id # w.id
    BY <2>7 DEF Began, n
  <2> HIDE DEF Began
  <2>9. /\ \A i \in 1..n : ~IsResult(queued_events[i]) => queued_events[i].id # w.id
        /\ \A j \in 1..Len(page_rx) : page_rx[j] # w.id
        /\ \A i \in 1..m - 1 : pending_navigations'[i].id # w.id
    BY <1>1, <2>2 DEF OnePlace, n, m
  <2>10. OnePlace'
    <3>1. ASSUME NEW i \in 1..n + 1, NEW j \in 1..n + 1,
                 ~IsResult(queued_events'[i]), ~IsResult(queued_events'[j]),
                 queued_events'[i].id = queued_events'[j].id
          PROVE  i = j
      BY <1>1, <1>2, <2>4, <2>5, <2>9, <3>1 DEF OnePlace, n
    <3>2. ASSUME NEW i \in 1..m - 1, NEW j \in 1..m - 1,
                 pending_navigations'[i].id = pending_navigations'[j].id
          PROVE  i = j
      <4>1. i + 1 = j + 1
        BY <1>1, <2>2, <3>2 DEF OnePlace, m
      <4> QED BY <1>2, <4>1
    <3>3. ASSUME NEW i \in 1..n + 1, ~IsResult(queued_events'[i])
          PROVE  /\ \A j \in 1..Len(page_rx) : queued_events'[i].id # page_rx[j]
                 /\ \A j \in 1..m - 1 : queued_events'[i].id # pending_navigations'[j].id
      <4>1. CASE i = n + 1
        BY <2>4, <2>5, <2>9, <4>1
      <4>2. CASE i \in 1..n
        <5>1. /\ \A j \in 1..Len(page_rx) : queued_events[i].id # page_rx[j]
              /\ \A j \in 1..m : queued_events[i].id # pending_navigations[j].id
          BY <1>1, <2>5, <3>3, <4>2 DEF OnePlace, n, m
        <5> QED BY <2>2, <2>5, <4>2, <5>1
      <4> QED BY <1>2, <4>1, <4>2
    <3>4. \A i \in 1..m - 1, j \in 1..Len(page_rx) : pending_navigations'[i].id # page_rx[j]
      BY <1>1, <2>2 DEF OnePlace, m
    <3>5. \A i, j \in 1..Len(page_rx) : page_rx[i] = page_rx[j] => i = j
      BY <1>1 DEF OnePlace
    <3> QED BY <1>1, <2>2, <2>5, <3>1, <3>2, <3>3, <3>4, <3>5 DEF OnePlace
  <2>11. NotSentYet'
    <3> SUFFICES ASSUME NEW c \in Calls
                 PROVE  /\ \A i \in 1..Len(page_rx) : page_rx[i] = c => Unsent(c)' /\ ~Began(c)'
                        /\ \A i \in 1..m - 1 :
                             pending_navigations'[i].id = c =>
                               Unsent(c)' /\ ~Began(c)' /\ navigations[c] = InProgress
                        /\ \A i \in 1..n + 1 :
                             ~IsResult(queued_events'[i]) /\ queued_events'[i].id = c =>
                               /\ Unsent(c)'
                               /\ IF IsRequest(queued_events'[i])
                                  THEN navigations[c] = InProgress ELSE ~Began(c)'
                        /\ outcome[c] = "idle" => ~Began(c)' /\ c \notin pending_commands
      BY <1>1, <2>2, <2>5 DEF NotSentYet
    <3>1. CASE c = w.id
      <4>1. outcome[c] # "idle"
        BY <2>7, <3>1 DEF Unsent
      <4>2. \A i \in 1..n + 1 : ~IsResult(queued_events'[i]) /\ queued_events'[i].id = c =>
              IsRequest(queued_events'[i])
        BY <1>2, <2>4, <2>5, <2>9, <3>1
      <4> QED BY <1>3, <2>2, <2>7, <2>9, <3>1, <4>1, <4>2
    <3>2. CASE c # w.id
      <4>1. \A i \in 1..m - 1 :
              pending_navigations'[i].id = c =>
                Unsent(c)' /\ ~Began(c)' /\ navigations[c] = InProgress
        <5>1. \A j \in 1..m :
                pending_navigations[j].id = c =>
                  Unsent(c) /\ ~Began(c) /\ navigations[c] = InProgress
          BY <1>1 DEF NotSentYet, m
        <5> QED BY <1>3, <2>2, <2>6, <3>2, <5>1
      <4>2. ASSUME NEW i \in 1..n + 1, ~IsResult(queued_events'[i]), queued_events'[i].id = c
            PROVE  /\ Unsent(c)'
                   /\ IF IsRequest(queued_events'[i])
                      THEN navigations[c] = InProgress ELSE ~Began(c)'
        <5>1. i \in 1..n
          BY <1>2, <2>4, <2>5, <3>2, <4>2
        <5> QED BY <1>1, <1>3, <2>5, <2>6, <3>2, <4>2, <5>1 DEF NotSentYet, n
      <4>3. /\ \A i \in 1..Len(page_rx) : page_rx[i] = c => Unsent(c)' /\ ~Began(c)'
            /\ outcome[c] = "idle" => ~Began(c)' /\ c \notin pending_commands
        BY <1>1, <1>3, <2>6, <3>2 DEF NotSentYet
      <4> QED BY <4>1, <4>2, <4>3
    <3> QED BY <3>1, <3>2
  <2>12. InOrder'
    <3>1. \A i, k \in 1..n + 1 :
            /\ IsResult(queued_events'[i]) /\ IsRequest(queued_events'[k])
            /\ queued_events'[k].id = queued_events'[i].id
            => k < i
      <4> SUFFICES ASSUME NEW i \in 1..n + 1, NEW k \in 1..n + 1,
                          IsResult(queued_events'[i]), IsRequest(queued_events'[k]),
                          queued_events'[k].id = queued_events'[i].id
                   PROVE  k < i
        OBVIOUS
      <4>1. i \in 1..n /\ k \in 1..n
        BY <1>2, <2>4, <2>5, <2>8
      <4> QED BY <1>1, <1>2, <2>5, <4>1 DEF InOrder, n
    <3>2. \A i, j \in 1..n + 1 :
            IsResult(queued_events'[i]) /\ IsResult(queued_events'[j]) /\ i < j =>
              \E k \in i + 1..j - 1 :
                IsRequest(queued_events'[k]) /\ queued_events'[k].id = queued_events'[j].id
      <4> SUFFICES ASSUME NEW i \in 1..n + 1, NEW j \in 1..n + 1,
                          IsResult(queued_events'[i]), IsResult(queued_events'[j]), i < j
                   PROVE  \E k \in i + 1..j - 1 :
                            /\ IsRequest(queued_events'[k])
                            /\ queued_events'[k].id = queued_events'[j].id
        OBVIOUS
      <4>1. i \in 1..n /\ j \in 1..n
        BY <1>2, <2>4, <2>5
      <4>2. PICK k \in i + 1..j - 1 :
              IsRequest(queued_events[k]) /\ queued_events[k].id = queued_events[j].id
        BY <1>1, <2>5, <4>1 DEF InOrder, n
      <4>3. k \in 1..n
        BY <1>2, <4>1
      <4> QED BY <2>5, <4>1, <4>2, <4>3
    <3>3. \A i \in 1..n + 1 :
            IsResult(queued_events'[i]) =>
              \E k \in i + 1..n + 1 :
                IsRequest(queued_events'[k]) /\ queued_events'[k].id = w.id
      <4> SUFFICES ASSUME NEW i \in 1..n + 1, IsResult(queued_events'[i])
                   PROVE  n + 1 \in i + 1..n + 1
        BY <2>4, <2>5
      <4> QED BY <1>2, <2>4, <2>5
    <3> DEFINE l == Len(queued_events')
    <3>4. l = n + 1
      BY <2>5
    <3> HIDE DEF l
    <3>5. \A i \in 1..l :
            IsResult(queued_events'[i]) /\ navigation' # NoNavigation =>
              \E k \in i + 1..l :
                IsRequest(queued_events'[k]) /\ queued_events'[k].id = navigation'.id
      BY <2>1, <3>3, <3>4
    <3> QED BY <3>1, <3>2, <3>4, <3>5 DEF InOrder, l
  <2> QED BY <2>10, <2>11, <2>12
<1>6. CASE NothingToReport
  BY <1>1, <1>3, <1>6, PlacesSame DEF NothingToReport
<1> QED BY <1>4, <1>5, <1>6 DEF PollFrameManager

LEMMA ReadMessageOrder ==
  ASSUME OrderInv, ReadMessage
  PROVE  OnePlace' /\ NotSentYet' /\ InOrder'
<1> DEFINE msg == Head(inbox)
<1>1. /\ TypeOK /\ OnePlace /\ NotSentYet /\ InOrder
      /\ inbox # <<>> /\ inbox \in Seq(Message) /\ navigation \in Watcher \cup {NoNavigation}
      /\ navigations \in [Calls -> Entry \cup {NoEntry}] /\ outcome \in [Calls -> Outcomes]
      /\ page_rx \in Seq(Calls) /\ queued_events \in Seq(TargetEvent)
  BY DEF OrderInv, TypeOK, ReadMessage
<1>2. msg \in Message
  BY <1>1, HeadTail
<1> HIDE DEF msg
<1>3. CASE msg.type = "response" /\ OnResponse(msg.id, msg.res)
  <2>1. msg.id \in Calls /\ msg.res \in {"ok", "chromeError"}
    BY <1>2, <1>3 DEF Message, FrameEventTypes, Destroyed
  <2>2. /\ UNCHANGED <<page_rx, queued_events, pending_navigations, navigation>>
        /\ pending_commands' = pending_commands \ {msg.id}
    BY <1>3 DEF OnResponse, targetVars
  <2>3. ASSUME NEW c \in Calls, c # msg.id \/ Unsent(c)
        PROVE  navigations'[c] = navigations[c] /\ outcome'[c] = outcome[c]
    BY <1>1, <1>3, <2>1, <2>3 DEF OnResponse, Deliver, Unsent
  <2>4. \A c \in Calls : outcome'[c] = "idle" => outcome[c] = "idle"
    BY <1>1, <1>3, <2>1 DEF OnResponse, Deliver
  <2>5. \A c \in Calls : Unsent(c) => Unsent(c)' /\ navigations'[c] = navigations[c]
    BY <2>2, <2>3 DEF Unsent
  <2> QED BY <2>2, <2>4, <2>5, PlacesSame
<1>4. CASE msg.type \in FrameEventTypes /\ alive /\ OnFrameEvent(msg)
  <2>1. /\ UNCHANGED <<outcome, page_rx, queued_events, pending_navigations, navigations,
                       pending_commands>>
        /\ \/ navigation' = navigation
           \/ /\ navigation # NoNavigation
              /\ navigation' = [navigation EXCEPT !.same_document = TRUE]
    BY <1>4 DEF OnFrameEvent, handlerVars
  <2>2. navigation'.id = navigation.id
    BY <1>1, <2>1 DEF Watcher
  <2>3. \A c \in Calls : Unsent(c) => Unsent(c)' /\ navigations'[c] = navigations[c]
    BY <2>1 DEF Unsent
  <2> QED BY <2>1, <2>2, <2>3, PlacesSame
<1>5. CASE /\ msg.type \in FrameEventTypes /\ ~alive
           /\ UNCHANGED <<outcome, targetVars, handlerVars>>
  <2>1. UNCHANGED <<outcome, page_rx, queued_events, pending_navigations, navigation,
                    navigations, pending_commands>>
    BY <1>5 DEF targetVars, handlerVars
  <2> QED BY <2>1, PlacesSame DEF Unsent
<1>6. CASE msg.type = "targetDestroyed" /\ OnTargetDestroyed
  <2>1. /\ page_rx' = <<>> /\ pending_navigations' = <<>> /\ navigation' = NoNavigation
        /\ outcome' = [c \in Calls |-> IF outcome[c] = "waiting" /\ Has(page_rx, c)
                                         THEN "canceled" ELSE outcome[c]]
        /\ UNCHANGED <<queued_events, navigations, pending_commands>>
    BY <1>6 DEF OnTargetDestroyed, handlerVars
  <2>2. OnePlace' /\ InOrder'
    BY <1>1, <2>1 DEF OnePlace, InOrder
  <2>3. \A c \in Calls : ~Has(page_rx, c) /\ Unsent(c) => Unsent(c)'
    BY <2>1 DEF Unsent
  <2>4. \A c \in Calls : outcome'[c] = "idle" => outcome[c] = "idle"
    BY <2>1
  <2>5. \A c \in Calls : Began(c)' => Began(c)
    BY <2>1 DEF Began, NoNavigation
  <2>6. \A i \in 1..Len(queued_events) :
          ~IsResult(queued_events[i]) => ~Has(page_rx, queued_events[i].id)
    BY <1>1 DEF OnePlace, Has
  <2> HIDE DEF Unsent, Began
  <2>7. NotSentYet'
    BY <1>1, <2>1, <2>3, <2>4, <2>5, <2>6 DEF NotSentYet
  <2> QED BY <2>2, <2>7
<1> QED BY <1>3, <1>4, <1>5, <1>6 DEF ReadMessage, msg

LEMMA EvictOrder ==
  ASSUME OrderInv, EvictTimedOut
  PROVE  OnePlace' /\ NotSentYet' /\ InOrder'
<1>1. /\ navigations \in [Calls -> Entry \cup {NoEntry}] /\ outcome \in [Calls -> Outcomes]
      /\ expired \subseteq pending_commands
      /\ pending_commands' \subseteq pending_commands
      /\ UNCHANGED <<page_rx, queued_events, pending_navigations, navigation>>
  BY DEF OrderInv, TypeOK, EvictTimedOut, targetVars
<1>2. \A c \in Calls : Unsent(c) => Unsent(c)' /\ navigations'[c] = navigations[c]
  BY <1>1 DEF EvictTimedOut, Unsent
<1>3. \A c \in Calls : outcome'[c] = "idle" => outcome[c] = "idle"
  BY <1>1 DEF EvictTimedOut
<1> QED BY <1>1, <1>2, <1>3, PlacesSame

LEMMA GotoOrder ==
  ASSUME OrderInv, NEW c \in Calls, Goto(c)
  PROVE  OnePlace' /\ NotSentYet' /\ InOrder'
<1> DEFINE m == Len(page_rx)
<1>1. /\ TypeOK /\ OnePlace /\ NotSentYet /\ InOrder /\ outcome[c] = "idle"
      /\ UNCHANGED <<queued_events, pending_navigations, navigation, navigations,
                     pending_commands>>
      /\ page_rx \in Seq(Calls) /\ outcome \in [Calls -> Outcomes] /\ m \in Nat
  BY DEF OrderInv, TypeOK, Goto, handlerVars
<1> HIDE DEF m
<1>2. CASE ~alive
  BY <1>1, <1>2, PlacesSame DEF Goto, Unsent
<1>3. CASE alive
  <2>1. page_rx' = Append(page_rx, c) /\ outcome' = [outcome EXCEPT ![c] = "waiting"]
    BY <1>3 DEF Goto
  <2>2. /\ Len(page_rx') = m + 1 /\ page_rx'[m + 1] = c
        /\ \A i \in 1..m : page_rx'[i] = page_rx[i]
    BY <1>1, <2>1, AppendFacts DEF m
  <2>3. ~Began(c) /\ ~Unsent(c)
    <3>1. ~Unsent(c)
      BY <1>1 DEF Unsent
    <3> HIDE DEF Began
    <3> QED BY <1>1, <3>1 DEF NotSentYet
  <2>4. Unsent(c)'
    BY <1>1, <2>1 DEF Unsent, NotSentYet
  <2>5. \A d \in Calls : Unsent(d) => Unsent(d)'
    BY <1>1, <2>1 DEF Unsent
  <2>6. \A d : Began(d)' <=> Began(d)
    BY <1>1 DEF Began
  <2> HIDE DEF Unsent, Began
  <2>7. /\ \A i \in 1..m : page_rx[i] # c
        /\ \A i \in 1..Len(pending_navigations) : pending_navigations[i].id # c
        /\ \A i \in 1..Len(queued_events) :
             ~IsResult(queued_events[i]) => queued_events[i].id # c
    BY <1>1, <2>3 DEF NotSentYet, m
  <2>8. OnePlace'
    <3>1. ASSUME NEW i \in 1..m + 1, NEW j \in 1..m + 1, page_rx'[i] = page_rx'[j]
          PROVE  i = j
      BY <1>1, <2>2, <2>7, <3>1 DEF OnePlace, m
    <3>2. ASSUME NEW j \in 1..m + 1
          PROVE  /\ \A i \in 1..Len(queued_events) :
                      ~IsResult(queued_events[i]) => queued_events[i].id # page_rx'[j]
                 /\ \A i \in 1..Len(pending_navigations) :
                      pending_navigations[i].id # page_rx'[j]
      <4>1. CASE j = m + 1
        BY <2>2, <2>7, <4>1
      <4>2. CASE j \in 1..m
        BY <1>1, <2>2, <4>2 DEF OnePlace, m
      <4> QED BY <1>1, <4>1, <4>2
    <3> QED BY <1>1, <2>2, <3>1, <3>2 DEF OnePlace
  <2>9. NotSentYet'
    <3> SUFFICES ASSUME NEW d \in Calls
                 PROVE  /\ \A i \in 1..m + 1 : page_rx'[i] = d => Unsent(d)' /\ ~Began(d)'
                        /\ \A i \in 1..Len(pending_navigations) :
                             pending_navigations[i].id = d =>
                               Unsent(d)' /\ ~Began(d)' /\ navigations[d] = InProgress
                        /\ \A i \in 1..Len(queued_events) :
                             ~IsResult(queued_events[i]) /\ queued_events[i].id = d =>
                               /\ Unsent(d)'
                               /\ IF IsRequest(queued_events[i])
                                  THEN navigations[d] = InProgress ELSE ~Began(d)'
                        /\ outcome'[d] = "idle" => ~Began(d)' /\ d \notin pending_commands
      BY <1>1, <2>2 DEF NotSentYet
    <3>1. CASE d = c
      BY <1>1, <2>1, <2>3, <2>4, <2>6, <2>7, <3>1
    <3>2. CASE d # c
      <4>1. outcome'[d] = outcome[d]
        BY <1>1, <2>1, <3>2
      <4>2. \A i \in 1..m + 1 : page_rx'[i] = d => Unsent(d)' /\ ~Began(d)'
        <5>1. \A i \in 1..m + 1 : page_rx'[i] = d => i \in 1..m /\ page_rx[i] = d
          BY <1>1, <2>2, <3>2
        <5> QED BY <1>1, <2>5, <2>6, <5>1 DEF NotSentYet, m
      <4> QED BY <1>1, <2>5, <2>6, <4>1, <4>2 DEF NotSentYet
    <3> QED BY <3>1, <3>2
  <2>10. InOrder'
    BY <1>1 DEF InOrder
  <2> QED BY <2>8, <2>9, <2>10
<1> QED BY <1>2, <1>3

\* The callers' and the commands' deadlines, the clock and the browser.
LEMMA OutsideOrder ==
  ASSUME OrderInv,
         \/ \E c \in Calls : ClientTimeout(c) \/ CommandExpires(c)
         \/ DeadlinePasses \/ ChromeNavigate \/ ChromeEvent \/ UNCHANGED vars
  PROVE  OnePlace' /\ NotSentYet' /\ InOrder'
<1>1. /\ UNCHANGED <<page_rx, queued_events, pending_navigations, navigation, navigations,
                     pending_commands>>
      /\ \A c \in Calls :
           \/ outcome'[c] = outcome[c]
           \/ outcome[c] = "waiting" /\ outcome'[c] = "clientTimeout"
  <2>1. ASSUME NEW d \in Calls, ClientTimeout(d)
        PROVE  /\ UNCHANGED <<targetVars, handlerVars>>
               /\ \A c \in Calls :
                    \/ outcome'[c] = outcome[c]
                    \/ outcome[c] = "waiting" /\ outcome'[c] = "clientTimeout"
    BY <2>1 DEF OrderInv, TypeOK, ClientTimeout
  <2>2. CASE \E c \in Calls : ClientTimeout(c)
    BY <2>1, <2>2 DEF targetVars, handlerVars
  <2>3. CASE \E c \in Calls : CommandExpires(c)
    BY <2>3 DEF CommandExpires, callerVars, targetVars
  <2>4. CASE DeadlinePasses
    BY <2>4 DEF DeadlinePasses, callerVars, handlerVars
  <2>5. CASE ChromeNavigate \/ ChromeEvent \/ UNCHANGED vars
    BY <2>5 DEF ChromeNavigate, ChromeEvent, vars, callerVars, targetVars, handlerVars
  <2> QED BY <2>2, <2>3, <2>4, <2>5
<1>2. \A c \in Calls : Unsent(c) => Unsent(c)' /\ navigations'[c] = navigations[c]
  BY <1>1 DEF Unsent
<1>3. \A c \in Calls : outcome'[c] = "idle" => outcome[c] = "idle"
  BY <1>1
<1> QED BY <1>1, <1>2, <1>3, PlacesSame

LEMMA NextOrderInv == OrderInv /\ [Next]_vars => OrderInv'
<1> SUFFICES ASSUME OrderInv, [Next]_vars PROVE OrderInv'
  OBVIOUS
<1>1. TypeOK' /\ EntriesAreServed'
  BY NextTypeOK, NextServed DEF OrderInv
<1>2. OnePlace' /\ NotSentYet' /\ InOrder'
  <2>1. CASE HandlerStep
    BY <2>1, HandleOrder, DrainOrder, PollOrder, ReadMessageOrder, EvictOrder DEF HandlerStep
  <2>2. CASE \E c \in Calls : Goto(c)
    BY <2>2, GotoOrder
  <2>3. CASE \/ \E c \in Calls : ClientTimeout(c) \/ CommandExpires(c)
             \/ DeadlinePasses \/ ChromeNavigate \/ ChromeEvent \/ UNCHANGED vars
    BY <2>3, OutsideOrder
  <2> QED BY <2>1, <2>2, <2>3 DEF Next
<1> QED BY <1>1, <1>2 DEF OrderInv

\* However many gotos are made at once, the browser is asked for the next document only
\* when the load of the one before it has ended or has been given up.
THEOREM OneNavigationAtATime == Spec => []OneNavigationInFlight
<1>1. Spec => []OrderInv
  BY InitOrderInv, NextOrderInv, PTL DEF Spec
<1> QED BY <1>1, OneInFlight, PTL

-----------------------------------------------------------------------------
(* What an undisturbed call finds until its document loads *)

\* The caller has not been told of a success, and no load was counted for it.
NotAnswered(c) == outcome[c] # "ok" /\ ~navigations[c].navigated

\* Its Target has no other navigation, and what watches for the end of this one
\* compares with the document that was there when it was asked for.
AloneInTarget(c) ==
  /\ \A i \in 1..Len(queued_events) :
       /\ IsRequest(queued_events[i]) => queued_events[i].id = c
       /\ IsResult(queued_events[i]) /\ queued_events[i].id = c => queued_events[i].res # "ok"
  /\ \A i \in 1..Len(pending_navigations) :
       /\ pending_navigations[i].id = c /\ ~pending_navigations[i].same_document
       /\ main_frame.loaded => main_frame.loader = pending_navigations[i].loader
  /\ navigation # NoNavigation =>
       /\ navigation.id = c /\ ~navigation.same_document
       /\ main_frame.loaded => main_frame.loader = navigation.loader

\* The browser loads no other document, and no end of a load is on its way.
AloneInBrowser(c) ==
  /\ \A i \in 1..Len(outbox) : outbox[i] = c
  /\ \A i \in 1..Len(inbox) : inbox[i].type \notin {"load", "withinDocument"}
  /\ chrome.starting \in {NoLoader, c}
  /\ chrome.loading => chrome.committed = c

SoloInv ==
  \A c \in solo :
    c \notin settled => NotAnswered(c) /\ AloneInTarget(c) /\ AloneInBrowser(c)

\* The clauses are about one call; a call that stays undisturbed and unsettled had them.
LEMMA SoloStep ==
  ASSUME SoloInv, solo' \subseteq solo, settled \subseteq settled',
         \A c \in solo' :
           c \notin settled' /\ NotAnswered(c) /\ AloneInTarget(c) /\ AloneInBrowser(c) =>
             NotAnswered(c)' /\ AloneInTarget(c)' /\ AloneInBrowser(c)'
  PROVE  SoloInv'
<1> HIDE DEF NotAnswered, AloneInTarget, AloneInBrowser
<1> QED BY DEF SoloInv

LEMMA HandleSolo ==
  ASSUME OrderInv, SoloInv, HandleTargetEvent
  PROVE  SoloInv'
<1> DEFINE ev == Head(queued_events)
           n == Len(queued_events)
<1>1. /\ TypeOK /\ NotSentYet /\ queued_events # <<>> /\ queued_events' = Tail(queued_events)
      /\ UNCHANGED <<navigation, main_frame, inbox, chrome, settled>>
  BY DEF OrderInv, HandleTargetEvent
<1>2. /\ n \in Nat \ {0} /\ Len(queued_events') = n - 1 /\ ev = queued_events[1]
      /\ 1 \in 1..n
      /\ \A i \in 1..n - 1 : i + 1 \in 1..n /\ queued_events'[i] = queued_events[i + 1]
  BY <1>1, TailFacts
<1>3. /\ ev \in TargetEvent /\ ev.id \in Calls /\ solo \subseteq Calls
      /\ navigations \in [Calls -> Entry \cup {NoEntry}] /\ outcome \in [Calls -> Outcomes]
      /\ pending_navigations \in Seq(Watcher) /\ outbox \in Seq(Calls)
  <2>1. queued_events \in Seq(TargetEvent)
    BY <1>1 DEF TypeOK
  <2> QED BY <1>1, <2>1, HeadTail, EventByFields DEF TypeOK
<1> HIDE DEF ev, n
<1>4. CASE ev.type = "Command" /\ OnCommand(ev.id)
  <2> DEFINE w == [id |-> ev.id, frame |-> main_frame.id,
                   loader |-> main_frame.loader, same_document |-> FALSE]
  <2>1. /\ UNCHANGED <<outcome, pending_commands, outbox>>
        /\ pending_navigations' = Append(pending_navigations, w)
        /\ navigations' = [navigations EXCEPT ![ev.id] = InProgress]
        /\ solo' = IF Quiet THEN {ev.id} ELSE {}
    BY <1>4 DEF OnCommand, NavigateFrame
  <2>2. CASE ~Quiet
    BY <2>1, <2>2 DEF SoloInv
  <2>3. CASE Quiet
    <3>0. PICK d \in Calls : d = ev.id
      BY <1>3
    <3>1. /\ \A x \in Calls : navigations[x] = NoEntry
          /\ navigation = NoNavigation /\ pending_navigations = <<>> /\ outbox = <<>>
          /\ chrome.starting = NoLoader /\ ~chrome.loading
          /\ \A i \in 1..Len(inbox) : inbox[i].type \notin {"load", "withinDocument"}
      BY <2>3 DEF Quiet, FrameEventTypes
    <3>2. Unsent(d) /\ ~Began(d)
      <4>1. ~IsResult(queued_events[1]) /\ ~IsRequest(queued_events[1])
            /\ queued_events[1].id = ev.id
        BY <1>2, <1>4
      <4> HIDE DEF Unsent, Began
      <4> QED BY <1>1, <1>2, <1>3, <3>0, <4>1 DEF NotSentYet, n
    <3>3. NotAnswered(d)'
      BY <1>3, <2>1, <3>0, <3>2 DEF NotAnswered, Unsent, InProgress
    <3>4. AloneInBrowser(d)'
      BY <1>1, <2>1, <3>1 DEF AloneInBrowser
    <3>5. AloneInTarget(d)'
      <4>1. \A i \in 1..n : /\ IsRequest(queued_events[i]) => FALSE
                            /\ IsResult(queued_events[i]) => queued_events[i].id # d
        <5>1. \A i \in 1..n : queued_events[i] \in TargetEvent
          BY <1>1 DEF TypeOK, n
        <5>2. \A i \in 1..n : queued_events[i].id \in Calls
          BY <5>1, EventByFields
        <5>3. InProgress # NoEntry
          BY DEF InProgress, NoEntry, NoResponse
        <5>4. \A i \in 1..n : ~IsRequest(queued_events[i])
          BY <1>1, <3>1, <5>2, <5>3 DEF NotSentYet, n
        <5> QED BY <3>2, <5>4 DEF Began, n
      <4>2. /\ Len(pending_navigations') = 1 /\ pending_navigations'[1] = w
        BY <2>1, <3>1
      <4>3. \A i \in 1..n - 1 :
              /\ IsRequest(queued_events'[i]) => queued_events'[i].id = d
              /\ IsResult(queued_events'[i]) => queued_events'[i].id # d
        BY <1>2, <4>1
      <4> QED BY <1>1, <1>2, <3>0, <3>1, <4>2, <4>3 DEF AloneInTarget
    <3> HIDE DEF NotAnswered, AloneInTarget, AloneInBrowser
    <3> QED BY <2>1, <2>3, <3>0, <3>3, <3>4, <3>5 DEF SoloInv
  <2> QED BY <2>2, <2>3
<1>5. CASE ev.type = "NavigationRequest" /\ OnNavigationRequest(ev.id)
  <2>1. /\ UNCHANGED <<outcome, pending_navigations, navigations, solo>>
        /\ outbox' = Append(outbox, ev.id)
    BY <1>5 DEF OnNavigationRequest
  <2>2. /\ Len(outbox') = Len(outbox) + 1 /\ Len(outbox) \in Nat
        /\ outbox'[Len(outbox) + 1] = ev.id
        /\ \A i \in 1..Len(outbox) : outbox'[i] = outbox[i]
    BY <1>3, <2>1, AppendFacts
  <2> SUFFICES ASSUME NEW c \in solo', c \notin settled',
                      NotAnswered(c), AloneInTarget(c), AloneInBrowser(c)
               PROVE  NotAnswered(c)' /\ AloneInTarget(c)' /\ AloneInBrowser(c)'
    BY <1>1, <2>1, SoloStep
  <2>3. ev.id = c
    BY <1>2, <1>5 DEF AloneInTarget, n
  <2>4. NotAnswered(c)'
    BY <2>1 DEF NotAnswered
  <2>5. AloneInTarget(c)'
    BY <1>1, <1>2, <2>1 DEF AloneInTarget, n
  <2>6. AloneInBrowser(c)'
    BY <1>1, <2>2, <2>3 DEF AloneInBrowser
  <2> QED BY <2>4, <2>5, <2>6
<1>6. CASE ev.type = "NavigationResult" /\ OnLifecycleCompleted(ev.id, ev.res)
  <2>1. UNCHANGED <<pending_navigations, outbox, solo>>
    BY <1>6 DEF OnLifecycleCompleted
  <2> SUFFICES ASSUME NEW c \in solo', c \notin settled',
                      NotAnswered(c), AloneInTarget(c), AloneInBrowser(c)
               PROVE  NotAnswered(c)' /\ AloneInTarget(c)' /\ AloneInBrowser(c)'
    BY <1>1, <2>1, SoloStep
  <2>2. ev.id = c => ev.res # "ok"
    BY <1>2, <1>6 DEF AloneInTarget, n
  <2>3. NotAnswered(c)'
    <3>1. CASE ev.id = c
      BY <1>3, <1>6, <2>1, <2>2, <3>1 DEF OnLifecycleCompleted, Deliver, NotAnswered, NoEntry
    <3>2. CASE ev.id # c
      BY <1>3, <1>6, <2>1, <3>2 DEF OnLifecycleCompleted, Deliver, NotAnswered
    <3> QED BY <3>1, <3>2
  <2>5. AloneInTarget(c)'
    BY <1>1, <1>2, <2>1 DEF AloneInTarget, n
  <2>6. AloneInBrowser(c)'
    BY <1>1, <2>1 DEF AloneInBrowser
  <2> QED BY <2>3, <2>5, <2>6
<1> QED BY <1>4, <1>5, <1>6 DEF HandleTargetEvent, ev

LEMMA DrainSolo ==
  ASSUME TypeOK, SoloInv, DrainPageChannel
  PROVE  SoloInv'
<1>1. /\ queued_events' = [i \in 1..Len(page_rx) |-> Command(page_rx[i])]
      /\ UNCHANGED <<outcome, pending_navigations, navigation, main_frame, navigations,
                     outbox, inbox, chrome, settled, solo>>
  BY DEF DrainPageChannel, callerVars, handlerVars, connVars, ghostVars
<1>2. \A i \in 1..Len(queued_events') :
        ~IsResult(queued_events'[i]) /\ ~IsRequest(queued_events'[i])
  <2>1. page_rx \in Seq(Calls) /\ Len(page_rx) \in Nat
    BY DEF TypeOK
  <2> QED BY <1>1, <2>1 DEF Command
<1>3. \A c : NotAnswered(c) => NotAnswered(c)'
  BY <1>1 DEF NotAnswered
<1>4. \A c : AloneInTarget(c) => AloneInTarget(c)'
  BY <1>1, <1>2 DEF AloneInTarget
<1>5. \A c : AloneInBrowser(c) => AloneInBrowser(c)'
  BY <1>1 DEF AloneInBrowser
<1> QED BY <1>1, <1>3, <1>4, <1>5, SoloStep

LEMMA PollSolo ==
  ASSUME TypeOK, SoloInv, PollFrameManager
  PROVE  SoloInv'
<1> DEFINE n == Len(queued_events)
           m == Len(pending_navigations)
<1>1. /\ UNCHANGED <<outcome, main_frame, navigations, outbox, inbox, chrome, settled, solo>>
      /\ queued_events \in Seq(TargetEvent) /\ pending_navigations \in Seq(Watcher)
      /\ navigation \in Watcher \cup {NoNavigation} /\ n \in Nat /\ m \in Nat
  BY DEF PollFrameManager, TypeOK, callerVars, handlerVars, connVars, ghostVars
<1>2. \A c : (NotAnswered(c) => NotAnswered(c)') /\ (AloneInBrowser(c) => AloneInBrowser(c)')
  BY <1>1 DEF NotAnswered, AloneInBrowser
<1> HIDE DEF n, m
<1>3. ASSUME NEW c \in solo, AloneInTarget(c) PROVE AloneInTarget(c)'
  <2>1. CASE PollWatched
    <3>1. PICK r \in {"ok", "timeout", "frameNotFound"} :
            /\ NavigationEnds(r)
            /\ r = "ok" => LifecycleComplete(navigation)
      BY <2>1 DEF PollWatched
    <3> DEFINE e == NavigationResult(navigation.id, r)
    <3>2. navigation # NoNavigation /\ navigation.id \in Calls
      BY <1>1, <2>1 DEF PollWatched, Watcher
    <3>3. r # "ok"
      BY <1>3, <3>1, <3>2 DEF AloneInTarget, LifecycleComplete
    <3>4. e \in TargetEvent /\ IsResult(e) /\ ~IsRequest(e) /\ e.res = r
      BY <3>2, EventTypes DEF NavigationResult
    <3> HIDE DEF e
    <3>5. /\ Len(queued_events') = n + 1 /\ queued_events'[n + 1] = e
          /\ \A i \in 1..n : queued_events'[i] = queued_events[i]
      BY <1>1, <3>1, <3>4, AppendFacts DEF n, e, NavigationEnds
    <3>6. navigation' = NoNavigation /\ pending_navigations' = pending_navigations
      BY <3>1 DEF NavigationEnds
    <3> QED BY <1>1, <1>3, <3>3, <3>4, <3>5, <3>6 DEF AloneInTarget, n
  <2>2. CASE StartNext
    <3> DEFINE w == Head(pending_navigations)
               e == NavigationRequest(w.id)
    <3>1. /\ navigation' = w /\ pending_navigations # <<>>
          /\ pending_navigations' = Tail(pending_navigations)
          /\ queued_events' = Append(queued_events, e)
      BY <2>2 DEF StartNext
    <3>2. /\ w \in Watcher /\ w = pending_navigations[1] /\ m \in Nat \ {0} /\ 1 \in 1..m
          /\ Len(pending_navigations') = m - 1
          /\ \A i \in 1..m - 1 :
               i + 1 \in 1..m /\ pending_navigations'[i] = pending_navigations[i + 1]
      BY <1>1, <3>1, HeadTail DEF m
    <3>3. /\ w.id = c /\ ~w.same_document
          /\ main_frame.loaded => main_frame.loader = w.loader
      BY <1>3, <3>2 DEF AloneInTarget, m
    <3>4. e \in TargetEvent /\ IsRequest(e) /\ ~IsResult(e) /\ e.id = c
      <4>1. w.id \in Calls
        BY <3>2 DEF Watcher
      <4> QED BY <3>3, <4>1, EventTypes DEF NavigationRequest
    <3> HIDE DEF w, e
    <3>5. /\ Len(queued_events') = n + 1 /\ queued_events'[n + 1] = e
          /\ \A i \in 1..n : queued_events'[i] = queued_events[i]
      BY <1>1, <3>1, <3>4, AppendFacts DEF n
    <3>6. \A i \in 1..n + 1 :
            /\ IsRequest(queued_events'[i]) => queued_events'[i].id = c
            /\ IsResult(queued_events'[i]) /\ queued_events'[i].id = c =>
                 queued_events'[i].res # "ok"
      BY <1>1, <1>3, <3>4, <3>5 DEF AloneInTarget, n
    <3>7. \A i \in 1..m - 1 :
            /\ pending_navigations'[i].id = c /\ ~pending_navigations'[i].same_document
            /\ main_frame.loaded => main_frame.loader = pending_navigations'[i].loader
      BY <1>3, <3>2 DEF AloneInTarget, m
    <3> QED BY <1>1, <3>1, <3>2, <3>3, <3>5, <3>6, <3>7 DEF AloneInTarget
  <2>3. CASE NothingToReport
    BY <1>1, <1>3, <2>3 DEF NothingToReport, AloneInTarget
  <2> QED BY <2>1, <2>2, <2>3 DEF PollFrameManager
<1> QED BY <1>1, <1>2, <1>3, SoloStep

\* Messages that end no load, added to messages of which none does.
LEMMA QuietAppend ==
  ASSUME inbox \in Seq(Message), NEW m \in Message, inbox' = Append(inbox, m),
         m.type \notin {"load", "withinDocument"},
         \A i \in 1..Len(inbox) : inbox[i].type \notin {"load", "withinDocument"}
  PROVE  \A i \in 1..Len(inbox') : inbox'[i].type \notin {"load", "withinDocument"}
<1>1. /\ Len(inbox') = Len(inbox) + 1 /\ Len(inbox) \in Nat /\ inbox'[Len(inbox) + 1] = m
      /\ \A i \in 1..Len(inbox) : inbox'[i] = inbox[i]
  BY AppendFacts
<1> QED BY <1>1

LEMMA BeginAlone ==
  ASSUME TypeOK, NEW c, AloneInBrowser(c), c \in Calls, Begin(c, {c})
  PROVE  /\ \A i \in 1..Len(inbox') : inbox'[i].type \notin {"load", "withinDocument"}
         /\ chrome'.starting = c
         /\ chrome'.loading => chrome'.committed = c
<1> DEFINE started == FrameEvent("startedLoading", chrome.frame, chrome.committed)
           aborted == {chrome.starting} \cap chrome.owed
           failed == Response(chrome.starting, "chromeError")
           before == IF aborted = {} THEN inbox ELSE Append(inbox, failed)
<1>1. started \in Message /\ started.type = "startedLoading"
  BY MessageTypes DEF TypeOK, FrameEventTypes, FrameEvent
<1>2. aborted # {} => failed \in Message /\ failed.type = "response"
  BY MessageTypes DEF TypeOK, Response
<1>3. inbox' = before \o <<started>> /\ inbox \in Seq(Message)
  BY DEF Begin, TypeOK
<1> HIDE DEF started, failed
<1>4. /\ before \in Seq(Message) /\ Len(before) \in Nat
      /\ \A i \in 1..Len(before) : before[i].type \notin {"load", "withinDocument"}
  <2>1. CASE aborted = {}
    BY <1>3, <2>1 DEF AloneInBrowser
  <2>2. CASE aborted # {}
    <3>1. /\ before = Append(inbox, failed) /\ failed \in Message /\ failed.type = "response"
          /\ Len(before) = Len(inbox) + 1 /\ Len(inbox) \in Nat /\ before[Len(inbox) + 1] = failed
          /\ \A i \in 1..Len(inbox) : before[i] = inbox[i]
      BY <1>2, <1>3, <2>2, AppendFacts
    <3> HIDE DEF before, aborted
    <3> QED BY <1>3, <3>1 DEF AloneInBrowser
  <2> QED BY <2>1, <2>2
<1>5. chrome'.starting = c /\ (chrome'.loading => chrome'.committed = c)
  BY DEF Begin, TypeOK, AloneInBrowser
<1> HIDE DEF before, aborted
<1>6. /\ Len(inbox') = Len(before) + 1 /\ inbox'[Len(before) + 1] = started
      /\ \A i \in 1..Len(before) : inbox'[i] = before[i]
  BY <1>1, <1>3, <1>4
<1> QED BY <1>1, <1>4, <1>5, <1>6

LEMMA ReadMessageSolo ==
  ASSUME TypeOK, SoloInv, ReadMessage
  PROVE  SoloInv'
<1> DEFINE msg == Head(inbox)
           n == Len(inbox)
<1>1. /\ inbox # <<>> /\ inbox' = Tail(inbox) /\ inbox \in Seq(Message)
      /\ UNCHANGED <<outbox, chrome, settled, solo>>
      /\ navigations \in [Calls -> Entry \cup {NoEntry}] /\ outcome \in [Calls -> Outcomes]
      /\ navigation \in Watcher \cup {NoNavigation} /\ solo \subseteq Calls
      /\ main_frame \in [id : FrameIds, loader : Loader, loaded : BOOLEAN]
  BY DEF TypeOK, ReadMessage, ghostVars
<1>2. /\ msg \in Message /\ msg = inbox[1] /\ 1 \in 1..n /\ n \in Nat /\ Len(inbox') = n - 1
      /\ \A i \in 1..n - 1 : i + 1 \in 1..n /\ inbox'[i] = inbox[i + 1]
  BY <1>1, HeadTail
<1> SUFFICES ASSUME NEW c \in solo', c \notin settled',
                    NotAnswered(c), AloneInTarget(c), AloneInBrowser(c)
             PROVE  NotAnswered(c)' /\ AloneInTarget(c)' /\ AloneInBrowser(c)'
  BY <1>1, SoloStep
<1> HIDE DEF msg, n
<1>3. AloneInBrowser(c)'
  BY <1>1, <1>2 DEF AloneInBrowser, n
<1>4. msg.type \notin {"load", "withinDocument"}
  BY <1>2 DEF AloneInBrowser, n
<1>5. CASE msg.type = "response" /\ OnResponse(msg.id, msg.res)
  <2>1. msg.id \in Calls /\ msg.res \in {"ok", "chromeError"}
    BY <1>2, <1>5 DEF Message, FrameEventTypes, Destroyed
  <2>2. AloneInTarget(c)'
    BY <1>5 DEF OnResponse, targetVars, AloneInTarget
  <2>3. NotAnswered(c)'
    <3>1. CASE msg.id = c
      BY <1>1, <1>5, <2>1, <3>1 DEF OnResponse, Deliver, NotAnswered, Entry, NoEntry
    <3>2. CASE msg.id # c
      BY <1>1, <1>5, <2>1, <3>2 DEF OnResponse, Deliver, NotAnswered
    <3> QED BY <3>1, <3>2
  <2> QED BY <1>3, <2>2, <2>3
<1>6. CASE msg.type \in FrameEventTypes /\ alive /\ OnFrameEvent(msg)
  <2>1. /\ UNCHANGED <<outcome, queued_events, pending_navigations, navigations, navigation>>
        /\ main_frame'.loaded => main_frame.loaded /\ main_frame'.loader = main_frame.loader
    BY <1>1, <1>4, <1>6 DEF OnFrameEvent, handlerVars
  <2>2. NotAnswered(c)'
    BY <2>1 DEF NotAnswered
  <2>3. AloneInTarget(c)'
    BY <2>1 DEF AloneInTarget
  <2> QED BY <1>3, <2>2, <2>3
<1>7. CASE UNCHANGED <<outcome, targetVars, handlerVars>>
  BY <1>3, <1>7 DEF targetVars, handlerVars, NotAnswered, AloneInTarget
<1>8. CASE OnTargetDestroyed
  <2>1. /\ pending_navigations' = <<>> /\ navigation' = NoNavigation
        /\ UNCHANGED <<queued_events, main_frame, navigations>>
        /\ outcome'[c] # "ok"
    BY <1>1, <1>8 DEF OnTargetDestroyed, NotAnswered, handlerVars
  <2>2. NotAnswered(c)'
    BY <2>1 DEF NotAnswered
  <2>3. AloneInTarget(c)'
    BY <2>1 DEF AloneInTarget
  <2> QED BY <1>3, <2>2, <2>3
<1> QED BY <1>5, <1>6, <1>7, <1>8 DEF ReadMessage, msg

LEMMA EvictSolo ==
  ASSUME TypeOK, SoloInv, EvictTimedOut
  PROVE  SoloInv'
<1>1. UNCHANGED <<queued_events, pending_navigations, navigation, main_frame, outbox, inbox,
                  chrome, settled, solo>>
  BY DEF EvictTimedOut, targetVars, connVars, ghostVars
<1>2. \A c \in Calls : NotAnswered(c) => NotAnswered(c)'
  BY DEF TypeOK, EvictTimedOut, NotAnswered, NoEntry
<1>3. \A c : (AloneInTarget(c) => AloneInTarget(c)') /\ (AloneInBrowser(c) => AloneInBrowser(c)')
  BY <1>1 DEF AloneInTarget, AloneInBrowser
<1>4. solo \subseteq Calls
  BY DEF TypeOK
<1> HIDE DEF NotAnswered, AloneInTarget, AloneInBrowser
<1> QED BY <1>1, <1>2, <1>3, <1>4, SoloStep

\* The callers, their deadlines and the clock.
LEMMA CallersSolo ==
  ASSUME TypeOK, SoloInv,
         \/ \E c \in Calls : Goto(c) \/ ClientTimeout(c) \/ CommandExpires(c)
         \/ DeadlinePasses
         \/ UNCHANGED vars
  PROVE  SoloInv'
<1>1. UNCHANGED <<queued_events, pending_navigations, navigation, main_frame, navigations,
                  outbox, inbox, chrome, settled, solo>>
  BY DEF Goto, ClientTimeout, CommandExpires, DeadlinePasses, vars, callerVars, targetVars,
         handlerVars, connVars, ghostVars
<1>2. \A c \in Calls : outcome[c] # "ok" => outcome'[c] # "ok"
  <2>1. outcome \in [Calls -> Outcomes]
    BY DEF TypeOK
  <2>2. CASE \E c \in Calls : Goto(c)
    BY <2>1, <2>2 DEF Goto
  <2>3. CASE \E c \in Calls : ClientTimeout(c)
    BY <2>1, <2>3 DEF ClientTimeout
  <2>4. CASE \/ \E c \in Calls : CommandExpires(c)
             \/ DeadlinePasses \/ UNCHANGED vars
    BY <2>4 DEF CommandExpires, DeadlinePasses, vars, callerVars
  <2> QED BY <2>2, <2>3, <2>4
<1>3. \A c \in Calls : NotAnswered(c) => NotAnswered(c)'
  BY <1>1, <1>2 DEF NotAnswered
<1>4. \A c : (AloneInTarget(c) => AloneInTarget(c)') /\ (AloneInBrowser(c) => AloneInBrowser(c)')
  BY <1>1 DEF AloneInTarget, AloneInBrowser
<1>5. solo \subseteq Calls
  BY DEF TypeOK
<1> HIDE DEF NotAnswered, AloneInTarget, AloneInBrowser
<1> QED BY <1>1, <1>3, <1>4, <1>5, SoloStep

LEMMA ChromeNavigateSolo ==
  ASSUME TypeOK, SoloInv, ChromeNavigate
  PROVE  SoloInv'
<1> DEFINE d == Head(outbox)
           n == Len(outbox)
           l == Len(inbox)
<1>1. /\ outbox # <<>> /\ outbox' = Tail(outbox) /\ outbox \in Seq(Calls)
      /\ inbox \in Seq(Message) /\ settled \subseteq settled' /\ l \in Nat
      /\ UNCHANGED <<outcome, queued_events, pending_navigations, navigation, main_frame,
                     navigations, solo>>
  BY DEF TypeOK, ChromeNavigate, callerVars, targetVars, handlerVars
<1>2. /\ d \in Calls /\ d = outbox[1] /\ 1 \in 1..n /\ n \in Nat /\ Len(outbox') = n - 1
      /\ \A i \in 1..n - 1 : i + 1 \in 1..n /\ outbox'[i] = outbox[i + 1]
  BY <1>1, HeadTail
<1> SUFFICES ASSUME NEW c \in solo', c \notin settled',
                    NotAnswered(c), AloneInTarget(c), AloneInBrowser(c)
             PROVE  NotAnswered(c)' /\ AloneInTarget(c)' /\ AloneInBrowser(c)'
  BY <1>1, SoloStep
<1> HIDE DEF d, n, l
<1>3. NotAnswered(c)' /\ AloneInTarget(c)'
  BY <1>1 DEF NotAnswered, AloneInTarget
<1>4. d = c /\ \A i \in 1..n - 1 : outbox'[i] = c
  BY <1>2 DEF AloneInBrowser, n
<1>5. /\ \A i \in 1..Len(inbox') : inbox'[i].type \notin {"load", "withinDocument"}
      /\ chrome'.starting \in {NoLoader, c}
      /\ chrome'.loading => chrome'.committed = c
  <2>1. CASE Begin(d, {d})
    <3>1. Begin(c, {c}) /\ c \in Calls
      BY <1>2, <1>4, <2>1
    <3> HIDE DEF AloneInBrowser
    <3> QED BY <3>1, BeginAlone
  <2>2. CASE /\ chrome' = [chrome EXCEPT !.owed = @ \cup {d}]
             /\ settled' = settled \cup {d}
    BY <1>4, <2>2
  <2>3. CASE inbox' = Append(inbox, Response(d, "chromeError")) /\ UNCHANGED chrome
    <3>1. Response(d, "chromeError") \in Message /\ Response(d, "chromeError").type = "response"
      BY <1>2, MessageTypes DEF Response
    <3> QED BY <1>1, <2>3, <3>1, QuietAppend DEF AloneInBrowser
  <2>4. CASE UNCHANGED <<inbox, chrome>>
    BY <2>4 DEF AloneInBrowser
  <2> QED BY <2>1, <2>2, <2>3, <2>4 DEF ChromeNavigate, d
<1> QED BY <1>2, <1>3, <1>4, <1>5 DEF AloneInBrowser

LEMMA ChromeEventSolo ==
  ASSUME TypeOK, SoloInv, ChromeEvent
  PROVE  SoloInv'
<1>1. /\ UNCHANGED <<outcome, queued_events, pending_navigations, navigation, main_frame,
                     navigations, outbox>>
      /\ inbox \in Seq(Message) /\ chrome.committed \in Loader
      /\ chrome.starting \in Loader \cup {NoLoader} /\ chrome.frame \in FrameIds
      /\ chrome \in [live : BOOLEAN, frame : FrameIds, committed : Loader,
                     loading : BOOLEAN, starting : Loader \cup {NoLoader},
                     owed : SUBSET Calls, pages : SUBSET PageLoaders, pushes : 0..MaxPushes]
  BY DEF ChromeEvent, TypeOK, callerVars, targetVars, handlerVars
<1>2. CASE \/ \E l \in PageLoaders : ChromePageNavigates(l)
           \/ ChromePushState \/ ChromeSwapsFrame
  BY <1>2 DEF ChromePageNavigates, ChromePushState, ChromeSwapsFrame, SoloInv
<1>3. CASE \/ \E d \in Calls : ChromeRespond(d)
           \/ ChromeCommit \/ ChromeLoad \/ ChromeDestroysTarget
  <2>1. solo' = solo /\ settled \subseteq settled'
    BY <1>3 DEF ChromeRespond, ChromeCommit, ChromeLoad, ChromeDestroysTarget
  <2>8. solo \subseteq Calls
    BY DEF TypeOK
  <2> SUFFICES ASSUME NEW c \in solo', c \notin settled',
                      NotAnswered(c), AloneInTarget(c), AloneInBrowser(c)
               PROVE  NotAnswered(c)' /\ AloneInTarget(c)' /\ AloneInBrowser(c)'
    BY <2>1, SoloStep
  <2>2. NotAnswered(c)' /\ AloneInTarget(c)'
    BY <1>1 DEF NotAnswered, AloneInTarget
  <2>3. /\ \A i \in 1..Len(inbox') : inbox'[i].type \notin {"load", "withinDocument"}
        /\ chrome'.starting \in {NoLoader, c}
        /\ chrome'.loading => chrome'.committed = c
    <3>1. CASE \E d \in Calls : ChromeRespond(d)
      <4>1. PICK d \in Calls, r \in {"ok", "chromeError"} :
              inbox' = Append(inbox, Response(d, r)) /\ chrome' = [chrome EXCEPT !.owed = @ \ {d}]
        BY <3>1 DEF ChromeRespond
      <4>2. Response(d, r) \in Message /\ Response(d, r).type = "response"
        BY MessageTypes DEF Response
      <4> QED BY <1>1, <4>1, <4>2, QuietAppend DEF AloneInBrowser
    <3>2. CASE ChromeCommit
      <4>1. chrome.starting \in Loader /\ chrome.starting = c
        BY <1>1, <3>2 DEF ChromeCommit, AloneInBrowser
      <4> DEFINE e == FrameEvent("init", chrome.frame, chrome.starting)
      <4>2. e \in Message /\ e.type = "init"
        BY <1>1, <4>1, MessageTypes DEF FrameEvent, FrameEventTypes
      <4> HIDE DEF e
      <4>3. inbox' = Append(inbox, e)
        BY <3>2 DEF ChromeCommit, e
      <4>4. \A i \in 1..Len(inbox') : inbox'[i].type \notin {"load", "withinDocument"}
        BY <1>1, <4>2, <4>3, QuietAppend DEF AloneInBrowser
      <4> QED BY <1>1, <3>2, <4>1, <4>4 DEF ChromeCommit
    <3>3. CASE ChromeLoad
      BY <2>1, <2>8, <3>3 DEF ChromeLoad, AloneInBrowser
    <3>4. CASE ChromeDestroysTarget
      <4>1. Destroyed \in Message /\ Destroyed.type = "targetDestroyed"
        BY MessageTypes DEF Destroyed
      <4>2. inbox' = Append(inbox, Destroyed)
        BY <3>4 DEF ChromeDestroysTarget
      <4>3. \A i \in 1..Len(inbox') : inbox'[i].type \notin {"load", "withinDocument"}
        BY <1>1, <4>1, <4>2, QuietAppend DEF AloneInBrowser
      <4> QED BY <1>1, <3>4, <4>3 DEF ChromeDestroysTarget, AloneInBrowser
    <3> QED BY <1>3, <3>1, <3>2, <3>3, <3>4
  <2> QED BY <1>1, <2>2, <2>3 DEF AloneInBrowser
<1> QED BY <1>2, <1>3 DEF ChromeEvent

LEMMA NextSoloInv == OrderInv /\ SoloInv /\ [Next]_vars => SoloInv'
<1> SUFFICES ASSUME OrderInv, SoloInv, [Next]_vars PROVE SoloInv'
  OBVIOUS
<1>1. TypeOK
  BY DEF OrderInv
<1>2. CASE HandlerStep
  BY <1>1, <1>2, HandleSolo, DrainSolo, PollSolo, ReadMessageSolo, EvictSolo DEF HandlerStep
<1>3. CASE \/ \E c \in Calls : Goto(c) \/ ClientTimeout(c) \/ CommandExpires(c)
           \/ DeadlinePasses \/ UNCHANGED vars
  BY <1>1, <1>3, CallersSolo
<1>4. CASE ChromeNavigate \/ ChromeEvent
  BY <1>1, <1>4, ChromeNavigateSolo, ChromeEventSolo
<1> QED BY <1>2, <1>3, <1>4 DEF Next

\* A goto that nothing disturbed resolves successfully only after the document it asked
\* for has loaded: the load that ends it is not of the document before it.
THEOREM UndisturbedGotoLoads == Spec => []UndisturbedGotoLoadsItsDocument
<1>1. Init => SoloInv
  BY DEF Init, SoloInv
<1>2. SoloInv => UndisturbedGotoLoadsItsDocument
  BY DEF SoloInv, NotAnswered, UndisturbedGotoLoadsItsDocument
<1>3. Spec => [](OrderInv /\ SoloInv)
  BY InitOrderInv, NextOrderInv, NextSoloInv, <1>1, PTL DEF Spec
<1> QED BY <1>2, <1>3, PTL

-----------------------------------------------------------------------------
(* The calls of the queued events, in their order *)

\* Induction over the numbers: a number outside S would have a least one beside it.
LEMMA SetInduction ==
  ASSUME NEW S, 0 \in S, \A n \in Nat : n \in S => n + 1 \in S
  PROVE  Nat \subseteq S
<1> DEFINE T == {n \in Nat : n \notin S}
           R == OpToRel(<, Nat)
<1> SUFFICES ASSUME T # {} PROVE FALSE
  OBVIOUS
<1>1. IsWellFoundedOn(R, Nat)
  BY NatLessThanWellFounded
<1>2. T \subseteq Nat
  OBVIOUS
<1> HIDE DEF R, T
<1>3. \E x \in T : \A y \in T : <<y, x>> \notin R
  BY <1>1, <1>2, WFMin
<1>4. PICK x \in T : \A y \in T : <<y, x>> \notin R
  BY <1>3
<1>5. x \in Nat /\ x \notin S /\ x # 0
  BY DEF T
<1>6. x - 1 \in Nat /\ x - 1 \notin S
  BY <1>5
<1>7. <<x - 1, x>> \in R
  BY <1>5, <1>6 DEF R, OpToRel
<1> QED BY <1>4, <1>6, <1>7 DEF T

\* The calls collected up to each event.
Collects(g, t, s) ==
  /\ g[0] = <<>>
  /\ \A n \in 1..Len(s) :
       g[n] = With(g[n - 1], s[n], t)

CollectsUpTo(g, t, s, k) ==
  g = [n \in 0..k |-> IF n = 0 THEN <<>> ELSE With(g[n - 1], s[n], t)]

LEMMA EventIds == \A ev \in TargetEvent : ev.id \in Calls
  BY DEF TargetEvent

LEMMA CallsAreCollected ==
  ASSUME NEW t, NEW s, Len(s) \in Nat
  PROVE  \E g : Collects(g, t, s) /\ CallsOf(t, s) = g[Len(s)]
<1> DEFINE S == {k \in Nat : \E g : CollectsUpTo(g, t, s, k)}
<1>1. 0 \in S
  <2> DEFINE g == [n \in 0..0 |-> <<>>]
  <2>1. CollectsUpTo(g, t, s, 0)
    BY DEF CollectsUpTo
  <2> QED BY <2>1
<1>2. ASSUME NEW k \in Nat, k \in S PROVE k + 1 \in S
  <2>1. PICK g : CollectsUpTo(g, t, s, k)
    BY <1>2
  <2> DEFINE h == [n \in 0..(k + 1) |-> IF n <= k THEN g[n] ELSE With(g[k], s[k + 1], t)]
  <2>2. \A n \in 0..k : h[n] = g[n] /\ g[n] = IF n = 0 THEN <<>> ELSE With(g[n - 1], s[n], t)
    BY <2>1 DEF CollectsUpTo
  <2>3. \A n \in 0..(k + 1) : h[n] = IF n = 0 THEN <<>> ELSE With(h[n - 1], s[n], t)
    <3> TAKE n \in 0..(k + 1)
    <3>1. CASE n = 0
      <4>1. n \in 0..k
        BY <3>1
      <4> HIDE DEF h
      <4> QED BY <2>2, <3>1, <4>1
    <3>2. CASE n \in 1..k
      <4>1. n - 1 \in 0..k /\ n \in 0..k
        BY <3>2
      <4> HIDE DEF h
      <4> QED BY <2>2, <3>2, <4>1
    <3>3. CASE n = k + 1
      <4>1. h[n] = With(g[k], s[k + 1], t) /\ n - 1 = k /\ k \in 0..k
        BY <3>3
      <4> HIDE DEF h
      <4> QED BY <2>2, <3>3, <4>1
    <3> QED BY <3>1, <3>2, <3>3
  <2>4. h = [n \in 0..(k + 1) |-> h[n]]
    OBVIOUS
  <2> HIDE DEF h
  <2>5. CollectsUpTo(h, t, s, k + 1)
    BY <2>3, <2>4 DEF CollectsUpTo
  <2> QED BY <2>5
<1> HIDE DEF S
<1>3. Len(s) \in S
  BY <1>1, <1>2, SetInduction
<1> DEFINE c == CHOOSE g : CollectsUpTo(g, t, s, Len(s))
<1>4. CollectsUpTo(c, t, s, Len(s))
  BY <1>3 DEF S
<1>5. CallsOf(t, s) = c[Len(s)]
  BY DEF CallsOf, CollectsUpTo
<1> HIDE DEF c
<1>6. Collects(c, t, s)
  BY <1>4 DEF Collects, CollectsUpTo
<1> QED BY <1>5, <1>6

\* Where two sequences agree, so do the calls collected from them.
LEMMA CollectedAgree ==
  ASSUME NEW t, NEW s, NEW r, NEW g, NEW h, Collects(g, t, s), Collects(h, t, r),
         NEW m \in Nat, Len(s) \in Nat, Len(r) \in Nat, m <= Len(s), m <= Len(r),
         \A n \in 1..m : s[n] = r[n]
  PROVE  g[m] = h[m]
<1> DEFINE S == {k \in Nat : k <= m => g[k] = h[k]}
<1>1. 0 \in S
  BY DEF Collects
<1>2. ASSUME NEW k \in Nat, k \in S PROVE k + 1 \in S
  <2>1. SUFFICES ASSUME k + 1 <= m PROVE g[k + 1] = h[k + 1]
    OBVIOUS
  <2>2. k + 1 \in 1..Len(s) /\ k + 1 \in 1..Len(r) /\ (k + 1) - 1 = k /\ g[k] = h[k]
    BY <1>2, <2>1
  <2>3. s[k + 1] = r[k + 1]
    BY <2>1, <2>2
  <2> QED BY <2>2, <2>3 DEF Collects
<1> HIDE DEF S
<1>3. m \in S
  BY <1>1, <1>2, SetInduction
<1> QED BY <1>3 DEF S

LEMMA CallsAreLast ==
  ASSUME NEW t, NEW s, Len(s) \in Nat, NEW g, Collects(g, t, s)
  PROVE  CallsOf(t, s) = g[Len(s)]
<1>1. PICK h : Collects(h, t, s) /\ CallsOf(t, s) = h[Len(s)]
  BY CallsAreCollected
<1> QED BY <1>1, CollectedAgree

LEMMA CollectedTyped ==
  ASSUME NEW t, NEW s \in Seq(TargetEvent), NEW g, Collects(g, t, s), NEW m \in 0..Len(s)
  PROVE  g[m] \in Seq(Calls)
<1> DEFINE S == {k \in Nat : k <= Len(s) => g[k] \in Seq(Calls)}
<1>1. 0 \in S
  <2>1. g[0] = <<>> /\ <<>> \in Seq(Calls)
    BY DEF Collects
  <2> QED BY <2>1
<1>2. ASSUME NEW k \in Nat, k \in S PROVE k + 1 \in S
  <2>1. SUFFICES ASSUME k + 1 <= Len(s) PROVE g[k + 1] \in Seq(Calls)
    OBVIOUS
  <2>2. k + 1 \in 1..Len(s) /\ (k + 1) - 1 = k /\ g[k] \in Seq(Calls)
    BY <1>2, <2>1
  <2>3. s[k + 1] \in TargetEvent
    BY <2>2
  <2>4. s[k + 1].id \in Calls
    BY <2>3, EventIds
  <2>5. g[k + 1] = With(g[k], s[k + 1], t)
    BY <2>2 DEF Collects
  <2> QED BY <2>2, <2>4, <2>5 DEF With
<1> HIDE DEF S
<1>3. m \in S
  BY <1>1, <1>2, SetInduction
<1> QED BY <1>3 DEF S

\* The calls are calls.
LEMMA CallsOfTyped ==
  ASSUME NEW t, NEW s \in Seq(TargetEvent)
  PROVE  CallsOf(t, s) \in Seq(Calls)
<1>1. PICK h : Collects(h, t, s) /\ CallsOf(t, s) = h[Len(s)]
  BY CallsAreCollected
<1>2. Len(s) \in 0..Len(s)
  OBVIOUS
<1> QED BY <1>1, <1>2, CollectedTyped

\* An event put behind the others comes last.
LEMMA CallsOfAppend ==
  ASSUME NEW t, NEW s \in Seq(TargetEvent), NEW e \in TargetEvent
  PROVE  CallsOf(t, Append(s, e)) =
           IF e.type = t THEN Append(CallsOf(t, s), e.id) ELSE CallsOf(t, s)
<1> DEFINE r == Append(s, e)
<1>1. Len(r) = Len(s) + 1 /\ r[Len(s) + 1] = e /\ Len(s) \in Nat
      /\ \A n \in 1..Len(s) : s[n] = r[n]
  OBVIOUS
<1> HIDE DEF r
<1>2. PICK g : Collects(g, t, s) /\ CallsOf(t, s) = g[Len(s)]
  BY <1>1, CallsAreCollected
<1>3. PICK h : Collects(h, t, r) /\ CallsOf(t, r) = h[Len(r)]
  BY <1>1, CallsAreCollected
<1>4. g[Len(s)] = h[Len(s)]
  BY <1>1, <1>2, <1>3, CollectedAgree
<1>5. Len(r) \in 1..Len(r) /\ Len(r) - 1 = Len(s)
  BY <1>1
<1>6. h[Len(r)] = With(h[Len(s)], e, t)
  BY <1>1, <1>3, <1>5 DEF Collects
<1> QED BY <1>2, <1>3, <1>4, <1>6 DEF r, With

LEMMA ConcatGroups ==
  ASSUME NEW a \in Seq(Calls), NEW b \in Seq(Calls), NEW c \in Seq(Calls)
  PROVE  (a \o b) \o c = a \o (b \o c)
OBVIOUS

LEMMA AppendBehind ==
  ASSUME NEW a \in Seq(Calls), NEW b \in Seq(Calls), NEW x \in Calls
  PROVE  a \o Append(b, x) = Append(a \o b, x)
OBVIOUS

LEMMA AppendBefore ==
  ASSUME NEW a \in Seq(Calls), NEW b \in Seq(Calls), NEW x \in Calls
  PROVE  Append(a, x) \o b = a \o (<<x>> \o b)
OBVIOUS

LEMMA ConcatFacts ==
  ASSUME NEW a \in Seq(Calls), NEW b \in Seq(Calls), NEW x \in Calls
  PROVE  /\ a \o Append(b, x) = Append(a \o b, x)
         /\ <<>> \o a = a /\ a \o <<>> = a
         /\ Append(a, x) \o b = a \o (<<x>> \o b)
         /\ a \o b \in Seq(Calls) /\ <<x>> \o b \in Seq(Calls)
         /\ <<x>> \o b # <<>> /\ Head(<<x>> \o b) = x /\ Tail(<<x>> \o b) = b
<1>1. a \o Append(b, x) = Append(a \o b, x)
  BY AppendBehind, Zenon
<1>2. <<>> \o a = a
  OBVIOUS
<1>3. a \o <<>> = a
  OBVIOUS
<1>4. Append(a, x) \o b = a \o (<<x>> \o b)
  BY AppendBefore, Zenon
<1>5. a \o b \in Seq(Calls) /\ <<x>> \o b \in Seq(Calls) /\ <<x>> \o b # <<>>
  OBVIOUS
<1>6. Head(<<x>> \o b) = x
  OBVIOUS
<1>7. Tail(<<x>> \o b) = b
  OBVIOUS
<1> QED BY <1>1, <1>2, <1>3, <1>4, <1>5, <1>6, <1>7

\* The first event comes first.
LEMMA CallsOfTail ==
  ASSUME NEW t, NEW s \in Seq(TargetEvent), s # <<>>
  PROVE  CallsOf(t, s) = IF Head(s).type = t THEN <<Head(s).id>> \o CallsOf(t, Tail(s))
                                             ELSE CallsOf(t, Tail(s))
<1> DEFINE r == Tail(s)
<1>1. r \in Seq(TargetEvent) /\ Len(s) = Len(r) + 1 /\ Len(r) \in Nat /\ Head(s) = s[1]
      /\ \A n \in 1..Len(r) : r[n] = s[n + 1]
  OBVIOUS
<1> HIDE DEF r
<1>2. PICK g : Collects(g, t, s) /\ CallsOf(t, s) = g[Len(s)]
  BY <1>1, CallsAreCollected
<1>3. PICK h : Collects(h, t, r) /\ CallsOf(t, r) = h[Len(r)]
  BY <1>1, CallsAreCollected
<1> DEFINE first == IF s[1].type = t THEN <<s[1].id>> ELSE <<>>
           S == {k \in Nat : k <= Len(r) => g[k + 1] = first \o h[k]}
<1>4. s[1].id \in Calls /\ first \in Seq(Calls)
  <2>1. 1 \in 1..Len(s)
    BY <1>1
  <2>2. s[1] \in TargetEvent
    BY <2>1
  <2>3. s[1].id \in Calls
    BY <2>2, EventIds
  <2> QED BY <2>3
<1> HIDE DEF first
<1>5. 0 \in S
  <2>1. 1 \in 1..Len(s) /\ 1 - 1 = 0
    BY <1>1
  <2>2. g[1] = With(g[0], s[1], t)
    BY <1>2, <2>1 DEF Collects
  <2>3. g[0] = <<>> /\ h[0] = <<>>
    BY <1>2, <1>3 DEF Collects
  <2>4. With(<<>>, s[1], t) = first
    BY <1>4 DEF first, With
  <2>5. first \o <<>> = first
    BY <1>4
  <2>6. g[0 + 1] = first \o h[0]
    BY <2>2, <2>3, <2>4, <2>5
  <2> QED BY <2>6
<1>6. ASSUME NEW k \in Nat, k \in S PROVE k + 1 \in S
  <2>1. SUFFICES ASSUME k + 1 <= Len(r) PROVE g[(k + 1) + 1] = first \o h[k + 1]
    OBVIOUS
  <2>2. /\ k + 1 \in 1..Len(r) /\ (k + 1) + 1 \in 1..Len(s)
        /\ (k + 1) - 1 = k /\ ((k + 1) + 1) - 1 = k + 1 /\ k \in 0..Len(r)
        /\ g[k + 1] = first \o h[k]
    BY <1>1, <1>6, <2>1
  <2>3. r[k + 1] = s[(k + 1) + 1] /\ r[k + 1].id \in Calls
    <3>1. r[k + 1] \in TargetEvent
      BY <1>1, <2>2
    <3> QED BY <1>1, <2>2, <3>1, EventIds
  <2>4. h[k] \in Seq(Calls)
    BY <1>1, <1>3, <2>2, CollectedTyped
  <2>5. h[k + 1] = With(h[k], r[k + 1], t)
    BY <1>3, <2>2 DEF Collects
  <2>6. g[(k + 1) + 1] = With(first \o h[k], r[k + 1], t)
    BY <1>2, <2>2, <2>3 DEF Collects
  <2>7. first \o Append(h[k], r[k + 1].id) = Append(first \o h[k], r[k + 1].id)
    BY <1>4, <2>3, <2>4, ConcatFacts
  <2> QED BY <2>5, <2>6, <2>7 DEF With
<1> HIDE DEF S
<1>7. Len(r) \in S
  BY <1>1, <1>5, <1>6, SetInduction
<1>8. CallsOf(t, s) = first \o CallsOf(t, r)
  BY <1>1, <1>2, <1>3, <1>7 DEF S
<1>9. CallsOf(t, r) \in Seq(Calls)
  BY <1>1, CallsOfTyped
<1>10. <<>> \o CallsOf(t, r) = CallsOf(t, r)
  BY <1>9
<1> QED BY <1>1, <1>8, <1>10 DEF r, first

\* Events of one type only, and none of it.
LEMMA CallsOfAll ==
  ASSUME NEW t, NEW s \in Seq(TargetEvent), \A n \in 1..Len(s) : s[n].type = t
  PROVE  CallsOf(t, s) = [n \in 1..Len(s) |-> s[n].id]
<1>1. PICK g : Collects(g, t, s) /\ CallsOf(t, s) = g[Len(s)]
  BY CallsAreCollected
<1> DEFINE S == {k \in Nat : k <= Len(s) => g[k] = [n \in 1..k |-> s[n].id]}
<1>2. 0 \in S
  <2>1. g[0] = <<>> /\ 1..0 = {}
    BY <1>1 DEF Collects
  <2>2. [n \in 1..0 |-> s[n].id] = <<>>
    OBVIOUS
  <2> QED BY <2>1, <2>2
<1>3. ASSUME NEW k \in Nat, k \in S PROVE k + 1 \in S
  <2>1. SUFFICES ASSUME k + 1 <= Len(s) PROVE g[k + 1] = [n \in 1..k + 1 |-> s[n].id]
    OBVIOUS
  <2>2. k + 1 \in 1..Len(s) /\ (k + 1) - 1 = k /\ g[k] = [n \in 1..k |-> s[n].id]
    BY <1>3, <2>1
  <2>3. g[k + 1] = Append(g[k], s[k + 1].id)
    BY <1>1, <2>2 DEF Collects, With
  <2>4. \A n \in 1..Len(s) : s[n].id \in Calls
    BY EventIds
  <2> DEFINE a == [n \in 1..k |-> s[n].id]
             b == [n \in 1..k + 1 |-> s[n].id]
  <2>5. a \in Seq(Calls) /\ Len(a) = k /\ b \in Seq(Calls) /\ Len(b) = k + 1
        /\ s[k + 1].id \in Calls
    BY <2>2, <2>4
  <2>6. \A n \in 1..k + 1 : b[n] = Append(a, s[k + 1].id)[n]
    BY <2>5
  <2>7. Append(a, s[k + 1].id) \in Seq(Calls) /\ Len(Append(a, s[k + 1].id)) = k + 1
    BY <2>5
  <2>8. b = Append(a, s[k + 1].id)
    <3> HIDE DEF a, b
    <3> QED BY <2>5, <2>6, <2>7
  <2> QED BY <2>2, <2>3, <2>8
<1> HIDE DEF S
<1>4. Len(s) \in S
  BY <1>2, <1>3, SetInduction
<1> QED BY <1>1, <1>4 DEF S

LEMMA CallsOfNone ==
  ASSUME NEW t, NEW s, Len(s) \in Nat, \A n \in 1..Len(s) : s[n].type # t
  PROVE  CallsOf(t, s) = <<>>
<1>1. PICK g : Collects(g, t, s) /\ CallsOf(t, s) = g[Len(s)]
  BY CallsAreCollected
<1> DEFINE S == {k \in Nat : k <= Len(s) => g[k] = <<>>}
<1>2. 0 \in S
  BY <1>1 DEF Collects
<1>3. ASSUME NEW k \in Nat, k \in S PROVE k + 1 \in S
  <2>1. SUFFICES ASSUME k + 1 <= Len(s) PROVE g[k + 1] = <<>>
    OBVIOUS
  <2>2. k + 1 \in 1..Len(s) /\ (k + 1) - 1 = k /\ g[k] = <<>>
    BY <1>3, <2>1
  <2> QED BY <1>1, <2>2 DEF Collects, With
<1> HIDE DEF S
<1>4. Len(s) \in S
  BY <1>2, <1>3, SetInduction
<1> QED BY <1>1, <1>4 DEF S

-----------------------------------------------------------------------------
(* What is queued, what has begun and what is left *)

\* The load of c ends after the event at k, and its request is at k or after it.
EndsAfter(c, k) ==
  \/ navigation.id = c
  \/ \E j \in k + 1..Len(queued_events) : IsResult(queued_events[j]) /\ queued_events[j].id = c

RequestedFrom(c, k) ==
  \E j \in k..Len(queued_events) : IsRequest(queued_events[j]) /\ queued_events[j].id = c

RequestBegan(k) == Began(queued_events[k].id)

\* A load whose request is queued has begun, and the loads that end after a queued request
\* were requested with it or after it.
RequestedFirst ==
  \A k \in 1..Len(queued_events) :
    IsRequest(queued_events[k]) =>
      /\ RequestBegan(k)
      /\ \A c \in Calls : EndsAfter(c, k) => RequestedFrom(c, k)

\* The socket is read with no event left, and a Target that is gone holds nothing.
NothingLeft ==
  /\ pc = "conn" => queued_events = <<>>
  /\ pc = "frames" => alive
  /\ ~alive => /\ queued_events = <<>> /\ page_rx = <<>> /\ pending_navigations = <<>>
               /\ navigation = NoNavigation

QueueInv == RequestedFirst /\ NothingLeft

LEMMA InitQueueInv == Init => QueueInv
  BY DEF Init, QueueInv, RequestedFirst, NothingLeft

LEMMA QueueSame ==
  ASSUME QueueInv, navigation'.id = navigation.id,
         navigation = NoNavigation => navigation' = NoNavigation,
         UNCHANGED <<queued_events, pending_navigations, page_rx, pc, alive>>
  PROVE  QueueInv'
  BY DEF QueueInv, RequestedFirst, NothingLeft, RequestBegan, Began, EndsAfter, RequestedFrom

LEMMA HandleQueueInv ==
  ASSUME OrderInv, QueueInv, HandleTargetEvent
  PROVE  QueueInv'
<1> DEFINE n == Len(queued_events)
           m == Len(queued_events')
<1>1. /\ TypeOK /\ InOrder /\ RequestedFirst /\ NothingLeft
      /\ queued_events # <<>> /\ queued_events' = Tail(queued_events) /\ pc = "events"
      /\ UNCHANGED <<page_rx, navigation, alive, pc>>
  BY DEF OrderInv, QueueInv, HandleTargetEvent
<1>2. /\ n \in Nat \ {0} /\ m = n - 1
      /\ \A i \in 1..m : i + 1 \in 1..n /\ queued_events'[i] = queued_events[i + 1]
  BY <1>1, TailFacts
<1> HIDE DEF n, m
<1>3. ASSUME NEW k \in 1..m, IsRequest(queued_events'[k])
      PROVE  RequestBegan(k)'
  <2>1. k + 1 \in 1..n /\ queued_events'[k] = queued_events[k + 1]
    BY <1>2
  <2>2. Began(queued_events[k + 1].id)
    BY <1>1, <1>3, <2>1 DEF RequestedFirst, RequestBegan, n
  <2>3. CASE navigation.id = queued_events[k + 1].id
    BY <1>1, <2>1, <2>3 DEF RequestBegan, Began
  <2>4. ASSUME NEW i \in 1..n, IsResult(queued_events[i]),
               queued_events[i].id = queued_events[k + 1].id
        PROVE  RequestBegan(k)'
    <3>1. k + 1 < i
      BY <1>1, <1>3, <2>1, <2>4 DEF InOrder, n
    <3>2. i - 1 \in 1..m /\ (i - 1) + 1 = i
      BY <1>2, <3>1
    <3> QED BY <1>2, <2>1, <2>4, <3>2 DEF RequestBegan, Began, m
  <2> QED BY <2>2, <2>3, <2>4 DEF Began, n
<1>4. ASSUME NEW k \in 1..m, IsRequest(queued_events'[k]), NEW c \in Calls, EndsAfter(c, k)'
      PROVE  RequestedFrom(c, k)'
  <2>1. k + 1 \in 1..n /\ queued_events'[k] = queued_events[k + 1]
    BY <1>2
  <2>2. EndsAfter(c, k + 1)
    <3>1. CASE navigation.id = c
      BY <3>1 DEF EndsAfter
    <3>2. ASSUME NEW j \in k + 1..m, IsResult(queued_events'[j]), queued_events'[j].id = c
          PROVE  EndsAfter(c, k + 1)
      <4>1. j \in 1..m /\ j + 1 \in (k + 1) + 1..n
        BY <1>2
      <4> QED BY <1>2, <3>2, <4>1 DEF EndsAfter, n
    <3> QED BY <1>1, <1>4, <3>1, <3>2 DEF EndsAfter, m
  <2>3. RequestedFrom(c, k + 1)
    BY <1>1, <1>4, <2>1, <2>2 DEF RequestedFirst, n
  <2>4. PICK j \in k + 1..n : IsRequest(queued_events[j]) /\ queued_events[j].id = c
    BY <2>3 DEF RequestedFrom, n
  <2>5. j - 1 \in k..m /\ j - 1 \in 1..m /\ (j - 1) + 1 = j
    BY <1>2
  <2> QED BY <1>2, <2>4, <2>5 DEF RequestedFrom, m
<1>5. RequestedFirst'
  BY <1>3, <1>4 DEF RequestedFirst, m
<1>6. NothingLeft'
  BY <1>1 DEF NothingLeft
<1> QED BY <1>5, <1>6 DEF QueueInv

LEMMA DrainQueueInv ==
  ASSUME OrderInv, QueueInv, DrainPageChannel
  PROVE  QueueInv'
<1>1. /\ page_rx' = <<>> /\ pc' = IF alive THEN "frames" ELSE "conn"
      /\ queued_events' = [i \in 1..Len(page_rx) |-> Command(page_rx[i])]
      /\ UNCHANGED <<alive, pending_navigations, navigation>>
      /\ page_rx \in Seq(Calls) /\ Len(page_rx) \in Nat
  BY DEF DrainPageChannel, OrderInv, TypeOK
<1>2. Len(queued_events') = Len(page_rx)
      /\ \A i \in 1..Len(page_rx) : ~IsRequest(queued_events'[i])
  BY <1>1 DEF Command
<1>3. RequestedFirst'
  BY <1>2 DEF RequestedFirst
<1>4. ~alive => page_rx = <<>> /\ pending_navigations = <<>> /\ navigation = NoNavigation
  BY DEF QueueInv, NothingLeft
<1>5. page_rx = <<>> => queued_events' = <<>>
  BY <1>1
<1> QED BY <1>1, <1>3, <1>4, <1>5 DEF QueueInv, NothingLeft

LEMMA PollQueueInv ==
  ASSUME OrderInv, QueueInv, PollFrameManager
  PROVE  QueueInv'
<1> DEFINE n == Len(queued_events)
<1>1. /\ TypeOK /\ RequestedFirst /\ NothingLeft /\ pc = "frames" /\ alive
      /\ UNCHANGED <<page_rx, alive>>
      /\ queued_events \in Seq(TargetEvent) /\ pending_navigations \in Seq(Watcher)
      /\ navigation \in Watcher \cup {NoNavigation} /\ n \in Nat
  BY DEF OrderInv, QueueInv, NothingLeft, PollFrameManager, TypeOK
<1> HIDE DEF n
<1>2. CASE PollWatched
  <2>1. PICK r \in {"ok", "timeout", "frameNotFound"} : NavigationEnds(r)
    BY <1>2 DEF PollWatched
  <2>2. navigation # NoNavigation /\ navigation.id \in Calls
    BY <1>1, <1>2 DEF PollWatched, Watcher
  <2> DEFINE e == NavigationResult(navigation.id, r)
  <2>3. e \in TargetEvent /\ IsResult(e) /\ ~IsRequest(e) /\ e.id = navigation.id
    BY <2>2, EventTypes DEF NavigationResult
  <2>4. queued_events' = Append(queued_events, e) /\ navigation' = NoNavigation /\ pc' = pc
    BY <2>1 DEF NavigationEnds
  <2> HIDE DEF e
  <2>5. /\ Len(queued_events') = n + 1 /\ queued_events'[n + 1] = e
        /\ \A i \in 1..n : queued_events'[i] = queued_events[i]
    BY <1>1, <2>3, <2>4, AppendFacts DEF n
  <2>6. ASSUME NEW k \in 1..n + 1, IsRequest(queued_events'[k])
        PROVE  /\ RequestBegan(k)'
               /\ \A c \in Calls : EndsAfter(c, k)' => RequestedFrom(c, k)'
    <3>1. k \in 1..n /\ IsRequest(queued_events[k]) /\ queued_events'[k] = queued_events[k]
      BY <1>1, <2>3, <2>5, <2>6
    <3>2. Began(queued_events[k].id)
      BY <1>1, <3>1 DEF RequestedFirst, RequestBegan, n
    <3>3. RequestBegan(k)'
      <4>1. CASE navigation.id = queued_events[k].id
        <5>1. n + 1 \in 1..n + 1
          BY <1>1
        <5> QED BY <2>3, <2>5, <3>1, <4>1, <5>1 DEF RequestBegan, Began
      <4>2. CASE \E i \in 1..n :
                   IsResult(queued_events[i]) /\ queued_events[i].id = queued_events[k].id
        <5>1. PICK i \in 1..n :
                IsResult(queued_events[i]) /\ queued_events[i].id = queued_events[k].id
          BY <4>2
        <5>2. i \in 1..n + 1
          BY <1>1
        <5> QED BY <2>5, <3>1, <5>1, <5>2 DEF RequestBegan, Began
      <4> QED BY <3>2, <4>1, <4>2 DEF Began, n
    <3>4. ASSUME NEW c \in Calls, EndsAfter(c, k)'
          PROVE  RequestedFrom(c, k)'
      <4>1. navigation'.id # c
        BY <2>4 DEF NoNavigation
      <4>2. PICK j \in k + 1..n + 1 : IsResult(queued_events'[j]) /\ queued_events'[j].id = c
        BY <2>5, <3>4, <4>1 DEF EndsAfter
      <4>3. EndsAfter(c, k)
        <5>1. CASE j = n + 1
          BY <2>3, <2>5, <4>2, <5>1 DEF EndsAfter
        <5>2. CASE j \in k + 1..n
          <6>1. j \in 1..n
            BY <3>1, <5>2
          <6> QED BY <2>5, <4>2, <5>2, <6>1 DEF EndsAfter, n
        <5> QED BY <1>1, <5>1, <5>2
      <4>4. PICK l \in k..n : IsRequest(queued_events[l]) /\ queued_events[l].id = c
        BY <1>1, <3>1, <4>3 DEF RequestedFirst, RequestedFrom, n
      <4>5. l \in 1..n /\ l \in k..n + 1
        BY <1>1, <3>1
      <4> QED BY <2>5, <4>4, <4>5 DEF RequestedFrom
    <3> QED BY <3>3, <3>4
  <2>7. RequestedFirst'
    BY <2>5, <2>6 DEF RequestedFirst
  <2> QED BY <1>1, <2>4, <2>7 DEF QueueInv, NothingLeft
<1>3. CASE StartNext
  <2> DEFINE w == Head(pending_navigations)
             e == NavigationRequest(w.id)
  <2>1. /\ navigation = NoNavigation /\ navigation' = w /\ pc' = pc
        /\ pending_navigations # <<>>
        /\ queued_events' = Append(queued_events, e)
    BY <1>3 DEF StartNext
  <2>2. w \in Watcher
    BY <1>1, <2>1, HeadTail
  <2>3. w.id \in Calls
    BY <2>2 DEF Watcher
  <2>4. e \in TargetEvent /\ IsRequest(e) /\ ~IsResult(e) /\ e.id = w.id
    BY <2>3, EventTypes DEF NavigationRequest
  <2> HIDE DEF w, e
  <2>5. /\ Len(queued_events') = n + 1 /\ queued_events'[n + 1] = e
        /\ \A i \in 1..n : queued_events'[i] = queued_events[i]
    BY <1>1, <2>1, <2>4, AppendFacts DEF n
  <2>6. ASSUME NEW k \in 1..n + 1, IsRequest(queued_events'[k])
        PROVE  /\ RequestBegan(k)'
               /\ \A c \in Calls : EndsAfter(c, k)' => RequestedFrom(c, k)'
    <3>1. CASE k = n + 1
      <4>1. RequestBegan(k)'
        BY <2>1, <2>4, <2>5, <3>1 DEF RequestBegan, Began
      <4>2. ASSUME NEW c \in Calls, EndsAfter(c, k)' PROVE RequestedFrom(c, k)'
        <5>1. navigation'.id = c
          <6>1. (n + 1) + 1..n + 1 = {}
            BY <1>1
          <6> QED BY <2>5, <3>1, <4>2, <6>1 DEF EndsAfter
        <5>2. n + 1 \in k..n + 1
          BY <1>1, <3>1
        <5> QED BY <2>1, <2>4, <2>5, <5>1, <5>2 DEF RequestedFrom
      <4> QED BY <4>1, <4>2
    <3>2. CASE k \in 1..n
      <4>1. IsRequest(queued_events[k]) /\ queued_events'[k] = queued_events[k]
            /\ queued_events[k] \in TargetEvent
        BY <1>1, <2>5, <2>6, <3>2 DEF n
      <4>2. Began(queued_events[k].id) /\ queued_events[k].id \in Calls
        BY <1>1, <3>2, <4>1, EventIds DEF RequestedFirst, RequestBegan, n
      <4>3. RequestBegan(k)'
        <5>1. PICK i \in 1..n :
                IsResult(queued_events[i]) /\ queued_events[i].id = queued_events[k].id
          BY <2>1, <4>2 DEF Began, NoNavigation, n
        <5>2. i \in 1..n + 1
          BY <1>1
        <5> QED BY <2>5, <4>1, <5>1, <5>2 DEF RequestBegan, Began
      <4>4. ASSUME NEW c \in Calls, EndsAfter(c, k)' PROVE RequestedFrom(c, k)'
        <5>1. CASE navigation'.id = c
          <6>1. n + 1 \in k..n + 1
            BY <1>1, <3>2
          <6> QED BY <2>1, <2>4, <2>5, <5>1, <6>1 DEF RequestedFrom
        <5>2. ASSUME NEW j \in k + 1..n + 1, IsResult(queued_events'[j]), queued_events'[j].id = c
              PROVE  RequestedFrom(c, k)'
          <6>1. j # n + 1
            BY <2>4, <2>5, <5>2
          <6>2. j \in k + 1..n /\ j \in 1..n
            BY <1>1, <3>2, <6>1
          <6>3. EndsAfter(c, k)
            BY <2>5, <5>2, <6>2 DEF EndsAfter, n
          <6>4. PICK l \in k..n : IsRequest(queued_events[l]) /\ queued_events[l].id = c
            BY <1>1, <3>2, <4>1, <6>3 DEF RequestedFirst, RequestedFrom, n
          <6>5. l \in 1..n /\ l \in k..n + 1
            BY <1>1, <3>2
          <6> QED BY <2>5, <6>4, <6>5 DEF RequestedFrom
        <5> QED BY <2>5, <4>4, <5>1, <5>2 DEF EndsAfter
      <4> QED BY <4>3, <4>4
    <3> QED BY <1>1, <3>1, <3>2
  <2>7. RequestedFirst'
    BY <2>5, <2>6 DEF RequestedFirst
  <2> QED BY <1>1, <2>1, <2>7 DEF QueueInv, NothingLeft
<1>4. CASE NothingToReport
  <2>1. UNCHANGED <<queued_events, pending_navigations, navigation>>
        /\ pc' = IF queued_events = <<>> THEN "conn" ELSE "events"
    BY <1>4 DEF NothingToReport
  <2>2. RequestedFirst'
    BY <1>1, <2>1 DEF RequestedFirst, RequestBegan, Began, EndsAfter, RequestedFrom
  <2> QED BY <1>1, <2>1, <2>2 DEF QueueInv, NothingLeft
<1> QED BY <1>2, <1>3, <1>4 DEF PollFrameManager

LEMMA ReadMessageQueueInv ==
  ASSUME OrderInv, QueueInv, ReadMessage
  PROVE  QueueInv'
<1> DEFINE msg == Head(inbox)
<1>1. /\ RequestedFirst /\ NothingLeft /\ pc = "conn" /\ pc' = pc /\ queued_events = <<>>
      /\ navigation \in Watcher \cup {NoNavigation}
  BY DEF OrderInv, TypeOK, ReadMessage, QueueInv, NothingLeft
<1>2. CASE OnResponse(msg.id, msg.res) \/ UNCHANGED <<outcome, targetVars, handlerVars>>
  BY <1>1, <1>2, QueueSame DEF OnResponse, targetVars
<1>3. CASE OnFrameEvent(msg)
  <2>1. /\ UNCHANGED <<page_rx, queued_events, pending_navigations, alive>>
        /\ \/ navigation' = navigation
           \/ /\ navigation # NoNavigation
              /\ navigation' = [navigation EXCEPT !.same_document = TRUE]
    BY <1>3 DEF OnFrameEvent
  <2>2. navigation'.id = navigation.id
    BY <1>1, <2>1 DEF Watcher
  <2> QED BY <1>1, <2>1, <2>2, QueueSame
<1>4. CASE OnTargetDestroyed
  <2>1. queued_events' = <<>> /\ page_rx' = <<>> /\ pending_navigations' = <<>>
        /\ navigation' = NoNavigation
    BY <1>1, <1>4 DEF OnTargetDestroyed
  <2>2. RequestedFirst'
    BY <2>1 DEF RequestedFirst
  <2> QED BY <1>1, <2>1, <2>2 DEF QueueInv, NothingLeft
<1> QED BY <1>2, <1>3, <1>4 DEF ReadMessage

LEMMA NextQueueInv ==
  ASSUME OrderInv, QueueInv, [Next]_vars
  PROVE  QueueInv'
<1>1. CASE HandlerStep
  <2>1. CASE EvictTimedOut
    <3>1. /\ pc = "conn" /\ pc' = "events"
          /\ UNCHANGED <<queued_events, pending_navigations, navigation, page_rx, alive>>
      BY <2>1 DEF EvictTimedOut, targetVars
    <3>2. RequestedFirst'
      BY <3>1 DEF QueueInv, RequestedFirst, RequestBegan, Began, EndsAfter, RequestedFrom
    <3> QED BY <3>1, <3>2 DEF QueueInv, NothingLeft
  <2> QED BY <1>1, <2>1, HandleQueueInv, DrainQueueInv, PollQueueInv, ReadMessageQueueInv
           DEF HandlerStep
<1>2. ASSUME NEW c \in Calls, Goto(c)
      PROVE  QueueInv'
  <2>1. /\ UNCHANGED <<queued_events, pending_navigations, navigation, pc, alive>>
        /\ page_rx' = page_rx \/ alive
    BY <1>2 DEF Goto
  <2>2. RequestedFirst'
    BY <2>1 DEF QueueInv, RequestedFirst, RequestBegan, Began, EndsAfter, RequestedFrom
  <2> QED BY <2>1, <2>2 DEF QueueInv, NothingLeft
<1>3. CASE \/ \E c \in Calls : ClientTimeout(c) \/ CommandExpires(c)
           \/ DeadlinePasses \/ ChromeNavigate \/ ChromeEvent \/ UNCHANGED vars
  <2>1. UNCHANGED <<queued_events, pending_navigations, navigation, page_rx, pc, alive>>
    BY <1>3 DEF ClientTimeout, CommandExpires, DeadlinePasses, ChromeNavigate, ChromeEvent,
                vars, targetVars, callerVars
  <2> QED BY <2>1, QueueSame
<1> QED BY <1>1, <1>2, <1>3 DEF Next

-----------------------------------------------------------------------------
(* The line of the gotos *)

RequestIsQueued(c) ==
  \E k \in 1..Len(queued_events) : IsRequest(queued_events[k]) /\ queued_events[k].id = c

\* In the words of the invariants: the load of c has begun, and no request of it is queued.
LEMMA LoadingIs ==
  TypeOK => Loading = {c \in Calls : Began(c) /\ ~RequestIsQueued(c)}
<1> SUFFICES ASSUME TypeOK
             PROVE  Loading = {c \in Calls : Began(c) /\ ~RequestIsQueued(c)}
  OBVIOUS
<1>1. \A i \in 1..Len(queued_events) : queued_events[i] \in TargetEvent
  BY DEF TypeOK
<1>2. ASSUME NEW c \in Calls
      PROVE  Has(queued_events, NavigationRequest(c)) <=> RequestIsQueued(c)
  <2>1. \A ev \in TargetEvent : IsRequest(ev) /\ ev.id = c <=> ev = NavigationRequest(c)
    BY DEF TargetEvent, NavigationRequest
  <2> QED BY <1>1, <2>1 DEF Has, RequestIsQueued
<1>3. ASSUME NEW c \in Calls
      PROVE  (\E r \in {"ok", "timeout", "frameNotFound"} :
                Has(queued_events, NavigationResult(c, r)))
               <=> \E i \in 1..Len(queued_events) :
                     IsResult(queued_events[i]) /\ queued_events[i].id = c
  <2>1. \A ev \in TargetEvent :
          IsResult(ev) /\ ev.id = c <=>
            \E r \in {"ok", "timeout", "frameNotFound"} : ev = NavigationResult(c, r)
    BY DEF TargetEvent, NavigationResult
  <2> QED BY <1>1, <2>1 DEF Has
<1> QED BY <1>2, <1>3 DEF Loading, Began

LEMMA LoadingSame ==
  ASSUME queued_events' = queued_events, navigation'.id = navigation.id
  PROVE  Loading' = Loading
  BY DEF Loading

LEMMA LineSame ==
  ASSUME UNCHANGED <<queued_events, pending_navigations, page_rx>>
  PROVE  Line' = Line
  BY DEF Line, PendingCalls

LEMMA LoadedSame ==
  ASSUME navigations' = navigations
  PROVE  Loaded' = Loaded
  BY DEF Loaded

LineParts ==
  /\ queued_events \in Seq(TargetEvent) /\ page_rx \in Seq(Calls)
  /\ PendingCalls \in Seq(Calls) /\ Len(PendingCalls) = Len(pending_navigations)
  /\ \A t : CallsOf(t, queued_events) \in Seq(Calls)
  /\ Line \in Seq(Calls)

LEMMA LineTyped == TypeOK => LineParts
<1> SUFFICES ASSUME TypeOK PROVE LineParts
  OBVIOUS
<1>1. /\ queued_events \in Seq(TargetEvent) /\ page_rx \in Seq(Calls)
      /\ pending_navigations \in Seq(Watcher) /\ Len(pending_navigations) \in Nat
  BY DEF TypeOK
<1>2. PendingCalls \in Seq(Calls) /\ Len(PendingCalls) = Len(pending_navigations)
  <2>1. \A i \in 1..Len(pending_navigations) : pending_navigations[i] \in Watcher
    BY <1>1
  <2>2. \A i \in 1..Len(pending_navigations) : pending_navigations[i].id \in Calls
    BY <2>1 DEF Watcher
  <2> QED BY <1>1, <2>2 DEF PendingCalls
<1>3. \A t : CallsOf(t, queued_events) \in Seq(Calls)
  BY <1>1, CallsOfTyped
<1> HIDE DEF PendingCalls
<1>4. Line \in Seq(Calls)
  <2>1. CallsOf("NavigationRequest", queued_events) \in Seq(Calls)
        /\ CallsOf("Command", queued_events) \in Seq(Calls)
    BY <1>3
  <2> QED BY <1>1, <1>2, <2>1 DEF Line
<1> QED BY <1>1, <1>2, <1>3, <1>4 DEF LineParts

\* What the events still queued say, once the first of them has been read.
LEMMA LoadingTail ==
  ASSUME OrderInv, QueueInv, queued_events # <<>>, queued_events' = Tail(queued_events),
         navigation' = navigation, TypeOK'
  PROVE  LET ev == Head(queued_events) IN
         /\ ev.type = "Command" => Loading' = Loading
         /\ ev.type = "NavigationRequest" => Loading = {} /\ Loading' = {ev.id}
         /\ ev.type = "NavigationResult" => ev.id \in Loading /\ Loading' = Loading \ {ev.id}
<1> DEFINE n == Len(queued_events)
           m == Len(queued_events')
<1>1. TypeOK /\ OnePlace /\ InOrder /\ RequestedFirst
  BY DEF OrderInv, QueueInv
<1>2. /\ n \in Nat \ {0} /\ m = n - 1 /\ Head(queued_events) = queued_events[1] /\ 1 \in 1..n
      /\ \A i \in 1..m : i + 1 \in 1..n /\ i + 1 # 1 /\ queued_events'[i] = queued_events[i + 1]
  BY <1>1, TailFacts
<1>12. PICK ev \in TargetEvent : ev = Head(queued_events)
  BY <1>1, HeadTail DEF TypeOK
<1>3. ev = queued_events[1] /\ ev.id \in Calls
      /\ ev.type \in {"Command", "NavigationRequest", "NavigationResult"}
  BY <1>2, <1>12 DEF TargetEvent
<1> HIDE DEF n, m
<1>4. /\ Loading = {c \in Calls : Began(c) /\ ~RequestIsQueued(c)}
      /\ Loading' = {c \in Calls : Began(c)' /\ ~RequestIsQueued(c)'}
  <2>1. (TypeOK => Loading = {c \in Calls : Began(c) /\ ~RequestIsQueued(c)})'
    BY LoadingIs, PTL
  <2> QED BY <1>1, <2>1, LoadingIs
<1>10. ASSUME NEW c \in Calls
       PROVE  /\ c \in Loading <=> (Began(c) /\ ~RequestIsQueued(c))
              /\ c \in Loading' <=> (Began(c)' /\ ~RequestIsQueued(c)')
  BY <1>4
<1>11. Loading \subseteq Calls /\ Loading' \subseteq Calls
  BY <1>4
<1>5. ASSUME NEW c \in Calls
      PROVE  RequestIsQueued(c) <=> RequestIsQueued(c)' \/ (IsRequest(ev) /\ ev.id = c)
  <2>1. ASSUME NEW k \in 1..n, k # 1
        PROVE  k - 1 \in 1..m /\ queued_events'[k - 1] = queued_events[k]
    <3>1. k - 1 \in 1..m /\ (k - 1) + 1 = k
      BY <1>2, <2>1
    <3> QED BY <1>2, <3>1
  <2>2. ASSUME NEW k \in 1..m
        PROVE  k + 1 \in 1..n /\ queued_events'[k] = queued_events[k + 1]
    BY <1>2
  <2>3. RequestIsQueued(c)' => RequestIsQueued(c)
    BY <1>2, <2>2 DEF RequestIsQueued, n, m
  <2>4. RequestIsQueued(c) => RequestIsQueued(c)' \/ (IsRequest(ev) /\ ev.id = c)
    BY <1>2, <1>3, <2>1 DEF RequestIsQueued, n, m
  <2>5. IsRequest(ev) /\ ev.id = c => RequestIsQueued(c)
    BY <1>2, <1>3 DEF RequestIsQueued, n
  <2> QED BY <2>3, <2>4, <2>5
<1>6. ASSUME NEW c \in Calls
      PROVE  Began(c) <=> Began(c)' \/ (IsResult(ev) /\ ev.id = c)
  <2>1. ASSUME NEW k \in 1..n, k # 1
        PROVE  k - 1 \in 1..m /\ queued_events'[k - 1] = queued_events[k]
    <3>1. k - 1 \in 1..m /\ (k - 1) + 1 = k
      BY <1>2, <2>1
    <3> QED BY <1>2, <3>1
  <2>2. ASSUME NEW k \in 1..m
        PROVE  k + 1 \in 1..n /\ queued_events'[k] = queued_events[k + 1]
    BY <1>2
  <2>3. Began(c)' => Began(c)
    BY <1>2, <2>2 DEF Began, n, m
  <2>4. Began(c) => Began(c)' \/ (IsResult(ev) /\ ev.id = c)
    BY <1>2, <1>3, <2>1 DEF Began, n, m
  <2>5. IsResult(ev) /\ ev.id = c => Began(c)
    BY <1>2, <1>3 DEF Began, n
  <2> QED BY <2>3, <2>4, <2>5
<1>7. CASE ev.type = "Command"
  BY <1>12, <1>3, <1>4, <1>5, <1>6, <1>7
<1>8. CASE ev.type = "NavigationRequest"
  <2>1. RequestBegan(1) /\ \A c \in Calls : EndsAfter(c, 1) => RequestedFrom(c, 1)
    BY <1>1, <1>2, <1>3, <1>8 DEF RequestedFirst, n
  <2>2. Began(ev.id) /\ RequestIsQueued(ev.id)
    BY <1>2, <1>3, <1>8, <2>1 DEF RequestBegan, RequestIsQueued, n
  <2>3. ASSUME NEW c \in Calls, Began(c) PROVE RequestIsQueued(c)
    <3>1. ASSUME NEW i \in 1..n, IsResult(queued_events[i]), queued_events[i].id = c
          PROVE  EndsAfter(c, 1)
      <4>1. i # 1
        BY <1>2, <1>3, <1>8, <3>1
      <4>2. i \in 1 + 1..n
        BY <1>2, <4>1
      <4> QED BY <3>1, <4>2 DEF EndsAfter, n
    <3>2. EndsAfter(c, 1)
      BY <2>3, <3>1 DEF Began, EndsAfter, n
    <3> QED BY <2>1, <3>2 DEF RequestedFrom, RequestIsQueued
  <2>4. Loading = {}
    BY <1>4, <2>3
  <2>5. ~RequestIsQueued(ev.id)'
    <3>1. ASSUME NEW k \in 1..m, IsRequest(queued_events'[k]), queued_events'[k].id = ev.id
          PROVE  FALSE
      <4>1. k + 1 \in 1..n /\ k + 1 # 1 /\ queued_events'[k] = queued_events[k + 1]
        BY <1>2
      <4>2. ~IsResult(queued_events[k + 1]) /\ ~IsResult(queued_events[1])
        BY <1>2, <1>3, <1>8, <3>1, <4>1
      <4> QED BY <1>1, <1>2, <1>3, <3>1, <4>1, <4>2 DEF OnePlace, n
    <3> QED BY <3>1 DEF RequestIsQueued, m
  <2>6. Loading' = {ev.id}
    <3>1. ev.id \in Loading'
      BY <1>3, <1>10, <1>6, <1>8, <2>2, <2>5
    <3>2. ASSUME NEW c \in Calls, c \in Loading' PROVE c = ev.id
      <4>1. Began(c)' /\ ~RequestIsQueued(c)'
        BY <1>4, <3>2
      <4>2. RequestIsQueued(c)
        BY <1>6, <2>3, <4>1
      <4> QED BY <1>5, <4>1, <4>2
    <3> QED BY <1>4, <3>1, <3>2
  <2> QED BY <1>12, <1>8, <2>4, <2>6
<1>9. CASE ev.type = "NavigationResult"
  <2>1. Began(ev.id)
    BY <1>3, <1>6, <1>9
  <2>2. ~RequestIsQueued(ev.id)
    <3>1. ASSUME NEW k \in 1..n, IsRequest(queued_events[k]), queued_events[k].id = ev.id
          PROVE  FALSE
      <4>1. k < 1
        BY <1>1, <1>2, <1>3, <1>9, <3>1 DEF InOrder, n
      <4> QED BY <1>2, <4>1
    <3> QED BY <3>1 DEF RequestIsQueued, n
  <2>3. ~Began(ev.id)'
    <3>1. navigation.id # ev.id
      <4>1. SUFFICES ASSUME navigation.id = ev.id PROVE FALSE
        OBVIOUS
      <4>2. navigation # NoNavigation
        BY <1>3, <4>1 DEF NoNavigation
      <4>3. PICK k \in 1 + 1..n : IsRequest(queued_events[k]) /\ queued_events[k].id = navigation.id
        BY <1>1, <1>2, <1>3, <1>9, <4>2 DEF InOrder, n
      <4>4. k \in 1..n
        BY <1>2
      <4> QED BY <2>2, <4>1, <4>3, <4>4 DEF RequestIsQueued, n
    <3>2. ASSUME NEW i \in 1..m, IsResult(queued_events'[i]), queued_events'[i].id = ev.id
          PROVE  FALSE
      <4>0. i \in Nat /\ 1 <= i
        BY <1>2
      <4>5. 1 < i + 1
        BY <4>0
      <4>1. i + 1 \in 1..n /\ 1 < i + 1 /\ queued_events'[i] = queued_events[i + 1]
        BY <1>2, <4>5
      <4>2. PICK k \in 1 + 1..(i + 1) - 1 :
              IsRequest(queued_events[k]) /\ queued_events[k].id = queued_events[i + 1].id
        BY <1>1, <1>2, <1>3, <1>9, <3>2, <4>1 DEF InOrder, n
      <4>3. k \in 1..n
        BY <1>2, <4>1
      <4> QED BY <2>2, <3>2, <4>1, <4>2, <4>3 DEF RequestIsQueued, n
    <3> QED BY <3>1, <3>2 DEF Began, m
  <2>4. ev.id \in Loading
    BY <1>3, <1>4, <2>1, <2>2
  <2>5. Loading' = Loading \ {ev.id}
    <3>1. ASSUME NEW c \in Calls, c # ev.id PROVE c \in Loading' <=> c \in Loading
      <4>1. Began(c)' <=> Began(c)
        BY <1>6, <1>9, <3>1
      <4>2. RequestIsQueued(c)' <=> RequestIsQueued(c)
        BY <1>5, <1>9, <3>1
      <4>3. c \in Loading <=> Began(c) /\ ~RequestIsQueued(c)
        BY <1>10
      <4>4. c \in Loading' <=> Began(c)' /\ ~RequestIsQueued(c)'
        BY <1>10
      <4> QED BY <4>1, <4>2, <4>3, <4>4
    <3>2. ev.id \notin Loading'
      <4>1. ev.id \in Loading' <=> Began(ev.id)' /\ ~RequestIsQueued(ev.id)'
        BY <1>3, <1>10
      <4> QED BY <2>3, <4>1
    <3> QED BY <1>11, <3>1, <3>2
  <2> QED BY <1>12, <1>9, <2>4, <2>5
<1> QED BY <1>12, <1>3, <1>7, <1>8, <1>9

\* What the abstract steps are justified by.
LineInv == OrderInv /\ CallersAreHeld /\ QueueInv

LEMMA InitLine == Init => NQ!Init
<1> SUFFICES ASSUME Init PROVE NQ!Init
  OBVIOUS
<1>1. /\ page_rx = <<>> /\ queued_events = <<>> /\ pending_navigations = <<>>
      /\ navigation.id \notin Calls /\ alive = TRUE /\ outbox = <<>>
      /\ outcome = [c \in Calls |-> "idle"] /\ \A c \in Calls : ~navigations[c].navigated
  BY DEF Init, NoNavigation, NoEntry
<1>2. Len(queued_events) = 0 /\ Len(pending_navigations) = 0
  BY <1>1
<1>3. \A t : CallsOf(t, queued_events) = <<>>
  BY <1>2, CallsOfNone
<1>4. PendingCalls = <<>>
  BY <1>2 DEF PendingCalls
<1>5. Line = <<>>
  <2>1. <<>> \o <<>> = <<>>
    OBVIOUS
  <2> QED BY <1>1, <1>3, <1>4, <2>1 DEF Line
<1>6. Loading = {} /\ Loaded = {}
  BY <1>1, <1>2 DEF Loading, Loaded, Has
<1> QED BY <1>1, <1>5, <1>6 DEF NQ!Init

LEMMA StutterLine ==
  ASSUME UNCHANGED <<outcome, queued_events, pending_navigations, page_rx, navigations,
                     outbox, alive>>,
         navigation'.id = navigation.id
  PROVE  UNCHANGED NQ!vars
  BY LineSame, LoadingSame, LoadedSame DEF NQ!vars

LEMMA HandleLine ==
  ASSUME LineInv, HandleTargetEvent, TypeOK'
  PROVE  [NQ!Next]_(NQ!vars)
<1> DEFINE R == CallsOf("NavigationRequest", queued_events)
           C == CallsOf("Command", queued_events)
<1>1. /\ TypeOK /\ OnePlace /\ NotSentYet /\ InOrder /\ EntriesAreServed /\ CallersAreHeld
      /\ RequestedFirst /\ NothingLeft
      /\ queued_events # <<>> /\ queued_events' = Tail(queued_events)
      /\ UNCHANGED <<page_rx, navigation, alive>>
  BY DEF LineInv, OrderInv, QueueInv, HandleTargetEvent
<1>2. /\ queued_events \in Seq(TargetEvent) /\ Len(queued_events) \in Nat \ {0}
      /\ pending_navigations \in Seq(Watcher)
      /\ navigations \in [Calls -> Entry \cup {NoEntry}] /\ outcome \in [Calls -> Outcomes]
      /\ 1 \in 1..Len(queued_events) /\ Head(queued_events) = queued_events[1]
  BY <1>1, TailFacts DEF TypeOK
<1>3. PICK ev \in TargetEvent : ev = Head(queued_events)
  BY <1>1, HeadTail DEF TypeOK
<1>4. /\ ev.id \in Calls /\ ev.type \in {"Command", "NavigationRequest", "NavigationResult"}
      /\ ev.res \in {"none", "ok", "timeout", "frameNotFound"}
      /\ ev.type = "NavigationResult" => ev.res # "none"
  BY DEF TargetEvent
<1>5. /\ ev.type = "Command" => Loading' = Loading
      /\ ev.type = "NavigationRequest" => Loading = {} /\ Loading' = {ev.id}
      /\ ev.type = "NavigationResult" => ev.id \in Loading /\ Loading' = Loading \ {ev.id}
  BY <1>1, <1>3, LoadingTail DEF LineInv
<1>6. alive
  BY <1>1 DEF NothingLeft
<1>7. /\ R \in Seq(Calls) /\ C \in Seq(Calls) /\ PendingCalls \in Seq(Calls)
      /\ page_rx \in Seq(Calls) /\ Line \in Seq(Calls)
      /\ R' \in Seq(Calls) /\ C' \in Seq(Calls) /\ PendingCalls' \in Seq(Calls)
  <2>1. (TypeOK => LineParts)'
    BY LineTyped, PTL
  <2> QED BY <1>1, <2>1, LineTyped DEF LineParts
<1>8. /\ R = IF ev.type = "NavigationRequest" THEN <<ev.id>> \o R' ELSE R'
      /\ C = IF ev.type = "Command" THEN <<ev.id>> \o C' ELSE C'
  BY <1>1, <1>2, <1>3, CallsOfTail
<1>9. Line = R \o PendingCalls \o C \o page_rx /\ Line' = R' \o PendingCalls' \o C' \o page_rx
  BY <1>1 DEF Line
<1>10. PendingCalls' = IF ev.type = "Command" THEN Append(PendingCalls, ev.id) ELSE PendingCalls
  <2>1. CASE ev.type = "Command"
    <3>1. OnCommand(ev.id)
      BY <1>3, <2>1 DEF HandleTargetEvent
    <3> DEFINE w == [id |-> ev.id, frame |-> main_frame.id, loader |-> main_frame.loader,
                     same_document |-> FALSE]
               p == pending_navigations
    <3>2. pending_navigations' = Append(p, w) /\ w.id = ev.id /\ Len(p) \in Nat
      BY <1>2, <3>1 DEF OnCommand, NavigateFrame
    <3> HIDE DEF w
    <3>3. Len(Append(p, w)) = Len(p) + 1 /\ Append(p, w)[Len(p) + 1] = w
          /\ \A i \in 1..Len(p) : Append(p, w)[i] = p[i]
      BY <1>2
    <3>4. Len(PendingCalls) = Len(p) /\ \A i \in 1..Len(p) : PendingCalls[i] = p[i].id
      BY <3>2 DEF PendingCalls
    <3>5. PendingCalls' = [i \in 1..Len(p) + 1 |-> Append(p, w)[i].id]
      BY <3>2, <3>3 DEF PendingCalls
    <3> DEFINE a == PendingCalls
    <3>6. a \in Seq(Calls) /\ Len(a) = Len(p)
      BY <1>7, <3>4
    <3> HIDE DEF a
    <3>7. Append(a, ev.id) = [i \in 1..Len(a) + 1 |-> IF i = Len(a) + 1 THEN ev.id ELSE a[i]]
      BY <1>4, <3>6
    <3>8. \A i \in 1..Len(p) + 1 :
            Append(p, w)[i].id = IF i = Len(p) + 1 THEN ev.id ELSE a[i]
      BY <3>2, <3>3, <3>4 DEF a
    <3> QED BY <2>1, <3>5, <3>6, <3>7, <3>8 DEF a
  <2>2. CASE ev.type # "Command"
    <3>1. pending_navigations' = pending_navigations
      BY <1>3, <2>2 DEF HandleTargetEvent, OnNavigationRequest, OnLifecycleCompleted
    <3> QED BY <2>2, <3>1 DEF PendingCalls
  <2> QED BY <2>1, <2>2
<1> HIDE DEF R, C
<1>11. CASE ev.type = "Command"
  <2>1. /\ OnCommand(ev.id) /\ outcome' = outcome /\ outbox' = outbox
        /\ navigations' = [navigations EXCEPT ![ev.id] = InProgress]
    BY <1>3, <1>11 DEF HandleTargetEvent, OnCommand
  <2>2. Line' = Line
    <3> DEFINE r == R'
               p == PendingCalls
               n == C'
    <3>1. r \in Seq(Calls) /\ p \in Seq(Calls) /\ n \in Seq(Calls) /\ page_rx \in Seq(Calls)
      BY <1>7
    <3>2. Line = r \o p \o (<<ev.id>> \o n) \o page_rx
          /\ Line' = r \o Append(p, ev.id) \o n \o page_rx
      BY <1>8, <1>9, <1>10, <1>11
    <3> HIDE DEF r, p, n
    <3>3. ev.id \in Calls
      BY <1>4
    <3>4. r \o Append(p, ev.id) \o n \o page_rx = r \o p \o (<<ev.id>> \o n) \o page_rx
      <4> DEFINE e == ev.id
                 y == r \o p
      <4>1. e \in Calls /\ r \in Seq(Calls) /\ p \in Seq(Calls)
        BY <3>1, <3>3
      <4> HIDE DEF e
      <4>2. r \o Append(p, e) = Append(y, e)
        BY <4>1, AppendBehind, Zenon
      <4>3. e \in Calls /\ y \in Seq(Calls) /\ n \in Seq(Calls)
        BY <3>1, <4>1
      <4> HIDE DEF y
      <4>4. Append(y, e) \o n = y \o (<<e>> \o n)
        BY <4>3, AppendBefore, Zenon
      <4> QED BY <4>2, <4>4, Zenon DEF e, y
    <3> QED BY <3>2, <3>4
  <2>3. ~navigations[ev.id].navigated
    <3>1. SUFFICES ASSUME navigations[ev.id].navigated PROVE FALSE
      OBVIOUS
    <3>2. navigations[ev.id] # NoEntry
      BY <3>1 DEF NoEntry
    <3>3. ResponseIsAwaited(ev.id)
      BY <1>1, <1>4, <1>6, <3>1, <3>2 DEF EntriesAreServed
    <3>4. ~IsPending(ev.id)
      BY <1>1, <1>2, <1>3, <1>11 DEF OnePlace, IsPending
    <3>5. ev.id \notin pending_commands
      BY <1>1, <1>2, <1>3, <1>4, <1>11 DEF NotSentYet, Unsent
    <3>6. ~Has(queued_events, NavigationRequest(ev.id))
      <4>1. ASSUME NEW k \in 1..Len(queued_events), queued_events[k] = NavigationRequest(ev.id)
            PROVE  FALSE
        <5>1. queued_events[k].id = queued_events[1].id /\ k # 1 /\ ~IsResult(queued_events[k])
              /\ ~IsResult(queued_events[1])
          BY <1>2, <1>3, <1>11, <4>1 DEF NavigationRequest
        <5> QED BY <1>1, <1>2, <5>1 DEF OnePlace
      <4> QED BY <4>1 DEF Has
    <3> QED BY <3>3, <3>4, <3>5, <3>6 DEF ResponseIsAwaited
  <2>4. Loaded' = Loaded
    BY <1>2, <1>4, <2>1, <2>3 DEF Loaded, InProgress
  <2> QED BY <1>1, <1>5, <1>11, <2>1, <2>2, <2>4 DEF NQ!vars
<1>12. CASE ev.type = "NavigationRequest"
  <2>1. outbox' = Append(outbox, ev.id) /\ outcome' = outcome /\ navigations' = navigations
    BY <1>3, <1>12 DEF HandleTargetEvent, OnNavigationRequest
  <2>2. Line = <<ev.id>> \o Line'
    <3> DEFINE r == R'
               p == PendingCalls
               n == C'
    <3>1. r \in Seq(Calls) /\ p \in Seq(Calls) /\ n \in Seq(Calls) /\ page_rx \in Seq(Calls)
      BY <1>7
    <3>2. Line = (<<ev.id>> \o r) \o p \o n \o page_rx /\ Line' = r \o p \o n \o page_rx
      BY <1>8, <1>9, <1>10, <1>12
    <3> HIDE DEF r, p, n
    <3>3. ev.id \in Calls
      BY <1>4
    <3> DEFINE y == <<ev.id>>
               x == page_rx
               rp == r \o p
               rpn == rp \o n
    <3>4. y \in Seq(Calls) /\ x \in Seq(Calls)
      BY <3>1, <3>3
    <3> HIDE DEF y, x
    <3>5. rp \in Seq(Calls)
      BY <3>1
    <3>6. (y \o r) \o p = y \o rp
      <4>1. y \in Seq(Calls) /\ r \in Seq(Calls) /\ p \in Seq(Calls)
        BY <3>1, <3>4
      <4> QED BY <4>1, ConcatGroups, Zenon
    <3> HIDE DEF rp
    <3>7. rpn \in Seq(Calls)
      BY <3>1, <3>5
    <3>8. (y \o rp) \o n = y \o rpn
      <4>1. y \in Seq(Calls) /\ rp \in Seq(Calls) /\ n \in Seq(Calls)
        BY <3>1, <3>4, <3>5
      <4> QED BY <4>1, ConcatGroups, Zenon
    <3> HIDE DEF rpn
    <3>9. (y \o rpn) \o x = y \o (rpn \o x)
      <4>1. y \in Seq(Calls) /\ rpn \in Seq(Calls) /\ x \in Seq(Calls)
        BY <3>4, <3>7
      <4> QED BY <4>1, ConcatGroups, Zenon
    <3>10. (y \o r) \o p \o n \o x = y \o (r \o p \o n \o x)
      BY <3>6, <3>8, <3>9, Zenon DEF rp, rpn
    <3> QED BY <3>2, <3>10 DEF y, x
  <2>3. Line' \in Seq(Calls)
    <3>1. (TypeOK => LineParts)'
      BY LineTyped, PTL
    <3> QED BY <3>1 DEF LineParts
  <2>4. Line # <<>> /\ Head(Line) = ev.id /\ Line' = Tail(Line)
    <3> DEFINE rest == Line'
    <3>1. rest \in Seq(Calls) /\ Line = <<ev.id>> \o rest
      BY <2>2, <2>3
    <3> HIDE DEF rest
    <3>2. Line # <<>> /\ Head(Line) = ev.id /\ rest = Tail(Line)
      BY <1>4, <3>1, ConcatFacts
    <3> QED BY <3>2 DEF rest
  <2>5. Loaded' = Loaded
    BY <2>1, LoadedSame
  <2>6. NQ!Send
    BY <1>1, <1>5, <1>6, <1>12, <2>1, <2>4, <2>5 DEF NQ!Send
  <2> QED BY <2>6 DEF NQ!Next
<1>13. CASE ev.type = "NavigationResult"
  <2>1. OnLifecycleCompleted(ev.id, ev.res) /\ outbox' = outbox
    BY <1>3, <1>13 DEF HandleTargetEvent, OnLifecycleCompleted
  <2>2. Line' = Line
    BY <1>8, <1>9, <1>10, <1>13
  <2> DEFINE c == ev.id
             e == navigations[c]
  <2>3. e \in Entry \cup {NoEntry} /\ c \in Calls
    BY <1>2, <1>4
  <2>4. \/ /\ \E r \in {"ok", "chromeError", "timeout", "frameNotFound"} : NQ!Tell({c}, r)
           /\ Loaded' = Loaded \ {c}
        \/ Loaded' = Loaded \cup {c} /\ UNCHANGED outcome
    <3>1. CASE e = NoEntry
      <4>1. UNCHANGED <<outcome, navigations>>
        BY <2>1, <3>1 DEF OnLifecycleCompleted
      <4>2. c \notin Loaded
        BY <3>1 DEF Loaded, NoEntry
      <4>3. outcome[c] # "waiting"
        <5>1. Began(c)
          BY <1>2, <1>3, <1>13 DEF Began
        <5>2. ~Has(page_rx, c)
          BY <1>1, <2>3, <5>1 DEF NotSentYet, Has
        <5>3. ~Has(queued_events, Command(c))
          <6>1. ASSUME NEW k \in 1..Len(queued_events), queued_events[k] = Command(c)
                PROVE  FALSE
            <7>1. ~IsResult(queued_events[k]) /\ ~IsRequest(queued_events[k])
                  /\ queued_events[k].id = c
              BY <6>1 DEF Command
            <7> QED BY <1>1, <2>3, <5>1, <7>1 DEF NotSentYet
          <6> QED BY <6>1 DEF Has
        <5> QED BY <1>1, <2>3, <3>1, <5>2, <5>3 DEF CallersAreHeld
      <4>4. NQ!Tell({c}, "ok")
        BY <1>2, <4>1, <4>3 DEF NQ!Tell
      <4>5. Loaded' = Loaded \ {c}
        BY <4>1, <4>2, LoadedSame
      <4> QED BY <4>4, <4>5
    <3>2. CASE e # NoEntry /\ ev.res = "ok" /\ e.response = NoResponse
      <4>1. outcome' = outcome /\ navigations' = [navigations EXCEPT ![c].navigated = TRUE]
        BY <2>1, <3>2 DEF OnLifecycleCompleted
      <4>2. Loaded' = Loaded \cup {c}
        BY <1>2, <2>3, <4>1 DEF Loaded, Entry, NoEntry
      <4> QED BY <4>1, <4>2
    <3>3. CASE e # NoEntry /\ ~(ev.res = "ok" /\ e.response = NoResponse)
      <4> DEFINE r == IF ev.res = "ok" THEN e.response ELSE ev.res
      <4>1. /\ outcome' = [outcome EXCEPT ![c] = IF @ = "waiting" THEN r ELSE @]
            /\ navigations' = [navigations EXCEPT ![c] = NoEntry]
        BY <2>1, <3>3 DEF OnLifecycleCompleted, Deliver
      <4>2. r \in {"ok", "chromeError", "timeout", "frameNotFound"}
        BY <1>4, <1>13, <2>3, <3>3 DEF Entry
      <4> HIDE DEF r
      <4>3. NQ!Tell({c}, r)
        BY <1>2, <2>3, <4>1 DEF NQ!Tell
      <4>4. Loaded' = Loaded \ {c}
        BY <1>2, <2>3, <4>1 DEF Loaded, NoEntry
      <4> QED BY <4>2, <4>3, <4>4
    <3> QED BY <3>1, <3>2, <3>3
  <2>5. NQ!End(c)
    BY <1>1, <1>5, <1>13, <2>1, <2>2, <2>4 DEF NQ!End
  <2> QED BY <2>3, <2>5 DEF NQ!Next
<1> QED BY <1>4, <1>11, <1>12, <1>13

LEMMA DrainLine ==
  ASSUME LineInv, DrainPageChannel
  PROVE  UNCHANGED NQ!vars
<1>1. /\ queued_events = <<>> /\ page_rx' = <<>>
      /\ queued_events' = [i \in 1..Len(page_rx) |-> Command(page_rx[i])]
      /\ UNCHANGED <<outcome, pending_navigations, navigation, navigations, outbox, alive>>
      /\ page_rx \in Seq(Calls) /\ Len(page_rx) \in Nat
      /\ PendingCalls \in Seq(Calls)
  BY LineTyped DEF LineInv, OrderInv, TypeOK, LineParts, DrainPageChannel, callerVars,
                   handlerVars, connVars
<1>2. /\ queued_events' \in Seq(TargetEvent) /\ Len(queued_events') = Len(page_rx)
      /\ \A i \in 1..Len(queued_events') :
           /\ queued_events'[i].id = page_rx[i] /\ queued_events'[i].type = "Command"
  <2>1. \A i \in 1..Len(page_rx) : page_rx[i] \in Calls
    BY <1>1
  <2>2. \A i \in 1..Len(page_rx) : Command(page_rx[i]) \in TargetEvent
    BY <2>1, EventTypes
  <2>3. /\ Len(queued_events') = Len(page_rx)
        /\ \A i \in 1..Len(page_rx) :
             queued_events'[i].id = page_rx[i] /\ queued_events'[i].type = "Command"
    BY <1>1 DEF Command
  <2>4. queued_events' \in Seq(TargetEvent)
    BY <1>1, <2>2
  <2> QED BY <2>3, <2>4
<1>3. \A t : CallsOf(t, queued_events) = <<>>
  BY <1>1, CallsOfNone
<1>4. CallsOf("NavigationRequest", queued_events') = <<>>
  BY <1>1, <1>2, CallsOfNone
<1>5. CallsOf("Command", queued_events') = page_rx
  <2>1. CallsOf("Command", queued_events') = [i \in 1..Len(queued_events') |-> queued_events'[i].id]
    BY <1>2, CallsOfAll
  <2>2. page_rx = [i \in 1..Len(page_rx) |-> page_rx[i]]
    BY <1>1
  <2> QED BY <1>2, <2>1, <2>2
<1>6. Line' = Line
  <2> DEFINE p == PendingCalls
             x == page_rx
  <2>1. PendingCalls' = p
    BY <1>1 DEF PendingCalls
  <2>2. Line = <<>> \o p \o <<>> \o x /\ Line' = <<>> \o p \o x \o <<>>
    BY <1>1, <1>3, <1>4, <1>5, <2>1 DEF Line
  <2>3. p \in Seq(Calls) /\ x \in Seq(Calls)
    BY <1>1
  <2> HIDE DEF p, x
  <2>4. <<>> \o p = p /\ p \o <<>> = p /\ (p \o x) \o <<>> = p \o x
    BY <2>3
  <2> QED BY <2>2, <2>4
<1>7. Loading' = Loading
  <2>1. ~\E i \in 1..Len(queued_events) : TRUE
    BY <1>1
  <2>2. ASSUME NEW c \in Calls
        PROVE  /\ ~Has(queued_events', NavigationRequest(c))
               /\ \A r : ~Has(queued_events', NavigationResult(c, r))
    BY <1>2 DEF Has, NavigationRequest, NavigationResult
  <2> QED BY <1>1, <2>1, <2>2 DEF Loading, Has
<1>8. Loaded' = Loaded
  BY <1>1, LoadedSame
<1> QED BY <1>1, <1>6, <1>7, <1>8 DEF NQ!vars

LEMMA PollLine ==
  ASSUME LineInv, PollFrameManager, TypeOK'
  PROVE  UNCHANGED NQ!vars
<1> DEFINE R == CallsOf("NavigationRequest", queued_events)
           C == CallsOf("Command", queued_events)
           n == Len(queued_events)
<1>1. /\ TypeOK /\ OnePlace /\ NotSentYet
      /\ queued_events \in Seq(TargetEvent) /\ pending_navigations \in Seq(Watcher)
      /\ navigation \in Watcher \cup {NoNavigation} /\ n \in Nat
      /\ UNCHANGED <<outcome, page_rx, navigations, outbox, alive>>
  BY DEF LineInv, OrderInv, TypeOK, PollFrameManager, callerVars, handlerVars, connVars
<1>2. /\ R \in Seq(Calls) /\ C \in Seq(Calls) /\ PendingCalls \in Seq(Calls)
      /\ page_rx \in Seq(Calls) /\ PendingCalls' \in Seq(Calls)
  <2>1. (TypeOK => LineParts)'
    BY LineTyped, PTL
  <2> QED BY <1>1, <2>1, LineTyped DEF LineParts
<1>3. /\ Loading = {c \in Calls : Began(c) /\ ~RequestIsQueued(c)}
      /\ Loading' = {c \in Calls : Began(c)' /\ ~RequestIsQueued(c)'}
  <2>1. (TypeOK => Loading = {c \in Calls : Began(c) /\ ~RequestIsQueued(c)})'
    BY LoadingIs, PTL
  <2> QED BY <1>1, <2>1, LoadingIs
<1> HIDE DEF n
<1>4. CASE PollWatched
  <2>1. PICK r \in {"ok", "timeout", "frameNotFound"} : NavigationEnds(r)
    BY <1>4 DEF PollWatched
  <2>2. navigation # NoNavigation /\ navigation.id \in Calls
    BY <1>1, <1>4 DEF PollWatched, Watcher
  <2> DEFINE e == NavigationResult(navigation.id, r)
  <2>3. e \in TargetEvent /\ e.type = "NavigationResult" /\ e.id = navigation.id
    BY <2>2, EventTypes DEF NavigationResult
  <2>4. queued_events' = Append(queued_events, e) /\ navigation' = NoNavigation
        /\ pending_navigations' = pending_navigations
    BY <2>1 DEF NavigationEnds
  <2> HIDE DEF e
  <2>5. /\ Len(queued_events') = n + 1 /\ queued_events'[n + 1] = e
        /\ \A i \in 1..n : queued_events'[i] = queued_events[i] /\ i \in 1..n + 1
        /\ n + 1 \in 1..n + 1
        /\ \A i \in 1..n + 1 : i \in 1..n \/ i = n + 1
    BY <1>1, <2>3, <2>4, AppendFacts DEF n
  <2>6. R' = R /\ C' = C
    BY <1>1, <2>3, <2>4, CallsOfAppend
  <2>7. Line' = Line
    BY <1>1, <2>4, <2>6 DEF Line, PendingCalls
  <2>8. ASSUME NEW c \in Calls
        PROVE  Began(c)' <=> Began(c)
    <3>1. Began(c)' => Began(c)
      BY <2>3, <2>4, <2>5 DEF Began, NoNavigation, n
    <3>2. Began(c) => Began(c)'
      BY <2>3, <2>4, <2>5 DEF Began, NoNavigation, n
    <3> QED BY <3>1, <3>2
  <2>9. ASSUME NEW c \in Calls
        PROVE  RequestIsQueued(c)' <=> RequestIsQueued(c)
    BY <2>3, <2>5 DEF RequestIsQueued, n
  <2>10. Loading' = Loading
    BY <1>3, <2>8, <2>9
  <2> QED BY <1>1, <2>7, <2>10, LoadedSame DEF NQ!vars
<1>5. CASE StartNext
  <2>1. PICK w \in Watcher : w = Head(pending_navigations)
    BY <1>1, <1>5, HeadTail DEF StartNext
  <2> DEFINE e == NavigationRequest(w.id)
  <2>2. /\ navigation = NoNavigation /\ navigation' = w
        /\ pending_navigations # <<>>
        /\ pending_navigations' = Tail(pending_navigations)
        /\ queued_events' = Append(queued_events, e)
    BY <1>5, <2>1 DEF StartNext
  <2>3. w.id \in Calls
    BY DEF Watcher
  <2>4. e \in TargetEvent /\ e.type = "NavigationRequest" /\ e.id = w.id
    BY <2>3, EventTypes DEF NavigationRequest
  <2> HIDE DEF e
  <2>5. /\ Len(queued_events') = n + 1 /\ queued_events'[n + 1] = e
        /\ \A i \in 1..n : queued_events'[i] = queued_events[i] /\ i \in 1..n + 1
        /\ n + 1 \in 1..n + 1
        /\ \A i \in 1..n + 1 : i \in 1..n \/ i = n + 1
    BY <1>1, <2>2, <2>4, AppendFacts DEF n
  <2>6. R' = Append(R, w.id) /\ C' = C
    BY <1>1, <2>2, <2>4, CallsOfAppend
  <2>7. PendingCalls = <<w.id>> \o PendingCalls'
    <3> DEFINE p == pending_navigations
               q == pending_navigations'
    <3>1. /\ Len(p) \in Nat \ {0} /\ Len(q) = Len(p) - 1 /\ w = p[1]
          /\ \A i \in 1..Len(q) : q[i] = p[i + 1]
      BY <1>1, <2>1, <2>2, HeadTail
    <3>2. /\ PendingCalls = [i \in 1..Len(p) |-> p[i].id]
          /\ PendingCalls' = [i \in 1..Len(q) |-> q[i].id]
      BY DEF PendingCalls
    <3> DEFINE a == PendingCalls
               b == PendingCalls'
    <3>3. /\ a \in Seq(Calls) /\ b \in Seq(Calls) /\ Len(a) = Len(p) /\ Len(b) = Len(q)
          /\ a[1] = w.id /\ \A i \in 1..Len(b) : b[i] = a[i + 1]
      BY <1>2, <3>1, <3>2
    <3>4. Len(a) = Len(b) + 1
      BY <3>1, <3>3
    <3> HIDE DEF a, b
    <3> DEFINE s == <<w.id>> \o b
    <3>5. s \in Seq(Calls) /\ Len(s) = Len(b) + 1 /\ s[1] = w.id
          /\ \A i \in 1..Len(b) : s[i + 1] = b[i]
      BY <2>3, <3>3
    <3> HIDE DEF s
    <3>6. \A i \in 1..Len(a) : a[i] = s[i]
      <4> TAKE i \in 1..Len(a)
      <4>1. CASE i = 1
        BY <3>3, <3>5, <4>1
      <4>2. CASE i # 1
        <5>1. i - 1 \in 1..Len(b) /\ (i - 1) + 1 = i
          BY <3>3, <3>4, <4>2
        <5> QED BY <3>3, <3>5, <5>1
      <4> QED BY <4>1, <4>2
    <3>7. a = s
      BY <3>3, <3>4, <3>5, <3>6
    <3> QED BY <3>7 DEF a, b, s
  <2>8. Line' = Line
    <3> DEFINE r == R
               q == PendingCalls'
               c == C
               x == page_rx
    <3>1. r \in Seq(Calls) /\ q \in Seq(Calls) /\ c \in Seq(Calls) /\ x \in Seq(Calls)
      BY <1>2
    <3>2. Line = r \o (<<w.id>> \o q) \o c \o x /\ Line' = Append(r, w.id) \o q \o c \o x
      BY <1>1, <2>6, <2>7 DEF Line
    <3> HIDE DEF r, q, c, x
    <3>3. Append(r, w.id) \o q \o c \o x = r \o (<<w.id>> \o q) \o c \o x
      <4> DEFINE id == w.id
      <4>1. id \in Calls /\ r \in Seq(Calls) /\ q \in Seq(Calls)
        BY <2>3, <3>1
      <4> HIDE DEF id
      <4>2. Append(r, id) \o q = r \o (<<id>> \o q)
        BY <4>1, AppendBefore, Zenon
      <4> QED BY <4>2, Zenon DEF id
    <3> QED BY <3>2, <3>3
  <2>9. ~Began(w.id)
    <3>1. 1 \in 1..Len(pending_navigations) /\ w = pending_navigations[1]
      BY <1>1, <2>1, <2>2, HeadTail
    <3> QED BY <1>1, <2>3, <3>1 DEF NotSentYet
  <2>10. ASSUME NEW c \in Calls, c # w.id
         PROVE  /\ Began(c)' <=> Began(c)
                /\ RequestIsQueued(c)' <=> RequestIsQueued(c)
    <3>1. Began(c)' => Began(c)
      BY <2>2, <2>4, <2>5, <2>10 DEF Began, NoNavigation, n
    <3>2. Began(c) => Began(c)'
      BY <2>2, <2>4, <2>5, <2>10 DEF Began, NoNavigation, n
    <3>3. RequestIsQueued(c)' <=> RequestIsQueued(c)
      BY <2>4, <2>5, <2>10 DEF RequestIsQueued, n
    <3> QED BY <3>1, <3>2, <3>3
  <2>11. RequestIsQueued(w.id)'
    BY <2>4, <2>5 DEF RequestIsQueued
  <2>12. Loading' = Loading
    <3>1. w.id \notin Loading /\ w.id \notin Loading'
      BY <1>3, <2>9, <2>11
    <3>2. ASSUME NEW c \in Calls, c # w.id PROVE c \in Loading' <=> c \in Loading
      BY <1>3, <2>10, <3>2
    <3> QED BY <1>3, <3>1, <3>2
  <2> QED BY <1>1, <2>8, <2>12, LoadedSame DEF NQ!vars
<1>6. CASE NothingToReport
  BY <1>1, <1>6, StutterLine DEF NothingToReport
<1> QED BY <1>4, <1>5, <1>6 DEF PollFrameManager

LEMMA ReadMessageLine ==
  ASSUME LineInv, ReadMessage
  PROVE  [NQ!Next]_(NQ!vars)
<1>1. /\ TypeOK /\ NothingLeft /\ pc = "conn" /\ queued_events = <<>> /\ outbox' = outbox
      /\ inbox # <<>> /\ inbox \in Seq(Message)
      /\ navigation \in Watcher \cup {NoNavigation} /\ page_rx \in Seq(Calls)
      /\ navigations \in [Calls -> Entry \cup {NoEntry}] /\ outcome \in [Calls -> Outcomes]
  BY DEF LineInv, OrderInv, TypeOK, QueueInv, NothingLeft, ReadMessage, connVars
<1>2. PICK msg \in Message : msg = Head(inbox)
  BY <1>1, HeadTail
<1>3. CASE msg.type = "response" /\ OnResponse(msg.id, msg.res)
  <2>1. msg.id \in Calls /\ msg.res \in {"ok", "chromeError"}
    BY <1>3 DEF Message, FrameEventTypes, Destroyed
  <2> DEFINE c == msg.id
             r == msg.res
  <2>2. UNCHANGED <<page_rx, queued_events, pending_navigations, navigation, alive>>
    BY <1>3 DEF OnResponse, targetVars
  <2>3. Line' = Line /\ Loading' = Loading
    BY <2>2, LineSame, LoadingSame
  <2>4. CASE UNCHANGED <<outcome, navigations>>
    BY <1>1, <2>2, <2>4, StutterLine
  <2>5. CASE /\ navigations[c].navigated
             /\ Deliver(c, r) /\ navigations' = [navigations EXCEPT ![c] = NoEntry]
    <3>1. c \in Loaded /\ Loaded' = Loaded \ {c}
      BY <1>1, <2>1, <2>5 DEF Loaded, NoEntry
    <3>2. NQ!Tell({c}, r)
      BY <1>1, <2>1, <2>5 DEF NQ!Tell, Deliver
    <3>3. NQ!Respond(c)
      BY <1>1, <2>1, <2>2, <2>3, <3>1, <3>2 DEF NQ!Respond
    <3> QED BY <2>1, <3>3 DEF NQ!Next
  <2>6. CASE /\ navigations[c] # NoEntry /\ outcome' = outcome
             /\ navigations' = [navigations EXCEPT ![c].response = r]
    <3>1. Loaded' = Loaded
      BY <1>1, <2>1, <2>6 DEF Loaded, Entry, NoEntry
    <3> QED BY <1>1, <2>2, <2>3, <2>6, <3>1 DEF NQ!vars
  <2> QED BY <1>3, <2>4, <2>5, <2>6 DEF OnResponse
<1>4. CASE OnFrameEvent(msg)
  <2>1. /\ UNCHANGED <<outcome, page_rx, queued_events, pending_navigations, navigations, alive>>
        /\ \/ navigation' = navigation
           \/ /\ navigation # NoNavigation
              /\ navigation' = [navigation EXCEPT !.same_document = TRUE]
    BY <1>4 DEF OnFrameEvent, handlerVars
  <2>2. navigation'.id = navigation.id
    BY <1>1, <2>1 DEF Watcher
  <2> QED BY <1>1, <2>1, <2>2, StutterLine
<1>5. CASE UNCHANGED <<outcome, targetVars, handlerVars>>
  BY <1>1, <1>5, StutterLine DEF targetVars, handlerVars
<1>6. CASE OnTargetDestroyed
  <2>1. /\ alive' = FALSE /\ page_rx' = <<>> /\ pending_navigations' = <<>>
        /\ navigation' = NoNavigation /\ queued_events' = <<>>
        /\ outcome' = [c \in Calls |-> IF outcome[c] = "waiting" /\ Has(page_rx, c)
                                         THEN "canceled" ELSE outcome[c]]
        /\ navigations' = navigations
    BY <1>1, <1>6 DEF OnTargetDestroyed, handlerVars
  <2>2. Len(queued_events') = 0 /\ Len(pending_navigations') = 0 /\ Len(queued_events) = 0
    BY <1>1, <2>1
  <2>3. Line' = <<>>
    <3>1. \A t : CallsOf(t, queued_events') = <<>>
      BY <2>2, CallsOfNone
    <3>2. PendingCalls' = <<>>
      BY <2>2 DEF PendingCalls
    <3>3. <<>> \o <<>> = <<>>
      OBVIOUS
    <3> QED BY <2>1, <3>1, <3>2, <3>3 DEF Line
  <2>4. Loading' = {}
    BY <2>1, <2>2 DEF Loading, Has, NoNavigation
  <2>5. Loaded' = Loaded
    BY <2>1, LoadedSame
  <2>6. CASE ~alive
    <3>1. page_rx = <<>> /\ pending_navigations = <<>> /\ navigation = NoNavigation
      BY <1>1, <2>6 DEF NothingLeft
    <3>2. outcome' = outcome
      BY <1>1, <2>1, <3>1 DEF Has
    <3>3. alive' = alive
      BY <1>1, <2>1, <2>6 DEF TypeOK
    <3> QED BY <1>1, <2>1, <3>1, <3>2, <3>3, StutterLine
  <2>7. CASE alive
    <3> DEFINE S == {c \in Calls : Has(page_rx, c)}
    <3>1. \A c \in S : \E i \in DOMAIN Line : Line[i] = c
      <4>1. \A t : CallsOf(t, queued_events) = <<>>
        BY <2>2, CallsOfNone
      <4> DEFINE p == PendingCalls
                 x == page_rx
      <4>2. p \in Seq(Calls) /\ x \in Seq(Calls)
        BY <1>1, LineTyped DEF LineParts
      <4>3. Line = <<>> \o p \o <<>> \o x
        BY <4>1 DEF Line
      <4> HIDE DEF p
      <4>4. Line = p \o x
        <5>1. <<>> \o p = p /\ p \o <<>> = p
          BY <4>2
        <5> HIDE DEF x
        <5> QED BY <4>3, <5>1
      <4>5. ASSUME NEW i \in 1..Len(x)
            PROVE  Len(p) + i \in DOMAIN Line /\ Line[Len(p) + i] = x[i]
        BY <4>2, <4>4
      <4> QED BY <4>5 DEF Has
    <3>2. S \subseteq {Line[i] : i \in DOMAIN Line}
      <4> HIDE DEF S
      <4> QED BY <3>1
    <3>3. NQ!Tell(S, "canceled")
      BY <2>1 DEF NQ!Tell
    <3> HIDE DEF S
    <3>4. NQ!Close
      BY <1>1, <2>1, <2>3, <2>4, <2>5, <2>7, <3>2, <3>3 DEF NQ!Close
    <3> QED BY <3>4 DEF NQ!Next
  <2> QED BY <2>6, <2>7
<1> QED BY <1>2, <1>3, <1>4, <1>5, <1>6 DEF ReadMessage

LEMMA EvictLine ==
  ASSUME LineInv, EvictTimedOut
  PROVE  [NQ!Next]_(NQ!vars)
<1> DEFINE S == {c \in expired : navigations[c] # NoEntry}
<1>1. /\ TypeOK /\ EntriesAreServed /\ NotSentYet /\ pc = "conn" /\ queued_events = <<>>
      /\ expired \subseteq pending_commands /\ pending_commands \subseteq Calls
      /\ navigations \in [Calls -> Entry \cup {NoEntry}] /\ outcome \in [Calls -> Outcomes]
      /\ UNCHANGED <<page_rx, queued_events, pending_navigations, navigation, alive, outbox>>
      /\ outcome' = [c \in Calls |-> IF /\ c \in expired /\ navigations[c] # NoEntry
                                        /\ outcome[c] = "waiting" THEN "timeout" ELSE outcome[c]]
      /\ navigations' = [c \in Calls |-> IF c \in expired THEN NoEntry ELSE navigations[c]]
  BY DEF LineInv, OrderInv, TypeOK, QueueInv, NothingLeft, EvictTimedOut, targetVars, connVars
<1>2. NQ!Tell(S, "timeout")
  BY <1>1 DEF NQ!Tell
<1>3. Loaded' = Loaded \ S
  BY <1>1 DEF Loaded, NoEntry
<1>4. ASSUME alive, NEW c \in S
      PROVE  c \in Loading \cup Loaded
  <2>1. c \in Calls /\ c \in pending_commands /\ navigations[c] # NoEntry
    BY <1>1, <1>4
  <2>2. CASE navigations[c].navigated
    BY <2>1, <2>2 DEF Loaded
  <2>3. CASE ~navigations[c].navigated
    <3>1. LoadIsWatched(c)
      BY <1>1, <1>4, <2>1, <2>3 DEF EntriesAreServed
    <3>2. ~IsPending(c)
      BY <1>1, <2>1 DEF NotSentYet, Unsent, IsPending
    <3>3. \A x : ~Has(queued_events, x)
      BY <1>1 DEF Has
    <3>4. navigation.id = c
      BY <3>1, <3>2, <3>3 DEF LoadIsWatched
    <3> QED BY <2>1, <3>3, <3>4 DEF Loading
  <2> QED BY <2>2, <2>3
<1>5. S \subseteq Calls
  BY <1>1
<1> HIDE DEF S
<1>6. NQ!Expire(S)
  BY <1>1, <1>2, <1>3, <1>4, LineSame, LoadingSame DEF NQ!Expire
<1> QED BY <1>5, <1>6 DEF NQ!Next

LEMMA GotoLine ==
  ASSUME LineInv, NEW c \in Calls, Goto(c)
  PROVE  NQ!Ask(c)
<1>1. /\ UNCHANGED <<queued_events, pending_navigations, navigation, navigations, alive, outbox>>
      /\ outcome[c] = "idle" /\ TypeOK
  BY DEF Goto, LineInv, OrderInv, handlerVars, connVars
<1>2. Loading' = Loading /\ Loaded' = Loaded
  BY <1>1, LoadingSame, LoadedSame
<1>3. CASE alive
  <2>1. page_rx' = Append(page_rx, c) /\ outcome' = [outcome EXCEPT ![c] = "waiting"]
    BY <1>3 DEF Goto
  <2>2. Line' = Append(Line, c)
    <3> DEFINE r == CallsOf("NavigationRequest", queued_events)
               p == PendingCalls
               q == CallsOf("Command", queued_events)
               x == page_rx
    <3>1. r \in Seq(Calls) /\ p \in Seq(Calls) /\ q \in Seq(Calls) /\ x \in Seq(Calls)
      BY <1>1, LineTyped DEF LineParts
    <3>2. Line = r \o p \o q \o x /\ Line' = r \o p \o q \o Append(x, c)
      BY <1>1, <2>1 DEF Line, PendingCalls
    <3> HIDE DEF r, p, q, x
    <3> DEFINE front == r \o p \o q
    <3>3. front \in Seq(Calls)
      BY <3>1
    <3> HIDE DEF front
    <3>4. front \o Append(x, c) = Append(front \o x, c)
      BY <3>1, <3>3
    <3> QED BY <3>2, <3>4 DEF front
  <2> QED BY <1>1, <1>2, <1>3, <2>1, <2>2 DEF NQ!Ask
<1>4. CASE ~alive
  <2>1. page_rx' = page_rx /\ outcome' = [outcome EXCEPT ![c] = "disconnected"]
    BY <1>4 DEF Goto
  <2> QED BY <1>1, <1>2, <1>4, <2>1, LineSame DEF NQ!Ask
<1> QED BY <1>3, <1>4

LEMMA NextLine ==
  ASSUME LineInv, [Next]_vars, TypeOK'
  PROVE  [NQ!Next]_(NQ!vars)
<1>1. CASE HandlerStep
  BY <1>1, HandleLine, DrainLine, PollLine, ReadMessageLine, EvictLine DEF HandlerStep
<1>2. ASSUME NEW c \in Calls, Goto(c)
      PROVE  NQ!Next
  BY <1>2, GotoLine DEF NQ!Next
<1>3. ASSUME NEW c \in Calls, ClientTimeout(c)
      PROVE  NQ!Next
  <2>1. /\ UNCHANGED <<queued_events, pending_navigations, page_rx, navigation, navigations,
                       outbox, alive>>
        /\ outcome \in [Calls -> Outcomes] /\ outcome[c] = "waiting"
        /\ outcome' = [outcome EXCEPT ![c] = "clientTimeout"]
    BY <1>3 DEF ClientTimeout, targetVars, handlerVars, connVars, LineInv, OrderInv, TypeOK
  <2>2. NQ!Tell({c}, "clientTimeout")
    BY <2>1 DEF NQ!Tell
  <2>3. NQ!GiveUp(c)
    BY <2>1, <2>2, LineSame, LoadingSame, LoadedSame DEF NQ!GiveUp
  <2> QED BY <2>3 DEF NQ!Next
<1>4. CASE ChromeNavigate
  <2>1. /\ outbox # <<>> /\ outbox' = Tail(outbox)
        /\ UNCHANGED <<outcome, queued_events, pending_navigations, page_rx, navigation,
                       navigations, alive>>
    BY <1>4 DEF ChromeNavigate, callerVars, targetVars, handlerVars
  <2>2. NQ!Take
    BY <2>1, LineSame, LoadingSame, LoadedSame DEF NQ!Take
  <2> QED BY <2>2 DEF NQ!Next
<1>5. CASE \/ \E c \in Calls : CommandExpires(c)
           \/ DeadlinePasses \/ ChromeEvent \/ UNCHANGED vars
  <2>1. UNCHANGED <<outcome, queued_events, pending_navigations, page_rx, navigation,
                    navigations, outbox, alive>>
    BY <1>5 DEF CommandExpires, DeadlinePasses, ChromeEvent, vars, callerVars, targetVars,
                handlerVars, connVars
  <2> QED BY <2>1, StutterLine
<1> QED BY <1>1, <1>2, <1>3, <1>4, <1>5 DEF Next

\* The gotos of a page stay in line: they are handed to the browser one at a time and in
\* the order they were made, the next when the Handler has been told of the end of the one
\* before, and each caller is told its own end, not forgotten.
THEOREM PipelineImplementsQueue == Spec => ImplementsNavigationQueue
<1>1. Init => LineInv
  BY InitOrderInv, InitQueueInv DEF LineInv, Init, CallersAreHeld
<1>2. LineInv /\ [Next]_vars => LineInv'
  BY NextOrderInv, NextQueueInv, NextHeld DEF LineInv, OrderInv
<1>3. LineInv /\ LineInv' /\ [Next]_vars => [NQ!Next]_(NQ!vars)
  BY NextLine DEF LineInv, OrderInv
<1> QED BY <1>1, <1>2, <1>3, InitLine, PTL DEF Spec, ImplementsNavigationQueue, NQ!Spec
=============================================================================
