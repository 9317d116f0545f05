----------------------------- MODULE Navigation -----------------------------
(***************************************************************************)
(* `Page::goto` from the caller's future to the browser and back, for one  *)
(* page target.                                                            *)
(*                                                                         *)
(*   caller          CommandFuture: sends one message, then waits for the  *)
(*                   oneshot or for its own 30 s delay                     *)
(*   Target          drains the page channel into queued_events and polls  *)
(*                   the FrameManager                                      *)
(*   FrameManager    one watched navigation at a time, the others queued   *)
(*   Handler         `navigations` (whose oneshot senders it holds) and    *)
(*                   the `Navigate` entries of `pending_commands`          *)
(*   chrome          the browser: external, modelled by the order in which *)
(*                   it may answer and emit page events                    *)
(*                                                                         *)
(* The Handler is one task.  `pc` is the place Handler::poll_next has      *)
(* reached in its loop: "events" (Target::poll hands queued events to the  *)
(* handler, then drains the channel), "frames" (FrameManager::poll until   *)
(* it returns None), "conn" (websocket messages until none is ready, then  *)
(* the eviction job).  Callers, the browser and the clock move at any time.*)
(*                                                                         *)
(* A NavigationId is the call whose sender it carries: next_navigation_id  *)
(* never hands the same id out twice in a run, so no more is needed.       *)
(***************************************************************************)
EXTENDS Naturals, Sequences

CONSTANTS
  Calls,         \* the calls of Page::goto
  PageLoaders,   \* loaders of documents the page opens by itself (bounds them)
  Impatient,     \* the calls whose own delay may fire
  MayDie,        \* whether the browser may destroy the target
  MayExpire,     \* whether deadlines may pass
  MaxPushes,     \* bound: history.pushState-like steps of the page
  MaxSwaps,      \* bound: changes of the main frame's id
  MaxInbox       \* bound: messages the browser sends ahead of the Handler

InitialLoader == "initial"
NoLoader == "noLoader"
NoCall == "noCall"

ASSUME CallsAssumption ==
  /\ NoCall \notin Calls
  /\ InitialLoader \notin Calls /\ NoLoader \notin Calls
  /\ Calls \cap PageLoaders = {}
  /\ InitialLoader \notin PageLoaders /\ NoLoader \notin PageLoaders
ASSUME BoundsAssumption ==
  /\ Impatient \subseteq Calls /\ MayDie \in BOOLEAN /\ MayExpire \in BOOLEAN
  /\ MaxPushes \in Nat /\ MaxSwaps \in Nat /\ MaxInbox \in Nat

VARIABLES
  outcome,             \* what each caller's future has returned
  page_rx,             \* PageHandle.rx: calls sent and not yet drained
  queued_events,       \* Target.queued_events
  pending_navigations, \* FrameManager.pending_navigations
  navigation,          \* FrameManager.navigation: the watched one
  overdue,             \* its deadline has passed
  main_frame,          \* the main frame: id, loader_id, contains("load")
  navigations,         \* Handler.navigations
  pending_commands,    \* ids n with a PendingRequest::Navigate(n)
  expired,             \* those older than request_timeout
  alive,               \* Handler.targets still holds the target
  pc,                  \* where Handler::poll_next is
  outbox,              \* Page.navigate commands written to the socket
  inbox,               \* messages from the browser not yet read
  chrome,              \* the browser's own state
  settled,             \* history: calls whose document has loaded
  solo                 \* history: calls no other navigation interfered with

callerVars == <<outcome>>
targetVars == <<page_rx, queued_events, pending_navigations, navigation,
                overdue, main_frame, alive>>
handlerVars == <<navigations, pending_commands, expired>>
connVars == <<outbox, inbox>>
ghostVars == <<settled, solo>>
vars == <<outcome, page_rx, queued_events, pending_navigations, navigation,
          overdue, main_frame, navigations, pending_commands, expired, alive,
          pc, outbox, inbox, chrome, settled, solo>>

-----------------------------------------------------------------------------
(* Values *)

Loader == Calls \cup PageLoaders \cup {InitialLoader}
FrameIds == 0..MaxSwaps
Outcomes == {"idle", "waiting", "ok", "chromeError", "timeout",
             "frameNotFound", "canceled", "disconnected", "clientTimeout"}

NoResponse == "noResponse"
NoEntry == [navigated |-> FALSE, response |-> "absent"]
InProgress == [navigated |-> FALSE, response |-> NoResponse]
Entry == [navigated : BOOLEAN, response : {NoResponse, "ok", "chromeError"}]

Watcher == [id : Calls, frame : FrameIds, loader : Loader,
            same_document : BOOLEAN]
NoNavigation == [id |-> NoCall, frame |-> 0, loader |-> NoLoader,
                 same_document |-> FALSE]

TargetEvent ==
  [type : {"Command", "NavigationRequest"}, id : Calls, res : {"none"}]
    \cup [type : {"NavigationResult"}, id : Calls,
          res : {"ok", "timeout", "frameNotFound"}]
Command(c) == [type |-> "Command", id |-> c, res |-> "none"]
NavigationRequest(c) == [type |-> "NavigationRequest", id |-> c, res |-> "none"]
NavigationResult(c, r) == [type |-> "NavigationResult", id |-> c, res |-> r]

\* A response carries the call it answers, a page event its frame and loader.
Response(c, r) == [type |-> "response", id |-> c, res |-> r]
FrameEvent(t, f, l) == [type |-> t, frame |-> f, loader |-> l]
Destroyed == [type |-> "targetDestroyed"]
FrameEventTypes == {"startedLoading", "init", "load", "withinDocument",
                    "frameNavigated"}
Message == [type : {"response"}, id : Calls, res : {"ok", "chromeError"}]
      \cup [type : FrameEventTypes, frame : FrameIds, loader : Loader]
      \cup {Destroyed}

Has(s, x) == \E i \in 1..Len(s) : s[i] = x

-----------------------------------------------------------------------------
(* The callers *)

\* CommandFuture sends Page.navigate into the page channel; the channel is
\* closed once the Target, which owns the receiver, is gone.
Goto(c) ==
  /\ outcome[c] = "idle"
  /\ IF alive
       THEN /\ page_rx' = Append(page_rx, c)
            /\ outcome' = [outcome EXCEPT ![c] = "waiting"]
       ELSE /\ outcome' = [outcome EXCEPT ![c] = "disconnected"]
            /\ UNCHANGED page_rx
  /\ UNCHANGED <<queued_events, pending_navigations, navigation, overdue,
                 main_frame, alive, handlerVars, pc, connVars, chrome, ghostVars>>

\* The future's own delay fires; its receiver is dropped, nothing else changes.
ClientTimeout(c) ==
  /\ c \in Impatient
  /\ outcome[c] = "waiting"
  /\ outcome' = [outcome EXCEPT ![c] = "clientTimeout"]
  /\ UNCHANGED <<targetVars, handlerVars, pc, connVars, chrome, ghostVars>>

\* tx.send(r) on the call's oneshot: lost when the caller has given up.
Deliver(c, r) ==
  outcome' = [outcome EXCEPT ![c] = IF @ = "waiting" THEN r ELSE @]

-----------------------------------------------------------------------------
(* FrameManager *)

\* FrameManager::goto / navigate_frame: the watcher remembers the frame's
\* loader at the moment the request is queued.
NavigateFrame(c) ==
  pending_navigations' =
    Append(pending_navigations,
           [id |-> c, frame |-> main_frame.id, loader |-> main_frame.loader,
            same_document |-> FALSE])

\* Mutant: any loaded document ends the navigation, whatever its loader.
LifecycleCompleteOfAnyDocument(w) == main_frame.loaded

\* check_lifecycle_complete returns Some.
LifecycleComplete(w) ==
  /\ main_frame.loaded
  /\ w.same_document \/ main_frame.loader # w.loader

\* FrameManager::poll takes the watched navigation out and reports it.
NavigationEnds(r) ==
  /\ queued_events' = Append(queued_events, NavigationResult(navigation.id, r))
  /\ navigation' = NoNavigation
  /\ overdue' = FALSE
  /\ UNCHANGED <<pending_navigations, pc>>

PollWatched ==
  /\ navigation # NoNavigation
  /\ \/ overdue /\ NavigationEnds("timeout")
     \/ /\ ~overdue
        /\ navigation.frame # main_frame.id
        /\ NavigationEnds("frameNotFound")
     \/ /\ ~overdue
        /\ navigation.frame = main_frame.id
        /\ LifecycleComplete(navigation)
        /\ NavigationEnds("ok")

\* Mutant: the newest of the queued navigations is started.
StartNewest ==
  LET newest == Len(pending_navigations) IN
  /\ navigation = NoNavigation
  /\ pending_navigations # <<>>
  /\ navigation' = pending_navigations[newest]
  /\ pending_navigations' = SubSeq(pending_navigations, 1, newest - 1)
  /\ queued_events' =
       Append(queued_events, NavigationRequest(pending_navigations[newest].id))
  /\ overdue' = FALSE
  /\ UNCHANGED pc

\* No navigation is watched: the next queued one becomes it.
StartNext ==
  /\ navigation = NoNavigation
  /\ pending_navigations # <<>>
  /\ navigation' = Head(pending_navigations)
  /\ pending_navigations' = Tail(pending_navigations)
  /\ queued_events' =
       Append(queued_events, NavigationRequest(Head(pending_navigations).id))
  /\ overdue' = FALSE
  /\ UNCHANGED pc

\* FrameManager::poll returns None; Target::poll returns what it has queued.
NothingToReport ==
  /\ IF navigation = NoNavigation
       THEN pending_navigations = <<>>
       ELSE /\ ~overdue
            /\ navigation.frame = main_frame.id
            /\ ~LifecycleComplete(navigation)
  /\ pc' = IF queued_events = <<>> THEN "conn" ELSE "events"
  /\ UNCHANGED <<queued_events, pending_navigations, navigation, overdue>>

PollFrameManager ==
  /\ pc = "frames"
  /\ PollWatched \/ StartNext \/ NothingToReport
  /\ UNCHANGED <<callerVars, page_rx, main_frame, alive, handlerVars, connVars,
                 chrome, ghostVars>>

-----------------------------------------------------------------------------
(* Target events handed to the Handler *)

\* Nothing in flight anywhere: what a call must find to be undisturbed.
Quiet ==
  /\ \A c \in Calls : navigations[c] = NoEntry
  /\ navigation = NoNavigation /\ pending_navigations = <<>>
  /\ chrome.starting = NoLoader /\ ~chrome.loading /\ outbox = <<>>
  /\ \A i \in 1..Len(inbox) : inbox[i].type \notin FrameEventTypes
  /\ main_frame.loader = chrome.committed

\* Handler::on_target_message for a navigation.
OnCommand(c) ==
  /\ NavigateFrame(c)
  /\ navigations' = [navigations EXCEPT ![c] = InProgress]
  /\ solo' = IF Quiet THEN {c} ELSE {}
  /\ UNCHANGED <<outcome, pending_commands, outbox>>

\* Handler::submit_navigation.
OnNavigationRequest(c) ==
  /\ outbox' = Append(outbox, c)
  /\ pending_commands' = pending_commands \cup {c}
  /\ UNCHANGED <<outcome, pending_navigations, navigations, solo>>

\* Mutant: the result of an evicted navigation brings its entry back.
OnLifecycleCompletedOfEvicted(c, r) ==
  LET e == navigations[c] IN
  /\ IF r = "ok" /\ e.response \notin {"ok", "chromeError"}
       THEN /\ navigations' = [navigations EXCEPT ![c].navigated = TRUE]
            /\ UNCHANGED outcome
       ELSE /\ Deliver(c, IF r = "ok" THEN e.response ELSE r)
            /\ navigations' = [navigations EXCEPT ![c] = NoEntry]
  /\ UNCHANGED <<pending_navigations, pending_commands, outbox, solo>>

\* Mutant: a navigation that failed is forgotten without telling the caller.
OnLifecycleFailedSilently(c, r) ==
  LET e == navigations[c] IN
  /\ IF e = NoEntry
       THEN UNCHANGED <<outcome, navigations>>
       ELSE IF r = "ok" /\ e.response = NoResponse
         THEN /\ navigations' = [navigations EXCEPT ![c].navigated = TRUE]
              /\ UNCHANGED outcome
         ELSE /\ IF r = "ok" THEN Deliver(c, e.response) ELSE UNCHANGED outcome
              /\ navigations' = [navigations EXCEPT ![c] = NoEntry]
  /\ UNCHANGED <<pending_navigations, pending_commands, outbox, solo>>

\* Handler::on_navigation_lifecycle_completed.
OnLifecycleCompleted(c, r) ==
  LET e == navigations[c] IN
  /\ IF e = NoEntry
       THEN UNCHANGED <<outcome, navigations>>
       ELSE IF r = "ok" /\ e.response = NoResponse
         THEN /\ navigations' = [navigations EXCEPT ![c].navigated = TRUE]
              /\ UNCHANGED outcome
         ELSE /\ Deliver(c, IF r = "ok" THEN e.response ELSE r)
              /\ navigations' = [navigations EXCEPT ![c] = NoEntry]
  /\ UNCHANGED <<pending_navigations, pending_commands, outbox, solo>>

HandleTargetEvent ==
  /\ pc = "events"
  /\ queued_events # <<>>
  /\ queued_events' = Tail(queued_events)
  /\ LET ev == Head(queued_events) IN
       \/ ev.type = "Command" /\ OnCommand(ev.id)
       \/ ev.type = "NavigationRequest" /\ OnNavigationRequest(ev.id)
       \/ ev.type = "NavigationResult" /\ OnLifecycleCompleted(ev.id, ev.res)
  /\ UNCHANGED <<page_rx, navigation, overdue, main_frame, alive, expired, pc,
                 inbox, chrome, settled>>

\* Target::poll has no queued event left: it drains the page channel.
DrainPageChannel ==
  /\ pc = "events"
  /\ queued_events = <<>>
  /\ queued_events' = [i \in 1..Len(page_rx) |-> Command(page_rx[i])]
  /\ page_rx' = <<>>
  /\ pc' = IF alive THEN "frames" ELSE "conn"
  /\ UNCHANGED <<callerVars, pending_navigations, navigation, overdue,
                 main_frame, alive, handlerVars, connVars, chrome, ghostVars>>

-----------------------------------------------------------------------------
(* Websocket messages and the eviction job *)

\* Mutant: the response is stored even when the load has already ended.
OnResponseAlwaysStored(c, r) ==
  /\ pending_commands' = pending_commands \ {c}
  /\ expired' = expired \ {c}
  /\ navigations' = IF c \notin pending_commands \/ navigations[c] = NoEntry
                      THEN navigations
                      ELSE [navigations EXCEPT ![c].response = r]
  /\ UNCHANGED outcome
  /\ UNCHANGED targetVars

\* Handler::on_response for PendingRequest::Navigate, on_navigation_response.
OnResponse(c, r) ==
  /\ pending_commands' = pending_commands \ {c}
  /\ expired' = expired \ {c}
  /\ LET e == navigations[c] IN
       IF c \notin pending_commands \/ e = NoEntry
         THEN UNCHANGED <<outcome, navigations>>
         ELSE IF e.navigated
           THEN /\ Deliver(c, r)
                /\ navigations' = [navigations EXCEPT ![c] = NoEntry]
           ELSE /\ navigations' = [navigations EXCEPT ![c].response = r]
                /\ UNCHANGED outcome
  /\ UNCHANGED targetVars

\* Target::on_event for the events the FrameManager keeps; an event of a frame
\* it does not know changes nothing.
OnFrameEvent(m) ==
  LET known == m.frame = main_frame.id IN
  /\ main_frame' =
       CASE m.type = "startedLoading" /\ known -> [main_frame EXCEPT !.loaded = FALSE]
         [] m.type = "init" /\ known -> [main_frame EXCEPT !.loader = m.loader,
                                                           !.loaded = FALSE]
         [] m.type = "load" /\ known -> [main_frame EXCEPT !.loaded = TRUE]
         [] m.type = "frameNavigated" -> [main_frame EXCEPT !.id = m.frame]
         [] OTHER -> main_frame
  /\ navigation' =
       IF m.type = "withinDocument" /\ navigation # NoNavigation
          /\ navigation.frame = m.frame
         THEN [navigation EXCEPT !.same_document = TRUE]
         ELSE navigation
  /\ UNCHANGED <<outcome, page_rx, queued_events, pending_navigations, overdue,
                 alive, handlerVars>>

\* Handler::on_target_destroyed drops the Target: its channel closes, which
\* cancels the messages in it, and its FrameManager goes with all it watches.
OnTargetDestroyed ==
  /\ alive' = FALSE
  /\ outcome' = [c \in Calls |-> IF outcome[c] = "waiting" /\ Has(page_rx, c)
                                   THEN "canceled" ELSE outcome[c]]
  /\ page_rx' = <<>>
  /\ pending_navigations' = <<>>
  /\ navigation' = NoNavigation
  /\ overdue' = FALSE
  /\ UNCHANGED <<queued_events, main_frame, handlerVars>>

ReadMessage ==
  /\ pc = "conn"
  /\ inbox # <<>>
  /\ inbox' = Tail(inbox)
  /\ LET m == Head(inbox) IN
       \/ m.type = "response" /\ OnResponse(m.id, m.res)
       \/ m.type \in FrameEventTypes /\ alive /\ OnFrameEvent(m)
       \/ /\ m.type \in FrameEventTypes /\ ~alive
          /\ UNCHANGED <<outcome, targetVars, handlerVars>>
       \/ m.type = "targetDestroyed" /\ OnTargetDestroyed
  /\ UNCHANGED <<pc, outbox, chrome, ghostVars>>

\* Mutant: eviction drops the commands and leaves their navigations alone.
EvictCommandsOnly ==
  /\ pc = "conn"
  /\ inbox = <<>>
  /\ pending_commands' = pending_commands \ expired
  /\ expired' = {}
  /\ pc' = "events"
  /\ UNCHANGED <<outcome, navigations, targetVars, connVars, chrome, ghostVars>>

\* The socket is drained: Handler::evict_timed_out_commands, then the loop
\* starts again.
EvictTimedOut ==
  /\ pc = "conn"
  /\ inbox = <<>>
  /\ pending_commands' = pending_commands \ expired
  /\ outcome' = [c \in Calls |->
                   IF c \in expired /\ navigations[c] # NoEntry
                      /\ outcome[c] = "waiting" THEN "timeout" ELSE outcome[c]]
  /\ navigations' = [c \in Calls |-> IF c \in expired THEN NoEntry
                                                      ELSE navigations[c]]
  /\ expired' = {}
  /\ pc' = "events"
  /\ UNCHANGED <<targetVars, connVars, chrome, ghostVars>>

-----------------------------------------------------------------------------
(* The clock *)

\* `now` is read at the top of the loop, so an iteration that starts to watch a
\* navigation never finds it overdue: time passes between iterations.
DeadlinePasses ==
  /\ MayExpire /\ pc = "conn"
  /\ navigation # NoNavigation
  /\ ~overdue
  /\ overdue' = TRUE
  /\ UNCHANGED <<callerVars, page_rx, queued_events, pending_navigations,
                 navigation, main_frame, alive, handlerVars, pc, connVars,
                 chrome, ghostVars>>

\* The command is older than request_timeout when the periodic job next runs.
CommandExpires(c) ==
  /\ MayExpire
  /\ c \in pending_commands \ expired
  /\ expired' = expired \cup {c}
  /\ UNCHANGED <<callerVars, targetVars, navigations, pending_commands, pc,
                 connVars, chrome, ghostVars>>

-----------------------------------------------------------------------------
(* The browser *)

\* A document with loader l starts to load.  The one that was starting is
\* given up; if a Page.navigate asked for it, that command fails.
Begin(l, owed) ==
  LET aborted == {chrome.starting} \cap chrome.owed IN
  /\ chrome' = [chrome EXCEPT !.starting = l,
                              !.owed = (@ \ aborted) \cup owed,
                              !.pages = @ \ {l}]
  /\ inbox' = (IF aborted = {} THEN inbox
               ELSE Append(inbox, Response(chrome.starting, "chromeError")))
              \o <<FrameEvent("startedLoading", chrome.frame, chrome.committed)>>

\* The browser takes the next Page.navigate: a new document, a jump within the
\* document, a failure that loads nothing (ERR_ABORTED, a download), no answer.
ChromeNavigate ==
  /\ outbox # <<>> /\ Len(inbox) < MaxInbox
  /\ outbox' = Tail(outbox)
  /\ LET c == Head(outbox) IN
       \/ chrome.live /\ Begin(c, {c}) /\ UNCHANGED settled
       \/ /\ chrome.live
          /\ inbox' = Append(inbox, FrameEvent("withinDocument", chrome.frame,
                                               chrome.committed))
          /\ chrome' = [chrome EXCEPT !.owed = @ \cup {c}]
          /\ settled' = settled \cup {c}
       \/ /\ inbox' = Append(inbox, Response(c, "chromeError"))
          /\ UNCHANGED <<chrome, settled>>
       \/ UNCHANGED <<inbox, chrome, settled>>
  /\ UNCHANGED <<callerVars, targetVars, handlerVars, pc, solo>>

ChromeRespond(c) ==
  /\ c \in chrome.owed
  /\ inbox' = Append(inbox, Response(c, IF chrome.live THEN "ok" ELSE "chromeError"))
  /\ chrome' = [chrome EXCEPT !.owed = @ \ {c}]
  /\ UNCHANGED <<settled, solo>>

ChromeCommit ==
  /\ chrome.starting # NoLoader
  /\ chrome' = [chrome EXCEPT !.committed = chrome.starting,
                              !.starting = NoLoader, !.loading = TRUE]
  /\ inbox' = Append(inbox, FrameEvent("init", chrome.frame, chrome.starting))
  /\ UNCHANGED <<settled, solo>>

ChromeLoad ==
  /\ chrome.loading
  /\ chrome' = [chrome EXCEPT !.loading = FALSE]
  /\ inbox' = Append(inbox, FrameEvent("load", chrome.frame, chrome.committed))
  /\ settled' = settled \cup ({chrome.committed} \cap Calls)
  /\ UNCHANGED solo

\* The page navigates, pushes a history entry or gets another main frame.
ChromePageNavigates(l) ==
  /\ chrome.live /\ l \in chrome.pages
  /\ Begin(l, {})
  /\ solo' = {}
  /\ UNCHANGED settled

ChromePushState ==
  /\ chrome.live /\ chrome.pushes < MaxPushes
  /\ chrome' = [chrome EXCEPT !.pushes = @ + 1]
  /\ inbox' = Append(inbox, FrameEvent("withinDocument", chrome.frame,
                                       chrome.committed))
  /\ solo' = {}
  /\ UNCHANGED settled

ChromeSwapsFrame ==
  /\ chrome.live /\ chrome.frame < MaxSwaps
  /\ chrome' = [chrome EXCEPT !.frame = @ + 1]
  /\ inbox' = Append(inbox, FrameEvent("frameNavigated", chrome.frame + 1,
                                       chrome.committed))
  /\ solo' = {}
  /\ UNCHANGED settled

\* The tab is closed or crashes.
ChromeDestroysTarget ==
  /\ MayDie /\ chrome.live
  /\ chrome' = [chrome EXCEPT !.live = FALSE, !.starting = NoLoader,
                              !.loading = FALSE]
  /\ inbox' = Append(inbox, Destroyed)
  /\ UNCHANGED <<settled, solo>>

ChromeEvent ==
  /\ Len(inbox) < MaxInbox
  /\ \/ \E c \in Calls : ChromeRespond(c)
     \/ ChromeCommit
     \/ ChromeLoad
     \/ \E l \in PageLoaders : ChromePageNavigates(l)
     \/ ChromePushState
     \/ ChromeSwapsFrame
     \/ ChromeDestroysTarget
  /\ UNCHANGED <<callerVars, targetVars, handlerVars, pc, outbox>>

-----------------------------------------------------------------------------
(* The specification *)

\* An initialized page target, whose first document has loaded (a page from
\* Browser::new_page) or is still loading (one from Browser::get_page).
Init ==
  /\ outcome = [c \in Calls |-> "idle"]
  /\ page_rx = <<>> /\ queued_events = <<>> /\ pending_navigations = <<>>
  /\ navigation = NoNavigation /\ overdue = FALSE
  /\ \E loaded \in BOOLEAN :
       /\ main_frame = [id |-> 0, loader |-> InitialLoader, loaded |-> loaded]
       /\ chrome = [live |-> TRUE, frame |-> 0, committed |-> InitialLoader,
                    loading |-> ~loaded, starting |-> NoLoader, owed |-> {},
                    pages |-> PageLoaders, pushes |-> 0]
  /\ navigations = [c \in Calls |-> NoEntry]
  /\ pending_commands = {} /\ expired = {}
  /\ alive = TRUE
  /\ pc = "events"
  /\ outbox = <<>>
  /\ inbox = <<>>
  /\ settled = {} /\ solo = {}

HandlerStep ==
  \/ HandleTargetEvent
  \/ DrainPageChannel
  \/ PollFrameManager
  \/ ReadMessage
  \/ EvictTimedOut

Next ==
  \/ HandlerStep
  \/ \E c \in Calls : Goto(c) \/ ClientTimeout(c) \/ CommandExpires(c)
  \/ DeadlinePasses
  \/ ChromeNavigate
  \/ ChromeEvent

\* A turn of the Handler that has begun is gone through; whether another one begins is
\* left to PolledOn.  Time passes (strong fairness, because the clock is observed only
\* between two iterations).  Nothing is assumed of the callers or of the browser, and
\* the callers' own delay is left out so that what they are promised rests on the
\* Handler alone.
Fairness ==
  /\ WF_vars(HandleTargetEvent \/ DrainPageChannel \/ PollFrameManager \/ ReadMessage)
  /\ SF_vars(DeadlinePasses)
  /\ \A c \in Calls : WF_vars(CommandExpires(c))

Spec == Init /\ [][Next]_vars
FairSpec == Spec /\ Fairness

-----------------------------------------------------------------------------
(* Properties *)

\* Types of the variables of the pipeline and of the browser; a command that has
\* expired is still in Handler.pending_commands.
TypeOK ==
  /\ outcome \in [Calls -> Outcomes]
  /\ page_rx \in Seq(Calls)
  /\ queued_events \in Seq(TargetEvent)
  /\ pending_navigations \in Seq(Watcher)
  /\ navigation \in Watcher \cup {NoNavigation}
  /\ overdue \in BOOLEAN
  /\ main_frame \in [id : FrameIds, loader : Loader, loaded : BOOLEAN]
  /\ navigations \in [Calls -> Entry \cup {NoEntry}]
  /\ pending_commands \subseteq Calls
  /\ expired \subseteq pending_commands
  /\ alive \in BOOLEAN
  /\ pc \in {"events", "frames", "conn"}
  /\ outbox \in Seq(Calls)
  /\ inbox \in Seq(Message)
  /\ chrome \in [live : BOOLEAN, frame : FrameIds, committed : Loader,
                 loading : BOOLEAN, starting : Loader \cup {NoLoader},
                 owed : SUBSET Calls, pages : SUBSET PageLoaders,
                 pushes : 0..MaxPushes]
  /\ settled \subseteq Calls
  /\ solo \subseteq Calls

\* Call c waits in FrameManager.pending_navigations.
IsPending(c) ==
  \E i \in 1..Len(pending_navigations) : pending_navigations[i].id = c

\* Something will still report the end of the load of call c.
LoadIsWatched(c) ==
  \/ IsPending(c)
  \/ navigation # NoNavigation /\ navigation.id = c
  \/ \E r \in {"ok", "timeout", "frameNotFound"} :
       Has(queued_events, NavigationResult(c, r))

\* Something will still bring the response to call c, or its eviction.
ResponseIsAwaited(c) ==
  \/ IsPending(c)
  \/ Has(queued_events, NavigationRequest(c))
  \/ c \in pending_commands

\* No entry of Handler.navigations is stranded while its target lives: what it
\* still lacks, the load or the response, has somebody who will report it, and
\* an entry that lacks nothing has been answered and removed.
EntriesAreServed ==
  \A c \in Calls :
    navigations[c] # NoEntry =>
      /\ navigations[c].navigated => navigations[c].response = NoResponse
      /\ alive /\ ~navigations[c].navigated => LoadIsWatched(c)
      /\ alive /\ navigations[c].response = NoResponse => ResponseIsAwaited(c)

\* A caller still waiting has its sender somewhere in the pipeline: the page
\* channel, Target.queued_events or Handler.navigations; no path drops one
\* silently, the destruction of the target included.
CallersAreHeld ==
  \A c \in Calls :
    outcome[c] = "waiting" =>
      Has(page_rx, c) \/ Has(queued_events, Command(c)) \/ navigations[c] # NoEntry

\* A call that nothing disturbed (no other goto from the moment it was queued,
\* no navigation by the page, nothing left over) resolves successfully only
\* after the document it asked for has loaded.
UndisturbedGotoLoadsItsDocument ==
  \A c \in solo : outcome[c] = "ok" => c \in settled

\* The calls whose Page.navigate has been written and whose load is still out.
InFlight ==
  {c \in Calls : /\ navigations[c] # NoEntry /\ ~navigations[c].navigated
                 /\ c \in pending_commands \/ navigations[c].response # NoResponse}

\* The browser is asked for one navigation at a time: the next Page.navigate
\* is written only when the load of the one before has ended or been given up.
OneNavigationInFlight ==
  alive => \A c, d \in InFlight : c = d

-----------------------------------------------------------------------------
(* The pipeline implements the line a page promises *)

\* The calls of the events of type t in s, in their order.
With(calls, ev, t) == IF ev.type = t THEN Append(calls, ev.id) ELSE calls
CallsOf(t, s) ==
  LET calls[n \in 0..Len(s)] == IF n = 0 THEN <<>> ELSE With(calls[n - 1], s[n], t)
  IN calls[Len(s)]

\* The calls whose Page.navigate is not written: what is nearest to the socket first.
PendingCalls == [i \in 1..Len(pending_navigations) |-> pending_navigations[i].id]
Line ==
  CallsOf("NavigationRequest", queued_events) \o PendingCalls
    \o CallsOf("Command", queued_events) \o page_rx

\* The calls whose Page.navigate is written and the end of whose load the Handler has
\* not been told.
Loading ==
  {c \in Calls :
     /\ ~Has(queued_events, NavigationRequest(c))
     /\ \/ navigation.id = c
        \/ \E r \in {"ok", "timeout", "frameNotFound"} :
             Has(queued_events, NavigationResult(c, r))}

Loaded == {c \in Calls : navigations[c].navigated}

NQ == INSTANCE NavigationQueue
        WITH line <- Line, loading <- Loading, loaded <- Loaded, open <- alive

\* Through page channel, queued events, pending and watched navigation, the gotos of a
\* page stay in the order they were made; the next document is asked for only when the
\* Handler has been told the end of the load before it, whatever was evicted meanwhile;
\* and each caller is answered after its own document was asked for, never forgotten.
ImplementsNavigationQueue == NQ!Spec

\* The Handler's task is woken again and again.  Its own clock does not see to that:
\* a Delay that is over is reset and not polled (HandlerTask), so that with a silent
\* browser the deadlines below pass unseen.
PolledOn == []<><<EvictTimedOut>>_vars

\* Every goto resolves by the Handler's own means, whatever the browser does, even
\* swap the frame that is watched, unless the target is destroyed under it, if only the
\* Handler goes on being polled.
EveryGotoResolves ==
  PolledOn =>
    \A c \in Calls : outcome[c] = "waiting" ~> outcome[c] # "waiting" \/ ~alive

\* page.rs: goto "resolves directly after the requested URL is fully loaded".
GotoResolvesAfterLoad ==
  \A c \in Calls : outcome[c] = "ok" => c \in settled
=============================================================================
