------------------------------ MODULE Targets ------------------------------
(***************************************************************************)
(* The Handler's targets and sessions.                                     *)
(*                                                                         *)
(*   caller      awaits Browser::new_page                                  *)
(*   Handler     its loop: messages of the Browser handle, then every      *)
(*               target of target_ids is polled, then websocket messages   *)
(*   Target      init_state, a CommandChain per stage, its session, its    *)
(*               page and the initiator it owes the page to                *)
(*   browser     tabs, the sessions attached to them, responses and events *)
(*                                                                         *)
(* All tabs are pages.  The commands of a stage are cut down to one, except*)
(* the first stage, which learns the main frame before it may report its   *)
(* load.  Sub-frames and later navigations are not part of this module.    *)
(***************************************************************************)
EXTENDS Naturals, FiniteSets, Sequences, Vecs

CONSTANTS
  Callers,     \* calls of Browser::new_page
  Tabs,        \* target ids
  Sessions,    \* session ids; enough for every attach
  Viewport,    \* whether the Handler is configured with a viewport
  OpenAtStart, \* tabs open before the Handler connects, unknown to it
  MaxFetches,  \* bound: calls of Browser::fetch_targets
  MaxDetaches, \* bound: sessions the browser detaches from an open tab
  MayClose,    \* whether the browser closes tabs by itself
  Deadlines    \* whether deadlines pass

ASSUME BoundsAssumption ==
  /\ MaxFetches \in Nat /\ MaxDetaches \in Nat /\ OpenAtStart \subseteq Tabs
  /\ Viewport \in BOOLEAN /\ MayClose \in BOOLEAN /\ Deadlines \in BOOLEAN
  /\ IsFiniteSet(Tabs) /\ IsFiniteSet(Sessions)
  /\ Cardinality(Sessions) >= Cardinality(Tabs) * (1 + 2 * MaxFetches)

NoTab == "noTab"
NoSession == "noSession"
NoCaller == "noCaller"
NoCommand == "noCommand"

ASSUME NullAssumption ==
  /\ NoTab \notin Tabs /\ NoSession \notin Sessions /\ NoCaller \notin Callers
  /\ {"free", "open", "closing", "unused", "gone"} \cap Tabs = {}

VARIABLES
  outcome,     \* what each caller got
  targets,     \* Handler.targets
  target_ids,  \* Handler.target_ids, a Vec
  sessions,    \* Handler.sessions
  pending,     \* Handler.pending_commands
  next_id,     \* Connection.next_id
  phase,       \* where the Handler's loop is
  cursor,      \* the loop variable of the loop over target_ids
  outbox,      \* commands on their way to the browser
  inbox,       \* responses and events on their way to the Handler
  tab,         \* browser: the state of each tab
  loaded,      \* browser: tabs whose document has loaded
  attached,    \* browser: the tab each session is attached to
  watching,    \* browser: sessions that are owed a report of the load
  fetches,     \* fetch_targets called so far
  detaches,    \* sessions of open tabs detached so far
  ran,         \* history: init commands the browser ran in each session
  severed      \* history: open tabs that lost a session

handlerVars == <<outcome, targets, target_ids, sessions, pending, next_id>>
loopVars == <<phase, cursor>>
browserVars == <<tab, loaded, attached, watching, detaches, ran, severed>>
vars == <<handlerVars, loopVars, outbox, inbox, browserVars, fetches>>

-----------------------------------------------------------------------------
(* Data *)

\* The stages of TargetInit that run a CommandChain.  InitializingFrame runs two:
\* the FrameManager's, then the one that creates the isolated world.
Chain == [frame     |-> <<"getFrameTree", "setLifecycleEventsEnabled">>,
          world     |-> <<"createIsolatedWorld">>,
          network   |-> <<"enableNetwork">>,
          page      |-> <<"setAutoAttach">>,
          emulation |-> <<"setDeviceMetricsOverride">>]

AfterStage == [frame |-> "world", world |-> "network", network |-> "page",
               page |-> IF Viewport THEN "emulation" ELSE "initialized",
               emulation |-> "initialized"]

Stages == DOMAIN Chain
InitMethods == UNION {{Chain[g][i] : i \in 1..Len(Chain[g])} :
                      g \in Stages \ (IF Viewport THEN {} ELSE {"emulation"})}
Methods == UNION {{Chain[g][i] : i \in 1..Len(Chain[g])} : g \in Stages}

Target == [state : Stages \cup {"untracked", "attach", "initialized", "closing"},
           cmds : Seq(Methods), waiting : Methods \cup {NoCommand},
           session : Sessions \cup {NoSession}, page : Sessions \cup {NoSession},
           initiator : Callers \cup {NoCaller},
           main : {"unknown", "loading", "loaded"}]

NewTarget == [state |-> "attach", cmds |-> <<>>, waiting |-> NoCommand,
              session |-> NoSession, page |-> NoSession, initiator |-> NoCaller,
              main |-> "unknown"]

\* An id that is not a key of Handler.targets.
NoTarget == [NewTarget EXCEPT !.state = "untracked"]

\* A command in flight.  kind: create, getTargets, attach, init, close.
Cmd(kind, t, s, m) == [id |-> next_id, kind |-> kind, tab |-> t, session |-> s,
                       method |-> m]

\* The Handler's record of it: who is waiting, and for which target.
Pending(kind, t, m, c) == [id |-> next_id, kind |-> kind, tab |-> t, method |-> m,
                           caller |-> c]

Response(id, ok, t, list) == [type |-> "response", id |-> id, ok |-> ok, tab |-> t,
                              session |-> NoSession, list |-> list]
Event(type, t, s) == [type |-> type, id |-> 0, ok |-> TRUE, tab |-> t, session |-> s,
                      list |-> <<>>]

Tracked(t) == targets[t].state # "untracked"

\* Mutant: the id is not used up.
SubmitSameId(cmd, p) ==
  /\ outbox' = Append(outbox, cmd)
  /\ pending' = pending \cup {p}
  /\ next_id' = next_id

\* Sending a command and remembering it.
Submit(cmd, p) ==
  /\ outbox' = Append(outbox, cmd)
  /\ pending' = pending \cup {p}
  /\ next_id' = next_id + 1

\* A oneshot sender is used on a caller that may no longer listen.
Deliver(c, r) ==
  outcome' = IF c # NoCaller /\ outcome[c] = "waiting"
               THEN [outcome EXCEPT ![c] = r]
               ELSE outcome

-----------------------------------------------------------------------------
(* Messages of the Browser handle *)

\* Handler::create_page; an invalid url is refused at once.
NewPage(c) ==
  /\ phase = "top" /\ outcome[c] = "idle"
  /\ \/ /\ outcome' = [outcome EXCEPT ![c] = "waiting"]
        /\ Submit(Cmd("create", NoTab, NoSession, NoCommand),
                  Pending("create", NoTab, NoCommand, c))
     \/ /\ outcome' = [outcome EXCEPT ![c] = "error"]
        /\ UNCHANGED <<outbox, pending, next_id>>
  /\ UNCHANGED <<targets, target_ids, sessions, loopVars, inbox, browserVars,
                 fetches>>

\* Handler::submit_fetch_targets.
FetchTargets ==
  /\ phase = "top" /\ fetches < MaxFetches
  /\ fetches' = fetches + 1
  /\ Submit(Cmd("getTargets", NoTab, NoSession, NoCommand),
            Pending("getTargets", NoTab, NoCommand, NoCaller))
  /\ UNCHANGED <<outcome, targets, target_ids, sessions, loopVars, inbox,
                 browserVars>>

\* Target::create_page.
WithPage(target) ==
  IF target.page = NoSession THEN [target EXCEPT !.page = target.session] ELSE target

\* HandlerMessage::GetPage, HandlerMessage::GetPages.
GetPage(t) ==
  /\ phase = "top" /\ Tracked(t)
  /\ targets' = [targets EXCEPT ![t] = WithPage(@)]
  /\ UNCHANGED <<outcome, target_ids, sessions, pending, next_id, loopVars, outbox,
                 inbox, browserVars, fetches>>

BeginTargets ==
  /\ phase = "top"
  /\ phase' = "targets" /\ cursor' = Len(target_ids)
  /\ UNCHANGED <<handlerVars, outbox, inbox, browserVars, fetches>>

-----------------------------------------------------------------------------
(* Target::poll *)

\* The Handler is at target t in its loop over target_ids.
Polls(t) ==
  /\ phase = "targets" /\ cursor > 0
  /\ target_ids[cursor] = t /\ Tracked(t)

\* submit_internal_command of a request of target t.
Request(t, kind, s, m) ==
  Submit(Cmd(kind, t, s, m), Pending("internal", t, m, NoCaller))

\* The stage's commands have been answered, or the target is only starting: the
\* next stage's chain is created.
Enter(target, g) ==
  [target EXCEPT !.state = g,
                 !.cmds = IF g \in Stages THEN Chain[g] ELSE <<>>,
                 !.waiting = NoCommand]

\* TargetInit::AttachToTarget.
Attach(t) ==
  /\ Polls(t) /\ targets[t].state = "attach"
  /\ targets' = [targets EXCEPT ![t] = Enter(@, "frame")]
  /\ Request(t, "attach", NoSession, NoCommand)
  /\ UNCHANGED <<outcome, target_ids, sessions, loopVars, inbox, browserVars, fetches>>

\* The chain of target t may be polled: InitializingFrame waits for a session.
ChainRuns(t) ==
  /\ Polls(t) /\ targets[t].state \in Stages
  /\ targets[t].state \in {"frame", "world"} => targets[t].session # NoSession

\* CommandChain::poll: the next command of the stage.
SendNext(t) ==
  /\ ChainRuns(t) /\ targets[t].waiting = NoCommand /\ targets[t].cmds # <<>>
  /\ LET m == Head(targets[t].cmds) IN
       /\ targets' = [targets EXCEPT ![t].cmds = Tail(@), ![t].waiting = m]
       /\ Request(t, "init", targets[t].session, m)
  /\ UNCHANGED <<outcome, target_ids, sessions, loopVars, inbox, browserVars, fetches>>

\* The chain is done: the next stage.
Advance(t) ==
  /\ ChainRuns(t) /\ targets[t].waiting = NoCommand /\ targets[t].cmds = <<>>
  /\ targets' = [targets EXCEPT ![t] = Enter(@, AfterStage[@.state])]
  /\ UNCHANGED <<outcome, target_ids, sessions, pending, next_id, loopVars, outbox,
                 inbox, browserVars, fetches>>

\* Mutant: the initiator is dropped without a word.
ChainTimesOutSilently(t) ==
  /\ Deadlines /\ ChainRuns(t) /\ targets[t].waiting # NoCommand
  /\ targets' = [targets EXCEPT ![t] = [Enter(@, "closing") EXCEPT !.initiator = NoCaller]]
  /\ Request(t, "close", targets[t].session, NoCommand)
  /\ UNCHANGED <<outcome, target_ids, sessions, loopVars, inbox, browserVars, fetches>>

\* Target::on_initialization_failed: the command waited for exceeds its deadline.
ChainTimesOut(t) ==
  /\ Deadlines /\ ChainRuns(t) /\ targets[t].waiting # NoCommand
  /\ Deliver(targets[t].initiator, "timeout")
  /\ targets' = [targets EXCEPT ![t] = [Enter(@, "closing") EXCEPT !.initiator = NoCaller]]
  /\ Request(t, "close", targets[t].session, NoCommand)
  /\ UNCHANGED <<target_ids, sessions, loopVars, inbox, browserVars, fetches>>

\* Mutant: the initiator gets its page before the main frame has loaded.
ReadyBeforeLoad(target) ==
  /\ target.state = "initialized" /\ target.initiator # NoCaller
  /\ WithPage(target).page # NoSession

\* TargetInit::Initialized: the initiator gets its page once the main frame has
\* loaded.
ReadyForInitiator(target) ==
  /\ target.state = "initialized" /\ target.initiator # NoCaller
  /\ target.main = "loaded" /\ WithPage(target).page # NoSession

HandOver(t) ==
  /\ Polls(t) /\ ReadyForInitiator(targets[t])
  /\ Deliver(targets[t].initiator, "page")
  /\ targets' = [targets EXCEPT ![t] = [WithPage(@) EXCEPT !.initiator = NoCaller]]
  /\ UNCHANGED <<target_ids, sessions, pending, next_id, loopVars, outbox, inbox,
                 browserVars, fetches>>

\* Target::poll returns None.
Idle(t) ==
  CASE targets[t].state = "attach" -> FALSE
    [] targets[t].state \in Stages -> ~ChainRuns(t) \/ targets[t].waiting # NoCommand
    [] targets[t].state = "initialized" -> ~ReadyForInitiator(targets[t])
    [] targets[t].state = "closing" -> TRUE

\* Mutant: a target that is put back is not listed again.
NextTargetForgets ==
  /\ phase = "targets" /\ cursor > 0
  /\ Tracked(target_ids[cursor]) => Idle(target_ids[cursor])
  /\ target_ids' = SwapRemove(target_ids, cursor)
  /\ cursor' = cursor - 1
  /\ UNCHANGED <<outcome, targets, sessions, pending, next_id, phase, outbox, inbox,
                 browserVars, fetches>>

\* The target is put back into the table and at the end of target_ids; an id that
\* is no longer tracked is dropped.
NextTarget ==
  /\ phase = "targets" /\ cursor > 0
  /\ LET t == target_ids[cursor] IN
       \/ /\ Tracked(t) /\ Idle(t)
          /\ target_ids' = Append(SwapRemove(target_ids, cursor), t)
       \/ /\ ~Tracked(t)
          /\ target_ids' = SwapRemove(target_ids, cursor)
  /\ cursor' = cursor - 1
  /\ UNCHANGED <<outcome, targets, sessions, pending, next_id, phase, outbox, inbox,
                 browserVars, fetches>>

EndTargets ==
  /\ phase = "targets" /\ cursor = 0
  /\ phase' = "conn"
  /\ UNCHANGED <<handlerVars, cursor, outbox, inbox, browserVars, fetches>>

-----------------------------------------------------------------------------
(* Websocket messages *)

\* The next message is m.
Reads(m) ==
  /\ phase = "conn" /\ inbox # <<>> /\ m = Head(inbox)
  /\ inbox' = Tail(inbox)
  /\ UNCHANGED <<loopVars, browserVars, fetches>>

\* The callers whose sender goes away with the targets of the set S.
Dropped(S) == {targets[t].initiator : t \in {u \in S : Tracked(u)}}

Cancel(S) ==
  outcome' = [c \in Callers |-> IF c \in Dropped(S) /\ outcome[c] = "waiting"
                                  THEN "canceled" ELSE outcome[c]]

\* Handler::on_target_created; a target already tracked is replaced.
OnTargetCreated(m) ==
  /\ m.type = "targetCreated"
  /\ Cancel({m.tab})
  /\ targets' = [targets EXCEPT ![m.tab] = NewTarget]
  /\ target_ids' = Append(target_ids, m.tab)
  /\ UNCHANGED <<sessions, pending, next_id, outbox>>

\* Handler::on_attached_to_target.
OnAttached(m) ==
  /\ m.type = "attached"
  /\ sessions' = [sessions EXCEPT ![m.session] = m.tab]
  /\ targets' = IF Tracked(m.tab) THEN [targets EXCEPT ![m.tab].session = m.session]
                                  ELSE targets
  /\ UNCHANGED <<outcome, target_ids, pending, next_id, outbox>>

\* Handler::on_detached_from_target clears the target's session whichever session
\* of it is detached.
OnDetached(m) ==
  /\ m.type = "detached"
  /\ LET t == sessions[m.session] IN
       /\ sessions' = [sessions EXCEPT ![m.session] = NoTab]
       /\ targets' = IF t # NoTab /\ Tracked(t)
                       THEN [targets EXCEPT ![t].session = NoSession] ELSE targets
  /\ UNCHANGED <<outcome, target_ids, pending, next_id, outbox>>

\* Handler::on_target_destroyed.
OnDestroyed(m) ==
  /\ m.type = "destroyed"
  /\ Cancel({m.tab})
  /\ LET gone == {targets[t].session : t \in {u \in {m.tab} : Tracked(u)}} IN
       sessions' = [s \in Sessions |-> IF s \in gone THEN NoTab ELSE sessions[s]]
  /\ targets' = [targets EXCEPT ![m.tab] = NoTarget]
  /\ UNCHANGED <<target_ids, pending, next_id, outbox>>

\* Mutant: the report is taken only once the target is initialized.
OnLoadedWhenInitialized(m) ==
  /\ m.type = "loaded"
  /\ LET t == sessions[m.session] IN
       targets' = IF t # NoTab /\ Tracked(t) /\ targets[t].state = "initialized"
                    THEN [targets EXCEPT ![t].main = "loaded"] ELSE targets
  /\ UNCHANGED <<outcome, target_ids, sessions, pending, next_id, outbox>>

\* Page.lifecycleEvent for the main frame, routed by its session.
OnLoaded(m) ==
  /\ m.type = "loaded"
  /\ LET t == sessions[m.session] IN
       targets' = IF t # NoTab /\ Tracked(t) /\ targets[t].main # "unknown"
                    THEN [targets EXCEPT ![t].main = "loaded"] ELSE targets
  /\ UNCHANGED <<outcome, target_ids, sessions, pending, next_id, outbox>>

\* Handler::on_response, Target.createTarget.  The Handler would panic if the created
\* target were unknown; the browser reports a target before it answers.
OnCreateResponse(m, p) ==
  /\ p.kind = "create"
  /\ \/ /\ m.ok /\ Tracked(m.tab)
        /\ targets' = [targets EXCEPT ![m.tab].initiator = p.caller]
        /\ UNCHANGED outcome
     \/ /\ ~m.ok
        /\ Deliver(p.caller, "error")
        /\ UNCHANGED targets
  /\ UNCHANGED <<target_ids, next_id, outbox>>

\* Handler::on_response, Target.getTargets: every target listed is tracked anew,
\* and attached to by a command nobody waits for.
OnGetTargetsResponse(m, p) ==
  /\ p.kind = "getTargets"
  /\ LET listed == {m.list[i] : i \in 1..Len(m.list)} IN
       /\ Cancel(listed)
       /\ targets' = [t \in Tabs |-> IF t \in listed THEN NewTarget ELSE targets[t]]
  /\ target_ids' = target_ids \o m.list
  /\ outbox' = outbox \o [i \in 1..Len(m.list) |->
                           [Cmd("attach", m.list[i], NoSession, NoCommand)
                              EXCEPT !.id = next_id + i - 1]]
  /\ next_id' = next_id + Len(m.list)

\* Mutant: the chain goes on whatever was answered.
AnsweredByAny(target, m, ok) ==
  [target EXCEPT
     !.waiting = IF target.state \in Stages THEN NoCommand ELSE @,
     !.main = IF m = "getFrameTree" /\ ok /\ @ = "unknown" THEN "loading" ELSE @]

\* Target::on_response: the chain goes on if it waited for this method, whether
\* the browser obeyed or not; the frame tree tells the main frame.
Answered(target, m, ok) ==
  [target EXCEPT
     !.waiting = IF target.state \in Stages /\ @ = m THEN NoCommand ELSE @,
     !.main = IF m = "getFrameTree" /\ ok /\ @ = "unknown" THEN "loading" ELSE @]

OnInternalResponse(m, p) ==
  /\ p.kind = "internal"
  /\ targets' = IF Tracked(p.tab)
                  THEN [targets EXCEPT ![p.tab] = Answered(@, p.method, m.ok)]
                  ELSE targets
  /\ UNCHANGED <<outcome, target_ids, next_id, outbox>>

OnResponse(m) ==
  /\ m.type = "response"
  /\ \/ \E p \in pending :
          /\ p.id = m.id
          /\ pending' = pending \ {p}
          /\ \/ OnCreateResponse(m, p)
             \/ OnGetTargetsResponse(m, p)
             \/ OnInternalResponse(m, p)
     \/ /\ \A p \in pending : p.id # m.id
        /\ UNCHANGED <<outcome, targets, target_ids, pending, next_id, outbox>>
  /\ UNCHANGED sessions

ReadMessage ==
  \E m \in {inbox[i] : i \in 1..Len(inbox)} :
    /\ Reads(m)
    /\ \/ OnTargetCreated(m) \/ OnAttached(m) \/ OnDetached(m) \/ OnDestroyed(m)
       \/ OnLoaded(m) \/ OnResponse(m)

\* Handler::evict_timed_out_commands removes the commands of the set late, and the
\* loop starts again, at once or when the Handler is woken.  What has arrived is read
\* before.
EndPass ==
  /\ phase = "conn" /\ inbox = <<>>
  /\ phase' = "top"
  /\ \E late \in IF Deadlines THEN SUBSET pending ELSE {{}} :
       LET callers == {p.caller : p \in late} IN
         /\ pending' = pending \ late
         /\ outcome' = [c \in Callers |-> IF c \in callers /\ outcome[c] = "waiting"
                                            THEN "timeout" ELSE outcome[c]]
  /\ UNCHANGED <<targets, target_ids, sessions, next_id, cursor, outbox, inbox,
                 browserVars, fetches>>

-----------------------------------------------------------------------------
(* The browser *)

\* The next command the browser takes, when it is of this kind.
Served(kind) ==
  {cmd \in {outbox[i] : i \in 1..Len(outbox)} : cmd = Head(outbox) /\ cmd.kind = kind}

\* The browser is done with the command and sends the messages of answer.
Answers(answer) ==
  /\ outbox' = Tail(outbox)
  /\ inbox' = inbox \o answer
  /\ UNCHANGED <<handlerVars, loopVars, fetches>>

Obeyed(cmd) == Response(cmd.id, TRUE, NoTab, <<>>)
Refused(cmd) == Response(cmd.id, FALSE, NoTab, <<>>)

Alive(t) == tab[t] \in {"open", "closing"}

\* A command sent in a session that has been detached is refused.
Lost(s) == s # NoSession /\ attached[s] \notin Tabs

\* The tab is reported before it is the answer.
BrowserCreates ==
  /\ \E cmd \in Served("create") :
       \/ \E t \in Tabs :
            /\ tab[t] = "free"
            /\ tab' = [tab EXCEPT ![t] = "open"]
            /\ Answers(<<Event("targetCreated", t, NoSession),
                         Response(cmd.id, TRUE, t, <<>>)>>)
       \/ Answers(<<Refused(cmd)>>) /\ UNCHANGED tab
  /\ UNCHANGED <<loaded, attached, watching, detaches, ran, severed>>

BrowserLists ==
  \E cmd \in Served("getTargets") :
    LET known == {t \in Tabs : Alive(t)} IN
      \E list \in [1..Cardinality(known) -> known] :
        /\ {list[i] : i \in DOMAIN list} = known
        /\ Answers(<<Response(cmd.id, TRUE, NoTab, list)>>)
        /\ UNCHANGED browserVars

\* The browser may refuse, whatever the tab.
BrowserAttaches ==
  /\ \E cmd \in Served("attach") :
       \/ \E s \in Sessions :
            /\ Alive(cmd.tab) /\ attached[s] = "unused"
            /\ attached' = [attached EXCEPT ![s] = cmd.tab]
            /\ Answers(<<Event("attached", cmd.tab, s), Obeyed(cmd)>>)
       \/ Answers(<<Refused(cmd)>>) /\ UNCHANGED attached
  /\ UNCHANGED <<tab, loaded, watching, detaches, ran, severed>>

\* A command of a stage goes to a session; once lifecycle events are enabled the
\* session is owed the report of the load, past or future.
BrowserRuns ==
  /\ \E cmd \in Served("init") :
       \/ /\ cmd.session # NoSession /\ ~Lost(cmd.session)
          /\ ran' = [ran EXCEPT ![cmd.session] = @ \cup {cmd.method}]
          /\ watching' = IF cmd.method = "setLifecycleEventsEnabled"
                           THEN watching \cup {cmd.session} ELSE watching
          /\ Answers(<<Obeyed(cmd)>>)
       \/ /\ cmd.session = NoSession \/ Lost(cmd.session)
          /\ Answers(<<Refused(cmd)>>)
          /\ UNCHANGED <<ran, watching>>
  /\ UNCHANGED <<tab, loaded, attached, detaches, severed>>

BrowserCloses ==
  /\ \E cmd \in Served("close") :
       \/ /\ Alive(cmd.tab) /\ ~Lost(cmd.session)
          /\ tab' = [tab EXCEPT ![cmd.tab] = "closing"]
          /\ Answers(<<Obeyed(cmd)>>)
       \/ /\ ~Alive(cmd.tab) \/ Lost(cmd.session)
          /\ Answers(<<Refused(cmd)>>)
          /\ UNCHANGED tab
  /\ UNCHANGED <<loaded, attached, watching, detaches, ran, severed>>

BrowserServes ==
  BrowserCreates \/ BrowserLists \/ BrowserAttaches \/ BrowserRuns \/ BrowserCloses

\* The browser does something by itself, and sends the messages of report.
Reports(report) ==
  /\ inbox' = inbox \o report
  /\ UNCHANGED <<handlerVars, loopVars, outbox, fetches>>

BrowserLoads(t) ==
  /\ tab[t] = "open" /\ t \notin loaded
  /\ loaded' = loaded \cup {t}
  /\ Reports(<<>>)
  /\ UNCHANGED <<tab, attached, watching, detaches, ran, severed>>

BrowserReportsLoad(s) ==
  /\ s \in watching /\ attached[s] \in loaded
  /\ watching' = watching \ {s}
  /\ Reports(<<Event("loaded", NoTab, s)>>)
  /\ UNCHANGED <<tab, loaded, attached, detaches, ran, severed>>

BrowserClosesTab(t) ==
  /\ MayClose /\ tab[t] = "open"
  /\ tab' = [tab EXCEPT ![t] = "closing"]
  /\ Reports(<<>>)
  /\ UNCHANGED <<loaded, attached, watching, detaches, ran, severed>>

\* Another client, or the end of the tab, detaches a session.
BrowserDetaches(s) ==
  /\ attached[s] \in Tabs
  /\ \/ /\ tab[attached[s]] = "open" /\ detaches < MaxDetaches
        /\ detaches' = detaches + 1
        /\ severed' = severed \cup {attached[s]}
     \/ /\ tab[attached[s]] = "closing"
        /\ UNCHANGED <<detaches, severed>>
  /\ attached' = [attached EXCEPT ![s] = "gone"]
  /\ watching' = watching \ {s}
  /\ Reports(<<Event("detached", NoTab, s)>>)
  /\ UNCHANGED <<tab, loaded, ran>>

BrowserDestroys(t) ==
  /\ tab[t] = "closing" /\ \A s \in Sessions : attached[s] # t
  /\ tab' = [tab EXCEPT ![t] = "gone"]
  /\ Reports(<<Event("destroyed", t, NoSession)>>)
  /\ UNCHANGED <<loaded, attached, watching, detaches, ran, severed>>

-----------------------------------------------------------------------------
(* The specification *)

Init ==
  /\ outcome = [c \in Callers |-> "idle"]
  /\ targets = [t \in Tabs |-> NoTarget] /\ target_ids = <<>>
  /\ sessions = [s \in Sessions |-> NoTab]
  /\ pending = {} /\ next_id = 1
  /\ phase = "top" /\ cursor = 0
  /\ outbox = <<>> /\ inbox = <<>>
  /\ tab = [t \in Tabs |-> IF t \in OpenAtStart THEN "open" ELSE "free"]
  /\ loaded = {} /\ attached = [s \in Sessions |-> "unused"] /\ watching = {}
  /\ fetches = 0 /\ detaches = 0
  /\ ran = [s \in Sessions |-> {}] /\ severed = {}

PollStep(t) == Attach(t) \/ SendNext(t) \/ Advance(t) \/ HandOver(t)

HandlerStep ==
  \/ BeginTargets \/ NextTarget \/ EndTargets \/ EndPass
  \/ \E t \in Tabs : PollStep(t)

\* What the browser does for its part, whatever anyone asks of it; a document need not
\* end to load.
BrowserGoesOn ==
  \/ \E t \in Tabs : BrowserDestroys(t)
  \/ \E s \in Sessions : BrowserReportsLoad(s)
  \/ \E s \in Sessions : attached[s] \in Tabs /\ tab[attached[s]] = "closing"
                           /\ BrowserDetaches(s)

Next ==
  \/ \E c \in Callers : NewPage(c)
  \/ FetchTargets
  \/ \E t \in Tabs : GetPage(t)
  \/ HandlerStep
  \/ \E t \in Tabs : ChainTimesOut(t)
  \/ ReadMessage
  \/ BrowserServes
  \/ \E t \in Tabs : BrowserLoads(t) \/ BrowserClosesTab(t) \/ BrowserDestroys(t)
  \/ \E s \in Sessions : BrowserReportsLoad(s) \/ BrowserDetaches(s)

Spec == Init /\ [][Next]_vars

\* A turn of the Handler that has begun is gone through, and what arrived is read;
\* whether another turn begins is left to PolledOn.  A command that is never answered is
\* past its deadline at some poll; the browser serves commands, reports a load and
\* finishes what it closes.
Fairness ==
  /\ WF_vars(BeginTargets \/ NextTarget \/ EndTargets \/ (\E t \in Tabs : PollStep(t)))
  /\ WF_vars(ReadMessage)
  /\ \A t \in Tabs : SF_vars(ChainTimesOut(t))
  /\ WF_vars(BrowserServes) /\ WF_vars(BrowserGoesOn)

FairSpec == Spec /\ Fairness

-----------------------------------------------------------------------------
(* Properties *)

Outcomes == {"idle", "waiting", "page", "error", "timeout", "canceled"}

\* The variables keep their types, and the ids of pending commands are unique and
\* older than the next one.
TypeOK ==
  /\ outcome \in [Callers -> Outcomes]
  /\ targets \in [Tabs -> Target]
  /\ target_ids \in Seq(Tabs)
  /\ sessions \in [Sessions -> Tabs \cup {NoTab}]
  /\ phase \in {"top", "targets", "conn"} /\ cursor \in 0..Len(target_ids)
  /\ next_id \in Nat /\ \A p \in pending : p.id < next_id
  /\ \A p, q \in pending : p.id = q.id => p = q
  /\ fetches \in 0..MaxFetches /\ detaches \in 0..MaxDetaches

\* Nobody awaits new_page in vain: while the caller waits, its sender is in the
\* table of pending commands or is the initiator of a tracked target, and in one
\* such place only.
CallersAreHeld ==
  \A c \in Callers : outcome[c] = "waiting" =>
    Cardinality({p \in pending : p.caller = c}
                \cup {t \in Tabs : Tracked(t) /\ targets[t].initiator = c}) = 1

\* Events of a target's session find it: the session a tracked target uses is in
\* Handler.sessions, under that target.
SessionsAgree ==
  \A t \in Tabs : Tracked(t) /\ targets[t].session # NoSession =>
    sessions[targets[t].session] = t

\* Every tracked target is polled in each pass of the Handler's loop, however often
\* the loop has rotated target_ids and whatever was fetched or destroyed meanwhile.
TrackedArePolled == \A t \in Tabs : Tracked(t) => Holds(target_ids, t)

\* A target that fetch_targets has replaced is served as before: it is polled, its
\* caller is held or canceled, and its session is known to the Handler.
TrackedAreServed == TrackedArePolled /\ CallersAreHeld /\ SessionsAgree

SessionsOf(t) == {s \in Sessions : attached[s] = t}
HasRun(t) == UNION {ran[s] : s \in SessionsOf(t)}

\* A target counts as initialized only when the browser has run every command of
\* every stage in its tab: in the session the target uses, if the tab has no other.  A
\* target that replaced another may count answers to the commands of its predecessor,
\* but none to commands that were not obeyed.  A tab that lost a session is exempt.
InitializedIsSetUp ==
  \A t \in Tabs :
    Tracked(t) /\ targets[t].state = "initialized" /\ tab[t] = "open" /\ t \notin severed
    => targets[t].session \in SessionsOf(t) /\ InitMethods \subseteq HasRun(t)

\* new_page gives a caller the page of a tab whose document has loaded and, unless the
\* tab is closing or lost a session, in which every command of every stage has run: the
\* report of another tab's session, or of a session from before, does not count.
PagesAreReady ==
  [][ \A c \in Callers : outcome[c] # "page" /\ outcome'[c] = "page" =>
        \E t \in loaded :
          /\ targets[t].initiator = c
          /\ tab[t] # "open" \/ t \in severed \/ InitMethods \subseteq HasRun(t) ]_vars

\* Target t waits for the browser, without a deadline: for a session, when the attach
\* was refused or the session taken away; or for the load of its document, when that
\* does not end or its session was taken away before the report.
LeftByBrowser(t) ==
  \/ /\ targets[t].state \in {"frame", "world"} /\ targets[t].session = NoSession
     /\ \A s \in Sessions : attached[s] # t
  \/ targets[t].state = "initialized" /\ (t \notin loaded \/ t \in severed)

\* The Handler's task is woken again and again; its own clock does not see to that
\* (HandlerTask).
PolledOn == []<><<EndPass>>_vars

\* new_page comes to an end, with a page or an error, unless its target is one the
\* browser leaves alone for good: whatever else the browser refuses or closes, and
\* whatever fetch_targets replaces meanwhile.
NewPageResolves ==
  PolledOn =>
    \A c \in Callers :
      outcome[c] = "waiting" ~>
        \/ outcome[c] # "waiting"
        \/ [](\E t \in Tabs : targets[t].initiator = c /\ LeftByBrowser(t))

\* There can be several sessions of one target: that one of them is detached concerns
\* the target only if it is the one it uses (Handler::on_detached_from_target).
DetachedSessionOnly ==
  [][ (phase = "conn" /\ inbox # <<>> /\ Head(inbox).type = "detached")
      => \A t \in Tabs : targets'[t] # targets[t]
           => targets[t].session = Head(inbox).session ]_<<inbox, targets>>

=============================================================================
