--------------------------- MODULE TargetsProofs ---------------------------
(***************************************************************************)
(* Targets serves every tracked target and every caller, for every set of  *)
(* callers, tabs and sessions.                                             *)
(*                                                                         *)
(* What the invariant adds is about what is on its way: a session is       *)
(* announced once and before it is used, a tab is the answer to one        *)
(* createTarget only, and nobody but its own answer can take a caller out  *)
(* of the table.                                                           *)
(*                                                                         *)
(* That an initialized target is set up needs more (SInv): every command   *)
(* of a chain on its way for a tab that lost no session was sent in one of *)
(* them, and what an answer on its way answers was run in one of them, so  *)
(* that it was run even if the target that asked has been replaced.        *)
(*                                                                         *)
(* That a page is handed over ready needs that a report of a load speaks   *)
(* of the tab its session was announced for (LoadsReported).               *)
(***************************************************************************)
EXTENDS Targets, TLAPS, FiniteSetTheorems

Command ==
  [id : Nat, kind : {"create", "getTargets"}, tab : {NoTab}, session : {NoSession},
   method : {NoCommand}]
  \cup [id : Nat, kind : {"attach", "init", "close"}, tab : Tabs,
        session : Sessions \cup {NoSession}, method : Methods \cup {NoCommand}]

Answer ==
  [type : {"response"}, id : Nat, ok : BOOLEAN, tab : Tabs \cup {NoTab},
   session : {NoSession}, list : Seq(Tabs)]
TabEvent == [type : {"targetCreated", "destroyed"}, id : Nat, ok : {TRUE}, tab : Tabs,
             session : {NoSession}, list : Seq(Tabs)]
AttachEvent == [type : {"attached"}, id : Nat, ok : {TRUE}, tab : Tabs, session : Sessions,
                list : Seq(Tabs)]
SessionEvent == [type : {"detached", "loaded"}, id : Nat, ok : {TRUE}, tab : {NoTab},
                 session : Sessions, list : Seq(Tabs)]
Message == Answer \cup TabEvent \cup AttachEvent \cup SessionEvent

PendingRecord ==
  [id : Nat, kind : {"create"}, tab : {NoTab}, method : {NoCommand}, caller : Callers]
  \cup [id : Nat, kind : {"getTargets"}, tab : {NoTab}, method : {NoCommand},
        caller : {NoCaller}]
  \cup [id : Nat, kind : {"internal"}, tab : Tabs, method : Methods \cup {NoCommand},
        caller : {NoCaller}]

\* What is on its way, and what the browser knows.
ChannelsOK ==
  /\ outbox \in Seq(Command) /\ inbox \in Seq(Message) /\ pending \subseteq PendingRecord
  /\ attached \in [Sessions -> Tabs \cup {"unused", "gone"}]
  /\ tab \in [Tabs -> {"free", "open", "closing", "gone"}]

\* The answer to createTarget is the answer to a createTarget: of a command on its way
\* when the table is ps and the next id n, and of a message.
OutFits(cmd, ps, n) ==
  cmd.id < n /\ \A p \in ps : p.id = cmd.id /\ p.kind = "create" => cmd.kind = "create"
InFits(m, ps, n) ==
  m.type = "response" =>
    /\ m.id < n
    /\ \A p \in ps : p.id = m.id /\ p.kind = "create" /\ m.ok => m.tab \in Tabs
AnswersMatch ==
  /\ \A i \in 1..Len(outbox) : OutFits(outbox[i], pending, next_id)
  /\ \A i \in 1..Len(inbox) : InFits(inbox[i], pending, next_id)

\* A session is announced once, and unknown before.
Announces(m) == m.type = "attached"
SessionsAreNew ==
  /\ \A i \in 1..Len(inbox) : Announces(inbox[i]) =>
       sessions[inbox[i].session] = NoTab /\ attached[inbox[i].session] # "unused"
  /\ \A i, j \in 1..Len(inbox) :
       Announces(inbox[i]) /\ Announces(inbox[j]) /\ inbox[i].session = inbox[j].session => i = j
  /\ \A s \in Sessions : attached[s] = "unused" => sessions[s] = NoTab

\* A caller's sender is in one place while it waits, and nowhere else.
OnePlace ==
  /\ \A p, q \in pending : p.caller \in Callers /\ p.caller = q.caller => p = q
  /\ \A t, u \in Tabs : targets[t].initiator \in Callers
                        /\ targets[t].initiator = targets[u].initiator => t = u
  /\ \A p \in pending, t \in Tabs : p.caller \in Callers => p.caller # targets[t].initiator
  /\ \A c \in Callers :
       outcome[c] = "waiting" <=> \/ \E p \in pending : p.caller = c
                                  \/ \E t \in Tabs : targets[t].initiator = c
  /\ \A t \in Tabs : targets[t].initiator \in Callers => Tracked(t)

\* A tab is the answer to one createTarget, and owes nobody its page before.
Creates(m) == m.type = "response" /\ m.ok /\ m.tab \in Tabs
TabsAreNew ==
  /\ \A i \in 1..Len(inbox) : Creates(inbox[i]) =>
       targets[inbox[i].tab].initiator = NoCaller /\ tab[inbox[i].tab] # "free"
  /\ \A i, j \in 1..Len(inbox) :
       Creates(inbox[i]) /\ Creates(inbox[j]) /\ inbox[i].tab = inbox[j].tab => i = j
  /\ \A t \in Tabs : tab[t] = "free" => targets[t].initiator = NoCaller

TypesOK == TypeOK /\ ChannelsOK

-----------------------------------------------------------------------------
(* Targets *)

States == Stages \cup {"untracked", "attach", "initialized", "closing"}

LEMMA StagesAre == Stages = {"frame", "world", "network", "page", "emulation"}
BY DEF Stages, Chain

LEMMA ChainType == ASSUME NEW g \in Stages PROVE Chain[g] \in Seq(Methods)
<1>1. \A i \in 1..Len(Chain[g]) : Chain[g][i] \in Methods
  BY DEF Methods
<1>2. \E n \in Nat : Len(Chain[g]) = n /\ DOMAIN Chain[g] = 1..n /\ Chain[g] = [i \in 1..n |-> Chain[g][i]]
  BY StagesAre DEF Chain
<1> QED BY <1>1, <1>2

LEMMA NewTargetType == NewTarget \in Target /\ NoTarget \in Target
<1>1. <<>> \in Seq(Methods)
  OBVIOUS
<1>2. NewTarget \in Target
  BY <1>1 DEF NewTarget, Target
<1>3. [NewTarget EXCEPT !.state = "untracked"] \in Target
  BY <1>2 DEF Target
<1> QED BY <1>2, <1>3 DEF NoTarget

LEMMA EnterFacts ==
  ASSUME NEW target \in Target, NEW g \in States
  PROVE /\ Enter(target, g) \in Target /\ Enter(target, g).state = g
        /\ Enter(target, g).initiator = target.initiator
        /\ Enter(target, g).session = target.session
<1>1. (IF g \in Stages THEN Chain[g] ELSE <<>>) \in Seq(Methods)
  BY ChainType
<1> DEFINE cs == IF g \in Stages THEN Chain[g] ELSE <<>>
<1>2. Enter(target, g) = [target EXCEPT !.state = g, !.cmds = cs, !.waiting = NoCommand]
  BY DEF Enter
<1>3. cs \in Seq(Methods)
  BY <1>1
<1> HIDE DEF cs
<1> QED BY <1>2, <1>3 DEF Target, States

LEMMA AfterStageType ==
  ASSUME NEW g \in Stages PROVE AfterStage[g] \in States \ {"untracked"}
BY StagesAre DEF AfterStage, States

LEMMA WithPageFacts ==
  ASSUME NEW target \in Target
  PROVE /\ WithPage(target) \in Target /\ WithPage(target).state = target.state
        /\ WithPage(target).initiator = target.initiator
        /\ WithPage(target).session = target.session
BY DEF WithPage, Target

\* A step after which the targets are tracked as before, with their initiators and
\* sessions.
TargetsKeep ==
  /\ targets' \in [Tabs -> Target]
  /\ \A t \in Tabs : /\ targets'[t].initiator = targets[t].initiator
                     /\ targets'[t].session = targets[t].session
                     /\ targets'[t].state = "untracked" <=> targets[t].state = "untracked"

LEMMA OneKeeps ==
  ASSUME targets \in [Tabs -> Target], NEW t \in Tabs, NEW new \in Target,
         new.initiator = targets[t].initiator, new.session = targets[t].session,
         new.state = "untracked" <=> targets[t].state = "untracked",
         targets' = [targets EXCEPT ![t] = new]
  PROVE TargetsKeep
BY DEF TargetsKeep

LEMMA TrackedState ==
  ASSUME targets \in [Tabs -> Target], NEW t \in Tabs
  PROVE targets[t] \in Target /\ targets[t].state \in States
BY DEF Target, States

\* GetPage, and what Target::poll does before a target has its page.
LEMMA GetPageKeeps ==
  ASSUME TypeOK, NEW t \in Tabs, GetPage(t) PROVE TargetsKeep
<1>1. targets \in [Tabs -> Target] /\ targets[t] \in Target
  BY DEF TypeOK
<1>2. targets' = [targets EXCEPT ![t] = WithPage(targets[t])]
  BY DEF GetPage
<1> QED BY <1>1, <1>2, WithPageFacts, OneKeeps

LEMMA EnterKeeps ==
  ASSUME TypeOK, NEW t \in Tabs, targets[t].state # "untracked", NEW g \in States \ {"untracked"},
         targets' = [targets EXCEPT ![t] = Enter(targets[t], g)]
  PROVE TargetsKeep
<1>1. targets \in [Tabs -> Target] /\ targets[t] \in Target
  BY DEF TypeOK
<1>2. /\ Enter(targets[t], g) \in Target /\ Enter(targets[t], g).state = g
      /\ Enter(targets[t], g).initiator = targets[t].initiator
      /\ Enter(targets[t], g).session = targets[t].session
  BY <1>1, EnterFacts
<1> QED BY <1>1, <1>2, OneKeeps

LEMMA AttachKeeps ==
  ASSUME TypeOK, NEW t \in Tabs, Attach(t) PROVE TargetsKeep
<1>1. "frame" \in States \ {"untracked"}
  BY StagesAre DEF States
<1>2. targets' = [targets EXCEPT ![t] = Enter(targets[t], "frame")] /\ targets[t].state # "untracked"
  BY DEF Attach, Polls, Tracked
<1> QED BY <1>1, <1>2, EnterKeeps

LEMMA AdvanceKeeps ==
  ASSUME TypeOK, NEW t \in Tabs, Advance(t) PROVE TargetsKeep
<1>1. targets[t].state \in Stages /\ targets[t].state # "untracked"
  BY DEF Advance, ChainRuns, Polls, Tracked
<1>2. AfterStage[targets[t].state] \in States \ {"untracked"}
  BY <1>1, AfterStageType
<1>3. targets' = [targets EXCEPT ![t] = Enter(targets[t], AfterStage[targets[t].state])]
  BY DEF Advance
<1> QED BY <1>1, <1>2, <1>3, EnterKeeps

LEMMA SendNextKeeps ==
  ASSUME TypeOK, NEW t \in Tabs, SendNext(t)
  PROVE TargetsKeep /\ Head(targets[t].cmds) \in Methods
<1>1. targets \in [Tabs -> Target] /\ targets[t] \in Target
  BY DEF TypeOK
<1>2. targets[t].cmds \in Seq(Methods) /\ targets[t].cmds # <<>>
  BY <1>1 DEF SendNext, Target
<1>3. Head(targets[t].cmds) \in Methods /\ Tail(targets[t].cmds) \in Seq(Methods)
  BY <1>2
<1> DEFINE new == [targets[t] EXCEPT !.cmds = Tail(targets[t].cmds),
                                     !.waiting = Head(targets[t].cmds)]
<1>4. new \in Target /\ new.initiator = targets[t].initiator
      /\ new.session = targets[t].session /\ new.state = targets[t].state
  BY <1>1, <1>3 DEF Target
<1>5. targets' = [targets EXCEPT ![t] = new]
  BY <1>1 DEF SendNext
<1> HIDE DEF new
<1> QED BY <1>1, <1>3, <1>4, <1>5, OneKeeps

LEMMA OnLoadedKeeps ==
  ASSUME TypeOK, NEW m, OnLoaded(m) PROVE TargetsKeep
<1>1. targets \in [Tabs -> Target]
  BY DEF TypeOK
<1> DEFINE t == sessions[m.session]
<1>2. CASE targets' = targets
  BY <1>1, <1>2 DEF TargetsKeep
<1>3. CASE t \in Tabs /\ targets' = [targets EXCEPT ![t].main = "loaded"]
  <2> HIDE DEF t
  <2> DEFINE new == [targets[t] EXCEPT !.main = "loaded"]
  <2>0. targets[t] \in Target
    BY <1>1, <1>3
  <2>1. new \in Target /\ new.initiator = targets[t].initiator
        /\ new.session = targets[t].session /\ new.state = targets[t].state
    BY <2>0 DEF Target
  <2>2. targets' = [targets EXCEPT ![t] = new]
    BY <1>3
  <2> HIDE DEF new
  <2> QED BY <1>1, <1>3, <2>1, <2>2, OneKeeps
<1>4. CASE t \notin Tabs /\ targets' = [targets EXCEPT ![t].main = "loaded"]
  <2>1. targets' = targets
    BY <1>1, <1>4
  <2> QED BY <1>1, <2>1 DEF TargetsKeep
<1> QED BY <1>2, <1>3, <1>4 DEF OnLoaded

LEMMA OnInternalResponseKeeps ==
  ASSUME TypeOK, NEW m, NEW p, p.tab \in Tabs, OnInternalResponse(m, p) PROVE TargetsKeep
<1>1. targets \in [Tabs -> Target] /\ targets[p.tab] \in Target
  BY DEF TypeOK
<1> DEFINE new == Answered(targets[p.tab], p.method, m.ok)
<1>2. new \in Target /\ new.initiator = targets[p.tab].initiator
      /\ new.session = targets[p.tab].session /\ new.state = targets[p.tab].state
  BY <1>1 DEF Target, Answered
<1> HIDE DEF new
<1>3. CASE targets' = targets
  BY <1>1, <1>3 DEF TargetsKeep
<1>4. CASE targets' = [targets EXCEPT ![p.tab] = new]
  BY <1>1, <1>2, <1>4, OneKeeps
<1> QED BY <1>3, <1>4 DEF OnInternalResponse, new

\* The other steps.  A session is announced or gone.
LEMMA SessionSet ==
  ASSUME targets \in [Tabs -> Target], NEW s \in Sessions \cup {NoSession}, NEW t,
         targets' = [targets EXCEPT ![t].session = s]
  PROVE /\ targets' \in [Tabs -> Target]
        /\ \A u \in Tabs : /\ targets'[u].initiator = targets[u].initiator
                           /\ targets'[u].state = targets[u].state
                           /\ targets'[u].session = IF u = t THEN s ELSE targets[u].session
<1>1. CASE t \in Tabs
  <2> DEFINE new == [targets[t] EXCEPT !.session = s]
  <2>1. targets[t] \in Target
    BY <1>1
  <2>2. new \in Target /\ new.initiator = targets[t].initiator
        /\ new.session = s /\ new.state = targets[t].state
    BY <2>1 DEF Target
  <2>3. targets' = [targets EXCEPT ![t] = new]
    OBVIOUS
  <2> HIDE DEF new
  <2> QED BY <1>1, <2>2, <2>3
<1>2. CASE t \notin Tabs
  <2>1. targets' = targets
    BY <1>2
  <2> QED BY <1>2, <2>1
<1> QED BY <1>1, <1>2

\* An initiator is set or taken.
LEMMA InitiatorSet ==
  ASSUME targets \in [Tabs -> Target], NEW t \in Tabs, NEW base \in Target,
         base.state \in States, base.session = targets[t].session,
         NEW c \in Callers \cup {NoCaller},
         targets' = [targets EXCEPT ![t] = [base EXCEPT !.initiator = c]]
  PROVE /\ targets' \in [Tabs -> Target]
        /\ targets'[t].state = base.state
        /\ \A u \in Tabs : /\ targets'[u].session = targets[u].session
                           /\ targets'[u].initiator = IF u = t THEN c ELSE targets[u].initiator
                           /\ u # t => targets'[u].state = targets[u].state
<1> DEFINE new == [base EXCEPT !.initiator = c]
<1>1. new \in Target /\ new.initiator = c /\ new.session = base.session /\ new.state = base.state
  BY DEF Target
<1> HIDE DEF new
<1>2. targets' = [targets EXCEPT ![t] = new]
  BY DEF new
<1> QED BY <1>1, <1>2

LEMMA HandOverTakes ==
  ASSUME TypeOK, NEW t \in Tabs, HandOver(t)
  PROVE /\ targets' \in [Tabs -> Target]
        /\ targets'[t].state # "untracked"
        /\ \A u \in Tabs :
             /\ targets'[u].session = targets[u].session
             /\ targets'[u].initiator = IF u = t THEN NoCaller ELSE targets[u].initiator
             /\ u # t => targets'[u].state = targets[u].state
<1>1. targets \in [Tabs -> Target] /\ targets[t] \in Target /\ targets[t].state \in States
  BY TrackedState DEF TypeOK
<1>2. targets[t].state # "untracked"
  BY DEF HandOver, Polls, Tracked
<1>3. targets' = [targets EXCEPT ![t] = [WithPage(targets[t]) EXCEPT !.initiator = NoCaller]]
  BY DEF HandOver
<1>4. /\ WithPage(targets[t]) \in Target /\ WithPage(targets[t]).state = targets[t].state
      /\ WithPage(targets[t]).session = targets[t].session
  BY <1>1, WithPageFacts
<1> QED BY <1>1, <1>2, <1>3, <1>4, InitiatorSet

LEMMA ChainTimesOutTakes ==
  ASSUME TypeOK, NEW t \in Tabs, ChainTimesOut(t)
  PROVE /\ targets' \in [Tabs -> Target]
        /\ targets'[t].state # "untracked"
        /\ \A u \in Tabs :
             /\ targets'[u].session = targets[u].session
             /\ targets'[u].initiator = IF u = t THEN NoCaller ELSE targets[u].initiator
             /\ u # t => targets'[u].state = targets[u].state
<1>1. targets \in [Tabs -> Target] /\ targets[t] \in Target
  BY DEF TypeOK
<1>2. "closing" \in States
  BY DEF States
<1>3. targets' = [targets EXCEPT ![t] = [Enter(targets[t], "closing") EXCEPT !.initiator = NoCaller]]
  BY DEF ChainTimesOut
<1>4. /\ Enter(targets[t], "closing") \in Target /\ Enter(targets[t], "closing").state = "closing"
      /\ Enter(targets[t], "closing").session = targets[t].session
  BY <1>1, <1>2, EnterFacts
<1> QED BY <1>1, <1>2, <1>3, <1>4, InitiatorSet

LEMMA OnCreateResponseSets ==
  ASSUME TypeOK, NEW m, NEW p, p.caller \in Callers, m.ok => m.tab \in Tabs,
         OnCreateResponse(m, p)
  PROVE \/ UNCHANGED targets /\ ~m.ok
        \/ /\ targets' \in [Tabs -> Target] /\ m.ok /\ Tracked(m.tab) /\ UNCHANGED outcome
           /\ \A u \in Tabs :
                /\ targets'[u].session = targets[u].session
                /\ targets'[u].initiator = IF u = m.tab THEN p.caller ELSE targets[u].initiator
                /\ targets'[u].state = targets[u].state
<1>1. CASE ~m.ok
  BY <1>1 DEF OnCreateResponse
<1>2. CASE m.ok
  <2>1. m.tab \in Tabs /\ targets \in [Tabs -> Target] /\ targets[m.tab] \in Target
        /\ targets[m.tab].state \in States
    BY <1>2, TrackedState DEF TypeOK
  <2>2. targets' = [targets EXCEPT ![m.tab] = [targets[m.tab] EXCEPT !.initiator = p.caller]]
    BY <1>2 DEF OnCreateResponse
  <2>3. Tracked(m.tab) /\ UNCHANGED outcome
    BY <1>2 DEF OnCreateResponse
  <2>4. p.caller \in Callers \cup {NoCaller}
    OBVIOUS
  <2>5. /\ targets' \in [Tabs -> Target] /\ targets'[m.tab].state = targets[m.tab].state
        /\ \A u \in Tabs :
             /\ targets'[u].session = targets[u].session
             /\ targets'[u].initiator = IF u = m.tab THEN p.caller ELSE targets[u].initiator
             /\ u # m.tab => targets'[u].state = targets[u].state
    BY <2>1, <2>2, <2>4, InitiatorSet
  <2> QED BY <1>2, <2>3, <2>5
<1> QED BY <1>1, <1>2

-----------------------------------------------------------------------------
(* Channels *)

\* The table of pending commands and the ids given out.
PendingOK ==
  /\ next_id \in Nat /\ pending \subseteq PendingRecord
  /\ \A p \in pending : p.id < next_id
  /\ \A p, q \in pending : p.id = q.id => p = q

LEMMA RecordTypes ==
  /\ \A p \in PendingRecord :
       /\ p.id \in Nat /\ p.kind \in {"create", "getTargets", "internal"}
       /\ p.kind = "create" <=> p.caller \in Callers
       /\ p.kind = "internal" => p.tab \in Tabs
  /\ \A cmd \in Command :
       /\ cmd.id \in Nat
       /\ cmd.kind \in {"attach", "init", "close"} => cmd.tab \in Tabs
       /\ cmd.session \in Sessions \cup {NoSession}
  /\ \A m \in Message :
       /\ m.id \in Nat /\ m.tab \in Tabs \cup {NoTab} /\ m.list \in Seq(Tabs)
       /\ m.type \in {"targetCreated", "attached", "destroyed"} => m.tab \in Tabs
       /\ m.type \in {"attached", "detached", "loaded"} => m.session \in Sessions
<1>1. \A p \in PendingRecord :
       /\ p.id \in Nat /\ p.kind \in {"create", "getTargets", "internal"}
       /\ p.kind = "create" <=> p.caller \in Callers
       /\ p.kind = "internal" => p.tab \in Tabs
  BY NullAssumption DEF PendingRecord
<1>2. \A cmd \in Command :
       /\ cmd.id \in Nat
       /\ cmd.kind \in {"attach", "init", "close"} => cmd.tab \in Tabs
       /\ cmd.session \in Sessions \cup {NoSession}
  BY DEF Command
<1>3. ASSUME NEW m \in Message
      PROVE /\ m.id \in Nat /\ m.tab \in Tabs \cup {NoTab} /\ m.list \in Seq(Tabs)
            /\ m.type \in {"targetCreated", "attached", "destroyed"} => m.tab \in Tabs
            /\ m.type \in {"attached", "detached", "loaded"} => m.session \in Sessions
  <2>1. CASE m \in Answer
    BY <2>1 DEF Answer
  <2>2. CASE m \in TabEvent
    BY <2>2 DEF TabEvent
  <2>3. CASE m \in AttachEvent
    BY <2>3 DEF AttachEvent
  <2>4. CASE m \in SessionEvent
    BY <2>4 DEF SessionEvent
  <2> QED BY <2>1, <2>2, <2>3, <2>4 DEF Message
<1> QED BY <1>1, <1>2, <1>3

LEMMA SubmitTypes ==
  ASSUME outbox \in Seq(Command), PendingOK, NEW cmd \in Command, NEW p \in PendingRecord,
         p.id = next_id, Submit(cmd, p)
  PROVE outbox' \in Seq(Command) /\ PendingOK'
<1>1. outbox' \in Seq(Command)
  BY DEF Submit
<1>2. next_id' = next_id + 1 /\ pending' = pending \cup {p} /\ next_id \in Nat
  BY DEF Submit, PendingOK
<1>3. \A q \in pending : q.id \in Nat /\ q.id < next_id
  BY RecordTypes DEF PendingOK
<1>4. \A q \in pending' : q.id < next_id'
  BY <1>2, <1>3
<1>5. \A q, r \in pending' : q.id = r.id => q = r
  BY <1>2, <1>3 DEF PendingOK
<1> QED BY <1>1, <1>2, <1>4, <1>5 DEF PendingOK

\* What Target::poll submits.
LEMMA RequestFacts ==
  ASSUME PendingOK, NEW t \in Tabs, NEW kind \in {"attach", "init", "close"},
         NEW s \in Sessions \cup {NoSession}, NEW m \in Methods \cup {NoCommand},
         Request(t, kind, s, m)
  PROVE \E cmd \in Command, p \in PendingRecord :
          /\ cmd.id = next_id /\ p.id = next_id /\ p.kind = "internal" /\ p.caller = NoCaller
          /\ Submit(cmd, p)
<1> DEFINE cmd == Cmd(kind, t, s, m)
           p == Pending("internal", t, m, NoCaller)
<1>1. next_id \in Nat
  BY DEF PendingOK
<1>2. cmd \in Command /\ cmd.id = next_id
  BY <1>1 DEF Cmd, Command
<1>3. p \in PendingRecord /\ p.id = next_id /\ p.kind = "internal" /\ p.caller = NoCaller
  BY <1>1 DEF Pending, PendingRecord
<1> QED BY <1>2, <1>3 DEF Request

LEMMA DeliverTypes ==
  ASSUME outcome \in [Callers -> Outcomes], NEW c, NEW r \in Outcomes, Deliver(c, r)
  PROVE outcome' \in [Callers -> Outcomes]
BY DEF Deliver

LEMMA CancelTypes ==
  ASSUME outcome \in [Callers -> Outcomes], NEW S, Cancel(S)
  PROVE outcome' \in [Callers -> Outcomes]
BY DEF Cancel, Outcomes

\* Messages and commands that are read.
LEMMA ReadsFacts ==
  ASSUME inbox \in Seq(Message), NEW m, Reads(m)
  PROVE /\ Len(inbox) \in Nat \ {0} /\ m = inbox[1] /\ m \in Message
        /\ inbox' \in Seq(Message) /\ Len(inbox') = Len(inbox) - 1
        /\ \A i \in 1..Len(inbox') : i + 1 \in 1..Len(inbox) /\ inbox'[i] = inbox[i + 1]
        /\ UNCHANGED <<phase, cursor, tab, loaded, attached, watching, detaches, fetches>>
BY DEF Reads, loopVars, browserVars

LEMMA ServedIsCommand ==
  ASSUME outbox \in Seq(Command), NEW kind, NEW cmd \in Served(kind)
  PROVE cmd \in Command /\ cmd.kind = kind /\ cmd.id \in Nat
        /\ Len(outbox) \in Nat \ {0} /\ cmd = outbox[1]
<1>1. outbox # <<>> /\ cmd = Head(outbox) /\ cmd.kind = kind
  BY DEF Served
<1>2. cmd \in Command /\ Len(outbox) \in Nat \ {0} /\ cmd = outbox[1]
  BY <1>1
<1> QED BY <1>1, <1>2, RecordTypes

LEMMA ResponseType ==
  ASSUME NEW id \in Nat, NEW ok \in BOOLEAN, NEW t \in Tabs \cup {NoTab}, NEW list \in Seq(Tabs)
  PROVE /\ Response(id, ok, t, list) \in Message
        /\ Response(id, ok, t, list).type = "response" /\ Response(id, ok, t, list).id = id
        /\ Response(id, ok, t, list).ok = ok /\ Response(id, ok, t, list).tab = t
BY DEF Response, Message, Answer

LEMMA EventType ==
  /\ \A t \in Tabs, type \in {"targetCreated", "destroyed"} :
       Event(type, t, NoSession) \in Message
  /\ \A t \in Tabs, s \in Sessions : Event("attached", t, s) \in Message
  /\ \A s \in Sessions, type \in {"detached", "loaded"} : Event(type, NoTab, s) \in Message
  /\ \A type, t, s : /\ Event(type, t, s).type = type /\ Event(type, t, s).session = s
                     /\ Event(type, t, s).tab = t
<1>1. <<>> \in Seq(Tabs)
  OBVIOUS
<1>2. \A t \in Tabs, type \in {"targetCreated", "destroyed"} :
        Event(type, t, NoSession) \in TabEvent
  BY <1>1 DEF Event, TabEvent
<1>3. \A t \in Tabs, s \in Sessions : Event("attached", t, s) \in AttachEvent
  BY <1>1 DEF Event, AttachEvent
<1>4. \A s \in Sessions, type \in {"detached", "loaded"} :
        Event(type, NoTab, s) \in SessionEvent
  BY <1>1 DEF Event, SessionEvent
<1>5. \A type, t, s : /\ Event(type, t, s).type = type /\ Event(type, t, s).session = s
                      /\ Event(type, t, s).tab = t
  BY DEF Event
<1> QED BY <1>2, <1>3, <1>4, <1>5 DEF Message

-----------------------------------------------------------------------------
(* Types *)

LEMMA TypesParts ==
  ASSUME TypesOK
  PROVE /\ outcome \in [Callers -> Outcomes] /\ targets \in [Tabs -> Target]
        /\ target_ids \in Seq(Tabs) /\ sessions \in [Sessions -> Tabs \cup {NoTab}]
        /\ phase \in {"top", "targets", "conn"} /\ cursor \in 0..Len(target_ids)
        /\ PendingOK /\ fetches \in 0..MaxFetches /\ detaches \in 0..MaxDetaches
        /\ outbox \in Seq(Command) /\ inbox \in Seq(Message)
        /\ attached \in [Sessions -> Tabs \cup {"unused", "gone"}]
        /\ tab \in [Tabs -> {"free", "open", "closing", "gone"}]
BY DEF TypesOK, TypeOK, ChannelsOK, PendingOK

LEMMA NewPageTypes ==
  ASSUME TypesOK, NEW c \in Callers, NewPage(c) PROVE TypesOK'
<1> USE TypesParts
<1>1. UNCHANGED <<targets, target_ids, sessions, phase, cursor, inbox, attached, tab,
                  detaches, fetches>>
  BY DEF NewPage, loopVars, browserVars
<1>2. outcome' \in [Callers -> Outcomes]
  BY DEF NewPage, Outcomes
<1>3. outbox' \in Seq(Command) /\ PendingOK'
  <2>1. CASE UNCHANGED <<outbox, pending, next_id>>
    BY <2>1 DEF PendingOK
  <2>2. CASE Submit(Cmd("create", NoTab, NoSession, NoCommand),
                    Pending("create", NoTab, NoCommand, c))
    <3>1. next_id \in Nat
      BY DEF PendingOK
    <3>2. Cmd("create", NoTab, NoSession, NoCommand) \in Command
      BY <3>1 DEF Cmd, Command
    <3>3. /\ Pending("create", NoTab, NoCommand, c) \in PendingRecord
          /\ Pending("create", NoTab, NoCommand, c).id = next_id
      BY <3>1 DEF Pending, PendingRecord
    <3> QED BY <2>2, <3>2, <3>3, SubmitTypes
  <2> QED BY <2>1, <2>2 DEF NewPage
<1>4. PendingOK' /\ outbox' \in Seq(Command) /\ outcome' \in [Callers -> Outcomes]
  BY <1>2, <1>3
<1> QED BY <1>1, <1>4 DEF TypesOK, TypeOK, ChannelsOK, PendingOK

LEMMA FetchTargetsTypes ==
  ASSUME TypesOK, FetchTargets PROVE TypesOK'
<1> USE TypesParts
<1>1. UNCHANGED <<outcome, targets, target_ids, sessions, phase, cursor, inbox, attached,
                  tab, detaches>>
  BY DEF FetchTargets, loopVars, browserVars
<1>2. fetches' \in 0..MaxFetches
  BY BoundsAssumption DEF FetchTargets
<1>3. next_id \in Nat
  BY DEF PendingOK
<1>4. Cmd("getTargets", NoTab, NoSession, NoCommand) \in Command
  BY <1>3 DEF Cmd, Command
<1>5. /\ Pending("getTargets", NoTab, NoCommand, NoCaller) \in PendingRecord
      /\ Pending("getTargets", NoTab, NoCommand, NoCaller).id = next_id
  BY <1>3 DEF Pending, PendingRecord
<1>6. PendingOK' /\ outbox' \in Seq(Command)
  BY <1>4, <1>5, SubmitTypes DEF FetchTargets
<1> QED BY <1>1, <1>2, <1>6 DEF TypesOK, TypeOK, ChannelsOK, PendingOK

LEMMA GetPageTypes ==
  ASSUME TypesOK, NEW t \in Tabs, GetPage(t) PROVE TypesOK'
<1> USE TypesParts
<1>1. UNCHANGED <<outcome, target_ids, sessions, phase, cursor, inbox, outbox, pending,
                  next_id, attached, tab, detaches, fetches>>
  BY DEF GetPage, loopVars, browserVars
<1>2. targets' \in [Tabs -> Target]
  BY GetPageKeeps DEF TypesOK, TargetsKeep
<1> QED BY <1>1, <1>2 DEF TypesOK, TypeOK, ChannelsOK, PendingOK

\* What Target::poll may submit.
LEMMA PollRequests ==
  ASSUME TypesOK, NEW t \in Tabs,
         Attach(t) \/ SendNext(t) \/ ChainTimesOut(t)
  PROVE \E cmd \in Command, p \in PendingRecord :
          /\ cmd.id = next_id /\ p.id = next_id /\ p.kind = "internal" /\ p.caller = NoCaller
          /\ Submit(cmd, p)
<1> USE TypesParts
<1>1. targets[t].session \in Sessions \cup {NoSession}
  BY DEF Target
<1>2. CASE Attach(t)
  BY <1>2, RequestFacts DEF Attach
<1>3. CASE SendNext(t)
  <2>1. Head(targets[t].cmds) \in Methods
    BY <1>3, SendNextKeeps DEF TypesOK
  <2>2. Request(t, "init", targets[t].session, Head(targets[t].cmds))
    BY <1>3 DEF SendNext
  <2> QED BY <1>1, <2>1, <2>2, RequestFacts
<1>4. CASE ChainTimesOut(t)
  <2>1. Request(t, "close", targets[t].session, NoCommand)
    BY <1>4 DEF ChainTimesOut
  <2> QED BY <1>1, <2>1, RequestFacts
<1> QED BY <1>2, <1>3, <1>4

LEMMA PollTypes ==
  ASSUME TypesOK, NEW t \in Tabs, PollStep(t) \/ ChainTimesOut(t) PROVE TypesOK'
<1> USE TypesParts
<1>1. UNCHANGED <<target_ids, sessions, phase, cursor, inbox, attached, tab, detaches, fetches>>
  BY DEF PollStep, Attach, SendNext, Advance, HandOver, ChainTimesOut, loopVars, browserVars
<1>2. targets' \in [Tabs -> Target]
  <2>1. CASE Attach(t) \/ SendNext(t) \/ Advance(t)
    BY <2>1, AttachKeeps, SendNextKeeps, AdvanceKeeps DEF TypesOK, TargetsKeep
  <2>2. CASE HandOver(t) \/ ChainTimesOut(t)
    BY <2>2, HandOverTakes, ChainTimesOutTakes DEF TypesOK
  <2> QED BY <2>1, <2>2 DEF PollStep
<1>3. outcome' \in [Callers -> Outcomes]
  <2>1. CASE Attach(t) \/ SendNext(t) \/ Advance(t)
    BY <2>1 DEF Attach, SendNext, Advance
  <2>2. CASE HandOver(t) \/ ChainTimesOut(t)
    BY <2>2, DeliverTypes DEF HandOver, ChainTimesOut, Outcomes
  <2> QED BY <2>1, <2>2 DEF PollStep
<1>4. outbox' \in Seq(Command) /\ PendingOK'
  <2>1. CASE Attach(t) \/ SendNext(t) \/ ChainTimesOut(t)
    BY <2>1, PollRequests, SubmitTypes
  <2>2. CASE Advance(t) \/ HandOver(t)
    BY <2>2 DEF Advance, HandOver, PendingOK
  <2> QED BY <2>1, <2>2 DEF PollStep
<1> QED BY <1>1, <1>2, <1>3, <1>4 DEF TypesOK, TypeOK, ChannelsOK, PendingOK

\* One turn of the loop over target_ids.
LEMMA SwapRemoveFacts ==
  ASSUME NEW S, NEW q \in Seq(S), NEW n \in 1..Len(q)
  PROVE  /\ SwapRemove(q, n) \in Seq(S)
         /\ Len(SwapRemove(q, n)) = Len(q) - 1
         /\ \A i \in 1..Len(q) - 1 :
              SwapRemove(q, n)[i] = IF i = n THEN q[Len(q)] ELSE q[i]
<1>1. Len(q) \in Nat /\ Len(q) - 1 \in Nat /\ \A i \in 1..Len(q) : q[i] \in S
  OBVIOUS
<1>2. \A i \in 1..Len(q) - 1 : (IF i = n THEN q[Len(q)] ELSE q[i]) \in S
  BY <1>1
<1> QED BY <1>1, <1>2 DEF SwapRemove

\* Whoever else is listed stays listed.
LEMMA SwapRemoveHolds ==
  ASSUME NEW S, NEW q \in Seq(S), NEW n \in 1..Len(q), NEW s, Holds(q, s), s # q[n]
  PROVE Holds(SwapRemove(q, n), s)
<1> DEFINE r == SwapRemove(q, n)
<1>1. Len(r) = Len(q) - 1 /\ \A i \in 1..Len(q) - 1 : r[i] = IF i = n THEN q[Len(q)] ELSE q[i]
  BY SwapRemoveFacts
<1> HIDE DEF r
<1>2. PICK i \in 1..Len(q) : q[i] = s
  BY DEF Holds
<1>3. Len(q) \in Nat
  OBVIOUS
<1>4. CASE i = Len(q)
  <2>1. n \in 1..Len(q) - 1 /\ r[n] = s
    BY <1>1, <1>2, <1>3, <1>4
  <2> QED BY <1>1, <2>1 DEF Holds, r
<1>5. CASE i # Len(q)
  <2>1. i \in 1..Len(q) - 1 /\ r[i] = s
    BY <1>1, <1>2, <1>3, <1>5
  <2> QED BY <1>1, <2>1 DEF Holds, r
<1> QED BY <1>4, <1>5

LEMMA LoopTypes ==
  ASSUME TypesOK, BeginTargets \/ NextTarget \/ EndTargets \/ EndPass PROVE TypesOK'
<1> USE TypesParts
<1>1. Len(target_ids) \in Nat
  OBVIOUS
<1>2. CASE BeginTargets
  <2>1. phase' = "targets" /\ cursor' \in 0..Len(target_ids)
    BY <1>1, <1>2 DEF BeginTargets
  <2> QED BY <1>2, <2>1 DEF BeginTargets, handlerVars, browserVars, TypesOK, TypeOK, ChannelsOK
<1>3. CASE NextTarget
  <2>1. cursor \in 1..Len(target_ids) /\ cursor' = cursor - 1
    BY <1>1, <1>3 DEF NextTarget
  <2> DEFINE r == SwapRemove(target_ids, cursor)
  <2>2. r \in Seq(Tabs) /\ Len(r) = Len(target_ids) - 1
    BY <2>1, SwapRemoveFacts
  <2>3. target_ids[cursor] \in Tabs
    BY <2>1
  <2>4. target_ids' = r \/ target_ids' = Append(r, target_ids[cursor])
    BY <1>3 DEF NextTarget
  <2> HIDE DEF r
  <2>5. target_ids' \in Seq(Tabs) /\ Len(target_ids') >= Len(target_ids) - 1
    <3>1. Append(r, target_ids[cursor]) \in Seq(Tabs)
          /\ Len(Append(r, target_ids[cursor])) = Len(r) + 1
      BY <2>2, <2>3
    <3>2. Len(r) >= Len(target_ids) - 1 /\ Len(r) + 1 >= Len(target_ids) - 1
      BY <1>1, <2>2
    <3> QED BY <2>2, <2>4, <3>1, <3>2
  <2>6. cursor' \in 0..Len(target_ids')
    BY <1>1, <2>1, <2>5
  <2>7. UNCHANGED <<outcome, targets, sessions, pending, next_id, phase, outbox, inbox,
                    attached, tab, detaches, fetches>>
    BY <1>3 DEF NextTarget, browserVars
  <2> QED BY <2>5, <2>6, <2>7 DEF TypesOK, TypeOK, ChannelsOK
<1>4. CASE EndTargets
  BY <1>4 DEF EndTargets, handlerVars, browserVars, TypesOK, TypeOK, ChannelsOK
<1>5. CASE EndPass
  <2>1. pending' \subseteq pending
    BY <1>5 DEF EndPass
  <2>2. outcome' \in [Callers -> Outcomes]
    BY <1>5 DEF EndPass, Outcomes
  <2>3. phase' = "top"
    BY <1>5 DEF EndPass
  <2>4. UNCHANGED <<targets, target_ids, sessions, next_id, cursor, outbox, inbox,
                    attached, tab, detaches, fetches>>
    BY <1>5 DEF EndPass, browserVars
  <2> QED BY <2>1, <2>2, <2>3, <2>4 DEF TypesOK, TypeOK, ChannelsOK
<1> QED BY <1>2, <1>3, <1>4, <1>5

LEMMA IsSequence ==
  ASSUME NEW S, NEW n \in Nat, NEW f, f = [i \in 1..n |-> f[i]], \A i \in 1..n : f[i] \in S
  PROVE f \in Seq(S) /\ Len(f) = n
<1> DEFINE g == [i \in 1..n |-> f[i]]
<1>1. g \in Seq(S) /\ Len(g) = n
  OBVIOUS
<1> QED BY <1>1

\* Websocket messages
LEMMA ListedTypes ==
  ASSUME TypesOK, NEW m \in Message, NEW p, OnGetTargetsResponse(m, p)
  PROVE /\ outcome' \in [Callers -> Outcomes] /\ targets' \in [Tabs -> Target]
        /\ target_ids' \in Seq(Tabs) /\ Len(target_ids') >= Len(target_ids)
        /\ outbox' \in Seq(Command) /\ next_id' \in Nat /\ next_id' >= next_id
        /\ m.list \in Seq(Tabs) /\ Len(m.list) \in Nat /\ next_id' = next_id + Len(m.list)
        /\ \E cmds \in Seq(Command) :
             /\ outbox' = outbox \o cmds
             /\ \A i \in 1..Len(cmds) : /\ cmds[i].kind = "attach"
                                        /\ cmds[i].id >= next_id /\ cmds[i].id < next_id'
<1> USE TypesParts
<1>1. m.list \in Seq(Tabs) /\ Len(m.list) \in Nat /\ next_id \in Nat
  BY RecordTypes DEF PendingOK
<1>2. outcome' \in [Callers -> Outcomes]
  BY CancelTypes DEF OnGetTargetsResponse
<1>3. targets' \in [Tabs -> Target]
  BY NewTargetType DEF OnGetTargetsResponse
<1>4. target_ids' \in Seq(Tabs) /\ Len(target_ids') >= Len(target_ids)
  <2>1. target_ids' = target_ids \o m.list
    BY DEF OnGetTargetsResponse
  <2> QED BY <1>1, <2>1
<1>5. next_id' = next_id + Len(m.list) /\ next_id' \in Nat /\ next_id' >= next_id
  BY <1>1 DEF OnGetTargetsResponse
<1> DEFINE cmds == [i \in 1..Len(m.list) |->
                     [Cmd("attach", m.list[i], NoSession, NoCommand) EXCEPT !.id = next_id + i - 1]]
<1>6. \A i \in 1..Len(m.list) :
        /\ cmds[i] \in Command /\ cmds[i].kind = "attach" /\ cmds[i].id = next_id + i - 1
        /\ next_id + i - 1 \in Nat
  <2> TAKE i \in 1..Len(m.list)
  <2>1. m.list[i] \in Tabs /\ next_id + i - 1 \in Nat
    BY <1>1
  <2> DEFINE id == next_id + i - 1
             t == m.list[i]
  <2>2. cmds[i] = [id |-> id, kind |-> "attach", tab |-> t, session |-> NoSession, method |-> NoCommand]
    BY DEF Cmd
  <2>3. id \in Nat /\ t \in Tabs
    BY <2>1
  <2> HIDE DEF cmds, id, t
  <2>4. cmds[i] \in Command /\ cmds[i].kind = "attach" /\ cmds[i].id = id
    BY <2>2, <2>3 DEF Command
  <2> QED BY <2>1, <2>4 DEF id
<1>7. outbox' = outbox \o cmds
  BY DEF OnGetTargetsResponse
<1>8. cmds = [i \in 1..Len(m.list) |-> cmds[i]]
  OBVIOUS
<1> HIDE DEF cmds
<1>9. cmds \in Seq(Command) /\ Len(cmds) = Len(m.list)
  <2> DEFINE n == Len(m.list)
  <2>1. n \in Nat /\ \A i \in 1..n : cmds[i] \in Command
    BY <1>1, <1>6
  <2>2. cmds = [i \in 1..n |-> cmds[i]]
    BY <1>8
  <2> HIDE DEF n
  <2>3. cmds \in Seq(Command) /\ Len(cmds) = n
    BY <2>1, <2>2, IsSequence
  <2> QED BY <2>3 DEF n
<1>10. \A i \in 1..Len(cmds) : /\ cmds[i].kind = "attach"
                               /\ cmds[i].id >= next_id /\ cmds[i].id < next_id'
  <2> TAKE i \in 1..Len(cmds)
  <2>1. i \in 1..Len(m.list) /\ cmds[i].id = next_id + i - 1
    BY <1>6, <1>9
  <2> QED BY <1>1, <1>5, <1>6, <1>9, <2>1
<1>11. outbox' \in Seq(Command)
  BY <1>7, <1>9
<1> QED BY <1>1, <1>2, <1>3, <1>4, <1>5, <1>7, <1>9, <1>10, <1>11

\* A message that is not a response.
Events(m) == OnTargetCreated(m) \/ OnAttached(m) \/ OnDetached(m) \/ OnDestroyed(m) \/ OnLoaded(m)

LEMMA EventTypes ==
  ASSUME TypesOK, NEW m, Reads(m), Events(m) PROVE TypesOK'
<1> USE TypesParts
<1>1. m \in Message /\ inbox' \in Seq(Message)
      /\ UNCHANGED <<phase, cursor, tab, attached, detaches, fetches>>
  BY ReadsFacts
<1>2. UNCHANGED <<pending, next_id, outbox>>
  BY DEF Events, OnTargetCreated, OnAttached, OnDetached, OnDestroyed, OnLoaded
<1>3. outcome' \in [Callers -> Outcomes]
  BY CancelTypes DEF Events, OnTargetCreated, OnAttached, OnDetached, OnDestroyed, OnLoaded
<1>4. targets' \in [Tabs -> Target]
  <2>1. CASE OnTargetCreated(m)
    BY <2>1, NewTargetType DEF OnTargetCreated
  <2>2. CASE OnAttached(m)
    <3>1. m.session \in Sessions
      BY <1>1, <2>2, RecordTypes DEF OnAttached
    <3> QED BY <2>2, <3>1, SessionSet DEF OnAttached
  <2>3. CASE OnDetached(m)
    <3>1. targets' = targets \/ targets' = [targets EXCEPT ![sessions[m.session]].session = NoSession]
      BY <2>3 DEF OnDetached
    <3> QED BY <3>1, SessionSet
  <2>4. CASE OnDestroyed(m)
    BY <2>4, NewTargetType DEF OnDestroyed
  <2>5. CASE OnLoaded(m)
    BY <2>5, OnLoadedKeeps DEF TypesOK, TargetsKeep
  <2> QED BY <2>1, <2>2, <2>3, <2>4, <2>5 DEF Events
<1>5. target_ids' \in Seq(Tabs) /\ Len(target_ids') >= Len(target_ids)
  <2>1. CASE OnTargetCreated(m)
    <3>1. m.tab \in Tabs /\ target_ids' = Append(target_ids, m.tab)
      BY <1>1, <2>1, RecordTypes DEF OnTargetCreated
    <3> QED BY <3>1
  <2>2. CASE ~OnTargetCreated(m)
    <3>1. target_ids' = target_ids
      BY <2>2 DEF Events, OnAttached, OnDetached, OnDestroyed, OnLoaded
    <3> QED BY <3>1
  <2> QED BY <2>1, <2>2
<1>6. sessions' \in [Sessions -> Tabs \cup {NoTab}]
  <2>1. m.tab \in Tabs \cup {NoTab}
    BY <1>1, RecordTypes
  <2> QED BY <2>1 DEF Events, OnTargetCreated, OnAttached, OnDetached, OnDestroyed, OnLoaded
<1>7. cursor' \in 0..Len(target_ids')
  BY <1>1, <1>5
<1> QED BY <1>1, <1>2, <1>3, <1>4, <1>5, <1>6, <1>7
        DEF TypesOK, TypeOK, ChannelsOK, PendingOK

\* A response takes its command out of the table, or nobody remembers it.
LEMMA ResponseTypes ==
  ASSUME TypesOK, NEW m, Reads(m), OnResponse(m), AnswersMatch PROVE TypesOK'
<1> USE TypesParts
<1>1. m \in Message /\ inbox' \in Seq(Message) /\ m = inbox[1] /\ Len(inbox) \in Nat \ {0}
      /\ UNCHANGED <<phase, cursor, tab, attached, detaches, fetches>>
  BY ReadsFacts
<1>2. m.type = "response" /\ UNCHANGED sessions
  BY DEF OnResponse
<1>3. CASE UNCHANGED <<outcome, targets, target_ids, pending, next_id, outbox>>
  BY <1>1, <1>2, <1>3 DEF TypesOK, TypeOK, ChannelsOK, PendingOK
<1>4. ASSUME NEW p \in pending, p.id = m.id, pending' = pending \ {p},
             OnCreateResponse(m, p) \/ OnGetTargetsResponse(m, p) \/ OnInternalResponse(m, p)
      PROVE TypesOK'
  <2>1. p \in PendingRecord
    BY DEF PendingOK
  <2>2. CASE OnCreateResponse(m, p)
    <3>1. p.caller \in Callers /\ p.kind = "create"
      BY <2>1, <2>2, RecordTypes DEF OnCreateResponse
    <3>2. m.ok => m.tab \in Tabs
      BY <1>1, <1>2, <1>4, <3>1 DEF AnswersMatch, InFits
    <3>3. targets' \in [Tabs -> Target]
      BY <2>2, <3>1, <3>2, OnCreateResponseSets DEF TypesOK
    <3>4. outcome' \in [Callers -> Outcomes]
      BY <2>2, DeliverTypes DEF OnCreateResponse, Outcomes
    <3>5. UNCHANGED <<target_ids, next_id, outbox>>
      BY <2>2 DEF OnCreateResponse
    <3> QED BY <1>1, <1>2, <1>4, <3>3, <3>4, <3>5 DEF TypesOK, TypeOK, ChannelsOK, PendingOK
  <2>3. CASE OnGetTargetsResponse(m, p)
    <3>1. /\ outcome' \in [Callers -> Outcomes] /\ targets' \in [Tabs -> Target]
          /\ target_ids' \in Seq(Tabs) /\ Len(target_ids') >= Len(target_ids)
          /\ outbox' \in Seq(Command) /\ next_id' \in Nat /\ next_id' >= next_id
      BY <1>1, <2>3, ListedTypes
    <3>2. PendingOK'
      <4>1. \A q \in pending : q.id \in Nat /\ q.id < next_id /\ next_id \in Nat
        BY RecordTypes DEF PendingOK
      <4>2. \A q \in pending' : q.id < next_id'
        BY <1>4, <3>1, <4>1
      <4> QED BY <1>4, <3>1, <4>2 DEF PendingOK
    <3>3. cursor' \in 0..Len(target_ids')
      BY <1>1, <3>1
    <3> QED BY <1>1, <1>2, <3>1, <3>2, <3>3 DEF TypesOK, TypeOK, ChannelsOK, PendingOK
  <2>4. CASE OnInternalResponse(m, p)
    <3>1. p.tab \in Tabs
      BY <2>1, <2>4, RecordTypes DEF OnInternalResponse
    <3>2. targets' \in [Tabs -> Target]
      BY <2>4, <3>1, OnInternalResponseKeeps DEF TypesOK, TargetsKeep
    <3>3. UNCHANGED <<outcome, target_ids, next_id, outbox>>
      BY <2>4 DEF OnInternalResponse
    <3> QED BY <1>1, <1>2, <1>4, <3>2, <3>3 DEF TypesOK, TypeOK, ChannelsOK, PendingOK
  <2> QED BY <1>4, <2>2, <2>3, <2>4
<1> QED BY <1>3, <1>4 DEF OnResponse

\* The browser
LEMMA BrowserTypes ==
  ASSUME TypesOK, UNCHANGED <<handlerVars, loopVars, fetches>>,
         outbox' \in Seq(Command), inbox' \in Seq(Message),
         attached' \in [Sessions -> Tabs \cup {"unused", "gone"}],
         tab' \in [Tabs -> {"free", "open", "closing", "gone"}],
         detaches' \in 0..MaxDetaches
  PROVE TypesOK'
BY DEF handlerVars, loopVars, TypesOK, TypeOK, ChannelsOK, PendingOK

\* A command is answered: the messages the browser sends.
LEMMA AnswerTypes ==
  /\ <<>> \in Seq(Message)
  /\ \A m \in Message : <<m>> \in Seq(Message)
  /\ \A m, n \in Message : <<m, n>> \in Seq(Message)
OBVIOUS

LEMMA ShortResponse ==
  ASSUME NEW cmd \in Command
  PROVE /\ Obeyed(cmd) \in Message /\ Refused(cmd) \in Message
        /\ Obeyed(cmd).type = "response" /\ Refused(cmd).type = "response"
        /\ Obeyed(cmd).tab = NoTab /\ ~Refused(cmd).ok
        /\ Obeyed(cmd).id = cmd.id /\ Refused(cmd).id = cmd.id
<1>1. cmd.id \in Nat /\ <<>> \in Seq(Tabs) /\ NoTab \in Tabs \cup {NoTab}
  BY RecordTypes
<1>2. Obeyed(cmd) \in Answer /\ Refused(cmd) \in Answer
  BY <1>1 DEF Obeyed, Refused, Response, Answer
<1>3. /\ Obeyed(cmd).type = "response" /\ Refused(cmd).type = "response"
      /\ Obeyed(cmd).tab = NoTab /\ ~Refused(cmd).ok
      /\ Obeyed(cmd).id = cmd.id /\ Refused(cmd).id = cmd.id
  BY DEF Obeyed, Refused, Response
<1> QED BY <1>2, <1>3 DEF Message

\* What a command makes of the channels and of the browser: a tab is opened, a session is
\* attached, something else is answered, or the command is refused.
Opened(cmd, answer) ==
  /\ cmd.kind = "create"
  /\ \E t \in Tabs :
       /\ tab[t] = "free" /\ tab' = [tab EXCEPT ![t] = "open"]
       /\ answer = <<Event("targetCreated", t, NoSession), Response(cmd.id, TRUE, t, <<>>)>>
  /\ UNCHANGED attached
AttachedTo(cmd, answer) ==
  /\ cmd.kind = "attach" /\ cmd.tab \in Tabs
  /\ \E s \in Sessions :
       /\ attached[s] = "unused" /\ attached' = [attached EXCEPT ![s] = cmd.tab]
       /\ answer = <<Event("attached", cmd.tab, s), Obeyed(cmd)>>
  /\ UNCHANGED tab
Told(cmd, answer) ==
  /\ cmd.kind # "create"
  /\ \E list \in Seq(Tabs) : answer = <<Response(cmd.id, TRUE, NoTab, list)>>
  /\ UNCHANGED attached
  /\ tab' \in [Tabs -> {"free", "open", "closing", "gone"}]
  /\ \A t \in Tabs : tab'[t] = "free" <=> tab[t] = "free"
Denied(cmd, answer) == answer = <<Refused(cmd)>> /\ UNCHANGED <<attached, tab>>

Serves(cmd, answer) ==
  /\ cmd \in Command /\ answer \in Seq(Message)
  /\ cmd = outbox[1] /\ Len(outbox) \in Nat \ {0}
  /\ Answers(answer) /\ UNCHANGED detaches
  /\ Opened(cmd, answer) \/ AttachedTo(cmd, answer) \/ Told(cmd, answer) \/ Denied(cmd, answer)

LEMMA ServesIntro ==
  ASSUME TypesOK, NEW kind, NEW cmd \in Served(kind), NEW answer \in Seq(Message),
         Answers(answer), UNCHANGED detaches,
         Opened(cmd, answer) \/ AttachedTo(cmd, answer) \/ Told(cmd, answer)
         \/ Denied(cmd, answer)
  PROVE Serves(cmd, answer)
<1>1. outbox \in Seq(Command)
  BY TypesParts
<1>2. cmd \in Command /\ Len(outbox) \in Nat \ {0} /\ cmd = outbox[1]
  BY <1>1, ServedIsCommand
<1> QED BY <1>2 DEF Serves

LEMMA ListIsSeq ==
  ASSUME NEW n \in Nat, NEW S \in SUBSET Tabs, NEW list \in [1..n -> S]
  PROVE list \in Seq(Tabs)
OBVIOUS

\* A command that is obeyed, with nothing to report.
LEMMA ObeyedTold ==
  ASSUME TypesOK, NEW kind \in {"init", "close"}, NEW cmd \in Served(kind),
         Answers(<<Obeyed(cmd)>>), UNCHANGED <<detaches, attached>>,
         tab' \in [Tabs -> {"free", "open", "closing", "gone"}],
         \A t \in Tabs : tab'[t] = "free" <=> tab[t] = "free"
  PROVE Serves(cmd, <<Obeyed(cmd)>>)
<1>1. outbox \in Seq(Command)
  BY TypesParts
<1>2. cmd \in Command /\ cmd.kind = kind
  BY <1>1, ServedIsCommand
<1>3. <<Obeyed(cmd)>> \in Seq(Message)
  BY <1>2, ShortResponse, AnswerTypes
<1>4. Obeyed(cmd) = Response(cmd.id, TRUE, NoTab, <<>>) /\ <<>> \in Seq(Tabs)
  BY DEF Obeyed
<1>5. Told(cmd, <<Obeyed(cmd)>>)
  BY <1>2, <1>4 DEF Told
<1> QED BY <1>3, <1>5, ServesIntro

LEMMA DeniedServes ==
  ASSUME TypesOK, NEW kind, NEW cmd \in Served(kind),
         Answers(<<Refused(cmd)>>), UNCHANGED <<detaches, attached, tab>>
  PROVE Serves(cmd, <<Refused(cmd)>>)
<1>1. outbox \in Seq(Command)
  BY TypesParts
<1>2. cmd \in Command
  BY <1>1, ServedIsCommand
<1>3. <<Refused(cmd)>> \in Seq(Message)
  BY <1>2, ShortResponse, AnswerTypes
<1>4. Denied(cmd, <<Refused(cmd)>>)
  BY DEF Denied
<1> QED BY <1>3, <1>4, ServesIntro

LEMMA BrowserServesFacts ==
  ASSUME TypesOK, BrowserServes PROVE \E cmd, answer : Serves(cmd, answer)
<1> USE TypesParts
<1>1. CASE BrowserCreates
  <2>1. PICK cmd \in Served("create") :
          \/ \E t \in Tabs :
               /\ tab[t] = "free" /\ tab' = [tab EXCEPT ![t] = "open"]
               /\ Answers(<<Event("targetCreated", t, NoSession),
                            Response(cmd.id, TRUE, t, <<>>)>>)
          \/ Answers(<<Refused(cmd)>>) /\ UNCHANGED tab
    BY <1>1 DEF BrowserCreates
  <2>2. UNCHANGED <<detaches, attached>>
    BY <1>1 DEF BrowserCreates
  <2>3. cmd \in Command /\ cmd.kind = "create" /\ cmd.id \in Nat
    BY ServedIsCommand
  <2>4. ASSUME NEW t \in Tabs, tab[t] = "free", tab' = [tab EXCEPT ![t] = "open"],
               Answers(<<Event("targetCreated", t, NoSession), Response(cmd.id, TRUE, t, <<>>)>>)
        PROVE \E c, answer : Serves(c, answer)
    <3> DEFINE e == Event("targetCreated", t, NoSession)
               r == Response(cmd.id, TRUE, t, <<>>)
    <3>1. e \in Message
      BY EventType
    <3>2. TRUE \in BOOLEAN /\ t \in Tabs \cup {NoTab} /\ <<>> \in Seq(Tabs)
      OBVIOUS
    <3>3. r \in Message
      BY <2>3, <3>2, ResponseType
    <3>4. <<e, r>> \in Seq(Message)
      BY <3>1, <3>3, AnswerTypes
    <3>5. Opened(cmd, <<e, r>>)
      BY <2>2, <2>3, <2>4 DEF Opened
    <3>6. Answers(<<e, r>>)
      BY <2>4
    <3> HIDE DEF e, r
    <3>7. Serves(cmd, <<e, r>>)
      BY <2>2, <3>4, <3>5, <3>6, ServesIntro
    <3> QED BY <3>7
  <2>5. CASE Answers(<<Refused(cmd)>>) /\ UNCHANGED tab
    BY <2>2, <2>5, DeniedServes
  <2> QED BY <2>1, <2>4, <2>5
<1>2. CASE BrowserLists
  <2> DEFINE known == {t \in Tabs : Alive(t)}
  <2>1. PICK cmd \in Served("getTargets"), list \in [1..Cardinality(known) -> known] :
          Answers(<<Response(cmd.id, TRUE, NoTab, list)>>) /\ UNCHANGED browserVars
    BY <1>2 DEF BrowserLists
  <2>2. cmd \in Command /\ cmd.kind = "getTargets" /\ cmd.id \in Nat
    BY ServedIsCommand
  <2>3. known \in SUBSET Tabs /\ Cardinality(known) \in Nat
    <3>1. IsFiniteSet(known)
      BY BoundsAssumption, FS_Subset
    <3> QED BY <3>1, FS_CardinalityType
  <2> HIDE DEF known
  <2>4. list \in Seq(Tabs)
    BY <2>3, ListIsSeq
  <2>5. TRUE \in BOOLEAN /\ NoTab \in Tabs \cup {NoTab}
    OBVIOUS
  <2>6. Response(cmd.id, TRUE, NoTab, list) \in Message
    BY <2>2, <2>4, <2>5, ResponseType
  <2> DEFINE answer == <<Response(cmd.id, TRUE, NoTab, list)>>
  <2>7. answer \in Seq(Message)
    BY <2>6, AnswerTypes
  <2>8. UNCHANGED <<attached, tab, detaches>>
    BY <2>1 DEF browserVars
  <2>9. Told(cmd, answer)
    BY <2>2, <2>4, <2>8 DEF Told
  <2>10. Answers(answer)
    BY <2>1
  <2> HIDE DEF answer
  <2>11. Serves(cmd, answer)
    BY <2>7, <2>8, <2>9, <2>10, ServesIntro
  <2> QED BY <2>11
<1>3. CASE BrowserAttaches
  <2>1. PICK cmd \in Served("attach") :
          \/ \E s \in Sessions :
               /\ attached[s] = "unused" /\ attached' = [attached EXCEPT ![s] = cmd.tab]
               /\ Answers(<<Event("attached", cmd.tab, s), Obeyed(cmd)>>)
          \/ Answers(<<Refused(cmd)>>) /\ UNCHANGED attached
    BY <1>3 DEF BrowserAttaches
  <2>2. UNCHANGED <<detaches, tab>>
    BY <1>3 DEF BrowserAttaches
  <2>3. cmd \in Command /\ cmd.kind = "attach" /\ cmd.id \in Nat
    BY ServedIsCommand
  <2>4. cmd.tab \in Tabs
    BY <2>3, RecordTypes
  <2>5. ASSUME NEW s \in Sessions, attached[s] = "unused",
               attached' = [attached EXCEPT ![s] = cmd.tab],
               Answers(<<Event("attached", cmd.tab, s), Obeyed(cmd)>>)
        PROVE \E c, answer : Serves(c, answer)
    <3> DEFINE answer == <<Event("attached", cmd.tab, s), Obeyed(cmd)>>
    <3>1. Event("attached", cmd.tab, s) \in Message
      BY <2>4, EventType
    <3>2. Obeyed(cmd) \in Message
      BY <2>3, ShortResponse
    <3>3. answer \in Seq(Message)
      BY <3>1, <3>2, AnswerTypes
    <3>4. AttachedTo(cmd, answer)
      BY <2>2, <2>3, <2>4, <2>5 DEF AttachedTo
    <3>5. Answers(answer)
      BY <2>5
    <3> HIDE DEF answer
    <3>6. Serves(cmd, answer)
      BY <2>2, <3>3, <3>4, <3>5, ServesIntro
    <3> QED BY <3>6
  <2>6. CASE Answers(<<Refused(cmd)>>) /\ UNCHANGED attached
    BY <2>2, <2>6, DeniedServes
  <2> QED BY <2>1, <2>5, <2>6
<1>4. CASE BrowserRuns
  <2>1. PICK cmd \in Served("init") : Answers(<<Obeyed(cmd)>>) \/ Answers(<<Refused(cmd)>>)
    BY <1>4 DEF BrowserRuns
  <2>2. UNCHANGED <<detaches, attached, tab>>
    BY <1>4 DEF BrowserRuns
  <2> QED BY <2>1, <2>2, ObeyedTold, DeniedServes
<1>5. CASE BrowserCloses
  <2>1. PICK cmd \in Served("close") :
          \/ /\ Alive(cmd.tab) /\ tab' = [tab EXCEPT ![cmd.tab] = "closing"]
             /\ Answers(<<Obeyed(cmd)>>)
          \/ Answers(<<Refused(cmd)>>) /\ UNCHANGED tab
    BY <1>5 DEF BrowserCloses
  <2>2. UNCHANGED <<detaches, attached>>
    BY <1>5 DEF BrowserCloses
  <2>3. CASE Answers(<<Refused(cmd)>>) /\ UNCHANGED tab
    BY <2>2, <2>3, DeniedServes
  <2>4. CASE /\ Alive(cmd.tab) /\ tab' = [tab EXCEPT ![cmd.tab] = "closing"]
             /\ Answers(<<Obeyed(cmd)>>)
    <3>1. \A t \in Tabs : tab'[t] = "free" <=> tab[t] = "free"
      BY <2>4 DEF Alive
    <3>2. tab' \in [Tabs -> {"free", "open", "closing", "gone"}]
      BY <2>4
    <3>3. Serves(cmd, <<Obeyed(cmd)>>)
      BY <2>2, <2>4, <3>1, <3>2, ObeyedTold
    <3> QED BY <3>3
  <2> QED BY <2>1, <2>3, <2>4
<1> QED BY <1>1, <1>2, <1>3, <1>4, <1>5 DEF BrowserServes

\* What the browser does by itself.
BrowserAlone ==
  \/ \E t \in Tabs : BrowserLoads(t) \/ BrowserClosesTab(t) \/ BrowserDestroys(t)
  \/ \E s \in Sessions : BrowserReportsLoad(s) \/ BrowserDetaches(s)

\* It opens no tab, attaches nothing, and announces no session.
LEMMA BrowserAloneFacts ==
  ASSUME TypesOK, BrowserAlone
  PROVE /\ UNCHANGED <<handlerVars, loopVars, outbox, fetches>> /\ detaches' \in 0..MaxDetaches
        /\ tab' \in [Tabs -> {"free", "open", "closing", "gone"}]
        /\ \A t \in Tabs : tab'[t] = "free" <=> tab[t] = "free"
        /\ attached' \in [Sessions -> Tabs \cup {"unused", "gone"}]
        /\ \A s \in Sessions : attached'[s] = "unused" <=> attached[s] = "unused"
        /\ \E report \in Seq(Message) :
             /\ inbox' = inbox \o report
             /\ \A i \in 1..Len(report) : report[i].type \notin {"response", "attached"}
<1> USE TypesParts
<1> DEFINE none == <<>>
<1>1. none \in Seq(Message) /\ \A i \in 1..Len(none) : none[i].type \notin {"response", "attached"}
  OBVIOUS
<1> HIDE DEF none
<1>2. ASSUME NEW m \in Message PROVE <<m>> \in Seq(Message) /\ Len(<<m>>) = 1 /\ <<m>>[1] = m
  OBVIOUS
<1>3. CASE \E t \in Tabs : BrowserLoads(t)
  <2>1. inbox' = inbox \o none
    BY <1>3 DEF BrowserLoads, Reports, none
  <2>2. UNCHANGED <<handlerVars, loopVars, outbox, fetches, detaches, tab, attached>>
    BY <1>3 DEF BrowserLoads, Reports
  <2> QED BY <1>1, <2>1, <2>2
<1>4. CASE \E t \in Tabs : BrowserClosesTab(t)
  <2>1. PICK t \in Tabs : BrowserClosesTab(t)
    BY <1>4
  <2>2. inbox' = inbox \o none
    BY <2>1 DEF BrowserClosesTab, Reports, none
  <2>3. UNCHANGED <<handlerVars, loopVars, outbox, fetches, detaches, attached>>
    BY <2>1 DEF BrowserClosesTab, Reports
  <2>4. tab[t] = "open" /\ tab' = [tab EXCEPT ![t] = "closing"]
    BY <2>1 DEF BrowserClosesTab
  <2>5. /\ tab' \in [Tabs -> {"free", "open", "closing", "gone"}]
        /\ \A u \in Tabs : tab'[u] = "free" <=> tab[u] = "free"
    BY <2>4
  <2> QED BY <1>1, <2>2, <2>3, <2>5
<1>5. CASE \E t \in Tabs : BrowserDestroys(t)
  <2>1. PICK t \in Tabs : BrowserDestroys(t)
    BY <1>5
  <2> DEFINE m == Event("destroyed", t, NoSession)
  <2>2. m \in Message /\ m.type = "destroyed"
    BY EventType
  <2>3. inbox' = inbox \o <<m>>
    BY <2>1 DEF BrowserDestroys, Reports
  <2> HIDE DEF m
  <2>4. UNCHANGED <<handlerVars, loopVars, outbox, fetches, detaches, attached>>
    BY <2>1 DEF BrowserDestroys, Reports
  <2>5. tab[t] = "closing" /\ tab' = [tab EXCEPT ![t] = "gone"]
    BY <2>1 DEF BrowserDestroys
  <2>6. /\ tab' \in [Tabs -> {"free", "open", "closing", "gone"}]
        /\ \A u \in Tabs : tab'[u] = "free" <=> tab[u] = "free"
    BY <2>5
  <2>7. \A i \in 1..Len(<<m>>) : <<m>>[i].type \notin {"response", "attached"}
    BY <1>2, <2>2
  <2>8. <<m>> \in Seq(Message)
    BY <1>2, <2>2
  <2> QED BY <2>3, <2>4, <2>6, <2>7, <2>8
<1>6. CASE \E s \in Sessions : BrowserReportsLoad(s)
  <2>1. PICK s \in Sessions : BrowserReportsLoad(s)
    BY <1>6
  <2> DEFINE m == Event("loaded", NoTab, s)
  <2>2. m \in Message /\ m.type = "loaded"
    BY EventType
  <2>3. inbox' = inbox \o <<m>>
    BY <2>1 DEF BrowserReportsLoad, Reports
  <2> HIDE DEF m
  <2>4. UNCHANGED <<handlerVars, loopVars, outbox, fetches, detaches, attached, tab>>
    BY <2>1 DEF BrowserReportsLoad, Reports
  <2>7. \A i \in 1..Len(<<m>>) : <<m>>[i].type \notin {"response", "attached"}
    BY <1>2, <2>2
  <2>8. <<m>> \in Seq(Message)
    BY <1>2, <2>2
  <2> QED BY <2>3, <2>4, <2>7, <2>8
<1>7. CASE \E s \in Sessions : BrowserDetaches(s)
  <2>1. PICK s \in Sessions : BrowserDetaches(s)
    BY <1>7
  <2> DEFINE m == Event("detached", NoTab, s)
  <2>2. m \in Message /\ m.type = "detached"
    BY EventType
  <2>3. inbox' = inbox \o <<m>>
    BY <2>1 DEF BrowserDetaches, Reports
  <2> HIDE DEF m
  <2>4. UNCHANGED <<handlerVars, loopVars, outbox, fetches, tab>>
    BY <2>1 DEF BrowserDetaches, Reports
  <2>5. attached[s] \in Tabs /\ attached' = [attached EXCEPT ![s] = "gone"]
    BY <2>1 DEF BrowserDetaches
  <2>6. /\ attached' \in [Sessions -> Tabs \cup {"unused", "gone"}]
        /\ \A q \in Sessions : attached'[q] = "unused" <=> attached[q] = "unused"
    BY <2>5, NullAssumption
  <2>7. \A i \in 1..Len(<<m>>) : <<m>>[i].type \notin {"response", "attached"}
    BY <1>2, <2>2
  <2>8. <<m>> \in Seq(Message)
    BY <1>2, <2>2
  <2>9. detaches' \in 0..MaxDetaches
    BY <2>1, BoundsAssumption DEF BrowserDetaches
  <2> QED BY <2>3, <2>4, <2>6, <2>7, <2>8, <2>9
<1> QED BY <1>3, <1>4, <1>5, <1>6, <1>7 DEF BrowserAlone

LEMMA BrowserAloneTypes ==
  ASSUME TypesOK, BrowserAlone PROVE TypesOK'
<1>1. /\ UNCHANGED <<handlerVars, loopVars, outbox, fetches>> /\ detaches' \in 0..MaxDetaches
      /\ tab' \in [Tabs -> {"free", "open", "closing", "gone"}]
      /\ attached' \in [Sessions -> Tabs \cup {"unused", "gone"}]
  BY BrowserAloneFacts
<1>2. PICK report \in Seq(Message) : inbox' = inbox \o report
  BY BrowserAloneFacts
<1>3. inbox' \in Seq(Message) /\ outbox' \in Seq(Command)
  BY <1>1, <1>2, TypesParts
<1> QED BY <1>1, <1>3, BrowserTypes

\* A command is served: what leaves the outbox and what comes into the inbox.
LEMMA ServesFacts ==
  ASSUME TypesOK, NEW cmd, NEW answer, Serves(cmd, answer)
  PROVE /\ UNCHANGED <<handlerVars, loopVars, fetches, detaches>>
        /\ outbox' \in Seq(Command) /\ Len(outbox') = Len(outbox) - 1
        /\ \A i \in 1..Len(outbox') : i + 1 \in 1..Len(outbox) /\ outbox'[i] = outbox[i + 1]
        /\ inbox' \in Seq(Message) /\ inbox' = inbox \o answer
        /\ tab' \in [Tabs -> {"free", "open", "closing", "gone"}]
        /\ attached' \in [Sessions -> Tabs \cup {"unused", "gone"}]
<1> USE TypesParts
<1>1. outbox' = Tail(outbox) /\ inbox' = inbox \o answer /\ answer \in Seq(Message)
      /\ UNCHANGED <<handlerVars, loopVars, fetches, detaches>> /\ outbox # <<>>
  BY DEF Serves, Answers
<1>2. /\ outbox' \in Seq(Command) /\ Len(outbox') = Len(outbox) - 1
      /\ \A i \in 1..Len(outbox') : i + 1 \in 1..Len(outbox) /\ outbox'[i] = outbox[i + 1]
      /\ inbox' \in Seq(Message)
  BY <1>1
<1>3. /\ tab' \in [Tabs -> {"free", "open", "closing", "gone"}]
      /\ attached' \in [Sessions -> Tabs \cup {"unused", "gone"}]
  <2>1. CASE Opened(cmd, answer)
    <3>1. attached' = attached /\ \E t \in Tabs : tab' = [tab EXCEPT ![t] = "open"]
      BY <2>1 DEF Opened
    <3> QED BY <3>1
  <2>2. CASE AttachedTo(cmd, answer)
    <3>1. tab' = tab /\ \E s \in Sessions : attached' = [attached EXCEPT ![s] = cmd.tab]
          /\ cmd.tab \in Tabs
      BY <2>2 DEF AttachedTo
    <3> QED BY <3>1
  <2>3. CASE Told(cmd, answer)
    <3>1. attached' = attached /\ tab' \in [Tabs -> {"free", "open", "closing", "gone"}]
      BY <2>3 DEF Told
    <3> QED BY <3>1
  <2>4. CASE Denied(cmd, answer)
    BY <2>4 DEF Denied
  <2> QED BY <2>1, <2>2, <2>3, <2>4 DEF Serves
<1> QED BY <1>1, <1>2, <1>3

LEMMA ServesTypes ==
  ASSUME TypesOK, BrowserServes PROVE TypesOK'
<1>1. PICK cmd, answer : Serves(cmd, answer)
  BY BrowserServesFacts
<1> HIDE DEF Serves
<1>2. /\ UNCHANGED <<handlerVars, loopVars, fetches, detaches>>
      /\ outbox' \in Seq(Command) /\ inbox' \in Seq(Message)
      /\ tab' \in [Tabs -> {"free", "open", "closing", "gone"}]
      /\ attached' \in [Sessions -> Tabs \cup {"unused", "gone"}]
  BY <1>1, ServesFacts
<1>3. detaches' \in 0..MaxDetaches
  BY <1>2, TypesParts
<1> QED BY <1>2, <1>3, BrowserTypes

\* A step reads one message.
LEMMA ReadMessageIs ==
  ReadMessage <=> \E m : Reads(m) /\ (Events(m) \/ OnResponse(m))
<1>1. ASSUME NEW m, Reads(m) PROVE m \in {inbox[i] : i \in 1..Len(inbox)}
  <2>1. inbox # <<>> /\ m = Head(inbox)
    BY <1>1 DEF Reads
  <2> QED BY <2>1
<1> QED BY <1>1 DEF ReadMessage, Events

LEMMA NextIs ==
  ASSUME Next
  PROVE \/ \E c \in Callers : NewPage(c)
        \/ FetchTargets
        \/ \E t \in Tabs : GetPage(t)
        \/ \E t \in Tabs : PollStep(t) \/ ChainTimesOut(t)
        \/ BeginTargets \/ NextTarget \/ EndTargets \/ EndPass
        \/ \E m : Reads(m) /\ Events(m)
        \/ \E m : Reads(m) /\ OnResponse(m)
        \/ BrowserServes
        \/ BrowserAlone
BY ReadMessageIs DEF Next, HandlerStep, BrowserAlone

LEMMA TypesInit == Init => TypesOK
<1> SUFFICES ASSUME Init PROVE TypesOK
  OBVIOUS
<1>1. /\ outcome \in [Callers -> Outcomes] /\ targets \in [Tabs -> Target]
      /\ target_ids \in Seq(Tabs) /\ cursor \in 0..Len(target_ids)
      /\ sessions \in [Sessions -> Tabs \cup {NoTab}]
  BY NewTargetType DEF Init, Outcomes
<1>2. /\ outbox \in Seq(Command) /\ inbox \in Seq(Message) /\ pending \subseteq PendingRecord
      /\ attached \in [Sessions -> Tabs \cup {"unused", "gone"}]
      /\ tab \in [Tabs -> {"free", "open", "closing", "gone"}]
  BY DEF Init
<1>3. /\ phase \in {"top", "targets", "conn"} /\ next_id \in Nat
      /\ \A p \in pending : p.id < next_id
      /\ \A p, q \in pending : p.id = q.id => p = q
      /\ fetches \in 0..MaxFetches /\ detaches \in 0..MaxDetaches
  BY BoundsAssumption DEF Init
<1> QED BY <1>1, <1>2, <1>3 DEF TypesOK, TypeOK, ChannelsOK

LEMMA TypesNext ==
  ASSUME TypesOK, AnswersMatch, Next PROVE TypesOK'
<1>1. CASE \E m : Reads(m) /\ OnResponse(m)
  BY <1>1, ResponseTypes
<1>2. CASE \E m : Reads(m) /\ Events(m)
  BY <1>2, EventTypes
<1>3. CASE \E t \in Tabs : PollStep(t) \/ ChainTimesOut(t)
  BY <1>3, PollTypes
<1>4. CASE BeginTargets \/ NextTarget \/ EndTargets \/ EndPass
  BY <1>4, LoopTypes
<1> QED BY <1>1, <1>2, <1>3, <1>4, NextIs, NewPageTypes, FetchTargetsTypes, GetPageTypes,
           ServesTypes, BrowserAloneTypes

-----------------------------------------------------------------------------
(* Answers *)

\* What is on its way was on its way before, or is new and fits.
LEMMA MatchKeeps ==
  ASSUME TypesOK, AnswersMatch, next_id' \in Nat, next_id' >= next_id,
         \A q \in pending' : q \in pending \/ (q.id \in Nat /\ q.id >= next_id),
         \A i \in 1..Len(outbox') : \/ \E j \in 1..Len(outbox) : outbox'[i] = outbox[j]
                                    \/ OutFits(outbox'[i], pending', next_id'),
         \A i \in 1..Len(inbox') : \/ \E j \in 1..Len(inbox) : inbox'[i] = inbox[j]
                                   \/ InFits(inbox'[i], pending', next_id')
  PROVE AnswersMatch'
<1>1. next_id \in Nat /\ outbox \in Seq(Command) /\ inbox \in Seq(Message)
  BY TypesParts DEF PendingOK
<1>2. ASSUME NEW j \in 1..Len(outbox) PROVE OutFits(outbox[j], pending', next_id')
  <2>1. outbox[j].id \in Nat
    <3>1. outbox[j] \in Command
      BY <1>1
    <3> QED BY <3>1, RecordTypes
  <2>2. OutFits(outbox[j], pending, next_id)
    BY DEF AnswersMatch
  <2> QED BY <1>1, <2>1, <2>2 DEF OutFits
<1>3. ASSUME NEW j \in 1..Len(inbox) PROVE InFits(inbox[j], pending', next_id')
  <2>1. inbox[j].id \in Nat
    <3>1. inbox[j] \in Message
      BY <1>1
    <3> QED BY <3>1, RecordTypes
  <2>2. InFits(inbox[j], pending, next_id)
    BY DEF AnswersMatch
  <2> QED BY <1>1, <2>1, <2>2 DEF InFits
<1> QED BY <1>2, <1>3 DEF AnswersMatch

LEMMA SubmitMatches ==
  ASSUME TypesOK, AnswersMatch, NEW cmd \in Command, NEW p \in PendingRecord,
         cmd.id = next_id, p.id = next_id, p.kind = "create" => cmd.kind = "create",
         Submit(cmd, p), UNCHANGED inbox
  PROVE AnswersMatch'
<1> USE TypesParts
<1>1. next_id \in Nat /\ outbox' = Append(outbox, cmd) /\ pending' = pending \cup {p}
      /\ next_id' = next_id + 1
  BY DEF Submit, PendingOK
<1>2. \A q \in pending : q.id \in Nat /\ q.id < next_id
  BY RecordTypes DEF PendingOK
<1>3. OutFits(cmd, pending', next_id')
  BY <1>1, <1>2 DEF OutFits
<1>4. \A i \in 1..Len(outbox') : \/ \E j \in 1..Len(outbox) : outbox'[i] = outbox[j]
                                 \/ outbox'[i] = cmd
  BY <1>1
<1>5. \A i \in 1..Len(inbox') : \E j \in 1..Len(inbox) : inbox'[i] = inbox[j]
  OBVIOUS
<1>6. \A q \in pending' : q \in pending \/ (q.id \in Nat /\ q.id >= next_id)
  BY <1>1
<1>7. next_id' \in Nat /\ next_id' >= next_id
  BY <1>1
<1>8. \A i \in 1..Len(outbox') : \/ \E j \in 1..Len(outbox) : outbox'[i] = outbox[j]
                                 \/ OutFits(outbox'[i], pending', next_id')
  BY <1>3, <1>4
<1> QED BY <1>5, <1>6, <1>7, <1>8, MatchKeeps

\* A message is read, and commands leave the table.
LEMMA ReadMatches ==
  ASSUME TypesOK, AnswersMatch, NEW m, Reads(m), pending' \subseteq pending,
         next_id' \in Nat, next_id' >= next_id,
         \A i \in 1..Len(outbox') : \/ \E j \in 1..Len(outbox) : outbox'[i] = outbox[j]
                                    \/ OutFits(outbox'[i], pending', next_id')
  PROVE AnswersMatch'
<1>1. inbox \in Seq(Message)
  BY TypesParts
<1>2. \A i \in 1..Len(inbox') : \E j \in 1..Len(inbox) : inbox'[i] = inbox[j]
  BY <1>1, ReadsFacts
<1> QED BY <1>2, MatchKeeps

LEMMA GrowFacts ==
  ASSUME NEW S, NEW q \in Seq(S), NEW r \in Seq(S)
  PROVE /\ Len(q) \in Nat /\ Len(r) \in Nat /\ Len(q \o r) = Len(q) + Len(r)
        /\ \A i \in 1..Len(q) : i \in 1..Len(q \o r) /\ (q \o r)[i] = q[i]
        /\ \A i \in 1..Len(r) : (q \o r)[Len(q) + i] = r[i]
        /\ \A i \in 1..Len(q \o r) :
             \/ i \in 1..Len(q) /\ (q \o r)[i] = q[i]
             \/ i > Len(q) /\ i - Len(q) \in 1..Len(r) /\ (q \o r)[i] = r[i - Len(q)]
OBVIOUS

LEMMA GrownMatches ==
  ASSUME TypesOK, AnswersMatch, UNCHANGED <<pending, next_id>>,
         \A i \in 1..Len(outbox') : \E j \in 1..Len(outbox) : outbox'[i] = outbox[j],
         NEW answer \in Seq(Message), inbox' = inbox \o answer,
         \A i \in 1..Len(answer) : InFits(answer[i], pending, next_id)
  PROVE AnswersMatch'
<1>1. inbox \in Seq(Message) /\ next_id \in Nat
  BY TypesParts DEF PendingOK
<1>2. \A i \in 1..Len(inbox') : \/ \E j \in 1..Len(inbox) : inbox'[i] = inbox[j]
                                \/ InFits(inbox'[i], pending', next_id')
  BY <1>1, GrowFacts
<1> QED BY <1>1, <1>2, MatchKeeps

-----------------------------------------------------------------------------
(* Sessions *)

\* What inbox' announces, inbox announced d places later.
AnnouncedBefore(d) ==
  \A i \in 1..Len(inbox') : Announces(inbox'[i]) =>
    i + d \in 1..Len(inbox) /\ inbox'[i] = inbox[i + d]

\* A session becomes known only when its announcement is read.
LEMMA SessionsKeep ==
  ASSUME TypesOK, SessionsAreNew, NEW d \in Nat, AnnouncedBefore(d),
         inbox' \in Seq(Message), sessions' \in [Sessions -> Tabs \cup {NoTab}],
         \A s \in Sessions : attached'[s] = "unused" <=> attached[s] = "unused",
         \A s \in Sessions : sessions[s] = NoTab =>
           \/ sessions'[s] = NoTab
           \/ /\ attached[s] # "unused"
              /\ \A i \in 1..Len(inbox') : Announces(inbox'[i]) => inbox'[i].session # s
  PROVE SessionsAreNew'
<1>1. inbox \in Seq(Message) /\ Len(inbox) \in Nat /\ Len(inbox') \in Nat
  BY TypesParts
<1>2. \A i \in 1..Len(inbox') : Announces(inbox'[i]) => inbox'[i].session \in Sessions
  <2> TAKE i \in 1..Len(inbox')
  <2>1. inbox'[i] \in Message
    BY <1>1
  <2> QED BY <2>1, RecordTypes DEF Announces
<1>3. \A i \in 1..Len(inbox') : Announces(inbox'[i]) =>
        sessions'[inbox'[i].session] = NoTab /\ attached'[inbox'[i].session] # "unused"
  BY <1>2 DEF AnnouncedBefore, SessionsAreNew
<1>4. \A i, j \in 1..Len(inbox') :
        Announces(inbox'[i]) /\ Announces(inbox'[j]) /\ inbox'[i].session = inbox'[j].session
        => i = j
  <2> SUFFICES ASSUME NEW i \in 1..Len(inbox'), NEW j \in 1..Len(inbox'),
                      Announces(inbox'[i]), Announces(inbox'[j]),
                      inbox'[i].session = inbox'[j].session
               PROVE i = j
    OBVIOUS
  <2>1. i + d \in 1..Len(inbox) /\ inbox'[i] = inbox[i + d]
        /\ j + d \in 1..Len(inbox) /\ inbox'[j] = inbox[j + d]
    BY DEF AnnouncedBefore
  <2>2. i + d = j + d
    BY <2>1 DEF SessionsAreNew
  <2> QED BY <1>1, <2>2
<1>5. \A s \in Sessions : attached'[s] = "unused" => sessions'[s] = NoTab
  BY DEF SessionsAreNew
<1> QED BY <1>3, <1>4, <1>5 DEF SessionsAreNew, Announces

\* A target's session stays, or it is taken from it.
LEMMA AgreeKeeps ==
  ASSUME SessionsAgree, UNCHANGED sessions,
         \A t \in Tabs : \/ targets'[t].session = NoSession
                         \/ targets'[t].state = "untracked"
                         \/ /\ targets'[t].session = targets[t].session
                            /\ targets[t].state # "untracked"
  PROVE SessionsAgree'
BY DEF SessionsAgree, Tracked

\* A target attached to gets a session nobody used.
LEMMA AttachedAgrees ==
  ASSUME TypesOK, SessionsAreNew, SessionsAgree, NEW m, Reads(m), OnAttached(m)
  PROVE SessionsAgree' /\ SessionsAreNew'
<1> USE TypesParts
<1>1. /\ Len(inbox) \in Nat \ {0} /\ m = inbox[1] /\ m \in Message /\ inbox' \in Seq(Message)
      /\ Len(inbox') = Len(inbox) - 1
      /\ \A i \in 1..Len(inbox') : i + 1 \in 1..Len(inbox) /\ inbox'[i] = inbox[i + 1]
      /\ UNCHANGED attached
  BY ReadsFacts
<1>2. m.session \in Sessions /\ m.tab \in Tabs /\ Announces(m)
  BY <1>1, RecordTypes DEF OnAttached, Announces
<1>3. sessions[m.session] = NoTab /\ attached[m.session] # "unused"
  BY <1>1, <1>2 DEF SessionsAreNew
<1>4. sessions' = [sessions EXCEPT ![m.session] = m.tab]
  BY DEF OnAttached
<1>5. SessionsAgree'
  <2>1. \A t \in Tabs : Tracked(t) => targets[t].session # m.session
    <3>1. m.session # NoSession /\ NoTab \notin Tabs
      BY <1>2, NullAssumption
    <3> QED BY <1>3, <3>1 DEF SessionsAgree
  <2>2. \A u \in Tabs : /\ targets'[u].state = targets[u].state
                        /\ targets'[u].session = IF u = m.tab /\ Tracked(u) THEN m.session
                                                 ELSE targets[u].session
    <3>1. CASE Tracked(m.tab)
      <4>1. targets' = [targets EXCEPT ![m.tab].session = m.session]
        BY <3>1 DEF OnAttached
      <4> QED BY <1>2, <3>1, <4>1, SessionSet
    <3>2. CASE ~Tracked(m.tab)
      BY <3>2 DEF OnAttached
    <3> QED BY <3>1, <3>2
  <2>3. \A t \in Tabs : targets[t].session \in Sessions \cup {NoSession}
    BY DEF Target
  <2> QED BY <1>2, <1>4, <2>1, <2>2, <2>3 DEF SessionsAgree, Tracked
<1>6. SessionsAreNew'
  <2>1. AnnouncedBefore(1)
    BY <1>1 DEF AnnouncedBefore
  <2>2. \A i \in 1..Len(inbox') : Announces(inbox'[i]) => inbox'[i].session # m.session
    <3> TAKE i \in 1..Len(inbox')
    <3>1. i + 1 \in 1..Len(inbox) /\ inbox'[i] = inbox[i + 1] /\ 1 \in 1..Len(inbox)
          /\ i + 1 # 1
      BY <1>1
    <3> QED BY <1>1, <1>2, <3>1 DEF SessionsAreNew
  <2>3. sessions' \in [Sessions -> Tabs \cup {NoTab}]
    BY <1>2, <1>4
  <2>4. \A s \in Sessions : s # m.session => sessions'[s] = sessions[s]
    BY <1>4
  <2> QED BY <1>1, <1>3, <2>1, <2>2, <2>3, <2>4, SessionsKeep
<1> QED BY <1>5, <1>6

\* The other messages.
LEMMA DetachedAgrees ==
  ASSUME TypesOK, SessionsAgree, NEW m, m.session \in Sessions, OnDetached(m)
  PROVE SessionsAgree' /\ \A s \in Sessions : sessions'[s] \in {sessions[s], NoTab}
<1> USE TypesParts
<1> DEFINE t == sessions[m.session]
<1>1. sessions' = [sessions EXCEPT ![m.session] = NoTab]
  BY DEF OnDetached
<1>2. \A u \in Tabs : Tracked(u) /\ targets[u].session = m.session => u = t
  <2>1. m.session # NoSession
    BY NullAssumption
  <2> QED BY <2>1 DEF SessionsAgree
<1>3. \A u \in Tabs : /\ targets'[u].state = targets[u].state
                      /\ targets'[u].session = IF u = t /\ Tracked(u) THEN NoSession
                                               ELSE targets[u].session
  <2>1. CASE t # NoTab /\ Tracked(t)
    <3>1. targets' = [targets EXCEPT ![t].session = NoSession]
      BY <2>1 DEF OnDetached
    <3> QED BY <2>1, <3>1, SessionSet
  <2>2. CASE ~(t # NoTab /\ Tracked(t))
    <3>1. targets' = targets /\ NoTab \notin Tabs
      BY <2>2, NullAssumption DEF OnDetached
    <3> QED BY <2>2, <3>1
  <2> QED BY <2>1, <2>2
<1>4. \A u \in Tabs : targets[u].session \in Sessions \cup {NoSession}
  BY DEF Target
<1> HIDE DEF t
<1>5. SessionsAgree'
  BY <1>1, <1>2, <1>3, <1>4 DEF SessionsAgree, Tracked
<1> QED BY <1>1, <1>5

LEMMA DestroyedAgrees ==
  ASSUME TypesOK, SessionsAgree, NEW m, m.tab \in Tabs, OnDestroyed(m)
  PROVE SessionsAgree' /\ \A s \in Sessions : sessions'[s] \in {sessions[s], NoTab}
<1> USE TypesParts
<1> DEFINE gone == {targets[t].session : t \in {u \in {m.tab} : Tracked(u)}}
<1>1. \A s \in Sessions : sessions'[s] = IF s \in gone THEN NoTab ELSE sessions[s]
  BY DEF OnDestroyed
<1>2. \A s \in gone : Tracked(m.tab) /\ s = targets[m.tab].session
  OBVIOUS
<1>3. targets' = [targets EXCEPT ![m.tab] = NoTarget] /\ NoTarget.state = "untracked"
  BY DEF OnDestroyed, NoTarget, NewTarget
<1>4. \A u \in Tabs : targets[u].session \in Sessions \cup {NoSession}
  BY DEF Target
<1> HIDE DEF gone
<1>5. \A u \in Tabs : u # m.tab => targets'[u] = targets[u]
  BY <1>3
<1>6. targets'[m.tab].state = "untracked"
  BY <1>3
<1>7. \A u \in Tabs : u # m.tab /\ Tracked(u) /\ targets[u].session # NoSession =>
        targets[u].session \notin gone
  BY <1>2 DEF SessionsAgree
<1>8. SessionsAgree'
  BY <1>1, <1>4, <1>5, <1>6, <1>7 DEF SessionsAgree, Tracked
<1> QED BY <1>1, <1>8

\* The browser announces a session it has not used.
LEMMA AttachedToIsNew ==
  ASSUME TypesOK, SessionsAreNew, UNCHANGED sessions, NEW s \in Sessions,
         attached[s] = "unused", NEW t \in Tabs, attached' = [attached EXCEPT ![s] = t],
         NEW answer \in Seq(Message), inbox' = inbox \o answer,
         \A i \in 1..Len(answer) : Announces(answer[i]) => i = 1 /\ answer[i].session = s
  PROVE SessionsAreNew'
<1> USE TypesParts
<1>1. /\ Len(inbox) \in Nat /\ Len(answer) \in Nat
      /\ \A i \in 1..Len(inbox') :
             \/ i \in 1..Len(inbox) /\ inbox'[i] = inbox[i]
             \/ i > Len(inbox) /\ i - Len(inbox) \in 1..Len(answer)
                /\ inbox'[i] = answer[i - Len(inbox)]
  BY GrowFacts
<1>2. sessions[s] = NoTab /\ \A i \in 1..Len(inbox) : Announces(inbox[i]) => inbox[i].session # s
  BY DEF SessionsAreNew
<1>3. t # "unused" /\ attached'[s] = t
      /\ \A q \in Sessions : q # s => attached'[q] = attached[q]
  BY NullAssumption
<1>4. \A i \in 1..Len(inbox) : Announces(inbox[i]) => inbox[i].session \in Sessions
  <2> TAKE i \in 1..Len(inbox)
  <2>1. inbox[i] \in Message
    OBVIOUS
  <2> QED BY <2>1, RecordTypes DEF Announces
<1>5. \A i \in 1..Len(inbox') : Announces(inbox'[i]) =>
        \/ i \in 1..Len(inbox) /\ inbox'[i] = inbox[i] /\ inbox'[i].session # s
        \/ i = Len(inbox) + 1 /\ inbox'[i].session = s
  <2> SUFFICES ASSUME NEW i \in 1..Len(inbox'), Announces(inbox'[i])
               PROVE \/ i \in 1..Len(inbox) /\ inbox'[i] = inbox[i] /\ inbox'[i].session # s
                     \/ i = Len(inbox) + 1 /\ inbox'[i].session = s
    OBVIOUS
  <2>1. CASE i \in 1..Len(inbox) /\ inbox'[i] = inbox[i]
    <3>1. Announces(inbox[i])
      BY <2>1
    <3> QED BY <1>2, <2>1, <3>1
  <2>2. CASE i > Len(inbox) /\ i - Len(inbox) \in 1..Len(answer)
             /\ inbox'[i] = answer[i - Len(inbox)]
    <3> DEFINE k == i - Len(inbox)
    <3>1. k \in 1..Len(answer) /\ inbox'[i] = answer[k] /\ i = Len(inbox) + k
      BY <1>1, <2>2
    <3> HIDE DEF k
    <3>2. Announces(answer[k])
      BY <3>1
    <3>3. k = 1 /\ answer[k].session = s
      BY <3>1, <3>2
    <3> QED BY <3>1, <3>3
  <2> QED BY <1>1, <2>1, <2>2
<1>6. \A i \in 1..Len(inbox') : Announces(inbox'[i]) =>
        sessions'[inbox'[i].session] = NoTab /\ attached'[inbox'[i].session] # "unused"
  BY <1>2, <1>3, <1>4, <1>5 DEF SessionsAreNew
<1>7. \A i, j \in 1..Len(inbox') :
        Announces(inbox'[i]) /\ Announces(inbox'[j]) /\ inbox'[i].session = inbox'[j].session
        => i = j
  <2> SUFFICES ASSUME NEW i \in 1..Len(inbox'), NEW j \in 1..Len(inbox'),
                      Announces(inbox'[i]), Announces(inbox'[j]),
                      inbox'[i].session = inbox'[j].session
               PROVE i = j
    OBVIOUS
  <2>1. \/ i \in 1..Len(inbox) /\ inbox'[i] = inbox[i] /\ inbox'[i].session # s
        \/ i = Len(inbox) + 1 /\ inbox'[i].session = s
    BY <1>5
  <2>2. \/ j \in 1..Len(inbox) /\ inbox'[j] = inbox[j] /\ inbox'[j].session # s
        \/ j = Len(inbox) + 1 /\ inbox'[j].session = s
    BY <1>5
  <2>3. CASE i = Len(inbox) + 1
    BY <2>1, <2>2, <2>3
  <2>4. CASE i \in 1..Len(inbox) /\ inbox'[i] = inbox[i] /\ inbox'[i].session # s
    <3>1. j \in 1..Len(inbox) /\ inbox'[j] = inbox[j]
      BY <2>2, <2>4
    <3>2. Announces(inbox[i]) /\ Announces(inbox[j]) /\ inbox[i].session = inbox[j].session
      BY <2>4, <3>1
    <3> QED BY <2>4, <3>1, <3>2 DEF SessionsAreNew
  <2> QED BY <2>1, <2>3, <2>4
<1>8. \A q \in Sessions : attached'[q] = "unused" => sessions'[q] = NoTab
  BY <1>3 DEF SessionsAreNew
<1> QED BY <1>6, <1>7, <1>8 DEF SessionsAreNew, Announces

-----------------------------------------------------------------------------
(* Callers *)

\* Senders go only with their callers told.
LEMMA PlaceLess ==
  ASSUME OnePlace,
         \A p \in pending' : p.caller \in Callers => p \in pending,
         \A t \in Tabs : targets'[t].initiator \in Callers =>
           targets'[t].initiator = targets[t].initiator /\ targets'[t].state # "untracked",
         \A c \in Callers : outcome'[c] = "waiting" <=>
           /\ outcome[c] = "waiting"
           /\ \/ \E p \in pending' : p.caller = c
              \/ \E t \in Tabs : targets'[t].initiator = c
  PROVE OnePlace'
<1>1. \A p, q \in pending' : p.caller \in Callers /\ p.caller = q.caller => p = q
  BY DEF OnePlace
<1>2. \A t, u \in Tabs : targets'[t].initiator \in Callers
                         /\ targets'[t].initiator = targets'[u].initiator => t = u
  BY DEF OnePlace
<1>3. \A p \in pending', t \in Tabs : p.caller \in Callers => p.caller # targets'[t].initiator
  BY DEF OnePlace
<1>4. \A c \in Callers :
       (\E p \in pending' : p.caller = c) \/ (\E t \in Tabs : targets'[t].initiator = c)
       => outcome[c] = "waiting"
  BY DEF OnePlace
<1>5. \A c \in Callers :
       outcome'[c] = "waiting" <=> \/ \E p \in pending' : p.caller = c
                                   \/ \E t \in Tabs : targets'[t].initiator = c
  BY <1>4
<1>6. \A t \in Tabs : targets'[t].initiator \in Callers => targets'[t].state # "untracked"
  OBVIOUS
<1> QED BY <1>1, <1>2, <1>3, <1>5, <1>6 DEF OnePlace, Tracked

\* Nobody is told and no sender moves.
LEMMA PlaceSame ==
  ASSUME OnePlace, UNCHANGED outcome,
         \A p \in pending' : p.caller \in Callers => p \in pending,
         \A p \in pending : p.caller \in Callers => p \in pending',
         \A t \in Tabs : /\ targets'[t].initiator = targets[t].initiator
                         /\ targets'[t].state = "untracked" <=> targets[t].state = "untracked"
  PROVE OnePlace'
<1>1. \A c \in Callers : outcome'[c] = "waiting" <=>
           /\ outcome[c] = "waiting"
           /\ \/ \E p \in pending' : p.caller = c
              \/ \E t \in Tabs : targets'[t].initiator = c
  BY DEF OnePlace
<1>2. \A t \in Tabs : targets'[t].initiator \in Callers =>
           targets'[t].initiator = targets[t].initiator /\ targets'[t].state # "untracked"
  BY DEF OnePlace, Tracked
<1> QED BY <1>1, <1>2, PlaceLess

\* A new_page begins.
LEMMA PlaceNew ==
  ASSUME OnePlace, TypesOK, UNCHANGED targets, NEW c \in Callers, outcome[c] = "idle",
         outcome' = [outcome EXCEPT ![c] = "waiting"],
         NEW new, new.caller = c, pending' = pending \cup {new}
  PROVE OnePlace'
<1>1. /\ \A p \in pending : p.caller # c
      /\ \A t \in Tabs : targets[t].initiator # c
  BY DEF OnePlace
<1>2. outcome'[c] = "waiting" /\ \A d \in Callers : d # c => outcome'[d] = outcome[d]
  BY TypesParts
<1>3. \A p, q \in pending' : p.caller \in Callers /\ p.caller = q.caller => p = q
  BY <1>1 DEF OnePlace
<1>4. \A p \in pending', t \in Tabs : p.caller \in Callers => p.caller # targets[t].initiator
  BY <1>1 DEF OnePlace
<1>5. \A d \in Callers :
       outcome'[d] = "waiting" <=> \/ \E p \in pending' : p.caller = d
                                   \/ \E t \in Tabs : targets[t].initiator = d
  BY <1>2 DEF OnePlace
<1> QED BY <1>3, <1>4, <1>5 DEF OnePlace, Tracked

\* The sender moves from the table to the created target, which owes nobody its page.
LEMMA PlaceMoves ==
  ASSUME OnePlace, UNCHANGED outcome, NEW p \in pending, p.caller \in Callers,
         pending' = pending \ {p}, NEW t \in Tabs, targets[t].initiator \notin Callers,
         Tracked(t),
         \A u \in Tabs : /\ targets'[u].initiator = IF u = t THEN p.caller
                                                    ELSE targets[u].initiator
                         /\ targets'[u].state = targets[u].state
  PROVE OnePlace'
<1>1. \A q \in pending' : q \in pending /\ (q.caller = p.caller => FALSE)
  BY DEF OnePlace
<1>2. \A q, r \in pending' : q.caller \in Callers /\ q.caller = r.caller => q = r
  BY <1>1 DEF OnePlace
<1>3. \A u, v \in Tabs : targets'[u].initiator \in Callers
                         /\ targets'[u].initiator = targets'[v].initiator => u = v
  BY DEF OnePlace
<1>4. \A q \in pending', u \in Tabs : q.caller \in Callers => q.caller # targets'[u].initiator
  BY <1>1 DEF OnePlace
<1>5. \A c \in Callers :
       outcome'[c] = "waiting" <=> \/ \E q \in pending' : q.caller = c
                                   \/ \E u \in Tabs : targets'[u].initiator = c
  BY <1>1 DEF OnePlace
<1>6. \A u \in Tabs : targets'[u].initiator \in Callers => targets'[u].state # "untracked"
  BY DEF OnePlace, Tracked
<1> QED BY <1>2, <1>3, <1>4, <1>5, <1>6 DEF OnePlace, Tracked

\* The initiator of a target is told.
LEMMA PlaceTold ==
  ASSUME OnePlace, TypesOK, NEW t \in Tabs, NEW r \in Outcomes \ {"waiting"},
         Deliver(targets[t].initiator, r),
         \A p \in pending' : p.caller \in Callers => p \in pending,
         \A p \in pending : p.caller \in Callers => p \in pending',
         targets'[t].state # "untracked",
         \A u \in Tabs :
           /\ targets'[u].initiator = IF u = t THEN NoCaller ELSE targets[u].initiator
           /\ u # t => targets'[u].state = targets[u].state
  PROVE OnePlace'
<1> USE TypesParts
<1> DEFINE c == targets[t].initiator
<1>1. NoCaller \notin Callers /\ c \in Callers \cup {NoCaller}
  BY NullAssumption DEF Target
<1>2. \A d \in Callers : /\ d = c => outcome'[d] # "waiting"
                         /\ d # c => outcome'[d] = outcome[d]
  BY <1>1 DEF Deliver
<1>3. c \in Callers => /\ \A p \in pending' : p.caller # c
                       /\ \A u \in Tabs : targets'[u].initiator # c
  <2> SUFFICES ASSUME c \in Callers
               PROVE /\ \A p \in pending' : p.caller # c
                     /\ \A u \in Tabs : targets'[u].initiator # c
    OBVIOUS
  <2>1. \A p \in pending : p.caller # c
    BY DEF OnePlace
  <2>2. \A u \in Tabs : u # t => targets[u].initiator # c
    BY DEF OnePlace
  <2> QED BY <1>1, <2>1, <2>2
<1>4. \A d \in Callers : outcome'[d] = "waiting" <=>
           /\ outcome[d] = "waiting"
           /\ \/ \E p \in pending' : p.caller = d
              \/ \E u \in Tabs : targets'[u].initiator = d
  <2> TAKE d \in Callers
  <2>1. CASE d = c
    BY <1>2, <1>3, <2>1
  <2>2. CASE d # c
    <3>1. outcome'[d] = outcome[d]
      BY <1>2, <2>2
    <3>2. outcome[d] = "waiting" => \/ \E p \in pending : p.caller = d
                                    \/ \E u \in Tabs : targets[u].initiator = d
      BY DEF OnePlace
    <3>3. (\E p \in pending : p.caller = d) => \E p \in pending' : p.caller = d
      OBVIOUS
    <3>4. \A u \in Tabs : targets[u].initiator = d => targets'[u].initiator = d
      BY <2>2
    <3> QED BY <3>1, <3>2, <3>3, <3>4
  <2> QED BY <2>1, <2>2
<1> HIDE DEF c
<1>5. \A u \in Tabs : targets'[u].initiator \in Callers =>
           targets'[u].initiator = targets[u].initiator /\ targets'[u].state # "untracked"
  BY <1>1 DEF OnePlace, Tracked
<1> QED BY <1>4, <1>5, PlaceLess

\* The targets of a set are replaced or destroyed, and their initiators canceled.
LEMMA PlaceCanceled ==
  ASSUME OnePlace, TypesOK, NEW S \in SUBSET Tabs, Cancel(S),
         \A p \in pending' : p.caller \in Callers => p \in pending,
         \A p \in pending : p.caller \in Callers => p \in pending',
         \A u \in Tabs : /\ u \in S => targets'[u].initiator = NoCaller
                         /\ u \notin S => targets'[u] = targets[u]
  PROVE OnePlace'
<1> USE TypesParts
<1>1. NoCaller \notin Callers
  BY NullAssumption
<1>2. \A c \in Callers : c \in Dropped(S) <=> \E u \in S : targets[u].initiator = c
  BY DEF Dropped, OnePlace
<1>3. \A c \in Callers : outcome'[c] = "waiting" <=> outcome[c] = "waiting" /\ c \notin Dropped(S)
  BY DEF Cancel
<1>4. \A c \in Callers : outcome'[c] = "waiting" <=>
           /\ outcome[c] = "waiting"
           /\ \/ \E p \in pending' : p.caller = c
              \/ \E u \in Tabs : targets'[u].initiator = c
  <2> TAKE c \in Callers
  <2>1. CASE c \in Dropped(S)
    <3>1. PICK u \in S : targets[u].initiator = c
      BY <1>2, <2>1
    <3>2. \A p \in pending' : p.caller # c
      BY <3>1 DEF OnePlace
    <3>3. \A v \in Tabs : targets'[v].initiator # c
      BY <1>1, <3>1 DEF OnePlace
    <3> QED BY <1>3, <2>1, <3>2, <3>3
  <2>2. CASE c \notin Dropped(S)
    <3>1. outcome'[c] = "waiting" <=> outcome[c] = "waiting"
      BY <1>3, <2>2
    <3>2. outcome[c] = "waiting" => \/ \E p \in pending : p.caller = c
                                    \/ \E u \in Tabs : targets[u].initiator = c
      BY DEF OnePlace
    <3>3. \A u \in Tabs : targets[u].initiator = c => u \notin S
      BY <1>2, <2>2
    <3> QED BY <3>1, <3>2, <3>3
  <2> QED BY <2>1, <2>2
<1>5. \A u \in Tabs : targets'[u].initiator \in Callers =>
           targets'[u].initiator = targets[u].initiator /\ targets'[u].state # "untracked"
  BY <1>1 DEF OnePlace, Tracked
<1> QED BY <1>4, <1>5, PlaceLess

\* Commands leave the table, and those who wait for them are told.
LEMMA PlaceEvicted ==
  ASSUME OnePlace, TypesOK, UNCHANGED targets, pending' \subseteq pending,
         \A c \in Callers : outcome'[c] = "waiting" <=>
           outcome[c] = "waiting" /\ \A p \in pending \ pending' : p.caller # c
  PROVE OnePlace'
<1>1. \A c \in Callers : outcome'[c] = "waiting" <=>
           /\ outcome[c] = "waiting"
           /\ \/ \E p \in pending' : p.caller = c
              \/ \E t \in Tabs : targets'[t].initiator = c
  <2> TAKE c \in Callers
  <2>1. CASE \E p \in pending \ pending' : p.caller = c
    <3>1. PICK p \in pending \ pending' : p.caller = c
      BY <2>1
    <3>2. \A q \in pending' : q.caller # c
      BY <3>1 DEF OnePlace
    <3>3. \A t \in Tabs : targets[t].initiator # c
      BY <3>1 DEF OnePlace
    <3> QED BY <3>1, <3>2, <3>3
  <2>2. CASE \A p \in pending \ pending' : p.caller # c
    BY <2>2 DEF OnePlace
  <2> QED BY <2>1, <2>2
<1>2. \A t \in Tabs : targets'[t].initiator \in Callers =>
           targets'[t].initiator = targets[t].initiator /\ targets'[t].state # "untracked"
  BY DEF OnePlace, Tracked
<1> QED BY <1>1, <1>2, PlaceLess

-----------------------------------------------------------------------------
(* Tabs *)

\* The answers to createTarget in inbox' were in inbox d places later.
CreatedBefore(d) ==
  \A i \in 1..Len(inbox') : Creates(inbox'[i]) =>
    i + d \in 1..Len(inbox) /\ inbox'[i] = inbox[i + d]

LEMMA TabsKeep ==
  ASSUME TypesOK, TabsAreNew, NEW d \in Nat, CreatedBefore(d), inbox' \in Seq(Message),
         \A t \in Tabs : tab'[t] = "free" <=> tab[t] = "free",
         \A t \in Tabs : targets[t].initiator = NoCaller =>
           \/ targets'[t].initiator = NoCaller
           \/ /\ tab[t] # "free"
              /\ \A i \in 1..Len(inbox') : Creates(inbox'[i]) => inbox'[i].tab # t
  PROVE TabsAreNew'
<1>1. inbox \in Seq(Message) /\ Len(inbox) \in Nat /\ Len(inbox') \in Nat
  BY TypesParts
<1>2. \A i \in 1..Len(inbox') : Creates(inbox'[i]) =>
        targets'[inbox'[i].tab].initiator = NoCaller /\ tab'[inbox'[i].tab] # "free"
  <2> SUFFICES ASSUME NEW i \in 1..Len(inbox'), Creates(inbox'[i])
               PROVE targets'[inbox'[i].tab].initiator = NoCaller /\ tab'[inbox'[i].tab] # "free"
    OBVIOUS
  <2>1. i + d \in 1..Len(inbox) /\ inbox'[i] = inbox[i + d] /\ inbox'[i].tab \in Tabs
    BY DEF CreatedBefore, Creates
  <2>2. targets[inbox'[i].tab].initiator = NoCaller /\ tab[inbox'[i].tab] # "free"
    BY <2>1 DEF TabsAreNew
  <2> QED BY <2>1, <2>2
<1>3. \A i, j \in 1..Len(inbox') :
        Creates(inbox'[i]) /\ Creates(inbox'[j]) /\ inbox'[i].tab = inbox'[j].tab => i = j
  <2> SUFFICES ASSUME NEW i \in 1..Len(inbox'), NEW j \in 1..Len(inbox'),
                      Creates(inbox'[i]), Creates(inbox'[j]), inbox'[i].tab = inbox'[j].tab
               PROVE i = j
    OBVIOUS
  <2>1. i + d \in 1..Len(inbox) /\ inbox'[i] = inbox[i + d]
        /\ j + d \in 1..Len(inbox) /\ inbox'[j] = inbox[j + d]
    BY DEF CreatedBefore
  <2>2. i + d = j + d
    BY <2>1 DEF TabsAreNew
  <2> QED BY <1>1, <2>2
<1>4. \A t \in Tabs : tab'[t] = "free" => targets'[t].initiator = NoCaller
  BY DEF TabsAreNew
<1> QED BY <1>2, <1>3, <1>4 DEF TabsAreNew, Creates

\* A tab is opened that owes nobody its page.
LEMMA OpenedIsNew ==
  ASSUME TypesOK, TabsAreNew, UNCHANGED targets, NEW t \in Tabs, tab[t] = "free",
         tab' = [tab EXCEPT ![t] = "open"],
         NEW answer \in Seq(Message), inbox' = inbox \o answer,
         \A i \in 1..Len(answer) : Creates(answer[i]) => i = 2 /\ answer[i].tab = t
  PROVE TabsAreNew'
<1>1. /\ Len(inbox) \in Nat /\ Len(answer) \in Nat
      /\ \A i \in 1..Len(inbox') :
             \/ i \in 1..Len(inbox) /\ inbox'[i] = inbox[i]
             \/ i > Len(inbox) /\ i - Len(inbox) \in 1..Len(answer)
                /\ inbox'[i] = answer[i - Len(inbox)]
  <2>1. inbox \in Seq(Message)
    BY TypesParts
  <2> QED BY <2>1, GrowFacts
<1>2. targets[t].initiator = NoCaller
      /\ \A i \in 1..Len(inbox) : Creates(inbox[i]) => inbox[i].tab # t
  BY DEF TabsAreNew
<1>3. tab'[t] = "open" /\ \A u \in Tabs : u # t => tab'[u] = tab[u]
  BY TypesParts
<1>4. ASSUME NEW i \in 1..Len(inbox'), Creates(inbox'[i])
      PROVE \/ i \in 1..Len(inbox) /\ inbox'[i] = inbox[i] /\ inbox'[i].tab # t
               /\ Creates(inbox[i])
            \/ i = Len(inbox) + 2 /\ inbox'[i].tab = t
  <2>1. CASE i \in 1..Len(inbox) /\ inbox'[i] = inbox[i]
    <3>1. Creates(inbox[i])
      BY <1>4, <2>1
    <3> QED BY <1>2, <2>1, <3>1
  <2>2. CASE i > Len(inbox) /\ i - Len(inbox) \in 1..Len(answer)
             /\ inbox'[i] = answer[i - Len(inbox)]
    <3> DEFINE k == i - Len(inbox)
    <3>1. k \in 1..Len(answer) /\ inbox'[i] = answer[k] /\ i = Len(inbox) + k
      BY <1>1, <2>2
    <3> HIDE DEF k
    <3>2. Creates(answer[k])
      BY <1>4, <3>1
    <3>3. k = 2 /\ answer[k].tab = t
      BY <3>1, <3>2
    <3> QED BY <3>1, <3>3
  <2> QED BY <1>1, <2>1, <2>2
<1>5. \A i \in 1..Len(inbox') : Creates(inbox'[i]) =>
        targets'[inbox'[i].tab].initiator = NoCaller /\ tab'[inbox'[i].tab] # "free"
  <2> SUFFICES ASSUME NEW i \in 1..Len(inbox'), Creates(inbox'[i])
               PROVE targets'[inbox'[i].tab].initiator = NoCaller /\ tab'[inbox'[i].tab] # "free"
    OBVIOUS
  <2>1. inbox'[i].tab \in Tabs
    BY DEF Creates
  <2>2. CASE inbox'[i].tab = t
    BY <1>2, <1>3, <2>2
  <2>3. CASE i \in 1..Len(inbox) /\ inbox'[i] = inbox[i] /\ inbox'[i].tab # t
             /\ Creates(inbox[i])
    BY <1>3, <2>1, <2>3 DEF TabsAreNew
  <2> QED BY <1>4, <2>2, <2>3
<1>6. \A i, j \in 1..Len(inbox') :
        Creates(inbox'[i]) /\ Creates(inbox'[j]) /\ inbox'[i].tab = inbox'[j].tab => i = j
  <2> SUFFICES ASSUME NEW i \in 1..Len(inbox'), NEW j \in 1..Len(inbox'),
                      Creates(inbox'[i]), Creates(inbox'[j]), inbox'[i].tab = inbox'[j].tab
               PROVE i = j
    OBVIOUS
  <2>1. CASE inbox'[i].tab = t
    BY <1>4, <2>1
  <2>2. CASE inbox'[i].tab # t
    <3>1. /\ i \in 1..Len(inbox) /\ inbox'[i] = inbox[i] /\ Creates(inbox[i])
          /\ j \in 1..Len(inbox) /\ inbox'[j] = inbox[j] /\ Creates(inbox[j])
      BY <1>4, <2>2
    <3> QED BY <3>1 DEF TabsAreNew
  <2> QED BY <2>1, <2>2
<1>7. \A u \in Tabs : tab'[u] = "free" => targets'[u].initiator = NoCaller
  BY <1>3 DEF TabsAreNew
<1> QED BY <1>5, <1>6, <1>7 DEF TabsAreNew, Creates

-----------------------------------------------------------------------------
(* The loop *)

\* Who is listed stays listed, and who is tracked was.
LEMMA PolledKeep ==
  ASSUME TrackedArePolled,
         \A t \in Tabs : targets'[t].state # "untracked" =>
           \/ Holds(target_ids', t)
           \/ Tracked(t) /\ (Holds(target_ids, t) => Holds(target_ids', t))
  PROVE TrackedArePolled'
BY DEF TrackedArePolled, Tracked

LEMMA HoldsGrown ==
  ASSUME NEW S, NEW q \in Seq(S), NEW r \in Seq(S), NEW s
  PROVE Holds(q \o r, s) <=> Holds(q, s) \/ Holds(r, s)
<1>1. /\ Len(q) \in Nat /\ Len(r) \in Nat /\ Len(q \o r) = Len(q) + Len(r)
      /\ \A i \in 1..Len(q) : i \in 1..Len(q \o r) /\ (q \o r)[i] = q[i]
      /\ \A i \in 1..Len(r) : (q \o r)[Len(q) + i] = r[i]
      /\ \A i \in 1..Len(q \o r) :
             \/ i \in 1..Len(q) /\ (q \o r)[i] = q[i]
             \/ i > Len(q) /\ i - Len(q) \in 1..Len(r) /\ (q \o r)[i] = r[i - Len(q)]
  BY GrowFacts
<1> DEFINE w == q \o r
<1> HIDE DEF w
<1>2. ASSUME NEW i \in 1..Len(w), w[i] = s PROVE Holds(q, s) \/ Holds(r, s)
  BY <1>1, <1>2 DEF Holds, w
<1>3. ASSUME NEW i \in 1..Len(q), q[i] = s PROVE Holds(w, s)
  <2>1. i \in 1..Len(w) /\ w[i] = s
    BY <1>1, <1>3 DEF w
  <2> QED BY <2>1 DEF Holds
<1>4. ASSUME NEW i \in 1..Len(r), r[i] = s PROVE Holds(w, s)
  <2>1. Len(q) + i \in 1..Len(w) /\ w[Len(q) + i] = s
    BY <1>1, <1>4 DEF w
  <2> QED BY <2>1 DEF Holds
<1>5. Holds(w, s) <=> Holds(q, s) \/ Holds(r, s)
  BY <1>2, <1>3, <1>4 DEF Holds
<1> QED BY <1>5 DEF w

LEMMA HoldsAppended ==
  ASSUME NEW S, NEW q \in Seq(S), NEW e \in S, NEW s
  PROVE Holds(Append(q, e), s) <=> Holds(q, s) \/ s = e
<1>1. /\ Len(q) \in Nat /\ Len(Append(q, e)) = Len(q) + 1 /\ Append(q, e)[Len(q) + 1] = e
      /\ \A i \in 1..Len(q) : Append(q, e)[i] = q[i]
  OBVIOUS
<1> DEFINE w == Append(q, e)
<1>2. /\ Len(q) \in Nat /\ Len(w) = Len(q) + 1 /\ w[Len(q) + 1] = e
      /\ \A i \in 1..Len(q) : w[i] = q[i]
  BY <1>1
<1> HIDE DEF w
<1>3. ASSUME Holds(w, s) PROVE Holds(q, s) \/ s = e
  <2>1. PICK i \in 1..Len(w) : w[i] = s
    BY <1>3 DEF Holds
  <2> QED BY <1>2, <2>1 DEF Holds
<1>4. ASSUME Holds(q, s) PROVE Holds(w, s)
  <2>1. PICK i \in 1..Len(q) : q[i] = s
    BY <1>4 DEF Holds
  <2>2. i \in 1..Len(w) /\ w[i] = s
    BY <1>2, <2>1
  <2> QED BY <2>2 DEF Holds
<1>5. ASSUME s = e PROVE Holds(w, s)
  <2>1. Len(q) + 1 \in 1..Len(w) /\ w[Len(q) + 1] = s
    BY <1>2, <1>5
  <2> QED BY <2>1 DEF Holds
<1>6. Holds(w, s) <=> Holds(q, s) \/ s = e
  BY <1>3, <1>4, <1>5
<1> QED BY <1>6 DEF w

-----------------------------------------------------------------------------
(* Steps *)

Promises ==
  AnswersMatch /\ SessionsAreNew /\ SessionsAgree /\ OnePlace /\ TabsAreNew /\ TrackedArePolled
IInv == TypesOK /\ Promises

LEMMA NothingSent ==
  ASSUME AnswersMatch, UNCHANGED <<outbox, inbox, pending, next_id>> PROVE AnswersMatch'
BY DEF AnswersMatch

\* A step of the Handler that reads nothing.
LEMMA HandlerStays ==
  ASSUME IInv, UNCHANGED <<inbox, attached, tab, sessions>>, AnswersMatch', OnePlace',
         \A t \in Tabs :
           /\ targets'[t].session = targets[t].session
           /\ targets'[t].state = "untracked" <=> targets[t].state = "untracked"
           /\ targets'[t].initiator \in {targets[t].initiator, NoCaller}
           /\ Tracked(t) /\ Holds(target_ids, t) => Holds(target_ids', t)
  PROVE Promises'
<1>1. TypesOK /\ AnswersMatch /\ SessionsAreNew /\ SessionsAgree /\ OnePlace /\ TabsAreNew
      /\ TrackedArePolled
  BY DEF IInv, Promises
<1>2. SessionsAreNew'
  BY <1>1 DEF SessionsAreNew, Announces
<1>3. SessionsAgree'
  BY <1>1, AgreeKeeps
<1>4. TabsAreNew'
  BY <1>1 DEF TabsAreNew, Creates
<1>5. TrackedArePolled'
  BY <1>1, PolledKeep DEF Tracked
<1> QED BY <1>2, <1>3, <1>4, <1>5 DEF Promises

LEMMA NewPagePromises ==
  ASSUME IInv, NEW c \in Callers, NewPage(c) PROVE Promises'
<1>1. TypesOK /\ AnswersMatch /\ OnePlace
  BY DEF IInv, Promises
<1> USE TypesParts
<1>2. UNCHANGED <<targets, target_ids, sessions, inbox, attached, tab>> /\ outcome[c] = "idle"
  BY DEF NewPage, browserVars
<1>3. AnswersMatch' /\ OnePlace'
  <2>1. CASE /\ outcome' = [outcome EXCEPT ![c] = "error"]
             /\ UNCHANGED <<outbox, pending, next_id>>
    <3>1. AnswersMatch'
      BY <1>1, <1>2, <2>1, NothingSent
    <3>2. \A d \in Callers : outcome'[d] = "waiting" <=> outcome[d] = "waiting"
      BY <1>1, <1>2, <2>1
    <3> QED BY <1>1, <1>2, <2>1, <3>1, <3>2, PlaceEvicted
  <2>2. CASE /\ outcome' = [outcome EXCEPT ![c] = "waiting"]
             /\ Submit(Cmd("create", NoTab, NoSession, NoCommand),
                       Pending("create", NoTab, NoCommand, c))
    <3> DEFINE cmd == Cmd("create", NoTab, NoSession, NoCommand)
               p == Pending("create", NoTab, NoCommand, c)
    <3>1. next_id \in Nat
      BY <1>1 DEF PendingOK
    <3>2. cmd \in Command /\ cmd.id = next_id /\ cmd.kind = "create"
      BY <3>1 DEF Cmd, Command
    <3>3. p \in PendingRecord /\ p.id = next_id /\ p.caller = c
      BY <3>1 DEF Pending, PendingRecord
    <3>4. Submit(cmd, p)
      BY <2>2
    <3> HIDE DEF cmd, p
    <3>5. AnswersMatch'
      BY <1>1, <1>2, <3>2, <3>3, <3>4, SubmitMatches
    <3>6. pending' = pending \cup {p}
      BY <3>4 DEF Submit
    <3>7. OnePlace'
      BY <1>1, <1>2, <2>2, <3>3, <3>6, PlaceNew
    <3> QED BY <3>5, <3>7
  <2> QED BY <2>1, <2>2 DEF NewPage
<1> QED BY <1>2, <1>3, HandlerStays

LEMMA FetchTargetsPromises ==
  ASSUME IInv, FetchTargets PROVE Promises'
<1>1. TypesOK /\ AnswersMatch /\ OnePlace
  BY DEF IInv, Promises
<1> USE TypesParts
<1>2. UNCHANGED <<outcome, targets, target_ids, sessions, inbox, attached, tab>>
  BY DEF FetchTargets, browserVars
<1> DEFINE cmd == Cmd("getTargets", NoTab, NoSession, NoCommand)
           p == Pending("getTargets", NoTab, NoCommand, NoCaller)
<1>3. next_id \in Nat
  BY <1>1 DEF PendingOK
<1>4. cmd \in Command /\ cmd.id = next_id
  BY <1>3 DEF Cmd, Command
<1>5. p \in PendingRecord /\ p.id = next_id /\ p.caller = NoCaller /\ p.kind = "getTargets"
  BY <1>3 DEF Pending, PendingRecord
<1>6. Submit(cmd, p)
  BY DEF FetchTargets
<1> HIDE DEF cmd, p
<1>7. AnswersMatch'
  BY <1>1, <1>2, <1>4, <1>5, <1>6, SubmitMatches
<1>8. pending' = pending \cup {p} /\ NoCaller \notin Callers
  BY <1>6, NullAssumption DEF Submit
<1>9. OnePlace'
  BY <1>1, <1>2, <1>5, <1>8, PlaceSame
<1> QED BY <1>2, <1>7, <1>9, HandlerStays

LEMMA GetPagePromises ==
  ASSUME IInv, NEW t \in Tabs, GetPage(t) PROVE Promises'
<1>1. TypesOK /\ AnswersMatch /\ OnePlace /\ TypeOK
  BY DEF IInv, Promises, TypesOK
<1>2. UNCHANGED <<outcome, target_ids, sessions, inbox, outbox, pending, next_id, attached, tab>>
  BY DEF GetPage, browserVars
<1>3. TargetsKeep
  BY <1>1, GetPageKeeps
<1>4. AnswersMatch'
  BY <1>1, <1>2, NothingSent
<1>5. OnePlace'
  BY <1>1, <1>2, <1>3, PlaceSame DEF TargetsKeep
<1> QED BY <1>2, <1>3, <1>4, <1>5, HandlerStays DEF TargetsKeep

\* Target::poll
LEMMA PollPromises ==
  ASSUME IInv, NEW t \in Tabs, PollStep(t) \/ ChainTimesOut(t) PROVE Promises'
<1>1. TypesOK /\ AnswersMatch /\ OnePlace /\ TypeOK
  BY DEF IInv, Promises, TypesOK
<1>2. UNCHANGED <<target_ids, sessions, inbox, attached, tab>>
  BY DEF PollStep, Attach, SendNext, Advance, HandOver, ChainTimesOut, browserVars
<1>3. NoCaller \notin Callers
  BY NullAssumption
<1>4. /\ AnswersMatch'
      /\ \A p \in pending' : p.caller \in Callers => p \in pending
      /\ \A p \in pending : p.caller \in Callers => p \in pending'
  <2>1. CASE Attach(t) \/ SendNext(t) \/ ChainTimesOut(t)
    <3>1. PICK cmd \in Command, p \in PendingRecord :
            /\ cmd.id = next_id /\ p.id = next_id /\ p.kind = "internal" /\ p.caller = NoCaller
            /\ Submit(cmd, p)
      BY <1>1, <2>1, PollRequests
    <3>2. AnswersMatch'
      BY <1>1, <1>2, <3>1, SubmitMatches
    <3>3. pending' = pending \cup {p}
      BY <3>1 DEF Submit
    <3> QED BY <1>3, <3>1, <3>2, <3>3
  <2>2. CASE Advance(t) \/ HandOver(t)
    <3>1. UNCHANGED <<outbox, pending, next_id>>
      BY <2>2 DEF Advance, HandOver
    <3> QED BY <1>1, <1>2, <3>1, NothingSent
  <2> QED BY <2>1, <2>2 DEF PollStep
<1>5. CASE Attach(t) \/ SendNext(t) \/ Advance(t)
  <2>1. TargetsKeep
    BY <1>1, <1>5, AttachKeeps, SendNextKeeps, AdvanceKeeps
  <2>2. UNCHANGED outcome
    BY <1>5 DEF Attach, SendNext, Advance
  <2>3. OnePlace'
    BY <1>1, <1>4, <2>1, <2>2, PlaceSame DEF TargetsKeep
  <2> QED BY <1>2, <1>4, <2>1, <2>3, HandlerStays DEF TargetsKeep
<1>6. CASE HandOver(t) \/ ChainTimesOut(t)
  <2>1. /\ targets'[t].state # "untracked"
        /\ \A u \in Tabs :
             /\ targets'[u].session = targets[u].session
             /\ targets'[u].initiator = IF u = t THEN NoCaller ELSE targets[u].initiator
             /\ u # t => targets'[u].state = targets[u].state
    BY <1>1, <1>6, HandOverTakes, ChainTimesOutTakes
  <2>2. targets[t].state # "untracked"
    BY <1>6 DEF HandOver, ChainTimesOut, ChainRuns, Polls, Tracked
  <2>3. Deliver(targets[t].initiator, "page") \/ Deliver(targets[t].initiator, "timeout")
    BY <1>6 DEF HandOver, ChainTimesOut
  <2>4. "page" \in Outcomes \ {"waiting"} /\ "timeout" \in Outcomes \ {"waiting"}
    BY DEF Outcomes
  <2>5. OnePlace'
    BY <1>1, <1>4, <2>1, <2>3, <2>4, PlaceTold
  <2> QED BY <1>2, <1>4, <2>1, <2>2, <2>5, HandlerStays
<1> QED BY <1>5, <1>6 DEF PollStep

\* The loop: who is put back is listed again.
LEMMA LoopPromises ==
  ASSUME IInv, BeginTargets \/ NextTarget \/ EndTargets \/ EndPass PROVE Promises'
<1>1. TypesOK /\ AnswersMatch /\ OnePlace
  BY DEF IInv, Promises
<1>2. UNCHANGED <<targets, sessions, inbox, attached, tab>>
  BY DEF BeginTargets, NextTarget, EndTargets, EndPass, handlerVars, browserVars
<1>3. CASE BeginTargets \/ EndTargets
  <2>1. UNCHANGED <<outcome, target_ids, outbox, pending, next_id>>
    BY <1>3 DEF BeginTargets, EndTargets, handlerVars
  <2>2. AnswersMatch'
    BY <1>1, <1>2, <2>1, NothingSent
  <2>3. OnePlace'
    BY <1>1, <1>2, <2>1, PlaceSame
  <2> QED BY <1>2, <2>1, <2>2, <2>3, HandlerStays
<1>4. CASE NextTarget
  <2>1. UNCHANGED <<outcome, outbox, pending, next_id>>
    BY <1>4 DEF NextTarget
  <2>2. AnswersMatch'
    BY <1>1, <1>2, <2>1, NothingSent
  <2>3. OnePlace'
    BY <1>1, <1>2, <2>1, PlaceSame
  <2>4. \A t \in Tabs : Tracked(t) /\ Holds(target_ids, t) => Holds(target_ids', t)
    <3>1. target_ids \in Seq(Tabs) /\ cursor \in 1..Len(target_ids)
      BY <1>1, <1>4, TypesParts DEF NextTarget
    <3> DEFINE r == SwapRemove(target_ids, cursor)
    <3>2. r \in Seq(Tabs) /\ target_ids[cursor] \in Tabs
      BY <3>1, SwapRemoveFacts
    <3>3. \A t \in Tabs : Holds(target_ids, t) /\ t # target_ids[cursor] => Holds(r, t)
      BY <3>1, SwapRemoveHolds
    <3>4. \/ target_ids' = Append(r, target_ids[cursor])
          \/ ~Tracked(target_ids[cursor]) /\ target_ids' = r
      BY <1>4 DEF NextTarget
    <3> HIDE DEF r
    <3>5. \A t : Holds(Append(r, target_ids[cursor]), t) <=> Holds(r, t) \/ t = target_ids[cursor]
      BY <3>2, HoldsAppended
    <3> QED BY <3>3, <3>4, <3>5
  <2> QED BY <1>2, <2>2, <2>3, <2>4, HandlerStays
<1>5. CASE EndPass
  <2>1. UNCHANGED <<target_ids, outbox, next_id>>
    BY <1>5 DEF EndPass
  <2>2. PICK late \in SUBSET pending :
          /\ pending' = pending \ late
          /\ outcome' = [c \in Callers |->
               IF c \in {p.caller : p \in late} /\ outcome[c] = "waiting"
                 THEN "timeout" ELSE outcome[c]]
    BY <1>5 DEF EndPass
  <2>3. \A c \in Callers : outcome'[c] = "waiting" <=>
          outcome[c] = "waiting" /\ \A p \in pending \ pending' : p.caller # c
    BY <2>2
  <2>4. OnePlace'
    BY <1>1, <1>2, <2>2, <2>3, PlaceEvicted
  <2>5. AnswersMatch'
    <3>1. \A i \in 1..Len(outbox') : \E j \in 1..Len(outbox) : outbox'[i] = outbox[j]
      BY <2>1
    <3>2. \A i \in 1..Len(inbox') : \E j \in 1..Len(inbox) : inbox'[i] = inbox[j]
      BY <1>2
    <3>3. next_id \in Nat
      BY <1>1, TypesParts DEF PendingOK
    <3> QED BY <1>1, <2>1, <2>2, <3>1, <3>2, <3>3, MatchKeeps
  <2> QED BY <1>2, <2>1, <2>4, <2>5, HandlerStays
<1> QED BY <1>3, <1>4, <1>5

\* A step that reads message m.
LEMMA ReadingStays ==
  ASSUME IInv, TypesOK', NEW m, Reads(m), AnswersMatch', SessionsAreNew', SessionsAgree', OnePlace',
         \A t \in Tabs :
           /\ \/ targets'[t].initiator \in {targets[t].initiator, NoCaller}
              \/ Creates(m) /\ t = m.tab
           /\ targets'[t].state # "untracked" =>
                \/ Holds(target_ids', t)
                \/ Tracked(t) /\ (Holds(target_ids, t) => Holds(target_ids', t))
  PROVE Promises'
<1>1. TypesOK /\ TabsAreNew /\ TrackedArePolled
  BY DEF IInv, Promises
<1>2. /\ Len(inbox) \in Nat \ {0} /\ m = inbox[1]
      /\ inbox' \in Seq(Message) /\ Len(inbox') = Len(inbox) - 1
      /\ \A i \in 1..Len(inbox') : i + 1 \in 1..Len(inbox) /\ inbox'[i] = inbox[i + 1]
      /\ UNCHANGED <<tab, attached>>
  BY <1>1, TypesParts, ReadsFacts
<1>3. CreatedBefore(1)
  BY <1>2 DEF CreatedBefore
<1>4. \A t \in Tabs : targets[t].initiator = NoCaller =>
           \/ targets'[t].initiator = NoCaller
           \/ /\ tab[t] # "free"
              /\ \A i \in 1..Len(inbox') : Creates(inbox'[i]) => inbox'[i].tab # t
  <2> SUFFICES ASSUME NEW t \in Tabs, Creates(m), t = m.tab
               PROVE /\ tab[t] # "free"
                     /\ \A i \in 1..Len(inbox') : Creates(inbox'[i]) => inbox'[i].tab # t
    OBVIOUS
  <2>1. 1 \in 1..Len(inbox) /\ Creates(inbox[1])
    BY <1>2
  <2>2. tab[t] # "free"
    BY <1>1, <1>2, <2>1 DEF TabsAreNew
  <2>3. ASSUME NEW i \in 1..Len(inbox'), Creates(inbox'[i]), inbox'[i].tab = t PROVE FALSE
    <3>1. i + 1 \in 1..Len(inbox) /\ Creates(inbox[i + 1]) /\ inbox[i + 1].tab = inbox[1].tab
      BY <1>2, <2>3
    <3>2. i + 1 = 1
      BY <1>1, <2>1, <3>1 DEF TabsAreNew
    <3> QED BY <3>2
  <2> QED BY <2>2, <2>3
<1>5. TabsAreNew'
  BY <1>1, <1>2, <1>3, <1>4, TabsKeep
<1>6. TrackedArePolled'
  BY <1>1, PolledKeep
<1> QED BY <1>5, <1>6 DEF Promises

\* Reading announces nothing but what is read.
LEMMA ReadingAnnounces ==
  ASSUME IInv, TypesOK', NEW m, Reads(m), \A s \in Sessions : sessions'[s] \in {sessions[s], NoTab}
  PROVE SessionsAreNew'
<1>1. TypesOK /\ SessionsAreNew
  BY DEF IInv, Promises
<1>2. /\ Len(inbox) \in Nat \ {0}
      /\ inbox' \in Seq(Message) /\ Len(inbox') = Len(inbox) - 1
      /\ \A i \in 1..Len(inbox') : i + 1 \in 1..Len(inbox) /\ inbox'[i] = inbox[i + 1]
      /\ UNCHANGED <<tab, attached>>
  BY <1>1, TypesParts, ReadsFacts
<1>3. AnnouncedBefore(1)
  BY <1>2 DEF AnnouncedBefore
<1>4. sessions' \in [Sessions -> Tabs \cup {NoTab}]
  BY DEF TypesOK, TypeOK
<1>5. \A s \in Sessions : sessions[s] = NoTab => sessions'[s] = NoTab
  OBVIOUS
<1> QED BY <1>1, <1>2, <1>3, <1>4, <1>5, SessionsKeep

LEMMA EventPromises ==
  ASSUME IInv, TypesOK', NEW m, Reads(m), Events(m) PROVE Promises'
<1>1. TypesOK /\ AnswersMatch /\ SessionsAreNew /\ SessionsAgree /\ OnePlace /\ TypeOK
  BY DEF IInv, Promises, TypesOK
<1> USE TypesParts
<1>2. m \in Message /\ UNCHANGED <<pending, next_id, outbox>>
  BY <1>1, ReadsFacts DEF Events, OnTargetCreated, OnAttached, OnDetached, OnDestroyed, OnLoaded
<1>3. AnswersMatch'
  <2>1. next_id \in Nat /\ \A i \in 1..Len(outbox') : \E j \in 1..Len(outbox) : outbox'[i] = outbox[j]
    BY <1>1, <1>2 DEF PendingOK
  <2> QED BY <1>1, <1>2, <2>1, ReadMatches
<1>4. m.type \in {"targetCreated", "attached", "destroyed"} => m.tab \in Tabs
  BY <1>2, RecordTypes
<1>5. m.type \in {"attached", "detached", "loaded"} => m.session \in Sessions
  BY <1>2, RecordTypes
<1>6. CASE OnTargetCreated(m)
  <2>1. m.tab \in Tabs /\ Cancel({m.tab}) /\ targets' = [targets EXCEPT ![m.tab] = NewTarget]
        /\ target_ids' = Append(target_ids, m.tab) /\ UNCHANGED sessions
    BY <1>4, <1>6 DEF OnTargetCreated
  <2>2. NewTarget.session = NoSession /\ NewTarget.initiator = NoCaller
    BY DEF NewTarget
  <2>3. \A t \in Tabs : /\ t = m.tab => targets'[t] = NewTarget
                        /\ t # m.tab => targets'[t] = targets[t]
    BY <1>1, <2>1
  <2>4. SessionsAreNew'
    BY <2>1, ReadingAnnounces
  <2>5. SessionsAgree'
    <3>1. \A t \in Tabs : \/ targets'[t].session = NoSession
                          \/ targets'[t].state = "untracked"
                          \/ /\ targets'[t].session = targets[t].session
                             /\ targets[t].state # "untracked"
      BY <2>2, <2>3
    <3> QED BY <1>1, <2>1, <3>1, AgreeKeeps
  <2>6. OnePlace'
    <3>1. {m.tab} \in SUBSET Tabs
      BY <2>1
    <3>2. \A u \in Tabs : /\ u \in {m.tab} => targets'[u].initiator = NoCaller
                          /\ u \notin {m.tab} => targets'[u] = targets[u]
      BY <2>2, <2>3
    <3> QED BY <1>1, <1>2, <2>1, <3>1, <3>2, PlaceCanceled
  <2>7. \A t : Holds(target_ids', t) <=> Holds(target_ids, t) \/ t = m.tab
    BY <1>1, <2>1, HoldsAppended
  <2>8. \A t \in Tabs :
          /\ targets'[t].initiator \in {targets[t].initiator, NoCaller}
          /\ targets'[t].state # "untracked" =>
               \/ Holds(target_ids', t)
               \/ Tracked(t) /\ (Holds(target_ids, t) => Holds(target_ids', t))
    BY <2>2, <2>3, <2>7 DEF Tracked
  <2> QED BY <1>3, <2>4, <2>5, <2>6, <2>8, ReadingStays
<1>7. CASE OnDestroyed(m)
  <2>1. m.tab \in Tabs /\ Cancel({m.tab}) /\ targets' = [targets EXCEPT ![m.tab] = NoTarget]
        /\ UNCHANGED target_ids
    BY <1>4, <1>7 DEF OnDestroyed
  <2>2. NoTarget.state = "untracked" /\ NoTarget.initiator = NoCaller
    BY DEF NewTarget, NoTarget
  <2>3. \A t \in Tabs : /\ t = m.tab => targets'[t] = NoTarget
                        /\ t # m.tab => targets'[t] = targets[t]
    BY <1>1, <2>1
  <2>4. SessionsAgree' /\ SessionsAreNew'
    BY <1>1, <1>7, <2>1, DestroyedAgrees, ReadingAnnounces
  <2>5. OnePlace'
    <3>1. {m.tab} \in SUBSET Tabs
      BY <2>1
    <3>2. \A u \in Tabs : /\ u \in {m.tab} => targets'[u].initiator = NoCaller
                          /\ u \notin {m.tab} => targets'[u] = targets[u]
      BY <2>2, <2>3
    <3> QED BY <1>1, <1>2, <2>1, <3>1, <3>2, PlaceCanceled
  <2>6. \A t \in Tabs :
          /\ targets'[t].initiator \in {targets[t].initiator, NoCaller}
          /\ targets'[t].state # "untracked" =>
               \/ Holds(target_ids', t)
               \/ Tracked(t) /\ (Holds(target_ids, t) => Holds(target_ids', t))
    BY <2>1, <2>2, <2>3 DEF Tracked
  <2> QED BY <1>3, <2>4, <2>5, <2>6, ReadingStays
<1>8. CASE OnAttached(m) \/ OnDetached(m) \/ OnLoaded(m)
  <2>1. UNCHANGED <<outcome, target_ids>>
    BY <1>8 DEF OnAttached, OnDetached, OnLoaded
  <2>2. \A t \in Tabs : /\ targets'[t].initiator = targets[t].initiator
                        /\ targets'[t].state = "untracked" <=> targets[t].state = "untracked"
    <3>1. CASE OnAttached(m)
      <4>1. m.session \in Sessions
        BY <1>5, <3>1 DEF OnAttached
      <4>2. \/ targets' = targets
            \/ targets' = [targets EXCEPT ![m.tab].session = m.session]
        BY <3>1 DEF OnAttached
      <4> QED BY <1>1, <4>1, <4>2, SessionSet
    <3>2. CASE OnDetached(m)
      <4>1. \/ targets' = targets
            \/ targets' = [targets EXCEPT ![sessions[m.session]].session = NoSession]
        BY <3>2 DEF OnDetached
      <4> QED BY <1>1, <4>1, SessionSet
    <3>3. CASE OnLoaded(m)
      BY <1>1, <3>3, OnLoadedKeeps DEF TargetsKeep
    <3> QED BY <1>8, <3>1, <3>2, <3>3
  <2>3. SessionsAgree' /\ SessionsAreNew'
    <3>1. CASE OnAttached(m)
      BY <1>1, <3>1, AttachedAgrees
    <3>2. CASE OnDetached(m)
      <4>1. m.session \in Sessions
        BY <1>5, <3>2 DEF OnDetached
      <4> QED BY <1>1, <3>2, <4>1, DetachedAgrees, ReadingAnnounces
    <3>3. CASE OnLoaded(m)
      <4>1. UNCHANGED sessions
        BY <3>3 DEF OnLoaded
      <4>2. TargetsKeep
        BY <1>1, <3>3, OnLoadedKeeps
      <4>3. SessionsAgree'
        BY <1>1, <4>1, <4>2, AgreeKeeps DEF TargetsKeep
      <4> QED BY <4>1, <4>3, ReadingAnnounces
    <3> QED BY <1>8, <3>1, <3>2, <3>3
  <2>4. OnePlace'
    BY <1>1, <1>2, <2>1, <2>2, PlaceSame
  <2> QED BY <1>3, <2>1, <2>2, <2>3, <2>4, ReadingStays DEF Tracked
<1> QED BY <1>6, <1>7, <1>8 DEF Events
\* A response moves the sender of its command, or uses it.
LEMMA CreateAnsweredPromises ==
  ASSUME IInv, TypesOK', NEW m, Reads(m), m.type = "response", NEW p \in pending, p.id = m.id,
         pending' = pending \ {p}, OnCreateResponse(m, p), UNCHANGED sessions
  PROVE Promises'
<1>1. TypesOK /\ AnswersMatch /\ SessionsAgree /\ OnePlace /\ TypeOK /\ TabsAreNew
  BY DEF IInv, Promises, TypesOK
<1> USE TypesParts
<1>2. UNCHANGED <<target_ids, next_id, outbox>> /\ p.kind = "create"
  BY DEF OnCreateResponse
<1>3. AnswersMatch'
  <2>1. next_id \in Nat /\ \A i \in 1..Len(outbox') : \E j \in 1..Len(outbox) : outbox'[i] = outbox[j]
    BY <1>1, <1>2 DEF PendingOK
  <2> QED BY <1>1, <1>2, <2>1, ReadMatches
<1>4. SessionsAreNew'
  BY ReadingAnnounces
<1>5. p \in PendingRecord
  BY <1>1 DEF PendingOK
<1>6. p.caller \in Callers
  BY <1>2, <1>5, RecordTypes
<1>7. m = inbox[1] /\ 1 \in 1..Len(inbox)
  BY <1>1, ReadsFacts
<1>8. m.ok => m.tab \in Tabs
  BY <1>1, <1>2, <1>7 DEF AnswersMatch, InFits
<1>9. CASE m.ok
  <2>1. /\ Tracked(m.tab) /\ UNCHANGED outcome
        /\ \A u \in Tabs :
             /\ targets'[u].session = targets[u].session
             /\ targets'[u].initiator = IF u = m.tab THEN p.caller ELSE targets[u].initiator
             /\ targets'[u].state = targets[u].state
    BY <1>1, <1>6, <1>8, <1>9, OnCreateResponseSets
  <2>2. m.tab \in Tabs /\ Creates(m)
    BY <1>8, <1>9 DEF Creates
  <2>3. targets[m.tab].initiator \notin Callers
    BY <1>1, <1>7, <2>2, NullAssumption DEF TabsAreNew
  <2>4. OnePlace'
    BY <1>1, <1>6, <2>1, <2>2, <2>3, PlaceMoves
  <2>5. SessionsAgree'
    BY <1>1, <2>1, AgreeKeeps
  <2> QED BY <1>2, <1>3, <1>4, <2>1, <2>2, <2>4, <2>5, ReadingStays DEF Tracked
<1>10. CASE ~m.ok
  <2>1. UNCHANGED targets /\ Deliver(p.caller, "error")
    BY <1>10 DEF OnCreateResponse
  <2>2. OnePlace'
    <3>1. pending \ pending' = {p} /\ p.caller # NoCaller
      BY <1>6, NullAssumption
    <3>2. \A c \in Callers : outcome'[c] = "waiting" <=> outcome[c] = "waiting" /\ p.caller # c
      BY <1>1, <1>6, <2>1, <3>1 DEF Deliver
    <3>3. \A c \in Callers : outcome'[c] = "waiting" <=>
            outcome[c] = "waiting" /\ \A q \in pending \ pending' : q.caller # c
      BY <3>1, <3>2
    <3> QED BY <1>1, <2>1, <3>3, PlaceEvicted
  <2>3. SessionsAgree'
    BY <1>1, <2>1, AgreeKeeps
  <2> QED BY <1>2, <1>3, <1>4, <2>1, <2>2, <2>3, ReadingStays DEF Tracked
<1> QED BY <1>9, <1>10

LEMMA ListedPromises ==
  ASSUME IInv, TypesOK', NEW m, Reads(m), NEW p \in pending, p.id = m.id,
         pending' = pending \ {p}, OnGetTargetsResponse(m, p), UNCHANGED sessions
  PROVE Promises'
<1>1. TypesOK /\ AnswersMatch /\ SessionsAgree /\ OnePlace /\ TypeOK
  BY DEF IInv, Promises, TypesOK
<1> USE TypesParts
<1>2. m \in Message
  BY <1>1, ReadsFacts
<1>3. /\ next_id \in Nat /\ next_id' \in Nat /\ next_id' >= next_id
      /\ m.list \in Seq(Tabs) /\ Len(m.list) \in Nat
  BY <1>1, <1>2, ListedTypes DEF PendingOK
<1>4. AnswersMatch'
  <2>1. PICK cmds \in Seq(Command) :
             /\ outbox' = outbox \o cmds
             /\ \A i \in 1..Len(cmds) : /\ cmds[i].kind = "attach"
                                        /\ cmds[i].id >= next_id /\ cmds[i].id < next_id'
    BY <1>1, <1>2, ListedTypes
  <2>2. \A q \in pending' : q.id \in Nat /\ q.id < next_id
    BY <1>1, RecordTypes DEF PendingOK
  <2>3. ASSUME NEW i \in 1..Len(cmds) PROVE OutFits(cmds[i], pending', next_id')
    <3>1. cmds[i] \in Command
      OBVIOUS
    <3>2. cmds[i].id \in Nat
      BY <3>1, RecordTypes
    <3>3. cmds[i].id >= next_id /\ cmds[i].id < next_id'
      BY <2>1
    <3> QED BY <1>3, <2>2, <3>2, <3>3 DEF OutFits
  <2>4. \A i \in 1..Len(outbox') :
             \/ i \in 1..Len(outbox) /\ outbox'[i] = outbox[i]
             \/ i > Len(outbox) /\ i - Len(outbox) \in 1..Len(cmds)
                /\ outbox'[i] = cmds[i - Len(outbox)]
    BY <1>1, <2>1, GrowFacts
  <2>5. \A i \in 1..Len(outbox') : \/ \E j \in 1..Len(outbox) : outbox'[i] = outbox[j]
                                   \/ OutFits(outbox'[i], pending', next_id')
    BY <2>3, <2>4
  <2> QED BY <1>1, <1>3, <2>5, ReadMatches
<1>5. SessionsAreNew'
  BY ReadingAnnounces
<1> DEFINE listed == {m.list[i] : i \in 1..Len(m.list)}
<1>6. /\ Cancel(listed) /\ target_ids' = target_ids \o m.list /\ p.kind = "getTargets"
      /\ targets' = [t \in Tabs |-> IF t \in listed THEN NewTarget ELSE targets[t]]
  BY DEF OnGetTargetsResponse
<1>7. listed \in SUBSET Tabs
  BY <1>3
<1>8. \A t \in listed : Holds(m.list, t)
  BY DEF Holds
<1> HIDE DEF listed
<1>9. NewTarget.session = NoSession /\ NewTarget.initiator = NoCaller
  BY DEF NewTarget
<1>10. \A t \in Tabs : /\ t \in listed => targets'[t] = NewTarget
                       /\ t \notin listed => targets'[t] = targets[t]
  BY <1>6
<1>11. SessionsAgree'
  <2>1. \A t \in Tabs : \/ targets'[t].session = NoSession
                        \/ targets'[t].state = "untracked"
                        \/ /\ targets'[t].session = targets[t].session
                           /\ targets[t].state # "untracked"
    BY <1>9, <1>10
  <2> QED BY <1>1, <2>1, AgreeKeeps
<1>12. OnePlace'
  <2>1. p.caller \notin Callers
    <3>1. p \in PendingRecord
      BY <1>1 DEF PendingOK
    <3> QED BY <1>6, <3>1, RecordTypes
  <2>2. \A u \in Tabs : /\ u \in listed => targets'[u].initiator = NoCaller
                        /\ u \notin listed => targets'[u] = targets[u]
    BY <1>9, <1>10
  <2> QED BY <1>1, <1>6, <1>7, <2>1, <2>2, PlaceCanceled
<1>13. \A t : Holds(target_ids', t) <=> Holds(target_ids, t) \/ Holds(m.list, t)
  BY <1>1, <1>3, <1>6, HoldsGrown
<1>14. \A t \in Tabs :
         /\ targets'[t].initiator \in {targets[t].initiator, NoCaller}
         /\ targets'[t].state # "untracked" =>
              \/ Holds(target_ids', t)
              \/ Tracked(t) /\ (Holds(target_ids, t) => Holds(target_ids', t))
  BY <1>8, <1>9, <1>10, <1>13 DEF Tracked
<1> QED BY <1>4, <1>5, <1>11, <1>12, <1>14, ReadingStays

LEMMA ResponsePromises ==
  ASSUME IInv, TypesOK', NEW m, Reads(m), OnResponse(m) PROVE Promises'
<1>1. TypesOK /\ AnswersMatch /\ SessionsAgree /\ OnePlace /\ TypeOK
  BY DEF IInv, Promises, TypesOK
<1> USE TypesParts
<1>2. m.type = "response" /\ UNCHANGED sessions
  BY DEF OnResponse
<1>3. next_id \in Nat
  BY <1>1 DEF PendingOK
<1>4. SessionsAreNew'
  BY <1>2, ReadingAnnounces
<1>5. CASE UNCHANGED <<outcome, targets, target_ids, pending, next_id, outbox>>
  <2>1. AnswersMatch'
    <3>1. \A i \in 1..Len(outbox') : \E j \in 1..Len(outbox) : outbox'[i] = outbox[j]
      BY <1>5
    <3> QED BY <1>1, <1>3, <1>5, <3>1, ReadMatches
  <2>2. OnePlace'
    BY <1>1, <1>5, PlaceSame
  <2>3. SessionsAgree'
    BY <1>1, <1>2, <1>5, AgreeKeeps
  <2> QED BY <1>4, <1>5, <2>1, <2>2, <2>3, ReadingStays DEF Tracked
<1>6. ASSUME NEW p \in pending, p.id = m.id, pending' = pending \ {p},
             OnCreateResponse(m, p) \/ OnGetTargetsResponse(m, p) \/ OnInternalResponse(m, p)
      PROVE Promises'
  <2>1. CASE OnInternalResponse(m, p)
    <3>1. p \in PendingRecord
      BY <1>1 DEF PendingOK
    <3>2. p.tab \in Tabs /\ p.caller \notin Callers
      BY <2>1, <3>1, RecordTypes DEF OnInternalResponse
    <3>3. TargetsKeep
      BY <1>1, <2>1, <3>2, OnInternalResponseKeeps
    <3>4. UNCHANGED <<outcome, target_ids, next_id, outbox>>
      BY <2>1 DEF OnInternalResponse
    <3>5. AnswersMatch'
      <4>1. \A i \in 1..Len(outbox') : \E j \in 1..Len(outbox) : outbox'[i] = outbox[j]
        BY <3>4
      <4> QED BY <1>1, <1>3, <1>6, <3>4, <4>1, ReadMatches
    <3>6. OnePlace'
      BY <1>1, <1>6, <3>2, <3>3, <3>4, PlaceSame DEF TargetsKeep
    <3>7. SessionsAgree'
      BY <1>1, <1>2, <3>3, AgreeKeeps DEF TargetsKeep
    <3> QED BY <1>4, <3>3, <3>4, <3>5, <3>6, <3>7, ReadingStays DEF TargetsKeep, Tracked
  <2> QED BY <1>2, <1>6, <2>1, CreateAnsweredPromises, ListedPromises
<1> QED BY <1>5, <1>6 DEF OnResponse

\* A step of the browser: the Handler's variables stay.
LEMMA BrowserStays ==
  ASSUME IInv, UNCHANGED handlerVars, AnswersMatch', SessionsAreNew', TabsAreNew'
  PROVE Promises'
<1>1. SessionsAgree /\ OnePlace /\ TrackedArePolled
  BY DEF IInv, Promises
<1>2. UNCHANGED <<outcome, targets, target_ids, sessions, pending>>
  BY DEF handlerVars
<1> QED BY <1>1, <1>2 DEF Promises, SessionsAgree, OnePlace, TrackedArePolled, Tracked

\* What the browser answers fits the command, announces the session just attached and
\* creates the tab just opened.
LEMMA ServedAnswers ==
  ASSUME TypesOK, AnswersMatch, NEW cmd, NEW answer, Serves(cmd, answer)
  PROVE /\ \A i \in 1..Len(answer) : InFits(answer[i], pending, next_id)
        /\ ~AttachedTo(cmd, answer) => \A i \in 1..Len(answer) : ~Announces(answer[i])
        /\ ~Opened(cmd, answer) => \A i \in 1..Len(answer) : ~Creates(answer[i])
<1>1. cmd \in Command /\ cmd = outbox[1] /\ 1 \in 1..Len(outbox) /\ NoTab \notin Tabs
  BY NullAssumption DEF Serves
<1>2. OutFits(cmd, pending, next_id)
  BY <1>1 DEF AnswersMatch
<1>3. CASE Opened(cmd, answer)
  <2>1. PICK t \in Tabs :
          answer = <<Event("targetCreated", t, NoSession), Response(cmd.id, TRUE, t, <<>>)>>
    BY <1>3 DEF Opened
  <2>2. Len(answer) = 2 /\ answer[1].type = "targetCreated" /\ answer[2].type = "response"
        /\ answer[2].id = cmd.id /\ answer[2].tab = t
    BY <2>1 DEF Event, Response
  <2>3. \A i \in 1..Len(answer) : i = 1 \/ i = 2
    BY <2>2
  <2> QED BY <1>2, <1>3, <2>2, <2>3 DEF InFits, OutFits, Announces, AttachedTo, Opened
<1>4. CASE AttachedTo(cmd, answer)
  <2>1. PICK s \in Sessions : answer = <<Event("attached", cmd.tab, s), Obeyed(cmd)>>
    BY <1>4 DEF AttachedTo
  <2>2. Len(answer) = 2 /\ answer[1].type = "attached" /\ answer[2].type = "response"
        /\ answer[2].id = cmd.id /\ answer[2].tab = NoTab
    BY <2>1 DEF Event, Response, Obeyed
  <2>3. \A i \in 1..Len(answer) : i = 1 \/ i = 2
    BY <2>2
  <2>4. cmd.kind # "create"
    BY <1>4 DEF AttachedTo
  <2> QED BY <1>1, <1>2, <1>4, <2>2, <2>3, <2>4 DEF InFits, OutFits, Creates
<1>5. CASE Told(cmd, answer)
  <2>1. PICK list \in Seq(Tabs) : answer = <<Response(cmd.id, TRUE, NoTab, list)>>
    BY <1>5 DEF Told
  <2>2. Len(answer) = 1 /\ answer[1].type = "response"
        /\ answer[1].id = cmd.id /\ answer[1].tab = NoTab
    BY <2>1 DEF Response
  <2>3. cmd.kind # "create"
    BY <1>5 DEF Told
  <2> QED BY <1>1, <1>2, <2>2, <2>3 DEF InFits, OutFits, Creates, Announces
<1>6. CASE Denied(cmd, answer)
  <2>1. Len(answer) = 1 /\ answer[1].type = "response" /\ answer[1].id = cmd.id /\ ~answer[1].ok
    BY <1>6 DEF Denied, Refused, Response
  <2> QED BY <1>2, <2>1 DEF InFits, OutFits, Creates, Announces
<1> QED BY <1>3, <1>4, <1>5, <1>6 DEF Serves

LEMMA ServesPromises ==
  ASSUME IInv, NEW cmd, NEW answer, Serves(cmd, answer) PROVE Promises'
<1>1. TypesOK /\ AnswersMatch /\ SessionsAreNew /\ TabsAreNew
  BY DEF IInv, Promises
<1> USE TypesParts
<1>2. /\ UNCHANGED handlerVars
      /\ outbox' \in Seq(Command) /\ Len(outbox') = Len(outbox) - 1
      /\ \A i \in 1..Len(outbox') : i + 1 \in 1..Len(outbox) /\ outbox'[i] = outbox[i + 1]
      /\ inbox' \in Seq(Message) /\ inbox' = inbox \o answer
  BY <1>1, ServesFacts
<1>3. answer \in Seq(Message) /\ UNCHANGED <<outcome, targets, sessions, pending, next_id>>
  BY <1>2 DEF Serves, handlerVars
<1>4. /\ \A i \in 1..Len(answer) : InFits(answer[i], pending, next_id)
      /\ ~AttachedTo(cmd, answer) => \A i \in 1..Len(answer) : ~Announces(answer[i])
      /\ ~Opened(cmd, answer) => \A i \in 1..Len(answer) : ~Creates(answer[i])
  BY <1>1, ServedAnswers
<1>5. AnswersMatch'
  <2>1. \A i \in 1..Len(outbox') : \E j \in 1..Len(outbox) : outbox'[i] = outbox[j]
    BY <1>2
  <2> QED BY <1>1, <1>2, <1>3, <1>4, <2>1, GrownMatches
<1>6. \A i \in 1..Len(inbox') :
         \/ i \in 1..Len(inbox) /\ inbox'[i] = inbox[i]
         \/ i > Len(inbox) /\ i - Len(inbox) \in 1..Len(answer)
            /\ inbox'[i] = answer[i - Len(inbox)]
  BY <1>1, <1>2, <1>3, GrowFacts
<1>7. inbox \in Seq(Message) /\ Len(inbox) \in Nat
  BY <1>1
<1>8. SessionsAreNew'
  <2>1. CASE AttachedTo(cmd, answer)
    <3>1. PICK s \in Sessions :
            /\ attached[s] = "unused" /\ attached' = [attached EXCEPT ![s] = cmd.tab]
            /\ answer = <<Event("attached", cmd.tab, s), Obeyed(cmd)>>
      BY <2>1 DEF AttachedTo
    <3>2. cmd.tab \in Tabs
      BY <2>1 DEF AttachedTo
    <3>3. Len(answer) = 2 /\ answer[1].session = s /\ answer[2].type = "response"
      BY <3>1 DEF Event, Response, Obeyed
    <3>4. \A i \in 1..Len(answer) : Announces(answer[i]) => i = 1 /\ answer[i].session = s
      BY <3>3 DEF Announces
    <3> QED BY <1>1, <1>2, <1>3, <3>1, <3>2, <3>4, AttachedToIsNew
  <2>2. CASE ~AttachedTo(cmd, answer)
    <3>1. \A s \in Sessions : attached'[s] = "unused" <=> attached[s] = "unused"
      BY <2>2 DEF Serves, Opened, Told, Denied
    <3>2. AnnouncedBefore(0)
      BY <1>4, <1>6, <1>7, <2>2 DEF AnnouncedBefore
    <3>3. sessions' \in [Sessions -> Tabs \cup {NoTab}] /\ \A s \in Sessions : sessions'[s] = sessions[s]
      BY <1>1, <1>3
    <3> QED BY <1>1, <1>2, <3>1, <3>2, <3>3, SessionsKeep
  <2> QED BY <2>1, <2>2
<1>9. TabsAreNew'
  <2>1. CASE Opened(cmd, answer)
    <3>1. PICK t \in Tabs :
            /\ tab[t] = "free" /\ tab' = [tab EXCEPT ![t] = "open"]
            /\ answer = <<Event("targetCreated", t, NoSession), Response(cmd.id, TRUE, t, <<>>)>>
      BY <2>1 DEF Opened
    <3>2. Len(answer) = 2 /\ answer[1].type = "targetCreated" /\ answer[2].tab = t
      BY <3>1 DEF Event, Response
    <3>3. \A i \in 1..Len(answer) : Creates(answer[i]) => i = 2 /\ answer[i].tab = t
      BY <3>2 DEF Creates
    <3> QED BY <1>1, <1>2, <1>3, <3>1, <3>3, OpenedIsNew
  <2>2. CASE ~Opened(cmd, answer)
    <3>1. \A t \in Tabs : tab'[t] = "free" <=> tab[t] = "free"
      BY <2>2 DEF Serves, AttachedTo, Told, Denied
    <3>2. CreatedBefore(0)
      BY <1>4, <1>6, <1>7, <2>2 DEF CreatedBefore
    <3> QED BY <1>1, <1>2, <1>3, <3>1, <3>2, TabsKeep
  <2> QED BY <2>1, <2>2
<1> QED BY <1>2, <1>5, <1>8, <1>9, BrowserStays

LEMMA AlonePromises ==
  ASSUME IInv, BrowserAlone PROVE Promises'
<1>1. TypesOK /\ AnswersMatch /\ SessionsAreNew /\ TabsAreNew
  BY DEF IInv, Promises
<1> USE TypesParts
<1>2. /\ UNCHANGED handlerVars /\ UNCHANGED outbox
      /\ \A t \in Tabs : tab'[t] = "free" <=> tab[t] = "free"
      /\ \A s \in Sessions : attached'[s] = "unused" <=> attached[s] = "unused"
  BY <1>1, BrowserAloneFacts
<1>3. PICK report \in Seq(Message) :
        /\ inbox' = inbox \o report
        /\ \A i \in 1..Len(report) : report[i].type \notin {"response", "attached"}
  BY <1>1, BrowserAloneFacts
<1>4. UNCHANGED <<outcome, targets, sessions, pending, next_id>>
  BY <1>2 DEF handlerVars
<1>5. \A i \in 1..Len(report) : /\ InFits(report[i], pending, next_id)
                                /\ ~Announces(report[i]) /\ ~Creates(report[i])
  BY <1>3 DEF InFits, Announces, Creates
<1>6. \A i \in 1..Len(inbox') :
         \/ i \in 1..Len(inbox) /\ inbox'[i] = inbox[i]
         \/ i > Len(inbox) /\ i - Len(inbox) \in 1..Len(report)
            /\ inbox'[i] = report[i - Len(inbox)]
  BY <1>1, <1>3, GrowFacts
<1>7. inbox \in Seq(Message) /\ Len(inbox) \in Nat /\ inbox' \in Seq(Message)
  BY <1>1, <1>3
<1>8. AnswersMatch'
  <2>1. \A i \in 1..Len(outbox') : \E j \in 1..Len(outbox) : outbox'[i] = outbox[j]
    BY <1>2
  <2> QED BY <1>1, <1>3, <1>4, <1>5, <2>1, GrownMatches
<1>9. SessionsAreNew'
  <2>1. AnnouncedBefore(0)
    BY <1>5, <1>6, <1>7 DEF AnnouncedBefore
  <2>2. sessions' \in [Sessions -> Tabs \cup {NoTab}] /\ \A s \in Sessions : sessions'[s] = sessions[s]
    BY <1>1, <1>4
  <2> QED BY <1>1, <1>2, <1>7, <2>1, <2>2, SessionsKeep
<1>10. TabsAreNew'
  <2>1. CreatedBefore(0)
    BY <1>5, <1>6, <1>7 DEF CreatedBefore
  <2> QED BY <1>1, <1>2, <1>4, <1>7, <2>1, TabsKeep
<1> QED BY <1>2, <1>8, <1>9, <1>10, BrowserStays

-----------------------------------------------------------------------------
(* The specification *)

LEMMA InitIInv == Init => IInv
<1> SUFFICES ASSUME Init PROVE IInv
  OBVIOUS
<1>1. TypesOK
  BY TypesInit
<1>2. /\ outbox = <<>> /\ inbox = <<>> /\ pending = {}
      /\ \A t \in Tabs : targets[t].state = "untracked" /\ targets[t].initiator = NoCaller
      /\ \A s \in Sessions : sessions[s] = NoTab
      /\ \A c \in Callers : outcome[c] = "idle"
  BY DEF Init, NoTarget, NewTarget
<1>3. AnswersMatch /\ SessionsAreNew /\ TabsAreNew
  BY <1>2 DEF AnswersMatch, SessionsAreNew, TabsAreNew
<1>4. SessionsAgree /\ OnePlace /\ TrackedArePolled
  BY <1>2, NullAssumption DEF SessionsAgree, OnePlace, TrackedArePolled, Tracked
<1> QED BY <1>1, <1>3, <1>4 DEF IInv, Promises

LEMMA NextIInv == IInv /\ [Next]_vars => IInv'
<1> SUFFICES ASSUME IInv, [Next]_vars PROVE IInv'
  OBVIOUS
<1>1. CASE Next
  <2>1. TypesOK'
    BY <1>1, TypesNext DEF IInv, Promises
  <2>2. CASE \E m : Reads(m) /\ Events(m)
    BY <2>1, <2>2, EventPromises DEF IInv
  <2>3. CASE \E m : Reads(m) /\ OnResponse(m)
    BY <2>1, <2>3, ResponsePromises DEF IInv
  <2>4. CASE BrowserServes
    <3>1. TypesOK
      BY DEF IInv
    <3>2. PICK cmd, answer : Serves(cmd, answer)
      BY <2>4, <3>1, BrowserServesFacts
    <3> QED BY <2>1, <3>2, ServesPromises DEF IInv
  <2>5. CASE BeginTargets \/ NextTarget \/ EndTargets \/ EndPass
    BY <2>1, <2>5, LoopPromises DEF IInv
  <2>6. CASE \E t \in Tabs : PollStep(t) \/ ChainTimesOut(t)
    BY <2>1, <2>6, PollPromises DEF IInv
  <2>7. CASE (\E c \in Callers : NewPage(c)) \/ FetchTargets \/ \E t \in Tabs : GetPage(t)
    BY <2>1, <2>7, NewPagePromises, FetchTargetsPromises, GetPagePromises DEF IInv
  <2>8. CASE BrowserAlone
    BY <2>1, <2>8, AlonePromises DEF IInv
  <2> QED BY <1>1, <2>2, <2>3, <2>4, <2>5, <2>6, <2>7, <2>8, NextIs
<1>2. CASE UNCHANGED vars
  <2>1. UNCHANGED <<outcome, targets, target_ids, sessions, pending, next_id, phase, cursor,
                    outbox, inbox, tab, attached, fetches, detaches>>
    BY <1>2 DEF vars, handlerVars, loopVars, browserVars
  <2> QED BY <2>1 DEF IInv, Promises, TypesOK, TypeOK, ChannelsOK, AnswersMatch, OutFits, InFits,
                      SessionsAreNew, Announces, SessionsAgree, OnePlace, TabsAreNew, Creates,
                      TrackedArePolled, Tracked
<1> QED BY <1>1, <1>2

\* The sender of a caller that waits is in one place.
LEMMA InOnePlace == IInv => CallersAreHeld
<1> SUFFICES ASSUME IInv, NEW c \in Callers, outcome[c] = "waiting"
             PROVE Cardinality({p \in pending : p.caller = c}
                     \cup {t \in Tabs : Tracked(t) /\ targets[t].initiator = c}) = 1
  BY DEF CallersAreHeld
<1>1. OnePlace
  BY DEF IInv, Promises
<1> DEFINE held == {p \in pending : p.caller = c}
                   \cup {t \in Tabs : Tracked(t) /\ targets[t].initiator = c}
<1>2. \E e : held = {e}
  <2>1. CASE \E p \in pending : p.caller = c
    <3>1. PICK p \in pending : p.caller = c
      BY <2>1
    <3>2. \A q \in pending : q.caller = c => q = p
      BY <1>1, <3>1 DEF OnePlace
    <3>3. \A t \in Tabs : targets[t].initiator # c
      BY <1>1, <3>1 DEF OnePlace
    <3>4. held = {p}
      BY <3>1, <3>2, <3>3
    <3> QED BY <3>4
  <2>2. CASE \A p \in pending : p.caller # c
    <3>1. PICK t \in Tabs : targets[t].initiator = c
      BY <1>1, <2>2 DEF OnePlace
    <3>2. Tracked(t) /\ \A u \in Tabs : targets[u].initiator = c => u = t
      BY <1>1, <3>1 DEF OnePlace
    <3>3. held = {t}
      BY <2>2, <3>1, <3>2
    <3> QED BY <3>3
  <2> QED BY <2>1, <2>2
<1> HIDE DEF held
<1>3. Cardinality(held) = 1
  BY <1>2, FS_Singleton
<1> QED BY <1>3 DEF held

-----------------------------------------------------------------------------
(* Initialization.  A tab that nobody closed or detached from keeps its sessions, so
   that whatever was run for it was run in one of them. *)

Quiet(t) == tab[t] \in {"free", "open"} /\ t \notin severed

Run(g) == {Chain[g][i] : i \in 1..Len(Chain[g])}

\* What has been run when a state is entered.
Before == [untracked |-> {}, attach |-> {}, closing |-> {}, frame |-> {},
           world |-> Run("frame"), network |-> Run("frame") \cup Run("world"),
           page |-> Run("frame") \cup Run("world") \cup Run("network"),
           emulation |-> Run("frame") \cup Run("world") \cup Run("network") \cup Run("page"),
           initialized |-> InitMethods]

Left(target) == {target.cmds[i] : i \in 1..Len(target.cmds)} \cup {target.waiting}

\* What has been run for a target, by its state.
Done(target) ==
  Before[target.state]
  \cup (IF target.state \in Stages THEN Run(target.state) \ Left(target) ELSE {})

\* The target uses a session of the tab, waits for nothing and has done nothing without
\* one, and what is done was run in some session of the tab.
Prepared(rn, att, target, t) ==
  /\ target.session # NoSession => att[target.session] = t
  /\ target.session = NoSession => target.waiting = NoCommand
  /\ target.session = NoSession => Done(target) = {}
  /\ \A m \in Done(target) : \E s \in Sessions : att[s] = t /\ m \in rn[s]

OwnSessions(t) ==
  /\ \A s \in Sessions : sessions[s] = t => attached[s] = t
  /\ \A i \in 1..Len(inbox) :
       Announces(inbox[i]) /\ inbox[i].tab = t => attached[inbox[i].session] = t

\* A command of a chain of tab t, on its way and answered.
Asks(p, t) == p.tab = t /\ p.method # NoCommand
SentFor(att, cmd, p, t) ==
  Asks(p, t) /\ cmd.id = p.id =>
    /\ cmd.kind = "init" /\ cmd.method = p.method
    /\ cmd.session # NoSession /\ att[cmd.session] = t
AnsweredFor(att, rn, m, p, t) ==
  m.type = "response" /\ Asks(p, t) /\ m.id = p.id =>
    \E s \in Sessions : att[s] = t /\ p.method \in rn[s]
RunThere(t) ==
  /\ \A p \in pending, i \in 1..Len(outbox) : SentFor(attached, outbox[i], p, t)
  /\ \A p \in pending, i \in 1..Len(inbox) : AnsweredFor(attached, ran, inbox[i], p, t)

DetachedAreGone ==
  \A i \in 1..Len(inbox) :
    inbox[i].type = "detached" => attached[inbox[i].session] = "gone"

SetUp(t) == Prepared(ran, attached, targets[t], t) /\ OwnSessions(t) /\ RunThere(t)

SInv ==
  /\ IInv
  /\ ran \in [Sessions -> SUBSET (Methods \cup {NoCommand})]
  /\ DetachedAreGone
  /\ \A t \in Tabs : Quiet(t) => SetUp(t)

-----------------------------------------------------------------------------
(* What has been run, by state *)

LEMMA NoCommandIsNone == NoCommand \notin Methods
<1>1. ASSUME NEW g \in Stages, NEW i \in 1..Len(Chain[g]) PROVE Chain[g][i] # "noCommand"
  <2>1. CASE g = "frame"
    <3>1. Chain[g] = <<"getFrameTree", "setLifecycleEventsEnabled">>
      BY <2>1 DEF Chain
    <3> QED BY <3>1
  <2>2. CASE g = "world"
    <3>1. Chain[g] = <<"createIsolatedWorld">>
      BY <2>2 DEF Chain
    <3> QED BY <3>1
  <2>3. CASE g = "network"
    <3>1. Chain[g] = <<"enableNetwork">>
      BY <2>3 DEF Chain
    <3> QED BY <3>1
  <2>4. CASE g = "page"
    <3>1. Chain[g] = <<"setAutoAttach">>
      BY <2>4 DEF Chain
    <3> QED BY <3>1
  <2>5. CASE g = "emulation"
    <3>1. Chain[g] = <<"setDeviceMetricsOverride">>
      BY <2>5 DEF Chain
    <3> QED BY <3>1
  <2> QED BY <2>1, <2>2, <2>3, <2>4, <2>5, StagesAre
<1> QED BY <1>1 DEF NoCommand, Methods

LEMMA RunFacts ==
  ASSUME NEW g \in Stages PROVE Run(g) \subseteq Methods /\ NoCommand \notin Run(g)
<1>1. Run(g) \subseteq Methods
  BY DEF Run, Methods
<1> QED BY <1>1, NoCommandIsNone

\* What a stage is entered with is what was run before, and its own commands.
LEMMA AdvanceRuns ==
  ASSUME NEW g \in Stages PROVE Before[AfterStage[g]] \subseteq Before[g] \cup Run(g)
<1>1. /\ Before["frame"] = {} /\ Before["world"] = Run("frame")
      /\ Before["network"] = Run("frame") \cup Run("world")
      /\ Before["page"] = Run("frame") \cup Run("world") \cup Run("network")
      /\ Before["emulation"] = Run("frame") \cup Run("world") \cup Run("network") \cup Run("page")
      /\ Before["initialized"] = InitMethods
  BY DEF Before
<1>2. /\ AfterStage["frame"] = "world" /\ AfterStage["world"] = "network"
      /\ AfterStage["network"] = "page" /\ AfterStage["emulation"] = "initialized"
      /\ AfterStage["page"] = IF Viewport THEN "emulation" ELSE "initialized"
  BY DEF AfterStage
<1>3. InitMethods = UNION {Run(h) : h \in Stages \ (IF Viewport THEN {} ELSE {"emulation"})}
  BY DEF InitMethods, Run
<1>4. /\ InitMethods \subseteq Run("frame") \cup Run("world") \cup Run("network") \cup Run("page")
                               \cup Run("emulation")
      /\ ~Viewport => InitMethods \subseteq Run("frame") \cup Run("world") \cup Run("network")
                                            \cup Run("page")
  BY <1>3, StagesAre
<1> QED BY <1>1, <1>2, <1>4, StagesAre

LEMMA BeforeFacts ==
  /\ Before["attach"] = {} /\ Before["closing"] = {} /\ Before["untracked"] = {}
  /\ Before["frame"] = {} /\ Before["initialized"] = InitMethods
  /\ "attach" \notin Stages /\ "closing" \notin Stages /\ "untracked" \notin Stages
  /\ "initialized" \notin Stages /\ "frame" \in Stages
BY StagesAre DEF Before

\* A stage other than the first is entered with something run.
LEMMA LaterStages ==
  ASSUME NEW g \in Stages, g # "frame" PROVE Before[g] # {}
<1>1. Chain["frame"][1] \in Run("frame")
  <2>1. Len(Chain["frame"]) = 2
    BY DEF Chain
  <2> QED BY <2>1 DEF Run
<1> QED BY <1>1, StagesAre DEF Before

\* A chain that has just been created has run nothing.
LEMMA EnteredDone ==
  ASSUME NEW target \in Target, NEW g \in States
  PROVE  Done(Enter(target, g)) = Before[g] /\ Enter(target, g).waiting = NoCommand
<1> DEFINE cs == IF g \in Stages THEN Chain[g] ELSE <<>>
<1>1. Enter(target, g) = [target EXCEPT !.state = g, !.cmds = cs, !.waiting = NoCommand]
  BY DEF Enter
<1> HIDE DEF cs
<1>2. Enter(target, g).state = g /\ Enter(target, g).cmds = cs
      /\ Enter(target, g).waiting = NoCommand
  BY <1>1 DEF Target
<1>3. ASSUME g \in Stages PROVE Run(g) \subseteq Left(Enter(target, g))
  <2>1. cs = Chain[g]
    BY <1>3 DEF cs
  <2> QED BY <1>2, <2>1 DEF Run, Left
<1> QED BY <1>2, <1>3 DEF Done

LEMMA SameDone ==
  ASSUME NEW a, NEW b, a.state = b.state, a.cmds = b.cmds, a.waiting = b.waiting
  PROVE  Done(a) = Done(b)
BY DEF Done, Left

LEMMA NewDone ==
  /\ Done(NewTarget) = {} /\ NewTarget.session = NoSession /\ NewTarget.waiting = NoCommand
  /\ Done(NoTarget) = {} /\ NoTarget.session = NoSession /\ NoTarget.waiting = NoCommand
<1>1. /\ NewTarget.state = "attach" /\ NewTarget.session = NoSession
      /\ NewTarget.waiting = NoCommand
  BY DEF NewTarget
<1>2. /\ NoTarget.state = "untracked" /\ NoTarget.session = NoSession
      /\ NoTarget.waiting = NoCommand
  BY DEF NewTarget, NoTarget
<1> QED BY <1>1, <1>2, BeforeFacts DEF Done

-----------------------------------------------------------------------------
(* What stays of a tab's set-up when a step is not about it *)

LEMMA PreparedStays ==
  ASSUME NEW target, NEW new, NEW t \in Tabs, Prepared(ran, attached, target, t),
         new.session = target.session, target.session \in Sessions \cup {NoSession},
         new.waiting \in {target.waiting, NoCommand}, Done(new) \subseteq Done(target),
         \A s \in Sessions : attached[s] = t => attached'[s] = t,
         \A s \in Sessions : ran[s] \subseteq ran'[s]
  PROVE  Prepared(ran', attached', new, t)
<1>1. CASE target.session = NoSession
  BY <1>1 DEF Prepared
<1>2. CASE target.session \in Sessions /\ target.session # NoSession
  BY <1>2 DEF Prepared
<1> QED BY <1>1, <1>2

LEMMA NothingDone ==
  ASSUME NEW rn, NEW att, NEW target, NEW t,
         target.session = NoSession, target.waiting = NoCommand, Done(target) = {}
  PROVE  Prepared(rn, att, target, t)
BY DEF Prepared

LEMMA RunThereStays ==
  ASSUME TypesOK, AnswersMatch, NEW t \in Tabs, RunThere(t),
         \A s \in Sessions : attached[s] = t => attached'[s] = t,
         \A s \in Sessions : ran[s] \subseteq ran'[s],
         \A p \in pending' : p \in pending \/ (p.id \in Nat /\ p.id >= next_id),
         \A p \in pending', i \in 1..Len(outbox') :
           \/ \E j \in 1..Len(outbox) : outbox'[i] = outbox[j]
           \/ SentFor(attached', outbox'[i], p, t),
         \A p \in pending', i \in 1..Len(inbox') :
           \/ \E j \in 1..Len(inbox) : inbox'[i] = inbox[j]
           \/ AnsweredFor(attached', ran', inbox'[i], p, t)
  PROVE  RunThere(t)'
<1>1. next_id \in Nat /\ outbox \in Seq(Command) /\ inbox \in Seq(Message)
  BY TypesParts DEF PendingOK
<1>2. ASSUME NEW p \in pending', NEW j \in 1..Len(outbox)
      PROVE  SentFor(attached', outbox[j], p, t)
  <2>1. outbox[j] \in Command
    BY <1>1
  <2>2. outbox[j].id \in Nat /\ outbox[j].id < next_id
        /\ outbox[j].session \in Sessions \cup {NoSession}
    BY <2>1, RecordTypes DEF AnswersMatch, OutFits
  <2>3. CASE p \in pending
    <3>1. SentFor(attached, outbox[j], p, t)
      BY <2>3 DEF RunThere
    <3> QED BY <2>2, <3>1 DEF SentFor
  <2>4. CASE p.id \in Nat /\ p.id >= next_id
    BY <1>1, <2>2, <2>4 DEF SentFor
  <2> QED BY <2>3, <2>4
<1>3. ASSUME NEW p \in pending', NEW j \in 1..Len(inbox)
      PROVE  AnsweredFor(attached', ran', inbox[j], p, t)
  <2>1. inbox[j] \in Message
    BY <1>1
  <2>2. inbox[j].id \in Nat /\ inbox[j].type = "response" => inbox[j].id < next_id
    BY <2>1, RecordTypes DEF AnswersMatch, InFits
  <2>3. CASE p \in pending
    <3>1. AnsweredFor(attached, ran, inbox[j], p, t)
      BY <2>3 DEF RunThere
    <3> QED BY <3>1 DEF AnsweredFor
  <2>4. CASE p.id \in Nat /\ p.id >= next_id
    BY <1>1, <2>1, <2>2, <2>4, RecordTypes DEF AnsweredFor
  <2> QED BY <2>3, <2>4
<1> QED BY <1>2, <1>3 DEF RunThere

-----------------------------------------------------------------------------
(* The Handler's own steps *)

LEMMA HandlerSets ==
  ASSUME SInv, IInv', UNCHANGED <<inbox, attached, ran, tab, severed, sessions>>,
         \A t \in Tabs : Quiet(t) =>
           Prepared(ran, attached, targets'[t], t) /\ RunThere(t)'
  PROVE  SInv'
<1>1. \A t \in Tabs : Quiet(t)' <=> Quiet(t)
  BY DEF Quiet
<1>2. \A t \in Tabs : OwnSessions(t) => OwnSessions(t)'
  BY DEF OwnSessions, Announces
<1>3. DetachedAreGone'
  BY DEF SInv, DetachedAreGone
<1>4. \A t \in Tabs : Quiet(t)' => SetUp(t)'
  BY <1>1, <1>2 DEF SInv, SetUp
<1> QED BY <1>3, <1>4 DEF SInv

LEMMA QuietFacts ==
  ASSUME SInv, NEW t \in Tabs, Quiet(t)
  PROVE  /\ TypesOK /\ AnswersMatch /\ TypeOK /\ targets \in [Tabs -> Target]
         /\ targets[t] \in Target
         /\ Prepared(ran, attached, targets[t], t) /\ OwnSessions(t) /\ RunThere(t)
         /\ targets[t].session \in Sessions \cup {NoSession}
<1>1. TypesOK /\ AnswersMatch /\ TypeOK /\ targets \in [Tabs -> Target]
  BY DEF SInv, IInv, Promises, TypesOK, TypeOK
<1>2. targets[t] \in Target
  BY <1>1
<1>3. targets[t].session \in Sessions \cup {NoSession}
  BY <1>2 DEF Target
<1> QED BY <1>1, <1>2, <1>3 DEF SInv, SetUp

\* Commands that leave the table leave the rest true.
LEMMA FewerRuns ==
  ASSUME SInv, NEW t \in Tabs, Quiet(t), UNCHANGED <<attached, ran>>, pending' \subseteq pending,
         \A i \in 1..Len(outbox') : \E j \in 1..Len(outbox) : outbox'[i] = outbox[j],
         \A i \in 1..Len(inbox') : \E j \in 1..Len(inbox) : inbox'[i] = inbox[j]
  PROVE  RunThere(t)'
BY QuietFacts, RunThereStays

LEMMA SubmitRuns ==
  ASSUME SInv, NEW t \in Tabs, Quiet(t), UNCHANGED <<inbox, attached, ran>>,
         NEW cmd, NEW p, p.id = next_id, cmd.id = next_id, Submit(cmd, p),
         Asks(p, t) => /\ cmd.kind = "init" /\ cmd.method = p.method
                       /\ cmd.session # NoSession /\ attached[cmd.session] = t
  PROVE  RunThere(t)'
<1>1. /\ outbox' = Append(outbox, cmd) /\ pending' = pending \cup {p}
      /\ next_id \in Nat /\ outbox \in Seq(Command)
  BY QuietFacts, TypesParts DEF Submit, PendingOK
<1>2. \A q \in pending : q.id < next_id /\ q.id \in Nat
  BY QuietFacts, TypesParts, RecordTypes DEF PendingOK
<1>3. \A q \in pending' : SentFor(attached', cmd, q, t)
  BY <1>1, <1>2 DEF SentFor
<1>4. \A i \in 1..Len(outbox') :
        outbox'[i] = cmd \/ \E j \in 1..Len(outbox) : outbox'[i] = outbox[j]
  BY <1>1
<1>5. \A q \in pending' : q \in pending \/ (q.id \in Nat /\ q.id >= next_id)
  BY <1>1
<1>6. \A i \in 1..Len(inbox') : \E j \in 1..Len(inbox) : inbox'[i] = inbox[j]
  OBVIOUS
<1>7. TypesOK /\ AnswersMatch /\ RunThere(t)
  BY QuietFacts
<1>8. \A q \in pending', i \in 1..Len(outbox') :
        \/ \E j \in 1..Len(outbox) : outbox'[i] = outbox[j]
        \/ SentFor(attached', outbox'[i], q, t)
  BY <1>3, <1>4
<1>9. \A s \in Sessions : ran[s] \subseteq ran'[s] /\ (attached[s] = t => attached'[s] = t)
  OBVIOUS
<1> QED BY <1>5, <1>6, <1>7, <1>8, <1>9, RunThereStays

\* Commands of the Browser handle are not of a chain.
LEMMA CallsSInv ==
  ASSUME SInv, IInv', (\E c \in Callers : NewPage(c)) \/ FetchTargets PROVE SInv'
<1>1. UNCHANGED <<targets, sessions, inbox, attached, ran, tab, severed>>
  BY DEF NewPage, FetchTargets, browserVars
<1>2. ASSUME NEW t \in Tabs, Quiet(t) PROVE RunThere(t)'
  <2>1. CASE UNCHANGED <<outbox, pending>>
    BY <1>1, <1>2, <2>1, FewerRuns
  <2>2. CASE \E kind, c : Submit(Cmd(kind, NoTab, NoSession, NoCommand),
                                 Pending(kind, NoTab, NoCommand, c))
    <3>1. PICK kind, c : Submit(Cmd(kind, NoTab, NoSession, NoCommand),
                                Pending(kind, NoTab, NoCommand, c))
      BY <2>2
    <3> DEFINE cmd == Cmd(kind, NoTab, NoSession, NoCommand)
               p == Pending(kind, NoTab, NoCommand, c)
    <3>2. cmd.id = next_id /\ p.id = next_id /\ ~Asks(p, t)
      BY DEF Cmd, Pending, Asks
    <3>3. Submit(cmd, p)
      BY <3>1
    <3> HIDE DEF cmd, p
    <3> QED BY <1>1, <1>2, <3>2, <3>3, SubmitRuns
  <2> QED BY <2>1, <2>2 DEF NewPage, FetchTargets
<1>3. \A t \in Tabs : Quiet(t) => Prepared(ran, attached, targets'[t], t)
  BY <1>1, QuietFacts
<1> QED BY <1>1, <1>2, <1>3, HandlerSets

LEMMA LoopSInv ==
  ASSUME SInv, IInv', BeginTargets \/ NextTarget \/ EndTargets \/ EndPass PROVE SInv'
<1>1. UNCHANGED <<targets, sessions, outbox, inbox, attached, ran, tab, severed>>
  BY DEF BeginTargets, NextTarget, EndTargets, EndPass, handlerVars, browserVars
<1>2. pending' \subseteq pending
  BY DEF BeginTargets, NextTarget, EndTargets, EndPass, handlerVars
<1>3. \A t \in Tabs : Quiet(t) => RunThere(t)'
  BY <1>1, <1>2, FewerRuns
<1>4. \A t \in Tabs : Quiet(t) => Prepared(ran, attached, targets'[t], t)
  BY <1>1, QuietFacts
<1> QED BY <1>1, <1>3, <1>4, HandlerSets

LEMMA WithPageDone ==
  ASSUME NEW target \in Target
  PROVE  /\ Done(WithPage(target)) = Done(target)
         /\ WithPage(target).session = target.session
         /\ WithPage(target).waiting = target.waiting
<1>1. /\ WithPage(target).state = target.state /\ WithPage(target).cmds = target.cmds
      /\ WithPage(target).waiting = target.waiting
      /\ WithPage(target).session = target.session
  BY DEF WithPage, Target
<1> QED BY <1>1, SameDone

LEMMA GetPageSInv ==
  ASSUME SInv, IInv', NEW u \in Tabs, GetPage(u) PROVE SInv'
<1>1. UNCHANGED <<sessions, outbox, pending, inbox, attached, ran, tab, severed>>
  BY DEF GetPage, browserVars
<1>2. targets' = [targets EXCEPT ![u] = WithPage(targets[u])]
  BY DEF GetPage
<1>3. \A t \in Tabs : Quiet(t) => RunThere(t)'
  BY <1>1, FewerRuns
<1>4. ASSUME NEW t \in Tabs, Quiet(t) PROVE Prepared(ran, attached, targets'[t], t)
  <2>1. /\ targets[t] \in Target /\ targets \in [Tabs -> Target]
        /\ Prepared(ran, attached, targets[t], t)
        /\ targets[t].session \in Sessions \cup {NoSession}
    BY <1>4, QuietFacts
  <2>2. targets'[t] = targets[t] \/ targets'[t] = WithPage(targets[t])
    BY <1>2, <2>1
  <2>3. CASE targets'[t] = WithPage(targets[t])
    BY <1>1, <2>1, <2>3, WithPageDone, PreparedStays
  <2> QED BY <2>1, <2>2, <2>3
<1> QED BY <1>1, <1>3, <1>4, HandlerSets

\* The steps of Target::poll, for the target that is polled.
LEMMA PollPrepares ==
  ASSUME SInv, NEW t \in Tabs, Quiet(t), PollStep(t) \/ ChainTimesOut(t)
  PROVE  Prepared(ran, attached, targets'[t], t)
<1>1. /\ targets[t] \in Target /\ targets \in [Tabs -> Target]
      /\ Prepared(ran, attached, targets[t], t)
      /\ targets[t].session \in Sessions \cup {NoSession}
  BY QuietFacts
<1>2. CASE Attach(t)
  <2>1. targets'[t] = Enter(targets[t], "frame")
    BY <1>1, <1>2 DEF Attach
  <2>2. "frame" \in States
    BY BeforeFacts DEF States
  <2>3. /\ Done(targets'[t]) = {} /\ targets'[t].waiting = NoCommand
        /\ targets'[t].session = targets[t].session
    BY <1>1, <2>1, <2>2, EnteredDone, EnterFacts, BeforeFacts
  <2> QED BY <1>1, <2>3 DEF Prepared
<1>3. CASE SendNext(t)
  <2>1. /\ targets[t].waiting = NoCommand /\ targets[t].cmds # <<>> /\ targets[t].state \in Stages
        /\ targets[t].state \in {"frame", "world"} => targets[t].session # NoSession
    BY <1>3 DEF SendNext, ChainRuns
  <2> DEFINE new == [targets[t] EXCEPT !.cmds = Tail(targets[t].cmds),
                                       !.waiting = Head(targets[t].cmds)]
  <2>2. targets'[t] = new
    BY <1>1, <1>3 DEF SendNext
  <2>3. /\ new.state = targets[t].state /\ new.session = targets[t].session
        /\ new.cmds = Tail(targets[t].cmds) /\ new.waiting = Head(targets[t].cmds)
    BY <1>1 DEF Target
  <2> HIDE DEF new
  <2>4. targets[t].session # NoSession
    <3>1. CASE targets[t].state = "frame"
      BY <2>1, <3>1
    <3>2. CASE targets[t].state # "frame"
      <4>1. Before[targets[t].state] # {}
        BY <2>1, <3>2, LaterStages
      <4> QED BY <1>1, <4>1 DEF Prepared, Done
    <3> QED BY <3>1, <3>2
  <2>5. Left(targets[t]) \subseteq Left(new) \cup {NoCommand}
    <3>1. targets[t].cmds \in Seq(Methods)
      BY <1>1 DEF Target
    <3>2. PICK cs \in Seq(Methods) : cs = targets[t].cmds
      BY <3>1
    <3>3. \A i \in 1..Len(cs) : cs[i] = Head(cs) \/ \E j \in 1..Len(Tail(cs)) : cs[i] = Tail(cs)[j]
      <4> TAKE i \in 1..Len(cs)
      <4>1. CASE i = 1
        BY <4>1
      <4>2. CASE i # 1
        <5>1. i - 1 \in 1..Len(Tail(cs)) /\ Tail(cs)[i - 1] = cs[i]
          BY <2>1, <3>2, <4>2
        <5> QED BY <5>1
      <4> QED BY <4>1, <4>2
    <3> QED BY <2>1, <2>3, <3>2, <3>3 DEF Left
  <2>6. Done(new) \subseteq Done(targets[t])
    BY <2>1, <2>3, <2>5, RunFacts DEF Done
  <2> QED BY <1>1, <2>2, <2>3, <2>4, <2>6 DEF Prepared
<1>4. CASE Advance(t)
  <2>1. /\ targets[t].waiting = NoCommand /\ targets[t].cmds = <<>> /\ targets[t].state \in Stages
    BY <1>4 DEF Advance, ChainRuns
  <2>2. targets'[t] = Enter(targets[t], AfterStage[targets[t].state])
    BY <1>1, <1>4 DEF Advance
  <2>3. AfterStage[targets[t].state] \in States
    BY <2>1, AfterStageType
  <2>4. /\ Done(targets'[t]) = Before[AfterStage[targets[t].state]]
        /\ targets'[t].waiting = NoCommand /\ targets'[t].session = targets[t].session
    BY <1>1, <2>2, <2>3, EnteredDone, EnterFacts
  <2>5. Left(targets[t]) = {NoCommand}
    <3>1. {targets[t].cmds[i] : i \in 1..Len(targets[t].cmds)} = {}
      BY <2>1
    <3> QED BY <2>1, <3>1 DEF Left
  <2>6. Done(targets[t]) = Before[targets[t].state] \cup Run(targets[t].state)
    BY <2>1, <2>5, RunFacts DEF Done
  <2>7. Done(targets'[t]) \subseteq Done(targets[t])
    BY <2>1, <2>4, <2>6, AdvanceRuns
  <2> QED BY <1>1, <2>4, <2>7 DEF Prepared
<1>5. CASE HandOver(t)
  <2>1. targets'[t] = [WithPage(targets[t]) EXCEPT !.initiator = NoCaller]
    BY <1>1, <1>5 DEF HandOver
  <2>2. WithPage(targets[t]) \in Target
    BY <1>1, WithPageFacts
  <2>3. /\ targets'[t].state = WithPage(targets[t]).state
        /\ targets'[t].cmds = WithPage(targets[t]).cmds
        /\ targets'[t].waiting = WithPage(targets[t]).waiting
        /\ targets'[t].session = WithPage(targets[t]).session
    BY <2>1, <2>2 DEF Target
  <2>4. /\ Done(targets'[t]) = Done(targets[t])
        /\ targets'[t].waiting = targets[t].waiting /\ targets'[t].session = targets[t].session
    BY <1>1, <2>3, SameDone, WithPageDone
  <2> QED BY <1>1, <2>4 DEF Prepared
<1>6. CASE ChainTimesOut(t)
  <2>1. targets'[t] = [Enter(targets[t], "closing") EXCEPT !.initiator = NoCaller]
    BY <1>1, <1>6 DEF ChainTimesOut
  <2>2. "closing" \in States
    BY DEF States
  <2>3. PICK e \in Target : e = Enter(targets[t], "closing")
    BY <1>1, <2>2, EnterFacts
  <2>4. Done(e) = {} /\ e.waiting = NoCommand /\ e.session = targets[t].session
    BY <1>1, <2>2, <2>3, EnteredDone, EnterFacts, BeforeFacts
  <2>5. /\ targets'[t].state = e.state /\ targets'[t].cmds = e.cmds
        /\ targets'[t].waiting = e.waiting /\ targets'[t].session = e.session
    BY <2>1, <2>3 DEF Target
  <2>6. Done(targets'[t]) = {}
    BY <2>4, <2>5, SameDone
  <2> QED BY <1>1, <2>4, <2>5, <2>6 DEF Prepared
<1> QED BY <1>2, <1>3, <1>4, <1>5, <1>6 DEF PollStep

LEMMA PollSInv ==
  ASSUME SInv, IInv', NEW u \in Tabs, PollStep(u) \/ ChainTimesOut(u) PROVE SInv'
<1>1. UNCHANGED <<sessions, inbox, attached, ran, tab, severed>>
  BY DEF PollStep, Attach, SendNext, Advance, HandOver, ChainTimesOut, browserVars
<1>2. \A t \in Tabs : t # u => targets'[t] = targets[t]
  <2>1. targets \in [Tabs -> Target]
    BY DEF SInv, IInv, TypesOK, TypeOK
  <2> QED BY <2>1 DEF PollStep, Attach, SendNext, Advance, HandOver, ChainTimesOut
<1>3. ASSUME NEW t \in Tabs, Quiet(t) PROVE Prepared(ran, attached, targets'[t], t)
  <2>1. CASE t = u
    BY <1>3, <2>1, PollPrepares
  <2>2. CASE t # u
    BY <1>2, <1>3, <2>2, QuietFacts
  <2> QED BY <2>1, <2>2
<1>4. ASSUME NEW t \in Tabs, Quiet(t) PROVE RunThere(t)'
  <2>1. CASE Advance(u) \/ HandOver(u)
    <3>1. UNCHANGED <<pending, outbox>>
      BY <2>1 DEF Advance, HandOver
    <3> QED BY <1>1, <1>4, <3>1, FewerRuns
  <2>2. CASE Attach(u) \/ ChainTimesOut(u)
    <3>1. PICK kind, s : Request(u, kind, s, NoCommand)
      BY <2>2 DEF Attach, ChainTimesOut
    <3> DEFINE cmd == Cmd(kind, u, s, NoCommand)
               p == Pending("internal", u, NoCommand, NoCaller)
    <3>2. cmd.id = next_id /\ p.id = next_id /\ ~Asks(p, t)
      BY DEF Cmd, Pending, Asks
    <3>3. Submit(cmd, p)
      BY <3>1 DEF Request
    <3> HIDE DEF cmd, p
    <3> QED BY <1>1, <1>4, <3>2, <3>3, SubmitRuns
  <2>3. CASE SendNext(u)
    <3> DEFINE m == Head(targets[u].cmds)
               cmd == Cmd("init", u, targets[u].session, m)
               p == Pending("internal", u, m, NoCaller)
    <3>1. Submit(cmd, p)
      BY <2>3 DEF SendNext, Request
    <3>2. /\ cmd.id = next_id /\ p.id = next_id /\ p.tab = u /\ p.method = m
          /\ cmd.kind = "init" /\ cmd.method = m /\ cmd.session = targets[u].session
      BY DEF Cmd, Pending
    <3>3. ASSUME t = u, m # NoCommand
          PROVE  targets[u].session # NoSession /\ attached[targets[u].session] = t
      <4>1. Prepared(ran, attached, targets'[t], t)
        BY <1>3, <1>4
      <4>2. targets[t] \in Target /\ targets \in [Tabs -> Target]
        BY <1>4, QuietFacts
      <4>3. targets'[t].session = targets[t].session /\ targets'[t].waiting = m
        BY <2>3, <3>3, <4>2 DEF SendNext, Target
      <4> QED BY <3>3, <4>1, <4>3 DEF Prepared
    <3> HIDE DEF m, cmd, p
    <3>4. Asks(p, t) => /\ cmd.kind = "init" /\ cmd.method = p.method
                        /\ cmd.session # NoSession /\ attached[cmd.session] = t
      BY <3>2, <3>3 DEF Asks
    <3> QED BY <1>1, <1>4, <3>1, <3>2, <3>4, SubmitRuns
  <2> QED BY <2>1, <2>2, <2>3 DEF PollStep
<1> QED BY <1>1, <1>3, <1>4, HandlerSets

-----------------------------------------------------------------------------
(* Messages that are read *)

\* Commands nobody in the table asked for are no answer to who did.
LEMMA ReadingSets ==
  ASSUME SInv, IInv', NEW m, Reads(m), pending' \subseteq pending,
         \A i \in 1..Len(outbox') :
           outbox'[i].id >= next_id \/ \E j \in 1..Len(outbox) : outbox'[i] = outbox[j],
         \A t \in Tabs : Quiet(t) =>
           /\ Prepared(ran, attached, targets'[t], t)
           /\ \A s \in Sessions : sessions'[s] = t => attached[s] = t
  PROVE  SInv'
<1>1. TypesOK /\ AnswersMatch /\ inbox \in Seq(Message)
  BY TypesParts DEF SInv, IInv, Promises
<1>2. /\ UNCHANGED <<attached, ran, tab, severed>>
      /\ \A i \in 1..Len(inbox') : \E j \in 1..Len(inbox) : inbox'[i] = inbox[j]
  <2>1. \A i \in 1..Len(inbox') : i + 1 \in 1..Len(inbox) /\ inbox'[i] = inbox[i + 1]
    BY <1>1, ReadsFacts
  <2> QED BY <2>1 DEF Reads, browserVars
<1>3. ASSUME NEW t \in Tabs, Quiet(t) PROVE RunThere(t)'
  <2>1. RunThere(t)
    BY <1>3, QuietFacts
  <2>2. next_id \in Nat /\ \A p \in pending : p.id \in Nat /\ p.id < next_id
    BY <1>1, TypesParts, RecordTypes DEF PendingOK
  <2>3. ASSUME NEW p \in pending', NEW i \in 1..Len(outbox')
        PROVE  \/ \E j \in 1..Len(outbox) : outbox'[i] = outbox[j]
               \/ SentFor(attached', outbox'[i], p, t)
    <3>1. CASE outbox'[i].id >= next_id
      <4>1. p.id \in Nat /\ p.id < next_id
        BY <2>2
      <4>2. outbox'[i].id # p.id
        BY <2>2, <3>1, <4>1
      <4> QED BY <4>2 DEF SentFor
    <3> QED BY <3>1
  <2>4. \A s \in Sessions : ran[s] \subseteq ran'[s] /\ (attached[s] = t => attached'[s] = t)
    BY <1>2
  <2>5. \A p \in pending' : p \in pending \/ (p.id \in Nat /\ p.id >= next_id)
    OBVIOUS
  <2> QED BY <1>1, <1>2, <2>1, <2>3, <2>4, <2>5, RunThereStays
<1>4. ASSUME NEW t \in Tabs, Quiet(t) PROVE OwnSessions(t)'
  <2>1. OwnSessions(t) /\ \A s \in Sessions : sessions'[s] = t => attached[s] = t
    BY <1>4, QuietFacts
  <2>2. \A i \in 1..Len(inbox') :
          Announces(inbox'[i]) /\ inbox'[i].tab = t => attached[inbox'[i].session] = t
    BY <1>2, <2>1 DEF OwnSessions
  <2> QED BY <1>2, <2>1, <2>2 DEF OwnSessions, Announces
<1>5. \A t \in Tabs : Quiet(t)' <=> Quiet(t)
  BY <1>2 DEF Quiet
<1>6. DetachedAreGone'
  BY <1>2 DEF SInv, DetachedAreGone
<1>7. \A t \in Tabs : Quiet(t)' => SetUp(t)'
  BY <1>2, <1>3, <1>4, <1>5 DEF SetUp
<1>8. (ran \in [Sessions -> SUBSET (Methods \cup {NoCommand})])'
  BY <1>2 DEF SInv
<1> QED BY <1>6, <1>7, <1>8 DEF SInv

LEMMA EventsSInv ==
  ASSUME SInv, IInv', NEW m, Reads(m), Events(m) PROVE SInv'
<1>1. /\ TypesOK /\ inbox \in Seq(Message) /\ targets \in [Tabs -> Target]
      /\ sessions \in [Sessions -> Tabs \cup {NoTab}]
  BY TypesParts DEF SInv, IInv
<1>2. m \in Message /\ Len(inbox) \in Nat \ {0} /\ m = inbox[1] /\ 1 \in 1..Len(inbox)
  <2>1. m \in Message /\ Len(inbox) \in Nat \ {0} /\ m = inbox[1]
    BY <1>1, ReadsFacts
  <2> QED BY <2>1
<1>3. UNCHANGED <<pending, outbox>>
  BY DEF Events, OnTargetCreated, OnAttached, OnDetached, OnDestroyed, OnLoaded
<1>4. ASSUME NEW t \in Tabs, Quiet(t)
      PROVE  /\ Prepared(ran, attached, targets'[t], t)
             /\ \A s \in Sessions : sessions'[s] = t => attached[s] = t
  <2>1. /\ targets[t] \in Target /\ Prepared(ran, attached, targets[t], t)
        /\ \A s \in Sessions : sessions[s] = t => attached[s] = t
        /\ targets[t].session \in Sessions \cup {NoSession}
    BY <1>4, QuietFacts DEF OwnSessions
  <2>2. CASE OnTargetCreated(m)
    <3>1. targets'[t] = targets[t] \/ targets'[t] = NewTarget
      BY <1>1, <2>2 DEF OnTargetCreated
    <3>2. UNCHANGED sessions
      BY <2>2 DEF OnTargetCreated
    <3>3. CASE targets'[t] = NewTarget
      BY <2>1, <3>2, <3>3, NewDone, NothingDone
    <3> QED BY <2>1, <3>1, <3>2, <3>3
  <2>3. CASE OnDestroyed(m)
    <3>1. targets'[t] = targets[t] \/ targets'[t] = NoTarget
      BY <1>1, <2>3 DEF OnDestroyed
    <3>2. \A s \in Sessions : sessions'[s] = NoTab \/ sessions'[s] = sessions[s]
      BY <2>3 DEF OnDestroyed
    <3>3. Prepared(ran, attached, targets'[t], t)
      BY <2>1, <3>1, NewDone, NothingDone
    <3> QED BY <2>1, <3>2, <3>3, NullAssumption
  <2>4. CASE OnLoaded(m)
    <3>1. targets'[t] = targets[t] \/ targets'[t] = [targets[t] EXCEPT !.main = "loaded"]
      BY <1>1, <2>4 DEF OnLoaded
    <3>2. UNCHANGED sessions
      BY <2>4 DEF OnLoaded
    <3>3. CASE targets'[t] = [targets[t] EXCEPT !.main = "loaded"]
      <4>1. /\ targets'[t].state = targets[t].state /\ targets'[t].cmds = targets[t].cmds
            /\ targets'[t].waiting = targets[t].waiting
            /\ targets'[t].session = targets[t].session
        BY <2>1, <3>3 DEF Target
      <4>2. Done(targets'[t]) = Done(targets[t])
        BY <4>1, SameDone
      <4> QED BY <2>1, <3>2, <4>1, <4>2 DEF Prepared
    <3> QED BY <2>1, <3>1, <3>2, <3>3
  <2>5. CASE OnAttached(m)
    <3>1. m.type = "attached" /\ m.session \in Sessions /\ m.tab \in Tabs
      BY <1>2, <2>5, RecordTypes DEF OnAttached
    <3>2. m.tab = t => attached[m.session] = t
      BY <1>2, <1>4, <3>1, QuietFacts DEF OwnSessions, Announces
    <3>3. \A s \in Sessions : sessions'[s] = t => attached[s] = t
      BY <1>1, <2>1, <2>5, <3>1, <3>2 DEF OnAttached
    <3>4. \/ targets'[t] = targets[t]
          \/ m.tab = t /\ targets'[t] = [targets[t] EXCEPT !.session = m.session]
      BY <1>1, <2>5 DEF OnAttached
    <3>5. CASE m.tab = t /\ targets'[t] = [targets[t] EXCEPT !.session = m.session]
      <4>1. /\ targets'[t].state = targets[t].state /\ targets'[t].cmds = targets[t].cmds
            /\ targets'[t].waiting = targets[t].waiting
            /\ targets'[t].session = m.session
        BY <2>1, <3>5 DEF Target
      <4>2. Done(targets'[t]) = Done(targets[t])
        BY <4>1, SameDone
      <4>3. m.session # NoSession /\ attached[m.session] = t
        BY <3>1, <3>2, <3>5, NullAssumption
      <4> QED BY <2>1, <3>3, <4>1, <4>2, <4>3 DEF Prepared
    <3> QED BY <2>1, <3>3, <3>4, <3>5
  <2>6. CASE OnDetached(m)
    <3>1. m.type = "detached" /\ m.session \in Sessions
      BY <1>2, <2>6, RecordTypes DEF OnDetached
    <3>2. attached[m.session] = "gone"
      BY <1>2, <3>1 DEF SInv, DetachedAreGone
    <3>3. sessions[m.session] # t
      BY <2>1, <3>1, <3>2, NullAssumption
    <3>4. targets'[t] = targets[t]
      BY <1>1, <2>6, <3>3 DEF OnDetached
    <3>5. \A s \in Sessions : sessions'[s] = NoTab \/ sessions'[s] = sessions[s]
      BY <1>1, <2>6 DEF OnDetached
    <3> QED BY <2>1, <3>4, <3>5, NullAssumption
  <2> QED BY <2>2, <2>3, <2>4, <2>5, <2>6 DEF Events
<1> QED BY <1>3, <1>4, ReadingSets

LEMMA ResponsesSInv ==
  ASSUME SInv, IInv', NEW m, Reads(m), OnResponse(m) PROVE SInv'
<1>1. /\ TypesOK /\ inbox \in Seq(Message) /\ targets \in [Tabs -> Target]
      /\ outbox \in Seq(Command) /\ pending \subseteq PendingRecord /\ next_id \in Nat
  BY TypesParts DEF SInv, IInv, PendingOK
<1>2. m \in Message /\ Len(inbox) \in Nat \ {0} /\ m = inbox[1] /\ 1 \in 1..Len(inbox)
  <2>1. m \in Message /\ Len(inbox) \in Nat \ {0} /\ m = inbox[1]
    BY <1>1, ReadsFacts
  <2> QED BY <2>1
<1>3. UNCHANGED sessions /\ m.type = "response" /\ pending' \subseteq pending
  BY DEF OnResponse
<1>4. ASSUME NEW p, OnGetTargetsResponse(m, p), NEW i \in 1..Len(outbox')
      PROVE  outbox'[i].id >= next_id \/ \E j \in 1..Len(outbox) : outbox'[i] = outbox[j]
  <2>1. m.list \in Seq(Tabs)
    BY <1>2, RecordTypes
  <2>2. PICK n \in Nat : n = Len(m.list)
    BY <2>1
  <2> DEFINE new == [k \in 1..n |-> [Cmd("attach", m.list[k], NoSession, NoCommand)
                                       EXCEPT !.id = next_id + k - 1]]
  <2>3. outbox' = outbox \o new
    BY <1>4, <2>2 DEF OnGetTargetsResponse
  <2>4. Len(new) = n /\ \A k \in 1..n : new[k].id = next_id + k - 1
    BY <2>2 DEF Cmd
  <2> HIDE DEF new
  <2>5. PICK k \in Nat : k = Len(outbox)
    BY <1>1
  <2>6. PICK S : S = {new[j] : j \in 1..n} /\ new \in Seq(S)
    <3>1. PICK S : S = {new[j] : j \in 1..n}
      OBVIOUS
    <3>2. new \in [1..n -> S]
      BY <3>1 DEF new
    <3>3. new \in Seq(S)
      BY <2>2, <3>2
    <3> QED BY <3>1, <3>3
  <2>7. i \in 1..k + n /\ outbox'[i] = IF i <= k THEN outbox[i] ELSE new[i - k]
    BY <1>1, <2>3, <2>4, <2>5, <2>6
  <2>8. CASE i <= k
    BY <2>5, <2>7, <2>8
  <2>9. CASE ~(i <= k)
    <3>1. i - k \in 1..n
      BY <2>2, <2>5, <2>7, <2>9
    <3> QED BY <1>1, <2>2, <2>4, <2>7, <2>9, <3>1
  <2> QED BY <2>8, <2>9
<1>5. \A i \in 1..Len(outbox') :
        outbox'[i].id >= next_id \/ \E j \in 1..Len(outbox) : outbox'[i] = outbox[j]
  <2>1. CASE UNCHANGED outbox
    BY <2>1
  <2>2. UNCHANGED outbox \/ \E p : OnGetTargetsResponse(m, p)
    BY DEF OnResponse, OnCreateResponse, OnInternalResponse
  <2> QED BY <1>4, <2>1, <2>2
<1>6. ASSUME NEW t \in Tabs, Quiet(t) PROVE Prepared(ran, attached, targets'[t], t)
  <2>1. /\ targets[t] \in Target /\ Prepared(ran, attached, targets[t], t)
        /\ targets[t].session \in Sessions \cup {NoSession}
    BY <1>6, QuietFacts
  <2>2. CASE UNCHANGED targets
    BY <2>1, <2>2
  <2>3. ASSUME NEW p \in pending, p.id = m.id, OnCreateResponse(m, p)
        PROVE  Prepared(ran, attached, targets'[t], t)
    <3>1. targets'[t] = targets[t] \/ targets'[t] = [targets[t] EXCEPT !.initiator = p.caller]
      BY <1>1, <2>3 DEF OnCreateResponse
    <3>2. CASE targets'[t] = [targets[t] EXCEPT !.initiator = p.caller]
      <4>1. /\ targets'[t].state = targets[t].state /\ targets'[t].cmds = targets[t].cmds
            /\ targets'[t].waiting = targets[t].waiting
            /\ targets'[t].session = targets[t].session
        BY <2>1, <3>2 DEF Target
      <4>2. Done(targets'[t]) = Done(targets[t])
        BY <4>1, SameDone
      <4> QED BY <2>1, <4>1, <4>2 DEF Prepared
    <3> QED BY <2>1, <3>1, <3>2
  <2>4. ASSUME NEW p \in pending, OnGetTargetsResponse(m, p)
        PROVE  Prepared(ran, attached, targets'[t], t)
    <3>1. targets'[t] = targets[t] \/ targets'[t] = NewTarget
      BY <2>4 DEF OnGetTargetsResponse
    <3> QED BY <2>1, <3>1, NewDone, NothingDone
  <2>5. ASSUME NEW p \in pending, p.id = m.id, OnInternalResponse(m, p)
        PROVE  Prepared(ran, attached, targets'[t], t)
    <3>1. \/ targets'[t] = targets[t]
          \/ p.tab = t /\ targets'[t] = Answered(targets[t], p.method, m.ok)
      BY <1>1, <2>5 DEF OnInternalResponse
    <3>2. CASE p.tab = t /\ targets'[t] = Answered(targets[t], p.method, m.ok)
      <4> DEFINE new == Answered(targets[t], p.method, m.ok)
      <4>1. /\ new.state = targets[t].state /\ new.cmds = targets[t].cmds
            /\ new.session = targets[t].session
            /\ new.waiting = IF targets[t].state \in Stages /\ targets[t].waiting = p.method
                             THEN NoCommand ELSE targets[t].waiting
        BY <2>1 DEF Answered, Target
      <4>2. targets'[t] = new
        BY <3>2
      <4> HIDE DEF new
      <4>3. CASE new.waiting = targets[t].waiting
        <5>1. Done(new) = Done(targets[t])
          BY <4>1, <4>3, SameDone
        <5> QED BY <2>1, <4>1, <4>2, <4>3, <5>1 DEF Prepared
      <4>4. CASE new.waiting # targets[t].waiting
        <5>1. /\ targets[t].waiting = p.method /\ p.method # NoCommand
              /\ new.waiting = NoCommand /\ targets[t].state \in Stages
          BY <4>1, <4>4
        <5>2. targets[t].session # NoSession /\ attached[targets[t].session] = t
          BY <2>1, <5>1 DEF Prepared
        <5>3. AnsweredFor(attached, ran, m, p, t)
          BY <1>2, <1>6, <2>5, QuietFacts DEF RunThere
        <5>4. PICK s \in Sessions : attached[s] = t /\ p.method \in ran[s]
          BY <1>3, <2>5, <3>2, <5>1, <5>3 DEF AnsweredFor, Asks
        <5>6. Left(targets[t]) \subseteq Left(new) \cup {p.method}
          BY <4>1, <5>1 DEF Left
        <5>7. Done(new) \subseteq Done(targets[t]) \cup {p.method}
          BY <4>1, <5>1, <5>6 DEF Done
        <5> QED BY <2>1, <4>1, <4>2, <5>1, <5>2, <5>4, <5>7 DEF Prepared
      <4> QED BY <4>3, <4>4
    <3> QED BY <2>1, <3>1, <3>2
  <2> QED BY <2>2, <2>3, <2>4, <2>5 DEF OnResponse
<1>7. \A t \in Tabs : Quiet(t) => \A s \in Sessions : sessions'[s] = t => attached[s] = t
  BY <1>3, QuietFacts DEF OwnSessions
<1> QED BY <1>3, <1>5, <1>6, <1>7, ReadingSets

-----------------------------------------------------------------------------
(* The browser *)

LEMMA GrownBy ==
  ASSUME NEW q \in Seq(Message), NEW q2
  PROVE  /\ q2 = q \o <<>> => \A i \in 1..Len(q2) : \E j \in 1..Len(q) : q2[i] = q[j]
         /\ \A m : q2 = q \o <<m>> =>
              \A i \in 1..Len(q2) : q2[i] = m \/ \E j \in 1..Len(q) : q2[i] = q[j]
         /\ \A m, n : q2 = q \o <<m, n>> =>
              \A i \in 1..Len(q2) : q2[i] \in {m, n} \/ \E j \in 1..Len(q) : q2[i] = q[j]
<1>1. q2 = q \o <<>> => \A i \in 1..Len(q2) : \E j \in 1..Len(q) : q2[i] = q[j]
  OBVIOUS
<1>2. ASSUME NEW m, q2 = q \o <<m>>, NEW i \in 1..Len(q2)
      PROVE  q2[i] = m \/ \E j \in 1..Len(q) : q2[i] = q[j]
  BY <1>2
<1>3. ASSUME NEW m, NEW n, q2 = q \o <<m, n>>, NEW i \in 1..Len(q2)
      PROVE  q2[i] \in {m, n} \/ \E j \in 1..Len(q) : q2[i] = q[j]
  BY <1>3
<1> QED BY <1>1, <1>2, <1>3

\* Message m is none that a caller of a chain of a quiet tab waits for.
Unasked(m) ==
  m.type = "response" => \A p \in pending, t \in Tabs : Quiet(t) /\ Asks(p, t) => m.id # p.id

\* What is sent answers nobody's chain, and sessions and what was run stay.
LEMMA BrowserKeeps ==
  ASSUME SInv, IInv', UNCHANGED <<handlerVars, attached, ran>>,
         \A i \in 1..Len(outbox') : \E j \in 1..Len(outbox) : outbox'[i] = outbox[j],
         \A i \in 1..Len(inbox') :
           \/ \E j \in 1..Len(inbox) : inbox'[i] = inbox[j]
           \/ inbox'[i].type \notin {"attached", "detached"} /\ Unasked(inbox'[i]),
         \A t \in Tabs : Quiet(t)' => Quiet(t)
  PROVE  SInv'
<1>1. UNCHANGED <<targets, sessions, pending, next_id, attached, ran>>
  BY DEF handlerVars
<1>2. ASSUME NEW t \in Tabs, Quiet(t) PROVE RunThere(t)'
  <2>1. TypesOK /\ AnswersMatch /\ RunThere(t)
    BY <1>2, QuietFacts
  <2>2. \A p \in pending', i \in 1..Len(inbox') :
           \/ \E j \in 1..Len(inbox) : inbox'[i] = inbox[j]
           \/ AnsweredFor(attached', ran', inbox'[i], p, t)
    BY <1>1, <1>2 DEF Unasked, AnsweredFor
  <2>3. \A s \in Sessions : ran[s] \subseteq ran'[s] /\ (attached[s] = t => attached'[s] = t)
    BY <1>1
  <2>4. \A p \in pending' : p \in pending \/ (p.id \in Nat /\ p.id >= next_id)
    BY <1>1
  <2> QED BY <2>1, <2>2, <2>3, <2>4, RunThereStays
<1>3. ASSUME NEW t \in Tabs, Quiet(t) PROVE OwnSessions(t)'
  <2>1. OwnSessions(t)
    BY <1>3, QuietFacts
  <2> QED BY <1>1, <2>1 DEF OwnSessions, Announces
<1>4. DetachedAreGone'
  BY <1>1 DEF SInv, DetachedAreGone
<1>5. \A t \in Tabs : Quiet(t)' => SetUp(t)'
  BY <1>1, <1>2, <1>3 DEF SInv, SetUp
<1>6. (ran \in [Sessions -> SUBSET (Methods \cup {NoCommand})])'
  BY <1>1 DEF SInv
<1> QED BY <1>4, <1>5, <1>6 DEF SInv

\* Only a command of a chain has who waits for it.
LEMMA OtherKind ==
  ASSUME SInv, NEW kind, kind # "init", NEW cmd \in Served(kind), NEW m, m.id = cmd.id
  PROVE  Unasked(m)
<1> SUFFICES ASSUME NEW p \in pending, NEW t \in Tabs, Quiet(t), Asks(p, t), m.id = p.id
             PROVE  FALSE
  BY DEF Unasked
<1>1. outbox \in Seq(Command)
  BY TypesParts DEF SInv, IInv
<1>2. cmd.kind = kind /\ Len(outbox) \in Nat \ {0} /\ cmd = outbox[1]
  BY <1>1, ServedIsCommand
<1>3. 1 \in 1..Len(outbox)
  BY <1>2
<1>4. SentFor(attached, cmd, p, t)
  BY <1>2, <1>3, QuietFacts DEF RunThere
<1> QED BY <1>2, <1>4 DEF SentFor

LEMMA AnsweredFacts ==
  ASSUME TypesOK, NEW kind, NEW cmd \in Served(kind), NEW answer, Answers(answer)
  PROVE  /\ \A i \in 1..Len(outbox') : \E j \in 1..Len(outbox) : outbox'[i] = outbox[j]
         /\ inbox' = inbox \o answer /\ inbox \in Seq(Message)
         /\ UNCHANGED handlerVars
<1>1. outbox \in Seq(Command) /\ inbox \in Seq(Message)
  BY TypesParts
<1>2. Len(outbox) \in Nat \ {0} /\ outbox' = Tail(outbox)
  BY <1>1, ServedIsCommand DEF Answers
<1>3. outbox # <<>>
  BY <1>2
<1>4. \A i \in 1..Len(outbox') : \E j \in 1..Len(outbox) : outbox'[i] = outbox[j]
  <2> TAKE i \in 1..Len(outbox')
  <2>1. i + 1 \in 1..Len(outbox) /\ outbox'[i] = outbox[i + 1]
    BY <1>1, <1>2, <1>3
  <2> QED BY <2>1
<1> QED BY <1>1, <1>4 DEF Answers

LEMMA ResponseFacts ==
  /\ \A id, ok, t, list : /\ Response(id, ok, t, list).type = "response"
                          /\ Response(id, ok, t, list).id = id
  /\ \A cmd : /\ Obeyed(cmd).type = "response" /\ Obeyed(cmd).id = cmd.id
              /\ Refused(cmd).type = "response" /\ Refused(cmd).id = cmd.id
BY DEF Obeyed, Refused, Response

LEMMA RefusedKeeps ==
  ASSUME SInv, IInv', NEW kind, kind # "init", NEW cmd \in Served(kind),
         NEW m, m.type = "response", m.id = cmd.id, Answers(<<m>>),
         UNCHANGED <<attached, ran>>, \A t \in Tabs : Quiet(t)' => Quiet(t)
  PROVE  SInv'
<1>1. /\ \A i \in 1..Len(outbox') : \E j \in 1..Len(outbox) : outbox'[i] = outbox[j]
      /\ inbox' = inbox \o <<m>> /\ inbox \in Seq(Message)
      /\ UNCHANGED handlerVars
  BY AnsweredFacts DEF SInv, IInv
<1>2. Unasked(m) /\ m.type \notin {"attached", "detached"}
  BY OtherKind
<1>3. \A i \in 1..Len(inbox') : inbox'[i] = m \/ \E j \in 1..Len(inbox) : inbox'[i] = inbox[j]
  BY <1>1, GrownBy
<1>4. \A i \in 1..Len(inbox') :
           \/ \E j \in 1..Len(inbox) : inbox'[i] = inbox[j]
           \/ inbox'[i].type \notin {"attached", "detached"} /\ Unasked(inbox'[i])
  BY <1>2, <1>3
<1> QED BY <1>1, <1>4, BrowserKeeps

LEMMA CreatesSInv ==
  ASSUME SInv, IInv', BrowserCreates PROVE SInv'
<1>1. PICK cmd \in Served("create") :
       \/ \E t \in Tabs :
            /\ tab[t] = "free"
            /\ tab' = [tab EXCEPT ![t] = "open"]
            /\ Answers(<<Event("targetCreated", t, NoSession),
                         Response(cmd.id, TRUE, t, <<>>)>>)
       \/ Answers(<<Refused(cmd)>>) /\ UNCHANGED tab
  BY DEF BrowserCreates
<1>2. UNCHANGED <<attached, ran, severed>> /\ tab \in [Tabs -> {"free", "open", "closing", "gone"}]
  BY TypesParts DEF BrowserCreates, SInv, IInv
<1>3. CASE Answers(<<Refused(cmd)>>) /\ UNCHANGED tab
  <2>1. \A t \in Tabs : Quiet(t)' => Quiet(t)
    BY <1>2, <1>3 DEF Quiet
  <2> QED BY <1>2, <1>3, <2>1, ResponseFacts, RefusedKeeps
<1>4. ASSUME NEW t \in Tabs, tab[t] = "free", tab' = [tab EXCEPT ![t] = "open"],
             Answers(<<Event("targetCreated", t, NoSession), Response(cmd.id, TRUE, t, <<>>)>>)
      PROVE  SInv'
  <2>1. \A u \in Tabs : Quiet(u)' => Quiet(u)
    BY <1>2, <1>4 DEF Quiet
  <2>2. PICK e : e = Event("targetCreated", t, NoSession)
    OBVIOUS
  <2>3. PICK r : r = Response(cmd.id, TRUE, t, <<>>)
    OBVIOUS
  <2>4. e.type = "targetCreated" /\ r.type = "response" /\ r.id = cmd.id
    <3>1. e.type = "targetCreated"
      BY <2>2 DEF Event
    <3>2. r.type = "response" /\ r.id = cmd.id
      BY <2>3 DEF Response
    <3> QED BY <3>1, <3>2
  <2>5. Unasked(e) /\ Unasked(r)
    <3>1. Unasked(e)
      BY <2>4 DEF Unasked
    <3> QED BY <2>4, <3>1, OtherKind
  <2>6. /\ \A i \in 1..Len(outbox') : \E j \in 1..Len(outbox) : outbox'[i] = outbox[j]
        /\ inbox' = inbox \o <<e, r>> /\ inbox \in Seq(Message)
        /\ UNCHANGED handlerVars
    BY <1>4, <2>2, <2>3, AnsweredFacts DEF SInv, IInv
  <2>7. \A i \in 1..Len(inbox') :
          inbox'[i] \in {e, r} \/ \E j \in 1..Len(inbox) : inbox'[i] = inbox[j]
    BY <2>6, GrownBy
  <2>8. \A i \in 1..Len(inbox') :
           \/ \E j \in 1..Len(inbox) : inbox'[i] = inbox[j]
           \/ inbox'[i].type \notin {"attached", "detached"} /\ Unasked(inbox'[i])
    BY <2>4, <2>5, <2>7
  <2> QED BY <1>2, <2>1, <2>6, <2>8, BrowserKeeps
<1> QED BY <1>1, <1>3, <1>4

LEMMA ListsSInv ==
  ASSUME SInv, IInv', BrowserLists PROVE SInv'
<1>1. PICK cmd \in Served("getTargets") :
        (\E list : Answers(<<Response(cmd.id, TRUE, NoTab, list)>>)) /\ UNCHANGED browserVars
  BY DEF BrowserLists
<1>2. UNCHANGED <<attached, ran>> /\ \A t \in Tabs : Quiet(t)' => Quiet(t)
  BY <1>1 DEF browserVars, Quiet
<1>3. PICK list : Answers(<<Response(cmd.id, TRUE, NoTab, list)>>)
  BY <1>1
<1>4. PICK m : m = Response(cmd.id, TRUE, NoTab, list)
  OBVIOUS
<1>5. m.type = "response" /\ m.id = cmd.id /\ Answers(<<m>>)
  <2>1. m.type = "response" /\ m.id = cmd.id
    BY <1>4 DEF Response
  <2> QED BY <1>3, <1>4, <2>1
<1> QED BY <1>2, <1>5, RefusedKeeps

LEMMA ClosesSInv ==
  ASSUME SInv, IInv', BrowserCloses PROVE SInv'
<1>1. PICK cmd \in Served("close") :
        /\ Answers(<<Obeyed(cmd)>>) \/ Answers(<<Refused(cmd)>>)
        /\ tab' = tab \/ tab' = [tab EXCEPT ![cmd.tab] = "closing"]
  BY DEF BrowserCloses
<1>2. UNCHANGED <<attached, ran, severed>> /\ tab \in [Tabs -> {"free", "open", "closing", "gone"}]
  BY TypesParts DEF BrowserCloses, SInv, IInv
<1>3. \A t \in Tabs : Quiet(t)' => Quiet(t)
  BY <1>1, <1>2 DEF Quiet
<1>4. PICK m \in {Obeyed(cmd), Refused(cmd)} : Answers(<<m>>)
  BY <1>1
<1>5. m.type = "response" /\ m.id = cmd.id
  BY ResponseFacts
<1> QED BY <1>2, <1>3, <1>4, <1>5, RefusedKeeps

\* The tab gets a session.
LEMMA AttachesSInv ==
  ASSUME SInv, IInv', BrowserAttaches PROVE SInv'
<1>1. PICK cmd \in Served("attach") :
       \/ \E s \in Sessions :
            /\ Alive(cmd.tab) /\ attached[s] = "unused"
            /\ attached' = [attached EXCEPT ![s] = cmd.tab]
            /\ Answers(<<Event("attached", cmd.tab, s), Obeyed(cmd)>>)
       \/ Answers(<<Refused(cmd)>>) /\ UNCHANGED attached
  BY DEF BrowserAttaches
<1>2. UNCHANGED <<ran, tab, severed>> /\ attached \in [Sessions -> Tabs \cup {"unused", "gone"}]
  BY TypesParts DEF BrowserAttaches, SInv, IInv
<1>3. CASE Answers(<<Refused(cmd)>>) /\ UNCHANGED attached
  <2>1. \A t \in Tabs : Quiet(t)' => Quiet(t)
    BY <1>2, <1>3 DEF Quiet
  <2> QED BY <1>2, <1>3, <2>1, ResponseFacts, RefusedKeeps
<1>4. ASSUME NEW s \in Sessions, attached[s] = "unused",
             attached' = [attached EXCEPT ![s] = cmd.tab],
             Answers(<<Event("attached", cmd.tab, s), Obeyed(cmd)>>)
      PROVE  SInv'
  <2>1. PICK e : e = Event("attached", cmd.tab, s)
    OBVIOUS
  <2>2. PICK r : r = Obeyed(cmd)
    OBVIOUS
  <2>3. e.type = "attached" /\ e.tab = cmd.tab /\ e.session = s
        /\ r.type = "response" /\ r.id = cmd.id
    BY <2>1, <2>2, EventType, ResponseFacts
  <2>4. /\ \A i \in 1..Len(outbox') : \E j \in 1..Len(outbox) : outbox'[i] = outbox[j]
        /\ inbox' = inbox \o <<e, r>> /\ inbox \in Seq(Message)
        /\ UNCHANGED handlerVars
    BY <1>4, <2>1, <2>2, AnsweredFacts DEF SInv, IInv
  <2>5. \A i \in 1..Len(inbox') :
          inbox'[i] \in {e, r} \/ \E j \in 1..Len(inbox) : inbox'[i] = inbox[j]
    BY <2>4, GrownBy
  <2>6. UNCHANGED <<targets, sessions, pending, next_id>>
    BY <2>4 DEF handlerVars
  <2>7. \A q \in Sessions : attached'[q] = IF q = s THEN cmd.tab ELSE attached[q]
    BY <1>2, <1>4
  <2>8. \A t \in Tabs : Quiet(t)' =>
          /\ Quiet(t)
          /\ \A q \in Sessions : attached[q] = t => attached'[q] = t
    BY <1>2, <1>4, <2>7, NullAssumption DEF Quiet
  <2>9. ASSUME NEW t \in Tabs, Quiet(t)' PROVE RunThere(t)'
    <3>1. TypesOK /\ AnswersMatch /\ RunThere(t) /\ Quiet(t)
      BY <2>8, <2>9, QuietFacts
    <3>2. Unasked(r)
      BY <2>3, OtherKind
    <3>3. \A p \in pending' : AnsweredFor(attached', ran', e, p, t)
      BY <2>3 DEF AnsweredFor
    <3>4. \A p \in pending' : AnsweredFor(attached', ran', r, p, t)
      BY <2>3, <2>6, <3>1, <3>2 DEF AnsweredFor, Unasked
    <3>5. \A p \in pending', i \in 1..Len(inbox') :
             \/ \E j \in 1..Len(inbox) : inbox'[i] = inbox[j]
             \/ AnsweredFor(attached', ran', inbox'[i], p, t)
      BY <2>5, <3>3, <3>4
    <3>6. \A q \in Sessions : ran[q] \subseteq ran'[q] /\ (attached[q] = t => attached'[q] = t)
      BY <1>2, <2>8, <2>9
    <3>7. \A p \in pending' : p \in pending \/ (p.id \in Nat /\ p.id >= next_id)
      BY <2>6
    <3> QED BY <2>4, <3>1, <3>5, <3>6, <3>7, RunThereStays
  <2>10. ASSUME NEW t \in Tabs, Quiet(t)' PROVE OwnSessions(t)'
    <3>1. OwnSessions(t) /\ Quiet(t)
      BY <2>8, <2>9, <2>10, QuietFacts
    <3>3. \A q \in Sessions : attached[q] = t => attached'[q] = t
      BY <2>8, <2>10
    <3>4. \A q \in Sessions : sessions'[q] = t => attached'[q] = t
      BY <2>6, <3>1, <3>3 DEF OwnSessions
    <3>5. ASSUME NEW i \in 1..Len(inbox'), Announces(inbox'[i]), inbox'[i].tab = t
          PROVE  attached'[inbox'[i].session] = t
      <4>1. CASE inbox'[i] = e
        BY <2>3, <2>7, <3>5, <4>1
      <4>2. CASE inbox'[i] = r
        BY <2>3, <3>5, <4>2 DEF Announces
      <4>3. ASSUME NEW j \in 1..Len(inbox), inbox'[i] = inbox[j]
            PROVE  attached'[inbox'[i].session] = t
        <5>1. inbox[j] \in Message
          BY <2>4
        <5>2. inbox[j].session \in Sessions
          BY <3>5, <4>3, <5>1, RecordTypes DEF Announces
        <5>3. attached[inbox[j].session] = t
          BY <3>1, <3>5, <4>3 DEF OwnSessions
        <5> QED BY <3>3, <4>3, <5>2, <5>3
      <4> QED BY <2>5, <4>1, <4>2, <4>3
    <3> QED BY <3>4, <3>5 DEF OwnSessions, Announces
  <2>11. ASSUME NEW t \in Tabs, Quiet(t)' PROVE Prepared(ran', attached', targets'[t], t)
    <3>1. /\ Quiet(t) /\ Prepared(ran, attached, targets[t], t)
          /\ targets[t].session \in Sessions \cup {NoSession}
      BY <2>8, <2>11, QuietFacts
    <3>2. \A q \in Sessions : attached[q] = t => attached'[q] = t
      BY <2>8, <2>11
    <3> QED BY <1>2, <2>6, <3>1, <3>2, PreparedStays
  <2>12. ASSUME NEW i \in 1..Len(inbox'), inbox'[i].type = "detached"
         PROVE  attached'[inbox'[i].session] = "gone"
    <3>1. PICK j \in 1..Len(inbox) : inbox'[i] = inbox[j]
      BY <2>3, <2>5, <2>12
    <3>2. inbox[j] \in Message
      BY <2>4
    <3>3. inbox[j].session \in Sessions /\ attached[inbox[j].session] = "gone"
      BY <2>12, <3>1, <3>2, RecordTypes DEF SInv, DetachedAreGone
    <3> QED BY <1>4, <2>7, <3>1, <3>3
  <2>13. (ran \in [Sessions -> SUBSET (Methods \cup {NoCommand})])' /\ DetachedAreGone'
    BY <1>2, <2>12 DEF SInv, DetachedAreGone
  <2>14. \A t \in Tabs : Quiet(t)' => SetUp(t)'
    BY <2>9, <2>10, <2>11 DEF SetUp
  <2> QED BY <2>13, <2>14 DEF SInv
<1> QED BY <1>1, <1>3, <1>4

\* A command of a chain is run in the session it was sent in.
LEMMA RunsSInv ==
  ASSUME SInv, IInv', BrowserRuns PROVE SInv'
<1>1. PICK cmd \in Served("init") :
       \/ /\ cmd.session # NoSession /\ ~Lost(cmd.session)
          /\ ran' = [ran EXCEPT ![cmd.session] = @ \cup {cmd.method}]
          /\ Answers(<<Obeyed(cmd)>>)
       \/ /\ cmd.session = NoSession \/ Lost(cmd.session)
          /\ Answers(<<Refused(cmd)>>)
          /\ UNCHANGED ran
  BY DEF BrowserRuns
<1>2. /\ UNCHANGED <<attached, tab, severed>> /\ outbox \in Seq(Command) /\ TypesOK
      /\ ran \in [Sessions -> SUBSET (Methods \cup {NoCommand})]
  BY TypesParts DEF BrowserRuns, SInv, IInv
<1>3. /\ cmd \in Command /\ cmd.kind = "init" /\ Len(outbox) \in Nat \ {0} /\ cmd = outbox[1]
      /\ 1 \in 1..Len(outbox)
  <2>1. cmd \in Command /\ cmd.kind = "init" /\ Len(outbox) \in Nat \ {0} /\ cmd = outbox[1]
    BY <1>2, ServedIsCommand
  <2> QED BY <2>1
<1>4. cmd.session \in Sessions \cup {NoSession} /\ cmd.method \in Methods \cup {NoCommand}
  BY <1>3 DEF Command
<1>5. PICK r \in {Obeyed(cmd), Refused(cmd)} : Answers(<<r>>)
  BY <1>1
<1>6. r.type = "response" /\ r.id = cmd.id
  BY ResponseFacts
<1>7. /\ \A i \in 1..Len(outbox') : \E j \in 1..Len(outbox) : outbox'[i] = outbox[j]
      /\ inbox' = inbox \o <<r>> /\ inbox \in Seq(Message)
      /\ UNCHANGED handlerVars
  BY <1>2, <1>5, AnsweredFacts
<1>8. UNCHANGED <<targets, sessions, pending, next_id>>
  BY <1>7 DEF handlerVars
<1>9. \A i \in 1..Len(inbox') : inbox'[i] = r \/ \E j \in 1..Len(inbox) : inbox'[i] = inbox[j]
  BY <1>7, GrownBy
<1>10. \A s \in Sessions : ran[s] \subseteq ran'[s]
  BY <1>1, <1>2
<1>11. \A t \in Tabs : Quiet(t)' <=> Quiet(t)
  BY <1>2 DEF Quiet
<1>12. ASSUME NEW t \in Tabs, Quiet(t) PROVE RunThere(t)'
  <2>1. TypesOK /\ AnswersMatch /\ RunThere(t)
    BY <1>12, QuietFacts
  <2>2. ASSUME NEW p \in pending PROVE AnsweredFor(attached', ran', r, p, t)
    <3> SUFFICES ASSUME Asks(p, t), r.id = p.id
                 PROVE  \E s \in Sessions : attached'[s] = t /\ p.method \in ran'[s]
      BY DEF AnsweredFor
    <3>1. SentFor(attached, cmd, p, t)
      BY <1>3, <2>1, <2>2 DEF RunThere
    <3>2. cmd.method = p.method /\ cmd.session # NoSession /\ attached[cmd.session] = t
      BY <1>6, <3>1 DEF SentFor
    <3>3. cmd.session \in Sessions /\ ~Lost(cmd.session)
      BY <1>4, <3>2 DEF Lost
    <3>4. p.method \in ran'[cmd.session]
      BY <1>1, <1>2, <3>2, <3>3
    <3> QED BY <1>2, <3>2, <3>3, <3>4
  <2>3. \A p \in pending', i \in 1..Len(inbox') :
           \/ \E j \in 1..Len(inbox) : inbox'[i] = inbox[j]
           \/ AnsweredFor(attached', ran', inbox'[i], p, t)
    BY <1>8, <1>9, <2>2
  <2>4. \A s \in Sessions : ran[s] \subseteq ran'[s] /\ (attached[s] = t => attached'[s] = t)
    BY <1>2, <1>10
  <2>5. \A p \in pending' : p \in pending \/ (p.id \in Nat /\ p.id >= next_id)
    BY <1>8
  <2> QED BY <1>7, <2>1, <2>3, <2>4, <2>5, RunThereStays
<1>13. ASSUME NEW t \in Tabs, Quiet(t) PROVE OwnSessions(t)'
  <2>1. OwnSessions(t)
    BY <1>13, QuietFacts
  <2> QED BY <1>2, <1>6, <1>8, <1>9, <2>1 DEF OwnSessions, Announces
<1>14. ASSUME NEW t \in Tabs, Quiet(t) PROVE Prepared(ran', attached', targets'[t], t)
  <2>1. /\ Prepared(ran, attached, targets[t], t)
        /\ targets[t].session \in Sessions \cup {NoSession}
    BY <1>14, QuietFacts
  <2>2. \A s \in Sessions : attached[s] = t => attached'[s] = t
    BY <1>2
  <2> QED BY <1>8, <1>10, <2>1, <2>2, PreparedStays
<1>15. DetachedAreGone'
  BY <1>2, <1>6, <1>9 DEF SInv, DetachedAreGone
<1>16. (ran \in [Sessions -> SUBSET (Methods \cup {NoCommand})])'
  BY <1>1, <1>2, <1>4
<1>17. \A t \in Tabs : Quiet(t)' => SetUp(t)'
  BY <1>11, <1>12, <1>13, <1>14 DEF SetUp
<1> QED BY <1>15, <1>16, <1>17 DEF SInv

\* What the browser does by itself, but for sessions that end.
LEMMA AloneSInv ==
  ASSUME SInv, IInv',
         \/ \E t \in Tabs : BrowserLoads(t) \/ BrowserClosesTab(t) \/ BrowserDestroys(t)
         \/ \E s \in Sessions : BrowserReportsLoad(s)
  PROVE  SInv'
<1>1. UNCHANGED <<handlerVars, outbox, attached, ran, severed>>
  BY DEF BrowserLoads, BrowserClosesTab, BrowserDestroys, BrowserReportsLoad, Reports
<1>2. /\ tab \in [Tabs -> {"free", "open", "closing", "gone"}] /\ inbox \in Seq(Message)
  BY TypesParts DEF SInv, IInv
<1>3. \A t \in Tabs : Quiet(t)' => Quiet(t)
  BY <1>1, <1>2 DEF BrowserLoads, BrowserClosesTab, BrowserDestroys, BrowserReportsLoad, Quiet
<1>4. \/ inbox' = inbox \o <<>>
      \/ \E m : inbox' = inbox \o <<m>> /\ m.type \in {"destroyed", "loaded"}
  <2>1. CASE \E t \in Tabs : BrowserLoads(t) \/ BrowserClosesTab(t)
    BY <2>1 DEF BrowserLoads, BrowserClosesTab, Reports
  <2>2. CASE \E t \in Tabs : BrowserDestroys(t)
    <3>1. PICK t \in Tabs : inbox' = inbox \o <<Event("destroyed", t, NoSession)>>
      BY <2>2 DEF BrowserDestroys, Reports
    <3>2. Event("destroyed", t, NoSession).type = "destroyed"
      BY DEF Event
    <3> QED BY <3>1, <3>2
  <2>3. CASE \E s \in Sessions : BrowserReportsLoad(s)
    <3>1. PICK s \in Sessions : inbox' = inbox \o <<Event("loaded", NoTab, s)>>
      BY <2>3 DEF BrowserReportsLoad, Reports
    <3>2. Event("loaded", NoTab, s).type = "loaded"
      BY DEF Event
    <3> QED BY <3>1, <3>2
  <2> QED BY <2>1, <2>2, <2>3
<1>5. \A i \in 1..Len(inbox') :
        \/ \E j \in 1..Len(inbox) : inbox'[i] = inbox[j]
        \/ inbox'[i].type \in {"destroyed", "loaded"}
  <2>1. CASE inbox' = inbox \o <<>>
    BY <1>2, <2>1, GrownBy
  <2>2. ASSUME NEW m, inbox' = inbox \o <<m>>, m.type \in {"destroyed", "loaded"}
        PROVE  \A i \in 1..Len(inbox') :
                 \/ \E j \in 1..Len(inbox) : inbox'[i] = inbox[j]
                 \/ inbox'[i].type \in {"destroyed", "loaded"}
    BY <1>2, <2>2, GrownBy
  <2> QED BY <1>4, <2>1, <2>2
<1>6. \A i \in 1..Len(inbox') :
        \/ \E j \in 1..Len(inbox) : inbox'[i] = inbox[j]
        \/ inbox'[i].type \notin {"attached", "detached"} /\ Unasked(inbox'[i])
  BY <1>5 DEF Unasked
<1>7. \A i \in 1..Len(outbox') : \E j \in 1..Len(outbox) : outbox'[i] = outbox[j]
  BY <1>1
<1> QED BY <1>1, <1>3, <1>6, <1>7, BrowserKeeps

\* A session that ends leaves its tab severed or closing.
LEMMA DetachesSInv ==
  ASSUME SInv, IInv', NEW s \in Sessions, BrowserDetaches(s) PROVE SInv'
<1>1. /\ UNCHANGED <<handlerVars, outbox, ran, tab>> /\ attached[s] \in Tabs
      /\ attached' = [attached EXCEPT ![s] = "gone"]
      /\ inbox' = inbox \o <<Event("detached", NoTab, s)>>
      /\ severed \subseteq severed'
      /\ tab[attached[s]] = "closing" \/ attached[s] \in severed'
  BY DEF BrowserDetaches, Reports
<1>2. PICK m : m = Event("detached", NoTab, s)
  OBVIOUS
<1>3. m.type = "detached" /\ m.session = s
  BY <1>2 DEF Event
<1>4. /\ TypesOK /\ attached \in [Sessions -> Tabs \cup {"unused", "gone"}]
      /\ inbox \in Seq(Message)
  BY TypesParts DEF SInv, IInv
<1>5. \A i \in 1..Len(inbox') : inbox'[i] = m \/ \E j \in 1..Len(inbox) : inbox'[i] = inbox[j]
  BY <1>1, <1>2, <1>4, GrownBy
<1>6. UNCHANGED <<targets, sessions, pending, next_id>>
  BY <1>1 DEF handlerVars
<1>7. \A q \in Sessions : attached'[q] = IF q = s THEN "gone" ELSE attached[q]
  BY <1>1, <1>4
<1>8. \A t \in Tabs : Quiet(t)' => Quiet(t) /\ attached[s] # t
  BY <1>1 DEF Quiet
<1>9. \A t \in Tabs : Quiet(t)' =>
        \A q \in Sessions : attached'[q] = t <=> attached[q] = t
  BY <1>7, <1>8, NullAssumption
<1>10. ASSUME NEW t \in Tabs, Quiet(t)' PROVE RunThere(t)'
  <2>1. TypesOK /\ AnswersMatch /\ RunThere(t)
    BY <1>8, <1>10, QuietFacts
  <2>2. \A p \in pending', i \in 1..Len(inbox') :
           \/ \E j \in 1..Len(inbox) : inbox'[i] = inbox[j]
           \/ AnsweredFor(attached', ran', inbox'[i], p, t)
    BY <1>3, <1>5 DEF AnsweredFor
  <2>3. \A q \in Sessions : ran[q] \subseteq ran'[q] /\ (attached[q] = t => attached'[q] = t)
    BY <1>1, <1>9, <1>10
  <2>4. \A p \in pending' : p \in pending \/ (p.id \in Nat /\ p.id >= next_id)
    BY <1>6
  <2>5. \A i \in 1..Len(outbox') : \E j \in 1..Len(outbox) : outbox'[i] = outbox[j]
    BY <1>1
  <2> QED BY <2>1, <2>2, <2>3, <2>4, <2>5, RunThereStays
<1>11. ASSUME NEW t \in Tabs, Quiet(t)' PROVE OwnSessions(t)'
  <2>1. OwnSessions(t)
    BY <1>8, <1>11, QuietFacts
  <2>2. \A q \in Sessions : attached'[q] = t <=> attached[q] = t
    BY <1>9, <1>11
  <2>3. ASSUME NEW i \in 1..Len(inbox'), Announces(inbox'[i]), inbox'[i].tab = t
        PROVE  attached'[inbox'[i].session] = t
    <3>1. PICK j \in 1..Len(inbox) : inbox'[i] = inbox[j]
      BY <1>3, <1>5, <2>3 DEF Announces
    <3>2. inbox[j] \in Message
      BY <1>4
    <3>3. inbox[j].session \in Sessions
      BY <2>3, <3>1, <3>2, RecordTypes DEF Announces
    <3>4. attached[inbox[j].session] = t
      BY <2>1, <2>3, <3>1 DEF OwnSessions
    <3> QED BY <2>2, <3>1, <3>3, <3>4
  <2> QED BY <1>6, <2>1, <2>2, <2>3 DEF OwnSessions, Announces
<1>12. ASSUME NEW t \in Tabs, Quiet(t)' PROVE Prepared(ran', attached', targets'[t], t)
  <2>1. /\ Quiet(t) /\ Prepared(ran, attached, targets[t], t)
        /\ targets[t].session \in Sessions \cup {NoSession}
    BY <1>8, <1>12, QuietFacts
  <2>2. \A q \in Sessions : attached[q] = t => attached'[q] = t
    BY <1>9, <1>12
  <2>3. \A q \in Sessions : ran[q] \subseteq ran'[q]
    BY <1>1
  <2> QED BY <1>6, <2>1, <2>2, <2>3, PreparedStays
<1>13. ASSUME NEW i \in 1..Len(inbox'), inbox'[i].type = "detached"
       PROVE  attached'[inbox'[i].session] = "gone"
  <2>1. CASE inbox'[i] = m
    BY <1>3, <1>7, <2>1
  <2>2. ASSUME NEW j \in 1..Len(inbox), inbox'[i] = inbox[j]
        PROVE  attached'[inbox'[i].session] = "gone"
    <3>1. inbox[j] \in Message
      BY <1>4
    <3>2. inbox[j].session \in Sessions /\ attached[inbox[j].session] = "gone"
      BY <1>13, <2>2, <3>1, RecordTypes DEF SInv, DetachedAreGone
    <3> QED BY <1>7, <2>2, <3>2
  <2> QED BY <1>5, <2>1, <2>2
<1>14. DetachedAreGone' /\ (ran \in [Sessions -> SUBSET (Methods \cup {NoCommand})])'
  BY <1>1, <1>13 DEF SInv, DetachedAreGone
<1>15. \A t \in Tabs : Quiet(t)' => SetUp(t)'
  BY <1>10, <1>11, <1>12 DEF SetUp
<1> QED BY <1>14, <1>15 DEF SInv

LEMMA InitSInv == Init => SInv
<1> SUFFICES ASSUME Init PROVE SInv
  OBVIOUS
<1>1. IInv
  BY InitIInv
<1>2. /\ outbox = <<>> /\ inbox = <<>> /\ pending = {}
      /\ \A t \in Tabs : targets[t] = NoTarget
      /\ \A s \in Sessions : sessions[s] = NoTab /\ attached[s] = "unused"
      /\ ran = [s \in Sessions |-> {}]
  BY DEF Init
<1>3. DetachedAreGone /\ ran \in [Sessions -> SUBSET (Methods \cup {NoCommand})]
  BY <1>2 DEF DetachedAreGone
<1>4. ASSUME NEW t \in Tabs PROVE SetUp(t)
  <2>1. Prepared(ran, attached, targets[t], t)
    BY <1>2, NewDone, NothingDone
  <2>2. OwnSessions(t)
    BY <1>2, NullAssumption DEF OwnSessions
  <2>3. RunThere(t)
    BY <1>2 DEF RunThere
  <2> QED BY <2>1, <2>2, <2>3 DEF SetUp
<1> QED BY <1>1, <1>3, <1>4 DEF SInv

LEMMA NextSInv == SInv /\ [Next]_vars => SInv'
<1> SUFFICES ASSUME SInv, [Next]_vars PROVE SInv'
  OBVIOUS
<1>1. IInv'
  BY NextIInv DEF SInv
<1>2. CASE Next
  <2>1. CASE (\E c \in Callers : NewPage(c)) \/ FetchTargets
    BY <1>1, <2>1, CallsSInv
  <2>2. CASE \E t \in Tabs : GetPage(t)
    BY <1>1, <2>2, GetPageSInv
  <2>3. CASE \E t \in Tabs : PollStep(t) \/ ChainTimesOut(t)
    BY <1>1, <2>3, PollSInv
  <2>4. CASE BeginTargets \/ NextTarget \/ EndTargets \/ EndPass
    BY <1>1, <2>4, LoopSInv
  <2>5. CASE \E m : Reads(m) /\ Events(m)
    BY <1>1, <2>5, EventsSInv
  <2>6. CASE \E m : Reads(m) /\ OnResponse(m)
    BY <1>1, <2>6, ResponsesSInv
  <2>7. CASE BrowserServes
    BY <1>1, <2>7, CreatesSInv, ListsSInv, AttachesSInv, RunsSInv, ClosesSInv DEF BrowserServes
  <2>8. CASE BrowserAlone
    <3>1. CASE \E s \in Sessions : BrowserDetaches(s)
      BY <1>1, <3>1, DetachesSInv
    <3>2. CASE ~\E s \in Sessions : BrowserDetaches(s)
      BY <1>1, <2>8, <3>2, AloneSInv DEF BrowserAlone
    <3> QED BY <3>1, <3>2
  <2> QED BY <1>2, <2>1, <2>2, <2>3, <2>4, <2>5, <2>6, <2>7, <2>8, NextIs
<1>3. CASE UNCHANGED vars
  <2>1. /\ UNCHANGED <<targets, sessions, pending, outbox, inbox, tab, attached, ran, severed>>
    BY <1>3 DEF vars, handlerVars, browserVars
  <2>2. DetachedAreGone' /\ (ran \in [Sessions -> SUBSET (Methods \cup {NoCommand})])'
    BY <2>1 DEF SInv, DetachedAreGone
  <2>3. ASSUME NEW t \in Tabs, Quiet(t)' PROVE SetUp(t)'
    <3>1. SetUp(t)
      BY <2>1, <2>3 DEF SInv, Quiet
    <3> QED BY <2>1, <3>1 DEF SetUp, OwnSessions, Announces, RunThere
  <2> QED BY <1>1, <2>2, <2>3 DEF SInv
<1> QED BY <1>2, <1>3

-----------------------------------------------------------------------------
(* The report of the load.  A session is announced for the tab it is attached to and
   never moves to another, so that its report of a load speaks of that tab, whichever
   target the Handler keeps for it by then. *)

Announced(box, s, t) ==
  \E i \in 1..Len(box) : Announces(box[i]) /\ box[i].session = s /\ box[i].tab = t
Reported(box, s) ==
  \E i \in 1..Len(box) : box[i].type = "loaded" /\ box[i].session = s

LoadsReported ==
  /\ loaded \subseteq Tabs
  /\ \A s \in Sessions : Reported(inbox, s) => attached[s] # "unused"
  /\ \A s \in Sessions, t \in Tabs :
       sessions[s] = t \/ Announced(inbox, s, t) =>
         /\ attached[s] \in {t, "gone"}
         /\ Reported(inbox, s) => t \in loaded
  /\ \A t \in Tabs : targets[t].main = "loaded" => t \in loaded

LoadInv == SInv /\ LoadsReported

\* Nothing is told of a session but what was on its way.
LEMMA LoadsKept ==
  ASSUME SInv, LoadsReported,
         \A s \in Sessions : attached'[s] = attached[s] \/ attached'[s] = "gone",
         loaded \subseteq loaded', loaded' \subseteq Tabs,
         \A i \in 1..Len(inbox') :
           \/ \E j \in 1..Len(inbox) : inbox'[i] = inbox[j]
           \/ inbox'[i].type \notin {"attached", "loaded"},
         \A s \in Sessions, t \in Tabs :
           sessions'[s] = t => sessions[s] = t \/ Announced(inbox, s, t),
         \A t \in Tabs :
           targets'[t].main = "loaded" =>
             \/ targets[t].main = "loaded"
             \/ \E s \in Sessions : sessions[s] = t /\ Reported(inbox, s)
  PROVE  LoadsReported'
<1>0. "gone" # "unused"
  OBVIOUS
<1>1. \A s \in Sessions : Reported(inbox', s) => Reported(inbox, s)
  BY DEF Reported
<1>2. \A s \in Sessions, t \in Tabs : Announced(inbox', s, t) => Announced(inbox, s, t)
  BY DEF Announced, Announces
<1> QED BY <1>1, <1>2 DEF LoadsReported

\* A target's main frame counts as loaded by its own step only when it did before.
LEMMA MainStays ==
  ASSUME NEW target \in Target
  PROVE  /\ WithPage(target).main = target.main
         /\ \A g \in States : Enter(target, g).main = target.main
         /\ \A m, ok : Answered(target, m, ok).main = "loaded" => target.main = "loaded"
         /\ NewTarget.main # "loaded" /\ NoTarget.main # "loaded"
<1>1. WithPage(target).main = target.main
  BY DEF WithPage, Target
<1>2. \A g \in States : Enter(target, g).main = target.main
  BY DEF Enter, Target
<1>3. \A m, ok : Answered(target, m, ok).main = "loaded" => target.main = "loaded"
  BY DEF Answered, Target
<1> QED BY <1>1, <1>2, <1>3 DEF NewTarget, NoTarget

LEMMA OwnLoads ==
  ASSUME LoadInv,
         \/ \E c \in Callers : NewPage(c)
         \/ FetchTargets
         \/ BeginTargets \/ NextTarget \/ EndTargets \/ EndPass
         \/ \E t \in Tabs : GetPage(t)
         \/ \E t \in Tabs : PollStep(t) \/ ChainTimesOut(t)
  PROVE  LoadsReported'
<1>1. targets \in [Tabs -> Target]
  BY TypesParts DEF LoadInv, SInv, IInv
<1>2. UNCHANGED <<sessions, inbox, attached, tab, loaded>>
  BY DEF NewPage, FetchTargets, BeginTargets, NextTarget, EndTargets, EndPass, GetPage,
         PollStep, ChainTimesOut, Attach, SendNext, Advance, HandOver, browserVars, handlerVars
<1>3. \A t \in Tabs : targets'[t].main = targets[t].main
  <2>1. CASE \/ \E c \in Callers : NewPage(c)
             \/ FetchTargets
             \/ BeginTargets \/ NextTarget \/ EndTargets \/ EndPass
    BY <2>1 DEF NewPage, FetchTargets, BeginTargets, NextTarget, EndTargets, EndPass,
                handlerVars
  <2>2. ASSUME NEW t \in Tabs, GetPage(t) PROVE \A u \in Tabs : targets'[u].main = targets[u].main
    BY <1>1, <2>2, MainStays DEF GetPage
  <2>3. ASSUME NEW t \in Tabs, PollStep(t) \/ ChainTimesOut(t)
        PROVE  \A u \in Tabs : targets'[u].main = targets[u].main
    <3>1. targets[t] \in Target /\ targets[t].state \in States
      BY <1>1, TrackedState
    <3>2. CASE Attach(t)
      <4>1. Enter(targets[t], "frame").main = targets[t].main
        BY <3>1, MainStays, StagesAre DEF States
      <4> QED BY <1>1, <3>2, <4>1 DEF Attach
    <3>3. CASE SendNext(t)
      BY <1>1, <3>1, <3>3 DEF SendNext, Target
    <3>4. CASE Advance(t)
      <4>1. AfterStage[targets[t].state] \in States
        BY <3>4, AfterStageType DEF Advance, ChainRuns
      <4> QED BY <1>1, <3>1, <3>4, <4>1, MainStays DEF Advance
    <3>5. CASE HandOver(t)
      <4>1. WithPage(targets[t]) \in Target /\ WithPage(targets[t]).main = targets[t].main
        BY <3>1, MainStays, WithPageFacts
      <4>2. [WithPage(targets[t]) EXCEPT !.initiator = NoCaller].main = targets[t].main
        BY <4>1 DEF Target
      <4> QED BY <1>1, <3>5, <4>2 DEF HandOver
    <3>6. CASE ChainTimesOut(t)
      <4>1. /\ Enter(targets[t], "closing") \in Target
            /\ Enter(targets[t], "closing").main = targets[t].main
        BY <3>1, MainStays, EnterFacts DEF States
      <4>2. [Enter(targets[t], "closing") EXCEPT !.initiator = NoCaller].main = targets[t].main
        BY <4>1 DEF Target
      <4> QED BY <1>1, <3>6, <4>2 DEF ChainTimesOut
    <3> QED BY <2>3, <3>2, <3>3, <3>4, <3>5, <3>6 DEF PollStep
  <2> QED BY <2>1, <2>2, <2>3
<1> QED BY <1>2, <1>3, LoadsKept DEF LoadInv, LoadsReported

LEMMA ReadingLoads ==
  ASSUME LoadInv, NEW m, Reads(m), Events(m) \/ OnResponse(m)
  PROVE  LoadsReported'
<1>1. /\ TypesOK /\ inbox \in Seq(Message) /\ targets \in [Tabs -> Target]
      /\ sessions \in [Sessions -> Tabs \cup {NoTab}]
  BY TypesParts DEF LoadInv, SInv, IInv
<1>2. m \in Message /\ m = inbox[1] /\ 1 \in 1..Len(inbox)
  <2>1. m \in Message /\ Len(inbox) \in Nat \ {0} /\ m = inbox[1]
    BY <1>1, ReadsFacts
  <2> QED BY <2>1
<1>3. UNCHANGED <<attached, tab, loaded>>
  BY DEF Reads, browserVars
<1>4. \A i \in 1..Len(inbox') : \E j \in 1..Len(inbox) : inbox'[i] = inbox[j]
  <2>1. \A i \in 1..Len(inbox') : i + 1 \in 1..Len(inbox) /\ inbox'[i] = inbox[i + 1]
    BY <1>1, ReadsFacts
  <2> QED BY <2>1
<1>5. ASSUME NEW s \in Sessions, NEW t \in Tabs, sessions'[s] = t
      PROVE  sessions[s] = t \/ Announced(inbox, s, t)
  <2>1. CASE OnAttached(m)
    <3>1. m.type = "attached" /\ m.session \in Sessions
      BY <1>2, <2>1, RecordTypes DEF OnAttached
    <3>2. sessions'[s] = IF s = m.session THEN m.tab ELSE sessions[s]
      BY <1>1, <2>1, <3>1 DEF OnAttached
    <3> QED BY <1>2, <1>5, <3>1, <3>2 DEF Announced, Announces
  <2>2. CASE OnDetached(m) \/ OnDestroyed(m)
    <3>1. sessions'[s] = sessions[s] \/ sessions'[s] = NoTab
      BY <1>1, <2>2 DEF OnDetached, OnDestroyed
    <3> QED BY <1>5, <3>1, NullAssumption
  <2>3. CASE OnTargetCreated(m) \/ OnLoaded(m) \/ OnResponse(m)
    BY <1>5, <2>3 DEF OnTargetCreated, OnLoaded, OnResponse
  <2> QED BY <2>1, <2>2, <2>3 DEF Events
<1>6. ASSUME NEW t \in Tabs, targets'[t].main = "loaded"
      PROVE  \/ targets[t].main = "loaded"
             \/ \E s \in Sessions : sessions[s] = t /\ Reported(inbox, s)
  <2>0. targets[t] \in Target
    BY <1>1
  <2>1. CASE OnTargetCreated(m) \/ OnDestroyed(m)
    <3>1. targets'[t] = targets[t] \/ targets'[t] = NewTarget \/ targets'[t] = NoTarget
      BY <1>1, <2>1 DEF OnTargetCreated, OnDestroyed
    <3> QED BY <1>6, <2>0, <3>1, MainStays
  <2>2. CASE OnAttached(m)
    <3>1. \/ targets'[t] = targets[t]
          \/ targets'[t] = [targets[t] EXCEPT !.session = m.session]
      BY <1>1, <2>2 DEF OnAttached
    <3> QED BY <1>6, <2>0, <3>1 DEF Target
  <2>3. CASE OnDetached(m)
    <3>1. \/ targets'[t] = targets[t]
          \/ targets'[t] = [targets[t] EXCEPT !.session = NoSession]
      BY <1>1, <2>3 DEF OnDetached
    <3> QED BY <1>6, <2>0, <3>1 DEF Target
  <2>4. CASE OnLoaded(m)
    <3>1. m.type = "loaded" /\ m.session \in Sessions
      BY <1>2, <2>4, RecordTypes DEF OnLoaded
    <3>2. Reported(inbox, m.session)
      BY <1>2, <3>1 DEF Reported
    <3>3. sessions[m.session] = t \/ targets'[t] = targets[t]
      BY <1>1, <2>4 DEF OnLoaded
    <3> QED BY <1>6, <3>1, <3>2, <3>3
  <2>5. CASE OnResponse(m)
    <3>2. CASE \E p \in pending : OnCreateResponse(m, p)
      <4>1. PICK p \in pending : OnCreateResponse(m, p)
        BY <3>2
      <4>2. \/ targets'[t] = targets[t]
            \/ targets'[t] = [targets[t] EXCEPT !.initiator = p.caller]
        BY <1>1, <4>1 DEF OnCreateResponse
      <4> QED BY <1>6, <2>0, <4>2 DEF Target
    <3>3. CASE \E p \in pending : OnGetTargetsResponse(m, p)
      <4>1. targets'[t] = targets[t] \/ targets'[t] = NewTarget
        BY <1>1, <3>3 DEF OnGetTargetsResponse
      <4> QED BY <1>6, <2>0, <4>1, MainStays
    <3>4. CASE \E p \in pending : OnInternalResponse(m, p)
      <4>1. PICK p \in pending : OnInternalResponse(m, p)
        BY <3>4
      <4>3. targets'[t] = targets[t] \/ targets'[t] = Answered(targets[t], p.method, m.ok)
        BY <1>1, <4>1 DEF OnInternalResponse
      <4> QED BY <1>6, <2>0, <4>3, MainStays
    <3>5. CASE UNCHANGED targets
      BY <1>6, <3>5
    <3> QED BY <2>5, <3>2, <3>3, <3>4, <3>5 DEF OnResponse
  <2> QED BY <2>1, <2>2, <2>3, <2>4, <2>5 DEF Events
<1> QED BY <1>3, <1>4, <1>5, <1>6, LoadsKept DEF LoadInv, LoadsReported

LEMMA ServingLoads ==
  ASSUME LoadInv, BrowserServes PROVE LoadsReported'
<1>1. /\ TypesOK /\ inbox \in Seq(Message)
      /\ attached \in [Sessions -> Tabs \cup {"unused", "gone"}]
  BY TypesParts DEF LoadInv, SInv, IInv
<1>2. PICK cmd, answer : Serves(cmd, answer)
  BY <1>1, BrowserServesFacts
<1>3. /\ UNCHANGED <<handlerVars>> /\ inbox' = inbox \o answer /\ cmd \in Command
      /\ answer \in Seq(Message)
  BY <1>1, <1>2, ServesFacts DEF Serves
<1>4. UNCHANGED <<targets, sessions>>
  BY <1>3 DEF handlerVars
<1>5. UNCHANGED loaded
  BY DEF BrowserServes, BrowserCreates, BrowserLists, BrowserAttaches, BrowserRuns,
         BrowserCloses, browserVars
<1>6. /\ Obeyed(cmd).type = "response" /\ Refused(cmd).type = "response"
      /\ \A id, ok, t, list : Response(id, ok, t, list).type = "response"
      /\ \A type, t, s : /\ Event(type, t, s).type = type /\ Event(type, t, s).session = s
                         /\ Event(type, t, s).tab = t
  BY <1>3, ShortResponse, EventType DEF Response
<1>7. CASE Opened(cmd, answer) \/ Told(cmd, answer) \/ Denied(cmd, answer)
  <2>1. UNCHANGED attached
    BY <1>7 DEF Opened, Told, Denied
  <2>2. \A i \in 1..Len(inbox') :
          \/ \E j \in 1..Len(inbox) : inbox'[i] = inbox[j]
          \/ inbox'[i].type \in {"targetCreated", "response"}
    <3>1. CASE Opened(cmd, answer)
      <4>1. PICK m, n : /\ inbox' = inbox \o <<m, n>>
                        /\ m.type \in {"targetCreated", "response"}
                        /\ n.type \in {"targetCreated", "response"}
        <5>1. PICK t : answer = <<Event("targetCreated", t, NoSession),
                                  Response(cmd.id, TRUE, t, <<>>)>>
          BY <3>1 DEF Opened
        <5>2. /\ Event("targetCreated", t, NoSession).type = "targetCreated"
              /\ Response(cmd.id, TRUE, t, <<>>).type = "response"
          BY DEF Response, Event
        <5> QED BY <1>3, <5>1, <5>2
      <4> QED BY <1>1, <4>1, GrownBy
    <3>2. CASE Told(cmd, answer)
      <4>1. PICK m : inbox' = inbox \o <<m>> /\ m.type \in {"targetCreated", "response"}
        <5>1. PICK list : answer = <<Response(cmd.id, TRUE, NoTab, list)>>
          BY <3>2 DEF Told
        <5>2. Response(cmd.id, TRUE, NoTab, list).type = "response"
          BY DEF Response, Event
        <5> QED BY <1>3, <5>1, <5>2
      <4> QED BY <1>1, <4>1, GrownBy
    <3>3. CASE Denied(cmd, answer)
      <4>1. PICK m : inbox' = inbox \o <<m>> /\ m.type \in {"targetCreated", "response"}
        BY <1>3, <1>6, <3>3 DEF Denied
      <4> QED BY <1>1, <4>1, GrownBy
    <3> QED BY <1>7, <3>1, <3>2, <3>3
  <2> QED BY <1>4, <1>5, <2>1, <2>2, LoadsKept DEF LoadInv, LoadsReported
<1>8. CASE AttachedTo(cmd, answer)
  <2>1. PICK s \in Sessions :
          /\ attached[s] = "unused" /\ attached' = [attached EXCEPT ![s] = cmd.tab]
          /\ cmd.tab \in Tabs /\ answer = <<Event("attached", cmd.tab, s), Obeyed(cmd)>>
    BY <1>8 DEF AttachedTo
  <2>2. PICK m, n : /\ m = Event("attached", cmd.tab, s) /\ n = Obeyed(cmd)
                    /\ inbox' = inbox \o <<m, n>>
    BY <1>3, <2>1
  <2>3. /\ m.type = "attached" /\ m.session = s /\ m.tab = cmd.tab
        /\ n.type = "response"
    BY <1>6, <2>2
  <2>4. \A i \in 1..Len(inbox') :
          inbox'[i] \in {m, n} \/ \E j \in 1..Len(inbox) : inbox'[i] = inbox[j]
    BY <1>1, <2>2, GrownBy
  <2>5. \A q \in Sessions : Reported(inbox', q) => Reported(inbox, q)
    BY <2>3, <2>4 DEF Reported
  <2>6. \A q \in Sessions, t \in Tabs :
          Announced(inbox', q, t) => Announced(inbox, q, t) \/ (q = s /\ t = cmd.tab)
    BY <2>3, <2>4 DEF Announced, Announces
  <2>7. \A q \in Sessions : attached'[q] = IF q = s THEN cmd.tab ELSE attached[q]
    BY <1>1, <2>1
  <2>8. cmd.tab # "unused" /\ "unused" # "gone" /\ \A t \in Tabs : t # "unused"
    BY <2>1, NullAssumption
  <2>9. /\ ~Reported(inbox, s)
        /\ \A t \in Tabs : sessions[s] # t /\ ~Announced(inbox, s, t)
    BY <2>1, <2>8 DEF LoadInv, LoadsReported
  <2>10. \A q \in Sessions : Reported(inbox', q) => attached'[q] # "unused"
    BY <2>5, <2>7, <2>8 DEF LoadInv, LoadsReported
  <2>11. \A q \in Sessions, t \in Tabs :
           sessions'[q] = t \/ Announced(inbox', q, t) =>
             /\ attached'[q] \in {t, "gone"}
             /\ Reported(inbox', q) => t \in loaded'
    BY <1>4, <1>5, <2>5, <2>6, <2>7, <2>9 DEF LoadInv, LoadsReported
  <2> QED BY <1>4, <1>5, <2>10, <2>11 DEF LoadInv, LoadsReported
<1> QED BY <1>2, <1>7, <1>8 DEF Serves

LEMMA AloneLoads ==
  ASSUME LoadInv, BrowserAlone PROVE LoadsReported'
<1>1. /\ TypesOK /\ inbox \in Seq(Message)
      /\ attached \in [Sessions -> Tabs \cup {"unused", "gone"}]
  BY TypesParts DEF LoadInv, SInv, IInv
<1>2. UNCHANGED <<targets, sessions>>
  BY <1>1, BrowserAloneFacts DEF handlerVars
<1>3. \A type, t, s : /\ Event(type, t, s).type = type /\ Event(type, t, s).session = s
                     /\ Event(type, t, s).tab = t
  BY EventType
<1>4. CASE \E t \in Tabs : BrowserLoads(t) \/ BrowserClosesTab(t)
  <2>1. /\ UNCHANGED attached /\ inbox' = inbox \o <<>>
        /\ loaded \subseteq loaded' /\ loaded' \subseteq Tabs
    BY <1>4 DEF BrowserLoads, BrowserClosesTab, Reports, LoadInv, LoadsReported
  <2>2. \A i \in 1..Len(inbox') : \E j \in 1..Len(inbox) : inbox'[i] = inbox[j]
    BY <1>1, <2>1, GrownBy
  <2> QED BY <1>2, <2>1, <2>2, LoadsKept DEF LoadInv
<1>5. CASE \E t \in Tabs : BrowserDestroys(t)
  <2>1. UNCHANGED <<attached, loaded>>
    BY <1>5 DEF BrowserDestroys
  <2>2. PICK m : inbox' = inbox \o <<m>> /\ m.type = "destroyed"
    <3>1. PICK t \in Tabs : inbox' = inbox \o <<Event("destroyed", t, NoSession)>>
      BY <1>5 DEF BrowserDestroys, Reports
    <3>2. Event("destroyed", t, NoSession).type = "destroyed"
      BY <1>3
    <3> QED BY <3>1, <3>2
  <2>3. \A i \in 1..Len(inbox') :
          \/ \E j \in 1..Len(inbox) : inbox'[i] = inbox[j]
          \/ inbox'[i].type = "destroyed"
    BY <1>1, <2>2, GrownBy
  <2> QED BY <1>2, <2>1, <2>3, LoadsKept DEF LoadInv, LoadsReported
<1>6. CASE \E s \in Sessions : BrowserDetaches(s)
  <2>1. PICK s \in Sessions : BrowserDetaches(s)
    BY <1>6
  <2>2. UNCHANGED loaded /\ attached' = [attached EXCEPT ![s] = "gone"]
    BY <2>1 DEF BrowserDetaches
  <2>3. \A q \in Sessions : attached'[q] = attached[q] \/ attached'[q] = "gone"
    BY <1>1, <2>2
  <2>4. PICK m : inbox' = inbox \o <<m>> /\ m.type = "detached"
    <3>1. inbox' = inbox \o <<Event("detached", NoTab, s)>>
      BY <2>1 DEF BrowserDetaches, Reports
    <3>2. Event("detached", NoTab, s).type = "detached" /\ Event("detached", NoTab, s).session = s
      BY <1>3
    <3> QED BY <3>1, <3>2
  <2>5. \A i \in 1..Len(inbox') :
          \/ \E j \in 1..Len(inbox) : inbox'[i] = inbox[j]
          \/ inbox'[i].type = "detached"
    BY <1>1, <2>4, GrownBy
  <2> QED BY <1>2, <2>2, <2>3, <2>5, LoadsKept DEF LoadInv, LoadsReported
<1>7. CASE \E s \in Sessions : BrowserReportsLoad(s)
  <2>1. PICK s \in Sessions : BrowserReportsLoad(s)
    BY <1>7
  <2>2. UNCHANGED <<loaded, attached>> /\ attached[s] \in loaded
    BY <2>1 DEF BrowserReportsLoad
  <2>3. PICK m : inbox' = inbox \o <<m>> /\ m.type = "loaded" /\ m.session = s
    <3>1. inbox' = inbox \o <<Event("loaded", NoTab, s)>>
      BY <2>1 DEF BrowserReportsLoad, Reports
    <3>2. Event("loaded", NoTab, s).type = "loaded" /\ Event("loaded", NoTab, s).session = s
      BY <1>3
    <3> QED BY <3>1, <3>2
  <2>4. \A i \in 1..Len(inbox') : inbox'[i] = m \/ \E j \in 1..Len(inbox) : inbox'[i] = inbox[j]
    BY <1>1, <2>3, GrownBy
  <2>5. \A q \in Sessions : Reported(inbox', q) => q = s \/ Reported(inbox, q)
    BY <2>3, <2>4 DEF Reported
  <2>6. \A q \in Sessions, t \in Tabs : Announced(inbox', q, t) => Announced(inbox, q, t)
    BY <2>3, <2>4 DEF Announced, Announces
  <2>7. loaded \subseteq Tabs /\ "unused" \notin Tabs /\ "gone" \notin Tabs
    BY NullAssumption DEF LoadInv, LoadsReported
  <2>8. \A q \in Sessions : Reported(inbox', q) => attached'[q] # "unused"
    BY <2>2, <2>5, <2>7 DEF LoadInv, LoadsReported
  <2>9. \A q \in Sessions, t \in Tabs :
          sessions'[q] = t \/ Announced(inbox', q, t) =>
            /\ attached'[q] \in {t, "gone"}
            /\ Reported(inbox', q) => t \in loaded'
    BY <1>2, <2>2, <2>5, <2>6, <2>7 DEF LoadInv, LoadsReported
  <2> QED BY <1>2, <2>2, <2>8, <2>9 DEF LoadInv, LoadsReported
<1> QED BY <1>4, <1>5, <1>6, <1>7 DEF BrowserAlone

LEMMA InitLoads == Init => LoadInv
<1> SUFFICES ASSUME Init PROVE LoadInv
  OBVIOUS
<1>1. /\ inbox = <<>> /\ loaded = {}
      /\ \A t \in Tabs : targets[t] = NoTarget
      /\ \A s \in Sessions : sessions[s] = NoTab
  BY DEF Init
<1>2. \A t \in Tabs : targets[t].main # "loaded"
  BY <1>1 DEF NoTarget, NewTarget
<1>3. \A s \in Sessions, t \in Tabs :
        sessions[s] # t /\ ~Announced(inbox, s, t) /\ ~Reported(inbox, s)
  BY <1>1, NullAssumption DEF Announced, Reported
<1>4. \A s \in Sessions : ~Reported(inbox, s)
  BY <1>1 DEF Reported
<1> QED BY <1>1, <1>2, <1>3, <1>4, InitSInv DEF LoadInv, LoadsReported

LEMMA NextLoads == LoadInv /\ [Next]_vars => LoadInv'
<1> SUFFICES ASSUME LoadInv, [Next]_vars PROVE LoadInv'
  OBVIOUS
<1>1. SInv'
  BY NextSInv DEF LoadInv
<1>2. CASE Next
  <2>1. CASE \E m : Reads(m) /\ (Events(m) \/ OnResponse(m))
    BY <1>1, <2>1, ReadingLoads DEF LoadInv
  <2>2. CASE BrowserServes
    BY <1>1, <2>2, ServingLoads DEF LoadInv
  <2>3. CASE BrowserAlone
    BY <1>1, <2>3, AloneLoads DEF LoadInv
  <2>4. CASE ~(\E m : Reads(m) /\ (Events(m) \/ OnResponse(m))) /\ ~BrowserServes /\ ~BrowserAlone
    BY <1>1, <1>2, <2>4, NextIs, OwnLoads DEF LoadInv
  <2> QED BY <2>1, <2>2, <2>3, <2>4
<1>3. CASE UNCHANGED vars
  <2>1. UNCHANGED <<targets, sessions, inbox, attached, loaded>>
    BY <1>3 DEF vars, handlerVars, browserVars
  <2>2. LoadsReported'
    BY <2>1 DEF LoadInv, LoadsReported, Announced, Reported, Announces
  <2> QED BY <1>1, <2>2 DEF LoadInv
<1> QED BY <1>2, <1>3

\* A target that counts as initialized is set up.
LEMMA SetUpWhenInitialized == SInv => InitializedIsSetUp
<1> SUFFICES ASSUME SInv, NEW t \in Tabs, targets[t].state = "initialized",
                    tab[t] = "open", t \notin severed
             PROVE  targets[t].session \in SessionsOf(t) /\ InitMethods \subseteq HasRun(t)
  BY DEF InitializedIsSetUp
<1>1. Prepared(ran, attached, targets[t], t) /\ targets[t].session \in Sessions \cup {NoSession}
  BY QuietFacts DEF Quiet
<1>2. Done(targets[t]) = InitMethods
  BY BeforeFacts DEF Done
<1>3. InitMethods # {}
  <2>1. /\ "frame" \in Stages \ (IF Viewport THEN {} ELSE {"emulation"})
        /\ Len(Chain["frame"]) = 2
    BY BeforeFacts DEF Chain
  <2>2. Chain["frame"][1] \in InitMethods
    BY <2>1 DEF InitMethods
  <2> QED BY <2>2
<1>4. targets[t].session \in SessionsOf(t)
  BY <1>1, <1>2, <1>3 DEF Prepared, SessionsOf
<1>5. InitMethods \subseteq HasRun(t)
  BY <1>1, <1>2 DEF Prepared, HasRun, SessionsOf
<1> QED BY <1>4, <1>5

\* Only the target that owes a caller its page gives it the page.
LEMMA OnlyHandOver ==
  ASSUME LoadInv, [Next]_vars, NEW c \in Callers, outcome[c] # "page", outcome'[c] = "page"
  PROVE  \E t \in Tabs : HandOver(t) /\ targets[t].initiator = c
<1>1. outcome \in [Callers -> Outcomes]
  BY TypesParts DEF LoadInv, SInv, IInv
<1>2. ASSUME NEW d, NEW r, Deliver(d, r) PROVE r = "page" /\ d = c
  BY <1>1, <1>2 DEF Deliver
<1>3. ASSUME NEW S, Cancel(S) PROVE FALSE
  BY <1>1, <1>3 DEF Cancel
<1>4. ASSUME UNCHANGED outcome PROVE FALSE
  BY <1>4
<1>5. CASE Next
  <2>1. CASE \E d \in Callers : NewPage(d)
    BY <1>1, <2>1 DEF NewPage
  <2>2. CASE FetchTargets \/ \E t \in Tabs : GetPage(t)
    BY <1>4, <2>2 DEF FetchTargets, GetPage
  <2>3. CASE BeginTargets \/ NextTarget \/ EndTargets
    BY <1>4, <2>3 DEF BeginTargets, NextTarget, EndTargets, handlerVars
  <2>4. CASE EndPass
    BY <1>1, <2>4 DEF EndPass
  <2>5. ASSUME NEW t \in Tabs, Attach(t) \/ SendNext(t) \/ Advance(t) PROVE FALSE
    BY <1>4, <2>5 DEF Attach, SendNext, Advance
  <2>6. ASSUME NEW t \in Tabs, ChainTimesOut(t) PROVE FALSE
    BY <1>2, <2>6 DEF ChainTimesOut
  <2>7. ASSUME NEW t \in Tabs, HandOver(t) PROVE HandOver(t) /\ targets[t].initiator = c
    BY <1>2, <2>7 DEF HandOver
  <2>8. ASSUME NEW m, Events(m) PROVE FALSE
    BY <1>3, <1>4, <2>8 DEF Events, OnTargetCreated, OnAttached, OnDetached, OnDestroyed,
                            OnLoaded
  <2>9. ASSUME NEW m, OnResponse(m) PROVE FALSE
    <3>1. ASSUME NEW p, OnCreateResponse(m, p) PROVE FALSE
      BY <1>2, <1>4, <3>1 DEF OnCreateResponse
    <3>2. ASSUME NEW p, OnGetTargetsResponse(m, p) PROVE FALSE
      BY <1>3, <3>2 DEF OnGetTargetsResponse
    <3>3. ASSUME NEW p, OnInternalResponse(m, p) PROVE FALSE
      BY <1>4, <3>3 DEF OnInternalResponse
    <3> QED BY <1>4, <2>9, <3>1, <3>2, <3>3 DEF OnResponse
  <2>10. CASE BrowserServes
    <3>1. TypesOK
      BY DEF LoadInv, SInv, IInv
    <3> QED BY <1>4, <2>10, <3>1, BrowserServesFacts, ServesFacts DEF handlerVars
  <2>11. CASE BrowserAlone
    <3>1. TypesOK
      BY DEF LoadInv, SInv, IInv
    <3> QED BY <1>4, <2>11, <3>1, BrowserAloneFacts DEF handlerVars
  <2> QED BY <1>5, <2>1, <2>2, <2>3, <2>4, <2>5, <2>6, <2>7, <2>8, <2>9, <2>10, <2>11, NextIs
             DEF PollStep
<1>6. CASE UNCHANGED vars
  BY <1>4, <1>6 DEF vars, handlerVars
<1> QED BY <1>5, <1>6

-----------------------------------------------------------------------------
(* What the specification promises *)

LEMMA AlwaysIInv == Spec => []IInv
BY InitIInv, NextIInv, PTL DEF Spec

\* The Handler's variables keep their types, and no two commands that wait for an answer
\* have the same id, whatever is fetched, destroyed, timed out or refused.
THEOREM TypeCorrect == Spec => []TypeOK
<1>1. IInv => TypeOK
  BY DEF IInv, TypesOK
<1> QED BY <1>1, AlwaysIInv, PTL

\* Events of the session a target uses find that target: Handler.sessions and the
\* targets agree, however attachments, detachments and replacements overtake each other.
THEOREM SessionsStayKnown == Spec => []SessionsAgree
<1>1. IInv => SessionsAgree
  BY DEF IInv, Promises
<1> QED BY <1>1, AlwaysIInv, PTL

\* No caller of Browser::new_page is forgotten: while it waits, its sender is in the
\* command table or with one tracked target, never in both and never in two.
THEOREM NoCallerIsLost == Spec => []CallersAreHeld
BY InOnePlace, AlwaysIInv, PTL

\* A target that fetch_targets or Target.targetCreated has replaced is polled as before,
\* its caller is held or told, and its session is known.
THEOREM ReplacedAreServed == Spec => []TrackedAreServed
<1>1. IInv => TrackedAreServed
  BY InOnePlace DEF IInv, Promises, TrackedAreServed
<1> QED BY <1>1, AlwaysIInv, PTL

\* A target counts as initialized only when the browser has run every command of every
\* stage in its tab and the target uses a session of that tab: no answer of another tab,
\* of another stage or to a command that was refused makes it look set up, whatever was
\* fetched and replaced, as long as its tab stays open and no session of it is detached.
THEOREM InitializedMeansSetUp == Spec => []InitializedIsSetUp
<1>1. Spec => []SInv
  BY InitSInv, NextSInv, PTL DEF Spec
<1> QED BY <1>1, SetUpWhenInitialized, PTL

\* new_page gives a caller the page of a tab whose document has loaded, and in which every
\* command of every stage has run: whatever targets were replaced, tabs closed, sessions
\* detached and commands refused or late on the way.
THEOREM PagesAreHandedOverReady == Spec => PagesAreReady
<1>1. ASSUME LoadInv, [Next]_vars, NEW c \in Callers, outcome[c] # "page", outcome'[c] = "page"
      PROVE  \E t \in loaded :
               /\ targets[t].initiator = c
               /\ tab[t] # "open" \/ t \in severed \/ InitMethods \subseteq HasRun(t)
  <2>1. PICK t \in Tabs : HandOver(t) /\ targets[t].initiator = c
    BY <1>1, OnlyHandOver
  <2>2. Tracked(t) /\ targets[t].state = "initialized" /\ targets[t].main = "loaded"
    BY <2>1 DEF HandOver, Polls, ReadyForInitiator
  <2>3. t \in loaded
    BY <1>1, <2>2 DEF LoadInv, LoadsReported
  <2>4. InitializedIsSetUp
    BY <1>1, SetUpWhenInitialized DEF LoadInv
  <2> QED BY <2>1, <2>2, <2>3, <2>4 DEF InitializedIsSetUp
<1>2. LoadInv /\ [Next]_vars
        => [\A c \in Callers : outcome[c] # "page" /\ outcome'[c] = "page" =>
              \E t \in loaded :
                /\ targets[t].initiator = c
                /\ tab[t] # "open" \/ t \in severed \/ InitMethods \subseteq HasRun(t)]_vars
  BY <1>1
<1> QED BY <1>2, InitLoads, NextLoads, PTL DEF Spec, PagesAreReady
=============================================================================
