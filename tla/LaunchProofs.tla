---------------------------- MODULE LaunchProofs ----------------------------
(***************************************************************************)
(* What is there before there is a page: the browser's process and its     *)
(* incognito contexts, for every set of contexts and every number of lines *)
(* and of pages; the bridge to the SOCKS5 proxy, for every number of       *)
(* clients and of requests; the installation, for every set of fetches,    *)
(* options and releases; the command line, for every set of arguments and  *)
(* every number of calls of the builder.                                   *)
(*                                                                         *)
(* The two invariants about the browser share the handle but not their     *)
(* argument: one is about the child process, the other about what is in    *)
(* the channel between the handle and the Handler.  The bridge, the        *)
(* fetcher and the command line share nothing with either.                 *)
(*                                                                         *)
(* At the end the machines of MCParts together, which takes the theorems   *)
(* about the others from their modules.                                    *)
(***************************************************************************)
EXTENDS MCParts, FrameTreeProofs, NetworkProofs, PageProofs, TLAPS, SequenceTheorems,
  WellFoundedInduction

-----------------------------------------------------------------------------
(* The process *)

Launching == {"resolving", "connecting", "cleaning", "killing"}

\* Until the handle exists the process is the launch's own, and nobody killed it.
ProcessInv ==
  /\ LaunchCleansUp
  /\ phase = "start" => ~launched /\ process = "none" /\ error = "none"
  /\ phase \in Launching => launched
  /\ phase \in Launching \cup {"start"} => ~killed
  /\ phase \notin {"cleaning", "killing", "failed", "dropped"} => error = "none"
  /\ error = "LaunchExit" => process = "reaped"
  /\ child => launched
  /\ launched \in BOOLEAN /\ child \in BOOLEAN /\ killed \in BOOLEAN

LEMMA InitProcessInv == ProcessInit => ProcessInv
BY DEF ProcessInit, ProcessInv, LaunchCleansUp, Launching

LEMMA NextProcessInv == ProcessInv /\ [ProcessNext]_processVars => ProcessInv'
<1> SUFFICES ASSUME ProcessInv, [ProcessNext]_processVars PROVE ProcessInv'
  OBVIOUS
<1> USE DEF ProcessInv, LaunchCleansUp, Launching
<1>1. CASE UNCHANGED launchVars
  BY <1>1 DEF launchVars
<1>2. CASE Launch
  <2>1. phase = "start" /\ UNCHANGED <<child, killed>> /\ ~killed /\ ~child
    BY <1>2 DEF Launch
  <2>2. CASE phase' = "resolving" /\ process' = "running" /\ launched' = TRUE /\ UNCHANGED error
    BY <2>1, <2>2
  <2>3. CASE phase' = "failed" /\ error' = "noProcess" /\ UNCHANGED <<process, launched>>
    BY <2>1, <2>3
  <2> QED BY <1>2, <2>2, <2>3 DEF Launch
<1>3. CASE Connect
  BY <1>3 DEF Connect
<1>4. CASE LaunchTimeout \/ LaunchExit \/ ReadLine
  BY <1>4 DEF LaunchTimeout, LaunchExit, ReadLine, Fail
<1>5. CASE LaunchConnects
  BY <1>5 DEF LaunchConnects, Fail
<1>6. CASE TryWaitFirst
  BY <1>6 DEF TryWaitFirst
<1>7. CASE KillChild
  <2>1. phase = "killing" /\ process' = "reaped" /\ phase' = "failed"
        /\ UNCHANGED <<launched, child, error>> /\ launched /\ ~killed
    BY <1>7 DEF KillChild
  <2>2. process = "running" => error # "LaunchExit"
    OBVIOUS
  <2>3. killed' \in BOOLEAN /\ (killed' => process = "running")
    BY <1>7, <2>1, Zenon DEF KillChild
  <2> QED BY <2>1, <2>2, <2>3
<1>8. CASE Wait
  BY <1>8 DEF Wait, Free
<1>9. CASE Close
  BY <1>9 DEF Close, Free
<1>10. CASE RuntimeReaps
  BY <1>10 DEF RuntimeReaps
<1>11. CASE Kill
  <2>1. phase = "up" /\ child /\ process' = "reaped" /\ UNCHANGED <<phase, launched, child, error>>
    BY <1>11 DEF Kill, Free
  <2>2. killed' \in BOOLEAN
    BY <1>11, Zenon DEF Kill
  <2> QED BY <2>1, <2>2
<1>12. CASE DropHandle
  <2>1. phase' = "dropped" /\ UNCHANGED <<launched, child, error>>
    BY <1>12 DEF DropHandle
  <2>2. process = "reaped" => process' = "reaped"
    BY <1>12 DEF DropHandle
  <2>3. killed' \in BOOLEAN /\ (killed' => killed \/ (launched /\ process = "running"))
    BY <1>12, Zenon DEF DropHandle
  <2> QED BY <2>1, <2>2, <2>3
<1>13. CASE ProcessWrites \/ ProcessExits \/ LaunchClock
  BY <1>13 DEF ProcessWrites, ProcessExits, LaunchClock
<1>14. CASE StartIncognito \/ QuitIncognito \/ ContextDisposed \/ HandlerReads \/ OnTargetCreated
  BY <1>1, <1>14 DEF StartIncognito, QuitIncognito, ContextDisposed, HandlerReads, OnTargetCreated
<1>15. CASE \/ \E c \in BrowserContexts : ContextCreated(c)
           \/ \E c \in BrowserContexts \cup {DefaultContext} : NewPage(c)
  BY <1>1, <1>15 DEF ContextCreated, NewPage
<1>16. CASE UNCHANGED processVars
  BY <1>1, <1>16 DEF processVars
<1> QED BY <1>2, <1>3, <1>4, <1>5, <1>6, <1>7, <1>8,
           <1>9, <1>10, <1>11, <1>12, <1>13, <1>14, <1>15, <1>16 DEF ProcessNext

\* Browser::launch that fails has reaped the process it spawned, whatever failed; an
\* error that names an exit was one; and what was only connected to is never killed.
THEOREM FailedLaunchCleansUp == ProcessSpec => []LaunchCleansUp
<1>1. ProcessInv => LaunchCleansUp
  BY DEF ProcessInv
<1> QED BY <1>1, InitProcessInv, NextProcessInv, PTL DEF ProcessSpec

-----------------------------------------------------------------------------
(* Contexts *)

AllContexts == BrowserContexts \cup FromConfig \cup {DefaultContext}
Messages == [type : {"InsertContext", "DisposeContext", "CreatePage"}, context : AllContexts]

\* The Handler knows context c once it has read k messages, or it is gone.
KnownAfter(c, k) ==
  \/ c = DefaultContext \/ c \in disposed \/ c \in browser_contexts
  \/ \E j \in 1..k : channel[j] = HandleMessage("InsertContext", c)

ContextTypes ==
  /\ channel \in Seq(Messages) /\ opened \in Seq(AllContexts) /\ labels \in Seq(AllContexts)
  /\ Len(labels) <= Len(opened) /\ made \subseteq BrowserContexts \cup FromConfig
  /\ browser_context \in made \cup {DefaultContext}

\* What is in the channel: a page is asked for in a context the Handler was told of
\* before, and no context is taken back that is still in use.
ChannelInv ==
  /\ \A c \in made : KnownAfter(c, Len(channel))
  /\ \A i \in 1..Len(channel) : channel[i].type = "CreatePage" =>
       /\ channel[i].context \in made \cup {DefaultContext}
       /\ KnownAfter(channel[i].context, i - 1)
  /\ \A i \in 1..Len(channel) : channel[i].type = "DisposeContext" =>
       channel[i].context \in disposed
PagesInv ==
  \A n \in 1..Len(opened) :
    opened[n] \in made \cup {DefaultContext} /\ KnownAfter(opened[n], 0)

ContextInv == ContextTypes /\ ChannelInv /\ PagesInv /\ TargetsKnowTheirContext

\* Nobody makes a context before there is a handle.
NoneMade == phase = "start" => made = {}

LEMMA NoneIsMade == NoneMade /\ [ProcessNext]_processVars => NoneMade'
<1> SUFFICES ASSUME NoneMade, [ProcessNext]_processVars PROVE NoneMade'
  OBVIOUS
<1>1. CASE UNCHANGED <<phase, made>>
  BY <1>1 DEF NoneMade
<1>2. CASE phase' # "start"
  BY <1>2 DEF NoneMade
<1>3. CASE Launch \/ LaunchTimeout \/ LaunchExit \/ ReadLine \/ LaunchConnects
  BY <1>1, <1>2, <1>3
     DEF Launch, LaunchTimeout, LaunchExit, ReadLine, LaunchConnects, Fail, contextVars
<1>4. CASE TryWaitFirst \/ KillChild \/ Connect \/ DropHandle
  BY <1>1, <1>2, <1>4 DEF TryWaitFirst, KillChild, Connect, DropHandle, contextVars
<1>5. CASE \/ Wait \/ Kill \/ Close \/ RuntimeReaps \/ ProcessWrites \/ ProcessExits \/ LaunchClock
  BY <1>1, <1>5 DEF Wait, Kill, Close, RuntimeReaps, ProcessWrites, ProcessExits, LaunchClock,
                    contextVars
<1>6. CASE StartIncognito \/ QuitIncognito \/ ContextDisposed \/ HandlerReads \/ OnTargetCreated
  BY <1>1, <1>6 DEF StartIncognito, QuitIncognito, ContextDisposed, HandlerReads, OnTargetCreated,
                    launchVars
<1>7. ASSUME NEW c \in BrowserContexts, ContextCreated(c) PROVE NoneMade'
  <2>1. UNCHANGED phase /\ (phase = "up" \/ UNCHANGED made)
    BY <1>7 DEF ContextCreated, IsServed, launchVars
  <2> QED BY <1>1, <1>2, <2>1
<1>8. CASE \E c \in BrowserContexts \cup {DefaultContext} : NewPage(c)
  BY <1>1, <1>8 DEF NewPage, launchVars
<1>9. CASE UNCHANGED processVars
  BY <1>1, <1>9 DEF processVars, launchVars, contextVars
<1> QED BY <1>3, <1>4, <1>5, <1>6, <1>7, <1>8, <1>9 DEF ProcessNext

\* The handle knows the contexts of its configuration, and there is nothing else to know.
LEMMA ConnectKeeps == ASSUME ContextInv, NoneMade, Connect PROVE ContextInv'
<1>1. /\ phase = "start" /\ made = {}
      /\ UNCHANGED <<browser_context, channel, disposed, opened, labels>>
  BY DEF Connect, NoneMade
<1>2. CASE UNCHANGED <<made, browser_contexts>>
  BY <1>1, <1>2 DEF ContextInv, ContextTypes, ChannelInv, PagesInv, TargetsKnowTheirContext,
                    KnownAfter, ContextIsLive
<1>3. CASE made' = FromConfig /\ browser_contexts' = FromConfig
  <2>1. /\ browser_context = DefaultContext
        /\ \A i \in 1..Len(channel) :
             channel[i].type = "CreatePage" => channel[i].context = DefaultContext
        /\ \A n \in 1..Len(opened) : opened[n] = DefaultContext
    BY <1>1 DEF ContextInv, ContextTypes, ChannelInv, PagesInv
  <2>2. ContextTypes'
    BY <1>1, <1>3, <2>1 DEF ContextInv, ContextTypes
  <2>3. ChannelInv'
    <3>1. ASSUME NEW i \in 1..Len(channel), channel[i].type = "CreatePage"
          PROVE  KnownAfter(channel[i].context, i - 1)'
      BY <1>1, <2>1, <3>1 DEF KnownAfter
    <3>2. \A c \in made' : KnownAfter(c, Len(channel))'
      BY <1>3 DEF KnownAfter
    <3> QED BY <1>1, <2>1, <3>1, <3>2 DEF ContextInv, ChannelInv
  <2>4. PagesInv'
    BY <1>1, <2>1 DEF PagesInv, KnownAfter
  <2>5. TargetsKnowTheirContext'
    <3>1. \A n \in 1..Len(labels) : n \in 1..Len(opened)
      BY DEF ContextInv, ContextTypes
    <3>2. \A n \in 1..Len(labels) : labels[n] = opened[n]
      BY <2>1, <3>1 DEF ContextInv, TargetsKnowTheirContext, ContextIsLive
    <3> QED BY <1>1, <3>2 DEF TargetsKnowTheirContext
  <2> QED BY <2>2, <2>3, <2>4, <2>5 DEF ContextInv
<1> QED BY <1>2, <1>3 DEF Connect

LEMMA InitContextInv == ProcessInit => ContextInv
<1> SUFFICES ASSUME ProcessInit PROVE ContextInv
  OBVIOUS
<1>1. channel = <<>> /\ opened = <<>> /\ labels = <<>> /\ made = {}
      /\ browser_contexts = {} /\ browser_context = DefaultContext
  BY DEF ProcessInit
<1> QED BY <1>1 DEF ContextInv, ContextTypes, ChannelInv, PagesInv, TargetsKnowTheirContext,
                    KnownAfter

\* A message is sent, after which contexts are disposed or made.
LEMMA SendKeeps ==
  ASSUME ContextInv, NEW m \in Messages, SendMessage(m),
         UNCHANGED <<browser_contexts, opened, labels>>,
         made \subseteq made', disposed \subseteq disposed',
         made' \subseteq BrowserContexts \cup FromConfig,
         browser_context' \in made' \cup {DefaultContext},
         m.type = "CreatePage" =>
           m.context \in made \cup {DefaultContext} /\ KnownAfter(m.context, Len(channel)),
         m.type = "DisposeContext" => m.context \in disposed',
         \A c \in made' \ made : m = HandleMessage("InsertContext", c)
  PROVE ContextInv'
<1>1. /\ channel \in Seq(Messages) /\ Len(channel) \in Nat
      /\ channel' \in Seq(Messages) /\ Len(channel') = Len(channel) + 1
      /\ channel'[Len(channel) + 1] = m
      /\ \A i \in 1..Len(channel) : channel'[i] = channel[i]
  BY DEF SendMessage, ContextInv, ContextTypes
<1>2. ASSUME NEW c, NEW k \in 0..Len(channel), KnownAfter(c, k) PROVE KnownAfter(c, k)'
  BY <1>1, <1>2 DEF KnownAfter
<1>3. ASSUME NEW c \in made' PROVE KnownAfter(c, Len(channel))'
  <2>1. CASE c \in made
    <3>1. KnownAfter(c, Len(channel))
      BY <2>1 DEF ContextInv, ChannelInv
    <3> QED BY <1>1, <3>1 DEF KnownAfter
  <2>2. CASE c \notin made
    <3>1. channel'[Len(channel')] = HandleMessage("InsertContext", c) /\ Len(channel') \in 1..Len(channel')
      BY <1>1, <2>2
    <3> QED BY <3>1 DEF KnownAfter
  <2> QED BY <2>1, <2>2
<1>4. ASSUME NEW i \in 1..Len(channel'), channel'[i].type = "CreatePage"
      PROVE channel'[i].context \in made' \cup {DefaultContext}
            /\ KnownAfter(channel[i].context, i - 1)'
  <2>1. PICK c : c = channel'[i].context
    OBVIOUS
  <2>2. CASE i \in 1..Len(channel)
    <3>1. channel'[i] = channel[i] /\ i - 1 \in 0..Len(channel)
      BY <1>1, <2>2
    <3>2. c \in made \cup {DefaultContext} /\ KnownAfter(c, i - 1)
      BY <1>4, <2>1, <2>2, <3>1 DEF ContextInv, ChannelInv
    <3>3. KnownAfter(c, i - 1)'
      BY <1>2, <3>1, <3>2
    <3> QED BY <2>1, <3>2, <3>3 DEF KnownAfter
  <2>3. CASE i = Len(channel) + 1
    <3>1. channel'[i] = m /\ i - 1 = Len(channel) /\ i - 1 \in 0..Len(channel)
      BY <1>1, <2>3
    <3>2. c \in made \cup {DefaultContext} /\ KnownAfter(c, i - 1)
      BY <1>4, <2>1, <3>1
    <3>3. KnownAfter(c, i - 1)'
      BY <1>2, <3>1, <3>2
    <3> QED BY <2>1, <3>2, <3>3 DEF KnownAfter
  <2> QED BY <1>1, <2>2, <2>3
<1>5. \A i \in 1..Len(channel') : channel'[i].type = "DisposeContext" => channel'[i].context \in disposed'
  BY <1>1 DEF ContextInv, ChannelInv
<1>6. PagesInv'
  BY DEF ContextInv, PagesInv, KnownAfter
<1>7. TargetsKnowTheirContext'
  <2>1. \A n \in 1..Len(labels) : n \in 1..Len(opened)
    BY DEF ContextInv, ContextTypes
  <2>2. \A n \in 1..Len(opened) : ContextIsLive(opened[n])' => ContextIsLive(opened[n])
    BY DEF ContextInv, PagesInv, ContextIsLive
  <2> QED BY <2>1, <2>2 DEF ContextInv, TargetsKnowTheirContext
<1>8. ContextTypes'
  BY <1>1 DEF ContextInv, ContextTypes
<1> QED BY <1>3, <1>4, <1>5, <1>6, <1>7, <1>8 DEF ContextInv, ChannelInv

\* The Handler reads a message.
LEMMA ReadKeeps == ASSUME ContextInv, HandlerReads PROVE ContextInv'
<1> DEFINE m == Head(channel)
<1>1. /\ channel \in Seq(Messages) /\ Len(channel) \in Nat \ {0}
      /\ m \in Messages /\ m = channel[1]
      /\ channel' \in Seq(Messages) /\ Len(channel') = Len(channel) - 1
      /\ \A i \in 1..Len(channel') : i + 1 \in 1..Len(channel) /\ channel'[i] = channel[i + 1]
  BY DEF HandlerReads, ContextInv, ContextTypes
<1>2. /\ browser_contexts' = CASE m.type = "InsertContext" -> browser_contexts \cup {m.context}
                               [] m.type = "DisposeContext" -> browser_contexts \ {m.context}
                               [] OTHER -> browser_contexts
      /\ opened' = IF m.type = "CreatePage" /\ ContextIsLive(m.context)
                   THEN Append(opened, m.context) ELSE opened
      /\ UNCHANGED <<browser_context, made, disposed, labels>>
  BY DEF HandlerReads
<1>3. m.type = "DisposeContext" => m.context \in disposed
  BY <1>1 DEF ContextInv, ChannelInv
<1>4. m.context \in AllContexts /\ m.type \in {"InsertContext", "DisposeContext", "CreatePage"}
  BY <1>1 DEF Messages
<1>5. m.type = "CreatePage" => m.context \in made \cup {DefaultContext} /\ KnownAfter(m.context, 0)
  BY <1>1 DEF ContextInv, ChannelInv
<1>6. \A c : m = HandleMessage("InsertContext", c) => c \in browser_contexts'
  BY <1>2 DEF HandleMessage
<1> HIDE DEF m
<1>7. \A c : c \in browser_contexts => c \in disposed \/ c \in browser_contexts'
  BY <1>2, <1>3
<1>8. ASSUME NEW c, NEW k \in 1..Len(channel), KnownAfter(c, k) PROVE KnownAfter(c, k - 1)'
  <2>1. CASE c = DefaultContext \/ c \in disposed \/ c \in browser_contexts
    BY <1>2, <1>7, <2>1 DEF KnownAfter
  <2>2. CASE \E j \in 1..k : channel[j] = HandleMessage("InsertContext", c)
    <3>1. PICK j \in 1..k : channel[j] = HandleMessage("InsertContext", c)
      BY <2>2
    <3>2. CASE j = 1
      BY <1>1, <1>6, <3>1, <3>2 DEF KnownAfter
    <3>3. CASE j # 1
      <4>1. j - 1 \in 1..(k - 1) /\ j - 1 \in 1..Len(channel') /\ (j - 1) + 1 = j
        BY <1>1, <3>1, <3>3
      <4>2. channel'[j - 1] = channel[j]
        BY <1>1, <4>1
      <4> QED BY <3>1, <4>1, <4>2 DEF KnownAfter
    <3> QED BY <3>2, <3>3
  <2> QED BY <1>8, <2>1, <2>2 DEF KnownAfter
<1>9. ASSUME NEW c \in made' PROVE KnownAfter(c, Len(channel))'
  <2>1. KnownAfter(c, Len(channel)) /\ Len(channel) \in 1..Len(channel)
    BY <1>1, <1>2 DEF ContextInv, ChannelInv
  <2>2. PICK n : n = Len(channel)
    OBVIOUS
  <2>3. KnownAfter(c, n - 1)' /\ n - 1 = Len(channel')
    BY <1>1, <1>8, <2>1, <2>2
  <2> QED BY <2>3 DEF KnownAfter
<1>10. ASSUME NEW i \in 1..Len(channel'), channel'[i].type = "CreatePage"
       PROVE channel'[i].context \in made' \cup {DefaultContext}
             /\ KnownAfter(channel[i].context, i - 1)'
  <2>1. PICK c : c = channel'[i].context
    OBVIOUS
  <2>2. i \in Nat /\ i + 1 \in 1..Len(channel) /\ channel'[i] = channel[i + 1] /\ i \in 1..Len(channel)
    BY <1>1
  <2>3. c \in made \cup {DefaultContext} /\ KnownAfter(c, (i + 1) - 1) /\ (i + 1) - 1 = i
    BY <1>10, <2>1, <2>2 DEF ContextInv, ChannelInv
  <2>4. KnownAfter(c, i - 1)'
    BY <1>8, <2>2, <2>3
  <2> QED BY <1>2, <2>1, <2>3, <2>4 DEF KnownAfter
<1>11. \A i \in 1..Len(channel') : channel'[i].type = "DisposeContext" => channel'[i].context \in disposed'
  BY <1>1, <1>2 DEF ContextInv, ChannelInv
<1>12. ContextTypes' /\ \A n \in 1..Len(opened) : opened'[n] = opened[n]
  BY <1>1, <1>2, <1>4 DEF ContextInv, ContextTypes
<1>13. PagesInv'
  <2>1. ASSUME NEW c, KnownAfter(c, 0) PROVE KnownAfter(c, 0)'
    BY <1>2, <1>7, <2>1 DEF KnownAfter
  <2>2. \A n \in 1..Len(opened') : \/ n \in 1..Len(opened) /\ opened'[n] = opened[n]
                                   \/ m.type = "CreatePage" /\ opened'[n] = m.context
    BY <1>2, <1>4 DEF ContextInv, ContextTypes
  <2>3. ASSUME NEW n \in 1..Len(opened')
        PROVE opened'[n] \in made' \cup {DefaultContext} /\ KnownAfter(opened[n], 0)'
    <3>1. PICK c : c = opened'[n]
      OBVIOUS
    <3>2. c \in made \cup {DefaultContext} /\ KnownAfter(c, 0)
      BY <1>5, <2>2, <3>1 DEF ContextInv, PagesInv
    <3>3. KnownAfter(c, 0)'
      BY <2>1, <3>2
    <3> QED BY <1>2, <3>1, <3>2, <3>3 DEF KnownAfter
  <2> QED BY <2>3 DEF PagesInv
<1>14. TargetsKnowTheirContext'
  <2>1. \A n \in 1..Len(labels) : n \in 1..Len(opened)
    BY DEF ContextInv, ContextTypes
  <2> QED BY <1>2, <1>12, <2>1 DEF ContextInv, TargetsKnowTheirContext, ContextIsLive
<1> QED BY <1>9, <1>10, <1>11, <1>12, <1>13, <1>14 DEF ContextInv, ChannelInv

\* A target is labelled: its context is known if it lives.
LEMMA LabelKeeps == ASSUME ContextInv, OnTargetCreated PROVE ContextInv'
<1> DEFINE n == Len(labels) + 1
<1>1. /\ labels \in Seq(AllContexts) /\ Len(labels) \in Nat /\ n \in 1..Len(opened)
      /\ labels' = Append(labels, Label(opened[n])) /\ opened[n] \in AllContexts
      /\ UNCHANGED <<browser_context, channel, browser_contexts, made, disposed, opened>>
  BY DEF OnTargetCreated, ContextInv, ContextTypes
<1>2. Label(opened[n]) \in AllContexts
  BY <1>1 DEF Label, AllContexts
<1>3. ContextIsLive(opened[n]) => Label(opened[n]) = opened[n]
  BY <1>1 DEF ContextIsLive, Label, ContextInv, PagesInv, KnownAfter
<1>4. /\ Len(labels') = n /\ labels'[n] = Label(opened[n]) /\ labels' \in Seq(AllContexts)
      /\ \A k \in 1..Len(labels) : labels'[k] = labels[k]
  BY <1>1, <1>2
<1>5. TargetsKnowTheirContext'
  <2>1. \A k \in 1..Len(labels') : k = n \/ k \in 1..Len(labels)
    BY <1>1, <1>4
  <2> QED BY <1>1, <1>3, <1>4, <2>1 DEF ContextInv, TargetsKnowTheirContext, ContextIsLive
<1>6. ContextTypes'
  BY <1>1, <1>4 DEF ContextInv, ContextTypes
<1>7. ChannelInv' /\ PagesInv'
  BY <1>1 DEF ContextInv, ChannelInv, PagesInv, KnownAfter
<1> QED BY <1>5, <1>6, <1>7 DEF ContextInv

LEMMA NextContextInv == ContextInv /\ NoneMade /\ [ProcessNext]_processVars => ContextInv'
<1> SUFFICES ASSUME ContextInv, NoneMade, [ProcessNext]_processVars PROVE ContextInv'
  OBVIOUS
<1>1. CASE UNCHANGED <<browser_context, channel, browser_contexts, made, disposed, opened, labels>>
  BY <1>1 DEF ContextInv, ContextTypes, ChannelInv, PagesInv, TargetsKnowTheirContext, KnownAfter,
              ContextIsLive
<1>2. ASSUME NEW c \in BrowserContexts, ContextCreated(c) PROVE ContextInv'
  <2>1. CASE UNCHANGED <<made, browser_context, channel>>
    BY <1>1, <1>2, <2>1 DEF ContextCreated
  <2>2. CASE /\ c \notin made /\ made' = made \cup {c}
             /\ browser_context' = c /\ SendMessage(HandleMessage("InsertContext", c))
    <3>1. HandleMessage("InsertContext", c) \in Messages /\ HandleMessage("InsertContext", c).type = "InsertContext"
      BY DEF HandleMessage, Messages, AllContexts
    <3>2. UNCHANGED <<browser_contexts, opened, labels, disposed>>
      BY <1>2 DEF ContextCreated
    <3>3. made' \subseteq BrowserContexts \cup FromConfig
      BY <2>2 DEF ContextInv, ContextTypes
    <3> QED BY <2>2, <3>1, <3>2, <3>3, SendKeeps
  <2> QED BY <1>2, <2>1, <2>2 DEF ContextCreated
<1>3. CASE QuitIncognito
  BY <1>3 DEF QuitIncognito, ContextInv, ContextTypes, ChannelInv, PagesInv,
              TargetsKnowTheirContext, KnownAfter, ContextIsLive
<1>4. CASE ContextDisposed
  <2>1. CASE UNCHANGED <<disposed, channel>>
    BY <1>1, <1>4, <2>1 DEF ContextDisposed
  <2>2. CASE disposed' = disposed \cup {awaits} /\ SendMessage(HandleMessage("DisposeContext", awaits))
    <3>1. awaits \in BrowserContexts /\ UNCHANGED <<browser_context, browser_contexts, made, opened, labels>>
      BY <1>4 DEF ContextDisposed
    <3> DEFINE m == HandleMessage("DisposeContext", awaits)
    <3>2. m \in Messages /\ m.type = "DisposeContext" /\ m.context = awaits
      BY <3>1 DEF HandleMessage, Messages, AllContexts
    <3>3. SendMessage(m)
      BY <2>2
    <3> HIDE DEF m
    <3>4. made' \subseteq BrowserContexts \cup FromConfig /\ browser_context' \in made' \cup {DefaultContext}
      BY <3>1 DEF ContextInv, ContextTypes
    <3> QED BY <2>2, <3>1, <3>2, <3>3, <3>4, SendKeeps
  <2> QED BY <1>4, <2>1, <2>2 DEF ContextDisposed
<1>5. ASSUME NEW own \in BrowserContexts \cup {DefaultContext}, NewPage(own) PROVE ContextInv'
  <2> DEFINE c == IF own = DefaultContext THEN browser_context ELSE own
             m == HandleMessage("CreatePage", c)
  <2>1. UNCHANGED <<browser_context, browser_contexts, made, disposed, opened, labels>>
        /\ SendMessage(m) /\ ContextIsLive(own)
    BY <1>5 DEF NewPage
  <2>2. c \in made \cup {DefaultContext}
    BY <2>1 DEF ContextIsLive, ContextInv, ContextTypes
  <2>3. made \subseteq BrowserContexts \cup FromConfig
        /\ browser_context \in made \cup {DefaultContext}
    BY DEF ContextInv, ContextTypes
  <2>4. KnownAfter(c, Len(channel))
    BY <2>2 DEF ContextInv, ChannelInv, KnownAfter
  <2> HIDE DEF c
  <2>5. m \in Messages /\ m.type = "CreatePage" /\ m.context = c
    BY <2>2, <2>3 DEF HandleMessage, Messages, AllContexts
  <2> HIDE DEF m
  <2> QED BY <2>1, <2>2, <2>3, <2>4, <2>5, SendKeeps
<1>6. CASE StartIncognito
  BY <1>1, <1>6 DEF StartIncognito
<1>7. CASE \/ Launch \/ LaunchTimeout \/ LaunchExit \/ ReadLine \/ LaunchConnects \/ TryWaitFirst
           \/ KillChild \/ Wait \/ Kill \/ Close \/ DropHandle \/ RuntimeReaps
           \/ ProcessWrites \/ ProcessExits \/ LaunchClock
  <2>1. UNCHANGED contextVars
    BY <1>7 DEF Launch, LaunchTimeout, LaunchExit, ReadLine, LaunchConnects, TryWaitFirst,
                KillChild, Wait, Kill, Close, DropHandle, RuntimeReaps, ProcessWrites,
                ProcessExits, LaunchClock
  <2> QED BY <1>1, <2>1 DEF contextVars
<1>8. CASE UNCHANGED processVars
  BY <1>1, <1>8 DEF processVars, contextVars
<1> QED BY <1>2, <1>3, <1>4, <1>5, <1>6, <1>7, <1>8, ConnectKeeps, ReadKeeps,
           LabelKeeps DEF ProcessNext

\* A page in a context that still lives is labelled with that context: whatever is
\* created, disposed and opened meanwhile, the Handler hears of a context before the
\* first page in it, and does not forget it before it is gone.
THEOREM PagesKeepTheirContext == ProcessSpec => []TargetsKnowTheirContext
<1>1. ContextInv => TargetsKnowTheirContext
  BY DEF ContextInv
<1>2. ProcessInit => NoneMade
  BY DEF ProcessInit, NoneMade
<1> QED BY <1>1, <1>2, InitContextInv, NoneIsMade, NextContextInv, PTL DEF ProcessSpec

\* The Handler is told of contexts the browser has.
TypedInv ==
  /\ ProcessTypeOK
  /\ \A i \in 1..Len(channel) : channel[i].type = "InsertContext" => channel[i].context \in BrowserContexts

LEMMA InitTypedInv == ProcessInit => TypedInv
<1> SUFFICES ASSUME ProcessInit PROVE TypedInv
  OBVIOUS
<1>1. channel = <<>> /\ opened = <<>> /\ labels = <<>>
  BY DEF ProcessInit
<1>2. browser_contexts \subseteq BrowserContexts
  BY DEF ProcessInit
<1>3. child \in BOOLEAN
  BY DEF ProcessInit
<1>4. Len(channel) = 0 /\ Len(labels) <= Len(opened)
  BY <1>1
<1>5. browser_context \in BrowserContexts \cup {DefaultContext}
  BY DEF ProcessInit
<1>6. phase = "start" /\ process = "none"
  BY DEF ProcessInit
<1> QED BY <1>2, <1>3, <1>4, <1>5, <1>6 DEF TypedInv, ProcessTypeOK

LEMMA LaunchIsTyped ==
  ASSUME TypedInv,
         Launch \/ LaunchTimeout \/ LaunchExit \/ ReadLine \/ LaunchConnects \/ TryWaitFirst
         \/ KillChild \/ Wait \/ Kill \/ Close \/ DropHandle \/ RuntimeReaps
         \/ ProcessWrites \/ ProcessExits \/ LaunchClock
  PROVE  TypedInv'
<1> USE DEF TypedInv, ProcessTypeOK, contextVars
<1>1. UNCHANGED contextVars
  BY DEF Launch, LaunchTimeout, LaunchExit, ReadLine, LaunchConnects, TryWaitFirst, KillChild,
         Wait, Kill, Close, DropHandle, RuntimeReaps, ProcessWrites, ProcessExits, LaunchClock
<1>2. CASE Launch
  BY <1>1, <1>2 DEF Launch
<1>3. CASE LaunchTimeout \/ LaunchExit \/ ReadLine \/ LaunchConnects
  BY <1>1, <1>3 DEF LaunchTimeout, LaunchExit, ReadLine, LaunchConnects, Fail
<1>4. CASE TryWaitFirst \/ KillChild \/ RuntimeReaps
  BY <1>1, <1>4 DEF TryWaitFirst, KillChild, RuntimeReaps
<1>5. CASE Wait \/ Kill \/ Close \/ DropHandle
  BY <1>1, <1>5 DEF Wait, Kill, Close, DropHandle
<1>6. CASE ProcessWrites \/ ProcessExits \/ LaunchClock
  BY <1>1, <1>6 DEF ProcessWrites, ProcessExits, LaunchClock
<1> QED BY <1>2, <1>3, <1>4, <1>5, <1>6

\* What is sent is one more message.
LEMMA SentIsTyped ==
  ASSUME channel \in Seq(Messages), TypedInv, NEW m \in Messages, SendMessage(m),
         m.type = "InsertContext" => m.context \in BrowserContexts
  PROVE  \A i \in 1..Len(channel') :
           channel'[i].type = "InsertContext" => channel'[i].context \in BrowserContexts
<1>1. /\ Len(channel') = Len(channel) + 1 /\ channel'[Len(channel')] = m
      /\ \A i \in 1..Len(channel) : channel'[i] = channel[i]
  BY DEF SendMessage
<1> QED BY <1>1 DEF TypedInv

LEMMA NextTypedInv ==
  ASSUME ContextTypes, TypedInv, [ProcessNext]_processVars PROVE TypedInv'
<1> USE DEF TypedInv, ProcessTypeOK
<1>1. CASE UNCHANGED processVars
  BY <1>1 DEF processVars, launchVars, contextVars
<1>2. CASE \/ Launch \/ LaunchTimeout \/ LaunchExit \/ ReadLine \/ LaunchConnects \/ TryWaitFirst
           \/ KillChild \/ Wait \/ Kill \/ Close \/ DropHandle \/ RuntimeReaps
           \/ ProcessWrites \/ ProcessExits \/ LaunchClock
  <2> HIDE DEF TypedInv
  <2> QED BY <1>2, LaunchIsTyped
<1>3. CASE StartIncognito \/ QuitIncognito
  BY <1>3 DEF StartIncognito, QuitIncognito, launchVars
<1>4. CASE ContextDisposed
  <2>1. /\ UNCHANGED <<phase, process, child, browser_context, browser_contexts, opened, labels>>
        /\ awaits \in BrowserContexts
    BY <1>4 DEF ContextDisposed, launchVars
  <2>2. CASE UNCHANGED channel
    BY <2>1, <2>2
  <2>3. CASE SendMessage(HandleMessage("DisposeContext", awaits))
    <3>1. /\ HandleMessage("DisposeContext", awaits) \in Messages
          /\ HandleMessage("DisposeContext", awaits).type = "DisposeContext"
      BY <2>1 DEF HandleMessage, Messages, AllContexts
    <3>2. \A i \in 1..Len(channel') :
            channel'[i].type = "InsertContext" => channel'[i].context \in BrowserContexts
      BY <2>3, <3>1, SentIsTyped DEF ContextTypes
    <3> QED BY <2>1, <3>2
  <2> QED BY <1>4, <2>2, <2>3 DEF ContextDisposed
<1>5. CASE HandlerReads
  <2>1. /\ \A i \in 1..Len(channel') : i + 1 \in 1..Len(channel) /\ channel'[i] = channel[i + 1]
        /\ channel # <<>> /\ Len(channel) \in Nat \ {0} /\ Head(channel) = channel[1]
        /\ UNCHANGED <<phase, process, child, browser_context, labels>>
    BY <1>5 DEF HandlerReads, ContextTypes, launchVars
  <2>2. Head(channel).type = "InsertContext" => Head(channel).context \in BrowserContexts
    BY <2>1
  <2>3. browser_contexts' \subseteq BrowserContexts
    BY <1>5, <2>2 DEF HandlerReads
  <2>4. Len(opened) <= Len(opened')
    BY <1>5 DEF HandlerReads, ContextTypes
  <2>5. Len(labels) <= Len(opened')
    <3>1. Len(opened') \in Nat /\ Len(labels) \in Nat /\ Len(opened) \in Nat
      BY <1>5 DEF HandlerReads, ContextTypes
    <3> QED BY <2>4, <3>1
  <2> QED BY <2>1, <2>3, <2>5
<1>6. CASE OnTargetCreated
  BY <1>6 DEF OnTargetCreated, ContextTypes, launchVars
<1>7. ASSUME NEW c \in BrowserContexts, ContextCreated(c) PROVE TypedInv'
  <2>1. UNCHANGED <<phase, process, child, browser_contexts, opened, labels>>
    BY <1>7 DEF ContextCreated, launchVars
  <2>2. CASE UNCHANGED <<browser_context, channel>>
    BY <2>1, <2>2
  <2>3. CASE browser_context' = c /\ SendMessage(HandleMessage("InsertContext", c))
    <3>1. /\ HandleMessage("InsertContext", c) \in Messages
          /\ HandleMessage("InsertContext", c).context = c
      BY DEF HandleMessage, Messages, AllContexts
    <3>2. \A i \in 1..Len(channel') :
            channel'[i].type = "InsertContext" => channel'[i].context \in BrowserContexts
      BY <2>3, <3>1, SentIsTyped DEF ContextTypes
    <3> QED BY <2>1, <2>3, <3>2
  <2> QED BY <1>7, <2>2, <2>3 DEF ContextCreated
<1>8. ASSUME NEW own \in BrowserContexts \cup {DefaultContext}, NewPage(own) PROVE TypedInv'
  <2> DEFINE c == IF own = DefaultContext THEN browser_context ELSE own
  <2>1. UNCHANGED <<phase, process, child, browser_context, browser_contexts, opened, labels>>
    BY <1>8 DEF NewPage, launchVars
  <2>2. c \in AllContexts
    BY DEF AllContexts
  <2>3. SendMessage(HandleMessage("CreatePage", c))
    BY <1>8 DEF NewPage
  <2>4. HandleMessage("CreatePage", c) \in Messages /\ HandleMessage("CreatePage", c).type = "CreatePage"
    BY <2>2 DEF HandleMessage, Messages
  <2> HIDE DEF c
  <2>5. \A i \in 1..Len(channel') :
          channel'[i].type = "InsertContext" => channel'[i].context \in BrowserContexts
    BY <2>3, <2>4, SentIsTyped DEF ContextTypes
  <2> QED BY <2>1, <2>5
<1>9. CASE Connect
  BY <1>9, ConfiguredContexts DEF Connect
<1> HIDE DEF TypedInv
<1> QED BY <1>1, <1>2, <1>3, <1>4, <1>5, <1>6, <1>7, <1>8, <1>9 DEF ProcessNext

\* The handle and the Handler know contexts of the browser and no others, and no page is
\* labelled before it is there.
THEOREM ProcessIsTyped == ProcessSpec => []ProcessTypeOK
<1> DEFINE Inv == NoneMade /\ ContextInv /\ TypedInv
<1>1. ProcessInit => Inv
  BY InitContextInv, InitTypedInv DEF ProcessInit, NoneMade
<1>2. Inv /\ [ProcessNext]_processVars => Inv'
  BY NoneIsMade, NextContextInv, NextTypedInv DEF ContextInv
<1>3. Inv => ProcessTypeOK
  BY DEF TypedInv
<1> QED BY <1>1, <1>2, <1>3, PTL DEF ProcessSpec

-----------------------------------------------------------------------------
(* The bridge *)

\* Only the handle's drop reaches the loop.
BridgeInv == BridgeTypeOK /\ ClientsAreToldTheTruth /\ (notified => ~handle)

LEMMA InitBridgeInv == BridgeInit => BridgeInv
<1> SUFFICES ASSUME BridgeInit PROVE BridgeInv
  OBVIOUS
<1>1. \A c \in Clients : bridge_answers[c] = 0 /\ conns[c] = NoConnection /\ ~conns[c].upstream
  BY DEF BridgeInit, NoConnection
<1>2. BridgeTypeOK
  BY DEF BridgeInit, BridgeTypeOK, Places, NoConnection
<1> QED BY <1>1, <1>2 DEF BridgeInit, BridgeInv, ClientsAreToldTheTruth

\* One client's connection moves.
LEMMA OneMoves ==
  ASSUME BridgeTypeOK, NEW c \in Clients, NEW conn \in [at : Places, upstream : BOOLEAN],
         NEW status \in {0, 200, 400, 405, 502},
         ChangeConn(c, conn), Answer(c, status),
         status = 200 /\ conn.at # "closed" => conn.upstream,
         conn.upstream => status = 200 /\ conn.at \in {"answered", "tunnel"},
         \A d \in Clients :
           /\ bridge_answers[d] = 200 /\ conns[d].at # "closed" => conns[d].upstream
           /\ conns[d].upstream => bridge_answers[d] = 200 /\ conns[d].at \in {"answered", "tunnel"}
  PROVE /\ conns' \in [Clients -> [at : Places, upstream : BOOLEAN]]
        /\ bridge_answers' \in [Clients -> {0, 200, 400, 405, 502}]
        /\ \A d \in Clients :
             /\ bridge_answers'[d] = 200 /\ conns'[d].at # "closed" => conns'[d].upstream
             /\ conns'[d].upstream => bridge_answers'[d] = 200 /\ conns'[d].at \in {"answered", "tunnel"}
<1>1. conns \in [Clients -> [at : Places, upstream : BOOLEAN]]
      /\ bridge_answers \in [Clients -> {0, 200, 400, 405, 502}]
  BY DEF BridgeTypeOK
<1>2. /\ conns' \in [Clients -> [at : Places, upstream : BOOLEAN]]
      /\ bridge_answers' \in [Clients -> {0, 200, 400, 405, 502}]
      /\ conns'[c] = conn /\ bridge_answers'[c] = status
      /\ \A d \in Clients : d # c => conns'[d] = conns[d] /\ bridge_answers'[d] = bridge_answers[d]
  BY <1>1 DEF ChangeConn, Answer
<1> QED BY <1>2

\* It moves without an answer.
LEMMA OneWalks ==
  ASSUME BridgeTypeOK, NEW c \in Clients, NEW place \in Places, MoveTunnel(c, place), UNCHANGED bridge_answers
  PROVE /\ ChangeConn(c, [at |-> place, upstream |-> conns[c].upstream]) /\ Answer(c, bridge_answers[c])
        /\ bridge_answers[c] \in {0, 200, 400, 405, 502}
        /\ [at |-> place, upstream |-> conns[c].upstream] \in [at : Places, upstream : BOOLEAN]
<1>1. conns[c] \in [at : Places, upstream : BOOLEAN]
  BY DEF BridgeTypeOK
<1>2. [conns[c] EXCEPT !.at = place] = [at |-> place, upstream |-> conns[c].upstream]
  BY <1>1
<1>3. bridge_answers' = [bridge_answers EXCEPT ![c] = bridge_answers[c]] /\ bridge_answers[c] \in {0, 200, 400, 405, 502}
  BY DEF BridgeTypeOK
<1>4. ChangeConn(c, [at |-> place, upstream |-> conns[c].upstream])
  BY <1>2 DEF MoveTunnel
<1> QED BY <1>1, <1>3, <1>4 DEF Answer

LEMMA NextBridgeInv == BridgeInv /\ [BridgeNext]_bridgeVars => BridgeInv'
<1> SUFFICES ASSUME BridgeInv, [BridgeNext]_bridgeVars PROVE BridgeInv'
  OBVIOUS
<1> USE DEF BridgeInv
<1>1. BridgeTypeOK /\ ClientsAreToldTheTruth
  OBVIOUS
<1>2. ASSUME NEW c \in Clients, NEW conn \in [at : Places, upstream : BOOLEAN],
             NEW status \in {0, 200, 400, 405, 502}, ChangeConn(c, conn), Answer(c, status),
             status = 200 /\ conn.at # "closed" => conn.upstream,
             conn.upstream => status = 200 /\ conn.at \in {"answered", "tunnel"},
             loop' \in {"spawned", "selecting", "accepting", "ended"},
             loop' = "ended" => loop = "ended", UNCHANGED <<handle, notified>>
      PROVE BridgeInv'
  <2>1. \A d \in Clients :
          /\ bridge_answers[d] = 200 /\ conns[d].at # "closed" => conns[d].upstream
          /\ conns[d].upstream => bridge_answers[d] = 200 /\ conns[d].at \in {"answered", "tunnel"}
    BY DEF ClientsAreToldTheTruth
  <2>2. /\ conns' \in [Clients -> [at : Places, upstream : BOOLEAN]]
        /\ bridge_answers' \in [Clients -> {0, 200, 400, 405, 502}]
        /\ \A d \in Clients :
             /\ bridge_answers'[d] = 200 /\ conns'[d].at # "closed" => conns'[d].upstream
             /\ conns'[d].upstream => bridge_answers'[d] = 200 /\ conns'[d].at \in {"answered", "tunnel"}
    BY <1>1, <1>2, <2>1, OneMoves
  <2> QED BY <1>2, <2>2 DEF BridgeTypeOK, ClientsAreToldTheTruth
<1>3. ASSUME NEW c \in Clients, NEW place \in Places, MoveTunnel(c, place), UNCHANGED bridge_answers,
             conns[c].upstream => place \in {"answered", "tunnel"},
             bridge_answers[c] = 200 /\ place # "closed" => conns[c].upstream,
             loop' \in {"spawned", "selecting", "accepting", "ended"},
             loop' = "ended" => loop = "ended", UNCHANGED <<handle, notified>>
      PROVE BridgeInv'
  <2> DEFINE conn == [at |-> place, upstream |-> conns[c].upstream]
  <2>1. ChangeConn(c, conn) /\ Answer(c, bridge_answers[c]) /\ bridge_answers[c] \in {0, 200, 400, 405, 502}
        /\ conn \in [at : Places, upstream : BOOLEAN]
    BY <1>1, <1>3, OneWalks
  <2>2. conns[c].upstream => bridge_answers[c] = 200
    BY DEF ClientsAreToldTheTruth
  <2> QED BY <1>2, <1>3, <2>1, <2>2
<1>4. CASE Select
  BY <1>4 DEF Select, BridgeTypeOK, ClientsAreToldTheTruth
<1>5. CASE DropBridge
  BY <1>5 DEF DropBridge, BridgeTypeOK, ClientsAreToldTheTruth
<1>6. CASE Shutdown
  <2>1. /\ loop' = "ended" /\ notified /\ UNCHANGED <<handle, notified, bridge_answers>>
        /\ conns' = [c \in Clients |->
             IF conns[c].at = "backlog" THEN [conns[c] EXCEPT !.at = "closed"] ELSE conns[c]]
    BY <1>6 DEF Shutdown, Backlog
  <2>2. \A c \in Clients :
          /\ conns'[c] \in [at : Places, upstream : BOOLEAN]
          /\ conns'[c] = conns[c] \/ (conns[c].at = "backlog" /\ conns'[c].at = "closed"
                                      /\ conns'[c].upstream = conns[c].upstream)
    <3> TAKE c \in Clients
    <3>1. conns[c] \in [at : Places, upstream : BOOLEAN]
      BY DEF BridgeTypeOK
    <3> QED BY <2>1, <3>1 DEF Places
  <2>3. conns' \in [Clients -> [at : Places, upstream : BOOLEAN]]
    BY <2>1, <2>2
  <2>4. \A c \in Clients :
          /\ bridge_answers'[c] = 200 /\ conns'[c].at # "closed" => conns'[c].upstream
          /\ conns'[c].upstream => bridge_answers'[c] = 200 /\ conns'[c].at \in {"answered", "tunnel"}
    BY <2>1, <2>2 DEF ClientsAreToldTheTruth
  <2> QED BY <2>1, <2>3, <2>4 DEF BridgeTypeOK, ClientsAreToldTheTruth
<1>7. ASSUME NEW c \in Clients PROVE
        /\ conns[c] \in [at : Places, upstream : BOOLEAN] /\ bridge_answers[c] \in {0, 200, 400, 405, 502}
        /\ bridge_answers[c] = 200 /\ conns[c].at # "closed" => conns[c].upstream
        /\ conns[c].upstream => bridge_answers[c] = 200 /\ conns[c].at \in {"answered", "tunnel"}
  BY DEF BridgeTypeOK, ClientsAreToldTheTruth
<1> USE DEF Places
<1>8. ASSUME NEW c \in Clients, Accept(c) PROVE BridgeInv'
  <2>1. conns[c].at = "backlog" /\ loop' = "accepting" /\ UNCHANGED <<handle, notified, bridge_answers>>
    BY <1>8 DEF Accept, Backlog
  <2>2. PICK place \in {"idle", "closed"} : MoveTunnel(c, place)
    BY <1>8 DEF Accept
  <2> QED BY <1>3, <1>7, <2>1, <2>2
<1>9. ASSUME NEW c \in Clients, Serve(c) PROVE BridgeInv'
  <2>1. conns[c].at = "asking" /\ UNCHANGED <<handle, loop, notified>> /\ ~conns[c].upstream
        /\ loop \in {"spawned", "selecting", "accepting", "ended"}
    BY <1>7, <1>9 DEF Serve, BridgeTypeOK
  <2>2. CASE \E status \in {405, 400} : Answer(c, status) /\ MoveTunnel(c, "idle")
    <3>1. PICK status \in {405, 400} : Answer(c, status) /\ MoveTunnel(c, "idle")
      BY <2>2
    <3>2. ChangeConn(c, [at |-> "idle", upstream |-> conns[c].upstream])
      <4>1. [conns[c] EXCEPT !.at = "idle"] = [at |-> "idle", upstream |-> conns[c].upstream]
        BY <1>7
      <4> QED BY <3>1, <4>1 DEF MoveTunnel
    <3> QED BY <1>2, <1>7, <2>1, <3>1, <3>2
  <2>3. CASE MoveTunnel(c, "dialing") /\ UNCHANGED bridge_answers
    BY <1>3, <1>7, <2>1, <2>3
  <2> QED BY <1>9, <2>2, <2>3 DEF Serve
<1>10. ASSUME NEW c \in Clients, HandleConnect(c) PROVE BridgeInv'
  <2>1. conns[c].at = "dialing" /\ UNCHANGED <<handle, loop, notified>> /\ ~conns[c].upstream
        /\ loop \in {"spawned", "selecting", "accepting", "ended"}
    BY <1>7, <1>10 DEF HandleConnect, BridgeTypeOK
  <2>2. CASE Answer(c, 502) /\ MoveTunnel(c, "idle")
    <3>1. ChangeConn(c, [at |-> "idle", upstream |-> conns[c].upstream])
      <4>1. [conns[c] EXCEPT !.at = "idle"] = [at |-> "idle", upstream |-> conns[c].upstream]
        BY <1>7
      <4> QED BY <2>2, <4>1 DEF MoveTunnel
    <3> QED BY <1>2, <1>7, <2>1, <2>2, <3>1
  <2>3. CASE Answer(c, 200) /\ ChangeConn(c, [at |-> "answered", upstream |-> TRUE])
    <3> DEFINE conn == [at |-> "answered", upstream |-> TRUE]
    <3>1. conn \in [at : Places, upstream : BOOLEAN] /\ conn.upstream /\ conn.at = "answered"
      OBVIOUS
    <3>2. ChangeConn(c, conn)
      BY <2>3
    <3> HIDE DEF conn
    <3> QED BY <1>2, <2>1, <2>3, <3>1, <3>2
  <2> QED BY <1>10, <2>2, <2>3 DEF HandleConnect
<1>11. ASSUME NEW c \in Clients, ChangeConn(c, [at |-> "closed", upstream |-> FALSE]),
              UNCHANGED <<handle, loop, notified, bridge_answers>>
       PROVE BridgeInv'
  <2>1. Answer(c, bridge_answers[c]) /\ loop \in {"spawned", "selecting", "accepting", "ended"}
    BY <1>11 DEF Answer, BridgeTypeOK
  <2> DEFINE conn == [at |-> "closed", upstream |-> FALSE]
  <2>2. conn \in [at : Places, upstream : BOOLEAN] /\ ~conn.upstream /\ conn.at = "closed"
    OBVIOUS
  <2>3. ChangeConn(c, conn)
    BY <1>11
  <2> HIDE DEF conn
  <2> QED BY <1>2, <1>7, <1>11, <2>1, <2>2, <2>3
<1>12. ASSUME NEW c \in Clients, Upgrade(c) \/ TunnelEnds(c) PROVE BridgeInv'
  <2>1. CASE conns[c].at = "answered" /\ MoveTunnel(c, "tunnel") /\ UNCHANGED <<handle, loop, notified, bridge_answers>>
    <3>1. loop \in {"spawned", "selecting", "accepting", "ended"}
      BY DEF BridgeTypeOK
    <3> QED BY <1>3, <1>7, <2>1, <3>1
  <2> QED BY <1>11, <1>12, <2>1 DEF Upgrade, TunnelEnds
<1>13. ASSUME NEW c \in Clients, Ask(c) PROVE BridgeInv'
  <2>1. conns[c].at = "idle" /\ Answer(c, 0) /\ MoveTunnel(c, "asking") /\ UNCHANGED <<handle, loop, notified>>
        /\ ~conns[c].upstream /\ loop \in {"spawned", "selecting", "accepting", "ended"}
    BY <1>7, <1>13 DEF Ask, BridgeTypeOK
  <2>2. ChangeConn(c, [at |-> "asking", upstream |-> conns[c].upstream])
    <3>1. [conns[c] EXCEPT !.at = "asking"] = [at |-> "asking", upstream |-> conns[c].upstream]
      BY <1>7
    <3> QED BY <2>1, <3>1 DEF MoveTunnel
  <2> QED BY <1>2, <1>7, <2>1, <2>2
<1>14. ASSUME NEW c \in Clients, Dial(c) \/ HangUp(c) PROVE BridgeInv'
  <2>1. /\ UNCHANGED <<handle, loop, notified, bridge_answers>>
        /\ conns[c].at \in {"none", "idle", "asking", "dialing"} /\ ~conns[c].upstream
        /\ loop \in {"spawned", "selecting", "accepting", "ended"}
        /\ MoveTunnel(c, "closed") \/ MoveTunnel(c, "backlog")
    BY <1>7, <1>14 DEF Dial, HangUp, BridgeTypeOK
  <2> QED BY <1>3, <1>7, <2>1
<1>15. CASE UNCHANGED bridgeVars
  BY <1>15 DEF bridgeVars, BridgeTypeOK, ClientsAreToldTheTruth
<1> QED BY <1>4, <1>5, <1>6, <1>8, <1>9, <1>10, <1>12, <1>13, <1>14, <1>15 DEF BridgeNext

\* The types of the bridge: handle, loop, and every connection.
THEOREM BridgeTypes == BridgeSpec => []BridgeTypeOK
<1>1. BridgeInv => BridgeTypeOK
  BY DEF BridgeInv
<1> QED BY <1>1, InitBridgeInv, NextBridgeInv, PTL DEF BridgeSpec

\* For every number of clients: 200 is only said with the upstream's stream in hand, the
\* stream goes with its tunnel, and only the drop of the handle ends the accept loop.
THEOREM TruthIsTold == BridgeSpec => []ClientsAreToldTheTruth
<1>1. BridgeInv => ClientsAreToldTheTruth
  BY DEF BridgeInv
<1> QED BY <1>1, InitBridgeInv, NextBridgeInv, PTL DEF BridgeSpec

-----------------------------------------------------------------------------
(* The cache of the fetcher *)

\* Where an entry of a build goes, and what is to be in it.
Place(o, b, n) == Path(FolderPath(o.platform, b), o.kind, b, n)
ContentOf(o, b) == ArchiveContent(o.kind, o.platform, b)
IsWhole(o, b) ==
  \A n \in 1..Len(Entries) : Place(o, b, n) \in DOMAIN files /\ files[Place(o, b, n)] = ContentOf(o, b)

Fetching(f) == fetch_stage[f] \in {"downloading", "opening", "unpacking", "filling"}
Writing(f) == fetch_stage[f] \in {"unpacking", "filling"}

FetchTypes ==
  /\ fetch_stage \in [Fetches -> Stages] /\ options \in [Fetches -> Options]
  /\ at \in [Fetches -> 1..(Len(Entries) + 1)] /\ linked \in [Fetches -> BOOLEAN]
  /\ DOMAIN build = Fetches /\ DOMAIN source = Fetches
  /\ \A p \in DOMAIN archives : DOMAIN archives[p] = 1..Chunks
  /\ \A f \in Fetches :
       /\ fetch_stage[f] = "downloading" => at[f] \in 1..Chunks
       /\ fetch_stage[f] \in {"new", "opening"} => at[f] = 1
       /\ fetch_stage[f] = "filling" => at[f] <= Len(Entries)
       /\ fetch_stage[f] \notin {"new", "failed", "killed"} =>
            build[f] \in Resolve(options[f].kind, options[f].version)

\* Whoever shares an archive path is known to disturb.
Apart ==
  \A f, g \in Fetches :
    f # g /\ Fetching(f) /\ Fetching(g) /\ Archive(f) = Archive(g) => Folder(f) \in disturbed

\* What an undisturbed fetch has got so far is its own, whatever its archive lacks, and
\* nothing was there before from the executable on.
GotSoFar(f) ==
  /\ Archive(f) \in DOMAIN archives /\ linked[f]
  /\ \A c \in 1..Chunks : archives[Archive(f)][c] \in {Own(f), Gap}
  /\ Writing(f) => source[f] = Own(f)
  /\ Writing(f) =>
       \A n \in 1..(at[f] - 1) : FileAt(f, n) \in DOMAIN files /\ files[FileAt(f, n)] = Own(f)
  /\ fetch_stage[f] = "filling" => FileAt(f, at[f]) \in DOMAIN files
  /\ \A n \in ExeAt..Len(Entries) : FileAt(f, n) \in DOMAIN files =>
       Writing(f) /\ (n < at[f] \/ (fetch_stage[f] = "filling" /\ n = at[f]))

Undisturbed == \A f \in Fetches : Fetching(f) /\ Folder(f) \notin disturbed => GotSoFar(f)

\* Where the executable is, everything is, or somebody is at it.
FolderInv ==
  \A o \in Options : \A b \in Resolve(o.kind, o.version) :
    FolderPath(o.platform, b) \notin disturbed =>
      /\ \A n \in ExeAt..Len(Entries) :
           Place(o, b, n) \in DOMAIN files => Place(o, b, ExeAt) \in DOMAIN files
      /\ Place(o, b, ExeAt) \in DOMAIN files =>
           IsWhole(o, b) \/ \E g \in Fetches : Writing(g) /\ FileAt(g, 1) = Place(o, b, 1)

DoneInv ==
  \A f \in Fetches : fetch_stage[f] = "done" /\ Folder(f) \notin disturbed =>
    /\ IsWhole(options[f], build[f])
    /\ \A g \in Fetches : Fetching(g) => FileAt(g, 1) # FileAt(f, 1)

FetchInv == FetchTypes /\ Apart /\ Undisturbed /\ FolderInv /\ DoneInv

-----------------------------------------------------------------------------
(* Paths *)

LEMMA ExeIsThere == ExeAt \in 1..Len(Entries) /\ Len(Entries) \in Nat
BY FetcherConstants DEF ExeAt

LEMMA ResolvedHaveId ==
  ASSUME NEW o, NEW b \in Resolve(o.kind, o.version) PROVE b # NoBuild
<1>0. ASSUME NEW r \in Releases PROVE BuildOf(r).id # <<>>
  BY <1>0, FetcherConstants DEF BuildOf
<1>1. \A n : \A x \in ByRevision(o.kind, n) : x.id # <<>>
  BY <1>0 DEF ByRevision, Builds
<1>2. ASSUME NEW n, NEW x \in ByChannel(o.kind, n) PROVE x.id # <<>>
  <2>1. CASE o.kind # "Chromium"
    BY <1>0, <1>2, <2>1 DEF ByChannel, Builds
  <2>2. CASE o.kind = "Chromium"
    <3>1. x = [revision |-> LastChange, id |-> <<LastChange>>]
      BY <1>2, <2>2, SMT DEF ByChannel
    <3> QED BY <3>1
  <2> QED BY <2>1, <2>2
<1>3. ASSUME NEW n, NEW x \in ByVersion(o.kind, n) PROVE x.id # <<>>
  <2>1. CASE o.kind # "Chromium" /\ Len(n) = 4
    <3>1. SUFFICES ASSUME n = <<>> PROVE FALSE
      BY <1>3, <2>1, SMT DEF ByVersion
    <3>2. Len(<<>>) = 0
      OBVIOUS
    <3> QED BY <2>1, <3>1, <3>2
  <2> QED BY <1>0, <1>3, <2>1 DEF ByVersion, Builds
<1>4. \A n : \A x \in ByMilestone(o.kind, n) : x.id # <<>>
  BY <1>0 DEF ByMilestone, Builds
<1>5. b.id # <<>>
  BY <1>1, <1>2, <1>3, <1>4 DEF Resolve
<1> QED BY <1>5 DEF NoBuild

\* A place belongs to one build of one kind.
LEMMA SamePlace ==
  ASSUME NEW o, NEW b, NEW n, NEW p, NEW c, NEW m, Place(o, b, n) = Place(p, c, m)
  PROVE /\ n = m /\ ContentOf(o, b) = ContentOf(p, c)
        /\ FolderPath(o.platform, b) = FolderPath(p.platform, c)
        /\ \A k : Place(o, b, k) = Place(p, c, k)
<1>1. /\ FolderPath(o.platform, b) = FolderPath(p.platform, c) /\ n = m
      /\ o.platform = p.platform /\ b.id = c.id
      /\ ArchiveName(o.kind, o.platform, b) = ArchiveName(p.kind, p.platform, c)
  BY DEF Place, Path, FolderPath
<1>2. o.kind = p.kind
  <2>1. \A build_, q : ArchiveName("Chromium", q, build_) \in
          {<<"chrome-mac">>, <<"chrome-win">>, <<"chrome-win32">>, <<"chrome-linux">>}
    BY SMT DEF ArchiveName
  <2>2. ASSUME NEW k, NEW q, NEW c_, k # "Chromium" PROVE ArchiveName(k, q, c_) = <<k, q>>
    BY <2>2, SMT DEF ArchiveName
  <2>3. \A k, q : <<k, q>> \notin
          {<<"chrome-mac">>, <<"chrome-win">>, <<"chrome-win32">>, <<"chrome-linux">>}
    OBVIOUS
  <2>4. \A j, k, q : <<j, q>> = <<k, q>> => j = k
    OBVIOUS
  <2> QED BY <1>1, <2>1, <2>2, <2>3, <2>4
<1> QED BY <1>1, <1>2 DEF Place, Path, FolderPath, ContentOf, ArchiveContent

LEMMA OwnPlace ==
  ASSUME NEW f \in Fetches
  PROVE /\ \A n : FileAt(f, n) = Place(options[f], build[f], n)
        /\ Own(f) = ContentOf(options[f], build[f])
        /\ Folder(f) = FolderPath(options[f].platform, build[f])
        /\ Archive(f) = ArchivePath(Folder(f))
        /\ source[f] = Own(f) => \A n : Target(f, n) = FileAt(f, n)
BY DEF FileAt, Place, Own, ContentOf, Folder, Archive, Target, Path, FolderPath, ArchiveContent

\* A write of a fetch that is not here stays out of an undisturbed folder's files.
LEMMA WriteLands ==
  ASSUME FetchTypes, Undisturbed, NEW f \in Fetches, Writing(f), NEW o, NEW b,
         FolderPath(o.platform, b) \notin disturbed, FileAt(f, 1) # Place(o, b, 1), NEW n, NEW m
  PROVE Target(f, m) # Place(o, b, n)
<1>1. CASE Folder(f) # FolderPath(o.platform, b)
  BY <1>1 DEF Target, Place, Path
<1>2. CASE Folder(f) = FolderPath(o.platform, b)
  <2>1. source[f] = Own(f)
    BY <1>2 DEF Undisturbed, GotSoFar, Fetching, Writing
  <2> SUFFICES ASSUME Target(f, m) = Place(o, b, n) PROVE FALSE
    OBVIOUS
  <2>2. Place(options[f], build[f], m) = Place(o, b, n)
    BY <2>1, OwnPlace
  <2> QED BY <2>2, SamePlace, OwnPlace
<1> QED BY <1>1, <1>2

-----------------------------------------------------------------------------
(* One fetch moves *)

FetchStep(f) ==
  \/ ResolveVersion(f) \/ Local(f) \/ Download(f) \/ DownloadFails(f)
  \/ OpenArchive(f) \/ Unpack(f) \/ UnpackLink(f) \/ Fill(f) \/ Finish(f) \/ CutShort(f)

LEMMA OnlyOneFetch ==
  ASSUME FetchTypes, NEW f \in Fetches, FetchStep(f)
  PROVE /\ UNCHANGED options /\ disturbed \subseteq disturbed'
        /\ \A g \in Fetches : g # f =>
             /\ fetch_stage'[g] = fetch_stage[g] /\ build'[g] = build[g]
             /\ at'[g] = at[g] /\ source'[g] = source[g]
        /\ fetch_stage[f] # "new" => build' = build
        /\ fetch_stage[f] \notin {"done", "failed", "killed"}
<1> USE DEF FetchTypes, To
<1>1. CASE ResolveVersion(f)
  <2>1. \A g \in Fetches : g # f => build'[g] = build[g]
    BY <1>1 DEF ResolveVersion
  <2> QED BY <1>1, <2>1 DEF ResolveVersion
<1>2. CASE Local(f)
  <2>1. \A g \in Fetches : g # f => fetch_stage'[g] = fetch_stage[g] /\ at'[g] = at[g]
    BY <1>2 DEF Local
  <2> QED BY <1>2, <2>1 DEF Local
<1>3. CASE Download(f) \/ DownloadFails(f)
  BY <1>3 DEF Download, DownloadFails
<1>4. CASE OpenArchive(f)
  BY <1>4 DEF OpenArchive
<1>5. CASE Unpack(f) \/ UnpackLink(f) \/ Fill(f)
  BY <1>5 DEF Unpack, UnpackLink, Fill, Stop
<1>6. CASE Finish(f)
  BY <1>6 DEF Finish
<1>7. CASE CutShort(f)
  BY <1>7 DEF CutShort, Stop, ArchiveBusy
<1> QED BY <1>1, <1>2, <1>3, <1>4, <1>5, <1>6, <1>7 DEF FetchStep

LEMMA PathsAreKept ==
  ASSUME FetchTypes, NEW f \in Fetches, FetchStep(f), NEW g \in Fetches,
         g # f \/ fetch_stage[f] # "new"
  PROVE /\ Folder(g)' = Folder(g) /\ Archive(g)' = Archive(g) /\ Own(g)' = Own(g)
        /\ \A n : FileAt(g, n)' = FileAt(g, n)
        /\ options'[g] = options[g] /\ build'[g] = build[g]
<1>1. options'[g] = options[g] /\ build'[g] = build[g]
  BY OnlyOneFetch
<1> QED BY <1>1 DEF Folder, Archive, Own, FileAt

LEMMA TypesStep == ASSUME FetchTypes, NEW f \in Fetches, FetchStep(f) PROVE FetchTypes'
<1>0. Len(Entries) \in Nat /\ Len(Entries) >= 1 /\ Chunks = 2
  BY ExeIsThere DEF Chunks
<1> USE DEF FetchTypes, To, Stages
<1>1. CASE ResolveVersion(f)
  <2>1. \A g \in Fetches : g # f => build'[g] = build[g] /\ fetch_stage'[g] = fetch_stage[g]
    BY <1>1, OnlyOneFetch
  <2>2. fetch_stage'[f] \in {"local", "failed"}
        /\ (fetch_stage'[f] = "local" => build'[f] \in Resolve(options[f].kind, options[f].version))
    BY <1>1 DEF ResolveVersion
  <2>3. DOMAIN build' = Fetches /\ fetch_stage' \in [Fetches -> Stages]
        /\ UNCHANGED <<options, at, linked, source, archives>>
    BY <1>1 DEF ResolveVersion, cacheVars
  <2>4. \A g \in Fetches : fetch_stage'[g] = fetch_stage[g] \/ (g = f /\ fetch_stage'[g] \in {"local", "failed"})
    BY <2>1, <2>2
  <2> QED BY <2>1, <2>2, <2>3, <2>4
<1>2. CASE Local(f)
  <2>1. fetch_stage' \in [Fetches -> Stages] /\ UNCHANGED <<options, build, source>>
    BY <1>2 DEF Local
  <2>5. at' \in [Fetches -> 1..(Len(Entries) + 1)]
    <3>1. at' = at \/ at' = [at EXCEPT ![f] = 1]
      BY <1>2 DEF Local
    <3> QED BY <1>0, <3>1
  <2>6. linked' \in [Fetches -> BOOLEAN]
    BY <1>2 DEF Local
  <2>2. \A p \in DOMAIN archives' : DOMAIN archives'[p] = 1..Chunks
    BY <1>2 DEF Local, PutFile
  <2>3. fetch_stage[f] = "local" /\ fetch_stage'[f] \in {"done", "failed", "downloading"}
        /\ (fetch_stage'[f] = "downloading" => at'[f] = 1)
    BY <1>2 DEF Local
  <2>4. \A g \in Fetches : g # f => fetch_stage'[g] = fetch_stage[g] /\ at'[g] = at[g]
    BY <1>2, OnlyOneFetch DEF FetchStep
  <2> QED BY <1>0, <2>1, <2>2, <2>3, <2>4, <2>5, <2>6
<1>3. CASE Download(f)
  <2>1. fetch_stage' \in [Fetches -> Stages] /\ UNCHANGED <<options, build, source, linked>>
        /\ at' \in [Fetches -> 1..(Len(Entries) + 1)]
    BY <1>0, <1>3 DEF Download
  <2>2. \A p \in DOMAIN archives' : DOMAIN archives'[p] = 1..Chunks
    BY <1>3 DEF Download
  <2>3. /\ fetch_stage[f] = "downloading" /\ at[f] \in 1..Chunks
        /\ fetch_stage'[f] \in {"opening", "downloading"}
        /\ fetch_stage'[f] = "downloading" => at'[f] \in 1..Chunks
        /\ fetch_stage'[f] = "opening" => at'[f] = 1
    BY <1>0, <1>3 DEF Download
  <2>4. \A g \in Fetches : g # f => fetch_stage'[g] = fetch_stage[g] /\ at'[g] = at[g]
    BY <1>3, OnlyOneFetch DEF FetchStep
  <2> QED BY <2>1, <2>2, <2>3, <2>4
<1>4. CASE DownloadFails(f) \/ CutShort(f)
  BY <1>4 DEF DownloadFails, CutShort, Stop, cacheVars
<1>5. CASE OpenArchive(f)
  BY <1>5 DEF OpenArchive, cacheVars
<1>6. CASE Unpack(f)
  BY <1>6 DEF Unpack
<1>7. CASE UnpackLink(f) \/ Fill(f)
  <2>1. fetch_stage' \in [Fetches -> Stages] /\ UNCHANGED <<options, build, source, linked, archives>>
    BY <1>7 DEF UnpackLink, Fill, Stop
  <2>2. fetch_stage[f] \in {"unpacking", "filling"} /\ at[f] <= Len(Entries)
    BY <1>7 DEF UnpackLink, Fill, Stop
  <2>3. at' \in [Fetches -> 1..(Len(Entries) + 1)]
    <3>1. at' = at \/ at' = [at EXCEPT ![f] = at[f] + 1]
      BY <1>7 DEF UnpackLink, Fill, Stop
    <3> QED BY <1>0, <2>2, <3>1
  <2>4. fetch_stage'[f] \in {"unpacking", "failed"}
    BY <1>7 DEF UnpackLink, Fill, Stop
  <2>5. \A g \in Fetches : g # f => fetch_stage'[g] = fetch_stage[g] /\ at'[g] = at[g]
    BY <1>7, OnlyOneFetch DEF FetchStep
  <2> QED BY <2>1, <2>2, <2>3, <2>4, <2>5
<1>8. CASE Finish(f)
  <2>1. fetch_stage' \in [Fetches -> Stages] /\ UNCHANGED <<options, build, source, at>>
        /\ fetch_stage[f] = "unpacking" /\ fetch_stage'[f] = "done"
        /\ \A g \in Fetches : g # f => fetch_stage'[g] = fetch_stage[g]
    BY <1>8 DEF Finish
  <2>2. \A p \in DOMAIN archives' : DOMAIN archives'[p] = 1..Chunks
    BY <1>8 DEF Finish, WithoutFile
  <2>3. linked' \in [Fetches -> BOOLEAN]
    BY <1>8 DEF Finish
  <2> QED BY <2>1, <2>2, <2>3
<1> QED BY <1>1, <1>2, <1>3, <1>4, <1>5, <1>6, <1>7, <1>8 DEF FetchStep

\* Files are only added, at the target of the one that writes.
LEMMA FilesGrow ==
  ASSUME FetchTypes, NEW f \in Fetches, FetchStep(f)
  PROVE \/ UNCHANGED files
        \/ /\ Writing(f) /\ Writing(f)' /\ at[f] <= Len(Entries)
           /\ DOMAIN files \subseteq DOMAIN files'
           /\ DOMAIN files' \subseteq DOMAIN files \cup {Target(f, at[f])}
           /\ \A p \in DOMAIN files : p # Target(f, at[f]) => files'[p] = files[p]
<1> USE DEF FetchTypes, To, Writing
<1>1. CASE Unpack(f)
  BY <1>1 DEF Unpack, PutFile
<1>2. CASE UnpackLink(f)
  <2>1. CASE UNCHANGED files
    BY <2>1
  <2>2. CASE files' = PutFile(files, Target(f, at[f]), source[f]) /\ UNCHANGED fetch_stage
    BY <1>2, <2>2 DEF UnpackLink, PutFile
  <2> QED BY <1>2, <2>1, <2>2 DEF UnpackLink
<1>3. CASE Fill(f)
  <2>1. CASE UNCHANGED files
    BY <2>1
  <2>2. CASE files' = [files EXCEPT ![Target(f, at[f])] = source[f]] /\ To(f, "unpacking")
    BY <1>3, <2>2 DEF Fill
  <2> QED BY <1>3, <2>1, <2>2 DEF Fill
<1> QED BY <1>1, <1>2, <1>3 DEF FetchStep, ResolveVersion, Local, Download, DownloadFails, OpenArchive,
                 Finish, Stop, CutShort, cacheVars

LEMMA ElsewhereKept ==
  ASSUME FetchTypes, Undisturbed, NEW f \in Fetches, FetchStep(f), NEW o, NEW b,
         FolderPath(o.platform, b) \notin disturbed,
         Writing(f) => FileAt(f, 1) # Place(o, b, 1), NEW n
  PROVE /\ Place(o, b, n) \in DOMAIN files' <=> Place(o, b, n) \in DOMAIN files
        /\ Place(o, b, n) \in DOMAIN files => files'[Place(o, b, n)] = files[Place(o, b, n)]
<1>1. Writing(f) => Target(f, at[f]) # Place(o, b, n)
  BY WriteLands
<1> QED BY <1>1, FilesGrow

\* Those that meet at an archive path know it.
LEMMA TheyMeet ==
  ASSUME FetchTypes, NEW f \in Fetches, NEW g \in Fetches, f # g, ArchiveBusy(f), ArchiveBusy(g),
         Archive(f) = Archive(g)
  PROVE Folder(f) \in Met(f) /\ Folder(g) \in Met(f)
<1>1. build[g] \in Resolve(options[g].kind, options[g].version)
  BY DEF FetchTypes, ArchiveBusy, Stages
<1>2. build[g] # NoBuild
  BY <1>1, ResolvedHaveId
<1>3. g \in {h \in Fetches \ {f} : ArchiveBusy(h) /\ build[h] # NoBuild /\ Archive(h) = Archive(f)}
  BY <1>2
<1> QED BY <1>3 DEF Met

\* A fetch takes its place beside the others when it makes its archive.
LEMMA WhoFetches ==
  ASSUME FetchTypes, NEW f \in Fetches, FetchStep(f), NEW g \in Fetches, Fetching(g)'
  PROVE /\ Fetching(g) \/ (g = f /\ Local(f) /\ fetch_stage[f] = "local" /\ fetch_stage'[f] = "downloading")
        /\ g # f \/ fetch_stage[f] # "new"
        /\ ArchiveBusy(g)
<1> USE DEF FetchTypes, Fetching, ArchiveBusy, To
<1>1. CASE g # f
  <2>1. fetch_stage'[g] = fetch_stage[g]
    BY <1>1, OnlyOneFetch
  <2> QED BY <1>1, <2>1
<1>2. CASE g = f
  BY <1>2 DEF FetchStep, ResolveVersion, Local, Download, DownloadFails, OpenArchive, Unpack,
              UnpackLink, Fill, Stop, Finish, CutShort
<1> QED BY <1>1, <1>2

LEMMA ApartStep ==
  ASSUME FetchTypes, Apart, NEW f \in Fetches, FetchStep(f) PROVE Apart'
<1> SUFFICES ASSUME NEW g \in Fetches, NEW h \in Fetches, g # h, Fetching(g)', Fetching(h)',
                    Archive(g)' = Archive(h)'
             PROVE Folder(g)' \in disturbed'
  BY DEF Apart
<1>1. Archive(g)' = Archive(g) /\ Archive(h)' = Archive(h) /\ Folder(g)' = Folder(g)
  BY WhoFetches, PathsAreKept
<1>2. disturbed \subseteq disturbed'
  BY OnlyOneFetch
<1>3. CASE Fetching(g) /\ Fetching(h)
  BY <1>1, <1>2, <1>3 DEF Apart
<1>4. CASE ~(Fetching(g) /\ Fetching(h))
  <2>1. Local(f) /\ (f = g \/ f = h) /\ ArchiveBusy(g) /\ ArchiveBusy(h)
    BY <1>4, WhoFetches
  <2>2. Folder(g) \in Met(f)
    BY <1>1, <2>1, TheyMeet
  <2> QED BY <1>1, <2>1, <2>2 DEF Local
<1> QED BY <1>3, <1>4

\* An archive changes for nobody who does not know.
LEMMA ArchivesAreKept ==
  ASSUME FetchTypes, Apart, NEW f \in Fetches, FetchStep(f), NEW g \in Fetches, g # f,
         Fetching(g), Folder(g) \notin disturbed'
  PROVE /\ Archive(g) \in DOMAIN archives =>
             Archive(g) \in DOMAIN archives' /\ archives'[Archive(g)] = archives[Archive(g)]
        /\ linked'[g] <=> linked[g]
<1>1. Folder(g) \notin disturbed /\ ArchiveBusy(g)
  BY OnlyOneFetch DEF Fetching, ArchiveBusy
<1>2. Fetching(f) => Archive(f) # Archive(g)
  BY <1>1 DEF Apart
<1> USE DEF FetchTypes
<1>3. CASE Local(f)
  <2>1. Archive(f) # Archive(g)
    <3>1. ArchiveBusy(f) /\ disturbed' = disturbed \cup Met(f)
      BY <1>3 DEF Local, ArchiveBusy
    <3> QED BY <1>1, <3>1, TheyMeet
  <2> QED BY <1>3, <2>1 DEF Local, PutFile
<1>4. CASE Download(f)
  <2>1. Archive(f) # Archive(g)
    BY <1>2, <1>4 DEF Download, Fetching
  <2> QED BY <1>4, <2>1 DEF Download
<1>5. CASE Finish(f)
  <2>1. Archive(f) # Archive(g)
    BY <1>2, <1>5 DEF Finish, Fetching
  <2> QED BY <1>5, <2>1 DEF Finish, WithoutFile
<1> QED BY <1>3, <1>4, <1>5 DEF FetchStep, ResolveVersion, DownloadFails, OpenArchive, Unpack,
                 UnpackLink, Fill, Stop, CutShort, cacheVars

LEMMA OthersKeepTheirs ==
  ASSUME FetchInv, NEW f \in Fetches, FetchStep(f), NEW g \in Fetches, g # f, Fetching(g)',
         Folder(g)' \notin disturbed'
  PROVE GotSoFar(g)'
<1>1. /\ fetch_stage'[g] = fetch_stage[g] /\ at'[g] = at[g] /\ source'[g] = source[g]
      /\ disturbed \subseteq disturbed' /\ FetchTypes
  BY OnlyOneFetch DEF FetchInv
<1>2. /\ Folder(g)' = Folder(g) /\ Archive(g)' = Archive(g) /\ Own(g)' = Own(g)
      /\ \A n : FileAt(g, n)' = FileAt(g, n)
  BY <1>1, PathsAreKept
<1>3. Fetching(g) /\ Folder(g) \notin disturbed /\ GotSoFar(g)
  BY <1>1, <1>2 DEF Fetching, FetchInv, Undisturbed
<1>4. Archive(g) \in DOMAIN archives' /\ archives'[Archive(g)] = archives[Archive(g)] /\ linked'[g]
  BY <1>2, <1>3, ArchivesAreKept DEF FetchInv, GotSoFar
<1>5. Writing(f) => FileAt(f, 1) # FileAt(g, 1)
  <2>1. Writing(f) => Archive(f) # Archive(g)
    BY <1>3 DEF FetchInv, Apart, Writing, Fetching
  <2>2. FileAt(f, 1) = FileAt(g, 1) => Folder(f) = Folder(g)
    BY OwnPlace, SamePlace
  <2> QED BY <2>1, <2>2, OwnPlace
<1>6. \A n : /\ FileAt(g, n) \in DOMAIN files' <=> FileAt(g, n) \in DOMAIN files
             /\ FileAt(g, n) \in DOMAIN files => files'[FileAt(g, n)] = files[FileAt(g, n)]
  <2> TAKE n
  <2>1. FileAt(g, 1) = Place(options[g], build[g], 1) /\ FileAt(g, n) = Place(options[g], build[g], n)
        /\ Folder(g) = FolderPath(options[g].platform, build[g])
    BY OwnPlace
  <2> QED BY <1>1, <1>3, <1>5, <2>1, ElsewhereKept DEF FetchInv
<1>7. Writing(g)' <=> Writing(g)
  BY <1>1 DEF Writing
<1> QED BY <1>1, <1>2, <1>3, <1>4, <1>6, <1>7 DEF GotSoFar

LEMMA OneKeepsItsOwn ==
  ASSUME FetchInv, NEW f \in Fetches, FetchStep(f), Fetching(f)', Folder(f)' \notin disturbed'
  PROVE GotSoFar(f)'
<1> DEFINE A == Archive(f)
           P(n) == FileAt(f, n)
<1>1. /\ A' = A /\ Own(f)' = Own(f) /\ \A n : P(n)' = P(n)
      /\ Folder(f) \notin disturbed /\ FetchTypes
  BY WhoFetches, PathsAreKept, OnlyOneFetch DEF FetchInv
<1>2. \A n, m : P(n) = P(m) => n = m
  BY OwnPlace, SamePlace
<1>3. Fetching(f) => GotSoFar(f)
  BY <1>1 DEF FetchInv, Undisturbed
<1>4. Chunks = 2 /\ at[f] \in 1..(Len(Entries) + 1) /\ Len(Entries) \in Nat /\ ExeAt \in 1..Len(Entries)
  BY <1>1, ExeIsThere DEF Chunks, FetchTypes
<1>5. CASE Local(f)
  <2>1. /\ P(ExeAt) \notin DOMAIN files /\ at'[f] = 1 /\ linked'[f] /\ fetch_stage'[f] = "downloading"
        /\ archives' = PutFile(archives, A, [c \in 1..Chunks |-> Gap]) /\ UNCHANGED files
    BY <1>1, <1>5 DEF Local, FetchTypes, To, Fetching
  <2>2. build[f] \in Resolve(options[f].kind, options[f].version) /\ options[f] \in Options
    BY <1>1, <1>5 DEF Local, FetchTypes
  <2>3. \A n \in ExeAt..Len(Entries) : P(n) \notin DOMAIN files
    BY <1>1, <2>1, <2>2, OwnPlace DEF FetchInv, FolderInv
  <2>4. A \in DOMAIN archives' /\ \A c \in 1..Chunks : archives'[A][c] = Gap
    BY <2>1 DEF PutFile
  <2> HIDE DEF A, P
  <2> QED BY <1>1, <2>1, <2>3, <2>4 DEF GotSoFar, Writing, A, P
<1>6. CASE Download(f)
  <2>1. /\ fetch_stage[f] = "downloading" /\ at[f] \in 1..Chunks /\ linked[f] /\ A \in DOMAIN archives
        /\ DOMAIN archives[A] = 1..Chunks /\ GotSoFar(f)
    BY <1>1, <1>3, <1>6 DEF Download, Fetching, GotSoFar, FetchTypes
  <2>2. PICK written \in {Own(f), Gap} : archives' = [archives EXCEPT ![A][at[f]] = written]
    BY <2>1, <1>6 DEF Download
  <2>3. /\ UNCHANGED <<files, linked>> /\ fetch_stage'[f] \in {"downloading", "opening"}
    BY <1>1, <1>6, <2>1 DEF Download, FetchTypes, To
  <2>4. A \in DOMAIN archives' /\ \A c \in 1..Chunks : archives'[A][c] \in {Own(f), Gap}
    <3>1. \A c \in 1..Chunks : archives[A][c] \in {Own(f), Gap}
      BY <2>1 DEF GotSoFar
    <3> QED BY <2>1, <2>2, <3>1
  <2>5. \A n \in ExeAt..Len(Entries) : P(n) \notin DOMAIN files'
    BY <2>1, <2>3 DEF GotSoFar, Writing
  <2> HIDE DEF A, P
  <2> QED BY <1>1, <2>1, <2>3, <2>4, <2>5 DEF GotSoFar, Writing, A, P
<1>7. CASE OpenArchive(f)
  <2>1. /\ fetch_stage[f] = "opening" /\ at[f] = 1 /\ GotSoFar(f)
        /\ UNCHANGED <<at, linked, archives, files>>
    BY <1>1, <1>3, <1>7 DEF OpenArchive, Fetching, FetchTypes, cacheVars
  <2>2. fetch_stage'[f] = "unpacking" /\ source'[f] = Own(f)
    <3>1. A \in DOMAIN archives /\ archives[A][Chunks] \in {Own(f), Gap}
      BY <1>4, <2>1 DEF GotSoFar
    <3> QED BY <1>1, <1>7, <2>1, <3>1 DEF OpenArchive, Fetching, FetchTypes, To
  <2>3. \A n \in ExeAt..Len(Entries) : P(n) \notin DOMAIN files
    BY <2>1 DEF GotSoFar, Writing
  <2> QED BY <1>1, <2>1, <2>2, <2>3 DEF GotSoFar, Writing
<1>8. ASSUME Unpack(f) \/ UnpackLink(f) \/ Fill(f) PROVE GotSoFar(f)'
  <2>1. /\ GotSoFar(f) /\ Writing(f) /\ source[f] = Own(f) /\ at[f] <= Len(Entries)
        /\ UNCHANGED <<source, linked, archives>>
    BY <1>1, <1>3, <1>8 DEF Unpack, UnpackLink, Fill, Stop, To, Fetching, Writing, GotSoFar, FetchTypes
  <2>2. Target(f, at[f]) = P(at[f])
    BY <2>1, OwnPlace
  <2>3. \A n \in 1..(at[f] - 1) : P(n) \in DOMAIN files /\ files[P(n)] = Own(f) /\ P(n) # P(at[f])
    BY <1>2, <1>4, <2>1 DEF GotSoFar
  <2>4. \A n \in ExeAt..Len(Entries) : P(n) \in DOMAIN files =>
          n < at[f] \/ (fetch_stage[f] = "filling" /\ n = at[f])
    BY <2>1 DEF GotSoFar
  <2>5. CASE Unpack(f)
    <3>1. /\ fetch_stage'[f] = "filling" /\ at' = at /\ files' = PutFile(files, P(at[f]), Gap)
      BY <1>1, <2>2, <2>5 DEF Unpack, To, FetchTypes
    <3>2. \A n \in 1..(at[f] - 1) : P(n) \in DOMAIN files' /\ files'[P(n)] = Own(f)
      BY <2>3, <3>1 DEF PutFile
    <3>3. \A n \in ExeAt..Len(Entries) : P(n) \in DOMAIN files' => n < at[f] \/ n = at[f]
      BY <1>2, <2>4, <3>1 DEF PutFile
    <3>4. A \in DOMAIN archives' /\ linked'[f] /\ \A c \in 1..Chunks : archives'[A][c] \in {Own(f), Gap}
      BY <2>1 DEF GotSoFar, Writing
    <3>5. P(at'[f]) \in DOMAIN files'
      BY <3>1 DEF PutFile
    <3> HIDE DEF A, P
    <3> QED BY <1>1, <2>1, <3>1, <3>2, <3>3, <3>4, <3>5 DEF GotSoFar, Writing, A, P
  <2>6. CASE UnpackLink(f) \/ Fill(f)
    <3>1. /\ fetch_stage'[f] = "unpacking" /\ at'[f] = at[f] + 1
          /\ files' = PutFile(files, P(at[f]), Own(f)) \/ files' = [files EXCEPT ![P(at[f])] = Own(f)]
          /\ UnpackLink(f) => files' = PutFile(files, P(at[f]), Own(f))
          /\ Fill(f) => fetch_stage[f] = "filling" /\ files' = [files EXCEPT ![P(at[f])] = Own(f)]
      BY <1>1, <2>1, <2>2, <2>6 DEF UnpackLink, Fill, Stop, To, FetchTypes, Fetching
    <3>5. P(at[f]) \in DOMAIN files' /\ files'[P(at[f])] = Own(f)
      BY <2>1, <2>6, <3>1 DEF PutFile, GotSoFar
    <3>2. \A n \in 1..(at'[f] - 1) : P(n) \in DOMAIN files' /\ files'[P(n)] = Own(f)
      BY <1>4, <2>3, <3>1, <3>5 DEF PutFile
    <3>3. \A n \in ExeAt..Len(Entries) : P(n) \in DOMAIN files' => n < at'[f]
      BY <1>2, <1>4, <2>4, <3>1 DEF PutFile
    <3>4. A \in DOMAIN archives' /\ linked'[f] /\ \A c \in 1..Chunks : archives'[A][c] \in {Own(f), Gap}
      BY <2>1 DEF GotSoFar, Writing
    <3> HIDE DEF A, P
    <3> QED BY <1>1, <2>1, <3>1, <3>2, <3>3, <3>4 DEF GotSoFar, Writing, A, P
  <2> QED BY <1>8, <2>5, <2>6
<1> QED BY <1>5, <1>6, <1>7, <1>8 DEF FetchStep, ResolveVersion, DownloadFails, Finish, Stop, CutShort,
                 Fetching, To, FetchInv, FetchTypes

\* Whoever unpacks an undisturbed build goes on, or has it whole.
LEMMA WritersGoOn ==
  ASSUME FetchInv, NEW f \in Fetches, FetchStep(f), Writing(f), Folder(f) \notin disturbed',
         FileAt(f, ExeAt) \in DOMAIN files
  PROVE Writing(f)' \/ (IsWhole(options[f], build[f]) /\ UNCHANGED files)
<1>1. GotSoFar(f) /\ Folder(f) \notin disturbed /\ FetchTypes
  BY OnlyOneFetch DEF FetchInv, Undisturbed, Writing, Fetching
<1>2. /\ \A n : FileAt(f, n) = Place(options[f], build[f], n) /\ Target(f, n) = FileAt(f, n)
      /\ Own(f) = ContentOf(options[f], build[f])
  BY <1>1, OwnPlace DEF GotSoFar
<1>3. ASSUME NEW stage, Stop(f, stage) PROVE FALSE
  BY <1>3 DEF Stop, Writing
<1>4. Len(Entries) \in Nat
  BY ExeIsThere
<1>5. CASE UnpackLink(f)
  BY <1>3, <1>5 DEF UnpackLink, Writing
<1>6. CASE Fill(f)
  BY <1>1, <1>3, <1>6 DEF Fill, To, Writing, FetchTypes
<1>7. CASE Finish(f)
  <2>1. UNCHANGED files /\ at[f] > Len(Entries)
    BY <1>7 DEF Finish
  <2>2. \A n \in 1..Len(Entries) : n \in 1..(at[f] - 1)
    BY <1>1, <1>4, <2>1 DEF FetchTypes
  <2> QED BY <1>1, <1>2, <2>1, <2>2 DEF IsWhole, GotSoFar, Writing
<1>8. CASE CutShort(f)
  BY <1>3, <1>8 DEF CutShort
<1>9. CASE Unpack(f)
  BY <1>1, <1>9 DEF Unpack, To, Writing, FetchTypes
<1> QED BY <1>5, <1>6, <1>7, <1>8, <1>9 DEF FetchStep, ResolveVersion, Local, Download,
                 DownloadFails, OpenArchive, Writing

LEMMA FolderStep ==
  ASSUME FetchInv, NEW f \in Fetches, FetchStep(f) PROVE FolderInv'
<1> SUFFICES ASSUME NEW o \in Options, NEW b \in Resolve(o.kind, o.version),
                    FolderPath(o.platform, b) \notin disturbed'
             PROVE /\ \A n \in ExeAt..Len(Entries) :
                        Place(o, b, n) \in DOMAIN files' => Place(o, b, ExeAt) \in DOMAIN files'
                   /\ Place(o, b, ExeAt) \in DOMAIN files' =>
                        \/ IsWhole(o, b)'
                        \/ \E g \in Fetches : Writing(g)' /\ FileAt(g, 1)' = Place(o, b, 1)
  BY DEF FolderInv
<1>0. FetchTypes /\ Undisturbed /\ ExeAt \in 1..Len(Entries) /\ Len(Entries) \in Nat
  BY ExeIsThere DEF FetchInv
<1>1. FolderPath(o.platform, b) \notin disturbed
  BY <1>0, OnlyOneFetch
<1>2. /\ \A n \in ExeAt..Len(Entries) :
           Place(o, b, n) \in DOMAIN files => Place(o, b, ExeAt) \in DOMAIN files
      /\ Place(o, b, ExeAt) \in DOMAIN files =>
           IsWhole(o, b) \/ \E g \in Fetches : Writing(g) /\ FileAt(g, 1) = Place(o, b, 1)
  BY <1>1 DEF FetchInv, FolderInv
<1>3. CASE Writing(f) /\ FileAt(f, 1) = Place(o, b, 1)
  <2>1. /\ Folder(f) = FolderPath(o.platform, b) /\ \A n : FileAt(f, n) = Place(o, b, n)
        /\ Own(f) = ContentOf(o, b) /\ ContentOf(o, b) = ContentOf(options[f], build[f])
        /\ \A n : Place(options[f], build[f], n) = Place(o, b, n)
    BY <1>3, OwnPlace, SamePlace
  <2>2. GotSoFar(f) /\ FileAt(f, 1)' = FileAt(f, 1)
    BY <1>0, <1>1, <1>3, <2>1, PathsAreKept DEF Undisturbed, Writing, Fetching
  <2>3. Target(f, at[f]) = Place(o, b, at[f]) /\ at[f] \in 1..(Len(Entries) + 1)
    BY <1>0, <1>3, <2>1, <2>2, OwnPlace DEF GotSoFar, FetchTypes
  <2>4. CASE UNCHANGED files
    <3>1. Place(o, b, ExeAt) \in DOMAIN files =>
            Writing(f)' \/ IsWhole(options[f], build[f])
      BY <1>3, <2>1, WritersGoOn
    <3>2. IsWhole(options[f], build[f]) => IsWhole(o, b)'
      BY <2>1, <2>4 DEF IsWhole
    <3> QED BY <1>2, <1>3, <2>2, <2>4, <3>1, <3>2
  <2>5. CASE /\ Writing(f)' /\ at[f] <= Len(Entries) /\ DOMAIN files \subseteq DOMAIN files'
             /\ DOMAIN files' \subseteq DOMAIN files \cup {Target(f, at[f])}
    <3>1. ASSUME NEW n \in ExeAt..Len(Entries), Place(o, b, n) \in DOMAIN files'
          PROVE Place(o, b, ExeAt) \in DOMAIN files'
      <4>1. CASE Place(o, b, n) \in DOMAIN files
        BY <1>2, <2>5, <4>1
      <4>2. CASE Place(o, b, n) = Place(o, b, at[f])
        <5>1. n = at[f]
          BY <4>2, SamePlace
        <5>2. CASE n = ExeAt
          BY <3>1, <5>2
        <5>3. CASE n # ExeAt
          <6>1. ExeAt \in 1..(at[f] - 1)
            BY <1>0, <2>3, <5>1, <5>3
          <6> QED BY <1>3, <2>1, <2>2, <2>5, <6>1 DEF GotSoFar
        <5> QED BY <5>2, <5>3
      <4> QED BY <2>3, <2>5, <3>1, <4>1, <4>2
    <3> QED BY <1>3, <2>2, <2>5, <3>1
  <2> QED BY <1>0, <2>4, <2>5, FilesGrow
<1>4. CASE ~(Writing(f) /\ FileAt(f, 1) = Place(o, b, 1))
  <2>1. \A n : /\ Place(o, b, n) \in DOMAIN files' <=> Place(o, b, n) \in DOMAIN files
               /\ Place(o, b, n) \in DOMAIN files => files'[Place(o, b, n)] = files[Place(o, b, n)]
    BY <1>0, <1>1, <1>4, ElsewhereKept
  <2>2. IsWhole(o, b) => IsWhole(o, b)'
    BY <2>1 DEF IsWhole
  <2>3. \A g \in Fetches : Writing(g) /\ FileAt(g, 1) = Place(o, b, 1) =>
          Writing(g)' /\ FileAt(g, 1)' = Place(o, b, 1)
    <3> SUFFICES ASSUME NEW g \in Fetches, Writing(g), FileAt(g, 1) = Place(o, b, 1)
                 PROVE Writing(g)' /\ FileAt(g, 1)' = Place(o, b, 1)
      OBVIOUS
    <3>1. g # f
      BY <1>4
    <3> QED BY <1>0, <3>1, OnlyOneFetch, PathsAreKept DEF Writing
  <2> QED BY <1>2, <2>1, <2>2, <2>3
<1> QED BY <1>3, <1>4

LEMMA DoneStep ==
  ASSUME FetchInv, NEW f \in Fetches, FetchStep(f) PROVE DoneInv'
<1> SUFFICES ASSUME NEW h \in Fetches, fetch_stage'[h] = "done", Folder(h)' \notin disturbed'
             PROVE /\ IsWhole(options[h], build[h])'
                   /\ \A g \in Fetches : Fetching(g)' => FileAt(g, 1)' # FileAt(h, 1)'
  BY DEF DoneInv
<1>0. FetchTypes /\ Undisturbed /\ Apart /\ ExeAt \in 1..Len(Entries) /\ Len(Entries) \in Nat
  BY ExeIsThere DEF FetchInv
<1>1. h # f => fetch_stage[h] = "done"
  BY <1>0, OnlyOneFetch
<1>2. h = f => fetch_stage[f] \in {"local", "unpacking"} /\ (Local(f) \/ Finish(f))
  BY <1>0 DEF FetchTypes, To, FetchStep, ResolveVersion, Local, Download, DownloadFails,
              OpenArchive, Unpack, UnpackLink, Fill, Stop, Finish, CutShort
<1>3. /\ Folder(h)' = Folder(h) /\ Archive(h)' = Archive(h) /\ \A n : FileAt(h, n)' = FileAt(h, n)
      /\ options'[h] = options[h] /\ build'[h] = build[h]
      /\ Folder(h) \notin disturbed
  BY <1>0, <1>2, PathsAreKept, OnlyOneFetch
<1>4. \A g \in Fetches : Fetching(g)' => FileAt(g, 1)' = FileAt(g, 1)
  BY <1>0, WhoFetches, PathsAreKept
<1>5. \A g \in Fetches : FileAt(g, 1) = FileAt(h, 1) =>
        Folder(g) = Folder(h) /\ Archive(g) = Archive(h) /\ \A n : FileAt(g, n) = FileAt(h, n)
  BY OwnPlace, SamePlace
<1>6. /\ \A n : FileAt(h, n) = Place(options[h], build[h], n)
      /\ Folder(h) = FolderPath(options[h].platform, build[h])
  BY OwnPlace
<1>7. UNCHANGED files /\ IsWhole(options[h], build[h]) => IsWhole(options[h], build[h])'
  BY <1>3 DEF IsWhole
<1>8. CASE h = f /\ Finish(f)
  <2>1. GotSoFar(f) /\ Fetching(f) /\ Writing(f) /\ UNCHANGED files /\ at[f] > Len(Entries)
    BY <1>0, <1>3, <1>8 DEF Finish, Undisturbed, Fetching, Writing
  <2>2. IsWhole(options[h], build[h])
    <3>1. \A n \in 1..Len(Entries) : n \in 1..(at[f] - 1)
      BY <1>0, <2>1 DEF FetchTypes
    <3> QED BY <1>6, <1>8, <2>1, <3>1, OwnPlace DEF IsWhole, GotSoFar
  <2>3. \A g \in Fetches : Fetching(g)' => FileAt(g, 1) # FileAt(h, 1)
    <3> SUFFICES ASSUME NEW g \in Fetches, Fetching(g)', FileAt(g, 1) = FileAt(h, 1) PROVE FALSE
      OBVIOUS
    <3>1. g # f
      BY <1>8 DEF Fetching
    <3>2. Fetching(g)
      BY <1>0, <3>1, WhoFetches
    <3> QED BY <1>0, <1>3, <1>5, <1>8, <2>1, <3>1, <3>2 DEF Apart
  <2> QED BY <1>3, <1>4, <1>7, <2>1, <2>2, <2>3
<1>9. CASE h = f /\ Local(f)
  <2>1. /\ FileAt(f, ExeAt) \in DOMAIN files /\ UNCHANGED files /\ disturbed' = disturbed \cup Met(f)
        /\ build[f] \in Resolve(options[f].kind, options[f].version) /\ options[f] \in Options
        /\ ArchiveBusy(f)
    BY <1>0, <1>9 DEF Local, To, FetchTypes, ArchiveBusy
  <2>2. \A g \in Fetches : g # f /\ ArchiveBusy(g) => Archive(g) # Archive(f)
    BY <1>0, <1>3, <1>9, <2>1, TheyMeet
  <2>3. \A g \in Fetches : Writing(g) => FileAt(g, 1) # FileAt(h, 1)
    BY <1>5, <1>9, <2>2 DEF Writing, ArchiveBusy, Local
  <2>4. IsWhole(options[h], build[h])
    BY <1>3, <1>6, <1>9, <2>1, <2>3 DEF FetchInv, FolderInv
  <2>5. \A g \in Fetches : Fetching(g)' => FileAt(g, 1) # FileAt(h, 1)
    <3> SUFFICES ASSUME NEW g \in Fetches, Fetching(g)' PROVE FileAt(g, 1) # FileAt(h, 1)
      OBVIOUS
    <3>1. g # f /\ ArchiveBusy(g)
      BY <1>0, <1>9, WhoFetches DEF Fetching
    <3> QED BY <1>5, <1>9, <2>2, <3>1
  <2> QED BY <1>3, <1>4, <1>7, <2>1, <2>4, <2>5
<1>10. CASE h # f
  <2>1. /\ IsWhole(options[h], build[h])
        /\ \A g \in Fetches : Fetching(g) => FileAt(g, 1) # FileAt(h, 1)
    BY <1>1, <1>3, <1>10 DEF FetchInv, DoneInv
  <2>2. IsWhole(options[h], build[h])'
    <3>1. Writing(f) => FileAt(f, 1) # Place(options[h], build[h], 1)
      BY <1>6, <2>1 DEF Writing, Fetching
    <3>2. \A n : /\ Place(options[h], build[h], n) \in DOMAIN files' <=>
                      Place(options[h], build[h], n) \in DOMAIN files
                 /\ Place(options[h], build[h], n) \in DOMAIN files =>
                      files'[Place(options[h], build[h], n)] = files[Place(options[h], build[h], n)]
      BY <1>0, <1>3, <1>6, <3>1, ElsewhereKept
    <3> QED BY <1>3, <2>1, <3>2 DEF IsWhole
  <2>3. \A g \in Fetches : Fetching(g)' => FileAt(g, 1) # FileAt(h, 1)
    <3> SUFFICES ASSUME NEW g \in Fetches, Fetching(g)', FileAt(g, 1) = FileAt(h, 1) PROVE FALSE
      OBVIOUS
    <3>1. g = f /\ Local(f) /\ fetch_stage'[f] = "downloading"
      BY <1>0, <2>1, WhoFetches
    <3>2. FileAt(f, ExeAt) \notin DOMAIN files
      BY <1>0, <3>1 DEF Local, To, FetchTypes
    <3>3. FileAt(h, ExeAt) \in DOMAIN files
      BY <1>0, <1>6, <2>1 DEF IsWhole
    <3> QED BY <1>5, <3>1, <3>2, <3>3
  <2> QED BY <1>3, <1>4, <2>2, <2>3
<1> QED BY <1>2, <1>8, <1>9, <1>10

LEMMA InitFetchInv == FetchInit => FetchInv
<1> SUFFICES ASSUME FetchInit PROVE FetchInv
  OBVIOUS
<1>1. FetchTypes
  BY ExeIsThere DEF FetchInit, FetchTypes, Stages
<1>2. Apart /\ Undisturbed /\ DoneInv
  BY DEF FetchInit, Apart, Undisturbed, DoneInv, Fetching
<1>3. DOMAIN files = {}
  BY DEF FetchInit
<1>4. FolderInv
  BY <1>3 DEF FolderInv
<1> QED BY <1>1, <1>2, <1>4 DEF FetchInv

LEMMA NextFetchInv == FetchInv /\ [FetchNext]_fetchVars => FetchInv'
<1> SUFFICES ASSUME FetchInv, [FetchNext]_fetchVars PROVE FetchInv'
  OBVIOUS
<1>1. ASSUME NEW f \in Fetches, FetchStep(f) PROVE FetchInv'
  <2>1. FetchTypes /\ Apart
    BY DEF FetchInv
  <2>2. Undisturbed'
    <3> SUFFICES ASSUME NEW g \in Fetches, Fetching(g)', Folder(g)' \notin disturbed'
                 PROVE GotSoFar(g)'
      BY DEF Undisturbed
    <3> QED BY <1>1, OthersKeepTheirs, OneKeepsItsOwn
  <2>3. FetchTypes' /\ Apart'
    BY <1>1, <2>1, TypesStep, ApartStep
  <2>4. FolderInv' /\ DoneInv'
    BY <1>1, FolderStep, DoneStep
  <2> QED BY <2>2, <2>3, <2>4 DEF FetchInv
<1>2. CASE UNCHANGED fetchVars
  BY <1>2 DEF fetchVars, cacheVars, FetchInv, FetchTypes, Apart, Undisturbed, FolderInv, DoneInv,
              GotSoFar, Fetching, Writing, Folder, Archive, Own, FileAt, IsWhole
<1> QED BY <1>1, <1>2 DEF FetchNext, FetchStep

\* The types of the fetches and of the archives in the cache.
THEOREM FetchesAreTyped == FetchSpec => []FetchTypeOK
<1>1. FetchInv => FetchTypeOK
  BY DEF FetchInv, FetchTypes, FetchTypeOK
<1> QED BY <1>1, InitFetchInv, NextFetchInv, PTL DEF FetchSpec

\* For every set of fetches, options and releases and every archive with an executable in
\* it: a fetch that ends well has the whole of the very build it asked for, unless others
\* used its archive path at the same time, or an unpacking failed or was killed after it
\* had created the executable.
THEOREM FetchedIsWhole == FetchSpec => []InstallationIsWhole
<1>1. FetchInv => InstallationIsWhole
  BY OwnPlace DEF FetchInv, DoneInv, IsWhole, InstallationIsWhole
<1> QED BY <1>1, InitFetchInv, NextFetchInv, PTL DEF FetchSpec

-----------------------------------------------------------------------------
(* The command line *)

\* Induction over the numbers: a number outside S would have a least one beside it.
LEMMA SetInduction ==
  ASSUME NEW S, 0 \in S, \A n \in Nat : n \in S => n + 1 \in S
  PROVE  Nat \subseteq S
<1> DEFINE T == {n \in Nat : n \notin S}
           R == OpToRel(<, Nat)
<1> SUFFICES ASSUME T # {} PROVE FALSE
  OBVIOUS
<1>1. IsWellFoundedOn(R, Nat)
  BY NatLessThanWellFounded
<1>2. T \subseteq Nat
  OBVIOUS
<1> HIDE DEF R, T
<1>3. \E x \in T : \A y \in T : <<y, x>> \notin R
  BY <1>1, <1>2, WFMin
<1>4. PICK x \in T : \A y \in T : <<y, x>> \notin R
  BY <1>3
<1>5. x \in Nat /\ x \notin S /\ x # 0
  BY DEF T
<1>6. x - 1 \in Nat /\ x - 1 \notin S
  BY <1>5
<1>7. <<x - 1, x>> \in R
  BY <1>5, <1>6 DEF R, OpToRel
<1> QED BY <1>4, <1>6, <1>7 DEF T

\* The maps between, one for each argument.
AddsUp(g, map, list) ==
  /\ g[0] = map
  /\ \A n \in 1..Len(list) : g[n] = AddArg(g[n - 1], list[n])

GrowsTo(g, map, list, k) ==
  g = [n \in 0..k |-> IF n = 0 THEN map ELSE AddArg(g[n - 1], list[n])]

LEMMA AddArgsAddsUp ==
  ASSUME NEW map, NEW list, Len(list) \in Nat
  PROVE  \E g : AddsUp(g, map, list) /\ AddArgs(map, list) = g[Len(list)]
<1> DEFINE S == {k \in Nat : \E g : GrowsTo(g, map, list, k)}
<1>1. 0 \in S
  <2> DEFINE g == [n \in 0..0 |-> map]
  <2>1. GrowsTo(g, map, list, 0)
    BY DEF GrowsTo
  <2> QED BY <2>1
<1>2. ASSUME NEW k \in Nat, k \in S PROVE k + 1 \in S
  <2>1. PICK g : GrowsTo(g, map, list, k)
    BY <1>2
  <2> DEFINE h == [n \in 0..(k + 1) |-> IF n <= k THEN g[n] ELSE AddArg(g[k], list[k + 1])]
  <2>2. \A n \in 0..k : h[n] = g[n] /\ g[n] = IF n = 0 THEN map ELSE AddArg(g[n - 1], list[n])
    BY <2>1 DEF GrowsTo
  <2>3. \A n \in 0..(k + 1) : h[n] = IF n = 0 THEN map ELSE AddArg(h[n - 1], list[n])
    <3> TAKE n \in 0..(k + 1)
    <3>1. CASE n = 0
      <4>1. n \in 0..k
        BY <3>1
      <4> HIDE DEF h
      <4> QED BY <2>2, <3>1, <4>1
    <3>2. CASE n \in 1..k
      <4>1. n - 1 \in 0..k /\ n \in 0..k
        BY <3>2
      <4> HIDE DEF h
      <4> QED BY <2>2, <3>2, <4>1
    <3>3. CASE n = k + 1
      <4>1. h[n] = AddArg(g[k], list[k + 1]) /\ n - 1 = k /\ k \in 0..k
        BY <3>3
      <4> HIDE DEF h
      <4> QED BY <2>2, <3>3, <4>1
    <3> QED BY <3>1, <3>2, <3>3
  <2>4. h = [n \in 0..(k + 1) |-> h[n]]
    OBVIOUS
  <2> HIDE DEF h
  <2>5. GrowsTo(h, map, list, k + 1)
    BY <2>3, <2>4 DEF GrowsTo
  <2> QED BY <2>5
<1> HIDE DEF S
<1>3. Len(list) \in S
  BY <1>1, <1>2, SetInduction
<1> DEFINE c == CHOOSE g : GrowsTo(g, map, list, Len(list))
<1>4. GrowsTo(c, map, list, Len(list))
  BY <1>3 DEF S
<1>5. AddArgs(map, list) = c[Len(list)]
  BY DEF AddArgs, GrowsTo
<1> HIDE DEF c
<1>6. AddsUp(c, map, list)
  BY <1>4 DEF AddsUp, GrowsTo
<1> QED BY <1>5, <1>6

LEMMA AddsUpOnce ==
  ASSUME NEW map, NEW list, Len(list) \in Nat, NEW g, NEW h,
         AddsUp(g, map, list), AddsUp(h, map, list)
  PROVE  g[Len(list)] = h[Len(list)]
<1> DEFINE S == {k \in Nat : k <= Len(list) => g[k] = h[k]}
<1>1. 0 \in S
  BY DEF AddsUp
<1>2. ASSUME NEW k \in Nat, k \in S PROVE k + 1 \in S
  <2>1. SUFFICES ASSUME k + 1 <= Len(list) PROVE g[k + 1] = h[k + 1]
    OBVIOUS
  <2>2. k + 1 \in 1..Len(list) /\ (k + 1) - 1 = k /\ g[k] = h[k]
    BY <1>2, <2>1
  <2> QED BY <2>2 DEF AddsUp
<1> HIDE DEF S
<1>3. Len(list) \in S
  BY <1>1, <1>2, SetInduction
<1> QED BY <1>3 DEF S

\* Any fold gives the map of the arguments.
LEMMA AddArgsIsLast ==
  ASSUME NEW map, NEW list, Len(list) \in Nat, NEW g, AddsUp(g, map, list)
  PROVE  AddArgs(map, list) = g[Len(list)]
BY AddArgsAddsUp, AddsUpOnce

LEMMA AddNothing ==
  ASSUME NEW map PROVE AddArgs(map, <<>>) = map
<1> DEFINE g == [n \in {0} |-> map]
<1>1. AddsUp(g, map, <<>>) /\ g[Len(<<>>)] = map /\ Len(<<>>) \in Nat
  BY DEF AddsUp
<1> HIDE DEF g
<1> QED BY <1>1, AddArgsIsLast

LEMMA AddInTwo ==
  ASSUME NEW map, NEW X, NEW s \in Seq(X), NEW t \in Seq(X)
  PROVE  AddArgs(map, s \o t) = AddArgs(AddArgs(map, s), t)
<1>1. PICK g : AddsUp(g, map, s \o t) /\ AddArgs(map, s \o t) = g[Len(s \o t)]
  <2>1. Len(s \o t) \in Nat
    OBVIOUS
  <2> QED BY <2>1, AddArgsAddsUp
<1>2. Len(s) \in Nat /\ Len(t) \in Nat /\ Len(s \o t) = Len(s) + Len(t)
  OBVIOUS
<1>3. \A n \in 1..Len(s) : (s \o t)[n] = s[n]
  OBVIOUS
<1>4. \A n \in 1..Len(t) : (s \o t)[Len(s) + n] = t[n]
  OBVIOUS
<1>5. AddsUp(g, map, s)
  BY <1>1, <1>2, <1>3 DEF AddsUp
<1> DEFINE h == [n \in 0..Len(t) |-> g[Len(s) + n]]
<1>6. \A n \in 0..Len(t) : h[n] = g[Len(s) + n]
  OBVIOUS
<1> HIDE DEF h
<1>7. AddsUp(h, g[Len(s)], t)
  <2>1. h[0] = g[Len(s)]
    BY <1>2, <1>6
  <2>2. ASSUME NEW n \in 1..Len(t) PROVE h[n] = AddArg(h[n - 1], t[n])
    <3>1. Len(s) + n \in 1..Len(s \o t) /\ n \in 0..Len(t) /\ n - 1 \in 0..Len(t)
          /\ Len(s) + (n - 1) = (Len(s) + n) - 1
      BY <1>2
    <3>2. g[Len(s) + n] = AddArg(g[(Len(s) + n) - 1], t[n])
      BY <1>1, <1>4, <3>1 DEF AddsUp
    <3> QED BY <1>6, <3>1, <3>2
  <2> QED BY <2>1, <2>2 DEF AddsUp
<1>8. AddArgs(map, s) = g[Len(s)]
  BY <1>2, <1>5, AddArgsIsLast
<1>9. AddArgs(g[Len(s)], t) = h[Len(t)]
  BY <1>2, <1>7, AddArgsIsLast
<1>10. h[Len(t)] = g[Len(s \o t)]
  BY <1>2, <1>6
<1> QED BY <1>1, <1>8, <1>9, <1>10

-----------------------------------------------------------------------------
\* The strings that occur.
Words == STRING \cup
  {"no-first-run", "disable-features", "TranslateUI", "force-webrtc-ip-handling-policy",
   "disable_non_proxied_udp", "remote-debugging-port", "0", "disable-extensions",
   "load-extension", "folder", "user-data-dir", "shared temp dir", "own", "window-size",
   "800", "600", "no-sandbox", "disable-setuid-sandbox", "headless", "new", "mute-audio",
   "incognito", "disable-blink-features", "AutomationControlled", "HttpsUpgrades"}
CommandArg == [key : Words, values : Seq(Words)]

IsMap(map) == \A k \in DOMAIN map : map[k] \in Seq(Words)
KeysOf(list) == {list[n].key : n \in 1..Len(list)}

LEMMA AddOne ==
  ASSUME NEW map, IsMap(map), NEW arg \in CommandArg
  PROVE  /\ IsMap(AddArg(map, arg))
         /\ DOMAIN AddArg(map, arg) = DOMAIN map \cup {arg.key}
         /\ Values(map, arg.key) \in Seq(Words)
         /\ Values(AddArg(map, arg), arg.key) = Values(map, arg.key) \o arg.values
         /\ \A key : key # arg.key => Values(AddArg(map, arg), key) = Values(map, key)
<1>1. arg.values \in Seq(Words)
  BY DEF CommandArg
<1>2. Values(map, arg.key) \in Seq(Words)
  BY DEF IsMap, Values, Has
<1> DEFINE all == Values(map, arg.key) \o arg.values
<1>3. all \in Seq(Words)
  BY <1>1, <1>2
<1>4. AddArg(map, arg) =
        [k \in DOMAIN map \cup {arg.key} |-> IF k = arg.key THEN all ELSE map[k]]
  BY DEF AddArg
<1> HIDE DEF all
<1>5. IsMap(AddArg(map, arg))
  BY <1>3, <1>4 DEF IsMap
<1>6. Values(AddArg(map, arg), arg.key) = all
  BY <1>4 DEF Values, Has
<1>7. ASSUME NEW key, key # arg.key PROVE Values(AddArg(map, arg), key) = Values(map, key)
  BY <1>4, <1>7 DEF Values, Has
<1> QED BY <1>2, <1>4, <1>5, <1>6, <1>7 DEF all

LEMMA AddOther ==
  ASSUME NEW map, IsMap(map), NEW arg \in CommandArg, NEW key, key # arg.key
  PROVE  Values(AddArg(map, arg), key) = Values(map, key)
BY AddOne

\* A step of the fold.
LEMMA AddsOne ==
  ASSUME NEW map, IsMap(map), NEW list \in Seq(CommandArg), NEW g, AddsUp(g, map, list),
         NEW k \in Nat, k + 1 <= Len(list), IsMap(g[k])
  PROVE  /\ list[k + 1] \in CommandArg
         /\ g[k + 1] = AddArg(g[k], list[k + 1])
<1>1. k + 1 \in 1..Len(list) /\ (k + 1) - 1 = k
  OBVIOUS
<1> QED BY <1>1 DEF AddsUp

LEMMA LengthOfTwo ==
  ASSUME NEW s \in Seq(Words), NEW t \in Seq(Words)
  PROVE  Len(s \o t) = Len(s) + Len(t)
OBVIOUS

LEMMA InTwo ==
  ASSUME NEW s \in Seq(Words), NEW t \in Seq(Words)
  PROVE  ToSet(s) \subseteq ToSet(s \o t) /\ ToSet(t) \subseteq ToSet(s \o t)
<1>1. \A n \in DOMAIN s : n \in DOMAIN (s \o t) /\ (s \o t)[n] = s[n]
  OBVIOUS
<1>2. \A n \in DOMAIN t :
        Len(s) + n \in DOMAIN (s \o t) /\ (s \o t)[Len(s) + n] = t[n]
  OBVIOUS
<1> QED BY <1>1, <1>2 DEF ToSet

LEMMA OnlyInTwo ==
  ASSUME NEW s \in Seq(Words), NEW t \in Seq(Words), NEW v \in ToSet(s \o t)
  PROVE  v \in ToSet(s) \/ v \in ToSet(t)
<1>1. PICK n \in DOMAIN (s \o t) : (s \o t)[n] = v
  BY DEF ToSet
<1>2. CASE n \in DOMAIN s
  <2>1. (s \o t)[n] = s[n]
    BY <1>2
  <2> QED BY <1>1, <1>2, <2>1 DEF ToSet
<1>3. CASE n \notin DOMAIN s
  <2>1. n - Len(s) \in DOMAIN t /\ (s \o t)[n] = t[n - Len(s)]
    BY <1>3
  <2> QED BY <1>1, <2>1 DEF ToSet
<1> QED BY <1>2, <1>3

\* A map has the switches it had and those of the arguments.
LEMMA AddArgsTyped ==
  ASSUME NEW map, IsMap(map), NEW list \in Seq(CommandArg), NEW g, AddsUp(g, map, list)
  PROVE  \A k \in 0..Len(list) :
           /\ IsMap(g[k])
           /\ DOMAIN g[k] = DOMAIN map \cup {list[n].key : n \in 1..k}
<1> DEFINE Fine(k) == IsMap(g[k]) /\ DOMAIN g[k] = DOMAIN map \cup {list[n].key : n \in 1..k}
           S == {k \in Nat : k <= Len(list) => Fine(k)}
<1>1. 0 \in S
  <2>1. 1..0 = {}
    OBVIOUS
  <2> QED BY <2>1 DEF AddsUp
<1>2. ASSUME NEW k \in Nat, k \in S PROVE k + 1 \in S
  <2>1. SUFFICES ASSUME k + 1 <= Len(list) PROVE Fine(k + 1)
    OBVIOUS
  <2>2. k + 1 \in 1..Len(list) /\ Fine(k) /\ (k + 1) - 1 = k
    BY <1>2, <2>1
  <2>3. list[k + 1] \in CommandArg /\ g[k + 1] = AddArg(g[k], list[k + 1])
    BY <2>2 DEF AddsUp
  <2>4. IsMap(g[k + 1]) /\ DOMAIN g[k + 1] = DOMAIN g[k] \cup {list[k + 1].key}
    BY <2>2, <2>3, AddOne
  <2>5. 1..(k + 1) = 1..k \cup {k + 1}
    OBVIOUS
  <2>6. {list[n].key : n \in 1..(k + 1)} = {list[n].key : n \in 1..k} \cup {list[k + 1].key}
    BY <2>5
  <2> QED BY <2>2, <2>4, <2>6
<1> HIDE DEF S
<1>3. Nat \subseteq S
  BY <1>1, <1>2, SetInduction
<1> QED BY <1>3 DEF S

LEMMA AddArgsDomain ==
  ASSUME NEW map, IsMap(map), NEW list \in Seq(CommandArg)
  PROVE  /\ IsMap(AddArgs(map, list))
         /\ DOMAIN AddArgs(map, list) = DOMAIN map \cup KeysOf(list)
<1>1. Len(list) \in Nat
  OBVIOUS
<1>2. PICK g : AddsUp(g, map, list) /\ AddArgs(map, list) = g[Len(list)]
  BY <1>1, AddArgsAddsUp
<1>3. Len(list) \in 0..Len(list)
  BY <1>1
<1> QED BY <1>2, <1>3, AddArgsTyped DEF KeysOf

\* The values of a switch that no argument names stay; those of another are kept, and
\* the values of its arguments added.
LEMMA NothingIsLost ==
  ASSUME NEW map, IsMap(map), NEW list \in Seq(CommandArg)
  PROVE  /\ \A key : ToSet(Values(map, key)) \subseteq ToSet(Values(AddArgs(map, list), key))
         /\ \A n \in 1..Len(list) :
              ToSet(list[n].values) \subseteq ToSet(Values(AddArgs(map, list), list[n].key))
<1>1. Len(list) \in Nat
  OBVIOUS
<1>2. PICK g : AddsUp(g, map, list) /\ AddArgs(map, list) = g[Len(list)]
  BY <1>1, AddArgsAddsUp
<1> DEFINE Fine(k) ==
             /\ \A key : ToSet(Values(map, key)) \subseteq ToSet(Values(g[k], key))
             /\ \A n \in 1..k : ToSet(list[n].values) \subseteq ToSet(Values(g[k], list[n].key))
           S == {k \in Nat : k <= Len(list) => Fine(k)}
<1>3. 0 \in S
  <2>1. g[0] = map
    BY <1>2 DEF AddsUp
  <2>2. 1..0 = {}
    OBVIOUS
  <2> QED BY <2>1, <2>2
<1>4. ASSUME NEW k \in Nat, k \in S PROVE k + 1 \in S
  <2>1. SUFFICES ASSUME k + 1 <= Len(list) PROVE Fine(k + 1)
    <3> HIDE DEF Fine
    <3> QED OBVIOUS
  <2> DEFINE arg == list[k + 1]
  <2>2. k + 1 \in 1..Len(list) /\ Fine(k) /\ (k + 1) - 1 = k
    BY <1>4, <2>1
  <2>3. arg \in CommandArg /\ g[k + 1] = AddArg(g[k], arg) /\ IsMap(g[k])
    <3>1. k \in 0..Len(list)
      BY <1>1, <2>1
    <3>2. IsMap(g[k])
      BY <1>2, <3>1, AddArgsTyped
    <3> QED BY <1>2, <2>1, <3>2, AddsOne
  <2>4. arg.values \in Seq(Words)
    BY <2>3 DEF CommandArg
  <2> HIDE DEF arg
  <2>5. ASSUME NEW key
        PROVE  ToSet(Values(g[k], key)) \subseteq ToSet(Values(g[k + 1], key))
    <3>1. CASE key # arg.key
      BY <2>3, <3>1, AddOne
    <3>2. CASE key = arg.key
      <4>1. Values(g[k], key) \in Seq(Words) /\ Values(g[k + 1], key) = Values(g[k], key) \o arg.values
        BY <2>3, <3>2, AddOne
      <4> QED BY <2>4, <4>1, InTwo
    <3> QED BY <3>1, <3>2
  <2>6. ToSet(arg.values) \subseteq ToSet(Values(g[k + 1], arg.key))
    <3>1. Values(g[k], arg.key) \in Seq(Words)
          /\ Values(g[k + 1], arg.key) = Values(g[k], arg.key) \o arg.values
      BY <2>3, AddOne
    <3> QED BY <2>4, <3>1, InTwo
  <2>7. ASSUME NEW n \in 1..(k + 1)
        PROVE  ToSet(list[n].values) \subseteq ToSet(Values(g[k + 1], list[n].key))
    <3>1. n \in 1..k \/ n = k + 1
      OBVIOUS
    <3> QED BY <2>2, <2>5, <2>6, <3>1 DEF arg
  <2>8. \A key : ToSet(Values(map, key)) \subseteq ToSet(Values(g[k + 1], key))
    BY <2>2, <2>5
  <2> QED BY <2>7, <2>8
<1> HIDE DEF S
<1>5. Len(list) \in S
  BY <1>1, <1>3, <1>4, SetInduction
<1> QED BY <1>1, <1>2, <1>5 DEF S

\* A value of a switch was there or is one of an argument that names it.
LEMMA NothingIsInvented ==
  ASSUME NEW map, IsMap(map), NEW list \in Seq(CommandArg), NEW key,
         NEW v \in ToSet(Values(AddArgs(map, list), key))
  PROVE  \/ v \in ToSet(Values(map, key))
         \/ \E n \in 1..Len(list) : list[n].key = key /\ v \in ToSet(list[n].values)
<1>1. Len(list) \in Nat
  OBVIOUS
<1>2. PICK g : AddsUp(g, map, list) /\ AddArgs(map, list) = g[Len(list)]
  BY <1>1, AddArgsAddsUp
<1> DEFINE Said(k) == \/ v \in ToSet(Values(map, key))
                      \/ \E n \in 1..k : list[n].key = key /\ v \in ToSet(list[n].values)
           S == {k \in Nat : k <= Len(list) /\ v \in ToSet(Values(g[k], key)) => Said(k)}
<1>3. 0 \in S
  <2>1. g[0] = map
    BY <1>2 DEF AddsUp
  <2> QED BY <2>1
<1>4. ASSUME NEW k \in Nat, k \in S PROVE k + 1 \in S
  <2>1. SUFFICES ASSUME k + 1 <= Len(list), v \in ToSet(Values(g[k + 1], key)) PROVE Said(k + 1)
    <3> HIDE DEF Said
    <3> QED OBVIOUS
  <2> DEFINE arg == list[k + 1]
  <2>2. v \in ToSet(Values(g[k], key)) => Said(k)
    BY <1>4, <2>1
  <2>3. arg \in CommandArg /\ g[k + 1] = AddArg(g[k], arg) /\ IsMap(g[k])
    <3>1. k \in 0..Len(list)
      BY <1>1, <2>1
    <3>2. IsMap(g[k])
      BY <1>2, <3>1, AddArgsTyped
    <3> QED BY <1>2, <2>1, <3>2, AddsOne
  <2>4. arg.values \in Seq(Words)
    BY <2>3 DEF CommandArg
  <2> HIDE DEF arg
  <2>5. v \in ToSet(Values(g[k], key)) \/ (key = arg.key /\ v \in ToSet(arg.values))
    <3>1. CASE key # arg.key
      <4>1. Values(g[k + 1], key) = Values(g[k], key)
        BY <2>3, <3>1, AddOther
      <4> QED BY <2>1, <4>1
    <3>2. CASE key = arg.key
      <4>1. Values(g[k], key) \in Seq(Words) /\ Values(g[k + 1], key) = Values(g[k], key) \o arg.values
        BY <2>3, <3>2, AddOne
      <4> QED BY <2>1, <2>4, <3>2, <4>1, OnlyInTwo
    <3> QED BY <3>1, <3>2
  <2>6. 1..k \subseteq 1..(k + 1) /\ k + 1 \in 1..(k + 1)
    OBVIOUS
  <2> QED BY <2>2, <2>5, <2>6 DEF arg
<1> HIDE DEF S
<1>5. Len(list) \in S
  BY <1>1, <1>3, <1>4, SetInduction
<1> QED BY <1>1, <1>2, <1>5 DEF S

\* Where one argument only names a switch, its values are added.
LEMMA OnlyOneAdds ==
  ASSUME NEW map, IsMap(map), NEW list \in Seq(CommandArg), NEW one \in 1..Len(list),
         \A n \in 1..Len(list) : list[n].key = list[one].key => n = one
  PROVE  Values(AddArgs(map, list), list[one].key) = Values(map, list[one].key) \o list[one].values
<1>1. Len(list) \in Nat
  OBVIOUS
<1>2. PICK g : AddsUp(g, map, list) /\ AddArgs(map, list) = g[Len(list)]
  BY <1>1, AddArgsAddsUp
<1> DEFINE key == list[one].key
           Fine(k) == Values(g[k], key) = IF k < one THEN Values(map, key)
                                          ELSE Values(map, key) \o list[one].values
           S == {k \in Nat : k <= Len(list) => Fine(k)}
<1>3. 0 \in S
  BY <1>2 DEF AddsUp
<1>4. ASSUME NEW k \in Nat, k \in S PROVE k + 1 \in S
  <2>1. SUFFICES ASSUME k + 1 <= Len(list) PROVE Fine(k + 1)
    OBVIOUS
  <2>2. k + 1 \in 1..Len(list) /\ Fine(k) /\ (k + 1) - 1 = k
    BY <1>4, <2>1
  <2>3. list[k + 1] \in CommandArg /\ g[k + 1] = AddArg(g[k], list[k + 1]) /\ IsMap(g[k])
    <3>1. k \in 0..Len(list)
      BY <1>1, <2>1
    <3>2. IsMap(g[k])
      BY <1>2, <3>1, AddArgsTyped
    <3> QED BY <1>2, <2>1, <3>2, AddsOne
  <2>4. CASE k + 1 = one
    <3>1. Values(g[k + 1], key) = Values(g[k], key) \o list[one].values
      BY <2>3, <2>4, AddOne
    <3>2. k < one /\ ~(k + 1 < one)
      BY <2>4
    <3> HIDE DEF key
    <3> QED BY <2>2, <3>1, <3>2
  <2>5. CASE k + 1 # one
    <3>1. list[k + 1].key # key
      BY <2>2, <2>5
    <3>2. Values(g[k + 1], key) = Values(g[k], key)
      <4> HIDE DEF key
      <4> QED BY <2>3, <3>1, AddOther
    <3>3. k < one <=> k + 1 < one
      BY <2>5
    <3> QED BY <2>2, <3>2, <3>3
  <2> QED BY <2>4, <2>5
<1> HIDE DEF S
<1>5. Len(list) \in S
  BY <1>1, <1>3, <1>4, SetInduction
<1>6. Fine(Len(list)) /\ ~(Len(list) < one)
  BY <1>1, <1>5 DEF S
<1> QED BY <1>2, <1>6

\* The values of a switch that no argument names stay.
LEMMA OthersStay ==
  ASSUME NEW map, IsMap(map), NEW list \in Seq(CommandArg), NEW key, key \notin KeysOf(list)
  PROVE  Values(AddArgs(map, list), key) = Values(map, key)
<1>1. Len(list) \in Nat
  OBVIOUS
<1>2. PICK g : AddsUp(g, map, list) /\ AddArgs(map, list) = g[Len(list)]
  BY <1>1, AddArgsAddsUp
<1> DEFINE S == {k \in Nat : k <= Len(list) => Values(g[k], key) = Values(map, key)}
<1>3. 0 \in S
  BY <1>2 DEF AddsUp
<1>4. ASSUME NEW k \in Nat, k \in S PROVE k + 1 \in S
  <2>1. SUFFICES ASSUME k + 1 <= Len(list) PROVE Values(g[k + 1], key) = Values(map, key)
    OBVIOUS
  <2>2. k + 1 \in 1..Len(list) /\ (k + 1) - 1 = k /\ Values(g[k], key) = Values(map, key)
    BY <1>4, <2>1
  <2>3. list[k + 1] \in CommandArg /\ g[k + 1] = AddArg(g[k], list[k + 1]) /\ IsMap(g[k])
    <3>1. k \in 0..Len(list)
      BY <1>1, <2>1
    <3>2. IsMap(g[k])
      BY <1>2, <3>1, AddArgsTyped
    <3> QED BY <1>2, <2>1, <3>2, AddsOne
  <2>4. list[k + 1].key # key
    BY <2>2 DEF KeysOf
  <2>5. Values(AddArg(g[k], list[k + 1]), key) = Values(g[k], key)
    BY <2>3, <2>4, AddOther
  <2> QED BY <2>2, <2>3, <2>5
<1> HIDE DEF S
<1>5. Len(list) \in S
  BY <1>1, <1>3, <1>4, SetInduction
<1> QED BY <1>1, <1>2, <1>5 DEF S

\* Arguments of one value for one switch add as many values as they are.
LEMMA EachAddsOne ==
  ASSUME NEW map, IsMap(map), NEW list \in Seq(CommandArg), NEW key,
         \A n \in 1..Len(list) : list[n].key = key /\ Len(list[n].values) = 1
  PROVE  Len(Values(AddArgs(map, list), key)) = Len(Values(map, key)) + Len(list)
<1>1. Len(list) \in Nat
  OBVIOUS
<1>2. PICK g : AddsUp(g, map, list) /\ AddArgs(map, list) = g[Len(list)]
  BY <1>1, AddArgsAddsUp
<1>3. Values(map, key) \in Seq(Words)
  BY DEF IsMap, Values, Has
<1> DEFINE Fine(k) == Len(Values(g[k], key)) = Len(Values(map, key)) + k
           S == {k \in Nat : k <= Len(list) => Fine(k)}
<1>4. 0 \in S
  BY <1>2, <1>3 DEF AddsUp
<1>5. ASSUME NEW k \in Nat, k \in S PROVE k + 1 \in S
  <2>1. SUFFICES ASSUME k + 1 <= Len(list) PROVE Fine(k + 1)
    OBVIOUS
  <2>2. k + 1 \in 1..Len(list) /\ (k + 1) - 1 = k /\ Fine(k)
    BY <1>5, <2>1
  <2>3. list[k + 1] \in CommandArg /\ g[k + 1] = AddArg(g[k], list[k + 1]) /\ IsMap(g[k])
    <3>1. k \in 0..Len(list)
      BY <1>1, <2>1
    <3>2. IsMap(g[k])
      BY <1>2, <3>1, AddArgsTyped
    <3> QED BY <1>2, <2>1, <3>2, AddsOne
  <2>4. /\ Values(g[k], key) \in Seq(Words)
        /\ Values(g[k + 1], key) = Values(g[k], key) \o list[k + 1].values
    BY <2>2, <2>3, AddOne
  <2>5. list[k + 1].values \in Seq(Words) /\ Len(list[k + 1].values) = 1
    BY <2>2, <2>3 DEF CommandArg
  <2>6. Len(Values(g[k + 1], key)) = Len(Values(g[k], key)) + 1
    BY <2>4, <2>5, LengthOfTwo
  <2> QED BY <1>3, <2>2, <2>6
<1> HIDE DEF S
<1>6. Len(list) \in S
  BY <1>1, <1>4, <1>5, SetInduction
<1> QED BY <1>1, <1>2, <1>6 DEF S

LEMMA AddArgumentsInTwo ==
  ASSUME NEW map, NEW s \in Seq(CommandArg), NEW t \in Seq(CommandArg)
  PROVE  AddArgs(map, s \o t) = AddArgs(AddArgs(map, s), t)
BY AddInTwo

LEMMA AddOneInList ==
  ASSUME NEW map, NEW arg PROVE AddArgs(map, <<arg>>) = AddArg(map, arg)
<1> DEFINE g == [n \in 0..1 |-> IF n = 0 THEN map ELSE AddArg(map, arg)]
<1>1. g[0] = map /\ g[1] = AddArg(map, arg)
  OBVIOUS
<1> HIDE DEF g
<1>2. Len(<<arg>>) = 1 /\ <<arg>>[1] = arg /\ \A n \in 1..1 : n = 1 /\ n - 1 = 0
  OBVIOUS
<1>3. AddsUp(g, map, <<arg>>)
  <2>1. ASSUME NEW n \in 1..Len(<<arg>>) PROVE g[n] = AddArg(g[n - 1], <<arg>>[n])
    BY <1>1, <1>2
  <2> QED BY <1>1, <2>1 DEF AddsUp
<1> QED BY <1>1, <1>2, <1>3, AddArgsIsLast

\* Arguments of other switches, at the end, make no difference to a switch.
LEMMA OthersAtTheEnd ==
  ASSUME NEW map, IsMap(map), NEW s \in Seq(CommandArg), NEW t \in Seq(CommandArg),
         NEW key, key \notin KeysOf(t)
  PROVE  /\ s \o t \in Seq(CommandArg)
         /\ Values(AddArgs(map, s \o t), key) = Values(AddArgs(map, s), key)
         /\ Has(AddArgs(map, s \o t), key) <=> Has(AddArgs(map, s), key)
<1>1. s \o t \in Seq(CommandArg)
  OBVIOUS
<1>2. AddArgs(map, s \o t) = AddArgs(AddArgs(map, s), t)
  BY AddInTwo
<1>3. IsMap(AddArgs(map, s))
  BY AddArgsDomain
<1>4. DOMAIN AddArgs(AddArgs(map, s), t) = DOMAIN AddArgs(map, s) \cup KeysOf(t)
  BY <1>3, AddArgsDomain
<1>5. Values(AddArgs(AddArgs(map, s), t), key) = Values(AddArgs(map, s), key)
  BY <1>3, OthersStay
<1> QED BY <1>1, <1>2, <1>4, <1>5 DEF Has

LEMMA KeysOfNone == KeysOf(<<>>) = {} /\ <<>> \in Seq(CommandArg)
BY DEF KeysOf

LEMMA KeysOfOne ==
  ASSUME NEW a \in CommandArg PROVE KeysOf(<<a>>) = {a.key} /\ <<a>> \in Seq(CommandArg)
BY DEF KeysOf

LEMMA KeysOfTwo ==
  ASSUME NEW a \in CommandArg, NEW b \in CommandArg
  PROVE  KeysOf(<<a, b>>) = {a.key, b.key} /\ <<a, b>> \in Seq(CommandArg)
BY DEF KeysOf

LEMMA AnArg ==
  ASSUME NEW key \in Words, NEW values \in Seq(Words)
  PROVE  Arg(key, values) \in CommandArg /\ Arg(key, values).key = key
         /\ Arg(key, values).values = values
BY DEF Arg, CommandArg

-----------------------------------------------------------------------------
(* The parts of a command line *)

BuilderOK ==
  /\ {"args", "extensions", "window_size", "user_data_dir"} \subseteq DOMAIN builder
  /\ builder.args \in Seq(UserArgs)
  /\ builder.extensions \in Seq({"folder"})
  /\ builder.window_size \in {<<>>, <<"800", "600">>}
  /\ builder.user_data_dir \in {"none", "own"}

FromDefaults == If(~builder.disable_default_args, DefaultArgs)
Port ==
  If(~Has(FirstArgs(builder), "remote-debugging-port"), <<Arg("remote-debugging-port", <<"0">>)>>)
Extensions ==
  IF builder.extensions = <<>> THEN <<Arg("disable-extensions", <<>>)>>
  ELSE [n \in 1..Len(builder.extensions) |-> Arg("load-extension", <<builder.extensions[n]>>)]
DataDir ==
  <<Arg("user-data-dir",
        IF builder.user_data_dir = "none" THEN <<"shared temp dir">>
        ELSE <<builder.user_data_dir>>)>>
Window == If(builder.window_size # <<>>, <<Arg("window-size", builder.window_size)>>)
Sandbox ==
  If(~builder.sandbox, <<Arg("no-sandbox", <<>>), Arg("disable-setuid-sandbox", <<>>)>>)
Headless ==
  If(builder.headless # "False",
     <<Arg("headless", If(builder.headless = "New", <<"new">>)), Arg("mute-audio", <<>>)>>)
Incognito == If(builder.incognito, <<Arg("incognito", <<>>)>>)
Hidden == If(builder.hidden, <<Arg("disable-blink-features", <<"AutomationControlled">>)>>)
Https == If(builder.disable_https_first, <<Arg("disable-features", <<"HttpsUpgrades">>)>>)

\* The switches of which the configuration says how often they are there.
Counted == {"remote-debugging-port", "disable-extensions", "load-extension", "user-data-dir"}

LEMMA PartsOfConfig ==
  ConfigArgs(builder) =
    Port \o Extensions \o DataDir \o Window \o Sandbox \o Headless \o Incognito \o Hidden \o Https
BY DEF ConfigArgs, Port, Extensions, DataDir, Window, Sandbox, Headless, Incognito, Hidden, Https

LEMMA UserArgsTyped ==
  ASSUME BuilderOK PROVE UserArgs \subseteq CommandArg /\ builder.args \in Seq(CommandArg)
<1>1. ASSUME NEW v \in Seq(STRING) PROVE v \in Seq(Words)
  <2>1. STRING \subseteq Words
    BY DEF Words
  <2> QED BY <2>1, SeqMonotonic
<1>2. UserArgs \subseteq CommandArg
  BY <1>1, UserArgsAssumption DEF CommandArg, Words
<1> QED BY <1>2 DEF BuilderOK

LEMMA DefaultsTyped ==
  /\ FromDefaults \in Seq(CommandArg)
  /\ \A key \in Counted : key \notin KeysOf(FromDefaults)
<1> DEFINE a == Arg("no-first-run", <<>>)
           b == Arg("disable-features", <<"TranslateUI">>)
           c == Arg("force-webrtc-ip-handling-policy", <<"disable_non_proxied_udp">>)
<1>1. a \in CommandArg /\ a.key = "no-first-run"
  BY DEF Arg, CommandArg, Words
<1>2. b \in CommandArg /\ b.key = "disable-features"
  BY DEF Arg, CommandArg, Words
<1>3. c \in CommandArg /\ c.key = "force-webrtc-ip-handling-policy"
  BY DEF Arg, CommandArg, Words
<1>4. DefaultArgs = <<a, b, c>>
  BY DEF DefaultArgs
<1> HIDE DEF a, b, c
<1>5. KeysOf(DefaultArgs) = {a.key, b.key, c.key} /\ DefaultArgs \in Seq(CommandArg)
  BY <1>1, <1>2, <1>3, <1>4 DEF KeysOf
<1>6. CASE FromDefaults = DefaultArgs
  BY <1>1, <1>2, <1>3, <1>5, <1>6 DEF Counted
<1>7. CASE FromDefaults = <<>>
  BY <1>7, KeysOfNone
<1> QED BY <1>6, <1>7 DEF FromDefaults, If

LEMMA PortTyped ==
  /\ Port \in Seq(CommandArg)
  /\ KeysOf(Port) \subseteq {"remote-debugging-port"}
<1>1. "remote-debugging-port" \in Words /\ <<"0">> \in Seq(Words)
  BY DEF Words
<1> QED BY <1>1, AnArg, KeysOfNone, KeysOfOne DEF Port, If

LEMMA ExtensionsTyped ==
  ASSUME BuilderOK
  PROVE  /\ Extensions \in Seq(CommandArg)
         /\ builder.extensions = <<>> => Extensions = <<Arg("disable-extensions", <<>>)>>
                                        /\ KeysOf(Extensions) = {"disable-extensions"}
         /\ builder.extensions # <<>> =>
              /\ KeysOf(Extensions) = {"load-extension"}
              /\ Len(Extensions) = Len(builder.extensions)
              /\ \A n \in 1..Len(Extensions) : /\ Extensions[n].key = "load-extension"
                                              /\ Len(Extensions[n].values) = 1
<1>1. CASE builder.extensions = <<>>
  <2>1. "disable-extensions" \in Words /\ <<>> \in Seq(Words)
    BY DEF Words
  <2> QED BY <1>1, <2>1, AnArg, KeysOfOne DEF Extensions
<1>2. CASE builder.extensions # <<>>
  <2>1. Len(builder.extensions) \in Nat \ {0}
        /\ \A n \in 1..Len(builder.extensions) : builder.extensions[n] = "folder"
    BY <1>2 DEF BuilderOK
  <2>2. "load-extension" \in Words /\ <<"folder">> \in Seq(Words)
    BY DEF Words
  <2> DEFINE x == Arg("load-extension", <<"folder">>)
  <2>3. x \in CommandArg /\ x.key = "load-extension" /\ x.values = <<"folder">>
    BY <2>2, AnArg
  <2>4. Extensions = [n \in 1..Len(builder.extensions) |-> x]
    BY <1>2, <2>1 DEF Extensions
  <2> HIDE DEF x
  <2>5. Extensions \in Seq(CommandArg) /\ Len(Extensions) = Len(builder.extensions)
        /\ \A n \in 1..Len(Extensions) : Extensions[n] = x
    BY <2>1, <2>3, <2>4
  <2>6. 1 \in 1..Len(Extensions)
    BY <2>1, <2>5
  <2>7. KeysOf(Extensions) = {"load-extension"}
    BY <2>3, <2>5, <2>6 DEF KeysOf
  <2>8. Len(x.values) = 1
    BY <2>3
  <2> QED BY <1>2, <2>3, <2>5, <2>7, <2>8
<1> QED BY <1>1, <1>2

LEMMA DataDirTyped ==
  ASSUME BuilderOK
  PROVE  /\ DataDir \in Seq(CommandArg) /\ KeysOf(DataDir) = {"user-data-dir"}
         /\ Len(DataDir) = 1 /\ DataDir[1].key = "user-data-dir" /\ Len(DataDir[1].values) = 1
<1>1. PICK v \in Words : DataDir = <<Arg("user-data-dir", <<v>>)>>
  BY DEF DataDir, BuilderOK, Words
<1>2. "user-data-dir" \in Words
  BY DEF Words
<1>3. /\ Arg("user-data-dir", <<v>>) \in CommandArg
      /\ Arg("user-data-dir", <<v>>).key = "user-data-dir"
      /\ Arg("user-data-dir", <<v>>).values = <<v>>
  <2>1. <<v>> \in Seq(Words)
    OBVIOUS
  <2> QED BY <1>2, <2>1, AnArg
<1>4. Len(<<v>>) = 1
  OBVIOUS
<1> QED BY <1>1, <1>3, <1>4, KeysOfOne

\* The other parts are about other switches.
Other(list) == list \in Seq(CommandArg) /\ Counted \cap KeysOf(list) = {}

LEMMA OthersTyped ==
  ASSUME BuilderOK
  PROVE  /\ Other(Window) /\ Other(Sandbox) /\ Other(Headless)
         /\ Other(Incognito) /\ Other(Hidden) /\ Other(Https)
<1>1. Other(<<>>)
  BY KeysOfNone DEF Other
<1>2. <<>> \in Seq(Words) /\ <<"new">> \in Seq(Words) /\ <<"800", "600">> \in Seq(Words)
      /\ <<"AutomationControlled">> \in Seq(Words) /\ <<"HttpsUpgrades">> \in Seq(Words)
  BY DEF Words
<1>3. {"window-size", "no-sandbox", "disable-setuid-sandbox", "headless", "mute-audio",
       "incognito", "disable-blink-features", "disable-features"} \subseteq Words \ Counted
  BY DEF Words, Counted
<1>4. ASSUME NEW key \in Words \ Counted, NEW values \in Seq(Words)
      PROVE  Other(<<Arg(key, values)>>)
  BY AnArg, KeysOfOne DEF Other
<1>5. ASSUME NEW key \in Words \ Counted, NEW values \in Seq(Words),
             NEW key2 \in Words \ Counted, NEW values2 \in Seq(Words)
      PROVE  Other(<<Arg(key, values), Arg(key2, values2)>>)
  BY AnArg, KeysOfTwo DEF Other
<1>6. Other(Window)
  BY <1>1, <1>2, <1>3, <1>4 DEF Window, If, BuilderOK
<1>7. Other(Sandbox)
  BY <1>1, <1>2, <1>3, <1>5 DEF Sandbox, If
<1>8. Other(Headless)
  BY <1>1, <1>2, <1>3, <1>5 DEF Headless, If
<1>9. Other(Incognito)
  BY <1>1, <1>2, <1>3, <1>4 DEF Incognito, If
<1>10. Other(Hidden)
  BY <1>1, <1>2, <1>3, <1>4 DEF Hidden, If
<1>11. Other(Https)
  BY <1>1, <1>2, <1>3, <1>4 DEF Https, If
<1> QED BY <1>6, <1>7, <1>8, <1>9, <1>10, <1>11

-----------------------------------------------------------------------------
\* What the configuration says of the counted switches is in its first parts.
LEMMA FirstParts ==
  ASSUME BuilderOK, NEW map, IsMap(map), NEW key \in Counted
  PROVE  LET first == Port \o Extensions \o DataDir IN
         /\ first \in Seq(CommandArg) /\ ConfigArgs(builder) \in Seq(CommandArg)
         /\ Values(AddArgs(map, ConfigArgs(builder)), key) = Values(AddArgs(map, first), key)
         /\ Has(AddArgs(map, ConfigArgs(builder)), key) <=> Has(AddArgs(map, first), key)
<1> DEFINE first == Port \o Extensions \o DataDir
           Same(list) ==
             /\ list \in Seq(CommandArg)
             /\ Values(AddArgs(map, list), key) = Values(AddArgs(map, first), key)
             /\ Has(AddArgs(map, list), key) <=> Has(AddArgs(map, first), key)
<1>1. Same(first)
  <2>1. Port \in Seq(CommandArg) /\ Extensions \in Seq(CommandArg) /\ DataDir \in Seq(CommandArg)
    BY PortTyped, ExtensionsTyped, DataDirTyped
  <2>2. first \in Seq(CommandArg)
    BY <2>1
  <2> QED BY <2>2
<1> HIDE DEF first
<1>2. ASSUME NEW list, Same(list), NEW other, Other(other) PROVE Same(list \o other)
  <2>1. key \notin KeysOf(other) /\ other \in Seq(CommandArg)
    BY <1>2 DEF Other
  <2> QED BY <1>2, <2>1, OthersAtTheEnd
<1> HIDE DEF Same
<1>3. Same(first \o Window)
  BY <1>1, <1>2, OthersTyped
<1>4. Same(first \o Window \o Sandbox)
  BY <1>3, <1>2, OthersTyped
<1>5. Same(first \o Window \o Sandbox \o Headless)
  BY <1>4, <1>2, OthersTyped
<1>6. Same(first \o Window \o Sandbox \o Headless \o Incognito)
  BY <1>5, <1>2, OthersTyped
<1>7. Same(first \o Window \o Sandbox \o Headless \o Incognito \o Hidden)
  BY <1>6, <1>2, OthersTyped
<1>8. Same(first \o Window \o Sandbox \o Headless \o Incognito \o Hidden \o Https)
  BY <1>7, <1>2, OthersTyped
<1>9. Same(ConfigArgs(builder))
  BY <1>8, PartsOfConfig DEF first
<1> QED BY <1>1, <1>9 DEF Same, first

\* Part by part.
LEMMA FirstPartsInTurn ==
  ASSUME BuilderOK, NEW map, IsMap(map)
  PROVE  LET one == AddArgs(map, Port)
             two == AddArgs(one, Extensions)
             all == AddArgs(two, DataDir)
         IN /\ IsMap(one) /\ IsMap(two) /\ IsMap(all)
            /\ AddArgs(map, Port \o Extensions \o DataDir) = all
<1>1. Port \in Seq(CommandArg) /\ Extensions \in Seq(CommandArg) /\ DataDir \in Seq(CommandArg)
  BY PortTyped, ExtensionsTyped, DataDirTyped
<1>2. Port \o Extensions \in Seq(CommandArg)
  BY <1>1
<1>3. AddArgs(map, (Port \o Extensions) \o DataDir) = AddArgs(AddArgs(map, Port \o Extensions), DataDir)
  BY <1>1, <1>2, AddArgumentsInTwo
<1>4. AddArgs(map, Port \o Extensions) = AddArgs(AddArgs(map, Port), Extensions)
  BY <1>1, AddArgumentsInTwo
<1> QED BY <1>1, <1>3, <1>4, AddArgsDomain

\* What the defaults and the user pass.
LEMMA PassedBefore ==
  ASSUME BuilderOK
  PROVE  LET base == FirstArgs(builder) IN
         /\ IsMap(base)
         /\ \A key \in Counted : Passed(key) = {} => ~Has(base, key) /\ Values(base, key) = <<>>
         /\ \A key \in Counted : \A n \in 1..Len(builder.args) :
              Passed(key) = {n} => Has(base, key) /\ Values(base, key) = builder.args[n].values
<1> DEFINE base == FirstArgs(builder)
           start == AddArgs(NoArgs, FromDefaults)
           own == builder.args
<1>1. FromDefaults \in Seq(CommandArg) /\ own \in Seq(CommandArg)
  BY DefaultsTyped, UserArgsTyped
<1>2. base = AddArgs(NoArgs, FromDefaults \o own)
  BY DEF FirstArgs, FromDefaults
<1>3. base = AddArgs(start, own)
  BY <1>1, <1>2, AddInTwo
<1>4. IsMap(NoArgs) /\ DOMAIN NoArgs = {}
  BY DEF IsMap, NoArgs
<1>5. IsMap(start) /\ DOMAIN start = KeysOf(FromDefaults)
  BY <1>1, <1>4, AddArgsDomain
<1> HIDE DEF base, start, own
<1>6. IsMap(base) /\ DOMAIN base = DOMAIN start \cup KeysOf(own)
  BY <1>1, <1>3, <1>5, AddArgsDomain
<1>7. ASSUME NEW key \in Counted PROVE ~Has(start, key) /\ Values(start, key) = <<>>
  BY <1>5, DefaultsTyped DEF Has, Values
<1>8. ASSUME NEW key \in Counted, Passed(key) = {} PROVE ~Has(base, key)
  <2>1. key \notin KeysOf(own)
    BY <1>8 DEF KeysOf, Passed, own
  <2> QED BY <1>6, <1>7, <2>1 DEF Has
<1>9. ASSUME NEW key \in Counted, NEW n \in 1..Len(builder.args), Passed(key) = {n}
      PROVE  Has(base, key) /\ Values(base, key) = builder.args[n].values
  <2>1. n \in 1..Len(own) /\ own[n].key = key /\ own[n] \in CommandArg
    BY <1>1, <1>9 DEF Passed, own
  <2>2. \A m \in 1..Len(own) : own[m].key = own[n].key => m = n
    BY <1>9, <2>1 DEF Passed, own
  <2>3. Values(base, own[n].key) = Values(start, own[n].key) \o own[n].values
    BY <1>1, <1>3, <1>5, <2>1, <2>2, OnlyOneAdds
  <2>4. own[n].values \in Seq(Words)
    BY <2>1 DEF CommandArg
  <2>5. <<>> \o own[n].values = own[n].values
    BY <2>4
  <2>6. key \in KeysOf(own)
    BY <2>1 DEF KeysOf
  <2>7. Has(base, key)
    BY <1>6, <2>6 DEF Has
  <2>8. Values(base, key) = own[n].values
    BY <1>7, <2>1, <2>3, <2>5
  <2> QED BY <2>7, <2>8 DEF own
<1>10. \A key : ~Has(base, key) => Values(base, key) = <<>>
  BY DEF Values
<1> QED BY <1>6, <1>8, <1>9, <1>10 DEF base

-----------------------------------------------------------------------------
(* What launch makes of the builder *)

\* One part of the configuration at a time.
LEMMA CountedSwitches ==
  ASSUME BuilderOK
  PROVE  LET merged == AddArgs(FirstArgs(builder), ConfigArgs(builder)) IN
         /\ Passed("user-data-dir") = {} => Len(Values(merged, "user-data-dir")) = 1
         /\ Passed("remote-debugging-port") = {} =>
              Len(Values(merged, "remote-debugging-port")) = 1
         /\ \A n \in 1..Len(builder.args) : Passed("remote-debugging-port") = {n} =>
              Values(merged, "remote-debugging-port") = builder.args[n].values
         /\ Passed("disable-extensions") = {} =>
              (Has(merged, "disable-extensions") <=> builder.extensions = <<>>)
         /\ Passed("load-extension") = {} =>
              Len(Values(merged, "load-extension")) = Len(builder.extensions)
<1> DEFINE base == FirstArgs(builder)
           one == AddArgs(base, Port)
           two == AddArgs(one, Extensions)
           all == AddArgs(two, DataDir)
           merged == AddArgs(base, ConfigArgs(builder))
<1>1. IsMap(base)
  BY PassedBefore
<1>2. IsMap(one) /\ IsMap(two) /\ IsMap(all)
      /\ AddArgs(base, Port \o Extensions \o DataDir) = all
  BY <1>1, FirstPartsInTurn
<1>3. \A key \in Counted : /\ Values(merged, key) = Values(all, key)
                           /\ Has(merged, key) <=> Has(all, key)
  BY <1>1, <1>2, FirstParts
<1>4. Port \in Seq(CommandArg) /\ Extensions \in Seq(CommandArg) /\ DataDir \in Seq(CommandArg)
  BY PortTyped, ExtensionsTyped, DataDirTyped
<1>5. /\ DOMAIN one = DOMAIN base \cup KeysOf(Port)
      /\ DOMAIN two = DOMAIN one \cup KeysOf(Extensions)
      /\ DOMAIN all = DOMAIN two \cup KeysOf(DataDir)
  BY <1>1, <1>2, <1>4, AddArgsDomain
<1>6. {"remote-debugging-port", "disable-extensions", "load-extension", "user-data-dir"} = Counted
  BY DEF Counted
<1>7. /\ KeysOf(Port) \subseteq {"remote-debugging-port"}
      /\ KeysOf(Extensions) \subseteq {"disable-extensions", "load-extension"}
      /\ KeysOf(DataDir) = {"user-data-dir"}
  BY PortTyped, ExtensionsTyped, DataDirTyped
<1>8. FirstArgs(builder) = base
  OBVIOUS
<1> HIDE DEF base, one, two, all, merged
<1>9. ASSUME NEW key, key # "remote-debugging-port" PROVE Values(one, key) = Values(base, key)
  BY <1>1, <1>4, <1>7, <1>9, OthersStay DEF one
<1>10. ASSUME NEW key, key \notin {"disable-extensions", "load-extension"}
       PROVE  Values(two, key) = Values(one, key)
  BY <1>2, <1>4, <1>7, <1>10, OthersStay DEF two
<1>11. ASSUME NEW key, key # "user-data-dir" PROVE Values(all, key) = Values(two, key)
  BY <1>2, <1>4, <1>7, <1>11, OthersStay DEF all
<1>12. ASSUME Passed("user-data-dir") = {} PROVE Len(Values(merged, "user-data-dir")) = 1
  <2>1. Values(two, "user-data-dir") = <<>>
    BY <1>6, <1>8, <1>9, <1>10, <1>12, PassedBefore
  <2>2. Len(Values(all, "user-data-dir")) = Len(Values(two, "user-data-dir")) + Len(DataDir)
    <3>1. \A n \in 1..Len(DataDir) : DataDir[n].key = "user-data-dir" /\ Len(DataDir[n].values) = 1
      <4>1. 1..1 = {1}
        OBVIOUS
      <4> QED BY <4>1, DataDirTyped
    <3> QED BY <1>2, <1>4, <3>1, EachAddsOne DEF all
  <2>3. Len(DataDir) = 1 /\ Len(<<>>) = 0
    BY DataDirTyped
  <2>4. Values(merged, "user-data-dir") = Values(all, "user-data-dir")
    BY <1>3, <1>6
  <2> QED BY <2>1, <2>2, <2>3, <2>4
<1>13. Values(merged, "remote-debugging-port") = Values(one, "remote-debugging-port")
  BY <1>3, <1>6, <1>10, <1>11
<1>14. ASSUME Passed("remote-debugging-port") = {}
       PROVE  Len(Values(merged, "remote-debugging-port")) = 1
  <2>1. ~Has(base, "remote-debugging-port") /\ Values(base, "remote-debugging-port") = <<>>
    BY <1>6, <1>8, <1>14, PassedBefore
  <2>2. Port = <<Arg("remote-debugging-port", <<"0">>)>>
    BY <1>8, <2>1 DEF Port, If
  <2>3. Len(Port) = 1
        /\ \A n \in 1..Len(Port) : Port[n].key = "remote-debugging-port" /\ Len(Port[n].values) = 1
    BY <2>2 DEF Arg
  <2>4. Len(Values(one, "remote-debugging-port")) = Len(Values(base, "remote-debugging-port")) + Len(Port)
    BY <1>1, <1>4, <2>3, EachAddsOne DEF one
  <2>5. Len(<<>>) = 0
    OBVIOUS
  <2>6. Len(Values(base, "remote-debugging-port")) = 0
    BY <2>1, <2>5
  <2>7. Len(Values(one, "remote-debugging-port")) = 1
    BY <2>3, <2>4, <2>6
  <2> QED BY <1>13, <2>7
<1>15. ASSUME NEW n \in 1..Len(builder.args), Passed("remote-debugging-port") = {n}
       PROVE  Values(merged, "remote-debugging-port") = builder.args[n].values
  <2>1. Has(base, "remote-debugging-port")
        /\ Values(base, "remote-debugging-port") = builder.args[n].values
    BY <1>6, <1>8, <1>15, PassedBefore
  <2>2. one = base
    BY <1>8, <2>1, AddNothing DEF one, Port, If
  <2> QED BY <1>13, <2>1, <2>2
<1>16. ASSUME Passed("disable-extensions") = {}
       PROVE  Has(merged, "disable-extensions") <=> builder.extensions = <<>>
  <2>1. ~Has(base, "disable-extensions")
    BY <1>6, <1>8, <1>16, PassedBefore
  <2>2. Has(merged, "disable-extensions") <=> "disable-extensions" \in KeysOf(Extensions)
    BY <1>3, <1>5, <1>6, <1>7, <2>1 DEF Has
  <2> QED BY <2>2, ExtensionsTyped
<1>17. ASSUME Passed("load-extension") = {}
       PROVE  Len(Values(merged, "load-extension")) = Len(builder.extensions)
  <2>1. Values(one, "load-extension") = <<>>
    BY <1>6, <1>8, <1>9, <1>17, PassedBefore
  <2>2. Values(merged, "load-extension") = Values(two, "load-extension")
    BY <1>3, <1>6, <1>11
  <2>3. CASE builder.extensions = <<>>
    <3>1. "load-extension" \notin KeysOf(Extensions)
      BY <2>3, ExtensionsTyped
    <3>2. Values(two, "load-extension") = <<>>
      BY <1>2, <1>4, <2>1, <3>1, OthersStay DEF two
    <3> QED BY <2>2, <2>3, <3>2
  <2>4. CASE builder.extensions # <<>>
    <3>1. Len(Extensions) = Len(builder.extensions) /\ Len(Extensions) \in Nat
      BY <1>4, <2>4, ExtensionsTyped
    <3>2. Len(Values(two, "load-extension")) = Len(Values(one, "load-extension")) + Len(Extensions)
      BY <1>2, <1>4, <2>4, ExtensionsTyped, EachAddsOne DEF two
    <3>3. Len(<<>>) = 0
      OBVIOUS
    <3> QED BY <2>1, <2>2, <3>1, <3>2, <3>3
  <2> QED BY <2>3, <2>4
<1> QED BY <1>12, <1>14, <1>15, <1>16, <1>17 DEF merged, base

LEMMA EverySource ==
  ASSUME BuilderOK
  PROVE  LET merged == AddArgs(FirstArgs(builder), ConfigArgs(builder)) IN
         /\ \A n \in 1..Len(Sources) :
              /\ Has(merged, Sources[n].key)
              /\ ToSet(Sources[n].values) \subseteq ToSet(Values(merged, Sources[n].key))
         /\ \A key \in DOMAIN merged :
              /\ \E n \in 1..Len(Sources) : Sources[n].key = key
              /\ \A v \in ToSet(Values(merged, key)) :
                   \E n \in 1..Len(Sources) : Sources[n].key = key /\ v \in ToSet(Sources[n].values)
<1> DEFINE merged == AddArgs(FirstArgs(builder), ConfigArgs(builder))
<1>1. FromDefaults \in Seq(CommandArg) /\ builder.args \in Seq(CommandArg)
  BY DefaultsTyped, UserArgsTyped
<1>2. IsMap(NoArgs)
  BY DEF IsMap, NoArgs
<1>3. ConfigArgs(builder) \in Seq(CommandArg)
  BY <1>2, FirstParts DEF Counted
<1>4. FromDefaults \o builder.args \in Seq(CommandArg)
  BY <1>1
<1>5. Sources = (FromDefaults \o builder.args) \o ConfigArgs(builder)
  BY DEF Sources, FromDefaults
<1>6. Sources \in Seq(CommandArg)
  BY <1>3, <1>4, <1>5
<1>7. merged = AddArgs(NoArgs, Sources)
  <2>1. FirstArgs(builder) = AddArgs(NoArgs, FromDefaults \o builder.args)
    BY DEF FirstArgs, FromDefaults
  <2> DEFINE before == FromDefaults \o builder.args
             config == ConfigArgs(builder)
  <2>2. before \in Seq(CommandArg) /\ config \in Seq(CommandArg) /\ Sources = before \o config
        /\ merged = AddArgs(AddArgs(NoArgs, before), config)
    BY <1>3, <1>4, <1>5, <2>1
  <2> HIDE DEF before, config, merged
  <2> QED BY <2>2, AddArgumentsInTwo
<1> HIDE DEF merged
<1>8. ASSUME NEW n \in 1..Len(Sources)
      PROVE  /\ Has(merged, Sources[n].key)
             /\ ToSet(Sources[n].values) \subseteq ToSet(Values(merged, Sources[n].key))
  <2>1. Sources[n].key \in KeysOf(Sources)
    BY DEF KeysOf
  <2> QED BY <1>2, <1>6, <1>7, <2>1, AddArgsDomain, NothingIsLost DEF Has
<1>9. DOMAIN NoArgs = {} /\ \A key : Values(NoArgs, key) = <<>>
  BY DEF NoArgs, Values, Has
<1>10. ASSUME NEW key \in DOMAIN merged PROVE \E n \in 1..Len(Sources) : Sources[n].key = key
  <2>1. key \in KeysOf(Sources)
    BY <1>2, <1>6, <1>7, <1>9, AddArgsDomain
  <2> QED BY <2>1 DEF KeysOf
<1>11. ASSUME NEW key \in DOMAIN merged, NEW v \in ToSet(Values(merged, key))
       PROVE  \E n \in 1..Len(Sources) : Sources[n].key = key /\ v \in ToSet(Sources[n].values)
  <2>1. ToSet(Values(NoArgs, key)) = {}
    BY <1>9 DEF ToSet
  <2> QED BY <1>2, <1>6, <1>7, <2>1, NothingIsInvented
<1> QED BY <1>8, <1>10, <1>11 DEF merged

-----------------------------------------------------------------------------
\* The builder's lists are what was added to them, and the command line is made of them.
ArgsInv ==
  /\ BuilderOK
  /\ build_stage = "launched" => args = AddArgs(FirstArgs(builder), ConfigArgs(builder))

LEMMA SettingsTyped ==
  \A s \in Settings :
    /\ s[1] \notin {"args", "extensions"}
    /\ s[1] = "window_size" => s[2] = <<"800", "600">>
    /\ s[1] = "user_data_dir" => s[2] = "own"
<1> SUFFICES ASSUME NEW s \in Settings
             PROVE  /\ s[1] \notin {"args", "extensions"}
                    /\ s[1] = "window_size" => s[2] = <<"800", "600">>
                    /\ s[1] = "user_data_dir" => s[2] = "own"
  OBVIOUS
<1>1. \/ s = <<"window_size", <<"800", "600">> >> \/ s = <<"user_data_dir", "own">>
      \/ \E k \in {"headless", "sandbox", "executable", "incognito", "disable_https_first",
                  "viewport", "disable_default_args", "msedge", "unstable"} : \E v : s = <<k, v>>
  BY DEF Settings
<1>2. CASE s = <<"window_size", <<"800", "600">> >>
  BY <1>2
<1>3. CASE s = <<"user_data_dir", "own">>
  BY <1>3
<1>4. ASSUME NEW k \in {"headless", "sandbox", "executable", "incognito", "disable_https_first",
                  "viewport", "disable_default_args", "msedge", "unstable"}, NEW v, s = <<k, v>>
      PROVE  s[1] \notin {"args", "extensions", "window_size", "user_data_dir"}
  BY <1>4
<1> QED BY <1>1, <1>2, <1>3, <1>4

LEMMA CallsKeepTypes == ASSUME BuilderOK, ArgsNext PROVE BuilderOK'
<1>1. CASE Set
  <2>1. PICK s \in Settings : builder' = [builder EXCEPT ![s[1]] = s[2]]
    BY <1>1 DEF Set, Call
  <2>2. /\ s[1] \notin {"args", "extensions"}
        /\ s[1] = "window_size" => s[2] = <<"800", "600">>
        /\ s[1] = "user_data_dir" => s[2] = "own"
    BY SettingsTyped
  <2> QED BY <2>1, <2>2 DEF BuilderOK
<1>2. CASE AddExtension
  BY <1>2 DEF AddExtension, Call, BuilderOK
<1>3. CASE AddUserArg
  BY <1>3 DEF AddUserArg, Call, BuilderOK
<1>4. CASE Hide
  BY <1>4 DEF Hide, Call, BuilderOK
<1>5. CASE Build
  BY <1>5 DEF Build, BuilderOK
<1>6. CASE LaunchCommand
  BY <1>6 DEF LaunchCommand, BuilderOK
<1> QED BY <1>1, <1>2, <1>3, <1>4, <1>5, <1>6 DEF ArgsNext

LEMMA ArgsInductive == ArgsSpec => []ArgsInv
<1>1. ArgsInit => ArgsInv
  <2>1. ASSUME ArgsInit PROVE BuilderOK
    BY <2>1 DEF ArgsInit, BuilderOK, Default
  <2> QED BY <2>1 DEF ArgsInit, ArgsInv
<1>2. ArgsInv /\ [ArgsNext]_launchArgsVars => ArgsInv'
  <2> SUFFICES ASSUME ArgsInv, [ArgsNext]_launchArgsVars PROVE ArgsInv'
    OBVIOUS
  <2>1. CASE UNCHANGED launchArgsVars
    <3>1. builder' = builder /\ build_stage' = build_stage /\ args' = args
      BY <2>1 DEF launchArgsVars
    <3>2. BuilderOK'
      BY <3>1 DEF ArgsInv, BuilderOK
    <3> QED BY <3>1, <3>2 DEF ArgsInv
  <2>2. CASE ArgsNext
    <3>1. BuilderOK'
      BY <2>2, CallsKeepTypes DEF ArgsInv
    <3>2. build_stage' = "launched" =>
            args' = AddArgs(FirstArgs(builder'), ConfigArgs(builder'))
      BY <2>2 DEF ArgsNext, Set, AddExtension, AddUserArg, Hide, Build, Call, LaunchCommand
    <3> QED BY <3>1, <3>2 DEF ArgsInv
  <2> QED BY <2>1, <2>2
<1> QED BY <1>1, <1>2, PTL DEF ArgsSpec

\* However the methods of the builder are called, in whatever order, nothing said of a
\* switch is lost on the command line that launch makes, and the port, the data directory
\* and the extensions are there as often as they should.
THEOREM ArgsGoTogether == ArgsSpec => []SwitchesGoTogether
<1>1. ArgsInv => SwitchesGoTogether
  <2> SUFFICES ASSUME ArgsInv, build_stage = "launched" PROVE SwitchesGoTogether
    BY DEF SwitchesGoTogether
  <2>1. BuilderOK /\ args = AddArgs(FirstArgs(builder), ConfigArgs(builder))
    BY DEF ArgsInv
  <2>2. \A key : Has(args, key) => args[key] = Values(args, key)
    BY DEF Values
  <2>3. \A key : Len(Values(args, key)) = 1 => Has(args, key)
    <3>1. Len(<<>>) # 1
      OBVIOUS
    <3> QED BY <3>1 DEF Values
  <2>4. \A n \in 1..Len(Sources) :
           /\ Has(args, Sources[n].key)
           /\ ToSet(Sources[n].values) \subseteq ToSet(args[Sources[n].key])
    BY <2>1, <2>2, EverySource
  <2>7. \A key \in DOMAIN args :
          /\ \E n \in 1..Len(Sources) : Sources[n].key = key
          /\ \A v \in ToSet(args[key]) :
               \E n \in 1..Len(Sources) : Sources[n].key = key /\ v \in ToSet(Sources[n].values)
    BY <2>1, <2>2, EverySource DEF Has
  <2>5. /\ Passed("user-data-dir") = {} => Len(Values(args, "user-data-dir")) = 1
        /\ Passed("remote-debugging-port") = {} => Len(Values(args, "remote-debugging-port")) = 1
        /\ \A n \in 1..Len(builder.args) : Passed("remote-debugging-port") = {n} =>
             Values(args, "remote-debugging-port") = builder.args[n].values
        /\ Passed("disable-extensions") = {} =>
             (Has(args, "disable-extensions") <=> builder.extensions = <<>>)
        /\ Passed("load-extension") = {} =>
             Len(Values(args, "load-extension")) = Len(builder.extensions)
    BY <2>1, CountedSwitches
  <2>6. ASSUME NEW n \in 1..Len(builder.args), Passed("remote-debugging-port") = {n}
        PROVE  Has(args, "remote-debugging-port")
    <3>1. "remote-debugging-port" \in Counted
      BY DEF Counted
    <3>2. Has(FirstArgs(builder), "remote-debugging-port") /\ IsMap(FirstArgs(builder))
      BY <2>1, <2>6, <3>1, PassedBefore
    <3>3. ConfigArgs(builder) \in Seq(CommandArg)
      BY <2>1, <3>1, <3>2, FirstParts
    <3> QED BY <2>1, <3>2, <3>3, AddArgsDomain DEF Has
  <2> QED BY <2>2, <2>3, <2>4, <2>5, <2>6, <2>7 DEF SwitchesGoTogether
<1> QED BY <1>1, ArgsInductive, PTL

\* The builder has its fields and no others, its lists hold what was added to them, and
\* there is no command line before the launch.
THEOREM ArgsAreTyped == ArgsSpec => []ArgsTypeOK
<1> DEFINE Names == DOMAIN Default
           Typed == /\ DOMAIN builder = Names /\ setters \in 0..MaxSetters
                    /\ build_stage \in {"building", "built", "launched", "failed"}
                    /\ build_stage # "launched" => args = NoArgs
<1>1. ArgsInit => Typed
  BY SettersAreBounded DEF ArgsInit
<1>2. Typed /\ [ArgsNext]_launchArgsVars => Typed'
  <2> SUFFICES ASSUME Typed, [ArgsNext]_launchArgsVars PROVE Typed'
    OBVIOUS
  <2>1. DOMAIN builder' = Names
    <3> HIDE DEF Names
    <3>1. CASE Set
      BY <3>1 DEF Set, Call
    <3>2. CASE AddExtension \/ AddUserArg \/ Hide \/ Build \/ LaunchCommand \/ UNCHANGED launchArgsVars
      BY <3>2 DEF AddExtension, AddUserArg, Hide, Build, LaunchCommand, Call, launchArgsVars
    <3> QED BY <3>1, <3>2 DEF ArgsNext
  <2>2. setters' \in 0..MaxSetters
    BY SettersAreBounded DEF ArgsNext, Set, AddExtension, AddUserArg, Hide, Build, LaunchCommand,
                             Call, launchArgsVars
  <2>3. /\ build_stage' \in {"building", "built", "launched", "failed"}
        /\ build_stage' # "launched" => args' = NoArgs
    BY DEF ArgsNext, Set, AddExtension, AddUserArg, Hide, Build, LaunchCommand, Call,
           launchArgsVars
  <2> QED BY <2>1, <2>2, <2>3
<1>3. Typed /\ ArgsInv => ArgsTypeOK
  BY DEF ArgsTypeOK, ArgsInv, BuilderOK
<1> QED BY <1>1, <1>2, <1>3, ArgsInductive, PTL DEF ArgsSpec

-----------------------------------------------------------------------------
(* All the machines of MCParts together.  What is proved of each for its own
   specification holds of the composition that TLC checks. *)

\* A step is one machine's and leaves the others alone.
LEMMA AStepOfOne ==
  ASSUME [PartsNext]_partsVars
  PROVE  /\ [FrameNext]_frameVars /\ [NetworkNext]_networkVars /\ [OpsNext]_pageOpsVars
         /\ [WaitsNext]_waitsVars /\ [ProcessNext]_processVars /\ [ArgsNext]_launchArgsVars
         /\ [FetchNext]_fetchVars /\ [BridgeNext]_bridgeVars
BY DEF PartsNext, partsVars

\* The composition is each of the eight machines.
THEOREM PartsAreIndependent ==
  PartsSpec => /\ FrameSpec /\ NetworkSpec /\ OpsSpec /\ WaitsSpec
               /\ ProcessSpec /\ ArgsSpec /\ FetchSpec /\ BridgeSpec
<1>1. PartsInit => /\ FrameInit /\ NetworkInit /\ OpsInit /\ WaitsInit
                   /\ ProcessInit /\ ArgsInit /\ FetchInit /\ BridgeInit
  BY DEF PartsInit
<1> QED BY <1>1, AStepOfOne, PTL DEF PartsSpec, FrameSpec, NetworkSpec, OpsSpec, WaitsSpec,
                                ProcessSpec, ArgsSpec, FetchSpec, BridgeSpec

\* Whichever machine moves, all eight keep their types.
THEOREM PartsKeepTheirTypes == PartsSpec => []PartsTypeOK
<1>1. /\ FrameTypeOK /\ NetworkTypeOK /\ OpsTypeOK /\ WaitsTypeOK
      /\ ProcessTypeOK /\ ArgsTypeOK /\ FetchTypeOK /\ BridgeTypeOK
      => PartsTypeOK
  BY DEF PartsTypeOK
<1> QED BY <1>1, PartsAreIndependent, TypeCorrect, NetworkTypes, OpsAreTyped, WaitsAreTyped,
           ProcessIsTyped, ArgsAreTyped, FetchesAreTyped, BridgeTypes, PTL
=============================================================================
