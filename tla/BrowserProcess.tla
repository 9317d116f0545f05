--------------------------- MODULE BrowserProcess ---------------------------
(***************************************************************************)
(* A Browser handle from launch or connect to its drop: the child process, *)
(* the search for its websocket url, and the incognito contexts that the   *)
(* handle, the Handler and the browser must agree on.                      *)
(*                                                                         *)
(* The connection and the commands are in Connection and Commands: here a  *)
(* command succeeds or fails.  The Handler reads the handle's messages and *)
(* the browser's events about targets.                                     *)
(***************************************************************************)
EXTENDS Naturals, Sequences, FiniteSets

CONSTANTS
  BrowserContexts, \* ids of contexts
  FromConfig,      \* those HandlerConfig.context_ids names
  MaxLines,        \* bound: lines the process writes to its stderr
  MaxTargets       \* bound: pages that are opened

\* A configuration names contexts the browser has.
ASSUME ConfiguredContexts == FromConfig \subseteq BrowserContexts

DefaultContext == "default"

VARIABLES
  phase,            \* of launch or connect, then of the handle
  launched,         \* it is launch that was called, and a process was spawned
  child,            \* Browser.child is there
  process,          \* none, running, exited or reaped
  stderr,           \* what the process wrote and nobody has read
  lines,            \* bound: how much it wrote
  launch_late,             \* launch_timeout is over
  error,            \* of a launch that failed
  browser_context,  \* Browser.browser_context
  awaits,           \* what the handle waits for: "", "create" or "dispose"
  channel,          \* messages to the Handler
  browser_contexts, \* Handler.browser_contexts
  made,             \* browser: the contexts it has made, for the handle or before it
  disposed,         \* browser: those it has disposed
  opened,           \* browser: the context of each page it has opened
  labels,           \* Handler: the context of each Target
  killed            \* history: the handle or its drop killed the process

launchVars == <<phase, launched, child, process, stderr, lines, launch_late, error, killed>>
contextVars ==
  <<browser_context, awaits, channel, browser_contexts, made, disposed, opened, labels>>
processVars == <<launchVars, contextVars>>

-----------------------------------------------------------------------------
(* Browser::launch *)

\* canonicalize or spawn may fail; else there is a process, killed on drop.
Launch ==
  /\ phase = "start"
  /\ \/ /\ phase' = "resolving" /\ process' = "running" /\ launched' = TRUE
        /\ UNCHANGED error
     \/ phase' = "failed" /\ error' = "noProcess" /\ UNCHANGED <<process, launched>>
  /\ UNCHANGED <<child, stderr, lines, launch_late, killed, contextVars>>

Fail(e) == phase' = "cleaning" /\ error' = e

LaunchTimeout ==
  /\ phase = "resolving" /\ launch_late /\ Fail("LaunchTimeout")
  /\ UNCHANGED <<launched, child, process, stderr, lines, launch_late, killed, contextVars>>

\* The wait that runs beside reaps the process.
LaunchExit ==
  /\ phase = "resolving" /\ process = "exited" /\ process' = "reaped" /\ Fail("LaunchExit")
  /\ UNCHANGED <<launched, child, stderr, lines, launch_late, killed, contextVars>>

\* A line of stderr, or its end, which is an error as a line that is no text is.
ReadLine ==
  /\ phase = "resolving"
  /\ \/ /\ stderr # <<>> /\ stderr' = Tail(stderr)
        /\ CASE Head(stderr) = "url" -> phase' = "connecting" /\ UNCHANGED error
             [] Head(stderr) = "noText" -> Fail("LaunchIo")
             [] OTHER -> UNCHANGED <<phase, error>>
     \/ stderr = <<>> /\ process # "running" /\ Fail("LaunchIo") /\ UNCHANGED stderr
  /\ UNCHANGED <<launched, child, process, lines, launch_late, killed, contextVars>>

\* The launch ends well: nothing may fail between here and the handle.  The rest of
\* stderr and the clock are dropped.
LaunchConnects ==
  /\ phase = "connecting" /\ stderr' = <<>> /\ launch_late' = FALSE
  /\ \/ process = "running" /\ phase' = "up" /\ child' = TRUE /\ UNCHANGED error
     \/ Fail("connect") /\ UNCHANGED child
  /\ UNCHANGED <<launched, process, lines, killed, contextVars>>

\* try_wait first: a process that is over is reaped by it.
TryWaitFirst ==
  /\ phase = "cleaning"
  /\ IF process = "running" THEN phase' = "killing" /\ UNCHANGED process
                            ELSE phase' = "failed" /\ process' = "reaped"
  /\ UNCHANGED <<launched, child, stderr, lines, launch_late, error, killed, contextVars>>

\* Mutant: the process is killed and not waited for.
KillAndGo ==
  /\ phase = "killing" /\ process' = "exited" /\ phase' = "failed"
  /\ killed' = (killed \/ process = "running")
  /\ UNCHANGED <<launched, child, stderr, lines, launch_late, error, contextVars>>

\* kill waits for the exit, whether it was first or not.
KillChild ==
  /\ phase = "killing" /\ process' = "reaped" /\ phase' = "failed"
  /\ killed' = (killed \/ process = "running")
  /\ UNCHANGED <<launched, child, stderr, lines, launch_late, error, contextVars>>

-----------------------------------------------------------------------------
(* Browser::connect *)

\* A running browser, asked for its url first if the address is http.  The Handler knows
\* the contexts its configuration names; that of a launch names none.
Connect ==
  /\ phase = "start" /\ process' = "running"
  /\ \/ /\ phase' = "up" /\ made' = FromConfig /\ browser_contexts' = FromConfig
        /\ UNCHANGED error
     \/ /\ phase' = "failed" /\ error' \in {"NoResponse", "connect"}
        /\ UNCHANGED <<made, browser_contexts>>
  /\ UNCHANGED <<launched, child, stderr, lines, launch_late, killed,
                 browser_context, awaits, channel, disposed, opened, labels>>

-----------------------------------------------------------------------------
(* The handle *)

Free == phase = "up" /\ awaits = ""

\* wait and try_wait; nothing to wait for if nothing was spawned.
Wait ==
  /\ Free /\ child /\ process \in {"exited", "reaped"} /\ process' = "reaped"
  /\ UNCHANGED <<phase, launched, child, stderr, lines, launch_late, error, killed, contextVars>>

Kill ==
  /\ Free /\ child /\ process' = "reaped"
  /\ killed' = (killed \/ process = "running")
  /\ UNCHANGED <<phase, launched, child, stderr, lines, launch_late, error, contextVars>>

\* Browser.close: the process goes by itself.
Close ==
  /\ Free /\ process = "running" /\ process' = "exited"
  /\ UNCHANGED <<phase, launched, child, stderr, lines, launch_late, error, killed, contextVars>>

\* The handle, or the future of a launch, is dropped: a child is killed on drop and
\* reaped by the runtime some time; the handle's drop reaps one that is over.
DropHandle ==
  /\ phase \notin {"start", "failed", "dropped"} /\ phase' = "dropped"
  /\ process' = CASE launched /\ process = "running" -> "exited"
                  [] child /\ process = "exited" -> "reaped"
                  [] OTHER -> process
  /\ killed' = (killed \/ (launched /\ process = "running"))
  /\ UNCHANGED <<launched, child, stderr, lines, launch_late, error, contextVars>>

RuntimeReaps ==
  /\ phase = "dropped" /\ process = "exited" /\ process' = "reaped"
  /\ UNCHANGED <<phase, launched, child, stderr, lines, launch_late, error, killed, contextVars>>

-----------------------------------------------------------------------------
(* Incognito contexts.  Several messages of the handle keep their order. *)

SendMessage(message) == channel' = Append(channel, message)
HandleMessage(type, context) == [type |-> type, context |-> context]

StartIncognito ==
  /\ Free /\ process = "running" /\ awaits' = "create"
  /\ UNCHANGED <<launchVars, browser_context, channel, browser_contexts, made, disposed,
                 opened, labels>>

\* A command takes the same channel: what was sent before it has been read.
IsServed == phase = "up" /\ process = "running" /\ channel = <<>>

\* Mutant: the Handler is not told.
ContextKept(c) ==
  /\ awaits = "create" /\ awaits' = "" /\ IsServed /\ c \notin made
  /\ made' = made \cup {c} /\ browser_context' = c
  /\ UNCHANGED <<launchVars, channel, browser_contexts, disposed, opened, labels>>

ContextCreated(c) ==
  /\ awaits = "create" /\ awaits' = ""
  /\ \/ /\ IsServed /\ c \notin made /\ made' = made \cup {c}
        /\ browser_context' = c /\ SendMessage(HandleMessage("InsertContext", c))
     \/ UNCHANGED <<made, browser_context, channel>>
  /\ UNCHANGED <<launchVars, browser_contexts, disposed, opened, labels>>

\* The handle gives up its context before it asks to dispose it.
QuitIncognito ==
  /\ Free /\ browser_context # DefaultContext
  /\ awaits' = browser_context /\ browser_context' = DefaultContext
  /\ UNCHANGED <<launchVars, channel, browser_contexts, made, disposed, opened, labels>>

ContextDisposed ==
  /\ awaits \in BrowserContexts /\ awaits' = ""
  /\ \/ IsServed /\ disposed' = disposed \cup {awaits} /\ SendMessage(HandleMessage("DisposeContext", awaits))
     \/ UNCHANGED <<disposed, channel>>
  /\ UNCHANGED <<launchVars, browser_context, browser_contexts, made, opened, labels>>

ContextIsLive(c) == c = DefaultContext \/ c \in made \ disposed

\* A page for the context that is asked for, or the handle's own.
NewPage(asked) ==
  /\ Free /\ process = "running" /\ Len(opened) + Len(channel) < MaxTargets /\ ContextIsLive(asked)
  /\ SendMessage(HandleMessage("CreatePage", IF asked = DefaultContext THEN browser_context ELSE asked))
  /\ UNCHANGED <<launchVars, browser_context, awaits, browser_contexts, made, disposed,
                 opened, labels>>

\* The Handler reads the channel; the browser opens a page in a context that is live.
HandlerReads ==
  /\ channel # <<>> /\ process = "running" /\ channel' = Tail(channel)
  /\ LET m == Head(channel)
     IN /\ browser_contexts' = CASE m.type = "InsertContext" -> browser_contexts \cup {m.context}
                                 [] m.type = "DisposeContext" -> browser_contexts \ {m.context}
                                 [] OTHER -> browser_contexts
        /\ opened' = IF m.type = "CreatePage" /\ ContextIsLive(m.context)
                     THEN Append(opened, m.context) ELSE opened
  /\ UNCHANGED <<launchVars, browser_context, awaits, made, disposed, labels>>

\* Target.targetCreated: a context the Handler does not know is taken for the default.
Label(c) == IF c \in browser_contexts THEN c ELSE DefaultContext
OnTargetCreated ==
  /\ Len(labels) < Len(opened)
  /\ labels' = Append(labels, Label(opened[Len(labels) + 1]))
  /\ UNCHANGED <<launchVars, browser_context, awaits, channel, browser_contexts, made,
                 disposed, opened>>

-----------------------------------------------------------------------------
(* The process and the clock *)

ProcessWrites ==
  /\ process = "running" /\ lines < MaxLines /\ phase = "resolving"
  /\ lines' = lines + 1
  /\ \E line \in {"other", "url", "noText"} : stderr' = Append(stderr, line)
  /\ UNCHANGED <<phase, launched, child, process, launch_late, error, killed, contextVars>>

ProcessExits ==
  /\ process = "running" /\ process' = "exited"
  /\ UNCHANGED <<phase, launched, child, stderr, lines, launch_late, error, killed, contextVars>>

LaunchClock ==
  /\ phase = "resolving" /\ ~launch_late /\ launch_late' = TRUE
  /\ UNCHANGED <<phase, launched, child, process, stderr, lines, error, killed, contextVars>>

ProcessInit ==
  /\ phase = "start" /\ launched = FALSE /\ child = FALSE /\ process = "none"
  /\ stderr = <<>> /\ lines = 0
  /\ launch_late = FALSE /\ error = "none" /\ killed = FALSE
  /\ browser_context = DefaultContext /\ awaits = "" /\ channel = <<>>
  /\ browser_contexts = {} /\ made = {} /\ disposed = {}
  /\ opened = <<>> /\ labels = <<>>

ProcessNext ==
  \/ Launch \/ LaunchTimeout \/ LaunchExit \/ ReadLine \/ LaunchConnects \/ TryWaitFirst
  \/ KillChild \/ Connect \/ Wait \/ Kill \/ Close \/ DropHandle \/ RuntimeReaps
  \/ StartIncognito \/ QuitIncognito \/ ContextDisposed \/ HandlerReads \/ OnTargetCreated
  \/ \E c \in BrowserContexts : ContextCreated(c)
  \/ \E c \in BrowserContexts \cup {DefaultContext} : NewPage(c)
  \/ ProcessWrites \/ ProcessExits \/ LaunchClock

ProcessSpec == ProcessInit /\ [][ProcessNext]_processVars

-----------------------------------------------------------------------------
(* Properties *)

ProcessTypeOK ==
  /\ phase \in {"start", "resolving", "connecting", "cleaning", "killing", "up", "failed",
                "dropped"}
  /\ process \in {"none", "running", "exited", "reaped"} /\ child \in BOOLEAN
  /\ browser_context \in BrowserContexts \cup {DefaultContext}
  /\ browser_contexts \subseteq BrowserContexts /\ Len(labels) <= Len(opened)

\* Browser::launch that fails leaves no process and no zombie, whatever failed and
\* whenever the process itself went; an error that names an exit was one.  A browser
\* that was only connected to is never killed.
LaunchCleansUp ==
  /\ phase = "failed" /\ launched => process = "reaped"
  /\ error = "LaunchExit" => ~killed
  /\ killed => launched

\* A page in the handle's context or the default one is labelled with the context it
\* lives in, unless that context was disposed meanwhile: the Handler learns of a context
\* before the first page in it.
TargetsKnowTheirContext ==
  \A n \in 1..Len(labels) :
    ContextIsLive(opened[n]) => labels[n] = opened[n]
=============================================================================
