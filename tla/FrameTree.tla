----------------------------- MODULE FrameTree -----------------------------
(***************************************************************************)
(* The FrameManager of one Target: the tree of frames, the execution       *)
(* contexts of their worlds and the callers that wait for the main frame   *)
(* to have loaded.                                                         *)
(*                                                                         *)
(*   page      the browser's side: the frames and contexts that exist, and *)
(*             the events about them, which arrive in order                *)
(*   Target    on_event and the response of Page.getFrameTree feed the     *)
(*             FrameManager; poll answers who waits                        *)
(*                                                                         *)
(* Loaders, watchers and Page.navigate are in module Navigation.  The url  *)
(* and name of a frame are left out.                                       *)
(***************************************************************************)
EXTENDS Naturals, Sequences, FiniteSets

CONSTANTS
  FirstMain,    \* the main frame the page starts with
  OtherMains,   \* ids a main frame may get when it is replaced
  SubFrames,    \* ids of sub-frames
  Contexts,     \* unique ids of execution contexts
  MaxPageSteps, \* bound: what the page does
  MaxInFlight   \* bound: events on their way

NoFrame == "noFrame"
NoContext == "noContext"
FrameIds == {FirstMain} \cup OtherMains \cup SubFrames

\* A page's main frame and its sub-frames never exchange their ids.
ASSUME FrameAssumption ==
  /\ SubFrames \cap ({FirstMain} \cup OtherMains) = {}
  /\ NoFrame \notin FrameIds

VARIABLES
  main_frame,      \* FrameManager.main_frame
  frames,          \* FrameManager.frames
  context_ids,     \* FrameManager.context_ids
  isolated_worlds, \* FrameManager.isolated_worlds, the utility world only
  worlds_asked,    \* frames the browser was asked to create the world in
  waiters,         \* Target.wait_for_frame_navigation, how many senders
  answered,        \* waiters that were told of a loaded main frame
  page,            \* page: the parent of each frame of this process
  contexts,        \* page: the frame and world of each context
  events,          \* page: events on their way
  tree_sent,       \* page: Page.getFrameTree has been answered
  page_steps       \* bound: what the page has done

managerVars == <<main_frame, frames, context_ids, isolated_worlds>>
pageVars == <<page, contexts, tree_sent, page_steps>>
frameVars == <<managerVars, worlds_asked, waiters, answered, pageVars, events>>

-----------------------------------------------------------------------------
(* Frames.  fs is the map from ids to frames. *)

NewFrame(p) == [parent |-> p, children |-> {}, main_world |-> NoContext,
                secondary_world |-> NoContext, lifecycle |-> {}, request |-> FALSE]

Put(fs, f, frame) == [x \in DOMAIN fs \cup {f} |-> IF x = f THEN frame ELSE fs[x]]

\* A change to a frame, if it is tracked.
Update(fs, f, frame) == IF f \in DOMAIN fs THEN [fs EXCEPT ![f] = frame] ELSE fs

\* f and every frame below it, by the children the frames list.
Subtree(fs, f) ==
  {x \in DOMAIN fs : f \in DOMAIN fs /\
     \A S \in SUBSET DOMAIN fs :
       (f \in S /\ \A y \in S : fs[y].children \cap DOMAIN fs \subseteq S) => x \in S}

\* Mutant: the parent still lists the frame that is gone.
PruneKeepingChildren(fs, gone) == [x \in DOMAIN fs \ gone |-> fs[x]]

\* The frames of gone leave the map and the child_frames of who stays.
Prune(fs, gone) ==
  [x \in DOMAIN fs \ gone |->
     [fs[x] EXCEPT !.children = {c \in @ : ~(c \in gone /\ fs[c].parent = x)}]]

RemoveRecursively(fs, f) == Prune(fs, Subtree(fs, f))

Attached(fs, f, p) ==
  IF f \in DOMAIN fs \/ p \notin DOMAIN fs THEN fs
  ELSE Put([fs EXCEPT ![p].children = @ \cup {f}], f, NewFrame(p))

\* Mutant: the frames below stay.
ChildNavigatedAlone(fs, f) == fs

\* A sub-frame has a new document: what was below it is gone.
ChildNavigated(fs, f) ==
  Update(Prune(fs, Subtree(fs, f) \ {f}), f, [fs[f] EXCEPT !.children = {}])

\* The main frame has a new document and perhaps a new id; its worlds, its
\* lifecycle and its request go with it.
MainNavigated(fs, main, f) ==
  IF main = NoFrame THEN Put(fs, f, NewFrame(NoFrame))
  ELSE Put(RemoveRecursively(fs, main), f, [fs[main] EXCEPT !.children = {}])

Root(tree) == CHOOSE f \in DOMAIN tree : tree[f] = NoFrame
ChildrenIn(tree, f) == {c \in DOMAIN tree : tree[c] = f}

\* The tree is walked from its root: every frame is attached to its parent.
TreeApplied(fs, main, tree) ==
  LET kept == MainNavigated(fs, main, Root(tree))
  IN [x \in DOMAIN kept \cup DOMAIN tree |->
        LET frame == IF x \in DOMAIN kept THEN kept[x] ELSE NewFrame(tree[x])
        IN IF x \in DOMAIN tree
           THEN [frame EXCEPT !.children = @ \cup ChildrenIn(tree, x)] ELSE frame]

IsLoaded(fs, f) == f \in DOMAIN fs /\ "load" \in fs[f].lifecycle

-----------------------------------------------------------------------------
(* Handlers of the Target *)

Take(type) == events # <<>> /\ Head(events).type = type /\ events' = Tail(events)
Got == Head(events)

OnFrameTree ==
  /\ Take("tree")
  /\ frames' = TreeApplied(frames, main_frame, Got.tree)
  /\ main_frame' = Root(Got.tree)
  /\ UNCHANGED <<context_ids, isolated_worlds>>

OnFrameAttached ==
  /\ Take("attached")
  /\ frames' = Attached(frames, Got.frame, Got.parent)
  /\ UNCHANGED <<main_frame, context_ids, isolated_worlds>>

\* The reason of the event is not looked at; main_frame stays even if it is the
\* frame that goes.
OnFrameDetached ==
  /\ Take("detached")
  /\ frames' = RemoveRecursively(frames, Got.frame)
  /\ UNCHANGED <<main_frame, context_ids, isolated_worlds>>

OnFrameNavigated ==
  /\ Take("navigated")
  /\ \/ /\ Got.parent # NoFrame
        /\ frames' = ChildNavigated(frames, Got.frame)
        /\ UNCHANGED main_frame
     \/ /\ Got.parent = NoFrame
        /\ frames' = MainNavigated(frames, main_frame, Got.frame)
        /\ main_frame' = Got.frame
  /\ UNCHANGED <<context_ids, isolated_worlds>>

\* The frame keeps its first utility world; the context is remembered either way.
OnContextCreated ==
  /\ Take("created")
  /\ LET f == Got.frame
     IN frames' = Update(frames, f, [frames[f] EXCEPT
          !.main_world = IF Got.world = "main" THEN Got.context ELSE @,
          !.secondary_world =
             IF Got.world = "util" /\ @ = NoContext THEN Got.context ELSE @])
  /\ context_ids' = IF Got.frame \in DOMAIN frames
                    THEN Put(context_ids, Got.context, Got.frame) ELSE context_ids
  /\ isolated_worlds' = (isolated_worlds \/ Got.world = "util")
  /\ UNCHANGED main_frame

\* Mutant: only the main world is looked at.
WithoutMainWorld(frame, c) ==
  IF frame.main_world = c THEN [frame EXCEPT !.main_world = NoContext] ELSE frame

Without(frame, c) ==
  IF frame.main_world = c THEN [frame EXCEPT !.main_world = NoContext]
  ELSE IF frame.secondary_world = c THEN [frame EXCEPT !.secondary_world = NoContext]
  ELSE frame

OnContextDestroyed ==
  /\ Take("destroyed")
  /\ LET c == Got.context
     IN IF c \in DOMAIN context_ids
        THEN /\ LET f == context_ids[c] IN frames' = Update(frames, f, Without(frames[f], c))
             /\ context_ids' = [d \in DOMAIN context_ids \ {c} |-> context_ids[d]]
        ELSE UNCHANGED <<frames, context_ids>>
  /\ UNCHANGED <<main_frame, isolated_worlds>>

OnContextsCleared ==
  /\ Take("cleared")
  /\ frames' = [f \in DOMAIN frames |->
       IF \E c \in DOMAIN context_ids : context_ids[c] = f
       THEN [frames[f] EXCEPT !.main_world = NoContext, !.secondary_world = NoContext]
       ELSE frames[f]]
  /\ context_ids' = <<>>
  /\ UNCHANGED <<main_frame, isolated_worlds>>

OnLifecycleEvent ==
  /\ Take("lifecycle")
  /\ LET f == Got.frame
     IN frames' = Update(frames, f, [frames[f] EXCEPT !.lifecycle =
                    IF Got.name = "init" THEN {"init"} ELSE @ \cup {Got.name}])
  /\ UNCHANGED <<main_frame, context_ids, isolated_worlds>>

OnStartedLoading ==
  /\ Take("started")
  /\ LET f == Got.frame
     IN frames' = Update(frames, f, [frames[f] EXCEPT !.lifecycle = {}, !.request = FALSE])
  /\ UNCHANGED <<main_frame, context_ids, isolated_worlds>>

\* The NetworkManager reports the end of a request of the frame.
OnHttpRequestFinished ==
  /\ Take("finished")
  /\ LET f == Got.frame
     IN frames' = Update(frames, f, [frames[f] EXCEPT !.request = TRUE])
  /\ UNCHANGED <<main_frame, context_ids, isolated_worlds>>

OnEvent ==
  /\ \/ OnFrameTree \/ OnFrameAttached \/ OnFrameDetached \/ OnFrameNavigated
     \/ OnContextCreated \/ OnContextDestroyed \/ OnContextsCleared
     \/ OnLifecycleEvent \/ OnStartedLoading \/ OnHttpRequestFinished
  /\ UNCHANGED <<worlds_asked, waiters, answered, pageVars>>

\* The chain of InitializingFrame is over: one command for new documents and one for
\* every frame there is, the first time.
EnsureIsolatedWorld ==
  /\ tree_sent /\ ~isolated_worlds
  /\ isolated_worlds' = TRUE /\ worlds_asked' = DOMAIN frames
  /\ UNCHANGED <<main_frame, frames, context_ids, waiters, answered, pageVars, events>>

\* TargetMessage::WaitForNavigation is read from the page channel.
OnWaitForNavigation ==
  /\ waiters + answered = 0
  /\ IF IsLoaded(frames, main_frame) THEN answered' = 1 /\ UNCHANGED waiters
                                     ELSE waiters' = 1 /\ UNCHANGED answered
  /\ UNCHANGED <<managerVars, worlds_asked, pageVars, events>>

\* Target::poll tells everyone who waits.
PollWaiters ==
  /\ waiters > 0 /\ IsLoaded(frames, main_frame)
  /\ answered' = answered + waiters /\ waiters' = 0
  /\ UNCHANGED <<managerVars, worlds_asked, pageVars, events>>

-----------------------------------------------------------------------------
(* The page.  Contexts of a frame are gone before its next document commits. *)

Emit(evs) ==
  /\ page_steps < MaxPageSteps /\ Len(events) + Len(evs) <= MaxInFlight
  /\ page_steps' = page_steps + 1 /\ events' = events \o evs
  /\ UNCHANGED <<managerVars, worlds_asked, waiters, answered>>

LiveIn(f) == {c \in DOMAIN contexts : contexts[c].live /\ contexts[c].frame = f}
Killed(dead) == [c \in DOMAIN contexts |-> [contexts[c] EXCEPT !.live = @ /\ c \notin dead]]

Below(f) == {x \in DOMAIN page : \A S \in SUBSET DOMAIN page :
               (f \in S /\ \A y \in DOMAIN page : page[y] \in S => y \in S) => x \in S}

\* Frames leave the page, their contexts with them.
Leave(gone) ==
  /\ page' = [x \in DOMAIN page \ gone |-> page[x]]
  /\ contexts' = Killed(UNION {LiveIn(x) : x \in gone})

PageSendsTree ==
  /\ ~tree_sent /\ tree_sent' = TRUE
  /\ Emit(<<[type |-> "tree", tree |-> page]>>)
  /\ UNCHANGED <<page, contexts>>

PageAttaches(f, p) ==
  /\ f \notin DOMAIN page /\ p \in DOMAIN page
  /\ page' = Put(page, f, p)
  /\ Emit(<<[type |-> "attached", frame |-> f, parent |-> p]>>)
  /\ UNCHANGED <<contexts, tree_sent>>

PageDetaches(f) ==
  /\ f \in DOMAIN page /\ page[f] # NoFrame
  /\ Leave(Below(f))
  /\ Emit(<<[type |-> "detached", frame |-> f]>>)
  /\ UNCHANGED tree_sent

PageNavigatesChild(f) ==
  /\ f \in DOMAIN page /\ page[f] # NoFrame /\ LiveIn(f) = {}
  /\ Leave(Below(f) \ {f})
  /\ Emit(<<[type |-> "navigated", frame |-> f, parent |-> page[f]]>>)
  /\ UNCHANGED tree_sent

\* The main frame commits a document, under its id or a new one.
PageNavigates(f) ==
  /\ f = Root(page) \/ f \notin DOMAIN page
  /\ \A g \in DOMAIN page : LiveIn(g) = {}
  /\ page' = [x \in {f} |-> NoFrame]
  /\ Emit(<<[type |-> "navigated", frame |-> f, parent |-> NoFrame]>>)
  /\ UNCHANGED <<contexts, tree_sent>>

PageCreatesContext(c, f, w) ==
  /\ c \notin DOMAIN contexts /\ f \in DOMAIN page
  /\ \A d \in LiveIn(f) : contexts[d].world # w
  /\ contexts' = Put(contexts, c, [frame |-> f, world |-> w, live |-> TRUE])
  /\ Emit(<<[type |-> "created", context |-> c, frame |-> f, world |-> w]>>)
  /\ UNCHANGED <<page, tree_sent>>

PageDestroysContext(c) ==
  /\ c \in DOMAIN contexts /\ contexts[c].live
  /\ contexts' = Killed({c})
  /\ Emit(<<[type |-> "destroyed", context |-> c]>>)
  /\ UNCHANGED <<page, tree_sent>>

PageClearsContexts ==
  /\ contexts' = Killed(DOMAIN contexts)
  /\ Emit(<<[type |-> "cleared"]>>)
  /\ UNCHANGED <<page, tree_sent>>

\* Loading of the main frame.
PageReports(type, name) ==
  /\ Emit(<<[type |-> type, frame |-> Root(page), name |-> name]>>)
  /\ UNCHANGED <<page, contexts, tree_sent>>

PageStep ==
  \/ PageSendsTree \/ PageClearsContexts
  \/ \E f \in SubFrames : PageDetaches(f) \/ PageNavigatesChild(f)
                            \/ \E p \in FrameIds : PageAttaches(f, p)
  \/ \E f \in {FirstMain} \cup OtherMains : PageNavigates(f)
  \/ \E c \in Contexts : PageDestroysContext(c)
       \/ \E f \in FrameIds, w \in {"main", "util"} : PageCreatesContext(c, f, w)
  \/ PageReports("lifecycle", "init") \/ PageReports("lifecycle", "load")
  \/ PageReports("started", "") \/ PageReports("finished", "")

FrameInit ==
  /\ main_frame = NoFrame /\ frames = <<>> /\ context_ids = <<>>
  /\ isolated_worlds = FALSE /\ worlds_asked = {} /\ waiters = 0 /\ answered = 0
  /\ page = [f \in {FirstMain} |-> NoFrame] /\ contexts = <<>> /\ events = <<>>
  /\ tree_sent = FALSE /\ page_steps = 0

FrameNext == OnEvent \/ EnsureIsolatedWorld \/ OnWaitForNavigation \/ PollWaiters \/ PageStep

FrameSpec == FrameInit /\ [][FrameNext]_frameVars

-----------------------------------------------------------------------------
(* Properties *)

FrameRecord == [parent : FrameIds \cup {NoFrame}, children : SUBSET FrameIds,
                main_world : Contexts \cup {NoContext},
                secondary_world : Contexts \cup {NoContext},
                lifecycle : SUBSET {"init", "load"}, request : BOOLEAN]

FrameTypeOK ==
  /\ main_frame \in FrameIds \cup {NoFrame}
  /\ DOMAIN frames \subseteq FrameIds /\ \A f \in DOMAIN frames : frames[f] \in FrameRecord
  /\ DOMAIN context_ids \subseteq Contexts
  /\ \A c \in DOMAIN context_ids : context_ids[c] \in FrameIds
  /\ isolated_worlds \in BOOLEAN /\ worlds_asked \subseteq FrameIds
  /\ waiters \in Nat /\ answered \in Nat

\* Whatever events arrive, parents and children agree in both directions and the main
\* frame is tracked and has no parent: removing a subtree leaves no orphan and no
\* dangling child, and a later navigation finds the main frame it expects.
TreeIsWellFormed ==
  /\ main_frame # NoFrame => main_frame \in DOMAIN frames
  /\ \A f \in DOMAIN frames :
       /\ (f = main_frame) <=> (frames[f].parent = NoFrame)
       /\ frames[f].parent # NoFrame =>
            frames[f].parent \in DOMAIN frames /\ f \in frames[frames[f].parent].children
       /\ \A c \in frames[f].children : c \in DOMAIN frames /\ frames[c].parent = f

\* Once the tree is known and the events have been handled the manager tracks exactly
\* the page's frames, whatever came before and around the answer to getFrameTree.
TreeMirrorsPage ==
  tree_sent /\ events = <<>> =>
    main_frame = Root(page) /\ page = [f \in DOMAIN frames |-> frames[f].parent]

\* GetExecutionContext hands out no context that is gone: after the events have been
\* handled a frame's worlds show live contexts of that frame, whether they ended one by
\* one or all at once and whatever became of the frame's place in the tree.
ContextsAreLive ==
  tree_sent /\ events = <<>> =>
    \A f \in DOMAIN frames :
      {frames[f].main_world, frames[f].secondary_world} \subseteq LiveIn(f) \cup {NoContext}
=============================================================================
