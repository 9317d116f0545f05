--------------------------- MODULE FrameTreeProofs ---------------------------
(***************************************************************************)
(* FrameTree keeps its types and a well-formed tree, and once the events   *)
(* are handled it mirrors the page's tree and shows only live contexts,    *)
(* for every set of frames and contexts and every length of a run.         *)
(*                                                                         *)
(* The proof looks at a tree as the map from frames to their parents, so   *)
(* that the manager's frames and the page's are one kind of thing.  That   *)
(* every frame is below the root (IsTree) is what the invariant adds: else *)
(* a subtree that is removed could be its own ancestor, and the answer to  *)
(* getFrameTree could meet frames of an older document.                    *)
(*                                                                         *)
(* That the manager mirrors the page when no event is left is not          *)
(* inductive: with events on their way it is behind.  HInv says where it   *)
(* is: the page went through one moment per event on its way (History), a  *)
(* moment being its tree and its live contexts, and the manager mirrors    *)
(* the first of them.  A handler moves it to the next; the page adds one.  *)
(***************************************************************************)
EXTENDS FrameTree, TLAPS

Mains == {FirstMain} \cup OtherMains

\* S has everything whose parent it has.
Closed(t, S) == \A y \in DOMAIN t : t[y] \in S => y \in S

\* t maps frames to parents and r is its root; without a root it is empty.
IsTree(t, r) ==
  /\ DOMAIN t \subseteq FrameIds
  /\ r # NoFrame => r \in DOMAIN t /\ r \in Mains
  /\ \A x \in DOMAIN t : (x = r) <=> (t[x] = NoFrame)
  /\ \A x \in DOMAIN t : t[x] # NoFrame => t[x] \in DOMAIN t /\ x \in SubFrames
  /\ \A S \in SUBSET DOMAIN t : (r \in DOMAIN t => r \in S) /\ Closed(t, S) => S = DOMAIN t

DownFrom(t, f) ==
  {x \in DOMAIN t : \A S \in SUBSET DOMAIN t : f \in S /\ Closed(t, S) => x \in S}

Cut(t, gone) == [x \in DOMAIN t \ gone |-> t[x]]

Parents(fs) == [x \in DOMAIN fs |-> fs[x].parent]

FrameMap(fs) == DOMAIN fs \subseteq FrameIds /\ \A f \in DOMAIN fs : fs[f] \in FrameRecord

Sound(fs, main) ==
  /\ FrameMap(fs) /\ IsTree(Parents(fs), main)
  /\ \A f \in DOMAIN fs : fs[f].children = {c \in DOMAIN fs : fs[c].parent = f}

-----------------------------------------------------------------------------
(* Maps of parents *)

LEMMA UnderHas ==
  ASSUME NEW t, NEW f \in DOMAIN t PROVE f \in DownFrom(t, f)
BY DEF DownFrom

LEMMA UnderClosed ==
  ASSUME NEW t, NEW f, NEW y \in DOMAIN t, t[y] \in DownFrom(t, f) PROVE y \in DownFrom(t, f)
<1> SUFFICES ASSUME NEW S \in SUBSET DOMAIN t, f \in S, Closed(t, S) PROVE y \in S
  BY DEF DownFrom
<1>1. t[y] \in S
  BY DEF DownFrom
<1> QED BY <1>1 DEF Closed

LEMMA UnderLeast ==
  ASSUME NEW t, NEW f, NEW S \in SUBSET DOMAIN t, f \in S, Closed(t, S)
  PROVE DownFrom(t, f) \subseteq S
BY DEF DownFrom

LEMMA RootNotUnder ==
  ASSUME NEW t, NEW r, IsTree(t, r), NEW f \in DOMAIN t, f # r PROVE r \notin DownFrom(t, f)
<1> DEFINE S == DOMAIN t \ {r}
<1>1. \A y \in DOMAIN t : t[y] \in S => y # r
  BY FrameAssumption DEF IsTree
<1>2. Closed(t, S)
  BY <1>1 DEF Closed
<1>3. DownFrom(t, f) \subseteq S
  BY <1>2, UnderLeast
<1> QED BY <1>3

\* What is below f is so through its parent.
LEMMA ParentUnder ==
  ASSUME NEW t, NEW f \in DOMAIN t, NEW c \in DownFrom(t, f), c # f PROVE t[c] \in DownFrom(t, f)
<1> SUFFICES ASSUME t[c] \notin DownFrom(t, f) PROVE FALSE
  OBVIOUS
<1> DEFINE S == DownFrom(t, f) \ {c}
<1>1. S \subseteq DOMAIN t
  BY DEF DownFrom
<1>2. Closed(t, S)
  BY UnderClosed DEF Closed
<1>3. f \in S
  BY UnderHas
<1>4. DownFrom(t, f) \subseteq S
  BY <1>1, <1>2, <1>3, UnderLeast
<1> QED BY <1>4

\* Nothing is below itself.
LEMMA NoCycle ==
  ASSUME NEW t, NEW r, IsTree(t, r), NEW f \in DOMAIN t, f # r PROVE t[f] \notin DownFrom(t, f)
<1> SUFFICES ASSUME t[f] \in DownFrom(t, f) PROVE FALSE
  OBVIOUS
<1> DEFINE S == DOMAIN t \ DownFrom(t, f)
<1>1. r \in DOMAIN t => r \in S
  BY RootNotUnder
<1>2. Closed(t, S)
  <2> SUFFICES ASSUME NEW y \in DOMAIN t, t[y] \in S, y \in DownFrom(t, f) PROVE FALSE
    BY DEF Closed
  <2>1. y # f => t[y] \in DownFrom(t, f)
    BY ParentUnder
  <2> QED BY <2>1
<1>3. S = DOMAIN t
  BY <1>1, <1>2 DEF IsTree
<1> QED BY <1>3, UnderHas

LEMMA AllUnderRoot ==
  ASSUME NEW t, NEW r \in DOMAIN t, IsTree(t, r) PROVE DownFrom(t, r) = DOMAIN t
<1>1. DownFrom(t, r) \in SUBSET DOMAIN t
  BY DEF DownFrom
<1>2. Closed(t, DownFrom(t, r))
  BY UnderClosed DEF Closed
<1> QED BY <1>1, <1>2, UnderHas DEF IsTree

\* A tree stays one without a part that is closed.
LEMMA TreeWithout ==
  ASSUME NEW t, NEW r, IsTree(t, r), NEW gone, r \notin gone, Closed(t, gone)
  PROVE IsTree(Cut(t, gone), r)
<1> DEFINE u == Cut(t, gone)
<1>1. DOMAIN u = DOMAIN t \ gone /\ \A x \in DOMAIN u : u[x] = t[x]
  BY DEF Cut
<1>2. \A x \in DOMAIN u : u[x] # NoFrame => u[x] \in DOMAIN u /\ x \in SubFrames
  BY <1>1 DEF IsTree, Closed
<1>3. ASSUME NEW S \in SUBSET DOMAIN u, r \in DOMAIN u => r \in S, Closed(u, S)
      PROVE S = DOMAIN u
  <2> DEFINE all == S \cup (gone \cap DOMAIN t)
  <2>1. r \in DOMAIN t => r \in all
    BY <1>1, <1>3
  <2>2. Closed(t, all)
    BY <1>1, <1>3 DEF Closed
  <2>3. all = DOMAIN t
    BY <2>1, <2>2, <1>1 DEF IsTree
  <2> QED BY <2>3, <1>1
<1>4. r # NoFrame => r \in DOMAIN u /\ r \in Mains
  BY <1>1 DEF IsTree
<1>5. \A x \in DOMAIN u : (x = r) <=> (u[x] = NoFrame)
  BY <1>1 DEF IsTree
<1>6. DOMAIN u \subseteq FrameIds
  BY <1>1 DEF IsTree
<1> HIDE DEF u
<1>7. IsTree(u, r)
  BY <1>2, <1>3, <1>4, <1>5, <1>6 DEF IsTree
<1> QED BY <1>7 DEF u

LEMMA OneIsTree ==
  ASSUME NEW t, NEW f \in Mains, DOMAIN t = {f}, t[f] = NoFrame PROVE IsTree(t, f)
BY FrameAssumption DEF IsTree, Mains, FrameIds

LEMMA NoneIsTree ==
  ASSUME NEW t, DOMAIN t = {} PROVE IsTree(t, NoFrame)
BY DEF IsTree

\* A new leaf.
LEMMA TreeWith ==
  ASSUME NEW t, NEW r, IsTree(t, r), NEW f \in SubFrames, f \notin DOMAIN t,
         NEW p \in DOMAIN t, NEW u, DOMAIN u = DOMAIN t \cup {f}, u[f] = p,
         \A x \in DOMAIN t : u[x] = t[x]
  PROVE IsTree(u, r)
<1>1. ASSUME NEW S \in SUBSET DOMAIN u, r \in DOMAIN u => r \in S, Closed(u, S)
      PROVE S = DOMAIN u
  <2>1. Closed(t, S \cap DOMAIN t)
    BY <1>1 DEF Closed
  <2>2. S \cap DOMAIN t = DOMAIN t
    BY <2>1, <1>1 DEF IsTree
  <2>3. f \in S
    BY <2>2, <1>1 DEF Closed
  <2> QED BY <2>2, <2>3
<1>2. p # NoFrame /\ f # r
  BY FrameAssumption DEF IsTree, Mains, FrameIds
<1>3. \A x \in DOMAIN u : (x = r) <=> (u[x] = NoFrame)
  BY <1>2 DEF IsTree
<1>4. \A x \in DOMAIN u : u[x] # NoFrame => u[x] \in DOMAIN u /\ x \in SubFrames
  BY DEF IsTree
<1>5. DOMAIN u \subseteq FrameIds
  BY DEF IsTree, FrameIds
<1>6. r # NoFrame => r \in DOMAIN u /\ r \in Mains
  BY DEF IsTree
<1> QED BY <1>1, <1>3, <1>4, <1>5, <1>6 DEF IsTree

-----------------------------------------------------------------------------
(* The manager's frames *)

LEMMA SoundFacts ==
  ASSUME NEW fs, NEW main, Sound(fs, main)
  PROVE /\ DOMAIN Parents(fs) = DOMAIN fs
        /\ \A x \in DOMAIN fs : Parents(fs)[x] = fs[x].parent
        /\ \A x \in DOMAIN fs : fs[x].children \subseteq DOMAIN fs
        /\ \A x, c \in DOMAIN fs : c \in fs[x].children <=> fs[c].parent = x
BY DEF Sound, Parents

LEMMA SubtreeIsUnder ==
  ASSUME NEW fs, NEW main, Sound(fs, main), NEW f \in DOMAIN fs
  PROVE Subtree(fs, f) = DownFrom(Parents(fs), f)
<1> DEFINE t == Parents(fs)
<1>1. \A S \in SUBSET DOMAIN fs :
        (\A y \in S : fs[y].children \cap DOMAIN fs \subseteq S) <=> Closed(t, S)
  BY SoundFacts DEF Closed
<1>2. DOMAIN t = DOMAIN fs
  BY SoundFacts
<1> HIDE DEF t
<1>3. Subtree(fs, f) = DownFrom(t, f)
  BY <1>1, <1>2 DEF Subtree, DownFrom
<1> QED BY <1>3 DEF t

LEMMA NoSubtree ==
  ASSUME NEW fs, NEW f, f \notin DOMAIN fs PROVE Subtree(fs, f) = {}
BY DEF Subtree

\* Frames without a part of the tree that is closed.
LEMMA PruneSound ==
  ASSUME NEW fs, NEW main, Sound(fs, main), NEW gone, main \notin gone,
         Closed(Parents(fs), gone)
  PROVE Sound(Prune(fs, gone), main)
<1> DEFINE gs == Prune(fs, gone)
<1>1. DOMAIN gs = DOMAIN fs \ gone
  BY DEF Prune
<1>2. \A x \in DOMAIN gs :
        gs[x] = [fs[x] EXCEPT !.children = {c \in @ : ~(c \in gone /\ fs[c].parent = x)}]
  BY DEF Prune
<1>3. \A x \in DOMAIN gs : fs[x] \in FrameRecord
  BY <1>1 DEF Sound, FrameMap
<1>4. \A x \in DOMAIN gs : gs[x] \in FrameRecord /\ gs[x].parent = fs[x].parent
                           /\ gs[x].children = {c \in fs[x].children : ~(c \in gone /\ fs[c].parent = x)}
  BY <1>2, <1>3 DEF FrameRecord
<1>5. \A x \in DOMAIN gs : gs[x].children = {c \in DOMAIN gs : gs[c].parent = x}
  <2> TAKE x \in DOMAIN gs
  <2>1. gs[x].children = {c \in DOMAIN fs : fs[c].parent = x /\ c \notin gone}
    BY <1>1, <1>4, SoundFacts
  <2> QED BY <2>1, <1>1, <1>4
<1>6. Parents(gs) = Cut(Parents(fs), gone)
  BY <1>1, <1>4 DEF Parents, Cut
<1>7. IsTree(Parents(gs), main)
  BY <1>6, TreeWithout DEF Sound
<1>8. FrameMap(gs)
  BY <1>1, <1>4 DEF Sound, FrameMap
<1> HIDE DEF gs
<1>9. Sound(gs, main)
  BY <1>5, <1>7, <1>8 DEF Sound
<1> QED BY <1>9 DEF gs

\* The same frames with the same places in the tree.
LEMMA SamePlaces ==
  ASSUME NEW fs, NEW main, Sound(fs, main), NEW gs, DOMAIN gs = DOMAIN fs,
         \A x \in DOMAIN fs : gs[x] \in FrameRecord /\ gs[x].parent = fs[x].parent
                              /\ gs[x].children = fs[x].children
  PROVE Sound(gs, main)
<1>1. Parents(gs) = Parents(fs)
  BY DEF Parents
<1>2. FrameMap(gs)
  BY DEF Sound, FrameMap
<1>3. \A f \in DOMAIN gs : gs[f].children = {c \in DOMAIN gs : gs[c].parent = f}
  BY DEF Sound
<1> QED BY <1>1, <1>2, <1>3 DEF Sound

LEMMA UpdateSound ==
  ASSUME NEW fs, NEW main, Sound(fs, main), NEW f, NEW frame,
         f \in DOMAIN fs => /\ frame \in FrameRecord /\ frame.parent = fs[f].parent
                            /\ frame.children = fs[f].children
  PROVE Sound(Update(fs, f, frame), main)
<1>1. CASE f \notin DOMAIN fs
  BY <1>1 DEF Update
<1>2. CASE f \in DOMAIN fs
  <2> DEFINE gs == [fs EXCEPT ![f] = frame]
  <2>1. DOMAIN gs = DOMAIN fs
    OBVIOUS
  <2>2. \A x \in DOMAIN fs : fs[x] \in FrameRecord
    BY DEF Sound, FrameMap
  <2>3. \A x \in DOMAIN fs : gs[x] \in FrameRecord /\ gs[x].parent = fs[x].parent
                             /\ gs[x].children = fs[x].children
    BY <1>2, <2>2
  <2> HIDE DEF gs
  <2>4. Sound(gs, main)
    BY <2>1, <2>3, SamePlaces
  <2> QED BY <1>2, <2>4 DEF Update, gs
<1> QED BY <1>1, <1>2

\* OnFrameDetached
LEMMA RemoveSound ==
  ASSUME NEW fs, NEW main, Sound(fs, main), NEW f \in SubFrames
  PROVE Sound(RemoveRecursively(fs, f), main)
<1> DEFINE t == Parents(fs)
<1>1. CASE f \notin DOMAIN fs
  <2>1. main \notin {} /\ Closed(t, {})
    BY DEF Closed
  <2>2. Sound(Prune(fs, {}), main)
    BY <2>1, PruneSound
  <2> QED BY <1>1, <2>2, NoSubtree DEF RemoveRecursively
<1>2. CASE f \in DOMAIN fs
  <2>1. Subtree(fs, f) = DownFrom(t, f)
    BY <1>2, SubtreeIsUnder
  <2>2. IsTree(t, main) /\ f \in DOMAIN t /\ f # main
    BY <1>2, SoundFacts, FrameAssumption DEF Sound, IsTree, Mains, FrameIds
  <2>3. main \notin DownFrom(t, f) /\ Closed(t, DownFrom(t, f))
    BY <2>2, RootNotUnder, UnderClosed DEF Closed
  <2> QED BY <2>1, <2>3, PruneSound DEF RemoveRecursively
<1> QED BY <1>1, <1>2

\* OnFrameNavigated, a sub-frame.  What the code clears has been removed before.
LEMMA ChildNavigatedSound ==
  ASSUME NEW fs, NEW main, Sound(fs, main), NEW f \in SubFrames
  PROVE Sound(ChildNavigated(fs, f), main)
<1> DEFINE t == Parents(fs)
           gone == Subtree(fs, f) \ {f}
           gs == Prune(fs, gone)
<1>1. CASE f \notin DOMAIN fs
  <2>1. gone = {}
    BY <1>1, NoSubtree
  <2>2. Closed(t, gone) /\ main \notin gone
    BY <2>1 DEF Closed
  <2>3. Sound(gs, main)
    BY <2>2, PruneSound
  <2>4. f \notin DOMAIN gs
    BY <1>1 DEF Prune
  <2> QED BY <2>3, <2>4 DEF ChildNavigated, Update
<1>2. CASE f \in DOMAIN fs
  <2>1. Subtree(fs, f) = DownFrom(t, f)
    BY <1>2, SubtreeIsUnder
  <2>2. IsTree(t, main) /\ f \in DOMAIN t /\ f # main
    BY <1>2, SoundFacts, FrameAssumption DEF Sound, IsTree, Mains, FrameIds
  <2>3. main \notin DownFrom(t, f) /\ t[f] \notin DownFrom(t, f)
    BY <2>2, RootNotUnder, NoCycle
  <2>4. Closed(t, gone)
    BY <2>1, <2>3, UnderClosed DEF Closed
  <2>5. Sound(gs, main)
    BY <2>1, <2>3, <2>4, PruneSound
  <2>6. DOMAIN gs = DOMAIN fs \ gone /\ f \in DOMAIN gs
    BY <1>2 DEF Prune
  <2>7. \A c \in DOMAIN fs : fs[c].parent = f => c \in gone
    <3> TAKE c \in DOMAIN fs
    <3> HAVE fs[c].parent = f
    <3>1. t[c] = f /\ c \in DOMAIN t /\ f \in DownFrom(t, f)
      BY <2>2, SoundFacts, UnderHas
    <3>2. c \in DownFrom(t, f)
      BY <3>1, UnderClosed
    <3> QED BY <2>1, <2>3, <3>1, <3>2
  <2>8. gs[f] \in FrameRecord /\ gs[f].parent = fs[f].parent /\ fs[f] \in FrameRecord
    <3>1. fs[f] \in FrameRecord
      BY <1>2 DEF Sound, FrameMap
    <3> QED BY <2>6, <3>1 DEF Prune, FrameRecord
  <2>9. gs[f].children = {}
    <3>1. gs[f].children = {c \in DOMAIN gs : gs[c].parent = f}
      BY <2>5, <2>6 DEF Sound
    <3>2. gs[f].children \subseteq fs[f].children
      BY <2>6, <2>8 DEF Prune, FrameRecord
    <3>3. ASSUME NEW c \in gs[f].children PROVE FALSE
      <4>1. c \in DOMAIN gs /\ c \in fs[f].children
        BY <3>1, <3>2
      <4>2. fs[c].parent = f
        BY <1>2, <2>6, <4>1, SoundFacts
      <4> QED BY <2>6, <2>7, <4>1, <4>2
    <3> QED BY <3>3
  <2>10. Sound(Update(gs, f, [fs[f] EXCEPT !.children = {}]), main)
    <3> DEFINE frame == [fs[f] EXCEPT !.children = {}]
    <3>1. frame \in FrameRecord /\ frame.parent = gs[f].parent /\ frame.children = gs[f].children
      BY <2>8, <2>9 DEF FrameRecord
    <3> HIDE DEF frame, gs
    <3>2. Sound(Update(gs, f, frame), main)
      BY <2>5, <3>1, UpdateSound
    <3> QED BY <3>2 DEF frame
  <2> QED BY <2>10 DEF ChildNavigated
<1> QED BY <1>1, <1>2

\* A single frame, the main one.
LEMMA OneIsSound ==
  ASSUME NEW gs, NEW f \in Mains, DOMAIN gs = {f}, gs[f] \in FrameRecord,
         gs[f].parent = NoFrame, gs[f].children = {}
  PROVE Sound(gs, f)
<1>1. DOMAIN Parents(gs) = {f} /\ Parents(gs)[f] = NoFrame
  BY DEF Parents
<1>2. IsTree(Parents(gs), f)
  BY <1>1, OneIsTree
<1>3. f # NoFrame
  BY FrameAssumption DEF Mains, FrameIds
<1>4. FrameMap(gs)
  BY DEF FrameMap, Mains, FrameIds
<1>5. \A x \in DOMAIN gs : gs[x].children = {c \in DOMAIN gs : gs[c].parent = x}
  BY <1>3
<1> QED BY <1>2, <1>4, <1>5 DEF Sound

LEMMA NewFrameType ==
  ASSUME NEW q \in FrameIds \cup {NoFrame}
  PROVE /\ NewFrame(q) \in FrameRecord
        /\ NewFrame(q).parent = q /\ NewFrame(q).children = {}
BY DEF NewFrame, FrameRecord

\* OnFrameNavigated, the main frame: it is the only one afterwards.
LEMMA MainNavigatedIsOne ==
  ASSUME NEW fs, NEW main, Sound(fs, main), NEW f \in Mains
  PROVE /\ DOMAIN MainNavigated(fs, main, f) = {f}
        /\ MainNavigated(fs, main, f)[f] \in FrameRecord
        /\ MainNavigated(fs, main, f)[f].parent = NoFrame
        /\ MainNavigated(fs, main, f)[f].children = {}
<1> DEFINE gs == MainNavigated(fs, main, f)
           t == Parents(fs)
<1>1. CASE main = NoFrame
  <2>1. DOMAIN t = {}
    <3>1. main \notin DOMAIN t
      BY <1>1, FrameAssumption DEF Sound, IsTree
    <3>2. Closed(t, {})
      BY DEF Closed
    <3> QED BY <3>1, <3>2 DEF Sound, IsTree
  <2>2. DOMAIN fs = {}
    BY <2>1, SoundFacts
  <2>3. DOMAIN gs = {f} /\ gs[f] = NewFrame(NoFrame)
    BY <1>1, <2>2 DEF MainNavigated, Put
  <2> QED BY <2>3, NewFrameType
<1>2. CASE main # NoFrame
  <2>1. main \in DOMAIN fs /\ IsTree(t, main)
    BY <1>2, SoundFacts DEF Sound, IsTree
  <2>2. Subtree(fs, main) = DOMAIN fs
    BY <2>1, SubtreeIsUnder, AllUnderRoot, SoundFacts
  <2>3. DOMAIN RemoveRecursively(fs, main) = {}
    BY <2>2 DEF RemoveRecursively, Prune
  <2>4. DOMAIN gs = {f} /\ gs[f] = [fs[main] EXCEPT !.children = {}]
    BY <1>2, <2>3 DEF MainNavigated, Put
  <2>5. fs[main] \in FrameRecord
    BY <2>1 DEF Sound, FrameMap
  <2>6. fs[main].parent = NoFrame
    BY <2>1, SoundFacts DEF IsTree
  <2> QED BY <2>4, <2>5, <2>6 DEF FrameRecord
<1> QED BY <1>1, <1>2

LEMMA RootIsUnique ==
  ASSUME NEW t, NEW r, IsTree(t, r), r # NoFrame
  PROVE Root(t) = r
<1>1. r \in DOMAIN t /\ t[r] = NoFrame
  BY DEF IsTree
<1>2. Root(t) \in DOMAIN t /\ t[Root(t)] = NoFrame
  BY <1>1 DEF Root
<1> QED BY <1>2 DEF IsTree

\* OnFrameTree: the frames become those of the answer.
LEMMA TreeAppliedSound ==
  ASSUME NEW fs, NEW main, Sound(fs, main), NEW t, NEW r, IsTree(t, r), r # NoFrame,
         t = [x \in DOMAIN t |-> t[x]]
  PROVE Sound(TreeApplied(fs, main, t), r)
<1> DEFINE kept == MainNavigated(fs, main, r)
           gs == TreeApplied(fs, main, t)
<1>1. Root(t) = r /\ r \in DOMAIN t /\ r \in Mains /\ t[r] = NoFrame
  BY RootIsUnique DEF IsTree
<1>2. /\ DOMAIN kept = {r} /\ kept[r] \in FrameRecord
      /\ kept[r].parent = NoFrame /\ kept[r].children = {}
  BY <1>1, MainNavigatedIsOne
<1> HIDE DEF kept
<1>3. DOMAIN gs = DOMAIN t
  BY <1>1, <1>2 DEF TreeApplied, kept
<1>4. \A x \in DOMAIN t : gs[x] =
        LET frame == IF x = r THEN kept[r] ELSE NewFrame(t[x])
        IN [frame EXCEPT !.children = @ \cup ChildrenIn(t, x)]
  BY <1>1, <1>2 DEF TreeApplied, kept
<1> HIDE DEF gs
<1>5. ASSUME NEW x \in DOMAIN t
      PROVE gs[x] \in FrameRecord /\ gs[x].parent = t[x] /\ gs[x].children = ChildrenIn(t, x)
  <2> DEFINE frame == IF x = r THEN kept[r] ELSE NewFrame(t[x])
  <2>1. t[x] \in FrameIds \cup {NoFrame}
    BY DEF IsTree
  <2>2. frame \in FrameRecord /\ frame.parent = t[x] /\ frame.children = {}
    BY <1>1, <1>2, <2>1, NewFrameType
  <2>3. ChildrenIn(t, x) \in SUBSET FrameIds
    BY DEF ChildrenIn, IsTree
  <2>4. gs[x] = [frame EXCEPT !.children = @ \cup ChildrenIn(t, x)]
    BY <1>4
  <2> HIDE DEF frame
  <2> QED BY <2>2, <2>3, <2>4 DEF FrameRecord
<1>6. Parents(gs) = t
  BY <1>3, <1>5 DEF Parents
<1>7. \A x \in DOMAIN gs : gs[x].children = {c \in DOMAIN gs : gs[c].parent = x}
  BY <1>3, <1>5 DEF ChildrenIn
<1>8. FrameMap(gs)
  BY <1>3, <1>5 DEF FrameMap, IsTree
<1>9. Sound(gs, r)
  BY <1>6, <1>7, <1>8 DEF Sound
<1> QED BY <1>9 DEF gs

\* OnFrameAttached
LEMMA AttachedSound ==
  ASSUME NEW fs, NEW main, Sound(fs, main), NEW f \in SubFrames, NEW p
  PROVE Sound(Attached(fs, f, p), main)
<1> DEFINE gs == Attached(fs, f, p)
<1>1. CASE f \in DOMAIN fs \/ p \notin DOMAIN fs
  BY <1>1 DEF Attached
<1>2. CASE f \notin DOMAIN fs /\ p \in DOMAIN fs
  <2>1. p \in FrameIds /\ f \in FrameIds
    BY <1>2 DEF Sound, FrameMap, FrameIds
  <2>2. NewFrame(p) \in FrameRecord /\ NewFrame(p).parent = p /\ NewFrame(p).children = {}
    BY <2>1, NewFrameType
  <2>3. /\ DOMAIN gs = DOMAIN fs \cup {f} /\ gs[f] = NewFrame(p)
        /\ \A x \in DOMAIN fs : x # p => gs[x] = fs[x]
        /\ gs[p] = [fs[p] EXCEPT !.children = @ \cup {f}]
    BY <1>2 DEF Attached, Put
  <2> HIDE DEF gs
  <2>4. \A x \in DOMAIN fs : fs[x] \in FrameRecord
    BY DEF Sound, FrameMap
  <2>5. gs[p] \in FrameRecord /\ gs[p].parent = fs[p].parent
        /\ gs[p].children = fs[p].children \cup {f}
    BY <1>2, <2>1, <2>3, <2>4 DEF FrameRecord
  <2>6. \A x \in DOMAIN fs : gs[x] \in FrameRecord /\ gs[x].parent = fs[x].parent
    BY <2>3, <2>4, <2>5
  <2>7. FrameMap(gs)
    BY <2>1, <2>2, <2>3, <2>6 DEF FrameMap, Sound
  <2>8. IsTree(Parents(gs), main)
    <3>1. DOMAIN Parents(gs) = DOMAIN Parents(fs) \cup {f} /\ Parents(gs)[f] = p
      BY <2>2, <2>3 DEF Parents
    <3>2. \A x \in DOMAIN Parents(fs) : Parents(gs)[x] = Parents(fs)[x]
      BY <2>3, <2>6 DEF Parents
    <3>3. f \notin DOMAIN Parents(fs) /\ p \in DOMAIN Parents(fs)
      BY <1>2 DEF Parents
    <3> QED BY <3>1, <3>2, <3>3, TreeWith DEF Sound
  <2>9. ASSUME NEW x \in DOMAIN gs
        PROVE gs[x].children = {c \in DOMAIN gs : gs[c].parent = x}
    <3>1. CASE x = f
      <4>1. \A c \in DOMAIN fs : fs[c].parent # f
        <5>1. \A c \in DOMAIN fs : fs[c].parent \in DOMAIN fs \cup {NoFrame}
          BY SoundFacts DEF Sound, IsTree
        <5> QED BY <1>2, <2>1, <5>1, FrameAssumption
      <4>2. p # f
        BY <1>2
      <4> QED BY <2>2, <2>3, <2>6, <3>1, <4>1, <4>2
    <3>2. CASE x = p
      <4>1. fs[p].children = {c \in DOMAIN fs : fs[c].parent = p}
        BY <1>2 DEF Sound
      <4> QED BY <2>2, <2>3, <2>5, <2>6, <3>2, <4>1
    <3>3. CASE x # f /\ x # p
      <4>1. x \in DOMAIN fs /\ gs[x] = fs[x]
        BY <2>3, <3>3
      <4>2. fs[x].children = {c \in DOMAIN fs : fs[c].parent = x}
        BY <4>1 DEF Sound
      <4> QED BY <2>2, <2>3, <2>6, <3>3, <4>1, <4>2
    <3> QED BY <3>1, <3>2, <3>3
  <2>10. Sound(gs, main)
    BY <2>7, <2>8, <2>9 DEF Sound
  <2> QED BY <2>10 DEF gs
<1> QED BY <1>1, <1>2

-----------------------------------------------------------------------------
(* The invariant: the manager's tree, the page's tree and every tree and frame that an
   event on its way speaks of. *)

PageMap(t) == t = [x \in DOMAIN t |-> t[x]] /\ \E r \in Mains : IsTree(t, r)
Trees == {t \in UNION {[D -> FrameIds \cup {NoFrame}] : D \in SUBSET FrameIds} : PageMap(t)}

TreeEvent ==
  [type : {"tree"}, tree : Trees]
  \cup [type : {"attached"}, frame : SubFrames, parent : FrameIds]
  \cup [type : {"detached"}, frame : SubFrames]
  \cup [type : {"navigated"}, frame : SubFrames, parent : FrameIds]
  \cup [type : {"navigated"}, frame : Mains, parent : {NoFrame}]
  \cup [type : {"created"}, context : Contexts, frame : FrameIds, world : {"main", "util"}]
  \cup [type : {"destroyed"}, context : Contexts]
  \cup [type : {"cleared"}]
  \cup [type : {"lifecycle"}, frame : Mains, name : {"init", "load"}]
  \cup [type : {"started", "finished"}, frame : Mains, name : {""}]

IInv == FrameTypeOK /\ Sound(frames, main_frame) /\ PageMap(page) /\ events \in Seq(TreeEvent)

LEMMA PageMapIsTree ==
  ASSUME NEW t \in Trees PROVE Root(t) \in Mains /\ IsTree(t, Root(t)) /\ Root(t) # NoFrame
<1>1. PICK r \in Mains : IsTree(t, r)
  BY DEF Trees, PageMap
<1>2. r # NoFrame
  BY FrameAssumption DEF Mains, FrameIds
<1> QED BY <1>1, <1>2, RootIsUnique

LEMMA PageMapInTrees ==
  ASSUME NEW t, PageMap(t) PROVE t \in Trees
<1>1. DOMAIN t \subseteq FrameIds /\ \A x \in DOMAIN t : t[x] \in FrameIds \cup {NoFrame}
  BY DEF PageMap, IsTree
<1>2. t \in [DOMAIN t -> FrameIds \cup {NoFrame}]
  BY <1>1 DEF PageMap
<1> QED BY <1>1, <1>2 DEF Trees

\* The invariant is stronger than TreeIsWellFormed: Parents and child_frames agree.
THEOREM TreeIsSound == IInv => TreeIsWellFormed
<1> SUFFICES ASSUME IInv PROVE TreeIsWellFormed
  OBVIOUS
<1>0. Sound(frames, main_frame)
  BY DEF IInv
<1>1. PICK t : t = Parents(frames)
  OBVIOUS
<1>2. IsTree(t, main_frame)
  BY <1>0, <1>1 DEF Sound
<1>3. DOMAIN t = DOMAIN frames /\ \A x \in DOMAIN frames : t[x] = frames[x].parent
  BY <1>0, <1>1, SoundFacts
<1>4. \A x \in DOMAIN frames : (x = main_frame) <=> (frames[x].parent = NoFrame)
  BY <1>2, <1>3 DEF IsTree
<1>5. \A x \in DOMAIN frames : frames[x].parent # NoFrame => frames[x].parent \in DOMAIN frames
  BY <1>2, <1>3 DEF IsTree
<1>6. main_frame # NoFrame => main_frame \in DOMAIN frames
  BY <1>2, <1>3 DEF IsTree
<1> QED BY <1>0, <1>4, <1>5, <1>6, SoundFacts DEF TreeIsWellFormed

LEMMA InitIInv == FrameInit => IInv
<1> SUFFICES ASSUME FrameInit PROVE IInv
  OBVIOUS
<1>1. DOMAIN frames = {}
  BY DEF FrameInit
<1>2. DOMAIN Parents(frames) = {}
  BY <1>1 DEF Parents
<1>3. Sound(frames, main_frame)
  BY <1>1, <1>2, NoneIsTree DEF FrameInit, Sound, FrameMap
<1>4. IsTree(page, FirstMain)
  BY OneIsTree DEF FrameInit, Mains
<1>5. PageMap(page)
  BY <1>4 DEF FrameInit, PageMap, Mains
<1>6. FrameTypeOK
  BY <1>1 DEF FrameInit, FrameTypeOK
<1> QED BY <1>3, <1>5, <1>6 DEF IInv, FrameInit

-----------------------------------------------------------------------------
(* Handlers *)

LEMMA Taken ==
  ASSUME IInv, NEW type, Take(type)
  PROVE Got \in TreeEvent /\ Got.type = type /\ events' \in Seq(TreeEvent)
BY DEF IInv, Take, Got

\* What OnEvent leaves alone, and what follows for the invariant.
LEMMA HandlerStep ==
  ASSUME IInv, UNCHANGED <<worlds_asked, waiters, answered, pageVars>>,
         events' \in Seq(TreeEvent), Sound(frames', main_frame'),
         main_frame' \in FrameIds \cup {NoFrame},
         DOMAIN context_ids' \subseteq Contexts,
         \A c \in DOMAIN context_ids' : context_ids'[c] \in FrameIds,
         isolated_worlds' \in BOOLEAN
  PROVE IInv'
<1>1. PageMap(page)'
  BY DEF IInv, pageVars, PageMap
<1>2. FrameTypeOK'
  BY DEF IInv, FrameTypeOK, Sound, FrameMap
<1> QED BY <1>1, <1>2 DEF IInv

\* A frame whose worlds, lifecycle or request change keeps its place.
LEMMA PlaceKept ==
  ASSUME IInv, NEW f, NEW frame,
         f \in DOMAIN frames => /\ frame \in FrameRecord
                                /\ frame.parent = frames[f].parent
                                /\ frame.children = frames[f].children
  PROVE Sound(Update(frames, f, frame), main_frame)
BY UpdateSound DEF IInv

LEMMA TrackedType ==
  ASSUME IInv, NEW f \in DOMAIN frames PROVE frames[f] \in FrameRecord
BY DEF IInv, FrameTypeOK

LEMMA OnEventIInv ==
  ASSUME IInv, OnEvent PROVE IInv'
<1> USE DEF OnEvent
<1> UNCHANGED <<worlds_asked, waiters, answered, pageVars>>
  OBVIOUS
<1>0. /\ Sound(frames, main_frame) /\ main_frame \in FrameIds \cup {NoFrame}
      /\ DOMAIN context_ids \subseteq Contexts
      /\ \A c \in DOMAIN context_ids : context_ids[c] \in FrameIds
      /\ isolated_worlds \in BOOLEAN
  BY DEF IInv, FrameTypeOK
<1>1. CASE OnFrameTree
  <2>1. Got \in TreeEvent /\ Got.type = "tree" /\ events' \in Seq(TreeEvent)
    BY <1>1, Taken DEF OnFrameTree
  <2>2. Got.tree \in Trees
    BY <2>1 DEF TreeEvent
  <2>3. Root(Got.tree) \in Mains /\ IsTree(Got.tree, Root(Got.tree)) /\ Root(Got.tree) # NoFrame
    BY <2>2, PageMapIsTree
  <2>4. Got.tree = [x \in DOMAIN Got.tree |-> Got.tree[x]]
    BY <2>2 DEF Trees, PageMap
  <2>5. Sound(TreeApplied(frames, main_frame, Got.tree), Root(Got.tree))
    BY <1>0, <2>3, <2>4, TreeAppliedSound
  <2>6. Sound(frames', main_frame')
    BY <1>1, <2>5 DEF OnFrameTree
  <2>7. main_frame' \in FrameIds
    BY <1>1, <2>3 DEF OnFrameTree, Mains, FrameIds
  <2>8. context_ids' = context_ids /\ isolated_worlds' = isolated_worlds
    BY <1>1 DEF OnFrameTree
  <2> QED BY <1>0, <2>1, <2>6, <2>7, <2>8, HandlerStep
<1>2. CASE OnFrameAttached
  <2>1. Got \in TreeEvent /\ Got.type = "attached" /\ events' \in Seq(TreeEvent)
    BY <1>2, Taken DEF OnFrameAttached
  <2>2. Got.frame \in SubFrames
    BY <2>1 DEF TreeEvent
  <2>3. Sound(frames', main_frame')
    BY <1>0, <1>2, <2>2, AttachedSound DEF OnFrameAttached
  <2>4. context_ids' = context_ids /\ isolated_worlds' = isolated_worlds /\ main_frame' = main_frame
    BY <1>2 DEF OnFrameAttached
  <2> QED BY <1>0, <2>1, <2>3, <2>4, HandlerStep
<1>3. CASE OnFrameDetached
  <2>1. Got \in TreeEvent /\ Got.type = "detached" /\ events' \in Seq(TreeEvent)
    BY <1>3, Taken DEF OnFrameDetached
  <2>2. Got.frame \in SubFrames
    BY <2>1 DEF TreeEvent
  <2>3. Sound(frames', main_frame')
    BY <1>0, <1>3, <2>2, RemoveSound DEF OnFrameDetached
  <2>4. context_ids' = context_ids /\ isolated_worlds' = isolated_worlds /\ main_frame' = main_frame
    BY <1>3 DEF OnFrameDetached
  <2> QED BY <1>0, <2>1, <2>3, <2>4, HandlerStep
<1>4. CASE OnFrameNavigated
  <2>1. Got \in TreeEvent /\ Got.type = "navigated" /\ events' \in Seq(TreeEvent)
    BY <1>4, Taken DEF OnFrameNavigated
  <2>2. context_ids' = context_ids /\ isolated_worlds' = isolated_worlds
    BY <1>4 DEF OnFrameNavigated
  <2>3. CASE Got.parent # NoFrame
    <3>1. Got.frame \in SubFrames
      BY <2>1, <2>3 DEF TreeEvent
    <3>2. frames' = ChildNavigated(frames, Got.frame) /\ main_frame' = main_frame
      BY <1>4, <2>3 DEF OnFrameNavigated
    <3>3. Sound(frames', main_frame')
      BY <1>0, <3>1, <3>2, ChildNavigatedSound
    <3> QED BY <1>0, <2>1, <2>2, <3>2, <3>3, HandlerStep
  <2>4. CASE Got.parent = NoFrame
    <3>1. Got.frame \in Mains
      BY <2>1, <2>4, FrameAssumption DEF TreeEvent
    <3>2. frames' = MainNavigated(frames, main_frame, Got.frame) /\ main_frame' = Got.frame
      BY <1>4, <2>4 DEF OnFrameNavigated
    <3>3. Sound(frames', main_frame')
      <4>1. /\ DOMAIN frames' = {Got.frame} /\ frames'[Got.frame] \in FrameRecord
            /\ frames'[Got.frame].parent = NoFrame /\ frames'[Got.frame].children = {}
        BY <1>0, <3>1, <3>2, MainNavigatedIsOne
      <4> QED BY <3>1, <3>2, <4>1, OneIsSound
    <3>4. main_frame' \in FrameIds
      BY <3>1, <3>2 DEF Mains, FrameIds
    <3> QED BY <1>0, <2>1, <2>2, <3>3, <3>4, HandlerStep
  <2> QED BY <2>3, <2>4
<1>5. CASE OnContextCreated
  <2> DEFINE f == Got.frame
             frame == [frames[f] EXCEPT
               !.main_world = IF Got.world = "main" THEN Got.context ELSE @,
               !.secondary_world =
                 IF Got.world = "util" /\ @ = NoContext THEN Got.context ELSE @]
  <2>1. Got \in TreeEvent /\ Got.type = "created" /\ events' \in Seq(TreeEvent)
    BY <1>5, Taken DEF OnContextCreated
  <2>2. f \in FrameIds /\ Got.context \in Contexts
    BY <2>1 DEF TreeEvent
  <2>3. /\ frames' = Update(frames, f, frame) /\ main_frame' = main_frame
        /\ isolated_worlds' \in BOOLEAN
    BY <1>5 DEF OnContextCreated
  <2>4. f \in DOMAIN frames => /\ frame \in FrameRecord /\ frame.parent = frames[f].parent
                               /\ frame.children = frames[f].children
    <3> HAVE f \in DOMAIN frames
    <3> DEFINE m == IF Got.world = "main" THEN Got.context ELSE frames[f].main_world
               s == IF Got.world = "util" /\ frames[f].secondary_world = NoContext
                    THEN Got.context ELSE frames[f].secondary_world
    <3>1. frames[f] \in FrameRecord
      BY TrackedType
    <3>2. m \in Contexts \cup {NoContext} /\ s \in Contexts \cup {NoContext}
      BY <2>2, <3>1 DEF FrameRecord
    <3>3. frame = [frames[f] EXCEPT !.main_world = m, !.secondary_world = s]
      OBVIOUS
    <3> HIDE DEF m, s, frame
    <3> QED BY <3>1, <3>2, <3>3 DEF FrameRecord
  <2> HIDE DEF frame, f
  <2>5. Sound(frames', main_frame')
    BY <2>3, <2>4, PlaceKept
  <2>6. /\ DOMAIN context_ids' \subseteq Contexts
        /\ \A c \in DOMAIN context_ids' : context_ids'[c] \in FrameIds
    BY <1>0, <1>5, <2>2 DEF OnContextCreated, Put, f
  <2> QED BY <1>0, <2>1, <2>3, <2>5, <2>6, HandlerStep
<1>6. CASE OnContextDestroyed
  <2> DEFINE c == Got.context
             f == context_ids[c]
             frame == Without(frames[f], c)
  <2>1. events' \in Seq(TreeEvent)
    BY <1>6, Taken DEF OnContextDestroyed
  <2>2. main_frame' = main_frame /\ isolated_worlds' = isolated_worlds
    BY <1>6 DEF OnContextDestroyed
  <2>3. CASE c \notin DOMAIN context_ids
    <3>1. frames' = frames /\ context_ids' = context_ids
      BY <1>6, <2>3 DEF OnContextDestroyed
    <3> QED BY <1>0, <2>1, <2>2, <3>1, HandlerStep
  <2>4. CASE c \in DOMAIN context_ids
    <3>1. /\ frames' = Update(frames, f, frame)
          /\ context_ids' = [d \in DOMAIN context_ids \ {c} |-> context_ids[d]]
      BY <1>6, <2>4 DEF OnContextDestroyed
    <3>2. f \in DOMAIN frames => /\ frame \in FrameRecord /\ frame.parent = frames[f].parent
                                 /\ frame.children = frames[f].children
      BY TrackedType DEF FrameRecord, Without
    <3>3. /\ DOMAIN context_ids' \subseteq Contexts
          /\ \A d \in DOMAIN context_ids' : context_ids'[d] \in FrameIds
      BY <1>0, <3>1
    <3> HIDE DEF frame, f
    <3>4. Sound(frames', main_frame')
      BY <2>2, <3>1, <3>2, PlaceKept
    <3> QED BY <1>0, <2>1, <2>2, <3>3, <3>4, HandlerStep
  <2> QED BY <2>3, <2>4
<1>7. CASE OnContextsCleared
  <2>1. events' \in Seq(TreeEvent)
    BY <1>7, Taken DEF OnContextsCleared
  <2>2. /\ main_frame' = main_frame /\ isolated_worlds' = isolated_worlds
        /\ context_ids' = <<>> /\ DOMAIN frames' = DOMAIN frames
    BY <1>7 DEF OnContextsCleared
  <2>3. ASSUME NEW x \in DOMAIN frames
        PROVE /\ frames'[x] \in FrameRecord /\ frames'[x].parent = frames[x].parent
              /\ frames'[x].children = frames[x].children
    <3>1. frames[x] \in FrameRecord
      BY TrackedType
    <3> QED BY <1>7, <3>1 DEF OnContextsCleared, FrameRecord
  <2>4. Sound(frames', main_frame)
    BY <1>0, <2>2, <2>3, SamePlaces
  <2>5. DOMAIN context_ids' = {}
    BY <2>2
  <2> QED BY <1>0, <2>1, <2>2, <2>4, <2>5, HandlerStep
<1>8. CASE OnLifecycleEvent
  <2> DEFINE f == Got.frame
             frame == [frames[f] EXCEPT !.lifecycle =
                         IF Got.name = "init" THEN {"init"} ELSE @ \cup {Got.name}]
  <2>1. Got \in TreeEvent /\ Got.type = "lifecycle" /\ events' \in Seq(TreeEvent)
    BY <1>8, Taken DEF OnLifecycleEvent
  <2>2. Got.name \in {"init", "load"}
    BY <2>1 DEF TreeEvent
  <2>3. /\ frames' = Update(frames, f, frame) /\ main_frame' = main_frame
        /\ context_ids' = context_ids /\ isolated_worlds' = isolated_worlds
    BY <1>8 DEF OnLifecycleEvent
  <2>4. f \in DOMAIN frames => /\ frame \in FrameRecord /\ frame.parent = frames[f].parent
                               /\ frame.children = frames[f].children
    BY <2>2, TrackedType DEF FrameRecord
  <2> HIDE DEF frame, f
  <2>5. Sound(frames', main_frame')
    BY <2>3, <2>4, PlaceKept
  <2> QED BY <1>0, <2>1, <2>3, <2>5, HandlerStep
<1>9. CASE OnStartedLoading
  <2> DEFINE f == Got.frame
             frame == [frames[f] EXCEPT !.lifecycle = {}, !.request = FALSE]
  <2>1. events' \in Seq(TreeEvent)
    BY <1>9, Taken DEF OnStartedLoading
  <2>2. /\ frames' = Update(frames, f, frame) /\ main_frame' = main_frame
        /\ context_ids' = context_ids /\ isolated_worlds' = isolated_worlds
    BY <1>9 DEF OnStartedLoading
  <2>3. f \in DOMAIN frames => /\ frame \in FrameRecord /\ frame.parent = frames[f].parent
                               /\ frame.children = frames[f].children
    BY TrackedType DEF FrameRecord
  <2> HIDE DEF frame, f
  <2>4. Sound(frames', main_frame')
    BY <2>2, <2>3, PlaceKept
  <2> QED BY <1>0, <2>1, <2>2, <2>4, HandlerStep
<1>10. CASE OnHttpRequestFinished
  <2> DEFINE f == Got.frame
             frame == [frames[f] EXCEPT !.request = TRUE]
  <2>1. events' \in Seq(TreeEvent)
    BY <1>10, Taken DEF OnHttpRequestFinished
  <2>2. /\ frames' = Update(frames, f, frame) /\ main_frame' = main_frame
        /\ context_ids' = context_ids /\ isolated_worlds' = isolated_worlds
    BY <1>10 DEF OnHttpRequestFinished
  <2>3. f \in DOMAIN frames => /\ frame \in FrameRecord /\ frame.parent = frames[f].parent
                               /\ frame.children = frames[f].children
    BY TrackedType DEF FrameRecord
  <2> HIDE DEF frame, f
  <2>4. Sound(frames', main_frame')
    BY <2>2, <2>3, PlaceKept
  <2> QED BY <1>0, <2>1, <2>2, <2>4, HandlerStep
<1> QED BY <1>1, <1>2, <1>3, <1>4, <1>5, <1>6, <1>7, <1>8, <1>9, <1>10

\* EnsureIsolatedWorld and the two actions of the callers that wait.
LEMMA TargetStepIInv ==
  ASSUME IInv, EnsureIsolatedWorld \/ OnWaitForNavigation \/ PollWaiters PROVE IInv'
<1>1. UNCHANGED <<main_frame, frames, context_ids, page, events>>
  BY DEF EnsureIsolatedWorld, OnWaitForNavigation, PollWaiters, managerVars, pageVars
<1>2. /\ main_frame \in FrameIds \cup {NoFrame}
      /\ DOMAIN frames \subseteq FrameIds /\ \A f \in DOMAIN frames : frames[f] \in FrameRecord
      /\ DOMAIN context_ids \subseteq Contexts
      /\ \A c \in DOMAIN context_ids : context_ids[c] \in FrameIds
      /\ isolated_worlds \in BOOLEAN /\ worlds_asked \subseteq FrameIds
      /\ waiters \in Nat /\ answered \in Nat
  BY DEF IInv, FrameTypeOK
<1>3. /\ isolated_worlds' \in BOOLEAN /\ worlds_asked' \subseteq FrameIds
      /\ waiters' \in Nat /\ answered' \in Nat
  <2>1. CASE EnsureIsolatedWorld
    BY <1>2, <2>1 DEF EnsureIsolatedWorld
  <2>2. CASE OnWaitForNavigation
    <3>1. isolated_worlds' = isolated_worlds /\ worlds_asked' = worlds_asked
      BY <2>2 DEF OnWaitForNavigation, managerVars
    <3>2. waiters' \in {waiters, 1} /\ answered' \in {answered, 1}
      BY <2>2 DEF OnWaitForNavigation
    <3> QED BY <1>2, <3>1, <3>2
  <2>3. CASE PollWaiters
    <3>1. isolated_worlds' = isolated_worlds /\ worlds_asked' = worlds_asked
      BY <2>3 DEF PollWaiters, managerVars
    <3>2. waiters' = 0 /\ answered' = answered + waiters
      BY <2>3 DEF PollWaiters
    <3> QED BY <1>2, <3>1, <3>2
  <2> QED BY <2>1, <2>2, <2>3
<1>4. FrameTypeOK'
  BY <1>1, <1>2, <1>3 DEF FrameTypeOK
<1>5. Sound(frames, main_frame)' /\ PageMap(page)' /\ (events \in Seq(TreeEvent))'
  BY <1>1 DEF IInv
<1> QED BY <1>4, <1>5 DEF IInv

-----------------------------------------------------------------------------
(* The page *)

\* What a step of the page leaves alone, and what follows for the invariant.
LEMMA PageMoves ==
  ASSUME IInv, NEW e \in TreeEvent, Emit(<<e>>), PageMap(page') PROVE IInv'
<1>1. events' \in Seq(TreeEvent)
  BY DEF Emit, IInv
<1>2. FrameTypeOK'
  BY DEF Emit, managerVars, IInv, FrameTypeOK
<1>3. Sound(frames, main_frame)'
  BY DEF Emit, managerVars, IInv
<1> QED BY <1>1, <1>2, <1>3 DEF IInv

LEMMA BelowIsUnder == ASSUME NEW f PROVE Below(f) = DownFrom(page, f)
BY DEF Below, DownFrom, Closed

\* Frames below a frame leave, or it leaves with them.
LEMMA LeaveKeepsTree ==
  ASSUME PageMap(page), NEW f \in DOMAIN page, page[f] # NoFrame,
         NEW gone, gone = DownFrom(page, f) \/ gone = DownFrom(page, f) \ {f}, Leave(gone)
  PROVE PageMap(page')
<1>1. PICK r \in Mains : IsTree(page, r)
  BY DEF PageMap
<1>2. f # r
  BY <1>1 DEF IsTree
<1>3. r \notin DownFrom(page, f) /\ page[f] \notin DownFrom(page, f)
  BY <1>1, <1>2, RootNotUnder, NoCycle
<1>4. Closed(page, DownFrom(page, f))
  BY UnderClosed DEF Closed
<1>5. Closed(page, gone)
  BY <1>3, <1>4 DEF Closed
<1>6. page' = Cut(page, gone)
  BY DEF Leave, Cut
<1>7. IsTree(page', r)
  BY <1>1, <1>3, <1>5, <1>6, TreeWithout
<1>8. page' = [x \in DOMAIN page' |-> page'[x]]
  BY <1>6 DEF Cut
<1> QED BY <1>7, <1>8 DEF PageMap

LEMMA PageStepIInv ==
  ASSUME IInv, PageStep PROVE IInv'
<1>0. PageMap(page)
  BY DEF IInv
<1>1. PICK r \in Mains : IsTree(page, r)
  BY <1>0 DEF PageMap
<1>2. DOMAIN page \subseteq FrameIds
      /\ \A x \in DOMAIN page : page[x] # NoFrame => page[x] \in FrameIds
  BY <1>1 DEF IsTree
<1>3. Root(page) \in Mains
  BY <1>0, PageMapInTrees, PageMapIsTree
<1>4. CASE PageSendsTree
  <2>1. [type |-> "tree", tree |-> page] \in TreeEvent
    BY <1>0, PageMapInTrees DEF TreeEvent
  <2>2. PageMap(page')
    BY <1>0, <1>4 DEF PageSendsTree
  <2> QED BY <1>4, <2>1, <2>2, PageMoves DEF PageSendsTree
<1>5. CASE PageClearsContexts
  <2>1. [type |-> "cleared"] \in TreeEvent
    BY DEF TreeEvent
  <2>2. PageMap(page')
    BY <1>0, <1>5 DEF PageClearsContexts
  <2> QED BY <1>5, <2>1, <2>2, PageMoves DEF PageClearsContexts
<1>6. ASSUME NEW f \in SubFrames, PageDetaches(f) PROVE IInv'
  <2>1. [type |-> "detached", frame |-> f] \in TreeEvent
    BY DEF TreeEvent
  <2>2. PageMap(page')
    BY <1>0, <1>6, BelowIsUnder, LeaveKeepsTree DEF PageDetaches
  <2> QED BY <1>6, <2>1, <2>2, PageMoves DEF PageDetaches
<1>7. ASSUME NEW f \in SubFrames, PageNavigatesChild(f) PROVE IInv'
  <2>1. [type |-> "navigated", frame |-> f, parent |-> page[f]] \in TreeEvent
    BY <1>2, <1>7 DEF TreeEvent, PageNavigatesChild
  <2>2. PageMap(page')
    BY <1>0, <1>7, BelowIsUnder, LeaveKeepsTree DEF PageNavigatesChild
  <2> QED BY <1>7, <2>1, <2>2, PageMoves DEF PageNavigatesChild
<1>8. ASSUME NEW f \in SubFrames, NEW p \in FrameIds, PageAttaches(f, p) PROVE IInv'
  <2>1. [type |-> "attached", frame |-> f, parent |-> p] \in TreeEvent
    BY DEF TreeEvent
  <2>2. /\ DOMAIN page' = DOMAIN page \cup {f} /\ page'[f] = p
        /\ \A x \in DOMAIN page : page'[x] = page[x]
        /\ page' = [x \in DOMAIN page' |-> page'[x]]
    BY <1>8 DEF PageAttaches, Put
  <2>3. IsTree(page', r)
    BY <1>1, <1>8, <2>2, TreeWith DEF PageAttaches
  <2>4. PageMap(page')
    BY <2>2, <2>3 DEF PageMap
  <2> QED BY <1>8, <2>1, <2>4, PageMoves DEF PageAttaches
<1>9. ASSUME NEW f \in Mains, PageNavigates(f) PROVE IInv'
  <2>1. [type |-> "navigated", frame |-> f, parent |-> NoFrame] \in TreeEvent
    BY DEF TreeEvent
  <2>2. page' = [x \in {f} |-> NoFrame]
    BY <1>9 DEF PageNavigates
  <2>3. PageMap(page')
    BY <2>2, OneIsTree DEF PageMap
  <2> QED BY <1>9, <2>1, <2>3, PageMoves DEF PageNavigates
<1>10. ASSUME NEW c \in Contexts, PageDestroysContext(c) PROVE IInv'
  <2>1. [type |-> "destroyed", context |-> c] \in TreeEvent
    BY DEF TreeEvent
  <2>2. PageMap(page')
    BY <1>0, <1>10 DEF PageDestroysContext
  <2> QED BY <1>10, <2>1, <2>2, PageMoves DEF PageDestroysContext
<1>11. ASSUME NEW c \in Contexts, NEW f \in FrameIds, NEW w \in {"main", "util"},
              PageCreatesContext(c, f, w)
       PROVE IInv'
  <2>1. [type |-> "created", context |-> c, frame |-> f, world |-> w] \in TreeEvent
    BY DEF TreeEvent
  <2>2. PageMap(page')
    BY <1>0, <1>11 DEF PageCreatesContext
  <2> QED BY <1>11, <2>1, <2>2, PageMoves DEF PageCreatesContext
<1>12. ASSUME NEW type, NEW name, PageReports(type, name),
              [type |-> type, frame |-> Root(page), name |-> name] \in TreeEvent
       PROVE IInv'
  <2>1. PageMap(page')
    BY <1>0, <1>12 DEF PageReports
  <2> QED BY <1>12, <2>1, PageMoves DEF PageReports
<1>13. /\ \A name \in {"init", "load"} :
            [type |-> "lifecycle", frame |-> Root(page), name |-> name] \in TreeEvent
       /\ \A type \in {"started", "finished"} :
            [type |-> type, frame |-> Root(page), name |-> ""] \in TreeEvent
  BY <1>3 DEF TreeEvent
<1> QED BY <1>4, <1>5, <1>6, <1>7, <1>8, <1>9, <1>10, <1>11, <1>12, <1>13 DEF PageStep, Mains

LEMMA NextIInv == IInv /\ [FrameNext]_frameVars => IInv'
<1> SUFFICES ASSUME IInv, [FrameNext]_frameVars PROVE IInv'
  OBVIOUS
<1>1. CASE OnEvent
  BY <1>1, OnEventIInv
<1>2. CASE EnsureIsolatedWorld \/ OnWaitForNavigation \/ PollWaiters
  BY <1>2, TargetStepIInv
<1>3. CASE PageStep
  BY <1>3, PageStepIInv
<1>4. CASE UNCHANGED frameVars
  BY <1>4 DEF frameVars, managerVars, pageVars, IInv, FrameTypeOK
<1> QED BY <1>1, <1>2, <1>3, <1>4 DEF FrameNext

-----------------------------------------------------------------------------
(* What the page was when it sent its events.  A moment of the page is its tree and
   its live contexts; cs, here, is the page's map of contexts. *)

\* Event e takes the page's tree from t to u.
Moves(t, e, u) ==
  /\ e.type = "attached" =>
       e.frame \notin DOMAIN t /\ e.parent \in DOMAIN t /\ u = Put(t, e.frame, e.parent)
  /\ e.type = "detached" => e.frame \in DOMAIN t /\ u = Cut(t, DownFrom(t, e.frame))
  /\ e.type = "navigated" =>
       IF e.parent = NoFrame THEN u = [x \in {e.frame} |-> NoFrame]
       ELSE e.frame \in DOMAIN t /\ u = Cut(t, DownFrom(t, e.frame) \ {e.frame})
  /\ e.type = "tree" => e.tree = t
  /\ e.type \notin {"attached", "detached", "navigated"} => u = t

\* A context that ends at e has its event or goes with its frame; the main frame's new
\* document finds none.
Lives(cs, a, e, b) ==
  /\ \A c \in a.live \ b.live :
       \/ e.type = "destroyed" /\ e.context = c
       \/ e.type = "cleared"
       \/ cs[c].frame \in DOMAIN a.tree \ DOMAIN b.tree
  /\ e.type = "created" =>
       /\ e.context \in b.live /\ e.context \in DOMAIN cs
       /\ cs[e.context].frame = e.frame /\ cs[e.context].world = e.world
  /\ e.type = "navigated" /\ e.parent = NoFrame =>
       \A c \in a.live : cs[c].frame \notin DOMAIN a.tree

Follows(cs, a, e, b) == Moves(a.tree, e, b.tree) /\ Lives(cs, a, e, b)

\* A world of frame f that shows context c.
Holds(ids, cs, live, c, f, w) ==
  c # NoContext =>
    /\ c \in live /\ c \in DOMAIN cs /\ cs[c].frame = f /\ cs[c].world = w
    /\ c \in DOMAIN ids /\ ids[c] = f

\* The manager's frames and contexts are the page's at moment a.
Mirrors(fs, ids, cs, a) ==
  /\ Parents(fs) = a.tree
  /\ \A f \in DOMAIN fs :
       /\ Holds(ids, cs, a.live, fs[f].main_world, f, "main")
       /\ Holds(ids, cs, a.live, fs[f].secondary_world, f, "util")

Now == [tree |-> page, live |-> {c \in DOMAIN contexts : contexts[c].live}]

\* h holds the moments between the events on their way.  The manager is at the first
\* one as soon as it knows of a main frame.
History(h) ==
  /\ h[Len(events)] = Now
  /\ \A k \in 0..Len(events) : h[k].live \subseteq DOMAIN contexts
  /\ \A k \in 1..Len(events) : Follows(contexts, h[k - 1], events[k], h[k])
  /\ main_frame # NoFrame => Mirrors(frames, context_ids, contexts, h[0])

ContextRecord == [frame : FrameIds, world : {"main", "util"}, live : BOOLEAN]

HInv ==
  /\ IInv
  /\ \A c \in DOMAIN contexts : contexts[c] \in ContextRecord
  /\ tree_sent =>
       main_frame # NoFrame \/ \E k \in 1..Len(events) : events[k].type = "tree"
  /\ \E h : History(h)

-----------------------------------------------------------------------------
(* What the handlers do to the parents and to the worlds *)

\* The frames of xs are in the same worlds in gs as in fs.
SameWorlds(xs, fs, gs) ==
  \A x \in xs : /\ gs[x].main_world = fs[x].main_world
                /\ gs[x].secondary_world = fs[x].secondary_world

LEMMA PruneFacts ==
  ASSUME NEW fs, FrameMap(fs), NEW gone
  PROVE  /\ DOMAIN Prune(fs, gone) = DOMAIN fs \ gone
         /\ Parents(Prune(fs, gone)) = Cut(Parents(fs), gone)
         /\ SameWorlds(DOMAIN fs \ gone, fs, Prune(fs, gone))
<1> DEFINE gs == Prune(fs, gone)
<1>1. DOMAIN gs = DOMAIN fs \ gone
  BY DEF Prune
<1>2. ASSUME NEW x \in DOMAIN fs \ gone
      PROVE  /\ gs[x] \in FrameRecord /\ gs[x].parent = fs[x].parent
             /\ gs[x].main_world = fs[x].main_world
             /\ gs[x].secondary_world = fs[x].secondary_world
  <2>1. fs[x] \in FrameRecord
    BY DEF FrameMap
  <2>2. gs[x] = [fs[x] EXCEPT !.children = {c \in @ : ~(c \in gone /\ fs[c].parent = x)}]
    BY DEF Prune
  <2> QED BY <2>1, <2>2 DEF FrameRecord
<1> HIDE DEF gs
<1>3. Parents(gs) = Cut(Parents(fs), gone)
  BY <1>1, <1>2 DEF Parents, Cut
<1>4. SameWorlds(DOMAIN fs \ gone, fs, gs)
  BY <1>2 DEF SameWorlds
<1> QED BY <1>1, <1>3, <1>4 DEF gs

LEMMA LoaderFacts ==
  ASSUME NEW fs, NEW f, NEW frame, f \in DOMAIN fs => frame.parent = fs[f].parent
  PROVE  /\ DOMAIN Update(fs, f, frame) = DOMAIN fs
         /\ Parents(Update(fs, f, frame)) = Parents(fs)
         /\ \A x \in DOMAIN fs :
              Update(fs, f, frame)[x] = IF x = f THEN frame ELSE fs[x]
<1>1. CASE f \notin DOMAIN fs
  BY <1>1 DEF Update
<1>2. CASE f \in DOMAIN fs
  <2> DEFINE gs == [fs EXCEPT ![f] = frame]
  <2>1. /\ Update(fs, f, frame) = gs /\ DOMAIN gs = DOMAIN fs
        /\ \A x \in DOMAIN fs : gs[x] = IF x = f THEN frame ELSE fs[x]
    BY <1>2 DEF Update
  <2> HIDE DEF gs
  <2>2. Parents(gs) = Parents(fs)
    BY <1>2, <2>1 DEF Parents
  <2> QED BY <2>1, <2>2
<1> QED BY <1>1, <1>2

LEMMA AttachedFacts ==
  ASSUME NEW fs, FrameMap(fs), NEW f \in SubFrames, f \notin DOMAIN fs, NEW p \in DOMAIN fs
  PROVE  /\ DOMAIN Attached(fs, f, p) = DOMAIN fs \cup {f}
         /\ Parents(Attached(fs, f, p)) = Put(Parents(fs), f, p)
         /\ Attached(fs, f, p)[f] = NewFrame(p)
         /\ \A x \in DOMAIN fs :
              /\ Attached(fs, f, p)[x].main_world = fs[x].main_world
              /\ Attached(fs, f, p)[x].secondary_world = fs[x].secondary_world
<1> DEFINE gs == Attached(fs, f, p)
<1>1. /\ DOMAIN gs = DOMAIN fs \cup {f} /\ gs[f] = NewFrame(p)
      /\ \A x \in DOMAIN fs : x # p => gs[x] = fs[x]
      /\ gs[p] = [fs[p] EXCEPT !.children = @ \cup {f}]
  BY DEF Attached, Put
<1>2. fs[p] \in FrameRecord
  BY DEF FrameMap
<1>3. \A x \in DOMAIN fs :
        /\ gs[x].parent = fs[x].parent /\ gs[x].main_world = fs[x].main_world
        /\ gs[x].secondary_world = fs[x].secondary_world
  BY <1>1, <1>2 DEF FrameRecord
<1>4. NewFrame(p).parent = p
  BY DEF NewFrame
<1> HIDE DEF gs
<1>5. Parents(gs) = Put(Parents(fs), f, p)
  BY <1>1, <1>3, <1>4 DEF Parents, Put
<1> QED BY <1>1, <1>3, <1>5 DEF gs

\* The main frame keeps its worlds when it navigates.
LEMMA MainWorlds ==
  ASSUME NEW fs, NEW main, Sound(fs, main), NEW f \in Mains
  PROVE  /\ main = NoFrame =>
              /\ MainNavigated(fs, main, f)[f].main_world = NoContext
              /\ MainNavigated(fs, main, f)[f].secondary_world = NoContext
         /\ main # NoFrame =>
              /\ MainNavigated(fs, main, f)[f].main_world = fs[main].main_world
              /\ MainNavigated(fs, main, f)[f].secondary_world = fs[main].secondary_world
<1>1. CASE main = NoFrame
  <2>1. MainNavigated(fs, main, f)[f] = NewFrame(NoFrame)
    BY <1>1 DEF MainNavigated, Put
  <2> QED BY <1>1, <2>1 DEF NewFrame
<1>2. CASE main # NoFrame
  <2>1. MainNavigated(fs, main, f)[f] = [fs[main] EXCEPT !.children = {}]
    BY <1>2 DEF MainNavigated, Put
  <2>2. main \in DOMAIN fs
    BY <1>2, SoundFacts DEF Sound, IsTree
  <2>3. fs[main] \in FrameRecord
    BY <2>2 DEF Sound, FrameMap
  <2> QED BY <1>2, <2>1, <2>3 DEF FrameRecord
<1> QED BY <1>1, <1>2

LEMMA TreeAppliedFacts ==
  ASSUME NEW fs, NEW main, Sound(fs, main), NEW t, NEW r, IsTree(t, r), r # NoFrame,
         t = [x \in DOMAIN t |-> t[x]]
  PROVE  /\ DOMAIN TreeApplied(fs, main, t) = DOMAIN t
         /\ Parents(TreeApplied(fs, main, t)) = t
         /\ \A x \in DOMAIN t : x # r =>
              /\ TreeApplied(fs, main, t)[x].main_world = NoContext
              /\ TreeApplied(fs, main, t)[x].secondary_world = NoContext
         /\ TreeApplied(fs, main, t)[r].main_world = MainNavigated(fs, main, r)[r].main_world
         /\ TreeApplied(fs, main, t)[r].secondary_world =
              MainNavigated(fs, main, r)[r].secondary_world
<1> DEFINE kept == MainNavigated(fs, main, r)
           gs == TreeApplied(fs, main, t)
<1>1. Root(t) = r /\ r \in DOMAIN t /\ r \in Mains /\ t[r] = NoFrame
  BY RootIsUnique DEF IsTree
<1>2. /\ DOMAIN kept = {r} /\ kept[r] \in FrameRecord
      /\ kept[r].parent = NoFrame /\ kept[r].children = {}
  BY <1>1, MainNavigatedIsOne
<1> HIDE DEF kept
<1>3. DOMAIN gs = DOMAIN t
  BY <1>1, <1>2 DEF TreeApplied, kept
<1>4. \A x \in DOMAIN t : gs[x] =
        LET frame == IF x = r THEN kept[r] ELSE NewFrame(t[x])
        IN [frame EXCEPT !.children = @ \cup ChildrenIn(t, x)]
  BY <1>1, <1>2 DEF TreeApplied, kept
<1> HIDE DEF gs
<1>5. /\ gs[r].parent = NoFrame /\ gs[r].main_world = kept[r].main_world
      /\ gs[r].secondary_world = kept[r].secondary_world
  <2>1. gs[r] = [kept[r] EXCEPT !.children = @ \cup ChildrenIn(t, r)]
    BY <1>1, <1>4
  <2> QED BY <1>2, <2>1 DEF FrameRecord
<1>6. ASSUME NEW x \in DOMAIN t, x # r
      PROVE  /\ gs[x].parent = t[x] /\ gs[x].main_world = NoContext
             /\ gs[x].secondary_world = NoContext
  <2>1. gs[x] = [NewFrame(t[x]) EXCEPT !.children = @ \cup ChildrenIn(t, x)]
    BY <1>4, <1>6
  <2> QED BY <2>1 DEF NewFrame
<1>7. \A x \in DOMAIN t : gs[x].parent = t[x]
  BY <1>1, <1>5, <1>6
<1>8. Parents(gs) = t
  BY <1>3, <1>7 DEF Parents
<1> QED BY <1>3, <1>5, <1>6, <1>8 DEF gs, kept

-----------------------------------------------------------------------------
(* A handler takes the manager from one moment of the page to the next *)

LEMMA HoldsLater ==
  ASSUME NEW cs, NEW a, NEW e, NEW b, Lives(cs, a, e, b), e.type \notin {"destroyed", "cleared"},
         NEW ids, NEW c, NEW f \in DOMAIN b.tree, NEW w, Holds(ids, cs, a.live, c, f, w)
  PROVE  Holds(ids, cs, b.live, c, f, w)
BY DEF Lives, Holds

LEMMA NoWorldHolds ==
  ASSUME NEW ids, NEW cs, NEW live, NEW f, NEW w
  PROVE  Holds(ids, cs, live, NoContext, f, w)
BY DEF Holds

\* A handler that leaves context_ids alone and gives no frame a world.
LEMMA MirrorsLater ==
  ASSUME NEW fs, NEW ids, NEW cs, NEW a, NEW e, NEW b, Mirrors(fs, ids, cs, a),
         Lives(cs, a, e, b), e.type \notin {"destroyed", "cleared"},
         NEW gs, Parents(gs) = b.tree,
         \A x \in DOMAIN gs :
           \/ /\ x \in DOMAIN fs /\ gs[x].main_world = fs[x].main_world
              /\ gs[x].secondary_world = fs[x].secondary_world
           \/ gs[x].main_world = NoContext /\ gs[x].secondary_world = NoContext
  PROVE  Mirrors(gs, ids, cs, b)
<1>1. DOMAIN gs = DOMAIN b.tree
  BY DEF Parents
<1>2. ASSUME NEW x \in DOMAIN gs
      PROVE  /\ Holds(ids, cs, b.live, gs[x].main_world, x, "main")
             /\ Holds(ids, cs, b.live, gs[x].secondary_world, x, "util")
  <2>1. CASE gs[x].main_world = NoContext /\ gs[x].secondary_world = NoContext
    BY <2>1, NoWorldHolds
  <2>2. CASE /\ x \in DOMAIN fs /\ gs[x].main_world = fs[x].main_world
             /\ gs[x].secondary_world = fs[x].secondary_world
    BY <1>1, <2>2, HoldsLater DEF Mirrors
  <2> QED BY <2>1, <2>2
<1> QED BY <1>2 DEF Mirrors

LEMMA GotFacts ==
  ASSUME IInv, NEW type, Take(type)
  PROVE  /\ Got \in TreeEvent /\ Got.type = type
         /\ Len(events) \in Nat \ {0} /\ Got = events[1] /\ Len(events') = Len(events) - 1
         /\ \A k \in 1..Len(events') : events'[k] = events[k + 1]
BY DEF IInv, Take, Got

LEMMA ParentsOf ==
  ASSUME NEW fs PROVE DOMAIN Parents(fs) = DOMAIN fs
BY DEF Parents

LEMMA TreeMirrors ==
  ASSUME IInv, NEW a, NEW b, Follows(contexts, a, Got, b), OnFrameTree,
         main_frame # NoFrame => Mirrors(frames, context_ids, contexts, a)
  PROVE  Mirrors(frames', context_ids', contexts, b)
<1> DEFINE t == Got.tree
           r == Root(Got.tree)
<1>1. Got \in TreeEvent /\ Got.type = "tree"
  BY Taken DEF OnFrameTree
<1>2. t \in Trees
  BY <1>1 DEF TreeEvent
<1>3. r \in Mains /\ IsTree(t, r) /\ r # NoFrame /\ t = [x \in DOMAIN t |-> t[x]]
  BY <1>2, PageMapIsTree DEF Trees, PageMap
<1>4. a.tree = t /\ b.tree = t /\ Lives(contexts, a, Got, b)
  BY <1>1 DEF Follows, Moves
<1>5. frames' = TreeApplied(frames, main_frame, t) /\ context_ids' = context_ids
  BY DEF OnFrameTree
<1>6. Sound(frames, main_frame)
  BY DEF IInv
<1> HIDE DEF t, r
<1>7. /\ DOMAIN frames' = DOMAIN t /\ Parents(frames') = t
      /\ \A x \in DOMAIN t : x # r =>
           frames'[x].main_world = NoContext /\ frames'[x].secondary_world = NoContext
      /\ frames'[r].main_world = MainNavigated(frames, main_frame, r)[r].main_world
      /\ frames'[r].secondary_world = MainNavigated(frames, main_frame, r)[r].secondary_world
  BY <1>3, <1>5, <1>6, TreeAppliedFacts
<1>8. CASE main_frame = NoFrame
  <2>1. frames'[r].main_world = NoContext /\ frames'[r].secondary_world = NoContext
    BY <1>3, <1>6, <1>7, <1>8, MainWorlds
  <2> QED BY <1>4, <1>7, <2>1, NoWorldHolds DEF Mirrors
<1>9. CASE main_frame # NoFrame
  <2>1. Mirrors(frames, context_ids, contexts, a) /\ Parents(frames) = t
    BY <1>4, <1>9 DEF Mirrors
  <2>2. main_frame = r
    BY <1>3, <1>6, <1>9, <2>1, RootIsUnique DEF Sound
  <2>3. r \in DOMAIN frames
    BY <1>3, <2>1, ParentsOf DEF IsTree
  <2>4. /\ frames'[r].main_world = frames[r].main_world
        /\ frames'[r].secondary_world = frames[r].secondary_world
    BY <1>3, <1>6, <1>7, <1>9, <2>2, MainWorlds
  <2>5. Got.type \notin {"destroyed", "cleared"}
    BY <1>1
  <2>6. \A x \in DOMAIN frames' :
           \/ /\ x \in DOMAIN frames /\ frames'[x].main_world = frames[x].main_world
              /\ frames'[x].secondary_world = frames[x].secondary_world
           \/ frames'[x].main_world = NoContext /\ frames'[x].secondary_world = NoContext
    BY <1>7, <2>3, <2>4
  <2>7. Mirrors(frames', context_ids, contexts, b)
    BY <1>4, <1>7, <2>1, <2>5, <2>6, MirrorsLater
  <2> QED BY <1>5, <2>7
<1> QED BY <1>8, <1>9

LEMMA MainFrames ==
  ASSUME IInv, OnFrameNavigated, Got.parent = NoFrame
  PROVE  /\ Got \in TreeEvent /\ Got.type = "navigated" /\ Got.frame \in Mains
         /\ frames' = MainNavigated(frames, main_frame, Got.frame) /\ context_ids' = context_ids
         /\ DOMAIN frames' = {Got.frame} /\ frames'[Got.frame] \in FrameRecord
         /\ frames'[Got.frame].parent = NoFrame /\ frames'[Got.frame].children = {}
<1>1. Got \in TreeEvent /\ Got.type = "navigated"
  BY Taken DEF OnFrameNavigated
<1>2. Got.frame \in Mains
  BY <1>1, FrameAssumption DEF TreeEvent
<1>3. frames' = MainNavigated(frames, main_frame, Got.frame) /\ context_ids' = context_ids
  BY DEF OnFrameNavigated
<1>4. Sound(frames, main_frame)
  BY DEF IInv
<1>5. /\ DOMAIN frames' = {Got.frame} /\ frames'[Got.frame] \in FrameRecord
      /\ frames'[Got.frame].parent = NoFrame /\ frames'[Got.frame].children = {}
  BY <1>2, <1>3, <1>4, MainNavigatedIsOne
<1> QED BY <1>1, <1>2, <1>3, <1>5

\* The main frame's new document finds no context, so that none comes under its new id.
LEMMA MainMirrors ==
  ASSUME IInv, NEW a, NEW b, Follows(contexts, a, Got, b), OnFrameNavigated,
         Got.parent = NoFrame,
         main_frame # NoFrame => Mirrors(frames, context_ids, contexts, a)
  PROVE  Mirrors(frames', context_ids', contexts, b)
<1>1. Got \in TreeEvent /\ Got.type = "navigated" /\ Got.frame \in Mains
  BY MainFrames
<1>2. frames' = MainNavigated(frames, main_frame, Got.frame) /\ context_ids' = context_ids
  BY MainFrames
<1>3. Sound(frames, main_frame)
  BY DEF IInv
<1>4. /\ DOMAIN frames' = {Got.frame} /\ frames'[Got.frame] \in FrameRecord
      /\ frames'[Got.frame].parent = NoFrame /\ frames'[Got.frame].children = {}
  BY MainFrames
<1>5. Parents(frames') = [x \in {Got.frame} |-> NoFrame]
  BY <1>4 DEF Parents
<1>6. /\ b.tree = [x \in {Got.frame} |-> NoFrame]
      /\ \A c \in a.live : contexts[c].frame \notin DOMAIN a.tree
  BY <1>1 DEF Follows, Moves, Lives
<1>7. /\ frames'[Got.frame].main_world = NoContext
      /\ frames'[Got.frame].secondary_world = NoContext
  <2>1. CASE main_frame = NoFrame
    BY <1>1, <1>2, <1>3, <2>1, MainWorlds
  <2>2. CASE main_frame # NoFrame
    <3>1. main_frame \in DOMAIN frames
      BY <1>3, <2>2, SoundFacts DEF Sound, IsTree
    <3>2. /\ main_frame \in DOMAIN a.tree
          /\ Holds(context_ids, contexts, a.live, frames[main_frame].main_world, main_frame,
                   "main")
          /\ Holds(context_ids, contexts, a.live, frames[main_frame].secondary_world, main_frame,
                   "util")
      BY <2>2, <3>1, ParentsOf DEF Mirrors
    <3>3. /\ frames[main_frame].main_world = NoContext
          /\ frames[main_frame].secondary_world = NoContext
      BY <1>6, <3>2 DEF Holds
    <3> QED BY <1>1, <1>2, <1>3, <2>2, <3>3, MainWorlds
  <2> QED BY <2>1, <2>2
<1> QED BY <1>2, <1>4, <1>5, <1>6, <1>7, NoWorldHolds DEF Mirrors

\* The handlers that move frames below the main frame.
LEMMA BelowMirrors ==
  ASSUME IInv, NEW a, NEW b, Follows(contexts, a, Got, b), main_frame # NoFrame,
         \/ OnFrameAttached \/ OnFrameDetached
         \/ OnFrameNavigated /\ Got.parent # NoFrame,
         Mirrors(frames, context_ids, contexts, a)
  PROVE  Mirrors(frames', context_ids', contexts, b)
<1>1. /\ Got \in TreeEvent /\ Got.type \in {"attached", "detached", "navigated"}
      /\ Got.frame \in SubFrames
  <2>1. CASE OnFrameAttached
    <3>1. Got \in TreeEvent /\ Got.type = "attached"
      BY <2>1, Taken DEF OnFrameAttached
    <3> QED BY <3>1 DEF TreeEvent
  <2>2. CASE OnFrameDetached
    <3>1. Got \in TreeEvent /\ Got.type = "detached"
      BY <2>2, Taken DEF OnFrameDetached
    <3> QED BY <3>1 DEF TreeEvent
  <2>3. CASE OnFrameNavigated /\ Got.parent # NoFrame
    <3>1. Got \in TreeEvent /\ Got.type = "navigated"
      BY <2>3, Taken DEF OnFrameNavigated
    <3> QED BY <2>3, <3>1 DEF TreeEvent
  <2> QED BY <2>1, <2>2, <2>3
<1>2. /\ Sound(frames, main_frame) /\ FrameMap(frames)
      /\ Parents(frames) = a.tree /\ DOMAIN a.tree = DOMAIN frames
      /\ Lives(contexts, a, Got, b) /\ Got.type \notin {"destroyed", "cleared"}
  BY <1>1, ParentsOf DEF IInv, Sound, Mirrors, Follows
<1> DEFINE f == Got.frame
           Same(gs, x) == /\ x \in DOMAIN frames /\ gs[x].main_world = frames[x].main_world
                          /\ gs[x].secondary_world = frames[x].secondary_world
           Fresh(gs, x) == gs[x].main_world = NoContext /\ gs[x].secondary_world = NoContext
<1>3. context_ids' = context_ids
  BY DEF OnFrameAttached, OnFrameDetached, OnFrameNavigated
<1>4. Parents(frames') = b.tree /\ \A x \in DOMAIN frames' : Same(frames', x) \/ Fresh(frames', x)
  <2>1. CASE OnFrameAttached
    <3>1. Got.type = "attached" /\ frames' = Attached(frames, f, Got.parent)
      BY <2>1, Taken DEF OnFrameAttached
    <3>2. f \notin DOMAIN frames /\ Got.parent \in DOMAIN frames
          /\ b.tree = Put(a.tree, f, Got.parent)
      BY <1>2, <3>1 DEF Follows, Moves
    <3>3. /\ DOMAIN frames' = DOMAIN frames \cup {f}
          /\ Parents(frames') = Put(Parents(frames), f, Got.parent)
          /\ frames'[f] = NewFrame(Got.parent)
          /\ \A x \in DOMAIN frames :
               /\ frames'[x].main_world = frames[x].main_world
               /\ frames'[x].secondary_world = frames[x].secondary_world
      <4>1. PICK g \in SubFrames, p \in DOMAIN frames : g = f /\ p = Got.parent
        BY <1>1, <3>2
      <4>2. frames' = Attached(frames, g, p) /\ g \notin DOMAIN frames
        BY <3>1, <3>2, <4>1
      <4>3. /\ DOMAIN frames' = DOMAIN frames \cup {g}
            /\ Parents(frames') = Put(Parents(frames), g, p)
            /\ frames'[g] = NewFrame(p)
            /\ \A x \in DOMAIN frames :
                 /\ frames'[x].main_world = frames[x].main_world
                 /\ frames'[x].secondary_world = frames[x].secondary_world
        <5>1. PICK gs : gs = Attached(frames, g, p)
          OBVIOUS
        <5>2. /\ DOMAIN gs = DOMAIN frames \cup {g} /\ Parents(gs) = Put(Parents(frames), g, p)
              /\ gs[g] = NewFrame(p)
              /\ \A x \in DOMAIN frames :
                   /\ gs[x].main_world = frames[x].main_world
                   /\ gs[x].secondary_world = frames[x].secondary_world
          BY <1>2, <4>2, <5>1, AttachedFacts
        <5> QED BY <4>2, <5>1, <5>2
      <4> QED BY <4>1, <4>3
    <3>4. Fresh(frames', f)
      BY <3>3 DEF NewFrame
    <3> QED BY <1>2, <3>2, <3>3, <3>4
  <2>2. CASE OnFrameDetached
    <3>1. Got.type = "detached" /\ frames' = RemoveRecursively(frames, f)
      BY <2>2, Taken DEF OnFrameDetached
    <3>2. f \in DOMAIN frames /\ b.tree = Cut(a.tree, DownFrom(a.tree, f))
      BY <1>2, <3>1 DEF Follows, Moves
    <3>3. Subtree(frames, f) = DownFrom(a.tree, f)
      BY <1>2, <3>2, SubtreeIsUnder
    <3>4. frames' = Prune(frames, DownFrom(a.tree, f))
      BY <3>1, <3>3 DEF RemoveRecursively
    <3>5. PICK gone : gone = DownFrom(a.tree, f)
      OBVIOUS
    <3>6. /\ DOMAIN frames' = DOMAIN frames \ gone /\ Parents(frames') = Cut(Parents(frames), gone)
          /\ \A x \in DOMAIN frames \ gone : Same(frames', x)
      <4>1. PICK gs : gs = Prune(frames, gone)
        OBVIOUS
      <4>2. /\ DOMAIN gs = DOMAIN frames \ gone /\ Parents(gs) = Cut(Parents(frames), gone)
            /\ SameWorlds(DOMAIN frames \ gone, frames, gs)
        BY <1>2, <4>1, PruneFacts
      <4>3. \A x \in DOMAIN frames \ gone : Same(gs, x)
        BY <4>2 DEF SameWorlds
      <4>4. frames' = gs
        BY <3>4, <3>5, <4>1
      <4> QED BY <4>2, <4>3, <4>4
    <3> QED BY <1>2, <3>2, <3>5, <3>6
  <2>3. CASE OnFrameNavigated /\ Got.parent # NoFrame
    <3>1. Got.type = "navigated" /\ frames' = ChildNavigated(frames, f)
      BY <2>3, Taken DEF OnFrameNavigated
    <3>2. f \in DOMAIN frames /\ b.tree = Cut(a.tree, DownFrom(a.tree, f) \ {f})
      BY <1>2, <2>3, <3>1 DEF Follows, Moves
    <3>3. Subtree(frames, f) = DownFrom(a.tree, f)
      BY <1>2, <3>2, SubtreeIsUnder
    <3> DEFINE gs == Prune(frames, DownFrom(a.tree, f) \ {f})
               frame == [frames[f] EXCEPT !.children = {}]
    <3>4. frames' = Update(gs, f, frame)
      BY <3>1, <3>3 DEF ChildNavigated
    <3>5. /\ DOMAIN gs = DOMAIN frames \ (DownFrom(a.tree, f) \ {f}) /\ Parents(gs) = b.tree
          /\ \A x \in DOMAIN gs : Same(gs, x)
      <4>1. PICK gone : gone = DownFrom(a.tree, f) \ {f}
        OBVIOUS
      <4>2. PICK hs : hs = Prune(frames, gone)
        OBVIOUS
      <4>3. /\ DOMAIN hs = DOMAIN frames \ gone /\ Parents(hs) = Cut(Parents(frames), gone)
            /\ SameWorlds(DOMAIN frames \ gone, frames, hs)
        BY <1>2, <4>2, PruneFacts
      <4>4. \A x \in DOMAIN hs : Same(hs, x)
        BY <4>3 DEF SameWorlds
      <4>5. Parents(hs) = b.tree
        BY <1>2, <3>2, <4>1, <4>3
      <4>6. gs = hs
        BY <4>1, <4>2
      <4> HIDE DEF gs
      <4> QED BY <4>1, <4>3, <4>4, <4>5, <4>6
    <3>6. /\ frame.parent = frames[f].parent /\ frame.main_world = frames[f].main_world
          /\ frame.secondary_world = frames[f].secondary_world
      <4>1. frames[f] \in FrameRecord
        BY <3>2, TrackedType
      <4> QED BY <4>1 DEF FrameRecord
    <3>7. f \in DOMAIN gs /\ gs[f].parent = frames[f].parent
      <4>1. f \in DOMAIN gs
        BY <3>2, <3>5
      <4>2. Parents(gs)[f] = Parents(frames)[f]
        BY <1>2, <3>2, <3>5, <4>1, ParentsOf DEF Cut
      <4> QED BY <3>2, <4>1, <4>2 DEF Parents
    <3> HIDE DEF gs, frame
    <3>8. /\ DOMAIN frames' = DOMAIN gs /\ Parents(frames') = b.tree
          /\ \A x \in DOMAIN gs : frames'[x] = IF x = f THEN frame ELSE gs[x]
      BY <3>4, <3>5, <3>6, <3>7, LoaderFacts
    <3> QED BY <3>2, <3>5, <3>6, <3>8
  <2> QED BY <2>1, <2>2, <2>3
<1>5. Mirrors(frames', context_ids, contexts, b)
  BY <1>2, <1>4, MirrorsLater
<1> QED BY <1>3, <1>5

\* A context that is not the one the event ends stays.
LEMMA ContextStays ==
  ASSUME NEW cs, NEW a, NEW e, NEW b, Lives(cs, a, e, b), b.tree = a.tree, e.type # "cleared",
         NEW c \in a.live, e.type = "destroyed" => e.context # c
  PROVE  c \in b.live
BY DEF Lives

LEMMA CreatedMirrors ==
  ASSUME IInv, NEW a, NEW b, Follows(contexts, a, Got, b), OnContextCreated,
         Mirrors(frames, context_ids, contexts, a)
  PROVE  Mirrors(frames', context_ids', contexts, b)
<1>1. Got \in TreeEvent /\ Got.type = "created"
  BY Taken DEF OnContextCreated
<1>2. b.tree = a.tree /\ Lives(contexts, a, Got, b) /\ Parents(frames) = a.tree
  BY <1>1 DEF Follows, Moves, Mirrors
<1>3. PICK d, f, v : d = Got.context /\ f = Got.frame /\ v = Got.world
  OBVIOUS
<1>4. d \in b.live /\ d \in DOMAIN contexts /\ contexts[d].frame = f /\ contexts[d].world = v
  BY <1>1, <1>2, <1>3 DEF Lives
<1> DEFINE frame == [frames[f] EXCEPT
             !.main_world = IF v = "main" THEN d ELSE @,
             !.secondary_world = IF v = "util" /\ @ = NoContext THEN d ELSE @]
<1>5. /\ frames' = Update(frames, f, frame)
      /\ context_ids' = IF f \in DOMAIN frames THEN Put(context_ids, d, f) ELSE context_ids
  BY <1>3 DEF OnContextCreated
<1>6. f \in DOMAIN frames =>
        /\ frame.parent = frames[f].parent
        /\ \/ frame.main_world = frames[f].main_world
           \/ v = "main" /\ frame.main_world = d
        /\ \/ frame.secondary_world = frames[f].secondary_world
           \/ v = "util" /\ frame.secondary_world = d
  <2> HAVE f \in DOMAIN frames
  <2> DEFINE m == IF v = "main" THEN d ELSE frames[f].main_world
             s == IF v = "util" /\ frames[f].secondary_world = NoContext THEN d
                  ELSE frames[f].secondary_world
  <2>1. frames[f] \in FrameRecord
    BY TrackedType
  <2>2. /\ \/ m = frames[f].main_world
           \/ v = "main" /\ m = d
        /\ \/ s = frames[f].secondary_world
           \/ v = "util" /\ s = d
    OBVIOUS
  <2>3. frame = [frames[f] EXCEPT !.main_world = m, !.secondary_world = s]
    OBVIOUS
  <2> HIDE DEF m, s, frame
  <2>4. frame.parent = frames[f].parent /\ frame.main_world = m /\ frame.secondary_world = s
    BY <2>1, <2>3 DEF FrameRecord
  <2> QED BY <2>2, <2>4
<1> HIDE DEF frame
<1>7. /\ DOMAIN frames' = DOMAIN frames /\ Parents(frames') = b.tree
      /\ \A x \in DOMAIN frames : frames'[x] = IF x = f THEN frame ELSE frames[x]
  BY <1>2, <1>5, <1>6, LoaderFacts
<1>8. ASSUME NEW x \in DOMAIN frames, NEW c, NEW w, Holds(context_ids, contexts, a.live, c, x, w)
      PROVE  Holds(context_ids', contexts, b.live, c, x, w)
  <2>1. SUFFICES ASSUME c # NoContext
                 PROVE  /\ c \in b.live /\ c \in DOMAIN contexts /\ contexts[c].frame = x
                        /\ contexts[c].world = w
                        /\ c \in DOMAIN context_ids' /\ context_ids'[c] = x
    BY DEF Holds
  <2>2. /\ c \in a.live /\ c \in DOMAIN contexts /\ contexts[c].frame = x
        /\ contexts[c].world = w /\ c \in DOMAIN context_ids /\ context_ids[c] = x
    BY <1>8, <2>1 DEF Holds
  <2>3. c \in b.live
    BY <1>1, <1>2, <2>2, ContextStays
  <2>4. c \in DOMAIN context_ids' /\ context_ids'[c] = x
    <3>1. CASE f \notin DOMAIN frames
      BY <1>5, <2>2, <3>1
    <3>2. CASE f \in DOMAIN frames
      <4>1. context_ids' = Put(context_ids, d, f)
        BY <1>5, <3>2
      <4>2. /\ DOMAIN context_ids' = DOMAIN context_ids \cup {d} /\ context_ids'[d] = f
            /\ \A y \in DOMAIN context_ids : y # d => context_ids'[y] = context_ids[y]
        BY <4>1 DEF Put
      <4> QED BY <1>4, <2>2, <4>2
    <3> QED BY <3>1, <3>2
  <2> QED BY <2>2, <2>3, <2>4
<1>9. f \in DOMAIN frames => Holds(context_ids', contexts, b.live, d, f, v)
  BY <1>4, <1>5 DEF Holds, Put
<1>10. ASSUME NEW x \in DOMAIN frames
       PROVE  /\ Holds(context_ids', contexts, b.live, frames'[x].main_world, x, "main")
              /\ Holds(context_ids', contexts, b.live, frames'[x].secondary_world, x, "util")
  <2>1. /\ Holds(context_ids', contexts, b.live, frames[x].main_world, x, "main")
        /\ Holds(context_ids', contexts, b.live, frames[x].secondary_world, x, "util")
    BY <1>8 DEF Mirrors
  <2>2. CASE x # f
    BY <1>7, <2>1, <2>2
  <2>3. CASE x = f
    BY <1>6, <1>7, <1>9, <2>1, <2>3
  <2> QED BY <2>2, <2>3
<1> QED BY <1>7, <1>10 DEF Mirrors

LEMMA DestroyedMirrors ==
  ASSUME IInv, NEW a, NEW b, Follows(contexts, a, Got, b), OnContextDestroyed,
         Mirrors(frames, context_ids, contexts, a)
  PROVE  Mirrors(frames', context_ids', contexts, b)
<1>1. Got \in TreeEvent /\ Got.type = "destroyed"
  BY Taken DEF OnContextDestroyed
<1>2. b.tree = a.tree /\ Lives(contexts, a, Got, b) /\ Parents(frames) = a.tree
  BY <1>1 DEF Follows, Moves, Mirrors
<1>3. PICK d : d = Got.context
  OBVIOUS
<1>4. \A c, x, w : Holds(context_ids, contexts, a.live, c, x, w) /\ c # d =>
        Holds(context_ids, contexts, b.live, c, x, w)
  <2> SUFFICES ASSUME NEW c, NEW x, NEW w, Holds(context_ids, contexts, a.live, c, x, w),
                      c # d, c # NoContext
               PROVE  Holds(context_ids, contexts, b.live, c, x, w)
    BY DEF Holds
  <2>1. c \in b.live
    BY <1>1, <1>2, <1>3, ContextStays DEF Holds
  <2> QED BY <2>1 DEF Holds
<1>5. CASE d \notin DOMAIN context_ids
  <2>1. frames' = frames /\ context_ids' = context_ids
    BY <1>3, <1>5 DEF OnContextDestroyed
  <2>2. \A c, x, w : Holds(context_ids, contexts, a.live, c, x, w) =>
          Holds(context_ids, contexts, b.live, c, x, w)
    BY <1>4, <1>5 DEF Holds
  <2> QED BY <1>2, <2>1, <2>2 DEF Mirrors
<1>6. CASE d \in DOMAIN context_ids
  <2> DEFINE f == context_ids[d]
             frame == Without(frames[f], d)
  <2>1. /\ frames' = Update(frames, f, frame)
        /\ context_ids' = [c \in DOMAIN context_ids \ {d} |-> context_ids[c]]
    BY <1>3, <1>6 DEF OnContextDestroyed
  <2>2. f \in DOMAIN frames =>
          /\ frame.parent = frames[f].parent
          /\ \/ frame.main_world = frames[f].main_world /\ frames[f].main_world # d
             \/ frame.main_world = NoContext
          /\ \/ frame.secondary_world = frames[f].secondary_world /\ frames[f].secondary_world # d
             \/ frame.secondary_world = NoContext
    <3> HAVE f \in DOMAIN frames
    <3>1. frames[f] \in FrameRecord
      BY TrackedType
    <3>2. frames[f].main_world = d /\ frames[f].secondary_world = d => d = NoContext
      <4>1. /\ Holds(context_ids, contexts, a.live, frames[f].main_world, f, "main")
            /\ Holds(context_ids, contexts, a.live, frames[f].secondary_world, f, "util")
        BY DEF Mirrors
      <4> HIDE DEF f, frame
      <4> QED BY <4>1 DEF Holds
    <3> HIDE DEF f
    <3>3. CASE frames[f].main_world = d
      <4>1. frame = [frames[f] EXCEPT !.main_world = NoContext]
        BY <3>3 DEF Without
      <4>2. /\ frame.parent = frames[f].parent /\ frame.main_world = NoContext
            /\ frame.secondary_world = frames[f].secondary_world
        BY <3>1, <4>1 DEF FrameRecord
      <4> HIDE DEF frame
      <4> QED BY <3>2, <3>3, <4>2
    <3>4. CASE frames[f].main_world # d /\ frames[f].secondary_world = d
      <4>1. frame = [frames[f] EXCEPT !.secondary_world = NoContext]
        BY <3>4 DEF Without
      <4> QED BY <3>1, <3>4, <4>1 DEF FrameRecord
    <3>5. CASE frames[f].main_world # d /\ frames[f].secondary_world # d
      BY <3>5 DEF Without
    <3> QED BY <3>3, <3>4, <3>5
  <2>3. f = context_ids[d]
    OBVIOUS
  <2> HIDE DEF f, frame
  <2>4. /\ DOMAIN frames' = DOMAIN frames /\ Parents(frames') = b.tree
        /\ \A x \in DOMAIN frames : frames'[x] = IF x = f THEN frame ELSE frames[x]
    BY <1>2, <2>1, <2>2, LoaderFacts
  <2>5. \A c, x, w : Holds(context_ids, contexts, a.live, c, x, w) /\ c # d =>
          Holds(context_ids', contexts, b.live, c, x, w)
    <3>1. \A c : c \in DOMAIN context_ids /\ c # d =>
            c \in DOMAIN context_ids' /\ context_ids'[c] = context_ids[c]
      BY <2>1
    <3> QED BY <1>4, <3>1 DEF Holds
  <2>6. ASSUME NEW x \in DOMAIN frames
        PROVE  /\ Holds(context_ids', contexts, b.live, frames'[x].main_world, x, "main")
               /\ Holds(context_ids', contexts, b.live, frames'[x].secondary_world, x, "util")
    <3>1. /\ Holds(context_ids, contexts, a.live, frames[x].main_world, x, "main")
          /\ Holds(context_ids, contexts, a.live, frames[x].secondary_world, x, "util")
      BY DEF Mirrors
    <3>2. CASE x = f
      BY <2>2, <2>4, <2>5, <3>1, <3>2, NoWorldHolds
    <3>3. CASE x # f
      <4>1. /\ frames[x].main_world # d \/ frames[x].main_world = NoContext
            /\ frames[x].secondary_world # d \/ frames[x].secondary_world = NoContext
        BY <2>3, <3>1, <3>3 DEF Holds
      <4> QED BY <2>4, <2>5, <3>1, <3>3, <4>1, NoWorldHolds
    <3> QED BY <3>2, <3>3
  <2> QED BY <2>4, <2>6 DEF Mirrors
<1> QED BY <1>5, <1>6

LEMMA ClearedMirrors ==
  ASSUME IInv, NEW a, NEW b, Follows(contexts, a, Got, b), OnContextsCleared,
         Mirrors(frames, context_ids, contexts, a)
  PROVE  Mirrors(frames', context_ids', contexts, b)
<1>1. Got \in TreeEvent /\ Got.type = "cleared"
  BY Taken DEF OnContextsCleared
<1>2. b.tree = a.tree /\ Parents(frames) = a.tree
  BY <1>1 DEF Follows, Moves, Mirrors
<1>3. DOMAIN frames' = DOMAIN frames
  BY DEF OnContextsCleared
<1>4. ASSUME NEW x \in DOMAIN frames
      PROVE  /\ frames'[x].parent = frames[x].parent
             /\ frames'[x].main_world = NoContext /\ frames'[x].secondary_world = NoContext
  <2>1. frames[x] \in FrameRecord
    BY TrackedType
  <2>2. CASE \E c \in DOMAIN context_ids : context_ids[c] = x
    <3>1. frames'[x] =
            [frames[x] EXCEPT !.main_world = NoContext, !.secondary_world = NoContext]
      BY <2>2 DEF OnContextsCleared
    <3> QED BY <2>1, <3>1 DEF FrameRecord
  <2>3. CASE ~\E c \in DOMAIN context_ids : context_ids[c] = x
    <3>1. frames'[x] = frames[x]
      BY <2>3 DEF OnContextsCleared
    <3>2. /\ Holds(context_ids, contexts, a.live, frames[x].main_world, x, "main")
          /\ Holds(context_ids, contexts, a.live, frames[x].secondary_world, x, "util")
      BY DEF Mirrors
    <3> QED BY <2>3, <3>1, <3>2 DEF Holds
  <2> QED BY <2>2, <2>3
<1>5. Parents(frames') = b.tree
  BY <1>2, <1>3, <1>4 DEF Parents
<1> QED BY <1>3, <1>4, <1>5, NoWorldHolds DEF Mirrors

\* What the events of loading change.
LEMMA LoadingMirrors ==
  ASSUME IInv, NEW a, NEW b, Follows(contexts, a, Got, b),
         OnLifecycleEvent \/ OnStartedLoading \/ OnHttpRequestFinished,
         Mirrors(frames, context_ids, contexts, a)
  PROVE  Mirrors(frames', context_ids', contexts, b)
<1>1. Got \in TreeEvent /\ Got.type \in {"lifecycle", "started", "finished"}
  BY Taken DEF OnLifecycleEvent, OnStartedLoading, OnHttpRequestFinished
<1>2. /\ b.tree = a.tree /\ Lives(contexts, a, Got, b) /\ Parents(frames) = a.tree
      /\ Got.type \notin {"destroyed", "cleared"}
  BY <1>1 DEF Follows, Moves, Mirrors
<1>3. \E frame :
        /\ frames' = Update(frames, Got.frame, frame)
        /\ Got.frame \in DOMAIN frames =>
             /\ frame.parent = frames[Got.frame].parent
             /\ frame.main_world = frames[Got.frame].main_world
             /\ frame.secondary_world = frames[Got.frame].secondary_world
  <2>1. \E frame :
          /\ frames' = Update(frames, Got.frame, frame)
          /\ \/ \E new : frame = [frames[Got.frame] EXCEPT !.lifecycle = new]
             \/ frame = [frames[Got.frame] EXCEPT !.lifecycle = {}, !.request = FALSE]
             \/ frame = [frames[Got.frame] EXCEPT !.request = TRUE]
    BY DEF OnLifecycleEvent, OnStartedLoading, OnHttpRequestFinished
  <2>2. PICK frame :
          /\ frames' = Update(frames, Got.frame, frame)
          /\ \/ \E new : frame = [frames[Got.frame] EXCEPT !.lifecycle = new]
             \/ frame = [frames[Got.frame] EXCEPT !.lifecycle = {}, !.request = FALSE]
             \/ frame = [frames[Got.frame] EXCEPT !.request = TRUE]
    BY <2>1
  <2>3. Got.frame \in DOMAIN frames =>
             /\ frame.parent = frames[Got.frame].parent
             /\ frame.main_world = frames[Got.frame].main_world
             /\ frame.secondary_world = frames[Got.frame].secondary_world
    <3> HAVE Got.frame \in DOMAIN frames
    <3>1. frames[Got.frame] \in FrameRecord
      BY TrackedType
    <3> QED BY <2>2, <3>1 DEF FrameRecord
  <2> QED BY <2>2, <2>3
<1>4. PICK frame, f :
        /\ f = Got.frame /\ frames' = Update(frames, f, frame)
        /\ f \in DOMAIN frames =>
             /\ frame.parent = frames[f].parent
             /\ frame.main_world = frames[f].main_world
             /\ frame.secondary_world = frames[f].secondary_world
  BY <1>3
<1>5. /\ DOMAIN frames' = DOMAIN frames /\ Parents(frames') = Parents(frames)
      /\ \A x \in DOMAIN frames : frames'[x] = IF x = f THEN frame ELSE frames[x]
  BY <1>4, LoaderFacts
<1>6. \A x \in DOMAIN frames' :
        /\ x \in DOMAIN frames /\ frames'[x].main_world = frames[x].main_world
        /\ frames'[x].secondary_world = frames[x].secondary_world
  BY <1>4, <1>5
<1>7. context_ids' = context_ids
  BY DEF OnLifecycleEvent, OnStartedLoading, OnHttpRequestFinished
<1>8. Mirrors(frames', context_ids, contexts, b)
  BY <1>2, <1>5, <1>6, MirrorsLater
<1> QED BY <1>7, <1>8

\* A handler takes the manager along, once it knows of a main frame.
LEMMA EventMirrors ==
  ASSUME IInv, NEW a, NEW b, Follows(contexts, a, Got, b), OnEvent,
         main_frame # NoFrame => Mirrors(frames, context_ids, contexts, a)
  PROVE  /\ main_frame' # NoFrame => Mirrors(frames', context_ids', contexts, b)
         /\ main_frame # NoFrame \/ Got.type = "tree" => main_frame' # NoFrame
<1>1. CASE OnFrameTree
  <2>1. Got \in TreeEvent /\ Got.type = "tree" /\ main_frame' = Root(Got.tree)
    BY <1>1, Taken DEF OnFrameTree
  <2>2. Got.tree \in Trees
    BY <2>1 DEF TreeEvent
  <2> QED BY <1>1, <2>1, <2>2, PageMapIsTree, TreeMirrors
<1>2. CASE OnFrameNavigated /\ Got.parent = NoFrame
  <2>1. main_frame' = Got.frame /\ Got.frame \in Mains
    BY <1>2, MainFrames DEF OnFrameNavigated
  <2>2. main_frame' # NoFrame
    BY <2>1, FrameAssumption DEF Mains, FrameIds
  <2> QED BY <1>2, <2>2, MainMirrors
<1>3. ASSUME \/ OnFrameAttached \/ OnFrameDetached
             \/ OnFrameNavigated /\ Got.parent # NoFrame
      PROVE  main_frame' = main_frame /\ Got.type # "tree"
  BY <1>3, Taken DEF OnFrameAttached, OnFrameDetached, OnFrameNavigated
<1>4. ASSUME \/ OnContextCreated \/ OnContextDestroyed \/ OnContextsCleared
             \/ OnLifecycleEvent \/ OnStartedLoading \/ OnHttpRequestFinished
      PROVE  main_frame' = main_frame /\ Got.type # "tree"
  <2>1. main_frame' = main_frame
    BY <1>4 DEF OnContextCreated, OnContextDestroyed, OnContextsCleared, OnLifecycleEvent,
                OnStartedLoading, OnHttpRequestFinished
  <2>2. \E type : type # "tree" /\ Take(type)
    BY <1>4 DEF OnContextCreated, OnContextDestroyed, OnContextsCleared, OnLifecycleEvent,
                OnStartedLoading, OnHttpRequestFinished
  <2> QED BY <2>1, <2>2, Taken
<1>5. CASE \/ OnFrameAttached \/ OnFrameDetached
           \/ OnFrameNavigated /\ Got.parent # NoFrame
  BY <1>3, <1>5, BelowMirrors
<1>6. CASE \/ OnContextCreated \/ OnContextDestroyed \/ OnContextsCleared
           \/ OnLifecycleEvent \/ OnStartedLoading \/ OnHttpRequestFinished
  BY <1>4, <1>6, CreatedMirrors, DestroyedMirrors, ClearedMirrors, LoadingMirrors
<1> QED BY <1>1, <1>2, <1>5, <1>6 DEF OnEvent

-----------------------------------------------------------------------------
(* The moments of the page *)

\* A context keeps its frame and its world.
SteadyTree(cs, ds) ==
  \A c \in DOMAIN cs : c \in DOMAIN ds /\ ds[c].frame = cs[c].frame /\ ds[c].world = cs[c].world

LEMMA FollowsStill ==
  ASSUME NEW cs, NEW ds, SteadyTree(cs, ds), NEW a, NEW e, NEW b, Follows(cs, a, e, b),
         a.live \subseteq DOMAIN cs
  PROVE  Follows(ds, a, e, b)
<1>1. Moves(a.tree, e, b.tree) /\ Lives(cs, a, e, b)
  BY DEF Follows
<1>2. Lives(ds, a, e, b)
  BY <1>1 DEF Lives, SteadyTree
<1> QED BY <1>1, <1>2 DEF Follows

LEMMA MirrorsStill ==
  ASSUME NEW cs, NEW ds, SteadyTree(cs, ds), NEW fs, NEW ids, NEW a, Mirrors(fs, ids, cs, a)
  PROVE  Mirrors(fs, ids, ds, a)
BY DEF Mirrors, Holds, SteadyTree

LEMMA OnEventHInv ==
  ASSUME HInv, OnEvent
  PROVE  HInv'
<1>1. IInv /\ IInv'
  BY OnEventIInv DEF HInv
<1>2. PICK h : History(h)
  BY DEF HInv
<1> DEFINE n == Len(events)
<1>0. PICK g : g = [k \in 0..n - 1 |-> h[k + 1]]
  OBVIOUS
<1>3. \E type : Take(type)
  BY DEF OnEvent, OnFrameTree, OnFrameAttached, OnFrameDetached, OnFrameNavigated,
         OnContextCreated, OnContextDestroyed, OnContextsCleared, OnLifecycleEvent,
         OnStartedLoading, OnHttpRequestFinished
<1>4. /\ n \in Nat \ {0} /\ Got = events[1] /\ Len(events') = n - 1
      /\ \A k \in 1..n - 1 : events'[k] = events[k + 1]
  BY <1>1, <1>3, GotFacts
<1>5. UNCHANGED <<page, contexts, tree_sent>>
  BY DEF OnEvent, pageVars
<1> HIDE DEF n
<1>6. /\ h[n] = Now /\ \A k \in 0..n : h[k].live \subseteq DOMAIN contexts
      /\ \A k \in 1..n : Follows(contexts, h[k - 1], events[k], h[k])
      /\ main_frame # NoFrame => Mirrors(frames, context_ids, contexts, h[0])
  BY <1>2 DEF History, n
<1>7. Follows(contexts, h[0], Got, h[1])
  <2>1. 1 \in 1..n /\ 1 - 1 = 0
    BY <1>4
  <2> QED BY <1>4, <1>6, <2>1
<1>8. /\ main_frame' # NoFrame => Mirrors(frames', context_ids', contexts, h[1])
      /\ main_frame # NoFrame \/ Got.type = "tree" => main_frame' # NoFrame
  BY <1>1, <1>6, <1>7, EventMirrors
<1>9. \A k \in 0..n - 1 : g[k] = h[k + 1] /\ k + 1 \in 1..n
  BY <1>0, <1>4
<1>10. n - 1 \in 0..n - 1 /\ (n - 1) + 1 = n /\ 0 \in 0..n - 1 /\ 0 + 1 = 1
  BY <1>4
<1>11. g[n - 1] = Now'
  BY <1>5, <1>6, <1>9, <1>10 DEF Now
<1>12. \A k \in 0..n - 1 : g[k].live \subseteq DOMAIN contexts'
  <2>1. \A k \in 0..n - 1 : k + 1 \in 0..n
    BY <1>4
  <2> QED BY <1>5, <1>6, <1>9, <2>1
<1>13. \A k \in 1..n - 1 : Follows(contexts', g[k - 1], events'[k], g[k])
  <2> TAKE k \in 1..n - 1
  <2>1. k - 1 \in 0..n - 1 /\ k \in 0..n - 1 /\ (k - 1) + 1 = k /\ k + 1 \in 1..n /\ (k + 1) - 1 = k
    BY <1>4
  <2>2. Follows(contexts, h[k], events[k + 1], h[k + 1])
    BY <1>6, <2>1
  <2>3. g[k - 1] = h[k] /\ g[k] = h[k + 1] /\ events'[k] = events[k + 1]
    BY <1>4, <1>9, <2>1
  <2> QED BY <1>5, <2>2, <2>3
<1>14. main_frame' # NoFrame => Mirrors(frames', context_ids', contexts', g[0])
  BY <1>5, <1>8, <1>9, <1>10
<1>15. \E f : History(f)'
  <2>1. History(g)'
    BY <1>4, <1>11, <1>12, <1>13, <1>14 DEF History
  <2> QED BY <2>1
<1>16. tree_sent' =>
         main_frame' # NoFrame \/ \E k \in 1..Len(events') : events'[k].type = "tree"
  <2> HAVE tree_sent'
  <2>1. main_frame # NoFrame \/ \E k \in 1..n : events[k].type = "tree"
    BY <1>5 DEF HInv, n
  <2>2. CASE main_frame # NoFrame
    BY <1>8, <2>2
  <2>3. ASSUME NEW k \in 1..n, events[k].type = "tree"
        PROVE  main_frame' # NoFrame \/ \E i \in 1..Len(events') : events'[i].type = "tree"
    <3>1. CASE k = 1
      BY <1>4, <1>8, <2>3, <3>1
    <3>2. CASE k # 1
      <4>1. k - 1 \in 1..n - 1 /\ (k - 1) + 1 = k
        BY <1>4, <3>2
      <4>2. events'[k - 1].type = "tree"
        BY <1>4, <2>3, <4>1
      <4> QED BY <1>4, <4>1, <4>2
    <3> QED BY <3>1, <3>2
  <2> QED BY <2>1, <2>2, <2>3
<1>17. \A c \in DOMAIN contexts' : contexts'[c] \in ContextRecord
  BY <1>5 DEF HInv
<1> QED BY <1>1, <1>15, <1>16, <1>17 DEF HInv

\* A step of the page: it goes on by one moment.
LEMMA PageGoesOn ==
  ASSUME HInv, IInv', NEW e, Emit(<<e>>), SteadyTree(contexts, contexts'),
         \A c \in DOMAIN contexts' : contexts'[c] \in ContextRecord,
         Follows(contexts', Now, e, Now'),
         tree_sent' => tree_sent \/ e.type = "tree"
  PROVE  HInv'
<1> DEFINE n == Len(events)
<1>1. PICK h : History(h)
  BY DEF HInv
<1>2. PICK now : now = Now'
  OBVIOUS
<1>3. PICK g : g = [k \in 0..n + 1 |-> IF k = n + 1 THEN now ELSE h[k]]
  OBVIOUS
<1>4. /\ n \in Nat /\ Len(events') = n + 1 /\ events'[n + 1] = e
      /\ \A k \in 1..n : events'[k] = events[k]
      /\ UNCHANGED <<main_frame, frames, context_ids>>
  <2>1. events \in Seq(TreeEvent) /\ events' = events \o <<e>> /\ UNCHANGED managerVars
    BY DEF HInv, IInv, Emit
  <2> QED BY <2>1 DEF managerVars
<1> HIDE DEF n
<1>5. /\ h[n] = Now /\ \A k \in 0..n : h[k].live \subseteq DOMAIN contexts
      /\ \A k \in 1..n : Follows(contexts, h[k - 1], events[k], h[k])
      /\ main_frame # NoFrame => Mirrors(frames, context_ids, contexts, h[0])
  BY <1>1 DEF History, n
<1>6. /\ g[n + 1] = now /\ g[n] = h[n] /\ g[0] = h[0]
      /\ \A k \in 0..n : g[k] = h[k]
  BY <1>3, <1>4
<1>7. \A k \in 0..n + 1 : g[k].live \subseteq DOMAIN contexts'
  <2>1. now.live \subseteq DOMAIN contexts'
    BY <1>2 DEF Now
  <2>2. DOMAIN contexts \subseteq DOMAIN contexts'
    BY DEF SteadyTree
  <2>3. \A k \in 0..n + 1 : k = n + 1 \/ k \in 0..n
    BY <1>4
  <2> QED BY <1>5, <1>6, <2>1, <2>2, <2>3
<1>8. ASSUME NEW k \in 1..n + 1
      PROVE  Follows(contexts', g[k - 1], events'[k], g[k])
  <2>1. CASE k = n + 1
    <3>1. k - 1 = n
      BY <1>4, <2>1
    <3> QED BY <1>2, <1>4, <1>5, <1>6, <2>1, <3>1
  <2>2. CASE k # n + 1
    <3>1. k \in 1..n /\ k - 1 \in 0..n /\ k \in 0..n
      BY <1>4, <2>2
    <3>2. Follows(contexts, h[k - 1], events[k], h[k]) /\ h[k - 1].live \subseteq DOMAIN contexts
      BY <1>5, <3>1
    <3>3. Follows(contexts', h[k - 1], events[k], h[k])
      BY <3>2, FollowsStill
    <3> QED BY <1>4, <1>6, <3>1, <3>3
  <2> QED BY <2>1, <2>2
<1>9. main_frame' # NoFrame => Mirrors(frames', context_ids', contexts', g[0])
  BY <1>4, <1>5, <1>6, MirrorsStill
<1>10. History(g)'
  BY <1>2, <1>4, <1>6, <1>7, <1>8, <1>9 DEF History
<1>11. tree_sent' =>
         main_frame' # NoFrame \/ \E k \in 1..Len(events') : events'[k].type = "tree"
  <2>1. n + 1 \in 1..n + 1 /\ \A k \in 1..n : k \in 1..n + 1
    BY <1>4
  <2>2. tree_sent => main_frame # NoFrame \/ \E k \in 1..n : events[k].type = "tree"
    BY DEF HInv, n
  <2> QED BY <1>4, <2>1, <2>2
<1> QED BY <1>10, <1>11 DEF HInv

LEMMA PageLive ==
  ASSUME HInv
  PROVE  /\ IInv /\ \A c \in DOMAIN contexts : contexts[c] \in ContextRecord
         /\ Now.tree = page /\ \A c : c \in Now.live <=> c \in DOMAIN contexts /\ contexts[c].live
BY DEF HInv, Now

\* Contexts end.
LEMMA KilledFacts ==
  ASSUME HInv, NEW dead, contexts' = Killed(dead)
  PROVE  /\ SteadyTree(contexts, contexts')
         /\ \A c \in DOMAIN contexts' : contexts'[c] \in ContextRecord
         /\ \A c \in Now.live \ Now'.live : c \in dead /\ c \in DOMAIN contexts
<1>1. /\ DOMAIN contexts' = DOMAIN contexts
      /\ \A c \in DOMAIN contexts : contexts'[c] = [contexts[c] EXCEPT !.live = @ /\ c \notin dead]
  BY DEF Killed
<1>2. ASSUME NEW c \in DOMAIN contexts
      PROVE  /\ contexts'[c] \in ContextRecord /\ contexts'[c].frame = contexts[c].frame
             /\ contexts'[c].world = contexts[c].world
             /\ contexts'[c].live <=> contexts[c].live /\ c \notin dead
  <2>1. contexts[c] \in ContextRecord
    BY DEF HInv
  <2>2. PICK v \in BOOLEAN : v <=> contexts[c].live /\ c \notin dead
    OBVIOUS
  <2>3. contexts'[c] = [contexts[c] EXCEPT !.live = contexts[c].live /\ c \notin dead]
    BY <1>1
  <2>4. (contexts[c].live /\ c \notin dead) = v
    BY <2>2
  <2>5. contexts'[c] = [contexts[c] EXCEPT !.live = v]
    BY <2>3, <2>4
  <2> QED BY <2>1, <2>2, <2>5 DEF ContextRecord
<1>3. \A c : c \in Now'.live <=> c \in DOMAIN contexts' /\ contexts'[c].live
  BY DEF Now
<1> QED BY <1>1, <1>2, <1>3, PageLive DEF SteadyTree

\* Frames leave with their contexts.
LEMMA LeaveFacts ==
  ASSUME HInv, NEW gone, Leave(gone), gone \subseteq DOMAIN page
  PROVE  /\ SteadyTree(contexts, contexts')
         /\ \A c \in DOMAIN contexts' : contexts'[c] \in ContextRecord
         /\ page' = Cut(page, gone)
         /\ \A c \in Now.live \ Now'.live : contexts'[c].frame \in DOMAIN page \ DOMAIN page'
<1>1. /\ page' = Cut(page, gone) /\ DOMAIN page' = DOMAIN page \ gone
      /\ contexts' = Killed(UNION {LiveIn(x) : x \in gone})
  BY DEF Leave, Cut
<1>2. /\ SteadyTree(contexts, contexts')
      /\ \A c \in DOMAIN contexts' : contexts'[c] \in ContextRecord
      /\ \A c \in Now.live \ Now'.live :
           c \in UNION {LiveIn(x) : x \in gone} /\ c \in DOMAIN contexts
  BY <1>1, KilledFacts
<1>3. \A c \in UNION {LiveIn(x) : x \in gone} : contexts[c].frame \in gone
  BY DEF LiveIn
<1> QED BY <1>1, <1>2, <1>3 DEF SteadyTree

LEMMA PageStepHInv ==
  ASSUME HInv, PageStep
  PROVE  HInv'
<1>1. IInv /\ IInv' /\ PageMap(page)
  BY PageStepIInv DEF HInv, IInv
<1>2. /\ \A c \in DOMAIN contexts : contexts[c] \in ContextRecord
      /\ Now.tree = page /\ Now'.tree = page'
      /\ \A c : c \in Now.live <=> c \in DOMAIN contexts /\ contexts[c].live
      /\ \A c : c \in Now'.live <=> c \in DOMAIN contexts' /\ contexts'[c].live
  BY PageLive DEF HInv, Now
<1>3. contexts' = contexts =>
        /\ SteadyTree(contexts, contexts') /\ Now'.live = Now.live
        /\ \A c \in DOMAIN contexts' : contexts'[c] \in ContextRecord
  BY <1>2 DEF SteadyTree, Now
<1>4. CASE PageSendsTree
  <2> DEFINE e == [type |-> "tree", tree |-> page]
  <2>1. Emit(<<e>>) /\ UNCHANGED <<page, contexts>>
    BY <1>4 DEF PageSendsTree
  <2>2. e.type = "tree" /\ e.tree = page
    OBVIOUS
  <2> HIDE DEF e
  <2>3. Follows(contexts', Now, e, Now')
    BY <1>2, <1>3, <2>1, <2>2 DEF Follows, Moves, Lives
  <2> QED BY <1>1, <1>3, <2>1, <2>2, <2>3, PageGoesOn
<1>5. CASE PageClearsContexts
  <2> DEFINE e == [type |-> "cleared"]
  <2>1. Emit(<<e>>) /\ UNCHANGED <<page, tree_sent>> /\ contexts' = Killed(DOMAIN contexts)
    BY <1>5 DEF PageClearsContexts
  <2>2. e.type = "cleared"
    OBVIOUS
  <2> HIDE DEF e
  <2>3. Follows(contexts', Now, e, Now')
    BY <1>2, <2>1, <2>2 DEF Follows, Moves, Lives
  <2> QED BY <1>1, <2>1, <2>3, KilledFacts, PageGoesOn
<1>6. ASSUME NEW f \in SubFrames, PageDetaches(f) PROVE HInv'
  <2> DEFINE e == [type |-> "detached", frame |-> f]
  <2>1. /\ Emit(<<e>>) /\ UNCHANGED tree_sent /\ f \in DOMAIN page
        /\ Leave(DownFrom(page, f)) /\ DownFrom(page, f) \subseteq DOMAIN page
    BY <1>6, BelowIsUnder DEF PageDetaches, DownFrom
  <2>2. e.type = "detached" /\ e.frame = f
    OBVIOUS
  <2> HIDE DEF e
  <2>3. /\ SteadyTree(contexts, contexts')
        /\ \A c \in DOMAIN contexts' : contexts'[c] \in ContextRecord
        /\ page' = Cut(page, DownFrom(page, f))
        /\ \A c \in Now.live \ Now'.live : contexts'[c].frame \in DOMAIN page \ DOMAIN page'
    BY <2>1, LeaveFacts
  <2>4. Follows(contexts', Now, e, Now')
    BY <1>2, <2>1, <2>2, <2>3 DEF Follows, Moves, Lives
  <2> QED BY <1>1, <2>1, <2>3, <2>4, PageGoesOn
<1>7. ASSUME NEW f \in SubFrames, PageNavigatesChild(f) PROVE HInv'
  <2> DEFINE e == [type |-> "navigated", frame |-> f, parent |-> page[f]]
  <2>1. /\ Emit(<<e>>) /\ UNCHANGED tree_sent /\ f \in DOMAIN page /\ page[f] # NoFrame
        /\ Leave(DownFrom(page, f) \ {f}) /\ DownFrom(page, f) \ {f} \subseteq DOMAIN page
    BY <1>7, BelowIsUnder DEF PageNavigatesChild, DownFrom
  <2>2. e.type = "navigated" /\ e.frame = f /\ e.parent # NoFrame
    BY <2>1
  <2> HIDE DEF e
  <2>3. /\ SteadyTree(contexts, contexts')
        /\ \A c \in DOMAIN contexts' : contexts'[c] \in ContextRecord
        /\ page' = Cut(page, DownFrom(page, f) \ {f})
        /\ \A c \in Now.live \ Now'.live : contexts'[c].frame \in DOMAIN page \ DOMAIN page'
    BY <2>1, LeaveFacts
  <2>4. Follows(contexts', Now, e, Now')
    BY <1>2, <2>1, <2>2, <2>3 DEF Follows, Moves, Lives
  <2> QED BY <1>1, <2>1, <2>3, <2>4, PageGoesOn
<1>8. ASSUME NEW f \in SubFrames, NEW p \in FrameIds, PageAttaches(f, p) PROVE HInv'
  <2> DEFINE e == [type |-> "attached", frame |-> f, parent |-> p]
  <2>1. /\ Emit(<<e>>) /\ UNCHANGED <<contexts, tree_sent>> /\ f \notin DOMAIN page
        /\ p \in DOMAIN page /\ page' = Put(page, f, p)
    BY <1>8 DEF PageAttaches
  <2>2. e.type = "attached" /\ e.frame = f /\ e.parent = p
    OBVIOUS
  <2> HIDE DEF e
  <2>3. Follows(contexts', Now, e, Now')
    BY <1>2, <1>3, <2>1, <2>2 DEF Follows, Moves, Lives
  <2> QED BY <1>1, <1>3, <2>1, <2>3, PageGoesOn
<1>9. ASSUME NEW f \in Mains, PageNavigates(f) PROVE HInv'
  <2> DEFINE e == [type |-> "navigated", frame |-> f, parent |-> NoFrame]
  <2>1. /\ Emit(<<e>>) /\ UNCHANGED <<contexts, tree_sent>>
        /\ page' = [x \in {f} |-> NoFrame] /\ \A g \in DOMAIN page : LiveIn(g) = {}
    BY <1>9 DEF PageNavigates
  <2>2. e.type = "navigated" /\ e.frame = f /\ e.parent = NoFrame
    OBVIOUS
  <2> HIDE DEF e
  <2>3. \A c \in Now.live : contexts'[c].frame \notin DOMAIN page
    BY <1>2, <2>1 DEF LiveIn
  <2>4. Follows(contexts', Now, e, Now')
    BY <1>2, <1>3, <2>1, <2>2, <2>3 DEF Follows, Moves, Lives
  <2> QED BY <1>1, <1>3, <2>1, <2>4, PageGoesOn
<1>10. ASSUME NEW c \in Contexts, PageDestroysContext(c) PROVE HInv'
  <2> DEFINE e == [type |-> "destroyed", context |-> c]
  <2>1. Emit(<<e>>) /\ UNCHANGED <<page, tree_sent>> /\ contexts' = Killed({c})
    BY <1>10 DEF PageDestroysContext
  <2>2. e.type = "destroyed" /\ e.context = c
    OBVIOUS
  <2> HIDE DEF e
  <2>3. /\ SteadyTree(contexts, contexts')
        /\ \A d \in DOMAIN contexts' : contexts'[d] \in ContextRecord
        /\ \A d \in Now.live \ Now'.live : d = c
    BY <2>1, KilledFacts
  <2>4. Follows(contexts', Now, e, Now')
    BY <1>2, <2>1, <2>2, <2>3 DEF Follows, Moves, Lives
  <2> QED BY <1>1, <2>1, <2>3, <2>4, PageGoesOn
<1>11. ASSUME NEW c \in Contexts, NEW f \in FrameIds, NEW w \in {"main", "util"},
              PageCreatesContext(c, f, w)
       PROVE  HInv'
  <2> DEFINE e == [type |-> "created", context |-> c, frame |-> f, world |-> w]
  <2>1. /\ Emit(<<e>>) /\ UNCHANGED <<page, tree_sent>> /\ c \notin DOMAIN contexts
        /\ contexts' = Put(contexts, c, [frame |-> f, world |-> w, live |-> TRUE])
    BY <1>11 DEF PageCreatesContext
  <2>2. e.type = "created" /\ e.context = c /\ e.frame = f /\ e.world = w
    OBVIOUS
  <2> HIDE DEF e
  <2>3. /\ DOMAIN contexts' = DOMAIN contexts \cup {c}
        /\ contexts'[c] = [frame |-> f, world |-> w, live |-> TRUE]
        /\ \A d \in DOMAIN contexts : contexts'[d] = contexts[d]
    BY <2>1 DEF Put
  <2>4. /\ contexts'[c] \in ContextRecord /\ contexts'[c].frame = f /\ contexts'[c].world = w
        /\ contexts'[c].live
    BY <2>3 DEF ContextRecord
  <2>5. /\ SteadyTree(contexts, contexts')
        /\ \A d \in DOMAIN contexts' : contexts'[d] \in ContextRecord
    BY <1>2, <2>3, <2>4 DEF SteadyTree
  <2>6. (\A d \in Now.live : d \in Now'.live) /\ c \in Now'.live
    BY <1>2, <2>3, <2>4
  <2>7. Follows(contexts', Now, e, Now')
    BY <1>2, <2>1, <2>2, <2>3, <2>4, <2>6 DEF Follows, Moves, Lives
  <2> QED BY <1>1, <2>1, <2>5, <2>7, PageGoesOn
<1>12. ASSUME NEW type \in {"lifecycle", "started", "finished"}, NEW name, PageReports(type, name)
       PROVE  HInv'
  <2> DEFINE e == [type |-> type, frame |-> Root(page), name |-> name]
  <2>1. Emit(<<e>>) /\ UNCHANGED <<page, contexts, tree_sent>>
    BY <1>12 DEF PageReports
  <2>2. e.type \in {"lifecycle", "started", "finished"}
    OBVIOUS
  <2> HIDE DEF e
  <2>3. Follows(contexts', Now, e, Now')
    BY <1>2, <1>3, <2>1, <2>2 DEF Follows, Moves, Lives
  <2> QED BY <1>1, <1>3, <2>1, <2>3, PageGoesOn
<1> QED BY <1>4, <1>5, <1>6, <1>7, <1>8, <1>9, <1>10, <1>11, <1>12 DEF PageStep, Mains

LEMMA InitHInv == FrameInit => HInv
<1> SUFFICES ASSUME FrameInit PROVE HInv
  OBVIOUS
<1>1. IInv /\ Len(events) = 0 /\ main_frame = NoFrame /\ ~tree_sent /\ DOMAIN contexts = {}
  BY InitIInv DEF FrameInit
<1>2. PICK h : h = [k \in {0} |-> Now]
  OBVIOUS
<1>3. Now.live \subseteq DOMAIN contexts
  BY DEF Now
<1>4. h[0] = Now /\ (\A k \in 0..0 : k = 0) /\ 1..0 = {}
  BY <1>2
<1>5. History(h)
  BY <1>1, <1>3, <1>4 DEF History
<1> QED BY <1>1, <1>5 DEF HInv

\* The steps that touch neither frames, contexts nor events.
LEMMA StillHInv ==
  ASSUME HInv, IInv',
         UNCHANGED <<main_frame, frames, context_ids, page, contexts, events, tree_sent>>
  PROVE  HInv'
<1>1. PICK h : History(h)
  BY DEF HInv
<1>2. History(h)'
  <2>1. Now' = Now
    BY DEF Now
  <2> QED BY <1>1, <2>1 DEF History
<1>3. \E g : History(g)'
  BY <1>2
<1> QED BY <1>3 DEF HInv

LEMMA NextHInv == HInv /\ [FrameNext]_frameVars => HInv'
<1> SUFFICES ASSUME HInv, [FrameNext]_frameVars PROVE HInv'
  OBVIOUS
<1>1. IInv /\ IInv'
  BY NextIInv DEF HInv
<1>2. CASE OnEvent
  BY <1>2, OnEventHInv
<1>3. CASE PageStep
  BY <1>3, PageStepHInv
<1>4. CASE EnsureIsolatedWorld \/ OnWaitForNavigation \/ PollWaiters \/ UNCHANGED frameVars
  <2>1. UNCHANGED <<main_frame, frames, context_ids, page, contexts, events, tree_sent>>
    BY <1>4 DEF EnsureIsolatedWorld, OnWaitForNavigation, PollWaiters, frameVars, managerVars,
       pageVars
  <2> QED BY <1>1, <2>1, StillHInv
<1> QED BY <1>2, <1>3, <1>4 DEF FrameNext

\* With no event left the manager is where the page is.
LEMMA Arrived ==
  ASSUME HInv, tree_sent, events = <<>>
  PROVE  main_frame # NoFrame /\ Mirrors(frames, context_ids, contexts, Now)
<1>1. Len(events) = 0 /\ 1..0 = {}
  OBVIOUS
<1>2. PICK h : History(h)
  BY DEF HInv
<1>3. main_frame # NoFrame
  BY <1>1 DEF HInv
<1>4. h[0] = Now /\ Mirrors(frames, context_ids, contexts, h[0])
  BY <1>1, <1>2, <1>3 DEF History
<1> QED BY <1>3, <1>4


-----------------------------------------------------------------------------
(* The theorems *)

\* The invariant holds of every run.
THEOREM AlwaysSound == FrameSpec => []IInv
<1>1. FrameInit => IInv
  BY InitIInv
<1>2. IInv /\ [FrameNext]_frameVars => IInv'
  BY NextIInv
<1> QED BY <1>1, <1>2, PTL DEF FrameSpec

\* Every frame, context and waiter the FrameManager of a Target keeps has its type:
\* no event makes it track a frame or a context the page never had.
THEOREM TypeCorrect == FrameSpec => []FrameTypeOK
<1>1. IInv => FrameTypeOK
  BY DEF IInv
<1> QED BY <1>1, AlwaysSound, PTL

\* Attach, detach, navigation and the answer to getFrameTree, in any order the page can
\* cause, leave parents and children in agreement and the main frame tracked: the
\* manager never finds an orphan, a dangling child or its main frame gone.
THEOREM TreeStaysWellFormed == FrameSpec => []TreeIsWellFormed
<1>1. IInv => TreeIsWellFormed
  BY TreeIsSound
<1> QED BY <1>1, AlwaysSound, PTL

\* The history of the page between the events on their way exists in every run.
THEOREM HistoryIsKept == FrameSpec => []HInv
<1>1. FrameInit => HInv
  BY InitHInv
<1>2. HInv /\ [FrameNext]_frameVars => HInv'
  BY NextHInv
<1> QED BY <1>1, <1>2, PTL DEF FrameSpec

\* Whatever the page attached, detached and navigated before, around and after the
\* answer to getFrameTree, once the events are handled the FrameManager tracks exactly
\* its frames, each under its parent, and the right one as the main frame.
THEOREM TheTreeIsThePages == FrameSpec => []TreeMirrorsPage
<1>1. HInv => TreeMirrorsPage
  <2> SUFFICES ASSUME HInv, tree_sent, events = <<>>
               PROVE  main_frame = Root(page)
                      /\ page = [f \in DOMAIN frames |-> frames[f].parent]
    BY DEF TreeMirrorsPage
  <2>1. main_frame # NoFrame /\ Parents(frames) = page
    BY Arrived DEF Mirrors, Now
  <2>2. IsTree(page, main_frame)
    BY <2>1 DEF HInv, IInv, Sound
  <2>3. Root(page) = main_frame
    BY <2>1, <2>2, RootIsUnique
  <2> QED BY <2>1, <2>3 DEF Parents
<1> QED BY <1>1, HistoryIsKept, PTL

\* GetExecutionContext never hands out a context that is gone: with the events handled,
\* a world of a frame shows a live context of that very frame or none, however the
\* contexts ended and whatever became of the frames around it.
THEOREM WorldsShowLiveContexts == FrameSpec => []ContextsAreLive
<1>1. HInv => ContextsAreLive
  <2> SUFFICES ASSUME HInv, tree_sent, events = <<>>, NEW f \in DOMAIN frames
               PROVE  {frames[f].main_world, frames[f].secondary_world}
                        \subseteq LiveIn(f) \cup {NoContext}
    BY DEF ContextsAreLive
  <2>1. /\ Holds(context_ids, contexts, Now.live, frames[f].main_world, f, "main")
        /\ Holds(context_ids, contexts, Now.live, frames[f].secondary_world, f, "util")
    BY Arrived DEF Mirrors
  <2>2. \A c \in Now.live : c \in DOMAIN contexts /\ contexts[c].live
    BY DEF Now
  <2> QED BY <2>1, <2>2 DEF Holds, LiveIn
<1> QED BY <1>1, HistoryIsKept, PTL
=============================================================================
