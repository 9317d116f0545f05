------------------------------- MODULE Waits -------------------------------
(***************************************************************************)
(* The methods of ChaserPage that wait for events of the page, and its     *)
(* dialog handlers: one wait, or up to two handlers, at a time.            *)
(*                                                                         *)
(*   response, download   a recorder task reads stream 1 (what begins), a  *)
(*                        finish task reads stream 2 (what ends); each     *)
(*                        stream has a queue of its own                    *)
(*   loadState, popup     the caller itself reads stream 1                 *)
(*   dialog               stream h belongs to the h-th on_dialog           *)
(*                                                                         *)
(* What begins and ends is an item: a request, a download, a lifecycle     *)
(* event, a new target, a dialog.  An item fits if it is what the wait is  *)
(* for: its url, its name and frame, its opener.                           *)
(***************************************************************************)
EXTENDS Naturals, Sequences, FiniteSets

CONSTANTS Kinds, Items

NoItem == "noItem"
NoName == "noName"

ASSUME ItemsAreNamed == NoItem \notin Items

VARIABLES
  kind,       \* which method
  wait_phase,      \* start, subscribing, waiting, ended
  subscribed, \* the streams the Target knows
  queue,      \* events a stream has not been asked for
  seen,       \* matched_ids, filenames: what the recorder has recorded
  asked,      \* per stream: the item its reader waits for an answer about
  detached,   \* the finish task outlives the wait
  result,     \* what the caller gets
  late,       \* the time is over
  items,      \* page: every item, whether it fits, and how far it is
  shown,      \* page: the dialog that is open
  alive,      \* page: the target is there
  overtime,   \* history: events read when the time was over
  missed,     \* history: items that fit and were passed over
  excused,    \* history: items that may be, and why
  answers     \* history: the dialog an answer was meant for and the one it met

waitVars == <<wait_phase, subscribed, seen, detached, result>>
itemVars == <<items, shown, alive>>
historyVars == <<overtime, missed, excused, answers>>
waitsVars == <<kind, waitVars, queue, asked, late, itemVars, historyVars>>

TwoTasks == kind \in {"response", "download"}
Pending == [ended |-> "no", item |-> NoItem, name |-> NoName]
End(how) == [Pending EXCEPT !.ended = how]
Found(i, name) == [ended |-> "ok", item |-> i, name |-> name]

-----------------------------------------------------------------------------
(* The caller *)

\* The recorder's stream first: whoever ends later has begun where it is heard.
FinishFirst == IF 2 \in subscribed THEN 1 ELSE 2 \* Mutant: the other order
NextStream == IF 1 \in subscribed THEN 2 ELSE 1
Subscribe ==
  /\ wait_phase \in {"start", "subscribing"} /\ alive
  /\ subscribed' = subscribed \cup {NextStream}
  /\ wait_phase' = IF TwoTasks /\ subscribed = {} THEN "subscribing" ELSE "waiting"
  /\ UNCHANGED <<kind, queue, seen, asked, detached, result, late, itemVars, historyVars>>

\* A second on_dialog
SubscribeAgain ==
  /\ kind = "dialog" /\ subscribed = {1} /\ subscribed' = {1, 2}
  /\ UNCHANGED <<kind, wait_phase, queue, seen, asked, detached, result, late, itemVars,
                 historyVars>>

Return(r) ==
  /\ wait_phase' = "ended" /\ result' = r
  /\ UNCHANGED <<kind, subscribed, seen, late, itemVars>>

Waiting == wait_phase = "waiting"
Reads(s) == Waiting /\ queue[s] # <<>>
Took(s) == queue' = [queue EXCEPT ![s] = Tail(@)]
Item(s) == Head(queue[s])
Note == overtime' = overtime + (IF late THEN 1 ELSE 0)

\* tokio's timeout looks at the clock only if there is nothing to read.  It aborts the
\* recorder and lets the finish task go.
Timeout ==
  /\ Waiting /\ kind # "dialog" /\ late
  /\ IF TwoTasks THEN TRUE ELSE queue[1] = <<>>
  /\ detached' = TwoTasks /\ Return(End("timeout"))
  /\ UNCHANGED <<queue, asked, historyVars>>

StreamEnds ==
  /\ kind # "dialog" /\ ~alive
  /\ \/ wait_phase \in {"start", "subscribing"}
     \/ Waiting /\ queue[IF TwoTasks THEN 2 ELSE 1] = <<>> /\ asked[2] = NoItem
  /\ detached' = FALSE /\ Return(End("closed"))
  /\ UNCHANGED <<queue, asked, historyVars>>

\* wait_for_load_state: the deadline is one for all events.
ReadLifecycle ==
  /\ kind = "loadState" /\ Reads(1) /\ Took(1) /\ Note
  /\ IF items[Item(1)].fits THEN Return(Found(Item(1), NoName))
     ELSE IF late THEN Return(End("timeout"))
     ELSE UNCHANGED <<kind, wait_phase, subscribed, seen, result, late, itemVars>>
  /\ UNCHANGED <<asked, detached, missed, excused, answers>>

\* wait_for_popup: the time starts again with every event.
ReadAttached ==
  /\ kind = "popup" /\ Reads(1) /\ Took(1) /\ Note
  /\ \/ items[Item(1)].fits /\ Return(Found(Item(1), NoName))
     \/ /\ ~items[Item(1)].fits /\ late' = FALSE
        /\ UNCHANGED <<kind, wait_phase, subscribed, seen, result, itemVars>>
  /\ UNCHANGED <<asked, detached, missed, excused, answers>>

-----------------------------------------------------------------------------
(* The tasks.  A request is recorded if its url matches, a download always. *)

Record ==
  /\ TwoTasks /\ Reads(1) /\ Took(1)
  /\ seen' = IF items[Item(1)].fits THEN seen \cup {Item(1)} ELSE seen
  /\ UNCHANGED <<kind, wait_phase, subscribed, asked, detached, result, late, itemVars,
                 historyVars>>

TaskReads(i) ==
  /\ TwoTasks /\ (Waiting \/ detached) /\ asked[2] = NoItem
  /\ queue[2] # <<>> /\ Took(2) /\ i = Item(2)

IsQueued(i) == \E n \in 1..Len(queue[1]) : queue[1][n] = i
Excuse(i) == excused' = IF IsQueued(i) THEN excused \cup {i} ELSE excused
PassOver(i) == missed' = IF Waiting /\ items[i].fits THEN missed \cup {i} ELSE missed

\* What ends has been recorded, and its body is asked for, or it is passed over.
RecordedFirst(i) == i \in seen
FinishOfRequest(i) ==
  /\ kind = "response" /\ TaskReads(i)
  /\ asked' = IF RecordedFirst(i) THEN [asked EXCEPT ![2] = i] ELSE asked
  /\ IF RecordedFirst(i) THEN UNCHANGED <<missed, excused>> ELSE PassOver(i) /\ Excuse(i)
  /\ UNCHANGED <<kind, waitVars, late, itemVars, overtime, answers>>

Body(ok) ==
  /\ kind = "response" /\ asked[2] # NoItem
  /\ asked' = [asked EXCEPT ![2] = NoItem]
  /\ IF ok THEN /\ UNCHANGED <<missed, excused>>
                /\ detached' = FALSE
                /\ IF Waiting THEN Return(Found(asked[2], NoName))
                   ELSE UNCHANGED <<kind, wait_phase, subscribed, seen, result, late, itemVars>>
     ELSE /\ missed' = missed \cup {asked[2]} /\ excused' = excused \cup {asked[2]}
          /\ UNCHANGED <<kind, waitVars, late, itemVars>>
  /\ UNCHANGED <<queue, overtime, answers>>

\* The file name is the recorded one, or an empty one.
Completed(i) ==
  /\ kind = "download" /\ TaskReads(i) /\ detached' = FALSE
  /\ IF Waiting THEN Return(Found(i, IF i \in seen THEN i ELSE NoName))
     ELSE UNCHANGED <<kind, wait_phase, subscribed, seen, result, late, itemVars>>
  /\ Excuse(i)
  /\ UNCHANGED <<asked, overtime, missed, answers>>

-----------------------------------------------------------------------------
(* Dialogs.  The user's handler decides about the dialog of the event; the command
   names none and meets the one that is open. *)

\* Mutant: the task answers one dialog and reads on without a word.
DecideOnce(h) ==
  /\ kind = "dialog" /\ Reads(h) /\ asked[h] = NoItem /\ Took(h)
  /\ asked' = [asked EXCEPT ![h] = IF detached THEN NoItem ELSE Item(h)] /\ detached' = TRUE
  /\ UNCHANGED <<kind, wait_phase, subscribed, seen, result, late, itemVars, historyVars>>

Decide(h) ==
  /\ kind = "dialog" /\ Reads(h) /\ asked[h] = NoItem
  /\ Took(h) /\ asked' = [asked EXCEPT ![h] = Item(h)]
  /\ UNCHANGED <<kind, waitVars, late, itemVars, historyVars>>

\* The command may fail: that is logged, and the dialog stays open.
HandleDialog(h, ok) ==
  /\ kind = "dialog" /\ asked[h] # NoItem /\ alive
  /\ asked' = [asked EXCEPT ![h] = NoItem]
  /\ \/ ok /\ shown' = NoItem /\ UNCHANGED items
        /\ answers' = IF shown = NoItem THEN answers ELSE answers \cup {<<asked[h], shown>>}
     \/ ~ok /\ UNCHANGED <<shown, answers>>
        /\ items' = IF shown = NoItem THEN items
                    ELSE [items EXCEPT ![shown].stage = "unanswered"]
  /\ UNCHANGED <<kind, waitVars, queue, late, alive, overtime, missed, excused>>

-----------------------------------------------------------------------------
(* The page *)

IsHeard(s) == (s \in subscribed /\ wait_phase # "ended") \/ (s = 2 /\ detached)
EmitItem(s, i) ==
  queue' = IF IsHeard(s) THEN [queue EXCEPT ![s] = Append(@, i)] ELSE queue

\* An item begins.  That it may be missed is settled if the wait has not begun.
Begins(i, fits) ==
  /\ alive /\ items[i].stage = "none" /\ kind # "dialog"
  /\ TwoTasks \/ subscribed # {}
  /\ kind = "download" => fits
  /\ items' = [items EXCEPT ![i] = [stage |-> IF TwoTasks THEN "begun" ELSE "ended",
                                    fits |-> fits]]
  /\ EmitItem(1, i)
  /\ excused' = IF wait_phase = "start" THEN excused \cup {i} ELSE excused
  /\ UNCHANGED <<kind, waitVars, asked, late, shown, alive, overtime, missed, answers>>

\* Between the two subscriptions nobody hears of an end.
Unheard == wait_phase = "subscribing" /\ ~IsHeard(2)
ItemEnds(i) ==
  /\ alive /\ TwoTasks /\ items[i].stage = "begun"
  /\ items' = [items EXCEPT ![i].stage = IF Unheard THEN "unheard" ELSE "ended"]
  /\ missed' = IF Unheard /\ items[i].fits THEN missed \cup {i} ELSE missed
  /\ EmitItem(2, i)
  /\ UNCHANGED <<kind, waitVars, asked, late, shown, alive, overtime, excused, answers>>

\* A dialog blocks the page: there is one at a time.
Opens(i) ==
  /\ kind = "dialog" /\ alive /\ shown = NoItem /\ items[i].stage = "none"
  /\ subscribed # {}
  /\ items' = [items EXCEPT ![i].stage = "ended"] /\ shown' = i
  /\ queue' = [s \in 1..2 |-> IF s \in subscribed THEN Append(queue[s], i) ELSE queue[s]]
  /\ UNCHANGED <<kind, waitVars, asked, late, alive, historyVars>>

\* Somebody else closes it.
Closes ==
  /\ shown # NoItem /\ shown' = NoItem
  /\ excused' = excused \cup Items
  /\ UNCHANGED <<kind, waitVars, queue, asked, late, items, alive, overtime, missed, answers>>

TargetGoes ==
  /\ alive /\ alive' = FALSE /\ shown' = NoItem
  /\ UNCHANGED <<kind, waitVars, queue, asked, late, items, historyVars>>

WaitClock ==
  /\ Waiting /\ kind # "dialog" /\ ~late /\ late' = TRUE
  /\ UNCHANGED <<kind, waitVars, queue, asked, itemVars, historyVars>>

WaitsInit ==
  /\ kind \in Kinds /\ wait_phase = "start" /\ subscribed = {}
  /\ queue = [s \in 1..2 |-> <<>>] /\ seen = {} /\ asked = [s \in 1..2 |-> NoItem]
  /\ detached = FALSE /\ result = Pending /\ late = FALSE
  /\ items = [i \in Items |-> [stage |-> "none", fits |-> TRUE]]
  /\ shown = NoItem /\ alive = TRUE
  /\ overtime = 0 /\ missed = {} /\ excused = {} /\ answers = {}

WaitsNext ==
  \/ Subscribe \/ SubscribeAgain \/ Timeout \/ StreamEnds
  \/ ReadLifecycle \/ ReadAttached \/ Record
  \/ \E ok \in BOOLEAN : Body(ok)
  \/ \E i \in Items : FinishOfRequest(i) \/ Completed(i) \/ ItemEnds(i) \/ Opens(i)
       \/ \E fits \in BOOLEAN : Begins(i, fits)
  \/ \E h \in 1..2 : Decide(h) \/ \E ok \in BOOLEAN : HandleDialog(h, ok)
  \/ Closes \/ TargetGoes \/ WaitClock

WaitsSpec == WaitsInit /\ [][WaitsNext]_waitsVars

-----------------------------------------------------------------------------
(* Properties *)

WaitsTypeOK ==
  /\ kind \in Kinds /\ wait_phase \in {"start", "subscribing", "waiting", "ended"}
  /\ subscribed \subseteq 1..2 /\ seen \subseteq Items
  /\ \A s \in 1..2 : asked[s] \in Items \cup {NoItem}
  /\ result.ended \in {"no", "ok", "timeout", "closed"}
  /\ shown \in Items \cup {NoItem}

\* What a wait may pass over: an item that is older than it, one the recorder was
\* behind with, one whose body was refused, and one that ended between the two
\* subscriptions, which the code does not make up for.
MayBePassedOver == excused \cup {i \in Items : items[i].stage = "unheard"}

\* A wait that succeeds returns an item of its own that is over, with that item's file
\* name or none, and none only if the recorder was behind or the download older than
\* the wait.  It passes over nothing else than what MayBePassedOver names: once both
\* streams are subscribed to, no response is lost that was recorded and had its body.
\* wait_for_load_state keeps its deadline however many events arrive: at most one of
\* them is read after it.
WaitsReturnTheirOwn ==
  /\ result.ended = "ok" =>
       /\ items[result.item].fits /\ items[result.item].stage = "ended"
       /\ kind = "download" => \/ result.name = result.item
                               \/ result.name = NoName /\ result.item \in excused
  /\ kind # "dialog" => missed \subseteq MayBePassedOver
  /\ kind = "loadState" => overtime <= 1

\* When the handlers have done their work no dialog blocks the page, however many were
\* opened and closed, but one an answer to which failed: nobody answers it again.  And
\* with one handler and nobody else each answer meets the dialog it was meant for.
DialogsAreAnswered ==
  kind = "dialog" =>
    /\ (\A h \in subscribed : queue[h] = <<>> /\ asked[h] = NoItem) =>
         shown = NoItem \/ items[shown].stage = "unanswered"
    /\ subscribed = {1} /\ excused = {} => \A a \in answers : a[1] = a[2]
=============================================================================
