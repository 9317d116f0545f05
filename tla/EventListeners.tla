--------------------------- MODULE EventListeners ---------------------------
(***************************************************************************)
(* The subscriptions of one Target to one event method.                    *)
(*                                                                         *)
(*   reader          awaits EventStream::next in a loop, may drop it       *)
(*   page channel    carries AddEventListener to the Target                *)
(*   EventListeners  one listener per stream with its queued_events; poll  *)
(*                   moves them into the stream's unbounded channel and    *)
(*                   forgets the listeners whose receiver is gone          *)
(*   Handler         its loop: Target::poll drains the page channel, then  *)
(*                   polls the listeners, then reads websocket events      *)
(*                                                                         *)
(* An event is its position in `log`, which keeps the type it was          *)
(* converted to.  Native is the event type of a method the protocol knows; *)
(* NoNative stands for a method known to custom event types only.          *)
(***************************************************************************)
EXTENDS Naturals, Sequences, Vecs

CONSTANTS
  Streams,    \* the subscriptions
  Types,      \* event types
  TypeOf,     \* the type each stream was opened for
  Native,     \* the protocol's own type of the method, or NoNative
  MayDestroy, \* whether the target may be destroyed
  MaxEvents   \* bound: events the browser sends

NoNative == "noNative"

ASSUME TypesAssumption ==
  /\ TypeOf \in [Streams -> Types]
  /\ NoNative \notin Types
  /\ Native \in Types \cup {NoNative}
ASSUME EventsAssumption == MaxEvents \in Nat /\ MayDestroy \in BOOLEAN

VARIABLES
  requests,   \* AddEventListener messages in the page channel
  listeners,  \* EventListeners.listeners[method], a Vec
  queued,     \* EventListener.queued_events
  channel,    \* the stream's unbounded channel
  receiver,   \* its receiving half: none, open, dropped, ended
  woken,      \* the reader's task is going to poll the stream
  waker,      \* the channel holds the waker of the reader's task
  alive,      \* the Target, which owns the listeners, exists
  phase,      \* where the Handler's loop is
  cursor,     \* the loop variable of EventListeners::poll
  log,        \* history: type of each event handed to the listeners
  joined,     \* history: streams whose listener was ever registered
  since,      \* history: length of the log at that moment
  seen,       \* history: positions each stream took out of its channel
  arrival,    \* history: streams in the order of their registration
  visited     \* history: listeners the current poll has visited, in order

streamVars == <<channel, receiver, woken, waker>>
loopVars == <<phase, cursor, visited>>
logVars == <<log, joined, since, seen, arrival>>
vars == <<requests, listeners, queued, channel, receiver, woken, waker, alive,
          phase, cursor, log, joined, since, seen, arrival, visited>>

-----------------------------------------------------------------------------
(* Readers *)

\* The sending half of stream s exists: in its listener or in the request.
HasSender(s) == Holds(listeners, s) \/ Holds(requests, s)

\* Page::event_listener.
Subscribe(s) ==
  /\ alive /\ receiver[s] = "none"
  /\ receiver' = [receiver EXCEPT ![s] = "open"]
  /\ woken' = [woken EXCEPT ![s] = TRUE]
  /\ requests' = Append(requests, s)
  /\ UNCHANGED <<listeners, queued, channel, waker, alive, loopVars, logVars>>

\* The reader drops its stream with whatever the channel holds.
DropStream(s) ==
  /\ receiver[s] = "open"
  /\ receiver' = [receiver EXCEPT ![s] = "dropped"]
  /\ channel' = [channel EXCEPT ![s] = <<>>]
  /\ woken' = [woken EXCEPT ![s] = FALSE]
  /\ waker' = [waker EXCEPT ![s] = FALSE]
  /\ UNCHANGED <<requests, listeners, queued, alive, loopVars, logVars>>

\* UnboundedReceiver::poll_next: a taken event of the stream's type is Ready and
\* the reader polls again; one of another type is Pending although no waker was
\* left in the channel.
TakeEvent(s) ==
  /\ channel[s] # <<>>
  /\ channel' = [channel EXCEPT ![s] = Tail(@)]
  /\ seen' = [seen EXCEPT ![s] = Append(@, Head(channel[s]))]
  /\ woken' = [woken EXCEPT ![s] = log[Head(channel[s])] = TypeOf[s]]
  /\ UNCHANGED <<receiver, waker>>

\* Mutant: the reader is put to sleep without leaving its waker.
SleepForgetsWaker(s) ==
  /\ channel[s] = <<>> /\ HasSender(s)
  /\ woken' = [woken EXCEPT ![s] = FALSE]
  /\ UNCHANGED <<receiver, channel, waker, seen>>

Sleep(s) ==
  /\ channel[s] = <<>> /\ HasSender(s)
  /\ woken' = [woken EXCEPT ![s] = FALSE]
  /\ waker' = [waker EXCEPT ![s] = TRUE]
  /\ UNCHANGED <<receiver, channel, seen>>

EndStream(s) ==
  /\ channel[s] = <<>> /\ ~HasSender(s)
  /\ receiver' = [receiver EXCEPT ![s] = "ended"]
  /\ woken' = [woken EXCEPT ![s] = FALSE]
  /\ UNCHANGED <<channel, waker, seen>>

\* EventStream::poll_next in the reader's loop.
PollStream(s) ==
  /\ receiver[s] = "open" /\ woken[s]
  /\ TakeEvent(s) \/ Sleep(s) \/ EndStream(s)
  /\ UNCHANGED <<requests, listeners, queued, alive, loopVars, log, joined,
                 since, arrival>>

-----------------------------------------------------------------------------
(* The Target drains the page channel *)

\* EventListeners::add_listener.
AddListener ==
  /\ phase = "drain" /\ requests # <<>>
  /\ LET s == Head(requests) IN
       /\ listeners' = Append(listeners, s)
       /\ joined' = joined \cup {s}
       /\ since' = [since EXCEPT ![s] = Len(log)]
       /\ arrival' = Append(arrival, s)
  /\ requests' = Tail(requests)
  /\ UNCHANGED <<queued, streamVars, alive, loopVars, log, seen>>

\* The page channel is empty: the Handler calls EventListeners::poll.
BeginPoll ==
  /\ phase = "drain" /\ requests = <<>>
  /\ phase' = "poll"
  /\ cursor' = Len(listeners)
  /\ UNCHANGED <<requests, listeners, queued, streamVars, alive, logVars, visited>>

-----------------------------------------------------------------------------
(* EventListeners::poll *)

\* The channel of stream s is closed or has got something: its reader is woken
\* if it left a waker.
Wake(S) ==
  /\ woken' = [s \in Streams |-> woken[s] \/ (s \in S /\ waker[s])]
  /\ waker' = [s \in Streams |-> waker[s] /\ s \notin S]

\* EventListener::poll: everything queued moves to the channel.
Send(s) ==
  /\ channel' = [channel EXCEPT ![s] = @ \o queued[s]]
  /\ queued' = [queued EXCEPT ![s] = <<>>]
  /\ Wake(IF queued[s] = <<>> THEN {} ELSE {s})
  /\ UNCHANGED receiver

\* Mutant: a listener that stays is put back at the front.
PollListenerPushFront ==
  /\ phase = "poll" /\ cursor > 0
  /\ LET s == listeners[cursor] IN
       /\ visited' = Append(visited, s)
       /\ \/ /\ receiver[s] = "open" /\ Send(s)
             /\ listeners' = <<s>> \o SwapRemove(listeners, cursor)
          \/ /\ receiver[s] # "open"
             /\ listeners' = SwapRemove(listeners, cursor)
             /\ queued' = [queued EXCEPT ![s] = <<>>]
             /\ UNCHANGED streamVars
  /\ cursor' = cursor - 1
  /\ UNCHANGED <<requests, alive, phase, logVars>>

\* Mutant: the receiver is not looked at.
PollListenerToAll ==
  /\ phase = "poll" /\ cursor > 0
  /\ LET s == listeners[cursor] IN
       /\ visited' = Append(visited, s)
       /\ Send(s)
       /\ listeners' = Append(SwapRemove(listeners, cursor), s)
  /\ cursor' = cursor - 1
  /\ UNCHANGED <<requests, alive, phase, logVars>>

\* One iteration: the listener is taken out, polled, and put back at the end
\* unless its receiver is gone.
PollListener ==
  /\ phase = "poll" /\ cursor > 0
  /\ LET s == listeners[cursor] IN
       /\ visited' = Append(visited, s)
       /\ \/ /\ receiver[s] = "open" /\ Send(s)
             /\ listeners' = Append(SwapRemove(listeners, cursor), s)
          \/ /\ receiver[s] # "open"
             /\ listeners' = SwapRemove(listeners, cursor)
             /\ queued' = [queued EXCEPT ![s] = <<>>]
             /\ UNCHANGED streamVars
  /\ cursor' = cursor - 1
  /\ UNCHANGED <<requests, alive, phase, logVars>>

EndPoll ==
  /\ phase = "poll" /\ cursor = 0
  /\ phase' = "conn"
  /\ visited' = <<>>
  /\ UNCHANGED <<requests, listeners, queued, streamVars, alive, cursor, logVars>>

-----------------------------------------------------------------------------
(* Websocket events *)

\* The type an event is converted to: the protocol's, or the one the first
\* listener in the Vec was registered with.
Converted == IF Native # NoNative THEN Native ELSE TypeOf[listeners[1]]

\* Mutant: the event goes to the first listener alone.
OnEventToFirst ==
  /\ phase = "conn" /\ Len(log) < MaxEvents
  /\ listeners # <<>>
  /\ log' = Append(log, Converted)
  /\ queued' = [queued EXCEPT ![listeners[1]] = Append(@, Len(log) + 1)]
  /\ UNCHANGED <<requests, listeners, streamVars, alive, loopVars, joined, since,
                 seen, arrival>>

\* EventListeners::start_send, EventListeners::try_send_custom.  A custom event
\* that does not convert, and an event with no listener, changes nothing.
OnEvent ==
  /\ phase = "conn" /\ Len(log) < MaxEvents
  /\ listeners # <<>>
  /\ log' = Append(log, Converted)
  /\ queued' = [s \in Streams |-> IF Holds(listeners, s)
                                    THEN Append(queued[s], Len(log) + 1)
                                    ELSE queued[s]]
  /\ UNCHANGED <<requests, listeners, streamVars, alive, loopVars, joined, since,
                 seen, arrival>>

\* Handler::on_target_destroyed drops the Target, its listeners with what they
\* have queued, and the requests in its page channel.
OnTargetDestroyed ==
  /\ MayDestroy /\ phase = "conn" /\ alive
  /\ alive' = FALSE
  /\ listeners' = <<>> /\ requests' = <<>>
  /\ queued' = [s \in Streams |-> <<>>]
  /\ Wake({s \in Streams : HasSender(s)})
  /\ UNCHANGED <<channel, receiver, loopVars, logVars>>

EndConn ==
  /\ phase = "conn"
  /\ phase' = "drain"
  /\ UNCHANGED <<requests, listeners, queued, streamVars, alive, cursor, logVars,
                 visited>>

-----------------------------------------------------------------------------
(* The specification *)

Init ==
  /\ requests = <<>> /\ listeners = <<>>
  /\ queued = [s \in Streams |-> <<>>]
  /\ channel = [s \in Streams |-> <<>>]
  /\ receiver = [s \in Streams |-> "none"]
  /\ woken = [s \in Streams |-> FALSE]
  /\ waker = [s \in Streams |-> FALSE]
  /\ alive = TRUE
  /\ phase = "drain" /\ cursor = 0
  /\ log = <<>> /\ joined = {}
  /\ since = [s \in Streams |-> 0]
  /\ seen = [s \in Streams |-> <<>>]
  /\ arrival = <<>> /\ visited = <<>>

HandlerStep == AddListener \/ BeginPoll \/ PollListener \/ EndPoll \/ EndConn

Next ==
  \/ HandlerStep
  \/ OnEvent
  \/ OnTargetDestroyed
  \/ \E s \in Streams : Subscribe(s) \/ DropStream(s) \/ PollStream(s)

\* What keeps the Handler's task from sleeping, or wakes it: a message in the page
\* channel, or an event read in this turn of its loop.  A dropped receiver does not.
Woken == requests # <<>> \/ \E s \in Streams : queued[s] # <<>>
HandlerWorks == AddListener \/ BeginPoll \/ PollListener \/ EndPoll \/ (Woken /\ EndConn)

\* The Handler's loop runs while there is something to do, and a reader's task that was
\* woken polls its stream; a task that was not woken is not polled.
Fairness ==
  /\ WF_vars(HandlerWorks)
  /\ \A s \in Streams : WF_vars(PollStream(s))

Spec == Init /\ [][Next]_vars
FairSpec == Spec /\ Fairness

-----------------------------------------------------------------------------
(* Properties *)

Positions == 1..MaxEvents

\* Types of the variables; only an open stream holds events or a waker in its
\* channel, and no waker is left there once the reader's task is woken.
TypeOK ==
  /\ requests \in Seq(Streams) /\ listeners \in Seq(Streams)
  /\ queued \in [Streams -> Seq(Nat)]
  /\ channel \in [Streams -> Seq(Nat)]
  /\ receiver \in [Streams -> {"none", "open", "dropped", "ended"}]
  /\ woken \in [Streams -> BOOLEAN] /\ waker \in [Streams -> BOOLEAN]
  /\ alive \in BOOLEAN
  /\ phase \in {"drain", "poll", "conn"}
  /\ cursor \in Nat /\ (phase = "poll" => cursor <= Len(listeners))
  /\ log \in Seq(Types)
  /\ joined \subseteq Streams
  /\ since \in [Streams -> Nat]
  /\ seen \in [Streams -> Seq(Nat)]
  /\ arrival \in Seq(Streams) /\ visited \in Seq(Streams)
  /\ phase # "poll" => visited = <<>>
  /\ \A s \in Streams :
       receiver[s] # "open" => channel[s] = <<>> /\ ~waker[s] /\ ~woken[s]
  /\ \A s \in Streams : ~(woken[s] /\ waker[s])

\* While it walks its Vec backwards, taking listeners out, putting them back and
\* losing the disconnected ones, EventListeners::poll has visited exactly the
\* listeners behind its index, each of them once.
EachPolledOnce ==
  phase = "poll" =>
    /\ \A i \in 1..Len(listeners) : Holds(visited, listeners[i]) <=> i > cursor
    /\ \A i, j \in 1..Len(visited) : visited[i] = visited[j] => i = j

\* Every stream takes a contiguous run of the log, in order, from the moment its
\* listener is registered: an event is never lost, repeated or overtaken between
\* the listener's queue, the channel and the stream.
EL == INSTANCE EventLog
ImplementsEventLog == EL!Spec

\* An event of the stream's own type reaches its reader, as page.rs promises of
\* a listener that is the first registered one for its event.
OwnEventsArrive ==
  \A s \in Streams, k \in Positions :
    (/\ Holds(listeners, s) /\ since[s] < k /\ k <= Len(log)
     /\ log[k] = TypeOf[s])
      ~> (Holds(seen[s], k) \/ receiver[s] # "open" \/ ~alive)

\* The listener of a dropped stream is forgotten if the Handler goes on being polled.
\* Dropping the stream wakes nobody: without another message it stays.
PolledOn == []<><<BeginPoll>>_vars
DroppedAreForgotten ==
  PolledOn => \A s \in Streams : receiver[s] = "dropped" ~> ~HasSender(s)

\* A stream whose target is destroyed ends once it has been read empty.
StreamsEndWithTarget ==
  \A s \in Streams : (~alive /\ receiver[s] = "open") ~> receiver[s] # "open"

\* The stream registered first among those that still have a listener.
FirstRegistered(s) ==
  \E i \in 1..Len(arrival) :
    /\ arrival[i] = s /\ Holds(listeners, s)
    /\ \A j \in 1..i - 1 : ~Holds(listeners, arrival[j])

\* page.rs: "only the type of first registered event listener will be used".
FirstRegisteredConverts ==
  [][Len(log') > Len(log) =>
       \E s \in Streams : FirstRegistered(s) /\ log'[Len(log')] = TypeOf[s]]_vars
=============================================================================
