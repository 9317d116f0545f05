------------------------------ MODULE EventLog ------------------------------
(***************************************************************************)
(* What an event subscription promises: the events of one method form one  *)
(* log, and from the moment it is registered each stream takes the entries *)
(* of the log one by one, in their order, none missing and none twice.     *)
(***************************************************************************)
EXTENDS Naturals, Sequences

CONSTANTS
  Streams,   \* the subscriptions
  Types      \* the types an event of the method may be converted to

VARIABLES
  log,       \* the type each event was converted to, in order of arrival
  joined,    \* the streams registered so far
  since,     \* length of the log when each stream was registered
  seen       \* positions in the log each stream has taken

vars == <<log, joined, since, seen>>

Init ==
  /\ log = <<>>
  /\ joined = {}
  /\ since = [s \in Streams |-> 0]
  /\ seen = [s \in Streams |-> <<>>]

Publish(t) ==
  /\ log' = Append(log, t)
  /\ UNCHANGED <<joined, since, seen>>

Join(s) ==
  /\ s \notin joined
  /\ joined' = joined \cup {s}
  /\ since' = [since EXCEPT ![s] = Len(log)]
  /\ UNCHANGED <<log, seen>>

Take(s) ==
  /\ s \in joined
  /\ since[s] + Len(seen[s]) < Len(log)
  /\ seen' = [seen EXCEPT ![s] = Append(@, since[s] + Len(@) + 1)]
  /\ UNCHANGED <<log, joined, since>>

Next ==
  \/ \E t \in Types : Publish(t)
  \/ \E s \in Streams : Join(s) \/ Take(s)

Spec == Init /\ [][Next]_vars
=============================================================================
