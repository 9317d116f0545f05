------------------------ MODULE EventListenersProofs ------------------------
(***************************************************************************)
(* For every set of streams and types, EventListeners keeps its types,     *)
(* polls each listener once per pass, and implements EventLog.             *)
(***************************************************************************)
EXTENDS EventListeners, TLAPS

-----------------------------------------------------------------------------
(* Sequences *)

LEMMA AppendFacts ==
  ASSUME NEW S, NEW q \in Seq(S), NEW x \in S
  PROVE  /\ Append(q, x) \in Seq(S)
         /\ Len(Append(q, x)) = Len(q) + 1
         /\ Append(q, x)[Len(q) + 1] = x
         /\ \A i \in 1..Len(q) : Append(q, x)[i] = q[i]
  OBVIOUS

LEMMA TailFacts ==
  ASSUME NEW S, NEW q \in Seq(S), q # <<>>
  PROVE  /\ Len(q) \in Nat \ {0}
         /\ Head(q) \in S /\ Head(q) = q[1]
         /\ Tail(q) \in Seq(S)
         /\ Len(Tail(q)) = Len(q) - 1
         /\ \A i \in 1..Len(Tail(q)) : Tail(q)[i] = q[i + 1]
  OBVIOUS

LEMMA ConcatFacts ==
  ASSUME NEW S, NEW q \in Seq(S), NEW r \in Seq(S)
  PROVE  /\ q \o r \in Seq(S)
         /\ Len(q \o r) = Len(q) + Len(r)
         /\ \A i \in 1..Len(q) : (q \o r)[i] = q[i]
         /\ \A i \in 1..Len(r) : (q \o r)[Len(q) + i] = r[i]
  OBVIOUS

\* Vec::swap_remove shortens the Vec by one and moves only its last element.
LEMMA SwapRemoveFacts ==
  ASSUME NEW S, NEW q \in Seq(S), NEW n \in 1..Len(q)
  PROVE  /\ SwapRemove(q, n) \in Seq(S)
         /\ Len(SwapRemove(q, n)) = Len(q) - 1
         /\ \A i \in 1..Len(q) - 1 :
              SwapRemove(q, n)[i] = IF i = n THEN q[Len(q)] ELSE q[i]
  <1>1. Len(q) \in Nat /\ Len(q) - 1 \in Nat
    OBVIOUS
  <1>2. \A i \in 1..Len(q) : q[i] \in S
    OBVIOUS
  <1>3. \A i \in 1..Len(q) - 1 : (IF i = n THEN q[Len(q)] ELSE q[i]) \in S
    BY <1>1, <1>2
  <1> QED BY <1>1, <1>3 DEF SwapRemove

\* One step of EventListeners::poll on the Vec: taking element n out and putting
\* it back at the end.
Rotate(q, n) == Append(SwapRemove(q, n), q[n])

LEMMA RotateFacts ==
  ASSUME NEW S, NEW q \in Seq(S), NEW n \in 1..Len(q)
  PROVE  /\ Rotate(q, n) \in Seq(S)
         /\ Len(Rotate(q, n)) = Len(q)
         /\ \A i \in 1..Len(q) :
              Rotate(q, n)[i] = IF i = Len(q) THEN q[n]
                                ELSE IF i = n THEN q[Len(q)] ELSE q[i]
  <1>1. q[n] \in S /\ Len(q) \in Nat
    OBVIOUS
  <1>2. /\ SwapRemove(q, n) \in Seq(S)
        /\ Len(SwapRemove(q, n)) = Len(q) - 1
        /\ \A i \in 1..Len(q) - 1 :
             SwapRemove(q, n)[i] = IF i = n THEN q[Len(q)] ELSE q[i]
    BY SwapRemoveFacts
  <1> DEFINE r == SwapRemove(q, n)
  <1> HIDE DEF r
  <1>3. /\ Append(r, q[n]) \in Seq(S)
        /\ Len(Append(r, q[n])) = Len(r) + 1
        /\ Append(r, q[n])[Len(r) + 1] = q[n]
        /\ \A i \in 1..Len(r) : Append(r, q[n])[i] = r[i]
    <2>1. r \in Seq(S)
      BY <1>2 DEF r
    <2> QED BY <2>1, <1>1, AppendFacts
  <1>4. Len(r) = Len(q) - 1
    BY <1>2 DEF r
  <1>5. \A i \in 1..Len(q) - 1 : r[i] = IF i = n THEN q[Len(q)] ELSE q[i]
    BY <1>2 DEF r
  <1>6. Rotate(q, n) = Append(r, q[n])
    BY DEF Rotate, r
  <1>7. ASSUME NEW i \in 1..Len(q)
        PROVE  Append(r, q[n])[i] = IF i = Len(q) THEN q[n]
                                    ELSE IF i = n THEN q[Len(q)] ELSE q[i]
    <2>1. CASE i = Len(q)
      BY <2>1, <1>1, <1>3, <1>4
    <2>2. CASE i # Len(q)
      <3>1. i \in 1..Len(r) /\ i \in 1..Len(q) - 1
        BY <2>2, <1>1, <1>4
      <3> QED BY <3>1, <2>2, <1>3, <1>5
    <2> QED BY <2>1, <2>2
  <1> QED BY <1>1, <1>3, <1>4, <1>6, <1>7

NoRepeats(q) == \A i, j \in 1..Len(q) : q[i] = q[j] => i = j

\* Rotating keeps the elements, and none becomes a repeated one.
LEMMA RotateKeeps ==
  ASSUME NEW S, NEW q \in Seq(S), NEW n \in 1..Len(q)
  PROVE  /\ \A s : Holds(Rotate(q, n), s) <=> Holds(q, s)
         /\ NoRepeats(q) => NoRepeats(Rotate(q, n))
  <1> DEFINE r == Rotate(q, n)
  <1>0. Len(q) \in Nat
    OBVIOUS
  <1>1. /\ Len(r) = Len(q)
        /\ \A i \in 1..Len(q) :
             r[i] = IF i = Len(q) THEN q[n]
                    ELSE IF i = n THEN q[Len(q)] ELSE q[i]
    BY RotateFacts
  <1> HIDE DEF r
  <1>2. ASSUME NEW s, Holds(q, s) PROVE Holds(r, s)
    <2>1. PICK i \in 1..Len(q) : q[i] = s
      BY <1>2 DEF Holds
    <2>2. CASE i = n
      <3>1. Len(q) \in 1..Len(q) /\ r[Len(q)] = s
        BY <2>1, <2>2, <1>0, <1>1
      <3> QED BY <3>1, <1>1 DEF Holds
    <2>3. CASE i # n /\ i = Len(q)
      <3>1. r[n] = s
        BY <2>1, <2>3, <1>0, <1>1
      <3> QED BY <3>1, <1>1 DEF Holds
    <2>4. CASE i # n /\ i # Len(q)
      <3>1. r[i] = s
        BY <2>1, <2>4, <1>0, <1>1
      <3> QED BY <3>1, <1>1 DEF Holds
    <2> QED BY <2>2, <2>3, <2>4
  <1>3. ASSUME NEW s, Holds(r, s) PROVE Holds(q, s)
    <2>1. PICK i \in 1..Len(q) : r[i] = s
      BY <1>3, <1>1 DEF Holds
    <2>2. \E j \in 1..Len(q) : q[j] = s
      BY <2>1, <1>0, <1>1
    <2> QED BY <2>2 DEF Holds
  <1>4. ASSUME NoRepeats(q) PROVE NoRepeats(r)
    <2> SUFFICES ASSUME NEW i \in 1..Len(q), NEW j \in 1..Len(q), r[i] = r[j]
                 PROVE  i = j
      BY <1>1 DEF NoRepeats
    <2> DEFINE from(k) == IF k = Len(q) THEN n ELSE IF k = n THEN Len(q) ELSE k
    <2>1. /\ from(i) \in 1..Len(q) /\ from(j) \in 1..Len(q)
          /\ r[i] = q[from(i)] /\ r[j] = q[from(j)]
      BY <1>0, <1>1
    <2>2. from(i) = from(j)
      BY <2>1, <1>4 DEF NoRepeats
    <2> QED BY <2>2, <1>0
  <1> QED BY <1>2, <1>3, <1>4 DEF r

\* Removing a listener removes nothing else.
LEMMA SwapRemoveKeeps ==
  ASSUME NEW S, NEW q \in Seq(S), NEW n \in 1..Len(q), NoRepeats(q)
  PROVE  /\ \A s : Holds(SwapRemove(q, n), s) <=> (Holds(q, s) /\ s # q[n])
         /\ NoRepeats(SwapRemove(q, n))
  <1> DEFINE r == SwapRemove(q, n)
  <1>0. Len(q) \in Nat
    OBVIOUS
  <1>1. /\ Len(r) = Len(q) - 1
        /\ \A i \in 1..Len(q) - 1 : r[i] = IF i = n THEN q[Len(q)] ELSE q[i]
    BY SwapRemoveFacts
  <1> HIDE DEF r
  <1>2. ASSUME NEW s, Holds(q, s), s # q[n] PROVE Holds(r, s)
    <2>1. PICK i \in 1..Len(q) : q[i] = s
      BY <1>2 DEF Holds
    <2>2. CASE i = Len(q)
      <3>1. n \in 1..Len(q) - 1 /\ r[n] = s
        BY <1>2, <2>1, <2>2, <1>0, <1>1
      <3> QED BY <3>1, <1>1 DEF Holds
    <2>3. CASE i # Len(q)
      <3>1. i \in 1..Len(q) - 1 /\ r[i] = s
        BY <1>2, <2>1, <2>3, <1>0, <1>1
      <3> QED BY <3>1, <1>1 DEF Holds
    <2> QED BY <2>2, <2>3
  <1> DEFINE from(k) == IF k = n THEN Len(q) ELSE k
  <1>3. \A i \in 1..Len(q) - 1 : from(i) \in 1..Len(q) /\ from(i) # n /\ r[i] = q[from(i)]
    BY <1>0, <1>1
  <1>4. ASSUME NEW s, Holds(r, s) PROVE Holds(q, s) /\ s # q[n]
    <2>1. PICK i \in 1..Len(q) - 1 : r[i] = s
      BY <1>4, <1>1 DEF Holds
    <2>2. from(i) \in 1..Len(q) /\ from(i) # n /\ q[from(i)] = s
      BY <1>3, <2>1
    <2> HIDE DEF from
    <2> QED BY <2>2 DEF Holds, NoRepeats
  <1>5. NoRepeats(r)
    <2> SUFFICES ASSUME NEW i \in 1..Len(q) - 1, NEW j \in 1..Len(q) - 1, r[i] = r[j]
                 PROVE  i = j
      BY <1>1 DEF NoRepeats
    <2>1. from(i) = from(j)
      <3>1. /\ from(i) \in 1..Len(q) /\ from(j) \in 1..Len(q)
            /\ q[from(i)] = q[from(j)]
        BY <1>3
      <3> HIDE DEF from
      <3> QED BY <3>1 DEF NoRepeats
    <2> QED BY <2>1, <1>0
  <1> QED BY <1>2, <1>4, <1>5 DEF r

-----------------------------------------------------------------------------
(* Types *)

LEMMA InitTypeOK == Init => TypeOK
  BY TypesAssumption DEF Init, TypeOK

LEMMA ReaderTypeOK ==
  ASSUME TypeOK, NEW s \in Streams, Subscribe(s) \/ DropStream(s) \/ PollStream(s)
  PROVE  TypeOK'
  <1> USE DEF TypeOK, loopVars, logVars
  <1>1. CASE Subscribe(s)
    <2>1. requests' \in Seq(Streams)
      BY <1>1, AppendFacts DEF Subscribe
    <2> QED BY <1>1, <2>1, SMTT(30) DEF Subscribe
  <1>2. CASE DropStream(s)
    BY <1>2, SMTT(30) DEF DropStream
  <1>3. CASE PollStream(s) /\ TakeEvent(s)
    <2>1. /\ Tail(channel[s]) \in Seq(Nat)
          /\ Append(seen[s], Head(channel[s])) \in Seq(Nat)
      BY <1>3, TailFacts, AppendFacts DEF TakeEvent
    <2>2. woken' \in [Streams -> BOOLEAN]
      BY <1>3, Zenon DEF TakeEvent
    <2>3. channel' \in [Streams -> Seq(Nat)] /\ seen' \in [Streams -> Seq(Nat)]
      BY <1>3, <2>1 DEF TakeEvent
    <2>4. \A r \in Streams :
            /\ receiver'[r] # "open" => channel'[r] = <<>> /\ ~waker'[r] /\ ~woken'[r]
            /\ ~(woken'[r] /\ waker'[r])
      BY <1>3 DEF PollStream, TakeEvent
    <2> QED BY <1>3, <2>2, <2>3, <2>4 DEF PollStream, TakeEvent
  <1>4. CASE PollStream(s) /\ Sleep(s)
    BY <1>4 DEF PollStream, Sleep
  <1>5. CASE PollStream(s) /\ EndStream(s)
    BY <1>5 DEF PollStream, EndStream
  <1> QED BY <1>1, <1>2, <1>3, <1>4, <1>5 DEF PollStream

LEMMA WakeTypeOK ==
  ASSUME TypeOK, NEW S, Wake(S)
  PROVE  /\ woken' \in [Streams -> BOOLEAN] /\ waker' \in [Streams -> BOOLEAN]
         /\ \A s \in Streams :
              /\ receiver[s] # "open" => ~waker'[s] /\ ~woken'[s]
              /\ ~(woken'[s] /\ waker'[s])
  BY Zenon DEF Wake, TypeOK

LEMMA SendTypeOK ==
  ASSUME TypeOK, NEW s \in Streams, receiver[s] = "open", Send(s)
  PROVE  /\ woken' \in [Streams -> BOOLEAN] /\ waker' \in [Streams -> BOOLEAN]
         /\ channel' \in [Streams -> Seq(Nat)] /\ queued' \in [Streams -> Seq(Nat)]
         /\ receiver' = receiver
         /\ \A r \in Streams :
              /\ receiver'[r] # "open" => channel'[r] = <<>> /\ ~waker'[r] /\ ~woken'[r]
              /\ ~(woken'[r] /\ waker'[r])
  <1>1. /\ woken' \in [Streams -> BOOLEAN] /\ waker' \in [Streams -> BOOLEAN]
        /\ \A r \in Streams :
             /\ receiver[r] # "open" => ~waker'[r] /\ ~woken'[r]
             /\ ~(woken'[r] /\ waker'[r])
    BY WakeTypeOK DEF Send
  <1>2. channel[s] \o queued[s] \in Seq(Nat)
    BY ConcatFacts DEF TypeOK
  <1>3. channel' \in [Streams -> Seq(Nat)] /\ queued' \in [Streams -> Seq(Nat)]
    <2>1. channel \in [Streams -> Seq(Nat)] /\ queued \in [Streams -> Seq(Nat)]
      BY DEF TypeOK
    <2>2. <<>> \in Seq(Nat)
      OBVIOUS
    <2> QED BY <1>2, <2>1, <2>2 DEF Send
  <1>4. \A r \in Streams : receiver[r] # "open" => channel'[r] = <<>>
    BY DEF Send, TypeOK
  <1>5. receiver' = receiver
    BY DEF Send
  <1> QED BY <1>1, <1>3, <1>4, <1>5, Zenon

LEMMA AddListenerTypeOK ==
  ASSUME TypeOK, AddListener
  PROVE  TypeOK'
  <1> USE DEF TypeOK
  <1>1. PICK s \in Streams : s = Head(requests)
    BY TailFacts DEF AddListener
  <1>2. Tail(requests) \in Seq(Streams)
    BY TailFacts DEF AddListener
  <1>3. /\ Append(listeners, s) \in Seq(Streams)
        /\ Append(arrival, s) \in Seq(Streams)
    BY AppendFacts
  <1>4. Len(log) \in Nat
    OBVIOUS
  <1>5. /\ requests' \in Seq(Streams) /\ listeners' \in Seq(Streams)
        /\ joined' \subseteq Streams
        /\ since' \in [Streams -> Nat]
        /\ arrival' \in Seq(Streams)
        /\ phase' # "poll"
    BY <1>1, <1>2, <1>3, <1>4 DEF AddListener, loopVars
  <1> QED BY <1>5 DEF AddListener, streamVars, loopVars

LEMMA PolledListener ==
  ASSUME TypeOK, PollListener
  PROVE  /\ cursor \in 1..Len(listeners) /\ Len(listeners) \in Nat
         /\ listeners[cursor] \in Streams
  <1>1. phase = "poll" /\ cursor > 0
    BY DEF PollListener
  <1>2. cursor \in 1..Len(listeners) /\ listeners \in Seq(Streams)
    BY <1>1 DEF TypeOK
  <1> QED BY <1>2

LEMMA PollListenerTypeOK ==
  ASSUME TypeOK, PollListener
  PROVE  TypeOK'
  <1> USE DEF TypeOK
  <1> DEFINE s == listeners[cursor]
  <1>0. cursor \in 1..Len(listeners)
    BY PolledListener
  <1>1. s \in Streams
    BY PolledListener
  <1>2. /\ SwapRemove(listeners, cursor) \in Seq(Streams)
        /\ Append(SwapRemove(listeners, cursor), s) \in Seq(Streams)
        /\ Append(visited, s) \in Seq(Streams)
    BY <1>0, <1>1, SwapRemoveFacts, AppendFacts
  <1>3. cursor' \in Nat /\ cursor' <= Len(listeners')
    <2>1. Len(SwapRemove(listeners, cursor)) = Len(listeners) - 1
      BY <1>0, SwapRemoveFacts
    <2>2. Len(Append(SwapRemove(listeners, cursor), s)) = Len(listeners)
      BY <1>0, RotateFacts DEF Rotate
    <2>3. \/ listeners' = Append(SwapRemove(listeners, cursor), s)
          \/ listeners' = SwapRemove(listeners, cursor)
      BY Zenon DEF PollListener
    <2>5. Len(listeners') \in {Len(listeners), Len(listeners) - 1}
      BY <2>1, <2>2, <2>3, Zenon
    <2> HIDE DEF s
    <2>4. cursor' = cursor - 1 /\ Len(listeners) \in Nat
      BY DEF PollListener
    <2> QED BY <1>0, <2>4, <2>5
  <1>4. CASE receiver[s] = "open"
    BY <1>1, <1>2, <1>3, <1>4, SendTypeOK DEF PollListener, logVars
  <1>5. CASE receiver[s] # "open"
    BY <1>1, <1>2, <1>3, <1>5 DEF PollListener, logVars, streamVars
  <1> QED BY <1>4, <1>5

LEMMA HandlerTypeOK ==
  ASSUME TypeOK, BeginPoll \/ EndPoll \/ EndConn
  PROVE  TypeOK'
  <1>1. CASE BeginPoll
    <2>1. Len(listeners) \in Nat
      BY DEF TypeOK
    <2> QED BY <1>1, <2>1 DEF TypeOK, BeginPoll, streamVars, logVars
  <1>2. CASE EndPoll
    <2>1. visited' \in Seq(Streams)
      BY <1>2 DEF EndPoll
    <2> QED BY <1>2, <2>1 DEF TypeOK, EndPoll, streamVars, logVars
  <1>3. CASE EndConn
    BY <1>3 DEF TypeOK, EndConn, streamVars, logVars
  <1> QED BY <1>1, <1>2, <1>3

LEMMA ConvertedType ==
  ASSUME TypeOK, listeners # <<>>
  PROVE  Converted \in Types
  <1>1. listeners[1] \in Streams
    BY DEF TypeOK
  <1> QED BY <1>1, TypesAssumption DEF Converted

LEMMA OnEventTypeOK ==
  ASSUME TypeOK, OnEvent
  PROVE  TypeOK'
  <1> USE DEF TypeOK
  <1>1. log' \in Seq(Types)
    BY ConvertedType, AppendFacts DEF OnEvent
  <1>2. \A s \in Streams : Append(queued[s], Len(log) + 1) \in Seq(Nat)
    <2> TAKE s \in Streams
    <2>1. queued[s] \in Seq(Nat) /\ Len(log) + 1 \in Nat
      OBVIOUS
    <2> QED BY <2>1, AppendFacts
  <1>3. queued' \in [Streams -> Seq(Nat)]
    BY <1>2 DEF OnEvent
  <1> QED BY <1>1, <1>3 DEF OnEvent, streamVars, loopVars

LEMMA OnTargetDestroyedTypeOK ==
  ASSUME TypeOK, OnTargetDestroyed
  PROVE  TypeOK'
  <1>1. /\ woken' \in [Streams -> BOOLEAN] /\ waker' \in [Streams -> BOOLEAN]
        /\ \A s \in Streams :
             /\ receiver[s] # "open" => ~waker'[s] /\ ~woken'[s]
             /\ ~(woken'[s] /\ waker'[s])
    BY WakeTypeOK DEF OnTargetDestroyed
  <1>2. /\ listeners' \in Seq(Streams) /\ requests' \in Seq(Streams)
        /\ queued' \in [Streams -> Seq(Nat)]
        /\ phase' # "poll"
    BY DEF OnTargetDestroyed, loopVars
  <1> QED BY <1>1, <1>2 DEF OnTargetDestroyed, TypeOK, loopVars, logVars

LEMMA NextTypeOK == TypeOK /\ [Next]_vars => TypeOK'
  <1> SUFFICES ASSUME TypeOK, [Next]_vars PROVE TypeOK'
    OBVIOUS
  <1>1. CASE \E s \in Streams : Subscribe(s) \/ DropStream(s) \/ PollStream(s)
    BY <1>1, ReaderTypeOK
  <1>2. CASE HandlerStep
    BY <1>2, AddListenerTypeOK, PollListenerTypeOK, HandlerTypeOK DEF HandlerStep
  <1>3. CASE OnEvent
    BY <1>3, OnEventTypeOK
  <1>4. CASE OnTargetDestroyed
    BY <1>4, OnTargetDestroyedTypeOK
  <1>5. CASE UNCHANGED vars
    BY <1>5 DEF vars, TypeOK
  <1> QED BY <1>1, <1>2, <1>3, <1>4, <1>5 DEF Next

\* Every variable of the subscriptions keeps its type, and only an open stream
\* holds events or a waker in its channel.
THEOREM TypeInvariance == Spec => []TypeOK
  BY InitTypeOK, NextTypeOK, PTL DEF Spec

-----------------------------------------------------------------------------
(* Each stream has one sender *)

\* A stream is in the page channel or among the listeners at most once, and it
\* joins when it moves from the one to the other.
OneSender ==
  /\ NoRepeats(listeners) /\ NoRepeats(requests)
  /\ \A s \in Streams :
       /\ Holds(requests, s) => s \notin joined /\ receiver[s] # "none"
       /\ Holds(listeners, s) => s \in joined
       /\ s \in joined => receiver[s] # "none"

LEMMA InitOneSender == Init => OneSender
  BY DEF Init, OneSender, NoRepeats, Holds

\* Appending a stream that is not there.
LEMMA AppendKeeps ==
  ASSUME NEW S, NEW q \in Seq(S), NEW x \in S
  PROVE  /\ \A s : Holds(Append(q, x), s) <=> (Holds(q, s) \/ s = x)
         /\ NoRepeats(q) /\ ~Holds(q, x) => NoRepeats(Append(q, x))
  <1>1. Len(q) \in Nat
    OBVIOUS
  <1>2. /\ Len(Append(q, x)) = Len(q) + 1
        /\ Append(q, x)[Len(q) + 1] = x
        /\ \A i \in 1..Len(q) : Append(q, x)[i] = q[i]
    BY AppendFacts
  <1> QED BY <1>1, <1>2 DEF Holds, NoRepeats

LEMMA TailKeeps ==
  ASSUME NEW S, NEW q \in Seq(S), q # <<>>, NoRepeats(q)
  PROVE  /\ \A s : Holds(Tail(q), s) <=> (Holds(q, s) /\ s # Head(q))
         /\ NoRepeats(Tail(q))
  <1>1. /\ Len(q) \in Nat \ {0} /\ Head(q) = q[1]
        /\ Len(Tail(q)) = Len(q) - 1
        /\ \A i \in 1..Len(Tail(q)) : Tail(q)[i] = q[i + 1]
    BY TailFacts
  <1>2. ASSUME NEW s, Holds(q, s), s # Head(q) PROVE Holds(Tail(q), s)
    <2>1. PICK i \in 1..Len(q) : q[i] = s
      BY <1>2 DEF Holds
    <2>2. i - 1 \in 1..Len(Tail(q)) /\ Tail(q)[i - 1] = s
      BY <1>1, <1>2, <2>1
    <2> QED BY <2>2 DEF Holds
  <1>3. ASSUME NEW s, Holds(Tail(q), s) PROVE Holds(q, s) /\ s # Head(q)
    <2>1. PICK i \in 1..Len(Tail(q)) : Tail(q)[i] = s
      BY <1>3 DEF Holds
    <2>2. i + 1 \in 1..Len(q) /\ q[i + 1] = s /\ i + 1 # 1 /\ 1 \in 1..Len(q)
      BY <1>1, <2>1
    <2> QED BY <1>1, <2>2 DEF Holds, NoRepeats
  <1>4. NoRepeats(Tail(q))
    BY <1>1 DEF NoRepeats
  <1> QED BY <1>2, <1>3, <1>4

LEMMA HeadHeld ==
  ASSUME NEW S, NEW q \in Seq(S), q # <<>>
  PROVE  Holds(q, Head(q))
  BY TailFacts DEF Holds

LEMMA PolledListeners ==
  ASSUME TypeOK, OneSender, PollListener
  PROVE  LET s == listeners[cursor] IN
           /\ NoRepeats(listeners')
           /\ \A r : Holds(listeners', r) <=>
                       (Holds(listeners, r) /\ (receiver[s] = "open" \/ r # s))
  <1> DEFINE s == listeners[cursor]
  <1>0. cursor \in 1..Len(listeners) /\ listeners \in Seq(Streams)
    BY PolledListener DEF TypeOK
  <1>1. CASE receiver[s] = "open"
    <2>1. listeners' = Rotate(listeners, cursor)
      BY <1>1 DEF PollListener, Rotate
    <2> QED BY <1>0, <1>1, <2>1, RotateKeeps DEF OneSender
  <1>2. CASE receiver[s] # "open"
    <2>1. listeners' = SwapRemove(listeners, cursor)
      BY <1>2 DEF PollListener
    <2> QED BY <1>0, <1>2, <2>1, SwapRemoveKeeps DEF OneSender
  <1> QED BY <1>1, <1>2

LEMMA NextOneSender == TypeOK /\ OneSender /\ [Next]_vars => OneSender'
  <1> SUFFICES ASSUME TypeOK, OneSender, [Next]_vars PROVE OneSender'
    OBVIOUS
  <1>1. ASSUME NEW s \in Streams, Subscribe(s) PROVE OneSender'
    <2>1. /\ NoRepeats(requests') /\ listeners' = listeners /\ joined' = joined
          /\ receiver' = [receiver EXCEPT ![s] = "open"]
          /\ \A r : Holds(requests', r) <=> (Holds(requests, r) \/ r = s)
      BY <1>1, AppendKeeps DEF Subscribe, OneSender, TypeOK, loopVars, logVars
    <2> QED BY <1>1, <2>1 DEF Subscribe, OneSender, TypeOK
  <1>2. ASSUME NEW s \in Streams, DropStream(s) \/ PollStream(s) PROVE OneSender'
    <2>1. /\ UNCHANGED <<listeners, requests, joined>>
          /\ \A r \in Streams : receiver'[r] # "none" <=> receiver[r] # "none"
      BY <1>2 DEF DropStream, PollStream, TakeEvent, Sleep, EndStream, TypeOK,
                  loopVars, logVars
    <2> QED BY <2>1 DEF OneSender
  <1>3. CASE AddListener
    <2> DEFINE s == Head(requests)
    <2>1. s \in Streams /\ Holds(requests, s) /\ requests # <<>>
      BY <1>3, TailFacts, HeadHeld DEF AddListener, TypeOK
    <2>2. ~Holds(listeners, s)
      BY <2>1 DEF OneSender
    <2> HIDE DEF s
    <2>3. /\ listeners' = Append(listeners, s) /\ joined' = joined \cup {s}
          /\ requests' = Tail(requests) /\ receiver' = receiver
      BY <1>3 DEF AddListener, streamVars, s
    <2>4. /\ NoRepeats(listeners')
          /\ \A r : Holds(listeners', r) <=> (Holds(listeners, r) \/ r = s)
      BY <2>1, <2>2, <2>3, AppendKeeps DEF OneSender, TypeOK
    <2>5. /\ NoRepeats(requests')
          /\ \A r : Holds(requests', r) <=> (Holds(requests, r) /\ r # s)
      BY <2>1, <2>3, TailKeeps DEF OneSender, TypeOK, s
    <2> QED BY <2>1, <2>3, <2>4, <2>5 DEF OneSender
  <1>4. CASE PollListener
    <2>1. /\ NoRepeats(listeners')
          /\ \A r : Holds(listeners', r) => Holds(listeners, r)
      BY <1>4, PolledListeners
    <2>2. UNCHANGED <<requests, joined, receiver>>
      BY <1>4 DEF PollListener, Send, streamVars, logVars
    <2> QED BY <2>1, <2>2 DEF OneSender
  <1>5. CASE BeginPoll \/ EndPoll \/ EndConn \/ OnEvent
    <2>1. UNCHANGED <<requests, listeners, joined, receiver>>
      BY <1>5 DEF BeginPoll, EndPoll, EndConn, OnEvent, streamVars, logVars
    <2> QED BY <2>1 DEF OneSender
  <1>6. CASE OnTargetDestroyed
    BY <1>6 DEF OnTargetDestroyed, OneSender, NoRepeats, Holds, logVars
  <1>7. CASE UNCHANGED vars
    BY <1>7 DEF vars, OneSender
  <1> QED
    BY <1>1, <1>2, <1>3, <1>4, <1>5, <1>6, <1>7 DEF Next, HandlerStep

-----------------------------------------------------------------------------
(* EventListeners::poll visits each listener once *)

LEMMA PollListenerVisits ==
  ASSUME TypeOK, OneSender, EachPolledOnce, PollListener
  PROVE  EachPolledOnce'
  <1> DEFINE s == listeners[cursor]
             n == Len(listeners)
  <1>1. /\ cursor \in 1..n /\ n \in Nat /\ s \in Streams
        /\ listeners \in Seq(Streams) /\ visited \in Seq(Streams)
    BY PolledListener DEF TypeOK
  <1>2. ~Holds(visited, s)
    BY <1>1 DEF PollListener, EachPolledOnce
  <1>3. /\ visited' = Append(visited, s) /\ cursor' = cursor - 1
    BY DEF PollListener
  <1>4. /\ \A r : Holds(visited', r) <=> (Holds(visited, r) \/ r = s)
        /\ NoRepeats(visited) => NoRepeats(visited')
    BY <1>1, <1>2, <1>3, AppendKeeps
  <1>5. NoRepeats(visited')
    BY <1>4 DEF PollListener, EachPolledOnce, NoRepeats
  <1>6. \A i \in 1..n : (Holds(visited', listeners[i]) <=> i >= cursor)
    BY <1>1, <1>4 DEF PollListener, EachPolledOnce, OneSender, NoRepeats
  <1>7. ASSUME NEW i \in 1..Len(listeners')
        PROVE  Holds(visited', listeners'[i]) <=> i > cursor'
    <2>1. CASE receiver[s] = "open"
      <3>1. listeners' = Rotate(listeners, cursor)
        BY <2>1 DEF PollListener, Rotate
      <3>2. /\ Len(listeners') = n
            /\ \A j \in 1..n : listeners'[j] = IF j = n THEN s
                                 ELSE IF j = cursor THEN listeners[n] ELSE listeners[j]
        BY <1>1, <3>1, RotateFacts, SMTT(30)
      <3> HIDE DEF s, n
      <3>3. listeners'[i] = IF i = n THEN s ELSE IF i = cursor THEN listeners[n]
                                                               ELSE listeners[i]
        BY <3>2
      <3>4. n \in 1..n /\ i \in 1..n
        BY <1>1, <3>2
      <3>5. s = listeners[cursor]
        BY DEF s
      <3> QED BY <1>1, <1>3, <1>6, <3>3, <3>4, <3>5
    <2>2. CASE receiver[s] # "open"
      <3>1. listeners' = SwapRemove(listeners, cursor)
        BY <2>2 DEF PollListener
      <3>2. /\ Len(listeners') = n - 1
            /\ \A j \in 1..n - 1 :
                 listeners'[j] = IF j = cursor THEN listeners[n] ELSE listeners[j]
        BY <1>1, <3>1, SwapRemoveFacts
      <3> HIDE DEF s, n
      <3>3. i \in 1..n - 1 /\ n \in 1..n /\ i \in 1..n
        BY <1>1, <3>2
      <3> QED BY <1>1, <1>3, <1>6, <3>2, <3>3
    <2> QED BY <2>1, <2>2
  <1> QED BY <1>5, <1>7 DEF EachPolledOnce, NoRepeats

LEMMA NextEachPolledOnce ==
  TypeOK /\ OneSender /\ EachPolledOnce /\ [Next]_vars => EachPolledOnce'
  <1> SUFFICES ASSUME TypeOK, OneSender, EachPolledOnce, [Next]_vars
               PROVE  EachPolledOnce'
    OBVIOUS
  <1>1. CASE PollListener
    BY <1>1, PollListenerVisits
  <1>2. CASE phase' # "poll"
    BY <1>2 DEF EachPolledOnce
  <1>3. CASE UNCHANGED <<phase, listeners, cursor, visited>>
    BY <1>3 DEF EachPolledOnce
  <1>4. CASE BeginPoll
    <2>1. /\ phase' = "poll" /\ cursor' = Len(listeners) /\ listeners' = listeners
          /\ visited' = <<>>
      BY <1>4 DEF BeginPoll, TypeOK
    <2> QED BY <2>1 DEF EachPolledOnce, Holds
  <1> QED
    BY <1>1, <1>2, <1>3, <1>4
    DEF Next, HandlerStep, AddListener, EndPoll, EndConn, OnEvent,
        OnTargetDestroyed, Subscribe, DropStream, PollStream, loopVars, vars

\* One pass of EventListeners::poll, which takes listeners out of the Vec it walks
\* and puts them back, visits exactly those behind its index, each once.
THEOREM PollVisitsEachOnce == Spec => []EachPolledOnce
  <1>1. Init => EachPolledOnce
    BY DEF Init, EachPolledOnce
  <1> QED
    BY <1>1, InitTypeOK, NextTypeOK, InitOneSender, NextOneSender,
       NextEachPolledOnce, PTL DEF Spec

-----------------------------------------------------------------------------
(* EventListeners implements EventLog *)

\* q holds the positions that follow n, one by one.
RunFrom(q, n) == \A i \in 1..Len(q) : q[i] = n + i

LEMMA RunFacts ==
  ASSUME NEW q \in Seq(Nat), NEW n \in Nat, RunFrom(q, n)
  PROVE  /\ RunFrom(Append(q, n + Len(q) + 1), n)
         /\ q # <<>> => Head(q) = n + 1 /\ RunFrom(Tail(q), n + 1)
         /\ \A r \in Seq(Nat) : RunFrom(r, n + Len(q)) => RunFrom(q \o r, n)
  <1>0. Len(q) \in Nat /\ n + Len(q) + 1 \in Nat
    OBVIOUS
  <1>1. RunFrom(Append(q, n + Len(q) + 1), n)
    BY <1>0, AppendFacts DEF RunFrom
  <1>2. q # <<>> => Head(q) = n + 1 /\ RunFrom(Tail(q), n + 1)
    BY <1>0, TailFacts DEF RunFrom
  <1>3. ASSUME NEW r \in Seq(Nat), RunFrom(r, n + Len(q))
        PROVE  RunFrom(q \o r, n)
    <2>1. /\ Len(q \o r) = Len(q) + Len(r) /\ Len(r) \in Nat
          /\ \A i \in 1..Len(q) : (q \o r)[i] = q[i]
          /\ \A i \in 1..Len(r) : (q \o r)[Len(q) + i] = r[i]
      BY ConcatFacts
    <2> DEFINE c == q \o r
    <2> HIDE DEF c
    <2>2. ASSUME NEW i \in 1..Len(c) PROVE c[i] = n + i
      <3>1. CASE i <= Len(q)
        BY <3>1, <2>1, <1>0 DEF RunFrom, c
      <3>2. CASE i > Len(q)
        <4>1. i - Len(q) \in 1..Len(r) /\ i = Len(q) + (i - Len(q))
          BY <3>2, <2>1, <1>0 DEF c
        <4>2. c[i] = r[i - Len(q)]
          BY <4>1, <2>1 DEF c
        <4> QED BY <4>1, <4>2, <1>3, <1>0 DEF RunFrom
      <3> QED BY <3>1, <3>2, <1>0, <2>1 DEF c
    <2> QED BY <2>2 DEF RunFrom, c
  <1> QED BY <1>1, <1>2, <1>3

\* What stream s has taken, and what has been sent to it, as positions in the log.
Taken(s) == since[s] + Len(seen[s])
Sent(s) == Taken(s) + Len(channel[s])

\* The channel of an open stream continues what it has taken, the listener's
\* queue continues the channel, and while the listener exists it ends with the log.
InOrderFor(s) ==
  /\ s \notin joined => seen[s] = <<>> /\ channel[s] = <<>> /\ since[s] = 0
  /\ ~Holds(listeners, s) => queued[s] = <<>>
  /\ receiver[s] = "open" =>
       /\ RunFrom(channel[s], Taken(s))
       /\ RunFrom(queued[s], Sent(s))
       /\ Sent(s) + Len(queued[s]) <= Len(log)
       /\ Holds(listeners, s) => Sent(s) + Len(queued[s]) = Len(log)

InOrder == \A s \in Streams : InOrderFor(s)

\* A step leaves alone what InOrderFor(s) reads of stream s.
SameView(s) ==
  /\ channel'[s] = channel[s] /\ queued'[s] = queued[s] /\ seen'[s] = seen[s]
  /\ since'[s] = since[s] /\ receiver'[s] = receiver[s]
  /\ s \in joined' <=> s \in joined
  /\ Holds(listeners', s) <=> Holds(listeners, s)

LEMMA SameStream ==
  ASSUME NEW s, InOrderFor(s), SameView(s), log' = log
  PROVE  InOrderFor(s)'
  BY DEF SameView, InOrderFor, Taken, Sent, RunFrom

LEMMA StreamTypes ==
  ASSUME TypeOK, NEW s \in Streams
  PROVE  /\ channel[s] \in Seq(Nat) /\ queued[s] \in Seq(Nat) /\ seen[s] \in Seq(Nat)
         /\ since[s] \in Nat /\ Len(log) \in Nat
         /\ Len(channel[s]) \in Nat /\ Len(queued[s]) \in Nat /\ Len(seen[s]) \in Nat
         /\ Taken(s) \in Nat /\ Sent(s) \in Nat
  <1>1. /\ channel[s] \in Seq(Nat) /\ queued[s] \in Seq(Nat) /\ seen[s] \in Seq(Nat)
        /\ since[s] \in Nat /\ log \in Seq(Types)
    BY DEF TypeOK
  <1> QED BY <1>1, SMTT(30) DEF Taken, Sent

LEMMA InitInOrder == Init => InOrder
  BY DEF Init, InOrder, InOrderFor, RunFrom, Taken, Sent, Holds

LEMMA SubscribeInOrder ==
  ASSUME TypeOK, OneSender, InOrder, NEW s \in Streams, Subscribe(s)
  PROVE  InOrder'
  <1> SUFFICES ASSUME NEW r \in Streams PROVE InOrderFor(r)'
    BY DEF InOrder
  <1>0. /\ UNCHANGED <<listeners, queued, channel, joined, since, seen, log>>
        /\ receiver' = [receiver EXCEPT ![s] = "open"]
    BY DEF Subscribe, loopVars, logVars
  <1>1. CASE r # s
    BY <1>0, <1>1, SameStream DEF InOrder, SameView, Holds, TypeOK
  <1>2. CASE r = s
    <2>1. s \notin joined /\ ~Holds(listeners, s)
      BY DEF Subscribe, OneSender
    <2>2. seen[s] = <<>> /\ channel[s] = <<>> /\ since[s] = 0 /\ queued[s] = <<>>
      BY <2>1 DEF InOrder, InOrderFor
    <2>3. Len(log) \in Nat
      BY DEF TypeOK
    <2> QED BY <1>0, <1>2, <2>1, <2>2, <2>3 DEF InOrderFor, Taken, Sent, RunFrom, Holds
  <1> QED BY <1>1, <1>2

LEMMA DropStreamInOrder ==
  ASSUME TypeOK, InOrder, NEW s \in Streams,
         DropStream(s) \/ (PollStream(s) /\ ~TakeEvent(s))
  PROVE  InOrder'
  <1> SUFFICES ASSUME NEW r \in Streams PROVE InOrderFor(r)'
    BY DEF InOrder
  <1>0. /\ UNCHANGED <<listeners, queued, joined, since, seen, log>>
        /\ receiver' # receiver => receiver' \in {[receiver EXCEPT ![s] = "dropped"],
                                                 [receiver EXCEPT ![s] = "ended"]}
        /\ \/ channel' = channel
           \/ channel' = [channel EXCEPT ![s] = <<>>] /\ receiver'[s] # "open"
    BY DEF DropStream, PollStream, Sleep, EndStream, loopVars, logVars, TypeOK
  <1>1. CASE r # s
    <2>1. channel'[r] = channel[r] /\ receiver'[r] = receiver[r]
      BY <1>0, <1>1 DEF TypeOK
    <2>2. Holds(listeners', r) <=> Holds(listeners, r)
      BY <1>0 DEF Holds
    <2> QED BY <1>0, <2>1, <2>2, SameStream DEF InOrder, SameView
  <1>2. CASE r = s
    <2>1. \/ channel'[s] = channel[s]
          \/ channel'[s] = <<>> /\ receiver'[s] # "open"
      BY <1>0 DEF TypeOK
    <2>2. receiver'[s] = "open" => receiver[s] = "open"
      BY <1>0 DEF TypeOK
    <2>3. Holds(listeners', s) <=> Holds(listeners, s)
      BY <1>0 DEF Holds
    <2>4. receiver'[s] = "open" => Taken(s)' = Taken(s) /\ Sent(s)' = Sent(s)
      BY <1>0, <2>1 DEF Taken, Sent
    <2>5. InOrderFor(s)
      BY DEF InOrder
    <2> QED BY <1>0, <1>2, <2>1, <2>2, <2>3, <2>4, <2>5 DEF InOrderFor, RunFrom
  <1> QED BY <1>1, <1>2

LEMMA TakeEventInOrder ==
  ASSUME TypeOK, OneSender, InOrder, NEW s \in Streams, PollStream(s), TakeEvent(s)
  PROVE  InOrder' /\ EL!Take(s)
  <1>0. /\ UNCHANGED <<listeners, queued, joined, since, log, receiver>>
        /\ channel' = [channel EXCEPT ![s] = Tail(@)]
        /\ seen' = [seen EXCEPT ![s] = Append(@, Head(channel[s]))]
        /\ channel[s] # <<>> /\ receiver[s] = "open"
    BY DEF PollStream, TakeEvent
  <1>1. /\ channel[s] \in Seq(Nat) /\ queued[s] \in Seq(Nat) /\ seen[s] \in Seq(Nat)
        /\ since[s] \in Nat /\ Len(log) \in Nat
        /\ Len(channel[s]) \in Nat /\ Len(queued[s]) \in Nat /\ Len(seen[s]) \in Nat
        /\ Taken(s) \in Nat /\ Sent(s) \in Nat
    BY StreamTypes
  <1>2. /\ RunFrom(channel[s], Taken(s)) /\ RunFrom(queued[s], Sent(s))
        /\ Sent(s) + Len(queued[s]) <= Len(log)
        /\ Holds(listeners, s) => Sent(s) + Len(queued[s]) = Len(log)
        /\ s \in joined
        /\ ~Holds(listeners, s) => queued[s] = <<>>
    BY <1>0 DEF InOrder, InOrderFor
  <1>3. /\ Head(channel[s]) = Taken(s) + 1 /\ RunFrom(Tail(channel[s]), Taken(s) + 1)
        /\ Len(Tail(channel[s])) = Len(channel[s]) - 1 /\ Len(channel[s]) > 0
    <2>1. Head(channel[s]) = Taken(s) + 1 /\ RunFrom(Tail(channel[s]), Taken(s) + 1)
      BY <1>0, <1>1, <1>2, RunFacts, Zenon
    <2>2. Len(Tail(channel[s])) = Len(channel[s]) - 1 /\ Len(channel[s]) > 0
      BY <1>0, <1>1, TailFacts
    <2> QED BY <2>1, <2>2
  <1>4. Len(Append(seen[s], Head(channel[s]))) = Len(seen[s]) + 1
    BY <1>1, <1>3, AppendFacts
  <1>5. channel'[s] = Tail(channel[s]) /\ seen'[s] = Append(seen[s], Head(channel[s]))
    BY <1>0 DEF TypeOK
  <1>6. Taken(s)' = Taken(s) + 1 /\ Sent(s)' = Sent(s)
    <2>1. since'[s] = since[s] /\ Len(seen'[s]) = Len(seen[s]) + 1
          /\ Len(channel'[s]) = Len(channel[s]) - 1
      BY <1>0, <1>3, <1>4, <1>5
    <2>2. /\ Taken(s)' = since'[s] + Len(seen'[s])
          /\ Sent(s)' = Taken(s)' + Len(channel'[s])
          /\ Taken(s) = since[s] + Len(seen[s])
          /\ Sent(s) = Taken(s) + Len(channel[s])
      BY DEF Taken, Sent
    <2>3. Taken(s)' = Taken(s) + 1
      BY <1>1, <2>1, <2>2, SMTT(30)
    <2> QED BY <1>1, <2>1, <2>2, <2>3
  <1>7. InOrderFor(s)'
    <2>1. RunFrom(channel[s], Taken(s))'
      BY <1>3, <1>5, <1>6 DEF RunFrom
    <2>2. RunFrom(queued[s], Sent(s))'
      BY <1>0, <1>2, <1>6 DEF RunFrom
    <2> QED BY <1>0, <1>2, <1>6, <2>1, <2>2 DEF InOrderFor, Holds
  <1>8. ASSUME NEW r \in Streams, r # s PROVE InOrderFor(r)'
    BY <1>0, <1>8, SameStream DEF InOrder, SameView, Holds, TypeOK
  <1>9. EL!Take(s)
    <2>1. since[s] + Len(seen[s]) < Len(log)
      BY <1>1, <1>2, <1>3 DEF Taken, Sent
    <2>2. Head(channel[s]) = since[s] + Len(seen[s]) + 1
      BY <1>3 DEF Taken
    <2> QED BY <1>0, <1>2, <2>1, <2>2 DEF EL!Take
  <1> QED BY <1>7, <1>8, <1>9 DEF InOrder

LEMMA AddListenerInOrder ==
  ASSUME TypeOK, OneSender, InOrder, AddListener
  PROVE  InOrder' /\ \E s \in Streams : EL!Join(s)
  <1>0. PICK s \in Streams : s = Head(requests)
    BY TailFacts DEF AddListener, TypeOK
  <1>1. /\ s \in Streams /\ s \notin joined /\ ~Holds(listeners, s)
    BY <1>0, HeadHeld DEF AddListener, TypeOK, OneSender
  <1>2. /\ listeners' = Append(listeners, s) /\ joined' = joined \cup {s}
        /\ since' = [since EXCEPT ![s] = Len(log)]
        /\ UNCHANGED <<queued, channel, receiver, log, seen>>
    BY <1>0 DEF AddListener, streamVars, loopVars
  <1>3. \A r : Holds(listeners', r) <=> (Holds(listeners, r) \/ r = s)
    BY <1>1, <1>2, AppendKeeps DEF TypeOK
  <1>4. ASSUME NEW r \in Streams, r # s PROVE InOrderFor(r)'
    BY <1>2, <1>3, <1>4, SameStream DEF InOrder, SameView, TypeOK
  <1>5. InOrderFor(s)'
    <2>1. seen[s] = <<>> /\ channel[s] = <<>> /\ queued[s] = <<>>
      BY <1>1 DEF InOrder, InOrderFor
    <2>2. since'[s] = Len(log) /\ Len(log) \in Nat
      BY <1>1, <1>2 DEF TypeOK
    <2> QED BY <1>2, <1>3, <2>1, <2>2 DEF InOrderFor, Taken, Sent, RunFrom
  <1>6. EL!Join(s)
    BY <1>1, <1>2 DEF EL!Join
  <1> QED BY <1>1, <1>4, <1>5, <1>6 DEF InOrder

LEMMA PollListenerInOrder ==
  ASSUME TypeOK, OneSender, InOrder, PollListener
  PROVE  InOrder'
  <1>1. PICK s \in Streams : s = listeners[cursor]
    BY PolledListener
  <1>2. \A r : Holds(listeners', r) <=>
              (Holds(listeners, r) /\ (receiver[s] = "open" \/ r # s))
    BY <1>1, PolledListeners
  <1>3. UNCHANGED <<joined, since, seen, log>>
    BY DEF PollListener, logVars
  <1>4. CASE receiver[s] = "open"
    <2>1. /\ channel' = [channel EXCEPT ![s] = @ \o queued[s]]
          /\ queued' = [queued EXCEPT ![s] = <<>>]
          /\ receiver' = receiver
      BY <1>1, <1>4 DEF PollListener, Send
    <2>2. /\ channel[s] \in Seq(Nat) /\ queued[s] \in Seq(Nat)
          /\ Len(channel[s]) \in Nat /\ Len(queued[s]) \in Nat
          /\ Taken(s) \in Nat /\ Len(log) \in Nat
      BY <1>1, StreamTypes
    <2>3. channel'[s] = channel[s] \o queued[s] /\ queued'[s] = <<>>
      BY <1>1, <2>1 DEF TypeOK
    <2>4. Len(channel[s] \o queued[s]) = Len(channel[s]) + Len(queued[s])
      BY <2>2, ConcatFacts
    <2>5. /\ s \notin joined => seen[s] = <<>> /\ channel[s] = <<>> /\ since[s] = 0
          /\ ~Holds(listeners, s) => queued[s] = <<>>
          /\ RunFrom(channel[s], Taken(s)) /\ RunFrom(queued[s], Sent(s))
          /\ Sent(s) + Len(queued[s]) <= Len(log)
          /\ Holds(listeners, s) => Sent(s) + Len(queued[s]) = Len(log)
          /\ Sent(s) = Taken(s) + Len(channel[s])
      BY <1>1, <1>4 DEF InOrder, InOrderFor, Sent
    <2>6. Taken(s)' = Taken(s) /\ Sent(s)' = Sent(s) + Len(queued[s])
      <3>1. /\ Taken(s)' = since'[s] + Len(seen'[s])
            /\ Sent(s)' = Taken(s)' + Len(channel'[s])
            /\ Taken(s) = since[s] + Len(seen[s])
        BY DEF Taken, Sent
      <3>2. since'[s] = since[s] /\ seen'[s] = seen[s]
        BY <1>3
      <3>3. Len(channel'[s]) = Len(channel[s]) + Len(queued[s])
        BY <2>3, <2>4
      <3>4. Taken(s)' = Taken(s)
        BY <3>1, <3>2
      <3>5. Sent(s) = Taken(s) + Len(channel[s])
        BY <2>5
      <3>6. Taken(s) \in Nat /\ Len(channel[s]) \in Nat /\ Len(queued[s]) \in Nat
        BY <2>2
      <3>7. Sent(s)' = Taken(s) + (Len(channel[s]) + Len(queued[s]))
        BY <3>1, <3>3, <3>4, Zenon
      <3>8. \A a, b, c \in Nat : a + (b + c) = (a + b) + c
        OBVIOUS
      <3>9. Sent(s)' = (Taken(s) + Len(channel[s])) + Len(queued[s])
        BY <3>6, <3>7, <3>8, Zenon
      <3> QED BY <3>4, <3>5, <3>9, Zenon
    <2>7. RunFrom(channel[s], Taken(s))'
      <3>1. RunFrom(channel[s] \o queued[s], Taken(s))
        <4>1. RunFrom(queued[s], Taken(s) + Len(channel[s]))
          BY <2>5, Zenon
        <4> QED BY <2>2, <2>5, <4>1, RunFacts, Zenon
      <3> QED BY <2>3, <2>6, <3>1 DEF RunFrom
    <2>8. s \in joined => Taken(s)' \in Nat
      BY <2>2, <2>6
    <2>9. s \notin joined => channel'[s] = <<>>
      <3>1. s \notin joined => ~Holds(listeners, s)
        BY <1>1 DEF OneSender
      <3> QED BY <2>3, <2>5, <3>1
    <2>10. InOrderFor(s)'
      <3>1. /\ s \in joined' <=> s \in joined
            /\ Holds(listeners', s) <=> Holds(listeners, s)
            /\ seen'[s] = seen[s] /\ since'[s] = since[s] /\ log' = log
        BY <1>2, <1>3, <1>4
      <3>2. RunFrom(queued[s], Sent(s))'
        BY <2>3 DEF RunFrom
      <3>3. Sent(s)' + Len(queued'[s]) = Sent(s) + Len(queued[s])
        <4>1. Len(queued'[s]) = 0 /\ Sent(s) \in Nat
          BY <2>2, <2>3, <2>5
        <4> QED BY <2>2, <2>6, <4>1
      <3> QED BY <2>3, <2>5, <2>7, <2>9, <3>1, <3>2, <3>3 DEF InOrderFor
    <2>11. ASSUME NEW r \in Streams, r # s PROVE InOrderFor(r)'
      BY <1>2, <1>3, <1>4, <2>1, <2>11, SameStream DEF InOrder, SameView, TypeOK
    <2> QED BY <2>10, <2>11 DEF InOrder
  <1>5. CASE receiver[s] # "open"
    <2>1. /\ queued' = [queued EXCEPT ![s] = <<>>]
          /\ UNCHANGED <<channel, receiver>>
      BY <1>1, <1>5 DEF PollListener, streamVars
    <2>2. InOrderFor(s)'
      BY <1>1, <1>2, <1>3, <1>5, <2>1 DEF InOrder, InOrderFor, TypeOK
    <2>3. ASSUME NEW r \in Streams, r # s PROVE InOrderFor(r)'
      BY <1>2, <1>3, <2>1, <2>3, SameStream DEF InOrder, SameView, TypeOK
    <2> QED BY <2>2, <2>3 DEF InOrder
  <1> QED BY <1>4, <1>5

LEMMA OnEventInOrder ==
  ASSUME TypeOK, OneSender, InOrder, OnEvent
  PROVE  InOrder' /\ \E t \in Types : EL!Publish(t)
  <1>1. /\ log' = Append(log, Converted)
        /\ queued' = [s \in Streams |-> IF Holds(listeners, s)
                                          THEN Append(queued[s], Len(log) + 1)
                                          ELSE queued[s]]
        /\ UNCHANGED <<listeners, channel, receiver, joined, since, seen>>
        /\ listeners # <<>>
    BY DEF OnEvent, streamVars
  <1>2. Converted \in Types
    BY <1>1, ConvertedType
  <1>3. Len(log') = Len(log) + 1 /\ Len(log) \in Nat
    BY <1>1, <1>2, AppendFacts DEF TypeOK
  <1>4. ASSUME NEW s \in Streams PROVE InOrderFor(s)'
    <2>1. /\ queued[s] \in Seq(Nat) /\ Len(queued[s]) \in Nat /\ Sent(s) \in Nat
          /\ Len(Append(queued[s], Len(log) + 1)) = Len(queued[s]) + 1
      <3>1. queued[s] \in Seq(Nat) /\ Len(queued[s]) \in Nat /\ Sent(s) \in Nat
        BY StreamTypes
      <3> QED BY <3>1, <1>3, AppendFacts
    <2>2. /\ InOrderFor(s)
          /\ Holds(listeners', s) <=> Holds(listeners, s)
          /\ Sent(s)' = Sent(s) /\ Taken(s)' = Taken(s)
      BY <1>1 DEF InOrder, Sent, Taken
    <2>3. CASE Holds(listeners, s)
      <3>1. queued'[s] = Append(queued[s], Len(log) + 1)
        BY <1>1, <2>3
      <3>2. receiver[s] = "open" =>
              /\ RunFrom(queued[s], Sent(s)) /\ Len(log) = Sent(s) + Len(queued[s])
        BY <2>2, <2>3 DEF InOrderFor
      <3>3. receiver[s] = "open" => RunFrom(queued'[s], Sent(s))
        BY <2>1, <3>1, <3>2, RunFacts
      <3> QED BY <1>1, <1>3, <2>1, <2>2, <2>3, <3>1, <3>2, <3>3, SMTT(30)
              DEF InOrderFor, RunFrom
    <2>4. CASE ~Holds(listeners, s)
      <3>1. queued'[s] = queued[s]
        BY <1>1, <2>4
      <3> QED BY <1>1, <1>3, <2>1, <2>2, <2>4, <3>1 DEF InOrderFor, RunFrom
    <2> QED BY <2>3, <2>4
  <1>5. EL!Publish(Converted)
    BY <1>1 DEF EL!Publish
  <1> QED BY <1>2, <1>4, <1>5 DEF InOrder

LEMMA OnTargetDestroyedInOrder ==
  ASSUME TypeOK, InOrder, OnTargetDestroyed
  PROVE  InOrder'
  <1> SUFFICES ASSUME NEW s \in Streams PROVE InOrderFor(s)'
    BY DEF InOrder
  <1>1. /\ listeners' = <<>> /\ queued'[s] = <<>>
        /\ UNCHANGED <<channel, receiver, log, joined, since, seen>>
    BY DEF OnTargetDestroyed, logVars
  <1>2. /\ Len(queued[s]) \in Nat /\ Sent(s) \in Nat /\ Len(log) \in Nat
        /\ Sent(s)' = Sent(s) /\ Taken(s)' = Taken(s)
    BY <1>1, StreamTypes DEF Sent, Taken
  <1> QED BY <1>1, <1>2 DEF InOrder, InOrderFor, Holds, RunFrom

\* Every step keeps the order and is a step of EventLog or leaves it alone.
LEMMA NextInOrder ==
  TypeOK /\ OneSender /\ InOrder /\ [Next]_vars => InOrder' /\ [EL!Next]_(EL!vars)
  <1> SUFFICES ASSUME TypeOK, OneSender, InOrder, [Next]_vars
               PROVE  InOrder' /\ [EL!Next]_(EL!vars)
    OBVIOUS
  <1>1. ASSUME NEW s \in Streams, Subscribe(s) PROVE InOrder' /\ UNCHANGED EL!vars
    BY <1>1, SubscribeInOrder DEF Subscribe, logVars, EL!vars
  <1>2. ASSUME NEW s \in Streams, DropStream(s) \/ (PollStream(s) /\ ~TakeEvent(s))
        PROVE  InOrder' /\ UNCHANGED EL!vars
    BY <1>2, DropStreamInOrder
       DEF DropStream, PollStream, Sleep, EndStream, logVars, EL!vars
  <1>3. ASSUME NEW s \in Streams, PollStream(s), TakeEvent(s)
        PROVE  InOrder' /\ EL!Next
    BY <1>3, TakeEventInOrder DEF EL!Next
  <1>4. CASE AddListener
    BY <1>4, AddListenerInOrder DEF EL!Next
  <1>5. CASE PollListener
    BY <1>5, PollListenerInOrder DEF PollListener, logVars, EL!vars
  <1>6. CASE BeginPoll \/ EndPoll \/ EndConn \/ UNCHANGED vars
    <2>1. UNCHANGED <<listeners, queued, channel, receiver, log, joined, since, seen>>
      BY <1>6 DEF BeginPoll, EndPoll, EndConn, vars, streamVars, logVars
    <2>2. \A s \in Streams : SameView(s)
      BY <2>1 DEF SameView
    <2> QED BY <2>1, <2>2, SameStream DEF InOrder, EL!vars
  <1>7. CASE OnEvent
    BY <1>7, OnEventInOrder DEF EL!Next
  <1>8. CASE OnTargetDestroyed
    BY <1>8, OnTargetDestroyedInOrder DEF OnTargetDestroyed, logVars, EL!vars
  <1> QED
    BY <1>1, <1>2, <1>3, <1>4, <1>5, <1>6, <1>7, <1>8 DEF Next, HandlerStep

\* The listeners' queues, the channels and the streams together implement the log:
\* every stream takes exactly the events that follow its registration, in order.
THEOREM Refinement == Spec => ImplementsEventLog
  <1>1. Init => EL!Init
    BY DEF Init, EL!Init
  <1> QED
    BY <1>1, InitTypeOK, NextTypeOK, InitOneSender, NextOneSender, InitInOrder,
       NextInOrder, PTL DEF Spec, ImplementsEventLog, EL!Spec

=============================================================================
