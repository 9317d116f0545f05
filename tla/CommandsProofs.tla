--------------------------- MODULE CommandsProofs ---------------------------
(***************************************************************************)
(* For every set of calls, Commands keeps its types, gives a response to   *)
(* nobody but the caller it belongs to, loses no caller, and implements    *)
(* Fifo; and so it does under the task that polls the Handler.             *)
(***************************************************************************)
EXTENDS HandlerTask, SequenceTheorems, TLAPS

-----------------------------------------------------------------------------
(* Sequences *)

LEMMA AppendFacts ==
  ASSUME NEW S, NEW q \in Seq(S), NEW x \in S
  PROVE  /\ Append(q, x) \in Seq(S)
         /\ Len(Append(q, x)) = Len(q) + 1
         /\ Append(q, x)[Len(q) + 1] = x
         /\ \A i \in 1..Len(q) : Append(q, x)[i] = q[i]
  OBVIOUS

LEMMA TailFacts ==
  ASSUME NEW S, NEW q \in Seq(S), q # <<>>
  PROVE  /\ Len(q) \in Nat \ {0}
         /\ Head(q) \in S /\ Head(q) = q[1]
         /\ Tail(q) \in Seq(S)
         /\ Len(Tail(q)) = Len(q) - 1
         /\ \A i \in 1..Len(Tail(q)) : Tail(q)[i] = q[i + 1]
  OBVIOUS

\* A sequence of at most one element that is not empty has one.
LEMMA OneElement ==
  ASSUME NEW S, NEW q \in Seq(S), q # <<>>, Len(q) <= 1
  PROVE  Len(q) = 1
  <1>1. Len(q) # 0 /\ Len(q) \in Nat
    BY EmptySeq
  <1> QED BY <1>1

LEMMA ConcatFacts ==
  ASSUME NEW S, NEW q \in Seq(S), NEW r \in Seq(S)
  PROVE  /\ q \o r \in Seq(S)
         /\ Len(q \o r) = Len(q) + Len(r)
         /\ \A i \in 1..Len(q) : (q \o r)[i] = q[i]
         /\ \A i \in 1..Len(r) : (q \o r)[Len(q) + i] = r[i]
  OBVIOUS

\* Flushing a sink of one command appends that command to the wire.
LEMMA ConcatOne ==
  ASSUME NEW S, NEW q \in Seq(S), NEW r \in Seq(S), Len(r) = 1
  PROVE  /\ q \o r = Append(q, r[1])
         /\ r[1] \in S
  <1>1. r[1] \in S /\ Len(q) \in Nat
    OBVIOUS
  <1>2. PICK t \in Seq(S) : t = q \o r
    BY ConcatFacts
  <1>3. PICK u \in Seq(S) : u = Append(q, r[1])
    BY <1>1, AppendFacts
  <1>4. Len(t) = Len(q) + 1 /\ \A i \in 1..Len(q) : t[i] = q[i]
    <2>1. Len(q \o r) = Len(q) + Len(r) /\ \A i \in 1..Len(q) : (q \o r)[i] = q[i]
      BY ConcatFacts
    <2> QED BY <2>1, <1>2
  <1>5. t[Len(q) + 1] = r[1]
    <2>1. 1 \in 1..Len(r)
      OBVIOUS
    <2>2. (q \o r)[Len(q) + 1] = r[1]
      BY <2>1, ConcatFacts
    <2> QED BY <2>2, <1>2
  <1>6. Len(u) = Len(q) + 1 /\ \A i \in 1..Len(q) : u[i] = q[i]
    BY <1>1, <1>3, AppendFacts
  <1>7. u[Len(q) + 1] = r[1]
    BY <1>1, <1>3, AppendFacts
  <1>8. \A i \in 1..Len(t) : t[i] = u[i]
    BY <1>1, <1>4, <1>5, <1>6, <1>7
  <1>9. t = u
    BY <1>4, <1>6, <1>8, SeqEqual
  <1> QED BY <1>1, <1>2, <1>3, <1>9

-----------------------------------------------------------------------------
(* The invariant *)

ConnTypes ==
  /\ next_id \in Nat /\ queue \in Seq(MethodCalls) /\ sink \in Seq(MethodCalls)
  /\ wire \in Seq(MethodCalls) /\ submitted \in Seq(MethodCalls)
  /\ pending_flush \in BOOLEAN /\ needs_flush \in BOOLEAN
  /\ socket \in {"open", "broken", "closed"}

\* Command i of the sink, and of the queue, is the one that was submitted in its place.
InPlace ==
  /\ Len(submitted) = Len(wire) + Len(sink) + Len(queue)
  /\ \A i \in 1..Len(sink) : sink[i] = submitted[Len(wire) + i]
  /\ \A i \in 1..Len(queue) : queue[i] = submitted[Len(wire) + Len(sink) + i]

\* What the connection keeps: ids are consecutive, a command is flushed once, and as
\* long as the socket is open nothing is lost or overtaken.
ConnInv ==
  /\ ConnTypes
  /\ next_id = Len(submitted)
  /\ ~(pending_flush /\ needs_flush)
  /\ OneInSink
  /\ \A i \in 1..Len(sink) : sink[i] \in MethodCalls
  /\ socket = "open" => InPlace

\* mc was submitted, under its id.
Real(mc) == mc \in MethodCalls /\ mc.id < next_id /\ submitted[mc.id + 1] = mc

\* The table and the browser hold only commands that were submitted: two of them
\* with the same id are the same.
SentAreReal ==
  /\ \A i \in 1..Len(queue) : Real(queue[i])
  /\ \A i \in 1..Len(sink) : Real(sink[i])

KnownAreReal ==
  /\ \A mc \in pending \cup unanswered : Real(mc)
  /\ \A i \in 1..Len(inbox) : Real(inbox[i].of)

Outcomes == {"idle", "waiting", "response", "timeout", "canceled", "refused"}

TableTypes ==
  /\ outcome \in [Calls -> Outcomes]
  /\ got \in [Calls -> SUBSET (Calls \cup {Discover})]
  /\ mail \in Seq(Calls)
  /\ pending \subseteq [id : Nat, call : Calls] /\ late \subseteq pending
  /\ closing \in BOOLEAN /\ phase \in {"mail", "conn", "yielded", "over", "ended"}
  /\ inbox \in Seq([valid : BOOLEAN, of : MethodCalls])
  /\ unanswered \subseteq MethodCalls

GoneIsEmpty == phase = "ended" => mail = <<>> /\ pending = {}

TableInv == TableTypes /\ GoneIsEmpty /\ KnownAreReal /\ CallersAreHeld /\ OwnResponseOnly

IInv == ConnInv /\ SentAreReal /\ TableInv

\* The steps of Next as the connection sees them.
ConnNext ==
  \/ \E c \in Calls : SubmitCommand(c)
  \/ Flush \/ StartSend \/ SendFails \/ SinkReady \/ ReadFails \/ SocketCloses
  \/ UNCHANGED connVars

-----------------------------------------------------------------------------
(* The connection *)

LEMMA InitConn == Init => ConnInv
  <1> SUFFICES ASSUME Init PROVE ConnInv
    OBVIOUS
  <1> DEFINE mc == MethodCall(0, Discover)
  <1>1. mc \in MethodCalls
    BY DEF MethodCall, MethodCalls
  <1>2. queue = <<mc>> /\ submitted = <<mc>> /\ sink = <<>> /\ wire = <<>>
    BY DEF Init, ConnInit
  <1> HIDE DEF mc
  <1>3. <<mc>> \in Seq(MethodCalls) /\ <<>> \in Seq(MethodCalls)
    BY <1>1
  <1>4. ConnTypes
    BY <1>2, <1>3 DEF Init, ConnInit, ConnTypes
  <1>5. InPlace
    BY <1>2 DEF InPlace
  <1> QED BY <1>2, <1>4, <1>5 DEF Init, ConnInit, ConnInv, OneInSink

LEMMA SubmitStep ==
  ASSUME ConnInv, NEW c \in Calls, SubmitCommand(c)
  PROVE  ConnInv'
  <1> USE DEF ConnInv, ConnTypes
  <1> DEFINE mc == MethodCall(next_id, c)
  <1>1. mc \in MethodCalls
    BY DEF MethodCall, MethodCalls
  <1>2. /\ queue' = Append(queue, mc) /\ submitted' = Append(submitted, mc)
        /\ next_id' = next_id + 1
        /\ UNCHANGED <<pending_flush, needs_flush, sink, wire, socket>>
    BY DEF SubmitCommand
  <1> HIDE DEF mc
  <1>3. /\ queue' \in Seq(MethodCalls) /\ Len(queue') = Len(queue) + 1
        /\ queue'[Len(queue) + 1] = mc
        /\ \A i \in 1..Len(queue) : queue'[i] = queue[i]
    BY <1>1, <1>2, AppendFacts
  <1>4. /\ submitted' \in Seq(MethodCalls) /\ Len(submitted') = Len(submitted) + 1
        /\ submitted'[Len(submitted) + 1] = mc
        /\ \A i \in 1..Len(submitted) : submitted'[i] = submitted[i]
    BY <1>1, <1>2, AppendFacts
  <1>5. ASSUME InPlace PROVE InPlace'
    <2>1. Len(submitted') = Len(wire') + Len(sink') + Len(queue')
      BY <1>2, <1>3, <1>4, <1>5 DEF InPlace
    <2>2. \A i \in 1..Len(sink') : sink'[i] = submitted'[Len(wire') + i]
      BY <1>2, <1>4, <1>5 DEF InPlace
    <2>3. ASSUME NEW i \in 1..Len(queue')
          PROVE  queue'[i] = submitted'[Len(wire') + Len(sink') + i]
      <3>1. CASE i = Len(queue) + 1
        BY <3>1, <1>2, <1>3, <1>4, <1>5 DEF InPlace
      <3>2. CASE i # Len(queue) + 1
        <4>1. i \in 1..Len(queue)
          BY <3>2, <1>3
        <4>2. Len(wire) + Len(sink) + i \in 1..Len(submitted)
          BY <4>1, <1>5 DEF InPlace
        <4> QED BY <4>1, <4>2, <1>2, <1>3, <1>4, <1>5 DEF InPlace
      <3> QED BY <3>1, <3>2
    <2> QED BY <2>1, <2>2, <2>3 DEF InPlace
  <1>6. OneInSink'
    BY <1>2 DEF OneInSink
  <1> QED BY <1>2, <1>3, <1>4, <1>5, <1>6

LEMMA FlushStep ==
  ASSUME ConnInv, Flush
  PROVE  /\ ConnInv'
         /\ Len(sink) = 1
         /\ wire' = Append(wire, sink[1])
         /\ Len(wire) < Len(submitted)
         /\ sink[1] = submitted[Len(wire) + 1]
  <1> USE DEF ConnInv, ConnTypes, Flush
  <1>1. Len(sink) = 1
    <2>1. sink \in Seq(MethodCalls) /\ sink # <<>> /\ Len(sink) <= 1
      BY DEF OneInSink
    <2> HIDE DEF ConnInv, ConnTypes, Flush
    <2> QED BY <2>1, OneElement
  <1>2. wire' = Append(wire, sink[1]) /\ sink[1] \in MethodCalls
    BY <1>1, ConcatOne
  <1>3. wire' \in Seq(MethodCalls) /\ Len(wire') = Len(wire) + 1
    BY <1>2, AppendFacts
  <1>4. InPlace
    OBVIOUS
  <1>5. Len(wire) < Len(submitted) /\ sink[1] = submitted[Len(wire) + 1]
    BY <1>1, <1>4 DEF InPlace
  <1>6. Len(sink') = 0 /\ sink' = <<>> /\ sink' \in Seq(MethodCalls)
    OBVIOUS
  <1>7. InPlace'
    BY <1>1, <1>3, <1>4, <1>6 DEF InPlace
  <1>8. OneInSink'
    BY <1>6 DEF OneInSink
  <1>9. ConnTypes'
    BY <1>3, <1>6
  <1> QED BY <1>1, <1>2, <1>5, <1>6, <1>7, <1>8, <1>9

LEMMA StartSendStep ==
  ASSUME ConnInv, StartSend
  PROVE  ConnInv'
  <1> USE DEF ConnInv, ConnTypes, StartSend, CanSend
  <1>1. Len(sink) = 0 /\ sink = <<>>
    BY DEF OneInSink
  <1>2. /\ Len(queue) \in Nat \ {0} /\ Head(queue) \in MethodCalls
        /\ Head(queue) = queue[1]
        /\ queue' \in Seq(MethodCalls) /\ Len(queue') = Len(queue) - 1
        /\ \A i \in 1..Len(queue') : queue'[i] = queue[i + 1]
    BY TailFacts
  <1>3. sink' \in Seq(MethodCalls) /\ Len(sink') = 1 /\ sink'[1] = Head(queue)
    BY <1>1, <1>2
  <1>4. InPlace
    OBVIOUS
  <1>5. InPlace'
    BY <1>1, <1>2, <1>3, <1>4 DEF InPlace
  <1>6. OneInSink'
    BY <1>3 DEF OneInSink
  <1> QED BY <1>2, <1>3, <1>5, <1>6

\* The connection's invariant holds on through every step of the Handler.
LEMMA ConnStep ==
  ASSUME ConnInv, ConnNext
  PROVE  ConnInv'
  <1>1. CASE \E c \in Calls : SubmitCommand(c)
    BY <1>1, SubmitStep
  <1>2. CASE Flush
    BY <1>2, FlushStep
  <1>3. CASE StartSend
    BY <1>3, StartSendStep
  <1>4. CASE SendFails
    <2>1. queue' \in Seq(MethodCalls)
      BY <1>4, TailFacts DEF SendFails, CanSend, ConnInv, ConnTypes
    <2> QED BY <2>1, <1>4 DEF SendFails, ConnInv, ConnTypes, OneInSink
  <1>5. CASE SinkReady
    BY <1>5 DEF SinkReady, ConnInv, ConnTypes, OneInSink, InPlace
  <1>6. CASE ReadFails
    BY <1>6 DEF ReadFails, ConnInv, ConnTypes, OneInSink, InPlace
  <1>7. CASE SocketCloses
    BY <1>7 DEF SocketCloses, ConnInv, ConnTypes, OneInSink, InPlace
  <1>8. CASE UNCHANGED connVars
    BY <1>8 DEF connVars, ConnInv, ConnTypes, OneInSink, InPlace
  <1> QED BY <1>1, <1>2, <1>3, <1>4, <1>5, <1>6, <1>7, <1>8 DEF ConnNext

LEMMA ConnRefines ==
  ASSUME ConnInv, ConnNext
  PROVE  [F!Next]_F!vars
  <1>1. CASE \E c \in Calls : SubmitCommand(c)
    BY <1>1 DEF ConnInv, SubmitCommand, MethodCall, F!Next, F!Submit
  <1>2. CASE Flush
    BY <1>2, FlushStep DEF Flush, F!Next, F!Deliver
  <1>3. CASE UNCHANGED <<submitted, wire>>
    BY <1>3 DEF F!vars
  <1> QED BY <1>1, <1>2, <1>3 DEF ConnNext, StartSend, SendFails, SinkReady, ReadFails,
             SocketCloses, connVars

LEMMA NextIsConnNext ==
  ASSUME mail \in Seq(Calls), [Next]_vars
  PROVE  ConnNext
  <1>1. CASE TakeMail
    BY <1>1, TailFacts DEF TakeMail, ConnNext
  <1>2. CASE MoveOn
    BY <1>2 DEF MoveOn, ConnNext
  <1>3. CASE YieldError
    BY <1>3 DEF YieldError, ConnNext
  <1>4. CASE BrowserGoes
    BY <1>4 DEF BrowserGoes, ConnNext
  <1>5. CASE UNCHANGED connVars
    BY <1>5 DEF ConnNext
  <1> QED BY <1>1, <1>2, <1>3, <1>4, <1>5 DEF Next, HandlerStep, Call, EndMail, ReadMessage,
             Finish, EndPass, Evict, PollAgain, DropHandler, HandlerEnds, CommandExpires,
             Answers, vars
-----------------------------------------------------------------------------
(* Commands stay what they were when they were submitted *)

LEMMA StaysReal ==
  ASSUME ConnInv, ConnNext, NEW mc, Real(mc)
  PROVE  Real(mc)'
  <1>1. CASE \E c \in Calls : SubmitCommand(c)
    <2>1. PICK c \in Calls : SubmitCommand(c)
      BY <1>1
    <2>2. MethodCall(next_id, c) \in MethodCalls
      BY DEF MethodCall, MethodCalls, ConnInv, ConnTypes
    <2>3. /\ \A i \in 1..Len(submitted) : submitted'[i] = submitted[i]
          /\ next_id' = next_id + 1
      BY <2>1, <2>2, AppendFacts DEF SubmitCommand, ConnInv, ConnTypes
    <2>4. mc.id \in Nat /\ next_id \in Nat /\ mc.id + 1 \in 1..Len(submitted)
      BY DEF Real, MethodCalls, ConnInv, ConnTypes
    <2> QED BY <2>3, <2>4 DEF Real
  <1>2. CASE UNCHANGED <<next_id, submitted>>
    BY <1>2 DEF Real
  <1> QED BY <1>1, <1>2 DEF ConnNext, Flush, StartSend, SendFails, SinkReady, ReadFails,
             SocketCloses, connVars

\* The command just submitted is real.
LEMMA NewIsReal ==
  ASSUME ConnInv, NEW c \in Calls, SubmitCommand(c), NEW mc, mc = MethodCall(next_id, c)
  PROVE  Real(mc)'
  <1>1. mc \in MethodCalls /\ mc.id = next_id
    BY DEF MethodCall, MethodCalls, ConnInv, ConnTypes
  <1>2. submitted' = Append(submitted, mc) /\ next_id' = next_id + 1
    BY DEF SubmitCommand
  <1>3. next_id = Len(submitted) /\ next_id \in Nat /\ submitted \in Seq(MethodCalls)
    BY DEF ConnInv, ConnTypes
  <1>4. submitted'[next_id + 1] = mc
    BY <1>1, <1>2, <1>3, AppendFacts
  <1> QED BY <1>1, <1>2, <1>3, <1>4 DEF Real

\* What is still to be sent is real.
LEMMA SentStep ==
  ASSUME ConnInv, SentAreReal, ConnNext
  PROVE  SentAreReal'
  <1> USE DEF SentAreReal
  <1>1. \A mc : Real(mc) => Real(mc)'
    BY StaysReal
  <1>2. queue \in Seq(MethodCalls) /\ sink \in Seq(MethodCalls)
    BY DEF ConnInv, ConnTypes
  <1>3. CASE \E c \in Calls : SubmitCommand(c)
    <2>1. PICK c \in Calls : SubmitCommand(c)
      BY <1>3
    <2>2. PICK mc \in MethodCalls : mc = MethodCall(next_id, c)
      BY DEF MethodCall, MethodCalls, ConnInv, ConnTypes
    <2>3. Real(mc)'
      BY <2>1, <2>2, NewIsReal
    <2>4. queue' = Append(queue, mc) /\ sink' = sink
      BY <2>1, <2>2 DEF SubmitCommand
    <2>5. /\ Len(queue') = Len(queue) + 1 /\ queue'[Len(queue) + 1] = mc
          /\ \A i \in 1..Len(queue) : queue'[i] = queue[i]
      BY <1>2, <2>4, AppendFacts
    <2>6. ASSUME NEW i \in 1..Len(queue') PROVE Real(queue[i])'
      <3>1. CASE i \in 1..Len(queue)
        BY <3>1, <1>1, <2>5 DEF Real
      <3>2. CASE i = Len(queue) + 1
        BY <3>2, <2>3, <2>5 DEF Real
      <3> QED BY <3>1, <3>2, <1>2, <2>5
    <2>7. \A i \in 1..Len(sink') : Real(sink[i])'
      BY <1>1, <2>4 DEF Real
    <2> QED BY <2>6, <2>7
  <1>4. CASE StartSend
    <2>1. /\ Head(queue) = queue[1] /\ 1 \in 1..Len(queue)
          /\ Len(queue') = Len(queue) - 1
          /\ \A i \in 1..Len(queue') : queue'[i] = queue[i + 1]
      BY <1>2, <1>4, TailFacts DEF StartSend, CanSend
    <2>2. \A i \in 1..Len(queue') : Real(queue[i])'
      <3> SUFFICES ASSUME NEW i \in 1..Len(queue') PROVE Real(queue[i])'
        OBVIOUS
      <3>1. PICK mc : mc = queue[i + 1]
        OBVIOUS
      <3>2. Real(mc) /\ queue'[i] = mc
        BY <1>2, <2>1, <3>1
      <3>3. Real(mc)'
        BY <1>1, <3>2
      <3> QED BY <3>2, <3>3 DEF Real
    <2>3. Len(sink) = 0 /\ sink' = Append(sink, queue[1])
      BY <1>2, <1>4, <2>1 DEF StartSend, CanSend, ConnInv, OneInSink
    <2>4. Len(sink') = 1 /\ sink'[1] = queue[1]
      BY <1>2, <2>1, <2>3
    <2>5. \A i \in 1..Len(sink') : Real(sink[i])'
      <3>1. PICK mc : mc = queue[1]
        OBVIOUS
      <3>2. Real(mc)'
        BY <1>1, <2>1, <3>1
      <3> QED BY <2>4, <3>1, <3>2 DEF Real
    <2> QED BY <2>2, <2>5
  <1>5. CASE SendFails
    <2>1. /\ Len(queue') = Len(queue) - 1 /\ sink' = sink
          /\ \A i \in 1..Len(queue') : queue'[i] = queue[i + 1]
      BY <1>2, <1>5, TailFacts DEF SendFails, CanSend
    <2>2. \A i \in 1..Len(queue') : Real(queue[i])'
      <3> SUFFICES ASSUME NEW i \in 1..Len(queue') PROVE Real(queue[i])'
        OBVIOUS
      <3>1. PICK mc : mc = queue[i + 1]
        OBVIOUS
      <3>2. Real(mc) /\ queue'[i] = mc
        BY <1>2, <2>1, <3>1
      <3>3. Real(mc)'
        BY <1>1, <3>2
      <3> QED BY <3>2, <3>3 DEF Real
    <2>3. \A i \in 1..Len(sink') : Real(sink[i])'
      BY <1>1, <2>1 DEF Real
    <2> QED BY <2>2, <2>3
  <1>6. CASE Flush
    <2>1. Len(sink') = 0 /\ queue' = queue
      BY <1>6 DEF Flush
    <2>2. \A i \in 1..Len(queue') : Real(queue[i])'
      BY <1>1, <2>1 DEF Real
    <2> QED BY <2>1, <2>2
  <1>7. CASE UNCHANGED <<queue, sink>>
    BY <1>1, <1>7 DEF Real
  <1> QED BY <1>3, <1>4, <1>5, <1>6, <1>7 DEF ConnNext, SinkReady, ReadFails, SocketCloses,
             connVars

\* So do the table and the browser, if they only forget commands.
LEMMA KnownStay ==
  ASSUME ConnInv, KnownAreReal, ConnNext, UNCHANGED inbox,
         pending' \subseteq pending, unanswered' \subseteq unanswered
  PROVE  KnownAreReal'
  <1>1. \A mc : Real(mc) => Real(mc)'
    BY StaysReal
  <1> QED BY <1>1 DEF KnownAreReal

-----------------------------------------------------------------------------
(* Callers *)

LEMMA InitTable == Init => SentAreReal /\ TableInv
  <1> SUFFICES ASSUME Init PROVE SentAreReal /\ TableInv
    OBVIOUS
  <1>1. SentAreReal
    BY DEF Init, ConnInit, SentAreReal, Real, MethodCall, MethodCalls
  <1>2. TableTypes /\ GoneIsEmpty /\ KnownAreReal
    <2>1. mail \in Seq(Calls) /\ inbox \in Seq([valid : BOOLEAN, of : MethodCalls])
      BY DEF Init
    <2>2. /\ outcome \in [Calls -> Outcomes]
          /\ got \in [Calls -> SUBSET (Calls \cup {Discover})]
      BY DEF Init, Outcomes
    <2>3. TableTypes
      BY <2>1, <2>2 DEF Init, TableTypes
    <2>4. GoneIsEmpty
      BY DEF Init, GoneIsEmpty
    <2>5. KnownAreReal
      BY DEF Init, KnownAreReal
    <2> QED BY <2>3, <2>4, <2>5
  <1>3. CallersAreHeld /\ OwnResponseOnly
    BY DEF Init, CallersAreHeld, OwnResponseOnly
  <1> QED BY <1>1, <1>2, <1>3 DEF TableInv

LEMMA ResolveFacts ==
  ASSUME outcome \in [Calls -> Outcomes], NEW S, NEW r \in Outcomes, Resolve(S, r)
  PROVE  /\ outcome' \in [Calls -> Outcomes]
         /\ \A c \in Calls :
              outcome'[c] = IF c \in S /\ outcome[c] = "waiting" THEN r ELSE outcome[c]
  BY DEF Resolve

LEMMA CallStep ==
  ASSUME IInv, NEW c \in Calls, Call(c), ConnNext
  PROVE  TableInv'
  <1> USE DEF IInv, TableInv, Call
  <1>1. KnownAreReal'
    BY KnownStay DEF tableVars, browserVars
  <1>2. OwnResponseOnly'
    BY DEF OwnResponseOnly
  <1>3. /\ Append(mail, c) \in Seq(Calls) /\ Len(Append(mail, c)) = Len(mail) + 1
        /\ Append(mail, c)[Len(mail) + 1] = c
        /\ \A i \in 1..Len(mail) : Append(mail, c)[i] = mail[i]
    BY AppendFacts DEF TableTypes
  <1>4. TableTypes'
    BY <1>3 DEF TableTypes, Outcomes, tableVars, browserVars
  <1>5. GoneIsEmpty'
    BY DEF GoneIsEmpty, tableVars
  <1>6. CallersAreHeld'
    <2>1. CASE phase = "ended"
      BY <2>1 DEF CallersAreHeld, TableTypes, tableVars
    <2>2. CASE phase # "ended"
      <3>1. mail' = Append(mail, c) /\ pending' = pending
        BY <2>2 DEF tableVars
      <3>2. Len(mail) \in Nat
        BY DEF TableTypes
      <3>3. ASSUME NEW d \in Calls, outcome'[d] = "waiting"
            PROVE  d \in CallsIn(pending') \/ \E i \in 1..Len(mail') : mail'[i] = d
        <4>1. CASE d = c
          <5>1. Len(mail) + 1 \in 1..Len(mail')
            BY <1>3, <3>1, <3>2
          <5> QED BY <4>1, <5>1, <1>3, <3>1
        <4>2. CASE d # c
          <5>1. outcome[d] = "waiting"
            BY <4>2, <3>3 DEF TableTypes
          <5>2. d \in CallsIn(pending) \/ \E i \in 1..Len(mail) : mail[i] = d
            BY <5>1 DEF CallersAreHeld
          <5> QED BY <5>2, <1>3, <3>1, <3>2
        <4> QED BY <4>1, <4>2
      <3> QED BY <3>3 DEF CallersAreHeld, CallsIn
    <2> QED BY <2>1, <2>2
  <1> QED BY <1>1, <1>2, <1>4, <1>5, <1>6

\* Taking a command from the channel puts its caller into the table.
LEMMA TakeMailStep ==
  ASSUME IInv, TakeMail, ConnNext
  PROVE  TableInv'
  <1> USE DEF IInv, TableInv, TakeMail
  <1>1. /\ Head(mail) \in Calls /\ Head(mail) = mail[1] /\ Len(mail) \in Nat \ {0}
        /\ mail' \in Seq(Calls) /\ Len(mail') = Len(mail) - 1
        /\ \A i \in 1..Len(mail') : mail'[i] = mail[i + 1]
    BY TailFacts DEF TableTypes
  <1>2. PICK mc \in [id : Nat, call : Calls] :
          mc = MethodCall(next_id, Head(mail)) /\ mc.call = Head(mail)
    <2>1. next_id \in Nat
      BY DEF ConnInv, ConnTypes
    <2>2. MethodCall(next_id, Head(mail)) \in [id : Nat, call : Calls]
      BY <1>1, <2>1 DEF MethodCall
    <2>3. MethodCall(next_id, Head(mail)).call = Head(mail)
      BY DEF MethodCall
    <2> QED BY <2>2, <2>3
  <1>3. pending' = pending \cup {mc}
    BY <1>2
  <1>4. TableTypes'
    BY <1>1, <1>3 DEF TableTypes, browserVars
  <1>5. GoneIsEmpty' /\ OwnResponseOnly'
    BY DEF GoneIsEmpty, OwnResponseOnly
  <1>6. KnownAreReal'
    <2>1. Real(mc)'
      BY <1>1, <1>2, NewIsReal
    <2>2. \A m : Real(m) => Real(m)'
      BY StaysReal
    <2> QED BY <1>3, <2>1, <2>2 DEF KnownAreReal, browserVars
  <1>7. CallersAreHeld'
    <2>1. ASSUME NEW d \in Calls, outcome[d] = "waiting"
          PROVE  (\E p \in pending' : p.call = d) \/ \E i \in 1..Len(mail') : mail'[i] = d
      <3>1. CASE \E p \in pending : p.call = d
        BY <3>1, <1>3
      <3>2. CASE d = mail[1]
        BY <3>2, <1>1, <1>2, <1>3
      <3>3. CASE \E i \in 1..Len(mail) : i # 1 /\ mail[i] = d
        <4>1. PICK i \in 1..Len(mail) : i # 1 /\ mail[i] = d
          BY <3>3
        <4>2. i - 1 \in 1..Len(mail') /\ (i - 1) + 1 = i
          BY <4>1, <1>1
        <4> QED BY <4>1, <4>2, <1>1
      <3> QED BY <2>1, <3>1, <3>2, <3>3 DEF CallersAreHeld, CallsIn
    <2> QED BY <2>1 DEF CallersAreHeld, CallsIn
  <1> QED BY <1>4, <1>5, <1>6, <1>7

\* Commands leave the table with their callers told, whatever they are told.
LEMMA RemovalStep ==
  ASSUME IInv, ConnNext, NEW S \in SUBSET pending, NEW r \in Outcomes, r # "waiting",
         pending' = pending \ S, Resolve(CallsIn(S), r), UNCHANGED mail
  PROVE  CallersAreHeld'
  <1>1. ASSUME NEW d \in Calls, outcome'[d] = "waiting"
        PROVE  d \in CallsIn(pending') \/ \E i \in 1..Len(mail') : mail'[i] = d
    <2>1. outcome[d] = "waiting" /\ d \notin CallsIn(S)
      BY <1>1, ResolveFacts DEF IInv, TableInv, TableTypes
    <2>2. CASE d \in CallsIn(pending)
      BY <2>1, <2>2 DEF CallsIn
    <2>3. CASE \E i \in 1..Len(mail) : mail[i] = d
      BY <2>3
    <2> QED BY <2>1, <2>2, <2>3 DEF CallersAreHeld, IInv, TableInv
  <1> QED BY <1>1 DEF CallersAreHeld, CallsIn

LEMMA ReadStep ==
  ASSUME IInv, ReadMessage, ConnNext
  PROVE  TableInv'
  <1> USE DEF IInv, TableInv
  <1>1. /\ Len(inbox) \in Nat \ {0} /\ Head(inbox) = inbox[1] /\ 1 \in 1..Len(inbox)
        /\ Head(inbox) \in [valid : BOOLEAN, of : MethodCalls]
        /\ inbox' \in Seq([valid : BOOLEAN, of : MethodCalls])
        /\ Len(inbox') = Len(inbox) - 1
        /\ \A i \in 1..Len(inbox') : inbox'[i] = inbox[i + 1]
    <2>1. inbox \in Seq([valid : BOOLEAN, of : MethodCalls]) /\ inbox # <<>>
      BY DEF TableTypes, ReadMessage
    <2>2. inbox' = Tail(inbox)
      BY DEF ReadMessage
    <2> HIDE DEF IInv, TableInv
    <2>3. Len(inbox) \in Nat \ {0} /\ Head(inbox) = inbox[1]
      BY <2>1, TailFacts
    <2>4. /\ Head(inbox) \in [valid : BOOLEAN, of : MethodCalls]
          /\ inbox' \in Seq([valid : BOOLEAN, of : MethodCalls])
      BY <2>1, <2>2, TailFacts
    <2>5. /\ Len(inbox') = Len(inbox) - 1
          /\ \A i \in 1..Len(inbox') : inbox'[i] = inbox[i + 1]
      BY <2>1, <2>2, TailFacts
    <2>6. 1 \in 1..Len(inbox)
      BY <2>3
    <2> QED BY <2>3, <2>4, <2>5, <2>6
  <1>2. UNCHANGED <<mail, unanswered, connVars>> /\ phase # "ended" /\ phase' # "ended"
        /\ phase' \in {"conn", "yielded"}
    BY DEF ReadMessage, OnResponse, callerVars
  <1>3. pending' \subseteq pending
    BY DEF ReadMessage, OnResponse, tableVars
  <1>4. KnownAreReal'
    <2>1. \A mc : Real(mc) => Real(mc)'
      BY StaysReal
    <2>2. ASSUME NEW i \in 1..Len(inbox') PROVE Real(inbox[i].of)'
      <3>1. PICK mc : mc = inbox[i + 1].of
        OBVIOUS
      <3>2. Real(mc) /\ inbox'[i].of = mc
        BY <1>1, <3>1 DEF KnownAreReal
      <3>3. Real(mc)'
        BY <2>1, <3>2
      <3> QED BY <3>2, <3>3 DEF Real
    <2> QED BY <1>2, <1>3, <2>1, <2>2 DEF KnownAreReal
  <1>5. CASE \E p \in pending :
               /\ p.id = Head(inbox).of.id
               /\ pending' = pending \ {p} /\ late' = late \ {p}
               /\ Resolve({p.call}, "response")
               /\ got' = [got EXCEPT ![p.call] = @ \cup {Head(inbox).of.call}]
               /\ closing' = (closing \/ p.call \in Closes)
    <2>1. PICK p \in pending :
               /\ p.id = Head(inbox).of.id
               /\ pending' = pending \ {p} /\ late' = late \ {p}
               /\ Resolve({p.call}, "response")
               /\ got' = [got EXCEPT ![p.call] = @ \cup {Head(inbox).of.call}]
               /\ closing' = (closing \/ p.call \in Closes)
      BY <1>5
    <2>2. p = Head(inbox).of
      BY <1>1, <2>1 DEF KnownAreReal, Real
    <2>3. p \in [id : Nat, call : Calls]
      BY DEF TableTypes
    <2>4. OwnResponseOnly'
      BY <2>1, <2>2, <2>3 DEF OwnResponseOnly, TableTypes
    <2>5. outcome' \in [Calls -> Outcomes]
      <3>1. "response" \in Outcomes
        BY DEF Outcomes
      <3> QED BY <3>1, <2>1, ResolveFacts DEF TableTypes
    <2>6. got' \in [Calls -> SUBSET (Calls \cup {Discover})]
      BY <2>1, <2>2, <2>3 DEF TableTypes
    <2>7. closing' \in BOOLEAN
      BY <2>1
    <2>8. TableTypes'
      BY <1>1, <1>2, <2>1, <2>5, <2>6, <2>7 DEF TableTypes
    <2>9. CallersAreHeld'
      <3>1. Resolve(CallsIn({p}), "response")
        <4>1. CallsIn({p}) = {p.call}
          BY DEF CallsIn
        <4> QED BY <2>1, <4>1
      <3>2. "response" \in Outcomes /\ "response" # "waiting" /\ {p} \in SUBSET pending
        BY DEF Outcomes
      <3> QED BY <1>2, <2>1, <3>1, <3>2, RemovalStep
    <2> QED BY <1>2, <1>4, <2>4, <2>8, <2>9 DEF GoneIsEmpty
  <1>6. CASE UNCHANGED <<outcome, got, tableVars>>
    <2>1. TableTypes'
      BY <1>1, <1>2, <1>6 DEF TableTypes, tableVars
    <2>2. OwnResponseOnly' /\ CallersAreHeld' /\ GoneIsEmpty'
      BY <1>2, <1>6 DEF OwnResponseOnly, CallersAreHeld, CallsIn, GoneIsEmpty, tableVars
    <2> QED BY <1>4, <2>1, <2>2
  <1> QED BY <1>5, <1>6 DEF ReadMessage, OnResponse, callerVars

LEMMA EvictStep ==
  ASSUME IInv, Evict, ConnNext
  PROVE  TableInv'
  <1> USE DEF IInv, TableInv, Evict
  <1>1. late \in SUBSET pending /\ "timeout" \in Outcomes /\ "timeout" # "waiting"
    BY DEF TableTypes, Outcomes
  <1>2. CallersAreHeld'
    BY <1>1, RemovalStep
  <1>3. outcome' \in [Calls -> Outcomes]
    BY <1>1, ResolveFacts DEF TableTypes
  <1>4. TableTypes' /\ GoneIsEmpty'
    BY <1>3 DEF TableTypes, GoneIsEmpty, browserVars
  <1>5. KnownAreReal'
    BY KnownStay DEF browserVars
  <1>6. OwnResponseOnly'
    BY DEF OwnResponseOnly
  <1> QED BY <1>2, <1>4, <1>5, <1>6

LEMMA EndStep ==
  ASSUME IInv, DropHandler, ConnNext
  PROVE  TableInv'
  <1> USE DEF IInv, TableInv, DropHandler, HandlerEnds
  <1> DEFINE S == CallsIn(pending) \cup {mail[i] : i \in 1..Len(mail)}
  <1>1. "canceled" \in Outcomes
    BY DEF Outcomes
  <1>2. /\ outcome' \in [Calls -> Outcomes]
        /\ \A c \in Calls :
             outcome'[c] = IF c \in S /\ outcome[c] = "waiting" THEN "canceled" ELSE outcome[c]
    BY <1>1, ResolveFacts DEF TableTypes
  <1>3. \A c \in Calls : outcome[c] = "waiting" => c \in S
    BY DEF CallersAreHeld
  <1>4. CallersAreHeld'
    BY <1>2, <1>3 DEF CallersAreHeld
  <1>5. TableTypes' /\ GoneIsEmpty'
    BY <1>2 DEF TableTypes, GoneIsEmpty, browserVars
  <1>6. KnownAreReal'
    BY KnownStay DEF browserVars
  <1>7. OwnResponseOnly'
    BY DEF OwnResponseOnly
  <1> QED BY <1>4, <1>5, <1>6, <1>7

\* A flush hands the browser a command that was submitted.
LEMMA MoveOnStep ==
  ASSUME IInv, MoveOn, ConnNext
  PROVE  TableInv'
  <1> USE DEF IInv, TableInv
  <1>1. UNCHANGED <<callerVars, tableVars, phase, inbox>>
    BY DEF MoveOn, browserVars
  <1>2. unanswered' \subseteq unanswered \cup {sink[i] : i \in 1..Len(sink)}
    BY DEF MoveOn, browserVars
  <1>3. \A i \in 1..Len(sink) : sink[i] \in MethodCalls
    BY DEF ConnInv
  <1>4. TableTypes'
    BY <1>1, <1>2, <1>3 DEF TableTypes, callerVars, tableVars
  <1>5. KnownAreReal'
    <2>1. \A mc : Real(mc) => Real(mc)'
      BY StaysReal
    <2>2. \A mc \in pending' \cup unanswered' : Real(mc)
      BY <1>1, <1>2 DEF KnownAreReal, SentAreReal, tableVars
    <2>3. \A mc \in pending' \cup unanswered' : Real(mc)'
      BY <2>1, <2>2
    <2>4. \A i \in 1..Len(inbox') : Real(inbox[i].of)'
      BY <1>1, <2>1 DEF KnownAreReal, Real
    <2> QED BY <2>3, <2>4 DEF KnownAreReal
  <1>6. GoneIsEmpty' /\ CallersAreHeld' /\ OwnResponseOnly'
    BY <1>1 DEF GoneIsEmpty, CallersAreHeld, CallsIn, OwnResponseOnly, callerVars, tableVars
  <1> QED BY <1>4, <1>5, <1>6

LEMMA AnswersStep ==
  ASSUME IInv, NEW mc \in unanswered, NEW valid \in BOOLEAN, Answers(mc, valid), ConnNext
  PROVE  TableInv'
  <1> USE DEF IInv, TableInv, Answers
  <1> DEFINE m == [valid |-> valid, of |-> mc]
  <1>1. m \in [valid : BOOLEAN, of : MethodCalls]
    BY DEF TableTypes
  <1>2. inbox' = Append(inbox, m) /\ m.of = mc
    OBVIOUS
  <1> HIDE DEF m
  <1>3. /\ inbox' \in Seq([valid : BOOLEAN, of : MethodCalls])
        /\ Len(inbox') = Len(inbox) + 1 /\ inbox'[Len(inbox) + 1] = m
        /\ \A i \in 1..Len(inbox) : inbox'[i] = inbox[i]
    BY <1>1, <1>2, AppendFacts DEF TableTypes
  <1>4. TableTypes'
    BY <1>3 DEF TableTypes, callerVars, tableVars
  <1>5. KnownAreReal'
    <2>1. \A x : Real(x) => Real(x)'
      BY StaysReal
    <2>2. ASSUME NEW i \in 1..Len(inbox') PROVE Real(inbox[i].of)'
      <3>1. PICK x : x = inbox'[i].of
        OBVIOUS
      <3>2. Len(inbox) \in Nat
        BY DEF TableTypes
      <3>3. CASE i = Len(inbox) + 1
        BY <3>1, <3>3, <2>1, <1>2, <1>3 DEF KnownAreReal, Real
      <3>4. CASE i # Len(inbox) + 1
        <4>1. i \in 1..Len(inbox)
          BY <3>2, <3>4, <1>3
        <4>2. Real(x)
          BY <3>1, <4>1, <1>3 DEF KnownAreReal
        <4>3. Real(x)'
          BY <4>2, <2>1
        <4> QED BY <3>1, <4>3 DEF Real
      <3> QED BY <3>3, <3>4
    <2> QED BY <2>1, <2>2 DEF KnownAreReal, tableVars
  <1>6. GoneIsEmpty' /\ CallersAreHeld' /\ OwnResponseOnly'
    BY DEF GoneIsEmpty, CallersAreHeld, CallsIn, OwnResponseOnly, callerVars, tableVars
  <1> QED BY <1>4, <1>5, <1>6

\* The other steps move the Handler's loop, age a command, or change the socket.
LEMMA QuietStep ==
  ASSUME IInv, ConnNext, UNCHANGED <<callerVars, pending, closing, browserVars>>,
         late' \subseteq pending, phase' \in {"mail", "conn", "yielded", "over", "ended"},
         phase' = "ended" => phase = "ended"
  PROVE  TableInv'
  <1> USE DEF IInv, TableInv, callerVars, browserVars
  <1>1. TableTypes'
    BY DEF TableTypes
  <1>2. KnownAreReal'
    BY KnownStay
  <1>3. GoneIsEmpty' /\ CallersAreHeld' /\ OwnResponseOnly'
    BY DEF GoneIsEmpty, CallersAreHeld, CallsIn, OwnResponseOnly
  <1> QED BY <1>1, <1>2, <1>3

-----------------------------------------------------------------------------
(* Theorems *)

LEMMA InitInv == Init => IInv
  BY InitConn, InitTable DEF IInv

LEMMA InductiveStep ==
  ASSUME IInv, [Next]_vars
  PROVE  IInv' /\ ConnNext
  <1>1. ConnNext
    BY NextIsConnNext DEF IInv, TableInv, TableTypes
  <1>2. ConnInv' /\ SentAreReal'
    BY <1>1, ConnStep, SentStep DEF IInv
  <1>3. late \subseteq pending
        /\ phase \in {"mail", "conn", "yielded", "over", "ended"}
    BY DEF IInv, TableInv, TableTypes
  <1>4. TableInv'
    <2>1. CASE \E c \in Calls : Call(c)
      BY <1>1, <2>1, CallStep
    <2>2. CASE TakeMail
      BY <1>1, <2>2, TakeMailStep
    <2>3. CASE MoveOn
      BY <1>1, <2>3, MoveOnStep
    <2>4. CASE ReadMessage
      BY <1>1, <2>4, ReadStep
    <2>5. CASE Evict
      BY <1>1, <2>5, EvictStep
    <2>6. CASE DropHandler
      BY <1>1, <2>6, EndStep
    <2>7. CASE \E mc \in unanswered, valid \in BOOLEAN : Answers(mc, valid)
      BY <1>1, <2>7, AnswersStep
    <2>8. CASE EndMail \/ YieldError \/ Finish \/ EndPass \/ PollAgain
      BY <1>1, <1>3, <2>8, QuietStep DEF EndMail, YieldError, Finish, EndPass, PollAgain,
         tableVars
    <2>9. CASE \E p \in pending : CommandExpires(p)
      BY <1>1, <1>3, <2>9, QuietStep DEF CommandExpires
    <2>10. CASE BrowserGoes \/ UNCHANGED vars
      BY <1>1, <1>3, <2>10, QuietStep DEF BrowserGoes, vars, tableVars, callerVars, browserVars
    <2> QED BY <2>1, <2>2, <2>3, <2>4, <2>5, <2>6, <2>7, <2>8, <2>9, <2>10
            DEF Next, HandlerStep
  <1> QED BY <1>1, <1>2, <1>4 DEF IInv

THEOREM Invariance == Spec => []IInv
  <1>1. IInv /\ [Next]_vars => IInv'
    BY InductiveStep
  <1> QED BY InitInv, <1>1, PTL DEF Spec

\* The variables of Connection and of the Handler's table keep their types, and the
\* table has one entry per id.
THEOREM TypeCorrect == Spec => []TypeOK
  <1>1. IInv => TypeOK
    <2> SUFFICES ASSUME IInv PROVE TypeOK
      OBVIOUS
    <2>1. \A p \in pending : p.id < next_id /\ \A q \in pending : p.id = q.id => p = q
      BY DEF IInv, TableInv, KnownAreReal, Real
    <2> QED BY <2>1 DEF IInv, ConnInv, ConnTypes, TableInv, TableTypes, Outcomes, GoneIsEmpty,
               TypeOK
  <1> QED BY <1>1, Invariance, PTL

\* Handler::on_response gives a response to the caller whose command it answers, for
\* any number of calls, in whatever order responses and evictions come.
THEOREM ResponsesFindTheirCaller == Spec => []OwnResponseOnly
  <1>1. IInv => OwnResponseOnly
    BY DEF IInv, TableInv
  <1> QED BY <1>1, Invariance, PTL

\* No step of the Handler loses the oneshot sender of a caller that waits.
THEOREM NoCallerIsLost == Spec => []CallersAreHeld
  <1>1. IInv => CallersAreHeld
    BY DEF IInv, TableInv
  <1> QED BY <1>1, Invariance, PTL

\* Connection::start_send_next hands the socket one command at a time.
THEOREM OneCommandInSink == Spec => []OneInSink
  <1>1. IInv => OneInSink
    BY DEF IInv, ConnInv
  <1> QED BY <1>1, Invariance, PTL

\* The connection implements the queue it promises: consecutive ids, and a wire that
\* carries the commands in the order of their submission, each at most once.
THEOREM ConnectionImplementsFifo == Spec => ImplementsFifo
  <1>1. Init => F!Init
    BY DEF Init, ConnInit, MethodCall, F!Init
  <1>2. IInv /\ [Next]_vars => [F!Next]_F!vars
    BY InductiveStep, ConnRefines DEF IInv
  <1> QED BY <1>1, <1>2, Invariance, PTL DEF Spec, ImplementsFifo, F!Spec

-----------------------------------------------------------------------------
(* The task *)

LEMMA TaskStep == TaskNext => [Next]_vars
  <1> SUFFICES ASSUME TaskNext PROVE [Next]_vars
    OBVIOUS
  <1>1. CASE Calling
    BY <1>1 DEF Calling, Next
  <1>2. CASE SocketWakes
    BY <1>2 DEF SocketWakes, Next
  <1>3. CASE SocketIsWritable \/ OthersWake \/ DelayFires
    BY <1>3 DEF SocketIsWritable, OthersWake, DelayFires
  <1>4. CASE Working
    BY <1>4 DEF Working, Next, HandlerStep
  <1>5. CASE TurnEnds
    BY <1>5 DEF TurnEnds, PollReady, Next, HandlerStep
  <1>6. CASE StreamIsPolled \/ StreamIsDropped
    BY <1>6 DEF StreamIsPolled, StreamIsDropped, Next
  <1>7. CASE CommandsAge
    BY <1>7 DEF CommandsAge, Next
  <1> QED BY <1>1, <1>2, <1>3, <1>4, <1>5, <1>6, <1>7 DEF TaskNext

\* The task decides when the Handler's steps are taken, never what they are: whatever
\* holds of Commands holds under it.
THEOREM TaskTakesItsSteps == TaskSpec => Spec
  <1>1. TaskInit => Init
    BY DEF TaskInit
  <1>2. [TaskNext]_taskVars => [Next]_vars
    BY TaskStep DEF taskVars
  <1> QED BY <1>1, <1>2, PTL DEF TaskSpec, Spec
=============================================================================
