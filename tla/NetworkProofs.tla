--------------------------- MODULE NetworkProofs ---------------------------
(***************************************************************************)
(* For any requests, redirects, challenges and users, the NetworkManager   *)
(* keeps its types, pairs every hop with its own interception, reports     *)
(* every request once and leaves nothing undone.                           *)
(*                                                                         *)
(* NetInv, the inductive invariant, has a part for each kind of fact:      *)
(*   BaseOK         types                                                  *)
(*   EventInv       events on their way: none is ahead of its request, and *)
(*                  those of a request come in the order of its hops       *)
(*   SwitchInv      who has switched interception on                       *)
(*   MapInv         the maps of the manager against the events to come     *)
(*   PairInv        where pause and announcement of a hop are              *)
(*   ReportInv      the end of a request is to come or has been told       *)
(*   AnswerInv      who waits at a gate is about to be answered            *)
(*   CredentialInv  an interception with credentials is remembered as long *)
(*                  as it can be challenged                                *)
(*   CacheInv       what becomes of Network.setCacheDisabled               *)
(***************************************************************************)
EXTENDS Network, TLAPS

-----------------------------------------------------------------------------
(* Sequences *)

LEMMA HeadTail ==
  ASSUME NEW S, NEW s \in Seq(S), s # <<>>
  PROVE  /\ Len(s) \in Nat \ {0}
         /\ Head(s) \in S
         /\ Head(s) = s[1]
         /\ Tail(s) \in Seq(S)
         /\ Len(Tail(s)) = Len(s) - 1
         /\ \A i \in 1..Len(Tail(s)) : Tail(s)[i] = s[i + 1]
  OBVIOUS

LEMMA AppendFacts ==
  ASSUME NEW S, NEW s \in Seq(S), NEW x \in S
  PROVE  /\ Append(s, x) \in Seq(S)
         /\ Len(Append(s, x)) = Len(s) + 1 /\ Len(s) \in Nat
         /\ Append(s, x)[Len(s) + 1] = x
         /\ \A i \in 1..Len(s) : Append(s, x)[i] = s[i]
  OBVIOUS

\* The commands a step queues come after those that are there.
LEMMA ConcatFacts ==
  ASSUME NEW S, NEW s \in Seq(S), NEW t \in Seq(S)
  PROVE  /\ s \o t \in Seq(S)
         /\ Len(s \o t) = Len(s) + Len(t) /\ Len(s) \in Nat /\ Len(t) \in Nat
         /\ \A i \in 1..Len(s) : (s \o t)[i] = s[i]
         /\ \A i \in 1..Len(t) : (s \o t)[Len(s) + i] = t[i]
  OBVIOUS

LEMMA ConcatOne ==
  ASSUME NEW S, NEW x \in S, NEW t \in Seq(S)
  PROVE  /\ <<x>> \o t \in Seq(S)
         /\ Len(<<x>> \o t) = Len(t) + 1 /\ Len(t) \in Nat
         /\ (<<x>> \o t)[1] = x
         /\ \A i \in 1..Len(t) : (<<x>> \o t)[i + 1] = t[i]
  OBVIOUS

USE NetworkBounds

-----------------------------------------------------------------------------
(* Types *)

Gates == {"open", "closed", "paused", "auth", "through"}
Traffic ==
  [hop : 0..MaxHops, announced : BOOLEAN, gate : Gates, tries : Nat, ended : BOOLEAN,
   responded : BOOLEAN, steady : BOOLEAN]
Hops == Requests \X (1..MaxHops)
EventTypes == {"willBeSent", "paused", "auth", "response", "finished", "failed"}
NetMessage == [type : EventTypes, request : Requests, hop : 1..MaxHops, id : Hops]
NetCommand ==
  [name : {"cache", "enable", "disable", "continue"}, id : Interception, value : BOOLEAN]
    \cup [name : {"auth"}, id : Interception, value : {"provide", "default", "cancel"}]
Tracked == [hop : 1..MaxHops, interception : Interception, chain : Nat]

Switches ==
  [user_interception : BOOLEAN, protocol_interception : BOOLEAN, credentials : BOOLEAN,
   user_cache_disabled : BOOLEAN]

MapsOK ==
  /\ DOMAIN requests \subseteq Requests /\ \A r \in DOMAIN requests : requests[r] \in Tracked
  /\ DOMAIN will_be_sent \subseteq Requests
  /\ \A r \in DOMAIN will_be_sent : will_be_sent[r] \in NetMessage /\ will_be_sent[r].request = r
  /\ DOMAIN interceptions \subseteq Requests
  /\ \A r \in DOMAIN interceptions : interceptions[r] \in Hops /\ interceptions[r][1] = r
  /\ attempted \subseteq Interception /\ reported \in [Requests -> Nat]

BaseOK ==
  /\ MapsOK
  /\ traffic \in [Requests -> Traffic]
  /\ messages \in Seq(NetMessage)
  /\ \A i \in 1..Len(messages) : messages[i].id = <<messages[i].request, messages[i].hop>>
  /\ commands \in Seq(NetCommand) /\ provided \in Seq(Interception)
  /\ settings \in Switches
  /\ mode \in Modes \cup {"new"} /\ fetch \in {"off", "on", "onWithAuth"}
  /\ cache_disabled \in BOOLEAN

-----------------------------------------------------------------------------
(* Events taken and emitted *)

LEMMA TakeFacts ==
  ASSUME BaseOK, NEW type, TakeEvent(type)
  PROVE  /\ Len(messages) \in Nat \ {0} /\ Len(messages') = Len(messages) - 1
         /\ messages' \in Seq(NetMessage)
         /\ Event = messages[1] /\ 1 \in 1..Len(messages)
         /\ Event \in NetMessage /\ Event.type = type
         /\ Event.request \in Requests /\ Event.hop \in 1..MaxHops
         /\ Event.id = <<Event.request, Event.hop>>
         /\ \A i \in 1..Len(messages) - 1 :
              i + 1 \in 1..Len(messages) /\ messages'[i] = messages[i + 1]
<1>1. messages \in Seq(NetMessage) /\ messages # <<>> /\ messages' = Tail(messages)
      /\ Event = Head(messages) /\ Event.type = type
  BY DEF BaseOK, TakeEvent, Event
<1>2. /\ Len(messages) \in Nat \ {0} /\ Len(messages') = Len(messages) - 1
      /\ messages' \in Seq(NetMessage)
      /\ Event = messages[1] /\ Event \in NetMessage
      /\ \A i \in 1..Len(messages) - 1 : messages'[i] = messages[i + 1]
  BY <1>1, HeadTail
<1> QED BY <1>1, <1>2 DEF BaseOK, NetMessage

\* An event that tells of the present hop of r, and the change that goes with it.
Emits(type, r) ==
  /\ traffic[r].hop > 0 /\ ~traffic[r].ended
  /\ messages' = Append(messages, Message(type, r))
  /\ \A x \in Requests \ {r} : traffic'[x] = traffic[x]
  /\ traffic'[r].hop = traffic[r].hop /\ traffic'[r].steady = traffic[r].steady
  /\ type = "willBeSent" =>
       /\ ~traffic[r].announced /\ traffic'[r].announced
       /\ traffic'[r].gate = traffic[r].gate
  /\ type # "willBeSent" => traffic'[r].announced = traffic[r].announced
  /\ type = "paused" => traffic[r].gate = "closed" /\ traffic'[r].gate = "paused"
  /\ type = "auth" =>
       /\ traffic[r].announced /\ traffic[r].gate = "through" /\ traffic'[r].gate = "auth"
       /\ ~traffic[r].responded
  /\ type \in {"response", "finished", "failed"} =>
       traffic[r].announced /\ traffic'[r].gate = traffic[r].gate
  /\ type \in {"response", "finished"} => traffic[r].gate # "closed"
  /\ (traffic'[r].responded <=> traffic[r].responded \/ type = "response")
  /\ (traffic'[r].ended <=> type \in {"finished", "failed"})

\* r starts, or is redirected.
Starts(r) ==
  /\ UNCHANGED messages
  /\ \A x \in Requests \ {r} : traffic'[x] = traffic[x]
  /\ traffic'[r] = NewHop(r, traffic'[r].steady)
  /\ \/ /\ traffic[r].hop = 0 /\ mode # "new"
        /\ traffic'[r].steady =>
             traffic[r].steady /\ settings.protocol_interception = (fetch # "off")
     \/ Sent(r) /\ ~traffic[r].responded /\ traffic'[r].steady = traffic[r].steady

LEMMA NewHopFacts ==
  ASSUME NEW r \in Requests, traffic[r] \in Traffic, NEW s \in BOOLEAN
  PROVE  /\ NewHop(r, s).hop = traffic[r].hop + 1 /\ NewHop(r, s).steady = s
         /\ ~NewHop(r, s).announced /\ ~NewHop(r, s).ended /\ ~NewHop(r, s).responded
         /\ NewHop(r, s).gate =
              IF fetch = "off" \/ r \in DataRequests THEN "open" ELSE "closed"
         /\ traffic[r].hop < MaxHops => NewHop(r, s) \in Traffic
<1> DEFINE gate == IF fetch = "off" \/ r \in DataRequests THEN "open" ELSE "closed"
<1>1. gate \in Gates /\ traffic[r].hop \in 0..MaxHops
  BY DEF Gates, Traffic
<1>2. NewHop(r, s) = [Idle EXCEPT !.hop = traffic[r].hop + 1, !.steady = s, !.gate = gate]
  BY DEF NewHop
<1>3. traffic[r].hop < MaxHops => traffic[r].hop + 1 \in 0..MaxHops
  BY <1>1
<1>4. Idle \in Traffic
  BY DEF Idle, Traffic, Gates
<1> HIDE DEF gate
<1>5. traffic[r].hop < MaxHops => NewHop(r, s) \in Traffic
  BY <1>1, <1>2, <1>3, <1>4 DEF Traffic
<1>6. /\ NewHop(r, s).hop = traffic[r].hop + 1 /\ NewHop(r, s).steady = s
      /\ NewHop(r, s).gate = gate
      /\ ~NewHop(r, s).announced /\ ~NewHop(r, s).ended /\ ~NewHop(r, s).responded
  BY <1>2 DEF Idle
<1> QED BY <1>5, <1>6 DEF gate

LEMMA BrowserSteps ==
  ASSUME BaseOK, BrowserStep
  PROVE  /\ traffic' \in [Requests -> Traffic]
         /\ UNCHANGED <<managerState, commands, mode, fetch, cache_disabled, provided, reported>>
         /\ \E r \in Requests :
              \/ \E type \in EventTypes : Emits(type, r)
              \/ Starts(r)
<1>1. UNCHANGED <<managerState, commands, mode, fetch, cache_disabled, provided, reported>>
  BY DEF BrowserStep
<1>2. /\ traffic \in [Requests -> Traffic] /\ fetch \in {"off", "on", "onWithAuth"}
      /\ settings.protocol_interception \in BOOLEAN
  BY DEF BaseOK, Switches
<1>3. PICK r \in Requests :
        \/ BrowserRequests(r) \/ BrowserRedirects(r) \/ BrowserAnnounces(r)
        \/ BrowserPauses(r) \/ BrowserChallenges(r) \/ BrowserResponds(r)
        \/ BrowserFinishes(r) \/ BrowserFails(r)
  BY DEF BrowserStep
<1>4. traffic[r] \in Traffic
  BY <1>2
<1>5. ASSUME NEW new \in Traffic, Change(r, new)
      PROVE  /\ traffic' \in [Requests -> Traffic] /\ traffic'[r] = new
             /\ \A x \in Requests \ {r} : traffic'[x] = traffic[x]
  BY <1>2, <1>5 DEF Change
<1>6. CASE BrowserRequests(r) \/ BrowserRedirects(r)
  <2>1. PICK s \in BOOLEAN :
          /\ Change(r, NewHop(r, s)) /\ UNCHANGED messages
          /\ \/ /\ traffic[r].hop = 0 /\ mode # "new"
                /\ s => traffic[r].steady /\ settings.protocol_interception = (fetch # "off")
             \/ Sent(r) /\ ~traffic[r].responded /\ s = traffic[r].steady
    BY <1>4, <1>6 DEF BrowserRequests, BrowserRedirects, Traffic
  <2>2. traffic[r].hop < MaxHops
    BY <1>4, <1>6 DEF BrowserRequests, BrowserRedirects, Traffic
  <2>3. NewHop(r, s) \in Traffic /\ NewHop(r, s).steady = s
    BY <1>4, <2>2, NewHopFacts
  <2>4. Starts(r)
    <3> HIDE DEF NewHop
    <3> QED BY <1>5, <2>1, <2>3 DEF Starts
  <2> QED BY <1>1, <1>5, <2>1, <2>3, <2>4
<1>7. ASSUME ~BrowserRequests(r), ~BrowserRedirects(r)
      PROVE  traffic' \in [Requests -> Traffic] /\ \E type \in EventTypes : Emits(type, r)
  <2>1. InFlight(r) /\ traffic[r].hop > 0 /\ ~traffic[r].ended
    BY <1>3, <1>7 DEF InFlight, BrowserAnnounces, BrowserPauses, BrowserChallenges,
         BrowserResponds, BrowserFinishes, BrowserFails, Sent
  <2>2. CASE BrowserAnnounces(r)
    <3> DEFINE t == [traffic[r] EXCEPT !.announced = TRUE]
    <3>1. t \in Traffic
      BY <1>4 DEF Traffic
    <3>2. /\ Change(r, t) /\ messages' = Append(messages, Message("willBeSent", r))
          /\ ~traffic[r].announced
      BY <2>2 DEF BrowserAnnounces, EmitEvent
    <3> QED BY <1>4, <1>5, <2>1, <3>1, <3>2 DEF Emits, EventTypes, Traffic
  <2>3. CASE BrowserPauses(r)
    <3> DEFINE t == [traffic[r] EXCEPT !.gate = "paused"]
    <3>1. t \in Traffic
      BY <1>4 DEF Traffic, Gates
    <3>2. /\ Change(r, t) /\ messages' = Append(messages, Message("paused", r))
          /\ traffic[r].gate = "closed"
      BY <2>3 DEF BrowserPauses, EmitEvent
    <3> QED BY <1>4, <1>5, <2>1, <3>1, <3>2 DEF Emits, EventTypes, Traffic
  <2>4. CASE BrowserChallenges(r)
    <3> DEFINE n == traffic[r].tries + 1
               t == [traffic[r] EXCEPT !.gate = "auth", !.tries = n]
    <3>0. n \in Nat
      BY <1>4 DEF Traffic
    <3>1. t \in Traffic
      <4> HIDE DEF n
      <4> QED BY <1>4, <3>0 DEF Traffic, Gates
    <3>2. /\ Change(r, t) /\ messages' = Append(messages, Message("auth", r))
          /\ traffic[r].announced /\ traffic[r].gate = "through" /\ ~traffic[r].responded
      BY <2>4 DEF BrowserChallenges, EmitEvent, Sent
    <3> HIDE DEF n
    <3> QED BY <1>4, <1>5, <2>1, <3>1, <3>2 DEF Emits, EventTypes, Traffic
  <2>5. CASE BrowserResponds(r)
    <3> DEFINE t == [traffic[r] EXCEPT !.responded = TRUE]
    <3>1. t \in Traffic
      BY <1>4 DEF Traffic
    <3>2. /\ Change(r, t) /\ messages' = Append(messages, Message("response", r))
          /\ traffic[r].announced /\ traffic[r].gate # "closed"
      BY <2>5 DEF BrowserResponds, EmitEvent, Sent
    <3> QED BY <1>4, <1>5, <2>1, <3>1, <3>2 DEF Emits, EventTypes, Traffic
  <2>6. CASE BrowserFinishes(r) \/ BrowserFails(r)
    <3> DEFINE t == [traffic[r] EXCEPT !.ended = TRUE]
    <3>1. t \in Traffic
      BY <1>4 DEF Traffic
    <3>2. PICK type \in {"finished", "failed"} :
            /\ Change(r, t) /\ messages' = Append(messages, Message(type, r))
            /\ traffic[r].announced /\ (type = "finished" => traffic[r].gate # "closed")
      BY <2>6 DEF BrowserFinishes, BrowserFails, EmitEvent, Sent
    <3> QED BY <1>4, <1>5, <2>1, <3>1, <3>2 DEF Emits, EventTypes, Traffic
  <2> QED BY <1>3, <1>7, <2>2, <2>3, <2>4, <2>5, <2>6
<1> QED BY <1>1, <1>3, <1>6, <1>7

-----------------------------------------------------------------------------
(* The events of a request keep the order of its hops *)

OpensHop(m) == m.type \in {"willBeSent", "paused"}
IsEnd(m) == m.type \in {"response", "finished", "failed"}

\* Only an announcement and a failure can come of a hop that is before its gate.
PastTheGate(m) == m.type \notin {"willBeSent", "failed"}

\* An event of the present hop of r tells what the browser has done there.
EventsTellTheHop ==
  \A r \in Requests : \A i \in 1..Len(messages) :
    messages[i].request = r =>
      /\ messages[i].hop <= traffic[r].hop
      /\ messages[i].hop = traffic[r].hop /\ messages[i].type # "paused" => traffic[r].announced
      /\ messages[i].hop = traffic[r].hop /\ PastTheGate(messages[i]) =>
           traffic[r].gate # "closed"
      /\ messages[i].type = "response" =>
           messages[i].hop = traffic[r].hop /\ traffic[r].responded
      /\ messages[i].type \in {"finished", "failed"} =>
           messages[i].hop = traffic[r].hop /\ traffic[r].ended

\* A hop is opened by one announcement and at most one pause, before all that comes of it.
EventsInOrder ==
  \A i, j \in 1..Len(messages) :
    i < j /\ messages[i].request = messages[j].request =>
      /\ messages[i].hop <= messages[j].hop
      /\ OpensHop(messages[j]) /\ (~OpensHop(messages[i]) \/ messages[i].type = messages[j].type) =>
           messages[i].hop < messages[j].hop
      /\ messages[i].type \notin {"finished", "failed"}

EndsOpened ==
  \A r \in Requests :
    /\ traffic[r].responded \/ traffic[r].ended => traffic[r].hop > 0 /\ traffic[r].announced
    /\ traffic[r].responded => traffic[r].gate # "closed"

EventInv == EventsTellTheHop /\ EventsInOrder /\ EndsOpened

\* The events taken away or unchanged; gates may open.
GatesOpen ==
  \A r \in Requests :
    /\ traffic'[r].hop = traffic[r].hop /\ traffic'[r].announced = traffic[r].announced
    /\ traffic'[r].ended = traffic[r].ended /\ traffic'[r].responded = traffic[r].responded
    /\ \/ traffic'[r].gate = traffic[r].gate
       \/ /\ traffic[r].gate \in {"closed", "paused", "auth"} /\ traffic'[r].gate = "through"
          /\ ~traffic[r].ended

LEMMA TakeKeepsEvents ==
  ASSUME BaseOK, EventInv, NEW type, TakeEvent(type), UNCHANGED traffic
  PROVE  EventInv'
<1> DEFINE n == Len(messages)
<1>1. /\ n \in Nat \ {0} /\ Len(messages') = n - 1
      /\ \A i \in 1..n - 1 : i + 1 \in 1..n /\ messages'[i] = messages[i + 1]
  BY TakeFacts
<1> HIDE DEF n
<1>2. EventsTellTheHop'
  <2> SUFFICES ASSUME NEW r \in Requests, NEW i \in 1..n - 1, messages'[i].request = r
               PROVE  /\ messages'[i].hop <= traffic[r].hop
                      /\ messages'[i].hop = traffic[r].hop /\ messages'[i].type # "paused" =>
                           traffic[r].announced
                      /\ messages'[i].hop = traffic[r].hop /\ PastTheGate(messages'[i]) =>
                           traffic[r].gate # "closed"
                      /\ messages'[i].type = "response" =>
                           messages'[i].hop = traffic[r].hop /\ traffic[r].responded
                      /\ messages'[i].type \in {"finished", "failed"} =>
                           messages'[i].hop = traffic[r].hop /\ traffic[r].ended
    BY <1>1 DEF EventsTellTheHop, PastTheGate
  <2>1. i + 1 \in 1..n /\ messages'[i] = messages[i + 1]
    BY <1>1
  <2> QED BY <2>1 DEF EventInv, EventsTellTheHop, n
<1>3. EventsInOrder'
  <2> SUFFICES ASSUME NEW i \in 1..Len(messages'), NEW j \in 1..Len(messages'), i < j,
                      messages'[i].request = messages'[j].request
               PROVE  /\ messages'[i].hop <= messages'[j].hop
                      /\ /\ OpensHop(messages'[j])
                         /\ ~OpensHop(messages'[i]) \/ messages'[i].type = messages'[j].type
                         => messages'[i].hop < messages'[j].hop
                      /\ messages'[i].type \notin {"finished", "failed"}
    BY DEF EventsInOrder, OpensHop
  <2>1. i + 1 \in 1..n /\ j + 1 \in 1..n /\ i + 1 < j + 1
        /\ messages'[i] = messages[i + 1] /\ messages'[j] = messages[j + 1]
    BY <1>1
  <2> QED BY <2>1 DEF EventInv, EventsInOrder, n
<1>4. EndsOpened'
  BY DEF EventInv, EndsOpened
<1> QED BY <1>2, <1>3, <1>4 DEF EventInv

LEMMA OpenKeepsEvents ==
  ASSUME BaseOK, EventInv, UNCHANGED messages, GatesOpen
  PROVE  EventInv'
<1>1. EventsTellTheHop'
  BY DEF EventInv, EventsTellTheHop, GatesOpen
<1>2. EventsInOrder'
  BY DEF EventInv, EventsInOrder, OpensHop
<1>3. EndsOpened'
  BY DEF EventInv, EndsOpened, GatesOpen
<1> QED BY <1>1, <1>2, <1>3 DEF EventInv

LEMMA StartFacts ==
  ASSUME BaseOK, NEW r \in Requests, Starts(r), traffic' \in [Requests -> Traffic]
  PROVE  /\ traffic'[r].hop = traffic[r].hop + 1 /\ traffic[r].hop \in Nat
         /\ ~traffic'[r].announced /\ ~traffic'[r].ended /\ ~traffic'[r].responded
         /\ traffic'[r].gate = IF fetch = "off" \/ r \in DataRequests THEN "open" ELSE "closed"
         /\ traffic[r].hop > 0 =>
              /\ traffic[r].announced /\ traffic[r].gate \in {"open", "through"}
              /\ ~traffic[r].responded /\ ~traffic[r].ended
              /\ traffic'[r].steady = traffic[r].steady
<1>1. traffic[r] \in Traffic /\ traffic'[r].steady \in BOOLEAN /\ traffic[r].hop \in Nat
  BY DEF BaseOK, Traffic
<1>2. traffic'[r] = NewHop(r, traffic'[r].steady)
  BY DEF Starts
<1>3. traffic[r].hop > 0 =>
        /\ traffic[r].announced /\ traffic[r].gate \in {"open", "through"}
        /\ ~traffic[r].responded /\ ~traffic[r].ended
        /\ traffic'[r].steady = traffic[r].steady
  BY <1>1 DEF Starts, Sent, InFlight
<1> QED BY <1>1, <1>2, <1>3, NewHopFacts

LEMMA StartKeepsEvents ==
  ASSUME BaseOK, EventInv, NEW r \in Requests, Starts(r), traffic' \in [Requests -> Traffic]
  PROVE  EventInv'
<1>1. UNCHANGED messages /\ \A x \in Requests \ {r} : traffic'[x] = traffic[x]
  BY DEF Starts
<1>2. \A i \in 1..Len(messages) : messages[i].hop \in 1..MaxHops
  <2>1. \A i \in 1..Len(messages) : messages[i] \in NetMessage
    BY DEF BaseOK
  <2> QED BY <2>1 DEF NetMessage
<1>3. EventsTellTheHop'
  <2>1. \A x \in Requests : \A i \in 1..Len(messages) :
          messages[i].request = x =>
            /\ messages[i].hop <= traffic'[x].hop
            /\ messages[i].hop = traffic'[x].hop => x # r
            /\ messages[i].type \in {"response", "finished", "failed"} => x # r
    BY <1>1, <1>2, StartFacts DEF EventInv, EventsTellTheHop
  <2> QED BY <1>1, <2>1 DEF EventInv, EventsTellTheHop
<1>4. EventsInOrder'
  BY <1>1 DEF EventInv, EventsInOrder, OpensHop
<1>5. EndsOpened'
  BY <1>1, StartFacts DEF EventInv, EndsOpened
<1> QED BY <1>3, <1>4, <1>5 DEF EventInv

LEMMA EmitFacts ==
  ASSUME BaseOK, NEW r \in Requests, NEW type \in EventTypes, Emits(type, r)
  PROVE  /\ Len(messages) \in Nat /\ Len(messages') = Len(messages) + 1
         /\ messages' \in Seq(NetMessage)
         /\ \A i \in 1..Len(messages) : messages'[i] = messages[i] /\ messages'[i] \in NetMessage
         /\ messages'[Len(messages) + 1] = Message(type, r)
         /\ Message(type, r).type = type /\ Message(type, r).request = r
         /\ Message(type, r).hop = traffic[r].hop
         /\ Message(type, r).id = <<r, traffic[r].hop>>
         /\ traffic[r].hop \in 1..MaxHops
<1>1. traffic[r].hop \in 1..MaxHops /\ messages \in Seq(NetMessage)
      /\ messages' = Append(messages, Message(type, r))
  BY DEF Emits, BaseOK, Traffic
<1>2. /\ Message(type, r).type = type /\ Message(type, r).request = r
      /\ Message(type, r).hop = traffic[r].hop
      /\ Message(type, r).id = <<r, traffic[r].hop>>
      /\ Message(type, r) \in NetMessage
  BY <1>1 DEF Message, Id, NetMessage, Hops
<1> QED BY <1>1, <1>2, AppendFacts

LEMMA EmitKeepsEvents ==
  ASSUME BaseOK, EventInv, NEW r \in Requests, NEW type \in EventTypes, Emits(type, r)
  PROVE  EventInv'
<1> DEFINE n == Len(messages)
           m == Message(type, r)
<1>1. /\ n \in Nat /\ Len(messages') = n + 1 /\ messages'[n + 1] = m
      /\ \A i \in 1..n : messages'[i] = messages[i]
      /\ m.type = type /\ m.request = r /\ m.hop = traffic[r].hop /\ traffic[r].hop \in 1..MaxHops
  BY EmitFacts
<1>2. \A i \in 1..n : messages[i].hop \in 1..MaxHops
  <2>1. \A i \in 1..n : messages[i] \in NetMessage
    BY DEF BaseOK
  <2> QED BY <2>1 DEF NetMessage
<1> HIDE DEF n, m
<1>3. EventsTellTheHop'
  <2> SUFFICES ASSUME NEW x \in Requests, NEW i \in 1..n + 1, messages'[i].request = x
               PROVE  /\ messages'[i].hop <= traffic'[x].hop
                      /\ messages'[i].hop = traffic'[x].hop /\ messages'[i].type # "paused" =>
                           traffic'[x].announced
                      /\ messages'[i].hop = traffic'[x].hop /\ PastTheGate(messages'[i]) =>
                           traffic'[x].gate # "closed"
                      /\ messages'[i].type = "response" =>
                           messages'[i].hop = traffic'[x].hop /\ traffic'[x].responded
                      /\ messages'[i].type \in {"finished", "failed"} =>
                           messages'[i].hop = traffic'[x].hop /\ traffic'[x].ended
    BY <1>1 DEF EventsTellTheHop
  <2>1. CASE x # r
    <3>1. i \in 1..n /\ messages'[i] = messages[i] /\ traffic'[x] = traffic[x]
      BY <1>1, <2>1 DEF Emits
    <3> QED BY <3>1 DEF EventInv, EventsTellTheHop, PastTheGate, n
  <2>2. CASE x = r /\ i \in 1..n
    <3>1. messages'[i] = messages[i]
      BY <1>1, <2>2
    <3> QED BY <2>2, <3>1 DEF EventInv, EventsTellTheHop, PastTheGate, n, Emits, EventTypes
  <2>3. CASE x = r /\ i = n + 1
    BY <1>1, <2>3 DEF Emits, EventTypes, PastTheGate
  <2> QED BY <1>1, <2>1, <2>2, <2>3
<1>4. EventsInOrder'
  <2> SUFFICES ASSUME NEW i \in 1..n + 1, NEW j \in 1..n + 1, i < j,
                      messages'[i].request = messages'[j].request
               PROVE  /\ messages'[i].hop <= messages'[j].hop
                      /\ /\ OpensHop(messages'[j])
                         /\ ~OpensHop(messages'[i]) \/ messages'[i].type = messages'[j].type
                         => messages'[i].hop < messages'[j].hop
                      /\ messages'[i].type \notin {"finished", "failed"}
    BY <1>1 DEF EventsInOrder, OpensHop
  <2>1. i \in 1..n /\ messages'[i] = messages[i]
    BY <1>1
  <2>2. CASE j \in 1..n
    BY <1>1, <2>1, <2>2 DEF EventInv, EventsInOrder, n
  <2>3. CASE j = n + 1
    <3>1. /\ messages[i].hop <= traffic[r].hop
          /\ messages[i].hop = traffic[r].hop /\ messages[i].type # "paused" =>
               traffic[r].announced
          /\ messages[i].hop = traffic[r].hop /\ PastTheGate(messages[i]) =>
               traffic[r].gate # "closed"
          /\ messages[i].type \in {"finished", "failed"} => traffic[r].ended
      BY <1>1, <2>1, <2>3 DEF EventInv, EventsTellTheHop, n
    <3> QED BY <1>1, <1>2, <2>1, <2>3, <3>1 DEF Emits, OpensHop, EventTypes, PastTheGate
  <2> QED BY <1>1, <2>2, <2>3
<1>5. EndsOpened'
  <2> SUFFICES ASSUME NEW x \in Requests
               PROVE  /\ traffic'[x].responded \/ traffic'[x].ended =>
                           traffic'[x].hop > 0 /\ traffic'[x].announced
                      /\ traffic'[x].responded => traffic'[x].gate # "closed"
    BY DEF EndsOpened
  <2>1. CASE x # r
    BY <2>1 DEF EventInv, EndsOpened, Emits
  <2>2. CASE x = r
    BY <2>2 DEF EventInv, EndsOpened, Emits, EventTypes
  <2> QED BY <2>1, <2>2
<1> QED BY <1>3, <1>4, <1>5 DEF EventInv

-----------------------------------------------------------------------------
(* Commands queued and served *)

LEMMA QueueFacts ==
  ASSUME BaseOK, NEW new \in Seq(NetCommand), Send(new)
  PROVE  /\ commands' \in Seq(NetCommand)
         /\ \A i \in 1..Len(commands) : i \in 1..Len(commands') /\ commands'[i] = commands[i]
         /\ \A k \in 1..Len(new) :
              \E i \in 1..Len(commands') : i \notin 1..Len(commands) /\ commands'[i] = new[k]
         /\ \A i \in 1..Len(commands') :
              i \in 1..Len(commands) \/ \E k \in 1..Len(new) :
                i = Len(commands) + k /\ commands'[i] = new[k]
<1>1. commands \in Seq(NetCommand) /\ commands' = commands \o new
  BY DEF BaseOK, Send
<1>2. /\ commands' \in Seq(NetCommand)
      /\ Len(commands') = Len(commands) + Len(new)
      /\ Len(commands) \in Nat /\ Len(new) \in Nat
      /\ \A i \in 1..Len(commands) : commands'[i] = commands[i]
      /\ \A i \in 1..Len(new) : commands'[Len(commands) + i] = new[i]
  BY <1>1, ConcatFacts
<1>3. ASSUME NEW i \in 1..Len(commands'), i \notin 1..Len(commands)
      PROVE  \E k \in 1..Len(new) : i = Len(commands) + k /\ commands'[i] = new[k]
  <2>1. i - Len(commands) \in 1..Len(new) /\ i = Len(commands) + (i - Len(commands))
    BY <1>2, <1>3
  <2> QED BY <1>2, <2>1
<1>4. ASSUME NEW k \in 1..Len(new)
      PROVE  \E i \in 1..Len(commands') : i \notin 1..Len(commands) /\ commands'[i] = new[k]
  <2>1. /\ Len(commands) + k \in 1..Len(commands')
        /\ Len(commands) + k \notin 1..Len(commands)
    BY <1>2
  <2> QED BY <1>2, <2>1
<1>5. \A i \in 1..Len(commands) : i \in 1..Len(commands')
  BY <1>2
<1> QED BY <1>2, <1>3, <1>4, <1>5

\* One command or none.
LEMMA QueueOne ==
  ASSUME BaseOK, NEW cmd \in NetCommand, Send(<<cmd>>)
  PROVE  /\ commands' \in Seq(NetCommand)
         /\ \A i \in 1..Len(commands) : i \in 1..Len(commands') /\ commands'[i] = commands[i]
         /\ \A i \in 1..Len(commands') :
              \/ i \in 1..Len(commands)
              \/ i = Len(commands) + 1 /\ commands'[i] = cmd
         /\ Len(commands) + 1 \in 1..Len(commands') /\ commands'[Len(commands) + 1] = cmd
<1>1. commands \in Seq(NetCommand) /\ commands' = commands \o <<cmd>>
  BY DEF BaseOK, Send
<1>2. commands' = Append(commands, cmd)
  BY <1>1
<1>3. /\ commands' \in Seq(NetCommand) /\ Len(commands') = Len(commands) + 1
      /\ Len(commands) \in Nat /\ commands'[Len(commands) + 1] = cmd
      /\ \A i \in 1..Len(commands) : commands'[i] = commands[i]
  BY <1>1, <1>2, AppendFacts
<1> QED BY <1>3

LEMMA QueueNone ==
  ASSUME BaseOK, Send(<<>>)
  PROVE  commands' = commands
  BY DEF BaseOK, Send

LEMMA CommandTypes ==
  /\ \A v \in BOOLEAN : Command("cache", NoInterception, v) \in NetCommand
  /\ Command("enable", NoInterception, TRUE) \in NetCommand
  /\ \A id \in Hops : Command("continue", id, TRUE) \in NetCommand
  /\ \A id \in Hops, v \in {"provide", "default", "cancel"} :
       Command("auth", id, v) \in NetCommand
  BY DEF Command, NetCommand, Interception, Hops

\* What update_protocol_request_interception stores and queues.
LEMMA UpdateFacts ==
  ASSUME NEW s \in Switches, s.protocol_interception => Wanted(s)
  PROVE  /\ Updated(s) \in Switches
         /\ Updated(s).protocol_interception <=> Wanted(s)
         /\ Updated(s).user_interception = s.user_interception
         /\ Updated(s).credentials = s.credentials
         /\ Updated(s).user_cache_disabled = s.user_cache_disabled
         /\ UpdateCommands(s) \in Seq(NetCommand)
         /\ \A i \in 1..Len(UpdateCommands(s)) :
              /\ UpdateCommands(s)[i].name \in {"cache", "enable"}
              /\ UpdateCommands(s)[i].name = "enable" => Wanted(s)
              /\ UpdateCommands(s)[i].name = "cache" =>
                   UpdateCommands(s)[i].value = s.user_cache_disabled
<1>1. Wanted(s) \in BOOLEAN
  BY DEF Wanted, Switches
<1>2. /\ Updated(s) \in Switches
      /\ Updated(s).protocol_interception <=> Wanted(s)
      /\ Updated(s).user_interception = s.user_interception
      /\ Updated(s).credentials = s.credentials
      /\ Updated(s).user_cache_disabled = s.user_cache_disabled
  <2> HIDE DEF Wanted
  <2> QED BY <1>1 DEF Updated, Switches
<1> DEFINE v == s.user_cache_disabled \/ s.protocol_interception
           a == Command("cache", NoInterception, v)
           b == Command("enable", NoInterception, TRUE)
<1>3. a \in NetCommand /\ b \in NetCommand /\ a.name = "cache" /\ b.name = "enable"
      /\ a.value = v /\ (~s.protocol_interception => v = s.user_cache_disabled)
  <2>1. v \in BOOLEAN
    BY DEF Switches
  <2> HIDE DEF v
  <2>2. a \in NetCommand /\ b \in NetCommand /\ a.name = "cache" /\ b.name = "enable"
        /\ a.value = v
    BY <2>1, CommandTypes DEF Command
  <2> QED BY <2>2 DEF v, Switches
<1>4. UpdateCommands(s) = IF Wanted(s) = s.protocol_interception THEN <<>> ELSE <<a, b>>
  <2>1. Wanted(s) # s.protocol_interception => Wanted(s)
    BY <1>1 DEF Switches
  <2> HIDE DEF Wanted
  <2> QED BY <2>1 DEF UpdateCommands, CacheCommand
<1>5. CASE Wanted(s) = s.protocol_interception
  <2>1. UpdateCommands(s) = <<>> /\ Len(UpdateCommands(s)) = 0
    BY <1>4, <1>5
  <2> QED BY <1>2, <2>1
<1>6. CASE Wanted(s) # s.protocol_interception
  <2>1. Wanted(s) /\ ~s.protocol_interception
    <3> HIDE DEF Wanted
    <3> QED BY <1>1, <1>6 DEF Switches
  <2> HIDE DEF a, b, v, Wanted
  <2>2. UpdateCommands(s) = <<a, b>>
    BY <1>4, <1>6
  <2>3. \A i \in 1..Len(UpdateCommands(s)) : UpdateCommands(s)[i] \in {a, b}
    BY <2>2
  <2>4. UpdateCommands(s) \in Seq(NetCommand)
    BY <1>3, <2>2
  <2> QED BY <1>2, <1>3, <2>1, <2>3, <2>4
<1> QED BY <1>5, <1>6

-----------------------------------------------------------------------------
(* Who has switched interception on *)

UsersMode == mode \in {"intercept", "proxyAuth"}
Intercepted(r) == settings.protocol_interception /\ r \notin DataRequests

\* Before Target::new nothing has happened.
UntouchedBefore ==
  mode = "new" => /\ settings = Fresh /\ commands = <<>> /\ messages = <<>> /\ fetch = "off"
                  /\ traffic = [r \in Requests |-> Idle]

\* The manager's switches say who asked for interception; it never turns it off again.
SettingsOK ==
  /\ settings.protocol_interception <=> Wanted(settings)
  /\ settings.user_interception <=> mode = "config"
  /\ settings.credentials => mode = "authenticate"
  /\ \A i \in 1..Len(commands) : commands[i].name # "disable"

\* Unless the user drives the Fetch domain himself, the browser intercepts only what the
\* manager wants intercepted, and both agree about a steady request.
BothAgree ==
  ~UsersMode =>
    /\ fetch # "off" => settings.protocol_interception
    /\ \A i \in 1..Len(commands) :
         commands[i].name = "enable" => settings.protocol_interception
    /\ \A r \in Requests :
         /\ traffic[r].gate # "open" => settings.protocol_interception
         /\ traffic[r].steady /\ traffic[r].hop > 0 =>
              /\ settings.protocol_interception <=> fetch # "off"
              /\ Intercepted(r) <=> traffic[r].gate # "open"
    /\ \A i \in 1..Len(messages) :
         messages[i].type = "paused" => settings.protocol_interception

SwitchInv == UntouchedBefore /\ SettingsOK /\ BothAgree

LEMMA CreateFacts ==
  ASSUME BaseOK, SwitchInv, NEW m \in Modes, NEW cache \in BOOLEAN, Create(m, cache)
  PROVE  /\ mode = "new" /\ mode' = m
         /\ settings' \in Switches
         /\ settings'.protocol_interception <=> m = "config"
         /\ settings'.user_interception <=> m = "config"
         /\ ~settings'.credentials /\ (settings'.user_cache_disabled <=> ~cache)
         /\ commands' \in Seq(NetCommand)
         /\ \A i \in 1..Len(commands') :
              /\ commands'[i].name \in {"cache", "enable"}
              /\ commands'[i].name = "enable" => m = "config"
              /\ commands'[i].name = "cache" => commands'[i].value = ~cache
         /\ \E i \in 1..Len(commands') : commands'[i].name = "cache"
<1> DEFINE s == [Fresh EXCEPT !.user_cache_disabled = ~cache]
           t == [s EXCEPT !.user_interception = (m = "config")]
           a == CacheCommand(s)
           u == UpdateCommands(t)
<1>1. mode = "new" /\ mode' = m /\ commands = <<>>
  BY DEF Create, SwitchInv, UntouchedBefore
<1>2. settings' = Updated(t) /\ commands' = commands \o (<<a>> \o u)
  BY DEF Create, Send
<1>3. /\ s \in Switches /\ ~s.protocol_interception /\ ~s.user_interception /\ ~s.credentials
      /\ s.user_cache_disabled <=> ~cache
  BY DEF Fresh, Switches
<1>4. /\ t \in Switches /\ ~t.protocol_interception /\ (t.user_interception <=> m = "config")
      /\ ~t.credentials /\ (t.user_cache_disabled <=> ~cache)
  <2> HIDE DEF s
  <2> QED BY <1>3 DEF Switches
<1>5. Wanted(t) <=> m = "config"
  <2> HIDE DEF t
  <2> QED BY <1>4 DEF Wanted
<1>6. a \in NetCommand /\ a.name = "cache" /\ a.value = ~cache
  <2> DEFINE v == s.user_cache_disabled \/ s.protocol_interception
  <2>1. v \in BOOLEAN /\ v = ~cache
    <3> HIDE DEF s
    <3> QED BY <1>3 DEF Switches
  <2> HIDE DEF v
  <2>2. a = Command("cache", NoInterception, v)
    BY DEF CacheCommand, v
  <2> HIDE DEF a
  <2> QED BY <2>1, <2>2, CommandTypes DEF Command
<1> HIDE DEF s, t, a
<1>7. /\ Updated(t) \in Switches
      /\ Updated(t).protocol_interception <=> Wanted(t)
      /\ Updated(t).user_interception = t.user_interception
      /\ Updated(t).credentials = t.credentials
      /\ Updated(t).user_cache_disabled = t.user_cache_disabled
      /\ u \in Seq(NetCommand)
      /\ \A i \in 1..Len(u) :
           /\ u[i].name \in {"cache", "enable"}
           /\ u[i].name = "enable" => Wanted(t)
           /\ u[i].name = "cache" => u[i].value = t.user_cache_disabled
  BY <1>4, UpdateFacts
<1> HIDE DEF u
<1>8. /\ commands' \in Seq(NetCommand) /\ Len(commands') = Len(u) + 1 /\ Len(u) \in Nat
      /\ commands'[1] = a /\ \A i \in 1..Len(u) : commands'[i + 1] = u[i]
  <2>1. commands' = <<a>> \o u
    BY <1>1, <1>2, <1>6, <1>7
  <2> QED BY <1>6, <1>7, <2>1, ConcatOne
<1>9. \A i \in 1..Len(commands') :
        /\ commands'[i].name \in {"cache", "enable"}
        /\ commands'[i].name = "enable" => m = "config"
        /\ commands'[i].name = "cache" => commands'[i].value = ~cache
  <2> SUFFICES ASSUME NEW i \in 1..Len(commands')
               PROVE  /\ commands'[i].name \in {"cache", "enable"}
                      /\ commands'[i].name = "enable" => m = "config"
                      /\ commands'[i].name = "cache" => commands'[i].value = ~cache
    OBVIOUS
  <2>1. CASE i = 1
    BY <1>6, <1>8, <2>1
  <2>2. CASE i # 1
    <3>1. i - 1 \in 1..Len(u) /\ i - 1 + 1 = i
      BY <1>8, <2>2
    <3>2. commands'[i] = u[i - 1]
      BY <1>8, <3>1
    <3>3. t.user_cache_disabled = ~cache
      BY <1>4 DEF Switches
    <3> QED BY <1>5, <1>7, <3>1, <3>2, <3>3
  <2> QED BY <2>1, <2>2
<1>10. 1 \in 1..Len(commands') /\ commands'[1].name = "cache"
  BY <1>6, <1>8
<1> QED BY <1>1, <1>2, <1>4, <1>5, <1>7, <1>8, <1>9, <1>10

LEMMA AuthenticateFacts ==
  ASSUME BaseOK, SwitchInv, Authenticate
  PROVE  /\ mode = "authenticate"
         /\ settings' \in Switches /\ settings'.protocol_interception /\ settings'.credentials
         /\ settings'.user_interception = settings.user_interception
         /\ settings'.user_cache_disabled = settings.user_cache_disabled
         /\ commands' \in Seq(NetCommand)
         /\ \A i \in 1..Len(commands) : i \in 1..Len(commands') /\ commands'[i] = commands[i]
         /\ \A i \in 1..Len(commands') :
              \/ i \in 1..Len(commands)
              \/ /\ commands'[i].name \in {"cache", "enable"}
                 /\ commands'[i].name = "cache" =>
                      commands'[i].value = settings.user_cache_disabled
         /\ traffic' \in [Requests -> Traffic]
         /\ \A r \in Requests :
              /\ traffic'[r].hop = traffic[r].hop /\ traffic'[r].announced = traffic[r].announced
              /\ traffic'[r].ended = traffic[r].ended
              /\ traffic'[r].responded = traffic[r].responded
              /\ traffic'[r].gate = traffic[r].gate
              /\ traffic'[r].steady => traffic'[r].hop = 0
<1> DEFINE s == [settings EXCEPT !.credentials = TRUE]
           u == UpdateCommands(s)
<1>1. /\ mode = "authenticate" /\ settings' = Updated(s) /\ Send(u)
      /\ settings \in Switches /\ traffic \in [Requests -> Traffic]
      /\ traffic' = [r \in Requests |->
                       [traffic[r] EXCEPT !.steady = (@ /\ traffic[r].hop = 0)]]
  BY DEF Authenticate, BaseOK
<1>2. /\ s \in Switches /\ s.credentials /\ s.user_interception = settings.user_interception
      /\ s.user_cache_disabled = settings.user_cache_disabled
  BY <1>1 DEF Switches
<1>3. Wanted(s)
  BY <1>2 DEF Wanted
<1> HIDE DEF s
<1>4. /\ Updated(s) \in Switches
      /\ Updated(s).protocol_interception <=> Wanted(s)
      /\ Updated(s).user_interception = s.user_interception
      /\ Updated(s).credentials = s.credentials
      /\ Updated(s).user_cache_disabled = s.user_cache_disabled
      /\ u \in Seq(NetCommand)
      /\ \A i \in 1..Len(u) :
           /\ u[i].name \in {"cache", "enable"}
           /\ u[i].name = "cache" => u[i].value = s.user_cache_disabled
  BY <1>2, <1>3, UpdateFacts
<1> HIDE DEF u
<1>5. /\ commands' \in Seq(NetCommand)
      /\ \A i \in 1..Len(commands) : i \in 1..Len(commands') /\ commands'[i] = commands[i]
      /\ \A i \in 1..Len(commands') :
           i \in 1..Len(commands) \/ \E k \in 1..Len(u) : commands'[i] = u[k]
  BY <1>1, <1>4, QueueFacts
<1>6. \A i \in 1..Len(commands') :
        \/ i \in 1..Len(commands)
        \/ /\ commands'[i].name \in {"cache", "enable"}
           /\ commands'[i].name = "cache" =>
                commands'[i].value = settings.user_cache_disabled
  BY <1>2, <1>4, <1>5
<1>7. ASSUME NEW r \in Requests
      PROVE  /\ traffic'[r] \in Traffic
             /\ traffic'[r].hop = traffic[r].hop /\ traffic'[r].announced = traffic[r].announced
             /\ traffic'[r].ended = traffic[r].ended
             /\ traffic'[r].responded = traffic[r].responded
             /\ traffic'[r].gate = traffic[r].gate
             /\ traffic'[r].steady => traffic'[r].hop = 0
  <2> DEFINE b == traffic[r].steady /\ traffic[r].hop = 0
  <2>1. traffic[r] \in Traffic /\ b \in BOOLEAN /\ (b => traffic[r].hop = 0)
    BY <1>1 DEF Traffic
  <2>2. traffic'[r] = [traffic[r] EXCEPT !.steady = b]
    BY <1>1
  <2> HIDE DEF b
  <2> QED BY <2>1, <2>2 DEF Traffic
<1>8. traffic' \in [Requests -> Traffic]
  <2>1. traffic' = [r \in Requests |-> traffic'[r]]
    BY <1>1
  <2> QED BY <1>7, <2>1
<1> QED BY <1>1, <1>2, <1>3, <1>4, <1>5, <1>6, <1>7, <1>8

-----------------------------------------------------------------------------
(* Events on their way and commands on theirs, as sets *)

Events == {messages[i] : i \in 1..Len(messages)}
Queued == {commands[i] : i \in 1..Len(commands)}

LEMMA EventFacts ==
  ASSUME BaseOK, EventInv, NEW m \in Events
  PROVE  /\ m \in NetMessage /\ m.request \in Requests /\ m.hop \in 1..MaxHops
         /\ m.type \in EventTypes /\ m.id = <<m.request, m.hop>>
         /\ m.hop <= traffic[m.request].hop
         /\ m.hop = traffic[m.request].hop /\ m.type # "paused" => traffic[m.request].announced
         /\ m.hop = traffic[m.request].hop /\ PastTheGate(m) =>
              traffic[m.request].gate # "closed"
         /\ m.type = "response" =>
              m.hop = traffic[m.request].hop /\ traffic[m.request].responded
         /\ m.type \in {"finished", "failed"} =>
              m.hop = traffic[m.request].hop /\ traffic[m.request].ended
<1>1. PICK i \in 1..Len(messages) : m = messages[i]
  BY DEF Events
<1>2. m \in NetMessage /\ m.id = <<m.request, m.hop>>
  BY <1>1 DEF BaseOK
<1>3. m.request \in Requests /\ m.hop \in 1..MaxHops /\ m.type \in EventTypes
  BY <1>2 DEF NetMessage
<1> QED BY <1>1, <1>2, <1>3 DEF EventInv, EventsTellTheHop

\* What is behind the event that is taken.
LEMMA TakenFirst ==
  ASSUME BaseOK, EventInv, NEW type, TakeEvent(type)
  PROVE  /\ Event \in Events /\ Event.type = type
         /\ \A m \in Events' : m \in Events
         /\ \A m \in Events : m = Event \/ m \in Events'
         /\ \A m \in Events' : m.request = Event.request =>
              /\ Event.hop <= m.hop
              /\ /\ OpensHop(m)
                 /\ ~OpensHop(Event) \/ Event.type = m.type
                 => Event.hop < m.hop
              /\ Event.type \notin {"finished", "failed"}
<1> DEFINE n == Len(messages)
<1>1. /\ n \in Nat \ {0} /\ Len(messages') = n - 1
      /\ Event = messages[1] /\ 1 \in 1..n /\ Event.type = type
      /\ \A i \in 1..n - 1 : i + 1 \in 1..n /\ messages'[i] = messages[i + 1]
  BY TakeFacts
<1>2. \A i \in 1..n : i # 1 => i - 1 \in 1..n - 1 /\ messages'[i - 1] = messages[i]
  BY <1>1
<1>3. \A i \in 2..n : messages[1].request = messages[i].request =>
        /\ messages[1].hop <= messages[i].hop
        /\ /\ OpensHop(messages[i])
           /\ ~OpensHop(messages[1]) \/ messages[1].type = messages[i].type
           => messages[1].hop < messages[i].hop
        /\ messages[1].type \notin {"finished", "failed"}
  BY <1>1 DEF EventInv, EventsInOrder
<1> HIDE DEF n
<1>4. Event \in Events
  BY <1>1 DEF Events, n
<1>5. \A m \in Events : m = Event \/ m \in Events'
  <2> SUFFICES ASSUME NEW i \in 1..n, i # 1
               PROVE  messages[i] \in Events'
    BY <1>1 DEF Events, n
  <2>1. i - 1 \in 1..Len(messages') /\ messages'[i - 1] = messages[i]
    BY <1>1, <1>2
  <2> QED BY <2>1 DEF Events
<1>6. \A m \in Events' : \E i \in 2..n : m = messages[i]
  <2> SUFFICES ASSUME NEW i \in 1..Len(messages')
               PROVE  \E k \in 2..n : messages'[i] = messages[k]
    BY DEF Events
  <2>1. i + 1 \in 2..n /\ messages'[i] = messages[i + 1]
    BY <1>1
  <2> QED BY <2>1
<1>7. \A m \in Events' : m \in Events
  BY <1>1, <1>6 DEF Events, n
<1> QED BY <1>1, <1>3, <1>4, <1>5, <1>6, <1>7

LEMMA EmitSets ==
  ASSUME BaseOK, NEW r \in Requests, NEW type \in EventTypes, Emits(type, r)
  PROVE  \A m : m \in Events' <=> m \in Events \/ m = Message(type, r)
<1>1. /\ Len(messages) \in Nat /\ Len(messages') = Len(messages) + 1
      /\ \A i \in 1..Len(messages) : messages'[i] = messages[i]
      /\ messages'[Len(messages) + 1] = Message(type, r)
  BY EmitFacts
<1>2. \A i \in 1..Len(messages') : i \in 1..Len(messages) \/ i = Len(messages) + 1
  BY <1>1
<1>3. \A i \in 1..Len(messages) : i \in 1..Len(messages')
  BY <1>1
<1>4. Len(messages) + 1 \in 1..Len(messages')
  BY <1>1
<1> QED BY <1>1, <1>2, <1>3, <1>4 DEF Events

-----------------------------------------------------------------------------
(* Gates that are opened *)

SteadySame == \A r \in Requests : traffic'[r].steady = traffic[r].steady

LEMMA AnsweredFacts ==
  ASSUME traffic \in [Requests -> Traffic], NEW id, NEW from \in {"paused", "auth"},
         NEW n \in Nat, traffic' = Answered(id, from, n)
  PROVE  /\ traffic' \in [Requests -> Traffic] /\ GatesOpen /\ SteadySame
         /\ \A r \in Requests :
              /\ traffic[r].gate = "closed" => traffic'[r].gate = "closed"
              /\ InFlight(r) /\ id = Id(r) => traffic'[r].gate # from
<1>1. ASSUME NEW r \in Requests
      PROVE  /\ traffic'[r] \in Traffic
             /\ traffic'[r].hop = traffic[r].hop /\ traffic'[r].announced = traffic[r].announced
             /\ traffic'[r].ended = traffic[r].ended
             /\ traffic'[r].responded = traffic[r].responded
             /\ traffic'[r].steady = traffic[r].steady
             /\ \/ traffic'[r].gate = traffic[r].gate
                \/ /\ traffic[r].gate \in {"paused", "auth"} /\ traffic'[r].gate = "through"
                   /\ ~traffic[r].ended
             /\ InFlight(r) /\ id = Id(r) => traffic'[r].gate # from
  <2>1. traffic[r] \in Traffic
    OBVIOUS
  <2>2. CASE InFlight(r) /\ id = Id(r) /\ traffic[r].gate = from
    <3>1. traffic'[r] = [traffic[r] EXCEPT !.gate = "through", !.tries = n]
      BY <2>2 DEF Answered
    <3> QED BY <2>1, <2>2, <3>1 DEF Traffic, Gates, InFlight
  <2>3. CASE ~(InFlight(r) /\ id = Id(r) /\ traffic[r].gate = from)
    <3>1. traffic'[r] = traffic[r]
      BY <2>3 DEF Answered
    <3> QED BY <2>1, <2>3, <3>1
  <2> QED BY <2>2, <2>3
<1>2. traffic' = [r \in Requests |-> traffic'[r]]
  BY DEF Answered
<1>3. traffic' \in [Requests -> Traffic]
  BY <1>1, <1>2
<1> QED BY <1>1, <1>3 DEF GatesOpen, SteadySame

LEMMA ReleasedFacts ==
  ASSUME traffic \in [Requests -> Traffic], traffic' = Released
  PROVE  traffic' \in [Requests -> Traffic] /\ GatesOpen /\ SteadySame
<1>1. ASSUME NEW r \in Requests
      PROVE  /\ traffic'[r] \in Traffic
             /\ traffic'[r].hop = traffic[r].hop /\ traffic'[r].announced = traffic[r].announced
             /\ traffic'[r].ended = traffic[r].ended
             /\ traffic'[r].responded = traffic[r].responded
             /\ traffic'[r].steady = traffic[r].steady
             /\ \/ traffic'[r].gate = traffic[r].gate
                \/ /\ traffic[r].gate \in {"closed", "paused", "auth"}
                   /\ traffic'[r].gate = "through" /\ ~traffic[r].ended
  <2>1. traffic[r] \in Traffic
    OBVIOUS
  <2>2. CASE InFlight(r) /\ traffic[r].gate \in {"closed", "paused", "auth"}
    <3>1. traffic'[r] = [traffic[r] EXCEPT !.gate = "through"]
      BY <2>2 DEF Released
    <3> QED BY <2>1, <2>2, <3>1 DEF Traffic, Gates, InFlight
  <2>3. CASE ~(InFlight(r) /\ traffic[r].gate \in {"closed", "paused", "auth"})
    <3>1. traffic'[r] = traffic[r]
      BY <2>3 DEF Released
    <3> QED BY <2>1, <3>1
  <2> QED BY <2>2, <2>3
<1>2. traffic' = [r \in Requests |-> traffic'[r]]
  BY DEF Released
<1>3. traffic' \in [Requests -> Traffic]
  BY <1>1, <1>2
<1> QED BY <1>1, <1>3 DEF GatesOpen, SteadySame

\* The browser serves the first command.
LEMMA ServeFacts ==
  ASSUME BaseOK, BrowserServes
  PROVE  /\ commands \in Seq(NetCommand) /\ commands # <<>> /\ Head(commands) \in NetCommand
         /\ commands' = Tail(commands) /\ commands' \in Seq(NetCommand)
         /\ Len(commands) \in Nat \ {0} /\ Len(commands') = Len(commands) - 1
         /\ Head(commands) = commands[1] /\ 1 \in 1..Len(commands)
         /\ \A i \in 1..Len(commands') :
              i + 1 \in 1..Len(commands) /\ commands'[i] = commands[i + 1]
         /\ \A c \in Queued : c = Head(commands) \/ c \in Queued'
         /\ \A c \in Queued' : c \in Queued
         /\ cache_disabled' = IF Head(commands).name = "cache" THEN Head(commands).value
                              ELSE cache_disabled
         /\ cache_disabled' \in BOOLEAN
         /\ fetch' = IF Head(commands).name = "enable" THEN "onWithAuth"
                     ELSE IF Head(commands).name = "disable" THEN "off" ELSE fetch
         /\ provided' = IF Head(commands).name = "auth" /\ Head(commands).value = "provide"
                        THEN Append(provided, Head(commands).id) ELSE provided
         /\ provided' \in Seq(Interception)
         /\ traffic' \in [Requests -> Traffic] /\ GatesOpen /\ SteadySame
         /\ Head(commands).name # "disable" =>
              \A r \in Requests : traffic[r].gate = "closed" => traffic'[r].gate = "closed"
         /\ \A r \in Requests : InFlight(r) /\ Head(commands).id = Id(r) =>
              /\ Head(commands).name = "continue" => traffic'[r].gate # "paused"
              /\ Head(commands).name = "auth" => traffic'[r].gate # "auth"
         /\ UNCHANGED <<managerState, messages, mode, reported>>
<1> DEFINE c == Head(commands)
<1>1. /\ commands # <<>> /\ commands' = Tail(commands)
      /\ cache_disabled' = IF c.name = "cache" THEN c.value ELSE cache_disabled
      /\ fetch' = CASE c.name = "enable" -> "onWithAuth" [] c.name = "disable" -> "off"
                    [] OTHER -> fetch
      /\ traffic' = CASE c.name = "continue" -> Answered(c.id, "paused", 0)
                      [] c.name = "auth" ->
                           Answered(c.id, "auth", IF c.value = "provide" THEN 1 ELSE MaxTries)
                      [] c.name = "disable" -> Released
                      [] OTHER -> traffic
      /\ provided' = IF c.name = "auth" /\ c.value = "provide"
                     THEN Append(provided, c.id) ELSE provided
      /\ UNCHANGED <<managerState, messages, mode, reported>>
  BY DEF BrowserServes
<1>2. /\ commands \in Seq(NetCommand) /\ traffic \in [Requests -> Traffic]
      /\ provided \in Seq(Interception) /\ cache_disabled \in BOOLEAN
  BY DEF BaseOK
<1>3. /\ Len(commands) \in Nat \ {0} /\ c \in NetCommand /\ c = commands[1]
      /\ commands' \in Seq(NetCommand) /\ Len(commands') = Len(commands) - 1
      /\ \A i \in 1..Len(commands') : commands'[i] = commands[i + 1]
  BY <1>1, <1>2, HeadTail
<1>4. 1 \in 1..Len(commands) /\ \A i \in 1..Len(commands') : i + 1 \in 1..Len(commands)
  BY <1>3
<1>5. c.id \in Interception /\ (c.name = "cache" => c.value \in BOOLEAN)
  BY <1>3 DEF NetCommand
<1>6. cache_disabled' \in BOOLEAN
  BY <1>1, <1>2, <1>5
<1>7. provided' \in Seq(Interception)
  BY <1>1, <1>2, <1>5, AppendFacts
<1>8. \A x \in Queued : x = c \/ x \in Queued'
  <2> SUFFICES ASSUME NEW i \in 1..Len(commands), i # 1
               PROVE  commands[i] \in Queued'
    BY <1>3 DEF Queued
  <2>1. i - 1 \in 1..Len(commands') /\ i - 1 + 1 = i
    BY <1>3
  <2>2. commands'[i - 1] = commands[i]
    BY <1>3, <2>1
  <2> QED BY <2>1, <2>2 DEF Queued
<1>9. \A x \in Queued' : x \in Queued
  BY <1>3, <1>4 DEF Queued
<1> DEFINE n == IF c.value = "provide" THEN 1 ELSE MaxTries
<1>10. n \in Nat
  OBVIOUS
<1> HIDE DEF c, n
<1>11. /\ traffic' \in [Requests -> Traffic] /\ GatesOpen /\ SteadySame
       /\ c.name # "disable" =>
            \A r \in Requests : traffic[r].gate = "closed" => traffic'[r].gate = "closed"
       /\ \A r \in Requests : InFlight(r) /\ c.id = Id(r) =>
            /\ c.name = "continue" => traffic'[r].gate # "paused"
            /\ c.name = "auth" => traffic'[r].gate # "auth"
  <2>1. CASE c.name = "continue"
    <3>1. traffic' = Answered(c.id, "paused", 0)
      BY <1>1, <2>1
    <3> QED BY <1>2, <2>1, <3>1, AnsweredFacts
  <2>2. CASE c.name = "auth"
    <3>1. traffic' = Answered(c.id, "auth", n)
      BY <1>1, <2>2 DEF n
    <3> QED BY <1>2, <1>10, <2>2, <3>1, AnsweredFacts
  <2>3. CASE c.name = "disable"
    <3>1. traffic' = Released
      BY <1>1, <2>3
    <3> QED BY <1>2, <2>3, <3>1, ReleasedFacts
  <2>4. CASE c.name \notin {"continue", "auth", "disable"}
    <3>1. traffic' = traffic
      BY <1>1, <2>4
    <3> QED BY <1>2, <2>4, <3>1 DEF GatesOpen, SteadySame
  <2> QED BY <2>1, <2>2, <2>3, <2>4
<1>12. fetch' = IF c.name = "enable" THEN "onWithAuth"
                ELSE IF c.name = "disable" THEN "off" ELSE fetch
  BY <1>1
<1> QED BY <1>1, <1>2, <1>3, <1>4, <1>6, <1>7, <1>8, <1>9, <1>11, <1>12 DEF c

LEMMA UserFacts ==
  ASSUME BaseOK, UserStep
  PROVE  /\ UNCHANGED <<managerState, commands, messages, mode, cache_disabled, reported>>
         /\ mode \in {"config", "intercept", "proxyAuth"}
         /\ traffic' \in [Requests -> Traffic] /\ GatesOpen /\ SteadySame
         /\ fetch' \in {"off", "on", "onWithAuth"} /\ provided' \in Seq(Interception)
         /\ mode = "config" => fetch' = fetch
         /\ mode # "proxyAuth" => provided' = provided
         /\ mode = "config" =>
              \A r \in Requests : traffic[r].gate = "closed" => traffic'[r].gate = "closed"
<1>1. UNCHANGED <<managerState, commands, messages, mode, cache_disabled, reported>>
  BY DEF UserStep
<1>2. /\ traffic \in [Requests -> Traffic] /\ provided \in Seq(Interception)
      /\ fetch \in {"off", "on", "onWithAuth"}
  BY DEF BaseOK
<1>3. UNCHANGED traffic => traffic' \in [Requests -> Traffic] /\ GatesOpen /\ SteadySame
  BY <1>2 DEF GatesOpen, SteadySame
<1>4. CASE UserSwitches
  <2>1. /\ mode = "intercept" /\ provided' = provided /\ fetch' \in {"on", "off"}
        /\ UNCHANGED traffic \/ traffic' = Released
    BY <1>4 DEF UserSwitches
  <2>2. traffic' \in [Requests -> Traffic] /\ GatesOpen /\ SteadySame
    BY <1>2, <1>3, <2>1, ReleasedFacts
  <2> QED BY <1>1, <1>2, <2>1, <2>2
<1>5. CASE UserEnablesProxyAuth
  <2>1. mode = "proxyAuth" /\ UNCHANGED <<traffic, provided>> /\ fetch' = "onWithAuth"
    BY <1>5 DEF UserEnablesProxyAuth
  <2> QED BY <1>1, <1>2, <1>3, <2>1
<1>6. ASSUME NEW r \in Requests, UserContinues(r)
      PROVE  /\ mode \in {"config", "intercept"} /\ UNCHANGED <<fetch, provided>>
             /\ traffic' \in [Requests -> Traffic] /\ GatesOpen /\ SteadySame
             /\ \A x \in Requests : traffic[x].gate = "closed" => traffic'[x].gate = "closed"
  <2>1. /\ mode \in {"config", "intercept"} /\ UNCHANGED <<fetch, provided>>
        /\ traffic' = Answered(Id(r), "paused", 0)
    BY <1>6 DEF UserContinues
  <2> QED BY <1>2, <2>1, AnsweredFacts
<1>7. ASSUME NEW r \in Requests, ProxyAuthTask(r)
      PROVE  /\ mode = "proxyAuth" /\ fetch' = fetch /\ provided' \in Seq(Interception)
             /\ traffic' \in [Requests -> Traffic] /\ GatesOpen /\ SteadySame
  <2>1. /\ mode = "proxyAuth" /\ fetch' = fetch /\ provided' = Append(provided, Id(r))
        /\ traffic' = Answered(Id(r), "auth", 1) /\ InFlight(r)
    BY <1>7 DEF ProxyAuthTask, Heard
  <2>2. Id(r) \in Interception
    BY <1>2, <2>1 DEF Id, InFlight, Interception, Traffic
  <2> QED BY <1>2, <2>1, <2>2, AnsweredFacts, AppendFacts
<1> QED
  <2>1. \/ UserSwitches \/ UserEnablesProxyAuth
        \/ \E r \in Requests : UserContinues(r) \/ ProxyAuthTask(r)
    BY DEF UserStep
  <2>2. CASE \E r \in Requests : UserContinues(r)
    BY <1>1, <1>2, <1>6, <2>2
  <2>3. CASE \E r \in Requests : ProxyAuthTask(r)
    BY <1>1, <1>2, <1>7, <2>3
  <2> QED BY <1>4, <1>5, <2>1, <2>2, <2>3

-----------------------------------------------------------------------------
(* The maps of the manager *)

\* An interception of r's own, or none.
OwnOrNone(r) == {NoInterception} \cup {r} \X (1..MaxHops)

LEMMA TrackFacts ==
  ASSUME BaseOK, NEW ev \in NetMessage, NEW id \in Interception, Track(ev, id)
  PROVE  /\ DOMAIN requests' = DOMAIN requests \cup {ev.request}
         /\ \A x \in DOMAIN requests \ {ev.request} : requests'[x] = requests[x]
         /\ requests'[ev.request] \in Tracked
         /\ requests'[ev.request].hop = ev.hop /\ requests'[ev.request].interception = id
         /\ \/ requests'[ev.request].chain = 0
            \/ /\ ev.request \in DOMAIN requests
               /\ requests'[ev.request].chain = requests[ev.request].chain + 1
         /\ attempted' \subseteq attempted
         /\ \A x \in attempted \ attempted' :
              ev.request \in DOMAIN requests /\ x = requests[ev.request].interception
<1> DEFINE r == ev.request
           before == ev.hop > 1 /\ r \in DOMAIN requests
           n == IF before THEN requests[r].chain + 1 ELSE 0
           new == [hop |-> ev.hop, interception |-> id, chain |-> n]
<1>1. /\ requests' = Add(requests, r, new)
      /\ attempted' = IF before THEN attempted \ {requests[r].interception} ELSE attempted
  BY DEF Track
<1>2. /\ ev.hop \in 1..MaxHops /\ n \in Nat
      /\ \/ n = 0
         \/ r \in DOMAIN requests /\ n = requests[r].chain + 1
  <2>1. r \in DOMAIN requests => requests[r] \in Tracked
    BY DEF BaseOK, MapsOK
  <2>2. r \in DOMAIN requests => requests[r].chain + 1 \in Nat
    BY <2>1 DEF Tracked
  <2>3. ev.hop \in 1..MaxHops
    BY DEF NetMessage
  <2>4. CASE before
    <3>1. n = requests[r].chain + 1 /\ r \in DOMAIN requests
      BY <2>4
    <3> HIDE DEF n
    <3> QED BY <2>2, <2>3, <3>1
  <2>5. CASE ~before
    <3>1. n = 0
      BY <2>5
    <3> HIDE DEF n
    <3> QED BY <2>3, <3>1
  <2> QED BY <2>4, <2>5
<1>3. before => r \in DOMAIN requests
  OBVIOUS
<1> HIDE DEF n, r, before
<1>4. new \in Tracked /\ new.hop = ev.hop /\ new.interception = id /\ new.chain = n
  BY <1>2 DEF Tracked
<1> HIDE DEF new
<1>5. /\ DOMAIN requests' = DOMAIN requests \cup {r} /\ requests'[r] = new
      /\ \A x \in DOMAIN requests \ {r} : requests'[x] = requests[x]
  BY <1>1 DEF Add
<1>6. /\ attempted' \subseteq attempted
      /\ \A x \in attempted \ attempted' : r \in DOMAIN requests /\ x = requests[r].interception
  BY <1>1, <1>3
<1> QED BY <1>2, <1>4, <1>5, <1>6 DEF r

\* Fetch.requestPaused of hop h of r.
LEMMA PausedFacts ==
  ASSUME BaseOK, OnFetchRequestPaused
  PROVE  /\ TakeEvent("paused")
         /\ UNCHANGED <<settings, reported>>
         /\ \/ commands' = commands
            \/ Send(<<Command("continue", Event.id, TRUE)>>)
         /\ ~settings.user_interception /\ settings.protocol_interception =>
              Send(<<Command("continue", Event.id, TRUE)>>)
         /\ \/ /\ Event.request \in DOMAIN will_be_sent
               /\ DOMAIN will_be_sent' = DOMAIN will_be_sent \ {Event.request}
               /\ \A x \in DOMAIN will_be_sent' : will_be_sent'[x] = will_be_sent[x]
               /\ will_be_sent[Event.request] \in NetMessage
               /\ will_be_sent[Event.request].request = Event.request
               /\ Track(will_be_sent[Event.request], Event.id)
               /\ UNCHANGED interceptions
            \/ /\ Event.request \notin DOMAIN will_be_sent
               /\ DOMAIN interceptions' = DOMAIN interceptions \cup {Event.request}
               /\ interceptions'[Event.request] = Event.id
               /\ \A x \in DOMAIN interceptions \ {Event.request} :
                    interceptions'[x] = interceptions[x]
               /\ UNCHANGED <<requests, will_be_sent, attempted>>
<1>1. TakeEvent("paused") /\ UNCHANGED <<settings, reported>>
  BY DEF OnFetchRequestPaused
<1>2. ~settings.user_interception /\ settings.protocol_interception =>
        Send(<<Command("continue", Event.id, TRUE)>>)
  BY DEF OnFetchRequestPaused
<1>3. commands' = commands \/ Send(<<Command("continue", Event.id, TRUE)>>)
  <2>1. Send(<<>>) \/ Send(<<Command("continue", Event.id, TRUE)>>)
    BY DEF OnFetchRequestPaused
  <2> QED BY <2>1, QueueNone
<1>4. \/ /\ Event.request \in DOMAIN will_be_sent
         /\ will_be_sent' = Drop(will_be_sent, Event.request)
         /\ Track(will_be_sent[Event.request], Event.id)
         /\ UNCHANGED interceptions
      \/ /\ Event.request \notin DOMAIN will_be_sent
         /\ interceptions' = Add(interceptions, Event.request, Event.id)
         /\ UNCHANGED <<requests, will_be_sent, attempted>>
  BY DEF OnFetchRequestPaused
<1>5. \A x \in DOMAIN will_be_sent :
        will_be_sent[x] \in NetMessage /\ will_be_sent[x].request = x
  BY DEF BaseOK, MapsOK
<1>6. \/ /\ Event.request \in DOMAIN will_be_sent
         /\ DOMAIN will_be_sent' = DOMAIN will_be_sent \ {Event.request}
         /\ \A x \in DOMAIN will_be_sent' : will_be_sent'[x] = will_be_sent[x]
         /\ will_be_sent[Event.request] \in NetMessage
         /\ will_be_sent[Event.request].request = Event.request
         /\ Track(will_be_sent[Event.request], Event.id)
         /\ UNCHANGED interceptions
      \/ /\ Event.request \notin DOMAIN will_be_sent
         /\ DOMAIN interceptions' = DOMAIN interceptions \cup {Event.request}
         /\ interceptions'[Event.request] = Event.id
         /\ \A x \in DOMAIN interceptions \ {Event.request} :
              interceptions'[x] = interceptions[x]
         /\ UNCHANGED <<requests, will_be_sent, attempted>>
  BY <1>4, <1>5 DEF Add, Drop
<1> QED BY <1>1, <1>2, <1>3, <1>6

\* Network.requestWillBeSent: tracked with the interception remembered for it, kept for
\* its pause, or tracked without one.
LEMMA WillBeSentFacts ==
  ASSUME BaseOK, OnRequestWillBeSent
  PROVE  /\ TakeEvent("willBeSent") /\ Event \in NetMessage
         /\ UNCHANGED <<settings, commands, reported>>
         /\ \/ /\ Intercepted(Event.request) /\ Event.request \in DOMAIN interceptions
               /\ DOMAIN interceptions' = DOMAIN interceptions \ {Event.request}
               /\ \A x \in DOMAIN interceptions' : interceptions'[x] = interceptions[x]
               /\ interceptions[Event.request] \in Interception
               /\ Track(Event, interceptions[Event.request])
               /\ UNCHANGED will_be_sent
            \/ /\ Intercepted(Event.request) /\ Event.request \notin DOMAIN interceptions
               /\ DOMAIN will_be_sent' = DOMAIN will_be_sent \cup {Event.request}
               /\ will_be_sent'[Event.request] = Event
               /\ \A x \in DOMAIN will_be_sent \ {Event.request} :
                    will_be_sent'[x] = will_be_sent[x]
               /\ UNCHANGED <<requests, interceptions, attempted>>
            \/ /\ ~Intercepted(Event.request) /\ Track(Event, NoInterception)
               /\ UNCHANGED <<will_be_sent, interceptions>>
<1>1. TakeEvent("willBeSent") /\ UNCHANGED <<settings, commands, reported>>
  BY DEF OnRequestWillBeSent
<1>2. Event \in NetMessage
  BY <1>1, TakeFacts
<1>3. \/ /\ Intercepted(Event.request) /\ Event.request \in DOMAIN interceptions
         /\ interceptions' = Drop(interceptions, Event.request)
         /\ Track(Event, interceptions[Event.request])
         /\ UNCHANGED will_be_sent
      \/ /\ Intercepted(Event.request) /\ Event.request \notin DOMAIN interceptions
         /\ will_be_sent' = Add(will_be_sent, Event.request, Event)
         /\ UNCHANGED <<requests, interceptions, attempted>>
      \/ /\ ~Intercepted(Event.request) /\ Track(Event, NoInterception)
         /\ UNCHANGED <<will_be_sent, interceptions>>
  BY DEF OnRequestWillBeSent, Intercepted
<1>4. \A x \in DOMAIN interceptions : interceptions[x] \in Interception
  BY DEF BaseOK, MapsOK, Hops, Interception
<1>5. \/ /\ Intercepted(Event.request) /\ Event.request \in DOMAIN interceptions
         /\ DOMAIN interceptions' = DOMAIN interceptions \ {Event.request}
         /\ \A x \in DOMAIN interceptions' : interceptions'[x] = interceptions[x]
         /\ interceptions[Event.request] \in Interception
         /\ Track(Event, interceptions[Event.request])
         /\ UNCHANGED will_be_sent
      \/ /\ Intercepted(Event.request) /\ Event.request \notin DOMAIN interceptions
         /\ DOMAIN will_be_sent' = DOMAIN will_be_sent \cup {Event.request}
         /\ will_be_sent'[Event.request] = Event
         /\ \A x \in DOMAIN will_be_sent \ {Event.request} :
              will_be_sent'[x] = will_be_sent[x]
         /\ UNCHANGED <<requests, interceptions, attempted>>
      \/ /\ ~Intercepted(Event.request) /\ Track(Event, NoInterception)
         /\ UNCHANGED <<will_be_sent, interceptions>>
  BY <1>3, <1>4 DEF Add, Drop
<1> QED BY <1>1, <1>2, <1>5

LEMMA AuthFacts ==
  ASSUME BaseOK, OnFetchAuthRequired
  PROVE  /\ TakeEvent("auth")
         /\ UNCHANGED <<requests, will_be_sent, interceptions, settings, reported>>
         /\ \E answer \in {"provide", "default", "cancel"} :
              /\ Send(<<Command("auth", Event.id, answer)>>)
              /\ answer = "provide" =>
                   Event.id \notin attempted /\ attempted' = attempted \cup {Event.id}
              /\ answer # "provide" => attempted' = attempted
  BY DEF OnFetchAuthRequired

LEMMA EndFacts ==
  ASSUME BaseOK, OnRequestEnds
  PROVE  /\ \E type \in {"response", "finished", "failed"} : TakeEvent(type)
         /\ UNCHANGED <<will_be_sent, interceptions, settings, commands>>
         /\ \/ /\ Event.request \in DOMAIN requests
               /\ DOMAIN requests' = DOMAIN requests \ {Event.request}
               /\ \A x \in DOMAIN requests' : requests'[x] = requests[x]
               /\ attempted' \subseteq attempted
               /\ \A x \in attempted \ attempted' :
                    /\ x = requests[Event.request].interception
                    /\ Event.type \in {"finished", "failed"}
               /\ reported' = [reported EXCEPT ![Event.request] = @ + 1]
            \/ /\ Event.request \notin DOMAIN requests
               /\ UNCHANGED <<requests, attempted, reported>>
<1>1. /\ \E type \in {"response", "finished", "failed"} : TakeEvent(type)
      /\ UNCHANGED <<will_be_sent, interceptions, settings, commands>>
  BY DEF OnRequestEnds
<1>2. \/ /\ Event.request \in DOMAIN requests
         /\ requests' = Drop(requests, Event.request)
         /\ attempted' = IF Event.type = "response" THEN attempted
                         ELSE attempted \ {requests[Event.request].interception}
         /\ reported' = [reported EXCEPT ![Event.request] = @ + 1]
      \/ /\ Event.request \notin DOMAIN requests
         /\ UNCHANGED <<requests, attempted, reported>>
  BY DEF OnRequestEnds
<1>3. Event.type \in {"response", "finished", "failed"}
  BY <1>1 DEF TakeEvent, Event
<1> QED BY <1>1, <1>2, <1>3 DEF Drop

-----------------------------------------------------------------------------
(* Types, and the order of the events, step by step *)

LEMMA TrackKeepsMaps ==
  ASSUME BaseOK, NEW ev \in NetMessage, NEW id \in Interception, Track(ev, id)
  PROVE  /\ DOMAIN requests' \subseteq Requests
         /\ \A r \in DOMAIN requests' : requests'[r] \in Tracked
         /\ attempted' \subseteq Interception
<1>1. ev.request \in Requests /\ attempted \subseteq Interception
      /\ DOMAIN requests \subseteq Requests /\ \A r \in DOMAIN requests : requests[r] \in Tracked
  BY DEF NetMessage, BaseOK, MapsOK
<1>2. /\ DOMAIN requests' = DOMAIN requests \cup {ev.request}
      /\ \A x \in DOMAIN requests \ {ev.request} : requests'[x] = requests[x]
      /\ requests'[ev.request] \in Tracked
      /\ attempted' \subseteq attempted
  BY TrackFacts
<1> QED BY <1>1, <1>2

LEMMA EventKeepsMaps ==
  ASSUME BaseOK, OnNetworkEvent
  PROVE  MapsOK' /\ commands' \in Seq(NetCommand)
<1>1. /\ DOMAIN requests \subseteq Requests /\ \A r \in DOMAIN requests : requests[r] \in Tracked
      /\ DOMAIN will_be_sent \subseteq Requests
      /\ \A r \in DOMAIN will_be_sent :
           will_be_sent[r] \in NetMessage /\ will_be_sent[r].request = r
      /\ DOMAIN interceptions \subseteq Requests
      /\ \A r \in DOMAIN interceptions : interceptions[r] \in Hops /\ interceptions[r][1] = r
      /\ attempted \subseteq Interception /\ reported \in [Requests -> Nat]
      /\ commands \in Seq(NetCommand)
  BY DEF BaseOK, MapsOK
<1>2. \A type : TakeEvent(type) =>
        /\ Event \in NetMessage /\ Event.request \in Requests
        /\ Event.id \in Hops /\ Event.id[1] = Event.request
        /\ Event.id \in Interception
  <2>1. SUFFICES ASSUME NEW type, TakeEvent(type)
                 PROVE  /\ Event \in NetMessage /\ Event.request \in Requests
                        /\ Event.id \in Hops /\ Event.id[1] = Event.request
                        /\ Event.id \in Interception
    OBVIOUS
  <2>2. /\ Event \in NetMessage /\ Event.request \in Requests /\ Event.hop \in 1..MaxHops
        /\ Event.id = <<Event.request, Event.hop>>
    BY <2>1, TakeFacts
  <2> QED BY <2>2 DEF Hops, Interception
<1>3. CASE OnFetchRequestPaused
  <2>1. TakeEvent("paused") /\ reported' = reported
    BY <1>3, PausedFacts
  <2>2. /\ Event \in NetMessage /\ Event.request \in Requests
        /\ Event.id \in Hops /\ Event.id[1] = Event.request
        /\ Event.id \in Interception
    BY <1>2, <2>1
  <2>3. commands' \in Seq(NetCommand)
    <3>1. commands' = commands \/ Send(<<Command("continue", Event.id, TRUE)>>)
      BY <1>3, PausedFacts
    <3>2. Command("continue", Event.id, TRUE) \in NetCommand
      BY <2>2, CommandTypes
    <3> QED BY <1>1, <3>1, <3>2, QueueOne
  <2>4. CASE /\ Event.request \in DOMAIN will_be_sent
             /\ DOMAIN will_be_sent' = DOMAIN will_be_sent \ {Event.request}
             /\ \A x \in DOMAIN will_be_sent' : will_be_sent'[x] = will_be_sent[x]
             /\ will_be_sent[Event.request] \in NetMessage
             /\ Track(will_be_sent[Event.request], Event.id)
             /\ UNCHANGED interceptions
    <3>1. /\ DOMAIN requests' \subseteq Requests
          /\ \A r \in DOMAIN requests' : requests'[r] \in Tracked
          /\ attempted' \subseteq Interception
      BY <2>2, <2>4, TrackKeepsMaps
    <3> QED BY <1>1, <2>1, <2>3, <2>4, <3>1 DEF MapsOK
  <2>5. CASE /\ DOMAIN interceptions' = DOMAIN interceptions \cup {Event.request}
             /\ interceptions'[Event.request] = Event.id
             /\ \A x \in DOMAIN interceptions \ {Event.request} :
                  interceptions'[x] = interceptions[x]
             /\ UNCHANGED <<requests, will_be_sent, attempted>>
    BY <1>1, <2>1, <2>2, <2>3, <2>5 DEF MapsOK
  <2> QED BY <1>3, <2>4, <2>5, PausedFacts
<1>4. CASE OnRequestWillBeSent
  <2>1. TakeEvent("willBeSent") /\ UNCHANGED <<commands, reported>>
    BY <1>4, WillBeSentFacts
  <2>2. Event \in NetMessage /\ Event.request \in Requests
    BY <1>2, <2>1
  <2>3. \/ /\ DOMAIN interceptions' = DOMAIN interceptions \ {Event.request}
           /\ \A x \in DOMAIN interceptions' : interceptions'[x] = interceptions[x]
           /\ interceptions[Event.request] \in Interception
           /\ Track(Event, interceptions[Event.request])
           /\ UNCHANGED will_be_sent
        \/ /\ DOMAIN will_be_sent' = DOMAIN will_be_sent \cup {Event.request}
           /\ will_be_sent'[Event.request] = Event
           /\ \A x \in DOMAIN will_be_sent \ {Event.request} :
                will_be_sent'[x] = will_be_sent[x]
           /\ UNCHANGED <<requests, interceptions, attempted>>
        \/ /\ Track(Event, NoInterception)
           /\ UNCHANGED <<will_be_sent, interceptions>>
    BY <1>4, WillBeSentFacts
  <2>4. \A id \in Interception : Track(Event, id) =>
          /\ DOMAIN requests' \subseteq Requests
          /\ \A r \in DOMAIN requests' : requests'[r] \in Tracked
          /\ attempted' \subseteq Interception
    BY <2>2, TrackKeepsMaps
  <2>5. NoInterception \in Interception
    BY DEF Interception
  <2>6. CASE /\ DOMAIN interceptions' = DOMAIN interceptions \ {Event.request}
             /\ \A x \in DOMAIN interceptions' : interceptions'[x] = interceptions[x]
             /\ interceptions[Event.request] \in Interception
             /\ Track(Event, interceptions[Event.request])
             /\ UNCHANGED will_be_sent
    BY <1>1, <2>1, <2>4, <2>6 DEF MapsOK
  <2>7. CASE /\ DOMAIN will_be_sent' = DOMAIN will_be_sent \cup {Event.request}
             /\ will_be_sent'[Event.request] = Event
             /\ \A x \in DOMAIN will_be_sent \ {Event.request} :
                  will_be_sent'[x] = will_be_sent[x]
             /\ UNCHANGED <<requests, interceptions, attempted>>
    BY <1>1, <2>1, <2>2, <2>7 DEF MapsOK
  <2>8. CASE Track(Event, NoInterception) /\ UNCHANGED <<will_be_sent, interceptions>>
    BY <1>1, <2>1, <2>4, <2>5, <2>8 DEF MapsOK
  <2> QED BY <2>3, <2>6, <2>7, <2>8
<1>5. CASE OnFetchAuthRequired
  <2>1. TakeEvent("auth")
        /\ UNCHANGED <<requests, will_be_sent, interceptions, settings, reported>>
    BY <1>5, AuthFacts
  <2>2. Event.id \in Hops /\ Event.id \in Interception
    BY <1>2, <2>1
  <2>3. PICK answer \in {"provide", "default", "cancel"} :
          /\ Send(<<Command("auth", Event.id, answer)>>)
          /\ attempted' \subseteq attempted \cup {Event.id}
    BY <1>5, AuthFacts
  <2>4. Command("auth", Event.id, answer) \in NetCommand
    BY <2>2, CommandTypes
  <2>5. commands' \in Seq(NetCommand)
    BY <2>3, <2>4, QueueOne
  <2> QED BY <1>1, <2>1, <2>2, <2>3, <2>5 DEF MapsOK
<1>6. CASE OnRequestEnds
  <2>1. /\ UNCHANGED <<will_be_sent, interceptions, commands>>
        /\ \/ /\ DOMAIN requests' = DOMAIN requests \ {Event.request}
              /\ \A x \in DOMAIN requests' : requests'[x] = requests[x]
              /\ attempted' \subseteq attempted
              /\ reported' = [reported EXCEPT ![Event.request] = @ + 1]
           \/ UNCHANGED <<requests, attempted, reported>>
    BY <1>6, EndFacts
  <2>2. reported' \in [Requests -> Nat]
    BY <1>1, <2>1
  <2> QED BY <1>1, <2>1, <2>2 DEF MapsOK
<1> QED BY <1>3, <1>4, <1>5, <1>6 DEF OnNetworkEvent

LEMMA EventTakes ==
  ASSUME BaseOK, OnNetworkEvent
  PROVE  /\ \E type \in EventTypes : TakeEvent(type)
         /\ UNCHANGED <<settings, mode, fetch, cache_disabled, traffic, provided>>
  BY PausedFacts, WillBeSentFacts, AuthFacts, EndFacts DEF OnNetworkEvent, EventTypes, browserState

LEMMA BaseStep ==
  ASSUME BaseOK, SwitchInv, NetworkNext
  PROVE  BaseOK'
<1>0. /\ MapsOK /\ traffic \in [Requests -> Traffic] /\ messages \in Seq(NetMessage)
      /\ \A i \in 1..Len(messages) : messages[i].id = <<messages[i].request, messages[i].hop>>
      /\ commands \in Seq(NetCommand) /\ provided \in Seq(Interception)
      /\ settings \in Switches
      /\ mode \in Modes \cup {"new"} /\ fetch \in {"off", "on", "onWithAuth"}
      /\ cache_disabled \in BOOLEAN
  BY DEF BaseOK
<1>1. UNCHANGED <<requests, will_be_sent, interceptions, attempted, reported>> => MapsOK'
  BY <1>0 DEF MapsOK
<1>2. CASE \E m \in Modes, cache \in BOOLEAN : Create(m, cache)
  <2>1. PICK m \in Modes, cache \in BOOLEAN : Create(m, cache)
    BY <1>2
  <2>2. settings' \in Switches /\ mode' = m /\ commands' \in Seq(NetCommand)
    BY <2>1, CreateFacts
  <2>3. UNCHANGED <<requests, will_be_sent, interceptions, attempted, messages, browserState,
                    reported>>
    BY <2>1 DEF Create
  <2> QED BY <1>0, <1>1, <2>2, <2>3 DEF BaseOK, browserState
<1>3. CASE Authenticate
  <2>1. settings' \in Switches /\ commands' \in Seq(NetCommand)
        /\ traffic' \in [Requests -> Traffic]
    BY <1>3, AuthenticateFacts
  <2>2. UNCHANGED <<requests, will_be_sent, interceptions, attempted, messages, mode, fetch,
                    cache_disabled, provided, reported>>
    BY <1>3 DEF Authenticate
  <2> QED BY <1>0, <1>1, <2>1, <2>2 DEF BaseOK
<1>4. CASE OnNetworkEvent
  <2>1. MapsOK' /\ commands' \in Seq(NetCommand)
    BY <1>4, EventKeepsMaps
  <2>2. PICK type : TakeEvent(type)
    BY <1>4, EventTakes
  <2>3. messages' \in Seq(NetMessage)
        /\ \A i \in 1..Len(messages') :
             messages'[i].id = <<messages'[i].request, messages'[i].hop>>
    BY <1>0, <2>2, TakeFacts
  <2>4. UNCHANGED <<settings, mode, fetch, cache_disabled, traffic, provided>>
    BY <1>4, EventTakes
  <2> QED BY <1>0, <2>1, <2>3, <2>4 DEF BaseOK
<1>5. CASE BrowserStep
  <2>1. /\ traffic' \in [Requests -> Traffic]
        /\ UNCHANGED <<managerState, commands, mode, fetch, cache_disabled, provided, reported>>
    BY <1>5, BrowserSteps
  <2>2. PICK r \in Requests : (\E type \in EventTypes : Emits(type, r)) \/ Starts(r)
    BY <1>5, BrowserSteps
  <2>3. messages' \in Seq(NetMessage)
        /\ \A i \in 1..Len(messages') :
             messages'[i].id = <<messages'[i].request, messages'[i].hop>>
    <3>1. CASE Starts(r)
      BY <1>0, <3>1 DEF Starts
    <3>2. CASE \E type \in EventTypes : Emits(type, r)
      <4>1. PICK type \in EventTypes : Emits(type, r)
        BY <3>2
      <4> DEFINE n == Len(messages)
      <4>2. /\ n \in Nat /\ Len(messages') = n + 1
            /\ messages' \in Seq(NetMessage)
            /\ \A i \in 1..n : messages'[i] = messages[i]
            /\ messages'[n + 1] = Message(type, r)
            /\ Message(type, r).request = r
            /\ Message(type, r).hop = traffic[r].hop
            /\ Message(type, r).id = <<r, traffic[r].hop>>
        BY <4>1, EmitFacts
      <4>3. \A i \in 1..n : messages[i].id = <<messages[i].request, messages[i].hop>>
        BY <1>0
      <4> HIDE DEF n
      <4>4. \A i \in 1..n + 1 : i \in 1..n \/ i = n + 1
        BY <4>2
      <4> QED BY <4>2, <4>3, <4>4
    <3> QED BY <2>2, <3>1, <3>2
  <2> QED BY <1>0, <1>1, <2>1, <2>3 DEF BaseOK, managerState
<1>6. CASE BrowserServes
  <2>1. /\ commands' \in Seq(NetCommand) /\ cache_disabled' \in BOOLEAN
        /\ fetch' \in {"off", "on", "onWithAuth"}
        /\ provided' \in Seq(Interception) /\ traffic' \in [Requests -> Traffic]
        /\ UNCHANGED <<managerState, messages, mode, reported>>
    BY <1>0, <1>6, ServeFacts
  <2> QED BY <1>0, <1>1, <2>1 DEF BaseOK, managerState
<1>7. CASE UserStep
  <2>1. /\ UNCHANGED <<managerState, commands, messages, mode, cache_disabled, reported>>
        /\ traffic' \in [Requests -> Traffic]
        /\ fetch' \in {"off", "on", "onWithAuth"} /\ provided' \in Seq(Interception)
    BY <1>7, UserFacts
  <2> QED BY <1>0, <1>1, <2>1 DEF BaseOK, managerState
<1> QED BY <1>2, <1>3, <1>4, <1>5, <1>6, <1>7 DEF NetworkNext

LEMMA EventStep ==
  ASSUME BaseOK, EventInv, SwitchInv, NetworkNext
  PROVE  EventInv'
<1>1. CASE \E m \in Modes, cache \in BOOLEAN : Create(m, cache)
  <2>1. UNCHANGED <<messages, traffic>>
    BY <1>1 DEF Create, browserState
  <2> QED BY <2>1, OpenKeepsEvents DEF GatesOpen
<1>2. CASE Authenticate
  <2>1. GatesOpen /\ UNCHANGED messages
    BY <1>2, AuthenticateFacts DEF GatesOpen, Authenticate
  <2> QED BY <2>1, OpenKeepsEvents
<1>3. CASE OnNetworkEvent
  BY <1>3, EventTakes, TakeKeepsEvents
<1>4. CASE BrowserStep
  <2>1. traffic' \in [Requests -> Traffic]
        /\ \E r \in Requests : (\E type \in EventTypes : Emits(type, r)) \/ Starts(r)
    BY <1>4, BrowserSteps
  <2> QED BY <2>1, EmitKeepsEvents, StartKeepsEvents
<1>5. CASE BrowserServes
  BY <1>5, ServeFacts, OpenKeepsEvents
<1>6. CASE UserStep
  BY <1>6, UserFacts, OpenKeepsEvents
<1> QED BY <1>1, <1>2, <1>3, <1>4, <1>5, <1>6 DEF NetworkNext

LEMMA SwitchStep ==
  ASSUME BaseOK, EventInv, SwitchInv, NetworkNext
  PROVE  SwitchInv'
<1>0. /\ UntouchedBefore /\ SettingsOK /\ BothAgree
      /\ settings \in Switches /\ traffic \in [Requests -> Traffic]
      /\ commands \in Seq(NetCommand) /\ "new" \notin Modes
  BY DEF SwitchInv, BaseOK
<1>1. \A r \in Requests : traffic[r] \in Traffic /\ traffic[r].hop \in Nat
  BY <1>0 DEF Traffic
<1>2. mode # "new" /\ mode' = mode => UntouchedBefore'
  BY DEF UntouchedBefore
\* While nothing has happened only Target::new is possible.
<1>3. ASSUME mode = "new"
      PROVE  \E m \in Modes, cache \in BOOLEAN : Create(m, cache)
  <2>1. commands = <<>> /\ messages = <<>> /\ \A r \in Requests : traffic[r].hop = 0
    BY <1>0, <1>3 DEF UntouchedBefore, Idle
  <2>2. ~Authenticate /\ ~BrowserServes
    BY <1>3, <2>1 DEF Authenticate, BrowserServes
  <2>3. ~OnNetworkEvent
    <3>1. \A type : ~TakeEvent(type)
      BY <2>1 DEF TakeEvent
    <3> QED BY <3>1, EventTakes
  <2>4. ~UserStep
    BY <1>3, UserFacts
  <2>5. ~BrowserStep
    <3>1. \A r \in Requests : ~Starts(r) /\ \A type \in EventTypes : ~Emits(type, r)
      BY <1>3, <2>1 DEF Starts, Emits, Sent, InFlight
    <3> QED BY <3>1, BrowserSteps
  <2> QED BY <2>2, <2>3, <2>4, <2>5 DEF NetworkNext
<1>4. CASE \E m \in Modes, cache \in BOOLEAN : Create(m, cache)
  <2>1. PICK m \in Modes, cache \in BOOLEAN : Create(m, cache)
    BY <1>4
  <2>2. /\ mode = "new" /\ mode' = m /\ settings' \in Switches
        /\ settings'.protocol_interception <=> m = "config"
        /\ settings'.user_interception <=> m = "config"
        /\ ~settings'.credentials
        /\ \A i \in 1..Len(commands') :
             /\ commands'[i].name \in {"cache", "enable"}
             /\ commands'[i].name = "enable" => m = "config"
    BY <2>1, CreateFacts
  <2>3. UNCHANGED <<messages, fetch, traffic>>
    BY <2>1 DEF Create, browserState
  <2>4. /\ fetch = "off" /\ messages = <<>> /\ Len(messages) = 0
        /\ \A r \in Requests : traffic[r].gate = "open" /\ traffic[r].hop = 0
    BY <1>0, <2>2 DEF UntouchedBefore, Idle
  <2>5. UntouchedBefore'
    BY <1>0, <2>2 DEF UntouchedBefore
  <2>6. SettingsOK'
    BY <2>2 DEF SettingsOK, Wanted
  <2>7. BothAgree'
    BY <2>2, <2>3, <2>4 DEF BothAgree, UsersMode
  <2> QED BY <2>5, <2>6, <2>7 DEF SwitchInv
<1>5. CASE Authenticate
  <2>1. /\ mode = "authenticate" /\ settings' \in Switches
        /\ settings'.protocol_interception /\ settings'.credentials
        /\ settings'.user_interception = settings.user_interception
        /\ \A i \in 1..Len(commands') :
             \/ i \in 1..Len(commands) /\ commands'[i] = commands[i]
             \/ commands'[i].name \in {"cache", "enable"}
        /\ \A r \in Requests : traffic'[r].steady => traffic'[r].hop = 0
    BY <1>5, AuthenticateFacts
  <2>2. mode' = mode
    BY <1>5 DEF Authenticate
  <2>3. UntouchedBefore'
    BY <1>2, <2>1, <2>2
  <2>4. SettingsOK'
    BY <1>0, <2>1, <2>2 DEF SettingsOK, Wanted
  <2>5. BothAgree'
    BY <2>1, <2>2 DEF BothAgree, UsersMode
  <2> QED BY <2>3, <2>4, <2>5 DEF SwitchInv
<1>6. CASE OnNetworkEvent
  <2>1. PICK type \in EventTypes : TakeEvent(type)
    BY <1>6, EventTakes
  <2>2. UNCHANGED <<settings, mode, fetch, traffic>>
    BY <1>6, EventTakes
  <2>3. \/ commands' = commands
        \/ \E cmd \in NetCommand : cmd.name \in {"continue", "auth"} /\ Send(<<cmd>>)
    <3>1. Event.id \in Hops
      <4>1. Event.request \in Requests /\ Event.hop \in 1..MaxHops
            /\ Event.id = <<Event.request, Event.hop>>
        BY <2>1, TakeFacts
      <4> QED BY <4>1 DEF Hops
    <3>2. /\ Command("continue", Event.id, TRUE) \in NetCommand
          /\ Command("continue", Event.id, TRUE).name = "continue"
          /\ \A v \in {"provide", "default", "cancel"} :
               /\ Command("auth", Event.id, v) \in NetCommand
               /\ Command("auth", Event.id, v).name = "auth"
      BY <3>1, CommandTypes DEF Command
    <3> QED BY <1>6, <3>2, PausedFacts, WillBeSentFacts, AuthFacts, EndFacts
         DEF OnNetworkEvent
  <2>4. \A i \in 1..Len(commands') :
          \/ i \in 1..Len(commands) /\ commands'[i] = commands[i]
          \/ commands'[i].name \in {"continue", "auth"}
    BY <2>3, QueueOne
  <2>5. \A i \in 1..Len(messages') :
          i + 1 \in 1..Len(messages) /\ messages'[i] = messages[i + 1]
    BY <2>1, TakeFacts
  <2>6. UntouchedBefore'
    <3>1. mode # "new"
      BY <1>0, <2>1 DEF UntouchedBefore, TakeEvent
    <3> QED BY <1>2, <2>2, <3>1
  <2>7. SettingsOK'
    BY <1>0, <2>2, <2>4 DEF SettingsOK, Wanted
  <2>8. BothAgree'
    BY <1>0, <2>2, <2>4, <2>5 DEF BothAgree, UsersMode, Intercepted
  <2> QED BY <2>6, <2>7, <2>8 DEF SwitchInv
<1>7. CASE BrowserStep
  <2>1. UNCHANGED <<settings, commands, mode, fetch>> /\ traffic' \in [Requests -> Traffic]
    BY <1>7, BrowserSteps DEF managerState
  <2>2. PICK r \in Requests : (\E type \in EventTypes : Emits(type, r)) \/ Starts(r)
    BY <1>7, BrowserSteps
  <2>3. UntouchedBefore'
    BY <1>2, <2>1, <1>1, <2>2, <1>0 DEF Starts, Emits, Sent, InFlight, UntouchedBefore, Idle
  <2>4. SettingsOK'
    BY <1>0, <2>1 DEF SettingsOK, Wanted
  <2>5. CASE ~UsersMode
    <3>1. /\ fetch # "off" => settings.protocol_interception
          /\ \A i \in 1..Len(commands) :
               commands[i].name = "enable" => settings.protocol_interception
          /\ \A x \in Requests :
               /\ traffic[x].gate # "open" => settings.protocol_interception
               /\ traffic[x].steady /\ traffic[x].hop > 0 =>
                    /\ settings.protocol_interception <=> fetch # "off"
                    /\ Intercepted(x) <=> traffic[x].gate # "open"
          /\ \A i \in 1..Len(messages) :
               messages[i].type = "paused" => settings.protocol_interception
      BY <1>0, <2>5 DEF BothAgree
    <3>2. CASE \E type \in EventTypes : Emits(type, r)
      <4>1. PICK type \in EventTypes : Emits(type, r)
        BY <3>2
      <4>2. /\ \A x \in Requests : x # r => traffic'[x] = traffic[x]
            /\ traffic'[r].hop = traffic[r].hop /\ traffic'[r].steady = traffic[r].steady
            /\ traffic'[r].gate # "open" <=> traffic[r].gate # "open"
            /\ type = "paused" => traffic[r].gate = "closed"
        BY <4>1 DEF Emits, EventTypes
      <4>3. /\ Len(messages) \in Nat /\ Len(messages') = Len(messages) + 1
            /\ \A i \in 1..Len(messages) : messages'[i] = messages[i]
            /\ messages'[Len(messages) + 1].type = type
        BY <4>1, EmitFacts
      <4>4. \A i \in 1..Len(messages') :
              messages'[i].type = "paused" => settings.protocol_interception
        <5> SUFFICES ASSUME NEW i \in 1..Len(messages'), messages'[i].type = "paused"
                     PROVE  settings.protocol_interception
          OBVIOUS
        <5>1. CASE i \in 1..Len(messages)
          BY <3>1, <4>3, <5>1
        <5>2. CASE i = Len(messages) + 1
          BY <3>1, <4>2, <4>3, <5>2
        <5> QED BY <4>3, <5>1, <5>2
      <4>5. \A x \in Requests :
              /\ traffic'[x].gate # "open" => settings.protocol_interception
              /\ traffic'[x].steady /\ traffic'[x].hop > 0 =>
                   /\ settings.protocol_interception <=> fetch # "off"
                   /\ Intercepted(x) <=> traffic'[x].gate # "open"
        BY <3>1, <4>2
      <4>6. BothAgree'
        BY <2>1, <3>1, <4>4, <4>5 DEF BothAgree, UsersMode, Intercepted
      <4> QED BY <2>3, <2>4, <4>6 DEF SwitchInv
    <3>3. CASE Starts(r)
      <4>1. /\ traffic[r].hop \in Nat
            /\ traffic'[r].gate = IF fetch = "off" \/ r \in DataRequests THEN "open" ELSE "closed"
            /\ traffic[r].hop > 0 => traffic'[r].steady = traffic[r].steady
        BY <2>1, <3>3, StartFacts
      <4>2. /\ UNCHANGED messages
            /\ \A x \in Requests : x # r => traffic'[x] = traffic[x]
            /\ traffic[r].hop = 0 /\ traffic'[r].steady =>
                 settings.protocol_interception = (fetch # "off")
        BY <3>3 DEF Starts, Sent, InFlight
      <4>3. settings.protocol_interception \in BOOLEAN
        BY <1>0 DEF Switches
      <4>4. traffic'[r].steady => (settings.protocol_interception <=> fetch # "off")
          <5>1. settings.protocol_interception = (fetch # "off") =>
                (settings.protocol_interception <=> fetch # "off")
            OBVIOUS
          <5>2. CASE traffic[r].hop = 0
            <6>1. traffic'[r].steady => settings.protocol_interception = (fetch # "off")
              BY <4>2, <5>2
            <6> QED BY <5>1, <6>1, Zenon
          <5>3. CASE traffic[r].hop > 0
            BY <3>1, <4>1, <5>3
          <5> QED BY <4>1, <5>2, <5>3
      <4>5. traffic'[r].gate # "open" => settings.protocol_interception
        BY <3>1, <4>1
      <4>6. traffic'[r].steady => (Intercepted(r) <=> traffic'[r].gate # "open")
        BY <4>1, <4>4 DEF Intercepted
      <4>7. BothAgree'
        BY <2>1, <3>1, <4>2, <4>4, <4>5, <4>6 DEF BothAgree, UsersMode, Intercepted
      <4> QED BY <2>3, <2>4, <4>7 DEF SwitchInv
    <3> QED BY <2>2, <3>2, <3>3
  <2>6. CASE UsersMode
    <3>1. BothAgree'
      BY <2>1, <2>6 DEF BothAgree, UsersMode
    <3> QED BY <2>3, <2>4, <3>1 DEF SwitchInv
  <2> QED BY <2>5, <2>6
<1>8. CASE BrowserServes \/ UserStep
  <2>1. UNCHANGED <<settings, messages, mode>> /\ GatesOpen /\ SteadySame
    BY <1>8, ServeFacts, UserFacts DEF managerState
  <2>2. mode # "new"
    BY <1>0, <1>8, ServeFacts, UserFacts DEF UntouchedBefore
  <2>3. \A i \in 1..Len(commands') : \E k \in 1..Len(commands) : commands'[i] = commands[k]
    BY <1>8, ServeFacts, UserFacts
  <2>4. ~UsersMode /\ fetch' # "off" => fetch # "off" \/ settings.protocol_interception
    <3>1. CASE BrowserServes
      <4>1. 1 \in 1..Len(commands) /\ Head(commands) = commands[1]
            /\ fetch' = IF Head(commands).name = "enable" THEN "onWithAuth"
                        ELSE IF Head(commands).name = "disable" THEN "off" ELSE fetch
        BY <3>1, ServeFacts
      <4> QED BY <1>0, <4>1 DEF BothAgree
    <3>2. CASE UserStep
      BY <3>2, UserFacts DEF UsersMode
    <3> QED BY <1>8, <3>1, <3>2
  <2>5. ~UsersMode /\ fetch # "off" => fetch' # "off"
    <3>1. CASE BrowserServes
      <4>1. 1 \in 1..Len(commands) /\ Head(commands) = commands[1]
            /\ fetch' = IF Head(commands).name = "enable" THEN "onWithAuth"
                        ELSE IF Head(commands).name = "disable" THEN "off" ELSE fetch
        BY <3>1, ServeFacts
      <4>2. Head(commands).name # "disable"
        BY <1>0, <4>1 DEF SettingsOK
      <4> QED BY <4>1, <4>2
    <3>2. CASE UserStep
      BY <3>2, UserFacts DEF UsersMode
    <3> QED BY <1>8, <3>1, <3>2
  <2>6. UntouchedBefore'
    BY <1>2, <2>1, <2>2
  <2>7. SettingsOK'
    BY <1>0, <2>1, <2>3 DEF SettingsOK, Wanted
  <2>8. BothAgree'
    <3> SUFFICES ASSUME ~UsersMode
                 PROVE  BothAgree'
      BY <2>1 DEF BothAgree, UsersMode
    <3>1. /\ fetch # "off" => settings.protocol_interception
          /\ \A i \in 1..Len(commands) :
               commands[i].name = "enable" => settings.protocol_interception
          /\ \A r \in Requests :
               /\ traffic[r].gate # "open" => settings.protocol_interception
               /\ traffic[r].steady /\ traffic[r].hop > 0 =>
                    /\ settings.protocol_interception <=> fetch # "off"
                    /\ Intercepted(r) <=> traffic[r].gate # "open"
          /\ \A i \in 1..Len(messages) :
               messages[i].type = "paused" => settings.protocol_interception
      BY <1>0 DEF BothAgree
    <3>2. \A r \in Requests :
            /\ traffic'[r].hop = traffic[r].hop /\ traffic'[r].steady = traffic[r].steady
            /\ traffic'[r].gate # "open" <=> traffic[r].gate # "open"
      BY <2>1 DEF GatesOpen, SteadySame
    <3>3. fetch' # "off" => settings.protocol_interception
      BY <2>4, <3>1
    <3>4. ASSUME NEW r \in Requests, traffic'[r].steady, traffic'[r].hop > 0
          PROVE  settings.protocol_interception <=> fetch' # "off"
      BY <2>5, <3>1, <3>2, <3>3, <3>4
    <3>5. \A i \in 1..Len(commands') :
            commands'[i].name = "enable" => settings.protocol_interception
      BY <2>3, <3>1
    <3> QED BY <2>1, <3>1, <3>2, <3>3, <3>4, <3>5 DEF BothAgree, UsersMode, Intercepted
  <2> QED BY <2>6, <2>7, <2>8 DEF SwitchInv
<1> QED BY <1>4, <1>5, <1>6, <1>7, <1>8 DEF NetworkNext

-----------------------------------------------------------------------------
(* What the maps of the manager hold is not ahead of the browser *)

TrackedInOrder ==
  \A r \in DOMAIN requests :
    /\ requests[r].hop <= traffic[r].hop /\ requests[r].chain < requests[r].hop
    /\ requests[r].hop = traffic[r].hop => traffic[r].announced
    /\ requests[r].interception \in OwnOrNone(r)
    /\ \A m \in Events :
         m.request = r /\ m.type = "willBeSent" => requests[r].hop < m.hop

AnnouncedInOrder ==
  \A r \in DOMAIN will_be_sent :
    /\ will_be_sent[r].hop <= traffic[r].hop
    /\ will_be_sent[r].hop = traffic[r].hop => traffic[r].announced
    /\ r \notin DOMAIN interceptions /\ Intercepted(r)
    /\ r \in DOMAIN requests => requests[r].hop < will_be_sent[r].hop
    /\ \A m \in Events :
         m.request = r /\ m.type = "willBeSent" => will_be_sent[r].hop < m.hop

PausedInOrder ==
  \A r \in DOMAIN interceptions :
    /\ interceptions[r][2] <= traffic[r].hop
    /\ interceptions[r][2] = traffic[r].hop => traffic[r].gate # "closed"
    /\ \A m \in Events :
         m.request = r /\ m.type = "paused" => interceptions[r][2] < m.hop

MapInv == TrackedInOrder /\ AnnouncedInOrder /\ PausedInOrder

\* What the steps that are not the manager's do to a request and to the events.
Grows ==
  \A r \in Requests :
    /\ traffic[r].hop <= traffic'[r].hop
    /\ traffic'[r].hop = traffic[r].hop =>
         /\ traffic[r].announced => traffic'[r].announced
         /\ traffic[r].gate # "closed" => traffic'[r].gate # "closed"

Brings ==
  \A m \in Events' :
    \/ m \in Events
    \/ /\ m.request \in Requests /\ m.hop = traffic[m.request].hop
       /\ ~traffic[m.request].ended
       /\ m.type = "willBeSent" => ~traffic[m.request].announced
       /\ m.type = "paused" => traffic[m.request].gate = "closed"

LEMMA ElsewhereFacts ==
  ASSUME BaseOK, EventInv, SwitchInv, NetworkNext, ~OnNetworkEvent
  PROVE  /\ UNCHANGED <<requests, will_be_sent, interceptions, attempted, reported>>
         /\ Grows /\ Brings
         /\ \A r \in Requests : Intercepted(r) => Intercepted(r)'
         /\ \A r \in Requests : traffic[r].hop > 0 /\ traffic[r].ended => traffic'[r].ended
<1>0. traffic \in [Requests -> Traffic] /\ \A r \in Requests : traffic[r].hop \in Nat
  BY DEF BaseOK, Traffic
<1>1. UNCHANGED messages /\ GatesOpen => Grows /\ Brings
  BY <1>0 DEF GatesOpen, Grows, Brings, Events
<1>a. GatesOpen => \A r \in Requests : traffic[r].ended => traffic'[r].ended
  BY DEF GatesOpen
<1>2. CASE \E m \in Modes, cache \in BOOLEAN : Create(m, cache)
  <2>1. /\ UNCHANGED <<requests, will_be_sent, interceptions, attempted, reported>>
        /\ UNCHANGED <<messages, traffic>> /\ settings = Fresh
    BY <1>2 DEF Create, browserState, SwitchInv, UntouchedBefore
  <2>2. GatesOpen
    BY <2>1 DEF GatesOpen
  <2>3. \A r \in Requests : ~Intercepted(r)
    BY <2>1 DEF Intercepted, Fresh
  <2> QED BY <1>1, <1>a, <2>1, <2>2, <2>3
<1>3. CASE Authenticate
  <2>1. GatesOpen /\ settings'.protocol_interception
    BY <1>3, AuthenticateFacts DEF GatesOpen
  <2>2. UNCHANGED <<requests, will_be_sent, interceptions, attempted, messages, reported>>
    BY <1>3 DEF Authenticate
  <2> QED BY <1>1, <1>a, <2>1, <2>2 DEF Intercepted
<1>4. CASE BrowserServes \/ UserStep
  <2>1. UNCHANGED <<managerState, messages, reported>> /\ GatesOpen
    BY <1>4, ServeFacts, UserFacts
  <2> QED BY <1>1, <1>a, <2>1 DEF Intercepted, managerState
<1>5. CASE BrowserStep
  <2>1. UNCHANGED <<managerState, reported>> /\ traffic' \in [Requests -> Traffic]
    BY <1>5, BrowserSteps
  <2>2. PICK r \in Requests : (\E type \in EventTypes : Emits(type, r)) \/ Starts(r)
    BY <1>5, BrowserSteps
  <2>3. CASE \E type \in EventTypes : Emits(type, r)
    <3>1. PICK type \in EventTypes : Emits(type, r)
      BY <2>3
    <3>2. \A m : m \in Events' <=> m \in Events \/ m = Message(type, r)
      BY <3>1, EmitSets
    <3>3. /\ Message(type, r).type = type /\ Message(type, r).request = r
          /\ Message(type, r).hop = traffic[r].hop
      BY <3>1, EmitFacts
    <3>4. /\ ~traffic[r].ended
          /\ type = "willBeSent" => ~traffic[r].announced
          /\ type = "paused" => traffic[r].gate = "closed"
      BY <3>1 DEF Emits
    <3>5. Brings
      BY <3>2, <3>3, <3>4 DEF Brings
    <3>6. Grows
      BY <1>0, <3>1 DEF Grows, Emits, EventTypes
    <3>7. \A x \in Requests : traffic[x].ended => traffic'[x].ended
      BY <3>1 DEF Emits
    <3> QED BY <2>1, <3>5, <3>6, <3>7 DEF Intercepted, managerState
  <2>4. CASE Starts(r)
    <3>1. UNCHANGED messages /\ \A x \in Requests \ {r} : traffic'[x] = traffic[x]
      BY <2>4 DEF Starts
    <3>2. traffic'[r].hop = traffic[r].hop + 1
      BY <2>1, <2>4, StartFacts
    <3>3. Grows
      BY <1>0, <3>1, <3>2 DEF Grows
    <3>4. \A x \in Requests : traffic[x].hop > 0 /\ traffic[x].ended => traffic'[x].ended
      BY <2>1, <2>4, <3>1, StartFacts
    <3> QED BY <2>1, <3>1, <3>3, <3>4 DEF Brings, Events, Intercepted, managerState
  <2> QED BY <2>2, <2>3, <2>4
<1> QED BY <1>2, <1>3, <1>4, <1>5 DEF NetworkNext

LEMMA ElsewhereKeepsMaps ==
  ASSUME BaseOK, EventInv, SwitchInv, MapInv, NetworkNext, ~OnNetworkEvent
  PROVE  MapInv'
<1>1. /\ UNCHANGED <<requests, will_be_sent, interceptions, attempted, reported>>
      /\ Grows /\ Brings
      /\ \A r \in Requests : Intercepted(r) => Intercepted(r)'
  BY ElsewhereFacts
<1>2. /\ \A r \in DOMAIN requests : r \in Requests /\ requests[r].hop \in Nat
      /\ \A r \in DOMAIN will_be_sent : r \in Requests /\ will_be_sent[r].hop \in Nat
      /\ \A r \in DOMAIN interceptions : r \in Requests /\ interceptions[r][2] \in Nat
      /\ \A r \in Requests : traffic[r].hop \in Nat
  BY DEF BaseOK, MapsOK, Tracked, NetMessage, Hops, Traffic
<1>3. \A r \in Requests : traffic'[r].hop \in Nat
  BY BaseStep DEF BaseOK, Traffic
<1>4. ASSUME NEW r \in Requests, NEW k \in Nat, k <= traffic[r].hop
      PROVE  /\ k <= traffic'[r].hop
             /\ k = traffic'[r].hop => traffic'[r].hop = traffic[r].hop /\ k = traffic[r].hop
  BY <1>1, <1>2, <1>3, <1>4 DEF Grows
<1>5. TrackedInOrder'
  <2> SUFFICES ASSUME NEW r \in DOMAIN requests
               PROVE  /\ requests[r].hop <= traffic'[r].hop /\ requests[r].chain < requests[r].hop
                      /\ requests[r].hop = traffic'[r].hop => traffic'[r].announced
                      /\ requests[r].interception \in OwnOrNone(r)
                      /\ \A m \in Events' :
                           m.request = r /\ m.type = "willBeSent" => requests[r].hop < m.hop
    BY <1>1 DEF TrackedInOrder, OwnOrNone
  <2>1. /\ requests[r].hop <= traffic[r].hop /\ requests[r].chain < requests[r].hop
        /\ requests[r].hop = traffic[r].hop => traffic[r].announced
        /\ requests[r].interception \in OwnOrNone(r)
        /\ \A m \in Events :
             m.request = r /\ m.type = "willBeSent" => requests[r].hop < m.hop
    BY DEF MapInv, TrackedInOrder
  <2>2. requests[r].hop <= traffic'[r].hop
        /\ (requests[r].hop = traffic'[r].hop => traffic'[r].announced)
    BY <1>1, <1>2, <1>4, <2>1 DEF Grows
  <2>3. ASSUME NEW m \in Events', m.request = r, m.type = "willBeSent"
        PROVE  requests[r].hop < m.hop
    BY <1>1, <1>2, <2>1, <2>3 DEF Brings
  <2> QED BY <2>1, <2>2, <2>3
<1>6. AnnouncedInOrder'
  <2> SUFFICES ASSUME NEW r \in DOMAIN will_be_sent
               PROVE  /\ will_be_sent[r].hop <= traffic'[r].hop
                      /\ will_be_sent[r].hop = traffic'[r].hop => traffic'[r].announced
                      /\ r \notin DOMAIN interceptions /\ Intercepted(r)'
                      /\ r \in DOMAIN requests => requests[r].hop < will_be_sent[r].hop
                      /\ \A m \in Events' :
                           m.request = r /\ m.type = "willBeSent" => will_be_sent[r].hop < m.hop
    BY <1>1 DEF AnnouncedInOrder, Intercepted
  <2>1. /\ will_be_sent[r].hop <= traffic[r].hop
        /\ will_be_sent[r].hop = traffic[r].hop => traffic[r].announced
        /\ r \notin DOMAIN interceptions /\ Intercepted(r)
        /\ r \in DOMAIN requests => requests[r].hop < will_be_sent[r].hop
        /\ \A m \in Events :
             m.request = r /\ m.type = "willBeSent" => will_be_sent[r].hop < m.hop
    BY DEF MapInv, AnnouncedInOrder
  <2>2. will_be_sent[r].hop <= traffic'[r].hop
        /\ (will_be_sent[r].hop = traffic'[r].hop => traffic'[r].announced)
    BY <1>1, <1>2, <1>4, <2>1 DEF Grows
  <2>3. ASSUME NEW m \in Events', m.request = r, m.type = "willBeSent"
        PROVE  will_be_sent[r].hop < m.hop
    BY <1>1, <1>2, <2>1, <2>3 DEF Brings
  <2> QED BY <1>1, <1>2, <2>1, <2>2, <2>3
<1>7. PausedInOrder'
  <2> SUFFICES ASSUME NEW r \in DOMAIN interceptions
               PROVE  /\ interceptions[r][2] <= traffic'[r].hop
                      /\ interceptions[r][2] = traffic'[r].hop => traffic'[r].gate # "closed"
                      /\ \A m \in Events' :
                           m.request = r /\ m.type = "paused" => interceptions[r][2] < m.hop
    BY <1>1 DEF PausedInOrder
  <2>1. /\ interceptions[r][2] <= traffic[r].hop
        /\ interceptions[r][2] = traffic[r].hop => traffic[r].gate # "closed"
        /\ \A m \in Events :
             m.request = r /\ m.type = "paused" => interceptions[r][2] < m.hop
    BY DEF MapInv, PausedInOrder
  <2>2. interceptions[r][2] <= traffic'[r].hop
        /\ (interceptions[r][2] = traffic'[r].hop => traffic'[r].gate # "closed")
    BY <1>1, <1>2, <1>4, <2>1 DEF Grows
  <2>3. ASSUME NEW m \in Events', m.request = r, m.type = "paused"
        PROVE  interceptions[r][2] < m.hop
    BY <1>1, <1>2, <2>1, <2>3 DEF Brings
  <2> QED BY <2>1, <2>2, <2>3
<1> QED BY <1>5, <1>6, <1>7 DEF MapInv

\* Tracking the announcement ev with the interception id.
LEMMA TrackKeepsOrder ==
  ASSUME BaseOK, TrackedInOrder, NEW ev \in NetMessage, NEW id \in OwnOrNone(ev.request), Track(ev, id),
         UNCHANGED traffic, \A m \in Events' : m \in Events,
         ev.hop <= traffic[ev.request].hop,
         ev.hop = traffic[ev.request].hop => traffic[ev.request].announced,
         ev.request \in DOMAIN requests => requests[ev.request].hop < ev.hop,
         \A m \in Events' :
           m.request = ev.request /\ m.type = "willBeSent" => ev.hop < m.hop
  PROVE  TrackedInOrder'
<1>1. ev.request \in Requests /\ ev.hop \in 1..MaxHops /\ id \in Interception
  BY DEF NetMessage, OwnOrNone, Interception
<1>2. /\ DOMAIN requests' = DOMAIN requests \cup {ev.request}
      /\ \A x \in DOMAIN requests \ {ev.request} : requests'[x] = requests[x]
      /\ requests'[ev.request].hop = ev.hop /\ requests'[ev.request].interception = id
      /\ \/ requests'[ev.request].chain = 0
         \/ /\ ev.request \in DOMAIN requests
            /\ requests'[ev.request].chain = requests[ev.request].chain + 1
  BY <1>1, TrackFacts
<1>3. ev.request \in DOMAIN requests =>
        /\ requests[ev.request].chain \in Nat /\ requests[ev.request].hop \in Nat
        /\ requests[ev.request].chain < requests[ev.request].hop
  BY DEF BaseOK, MapsOK, Tracked, TrackedInOrder
<1>4. requests'[ev.request].chain < ev.hop
  BY <1>1, <1>2, <1>3
<1>5. \A r \in DOMAIN requests' : r # ev.request => r \in DOMAIN requests /\ requests'[r] = requests[r]
  BY <1>2
<1>6. ASSUME NEW r \in DOMAIN requests'
      PROVE  /\ requests'[r].hop <= traffic'[r].hop /\ requests'[r].chain < requests'[r].hop
             /\ requests'[r].hop = traffic'[r].hop => traffic'[r].announced
             /\ requests'[r].interception \in OwnOrNone(r)
             /\ \A m \in Events' :
                  m.request = r /\ m.type = "willBeSent" => requests'[r].hop < m.hop
  <2>1. CASE r = ev.request
    BY <1>2, <1>4, <2>1
  <2>2. CASE r # ev.request
    BY <1>5, <2>2 DEF TrackedInOrder
  <2> QED BY <2>1, <2>2
<1> QED BY <1>6 DEF TrackedInOrder, OwnOrNone

LEMMA EventKeepsOrder ==
  ASSUME BaseOK, EventInv, SwitchInv, MapInv, OnNetworkEvent
  PROVE  MapInv'
<1> DEFINE r == Event.request
           h == Event.hop
<1>1. PICK type \in EventTypes : TakeEvent(type)
  BY EventTakes
<1>2. UNCHANGED <<settings, mode, fetch, traffic>>
  BY EventTakes
<1>3. /\ Event \in Events
      /\ \A m \in Events' : m \in Events
      /\ \A m \in Events' : m.request = r /\ OpensHop(m) /\ m.type = Event.type => h < m.hop
  BY <1>1, TakenFirst
<1>4. /\ Event \in NetMessage /\ r \in Requests /\ h \in 1..MaxHops
      /\ Event.id = <<r, h>> /\ h <= traffic[r].hop
      /\ h = traffic[r].hop /\ Event.type # "paused" => traffic[r].announced
      /\ h = traffic[r].hop /\ Event.type \notin {"willBeSent", "failed"} =>
           traffic[r].gate # "closed"
  BY <1>3, EventFacts DEF PastTheGate
<1> HIDE DEF r, h
<1>5. TrackedInOrder /\ AnnouncedInOrder /\ PausedInOrder
  BY DEF MapInv
<1>6. UNCHANGED requests => TrackedInOrder'
  BY <1>2, <1>3, <1>5 DEF TrackedInOrder, OwnOrNone
<1>7. UNCHANGED <<requests, will_be_sent, interceptions>> => AnnouncedInOrder'
  BY <1>2, <1>3, <1>5 DEF AnnouncedInOrder, Intercepted
<1>8. UNCHANGED interceptions => PausedInOrder'
  BY <1>2, <1>3, <1>5 DEF PausedInOrder
<1>9. Event.id \in OwnOrNone(r)
  BY <1>4 DEF OwnOrNone
<1>10. CASE OnFetchRequestPaused
  <2>0. Event.type = "paused"
    BY <1>10, PausedFacts DEF TakeEvent, Event
  <2>1. CASE /\ r \in DOMAIN will_be_sent
             /\ DOMAIN will_be_sent' = DOMAIN will_be_sent \ {r}
             /\ \A x \in DOMAIN will_be_sent' : will_be_sent'[x] = will_be_sent[x]
             /\ will_be_sent[r] \in NetMessage
             /\ will_be_sent[r].request = r
             /\ Track(will_be_sent[r], Event.id)
             /\ UNCHANGED interceptions
    <3>1. /\ will_be_sent[r].hop <= traffic[r].hop
          /\ will_be_sent[r].hop = traffic[r].hop => traffic[r].announced
          /\ r \in DOMAIN requests => requests[r].hop < will_be_sent[r].hop
          /\ \A m \in Events :
               m.request = r /\ m.type = "willBeSent" => will_be_sent[r].hop < m.hop
      BY <1>5, <2>1 DEF AnnouncedInOrder
    <3>2. TrackedInOrder'
      BY <1>2, <1>3, <1>5, <1>9, <2>1, <3>1, TrackKeepsOrder
    <3>3. \A x \in DOMAIN requests' : x # r => x \in DOMAIN requests /\ requests'[x] = requests[x]
      <4>1. /\ DOMAIN requests' = DOMAIN requests \cup {r}
            /\ \A x \in DOMAIN requests \ {r} : requests'[x] = requests[x]
        <5>1. Event.id \in Interception
          BY <1>4 DEF Interception
        <5> QED BY <2>1, <5>1, TrackFacts
      <4> QED BY <4>1
    <3>4. AnnouncedInOrder'
      BY <1>2, <1>3, <1>5, <2>1, <3>3 DEF AnnouncedInOrder, Intercepted
    <3> QED BY <1>8, <2>1, <3>2, <3>4 DEF MapInv
  <2>2. CASE /\ r \notin DOMAIN will_be_sent
             /\ DOMAIN interceptions' = DOMAIN interceptions \cup {r}
             /\ interceptions'[r] = Event.id
             /\ \A x \in DOMAIN interceptions \ {r} : interceptions'[x] = interceptions[x]
             /\ UNCHANGED <<requests, will_be_sent, attempted>>
    <3>1. AnnouncedInOrder'
      BY <1>2, <1>3, <1>5, <2>2 DEF AnnouncedInOrder, Intercepted
    <3>2. interceptions'[r][2] = h
      BY <1>4, <2>2
    <3>3. \A m \in Events' : m.request = r /\ m.type = "paused" => h < m.hop
      BY <1>3, <2>0 DEF OpensHop
    <3>4. ASSUME NEW x \in DOMAIN interceptions'
          PROVE  /\ interceptions'[x][2] <= traffic'[x].hop
                 /\ interceptions'[x][2] = traffic'[x].hop => traffic'[x].gate # "closed"
                 /\ \A m \in Events' :
                      m.request = x /\ m.type = "paused" => interceptions'[x][2] < m.hop
      <4>1. CASE x = r
        BY <1>2, <1>4, <2>0, <3>2, <3>3, <4>1
      <4>2. CASE x # r
        <5>1. x \in DOMAIN interceptions /\ interceptions'[x] = interceptions[x]
          BY <2>2, <4>2
        <5> QED BY <1>2, <1>3, <1>5, <5>1 DEF PausedInOrder
      <4> QED BY <4>1, <4>2
    <3>5. PausedInOrder'
      BY <3>4 DEF PausedInOrder
    <3> QED BY <1>6, <2>2, <3>1, <3>5 DEF MapInv
  <2> QED BY <1>10, <2>1, <2>2, PausedFacts DEF r
<1>11. CASE OnRequestWillBeSent
  <2>0. Event.type = "willBeSent"
    BY <1>11, WillBeSentFacts DEF TakeEvent, Event
  <2>1. /\ r \in DOMAIN requests => requests[r].hop < h
        /\ r \in DOMAIN will_be_sent => will_be_sent[r].hop < h
        /\ \A m \in Events' : m.request = r /\ m.type = "willBeSent" => h < m.hop
        /\ h = traffic[r].hop => traffic[r].announced
    BY <1>3, <1>4, <1>5, <2>0 DEF TrackedInOrder, AnnouncedInOrder, OpensHop, r, h
  <2>2. ASSUME NEW id \in OwnOrNone(r), Track(Event, id)
        PROVE  /\ TrackedInOrder'
               /\ \A x \in DOMAIN requests' :
                    x # r => x \in DOMAIN requests /\ requests'[x] = requests[x]
    <3>1. TrackedInOrder'
      BY <1>2, <1>3, <1>4, <1>5, <2>1, <2>2, TrackKeepsOrder DEF r, h
    <3>2. id \in Interception
      BY <1>4 DEF OwnOrNone, Interception
    <3>3. /\ DOMAIN requests' = DOMAIN requests \cup {r}
          /\ \A x \in DOMAIN requests \ {r} : requests'[x] = requests[x]
      BY <1>4, <2>2, <3>2, TrackFacts DEF r
    <3> QED BY <3>1, <3>3
  <2>3. CASE /\ Intercepted(r) /\ r \in DOMAIN interceptions
             /\ DOMAIN interceptions' = DOMAIN interceptions \ {r}
             /\ \A x \in DOMAIN interceptions' : interceptions'[x] = interceptions[x]
             /\ Track(Event, interceptions[r])
             /\ UNCHANGED will_be_sent
    <3>1. interceptions[r] \in OwnOrNone(r)
      BY <2>3 DEF OwnOrNone, BaseOK, MapsOK, Hops
    <3>2. r \notin DOMAIN will_be_sent
      BY <1>5, <2>3 DEF AnnouncedInOrder
    <3>3. AnnouncedInOrder'
      BY <1>2, <1>3, <1>5, <2>2, <2>3, <3>1, <3>2 DEF AnnouncedInOrder, Intercepted
    <3>4. PausedInOrder'
      BY <1>2, <1>3, <1>5, <2>3 DEF PausedInOrder
    <3> QED BY <2>2, <2>3, <3>1, <3>3, <3>4 DEF MapInv
  <2>4. CASE /\ Intercepted(r) /\ r \notin DOMAIN interceptions
             /\ DOMAIN will_be_sent' = DOMAIN will_be_sent \cup {r}
             /\ will_be_sent'[r] = Event
             /\ \A x \in DOMAIN will_be_sent \ {r} : will_be_sent'[x] = will_be_sent[x]
             /\ UNCHANGED <<requests, interceptions, attempted>>
    <3>1. ASSUME NEW x \in DOMAIN will_be_sent'
          PROVE  /\ will_be_sent'[x].hop <= traffic'[x].hop
                 /\ will_be_sent'[x].hop = traffic'[x].hop => traffic'[x].announced
                 /\ x \notin DOMAIN interceptions' /\ Intercepted(x)'
                 /\ x \in DOMAIN requests' => requests'[x].hop < will_be_sent'[x].hop
                 /\ \A m \in Events' :
                      m.request = x /\ m.type = "willBeSent" => will_be_sent'[x].hop < m.hop
      <4>1. Intercepted(x)' <=> Intercepted(x)
        BY <1>2 DEF Intercepted
      <4>2. CASE x = r
        <5>1. will_be_sent'[x].hop = h
          BY <2>4, <4>2 DEF h
        <5> QED BY <1>2, <1>4, <2>1, <2>4, <4>1, <4>2, <5>1
      <4>3. CASE x # r
        <5>1. x \in DOMAIN will_be_sent /\ will_be_sent'[x] = will_be_sent[x]
          BY <2>4, <4>3
        <5> QED BY <1>2, <1>3, <1>5, <2>4, <4>1, <5>1 DEF AnnouncedInOrder
      <4> QED BY <4>2, <4>3
    <3>2. AnnouncedInOrder'
      BY <3>1 DEF AnnouncedInOrder, Intercepted
    <3> QED BY <1>6, <1>8, <2>4, <3>2 DEF MapInv
  <2>5. CASE /\ ~Intercepted(r) /\ Track(Event, NoInterception)
             /\ UNCHANGED <<will_be_sent, interceptions>>
    <3>1. NoInterception \in OwnOrNone(r)
      BY DEF OwnOrNone
    <3>2. r \notin DOMAIN will_be_sent
      BY <1>5, <2>5 DEF AnnouncedInOrder
    <3>3. AnnouncedInOrder'
      BY <1>2, <1>3, <1>5, <2>2, <2>5, <3>1, <3>2 DEF AnnouncedInOrder, Intercepted
    <3> QED BY <1>8, <2>2, <2>5, <3>1, <3>3 DEF MapInv
  <2> QED BY <1>11, <2>3, <2>4, <2>5, WillBeSentFacts DEF r
<1>12. CASE OnFetchAuthRequired
  <2>1. UNCHANGED <<requests, will_be_sent, interceptions>>
    BY <1>12, AuthFacts
  <2> QED BY <1>6, <1>7, <1>8, <2>1 DEF MapInv
<1>13. CASE OnRequestEnds
  <2>1. /\ UNCHANGED <<will_be_sent, interceptions>>
        /\ \A x \in DOMAIN requests' : x \in DOMAIN requests /\ requests'[x] = requests[x]
    BY <1>13, EndFacts
  <2>2. TrackedInOrder'
    BY <1>2, <1>3, <1>5, <2>1 DEF TrackedInOrder, OwnOrNone
  <2>3. AnnouncedInOrder'
    BY <1>2, <1>3, <1>5, <2>1 DEF AnnouncedInOrder, Intercepted
  <2> QED BY <1>8, <2>1, <2>2, <2>3 DEF MapInv
<1> QED BY <1>10, <1>11, <1>12, <1>13 DEF OnNetworkEvent

-----------------------------------------------------------------------------
(* Pauses and announcements meet *)

Flying(type, r, h) == \E m \in Events : m.type = type /\ m.request = r /\ m.hop = h

\* The announcement, the pause of hop h of r is still to be handled.
AnnouncementComes(r, h) ==
  \/ Flying("willBeSent", r, h)
  \/ h = traffic[r].hop /\ ~traffic[r].announced
PauseComes(r, h) ==
  \/ Flying("paused", r, h)
  \/ h = traffic[r].hop /\ traffic[r].gate = "closed"

\* The announcement, the pause has been handled and waits for the other.
Announced(r, h) == r \in DOMAIN will_be_sent /\ will_be_sent[r].hop = h
Remembered(r, h) == r \in DOMAIN interceptions /\ interceptions[r][2] = h

PartnersMeet(r) ==
  /\ \A h \in 1..MaxHops :
       /\ Announced(r, h) => PauseComes(r, h)
       /\ Remembered(r, h) => AnnouncementComes(r, h)
       /\ AnnouncementComes(r, h) => PauseComes(r, h) \/ Remembered(r, h)
       /\ PauseComes(r, h) => AnnouncementComes(r, h) \/ Announced(r, h)
  /\ r \in DOMAIN requests => requests[r].interception = <<r, requests[r].hop>>

NothingToPair(r) ==
  /\ r \notin DOMAIN will_be_sent /\ r \notin DOMAIN interceptions
  /\ \A h \in 1..MaxHops : ~PauseComes(r, h)
  /\ r \in DOMAIN requests => requests[r].interception = NoInterception

Paired(r) ==
  /\ Intercepted(r) => PartnersMeet(r)
  /\ ~Intercepted(r) => NothingToPair(r)

PairInv == \A r \in Requests : Steady(r) /\ traffic[r].hop > 0 => Paired(r)

\* A steady request while the manager handles nothing: what is to come of it stays, or it
\* has a new hop.
LEMMA ElsewherePairs ==
  ASSUME BaseOK, EventInv, SwitchInv, NetworkNext, ~OnNetworkEvent,
         NEW r \in Requests, Steady(r)', traffic'[r].hop > 0
  PROVE  /\ Steady(r) /\ ~UsersMode /\ (Intercepted(r)' <=> Intercepted(r))
         /\ \/ /\ traffic'[r].hop = traffic[r].hop
               /\ \A h \in 1..MaxHops :
                    /\ AnnouncementComes(r, h)' <=> AnnouncementComes(r, h)
                    /\ PauseComes(r, h)' <=> PauseComes(r, h)
            \/ Starts(r)
<1>0. traffic \in [Requests -> Traffic] /\ traffic' \in [Requests -> Traffic]
  BY BaseStep DEF BaseOK
<1>1. CASE \E m \in Modes, cache \in BOOLEAN : Create(m, cache)
  <2>1. traffic' = traffic /\ traffic[r].hop = 0
    BY <1>1 DEF Create, browserState, SwitchInv, UntouchedBefore, Idle
  <2> QED BY <2>1
<1>2. CASE Authenticate
  <2>1. traffic'[r].steady => traffic'[r].hop = 0
    BY <1>2, AuthenticateFacts
  <2> QED BY <2>1 DEF Steady
<1>3. CASE BrowserServes \/ UserStep
  <2>1. UNCHANGED <<settings, messages, mode>> /\ GatesOpen /\ SteadySame
    BY <1>3, ServeFacts, UserFacts DEF managerState
  <2>2. Steady(r) /\ ~UsersMode
    BY <2>1 DEF Steady, SteadySame, UsersMode
  <2>3. traffic[r].gate = "closed" => traffic'[r].gate = "closed"
    <3>1. CASE BrowserServes
      <4>1. 1 \in 1..Len(commands) /\ Head(commands) = commands[1]
        BY <3>1, ServeFacts
      <4>2. Head(commands).name # "disable"
        BY <4>1 DEF SwitchInv, SettingsOK
      <4> QED BY <3>1, <4>2, ServeFacts
    <3>2. CASE UserStep
      BY <2>2, <3>2, UserFacts DEF UsersMode
    <3> QED BY <1>3, <3>1, <3>2
  <2>4. /\ traffic'[r].hop = traffic[r].hop /\ traffic'[r].announced = traffic[r].announced
        /\ traffic'[r].gate = "closed" <=> traffic[r].gate = "closed"
    BY <2>1, <2>3 DEF GatesOpen
  <2> QED BY <2>1, <2>2, <2>4 DEF AnnouncementComes, PauseComes, Flying, Events, Intercepted
<1>4. CASE BrowserStep
  <2>1. UNCHANGED <<settings, mode>>
    BY <1>4, BrowserSteps DEF managerState
  <2>2. PICK x \in Requests : (\E type \in EventTypes : Emits(type, x)) \/ Starts(x)
    BY <1>4, BrowserSteps
  <2>3. CASE Starts(x)
    <3>1. UNCHANGED messages /\ (x # r => traffic'[r] = traffic[r])
      BY <2>3 DEF Starts
    <3>2. CASE x # r
      BY <2>1, <3>1, <3>2
         DEF AnnouncementComes, PauseComes, Flying, Events, Intercepted, Steady, UsersMode
    <3>3. CASE x = r
      <4>1. traffic[r].steady
        BY <2>3, <3>3 DEF Starts, Steady
      <4> QED BY <2>1, <2>3, <3>3, <4>1 DEF Intercepted, Steady, UsersMode
    <3> QED BY <3>2, <3>3
  <2>4. CASE \E type \in EventTypes : Emits(type, x)
    <3>1. PICK type \in EventTypes : Emits(type, x)
      BY <2>4
    <3>2. \A m : m \in Events' <=> m \in Events \/ m = Message(type, x)
      BY <3>1, EmitSets
    <3>3. /\ Message(type, x).type = type /\ Message(type, x).request = x
          /\ Message(type, x).hop = traffic[x].hop
      BY <3>1, EmitFacts
    <3>4. ASSUME NEW t, NEW h
          PROVE  Flying(t, r, h)' <=>
                   Flying(t, r, h) \/ (x = r /\ t = type /\ h = traffic[r].hop)
      BY <3>2, <3>3 DEF Flying
    <3>5. /\ traffic'[r].hop = traffic[r].hop /\ traffic'[r].steady = traffic[r].steady
      BY <3>1 DEF Emits
    <3>6. ASSUME NEW h \in 1..MaxHops
          PROVE  /\ AnnouncementComes(r, h)' <=> AnnouncementComes(r, h)
                 /\ PauseComes(r, h)' <=> PauseComes(r, h)
      <4>1. CASE x # r
        <5>1. traffic'[r] = traffic[r]
          BY <3>1, <4>1 DEF Emits
        <5> QED BY <3>4, <4>1, <5>1 DEF AnnouncementComes, PauseComes
      <4>2. CASE x = r
        <5>1. /\ type = "willBeSent" => ~traffic[r].announced /\ traffic'[r].announced
              /\ type # "willBeSent" => (traffic'[r].announced <=> traffic[r].announced)
              /\ type = "paused" => traffic[r].gate = "closed" /\ traffic'[r].gate # "closed"
              /\ type # "paused" => (traffic'[r].gate = "closed" <=> traffic[r].gate = "closed")
          BY <3>1, <4>2 DEF Emits, EventTypes
        <5>2. AnnouncementComes(r, h)' <=> AnnouncementComes(r, h)
          BY <3>4, <3>5, <4>2, <5>1 DEF AnnouncementComes
        <5>3. PauseComes(r, h)' <=> PauseComes(r, h)
          BY <3>4, <3>5, <4>2, <5>1 DEF PauseComes
        <5> QED BY <5>2, <5>3
      <4> QED BY <4>1, <4>2
    <3> QED BY <2>1, <3>5, <3>6 DEF Intercepted, Steady, UsersMode
  <2> QED BY <2>2, <2>3, <2>4
<1> QED BY <1>1, <1>2, <1>3, <1>4 DEF NetworkNext

LEMMA ElsewhereKeepsPairs ==
  ASSUME BaseOK, EventInv, SwitchInv, MapInv, PairInv, NetworkNext, ~OnNetworkEvent
  PROVE  PairInv'
<1> SUFFICES ASSUME NEW r \in Requests, Steady(r)', traffic'[r].hop > 0
             PROVE  Paired(r)'
  BY DEF PairInv
<1>0. BaseOK' /\ SwitchInv' /\ EventInv'
  BY BaseStep, SwitchStep, EventStep
<1>1. /\ Steady(r) /\ ~UsersMode /\ (Intercepted(r)' <=> Intercepted(r))
      /\ \/ /\ traffic'[r].hop = traffic[r].hop
            /\ \A h \in 1..MaxHops :
                 /\ AnnouncementComes(r, h)' <=> AnnouncementComes(r, h)
                 /\ PauseComes(r, h)' <=> PauseComes(r, h)
         \/ Starts(r)
  BY ElsewherePairs
<1>2. UNCHANGED <<requests, will_be_sent, interceptions, attempted, reported>>
  BY ElsewhereFacts
<1>3. /\ \A h : Announced(r, h)' <=> Announced(r, h)
      /\ \A h : Remembered(r, h)' <=> Remembered(r, h)
  BY <1>2 DEF Announced, Remembered
<1>4. CASE /\ traffic'[r].hop = traffic[r].hop
           /\ \A h \in 1..MaxHops :
                /\ AnnouncementComes(r, h)' <=> AnnouncementComes(r, h)
                /\ PauseComes(r, h)' <=> PauseComes(r, h)
  <2>1. Paired(r)
    BY <1>1, <1>4 DEF PairInv
  <2>2. CASE Intercepted(r)
    <3>1. PartnersMeet(r)'
      BY <1>2, <1>3, <1>4, <2>1, <2>2 DEF Paired, PartnersMeet
    <3> QED BY <1>1, <2>2, <3>1 DEF Paired
  <2>3. CASE ~Intercepted(r)
    <3>1. NothingToPair(r)'
      BY <1>2, <1>4, <2>1, <2>3 DEF Paired, NothingToPair
    <3> QED BY <1>1, <2>3, <3>1 DEF Paired
  <2> QED BY <2>2, <2>3
<1>5. CASE Starts(r)
  <2>0. traffic[r].hop + 1 \in Nat
    BY DEF BaseOK, Traffic
  <2>a. PICK k \in Nat : k = traffic[r].hop + 1
    BY <2>0
  <2>1. /\ traffic'[r].hop = k /\ traffic[r].hop \in Nat /\ ~traffic'[r].announced
        /\ traffic[r].hop > 0 => traffic[r].announced /\ traffic[r].gate \in {"open", "through"}
    BY <1>0, <1>5, <2>a, StartFacts DEF BaseOK
  <2>2. UNCHANGED messages
    BY <1>5 DEF Starts
  <2>3. traffic'[r].gate \in {"open", "closed"}
    BY <1>0, <1>5, StartFacts DEF BaseOK
  <2>4. Intercepted(r) <=> traffic'[r].gate = "closed"
    <3>1. ~UsersMode'
      BY <1>0 DEF Steady, UsersMode
    <3>2. Intercepted(r)' <=> traffic'[r].gate # "open"
      BY <1>0, <3>1 DEF SwitchInv, BothAgree, Steady
    <3> QED BY <1>1, <2>3, <3>2
  <2>5. \A m \in Events : m.request = r => m.hop \in 1..MaxHops /\ m.hop <= traffic[r].hop
    BY EventFacts
  <2>6. \A t : ~Flying(t, r, k)
    BY <2>1, <2>5, <2>a DEF Flying
  <2>7. \A t, h : Flying(t, r, h)' <=> Flying(t, r, h)
    BY <2>2 DEF Flying, Events
  <2>8. /\ r \in DOMAIN requests => requests[r].hop \in 1..MaxHops /\ requests[r].hop <= traffic[r].hop
        /\ \A h : Announced(r, h) => h \in 1..MaxHops /\ h <= traffic[r].hop
        /\ \A h : Remembered(r, h) => h \in 1..MaxHops /\ h <= traffic[r].hop
    BY DEF BaseOK, MapsOK, Tracked, NetMessage, Hops, MapInv, TrackedInOrder,
         AnnouncedInOrder, PausedInOrder, Announced, Remembered
  <2>9. \A h \in 1..MaxHops : h # k =>
          /\ AnnouncementComes(r, h)' <=> Flying("willBeSent", r, h)
          /\ PauseComes(r, h)' <=> Flying("paused", r, h)
    BY <2>1, <2>7 DEF AnnouncementComes, PauseComes
  <2>10. AnnouncementComes(r, k)' /\ (PauseComes(r, k)' <=> Intercepted(r))
         /\ ~Announced(r, k) /\ ~Remembered(r, k)
    <3>1. \A h : h = k => AnnouncementComes(r, h)' /\ (PauseComes(r, h)' <=> Intercepted(r))
      BY <2>1, <2>4, <2>6, <2>7 DEF AnnouncementComes, PauseComes
    <3> QED BY <2>1, <2>8, <2>a, <3>1
  <2>11. CASE traffic[r].hop = 0
    <3>1. /\ r \notin DOMAIN requests
          /\ \A h \in 1..MaxHops :
               ~Announced(r, h) /\ ~Remembered(r, h) /\ \A t : ~Flying(t, r, h)
      BY <2>5, <2>8, <2>11 DEF Flying
    <3>2. r \notin DOMAIN will_be_sent /\ r \notin DOMAIN interceptions
      BY <2>8, <2>11 DEF Announced, Remembered
    <3>3. CASE Intercepted(r)
      <4>1. PartnersMeet(r)'
        BY <1>2, <1>3, <2>9, <2>10, <3>1, <3>3 DEF PartnersMeet
      <4> QED BY <1>1, <3>3, <4>1 DEF Paired
    <3>4. CASE ~Intercepted(r)
      <4>1. NothingToPair(r)'
        BY <1>2, <2>9, <2>10, <3>1, <3>2, <3>4 DEF NothingToPair
      <4> QED BY <1>1, <3>4, <4>1 DEF Paired
    <3> QED BY <3>3, <3>4
  <2>12. CASE traffic[r].hop > 0
    <3>1. \A h \in 1..MaxHops : h # k =>
            /\ AnnouncementComes(r, h)' <=> AnnouncementComes(r, h)
            /\ PauseComes(r, h)' <=> PauseComes(r, h)
      BY <2>1, <2>9, <2>12 DEF AnnouncementComes, PauseComes
    <3>2. Paired(r)
      BY <1>1, <2>12 DEF PairInv
    <3>3. CASE Intercepted(r)
      <4>1. PartnersMeet(r)'
        BY <1>2, <1>3, <2>10, <3>1, <3>2, <3>3 DEF Paired, PartnersMeet
      <4> QED BY <1>1, <3>3, <4>1 DEF Paired
    <3>4. CASE ~Intercepted(r)
      <4>1. NothingToPair(r)'
        BY <1>2, <2>10, <3>1, <3>2, <3>4 DEF Paired, NothingToPair
      <4> QED BY <1>1, <3>4, <4>1 DEF Paired
    <3> QED BY <3>3, <3>4
  <2> QED BY <2>1, <2>11, <2>12
<1> QED BY <1>1, <1>4, <1>5

\* The same while the manager handles an event.
LEMMA TakenPairs ==
  ASSUME BaseOK, EventInv, NEW type \in EventTypes, TakeEvent(type), UNCHANGED traffic
  PROVE  /\ \A t, x, h : Flying(t, x, h)' => Flying(t, x, h)
         /\ \A t, x, h : Flying(t, x, h) =>
              Flying(t, x, h)' \/ (t = type /\ x = Event.request /\ h = Event.hop)
         /\ \A t, x, h : x = Event.request /\ Flying(t, x, h)' =>
              /\ Event.hop <= h
              /\ type \in {"willBeSent", "paused"} /\ t = type => Event.hop < h
         /\ \A x \in Requests : \A h : Flying("willBeSent", x, h) =>
              /\ h \in 1..MaxHops /\ h <= traffic[x].hop
              /\ h = traffic[x].hop => traffic[x].announced
         /\ \A x \in Requests : \A h : Flying("paused", x, h) =>
              /\ h \in 1..MaxHops /\ h <= traffic[x].hop
              /\ h = traffic[x].hop => traffic[x].gate # "closed"
         /\ Flying(type, Event.request, Event.hop)
         /\ Event.request \in Requests /\ Event.hop \in 1..MaxHops
         /\ Event.id = <<Event.request, Event.hop>>
<1>1. /\ Event \in Events /\ Event.type = type
      /\ \A m \in Events' : m \in Events
      /\ \A m \in Events : m = Event \/ m \in Events'
      /\ \A m \in Events' : m.request = Event.request =>
           /\ Event.hop <= m.hop
           /\ OpensHop(m) /\ Event.type = m.type => Event.hop < m.hop
  BY TakenFirst
<1>2. \A t, x, h : x = Event.request /\ Flying(t, x, h)' =>
        /\ Event.hop <= h
        /\ type \in {"willBeSent", "paused"} /\ t = type => Event.hop < h
  BY <1>1 DEF Flying, OpensHop
<1>3. /\ \A t, x, h : Flying(t, x, h)' => Flying(t, x, h)
      /\ \A t, x, h : Flying(t, x, h) =>
           Flying(t, x, h)' \/ (t = type /\ x = Event.request /\ h = Event.hop)
      /\ Flying(type, Event.request, Event.hop)
  BY <1>1 DEF Flying
<1>4. ASSUME NEW x \in Requests, NEW h, NEW t, Flying(t, x, h)
      PROVE  /\ h \in 1..MaxHops /\ h <= traffic[x].hop
             /\ h = traffic[x].hop /\ t # "paused" => traffic[x].announced
             /\ h = traffic[x].hop /\ t \notin {"willBeSent", "failed"} => traffic[x].gate # "closed"
  BY <1>4, EventFacts DEF Flying, PastTheGate
<1>5. /\ Event.request \in Requests /\ Event.hop \in 1..MaxHops
      /\ Event.id = <<Event.request, Event.hop>>
  BY <1>1, EventFacts
<1> QED BY <1>2, <1>3, <1>4, <1>5

\* An event of one request leaves what the manager's maps hold of the others.
LEMMA OthersKept ==
  ASSUME BaseOK, OnNetworkEvent, NEW x, x # Event.request
  PROVE  /\ x \in DOMAIN requests' <=> x \in DOMAIN requests
         /\ x \in DOMAIN requests => requests'[x] = requests[x]
         /\ x \in DOMAIN will_be_sent' <=> x \in DOMAIN will_be_sent
         /\ x \in DOMAIN will_be_sent => will_be_sent'[x] = will_be_sent[x]
         /\ x \in DOMAIN interceptions' <=> x \in DOMAIN interceptions
         /\ x \in DOMAIN interceptions => interceptions'[x] = interceptions[x]
<1>1. PICK type : TakeEvent(type)
  BY EventTakes
<1>2. /\ Event \in NetMessage /\ Event.request \in Requests
      /\ Event.id \in Interception /\ NoInterception \in Interception
  <2>1. /\ Event \in NetMessage /\ Event.request \in Requests /\ Event.hop \in 1..MaxHops
        /\ Event.id = <<Event.request, Event.hop>>
    BY <1>1, TakeFacts
  <2> QED BY <2>1 DEF Interception
<1>3. ASSUME NEW ev \in NetMessage, NEW id \in Interception, ev.request = Event.request,
             Track(ev, id)
      PROVE  /\ x \in DOMAIN requests' <=> x \in DOMAIN requests
             /\ x \in DOMAIN requests => requests'[x] = requests[x]
  BY <1>3, TrackFacts
<1>4. CASE OnFetchRequestPaused
  BY <1>2, <1>3, <1>4, PausedFacts
<1>5. CASE OnRequestWillBeSent
  BY <1>2, <1>3, <1>5, WillBeSentFacts
<1>6. CASE OnFetchAuthRequired \/ OnRequestEnds
  BY <1>6, AuthFacts, EndFacts
<1> QED BY <1>4, <1>5, <1>6 DEF OnNetworkEvent

LEMMA PausedKeepsPairs ==
  ASSUME BaseOK, EventInv, SwitchInv, MapInv, OnFetchRequestPaused,
         UNCHANGED <<settings, traffic>>, NEW r, r = Event.request, PartnersMeet(r)
  PROVE  PartnersMeet(r)'
<1>1. TakeEvent("paused") /\ "paused" \in EventTypes
  BY PausedFacts DEF EventTypes
<1>2. PICK h \in 1..MaxHops : h = Event.hop /\ Event.id = <<r, h>> /\ r \in Requests
  BY <1>1, TakenPairs
<1>3. /\ \A t, x, k : Flying(t, x, k)' => Flying(t, x, k)
      /\ \A t, x, k : Flying(t, x, k) =>
           Flying(t, x, k)' \/ (t = "paused" /\ x = Event.request /\ k = Event.hop)
      /\ \A t, x, k : x = Event.request /\ Flying(t, x, k)' =>
           /\ Event.hop <= k
           /\ t = "paused" => Event.hop < k
      /\ Flying("paused", r, h) /\ h <= traffic[r].hop
      /\ h = traffic[r].hop => traffic[r].gate # "closed"
  BY <1>1, <1>2, TakenPairs
<1>4. /\ \A k \in 1..MaxHops : AnnouncementComes(r, k)' <=> AnnouncementComes(r, k)
      /\ \A k \in 1..MaxHops : PauseComes(r, k)' <=> PauseComes(r, k) /\ k # h
      /\ PauseComes(r, h)
  <2>1. \A k : Flying("willBeSent", r, k)' <=> Flying("willBeSent", r, k)
    BY <1>3
  <2>2. \A k \in 1..MaxHops : Flying("paused", r, k)' <=> Flying("paused", r, k) /\ k # h
    BY <1>2, <1>3
  <2>3. \A k \in 1..MaxHops : AnnouncementComes(r, k)' <=> AnnouncementComes(r, k)
    BY <2>1 DEF AnnouncementComes
  <2>4. \A k \in 1..MaxHops : PauseComes(r, k)' <=> PauseComes(r, k) /\ k # h
    BY <1>3, <2>2 DEF PauseComes
  <2> QED BY <1>3, <2>3, <2>4 DEF PauseComes
<1>5. /\ traffic[r].hop \in Nat
      /\ r \in DOMAIN interceptions => interceptions[r][2] \in 1..MaxHops
      /\ r \in DOMAIN will_be_sent => will_be_sent[r].hop \in 1..MaxHops
  BY <1>2 DEF BaseOK, MapsOK, Traffic, Hops, NetMessage
<1>6. /\ \A k \in 1..MaxHops :
           /\ Announced(r, k) => PauseComes(r, k)
           /\ Remembered(r, k) => AnnouncementComes(r, k)
           /\ AnnouncementComes(r, k) => PauseComes(r, k) \/ Remembered(r, k)
           /\ PauseComes(r, k) => AnnouncementComes(r, k) \/ Announced(r, k)
      /\ r \in DOMAIN requests => requests[r].interception = <<r, requests[r].hop>>
  BY DEF PartnersMeet
<1>7. ASSUME NEW k \in 1..MaxHops, AnnouncementComes(r, k)
      PROVE  h <= k
  BY <1>2, <1>3, <1>5, <1>7 DEF AnnouncementComes
<1>8. CASE /\ r \in DOMAIN will_be_sent
           /\ DOMAIN will_be_sent' = DOMAIN will_be_sent \ {r}
           /\ will_be_sent[r] \in NetMessage
           /\ will_be_sent[r].request = r
           /\ Track(will_be_sent[r], Event.id)
           /\ UNCHANGED interceptions
  <2>1. PICK k \in 1..MaxHops : k = will_be_sent[r].hop
    BY <1>5, <1>8
  <2>2. /\ k <= traffic[r].hop /\ (k = traffic[r].hop => traffic[r].announced)
        /\ r \notin DOMAIN interceptions
        /\ \A m \in Events : m.request = r /\ m.type = "willBeSent" => k < m.hop
    BY <1>8, <2>1 DEF MapInv, AnnouncedInOrder
  <2>3. \A j \in 1..MaxHops : AnnouncementComes(r, j) => k < j
    BY <1>5, <2>2 DEF AnnouncementComes, Flying
  \* Otherwise the pause of hop k would be on its way after that of h, and the announcement
  \* of h behind that of k.
  <2>4. k = h
    <3> SUFFICES ASSUME k # h
                 PROVE  FALSE
      OBVIOUS
    <3>1. Announced(r, k) /\ ~Announced(r, h)
      BY <1>8, <2>1 DEF Announced
    <3>2. PauseComes(r, k) /\ AnnouncementComes(r, h)
      BY <1>4, <1>6, <3>1
    <3>3. Flying("paused", r, k)' \/ k = traffic[r].hop
      BY <1>2, <1>3, <3>2 DEF PauseComes
    <3>4. h < k
      BY <1>2, <1>3, <1>5, <3>3
    <3> QED BY <2>3, <3>2, <3>4
  <2>5. requests'[r].hop = h /\ requests'[r].interception = <<r, h>>
    <3>1. Event.id \in Interception
      BY <1>2 DEF Interception
    <3>2. PICK ev \in NetMessage : ev.request = r /\ ev.hop = h /\ Track(ev, Event.id)
      BY <1>8, <2>1, <2>4
    <3>3. requests'[ev.request].hop = ev.hop /\ requests'[ev.request].interception = Event.id
      BY <3>1, <3>2, TrackFacts
    <3> QED BY <1>2, <3>2, <3>3
  <2>6. ASSUME NEW j \in 1..MaxHops
        PROVE  /\ ~Announced(r, j)' /\ ~Remembered(r, j)' /\ ~Remembered(r, j)
               /\ Announced(r, j) => j = h
    BY <1>8, <2>1, <2>2, <2>4 DEF Announced, Remembered
  <2>7. ~AnnouncementComes(r, h)
    BY <2>3, <2>4
  <2> QED BY <1>4, <1>6, <2>5, <2>6, <2>7 DEF PartnersMeet
<1>9. CASE /\ r \notin DOMAIN will_be_sent
           /\ DOMAIN interceptions' = DOMAIN interceptions \cup {r}
           /\ interceptions'[r] = Event.id
           /\ UNCHANGED <<requests, will_be_sent, attempted>>
  <2>1. ASSUME NEW j \in 1..MaxHops
        PROVE  ~Announced(r, j)' /\ ~Announced(r, j) /\ (Remembered(r, j)' <=> j = h)
    BY <1>2, <1>9 DEF Announced, Remembered
  \* No other pause is remembered: its announcement would be on its way behind this pause.
  <2>2. \A j \in 1..MaxHops : j # h => ~Remembered(r, j)
    <3> SUFFICES ASSUME NEW j \in 1..MaxHops, Remembered(r, j)
                 PROVE  h <= j /\ j < h
      OBVIOUS
    <3>1. j < h
      BY <1>3 DEF MapInv, PausedInOrder, Remembered, Flying
    <3> QED BY <1>6, <1>7, <3>1
  <2> QED BY <1>4, <1>6, <1>9, <2>1, <2>2 DEF PartnersMeet
<1> QED BY <1>8, <1>9, PausedFacts

LEMMA WillBeSentKeepsPairs ==
  ASSUME BaseOK, EventInv, SwitchInv, MapInv, OnRequestWillBeSent,
         UNCHANGED <<settings, traffic>>, NEW r, r = Event.request, Intercepted(r),
         PartnersMeet(r)
  PROVE  PartnersMeet(r)'
<1>1. TakeEvent("willBeSent") /\ "willBeSent" \in EventTypes /\ Event \in NetMessage
  BY WillBeSentFacts DEF EventTypes
<1>2. PICK h \in 1..MaxHops : h = Event.hop /\ r \in Requests
  BY <1>1, TakenPairs
<1>3. /\ \A t, x, k : Flying(t, x, k)' => Flying(t, x, k)
      /\ \A t, x, k : Flying(t, x, k) =>
           Flying(t, x, k)' \/ (t = "willBeSent" /\ x = Event.request /\ k = Event.hop)
      /\ \A t, x, k : x = Event.request /\ Flying(t, x, k)' =>
           /\ Event.hop <= k
           /\ t = "willBeSent" => Event.hop < k
      /\ Flying("willBeSent", r, h) /\ h <= traffic[r].hop
      /\ h = traffic[r].hop => traffic[r].announced
  BY <1>1, <1>2, TakenPairs
<1>4. /\ \A k \in 1..MaxHops : PauseComes(r, k)' <=> PauseComes(r, k)
      /\ \A k \in 1..MaxHops : AnnouncementComes(r, k)' <=> AnnouncementComes(r, k) /\ k # h
      /\ AnnouncementComes(r, h)
  <2>1. \A k : Flying("paused", r, k)' <=> Flying("paused", r, k)
    BY <1>3
  <2>2. \A k \in 1..MaxHops :
          Flying("willBeSent", r, k)' <=> Flying("willBeSent", r, k) /\ k # h
    BY <1>2, <1>3
  <2>3. \A k \in 1..MaxHops : PauseComes(r, k)' <=> PauseComes(r, k)
    BY <2>1 DEF PauseComes
  <2>4. \A k \in 1..MaxHops : AnnouncementComes(r, k)' <=> AnnouncementComes(r, k) /\ k # h
    BY <1>3, <2>2 DEF AnnouncementComes
  <2> QED BY <1>3, <2>3, <2>4 DEF AnnouncementComes
<1>5. /\ traffic[r].hop \in Nat
      /\ r \in DOMAIN interceptions =>
           /\ interceptions[r][2] \in 1..MaxHops
           /\ interceptions[r] = <<r, interceptions[r][2]>>
           /\ interceptions[r] \in Interception
      /\ r \in DOMAIN will_be_sent => will_be_sent[r].hop \in 1..MaxHops
  BY <1>2 DEF BaseOK, MapsOK, Traffic, Hops, NetMessage, Interception
<1>6. /\ \A k \in 1..MaxHops :
           /\ Announced(r, k) => PauseComes(r, k)
           /\ Remembered(r, k) => AnnouncementComes(r, k)
           /\ AnnouncementComes(r, k) => PauseComes(r, k) \/ Remembered(r, k)
           /\ PauseComes(r, k) => AnnouncementComes(r, k) \/ Announced(r, k)
      /\ r \in DOMAIN requests => requests[r].interception = <<r, requests[r].hop>>
  BY DEF PartnersMeet
<1>7. ASSUME NEW k \in 1..MaxHops, PauseComes(r, k)
      PROVE  h <= k
  BY <1>2, <1>3, <1>5, <1>7 DEF PauseComes
<1>8. CASE /\ r \in DOMAIN interceptions
           /\ DOMAIN interceptions' = DOMAIN interceptions \ {r}
           /\ Track(Event, interceptions[r])
           /\ UNCHANGED will_be_sent
  <2>1. PICK k \in 1..MaxHops : k = interceptions[r][2]
    BY <1>5, <1>8
  <2>2. /\ k <= traffic[r].hop /\ (k = traffic[r].hop => traffic[r].gate # "closed")
        /\ \A m \in Events : m.request = r /\ m.type = "paused" => k < m.hop
    BY <1>8, <2>1 DEF MapInv, PausedInOrder
  <2>3. r \notin DOMAIN will_be_sent
    BY <1>8 DEF MapInv, AnnouncedInOrder
  <2>4. \A j \in 1..MaxHops : PauseComes(r, j) => k < j
    BY <1>5, <2>2 DEF PauseComes, Flying
  \* Otherwise the announcement of hop k would be on its way after that of h, and the pause
  \* of h behind that of k.
  <2>5. k = h
    <3> SUFFICES ASSUME k # h
                 PROVE  FALSE
      OBVIOUS
    <3>1. Remembered(r, k) /\ ~Remembered(r, h)
      BY <1>8, <2>1 DEF Remembered
    <3>2. AnnouncementComes(r, k) /\ PauseComes(r, h)
      BY <1>4, <1>6, <3>1
    <3>3. Flying("willBeSent", r, k)' \/ k = traffic[r].hop
      BY <1>2, <1>3, <3>2 DEF AnnouncementComes
    <3>4. h < k
      BY <1>2, <1>3, <1>5, <3>3
    <3> QED BY <2>4, <3>2, <3>4
  <2>6. requests'[r].hop = h /\ requests'[r].interception = <<r, h>>
    BY <1>1, <1>2, <1>5, <1>8, <2>1, <2>5, TrackFacts
  <2>7. ASSUME NEW j \in 1..MaxHops
        PROVE  /\ ~Announced(r, j)' /\ ~Announced(r, j) /\ ~Remembered(r, j)'
               /\ Remembered(r, j) => j = h
    BY <1>8, <2>1, <2>3, <2>5 DEF Announced, Remembered
  <2>8. ~PauseComes(r, h)
    BY <2>4, <2>5
  <2> QED BY <1>4, <1>6, <2>6, <2>7, <2>8 DEF PartnersMeet
<1>9. CASE /\ r \notin DOMAIN interceptions
           /\ DOMAIN will_be_sent' = DOMAIN will_be_sent \cup {r}
           /\ will_be_sent'[r] = Event
           /\ UNCHANGED <<requests, interceptions, attempted>>
  <2>1. ASSUME NEW j \in 1..MaxHops
        PROVE  ~Remembered(r, j)' /\ ~Remembered(r, j) /\ (Announced(r, j)' <=> j = h)
    BY <1>2, <1>9 DEF Announced, Remembered
  \* No other announcement waits: its pause would be on its way behind this announcement.
  <2>2. \A j \in 1..MaxHops : j # h => ~Announced(r, j)
    <3> SUFFICES ASSUME NEW j \in 1..MaxHops, Announced(r, j)
                 PROVE  h <= j /\ j < h
      OBVIOUS
    <3>1. j < h
      BY <1>3 DEF MapInv, AnnouncedInOrder, Announced, Flying
    <3> QED BY <1>6, <1>7, <3>1
  <2> QED BY <1>4, <1>6, <1>9, <2>1, <2>2 DEF PartnersMeet
<1> QED BY <1>8, <1>9, WillBeSentFacts

LEMMA EventKeepsPairs ==
  ASSUME BaseOK, EventInv, SwitchInv, MapInv, PairInv, OnNetworkEvent
  PROVE  PairInv'
<1>1. PICK type \in EventTypes : TakeEvent(type)
  BY EventTakes
<1>2. UNCHANGED <<settings, mode, fetch, traffic>>
  BY EventTakes
<1> SUFFICES ASSUME NEW x \in Requests, Steady(x)', traffic'[x].hop > 0
             PROVE  Paired(x)'
  BY DEF PairInv
<1>3. Paired(x) /\ (Intercepted(x)' <=> Intercepted(x))
  BY <1>2 DEF PairInv, Steady, Intercepted
<1>4. /\ \A t, y, k : Flying(t, y, k)' => Flying(t, y, k)
      /\ \A t, y, k : Flying(t, y, k) =>
           Flying(t, y, k)' \/ (t = type /\ y = Event.request /\ k = Event.hop)
      /\ Flying(type, Event.request, Event.hop)
      /\ Event.request \in Requests /\ Event.hop \in 1..MaxHops
  BY <1>1, <1>2, TakenPairs
<1>5. ASSUME x # Event.request \/ type \notin {"paused", "willBeSent"}
      PROVE  /\ \A k \in 1..MaxHops : AnnouncementComes(x, k)' <=> AnnouncementComes(x, k)
             /\ \A k \in 1..MaxHops : PauseComes(x, k)' <=> PauseComes(x, k)
  <2>1. \A k : /\ Flying("paused", x, k)' <=> Flying("paused", x, k)
               /\ Flying("willBeSent", x, k)' <=> Flying("willBeSent", x, k)
    BY <1>4, <1>5
  <2> QED BY <1>2, <2>1 DEF AnnouncementComes, PauseComes
<1>6. ASSUME /\ \A k \in 1..MaxHops : AnnouncementComes(x, k)' <=> AnnouncementComes(x, k)
             /\ \A k \in 1..MaxHops : PauseComes(x, k)' <=> PauseComes(x, k)
             /\ x \in DOMAIN will_be_sent' <=> x \in DOMAIN will_be_sent
             /\ x \in DOMAIN will_be_sent => will_be_sent'[x] = will_be_sent[x]
             /\ x \in DOMAIN interceptions' <=> x \in DOMAIN interceptions
             /\ x \in DOMAIN interceptions => interceptions'[x] = interceptions[x]
             /\ x \in DOMAIN requests' =>
                  x \in DOMAIN requests /\ requests'[x] = requests[x]
      PROVE  Paired(x)'
  <2>1. ASSUME NEW k \in 1..MaxHops
        PROVE  /\ Announced(x, k)' <=> Announced(x, k)
               /\ Remembered(x, k)' <=> Remembered(x, k)
    BY <1>6 DEF Announced, Remembered
  <2>2. PartnersMeet(x) => PartnersMeet(x)'
    BY <1>6, <2>1 DEF PartnersMeet
  <2>3. NothingToPair(x) => NothingToPair(x)'
    BY <1>6 DEF NothingToPair
  <2> QED BY <1>3, <2>2, <2>3 DEF Paired
<1>7. CASE x # Event.request
  BY <1>5, <1>6, <1>7, OthersKept
<1>8. CASE x = Event.request /\ OnFetchRequestPaused
  <2>1. type = "paused"
    BY <1>1, <1>8, PausedFacts DEF TakeEvent
  <2>2. Intercepted(x)
    <3>1. PauseComes(x, Event.hop)
      BY <1>4, <1>8, <2>1 DEF PauseComes
    <3> QED BY <1>3, <1>4, <3>1 DEF Paired, NothingToPair
  <2>3. PartnersMeet(x)'
    BY <1>2, <1>3, <1>8, <2>2, PausedKeepsPairs DEF Paired
  <2> QED BY <1>3, <2>2, <2>3 DEF Paired
<1>9. CASE x = Event.request /\ OnRequestWillBeSent
  <2>1. CASE Intercepted(x)
    <3>1. PartnersMeet(x)'
      BY <1>2, <1>3, <1>9, <2>1, WillBeSentKeepsPairs DEF Paired
    <3> QED BY <1>3, <2>1, <3>1 DEF Paired
  <2>2. CASE ~Intercepted(x)
    <3>1. /\ Event \in NetMessage /\ Track(Event, NoInterception) /\ TakeEvent("willBeSent")
          /\ UNCHANGED <<will_be_sent, interceptions>>
      BY <1>9, <2>2, WillBeSentFacts
    <3>2. requests'[x].interception = NoInterception
      BY <1>9, <3>1, TrackFacts DEF Interception
    <3>3. \A k \in 1..MaxHops : PauseComes(x, k)' => PauseComes(x, k)
      BY <1>2, <1>4 DEF PauseComes
    <3>4. NothingToPair(x)'
      BY <1>3, <2>2, <3>1, <3>2, <3>3 DEF Paired, NothingToPair
    <3> QED BY <1>3, <2>2, <3>4 DEF Paired
  <2> QED BY <2>1, <2>2
<1>10. CASE x = Event.request /\ (OnFetchAuthRequired \/ OnRequestEnds)
  <2>1. type \notin {"paused", "willBeSent"}
    BY <1>1, <1>10, AuthFacts, EndFacts DEF TakeEvent
  <2>2. /\ UNCHANGED <<will_be_sent, interceptions>>
        /\ x \in DOMAIN requests' => x \in DOMAIN requests /\ requests'[x] = requests[x]
    BY <1>10, AuthFacts, EndFacts
  <2> QED BY <1>5, <1>6, <2>1, <2>2
<1> QED BY <1>7, <1>8, <1>9, <1>10 DEF OnNetworkEvent

-----------------------------------------------------------------------------
(* Every request is reported once *)

Opening(r, h) == AnnouncementComes(r, h) \/ PauseComes(r, h)
Over(r) == traffic[r].responded \/ traffic[r].ended
EndComes(r) == \E m \in Events : m.request = r /\ IsEnd(m)

\* Cancelled before its pause, with no earlier hop that could be tracked.
NeverTracked(r) == CancelledEarly(r) /\ traffic[r].hop = 1

\* Once one of its hops is opened the request is tracked until it is reported, and it is
\* reported when its end, still to come until then, is handled; unless it is never
\* tracked.
ToldOnce(r) ==
  /\ reported[r] \in {0, 1}
  /\ reported[r] = 1 =>
       /\ r \notin DOMAIN requests /\ Over(r) /\ ~NeverTracked(r)
       /\ \A m \in Events : m.request = r => ~OpensHop(m)
  /\ reported[r] = 0 =>
       /\ Over(r) => EndComes(r) \/ NeverTracked(r)
       /\ \A h \in 1..traffic[r].hop : Opening(r, h) \/ r \in DOMAIN requests

ReportInv ==
  \A r \in Requests :
    /\ reported[r] > 0 => traffic[r].hop > 0
    /\ Steady(r) /\ traffic[r].hop > 0 => ToldOnce(r)

LEMMA NotYetTracked ==
  ASSUME BaseOK, MapInv, NEW r \in Requests, Paired(r), NeverTracked(r)
  PROVE  r \notin DOMAIN requests
<1> SUFFICES ASSUME r \in DOMAIN requests PROVE FALSE
  OBVIOUS
<1>1. requests[r].hop \in 1..MaxHops /\ 1 \in 1..MaxHops /\ traffic[r].hop = 1
  BY NetworkBounds DEF BaseOK, MapsOK, Tracked, NeverTracked
<1>2. requests[r].hop = 1 /\ traffic[r].announced
  BY <1>1 DEF MapInv, TrackedInOrder
<1>3. PauseComes(r, 1)
  BY <1>1 DEF PauseComes, NeverTracked, CancelledEarly
<1>4. AnnouncementComes(r, 1) \/ Announced(r, 1)
  BY <1>1, <1>3 DEF Paired, PartnersMeet, NothingToPair
<1>5. ~AnnouncementComes(r, 1)
  BY <1>1, <1>2 DEF AnnouncementComes, Flying, MapInv, TrackedInOrder
<1>6. ~Announced(r, 1)
  BY <1>1, <1>2 DEF Announced, MapInv, AnnouncedInOrder
<1> QED BY <1>4, <1>5, <1>6

LEMMA ElsewhereEnds ==
  ASSUME BaseOK, EventInv, SwitchInv, NetworkNext, ~OnNetworkEvent
  PROVE  /\ \A m \in Events : m \in Events'
         /\ \A r \in Requests :
              traffic'[r].hop = traffic[r].hop =>
                /\ Over(r) => Over(r)'
                /\ Over(r) => (NeverTracked(r)' <=> NeverTracked(r))
                /\ Over(r)' => Over(r) \/ EndComes(r)'
<1>1. CASE \E m \in Modes, cache \in BOOLEAN : Create(m, cache)
  BY <1>1 DEF Create, browserState, Over, NeverTracked, CancelledEarly, Events
<1>2. CASE Authenticate
  <2>1. UNCHANGED messages
    BY <1>2 DEF Authenticate
  <2>2. \A r \in Requests :
          /\ traffic'[r].responded = traffic[r].responded /\ traffic'[r].ended = traffic[r].ended
          /\ traffic'[r].gate = traffic[r].gate /\ traffic'[r].hop = traffic[r].hop
    BY <1>2, AuthenticateFacts
  <2> QED BY <2>1, <2>2 DEF Over, NeverTracked, CancelledEarly, Events
<1>3. CASE BrowserServes \/ UserStep
  <2>1. UNCHANGED messages /\ GatesOpen
    BY <1>3, ServeFacts, UserFacts
  <2> QED BY <2>1 DEF Over, NeverTracked, CancelledEarly, Events, GatesOpen, EventInv, EndsOpened
<1>4. CASE BrowserStep
  <2>0. traffic' \in [Requests -> Traffic]
    BY <1>4, BrowserSteps
  <2>1. PICK x \in Requests : (\E type \in EventTypes : Emits(type, x)) \/ Starts(x)
    BY <1>4, BrowserSteps
  <2>2. CASE Starts(x)
    <3>1. UNCHANGED messages /\ (\A r \in Requests \ {x} : traffic'[r] = traffic[r])
      BY <2>2 DEF Starts
    <3>2. traffic'[x].hop = traffic[x].hop + 1 /\ traffic[x].hop \in Nat
      BY <2>0, <2>2, StartFacts
    <3>3. traffic'[x].hop # traffic[x].hop
      BY <3>2
    <3> QED BY <3>1, <3>3 DEF Over, NeverTracked, CancelledEarly, Events
  <2>3. CASE \E type \in EventTypes : Emits(type, x)
    <3>1. PICK type \in EventTypes : Emits(type, x)
      BY <2>3
    <3>2. \A m : m \in Events' <=> m \in Events \/ m = Message(type, x)
      BY <3>1, EmitSets
    <3>3. Message(type, x).type = type /\ Message(type, x).request = x
      BY <3>1, EmitFacts
    <3>4. ASSUME NEW r \in Requests
          PROVE  /\ (Over(r) => Over(r)') /\ (Over(r)' => Over(r) \/ EndComes(r)')
                 /\ Over(r) => (NeverTracked(r)' <=> NeverTracked(r))
      <4>1. CASE x # r
        BY <3>1, <4>1 DEF Emits, Over, NeverTracked, CancelledEarly
      <4>2. CASE x = r
        <5>1. Over(r) => Over(r)'
          BY <3>1, <4>2 DEF Emits, Over
        <5>2. Over(r)' => Over(r) \/ type \in {"response", "finished", "failed"}
          BY <3>1, <4>2 DEF Emits, Over
        <5>3. type \in {"response", "finished", "failed"} => EndComes(r)'
          BY <3>2, <3>3, <4>2 DEF EndComes, IsEnd
        <5>4. Over(r) => (NeverTracked(r)' <=> NeverTracked(r))
          BY <3>1, <4>2 DEF Emits, Over, NeverTracked, CancelledEarly, EventInv, EndsOpened,
               EventTypes
        <5> QED BY <5>1, <5>2, <5>3, <5>4
      <4> QED BY <4>1, <4>2
    <3> QED BY <3>2, <3>4
  <2> QED BY <2>1, <2>2, <2>3
<1> QED BY <1>1, <1>2, <1>3, <1>4 DEF NetworkNext

LEMMA ElsewhereReports ==
  ASSUME BaseOK, EventInv, SwitchInv, MapInv, PairInv, ReportInv, NetworkNext, ~OnNetworkEvent
  PROVE  ReportInv'
<1>0. BaseOK' /\ (\A r \in Requests : reported[r] \in Nat /\ traffic[r].hop \in Nat)
  <2>1. \A r \in Requests : reported[r] \in Nat /\ traffic[r].hop \in Nat
    BY DEF BaseOK, MapsOK, Traffic
  <2> QED BY <2>1, BaseStep
<1>1. UNCHANGED <<requests, will_be_sent, interceptions, attempted, reported>> /\ Grows /\ Brings
  BY ElsewhereFacts
<1>2. \A r \in Requests : traffic'[r].hop \in Nat
  BY <1>0 DEF BaseOK, Traffic
<1>3. \A r \in Requests : reported'[r] > 0 => traffic'[r].hop > 0
  BY <1>0, <1>1, <1>2 DEF ReportInv, Grows
<1>4. ASSUME NEW r \in Requests, Steady(r)', traffic'[r].hop > 0
      PROVE  ToldOnce(r)'
  <2>1. /\ Steady(r)
        /\ \/ /\ traffic'[r].hop = traffic[r].hop
              /\ \A h \in 1..MaxHops :
                   /\ AnnouncementComes(r, h)' <=> AnnouncementComes(r, h)
                   /\ PauseComes(r, h)' <=> PauseComes(r, h)
           \/ Starts(r)
    BY <1>4, ElsewherePairs
  <2>2. CASE /\ traffic'[r].hop = traffic[r].hop
             /\ \A h \in 1..MaxHops :
                  /\ AnnouncementComes(r, h)' <=> AnnouncementComes(r, h)
                  /\ PauseComes(r, h)' <=> PauseComes(r, h)
    <3>1. \A h \in 1..traffic[r].hop : h \in 1..MaxHops
      BY <1>4, <2>2 DEF BaseOK, Traffic
    <3>2. \A h \in 1..traffic[r].hop : Opening(r, h)' <=> Opening(r, h)
      BY <2>2, <3>1 DEF Opening
    <3>3. /\ \A m \in Events : m \in Events'
          /\ Over(r) => Over(r)'
          /\ Over(r) => (NeverTracked(r)' <=> NeverTracked(r))
          /\ Over(r)' => Over(r) \/ EndComes(r)'
      BY <2>2, ElsewhereEnds
    <3>4. ToldOnce(r)
      BY <1>4, <2>1, <2>2 DEF ReportInv
    <3>5. EndComes(r) => EndComes(r)'
      BY <3>3 DEF EndComes
    <3>6. Over(r) => \A m \in Events' : m.request = r /\ OpensHop(m) => m \in Events
      BY <1>1 DEF Brings, OpensHop, Over, EventInv, EndsOpened
    <3> QED BY <1>1, <2>2, <3>2, <3>3, <3>4, <3>5, <3>6 DEF ToldOnce, OpensHop
  <2>3. CASE Starts(r)
    <3>1. /\ ~traffic'[r].announced /\ ~traffic'[r].ended /\ ~traffic'[r].responded
          /\ traffic[r].hop > 0 =>
               /\ ~traffic[r].responded /\ ~traffic[r].ended
               /\ traffic[r].announced /\ traffic[r].gate # "closed"
          /\ traffic'[r].hop = traffic[r].hop + 1 /\ UNCHANGED messages
      BY <1>0, <2>3, StartFacts DEF BaseOK, Starts
    <3>2. reported[r] = 0
      <4>1. CASE traffic[r].hop = 0
        BY <1>0, <4>1 DEF ReportInv
      <4>2. CASE traffic[r].hop > 0
        <5>1. ToldOnce(r) /\ ~Over(r)
          BY <2>1, <3>1, <4>2 DEF ReportInv, Over
        <5> QED BY <5>1 DEF ToldOnce
      <4> QED BY <1>0, <4>1, <4>2
    <3>3. ASSUME NEW h \in 1..traffic'[r].hop
          PROVE  Opening(r, h)' \/ r \in DOMAIN requests
      <4>1. CASE h = traffic'[r].hop
        BY <3>1, <4>1 DEF Opening, AnnouncementComes
      <4>2. CASE h # traffic'[r].hop
        <5>1. h \in 1..traffic[r].hop /\ traffic[r].hop > 0
          BY <1>0, <3>1, <4>2
        <5>2. ToldOnce(r)
          BY <2>1, <5>1 DEF ReportInv
        <5>3. Opening(r, h) \/ r \in DOMAIN requests
          BY <3>2, <5>1, <5>2 DEF ToldOnce
        <5>4. Opening(r, h) => Flying("willBeSent", r, h) \/ Flying("paused", r, h)
          BY <3>1, <5>1 DEF Opening, AnnouncementComes, PauseComes
        <5>5. \A t : Flying(t, r, h)' <=> Flying(t, r, h)
          BY <3>1 DEF Flying, Events
        <5> QED BY <5>3, <5>4, <5>5 DEF Opening, AnnouncementComes, PauseComes
      <4> QED BY <4>1, <4>2
    <3>4. ~Over(r)'
      BY <3>1 DEF Over
    <3> QED BY <1>1, <3>2, <3>3, <3>4 DEF ToldOnce
  <2> QED BY <2>1, <2>2, <2>3
<1> QED BY <1>3, <1>4 DEF ReportInv

LEMMA EventReports ==
  ASSUME BaseOK, EventInv, SwitchInv, MapInv, PairInv, ReportInv, OnNetworkEvent
  PROVE  ReportInv'
<1>1. PICK type \in EventTypes : TakeEvent(type)
  BY EventTakes
<1>2. UNCHANGED <<settings, mode, fetch, traffic>>
  BY EventTakes
<1>3. PICK r \in Requests : r = Event.request
  BY <1>1, TakeFacts
<1>4. /\ Event \in Events /\ Event.type = type
      /\ \A m \in Events' : m \in Events
      /\ \A m \in Events : m = Event \/ m \in Events'
      /\ \A m \in Events' : m.request = r =>
           /\ Event.hop <= m.hop
           /\ OpensHop(m) /\ ~OpensHop(Event) => Event.hop < m.hop
  BY <1>1, <1>3, TakenFirst
<1>5. /\ Event.hop \in 1..MaxHops /\ Event.hop <= traffic[r].hop /\ traffic[r].hop \in Nat
      /\ type = "response" => Event.hop = traffic[r].hop /\ traffic[r].responded
      /\ type \in {"finished", "failed"} => Event.hop = traffic[r].hop /\ traffic[r].ended
  BY <1>3, <1>4, EventFacts DEF BaseOK, Traffic
<1>6. \A x \in Requests : reported[x] \in Nat
  BY DEF BaseOK, MapsOK
<1>7. \/ UNCHANGED reported
      \/ reported' = [reported EXCEPT ![r] = @ + 1]
  BY <1>3, PausedFacts, WillBeSentFacts, AuthFacts, EndFacts DEF OnNetworkEvent
<1>8. /\ \A x \in Requests : x # r => reported'[x] = reported[x]
      /\ \A x \in Requests : reported'[x] > 0 => traffic'[x].hop > 0
  <2>1. \A x \in Requests : x # r => reported'[x] = reported[x]
    BY <1>7 DEF BaseOK, MapsOK
  <2>2. traffic[r].hop > 0
    BY <1>5
  <2> QED BY <1>2, <2>1, <2>2 DEF ReportInv
<1>9. ASSUME NEW x \in Requests, Steady(x)', traffic'[x].hop > 0
       PROVE  ToldOnce(x)'
  <2>1. /\ Steady(x) /\ ToldOnce(x) /\ (Over(x)' <=> Over(x))
        /\ NeverTracked(x)' <=> NeverTracked(x)
    BY <1>2, <1>9 DEF ReportInv, Steady, Over, NeverTracked, CancelledEarly
  <2>2. \A t, k : t # type \/ x # r \/ k # Event.hop => (Flying(t, x, k)' <=> Flying(t, x, k))
    BY <1>3, <1>4 DEF Flying
  <2>3. x # r \/ ~IsEnd(Event) => (EndComes(x) => EndComes(x)')
    BY <1>3, <1>4 DEF EndComes
  <2>4. \A h : x # r \/ type \notin {"willBeSent", "paused"} \/ h # Event.hop
                => (Opening(x, h)' <=> Opening(x, h))
    <3> SUFFICES ASSUME NEW h, x # r \/ type \notin {"willBeSent", "paused"} \/ h # Event.hop
                 PROVE  Opening(x, h)' <=> Opening(x, h)
      OBVIOUS
    <3>1. /\ Flying("willBeSent", x, h)' <=> Flying("willBeSent", x, h)
          /\ Flying("paused", x, h)' <=> Flying("paused", x, h)
      BY <2>2
    <3> QED BY <1>2, <3>1 DEF Opening, AnnouncementComes, PauseComes
  <2>5. CASE x # r
    <3>1. x \in DOMAIN requests' <=> x \in DOMAIN requests
      BY <1>3, <2>5, OthersKept
    <3> QED BY <1>2, <1>4, <1>8, <2>1, <2>3, <2>4, <2>5, <3>1 DEF ToldOnce, OpensHop
  <2>6. CASE x = r /\ (OnFetchRequestPaused \/ OnRequestWillBeSent)
    <3>1. type \in {"willBeSent", "paused"} /\ UNCHANGED reported /\ OpensHop(Event) /\ ~IsEnd(Event)
      BY <1>1, <1>4, <2>6, PausedFacts, WillBeSentFacts DEF TakeEvent, OpensHop, IsEnd, Event
    <3>2. reported[x] = 0
      BY <1>3, <1>4, <2>1, <2>6, <3>1 DEF ToldOnce
    <3>3. PICK k \in 1..MaxHops : k = Event.hop /\ Event.id = <<r, k>>
      BY <1>1, <1>3, TakeFacts
    <3>4. \/ r \in DOMAIN requests'
          \/ Remembered(r, k)' /\ UNCHANGED requests
          \/ Announced(r, k)' /\ UNCHANGED requests
      <4>1. CASE OnFetchRequestPaused
        <5>1. \A ev \in NetMessage : ev.request = r /\ Track(ev, Event.id) => r \in DOMAIN requests'
          BY <3>3, TrackFacts DEF Interception
        <5> QED BY <1>3, <3>3, <4>1, <5>1, PausedFacts DEF Remembered
      <4>2. CASE OnRequestWillBeSent
        <5>1. \A id \in Interception : Event \in NetMessage /\ Track(Event, id) => r \in DOMAIN requests'
          BY <1>3, TrackFacts
        <5>2. NoInterception \in Interception
          BY DEF Interception
        <5> QED BY <1>3, <3>3, <4>2, <5>1, <5>2, WillBeSentFacts DEF Announced
      <4> QED BY <2>6, <4>1, <4>2
    <3>5. Paired(r)'
      BY <1>9, <2>6, EventKeepsPairs DEF PairInv
    <3>6. ASSUME NEW h \in 1..traffic'[x].hop
          PROVE  Opening(x, h)' \/ x \in DOMAIN requests'
      <4>1. CASE h # k
        <5>1. Opening(x, h) \/ x \in DOMAIN requests
          BY <1>2, <2>1, <3>2 DEF ToldOnce
        <5>2. Opening(x, h)' <=> Opening(x, h)
          BY <2>4, <3>3, <4>1
        <5> QED BY <2>6, <3>4, <5>1, <5>2
      <4>2. CASE h = k
        <5>2. Remembered(r, k)' => AnnouncementComes(r, k)'
          BY <3>5 DEF Paired, PartnersMeet, NothingToPair, Remembered
        <5>3. Announced(r, k)' => PauseComes(r, k)'
          BY <3>5 DEF Paired, PartnersMeet, NothingToPair, Announced
        <5> QED BY <2>6, <3>4, <4>2, <5>2, <5>3 DEF Opening
      <4> QED BY <4>1, <4>2
    <3> QED BY <2>1, <2>3, <3>1, <3>2, <3>6 DEF ToldOnce
  <2>7. CASE x = r /\ OnFetchAuthRequired
    <3>1. type = "auth" /\ UNCHANGED <<requests, reported>> /\ ~IsEnd(Event)
      BY <1>1, <1>4, <2>7, AuthFacts DEF TakeEvent, IsEnd, Event
    <3> QED BY <1>2, <1>4, <2>1, <2>3, <2>4, <3>1 DEF ToldOnce, OpensHop
  <2>8. CASE x = r /\ OnRequestEnds
    <3>1. /\ type \in {"response", "finished", "failed"} /\ ~OpensHop(Event)
          /\ Event.hop = traffic[r].hop /\ Over(r)
      BY <1>1, <1>4, <1>5, <2>8, EndFacts DEF TakeEvent, OpensHop, Event, Over
    <3>2. \A m \in Events' : m.request = r => ~OpensHop(m)
      BY <1>3, <1>4, <1>5, <3>1, EventFacts
    <3>3. CASE r \in DOMAIN requests
      <4>1. r \notin DOMAIN requests' /\ reported' = [reported EXCEPT ![r] = @ + 1]
        BY <1>3, <2>8, <3>3, EndFacts
      <4>2. reported[r] = 0
        BY <2>1, <2>8, <3>3 DEF ToldOnce
      <4>3. reported'[r] = 1
        <5>1. reported'[r] = reported[r] + 1
          BY <4>1 DEF BaseOK, MapsOK
        <5> QED BY <4>2, <5>1
      <4>4. ~NeverTracked(r)
        <5>1. Paired(r)
          BY <1>2, <1>9, <2>8 DEF PairInv, Steady
        <5> QED BY <3>3, <5>1, NotYetTracked
      <4> QED BY <2>1, <2>8, <3>1, <3>2, <4>1, <4>3, <4>4 DEF ToldOnce
    <3>4. CASE r \notin DOMAIN requests
      <4>1. UNCHANGED <<requests, reported>>
        BY <1>3, <2>8, <3>4, EndFacts
      <4>2. \A h \in 1..traffic[r].hop : Opening(r, h) => h = traffic[r].hop /\ traffic[r].gate = "closed"
        <5>1. traffic[r].announced
          BY <3>1 DEF EventInv, EndsOpened, Over
        <5>2. ASSUME NEW m \in Events, m.request = r, OpensHop(m)
              PROVE  FALSE
          BY <1>4, <3>1, <3>2, <5>2
        <5> QED BY <5>1, <5>2 DEF Opening, AnnouncementComes, PauseComes, Flying, OpensHop
      <4>3. CASE reported[r] = 1
        BY <1>4, <2>1, <2>8, <3>2, <4>1, <4>3 DEF ToldOnce
      <4>4. CASE reported[r] = 0
        <5>1. \A h \in 1..traffic[r].hop : Opening(r, h)
          BY <2>1, <2>8, <3>4, <4>4 DEF ToldOnce
        <5>2. traffic[r].hop = 1 /\ traffic[r].gate = "closed"
          <6>1. traffic[r].hop \in 1..traffic[r].hop /\ 1 \in 1..traffic[r].hop
            BY <1>5
          <6> QED BY <4>2, <5>1, <6>1
        <5>3. NeverTracked(r)
          BY <3>1, <5>2 DEF NeverTracked, CancelledEarly, Over, EventInv, EndsOpened
        <5>4. \A h \in 1..traffic'[r].hop : Opening(r, h)'
          BY <1>2, <2>4, <2>8, <3>1, <5>1
        <5> QED BY <2>1, <2>8, <4>1, <4>4, <5>3, <5>4 DEF ToldOnce
      <4> QED BY <2>1, <2>8, <4>3, <4>4 DEF ToldOnce
    <3> QED BY <3>3, <3>4
  <2> QED BY <2>5, <2>6, <2>7, <2>8 DEF OnNetworkEvent
<1> QED BY <1>8, <1>9 DEF ReportInv

-----------------------------------------------------------------------------
(* Nobody waits in vain *)

Answering(name, r) == \E c \in Queued : c.name = name /\ c.id = Id(r)

\* Who waits at his gate is heard of by the manager or answered already.
Attended(r) ==
  InFlight(r) =>
    /\ traffic[r].gate = "paused" =>
         Flying("paused", r, traffic[r].hop) \/ Answering("continue", r)
    /\ traffic[r].gate = "auth" =>
         Flying("auth", r, traffic[r].hop) \/ Answering("auth", r)

AnswerInv == mode \in {"manager", "authenticate"} => \A r \in Requests : Attended(r)

\* What an event makes the manager send.
LEMMA EventSends ==
  ASSUME BaseOK, OnNetworkEvent
  PROVE  \/ commands' = commands
         \/ \E c \in NetCommand :
              /\ Send(<<c>>) /\ c.id = Event.id
              /\ \/ OnFetchRequestPaused /\ c.name = "continue"
                 \/ OnFetchAuthRequired /\ c.name = "auth"
<1>1. PICK type : TakeEvent(type)
  BY EventTakes
<1>2. Event.id \in Hops
  <2>1. /\ Event.request \in Requests /\ Event.hop \in 1..MaxHops
        /\ Event.id = <<Event.request, Event.hop>>
    BY <1>1, TakeFacts
  <2> QED BY <2>1 DEF Hops
<1>3. CASE OnFetchRequestPaused
  <2>1. commands' = commands \/ Send(<<Command("continue", Event.id, TRUE)>>)
    BY <1>3, PausedFacts
  <2>2. /\ Command("continue", Event.id, TRUE) \in NetCommand
        /\ Command("continue", Event.id, TRUE).name = "continue"
        /\ Command("continue", Event.id, TRUE).id = Event.id
    BY <1>2, CommandTypes DEF Command
  <2> QED BY <1>3, <2>1, <2>2
<1>4. CASE OnFetchAuthRequired
  <2>1. PICK answer \in {"provide", "default", "cancel"} :
          Send(<<Command("auth", Event.id, answer)>>)
    BY <1>4, AuthFacts
  <2>2. /\ Command("auth", Event.id, answer) \in NetCommand
        /\ Command("auth", Event.id, answer).name = "auth"
        /\ Command("auth", Event.id, answer).id = Event.id
    BY <1>2, CommandTypes DEF Command
  <2> QED BY <1>4, <2>1, <2>2
<1>5. CASE OnRequestWillBeSent \/ OnRequestEnds
  BY <1>5, WillBeSentFacts, EndFacts
<1> QED BY <1>3, <1>4, <1>5 DEF OnNetworkEvent

LEMMA AnswerStep ==
  ASSUME BaseOK, EventInv, SwitchInv, AnswerInv, NetworkNext
  PROVE  AnswerInv'
<1>1. CASE \E m \in Modes, cache \in BOOLEAN : Create(m, cache)
  <2>1. \A r \in Requests : traffic'[r].hop = 0
    BY <1>1 DEF Create, browserState, SwitchInv, UntouchedBefore, Idle
  <2>2. \A r \in Requests : ~InFlight(r)'
    BY <2>1 DEF InFlight
  <2> QED BY <2>2 DEF AnswerInv, Attended
<1>2. CASE Authenticate
  <2>1. /\ \A i \in 1..Len(commands) : i \in 1..Len(commands') /\ commands'[i] = commands[i]
        /\ \A r \in Requests :
             /\ traffic'[r].hop = traffic[r].hop /\ traffic'[r].ended = traffic[r].ended
             /\ traffic'[r].gate = traffic[r].gate
    BY <1>2, AuthenticateFacts
  <2>2. UNCHANGED <<messages, mode>>
    BY <1>2 DEF Authenticate
  <2>3. \A c \in Queued : c \in Queued'
    BY <2>1 DEF Queued
  <2>4. ASSUME NEW r \in Requests, Attended(r)
        PROVE  Attended(r)'
    <3>1. \A name : Answering(name, r) => Answering(name, r)'
      BY <2>1, <2>3 DEF Answering, Id
    <3>2. \A t, h : Flying(t, r, h)' <=> Flying(t, r, h)
      BY <2>2 DEF Flying, Events
    <3> QED BY <2>1, <2>4, <3>1, <3>2 DEF Attended, InFlight
  <2> QED BY <2>2, <2>4 DEF AnswerInv
<1>3. CASE OnNetworkEvent
  <2>1. PICK type \in EventTypes : TakeEvent(type)
    BY <1>3, EventTakes
  <2>2. UNCHANGED <<settings, mode, fetch, traffic>>
    BY <1>3, EventTakes
  <2>3. /\ \A t, y, k : Flying(t, y, k) =>
             Flying(t, y, k)' \/ (t = type /\ y = Event.request /\ k = Event.hop)
        /\ Event.id = <<Event.request, Event.hop>>
    BY <2>1, <2>2, TakenPairs
  <2>4. \A c \in Queued : c \in Queued'
    BY <1>3, EventSends, QueueOne DEF Queued
  <2>5. ASSUME mode \in {"manager", "authenticate"}, type = "paused"
        PROVE  \E c \in Queued' : c.name = "continue" /\ c.id = Event.id
    <3>1. OnFetchRequestPaused
      BY <1>3, <2>1, <2>5, WillBeSentFacts, AuthFacts, EndFacts DEF OnNetworkEvent, TakeEvent
    <3>2. ~settings.user_interception /\ settings.protocol_interception
      <4>1. ~settings.user_interception
        BY <2>5 DEF SwitchInv, SettingsOK
      <4>2. Event = messages[1] /\ 1 \in 1..Len(messages) /\ Event.type = "paused"
        BY <2>1, <2>5, TakeFacts
      <4> QED BY <2>5, <4>1, <4>2 DEF SwitchInv, BothAgree, UsersMode
    <3>3. Send(<<Command("continue", Event.id, TRUE)>>)
      BY <3>1, <3>2, PausedFacts
    <3>4. Event.id \in Hops
      <4>1. Event.request \in Requests /\ Event.hop \in 1..MaxHops
        BY <2>1, TakeFacts
      <4> QED BY <2>3, <4>1 DEF Hops
    <3>5. Command("continue", Event.id, TRUE) \in NetCommand
      BY <3>4, CommandTypes
    <3>6. Command("continue", Event.id, TRUE) \in Queued'
      BY <3>3, <3>5, QueueOne DEF Queued
    <3> QED BY <3>6 DEF Command
  <2>6. ASSUME type = "auth"
        PROVE  \E c \in Queued' : c.name = "auth" /\ c.id = Event.id
    <3>1. OnFetchAuthRequired
      BY <1>3, <2>1, <2>6, WillBeSentFacts, PausedFacts, EndFacts DEF OnNetworkEvent, TakeEvent
    <3>2. PICK answer \in {"provide", "default", "cancel"} :
            Send(<<Command("auth", Event.id, answer)>>)
      BY <3>1, AuthFacts
    <3>3. Event.id \in Hops
      <4>1. Event.request \in Requests /\ Event.hop \in 1..MaxHops
        BY <2>1, TakeFacts
      <4> QED BY <2>3, <4>1 DEF Hops
    <3>4. Command("auth", Event.id, answer) \in NetCommand
      BY <3>3, CommandTypes
    <3>5. Command("auth", Event.id, answer) \in Queued'
      BY <3>2, <3>4, QueueOne DEF Queued
    <3> QED BY <3>5 DEF Command
  <2>7. ASSUME mode \in {"manager", "authenticate"}, NEW r \in Requests, Attended(r)
        PROVE  Attended(r)'
    <3>1. \A name : Answering(name, r) => Answering(name, r)'
      BY <2>2, <2>4 DEF Answering, Id
    <3>2. Flying("paused", r, traffic[r].hop) =>
            Flying("paused", r, traffic[r].hop)' \/ Answering("continue", r)'
      <4>1. PICK k : k = traffic[r].hop
        OBVIOUS
      <4>2. Id(r)' = <<r, k>>
        BY <2>2, <4>1 DEF Id
      <4>3. Flying("paused", r, k) => Flying("paused", r, k)' \/ Answering("continue", r)'
        BY <2>3, <2>5, <2>7, <4>2 DEF Answering
      <4> QED BY <2>2, <4>1, <4>3 DEF Flying
    <3>3. Flying("auth", r, traffic[r].hop) =>
            Flying("auth", r, traffic[r].hop)' \/ Answering("auth", r)'
      <4>1. PICK k : k = traffic[r].hop
        OBVIOUS
      <4>2. Id(r)' = <<r, k>>
        BY <2>2, <4>1 DEF Id
      <4>3. Flying("auth", r, k) => Flying("auth", r, k)' \/ Answering("auth", r)'
        BY <2>3, <2>6, <4>2 DEF Answering
      <4> QED BY <2>2, <4>1, <4>3 DEF Flying
    <3> QED BY <2>2, <2>7, <3>1, <3>2, <3>3 DEF Attended, InFlight, Flying
  <2> QED BY <2>2, <2>7 DEF AnswerInv
<1>4. CASE BrowserStep
  <2>0. UNCHANGED <<commands, mode>> /\ traffic' \in [Requests -> Traffic]
    BY <1>4, BrowserSteps
  <2>1. PICK x \in Requests : (\E type \in EventTypes : Emits(type, x)) \/ Starts(x)
    BY <1>4, BrowserSteps
  <2>2. \A m \in Events : m \in Events'
    <3>1. CASE Starts(x)
      BY <3>1 DEF Starts, Events
    <3>2. CASE \E type \in EventTypes : Emits(type, x)
      BY <3>2, EmitSets
    <3> QED BY <2>1, <3>1, <3>2
  <2>3. ASSUME NEW r \in Requests, Attended(r), traffic'[r].hop = traffic[r].hop,
               traffic'[r].gate = traffic[r].gate, InFlight(r)' => InFlight(r)
        PROVE  Attended(r)'
    <3>1. \A name : Answering(name, r)' <=> Answering(name, r)
      BY <2>0, <2>3 DEF Answering, Queued, Id
    <3>2. \A t, h : Flying(t, r, h) => Flying(t, r, h)'
      BY <2>2 DEF Flying
    <3>3. PICK h : h = traffic[r].hop
      OBVIOUS
    <3>4. \A t : Flying(t, r, traffic[r].hop)' <=> Flying(t, r, h)'
      BY <2>3, <3>3 DEF Flying
    <3> QED BY <2>3, <3>1, <3>2, <3>3, <3>4 DEF Attended, Flying
  <2>4. ASSUME NEW r \in Requests, Attended(r)
        PROVE  Attended(r)'
    <3>1. CASE x # r
      <4>1. traffic'[r] = traffic[r]
        BY <2>1, <3>1 DEF Starts, Emits
      <4> QED BY <2>3, <2>4, <4>1 DEF InFlight
    <3>2. CASE x = r /\ Starts(x)
      <4>1. traffic'[r].gate \in {"open", "closed"}
        BY <2>0, <3>2, StartFacts
      <4> QED BY <4>1 DEF Attended
    <3>3. ASSUME x = r, NEW type \in EventTypes, Emits(type, x)
          PROVE  Attended(r)'
      <4>1. CASE type \notin {"paused", "auth"}
        BY <2>3, <2>4, <3>3, <4>1 DEF Emits, EventTypes, InFlight
      <4>2. CASE type \in {"paused", "auth"}
        <5>1. traffic'[r].gate = type /\ traffic'[r].hop = traffic[r].hop
          BY <3>3, <4>2 DEF Emits
        <5>2. Message(type, r) \in Events' /\ Message(type, r).type = type
              /\ Message(type, r).request = r /\ Message(type, r).hop = traffic'[r].hop
          BY <3>3, <5>1, EmitSets, EmitFacts
        <5> QED BY <4>2, <5>1, <5>2 DEF Attended, Flying
      <4> QED BY <4>1, <4>2
    <3> QED BY <2>1, <3>1, <3>2, <3>3
  <2> QED BY <2>0, <2>4 DEF AnswerInv
<1>5. CASE BrowserServes
  <2>1. /\ UNCHANGED <<messages, mode>> /\ GatesOpen
        /\ \A c \in Queued : c = Head(commands) \/ c \in Queued'
        /\ \A r \in Requests : InFlight(r) /\ Head(commands).id = Id(r) =>
             /\ Head(commands).name = "continue" => traffic'[r].gate # "paused"
             /\ Head(commands).name = "auth" => traffic'[r].gate # "auth"
    BY <1>5, ServeFacts
  <2>2. ASSUME NEW r \in Requests, Attended(r)
        PROVE  Attended(r)'
    <3> SUFFICES ASSUME InFlight(r)', NEW gate \in {"paused", "auth"}, traffic'[r].gate = gate
                 PROVE  \/ Flying(gate, r, traffic[r].hop)'
                        \/ Answering(IF gate = "paused" THEN "continue" ELSE "auth", r)'
      BY DEF Attended
    <3>1. /\ InFlight(r) /\ traffic[r].gate = gate /\ traffic'[r].hop = traffic[r].hop
          /\ Id(r)' = Id(r)
      BY <2>1 DEF GatesOpen, InFlight, Id
    <3>2. CASE Flying(gate, r, traffic[r].hop)
      BY <2>1, <3>1, <3>2 DEF Flying, Events
    <3>3. CASE Answering(IF gate = "paused" THEN "continue" ELSE "auth", r)
      <4>1. PICK c \in Queued : /\ c.name = IF gate = "paused" THEN "continue" ELSE "auth"
                                /\ c.id = Id(r)
        BY <3>3 DEF Answering
      <4>2. c # Head(commands)
        BY <2>1, <3>1, <4>1
      <4> QED BY <2>1, <3>1, <4>1, <4>2 DEF Answering
    <3> QED BY <2>2, <3>1, <3>2, <3>3 DEF Attended
  <2> QED BY <2>1, <2>2 DEF AnswerInv
<1>6. CASE UserStep
  BY <1>6, UserFacts DEF AnswerInv
<1> QED BY <1>1, <1>2, <1>3, <1>4, <1>5, <1>6 DEF NetworkNext

-----------------------------------------------------------------------------
(* Credentials are offered once *)

Provides(c) == c.name = "auth" /\ c.value = "provide"
Used(id) ==
  \/ \E i \in 1..Len(provided) : provided[i] = id
  \/ \E i \in 1..Len(commands) : Provides(commands[i]) /\ commands[i].id = id

OfferedOnce ==
  /\ \A i, j \in 1..Len(provided) : i # j => provided[i] # provided[j]
  /\ \A i, j \in 1..Len(commands) :
       i # j /\ Provides(commands[i]) /\ Provides(commands[j]) => commands[i].id # commands[j].id
  /\ \A i \in 1..Len(provided), j \in 1..Len(commands) :
       Provides(commands[j]) => provided[i] # commands[j].id

\* An interception whose credentials are used is behind the events still to come, and the
\* manager remembers them as long as it can be challenged again.
UsedInTime(r, h) ==
  /\ h <= traffic[r].hop
  /\ h = traffic[r].hop => traffic[r].announced /\ traffic[r].gate # "closed"
  /\ \A m \in Events : m.request = r /\ OpensHop(m) => h < m.hop
  /\ <<r, h>> \in attempted \/
       /\ h < traffic[r].hop \/ traffic[r].ended
       /\ ~Flying("auth", r, h)

CredentialInv ==
  mode # "proxyAuth" =>
    /\ OfferedOnce
    /\ \A r \in Requests, h \in 1..MaxHops : Used(<<r, h>>) => UsedInTime(r, h)

\* Commands that offer nothing are added.
LEMMA NothingOffered ==
  ASSUME UNCHANGED provided,
         \A i \in 1..Len(commands') :
           \/ i \in 1..Len(commands) /\ commands'[i] = commands[i]
           \/ ~Provides(commands'[i])
  PROVE  /\ OfferedOnce => OfferedOnce'
         /\ \A id : Used(id)' => Used(id)
<1>1. ASSUME NEW i \in 1..Len(commands'), Provides(commands'[i])
      PROVE  i \in 1..Len(commands) /\ commands'[i] = commands[i]
  BY <1>1
<1>2. OfferedOnce => OfferedOnce'
  <2> SUFFICES ASSUME OfferedOnce PROVE OfferedOnce'
    OBVIOUS
  <2>1. \A i, j \in 1..Len(commands') :
          i # j /\ Provides(commands'[i]) /\ Provides(commands'[j]) =>
            commands'[i].id # commands'[j].id
    BY <1>1 DEF OfferedOnce
  <2>2. \A i \in 1..Len(provided), j \in 1..Len(commands') :
          Provides(commands'[j]) => provided[i] # commands'[j].id
    BY <1>1 DEF OfferedOnce
  <2> QED BY <2>1, <2>2 DEF OfferedOnce, Provides
<1>3. \A id : Used(id)' => Used(id)
  BY DEF Used, Provides
<1> QED BY <1>2, <1>3

LEMMA ServedOffer ==
  ASSUME BaseOK, BrowserServes
  PROVE  /\ OfferedOnce => OfferedOnce'
         /\ \A id : Used(id)' => Used(id)
<1> DEFINE n == Len(commands)
           k == Len(provided)
<1>1. /\ n \in Nat \ {0} /\ Len(commands') = n - 1 /\ Head(commands) = commands[1]
      /\ 1 \in 1..n
      /\ \A i \in 1..n - 1 : i + 1 \in 1..n /\ commands'[i] = commands[i + 1]
      /\ provided' = IF Provides(commands[1]) THEN Append(provided, commands[1].id) ELSE provided
      /\ commands[1] \in NetCommand
  BY ServeFacts DEF Provides
<1>2. provided \in Seq(Interception) /\ commands[1].id \in Interception /\ k \in Nat
  BY <1>1 DEF BaseOK, NetCommand
<1>3. \/ provided' = provided
      \/ /\ Provides(commands[1]) /\ Len(provided') = k + 1 /\ provided'[k + 1] = commands[1].id
         /\ \A i \in 1..k : provided'[i] = provided[i]
  BY <1>1, <1>2, AppendFacts
<1> HIDE DEF n, k
<1>4. ASSUME OfferedOnce
      PROVE  OfferedOnce'
  <2>0. /\ \A i, j \in 1..k : i # j => provided[i] # provided[j]
        /\ \A i, j \in 1..n :
             i # j /\ Provides(commands[i]) /\ Provides(commands[j]) =>
               commands[i].id # commands[j].id
        /\ \A i \in 1..k, j \in 1..n : Provides(commands[j]) => provided[i] # commands[j].id
    BY <1>4 DEF OfferedOnce, n, k
  <2>1. \A i, j \in 1..n - 1 :
          i # j /\ Provides(commands'[i]) /\ Provides(commands'[j]) =>
            commands'[i].id # commands'[j].id
    <3> SUFFICES ASSUME NEW i \in 1..n - 1, NEW j \in 1..n - 1, i # j,
                        Provides(commands'[i]), Provides(commands'[j])
                 PROVE  commands'[i].id # commands'[j].id
      OBVIOUS
    <3>1. i + 1 \in 1..n /\ j + 1 \in 1..n /\ i + 1 # j + 1
      BY <1>1
    <3> QED BY <1>1, <2>0, <3>1
  <2>2. \A j \in 1..n - 1 : Provides(commands'[j]) =>
          /\ \A i \in 1..k : provided[i] # commands'[j].id
          /\ Provides(commands[1]) => commands[1].id # commands'[j].id
    <3> SUFFICES ASSUME NEW j \in 1..n - 1, Provides(commands'[j])
                 PROVE  /\ \A i \in 1..k : provided[i] # commands'[j].id
                        /\ Provides(commands[1]) => commands[1].id # commands'[j].id
      OBVIOUS
    <3>1. j + 1 \in 1..n /\ j + 1 # 1
      BY <1>1
    <3> QED BY <1>1, <2>0, <3>1
  <2>3. CASE provided' = provided
    BY <1>1, <2>0, <2>1, <2>2, <2>3 DEF OfferedOnce, Provides, k
  <2>4. CASE /\ Provides(commands[1]) /\ Len(provided') = k + 1
             /\ provided'[k + 1] = commands[1].id
             /\ \A i \in 1..k : provided'[i] = provided[i]
    <3>1. \A i \in 1..k + 1 : i \in 1..k \/ i = k + 1
      BY <1>2
    <3>2. \A i, j \in 1..k + 1 : i # j => provided'[i] # provided'[j]
      BY <1>1, <2>0, <2>4, <3>1
    <3>3. \A i \in 1..k + 1, j \in 1..n - 1 :
            Provides(commands'[j]) => provided'[i] # commands'[j].id
      BY <2>2, <2>4, <3>1
    <3>4. Len(provided') = k + 1 /\ Len(commands') = n - 1
      BY <1>1, <2>4
    <3>5. \A i, j \in 1..Len(provided') : i # j => provided'[i] # provided'[j]
      BY <3>2, <3>4
    <3>6. \A i, j \in 1..Len(commands') :
            i # j /\ Provides(commands'[i]) /\ Provides(commands'[j]) =>
              commands'[i].id # commands'[j].id
      BY <2>1, <3>4
    <3>7. \A i \in 1..Len(provided'), j \in 1..Len(commands') :
            Provides(commands'[j]) => provided'[i] # commands'[j].id
      BY <3>3, <3>4
    <3> QED BY <3>5, <3>6, <3>7 DEF OfferedOnce, Provides
  <2> QED BY <1>3, <2>3, <2>4
<1>5. ASSUME NEW id, Used(id)'
      PROVE  Used(id)
  <2>1. CASE \E i \in 1..Len(commands') : Provides(commands'[i]) /\ commands'[i].id = id
    BY <1>1, <2>1 DEF Used, n
  <2>2. CASE \E i \in 1..Len(provided') : provided'[i] = id
    <3>1. PICK i \in 1..Len(provided') : provided'[i] = id
      BY <2>2
    <3>2. CASE provided' = provided
      BY <3>1, <3>2 DEF Used
    <3>3. CASE /\ Provides(commands[1]) /\ Len(provided') = k + 1
               /\ provided'[k + 1] = commands[1].id
               /\ \A j \in 1..k : provided'[j] = provided[j]
      <4>1. i \in 1..k \/ i = k + 1
        BY <1>2, <3>1, <3>3
      <4> QED BY <1>1, <3>1, <3>3, <4>1 DEF Used, n, k
    <3> QED BY <1>3, <3>2, <3>3
  <2> QED BY <1>5, <2>1, <2>2 DEF Used, Provides
<1> QED BY <1>4, <1>5

LEMMA ElsewhereKeepsUsed ==
  ASSUME BaseOK, EventInv, SwitchInv, NetworkNext, ~OnNetworkEvent,
         NEW r \in Requests, NEW h \in 1..MaxHops, UsedInTime(r, h)
  PROVE  UsedInTime(r, h)'
<1>1. /\ UNCHANGED attempted /\ Grows /\ Brings
      /\ traffic[r].hop > 0 /\ traffic[r].ended => traffic'[r].ended
  BY ElsewhereFacts
<1>2. traffic[r].hop \in Nat /\ traffic'[r].hop \in Nat
  <2>1. traffic[r].hop \in Nat
    BY DEF BaseOK, Traffic
  <2>2. traffic'[r].hop \in Nat
    BY BaseStep DEF BaseOK, Traffic
  <2> QED BY <2>1, <2>2
<1>3. /\ h <= traffic[r].hop
      /\ h = traffic[r].hop => traffic[r].announced /\ traffic[r].gate # "closed"
      /\ \A m \in Events : m.request = r /\ OpensHop(m) => h < m.hop
      /\ \/ <<r, h>> \in attempted
         \/ /\ h < traffic[r].hop \/ traffic[r].ended
            /\ ~Flying("auth", r, h)
  BY DEF UsedInTime
<1>4. h <= traffic'[r].hop
      /\ (h = traffic'[r].hop => traffic'[r].announced /\ traffic'[r].gate # "closed")
  BY <1>1, <1>2, <1>3 DEF Grows
<1>5. \A m \in Events' : m.request = r /\ OpensHop(m) => h < m.hop
  BY <1>1, <1>2, <1>3 DEF Brings, OpensHop
<1>6. h < traffic[r].hop \/ traffic[r].ended => h < traffic'[r].hop \/ traffic'[r].ended
  BY <1>1, <1>2, <1>3 DEF Grows
<1>7. (h < traffic[r].hop \/ traffic[r].ended) /\ ~Flying("auth", r, h) => ~Flying("auth", r, h)'
  BY <1>1, <1>2 DEF Brings, Flying
<1> QED BY <1>1, <1>3, <1>4, <1>5, <1>6, <1>7 DEF UsedInTime, OpensHop

\* The manager forgets an attempt when the request has moved on or ended.
LEMMA EventKeepsUsed ==
  ASSUME BaseOK, EventInv, MapInv, OnNetworkEvent,
         NEW r \in Requests, NEW h \in 1..MaxHops, UsedInTime(r, h)
  PROVE  UsedInTime(r, h)'
<1>1. PICK type \in EventTypes : TakeEvent(type)
  BY EventTakes
<1>2. UNCHANGED <<settings, mode, fetch, traffic>>
  BY EventTakes
<1>3. /\ Event \in Events /\ Event.type = type
      /\ \A m \in Events' : m \in Events
      /\ \A m \in Events' : m.request = Event.request =>
           /\ Event.hop <= m.hop
           /\ Event.type \notin {"finished", "failed"}
  BY <1>1, TakenFirst
<1>4. /\ Event.request \in Requests /\ Event.hop \in 1..MaxHops
      /\ Event.hop <= traffic[Event.request].hop /\ traffic[r].hop \in Nat
      /\ type \in {"finished", "failed"} => traffic[Event.request].ended
      /\ Event.id = <<Event.request, Event.hop>>
  BY <1>3, EventFacts DEF BaseOK, Traffic
<1>5. /\ h <= traffic[r].hop
      /\ h = traffic[r].hop => traffic[r].announced /\ traffic[r].gate # "closed"
      /\ \A m \in Events : m.request = r /\ OpensHop(m) => h < m.hop
      /\ \/ <<r, h>> \in attempted
         \/ /\ h < traffic[r].hop \/ traffic[r].ended
            /\ ~Flying("auth", r, h)
  BY DEF UsedInTime
<1>6. Flying("auth", r, h)' => Flying("auth", r, h)
  BY <1>3 DEF Flying
<1>7. \A x \in attempted \ attempted' :
        /\ Event.request \in DOMAIN requests /\ x = requests[Event.request].interception
        /\ type \in {"willBeSent", "paused", "finished", "failed"}
  <2>1. NoInterception \in Interception /\ Event.id \in Interception
    BY <1>4 DEF Interception
  <2>2. CASE OnFetchRequestPaused
    <3>1. type = "paused"
      BY <1>1, <2>2, PausedFacts DEF TakeEvent
    <3>2. ASSUME NEW ev \in NetMessage, ev.request = Event.request, Track(ev, Event.id)
          PROVE  \A x \in attempted \ attempted' :
                   Event.request \in DOMAIN requests /\ x = requests[Event.request].interception
      <4>1. \A x \in attempted \ attempted' :
              ev.request \in DOMAIN requests /\ x = requests[ev.request].interception
        BY <2>1, <3>2, TrackFacts
      <4> QED BY <3>2, <4>1
    <3> QED BY <2>2, <3>1, <3>2, PausedFacts
  <2>3. CASE OnRequestWillBeSent
    <3>1. type = "willBeSent" /\ Event \in NetMessage
      BY <1>1, <2>3, WillBeSentFacts DEF TakeEvent
    <3>2. \A id \in Interception : Track(Event, id) =>
            \A x \in attempted \ attempted' :
              Event.request \in DOMAIN requests /\ x = requests[Event.request].interception
      BY <3>1, TrackFacts
    <3> QED BY <2>1, <2>3, <3>1, <3>2, WillBeSentFacts
  <2>4. CASE OnFetchAuthRequired
    BY <2>4, AuthFacts
  <2>5. CASE OnRequestEnds
    BY <1>3, <2>5, EndFacts
  <2> QED BY <2>2, <2>3, <2>4, <2>5 DEF OnNetworkEvent
<1>8. ASSUME <<r, h>> \in attempted, <<r, h>> \notin attempted'
      PROVE  /\ h < traffic[r].hop \/ traffic[r].ended
             /\ ~Flying("auth", r, h)'
  <2>1. /\ Event.request \in DOMAIN requests
        /\ <<r, h>> = requests[Event.request].interception
        /\ type \in {"willBeSent", "paused", "finished", "failed"}
    BY <1>7, <1>8
  <2>2. Event.request = r
    <3>1. <<r, h>> \in OwnOrNone(Event.request)
      BY <2>1 DEF MapInv, TrackedInOrder
    <3> QED BY <3>1 DEF OwnOrNone, NoInterception
  <2>3. CASE type \in {"willBeSent", "paused"}
    <3>1. h < Event.hop
      BY <1>3, <1>5, <2>2, <2>3 DEF OpensHop
    <3>2. ~Flying("auth", r, h)'
      BY <1>3, <1>4, <2>2, <3>1 DEF Flying
    <3> QED BY <1>4, <2>2, <3>1, <3>2
  <2>4. CASE type \in {"finished", "failed"}
    <3>1. ~Flying("auth", r, h)'
      BY <1>3, <2>2, <2>4 DEF Flying
    <3> QED BY <1>4, <2>2, <2>4, <3>1
  <2> QED BY <2>1, <2>3, <2>4
<1>9. \/ <<r, h>> \in attempted'
      \/ /\ h < traffic[r].hop \/ traffic[r].ended
         /\ ~Flying("auth", r, h)'
  BY <1>5, <1>6, <1>8
<1> QED BY <1>2, <1>3, <1>5, <1>9 DEF UsedInTime, OpensHop

\* Credentials are offered to an interception that was not offered any.
LEMMA OfferStep ==
  ASSUME BaseOK, EventInv, MapInv, mode # "proxyAuth", CredentialInv, OnFetchAuthRequired,
         UNCHANGED <<mode, browserState>>
  PROVE  CredentialInv'
<1>1. OnNetworkEvent /\ UNCHANGED <<mode, provided, traffic>>
  BY DEF OnNetworkEvent, browserState
<1>2. TakeEvent("auth")
  BY AuthFacts
<1>3. PICK answer \in {"provide", "default", "cancel"} :
        /\ Send(<<Command("auth", Event.id, answer)>>)
        /\ answer = "provide" =>
             Event.id \notin attempted /\ attempted' = attempted \cup {Event.id}
        /\ answer # "provide" => attempted' = attempted
  BY AuthFacts
<1>4. PICK x \in Requests, k \in 1..MaxHops : Event.request = x /\ Event.hop = k
        /\ Event.id = <<x, k>>
  BY <1>2, TakeFacts
<1> DEFINE c == Command("auth", Event.id, answer)
           n == Len(commands)
<1>5. c \in NetCommand /\ c.id = <<x, k>> /\ (Provides(c) <=> answer = "provide")
  BY <1>4, CommandTypes DEF Hops, Command, Provides
<1>6. /\ \A i \in 1..n : i \in 1..Len(commands') /\ commands'[i] = commands[i]
      /\ \A i \in 1..Len(commands') :
           i \in 1..n \/ (i = n + 1 /\ commands'[i] = c)
      /\ n + 1 \in 1..Len(commands') /\ commands'[n + 1] = c
      /\ n \in Nat
  BY <1>3, <1>5, QueueOne DEF BaseOK
<1> HIDE DEF c, n
<1>7. /\ OfferedOnce
      /\ \A r \in Requests, h \in 1..MaxHops : Used(<<r, h>>) => UsedInTime(r, h)
  BY DEF CredentialInv
<1>8. /\ Event \in Events /\ Event.type = "auth"
      /\ \A m \in Events' : m \in Events
      /\ \A m \in Events' : m.request = Event.request /\ OpensHop(m) => Event.hop < m.hop
  BY <1>2, TakenFirst DEF OpensHop
<1>9. /\ k <= traffic[x].hop /\ Flying("auth", x, k)
      /\ k = traffic[x].hop => traffic[x].announced /\ traffic[x].gate # "closed"
  BY <1>4, <1>8, EventFacts DEF Flying, PastTheGate
<1>10. ASSUME answer = "provide"
       PROVE  ~Used(<<x, k>>)
  BY <1>3, <1>4, <1>7, <1>9, <1>10 DEF UsedInTime
<1>11. OfferedOnce'
  <2>1. CASE answer # "provide"
    <3>1. \A i \in 1..Len(commands') :
            \/ i \in 1..Len(commands) /\ commands'[i] = commands[i]
            \/ ~Provides(commands'[i])
      BY <1>5, <1>6, <2>1 DEF n
    <3> QED BY <1>1, <1>7, <3>1, NothingOffered
  <2>2. CASE answer = "provide"
    <3>1. /\ \A i \in 1..Len(provided) : provided[i] # <<x, k>>
          /\ \A i \in 1..n : Provides(commands[i]) => commands[i].id # <<x, k>>
      BY <1>10, <2>2 DEF Used, n
    <3>2. \A i, j \in 1..Len(commands') :
            i # j /\ Provides(commands'[i]) /\ Provides(commands'[j]) =>
              commands'[i].id # commands'[j].id
      BY <1>5, <1>6, <1>7, <3>1 DEF OfferedOnce, n
    <3>3. \A i \in 1..Len(provided), j \in 1..Len(commands') :
            Provides(commands'[j]) => provided[i] # commands'[j].id
      BY <1>5, <1>6, <1>7, <3>1 DEF OfferedOnce, n
    <3> QED BY <1>1, <1>7, <3>2, <3>3 DEF OfferedOnce, Provides
  <2> QED BY <2>1, <2>2
<1>12. ASSUME NEW r \in Requests, NEW h \in 1..MaxHops, Used(<<r, h>>)'
       PROVE  UsedInTime(r, h)'
  <2>1. Used(<<r, h>>) \/ (answer = "provide" /\ r = x /\ h = k)
    <3>1. CASE \E i \in 1..Len(provided') : provided'[i] = <<r, h>>
      BY <1>1, <3>1 DEF Used
    <3>2. CASE \E i \in 1..Len(commands') :
                 Provides(commands'[i]) /\ commands'[i].id = <<r, h>>
      <4>1. PICK i \in 1..Len(commands') : Provides(commands'[i]) /\ commands'[i].id = <<r, h>>
        BY <3>2
      <4>2. CASE i \in 1..n
        BY <1>6, <4>1, <4>2 DEF Used, n
      <4>3. CASE i = n + 1 /\ commands'[i] = c
        BY <1>5, <4>1, <4>3
      <4> QED BY <1>6, <4>2, <4>3
    <3> QED BY <1>12, <3>1, <3>2 DEF Used, Provides
  <2>2. CASE Used(<<r, h>>)
    BY <1>1, <1>7, <2>2, EventKeepsUsed
  <2>3. CASE answer = "provide" /\ r = x /\ h = k
    <3>1. <<r, h>> \in attempted'
      BY <1>3, <1>4, <2>3
    <3>2. \A m \in Events' : m.request = r /\ OpensHop(m) => h < m.hop
      BY <1>4, <1>8, <2>3
    <3> QED BY <1>1, <1>9, <2>3, <3>1, <3>2 DEF UsedInTime, OpensHop
  <2> QED BY <2>1, <2>2, <2>3
<1> QED BY <1>11, <1>12 DEF CredentialInv

\* Only an authentication challenge is answered with credentials.
LEMMA OffersElsewhere ==
  ASSUME BaseOK, SwitchInv, NetworkNext, ~OnNetworkEvent, mode' # "proxyAuth", mode # "new"
  PROVE  /\ mode' = mode
         /\ OfferedOnce => OfferedOnce'
         /\ \A id : Used(id)' => Used(id)
<1>1. CASE \E m \in Modes, cache \in BOOLEAN : Create(m, cache)
  BY <1>1 DEF Create
<1>2. CASE Authenticate
  <2>1. UNCHANGED <<provided, mode>>
    BY <1>2 DEF Authenticate
  <2>2. \A i \in 1..Len(commands') :
          \/ i \in 1..Len(commands) /\ commands'[i] = commands[i]
          \/ commands'[i].name \in {"cache", "enable"}
    BY <1>2, AuthenticateFacts
  <2>3. \A i \in 1..Len(commands') :
          \/ i \in 1..Len(commands) /\ commands'[i] = commands[i]
          \/ ~Provides(commands'[i])
    BY <2>2 DEF Provides
  <2> QED BY <2>1, <2>3, NothingOffered
<1>3. CASE BrowserStep
  <2>1. UNCHANGED <<commands, mode, provided>>
    BY <1>3, BrowserSteps
  <2> QED BY <2>1 DEF OfferedOnce, Used, Provides
<1>4. CASE BrowserServes
  BY <1>4, ServeFacts, ServedOffer
<1>5. CASE UserStep
  <2>1. UNCHANGED <<commands, mode>> /\ (mode # "proxyAuth" => provided' = provided)
    BY <1>5, UserFacts
  <2>2. UNCHANGED <<commands, mode, provided>>
    BY <2>1
  <2> QED BY <2>2 DEF OfferedOnce, Used, Provides
<1> QED BY <1>1, <1>2, <1>3, <1>4, <1>5 DEF NetworkNext

\* Target::new offers nothing, and nothing was offered before it.
LEMMA NothingOfferedBefore ==
  ASSUME BaseOK, SwitchInv, mode = "new", provided = <<>>,
         NEW m \in Modes, NEW cache \in BOOLEAN, Create(m, cache)
  PROVE  OfferedOnce' /\ \A id : ~Used(id)'
<1>1. provided' = <<>>
  BY DEF Create, browserState
<1>2. Len(provided') = 0
  BY <1>1
<1>3. \A i \in 1..Len(commands') : commands'[i].name \in {"cache", "enable"}
  BY CreateFacts
<1>4. \A i \in 1..Len(commands') : ~Provides(commands'[i])
  BY <1>3 DEF Provides
<1> QED BY <1>2, <1>4 DEF OfferedOnce, Used, Provides

ProvidedLater == mode = "new" => provided = <<>>

LEMMA CredentialStep ==
  ASSUME BaseOK, EventInv, SwitchInv, MapInv, CredentialInv, ProvidedLater, NetworkNext
  PROVE  CredentialInv' /\ ProvidedLater'
<1>1. ProvidedLater'
  <2>1. mode' = "new" => mode = "new" /\ ~\E m \in Modes, cache \in BOOLEAN : Create(m, cache)
    <3>1. ASSUME NEW m \in Modes, NEW cache \in BOOLEAN, Create(m, cache)
          PROVE  mode' # "new"
      BY <3>1, NetworkBounds DEF Create
    <3>2. \/ \E m \in Modes, cache \in BOOLEAN : Create(m, cache)
          \/ mode' = mode
      BY BrowserSteps, ServeFacts, UserFacts, EventTakes DEF NetworkNext, Authenticate
    <3> QED BY <3>1, <3>2
  <2>2. ASSUME mode' = "new"
        PROVE  provided' = <<>>
    <3>1. mode = "new" /\ provided = <<>> /\ commands = <<>>
      BY <2>1, <2>2 DEF ProvidedLater, SwitchInv, UntouchedBefore
    <3>2. \/ Authenticate \/ OnNetworkEvent \/ BrowserStep \/ BrowserServes \/ UserStep
      BY <2>1, <2>2 DEF NetworkNext
    <3>3. ~BrowserServes /\ ~UserStep
      BY <3>1, UserFacts DEF BrowserServes
    <3> QED BY <3>1, <3>2, <3>3, BrowserSteps, EventTakes DEF Authenticate
  <2> QED BY <2>2 DEF ProvidedLater
<1>2. CASE \E m \in Modes, cache \in BOOLEAN : Create(m, cache)
  <2>1. PICK m \in Modes, cache \in BOOLEAN : Create(m, cache)
    BY <1>2
  <2>2. mode = "new" /\ provided = <<>>
    BY <2>1, CreateFacts DEF ProvidedLater
  <2>3. OfferedOnce' /\ \A id : ~Used(id)'
    BY <2>1, <2>2, NothingOfferedBefore
  <2> QED BY <1>1, <2>3 DEF CredentialInv
<1>3. CASE OnNetworkEvent
  <2>1. UNCHANGED <<mode, browserState>>
    BY <1>3 DEF OnNetworkEvent
  <2>2. UNCHANGED <<mode, provided>>
    BY <2>1 DEF browserState
  <2>3. CASE mode = "proxyAuth"
    BY <1>1, <2>2, <2>3 DEF CredentialInv
  <2>4. CASE mode # "proxyAuth" /\ OnFetchAuthRequired
    BY <1>1, <2>1, <2>4, OfferStep
  <2>5. CASE mode # "proxyAuth" /\ ~OnFetchAuthRequired
    <3>1. \A i \in 1..Len(commands') :
            \/ i \in 1..Len(commands) /\ commands'[i] = commands[i]
            \/ ~Provides(commands'[i])
      <4>1. CASE commands' = commands
        BY <4>1
      <4>2. CASE commands' # commands
        <5>1. PICK c \in NetCommand : Send(<<c>>) /\ c.name = "continue"
          BY <1>3, <2>5, <4>2, EventSends
        <5>2. ~Provides(c)
          BY <5>1 DEF Provides
        <5>3. /\ \A i \in 1..Len(commands) : commands'[i] = commands[i]
              /\ \A i \in 1..Len(commands') : i \in 1..Len(commands) \/ commands'[i] = c
          BY <5>1, QueueOne
        <5> QED BY <5>2, <5>3
      <4> QED BY <4>1, <4>2
    <3>2. (OfferedOnce => OfferedOnce') /\ \A id : Used(id)' => Used(id)
      BY <2>2, <3>1, NothingOffered
    <3>3. /\ OfferedOnce
          /\ \A r \in Requests, h \in 1..MaxHops : Used(<<r, h>>) => UsedInTime(r, h)
      BY <2>5 DEF CredentialInv
    <3>4. \A r \in Requests, h \in 1..MaxHops : UsedInTime(r, h) => UsedInTime(r, h)'
      BY <1>3, EventKeepsUsed
    <3>5. \A r \in Requests, h \in 1..MaxHops : Used(<<r, h>>)' => UsedInTime(r, h)'
      BY <3>2, <3>3, <3>4
    <3> QED BY <1>1, <3>2, <3>3, <3>5 DEF CredentialInv
  <2> QED BY <2>3, <2>4, <2>5
<1>4. CASE /\ ~OnNetworkEvent
           /\ ~\E m \in Modes, cache \in BOOLEAN : Create(m, cache)
  <2>1. CASE mode' = "proxyAuth"
    BY <1>1, <2>1 DEF CredentialInv
  <2>2. CASE mode' # "proxyAuth" /\ mode = "new"
    <3>1. Authenticate \/ BrowserStep \/ BrowserServes \/ UserStep
      BY <1>4 DEF NetworkNext
    <3>2. commands = <<>>
      BY <2>2 DEF SwitchInv, UntouchedBefore
    <3>3. ~BrowserServes /\ ~UserStep /\ ~Authenticate
      BY <2>2, <3>2, UserFacts DEF BrowserServes, Authenticate
    <3>4. UNCHANGED <<commands, mode, provided>>
      BY <3>1, <3>3, BrowserSteps
    <3>5. /\ (OfferedOnce => OfferedOnce')
          /\ \A id : Used(id)' => Used(id)
      BY <3>4 DEF OfferedOnce, Used, Provides
    <3>6. /\ OfferedOnce
          /\ \A r \in Requests, h \in 1..MaxHops : Used(<<r, h>>) => UsedInTime(r, h)
      BY <2>2 DEF CredentialInv
    <3>7. \A r \in Requests, h \in 1..MaxHops : UsedInTime(r, h) => UsedInTime(r, h)'
      BY <1>4, ElsewhereKeepsUsed
    <3>8. \A r \in Requests, h \in 1..MaxHops : Used(<<r, h>>)' => UsedInTime(r, h)'
      BY <3>5, <3>6, <3>7
    <3> QED BY <1>1, <3>5, <3>6, <3>8 DEF CredentialInv
  <2>3. CASE mode' # "proxyAuth" /\ mode # "new"
    <3>1. mode' = mode /\ (OfferedOnce => OfferedOnce') /\ \A id : Used(id)' => Used(id)
      BY <1>4, <2>3, OffersElsewhere
    <3>2. /\ OfferedOnce
          /\ \A r \in Requests, h \in 1..MaxHops : Used(<<r, h>>) => UsedInTime(r, h)
      BY <2>3, <3>1 DEF CredentialInv
    <3>3. \A r \in Requests, h \in 1..MaxHops : UsedInTime(r, h) => UsedInTime(r, h)'
      BY <1>4, ElsewhereKeepsUsed
    <3>4. \A r \in Requests, h \in 1..MaxHops : Used(<<r, h>>)' => UsedInTime(r, h)'
      BY <3>1, <3>2, <3>3
    <3> QED BY <1>1, <3>1, <3>2, <3>4 DEF CredentialInv
  <2> QED BY <2>1, <2>2, <2>3
<1> QED BY <1>2, <1>3, <1>4

-----------------------------------------------------------------------------
(* The cache *)

\* The cache is as the configuration has it, or a command to make it so is on its way;
\* every such command does.
CacheInv ==
  /\ \A c \in Queued : c.name = "cache" => c.value = settings.user_cache_disabled
  /\ \/ cache_disabled = settings.user_cache_disabled
     \/ \E c \in Queued : c.name = "cache"

LEMMA CacheStep ==
  ASSUME BaseOK, SwitchInv, CacheInv, NetworkNext
  PROVE  CacheInv'
<1>1. CASE \E m \in Modes, cache \in BOOLEAN : Create(m, cache)
  <2>1. PICK m \in Modes, cache \in BOOLEAN : Create(m, cache)
    BY <1>1
  <2>2. settings' \in Switches /\ (settings'.user_cache_disabled <=> ~cache)
        /\ \A i \in 1..Len(commands') :
             commands'[i].name = "cache" => commands'[i].value = ~cache
    BY <2>1, CreateFacts
  <2>3. settings'.user_cache_disabled = ~cache
    BY <2>2 DEF Switches
  <2>4. \A c \in Queued' : c.name = "cache" => c.value = settings'.user_cache_disabled
    BY <2>2, <2>3 DEF Queued
  <2>5. \E c \in Queued' : c.name = "cache"
    <3>1. PICK i \in 1..Len(commands') : commands'[i].name = "cache"
      BY <2>1, CreateFacts
    <3>2. commands'[i] \in Queued'
      BY DEF Queued
    <3> QED BY <3>1, <3>2
  <2> QED BY <2>4, <2>5 DEF CacheInv
<1>2. CASE Authenticate
  <2>1. UNCHANGED cache_disabled
    BY <1>2 DEF Authenticate
  <2>2. /\ settings'.user_cache_disabled = settings.user_cache_disabled
        /\ \A i \in 1..Len(commands) : i \in 1..Len(commands') /\ commands'[i] = commands[i]
        /\ \A i \in 1..Len(commands') :
             \/ i \in 1..Len(commands)
             \/ commands'[i].name = "cache" => commands'[i].value = settings.user_cache_disabled
    BY <1>2, AuthenticateFacts
  <2>3. \A c \in Queued : c \in Queued'
    BY <2>2 DEF Queued
  <2>4. ASSUME NEW c \in Queued', c.name = "cache"
        PROVE  c \in Queued \/ c.value = settings.user_cache_disabled
    BY <2>2, <2>4 DEF Queued
  <2> HIDE DEF Queued
  <2> QED BY <2>1, <2>2, <2>3, <2>4 DEF CacheInv
<1>3. CASE OnNetworkEvent
  <2>1. UNCHANGED <<settings, cache_disabled>>
    BY <1>3, EventTakes
  <2>2. CASE commands' = commands
    BY <2>1, <2>2 DEF CacheInv, Queued
  <2>3. CASE commands' # commands
    <3>1. PICK c \in NetCommand : Send(<<c>>) /\ c.name \in {"continue", "auth"}
      BY <1>3, <2>3, EventSends
    <3>2. /\ \A i \in 1..Len(commands) : i \in 1..Len(commands') /\ commands'[i] = commands[i]
          /\ \A i \in 1..Len(commands') : i \in 1..Len(commands) \/ commands'[i] = c
      BY <3>1, QueueOne
    <3> QED BY <2>1, <3>1, <3>2 DEF CacheInv, Queued
  <2> QED BY <2>2, <2>3
<1>4. CASE BrowserStep
  BY <1>4, BrowserSteps DEF managerState, CacheInv, Queued
<1>5. CASE BrowserServes
  <2>1. UNCHANGED settings
    BY <1>5, ServeFacts DEF managerState
  <2>2. /\ \A c \in Queued : c = Head(commands) \/ c \in Queued'
        /\ \A c \in Queued' : c \in Queued
        /\ Head(commands) \in Queued
        /\ cache_disabled' = IF Head(commands).name = "cache" THEN Head(commands).value
                             ELSE cache_disabled
    BY <1>5, ServeFacts DEF Queued
  <2> HIDE DEF Queued
  <2> QED BY <2>1, <2>2 DEF CacheInv
<1>6. CASE UserStep
  BY <1>6, UserFacts DEF managerState, CacheInv, Queued
<1> QED BY <1>1, <1>2, <1>3, <1>4, <1>5, <1>6 DEF NetworkNext

-----------------------------------------------------------------------------
(* The inductive invariant and what follows from it *)

NetInv ==
  /\ BaseOK /\ EventInv /\ SwitchInv /\ MapInv /\ PairInv /\ ReportInv /\ AnswerInv
  /\ CredentialInv /\ ProvidedLater /\ CacheInv

LEMMA IdleFacts ==
  /\ Idle \in Traffic /\ Idle.hop = 0 /\ ~Idle.announced /\ ~Idle.ended /\ ~Idle.responded
  /\ Idle.gate = "open"
  BY NetworkBounds DEF Idle, Traffic, Gates

LEMMA InitNetInv ==
  ASSUME NetworkInit
  PROVE  NetInv
<1>1. /\ Len(messages) = 0 /\ Len(commands) = 0 /\ Len(provided) = 0
      /\ DOMAIN requests = {} /\ DOMAIN will_be_sent = {} /\ DOMAIN interceptions = {}
  BY DEF NetworkInit
<1>2. \A r \in Requests : traffic[r] = Idle
  BY DEF NetworkInit
<1>3. BaseOK
  <2>1. traffic \in [Requests -> Traffic]
    BY <1>2, IdleFacts DEF NetworkInit
  <2>2. messages \in Seq(NetMessage) /\ commands \in Seq(NetCommand)
        /\ provided \in Seq(Interception)
    BY DEF NetworkInit
  <2>3. settings \in Switches
    BY DEF NetworkInit, Fresh, Switches
  <2>4. MapsOK
    BY <1>1 DEF NetworkInit, MapsOK
  <2>5. \A i \in 1..Len(messages) : messages[i].id = <<messages[i].request, messages[i].hop>>
    BY <1>1
  <2> QED BY <2>1, <2>2, <2>3, <2>4, <2>5 DEF NetworkInit, BaseOK
<1>4. EventInv
  BY <1>1, <1>2, IdleFacts DEF EventInv, EventsTellTheHop, EventsInOrder, EndsOpened
<1>5. SwitchInv
  <2>1. UntouchedBefore
    BY DEF NetworkInit, UntouchedBefore
  <2>2. SettingsOK
    BY <1>1 DEF NetworkInit, SettingsOK, Fresh, Wanted
  <2>3. BothAgree
    BY <1>1, <1>2, IdleFacts DEF NetworkInit, BothAgree
  <2> QED BY <2>1, <2>2, <2>3 DEF SwitchInv
<1>6. MapInv
  BY <1>1 DEF MapInv, TrackedInOrder, AnnouncedInOrder, PausedInOrder
<1>7. PairInv
  BY <1>2, IdleFacts DEF PairInv
<1>8. ReportInv
  BY <1>2, IdleFacts DEF NetworkInit, ReportInv
<1>9. AnswerInv
  BY DEF NetworkInit, AnswerInv
<1>10. CredentialInv /\ ProvidedLater
  BY <1>1 DEF NetworkInit, CredentialInv, OfferedOnce, Used, ProvidedLater
<1>11. CacheInv
  <2>1. Len(commands) = 0 /\ cache_disabled = FALSE /\ settings.user_cache_disabled = FALSE
    BY DEF NetworkInit, Fresh
  <2>2. Queued = {}
    BY <2>1 DEF Queued
  <2> QED BY <2>1, <2>2 DEF CacheInv
<1> QED BY <1>3, <1>4, <1>5, <1>6, <1>7, <1>8, <1>9, <1>10, <1>11 DEF NetInv

LEMMA NextNetInv ==
  ASSUME NetInv, NetworkNext
  PROVE  NetInv'
<1>1. BaseOK' /\ EventInv' /\ SwitchInv' /\ AnswerInv' /\ CredentialInv' /\ ProvidedLater'
      /\ CacheInv'
  BY BaseStep, EventStep, SwitchStep, AnswerStep, CredentialStep, CacheStep DEF NetInv
<1>2. MapInv' /\ PairInv' /\ ReportInv'
  <2>1. CASE OnNetworkEvent
    BY <2>1, EventKeepsOrder, EventKeepsPairs, EventReports DEF NetInv
  <2>2. CASE ~OnNetworkEvent
    BY <2>2, ElsewhereKeepsMaps, ElsewhereKeepsPairs, ElsewhereReports DEF NetInv
  <2> QED BY <2>1, <2>2
<1> QED BY <1>1, <1>2 DEF NetInv

LEMMA NetStutters ==
  ASSUME NetInv, UNCHANGED networkVars
  PROVE  NetInv'
<1>1. UNCHANGED <<requests, will_be_sent, interceptions, attempted, settings, commands, messages,
                  mode, fetch, cache_disabled, traffic, provided, reported>>
  BY DEF networkVars, managerState, browserState
<1>2. BaseOK' /\ EventInv' /\ SwitchInv'
  BY <1>1 DEF NetInv, BaseOK, MapsOK, EventInv, EventsTellTheHop, EventsInOrder, EndsOpened,
              SwitchInv, UntouchedBefore, SettingsOK, BothAgree, UsersMode, Intercepted
<1>3. UNCHANGED <<Events, Queued>>
  BY <1>1 DEF Events, Queued
<1>4. MapInv'
  BY <1>1, <1>3 DEF NetInv, MapInv, TrackedInOrder, AnnouncedInOrder, PausedInOrder, Intercepted
<1>5. /\ \A t, r, h : Flying(t, r, h)' <=> Flying(t, r, h)
      /\ \A r : Steady(r)' <=> Steady(r)
      /\ \A r : Intercepted(r)' <=> Intercepted(r)
  BY <1>1, <1>3 DEF Flying, Steady, Intercepted
<1>6. PairInv'
  <2>1. \A r : Paired(r) => Paired(r)'
    BY <1>1, <1>5 DEF Paired, PartnersMeet, NothingToPair, PauseComes, AnnouncementComes,
                      Announced, Remembered
  <2> QED BY <1>1, <1>5, <2>1 DEF NetInv, PairInv
<1>7. ReportInv'
  <2>1. \A r : ToldOnce(r) => ToldOnce(r)'
    BY <1>1, <1>3, <1>5 
       DEF ToldOnce, Over, EndComes, Opening, PauseComes, AnnouncementComes, NeverTracked,
           CancelledEarly
  <2> QED BY <1>1, <1>5, <2>1 DEF NetInv, ReportInv
<1>8. AnswerInv'
  BY <1>1, <1>3, <1>5 DEF NetInv, AnswerInv, Attended, Answering, InFlight, Id
<1>9. CredentialInv' /\ ProvidedLater'
  BY <1>1, <1>3, <1>5 DEF NetInv, CredentialInv, ProvidedLater, OfferedOnce, Used, Provides,
                          UsedInTime
<1>10. CacheInv'
  BY <1>1, <1>3 DEF NetInv, CacheInv
<1> QED BY <1>2, <1>4, <1>6, <1>7, <1>8, <1>9, <1>10 DEF NetInv

LEMMA NetInvariant == NetworkSpec => []NetInv
<1>1. NetInv /\ [NetworkNext]_networkVars => NetInv'
  BY NextNetInv, NetStutters
<1> QED BY InitNetInv, <1>1, PTL DEF NetworkSpec

\* Type correctness of the manager's maps and switches: a redirect chain never outgrows
\* the hops of its request (on_request counts one redirect for each), and no request waits
\* for its pause and for its announcement at once.
THEOREM NetworkTypes == NetworkSpec => []NetworkTypeOK
<1>1. ASSUME NetInv
      PROVE  NetworkTypeOK
  <2>1. BaseOK /\ MapInv
    BY <1>1 DEF NetInv
  <2>2. ASSUME NEW r \in DOMAIN requests
        PROVE  requests[r] \in
                 [hop : 1..MaxHops, interception : Interception, chain : 0..MaxHops]
    <3>1. requests[r] \in Tracked /\ requests[r].chain < requests[r].hop
      BY <2>1 DEF BaseOK, MapsOK, MapInv, TrackedInOrder
    <3>2. requests[r].chain \in 0..MaxHops
      BY <3>1, NetworkBounds DEF Tracked
    <3> QED BY <3>1, <3>2 DEF Tracked
  <2>3. DOMAIN interceptions \cap DOMAIN will_be_sent = {}
    BY <2>1 DEF MapInv, AnnouncedInOrder
  <2>4. settings \in [DOMAIN Fresh -> BOOLEAN]
    <3>1. DOMAIN Fresh =
            {"user_interception", "protocol_interception", "credentials", "user_cache_disabled"}
      BY DEF Fresh
    <3>2. settings \in Switches
      BY <2>1 DEF BaseOK
    <3> QED BY <3>1, <3>2 DEF Switches
  <2> QED BY <2>1, <2>2, <2>3, <2>4 DEF BaseOK, MapsOK, NetworkTypeOK
<1> QED BY NetInvariant, <1>1, PTL

\* A tracked hop carries the interception id of that very hop: Fetch.requestPaused and
\* Network.requestWillBeSent of a hop meet in on_request in whichever order they come,
\* and neither meets one of another hop, for any number of requests and redirects.
THEOREM HopsArePaired == NetworkSpec => []PairedWithOwnHop
<1>1. ASSUME NetInv
      PROVE  PairedWithOwnHop
  <2>1. ASSUME NEW r \in DOMAIN requests, Steady(r)
        PROVE  requests[r].interception =
                 IF settings.protocol_interception /\ r \notin DataRequests
                 THEN <<r, requests[r].hop>> ELSE NoInterception
    <3>1. r \in Requests /\ requests[r].hop \in 1..MaxHops /\ traffic[r].hop \in Nat
          /\ requests[r].hop <= traffic[r].hop
      BY <1>1 DEF NetInv, BaseOK, MapsOK, MapInv, TrackedInOrder, Tracked, Traffic
    <3>2. traffic[r].hop > 0
      BY <3>1
    <3>3. Paired(r)
      BY <1>1, <2>1, <3>1, <3>2 DEF NetInv, PairInv
    <3> QED BY <2>1, <3>3 DEF Paired, PartnersMeet, NothingToPair, Intercepted
  <2> QED BY <2>1 DEF PairedWithOwnHop
<1> QED BY NetInvariant, <1>1, PTL

\* When commands and events have been handled, a request that ended has been reported
\* exactly once, whichever of response, loadingFinished and loadingFailed came, and left
\* requests and request_id_to_interception_id.  A hop that was cancelled before its pause
\* stays in requests_will_be_sent, and alone is not reported.
THEOREM RequestsAreReported == NetworkSpec => []EveryRequestIsReportedOnce
<1>1. ASSUME NetInv
      PROVE  EveryRequestIsReportedOnce
  <2>1. ASSUME Quiet, NEW r \in Requests, Steady(r), traffic[r].ended
        PROVE  /\ reported[r] = IF NeverTracked(r) THEN 0 ELSE 1
               /\ r \notin DOMAIN requests \cup DOMAIN interceptions
               /\ r \in DOMAIN will_be_sent <=> CancelledEarly(r)
    <3>1. Events = {}
      <4>1. Len(messages) = 0
        BY <2>1 DEF Quiet
      <4> QED BY <4>1 DEF Events
    <3>2. traffic[r].hop > 0 /\ traffic[r].announced /\ traffic[r].hop \in 1..MaxHops
      BY <1>1, <2>1 DEF NetInv, EventInv, EndsOpened, BaseOK, Traffic
    <3>3. ToldOnce(r) /\ Paired(r) /\ BaseOK /\ MapInv
      BY <1>1, <2>1, <3>2 DEF NetInv, ReportInv, PairInv
    <3>4. /\ \A h \in 1..MaxHops : ~AnnouncementComes(r, h)
          /\ \A h \in 1..MaxHops : PauseComes(r, h) <=> h = traffic[r].hop /\ CancelledEarly(r)
          /\ ~EndComes(r)
      BY <2>1, <3>1, <3>2
         DEF PauseComes, AnnouncementComes, Flying, EndComes, CancelledEarly
    <3>5. reported[r] = (IF NeverTracked(r) THEN 0 ELSE 1) /\ r \notin DOMAIN requests
      <4>1. CASE NeverTracked(r)
        BY <3>3, <4>1, NotYetTracked DEF ToldOnce
      <4>2. CASE ~NeverTracked(r)
        BY <2>1, <3>3, <3>4, <4>2 DEF ToldOnce, Over
      <4> QED BY <4>1, <4>2
    <3>6. r \in DOMAIN will_be_sent => CancelledEarly(r)
      <4>1. ASSUME r \in DOMAIN will_be_sent
            PROVE  CancelledEarly(r)
        <5>1. will_be_sent[r].hop \in 1..MaxHops /\ Intercepted(r)
          BY <1>1, <4>1 DEF NetInv, BaseOK, MapsOK, NetMessage, MapInv, AnnouncedInOrder
        <5> QED BY <3>3, <3>4, <4>1, <5>1 DEF Paired, PartnersMeet, Announced
      <4> QED BY <4>1
    <3>7. CancelledEarly(r) => r \in DOMAIN will_be_sent
      <4>1. ASSUME CancelledEarly(r)
            PROVE  r \in DOMAIN will_be_sent
        <5>1. PauseComes(r, traffic[r].hop) /\ ~AnnouncementComes(r, traffic[r].hop)
          BY <3>2, <3>4, <4>1
        <5>2. Announced(r, traffic[r].hop)
          BY <3>2, <3>3, <5>1 DEF Paired, PartnersMeet, NothingToPair
        <5> QED BY <5>2 DEF Announced
      <4> QED BY <4>1
    <3>8. r \notin DOMAIN interceptions
      <4>1. ASSUME r \in DOMAIN interceptions
            PROVE  FALSE
        <5>1. interceptions[r][2] \in 1..MaxHops
          BY <1>1, <4>1 DEF NetInv, BaseOK, MapsOK, Hops
        <5> QED BY <3>3, <3>4, <4>1, <5>1
                DEF Paired, PartnersMeet, NothingToPair, Remembered
      <4> QED BY <4>1
    <3> QED BY <3>5, <3>6, <3>7, <3>8
  <2> QED BY <2>1 DEF EveryRequestIsReportedOnce, NeverTracked
<1> QED BY NetInvariant, <1>1, PTL

\* When commands and events have been handled, no request the manager is to continue or to
\* answer waits at its gate; no interception was ever offered credentials twice; and the
\* cache is as the configuration has it, although update_protocol_request_interception
\* queues Network.setCacheDisabled of its own: that command comes before the new flag.
THEOREM NothingRemains == NetworkSpec => []NothingIsLeftUndone
<1>1. ASSUME NetInv
      PROVE  NothingIsLeftUndone
  <2>1. Quiet => Events = {} /\ Queued = {}
    <3>1. Quiet => Len(messages) = 0 /\ Len(commands) = 0
      BY DEF Quiet
    <3> QED BY <3>1 DEF Events, Queued
  <2>2. NobodyWaitsInVain
    BY <1>1, <2>1 DEF NetInv, NobodyWaitsInVain, AnswerInv, Attended, Flying, Answering
  <2>3. CredentialsAreOfferedOnce
    BY <1>1 DEF NetInv, CredentialInv, OfferedOnce, CredentialsAreOfferedOnce
  <2>4. CacheIsAsConfigured
    BY <1>1, <2>1 DEF NetInv, CacheInv, CacheIsAsConfigured
  <2> QED BY <2>2, <2>3, <2>4 DEF NothingIsLeftUndone
<1> QED BY NetInvariant, <1>1, PTL
=============================================================================
