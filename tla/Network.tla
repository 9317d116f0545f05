------------------------------ MODULE Network ------------------------------
(***************************************************************************)
(* The NetworkManager of one Target, and who else drives the Fetch domain  *)
(* of its page.                                                            *)
(*                                                                         *)
(*   manager   pairs Fetch.requestPaused with Network.requestWillBeSent,   *)
(*             continues requests, answers authentication challenges and   *)
(*             reports requests that end                                   *)
(*   user      Page::authenticate, HandlerConfig.request_intercept, or     *)
(*             ChaserPage's enable_request_interception, enable_proxy_auth *)
(*   browser   requests with their redirects; an intercepted hop waits at  *)
(*             its gate until somebody continues it                        *)
(*                                                                         *)
(* Commands and events keep their order.  What a request carries, extra    *)
(* headers and the offline mode are left out.                              *)
(***************************************************************************)
EXTENDS Naturals, Sequences, FiniteSets

CONSTANTS
  Requests,     \* network ids
  DataRequests, \* those of data: urls, which are never intercepted
  Modes,        \* how the user may drive interception
  MaxHops,      \* bound: a request and its redirects
  MaxTries,     \* bound: authentication challenges of a hop
  MaxInbox      \* bound: events on their way

NoInterception == <<>>

ASSUME NetworkBounds ==
  /\ DataRequests \subseteq Requests
  /\ Modes \subseteq {"manager", "authenticate", "config", "intercept", "proxyAuth"}
  /\ MaxHops \in Nat \ {0} /\ MaxTries \in Nat /\ MaxInbox \in Nat

VARIABLES
  requests,        \* NetworkManager.requests
  will_be_sent,    \* NetworkManager.requests_will_be_sent
  interceptions,   \* NetworkManager.request_id_to_interception_id
  attempted,       \* NetworkManager.attempted_authentications
  settings,        \* the manager's switches and credentials
  commands,        \* queued_events: commands on their way to the browser
  messages,        \* events on their way to the manager
  mode,            \* what the user does
  fetch,           \* browser: "off", "on" or "onWithAuth"
  cache_disabled,  \* browser: the last Network.setCacheDisabled
  traffic,         \* browser: every request
  provided,        \* history: interceptions credentials were offered for
  reported         \* history: how often the end of a request was reported

managerState == <<requests, will_be_sent, interceptions, attempted, settings>>
browserState == <<fetch, cache_disabled, traffic, provided>>
networkVars == <<managerState, commands, messages, mode, browserState, reported>>

-----------------------------------------------------------------------------
(* Commands.  Operators on the switches s and the commands they queue. *)

Command(name, id, value) == [name |-> name, id |-> id, value |-> value]
Send(cmds) == commands' = commands \o cmds

\* update_protocol_cache_disabled
CacheCommand(s) ==
  Command("cache", NoInterception, s.user_cache_disabled \/ s.protocol_interception)

\* update_protocol_request_interception: the cache switch is computed before the new
\* flag is stored.
Wanted(s) == s.user_interception \/ s.credentials
Updated(s) == [s EXCEPT !.protocol_interception = Wanted(s)]
UpdateCommands(s) ==
  IF Wanted(s) = s.protocol_interception THEN <<>>
  ELSE <<CacheCommand(s),
         Command(IF Wanted(s) THEN "enable" ELSE "disable", NoInterception, TRUE)>>

Fresh == [user_interception |-> FALSE, protocol_interception |-> FALSE,
          credentials |-> FALSE, user_cache_disabled |-> FALSE]

\* Target::new: set_cache_enabled, then set_request_interception.
Create(m, cache_enabled) ==
  /\ mode = "new" /\ mode' = m
  /\ LET s == [Fresh EXCEPT !.user_cache_disabled = ~cache_enabled]
         t == [s EXCEPT !.user_interception = (m = "config")]
     IN settings' = Updated(t) /\ Send(<<CacheCommand(s)>> \o UpdateCommands(t))
  /\ UNCHANGED <<requests, will_be_sent, interceptions, attempted, messages, browserState,
                 reported>>

\* TargetMessage::Authenticate
Authenticate ==
  /\ mode = "authenticate" /\ ~settings.credentials
  /\ LET s == [settings EXCEPT !.credentials = TRUE]
     IN settings' = Updated(s) /\ Send(UpdateCommands(s))
  /\ traffic' = [r \in Requests |-> [traffic[r] EXCEPT !.steady = (@ /\ traffic[r].hop = 0)]]
  /\ UNCHANGED <<requests, will_be_sent, interceptions, attempted, messages, mode, fetch,
                 cache_disabled, provided, reported>>

-----------------------------------------------------------------------------
(* Events.  Maps lose and gain keys. *)

Drop(map, r) == [x \in DOMAIN map \ {r} |-> map[x]]
Add(map, r, value) == [x \in DOMAIN map \cup {r} |-> IF x = r THEN value ELSE map[x]]

TakeEvent(type) == messages # <<>> /\ Head(messages).type = type /\ messages' = Tail(messages)
Event == Head(messages)

\* on_request: a redirect ends the request it comes from and puts it in the chain.
Track(ev, id) ==
  LET r == ev.request
      before == ev.hop > 1 /\ r \in DOMAIN requests
  IN /\ requests' = Add(requests, r,
          [hop |-> ev.hop, interception |-> id,
           chain |-> IF before THEN requests[r].chain + 1 ELSE 0])
     /\ attempted' = IF before THEN attempted \ {requests[r].interception} ELSE attempted

\* Mutant: the interception is remembered although the announcement was there.
PausedAndRemembered ==
  /\ TakeEvent("paused")
  /\ interceptions' = Add(interceptions, Event.request, Event.id)
  /\ UNCHANGED <<requests, will_be_sent, attempted, settings, commands, reported>>

OnFetchRequestPaused ==
  /\ TakeEvent("paused")
  /\ Send(IF ~settings.user_interception /\ settings.protocol_interception
          THEN <<Command("continue", Event.id, TRUE)>> ELSE <<>>)
  /\ LET r == Event.request
     IN \/ /\ r \in DOMAIN will_be_sent
           /\ will_be_sent' = Drop(will_be_sent, r)
           /\ Track(will_be_sent[r], Event.id)
           /\ UNCHANGED interceptions
        \/ /\ r \notin DOMAIN will_be_sent
           /\ interceptions' = Add(interceptions, r, Event.id)
           /\ UNCHANGED <<requests, will_be_sent, attempted>>
  /\ UNCHANGED <<settings, reported>>

\* Mutant: the interception stays for the next hop.
WillBeSentKeepsInterception ==
  /\ TakeEvent("willBeSent")
  /\ LET r == Event.request
     IN IF settings.protocol_interception /\ r \notin DataRequests /\ r \notin DOMAIN interceptions
        THEN /\ will_be_sent' = Add(will_be_sent, r, Event)
             /\ UNCHANGED <<requests, interceptions, attempted>>
        ELSE /\ Track(Event, IF r \in DOMAIN interceptions THEN interceptions[r] ELSE NoInterception)
             /\ UNCHANGED <<will_be_sent, interceptions>>
  /\ UNCHANGED <<settings, commands, reported>>

OnRequestWillBeSent ==
  /\ TakeEvent("willBeSent")
  /\ LET r == Event.request
     IN IF settings.protocol_interception /\ r \notin DataRequests
        THEN IF r \in DOMAIN interceptions
             THEN /\ interceptions' = Drop(interceptions, r)
                  /\ Track(Event, interceptions[r])
                  /\ UNCHANGED will_be_sent
             ELSE /\ will_be_sent' = Add(will_be_sent, r, Event)
                  /\ UNCHANGED <<requests, interceptions, attempted>>
        ELSE Track(Event, NoInterception) /\ UNCHANGED <<will_be_sent, interceptions>>
  /\ UNCHANGED <<settings, commands, reported>>

\* Mutant: an attempt is not remembered.
AuthRequiredAgain ==
  /\ TakeEvent("auth")
  /\ Send(<<Command("auth", Event.id, IF settings.credentials THEN "provide" ELSE "default")>>)
  /\ UNCHANGED <<requests, will_be_sent, interceptions, attempted, settings, reported>>

OnFetchAuthRequired ==
  /\ TakeEvent("auth")
  /\ LET answer == IF Event.id \in attempted THEN "cancel"
                   ELSE IF settings.credentials THEN "provide" ELSE "default"
     IN /\ attempted' = IF answer = "provide" THEN attempted \cup {Event.id} ELSE attempted
        /\ Send(<<Command("auth", Event.id, answer)>>)
  /\ UNCHANGED <<requests, will_be_sent, interceptions, settings, reported>>

\* Mutant: the response leaves the request tracked.
RequestEndsTwice ==
  /\ \E type \in {"response", "finished", "failed"} : TakeEvent(type)
  /\ LET r == Event.request
     IN /\ requests' = IF Event.type = "response" THEN requests ELSE Drop(requests, r)
        /\ reported' = [reported EXCEPT ![r] = @ + (IF r \in DOMAIN requests THEN 1 ELSE 0)]
  /\ UNCHANGED <<will_be_sent, interceptions, attempted, settings, commands>>

\* A response, the end of the loading or its failure: the first of them that finds the
\* request tracked reports it.  Only the last two forget its authentication.
OnRequestEnds ==
  /\ \E type \in {"response", "finished", "failed"} : TakeEvent(type)
  /\ LET r == Event.request
     IN IF r \in DOMAIN requests
        THEN /\ requests' = Drop(requests, r)
             /\ attempted' = IF Event.type = "response" THEN attempted
                             ELSE attempted \ {requests[r].interception}
             /\ reported' = [reported EXCEPT ![r] = @ + 1]
        ELSE UNCHANGED <<requests, attempted, reported>>
  /\ UNCHANGED <<will_be_sent, interceptions, settings, commands>>

OnNetworkEvent ==
  /\ \/ OnFetchRequestPaused \/ OnRequestWillBeSent \/ OnFetchAuthRequired
     \/ OnRequestEnds
  /\ UNCHANGED <<mode, browserState>>

-----------------------------------------------------------------------------
(* The browser.  A request is the hop it is at, whether that hop was announced, its
   gate (open, closed, paused, auth, through) and how it ends. *)

Idle == [hop |-> 0, announced |-> FALSE, gate |-> "open", tries |-> 0, ended |-> FALSE,
         responded |-> FALSE, steady |-> TRUE]

Id(r) == <<r, traffic[r].hop>>
Message(type, r) == [type |-> type, request |-> r, hop |-> traffic[r].hop, id |-> Id(r)]
EmitEvent(type, r) ==
  /\ Len(messages) < MaxInbox /\ messages' = Append(messages, Message(type, r))
Change(r, new) == traffic' = [traffic EXCEPT ![r] = new]

InFlight(r) == traffic[r].hop > 0 /\ ~traffic[r].ended
Sent(r) == InFlight(r) /\ traffic[r].announced /\ traffic[r].gate \in {"open", "through"}
Switched == \E i \in 1..Len(commands) : commands[i].name \in {"enable", "disable"}

NewHop(r, steady) ==
  [Idle EXCEPT !.hop = traffic[r].hop + 1, !.steady = steady,
     !.gate = IF fetch = "off" \/ r \in DataRequests THEN "open" ELSE "closed"]

\* The request is steady if browser and manager agree on interception.
BrowserRequests(r) ==
  /\ mode # "new" /\ traffic[r].hop = 0
  /\ Change(r, NewHop(r, traffic[r].steady /\ ~Switched
                          /\ settings.protocol_interception = (fetch # "off")))
  /\ UNCHANGED messages

BrowserRedirects(r) ==
  /\ Sent(r) /\ ~traffic[r].responded /\ traffic[r].hop < MaxHops
  /\ r \notin DataRequests
  /\ Change(r, NewHop(r, traffic[r].steady)) /\ UNCHANGED messages

BrowserAnnounces(r) ==
  /\ InFlight(r) /\ ~traffic[r].announced
  /\ EmitEvent("willBeSent", r) /\ Change(r, [traffic[r] EXCEPT !.announced = TRUE])

BrowserPauses(r) ==
  /\ InFlight(r) /\ traffic[r].gate = "closed"
  /\ EmitEvent("paused", r) /\ Change(r, [traffic[r] EXCEPT !.gate = "paused"])

BrowserChallenges(r) ==
  /\ Sent(r) /\ traffic[r].gate = "through" /\ fetch = "onWithAuth"
  /\ ~traffic[r].responded /\ traffic[r].tries < MaxTries
  /\ EmitEvent("auth", r)
  /\ Change(r, [traffic[r] EXCEPT !.gate = "auth", !.tries = @ + 1])

BrowserResponds(r) ==
  /\ Sent(r) /\ ~traffic[r].responded
  /\ EmitEvent("response", r) /\ Change(r, [traffic[r] EXCEPT !.responded = TRUE])

BrowserFinishes(r) ==
  /\ Sent(r) /\ traffic[r].responded
  /\ EmitEvent("finished", r) /\ Change(r, [traffic[r] EXCEPT !.ended = TRUE])

\* Also before its pause and while it waits at its gate: the page has cancelled it.
BrowserFails(r) ==
  /\ InFlight(r) /\ traffic[r].announced
  /\ EmitEvent("failed", r) /\ Change(r, [traffic[r] EXCEPT !.ended = TRUE])

BrowserStep ==
  /\ \E r \in Requests :
       \/ BrowserRequests(r) \/ BrowserRedirects(r) \/ BrowserAnnounces(r)
       \/ BrowserPauses(r) \/ BrowserChallenges(r) \/ BrowserResponds(r)
       \/ BrowserFinishes(r) \/ BrowserFails(r)
  /\ UNCHANGED <<managerState, commands, mode, fetch, cache_disabled, provided, reported>>

\* Whoever answers, the first answer counts and a later one is refused.  Anything but
\* credentials lets the request end with the challenge's status.
Answered(id, from, tries) ==
  [r \in Requests |->
     IF InFlight(r) /\ id = Id(r) /\ traffic[r].gate = from
     THEN [traffic[r] EXCEPT !.gate = "through", !.tries = tries] ELSE traffic[r]]

\* Disabling Fetch lets everything go on.
Released == [r \in Requests |->
  IF InFlight(r) /\ traffic[r].gate \in {"closed", "paused", "auth"}
  THEN [traffic[r] EXCEPT !.gate = "through"] ELSE traffic[r]]

BrowserServes ==
  /\ commands # <<>> /\ commands' = Tail(commands)
  /\ LET cmd == Head(commands)
     IN /\ cache_disabled' = IF cmd.name = "cache" THEN cmd.value ELSE cache_disabled
        /\ fetch' = CASE cmd.name = "enable" -> "onWithAuth"
                      [] cmd.name = "disable" -> "off"
                      [] OTHER -> fetch
        /\ traffic' =
             CASE cmd.name = "continue" -> Answered(cmd.id, "paused", 0)
               [] cmd.name = "auth" ->
                    Answered(cmd.id, "auth",
                             IF cmd.value = "provide" THEN 1 ELSE MaxTries)
               [] cmd.name = "disable" -> Released
               [] OTHER -> traffic
        /\ provided' = IF cmd.name = "auth" /\ cmd.value = "provide"
                       THEN Append(provided, cmd.id) ELSE provided
  /\ UNCHANGED <<managerState, messages, mode, reported>>

-----------------------------------------------------------------------------
(* The user's own use of the Fetch domain.  What the events tell is known once they
   have been handled. *)

Heard(type, r) ==
  /\ \A i \in 1..Len(messages) : messages[i].type # type \/ messages[i].id # Id(r)
  /\ InFlight(r)

\* ChaserPage::enable_request_interception, disable_request_interception
UserSwitches ==
  /\ mode = "intercept"
  /\ \/ fetch = "off" /\ fetch' = "on" /\ UNCHANGED traffic
     \/ fetch = "on" /\ fetch' = "off" /\ traffic' = Released
  /\ UNCHANGED provided

\* continue_request, for a request the user has intercepted.
UserContinues(r) ==
  /\ mode \in {"config", "intercept"} /\ Heard("paused", r)
  /\ traffic[r].gate = "paused"
  /\ traffic' = Answered(Id(r), "paused", 0)
  /\ UNCHANGED <<fetch, provided>>

\* ChaserPage::enable_proxy_auth, and the task it spawns
UserEnablesProxyAuth ==
  /\ mode = "proxyAuth" /\ fetch = "off" /\ fetch' = "onWithAuth"
  /\ UNCHANGED <<traffic, provided>>

ProxyAuthTask(r) ==
  /\ mode = "proxyAuth" /\ Heard("auth", r) /\ traffic[r].gate = "auth"
  /\ traffic' = Answered(Id(r), "auth", 1) /\ provided' = Append(provided, Id(r))
  /\ UNCHANGED fetch

UserStep ==
  /\ \/ UserSwitches \/ UserEnablesProxyAuth
     \/ \E r \in Requests : UserContinues(r) \/ ProxyAuthTask(r)
  /\ UNCHANGED <<managerState, commands, messages, mode, cache_disabled, reported>>

NetworkInit ==
  /\ requests = <<>> /\ will_be_sent = <<>> /\ interceptions = <<>> /\ attempted = {}
  /\ settings = Fresh /\ commands = <<>> /\ messages = <<>> /\ mode = "new"
  /\ fetch = "off" /\ cache_disabled = FALSE
  /\ traffic = [r \in Requests |-> Idle]
  /\ provided = <<>> /\ reported = [r \in Requests |-> 0]

NetworkNext ==
  \/ \E m \in Modes, cache \in BOOLEAN : Create(m, cache)
  \/ Authenticate \/ OnNetworkEvent \/ BrowserStep \/ BrowserServes \/ UserStep

NetworkSpec == NetworkInit /\ [][NetworkNext]_networkVars

-----------------------------------------------------------------------------
(* Properties *)

Interception == Requests \X (1..MaxHops) \cup {NoInterception}
Steady(r) == traffic[r].steady /\ mode \notin {"intercept", "proxyAuth"}

\* The maps hold what they should, and no request waits for its pause and for its
\* announcement at once.
NetworkTypeOK ==
  /\ DOMAIN requests \subseteq Requests
  /\ \A r \in DOMAIN requests :
       requests[r] \in [hop : 1..MaxHops, interception : Interception, chain : 0..MaxHops]
  /\ DOMAIN interceptions \subseteq Requests /\ DOMAIN will_be_sent \subseteq Requests
  /\ DOMAIN interceptions \cap DOMAIN will_be_sent = {}
  /\ attempted \subseteq Interception /\ settings \in [DOMAIN Fresh -> BOOLEAN]
  /\ mode \in Modes \cup {"new"} /\ fetch \in {"off", "on", "onWithAuth"}

\* A hop is tracked with the interception of that very hop, in whichever order pause
\* and announcement came and however often the request was redirected, if interception
\* was not switched under way.
PairedWithOwnHop ==
  \A r \in DOMAIN requests : Steady(r) =>
    requests[r].interception =
      IF settings.protocol_interception /\ r \notin DataRequests
      THEN <<r, requests[r].hop>> ELSE NoInterception

Quiet == commands = <<>> /\ messages = <<>> /\ mode # "new"

\* It ended between its announcement and its pause.
CancelledEarly(r) == traffic[r].ended /\ traffic[r].gate = "closed"

\* When everything has been handled, a request that ended was reported exactly once and
\* nothing of it is left in the manager's maps.  The exception is a hop that was
\* cancelled before its pause: its announcement is kept for good, and what is reported
\* is the hop it was redirected from, or nothing if there was none.
EveryRequestIsReportedOnce ==
  Quiet => \A r \in Requests : Steady(r) /\ traffic[r].ended =>
    /\ reported[r] = IF CancelledEarly(r) /\ traffic[r].hop = 1 THEN 0 ELSE 1
    /\ r \notin DOMAIN requests \cup DOMAIN interceptions
    /\ r \in DOMAIN will_be_sent <=> CancelledEarly(r)

\* No request waits for an answer that nobody is about to give.
NobodyWaitsInVain ==
  Quiet /\ mode \in {"manager", "authenticate"} =>
    \A r \in Requests : InFlight(r) => traffic[r].gate \notin {"paused", "auth"}

\* A second challenge to an interception is cancelled.
CredentialsAreOfferedOnce ==
  mode # "proxyAuth" =>
    \A i, j \in 1..Len(provided) : i # j => provided[i] # provided[j]

\* The cache is as the configuration has it.  Interception does not turn it off: its
\* command is computed before the new flag is stored.
CacheIsAsConfigured == Quiet => cache_disabled = settings.user_cache_disabled

\* When everything has been handled the manager has done its part.  Unless the user
\* intercepts requests himself none waits at its gate; wrong credentials do not go round
\* for ever; and the cache is as the configuration has it, on or off, whatever became
\* of interception.
NothingIsLeftUndone ==
  NobodyWaitsInVain /\ CredentialsAreOfferedOnce /\ CacheIsAsConfigured

\* ChaserPage::enable_proxy_auth, "then navigate as usual": no request is left waiting
\* at its gate once everything has been handled.
ProxyAuthLetsRequestsPass ==
  Quiet /\ mode = "proxyAuth" =>
    \A r \in Requests : InFlight(r) => traffic[r].gate # "paused"
=============================================================================
