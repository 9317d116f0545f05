------------------------------ MODULE Commands ------------------------------
(***************************************************************************)
(* The Handler's table of pending commands over its Connection: calls of   *)
(* Browser::execute and Browser::close.                                    *)
(*                                                                         *)
(*   caller      puts a message into the Handler's channel and awaits a    *)
(*               oneshot, with no delay of its own                         *)
(*   Handler     submits the commands of the channel, moves the connection *)
(*               on, reads what arrived, evicts what is late               *)
(*   user        polls the Handler's stream again after an error, or drops *)
(*               it                                                        *)
(*   browser     answers commands in any order, late or never; closes      *)
(*                                                                         *)
(* Targets and their commands are left out here: they pass the same table  *)
(* (Navigation, Targets).                                                  *)
(***************************************************************************)
EXTENDS Connection, FiniteSets

CONSTANTS
  Calls,     \* calls of Browser::execute and Browser::close
  Closes,    \* the calls of Browser::close
  Discover,  \* the command Handler::new submits, which nobody awaits
  MayClose,  \* whether the socket may close by itself
  MayDrop    \* whether the user may drop the Handler

ASSUME CallsAssumption ==
  /\ Closes \subseteq Calls /\ Discover \notin Calls
  /\ MayClose \in BOOLEAN /\ MayDrop \in BOOLEAN

VARIABLES
  outcome,     \* what each caller got
  got,         \* the calls whose response each caller was given
  mail,        \* Handler.from_browser
  pending,     \* Handler.pending_commands, by id
  late,        \* those older than request_timeout
  closing,     \* Handler.closing
  phase,       \* where the Handler's loop is
  inbox,       \* messages that have arrived at the socket
  unanswered   \* browser: commands it received and has not answered

callerVars == <<outcome, got, mail>>
tableVars == <<pending, late, closing>>
browserVars == <<inbox, unanswered>>
vars == <<connVars, callerVars, tableVars, phase, browserVars>>

-----------------------------------------------------------------------------
(* Callers *)

\* Browser::execute, Browser::close: the channel is gone with the Handler.
Call(c) ==
  /\ outcome[c] = "idle"
  /\ \/ /\ phase # "ended"
        /\ outcome' = [outcome EXCEPT ![c] = "waiting"]
        /\ mail' = Append(mail, c)
     \/ /\ phase = "ended"
        /\ outcome' = [outcome EXCEPT ![c] = "refused"]
        /\ UNCHANGED mail
  /\ UNCHANGED <<connVars, got, tableVars, phase, browserVars>>

\* The oneshot senders of the calls of S are used or dropped.
Resolve(S, r) ==
  outcome' = [c \in Calls |-> IF c \in S /\ outcome[c] = "waiting" THEN r ELSE outcome[c]]

CallsIn(S) == {p.call : p \in S}

-----------------------------------------------------------------------------
(* Handler::poll_next *)

\* HandlerMessage::Command and HandlerMessage::CloseBrowser.
TakeMail ==
  /\ phase = "mail" /\ mail # <<>>
  /\ mail' = Tail(mail)
  /\ SubmitCommand(Head(mail))
  /\ pending' = pending \cup {MethodCall(next_id, Head(mail))}
  /\ UNCHANGED <<outcome, got, late, closing, phase, browserVars>>

EndMail ==
  /\ phase = "mail" /\ mail = <<>>
  /\ phase' = "conn"
  /\ UNCHANGED <<connVars, callerVars, tableVars, browserVars>>

\* Connection::poll_next sends what it can.
MoveOn ==
  /\ phase = "conn" /\ ~closing
  /\ \/ StartSend /\ UNCHANGED browserVars
     \/ SinkReady /\ UNCHANGED browserVars
     \/ /\ Flush
        /\ unanswered' = unanswered \cup {sink[i] : i \in 1..Len(sink)}
        /\ UNCHANGED inbox
  /\ UNCHANGED <<callerVars, tableVars, phase>>

\* An error of the connection is an item of the Handler's stream.
YieldError ==
  /\ phase = "conn" /\ ~closing
  /\ SendFails \/ (inbox = <<>> /\ ReadFails)
  /\ phase' = "yielded"
  /\ UNCHANGED <<callerVars, tableVars, browserVars>>

\* Mutant: the response goes to whoever waits longest.
OnResponseInOrder(m) ==
  /\ \/ /\ pending # {}
        /\ \E p \in pending :
             /\ \A q \in pending : p.id <= q.id
             /\ pending' = pending \ {p} /\ late' = late \ {p}
             /\ Resolve({p.call}, "response")
             /\ got' = [got EXCEPT ![p.call] = @ \cup {m.call}]
             /\ closing' = (closing \/ p.call \in Closes)
     \/ /\ pending = {}
        /\ UNCHANGED <<outcome, got, tableVars>>
  /\ UNCHANGED mail

\* Handler::on_response; a response nobody waits for any more is ignored.
OnResponse(m) ==
  /\ \/ \E p \in pending :
          /\ p.id = m.id
          /\ pending' = pending \ {p} /\ late' = late \ {p}
          /\ Resolve({p.call}, "response")
          /\ got' = [got EXCEPT ![p.call] = @ \cup {m.call}]
          /\ closing' = (closing \/ p.call \in Closes)
     \/ /\ \A p \in pending : p.id # m.id
        /\ UNCHANGED <<outcome, got, tableVars>>
  /\ UNCHANGED mail

\* The next message is a response, or one that cannot be parsed, which is an error
\* unless the Handler is told to ignore it.
ReadMessage ==
  /\ phase = "conn" /\ ~closing /\ ~CanSend /\ inbox # <<>>
  /\ inbox' = Tail(inbox)
  /\ \/ /\ Head(inbox).valid
        /\ OnResponse(Head(inbox).of)
        /\ UNCHANGED phase
     \/ /\ ~Head(inbox).valid
        /\ phase' \in {"conn", "yielded"}
        /\ UNCHANGED <<callerVars, tableVars>>
  /\ UNCHANGED <<connVars, unanswered>>

\* The response to Browser.close has been read: the Handler's stream is over.
Finish ==
  /\ phase = "conn" /\ closing
  /\ phase' = "over"
  /\ UNCHANGED <<connVars, callerVars, tableVars, browserVars>>

\* The Handler is dropped, and its senders with it.
HandlerEnds ==
  /\ phase' = "ended"
  /\ Resolve(CallsIn(pending) \cup {mail[i] : i \in 1..Len(mail)}, "canceled")
  /\ pending' = {} /\ late' = {} /\ mail' = <<>>
  /\ UNCHANGED <<connVars, got, closing, browserVars>>

\* There is nothing to send or read: the while loop over the connection is left.
PassIsDone == phase = "conn" /\ ~closing /\ ~CanSend /\ inbox = <<>> /\ socket # "broken"

\* Mutant: commands are evicted only while the connection lives.
EvictWhileOpen ==
  /\ PassIsDone /\ late # {} /\ socket = "open"
  /\ phase' = "mail"
  /\ Resolve(CallsIn(late), "timeout")
  /\ pending' = pending \ late /\ late' = {}
  /\ UNCHANGED <<connVars, got, mail, closing, browserVars>>

\* Mutant: the commands go without a word.
EvictSilently ==
  /\ PassIsDone /\ late # {}
  /\ phase' = "mail"
  /\ pending' = pending \ late /\ late' = {}
  /\ UNCHANGED <<connVars, callerVars, closing, browserVars>>

\* Handler::evict_timed_out_commands, when the job is due and commands are late.
Evict ==
  /\ PassIsDone /\ late # {}
  /\ phase' = "mail"
  /\ Resolve(CallsIn(late), "timeout")
  /\ pending' = pending \ late /\ late' = {}
  /\ UNCHANGED <<connVars, got, mail, closing, browserVars>>

\* The loop starts again, at once or when the Handler is woken.
EndPass ==
  /\ PassIsDone
  /\ phase' = "mail"
  /\ UNCHANGED <<connVars, callerVars, tableVars, browserVars>>

-----------------------------------------------------------------------------
(* The user of the Handler, the clock and the browser *)

\* The stream is polled again after an error.
PollAgain ==
  /\ phase = "yielded"
  /\ phase' = "mail"
  /\ UNCHANGED <<connVars, callerVars, tableVars, browserVars>>

\* The user drops the Handler, once its stream is over or before.
DropHandler == (MayDrop \/ phase = "over") /\ phase # "ended" /\ HandlerEnds

\* Evict judges the age of a command at the start of its pass; here it is late from
\* any point on.
CommandExpires(p) ==
  /\ p \in pending \ late
  /\ late' = late \cup {p}
  /\ UNCHANGED <<connVars, callerVars, pending, closing, phase, browserVars>>

Answers(mc, valid) ==
  /\ socket = "open" /\ mc \in unanswered
  /\ unanswered' = unanswered \ {mc}
  /\ inbox' = Append(inbox, [valid |-> valid, of |-> mc])
  /\ UNCHANGED <<connVars, callerVars, tableVars, phase>>

BrowserGoes ==
  /\ MayClose \/ closing
  /\ SocketCloses
  /\ UNCHANGED <<callerVars, tableVars, phase, browserVars>>

-----------------------------------------------------------------------------
(* The specification *)

Init ==
  /\ ConnInit(Discover)
  /\ outcome = [c \in Calls |-> "idle"] /\ got = [c \in Calls |-> {}]
  /\ mail = <<>> /\ pending = {} /\ late = {} /\ closing = FALSE
  /\ phase = "mail" /\ inbox = <<>> /\ unanswered = {}

HandlerStep == TakeMail \/ EndMail \/ MoveOn \/ YieldError \/ ReadMessage \/ Finish \/ EndPass

Next ==
  \/ \E c \in Calls : Call(c)
  \/ HandlerStep \/ Evict
  \/ PollAgain \/ DropHandler
  \/ \E p \in pending : CommandExpires(p)
  \/ \E mc \in unanswered, valid \in BOOLEAN : Answers(mc, valid)
  \/ BrowserGoes

Spec == Init /\ [][Next]_vars

-----------------------------------------------------------------------------
(* Properties *)

MethodCalls == [id : Nat, call : Calls \cup {Discover}]

\* The variables keep their types; the table has one entry per id, only its commands
\* are late, and a Handler that is gone has left nothing in its channel or its table.
TypeOK ==
  /\ next_id \in Nat /\ queue \in Seq(MethodCalls) /\ sink \in Seq(MethodCalls)
  /\ wire \in Seq(MethodCalls) /\ submitted \in Seq(MethodCalls)
  /\ pending_flush \in BOOLEAN /\ needs_flush \in BOOLEAN
  /\ socket \in {"open", "broken", "closed"}
  /\ outcome \in [Calls -> {"idle", "waiting", "response", "timeout", "canceled",
                            "refused"}]
  /\ got \in [Calls -> SUBSET (Calls \cup {Discover})]
  /\ mail \in Seq(Calls)
  /\ pending \subseteq [id : Nat, call : Calls] /\ late \subseteq pending
  /\ closing \in BOOLEAN /\ phase \in {"mail", "conn", "yielded", "over", "ended"}
  /\ inbox \in Seq([valid : BOOLEAN, of : MethodCalls])
  /\ unanswered \subseteq MethodCalls
  /\ \A p \in pending : p.id < next_id /\ \A q \in pending : p.id = q.id => p = q
  /\ phase = "ended" => mail = <<>> /\ pending = {}

\* A response reaches the caller of the command it answers, and nobody else, in
\* whatever order responses arrive and whatever was evicted meanwhile.
OwnResponseOnly == \A c \in Calls : got[c] \subseteq {c}

\* A caller that waits has its sender in the Handler's channel or in its table.
CallersAreHeld ==
  \A c \in Calls : outcome[c] = "waiting" =>
    c \in CallsIn(pending) \/ \E i \in 1..Len(mail) : mail[i] = c

\* Commands get consecutive ids and leave in the order of their submission, each
\* once, although some are lost with the socket.
F == INSTANCE Fifo WITH Commands <- Calls \cup {Discover}
ImplementsFifo == F!Spec
=============================================================================
