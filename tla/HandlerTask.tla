---------------------------- MODULE HandlerTask ----------------------------
(***************************************************************************)
(* When the Handler runs: Commands under the task that polls it.           *)
(*                                                                         *)
(* The task is polled only after something woke it: a message in the       *)
(* channel, data or the end of the socket, the Delay of its PeriodicJob.   *)
(* The Delay wakes it once: PeriodicJob::poll_ready resets a Delay that is *)
(* over without polling it again, and a Delay that has not been polled has *)
(* no waker.                                                               *)
(***************************************************************************)
EXTENDS Commands

VARIABLES
  task,   \* the task: "asleep", "running", or "woken", to run once more
  done,   \* nothing was read in this turn of the loop
  due,    \* the job's Delay is over
  armed   \* the Delay has the task's waker

taskVars == <<vars, task, done, due, armed>>

\* A task that is woken while it runs is polled again afterwards.
Wake == task' = IF task = "asleep" THEN "running" ELSE "woken"

-----------------------------------------------------------------------------
(* What wakes the task *)

Calling ==
  /\ \E c \in Calls : Call(c)
  /\ IF phase = "ended" THEN UNCHANGED task ELSE Wake
  /\ UNCHANGED <<done, due, armed>>

SocketWakes ==
  /\ \/ \E mc \in unanswered, valid \in BOOLEAN : Answers(mc, valid)
     \/ BrowserGoes
  /\ Wake /\ UNCHANGED <<done, due, armed>>

\* A socket that was full takes data again.
SocketIsWritable ==
  /\ socket = "open" /\ (pending_flush \/ needs_flush)
  /\ Wake /\ UNCHANGED <<vars, done, due, armed>>

\* An event, a response to a Target, a message of a Page: what Commands leaves out.
OthersWake == phase # "ended" /\ Wake /\ UNCHANGED <<vars, done, due, armed>>

\* The Delay hands its waker out when it is over.
DelayFires ==
  /\ ~due /\ phase # "ended"
  /\ due' = TRUE /\ armed' = FALSE
  /\ IF armed THEN Wake ELSE UNCHANGED task
  /\ UNCHANGED <<vars, done>>

-----------------------------------------------------------------------------
(* A turn of Handler::poll_next *)

Working ==
  /\ task # "asleep"
  /\ \/ ReadMessage /\ done' = FALSE
     \/ (TakeMail \/ EndMail \/ MoveOn \/ YieldError \/ Finish) /\ UNCHANGED done
  /\ UNCHANGED <<task, due, armed>>

\* PeriodicJob::poll_ready: a Delay that is over is reset, one that is not takes the
\* waker.
PollReady ==
  \/ /\ due /\ due' = FALSE /\ UNCHANGED armed
     /\ IF late # {} THEN Evict ELSE EndPass
  \/ ~due /\ armed' = TRUE /\ UNCHANGED due /\ EndPass

\* The end of the loop: it goes round once more if something was read.
TurnEnds ==
  /\ task # "asleep" /\ PassIsDone
  /\ PollReady
  /\ done' = TRUE
  /\ task' = IF ~done THEN task ELSE IF task = "woken" THEN "running" ELSE "asleep"

\* The user of the Handler's stream polls it again, or drops it.
StreamIsPolled == PollAgain /\ UNCHANGED <<task, done, due, armed>>
StreamIsDropped == DropHandler /\ UNCHANGED <<task, done, due, armed>>

CommandsAge ==
  /\ \E p \in pending : CommandExpires(p)
  /\ UNCHANGED <<task, done, due, armed>>

-----------------------------------------------------------------------------
(* The specification *)

TaskInit == Init /\ task = "running" /\ done = TRUE /\ due = FALSE /\ armed = FALSE

TaskNext ==
  \/ Calling \/ SocketWakes \/ SocketIsWritable \/ OthersWake \/ DelayFires
  \/ Working \/ TurnEnds \/ StreamIsPolled \/ StreamIsDropped \/ CommandsAge

\* A task that is awake is polled, the stream again after an error, and dropped at its
\* end; time passes, and the socket takes what it is given.  The browser need not
\* answer, and nothing else need wake the task.
TaskFairness ==
  /\ WF_taskVars(Working \/ TurnEnds)
  /\ WF_taskVars(StreamIsPolled) /\ WF_taskVars(phase = "over" /\ StreamIsDropped)
  /\ WF_taskVars(DelayFires) /\ WF_taskVars(CommandsAge) /\ WF_taskVars(SocketIsWritable)

TaskSpec == TaskInit /\ [][TaskNext]_taskVars /\ TaskFairness

-----------------------------------------------------------------------------
(* Properties *)

\* The task is woken again and again.
PolledOn == []<>(task # "asleep")

\* A call comes to an end by the Handler's own means, whatever the browser answers to
\* it and whatever becomes of the socket or the Handler, if only something keeps waking
\* the Handler's task.
EveryCallResolves ==
  PolledOn => \A c \in Calls : outcome[c] = "waiting" ~> outcome[c] # "waiting"

\* handler/mod.rs:79 has timed out requests evicted periodically: a call ends, with a
\* timeout if need be.  It does not: a Delay that is over is reset and not polled, and
\* when the browser is silent from then on the task sleeps for good.
TimedOutCallsEnd == \A c \in Calls : outcome[c] = "waiting" ~> outcome[c] # "waiting"
=============================================================================
