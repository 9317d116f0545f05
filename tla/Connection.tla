----------------------------- MODULE Connection -----------------------------
(***************************************************************************)
(* `Connection`: the commands on their way to the browser's websocket.     *)
(*                                                                         *)
(* A command waits in the queue, is handed to the socket's sink, and is on *)
(* the wire once the sink has been flushed.  Only one command at a time is *)
(* in the sink.  The steps are those of one turn of Connection::poll_next; *)
(* the Handler's task takes them, and reads what arrives (module Commands).*)
(***************************************************************************)
EXTENDS Naturals, Sequences

VARIABLES
  next_id,       \* Connection.next_id
  queue,         \* Connection.pending_commands
  pending_flush, \* Connection.pending_flush is Some
  needs_flush,   \* Connection.needs_flush
  sink,          \* the websocket's buffer
  wire,          \* history: what has been flushed
  submitted,     \* history: what has been submitted
  socket         \* the websocket: "open", "broken" or "closed"

connVars == <<next_id, queue, pending_flush, needs_flush, sink, wire, submitted, socket>>

MethodCall(id, c) == [id |-> id, call |-> c]

\* Mutant: every command gets the same id.
SubmitSameId(c) ==
  /\ queue' = Append(queue, MethodCall(next_id, c))
  /\ submitted' = Append(submitted, MethodCall(next_id, c))
  /\ UNCHANGED <<next_id, pending_flush, needs_flush, sink, wire, socket>>

\* Connection::submit_command.
SubmitCommand(c) ==
  /\ next_id' = next_id + 1
  /\ queue' = Append(queue, MethodCall(next_id, c))
  /\ submitted' = Append(submitted, MethodCall(next_id, c))
  /\ UNCHANGED <<pending_flush, needs_flush, sink, wire, socket>>

\* start_send_next does not wait for the socket to take the next command.
CanSend == ~pending_flush /\ ~needs_flush /\ queue # <<>>

\* The sink has been flushed; a failing flush is tried again with every poll.
Flush ==
  /\ needs_flush /\ socket = "open"
  /\ needs_flush' = FALSE
  /\ wire' = wire \o sink /\ sink' = <<>>
  /\ UNCHANGED <<next_id, queue, pending_flush, submitted, socket>>

\* Mutant: a command that is being flushed is sent again.
StartSendAgain ==
  /\ CanSend /\ socket = "open"
  /\ sink' = Append(sink, Head(queue))
  /\ pending_flush' = TRUE
  /\ UNCHANGED <<next_id, queue, needs_flush, wire, submitted, socket>>

\* Connection::start_send_next: the next command goes into the sink.
StartSend ==
  /\ CanSend /\ socket = "open"
  /\ sink' = Append(sink, Head(queue))
  /\ pending_flush' = TRUE
  /\ queue' = Tail(queue)
  /\ UNCHANGED <<next_id, needs_flush, wire, submitted, socket>>

\* The socket refuses the command, which is gone with the error.
SendFails ==
  /\ CanSend /\ socket # "open"
  /\ queue' = Tail(queue)
  /\ UNCHANGED <<next_id, pending_flush, needs_flush, sink, wire, submitted, socket>>

\* The sink is ready, or failing: another flush is tried.
SinkReady ==
  /\ pending_flush
  /\ pending_flush' = FALSE /\ needs_flush' = TRUE
  /\ UNCHANGED <<next_id, queue, sink, wire, submitted, socket>>

\* A read fails once; after that, as after a close, the socket is at its end.
ReadFails ==
  /\ ~CanSend /\ socket = "broken"
  /\ socket' = "closed"
  /\ UNCHANGED <<next_id, queue, pending_flush, needs_flush, sink, wire, submitted>>

\* The browser closes the socket, or the network breaks it.
SocketCloses ==
  /\ socket = "open"
  /\ socket' \in {"broken", "closed"}
  /\ UNCHANGED <<next_id, queue, pending_flush, needs_flush, sink, wire, submitted>>

\* Connection::connect, and the first command, which Handler::new submits.
ConnInit(c) ==
  /\ next_id = 1 /\ queue = <<MethodCall(0, c)>> /\ submitted = <<MethodCall(0, c)>>
  /\ pending_flush = FALSE /\ needs_flush = FALSE
  /\ sink = <<>> /\ wire = <<>> /\ socket = "open"

\* The websocket's buffer never holds more than one command: a slow browser holds
\* the commands back in the queue.
OneInSink == Len(sink) <= 1 /\ (sink # <<>> <=> pending_flush \/ needs_flush)
=============================================================================
