---------------------------- MODULE Socks5Bridge ----------------------------
(***************************************************************************)
(* Socks5Bridge: a local HTTP CONNECT proxy in front of a SOCKS5 proxy.    *)
(*                                                                         *)
(* The accept loop, a task for every accepted connection and a task for    *)
(* every tunnel run beside the owner of the handle.  notify_waiters stores *)
(* no permit: it reaches a `notified` that exists, and that is polled      *)
(* before it is dropped.                                                   *)
(***************************************************************************)
EXTENDS Naturals

CONSTANTS
  Clients,    \* connections of the browser to the local port
  MaxRequests \* bound: bridge_requests on one of them

VARIABLES
  handle,   \* the owner has the Socks5Bridge
  loop,     \* spawned, selecting, accepting or ended
  notified, \* the loop's `notified` was reached
  conns,    \* of each client: where its connection is, with the upstream's end of it
  bridge_answers,  \* of each client: the status of its last request, 0 if there is none
  bridge_requests  \* bound: how many bridge_requests it made

bridgeVars == <<handle, loop, notified, conns, bridge_answers, bridge_requests>>

\* A connection's place: none, backlog, idle (its task reads), asking, dialing (the
\* handshake), answered (200 is under way), tunnel, closed.
NoConnection == [at |-> "none", upstream |-> FALSE]

ChangeConn(c, conn) == conns' = [conns EXCEPT ![c] = conn]
MoveTunnel(c, at) == ChangeConn(c, [conns[c] EXCEPT !.at = at])
Backlog == {c \in Clients : conns[c].at = "backlog"}

-----------------------------------------------------------------------------
(* serve_loop *)

\* The future is made anew on every turn.
Select ==
  /\ loop \in {"spawned", "accepting"} /\ loop' = "selecting" /\ notified' = FALSE
  /\ UNCHANGED <<handle, conns, bridge_answers, bridge_requests>>

\* select! polls its branches in any order and takes the first that is ready; accept
\* may fail.  The branch that was not taken is dropped with what it was told.
Shutdown ==
  /\ loop = "selecting" /\ notified /\ loop' = "ended"
  /\ conns' = [c \in Clients |->
       IF c \in Backlog THEN [conns[c] EXCEPT !.at = "closed"] ELSE conns[c]]
  /\ UNCHANGED <<handle, notified, bridge_answers, bridge_requests>>

Accept(c) ==
  /\ loop = "selecting" /\ c \in Backlog /\ loop' = "accepting"
  /\ \E at \in {"idle", "closed"} : MoveTunnel(c, at)
  /\ UNCHANGED <<handle, notified, bridge_answers, bridge_requests>>

\* Drop
DropBridge ==
  /\ handle /\ handle' = FALSE /\ notified' = (loop = "selecting")
  /\ UNCHANGED <<loop, conns, bridge_answers, bridge_requests>>

-----------------------------------------------------------------------------
(* A connection's task: bridge_requests one after the other, until one is upgraded *)

Answer(c, status) == bridge_answers' = [bridge_answers EXCEPT ![c] = status]

\* Mutant: 200 is said before the handshake.
ServeEarly(c) ==
  /\ conns[c].at = "asking" /\ Answer(c, 200) /\ MoveTunnel(c, "dialing")
  /\ UNCHANGED <<handle, loop, notified, bridge_requests>>

\* Anything but CONNECT, or CONNECT to nothing, is refused at once.
Serve(c) ==
  /\ conns[c].at = "asking"
  /\ \/ \E status \in {405, 400} : Answer(c, status) /\ MoveTunnel(c, "idle")
     \/ MoveTunnel(c, "dialing") /\ UNCHANGED bridge_answers
  /\ UNCHANGED <<handle, loop, notified, bridge_requests>>

\* handle_connect: the handshake with the upstream, its credentials included, comes
\* before the answer.
HandleConnect(c) ==
  /\ conns[c].at = "dialing"
  /\ \/ Answer(c, 502) /\ MoveTunnel(c, "idle")
     \/ Answer(c, 200) /\ ChangeConn(c, [at |-> "answered", upstream |-> TRUE])
  /\ UNCHANGED <<handle, loop, notified, bridge_requests>>

\* The task that waits for the upgrade; without it the upstream's stream is dropped.
Upgrade(c) ==
  /\ conns[c].at = "answered"
  /\ \/ MoveTunnel(c, "tunnel")
     \/ ChangeConn(c, [at |-> "closed", upstream |-> FALSE])
  /\ UNCHANGED <<handle, loop, notified, bridge_answers, bridge_requests>>

\* copy_bidirectional ends when both ends have ended, or at an error: both are dropped.
TunnelEnds(c) ==
  /\ conns[c].at = "tunnel" /\ ChangeConn(c, [at |-> "closed", upstream |-> FALSE])
  /\ UNCHANGED <<handle, loop, notified, bridge_answers, bridge_requests>>

-----------------------------------------------------------------------------
(* The browser *)

Dial(c) ==
  /\ conns[c].at = "none" /\ MoveTunnel(c, IF loop = "ended" THEN "closed" ELSE "backlog")
  /\ UNCHANGED <<handle, loop, notified, bridge_answers, bridge_requests>>

Ask(c) ==
  /\ conns[c].at = "idle" /\ bridge_requests[c] < MaxRequests
  /\ bridge_requests' = [bridge_requests EXCEPT ![c] = @ + 1] /\ Answer(c, 0) /\ MoveTunnel(c, "asking")
  /\ UNCHANGED <<handle, loop, notified>>

\* The connection's task ends with it, and the handshake under way.
HangUp(c) ==
  /\ conns[c].at \in {"idle", "asking", "dialing"} /\ MoveTunnel(c, "closed")
  /\ UNCHANGED <<handle, loop, notified, bridge_answers, bridge_requests>>

BridgeInit ==
  /\ handle = TRUE /\ loop = "spawned" /\ notified = FALSE
  /\ conns = [c \in Clients |-> NoConnection]
  /\ bridge_answers = [c \in Clients |-> 0] /\ bridge_requests = [c \in Clients |-> 0]

BridgeNext ==
  \/ Select \/ Shutdown \/ DropBridge
  \/ \E c \in Clients :
       \/ Accept(c) \/ Serve(c) \/ HandleConnect(c) \/ Upgrade(c) \/ TunnelEnds(c)
       \/ Dial(c) \/ Ask(c) \/ HangUp(c)

BridgeSpec == BridgeInit /\ [][BridgeNext]_bridgeVars

-----------------------------------------------------------------------------
(* Properties *)

Places == {"none", "backlog", "idle", "asking", "dialing", "answered", "tunnel", "closed"}

BridgeTypeOK ==
  /\ loop \in {"spawned", "selecting", "accepting", "ended"} /\ notified \in BOOLEAN
  /\ conns \in [Clients -> [at : Places, upstream : BOOLEAN]]
  /\ bridge_answers \in [Clients -> {0, 200, 400, 405, 502}]

\* A client that has its answer is told the truth about the upstream: 200 is said with
\* the upstream's stream in hand, and it is there until the tunnel ends; no stream
\* outlives its client.  Only a handle's drop ends the loop, and what it had accepted
\* is not cut off by it.
ClientsAreToldTheTruth ==
  /\ \A c \in Clients :
       /\ bridge_answers[c] = 200 /\ conns[c].at # "closed" => conns[c].upstream
       /\ conns[c].upstream => bridge_answers[c] = 200 /\ conns[c].at \in {"answered", "tunnel"}
  /\ loop = "ended" => ~handle
=============================================================================
