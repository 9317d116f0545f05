--------------------------- MODULE NavigationQueue ---------------------------
(***************************************************************************)
(* What a page promises of its gotos.  They stand in one line, in the      *)
(* order they were made.  The browser is asked for one document at a time: *)
(* the next one when the load of the one before has ended or was given up. *)
(* Its caller is answered once, and only after its own document was asked  *)
(* for: with the browser's response when the load has ended, with a        *)
(* failure of the load, or with a timeout.  When the target goes, nothing  *)
(* more is asked for, and only the loads that had ended may still succeed. *)
(***************************************************************************)
EXTENDS Sequences

CONSTANT Calls  \* the gotos that may be made

VARIABLES
  outcome,  \* what each caller has been told
  line,     \* the calls whose document has not been asked for, the first first
  loading,  \* the call whose document is loading
  loaded,   \* the calls whose load has ended and whose response is missing
  outbox,   \* the documents asked for that the browser has not seen
  open      \* the target is there

vars == <<outcome, line, loading, loaded, outbox, open>>

Init ==
  /\ outcome = [c \in Calls |-> "idle"]
  /\ line = <<>> /\ outbox = <<>>
  /\ loading = {} /\ loaded = {}
  /\ open = TRUE

\* The callers of S are told r, if they still listen.
Tell(S, r) ==
  outcome' = [c \in Calls |-> IF c \in S /\ outcome[c] = "waiting" THEN r ELSE outcome[c]]

Ask(c) ==
  /\ outcome[c] = "idle"
  /\ IF open
       THEN /\ line' = Append(line, c)
            /\ outcome' = [outcome EXCEPT ![c] = "waiting"]
       ELSE /\ outcome' = [outcome EXCEPT ![c] = "disconnected"]
            /\ UNCHANGED line
  /\ UNCHANGED <<loading, loaded, outbox, open>>

GiveUp(c) ==
  /\ Tell({c}, "clientTimeout")
  /\ UNCHANGED <<line, loading, loaded, outbox, open>>

Send ==
  /\ open /\ line # <<>> /\ loading = {}
  /\ loading' = {Head(line)}
  /\ outbox' = Append(outbox, Head(line))
  /\ line' = Tail(line)
  /\ UNCHANGED <<outcome, loaded, open>>

Take ==
  /\ outbox # <<>>
  /\ outbox' = Tail(outbox)
  /\ UNCHANGED <<outcome, line, loading, loaded, open>>

\* The load ends: the response is there or the load has failed, or else the caller
\* goes on waiting for the response.
End(c) ==
  /\ c \in loading
  /\ loading' = loading \ {c}
  /\ \/ /\ \E r \in {"ok", "chromeError", "timeout", "frameNotFound"} : Tell({c}, r)
        /\ loaded' = loaded \ {c}
     \/ loaded' = loaded \cup {c} /\ UNCHANGED outcome
  /\ UNCHANGED <<line, outbox, open>>

Respond(c) ==
  /\ c \in loaded
  /\ loaded' = loaded \ {c}
  /\ \E r \in {"ok", "chromeError"} : Tell({c}, r)
  /\ UNCHANGED <<line, loading, outbox, open>>

\* Calls whose document was asked for long ago.
Expire(S) ==
  /\ open => S \subseteq loading \cup loaded
  /\ Tell(S, "timeout")
  /\ loaded' = loaded \ S
  /\ UNCHANGED <<line, loading, outbox, open>>

\* The target goes; some of the calls in the line are told.
Close ==
  /\ open /\ open' = FALSE
  /\ line' = <<>> /\ loading' = {}
  /\ \E S \in SUBSET {line[i] : i \in DOMAIN line} : Tell(S, "canceled")
  /\ UNCHANGED <<loaded, outbox>>

Next ==
  \/ \E c \in Calls : Ask(c) \/ GiveUp(c) \/ End(c) \/ Respond(c)
  \/ \E S \in SUBSET Calls : Expire(S)
  \/ Send
  \/ Take
  \/ Close

Spec == Init /\ [][Next]_vars
=============================================================================
