-------------------------------- MODULE Fifo --------------------------------
(***************************************************************************)
(* What the connection promises: commands get consecutive ids and reach    *)
(* the browser in the order they were submitted, each of them once.        *)
(***************************************************************************)
EXTENDS Naturals, Sequences

CONSTANT Commands  \* what may be submitted

VARIABLES
  submitted,  \* the method calls submitted so far
  wire        \* those that have left for the browser

vars == <<submitted, wire>>

\* The first command is submitted when the Handler is made.
Init == wire = <<>> /\ \E c \in Commands : submitted = <<[id |-> 0, call |-> c]>>

Submit(c) ==
  /\ submitted' = Append(submitted, [id |-> Len(submitted), call |-> c])
  /\ UNCHANGED wire

Deliver ==
  /\ Len(wire) < Len(submitted)
  /\ wire' = Append(wire, submitted[Len(wire) + 1])
  /\ UNCHANGED submitted

Next == Deliver \/ \E c \in Commands : Submit(c)

Spec == Init /\ [][Next]_vars
=============================================================================
