-------------------------------- MODULE Vecs --------------------------------
(* The operations of Rust's Vec that Handler and EventListeners walk with. *)
EXTENDS Naturals, Sequences

Holds(q, s) == \E i \in 1..Len(q) : q[i] = s

\* Vec::swap_remove: the last element takes the place of the removed one.
SwapRemove(q, n) ==
  [i \in 1..Len(q) - 1 |-> IF i = n THEN q[Len(q)] ELSE q[i]]
=============================================================================
