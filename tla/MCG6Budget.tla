------------------------------- MODULE MCG6Budget -------------------------------
(***************************************************************************)
(* G6Budget with a required slot and one review work.                      *)
(***************************************************************************)
EXTENDS G6Budget, TLC

CONSTANTS s, w, m1, m2, m3, a1, a2, c1, c2, c3, q1, small, big

MCPermit == {m1, m2, m3}
MCAgent == {a1, a2}
MCCall == {c1, c2, c3}
SlotAndReview == {s, w}
MCCost == small :> 1 @@ big :> 2
MCAllowed == [x \in Item |-> IF x = s THEN {small} ELSE {big}]

(* Bound: two calls wait for the locks at a time. *)
TwoWaiting == Cardinality({c \in Call : waiting[c] # Nil}) <= 2

G6Symmetry == Permutations(MCPermit) \cup Permutations(MCAgent) \cup Permutations(MCCall)
===============================================================================
