---------------------------------- MODULE Sums ----------------------------------
(***************************************************************************)
(* Sums of natural numbers, as the number of units in a set: written       *)
(* without recursion, so that the provers can add to them.                 *)
(***************************************************************************)
EXTENDS Integers, FiniteSets

(* The sum of a function over a finite set. *)
Total(S, w) == Cardinality(UNION {{x} \X (1..w[x]) : x \in S})
=================================================================================
