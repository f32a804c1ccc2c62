----------------------------- MODULE MCOnboarding -----------------------------
(***************************************************************************)
(* Onboarding with two processes that answer, scan and die.                *)
(***************************************************************************)
EXTENDS Onboarding, TLC

CONSTANTS p1, p2

MCProc == {p1, p2}
ProcSymmetry == Permutations(MCProc)
===============================================================================
