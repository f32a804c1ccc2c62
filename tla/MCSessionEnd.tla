------------------------------ MODULE MCSessionEnd ------------------------------
(***************************************************************************)
(* SessionEnd with up to three processes, a terminal event delivered any   *)
(* number of times, and one lifecycle event.                               *)
(***************************************************************************)
EXTENDS SessionEnd, TLC

CONSTANTS p1, p2, p3, s1, e1

TwoProc == {p1, p2}
ThreeProc == {p1, p2, p3}
OneSession == {s1}
MCLifecycle == {e1}
NoFaults == {}
AllFaults == {"kill", "receipt"}
Symmetry == Permutations(ThreeProc)
===============================================================================
