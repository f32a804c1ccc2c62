--------------------------- MODULE MCCapabilityStore ---------------------------
(***************************************************************************)
(* CapabilityStore with two processes and two payloads.                    *)
(***************************************************************************)
EXTENDS CapabilityStore, TLC

CONSTANTS p1, p2, a, b

MCProc == {p1, p2}
MCPayload == {a, b}
StoreSymmetry == Permutations(MCProc)
===============================================================================
