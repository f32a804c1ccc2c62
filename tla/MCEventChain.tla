----------------------------- MODULE MCEventChain -----------------------------
(***************************************************************************)
(* EventChain with two processes, one lifecycle event and two deliveries   *)
(* of one session's end under different event ids.                         *)
(***************************************************************************)
EXTENDS EventChain

CONSTANTS p1, p2, a, s, s2

MCProc == {p1, p2}
MCOneLifecycle == {[id |-> a, identity |-> a]}
MCTerminal == {[id |-> s, identity |-> s]}
MCTwoTerminal == {[id |-> s, identity |-> s], [id |-> s2, identity |-> s]}

(* Bounds: the lines of one event at most are torn in a behaviour, and     *)
(* nobody seals after two seals.  Neither cuts a step that has no fair     *)
(* alternative.                                                            *)
OneTornEvent == Cardinality((corrupt \cup {torn}) \ {None}) <= 1
TwoSeals == Len(seals) >= 2 => \A p \in Proc : req[p].kind # "seal"
===============================================================================
