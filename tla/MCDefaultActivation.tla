-------------------------- MODULE MCDefaultActivation --------------------------
(* Two definitions; an approval to activate each, one to restore the old    *)
(* policy in place of the first. One use of an approval by authorize-action *)
(* and one expiry are enough for every race with an activation.            *)
EXTENDS DefaultActivation, FiniteSets, TLC

CONSTANTS s1, s2, a1, a2, a3, p1, p2

MCKind == (a1 :> "activate" @@ a2 :> "activate" @@ a3 :> "restore")
MCTarget == (a1 :> s1 @@ a2 :> s2 @@ a3 :> s1)
Symmetry == Permutations({p1, p2})

(* Bound: uses by authorize-action, and approvals that expire. *)
Bound ==
    /\ granted[a1] + granted[a2] + granted[a3]
        + Cardinality({p \in Proc : At(p, "authorize")}) <= 1
    /\ Cardinality({a \in Approval : approval[a] \in {"expired", "late"}}) <= 1
===============================================================================
