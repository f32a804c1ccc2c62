----------------------------- MODULE MCPhaseBudget -----------------------------
(***************************************************************************)
(* PhaseBudget with a post review and its repair, and a small review that  *)
(* the plan is revised to add.                                             *)
(***************************************************************************)
EXTENDS PhaseBudget

MCPhase == [s \in Slots |-> IF s = "fix" THEN "repair" ELSE IF s = "post" THEN "post" ELSE "pre"]
MCDependsOn == [s \in Slots |-> IF s = "fix" THEN {"post"} ELSE {}]
MCOptions == [s \in Slots |-> IF s = "post" THEN {"luna", "astra"} ELSE {"luna"}]
MCUnits == [p \in Profiles |-> IF p = "astra" THEN 2 ELSE 1]
MCCapacity == [units |-> 3, attempts |-> 3, astra |-> 1]
MCPhaseCapacity == [p \in {"pre", "post", "repair"} |-> IF p = "pre" THEN 1 ELSE 3]

(* Two things go wrong or change at most; an agent that reads its material *)
(* was seen to start; a result is accepted when all reports have arrived.  *)
Wrong == [i \in Permit |->
    Cardinality({w \in {"REVOKED", "FAILED", "DENIED", "not-started", "incomplete"} :
        \/ permits[i] # None /\ w = permits[i].status
        \/ /\ attempts[i] # None
           /\ w \in {attempts[i].stopped, attempts[i].context, attempts[i].receipt, attempts[i].final}})]
FewMishaps ==
    /\ Total(Permit, Wrong) + world + evidence <= 2
    /\ \A i \in Permit : LET a == attempts[i] IN
          a # None => /\ a.context # None => a.started
                      /\ a.result # None => a.started /\ (a.context = "DELIVERED" => a.final # None)
================================================================================
