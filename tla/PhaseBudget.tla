------------------------------ MODULE PhaseBudget ------------------------------
(***************************************************************************)
(* The root budget of review dispatches, version 5 (budget_v5.py), with    *)
(* the plan of its slots (routing_phase_plan.py) and the choice of a       *)
(* profile (routing_v4.select), for a PRODUCTION root and review roles.    *)
(*                                                                         *)
(* Every operation holds the ledger's lock: it replays the ledger, checks, *)
(* and appends one event, so it is one action.  What interleaves is the    *)
(* order of operations: a permit is prepared now and used later, and the   *)
(* hooks of the parent (receipt) and of the agent (link, start, reading,   *)
(* answer, stop) come in any order.                                        *)
(*                                                                         *)
(* Permits are numbered as they are prepared.  A permit is used at most    *)
(* once, so its number is also the number of its attempt, and the attempt  *)
(* holds what the code keeps in maps by reservation id.  Roles are bounded *)
(* like phases and are left out, as are Astra High attempts.               *)
(***************************************************************************)
EXTENDS Sums

CONSTANTS
    Slots, Initial,     \* the slots, and those of the first plan
    Phase,              \* their phases
    DependsOn,          \* the slots a slot depends on
    Conditional,        \* slots of condition repair-after-post
    Inlineable,         \* slots of low risk whose review the parent may do itself
    Options,            \* the profiles a slot may use
    Profiles, Units,    \* the profiles and what each reserves
    Astra,              \* profiles of the scarce group
    Capacity, PhaseCapacity, MaxParallel, MaxAstraParallel,
    MaxPermits, MaxEvidence, MaxWorld,      \* bounds
    None

ASSUME PhaseBudgetAssumption ==
    /\ Initial \subseteq Slots /\ IsFiniteSet(Slots)
    /\ Conditional \subseteq {s \in Slots : Phase[s] = "repair"}
    /\ Inlineable \subseteq Slots
    /\ Phase \in [Slots -> {"pre", "post", "repair"}]
    /\ DependsOn \in [Slots -> SUBSET Slots]
    /\ Options \in [Slots -> SUBSET Profiles] /\ Units \in [Profiles -> Nat]
    /\ Astra \subseteq Profiles
    /\ {MaxParallel, MaxAstraParallel, MaxPermits, MaxEvidence, MaxWorld} \subseteq Nat

Permit == 1..MaxPermits
Verdicts == {"pass", "blocking", "incomplete"}      \* "nonblocking" counts as "pass"

PermitRecord ==
    [slot : Slots, profile : Profiles, prior : Permit \cup {None},
     status : {"PREPARED", "CONSUMED", "REVOKED"}, revision : Nat, world : Nat]

AttemptRecord ==
    [state : {"RESERVED", "STARTED", "COMPLETED", "NOT_STARTED_RELEASED"},
     outcome : {"UNKNOWN", "FAILED"}, receipt : {None, "created", "not-started"},
     linked : BOOLEAN, started : BOOLEAN, stopped : {None, "UNKNOWN", "FAILED"},
     context : {None, "DELIVERED", "DENIED"},
     final : Verdicts \cup {None}, result : Verdicts \cup {None}, supersedes : SUBSET Permit]

ASSUME NoneAssumption ==
    /\ None \notin PermitRecord /\ None \notin AttemptRecord
    /\ None \notin Verdicts \cup {"UNKNOWN", "FAILED", "PASS", "created", "not-started"}

VARIABLES
    plan,       \* the slots of the plan
    slot,       \* their statuses
    permits,    \* what was prepared
    attempts,   \* what was reserved, and all that is known of it
    usage,      \* _usage_cache: what the attempts use, kept up to date by each event
    evidence,   \* how often the sources were added to
    revision,   \* resource_revision: it rises with every economic change
    world,      \* revision of the capability and of the published cards
    outcome     \* of the closed root

vars == <<plan, slot, permits, attempts, usage, evidence, revision, world, outcome>>

Closed == outcome # None
Failed == {"FAILED"}        \* and CANCELLED, PARTIAL, BLOCKED

NoUsage == [units |-> 0, attempts |-> 0, astra |-> 0,
            phase |-> [p \in {"pre", "post", "repair"} |-> 0], active |-> 0, astraActive |-> 0]

-------------------------------------------------------------------------------
(* The attempts.                                                           *)

InFlight(a) == a # None /\ a.state \in {"RESERVED", "STARTED"}
SlotOf(i) == permits[i].slot
ProfileOf(i) == permits[i].profile
One(p) == IF p \in Astra THEN 1 ELSE 0

(* Consumed permits of a slot, and the latest. *)
Consumed(s) == {i \in Permit : attempts[i] # None /\ SlotOf(i) = s}
Latest(s) == CHOOSE i \in Consumed(s) : \A k \in Consumed(s) : k <= i

(* The economic state; every change of it makes the permits that were      *)
(* prepared before it stale.                                               *)
Economics == <<usage, slot, plan, evidence, outcome>>
Revise == revision' = IF Economics' = Economics THEN revision ELSE revision + 1

(* _usage: recomputed from the attempts. *)
UsageOf(atts) ==
    LET Used == {i \in Permit : atts[i] # None}
        Kept == {i \in Used : atts[i].state # "NOT_STARTED_RELEASED"}
        Flying == {i \in Used : InFlight(atts[i])}
        InPhase(p) == {i \in Kept : Phase[SlotOf(i)] = p}
        UnitsOf == [i \in Used |-> Units[ProfileOf(i)]]
    IN  [units       |-> Total(Kept, UnitsOf),
         attempts    |-> Cardinality(Used),
         astra       |-> Cardinality({i \in Used : ProfileOf(i) \in Astra}),
         phase       |-> [p \in DOMAIN NoUsage.phase |-> Total(InPhase(p), UnitsOf)],
         active      |-> Cardinality(Flying),
         astraActive |-> Cardinality({i \in Flying : ProfileOf(i) \in Astra})]

Charge(u, s, p) ==
    [u EXCEPT !.units = @ + Units[p], !.attempts = @ + 1, !.astra = @ + One(p),
              !.phase[Phase[s]] = @ + Units[p], !.active = @ + 1, !.astraActive = @ + One(p)]
Land(u, i) == [u EXCEPT !.active = @ - 1, !.astraActive = @ - One(ProfileOf(i))]

(* Mutant: the phase keeps the units. *)
RefundUnits(u, i) == [Land(u, i) EXCEPT !.units = @ - Units[ProfileOf(i)]]

Refund(u, i) ==
    [Land(u, i) EXCEPT !.units = @ - Units[ProfileOf(i)],
                       !.phase[Phase[SlotOf(i)]] = @ - Units[ProfileOf(i)]]

-------------------------------------------------------------------------------
(* The plan.                                                               *)

Settled(s) == slot[s] \in {"SATISFIED", "WAIVED"}
Ready(s) == slot[s] = "PENDING" /\ \A d \in DependsOn[s] : Settled(d)

(* Pending slots S can all be paid for from what u leaves: one profile is  *)
(* chosen for each of them as a whole.                                     *)
Feasible(S, u) ==
    \E f \in [S -> Profiles] :
        LET Sum(T) == Total(T, [s \in S |-> Units[f[s]]]) IN
        /\ \A s \in S : f[s] \in Options[s]
        /\ u.units + Sum(S) <= Capacity.units
        /\ u.attempts + Cardinality(S) <= Capacity.attempts
        /\ u.astra + Cardinality({s \in S : f[s] \in Astra}) <= Capacity.astra
        /\ \A p \in DOMAIN PhaseCapacity :
              u.phase[p] + Sum({s \in S : Phase[s] = p}) <= PhaseCapacity[p]

(* The check at the end of every event. *)
WithinCapacity(u) ==
    /\ u.units <= Capacity.units /\ u.attempts <= Capacity.attempts /\ u.astra <= Capacity.astra
    /\ \A p \in DOMAIN PhaseCapacity : u.phase[p] <= PhaseCapacity[p]
    /\ u.active <= MaxParallel /\ u.astraActive <= MaxAstraParallel

Pending == {s \in plan : slot[s] = "PENDING"}

(* select: a profile may be used now and the rest of the plan stays        *)
(* fundable.  The choice among candidates, by cost cards, is left open.    *)
Candidate(s, p) ==
    /\ p \in Options[s] /\ Ready(s)
    /\ usage.active < MaxParallel
    /\ p \in Astra => usage.astraActive < MaxAstraParallel
    /\ Feasible(Pending \ {s}, Charge(usage, s, p))

(* The earlier attempt a new one must name: of its slot the latest, which  *)
(* has ended; of a repair the last attempt of a post slot it depends on,   *)
(* which found a blocker.                                                  *)
Priors(s) ==
    IF Consumed(s) # {} THEN
        {i \in {Latest(s)} : \/ attempts[i].state = "NOT_STARTED_RELEASED"
                             \/ attempts[i].state = "COMPLETED" /\ attempts[i].result # None}
    ELSE IF Phase[s] = "repair" THEN
        {i \in Permit : /\ attempts[i] # None /\ SlotOf(i) \in DependsOn[s]
                        /\ Phase[SlotOf(i)] = "post" /\ i = Latest(SlotOf(i))
                        /\ attempts[i].state = "COMPLETED" /\ attempts[i].result = "blocking"}
    ELSE {None}

-------------------------------------------------------------------------------
Init ==
    /\ plan = Initial
    /\ Feasible(Initial, NoUsage)
    /\ slot = [s \in Slots |-> "PENDING"]
    /\ permits = [i \in Permit |-> None]
    /\ attempts = [i \in Permit |-> None]
    /\ usage = NoUsage /\ evidence = 0 /\ revision = 1 /\ world = 0 /\ outcome = None

(* prepare of a dispatch; nothing economic changes. *)
Prepare(s, p, prior) ==
    LET i == 1 + Cardinality({k \in Permit : permits[k] # None}) IN
    /\ ~Closed /\ s \in plan /\ i \in Permit
    /\ Candidate(s, p) /\ prior \in Priors(s)
    /\ permits' = [permits EXCEPT ![i] = [slot |-> s, profile |-> p, prior |-> prior,
                        status |-> "PREPARED", revision |-> revision, world |-> world]]
    /\ UNCHANGED <<plan, slot, attempts, usage, evidence, revision, world, outcome>>

(* prepare of what the parent may review itself: no readiness is asked. *)
Inline(s) ==
    /\ ~Closed /\ s \in plan /\ s \in Inlineable /\ slot[s] = "PENDING"
    /\ slot' = [slot EXCEPT ![s] = "SATISFIED"]
    /\ UNCHANGED <<plan, permits, attempts, usage, evidence, world, outcome>>
    /\ Revise

Revoke(i) ==
    /\ ~Closed /\ permits[i] # None /\ permits[i].status = "PREPARED"
    /\ permits' = [permits EXCEPT ![i].status = "REVOKED"]
    /\ UNCHANGED <<plan, slot, attempts, usage, evidence, revision, world, outcome>>

(* Mutant: only what lies outside the budget is compared. *)
CurrentWorld(i) == permits[i].world = world

(* The permit was chosen from what is still the case. *)
Current(i) == permits[i].revision = revision /\ permits[i].world = world

NewAttempt ==
    [state |-> "RESERVED", outcome |-> "UNKNOWN", receipt |-> None, linked |-> FALSE,
     started |-> FALSE, stopped |-> None, context |-> None, final |-> None,
     result |-> None, supersedes |-> {}]

(* approve_and_reserve: the choice is made again and must be the same,     *)
(* which it is when nothing it is made from has changed.                   *)
Reserve(i) ==
    /\ ~Closed /\ permits[i] # None /\ permits[i].status = "PREPARED"
    /\ Current(i)
    /\ slot[SlotOf(i)] = "PENDING"
    /\ permits' = [permits EXCEPT ![i].status = "CONSUMED"]
    /\ attempts' = [attempts EXCEPT ![i] = NewAttempt]
    /\ usage' = Charge(usage, SlotOf(i), ProfileOf(i)) /\ WithinCapacity(usage')
    /\ slot' = [slot EXCEPT ![SlotOf(i)] = "RESERVED"]
    /\ UNCHANGED <<plan, evidence, world, outcome>>
    /\ Revise

-------------------------------------------------------------------------------
(* What the hooks report of attempt i.                                     *)

(* _project_host: a start or stop counts once the parent's receipt and the *)
(* agent's identity are both known, whichever comes last.                  *)
Projected(a) ==
    IF a.receipt # "created" \/ ~a.linked THEN a
    ELSE IF a.stopped # None THEN [a EXCEPT !.state = "COMPLETED", !.outcome = a.stopped]
    ELSE IF a.started /\ a.state = "RESERVED" THEN [a EXCEPT !.state = "STARTED"]
    ELSE a

(* Mutant: the stop alone moves the slot on. *)
ReportStopped(i, a) ==
    /\ attempts' = [attempts EXCEPT ![i] = Projected(a)]
    /\ usage' = IF InFlight(attempts[i]) /\ ~InFlight(attempts'[i]) THEN Land(usage, i) ELSE usage
    /\ slot' = IF InFlight(attempts[i]) /\ a.stopped # None
               THEN [slot EXCEPT ![SlotOf(i)] = "AWAITING_RESULT"] ELSE slot
    /\ UNCHANGED <<plan, permits, evidence, world, outcome>>
    /\ Revise

Report(i, a) ==
    /\ attempts' = [attempts EXCEPT ![i] = Projected(a)]
    /\ IF InFlight(attempts[i]) /\ Projected(a).state = "COMPLETED"
       THEN /\ usage' = Land(usage, i)
            /\ slot' = [slot EXCEPT ![SlotOf(i)] = "AWAITING_RESULT"]
       ELSE UNCHANGED <<usage, slot>>
    /\ UNCHANGED <<plan, permits, evidence, world, outcome>>
    /\ Revise

Known(i) == ~Closed /\ attempts[i] # None

(* record_receipt, by the parent's PostToolUse or a proof of no start. *)
Receipt(i, disposition) ==
    /\ Known(i) /\ attempts[i].receipt = None
    /\ disposition = "not-started" => ~attempts[i].linked
    /\ Report(i, [attempts[i] EXCEPT !.receipt = disposition])

(* link_host_identity, by any hook of the agent. *)
Link(i) ==
    /\ Known(i) /\ ~attempts[i].linked
    /\ attempts[i].receipt # "not-started"
    /\ Report(i, [attempts[i] EXCEPT !.linked = TRUE])

(* SubagentStart links first; SubagentStop reports whatever its other      *)
(* steps do.                                                               *)
ObserveStart(i) ==
    /\ Known(i) /\ attempts[i].linked /\ ~attempts[i].started
    /\ Report(i, [attempts[i] EXCEPT !.started = TRUE])

ObserveStop(i, o) ==
    /\ Known(i) /\ attempts[i].stopped = None
    /\ Report(i, [attempts[i] EXCEPT !.stopped = o])

(* The agent reads its material, in a bounded number of calls, or breaks   *)
(* the protocol, even after it was delivered.                              *)
Deliver(i) ==
    /\ Known(i) /\ InFlight(attempts[i]) /\ attempts[i].linked
    /\ attempts[i].receipt = "created" /\ attempts[i].context = None
    /\ Report(i, [attempts[i] EXCEPT !.context = "DELIVERED"])

Deny(i) ==
    /\ Known(i) /\ InFlight(attempts[i]) /\ attempts[i].linked
    /\ attempts[i].context # "DENIED"
    /\ Report(i, [attempts[i] EXCEPT !.context = "DENIED"])

(* context_final_attested: the answer in the agent's transcript. *)
Attest(i, v) ==
    /\ Known(i) /\ attempts[i].linked
    /\ attempts[i].context = "DELIVERED" /\ attempts[i].final = None
    /\ Report(i, [attempts[i] EXCEPT !.final = v])

(* release_not_started: the units come back, the attempt does not. *)
Release(i) ==
    /\ Known(i) /\ attempts[i].state = "RESERVED" /\ attempts[i].receipt = "not-started"
    /\ attempts' = [attempts EXCEPT ![i].state = "NOT_STARTED_RELEASED"]
    /\ usage' = Refund(usage, i)
    /\ slot' = [slot EXCEPT ![SlotOf(i)] = "PENDING"]
    /\ UNCHANGED <<plan, permits, evidence, world, outcome>>
    /\ Revise

-------------------------------------------------------------------------------
(* Results.                                                                *)

(* result_supersedes: the one result the permit's transition names. *)
Supersedes(i, v) ==
    {k \in {permits[i].prior} \ {None} :
        v = "pass" /\ attempts[k].result \in {"blocking", "incomplete"}}

(* Mutant: what was read once is taken as read to the end. *)
AcceptableOnce(a, v) == v = "incomplete" \/ (a.final = v /\ a.outcome \notin Failed)

(* record_semantic: the answer that was attested.  record_failure_accounting: *)
(* an incomplete result for an attempt that failed, was denied, or answered   *)
(* nothing that could be attested.                                            *)
Acceptable(a, v) ==
    IF v = "incomplete" THEN TRUE
    ELSE a.context = "DELIVERED" /\ a.final = v /\ a.outcome \notin Failed
Reason(a, v) ==
    \/ a.final = v
    \/ v = "incomplete" /\ (a.outcome \in Failed \/ a.context # "DELIVERED" \/ a.final = None)

AcceptResult(i, v) ==
    /\ Known(i) /\ attempts[i].state = "COMPLETED" /\ attempts[i].result = None
    /\ Acceptable(attempts[i], v) /\ Reason(attempts[i], v)
    /\ slot[SlotOf(i)] = "AWAITING_RESULT"
    /\ attempts' = [attempts EXCEPT ![i].result = v, ![i].supersedes = Supersedes(i, v)]
    /\ slot' = [slot EXCEPT ![SlotOf(i)] =
            IF v = "incomplete" \/ (v = "blocking" /\ Phase[SlotOf(i)] # "post")
            THEN "PENDING" ELSE "SATISFIED"]
    /\ UNCHANGED <<plan, permits, usage, evidence, world, outcome>>
    /\ Revise

(* waive_repair: a post slot it depends on passed. *)
Waive(s, i) ==
    /\ Known(i) /\ s \in plan /\ s \in Conditional /\ slot[s] = "PENDING"
    /\ attempts[i].result = "pass"
    /\ Phase[SlotOf(i)] = "post" /\ SlotOf(i) \in DependsOn[s]
    /\ slot' = [slot EXCEPT ![s] = "WAIVED"]
    /\ UNCHANGED <<plan, permits, attempts, usage, evidence, world, outcome>>
    /\ Revise

-------------------------------------------------------------------------------
(* revise_plan: a slot is added, and all that is pending can be funded. *)
RevisePlan(s) ==
    /\ ~Closed /\ s \in Slots \ plan /\ DependsOn[s] \subseteq plan
    /\ Feasible(Pending \cup {s}, usage)
    /\ plan' = plan \cup {s}
    /\ UNCHANGED <<slot, permits, attempts, usage, evidence, world, outcome>>
    /\ Revise

AddEvidence ==
    /\ ~Closed /\ evidence < MaxEvidence
    /\ evidence' = evidence + 1
    /\ UNCHANGED <<plan, slot, permits, attempts, usage, world, outcome>>
    /\ Revise

(* Cards are published or revoked, a profile becomes unavailable. *)
WorldChanges ==
    /\ world < MaxWorld
    /\ world' = world + 1
    /\ UNCHANGED <<plan, slot, permits, attempts, usage, evidence, revision, outcome>>

Results == {i \in Permit : attempts[i] # None /\ attempts[i].result # None}
Superseded == UNION {attempts[i].supersedes : i \in Results}
Unresolved == {i \in Results : attempts[i].result \in {"blocking", "incomplete"}} \ Superseded

Close(o) ==
    /\ ~Closed /\ usage.active = 0
    /\ o = "PASS" => (\A s \in plan : Settled(s)) /\ Unresolved = {}
    /\ outcome' = o
    /\ UNCHANGED <<plan, slot, permits, attempts, usage, evidence, world>>
    /\ Revise

Next ==
    \/ \E s \in Slots, p \in Profiles, prior \in Permit \cup {None} : Prepare(s, p, prior)
    \/ \E s \in Slots : Inline(s) \/ RevisePlan(s) \/ (\E i \in Permit : Waive(s, i))
    \/ \E i \in Permit :
        \/ Revoke(i) \/ Reserve(i) \/ Release(i)
        \/ Link(i) \/ ObserveStart(i) \/ Deliver(i) \/ Deny(i)
        \/ \E d \in {"created", "not-started"} : Receipt(i, d)
        \/ \E o \in {"UNKNOWN", "FAILED"} : ObserveStop(i, o)
        \/ \E v \in Verdicts : Attest(i, v) \/ AcceptResult(i, v)
    \/ \E o \in {"PASS", "FAILED"} : Close(o)
    \/ AddEvidence \/ WorldChanges

Spec == Init /\ [][Next]_vars

-------------------------------------------------------------------------------
(* Properties.                                                             *)

TypeOK ==
    /\ plan \subseteq Slots
    /\ slot \in [Slots -> {"PENDING", "RESERVED", "AWAITING_RESULT", "SATISFIED", "WAIVED"}]
    /\ permits \in [Permit -> {None} \cup PermitRecord]
    /\ attempts \in [Permit -> {None} \cup AttemptRecord]
    /\ revision \in Nat /\ world \in Nat /\ evidence \in Nat
    /\ outcome \in {None, "PASS", "FAILED"}

(* The usage every event updates by hand is what a recomputation from the  *)
(* attempts gives (_usage_cache against _usage), so no order of receipts,  *)
(* links, stops and releases charges, refunds or lands an attempt twice.   *)
CacheExact == usage = UsageOf(attempts)

(* A slot and its attempts agree: it is reserved exactly while one attempt *)
(* of it is in flight, awaits a result exactly when its latest attempt     *)
(* ended without one, and all its other attempts are accounted for.        *)
Flying(s) == {i \in Consumed(s) : InFlight(attempts[i])}
Silent(s) == {i \in Consumed(s) : attempts[i].state = "COMPLETED" /\ attempts[i].result = None}
SlotHeld ==
    \A s \in Slots :
        /\ Flying(s) = (IF slot[s] = "RESERVED" THEN {Latest(s)} ELSE {})
        /\ Silent(s) = (IF slot[s] = "AWAITING_RESULT" THEN {Latest(s)} ELSE {})

(* A reservation leaves everything else that is pending fundable, although *)
(* its choice was made when it was prepared: between the two other permits *)
(* may have been used, and slots added to the plan.                        *)
HoldKept ==
    [][\A i \in Permit : attempts[i] = None /\ attempts'[i] # None => Feasible(Pending', usage')]_vars

(* A root closed as PASS was reviewed: every slot was waived after a clean *)
(* post review, or done by the parent where it may, or an agent that was   *)
(* created, known, given its material and stopped without failing said so, *)
(* and what a post review found blocking was repaired.                     *)
Reviewed(s) ==
    LET Clean(i) == /\ attempts[i].receipt = "created" /\ attempts[i].linked
                    /\ attempts[i].context = "DELIVERED" /\ attempts[i].final = attempts[i].result
                    /\ attempts[i].stopped = "UNKNOWN"
        Said(t, v) == \E i \in Consumed(t) : attempts[i].result = v /\ Clean(i)
    IN  \/ slot[s] = "WAIVED" /\ s \in Conditional /\ \E d \in DependsOn[s] : Said(d, "pass")
        \/ /\ s \in Inlineable
           /\ \A i \in Consumed(s) : attempts[i].state = "NOT_STARTED_RELEASED"
        \/ Said(s, "pass")
        \/ /\ Said(s, "blocking")
           /\ \E r \in plan : Phase[r] = "repair" /\ s \in DependsOn[r] /\ Said(r, "pass")
PassMeansReviewed == outcome = "PASS" => \A s \in plan : Reviewed(s)

(* A repair that passed supersedes the blocker it was made for             *)
(* (docs/MODEL_ROUTING_V4_CONTRACTS.md:113), or the root could never be    *)
(* closed as PASS.  It need not be the first attempt at the repair, of     *)
(* which none was released.                                                *)
BlockersSuperseded ==
    \A i \in Results :
        /\ Phase[SlotOf(i)] = "repair" /\ attempts[i].result = "pass"
        /\ Consumed(SlotOf(i)) \subseteq Results
        => \A k \in Results : SlotOf(k) \in DependsOn[SlotOf(i)] /\ attempts[k].result = "blocking"
                => k \in Superseded
================================================================================
