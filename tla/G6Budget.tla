-------------------------------- MODULE G6Budget --------------------------------
(***************************************************************************)
(* The budget journal of one task (runtime/cp_runtime/g6_budget_v1.py,     *)
(* g6_allowance_contract.py): permits for calls of other agents, prepared  *)
(* by one Hook process and reserved by the same or a later one, and what   *)
(* the host reports of the calls.  Every operation takes the journal's     *)
(* lock, replays the journal, decides, and appends one record; one append  *)
(* is one step here and the variables are what replay computes.            *)
(*                                                                         *)
(* The base budget holds room for required slots and required reviews.     *)
(* Reviews that are registered may be granted more by the user.  A journal *)
(* in which a review was registered is extended (version 2 or 3): replay   *)
(* then checks the funding of reservations once more.                      *)
(***************************************************************************)
EXTENDS Sums, FiniteSetsExt

CONSTANTS
    Permit,         \* permit ids
    Item,           \* work items
    Slot,           \* items the root requires (required_slots)
    Review,         \* items that are review or execution works
    Execution,      \* works in the phase task_execution
    Agent,          \* names of agents; an agent is named by the call that starts it
    Call,           \* calls of the host
    Request,        \* allowance requests
    Profile, Astra, \* profiles, those of the astra family
    Cost,           \* planning_units of a profile
    Allowed,        \* profiles an item may use
    Units, Attempts, Parallel,   \* the capacity class
    MaxDispatches, RetryLimit,   \* of an allowance request
    Base,           \* funding by the base budget
    Nil

ASSUME BudgetAssumption ==
    /\ IsFiniteSet(Permit) /\ IsFiniteSet(Item)
    /\ Slot \subseteq Item /\ Review \subseteq Item \ Slot /\ Execution \subseteq Review
    /\ Astra \subseteq Profile /\ Cost \in [Profile -> Nat \ {0}]
    /\ Allowed \in [Item -> (SUBSET Profile) \ {{}}]
    /\ \A w \in Review : Cardinality(Allowed[w]) = 1
    /\ Base \notin Request
    /\ {Units, Attempts, Parallel, MaxDispatches, RetryLimit} \subseteq Nat

PermitRecord == [item : Item, profile : Profile, funding : Request \cup {Base},
                 agent : Agent, spawn : BOOLEAN]
RequestRecord == [works : (SUBSET Review) \ {{}}, dispatches : 1 .. MaxDispatches]

ASSUME NilAssumption ==
    /\ Nil \notin PermitRecord /\ Nil \notin RequestRecord
    /\ Nil \notin Call /\ Nil \notin {"open", "closed"}

VARIABLES
    permit,     \* prepared permits
    stage,      \* how far a permit is
    expired,    \* permits past expires_at
    by,         \* the call that reserved a permit (host_calls)
    waiting,    \* the permit a call is about to reserve, its time read already
    work,       \* registered works: "open" or "closed"
    required,   \* works that are required and were funded by the base budget
    request,    \* works and dispatches of an allowance request
    answer      \* the user's answer to it

journal == <<permit, stage, expired, by, waiting, work, required, request, answer>>

(* The least an item costs. *)
SlotCost(i) == Min({Cost[x] : x \in Allowed[i]})
SumCost(S) == Total(S, [i \in S |-> SlotCost(i)])

(* A root is refused whose required slots the capacity cannot pay for. *)
JournalInit ==
    /\ SumCost(Slot) <= Units /\ Cardinality(Slot) <= Attempts
    /\ permit = [p \in Permit |-> Nil] /\ stage = [p \in Permit |-> "none"]
    /\ expired = {}
    /\ by = [p \in Permit |-> Nil] /\ waiting = [c \in Call |-> Nil]
    /\ work = [w \in Review |-> Nil] /\ required = {}
    /\ request = [q \in Request |-> Nil] /\ answer = [q \in Request |-> "none"]

-------------------------------------------------------------------------------
(* Accounting.                                                             *)

Made == {p \in Permit : permit[p] # Nil}
Reserved == {p \in Permit : by[p] # Nil}
InFlight == {p \in Permit : stage[p] \in {"reserved", "created"}}
Charged == {p \in Permit : stage[p] \in {"passed", "failed"}}

For(i) == {p \in Made : permit[p].item = i}

Extended == \E w \in Review : work[w] # Nil

(* The allocations that were granted to a work and still are.              *)
Buckets(i) == {q \in Request : /\ answer[q] = "granted"
                               /\ i \in request[q].works
                               /\ work[i] = "open"}

(* The permits that a funding of an item pays for. *)
PaidBy(f, i) == {p \in Made : permit[p].funding = f /\ (f = Base \/ permit[p].item = i)}

PriceOf(p) == Cost[permit[p].profile]
UnitsSpent(f, i) ==
    LET paid == PaidBy(f, i) \cap (InFlight \cup Charged)
    IN  Total(paid, [p \in paid |-> PriceOf(p)])

(* A call that was not started gives its units back and not its attempt. *)
AttemptsSpent(f, i) == Cardinality(PaidBy(f, i) \cap Reserved)

ProfileOf(w) == CHOOSE x \in Allowed[w] : TRUE

UnitsOf(f, i) == IF f = Base THEN Units ELSE request[f].dispatches * Cost[ProfileOf(i)]
AttemptsOf(f, i) == IF f = Base THEN Attempts ELSE request[f].dispatches * (RetryLimit + 1)

(* What is required besides i: slots that neither passed nor are in flight, *)
(* and works that were not attempted.                                      *)
HeldSlots(i) == {s \in Slot \ {i} : \A p \in For(s) : stage[p] \notin {"reserved", "created", "passed"}}
HeldWorks(i) == {w \in required \ {i} : work[w] = "open" /\ For(w) \cap (InFlight \cup Charged) = {}}

UnitsHeld(f, i) == IF f = Base THEN SumCost(HeldSlots(i) \cup HeldWorks(i)) ELSE 0

(* Attempts are held for works as long as there are any. *)
AttemptsHeld(f, i) ==
    LET slots == Cardinality(HeldSlots(i))
        left == Attempts - AttemptsSpent(Base, i) - slots
    IN  IF f = Base THEN slots + Max({0, Min({left, Cardinality(HeldWorks(i))})}) ELSE 0

UnitsLeft(f, i) == UnitsOf(f, i) - UnitsSpent(f, i) - UnitsHeld(f, i)
AttemptsLeft(f, i) == AttemptsOf(f, i) - AttemptsSpent(f, i) - AttemptsHeld(f, i)

Room(f, i) == UnitsLeft(f, i) >= SlotCost(i) /\ AttemptsLeft(f, i) >= 1

(* The snapshot lets decide choose profile x. *)
Affordable(f, i, x) ==
    /\ UnitsLeft(f, i) >= Cost[x] /\ AttemptsLeft(f, i) >= 1
    /\ Cardinality(InFlight) < Parallel
    /\ x \in Astra => \A p \in InFlight : permit[p].profile \notin Astra

(* _select_funding: a grant to the work with room for it, or the base. *)
Fundings(i) ==
    LET q == {r \in (IF i \in Review THEN Buckets(i) ELSE {}) : Room(r, i)}
    IN  IF q = {} THEN {Base} ELSE q

Idle(i) == For(i) \cap InFlight = {}

-------------------------------------------------------------------------------
(* Permits.                                                                *)

(* prepare, after _select_funding and decide; anything else is refused or  *)
(* left to be done locally.                                                *)
Issue(p, i, x, a, spawn) ==
    /\ permit[p] = Nil
    /\ Idle(i)
    /\ x \in Allowed[i]
    /\ i \in Review => work[i] = "open"
    /\ \E f \in Fundings(i) :
        /\ Affordable(f, i, x)
        /\ permit' = [permit EXCEPT ![p] = [item |-> i, profile |-> x, funding |-> f,
                                            agent |-> a, spawn |-> spawn]]
    /\ stage' = [stage EXCEPT ![p] = "prepared"]
    /\ UNCHANGED <<expired, by, waiting, work, required, request, answer>>

(* A call that starts an agent; not TASK_NAME_REUSE. *)
Prepare(p, i, x, a) ==
    /\ \A q \in Made : permit[q].agent = a /\ permit[q].spawn
                        => stage[q] = "prepared" /\ q \in expired
    /\ Issue(p, i, x, a, TRUE)

(* A call that has an idle agent go on with its work; the permit has a     *)
(* name of its own, taken from the call.                                   *)
Continue(p, q) ==
    /\ stage[q] \in {"passed", "failed"}
    /\ \A r \in Made : permit[r].agent = permit[q].agent => stage[r] # "created"
    /\ Issue(p, permit[q].item, permit[q].profile, permit[q].agent, FALSE)

Expire(p) ==
    /\ stage[p] = "prepared"
    /\ expired' = expired \cup {p}
    /\ UNCHANGED <<permit, stage, by, waiting, work, required, request, answer>>

(* Neither idempotent nor HOST_CALL_REPLAY. *)
NewCall(c) == \A p \in Permit : by[p] # c

(* The Hook of call c finds the permit and reads the time; then it waits   *)
(* for the locks.                                                          *)
Attempt(c, p) ==
    /\ waiting[c] = Nil /\ NewCall(c)
    /\ stage[p] = "prepared" /\ p \notin expired
    /\ waiting' = [waiting EXCEPT ![c] = p]
    /\ UNCHANGED <<permit, stage, expired, by, work, required, request, answer>>

(* Mutant: the grant is not looked up again. *)
FundedOnce(p) ==
    /\ permit[p].item \in Review => work[permit[p].item] = "open"
    /\ Extended => Idle(permit[p].item)
    /\ Affordable(permit[p].funding, permit[p].item, permit[p].profile)

(* Mutant: another call for the same work may be in flight. *)
FundedAgain(p) ==
    /\ permit[p].item \in Review => work[permit[p].item] = "open"
    /\ permit[p].funding # Base => permit[p].funding \in Buckets(permit[p].item)
    /\ Affordable(permit[p].funding, permit[p].item, permit[p].profile)

(* Mutant: what was decided when the permit was prepared stands. *)
FundedThen(p) ==
    /\ permit[p].item \in Review => work[permit[p].item] = "open"
    /\ permit[p].funding # Base => permit[p].funding \in Buckets(permit[p].item)
    /\ Extended => Idle(permit[p].item)

(* The decision is the same on the journal as it is now; _check_funding,   *)
(* in extended journals.                                                   *)
Funded(p) ==
    /\ permit[p].item \in Review => work[permit[p].item] = "open"
    /\ permit[p].funding # Base => permit[p].funding \in Buckets(permit[p].item)
    /\ Extended => Idle(permit[p].item)
    /\ Affordable(permit[p].funding, permit[p].item, permit[p].profile)

(* approve_and_reserve, with the time read before. *)
Reserve(c) ==
    /\ waiting[c] # Nil
    /\ LET p == waiting[c] IN
        /\ stage[p] = "prepared" /\ NewCall(c)
        /\ Funded(p)
        /\ stage' = [stage EXCEPT ![p] = "reserved"]
        /\ by' = [by EXCEPT ![p] = c]
    /\ waiting' = [waiting EXCEPT ![c] = Nil]
    /\ UNCHANGED <<permit, expired, work, required, request, answer>>

(* The reservation is refused, or the Hook process ends before it. *)
Deny(c) ==
    /\ waiting[c] # Nil
    /\ waiting' = [waiting EXCEPT ![c] = Nil]
    /\ UNCHANGED <<permit, stage, expired, by, work, required, request, answer>>

Progress(p, s) ==
    /\ stage' = [stage EXCEPT ![p] = s]
    /\ UNCHANGED <<permit, expired, by, waiting, work, required, request, answer>>

(* record_receipt: the host tells whether the call has started an agent;   *)
(* another receipt is refused.                                             *)
Receipt(p, s) == stage[p] = "reserved" /\ Progress(p, s)

(* record_terminal: the agent has stopped; the only one of its calls that  *)
(* is not settled is.                                                      *)
Stop(a, s) ==
    LET active == {p \in Made : permit[p].agent = a /\ stage[p] = "created"}
    IN  Cardinality(active) = 1 /\ \E p \in active : Progress(p, s)

(* record_native_completed: a call that ran to its end without reservation *)
(* is charged from its transcript.                                         *)
Recover(c, p) ==
    /\ stage[p] = "prepared" /\ NewCall(c)
    /\ permit[p].item \in Execution /\ permit[p].spawn
    /\ \A q \in Made \ {p} : permit[q].agent = permit[p].agent => ~permit[q].spawn
    /\ Funded(p)
    /\ stage' = [stage EXCEPT ![p] = "failed"]
    /\ by' = [by EXCEPT ![p] = c]
    /\ UNCHANGED <<permit, expired, waiting, work, required, request, answer>>

-------------------------------------------------------------------------------
(* Works and allowances.                                                   *)

(* Mutant: a required work is always taken for funded. *)
BaseFundedAny(w) == TRUE

(* There is room for w besides what is held. *)
BaseFunded(w) == Room(Base, w)

Register(w, r) ==
    /\ work[w] = Nil
    /\ work' = [work EXCEPT ![w] = "open"]
    /\ required' = IF r /\ BaseFunded(w) THEN required \cup {w} ELSE required
    /\ UNCHANGED <<permit, stage, expired, by, waiting, request, answer>>

Close(w) ==
    /\ work[w] = "open"
    /\ work' = [work EXCEPT ![w] = "closed"]
    /\ UNCHANGED <<permit, stage, expired, by, waiting, required, request, answer>>

(* A request like one that waits for an answer is that one. *)
Ask(q, W, d) ==
    /\ answer[q] = "none"
    /\ \A w \in W : work[w] = "open"
    /\ W \subseteq Execution \/ W \cap Execution = {}
    /\ ~\E r \in Request : answer[r] = "asked" /\ request[r] = [works |-> W, dispatches |-> d]
    /\ request' = [request EXCEPT ![q] = [works |-> W, dispatches |-> d]]
    /\ answer' = [answer EXCEPT ![q] = "asked"]
    /\ UNCHANGED <<permit, stage, expired, by, waiting, work, required>>

(* The user grants it, or grants again what was revoked. *)
Grant(q) ==
    /\ answer[q] \in {"asked", "revoked"}
    /\ \A w \in request[q].works : work[w] = "open"
    /\ answer' = [answer EXCEPT ![q] = "granted"]
    /\ UNCHANGED <<permit, stage, expired, by, waiting, work, required, request>>

Revoke(q) ==
    /\ answer[q] \in {"asked", "granted"}
    /\ answer' = [answer EXCEPT ![q] = "revoked"]
    /\ UNCHANGED <<permit, stage, expired, by, waiting, work, required, request>>

JournalNext ==
    \/ \E p \in Permit :
        \/ \E i \in Item, x \in Profile, a \in Agent : Prepare(p, i, x, a)
        \/ \E q \in Permit : Continue(p, q)
        \/ Expire(p)
        \/ \E s \in {"created", "notstarted"} : Receipt(p, s)
    \/ \E c \in Call :
        \/ \E p \in Permit : Attempt(c, p) \/ Recover(c, p)
        \/ Reserve(c) \/ Deny(c)
    \/ \E a \in Agent, s \in {"passed", "failed"} : Stop(a, s)
    \/ \E w \in Review : Close(w) \/ \E r \in BOOLEAN : Register(w, r)
    \/ \E q \in Request :
        \/ \E W \in (SUBSET Review) \ {{}}, d \in 1 .. MaxDispatches : Ask(q, W, d)
        \/ Grant(q) \/ Revoke(q)

JournalSpec == JournalInit /\ [][JournalNext]_journal

-------------------------------------------------------------------------------
(* Every variable has its type, and a call has reserved what is in flight  *)
(* or settled.                                                             *)
JournalType ==
    /\ permit \in [Permit -> PermitRecord \cup {Nil}]
    /\ stage \in [Permit -> {"none", "prepared", "reserved", "created", "notstarted",
                             "passed", "failed"}]
    /\ \A p \in Permit : /\ stage[p] = "none" <=> permit[p] = Nil
                         /\ stage[p] \in {"none", "prepared"} <=> by[p] = Nil
    /\ expired \subseteq Made
    /\ by \in [Permit -> Call \cup {Nil}] /\ waiting \in [Call -> Permit \cup {Nil}]
    /\ work \in [Review -> {Nil, "open", "closed"}] /\ required \subseteq Review
    /\ request \in [Request -> RequestRecord \cup {Nil}]
    /\ answer \in [Request -> {"none", "asked", "granted", "revoked"}]

(* Calls in flight and calls charged never exceed the capacity class, nor  *)
(* what the user has granted to a work, however permits and grants         *)
(* interleave.                                                             *)
WithinCapacity ==
    /\ \A i \in Item : UnitsSpent(Base, i) <= Units /\ AttemptsSpent(Base, i) <= Attempts
    /\ \A q \in Request : request[q] # Nil => \A w \in request[q].works :
        /\ UnitsSpent(q, w) <= UnitsOf(q, w)
        /\ AttemptsSpent(q, w) <= AttemptsOf(q, w)

(* The first run of everything required is paid for: the base has room     *)
(* for each slot and each funded required work that no call has reserved.  *)
RequiredFunded ==
    LET untouched == {i \in Slot \cup {w \in required : work[w] = "open"} :
                        For(i) \cap Reserved = {}}
    IN  \A i \in Item : /\ UnitsSpent(Base, i) + SumCost(untouched) <= Units
                       /\ AttemptsSpent(Base, i) + Cardinality(untouched) <= Attempts

(* A registered work is done by one call at a time, also when it was       *)
(* prepared for twice.                                                     *)
OneRunPerWork == \A w \in Review : Cardinality(For(w) \cap InFlight) <= 1

(* No call starts on an allowance that is not granted at that moment, or   *)
(* for a work that was closed meanwhile.                                   *)
ApprovedOnly ==
    [][\A p \in Permit : p \in InFlight' \ InFlight /\ permit[p].funding # Base
            => answer[permit[p].funding] = "granted" /\ work[permit[p].item] = "open"]_journal
===============================================================================
