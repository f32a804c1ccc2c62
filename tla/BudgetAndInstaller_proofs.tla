------------------------ MODULE BudgetAndInstaller_proofs ------------------------
(***************************************************************************)
(* Proofs about PhaseBudget and about Installer with its status command,   *)
(* which share no name.                                                    *)
(*                                                                         *)
(* PhaseBudget, for every plan, capacity and set of profiles: a permit     *)
(* that is prepared and still current can be paid for together with the    *)
(* rest of the plan; a slot and its attempts agree; the usage cache is     *)
(* exact; a PASS was reviewed.                                             *)
(*                                                                         *)
(* Installer, for every order of targets and any number of transactions,   *)
(* edits and faults: what is installed can be undone; what the user wrote  *)
(* is kept; all targets are of one version; a status report that finds all *)
(* well is true, and reading changes nothing of the rest.                  *)
(***************************************************************************)
EXTENDS PhaseBudget, InstallerStatus, FiniteSetTheorems, WellFoundedInduction, TLAPS

-------------------------------------------------------------------------------
(* Types.                                                                  *)

LEMMA ProjectedType ==
    ASSUME NEW a \in AttemptRecord
    PROVE  Projected(a) \in AttemptRecord
<1>1. CASE a.receipt # "created" \/ ~a.linked
  BY <1>1 DEF Projected
<1>2. CASE ~(a.receipt # "created" \/ ~a.linked) /\ a.stopped # None
  <2>1. a.stopped \in {"UNKNOWN", "FAILED"}
    BY <1>2 DEF AttemptRecord
  <2>2. [a EXCEPT !.state = "COMPLETED", !.outcome = a.stopped] \in AttemptRecord
    BY <2>1 DEF AttemptRecord
  <2> QED BY <1>2, <2>2 DEF Projected
<1>3. CASE ~(a.receipt # "created" \/ ~a.linked) /\ a.stopped = None
  <2>1. [a EXCEPT !.state = "STARTED"] \in AttemptRecord
    BY DEF AttemptRecord
  <2> QED BY <1>3, <2>1 DEF Projected
<1> QED BY <1>1, <1>2, <1>3

LEMMA RevisionRises ==
    ASSUME TypeOK, Revise
    PROVE  /\ revision' \in Nat /\ revision' >= revision
           /\ revision' = revision => UNCHANGED <<usage, slot, plan>>
BY DEF TypeOK, Revise, Economics

LEMMA SlotOfType ==
    ASSUME TypeOK, NEW i \in Permit, permits[i] # None
    PROVE  SlotOf(i) \in Slots /\ ProfileOf(i) \in Profiles
BY DEF TypeOK, PermitRecord, SlotOf, ProfileOf

(* Operations on what has been reserved find a permit. *)
Backed == \A i \in Permit : permits[i] = None => attempts[i] = None

LEMMA NewStatus ==
    ASSUME TypeOK, NEW i \in Permit, permits[i] # None, NEW v \in {"CONSUMED", "REVOKED"},
           NEW next, next = [permits EXCEPT ![i].status = v]
    PROVE  /\ next \in [Permit -> {None} \cup PermitRecord]
           /\ \A k \in Permit : next[k] = None => permits[k] = None /\ k # i
<1>1. [permits[i] EXCEPT !.status = v] \in PermitRecord
  BY DEF TypeOK, PermitRecord
<1>2. [permits[i] EXCEPT !.status = v] # None
  BY <1>1, NoneAssumption DEF NoneAssumption
<1> QED BY <1>1, <1>2 DEF TypeOK

LEMMA ReportType ==
    ASSUME TypeOK, Backed, NEW i \in Permit, attempts[i] # None,
           NEW a \in AttemptRecord, Report(i, a)
    PROVE  TypeOK'
<1>1. attempts' \in [Permit -> {None} \cup AttemptRecord]
  BY ProjectedType DEF TypeOK, Report
<1>2. SlotOf(i) \in Slots
  BY SlotOfType DEF Backed
<1>3. slot' \in [Slots -> {"PENDING", "RESERVED", "AWAITING_RESULT", "SATISFIED", "WAIVED"}]
  BY <1>2 DEF TypeOK, Report
<1>4. revision' \in Nat
  BY RevisionRises DEF Report
<1> QED BY <1>1, <1>3, <1>4 DEF TypeOK, Report

(* Every report of the hooks is a Report of an attempt. *)
HookStep(i) ==
    \/ Link(i) \/ ObserveStart(i) \/ Deliver(i) \/ Deny(i)
    \/ \E d \in {"created", "not-started"} : Receipt(i, d)
    \/ \E o \in {"UNKNOWN", "FAILED"} : ObserveStop(i, o)
    \/ \E v \in Verdicts : Attest(i, v)

(* It adds one fact to what is known of the attempt. *)
Adds(i, a) ==
    /\ a.state = attempts[i].state /\ a.outcome = attempts[i].outcome
    /\ a.result = attempts[i].result /\ a.supersedes = attempts[i].supersedes
    /\ attempts[i].receipt # None => a.receipt = attempts[i].receipt
    /\ attempts[i].linked => a.linked
    /\ attempts[i].stopped # None => a.stopped = attempts[i].stopped
    /\ attempts[i].final # None => a.final = attempts[i].final
    /\ ~InFlight(attempts[i]) => a.context = attempts[i].context
Reported(i) == \E a \in AttemptRecord : Adds(i, a) /\ Report(i, a)

LEMMA HookReports ==
    ASSUME TypeOK, NEW i \in Permit, HookStep(i)
    PROVE  attempts[i] # None /\ Reported(i)
<1>1. attempts[i] # None
  BY DEF HookStep, Known, Link, ObserveStart, Deliver, Deny, Receipt, ObserveStop, Attest
<1>2. attempts[i] \in AttemptRecord
  BY <1>1 DEF TypeOK
<1>3. CASE Link(i)
  <2>1. \E a \in AttemptRecord : Adds(i, a) /\ a = [attempts[i] EXCEPT !.linked = TRUE]
    BY <1>2 DEF AttemptRecord, Adds
  <2> QED BY <1>1, <1>3, <2>1 DEF Link, Reported
<1>4. CASE ObserveStart(i)
  <2>1. \E a \in AttemptRecord : Adds(i, a) /\ a = [attempts[i] EXCEPT !.started = TRUE]
    BY <1>2 DEF AttemptRecord, Adds
  <2> QED BY <1>1, <1>4, <2>1 DEF ObserveStart, Reported
<1>5. CASE Deliver(i)
  <2>1. \E a \in AttemptRecord : Adds(i, a) /\ a = [attempts[i] EXCEPT !.context = "DELIVERED"]
    BY <1>2, <1>5 DEF AttemptRecord, Adds, Deliver
  <2> QED BY <1>1, <1>5, <2>1 DEF Deliver, Reported
<1>6. CASE Deny(i)
  <2>1. \E a \in AttemptRecord : Adds(i, a) /\ a = [attempts[i] EXCEPT !.context = "DENIED"]
    BY <1>2, <1>6 DEF AttemptRecord, Adds, Deny
  <2> QED BY <1>1, <1>6, <2>1 DEF Deny, Reported
<1>7. ASSUME NEW d \in {"created", "not-started"}, Receipt(i, d)
      PROVE  Reported(i)
  <2>1. \E a \in AttemptRecord : Adds(i, a) /\ a = [attempts[i] EXCEPT !.receipt = d]
    BY <1>2, <1>7 DEF AttemptRecord, Adds, Receipt
  <2> QED BY <1>7, <2>1 DEF Receipt, Reported
<1>8. ASSUME NEW o \in {"UNKNOWN", "FAILED"}, ObserveStop(i, o)
      PROVE  Reported(i)
  <2>1. \E a \in AttemptRecord : Adds(i, a) /\ a = [attempts[i] EXCEPT !.stopped = o]
    BY <1>2, <1>8 DEF AttemptRecord, Adds, ObserveStop
  <2> QED BY <1>8, <2>1 DEF ObserveStop, Reported
<1>9. ASSUME NEW v \in Verdicts, Attest(i, v)
      PROVE  Reported(i)
  <2>1. \E a \in AttemptRecord : Adds(i, a) /\ a = [attempts[i] EXCEPT !.final = v]
    BY <1>2, <1>9 DEF AttemptRecord, Adds, Attest
  <2> QED BY <1>9, <2>1 DEF Attest, Reported
<1> QED BY <1>1, <1>3, <1>4, <1>5, <1>6, <1>7, <1>8, <1>9 DEF HookStep

LEMMA InitType ==
    ASSUME Init
    PROVE  TypeOK /\ Backed
BY PhaseBudgetAssumption DEF Init, TypeOK, Backed, PhaseBudgetAssumption

Statuses == {"PENDING", "RESERVED", "AWAITING_RESULT", "SATISFIED", "WAIVED"}

LEMMA NewAttemptType == NewAttempt \in AttemptRecord /\ NewAttempt # None
<1>1. NewAttempt \in AttemptRecord
  BY DEF NewAttempt, AttemptRecord
<1> QED BY <1>1, NoneAssumption DEF NoneAssumption

LEMMA NextType ==
    ASSUME TypeOK, Backed, Next
    PROVE  TypeOK' /\ Backed'
<1>1. ASSUME NEW s \in Slots, NEW p \in Profiles, NEW q \in Permit \cup {None}, Prepare(s, p, q)
      PROVE  TypeOK' /\ Backed'
  <2>1. PICK i \in Permit :
          permits' = [permits EXCEPT ![i] = [slot |-> s, profile |-> p, prior |-> q,
                          status |-> "PREPARED", revision |-> revision, world |-> world]]
    BY <1>1 DEF Prepare
  <2>2. PICK r \in PermitRecord : permits' = [permits EXCEPT ![i] = r]
    BY <2>1 DEF TypeOK, PermitRecord
  <2>3. permits' \in [Permit -> {None} \cup PermitRecord]
    BY <2>2 DEF TypeOK
  <2>4. \A k \in Permit : permits'[k] = None => permits[k] = None
    <3>1. r # None
      BY NoneAssumption DEF NoneAssumption
    <3> QED BY <2>2, <3>1 DEF TypeOK
  <2> QED BY <1>1, <2>3, <2>4 DEF TypeOK, Backed, Prepare
<1>2. ASSUME NEW s \in Slots, Inline(s) \/ RevisePlan(s) \/ \E i \in Permit : Waive(s, i)
      PROVE  TypeOK' /\ Backed'
  <2>1. revision' \in Nat
    BY <1>2, RevisionRises DEF Inline, RevisePlan, Waive
  <2> QED BY <1>2, <2>1 DEF TypeOK, Backed, Inline, RevisePlan, Waive
<1>3. ASSUME NEW i \in Permit, Revoke(i)
      PROVE  TypeOK' /\ Backed'
  <2>1. permits' \in [Permit -> {None} \cup PermitRecord]
        /\ \A k \in Permit : permits'[k] = None => permits[k] = None
    BY <1>3, NewStatus DEF Revoke
  <2> QED BY <1>3, <2>1 DEF TypeOK, Backed, Revoke
<1>4. ASSUME NEW i \in Permit, Reserve(i)
      PROVE  TypeOK' /\ Backed'
  <2>1. permits' \in [Permit -> {None} \cup PermitRecord]
        /\ \A k \in Permit : permits'[k] = None => permits[k] = None /\ k # i
    BY <1>4, NewStatus DEF Reserve
  <2>2. attempts' \in [Permit -> {None} \cup AttemptRecord]
    BY <1>4, NewAttemptType DEF TypeOK, Reserve
  <2>3. SlotOf(i) \in Slots
    BY <1>4, SlotOfType DEF Reserve
  <2>4. revision' \in Nat
    BY <1>4, RevisionRises DEF Reserve
  <2>5. TypeOK'
    BY <1>4, <2>1, <2>2, <2>3, <2>4 DEF TypeOK, Reserve
  <2>6. Backed'
    BY <1>4, <2>1 DEF TypeOK, Backed, Reserve
  <2> QED BY <2>5, <2>6
<1>5. ASSUME NEW i \in Permit, HookStep(i)
      PROVE  TypeOK' /\ Backed'
  <2>1. PICK a \in AttemptRecord : attempts[i] # None /\ Report(i, a)
    BY <1>5, HookReports DEF Reported
  <2>2. TypeOK'
    BY <2>1, ReportType
  <2>3. Backed'
    BY <2>1 DEF TypeOK, Backed, Report
  <2> QED BY <2>2, <2>3
<1>6. ASSUME NEW i \in Permit, Release(i)
      PROVE  TypeOK' /\ Backed'
  <2>1. attempts[i] \in AttemptRecord /\ attempts[i] # None
    BY <1>6 DEF TypeOK, Release, Known
  <2>2. [attempts[i] EXCEPT !.state = "NOT_STARTED_RELEASED"] \in AttemptRecord
    BY <2>1 DEF AttemptRecord
  <2>3. SlotOf(i) \in Slots
    BY <2>1, SlotOfType DEF Backed
  <2>4. revision' \in Nat
    BY <1>6, RevisionRises DEF Release
  <2> QED BY <1>6, <2>1, <2>2, <2>3, <2>4 DEF TypeOK, Backed, Release
<1>7. ASSUME NEW i \in Permit, NEW v \in Verdicts, AcceptResult(i, v)
      PROVE  TypeOK' /\ Backed'
  <2>1. attempts[i] \in AttemptRecord /\ attempts[i] # None
    BY <1>7 DEF TypeOK, AcceptResult, Known
  <2>2. [attempts[i] EXCEPT !.result = v, !.supersedes = Supersedes(i, v)] \in AttemptRecord
    <3>1. permits[i].prior \in Permit \cup {None}
      BY <2>1 DEF Backed, TypeOK, PermitRecord
    <3>2. Supersedes(i, v) \in SUBSET Permit
      BY <3>1 DEF Supersedes
    <3> QED BY <2>1, <3>2 DEF AttemptRecord
  <2>3. attempts' = [attempts EXCEPT ![i] = [attempts[i] EXCEPT !.result = v, !.supersedes = Supersedes(i, v)]]
    BY <1>7 DEF AcceptResult
  <2>4. attempts' \in [Permit -> {None} \cup AttemptRecord]
    BY <2>2, <2>3 DEF TypeOK
  <2>5. SlotOf(i) \in Slots
    BY <2>1, SlotOfType DEF Backed
  <2>6. revision' \in Nat
    BY <1>7, RevisionRises DEF AcceptResult
  <2>7. slot' \in [Slots -> {"PENDING", "RESERVED", "AWAITING_RESULT", "SATISFIED", "WAIVED"}]
    BY <1>7, <2>5 DEF TypeOK, AcceptResult
  <2>8. TypeOK'
    BY <1>7, <2>4, <2>6, <2>7 DEF TypeOK, AcceptResult
  <2>9. Backed'
    BY <1>7, <2>1, <2>3 DEF TypeOK, Backed, AcceptResult
  <2> QED BY <2>8, <2>9
<1>8. ASSUME AddEvidence \/ WorldChanges \/ \E o \in {"PASS", "FAILED"} : Close(o)
      PROVE  TypeOK' /\ Backed'
  <2>1. revision' \in Nat
    BY <1>8, RevisionRises DEF TypeOK, AddEvidence, WorldChanges, Close
  <2> QED BY <1>8, <2>1 DEF TypeOK, Backed, AddEvidence, WorldChanges, Close
<1> QED BY <1>1, <1>2, <1>3, <1>4, <1>5, <1>6, <1>7, <1>8 DEF Next, HookStep

(* Every variable keeps its type. *)
THEOREM TypeCorrect == Spec => []TypeOK
<1>1. Init => TypeOK /\ Backed
  BY InitType
<1>2. TypeOK /\ Backed /\ [Next]_vars => (TypeOK /\ Backed)'
  <2>1. ASSUME TypeOK, Backed, UNCHANGED vars PROVE (TypeOK /\ Backed)'
    BY <2>1 DEF vars, TypeOK, Backed
  <2> QED BY <2>1, NextType
<1> QED BY <1>1, <1>2, PTL DEF Spec

-------------------------------------------------------------------------------
(* What a permit that is prepared can still be used for.                   *)

(* A permit that was prepared in the present revision can still be chosen: *)
(* nothing the choice is made from has changed.                            *)
Live(i) == permits[i] # None /\ permits[i].status = "PREPARED" /\ permits[i].revision = revision
Funded ==
    \A i \in Permit :
        /\ permits[i] # None => permits[i].revision <= revision
        /\ Live(i) => Candidate(SlotOf(i), ProfileOf(i))

(* Permits only leave the state PREPARED, and nothing else of them changes.*)
Aged(i) ==
    permits'[i] # None =>
        /\ permits[i] # None
        /\ permits'[i].slot = permits[i].slot /\ permits'[i].profile = permits[i].profile
        /\ permits'[i].revision = permits[i].revision
        /\ permits'[i].status = "PREPARED" => permits[i].status = "PREPARED"

(* What every operation but Prepare does. *)
Aging ==
    /\ \A i \in Permit : Aged(i)
    /\ Revise \/ (UNCHANGED <<usage, slot, plan>> /\ revision' = revision)

(* A choice depends on the plan, the statuses and the usage alone. *)
LEMMA SameCandidate ==
    ASSUME NEW s, NEW p, UNCHANGED <<usage, slot, plan>>, Candidate(s, p)
    PROVE  Candidate(s, p)'
<1>1. Ready(s)'
  BY DEF Candidate, Ready, Settled
<1>2. Pending' = Pending
  BY DEF Pending
<1>3. Charge(usage, s, p)' = Charge(usage, s, p)
  BY DEF Charge
<1>4. Feasible(Pending \ {s}, Charge(usage, s, p))'
  BY <1>2, <1>3 DEF Candidate
<1> QED BY <1>1, <1>4 DEF Candidate

(* An economic change outdates every permit. *)
LEMMA LiveKept ==
    ASSUME TypeOK, Funded, Aging, NEW i \in Permit, Live(i)'
    PROVE  /\ Live(i) /\ revision' = revision
           /\ permits'[i].slot = permits[i].slot /\ permits'[i].profile = permits[i].profile
<1>1. /\ permits[i] # None /\ permits[i].status = "PREPARED"
      /\ permits[i].revision = revision'
      /\ permits'[i].slot = permits[i].slot /\ permits'[i].profile = permits[i].profile
  BY DEF Aging, Aged, Live
<1>2. permits[i].revision \in Nat /\ permits[i].revision <= revision /\ revision \in Nat
  BY <1>1 DEF TypeOK, PermitRecord, Funded
<1>3. revision' \in Nat /\ revision' >= revision
  BY RevisionRises DEF TypeOK, Aging
<1>4. revision' = revision
  BY <1>1, <1>2, <1>3
<1> QED BY <1>1, <1>4 DEF Live

(* Without one all choices stay. *)
LEMMA AgingFunded ==
    ASSUME TypeOK, Funded, Aging
    PROVE  Funded'
<1>1. revision' \in Nat /\ revision' >= revision
      /\ (revision' = revision => UNCHANGED <<usage, slot, plan>>)
  BY RevisionRises DEF TypeOK, Aging
<1>2. ASSUME NEW i \in Permit, permits[i] # None
      PROVE  permits[i].revision \in Nat /\ permits[i].revision <= revision /\ revision \in Nat
  BY <1>2 DEF TypeOK, PermitRecord, Funded
<1>3. ASSUME NEW i \in Permit, permits'[i] # None
      PROVE  permits'[i].revision <= revision'
  <2>1. permits[i] # None /\ permits'[i].revision = permits[i].revision
    BY <1>3 DEF Aging, Aged
  <2> QED BY <1>1, <1>2, <2>1
<1>4. ASSUME NEW i \in Permit, Live(i)'
      PROVE  Candidate(SlotOf(i), ProfileOf(i))'
  <2>1. /\ Live(i) /\ revision' = revision
        /\ permits'[i].slot = permits[i].slot /\ permits'[i].profile = permits[i].profile
    BY <1>4, LiveKept
  <2>2. PICK s, p : s = permits[i].slot /\ p = permits[i].profile
    OBVIOUS
  <2>3. Candidate(s, p)
    BY <2>1, <2>2 DEF Funded, SlotOf, ProfileOf
  <2>4. Candidate(s, p)'
    BY <1>1, <2>1, <2>3, SameCandidate
  <2> QED BY <2>1, <2>2, <2>4 DEF SlotOf, ProfileOf
<1> QED BY <1>3, <1>4 DEF Funded

LEMMA Untouched ==
    ASSUME UNCHANGED permits,
           Revise \/ (UNCHANGED <<usage, slot, plan>> /\ revision' = revision)
    PROVE  Aging
BY DEF Aging, Aged

LEMMA StatusAging ==
    ASSUME TypeOK, NEW i \in Permit, permits[i] # None, NEW v \in {"CONSUMED", "REVOKED"},
           permits' = [permits EXCEPT ![i].status = v],
           Revise \/ (UNCHANGED <<usage, slot, plan>> /\ revision' = revision)
    PROVE  Aging
<1>1. ASSUME NEW k \in Permit PROVE Aged(k)
  <2>1. CASE k = i
    <3>1. permits[i] \in PermitRecord /\ permits'[k] = [permits[i] EXCEPT !.status = v]
      BY <2>1 DEF TypeOK
    <3> QED BY <2>1, <3>1 DEF Aged, PermitRecord
  <2>2. CASE k # i
    <3>1. permits'[k] = permits[k]
      BY <2>2 DEF TypeOK
    <3> QED BY <3>1 DEF Aged
  <2> QED BY <2>1, <2>2
<1> QED BY <1>1 DEF Aging

(* A permit is prepared from a choice that is possible, and under a number *)
(* that was free.                                                          *)
LEMMA PrepareFunded ==
    ASSUME TypeOK, Funded,
           NEW s \in Slots, NEW p \in Profiles, NEW q \in Permit \cup {None}, Prepare(s, p, q)
    PROVE  Funded'
<1>1. PICK i \in Permit :
          permits' = [permits EXCEPT ![i] = [slot |-> s, profile |-> p, prior |-> q,
                          status |-> "PREPARED", revision |-> revision, world |-> world]]
  BY DEF Prepare
<1>2. UNCHANGED <<plan, slot, usage, revision>> /\ Candidate(s, p)
  BY DEF Prepare
<1>3. Candidate(s, p)'
  BY <1>2, SameCandidate
<1>4. ASSUME NEW k \in Permit
      PROVE  /\ permits'[k] # None => permits'[k].revision <= revision'
             /\ Live(k)' => Candidate(SlotOf(k), ProfileOf(k))'
  <2>1. CASE k = i
    <3>1. permits'[k].slot = s /\ permits'[k].profile = p /\ permits'[k].revision = revision'
      BY <1>1, <1>2, <2>1 DEF TypeOK
    <3>2. Candidate(SlotOf(k), ProfileOf(k))'
      BY <1>3, <3>1 DEF SlotOf, ProfileOf
    <3> QED BY <1>2, <3>1, <3>2 DEF TypeOK
  <2>2. CASE k # i
    <3>1. permits'[k] = permits[k]
      BY <1>1, <2>2 DEF TypeOK
    <3>2. ASSUME Live(k)' PROVE Candidate(SlotOf(k), ProfileOf(k))'
      <4>1. PICK t, f : t = permits[k].slot /\ f = permits[k].profile
        OBVIOUS
      <4>2. Candidate(t, f)
        BY <1>2, <3>1, <3>2, <4>1 DEF Funded, Live, SlotOf, ProfileOf
      <4>3. Candidate(t, f)'
        BY <1>2, <4>2, SameCandidate
      <4> QED BY <3>1, <4>1, <4>3 DEF SlotOf, ProfileOf
    <3> QED BY <1>2, <3>1, <3>2 DEF Funded
  <2> QED BY <2>1, <2>2
<1> QED BY <1>4 DEF Funded

LEMMA NextFunded ==
    ASSUME TypeOK, Funded, Next
    PROVE  Funded'
<1>1. CASE \E s \in Slots, p \in Profiles, prior \in Permit \cup {None} : Prepare(s, p, prior)
  BY <1>1, PrepareFunded
<1>2. CASE \E s \in Slots : Inline(s) \/ RevisePlan(s) \/ \E i \in Permit : Waive(s, i)
  BY <1>2, Untouched, AgingFunded DEF Inline, RevisePlan, Waive
<1>3. CASE \E i \in Permit : Revoke(i) \/ Reserve(i)
  <2>1. Aging
    BY <1>3, StatusAging DEF Revoke, Reserve
  <2> QED BY <2>1, AgingFunded
<1>4. CASE \E i \in Permit : HookStep(i)
  <2>1. UNCHANGED permits /\ Revise
    BY <1>4, HookReports DEF Reported, Report
  <2> QED BY <2>1, Untouched, AgingFunded
<1>5. CASE \E i \in Permit : Release(i) \/ \E v \in Verdicts : AcceptResult(i, v)
  BY <1>5, Untouched, AgingFunded DEF Release, AcceptResult
<1>6. CASE AddEvidence \/ WorldChanges \/ \E o \in {"PASS", "FAILED"} : Close(o)
  BY <1>6, Untouched, AgingFunded DEF AddEvidence, WorldChanges, Close
<1> QED BY <1>1, <1>2, <1>3, <1>4, <1>5, <1>6 DEF Next, HookStep

(* Only Reserve adds an attempt. *)
LEMMA OnlyReserve ==
    ASSUME TypeOK, Next, NEW i \in Permit, attempts[i] = None, attempts'[i] # None
    PROVE  Reserve(i)
<1>1. ASSUME NEW k \in Permit, Reserve(k)
      PROVE  k = i
  BY <1>1 DEF TypeOK, Reserve
<1>2. ASSUME NEW k \in Permit, HookStep(k)
      PROVE  FALSE
  <2>1. attempts[k] # None /\ \E a : attempts' = [attempts EXCEPT ![k] = a]
    BY <1>2, HookReports DEF Reported, Report
  <2> QED BY <2>1 DEF TypeOK
<1>3. ASSUME NEW k \in Permit, NEW v, Release(k) \/ AcceptResult(k, v)
      PROVE  FALSE
  <2>1. attempts[k] # None /\ \E a : attempts' = [attempts EXCEPT ![k] = a]
    BY <1>3 DEF Release, AcceptResult, Known
  <2> QED BY <2>1 DEF TypeOK
<1>4. ASSUME UNCHANGED attempts
      PROVE  FALSE
  BY <1>4
<1>5. ASSUME NEW s \in Slots, Inline(s) \/ RevisePlan(s) \/ \E k \in Permit : Waive(s, k)
      PROVE  UNCHANGED attempts
  BY <1>5 DEF Inline, RevisePlan, Waive
<1>6. ASSUME NEW s, NEW p, NEW q, Prepare(s, p, q)
      PROVE  UNCHANGED attempts
  BY <1>6 DEF Prepare
<1>7. ASSUME NEW k \in Permit, Revoke(k)
      PROVE  UNCHANGED attempts
  BY <1>7 DEF Revoke
<1>8. ASSUME AddEvidence \/ WorldChanges \/ \E o \in {"PASS", "FAILED"} : Close(o)
      PROVE  UNCHANGED attempts
  BY <1>8 DEF AddEvidence, WorldChanges, Close
<1> QED BY <1>1, <1>2, <1>3, <1>4, <1>5, <1>6, <1>7, <1>8 DEF Next, HookStep

LEMMA ReserveHolds ==
    ASSUME TypeOK, Funded, NEW i \in Permit, Reserve(i)
    PROVE  Feasible(Pending', usage')
<1>1. PICK s, p : s = SlotOf(i) /\ p = ProfileOf(i)
  OBVIOUS
<1>2. Candidate(s, p)
  BY <1>1 DEF Reserve, Current, Funded, Live
<1>3. usage' = Charge(usage, s, p)
  BY <1>1 DEF Reserve
<1>4. Pending' = Pending \ {s}
  BY <1>1 DEF Reserve, Pending, TypeOK
<1> QED BY <1>2, <1>3, <1>4 DEF Candidate

(* Between a permit's preparation and its use other permits are used and   *)
(* the plan is revised, in any order: a reservation still leaves all that  *)
(* is pending fundable.                                                    *)
THEOREM HoldIsKept == Spec => HoldKept
<1> DEFINE IInv == TypeOK /\ Backed /\ Funded
<1>1. Init => IInv
  <2>1. Init => Funded
    BY DEF Init, Funded, Live
  <2> QED BY <2>1, InitType
<1>2. IInv /\ [Next]_vars => IInv'
  <2>1. ASSUME IInv, UNCHANGED vars PROVE IInv'
    <3>1. Aging
      BY <2>1, Untouched DEF vars
    <3>2. Funded'
      BY <2>1, <3>1, AgingFunded
    <3> QED BY <2>1, <3>2 DEF vars, TypeOK, Backed
  <2> QED BY <2>1, NextType, NextFunded
<1>3. IInv /\ [Next]_vars =>
        [\A i \in Permit : attempts[i] = None /\ attempts'[i] # None => Feasible(Pending', usage')]_vars
  BY OnlyReserve, ReserveHolds
<1> QED BY <1>1, <1>2, <1>3, PTL DEF Spec, HoldKept

-------------------------------------------------------------------------------
(* A slot and its attempts.                                                *)

(* Permits are numbered in a row, an attempt has a permit of its own, and  *)
(* a permit that can still be used is later than all that were.            *)
Numbered == \E n \in 0..MaxPermits : \A k \in Permit : permits[k] # None <=> k <= n
Used == \A i \in Permit : attempts[i] # None => permits[i] # None /\ permits[i].status = "CONSUMED"
Ordered == \A i, k \in Permit : Live(i) /\ attempts[k] # None => k < i

(* No result comes before the end, and what was released never started.    *)
Sound ==
    \A i \in Permit : attempts[i] # None =>
        /\ InFlight(attempts[i]) => attempts[i].result = None
        /\ attempts[i].state = "NOT_STARTED_RELEASED" => attempts[i].receipt = "not-started"

Held(s) ==
    /\ Flying(s) = (IF slot[s] = "RESERVED" THEN {Latest(s)} ELSE {})
    /\ Silent(s) = (IF slot[s] = "AWAITING_RESULT" THEN {Latest(s)} ELSE {})

LEMMA HeldAll == SlotHeld <=> \A s \in Slots : Held(s)
BY DEF SlotHeld, Held

LEMMA ProjectedFacts ==
    ASSUME NEW a \in AttemptRecord
    PROVE  /\ Projected(a).result = a.result /\ Projected(a).receipt = a.receipt
           /\ a.receipt # "created" => Projected(a) = a
           /\ a.state = "COMPLETED" => Projected(a).state = "COMPLETED"
           /\ Projected(a).state \in {a.state, "STARTED", "COMPLETED"}
           /\ Projected(a).state = "STARTED" => a.state \in {"RESERVED", "STARTED"}
BY DEF Projected, AttemptRecord

(* A slot nothing happens to. *)
LEMMA SameHeld ==
    ASSUME NEW s \in Slots, Held(s), slot'[s] = slot[s], Consumed(s)' = Consumed(s),
           \A i \in Consumed(s) :
              /\ InFlight(attempts'[i]) <=> InFlight(attempts[i])
              /\ (attempts'[i].state = "COMPLETED" /\ attempts'[i].result = None)
                    <=> (attempts[i].state = "COMPLETED" /\ attempts[i].result = None)
    PROVE  Held(s)'
<1>1. Latest(s)' = Latest(s)
  BY DEF Latest
<1>2. Flying(s)' = Flying(s)
  BY DEF Flying
<1>3. Silent(s)' = Silent(s)
  BY DEF Silent
<1> QED BY <1>1, <1>2, <1>3 DEF Held

(* One attempt i of slot t changes. *)
Changes(i, t, a) ==
    /\ i \in Permit /\ attempts[i] # None /\ a \in AttemptRecord /\ t = SlotOf(i)
    /\ attempts' = [attempts EXCEPT ![i] = a]
    /\ UNCHANGED permits
    /\ \A s \in Slots \ {t} : slot'[s] = slot[s]

LEMMA ChangesConsumed ==
    ASSUME TypeOK, NEW i, NEW t, NEW a, Changes(i, t, a)
    PROVE  /\ \A s : Consumed(s)' = Consumed(s) /\ Latest(s)' = Latest(s)
           /\ \A s : i \in Consumed(s) <=> s = t
           /\ attempts'[i] = a /\ \A k \in Permit \ {i} : attempts'[k] = attempts[k]
<1>1. a # None
  BY NoneAssumption DEF Changes, NoneAssumption
<1>2. attempts'[i] = a /\ \A k \in Permit \ {i} : attempts'[k] = attempts[k]
  BY DEF Changes, TypeOK
<1>3. \A k \in Permit : attempts'[k] # None <=> attempts[k] # None
  BY <1>1, <1>2 DEF Changes
<1>4. ASSUME NEW s PROVE Consumed(s)' = Consumed(s)
  BY <1>3 DEF Consumed, SlotOf, Changes
<1>5. ASSUME NEW s PROVE Latest(s)' = Latest(s)
  BY <1>4 DEF Latest
<1>6. ASSUME NEW s PROVE i \in Consumed(s) <=> s = t
  BY DEF Consumed, Changes
<1> QED BY <1>2, <1>4, <1>5, <1>6

LEMMA ChangesHeld ==
    ASSUME TypeOK, SlotHeld, NEW i, NEW t, NEW a, Changes(i, t, a), Held(t)'
    PROVE  SlotHeld'
<1>1. ASSUME NEW s \in Slots, s # t PROVE Held(s)'
  <2>1. i \notin Consumed(s) /\ Consumed(s) \subseteq Permit
    BY <1>1, ChangesConsumed DEF Consumed
  <2>2. \A k \in Consumed(s) : attempts'[k] = attempts[k]
    BY <2>1, ChangesConsumed
  <2>3. Held(s) /\ slot'[s] = slot[s] /\ Consumed(s)' = Consumed(s)
    BY <1>1, HeldAll, ChangesConsumed DEF Changes
  <2> QED BY <2>2, <2>3, SameHeld
<1>2. \A s \in Slots : Held(s)'
  BY <1>1
<1> QED BY <1>2 DEF SlotHeld, Held

(* An attempt in flight is the only one of its slot. *)
LEMMA FlyingAlone ==
    ASSUME TypeOK, Used, SlotHeld, NEW i \in Permit, attempts[i] # None
    PROVE  /\ SlotOf(i) \in Slots /\ i \in Consumed(SlotOf(i)) /\ Held(SlotOf(i))
           /\ InFlight(attempts[i]) => /\ slot[SlotOf(i)] = "RESERVED" /\ Latest(SlotOf(i)) = i
                                       /\ Flying(SlotOf(i)) = {i} /\ Silent(SlotOf(i)) = {}
           /\ slot[SlotOf(i)] = "AWAITING_RESULT" /\ attempts[i].state = "COMPLETED" /\ attempts[i].result = None =>
                 Flying(SlotOf(i)) = {} /\ Silent(SlotOf(i)) = {i}
<1>1. SlotOf(i) \in Slots
  BY SlotOfType DEF Used
<1>2. i \in Consumed(SlotOf(i)) /\ Held(SlotOf(i))
  BY <1>1, HeldAll DEF Consumed
<1> QED BY <1>1, <1>2 DEF Held, Flying, Silent, InFlight

LEMMA ReportHeld ==
    ASSUME TypeOK, Used, Sound, SlotHeld, NEW i \in Permit, attempts[i] # None, Reported(i)
    PROVE  SlotHeld' /\ Sound'
<1>1. PICK a \in AttemptRecord : Adds(i, a) /\ Report(i, a)
  BY DEF Reported
<1>2. PICK t, b : t = SlotOf(i) /\ b = Projected(a)
  OBVIOUS
<1>3. /\ b \in AttemptRecord
      /\ b.result = attempts[i].result /\ b.receipt = a.receipt
      /\ a.receipt # "created" => b.state = attempts[i].state
      /\ attempts[i].state = "COMPLETED" => b.state = "COMPLETED"
      /\ b.state \in {attempts[i].state, "STARTED", "COMPLETED"}
      /\ b.state = "STARTED" => attempts[i].state \in {"RESERVED", "STARTED"}
  BY <1>1, <1>2, ProjectedType, ProjectedFacts DEF Adds
<1>4. t \in Slots /\ i \in Consumed(t) /\ Held(t)
  BY <1>2, FlyingAlone
<1>5. Report(i, a) /\ attempts' = [attempts EXCEPT ![i] = b] /\ UNCHANGED permits
  BY <1>1, <1>2 DEF Report
<1>6. attempts[i] \in AttemptRecord /\ b # None
  BY <1>3, NoneAssumption DEF TypeOK, NoneAssumption
<1>7. /\ attempts[i].state = "NOT_STARTED_RELEASED" => b.state = "NOT_STARTED_RELEASED" /\ b.receipt = "not-started"
      /\ InFlight(attempts[i]) => InFlight(b) \/ b.state = "COMPLETED"
      /\ InFlight(b) => InFlight(attempts[i])
  <2>1. attempts[i].state = "NOT_STARTED_RELEASED" => a.receipt = "not-started"
    BY <1>1, NoneAssumption DEF Sound, Adds, NoneAssumption, AttemptRecord
  <2> QED BY <1>3, <1>6, <2>1 DEF InFlight, AttemptRecord
<1>8. Sound'
  <2>1. b.state = "NOT_STARTED_RELEASED" => b.receipt = "not-started"
    BY <1>3, <1>7
  <2>2. InFlight(b) => b.result = None
    BY <1>3, <1>7 DEF Sound
  <2> QED BY <1>5, <2>1, <2>2 DEF Sound, TypeOK
<1>9. CASE InFlight(attempts[i]) /\ b.state = "COMPLETED"
  <2>1. slot' = [slot EXCEPT ![t] = "AWAITING_RESULT"]
    BY <1>2, <1>5, <1>9 DEF Report
  <2>2. Changes(i, t, b)
    BY <1>2, <1>3, <1>4, <1>5, <2>1 DEF Changes, TypeOK
  <2>3. slot'[t] = "AWAITING_RESULT"
    BY <1>4, <2>1 DEF TypeOK
  <2>4. Latest(t) = i /\ Flying(t) = {i} /\ Silent(t) = {}
    BY <1>2, <1>9, FlyingAlone
  <2>5. Latest(t)' = i /\ Consumed(t)' = Consumed(t) /\ attempts'[i] = b
        /\ \A k \in Consumed(t) \ {i} : attempts'[k] = attempts[k]
    BY <2>2, <2>4, ChangesConsumed DEF Consumed
  <2>6. Flying(t)' = {}
    BY <1>9, <2>4, <2>5 DEF Flying, InFlight
  <2>7. b.result = None
    BY <1>3, <1>9 DEF Sound
  <2>8. Silent(t)' = {i}
    BY <1>4, <1>9, <2>4, <2>5, <2>7 DEF Silent
  <2>9. Held(t)'
    BY <2>3, <2>5, <2>6, <2>8 DEF Held
  <2> QED BY <1>8, <2>2, <2>9, ChangesHeld
<1>10. CASE ~(InFlight(attempts[i]) /\ b.state = "COMPLETED")
  <2>1. UNCHANGED slot
    BY <1>2, <1>5, <1>10 DEF Report
  <2>2. Changes(i, t, b)
    BY <1>2, <1>3, <1>5, <2>1 DEF Changes
  <2>3. InFlight(b) <=> InFlight(attempts[i])
    BY <1>7, <1>10
  <2>4. b.state = "COMPLETED" <=> attempts[i].state = "COMPLETED"
    BY <1>3, <1>6, <1>7, <1>10 DEF InFlight, AttemptRecord
  <2>5. Consumed(t)' = Consumed(t) /\ attempts'[i] = b
        /\ \A k \in Consumed(t) \ {i} : attempts'[k] = attempts[k]
    BY <2>2, ChangesConsumed DEF Consumed
  <2>6. Held(t)'
    BY <1>3, <1>4, <2>1, <2>3, <2>4, <2>5, SameHeld
  <2> QED BY <1>8, <2>2, <2>6, ChangesHeld
<1> QED BY <1>9, <1>10

LEMMA ReleaseHeld ==
    ASSUME TypeOK, Used, Sound, SlotHeld, NEW i \in Permit, Release(i)
    PROVE  SlotHeld' /\ Sound'
<1>1. PICK t, a : t = SlotOf(i) /\ a = [attempts[i] EXCEPT !.state = "NOT_STARTED_RELEASED"]
  OBVIOUS
<1>2. attempts[i] # None /\ attempts[i].state = "RESERVED" /\ attempts[i].receipt = "not-started"
  BY DEF Release, Known
<1>3. a \in AttemptRecord /\ a.state = "NOT_STARTED_RELEASED" /\ a.receipt = "not-started"
  BY <1>1, <1>2 DEF TypeOK, AttemptRecord
<1>4. t \in Slots /\ Latest(t) = i /\ Flying(t) = {i} /\ Silent(t) = {}
  BY <1>1, <1>2, FlyingAlone DEF InFlight
<1>5. attempts' = [attempts EXCEPT ![i] = a] /\ slot' = [slot EXCEPT ![t] = "PENDING"]
  BY <1>1 DEF Release
<1>6. Changes(i, t, a)
  BY <1>1, <1>2, <1>3, <1>5 DEF Changes, TypeOK, Release
<1>7. slot'[t] = "PENDING"
  BY <1>4, <1>5 DEF TypeOK
<1>8. Consumed(t)' = Consumed(t) /\ attempts'[i] = a
      /\ \A k \in Consumed(t) \ {i} : attempts'[k] = attempts[k]
  BY <1>6, ChangesConsumed DEF Consumed
<1>9. Flying(t)' = {} /\ Silent(t)' = {}
  BY <1>3, <1>4, <1>8 DEF Flying, Silent, InFlight
<1>10. Held(t)'
  BY <1>7, <1>9 DEF Held
<1>11. Sound'
  BY <1>3, <1>5 DEF Sound, TypeOK, InFlight
<1> QED BY <1>6, <1>10, <1>11, ChangesHeld

LEMMA AcceptHeld ==
    ASSUME TypeOK, Used, Sound, SlotHeld, NEW i \in Permit, NEW v \in Verdicts, AcceptResult(i, v)
    PROVE  SlotHeld' /\ Sound'
<1>1. PICK t, a : t = SlotOf(i) /\ a = [attempts[i] EXCEPT !.result = v, !.supersedes = Supersedes(i, v)]
  OBVIOUS
<1>2. /\ attempts[i] # None /\ attempts[i].state = "COMPLETED" /\ attempts[i].result = None
      /\ slot[t] = "AWAITING_RESULT"
  BY <1>1 DEF AcceptResult, Known
<1>3. Supersedes(i, v) \in SUBSET Permit
  <2>1. permits[i].prior \in Permit \cup {None}
    BY <1>2 DEF Used, TypeOK, PermitRecord
  <2> QED BY <2>1 DEF Supersedes
<1>4. a \in AttemptRecord /\ a.state = "COMPLETED" /\ a.result = v /\ v # None
  <2>1. attempts[i] \in AttemptRecord
    BY <1>2 DEF TypeOK
  <2>2. a \in AttemptRecord /\ a.state = "COMPLETED" /\ a.result = v
    BY <1>1, <1>2, <1>3, <2>1 DEF AttemptRecord
  <2> QED BY <2>2, NoneAssumption DEF NoneAssumption
<1>5. t \in Slots /\ Flying(t) = {} /\ Silent(t) = {i}
  BY <1>1, <1>2, FlyingAlone
<1>6. attempts' = [attempts EXCEPT ![i] = a]
      /\ slot' = [slot EXCEPT ![t] = IF v = "incomplete" \/ (v = "blocking" /\ Phase[t] # "post")
                                     THEN "PENDING" ELSE "SATISFIED"]
  BY <1>1 DEF AcceptResult
<1>7. Changes(i, t, a)
  BY <1>1, <1>2, <1>4, <1>6 DEF Changes, TypeOK, AcceptResult
<1>8. slot'[t] \in {"PENDING", "SATISFIED"}
  BY <1>5, <1>6 DEF TypeOK
<1>9. Consumed(t)' = Consumed(t) /\ attempts'[i] = a
      /\ \A k \in Consumed(t) \ {i} : attempts'[k] = attempts[k]
  BY <1>7, ChangesConsumed DEF Consumed
<1>10. Flying(t)' = {} /\ Silent(t)' = {}
  BY <1>4, <1>5, <1>9 DEF Flying, Silent, InFlight
<1>11. Held(t)'
  BY <1>8, <1>10 DEF Held
<1>12. Sound'
  BY <1>4, <1>6 DEF Sound, TypeOK, InFlight
<1> QED BY <1>7, <1>11, <1>12, ChangesHeld

(* A slot that is reserved was pending, with nothing in flight or awaited, *)
(* and the permit is later than all that were used.                        *)
LEMMA ReserveHeld ==
    ASSUME TypeOK, Used, Sound, Funded, Ordered, SlotHeld, NEW i \in Permit, Reserve(i)
    PROVE  SlotHeld' /\ Sound'
<1>1. PICK t : t = SlotOf(i)
  OBVIOUS
<1>2. permits[i] # None /\ permits[i].status = "PREPARED" /\ Live(i) /\ attempts[i] = None
  BY DEF Reserve, Current, Live, Used
<1>3. t \in Slots /\ slot[t] = "PENDING"
  BY <1>1, <1>2, SlotOfType DEF Reserve
<1>4. attempts' = [attempts EXCEPT ![i] = NewAttempt] /\ slot' = [slot EXCEPT ![t] = "RESERVED"]
  BY <1>1 DEF Reserve
<1>5. /\ attempts'[i] = NewAttempt /\ \A k \in Permit \ {i} : attempts'[k] = attempts[k]
      /\ slot'[t] = "RESERVED" /\ \A s \in Slots \ {t} : slot'[s] = slot[s]
  BY <1>3, <1>4 DEF TypeOK
<1>6. \A k \in Permit : SlotOf(k)' = SlotOf(k)
  <2>1. ASSUME NEW k \in Permit, k = i PROVE permits'[k].slot = permits[k].slot
    <3>1. permits[i] \in PermitRecord /\ permits' = [permits EXCEPT ![i].status = "CONSUMED"]
      BY <1>2 DEF TypeOK, Reserve
    <3> QED BY <2>1, <3>1 DEF TypeOK, PermitRecord
  <2>2. ASSUME NEW k \in Permit, k # i PROVE permits'[k] = permits[k]
    BY <2>2 DEF TypeOK, Reserve
  <2> QED BY <2>1, <2>2 DEF SlotOf
<1>7. Consumed(t)' = Consumed(t) \cup {i} /\ \A s \in Slots \ {t} : Consumed(s)' = Consumed(s)
  BY <1>1, <1>2, <1>5, <1>6, NewAttemptType DEF Consumed
<1>8. Flying(t) = {} /\ Silent(t) = {} /\ \A k \in Consumed(t) : k < i
  BY <1>2, <1>3, HeldAll DEF Held, Ordered, Consumed
<1>9. Latest(t)' = i
  <2>1. \A k \in Consumed(t)' : k <= i
    BY <1>7, <1>8 DEF Permit, Consumed
  <2>2. ASSUME NEW j \in Consumed(t)', \A k \in Consumed(t)' : k <= j
        PROVE  j = i
    <3>1. j \in Int /\ i \in Int /\ i <= j /\ j <= i
      BY <1>7, <2>1, <2>2 DEF Permit, Consumed
    <3> QED BY <3>1
  <2>3. i \in Consumed(t)'
    BY <1>7
  <2> QED BY <2>1, <2>2, <2>3 DEF Latest
<1>10. Flying(t)' = {i} /\ Silent(t)' = {}
  <2>1. InFlight(attempts'[i]) /\ attempts'[i].state # "COMPLETED"
    BY <1>5, NewAttemptType DEF NewAttempt, InFlight
  <2>2. \A k \in Consumed(t) : k # i /\ attempts'[k] = attempts[k]
    BY <1>2, <1>5 DEF Consumed
  <2> QED BY <1>7, <1>8, <2>1, <2>2 DEF Flying, Silent
<1>11. Held(t)'
  BY <1>5, <1>9, <1>10 DEF Held
<1>12. ASSUME NEW s \in Slots, s # t PROVE Held(s)'
  <2>1. \A k \in Consumed(s) : attempts'[k] = attempts[k]
    BY <1>2, <1>5 DEF Consumed
  <2> QED BY <1>5, <1>7, <1>12, <2>1, HeldAll, SameHeld
<1>13. SlotHeld'
  BY <1>11, <1>12 DEF SlotHeld, Held
<1>14. Sound'
  BY <1>5 DEF Sound, NewAttempt
<1> QED BY <1>13, <1>14

(* The rest changes no attempt, and of the statuses only that of a slot    *)
(* that is pending.                                                        *)
LEMMA RestHeld ==
    ASSUME TypeOK, Sound, SlotHeld, UNCHANGED attempts,
           \A k \in Permit : attempts[k] # None => SlotOf(k)' = SlotOf(k),
           \A s \in Slots : slot'[s] # slot[s] =>
              slot[s] = "PENDING" /\ slot'[s] \in {"SATISFIED", "WAIVED"}
    PROVE  SlotHeld' /\ Sound'
<1>1. ASSUME NEW s \in Slots PROVE Held(s)'
  <2>1. Consumed(s)' = Consumed(s)
    BY DEF Consumed
  <2>2. Latest(s)' = Latest(s) /\ Flying(s)' = Flying(s) /\ Silent(s)' = Silent(s)
    BY <2>1 DEF Latest, Flying, Silent
  <2> QED BY <2>2, HeldAll DEF Held
<1>2. SlotHeld'
  BY <1>1 DEF SlotHeld, Held
<1> QED BY <1>2 DEF Sound

(* The number of a new permit is the next one. *)
LEMMA NextNumber ==
    ASSUME PhaseBudgetAssumption, NEW n \in 0..MaxPermits,
           \A k \in Permit : permits[k] # None <=> k <= n
    PROVE  1 + Cardinality({k \in Permit : permits[k] # None}) = n + 1
<1>1. MaxPermits \in Nat
  BY DEF PhaseBudgetAssumption
<1>2. {k \in Permit : permits[k] # None} = 1..n
  BY <1>1 DEF Permit
<1>3. ASSUME NEW S, S = 1..n PROVE 1 + Cardinality(S) = n + 1
  <2>1. n \in Int /\ 1 \in Int /\ n - 1 + 1 = n
    BY <1>1
  <2>2. Cardinality(1..n) = IF 1 > n THEN 0 ELSE n - 1 + 1
    BY <2>1, FS_Interval
  <2>3. Cardinality(S) = n
    BY <1>1, <1>3, <2>2
  <2> QED BY <2>3, <1>1
<1> QED BY <1>2, <1>3

Numbering == Numbered /\ Used /\ Ordered

LEMMA PrepareNumbering ==
    ASSUME TypeOK, Numbering,
           NEW s \in Slots, NEW p \in Profiles, NEW q \in Permit \cup {None}, Prepare(s, p, q)
    PROVE  /\ Numbering'
           /\ \A k \in Permit : attempts[k] # None => permits'[k] = permits[k] /\ SlotOf(k)' = SlotOf(k)
<1>1. PICK n \in 0..MaxPermits : \A k \in Permit : permits[k] # None <=> k <= n
  BY DEF Numbering, Numbered
<1>2. MaxPermits \in Nat
  BY PhaseBudgetAssumption DEF PhaseBudgetAssumption
<1>3. PICK r \in PermitRecord, i \in Permit :
          i = n + 1 /\ permits' = [permits EXCEPT ![i] = r] /\ r.revision = revision
  <2>1. 1 + Cardinality({k \in Permit : permits[k] # None}) = n + 1
    BY <1>1, NextNumber, PhaseBudgetAssumption
  <2>2. n + 1 \in Permit
        /\ permits' = [permits EXCEPT ![n + 1] = [slot |-> s, profile |-> p, prior |-> q,
                          status |-> "PREPARED", revision |-> revision, world |-> world]]
    BY <2>1 DEF Prepare
  <2>3. PICK r : r = [slot |-> s, profile |-> p, prior |-> q,
                      status |-> "PREPARED", revision |-> revision, world |-> world]
    OBVIOUS
  <2>4. r \in PermitRecord /\ r.revision = revision
    BY <2>3 DEF TypeOK, PermitRecord
  <2> QED BY <2>2, <2>3, <2>4
<1>4. UNCHANGED <<attempts, revision>>
  BY DEF Prepare
<1>5. permits'[i] = r /\ r # None /\ \A k \in Permit \ {i} : permits'[k] = permits[k]
  BY <1>3, NoneAssumption DEF TypeOK, NoneAssumption
<1>6. permits[i] = None
  BY <1>1, <1>2, <1>3 DEF Permit
<1>7. \A k \in Permit : attempts[k] # None => k # i /\ k <= n /\ permits'[k] = permits[k]
  BY <1>1, <1>5, <1>6 DEF Numbering, Used
<1>8. Numbered'
  <2>1. n + 1 \in 0..MaxPermits
    BY <1>2, <1>3 DEF Permit
  <2>2. \A k \in Permit : permits'[k] # None <=> k <= n + 1
    BY <1>1, <1>2, <1>3, <1>5 DEF Permit
  <2> QED BY <2>1, <2>2 DEF Numbered
<1>9. Used'
  BY <1>4, <1>7 DEF Numbering, Used
<1>10. Ordered'
  <2>1. ASSUME NEW j \in Permit, NEW k \in Permit, Live(j)', attempts[k] # None
        PROVE  k < j
    <3>1. CASE j = i
      BY <1>2, <1>3, <1>7, <2>1, <3>1 DEF Permit
    <3>2. CASE j # i
      <4>1. Live(j)
        BY <1>4, <1>5, <2>1, <3>2 DEF Live
      <4> QED BY <2>1, <4>1 DEF Numbering, Ordered
    <3> QED BY <3>1, <3>2
  <2> QED BY <1>4, <2>1 DEF Ordered
<1> QED BY <1>7, <1>8, <1>9, <1>10 DEF Numbering, SlotOf

(* Every other step but Reserve leaves what was prepared and used alone. *)
LEMMA AgingNumbering ==
    ASSUME TypeOK, Funded, Numbering, Aging,
           \A k \in Permit : permits'[k] = None => permits[k] = None,
           \A k \in Permit : attempts'[k] # None =>
              attempts[k] # None /\ permits'[k] = permits[k]
    PROVE  Numbering'
<1>1. Numbered'
  <2>1. \A k \in Permit : permits'[k] # None <=> permits[k] # None
    BY DEF Aging, Aged
  <2> QED BY <2>1 DEF Numbering, Numbered
<1>2. Used'
  BY DEF Numbering, Used
<1>3. Ordered'
  BY LiveKept DEF Numbering, Ordered
<1> QED BY <1>1, <1>2, <1>3 DEF Numbering

(* A reservation is an economic change: no permit is live after it. *)
LEMMA ReserveNumbering ==
    ASSUME TypeOK, Funded, Numbering, NEW i \in Permit, Reserve(i)
    PROVE  Numbering'
<1>1. permits[i] # None /\ permits[i].status = "PREPARED"
  BY DEF Reserve
<1>2. /\ \A k \in Permit : permits'[k] = None => permits[k] = None
      /\ permits'[i] # None /\ permits'[i].status = "CONSUMED"
      /\ \A k \in Permit \ {i} : permits'[k] = permits[k] /\ attempts'[k] = attempts[k]
  <2>1. \A k \in Permit : permits'[k] = None => permits[k] = None /\ k # i
    BY <1>1, NewStatus DEF Reserve
  <2>2. permits[i] \in PermitRecord /\ permits'[i] = [permits[i] EXCEPT !.status = "CONSUMED"]
    BY <1>1 DEF TypeOK, Reserve
  <2>3. permits'[i].status = "CONSUMED"
    BY <2>2 DEF PermitRecord
  <2>4. \A k \in Permit \ {i} : permits'[k] = permits[k] /\ attempts'[k] = attempts[k]
    BY DEF TypeOK, Reserve
  <2> QED BY <2>1, <2>3, <2>4
<1>3. Aging
  BY <1>1, StatusAging DEF Reserve
<1>4. Numbered'
  <2>1. \A k \in Permit : permits'[k] # None <=> permits[k] # None
    BY <1>2, <1>3 DEF Aging, Aged
  <2> QED BY <2>1 DEF Numbering, Numbered
<1>5. Used'
  BY <1>2 DEF Numbering, Used
<1>6. revision' # revision
  <2>1. slot' # slot
    <3>1. SlotOf(i) \in Slots
      BY <1>1, SlotOfType
    <3>2. slot'[SlotOf(i)] = "RESERVED" /\ slot[SlotOf(i)] = "PENDING"
      BY <3>1 DEF TypeOK, Reserve
    <3> QED BY <3>2
  <2> QED BY <2>1, RevisionRises DEF Reserve
<1>7. Ordered'
  BY <1>3, <1>6, LiveKept DEF Ordered
<1> QED BY <1>4, <1>5, <1>7 DEF Numbering

HeldInv == TypeOK /\ Backed /\ Funded /\ Numbering /\ Sound /\ SlotHeld

LEMMA NextHeld ==
    ASSUME HeldInv, Next
    PROVE  Numbering' /\ Sound' /\ SlotHeld'
<1> USE DEF HeldInv
<1>1. ASSUME NEW s \in Slots, NEW p \in Profiles, NEW q \in Permit \cup {None}, Prepare(s, p, q)
      PROVE  Numbering' /\ Sound' /\ SlotHeld'
  <2>1. Numbering' /\ \A k \in Permit : attempts[k] # None => SlotOf(k)' = SlotOf(k)
    BY <1>1, PrepareNumbering
  <2>2. UNCHANGED <<attempts, slot>>
    BY <1>1 DEF Prepare
  <2> QED BY <2>1, <2>2, RestHeld
<1>2. ASSUME NEW s \in Slots, Inline(s) \/ RevisePlan(s) \/ \E i \in Permit : Waive(s, i)
      PROVE  Numbering' /\ Sound' /\ SlotHeld'
  <2>1. UNCHANGED <<attempts, permits>> /\ Aging
    BY <1>2, Untouched DEF Inline, RevisePlan, Waive
  <2>2. \A t \in Slots : slot'[t] # slot[t] =>
            slot[t] = "PENDING" /\ slot'[t] \in {"SATISFIED", "WAIVED"}
    BY <1>2 DEF Inline, RevisePlan, Waive, TypeOK
  <2>3. \A k \in Permit : SlotOf(k)' = SlotOf(k)
    BY <2>1 DEF SlotOf
  <2> QED BY <2>1, <2>2, <2>3, AgingNumbering, RestHeld
<1>3. ASSUME NEW i \in Permit, Revoke(i)
      PROVE  Numbering' /\ Sound' /\ SlotHeld'
  <2>1. UNCHANGED <<attempts, slot>> /\ permits[i] # None /\ permits[i].status = "PREPARED"
    BY <1>3 DEF Revoke
  <2>2. Aging
    BY <1>3, StatusAging DEF Revoke
  <2>3. \A k \in Permit : permits'[k] = None => permits[k] = None
    BY <1>3, NewStatus DEF Revoke
  <2>4. \A k \in Permit : attempts[k] # None => permits'[k] = permits[k]
    BY <1>3, <2>1 DEF Numbering, Used, Revoke, TypeOK
  <2>5. \A k \in Permit : attempts[k] # None => SlotOf(k)' = SlotOf(k)
    BY <2>4 DEF SlotOf
  <2> QED BY <2>1, <2>2, <2>3, <2>4, <2>5, AgingNumbering, RestHeld
<1>4. ASSUME NEW i \in Permit, Reserve(i)
      PROVE  Numbering' /\ Sound' /\ SlotHeld'
  BY <1>4, ReserveNumbering, ReserveHeld DEF Numbering
<1>5. ASSUME NEW i \in Permit, HookStep(i)
      PROVE  Numbering' /\ Sound' /\ SlotHeld'
  <2>1. attempts[i] # None /\ Reported(i)
    BY <1>5, HookReports
  <2>2. UNCHANGED permits /\ Revise /\ \E a : attempts' = [attempts EXCEPT ![i] = a]
    BY <2>1 DEF Reported, Report
  <2>3. \A k \in Permit : attempts'[k] # None => attempts[k] # None
    BY <2>1, <2>2 DEF TypeOK
  <2>4. Aging
    BY <2>2, Untouched
  <2> QED BY <2>1, <2>2, <2>3, <2>4, AgingNumbering, ReportHeld DEF Numbering
<1>6. ASSUME NEW i \in Permit, NEW v \in Verdicts, Release(i) \/ AcceptResult(i, v)
      PROVE  Numbering' /\ Sound' /\ SlotHeld'
  <2>1. attempts[i] # None /\ UNCHANGED permits /\ Revise
        /\ \E a : attempts' = [attempts EXCEPT ![i] = a]
    BY <1>6 DEF Release, AcceptResult, Known
  <2>2. \A k \in Permit : attempts'[k] # None => attempts[k] # None
    BY <2>1 DEF TypeOK
  <2>3. Aging
    BY <2>1, Untouched
  <2>4. Numbering'
    BY <2>1, <2>2, <2>3, AgingNumbering
  <2> QED BY <1>6, <2>4, ReleaseHeld, AcceptHeld DEF Numbering
<1>7. ASSUME AddEvidence \/ WorldChanges \/ \E o \in {"PASS", "FAILED"} : Close(o)
      PROVE  Numbering' /\ Sound' /\ SlotHeld'
  <2>1. UNCHANGED <<attempts, permits, slot>> /\ Aging
    BY <1>7, Untouched DEF AddEvidence, WorldChanges, Close
  <2>2. \A k \in Permit : SlotOf(k)' = SlotOf(k)
    BY <2>1 DEF SlotOf
  <2> QED BY <2>1, <2>2, AgingNumbering, RestHeld
<1>8. Verdicts # {}
  BY DEF Verdicts
<1> QED BY <1>1, <1>2, <1>3, <1>4, <1>5, <1>6, <1>7, <1>8 DEF Next, HookStep

(* The agreement of a slot with its attempts, as the steps preserve it. *)
THEOREM HeldAlways == Spec => []HeldInv
<1>1. Init => HeldInv
  <2>1. ASSUME Init PROVE Funded /\ Numbering /\ Sound
    <3>1. \A k \in Permit : permits[k] = None /\ attempts[k] = None
      BY <2>1 DEF Init
    <3>2. 0 \in 0..MaxPermits /\ \A k \in Permit : ~(k <= 0)
      BY PhaseBudgetAssumption DEF PhaseBudgetAssumption, Permit
    <3>3. Numbered
      BY <3>1, <3>2 DEF Numbered
    <3> QED BY <3>1, <3>3 DEF Funded, Live, Numbering, Used, Ordered, Sound
  <2>2. ASSUME Init PROVE SlotHeld
    <3>1. \A s \in Slots : Consumed(s) = {} /\ slot[s] = "PENDING"
      BY <2>2 DEF Init, Consumed
    <3> QED BY <3>1 DEF SlotHeld, Flying, Silent
  <2> QED BY <2>1, <2>2, InitType DEF HeldInv
<1>2. HeldInv /\ [Next]_vars => HeldInv'
  <2>1. ASSUME HeldInv, UNCHANGED vars PROVE HeldInv'
    <3>1. Aging
      BY <2>1, Untouched DEF vars
    <3>2. Numbering' /\ Funded'
      BY <2>1, <3>1, AgingNumbering, AgingFunded DEF HeldInv, vars
    <3>3. \A k \in Permit : SlotOf(k)' = SlotOf(k)
      BY <2>1 DEF SlotOf, vars
    <3>4. Sound' /\ SlotHeld'
      BY <2>1, <3>3, RestHeld DEF HeldInv, vars
    <3> QED BY <2>1, <3>2, <3>4 DEF HeldInv, vars, TypeOK, Backed
  <2>2. ASSUME HeldInv, Next PROVE HeldInv'
    BY <2>2, NextHeld, NextType, NextFunded DEF HeldInv
  <2> QED BY <2>1, <2>2
<1> QED BY <1>1, <1>2, PTL DEF Spec

(* However the operations and the hooks interleave, a slot is reserved     *)
(* while one attempt of it is in flight, and no second one is started      *)
(* before the first has ended and its result is in.                        *)
THEOREM SlotIsHeld == Spec => []SlotHeld
<1>1. HeldInv => SlotHeld
  BY DEF HeldInv
<1> QED BY <1>1, HeldAlways, PTL

-------------------------------------------------------------------------------
(* Sums over finite sets.                                                  *)

Pairs(S, w) == UNION {{x} \X (1..w[x]) : x \in S}

LEMMA PairsIn == \A S, w, z : z \in Pairs(S, w) <=> \E x \in S : z \in {x} \X (1..w[x])
BY DEF Pairs

LEMMA StackSize ==
    ASSUME NEW x, NEW n \in Nat
    PROVE  IsFiniteSet({x} \X (1..n)) /\ Cardinality({x} \X (1..n)) = n
<1>1. IsFiniteSet(1..n) /\ Cardinality(1..n) = n
  <2>1. Cardinality(1..n) = IF 1 > n THEN 0 ELSE n - 1 + 1
    BY FS_Interval
  <2> QED BY <2>1, FS_Interval
<1>2. IsFiniteSet({x}) /\ Cardinality({x}) = 1
  BY FS_Singleton
<1>3. /\ IsFiniteSet({x} \X (1..n))
      /\ Cardinality({x} \X (1..n)) = Cardinality({x}) * Cardinality(1..n)
  BY <1>1, <1>2, FS_Product
<1> QED BY <1>1, <1>2, <1>3

LEMMA PairsFinite ==
    ASSUME NEW S, IsFiniteSet(S), NEW w, \A x \in S : w[x] \in Nat
    PROVE  IsFiniteSet(Pairs(S, w))
<1> DEFINE T == {{x} \X (1..w[x]) : x \in S}
           f == [x \in S |-> {x} \X (1..w[x])]
<1>1. f \in Surjection(S, T)
  BY DEF Surjection
<1>2. IsFiniteSet(T)
  BY <1>1, FS_Surjection
<1>3. ASSUME NEW t \in T PROVE IsFiniteSet(t)
  <2>1. PICK x \in S : t = {x} \X (1..w[x])
    OBVIOUS
  <2> QED BY <2>1, StackSize
<1> QED BY <1>2, <1>3, FS_UNION DEF Pairs

LEMMA TotalType ==
    ASSUME NEW S, IsFiniteSet(S), NEW w, \A x \in S : w[x] \in Nat
    PROVE  Total(S, w) \in Nat
BY PairsFinite, FS_CardinalityType DEF Total, Pairs

LEMMA TotalAdds ==
    ASSUME NEW S, IsFiniteSet(S), NEW i, i \notin S, NEW w, \A x \in S \cup {i} : w[x] \in Nat
    PROVE  Total(S \cup {i}, w) = Total(S, w) + w[i]
<1> DEFINE A == Pairs(S, w)
           B == {i} \X (1..w[i])
<1>1. Pairs(S \cup {i}, w) = A \cup B
  <2>1. \A z : z \in Pairs(S \cup {i}, w) <=> z \in A \/ z \in B
    BY PairsIn
  <2> QED BY <2>1
<1>2. A \cap B = {}
  <2>1. \A z : z \in A => \E x \in S : z[1] = x
    BY PairsIn
  <2>2. \A z : z \in B => z[1] = i
    OBVIOUS
  <2> QED BY <2>1, <2>2
<1>3. IsFiniteSet(A)
  BY PairsFinite
<1>4. IsFiniteSet(B) /\ Cardinality(B) = w[i]
  BY StackSize
<1> HIDE DEF A, B
<1>5. Cardinality(A \cup B) = Cardinality(A) + Cardinality(B) - Cardinality(A \cap B)
  BY <1>3, <1>4, FS_Union
<1>6. Cardinality(A \cap B) = 0 /\ Cardinality(A) \in Nat
  BY <1>2, <1>3, FS_EmptySet, FS_CardinalityType
<1>7. Cardinality(A \cup B) = Cardinality(A) + w[i]
  BY <1>4, <1>5, <1>6
<1> QED BY <1>1, <1>7 DEF Total, Pairs, A

LEMMA TotalAgrees ==
    ASSUME NEW S, NEW v, NEW w, \A x \in S : v[x] = w[x]
    PROVE  Total(S, v) = Total(S, w)
<1>1. \A z : z \in Pairs(S, v) <=> z \in Pairs(S, w)
  BY PairsIn
<1>2. Pairs(S, v) = Pairs(S, w)
  BY <1>1
<1> QED BY <1>2 DEF Total, Pairs

-------------------------------------------------------------------------------
(* The usage that the attempts U, of which K keep their units and F are in *)
(* flight, amount to.                                                      *)

Phases == {"pre", "post", "repair"}
Scarce(S) == {i \in S : ProfileOf(i) \in Astra}
InPhase(S, p) == {i \in S : Phase[SlotOf(i)] = p}
Price(S) == [i \in S |-> Units[ProfileOf(i)]]

Bill(U, K, F) ==
    [units       |-> Total(K, Price(U)),
     attempts    |-> Cardinality(U),
     astra       |-> Cardinality(Scarce(U)),
     phase       |-> [p \in Phases |-> Total(InPhase(K, p), Price(U))],
     active      |-> Cardinality(F),
     astraActive |-> Cardinality(Scarce(F))]

Users == {i \in Permit : attempts[i] # None}
Keepers == {i \in Users : attempts[i].state # "NOT_STARTED_RELEASED"}
Flyers == {i \in Users : InFlight(attempts[i])}

LEMMA UsageBill == UsageOf(attempts) = Bill(Users, Keepers, Flyers)
<1>1. DOMAIN NoUsage.phase = Phases
  BY DEF NoUsage, Phases
<1> QED BY <1>1 DEF UsageOf, Bill, Users, Keepers, Flyers, Scarce, InPhase, Price

LEMMA UsersFinite ==
    ASSUME NEW S, S \subseteq Permit
    PROVE  IsFiniteSet(S)
<1>1. IsFiniteSet(1..MaxPermits)
  BY FS_Interval, PhaseBudgetAssumption DEF PhaseBudgetAssumption
<1> QED BY <1>1, FS_Subset DEF Permit

LEMMA CountAdds ==
    ASSUME NEW S, S \subseteq Permit, NEW i \in Permit, i \notin S
    PROVE  /\ Cardinality(S) \in Nat
           /\ Cardinality(S \cup {i}) = Cardinality(S) + 1
           /\ Cardinality(Scarce(S)) \in Nat
           /\ Cardinality(Scarce(S \cup {i})) = Cardinality(Scarce(S)) + One(ProfileOf(i))
<1>1. IsFiniteSet(S) /\ IsFiniteSet(Scarce(S))
  BY UsersFinite DEF Scarce
<1>2. Scarce(S \cup {i}) = IF ProfileOf(i) \in Astra THEN Scarce(S) \cup {i} ELSE Scarce(S)
  BY DEF Scarce
<1>3. i \notin Scarce(S)
  BY DEF Scarce
<1>4. /\ Cardinality(S) \in Nat /\ Cardinality(Scarce(S)) \in Nat
      /\ Cardinality(S \cup {i}) = Cardinality(S) + 1
      /\ Cardinality(Scarce(S) \cup {i}) = Cardinality(Scarce(S)) + 1
  BY <1>1, <1>3, FS_AddElement, FS_CardinalityType
<1> QED BY <1>2, <1>4 DEF One

Priced(U) == \A i \in U : ProfileOf(i) \in Profiles /\ SlotOf(i) \in Slots

LEMMA SumAdds ==
    ASSUME NEW U, U \subseteq Permit, Priced(U), NEW K, K \subseteq U, NEW i \in U, i \notin K
    PROVE  /\ Total(K, Price(U)) \in Nat /\ Units[ProfileOf(i)] \in Nat
           /\ Total(K \cup {i}, Price(U)) = Total(K, Price(U)) + Units[ProfileOf(i)]
           /\ \A p \in Phases :
                /\ Total(InPhase(K, p), Price(U)) \in Nat
                /\ Total(InPhase(K \cup {i}, p), Price(U)) =
                       Total(InPhase(K, p), Price(U))
                         + IF p = Phase[SlotOf(i)] THEN Units[ProfileOf(i)] ELSE 0
<1> DEFINE w == Price(U)
<1>1. \A x \in U : w[x] \in Nat /\ w[x] = Units[ProfileOf(x)]
  BY PhaseBudgetAssumption DEF Price, Priced, PhaseBudgetAssumption
<1> HIDE DEF w
<1>2. IsFiniteSet(K)
  BY UsersFinite
<1>3. Total(K, w) \in Nat /\ Total(K \cup {i}, w) = Total(K, w) + w[i]
  <2>1. \A x \in K \cup {i} : w[x] \in Nat
    BY <1>1
  <2>2. \A x \in K : w[x] \in Nat
    BY <1>1
  <2>3. Total(K, w) \in Nat
    BY <1>2, <2>2, TotalType
  <2>4. Total(K \cup {i}, w) = Total(K, w) + w[i]
    BY <1>2, <2>1, TotalAdds
  <2> QED BY <2>3, <2>4
<1>4. ASSUME NEW p \in Phases
      PROVE  /\ Total(InPhase(K, p), w) \in Nat
             /\ Total(InPhase(K \cup {i}, p), w) =
                    Total(InPhase(K, p), w) + IF p = Phase[SlotOf(i)] THEN w[i] ELSE 0
  <2> DEFINE L == InPhase(K, p)
  <2>1. L \subseteq K /\ i \notin L
        /\ InPhase(K \cup {i}, p) = IF p = Phase[SlotOf(i)] THEN L \cup {i} ELSE L
    BY DEF InPhase
  <2> HIDE DEF L
  <2>2. IsFiniteSet(L)
    BY <2>1, UsersFinite
  <2>3. \A x \in L \cup {i} : w[x] \in Nat
    BY <1>1, <2>1
  <2>4. Total(L, w) \in Nat
    BY <2>2, <2>3, TotalType
  <2>5. Total(L \cup {i}, w) = Total(L, w) + w[i]
    BY <2>1, <2>2, <2>3, TotalAdds
  <2>6. CASE p = Phase[SlotOf(i)]
    BY <2>1, <2>4, <2>5, <2>6 DEF L
  <2>7. CASE p # Phase[SlotOf(i)]
    BY <2>1, <2>4, <2>7 DEF L
  <2> QED BY <2>6, <2>7
<1>5. w[i] = Units[ProfileOf(i)] /\ w[i] \in Nat
  BY <1>1
<1> QED BY <1>3, <1>4, <1>5 DEF w

LEMMA PriceAgrees ==
    ASSUME NEW U, NEW V, NEW K, K \subseteq U, K \subseteq V
    PROVE  /\ Total(K, Price(U)) = Total(K, Price(V))
           /\ \A p : Total(InPhase(K, p), Price(U)) = Total(InPhase(K, p), Price(V))
<1>1. \A L : L \subseteq K => \A x \in L : Price(U)[x] = Price(V)[x]
  BY DEF Price
<1>2. \A p : InPhase(K, p) \subseteq K
  BY DEF InPhase
<1>3. ASSUME NEW L, L \subseteq K PROVE Total(L, Price(U)) = Total(L, Price(V))
  BY <1>1, <1>3, TotalAgrees
<1> QED BY <1>2, <1>3

UsageRecord ==
    [units : Int, attempts : Int, astra : Int, phase : [Phases -> Int], active : Int, astraActive : Int]

LEMMA SameUsage ==
    ASSUME NEW u \in UsageRecord, NEW v \in UsageRecord,
           u.units = v.units, u.attempts = v.attempts, u.astra = v.astra,
           u.phase = v.phase, u.active = v.active, u.astraActive = v.astraActive
    PROVE  u = v
BY DEF UsageRecord

LEMMA LandParts ==
    ASSUME NEW u \in UsageRecord, NEW i
    PROVE  /\ Land(u, i) \in UsageRecord
           /\ Land(u, i).units = u.units
           /\ Land(u, i).attempts = u.attempts
           /\ Land(u, i).astra = u.astra
           /\ Land(u, i).phase = u.phase
           /\ Land(u, i).active = u.active - 1
           /\ Land(u, i).astraActive = u.astraActive - One(ProfileOf(i))
<1> DEFINE x == u.active - 1
           y == u.astraActive - One(ProfileOf(i))
<1>1. Land(u, i) = [u EXCEPT !.active = x, !.astraActive = y]
  BY DEF Land
<1>2. x \in Int /\ y \in Int
  BY DEF UsageRecord, One
<1> HIDE DEF x, y
<1>3. /\ [u EXCEPT !.active = x, !.astraActive = y] \in UsageRecord
      /\ [u EXCEPT !.active = x, !.astraActive = y].active = x
      /\ [u EXCEPT !.active = x, !.astraActive = y].astraActive = y
      /\ [u EXCEPT !.active = x, !.astraActive = y].units = u.units
      /\ [u EXCEPT !.active = x, !.astraActive = y].attempts = u.attempts
      /\ [u EXCEPT !.active = x, !.astraActive = y].astra = u.astra
      /\ [u EXCEPT !.active = x, !.astraActive = y].phase = u.phase
  BY <1>2 DEF UsageRecord
<1> QED BY <1>1, <1>3 DEF x, y

LEMMA ChargeParts ==
    ASSUME NEW u \in UsageRecord, NEW s \in Slots, NEW p \in Profiles, Phase[s] \in Phases, Units[p] \in Nat
    PROVE  /\ Charge(u, s, p) \in UsageRecord
           /\ Charge(u, s, p).units = u.units + Units[p]
           /\ Charge(u, s, p).attempts = u.attempts + 1
           /\ Charge(u, s, p).astra = u.astra + One(p)
           /\ Charge(u, s, p).phase = [u.phase EXCEPT ![Phase[s]] = u.phase[Phase[s]] + Units[p]]
           /\ Charge(u, s, p).active = u.active + 1
           /\ Charge(u, s, p).astraActive = u.astraActive + One(p)
<1> DEFINE a == u.units + Units[p]
           b == u.attempts + 1
           c == u.astra + One(p)
           h == u.phase[Phase[s]] + Units[p]
           d == u.active + 1
           e == u.astraActive + One(p)
           H == [u.phase EXCEPT ![Phase[s]] = h]
           r == [u EXCEPT !.units = a, !.attempts = b, !.astra = c, !.phase = H,
                          !.active = d, !.astraActive = e]
<1>1. Charge(u, s, p) = [u EXCEPT !.units = a, !.attempts = b, !.astra = c,
                                  !.phase[Phase[s]] = h, !.active = d, !.astraActive = e]
  BY DEF Charge
<1>2. a \in Int /\ b \in Int /\ c \in Int /\ h \in Int /\ d \in Int /\ e \in Int
  BY DEF UsageRecord, One
<1>3. H \in [Phases -> Int]
  BY <1>2 DEF UsageRecord
<1> HIDE DEF a, b, c, h, d, e
<1>4. Charge(u, s, p) = r
  BY <1>1 DEF UsageRecord
<1> HIDE DEF H
<1>5. /\ r \in UsageRecord
      /\ r.units = a /\ r.attempts = b /\ r.astra = c
      /\ r.phase = H /\ r.active = d /\ r.astraActive = e
  BY <1>2, <1>3 DEF UsageRecord
<1> HIDE DEF r
<1> QED BY <1>4, <1>5 DEF a, b, c, h, d, e, H

LEMMA RefundParts ==
    ASSUME NEW u \in UsageRecord, NEW i, Phase[SlotOf(i)] \in Phases, Units[ProfileOf(i)] \in Nat
    PROVE  /\ Refund(u, i) \in UsageRecord
           /\ Refund(u, i).units = u.units - Units[ProfileOf(i)]
           /\ Refund(u, i).attempts = u.attempts
           /\ Refund(u, i).astra = u.astra
           /\ Refund(u, i).phase = [u.phase EXCEPT ![Phase[SlotOf(i)]]
                                        = u.phase[Phase[SlotOf(i)]] - Units[ProfileOf(i)]]
           /\ Refund(u, i).active = u.active - 1
           /\ Refund(u, i).astraActive = u.astraActive - One(ProfileOf(i))
<1> DEFINE l == Land(u, i)
           a == u.units - Units[ProfileOf(i)]
           h == u.phase[Phase[SlotOf(i)]] - Units[ProfileOf(i)]
           H == [u.phase EXCEPT ![Phase[SlotOf(i)]] = h]
           r == [l EXCEPT !.units = a, !.phase = H]
<1>1. /\ l \in UsageRecord /\ l.units = u.units /\ l.phase = u.phase
      /\ l.attempts = u.attempts /\ l.astra = u.astra
      /\ l.active = u.active - 1 /\ l.astraActive = u.astraActive - One(ProfileOf(i))
  BY LandParts
<1>2. a \in Int /\ h \in Int
  BY DEF UsageRecord
<1>3. H \in [Phases -> Int]
  BY <1>2 DEF UsageRecord
<1> HIDE DEF l
<1>4. Refund(u, i) = [l EXCEPT !.units = a, !.phase[Phase[SlotOf(i)]] = h]
  BY <1>1 DEF Refund, l
<1> HIDE DEF a, h
<1>5. Refund(u, i) = r
  BY <1>1, <1>4 DEF UsageRecord
<1> HIDE DEF H
<1>6. /\ r \in UsageRecord /\ r.units = a /\ r.phase = H
      /\ r.attempts = l.attempts /\ r.astra = l.astra
      /\ r.active = l.active /\ r.astraActive = l.astraActive
  BY <1>1, <1>2, <1>3 DEF UsageRecord
<1> HIDE DEF r
<1> QED BY <1>1, <1>5, <1>6 DEF a, h, H

LEMMA PhaseIn == \A s \in Slots : Phase[s] \in Phases
BY PhaseBudgetAssumption DEF PhaseBudgetAssumption, Phases

LEMMA BillParts ==
    ASSUME NEW U, U \subseteq Permit, Priced(U), NEW K, K \subseteq U, NEW F, F \subseteq U
    PROVE  /\ Bill(U, K, F) \in UsageRecord
           /\ Bill(U, K, F).units = Total(K, Price(U))
           /\ Bill(U, K, F).attempts = Cardinality(U)
           /\ Bill(U, K, F).astra = Cardinality(Scarce(U))
           /\ Bill(U, K, F).phase = [p \in Phases |-> Total(InPhase(K, p), Price(U))]
           /\ Bill(U, K, F).active = Cardinality(F)
           /\ Bill(U, K, F).astraActive = Cardinality(Scarce(F))
<1> DEFINE a == Total(K, Price(U))
           b == Cardinality(U)
           c == Cardinality(Scarce(U))
           h == [p \in Phases |-> Total(InPhase(K, p), Price(U))]
           d == Cardinality(F)
           e == Cardinality(Scarce(F))
<1>1. \A S : S \subseteq K => Total(S, Price(U)) \in Nat
  <2>1. \A x \in U : Price(U)[x] \in Nat
    BY PhaseBudgetAssumption DEF Price, Priced, PhaseBudgetAssumption
  <2>2. ASSUME NEW S, S \subseteq K PROVE Total(S, Price(U)) \in Nat
    BY <2>1, <2>2, UsersFinite, TotalType
  <2> QED BY <2>2
<1>2. a \in Int
  BY <1>1
<1>3. h \in [Phases -> Int]
  BY <1>1 DEF InPhase
<1>4. \A S : S \subseteq Permit => Cardinality(S) \in Int
  BY UsersFinite, FS_CardinalityType
<1>5. b \in Int /\ c \in Int /\ d \in Int /\ e \in Int
  BY <1>4 DEF Scarce
<1>6. Bill(U, K, F) = [units |-> a, attempts |-> b, astra |-> c, phase |-> h,
                       active |-> d, astraActive |-> e]
  BY DEF Bill
<1> HIDE DEF a, b, c, h, d, e
<1>7. Bill(U, K, F) \in UsageRecord
  BY <1>2, <1>3, <1>5, <1>6 DEF UsageRecord
<1> QED BY <1>6, <1>7 DEF a, b, c, h, d, e

(* One entry of the table of phases moves by n. *)
LEMMA PhaseMoves ==
    ASSUME NEW h \in [Phases -> Int], NEW g \in [Phases -> Int], NEW q \in Phases, NEW n \in Int,
           \A p \in Phases : g[p] = h[p] + IF p = q THEN n ELSE 0
    PROVE  g = [h EXCEPT ![q] = h[q] + n]
<1> DEFINE x == h[q] + n
<1>1. g[q] = x /\ \A p \in Phases \ {q} : g[p] = h[p]
  OBVIOUS
<1> HIDE DEF x
<1>2. g = [h EXCEPT ![q] = x]
  BY <1>1
<1> QED BY <1>2 DEF x

LEMMA BillCharged ==
    ASSUME NEW U, U \subseteq Permit, NEW i \in Permit, i \notin U, Priced(U \cup {i}),
           NEW K, K \subseteq U, NEW F, F \subseteq U
    PROVE  Bill(U \cup {i}, K \cup {i}, F \cup {i}) = Charge(Bill(U, K, F), SlotOf(i), ProfileOf(i))
<1> DEFINE V == U \cup {i}
           n == Units[ProfileOf(i)]
           q == Phase[SlotOf(i)]
           u == Bill(U, K, F)
           L == K \cup {i}
           G == F \cup {i}
           v == Bill(V, L, G)
<1>1. /\ V \subseteq Permit /\ Priced(V) /\ K \subseteq V /\ i \in V /\ i \notin K
      /\ L \subseteq V /\ G \subseteq V /\ Priced(U)
  BY DEF Priced
<1>2. /\ Total(K, Price(V)) = Total(K, Price(U))
      /\ \A p : Total(InPhase(K, p), Price(V)) = Total(InPhase(K, p), Price(U))
  BY <1>1, PriceAgrees
<1>3. /\ Cardinality(V) = Cardinality(U) + 1
      /\ Cardinality(Scarce(V)) = Cardinality(Scarce(U)) + One(ProfileOf(i))
      /\ Cardinality(G) = Cardinality(F) + 1
      /\ Cardinality(Scarce(G)) = Cardinality(Scarce(F)) + One(ProfileOf(i))
  BY CountAdds
<1>4. q \in Phases /\ n \in Nat /\ SlotOf(i) \in Slots /\ ProfileOf(i) \in Profiles
  BY PhaseIn, PhaseBudgetAssumption DEF Priced, PhaseBudgetAssumption
<1> HIDE DEF V
<1>5. /\ Total(L, Price(V)) = Total(K, Price(U)) + n
      /\ \A p \in Phases : Total(InPhase(L, p), Price(V))
                             = Total(InPhase(K, p), Price(U)) + IF p = q THEN n ELSE 0
  <2>1. /\ Total(K, Price(V)) \in Nat /\ Units[ProfileOf(i)] \in Nat
        /\ Total(K \cup {i}, Price(V)) = Total(K, Price(V)) + Units[ProfileOf(i)]
        /\ \A p \in Phases :
             /\ Total(InPhase(K, p), Price(V)) \in Nat
             /\ Total(InPhase(K \cup {i}, p), Price(V)) =
                    Total(InPhase(K, p), Price(V))
                      + IF p = Phase[SlotOf(i)] THEN Units[ProfileOf(i)] ELSE 0
    BY <1>1, SumAdds
  <2> QED BY <1>2, <2>1
<1> HIDE DEF L, G
<1>6. /\ u \in UsageRecord
      /\ u.units = Total(K, Price(U))
      /\ u.attempts = Cardinality(U)
      /\ u.astra = Cardinality(Scarce(U))
      /\ u.phase = [p \in Phases |-> Total(InPhase(K, p), Price(U))]
      /\ u.active = Cardinality(F)
      /\ u.astraActive = Cardinality(Scarce(F))
  <2>1. Priced(U)
    BY <1>1
  <2> HIDE DEF v
  <2> QED BY <2>1, BillParts
<1>7. /\ v \in UsageRecord
      /\ v.units = Total(L, Price(V))
      /\ v.attempts = Cardinality(V)
      /\ v.astra = Cardinality(Scarce(V))
      /\ v.phase = [p \in Phases |-> Total(InPhase(L, p), Price(V))]
      /\ v.active = Cardinality(G)
      /\ v.astraActive = Cardinality(Scarce(G))
  <2>1. V \subseteq Permit /\ Priced(V) /\ L \subseteq V /\ G \subseteq V
    BY <1>1
  <2> HIDE DEF u
  <2> QED BY <2>1, BillParts
<1> HIDE DEF u, v
<1>8. /\ Charge(u, SlotOf(i), ProfileOf(i)) \in UsageRecord
      /\ Charge(u, SlotOf(i), ProfileOf(i)).units = u.units + n
      /\ Charge(u, SlotOf(i), ProfileOf(i)).attempts = u.attempts + 1
      /\ Charge(u, SlotOf(i), ProfileOf(i)).astra = u.astra + One(ProfileOf(i))
      /\ Charge(u, SlotOf(i), ProfileOf(i)).phase = [u.phase EXCEPT ![q] = u.phase[q] + n]
      /\ Charge(u, SlotOf(i), ProfileOf(i)).active = u.active + 1
      /\ Charge(u, SlotOf(i), ProfileOf(i)).astraActive = u.astraActive + One(ProfileOf(i))
  BY <1>4, <1>6, ChargeParts
<1>9. v.phase = [u.phase EXCEPT ![q] = u.phase[q] + n]
  <2>1. u.phase \in [Phases -> Int] /\ v.phase \in [Phases -> Int]
    BY <1>6, <1>7 DEF UsageRecord
  <2>2. \A p \in Phases : v.phase[p] = u.phase[p] + IF p = q THEN n ELSE 0
    BY <1>5, <1>6, <1>7
  <2>3. n \in Int /\ q \in Phases
    BY <1>4
  <2>4. PICK h \in [Phases -> Int], g \in [Phases -> Int] : h = u.phase /\ g = v.phase
    BY <2>1
  <2> HIDE DEF n, q
  <2>5. \A p \in Phases : g[p] = h[p] + IF p = q THEN n ELSE 0
    BY <2>2, <2>4
  <2>6. g = [h EXCEPT ![q] = h[q] + n]
    BY <2>3, <2>5, PhaseMoves
  <2> QED BY <2>4, <2>6
<1> HIDE DEF n, q
<1>10. v = Charge(u, SlotOf(i), ProfileOf(i))
  BY <1>3, <1>5, <1>6, <1>7, <1>8, <1>9, SameUsage
<1> QED BY <1>10 DEF u, v, V, L, G

LEMMA BillLanded ==
    ASSUME NEW U, U \subseteq Permit, Priced(U), NEW K, K \subseteq U, NEW F, F \subseteq U,
           NEW i \in F
    PROVE  Bill(U, K, F \ {i}) = Land(Bill(U, K, F), i)
<1> DEFINE G == F \ {i}
           u == Bill(U, K, F)
           v == Bill(U, K, G)
<1>1. G \subseteq U /\ G \subseteq Permit /\ i \in Permit /\ i \notin G /\ F = G \cup {i}
  OBVIOUS
<1> HIDE DEF G
<1>2. /\ Cardinality(G) \in Nat /\ Cardinality(Scarce(G)) \in Nat
      /\ Cardinality(F) = Cardinality(G) + 1
      /\ Cardinality(Scarce(F)) = Cardinality(Scarce(G)) + One(ProfileOf(i))
  BY <1>1, CountAdds
<1>3. /\ Cardinality(G) = Cardinality(F) - 1
      /\ Cardinality(Scarce(G)) = Cardinality(Scarce(F)) - One(ProfileOf(i))
  BY <1>2 DEF One
<1>4. /\ u \in UsageRecord
      /\ u.units = Total(K, Price(U))
      /\ u.attempts = Cardinality(U)
      /\ u.astra = Cardinality(Scarce(U))
      /\ u.phase = [p \in Phases |-> Total(InPhase(K, p), Price(U))]
      /\ u.active = Cardinality(F)
      /\ u.astraActive = Cardinality(Scarce(F))
  BY BillParts
<1>5. /\ v \in UsageRecord
      /\ v.units = Total(K, Price(U))
      /\ v.attempts = Cardinality(U)
      /\ v.astra = Cardinality(Scarce(U))
      /\ v.phase = [p \in Phases |-> Total(InPhase(K, p), Price(U))]
      /\ v.active = Cardinality(G)
      /\ v.astraActive = Cardinality(Scarce(G))
  BY <1>1, BillParts
<1> HIDE DEF u, v
<1>6. /\ Land(u, i) \in UsageRecord
      /\ Land(u, i).units = u.units
      /\ Land(u, i).attempts = u.attempts
      /\ Land(u, i).astra = u.astra
      /\ Land(u, i).phase = u.phase
      /\ Land(u, i).active = u.active - 1
      /\ Land(u, i).astraActive = u.astraActive - One(ProfileOf(i))
  BY <1>4, LandParts
<1>7. v = Land(u, i)
  BY <1>3, <1>4, <1>5, <1>6, SameUsage
<1> QED BY <1>7 DEF u, v, G

LEMMA BillRefunded ==
    ASSUME NEW U, U \subseteq Permit, Priced(U), NEW K, K \subseteq U, NEW F, F \subseteq U,
           NEW i \in F, i \in K
    PROVE  Bill(U, K \ {i}, F \ {i}) = Refund(Bill(U, K, F), i)
<1> DEFINE G == F \ {i}
           L == K \ {i}
           n == Units[ProfileOf(i)]
           q == Phase[SlotOf(i)]
           u == Bill(U, K, F)
           v == Bill(U, L, G)
<1>1. /\ G \subseteq U /\ G \subseteq Permit /\ i \in Permit /\ i \notin G /\ F = G \cup {i}
      /\ L \subseteq U /\ i \in U /\ i \notin L /\ K = L \cup {i}
  OBVIOUS
<1>2. q \in Phases /\ n \in Nat
  BY <1>1, PhaseIn, PhaseBudgetAssumption DEF Priced, PhaseBudgetAssumption
<1> HIDE DEF G, L
<1>3. /\ Cardinality(G) \in Nat /\ Cardinality(Scarce(G)) \in Nat
      /\ Cardinality(F) = Cardinality(G) + 1
      /\ Cardinality(Scarce(F)) = Cardinality(Scarce(G)) + One(ProfileOf(i))
  BY <1>1, CountAdds
<1>4. /\ Cardinality(G) = Cardinality(F) - 1
      /\ Cardinality(Scarce(G)) = Cardinality(Scarce(F)) - One(ProfileOf(i))
  BY <1>3 DEF One
<1>5. /\ Total(L, Price(U)) \in Nat
      /\ Total(K, Price(U)) = Total(L, Price(U)) + n
      /\ \A p \in Phases :
           /\ Total(InPhase(L, p), Price(U)) \in Nat
           /\ Total(InPhase(K, p), Price(U)) = Total(InPhase(L, p), Price(U)) + IF p = q THEN n ELSE 0
  BY <1>1, SumAdds
<1>6. /\ u \in UsageRecord
      /\ u.units = Total(K, Price(U))
      /\ u.attempts = Cardinality(U)
      /\ u.astra = Cardinality(Scarce(U))
      /\ u.phase = [p \in Phases |-> Total(InPhase(K, p), Price(U))]
      /\ u.active = Cardinality(F)
      /\ u.astraActive = Cardinality(Scarce(F))
  BY BillParts
<1>7. /\ v \in UsageRecord
      /\ v.units = Total(L, Price(U))
      /\ v.attempts = Cardinality(U)
      /\ v.astra = Cardinality(Scarce(U))
      /\ v.phase = [p \in Phases |-> Total(InPhase(L, p), Price(U))]
      /\ v.active = Cardinality(G)
      /\ v.astraActive = Cardinality(Scarce(G))
  BY <1>1, BillParts
<1> HIDE DEF u, v
<1>8. /\ Refund(u, i) \in UsageRecord
      /\ Refund(u, i).units = u.units - n
      /\ Refund(u, i).attempts = u.attempts
      /\ Refund(u, i).astra = u.astra
      /\ Refund(u, i).phase = [u.phase EXCEPT ![q] = u.phase[q] - n]
      /\ Refund(u, i).active = u.active - 1
      /\ Refund(u, i).astraActive = u.astraActive - One(ProfileOf(i))
  BY <1>2, <1>6, RefundParts
<1>9. v.phase = [u.phase EXCEPT ![q] = u.phase[q] - n]
  <2>1. u.phase \in [Phases -> Int] /\ v.phase \in [Phases -> Int]
    BY <1>6, <1>7 DEF UsageRecord
  <2>2. \A p \in Phases : v.phase[p] = u.phase[p] + IF p = q THEN -n ELSE 0
    BY <1>2, <1>5, <1>6, <1>7
  <2> HIDE DEF n, q
  <2>3. n \in Int /\ -n \in Int /\ q \in Phases /\ u.phase[q] \in Int
    BY <1>2, <2>1
  <2>4. v.phase = [u.phase EXCEPT ![q] = u.phase[q] + (-n)]
    BY <2>1, <2>2, <2>3, PhaseMoves
  <2>5. u.phase[q] + (-n) = u.phase[q] - n
    BY <2>3
  <2> QED BY <2>4, <2>5
<1> HIDE DEF n, q
<1>10. u.units - n = v.units
  BY <1>2, <1>5, <1>6, <1>7
<1>11. v = Refund(u, i)
  BY <1>4, <1>6, <1>7, <1>8, <1>9, <1>10, SameUsage
<1> QED BY <1>11 DEF u, v, G, L

-------------------------------------------------------------------------------
(* The usage that is kept by hand is the bill of the attempts.             *)

LEMMA Rebilled ==
    ASSUME \A k \in Users' : permits'[k].slot = permits[k].slot /\ permits'[k].profile = permits[k].profile,
           NEW U, U = Users', NEW K, K = Keepers', NEW F, F = Flyers'
    PROVE  UsageOf(attempts)' = Bill(U, K, F)
<1>1. K \subseteq U /\ F \subseteq U
  BY DEF Keepers, Flyers
<1>2. \A k \in U : SlotOf(k)' = SlotOf(k) /\ ProfileOf(k)' = ProfileOf(k)
  BY DEF SlotOf, ProfileOf
<1>3. Price(U)' = Price(U) /\ Scarce(U)' = Scarce(U) /\ Scarce(F)' = Scarce(F)
  BY <1>1, <1>2 DEF Price, Scarce
<1>4. \A p : InPhase(K, p)' = InPhase(K, p)
  BY <1>1, <1>2 DEF InPhase
<1>5. UsageOf(attempts)' = Bill(Users, Keepers, Flyers)'
  <2>1. DOMAIN NoUsage.phase = Phases
    BY DEF NoUsage, Phases
  <2> QED BY <2>1 DEF UsageOf, Bill, Users, Keepers, Flyers, Scarce, InPhase, Price
<1>6. Bill(Users, Keepers, Flyers)' = Bill(U, K, F)
  BY <1>3, <1>4 DEF Bill
<1> QED BY <1>5, <1>6

LEMMA UsersPriced ==
    ASSUME TypeOK, Used
    PROVE  /\ Users \subseteq Permit /\ Keepers \subseteq Users /\ Flyers \subseteq Users
           /\ Priced(Users)
BY SlotOfType DEF Used, Users, Keepers, Flyers, Priced

LEMMA StillExact ==
    ASSUME TypeOK, Used, CacheExact, UNCHANGED usage,
           Users' = Users, Keepers' = Keepers, Flyers' = Flyers,
           \A k \in Users : permits'[k] = permits[k]
    PROVE  CacheExact'
<1>1. UsageOf(attempts)' = Bill(Users, Keepers, Flyers)
  BY Rebilled
<1> QED BY <1>1, UsageBill DEF CacheExact

LEMMA RestExact ==
    ASSUME TypeOK, Used, CacheExact, UNCHANGED <<usage, attempts>>,
           \A k \in Permit : attempts[k] # None => permits'[k] = permits[k]
    PROVE  CacheExact'
<1>1. Users' = Users /\ Keepers' = Keepers /\ Flyers' = Flyers
  BY DEF Users, Keepers, Flyers
<1> QED BY <1>1, StillExact DEF Users

LEMMA ReserveExact ==
    ASSUME TypeOK, Used, CacheExact, NEW i \in Permit, Reserve(i)
    PROVE  CacheExact'
<1>1. permits[i] # None /\ permits[i].status = "PREPARED" /\ attempts[i] = None
  BY DEF Reserve, Used
<1>2. /\ attempts'[i] = NewAttempt /\ \A k \in Permit \ {i} : attempts'[k] = attempts[k]
      /\ usage' = Charge(usage, SlotOf(i), ProfileOf(i))
  BY DEF Reserve, TypeOK
<1>3. Users' = Users \cup {i} /\ Keepers' = Keepers \cup {i} /\ Flyers' = Flyers \cup {i}
  <2>1. NewAttempt # None /\ NewAttempt.state = "RESERVED" /\ InFlight(NewAttempt)
    BY NewAttemptType DEF NewAttempt, InFlight
  <2>2. Users' = Users \cup {i}
    BY <1>1, <1>2, <2>1 DEF Users
  <2>3. \A k \in Users : k # i
    BY <1>1 DEF Users
  <2>4. \A k \in Users : attempts'[k] = attempts[k]
    BY <1>2, <2>3 DEF Users
  <2> QED BY <1>2, <2>1, <2>2, <2>3, <2>4 DEF Keepers, Flyers
<1>4. \A k \in Permit : permits'[k].slot = permits[k].slot /\ permits'[k].profile = permits[k].profile
  <2>1. ASSUME NEW k \in Permit, k = i
        PROVE  permits'[k].slot = permits[k].slot /\ permits'[k].profile = permits[k].profile
    <3>1. permits[i] \in PermitRecord /\ permits' = [permits EXCEPT ![i].status = "CONSUMED"]
      BY <1>1 DEF TypeOK, Reserve
    <3> QED BY <2>1, <3>1 DEF TypeOK, PermitRecord
  <2>2. ASSUME NEW k \in Permit, k # i PROVE permits'[k] = permits[k]
    BY <2>2 DEF TypeOK, Reserve
  <2> QED BY <2>1, <2>2
<1>5. /\ Users \subseteq Permit /\ Keepers \subseteq Users /\ Flyers \subseteq Users
      /\ Priced(Users \cup {i}) /\ i \notin Users
  BY <1>1, UsersPriced, SlotOfType DEF Priced, Users
<1>6. UsageOf(attempts)' = Bill(Users \cup {i}, Keepers \cup {i}, Flyers \cup {i})
  BY <1>3, <1>4, <1>5, Rebilled
<1>7. Bill(Users \cup {i}, Keepers \cup {i}, Flyers \cup {i})
        = Charge(Bill(Users, Keepers, Flyers), SlotOf(i), ProfileOf(i))
  BY <1>5, BillCharged
<1> QED BY <1>2, <1>6, <1>7, UsageBill DEF CacheExact

(* One attempt changes, with its permit as it was. *)
LEMMA OneChanges ==
    ASSUME TypeOK, Used, NEW i \in Permit, attempts[i] # None, NEW b \in AttemptRecord,
           attempts' = [attempts EXCEPT ![i] = b], UNCHANGED permits
    PROVE  /\ Users' = Users /\ i \in Users
           /\ Keepers' = IF b.state = "NOT_STARTED_RELEASED" THEN Keepers \ {i} ELSE Keepers \cup {i}
           /\ Flyers' = IF InFlight(b) THEN Flyers \cup {i} ELSE Flyers \ {i}
           /\ UsageOf(attempts)' = Bill(Users', Keepers', Flyers')
<1>1. attempts'[i] = b /\ b # None /\ \A k \in Permit \ {i} : attempts'[k] = attempts[k]
  BY NoneAssumption DEF TypeOK, NoneAssumption
<1>2. Users' = Users /\ i \in Users /\ Users \subseteq Permit
  BY <1>1 DEF Users
<1>3. Keepers' = IF b.state = "NOT_STARTED_RELEASED" THEN Keepers \ {i} ELSE Keepers \cup {i}
  BY <1>1, <1>2 DEF Keepers
<1>4. Flyers' = IF InFlight(b) THEN Flyers \cup {i} ELSE Flyers \ {i}
  BY <1>1, <1>2 DEF Flyers
<1>5. UsageOf(attempts)' = Bill(Users', Keepers', Flyers')
  BY Rebilled
<1> QED BY <1>2, <1>3, <1>4, <1>5

(* A stop or a receipt that ends the attempt lands it, once. *)
LEMMA ReportExact ==
    ASSUME TypeOK, Used, Sound, CacheExact, NEW i \in Permit, attempts[i] # None, Reported(i)
    PROVE  CacheExact'
<1>1. PICK a \in AttemptRecord : Adds(i, a) /\ Report(i, a)
  BY DEF Reported
<1>2. PICK b : b = Projected(a)
  OBVIOUS
<1>3. /\ b \in AttemptRecord /\ b.receipt = a.receipt
      /\ a.receipt # "created" => b.state = attempts[i].state
      /\ attempts[i].state = "COMPLETED" => b.state = "COMPLETED"
      /\ b.state \in {attempts[i].state, "STARTED", "COMPLETED"}
      /\ b.state = "STARTED" => attempts[i].state \in {"RESERVED", "STARTED"}
  BY <1>1, <1>2, ProjectedType, ProjectedFacts DEF Adds
<1>4. attempts' = [attempts EXCEPT ![i] = b] /\ UNCHANGED permits
  BY <1>1, <1>2 DEF Report
<1>5. attempts[i] \in AttemptRecord /\ b # None
  BY <1>3, NoneAssumption DEF TypeOK, NoneAssumption
<1>6. /\ attempts[i].state = "NOT_STARTED_RELEASED" <=> b.state = "NOT_STARTED_RELEASED"
      /\ InFlight(b) => InFlight(attempts[i])
      /\ InFlight(attempts[i]) => InFlight(b) \/ b.state = "COMPLETED"
  <2>1. attempts[i].state = "NOT_STARTED_RELEASED" => a.receipt = "not-started"
    BY <1>1, NoneAssumption DEF Sound, Adds, NoneAssumption, AttemptRecord
  <2> QED BY <1>3, <1>5, <2>1 DEF InFlight, AttemptRecord
<1>7. /\ Users' = Users /\ i \in Users
      /\ Keepers' = IF b.state = "NOT_STARTED_RELEASED" THEN Keepers \ {i} ELSE Keepers \cup {i}
      /\ Flyers' = IF InFlight(b) THEN Flyers \cup {i} ELSE Flyers \ {i}
      /\ UsageOf(attempts)' = Bill(Users', Keepers', Flyers')
  BY <1>3, <1>4, OneChanges
<1>8. Keepers' = Keepers
  BY <1>6, <1>7 DEF Keepers
<1>9. CASE InFlight(attempts[i]) /\ b.state = "COMPLETED"
  <2>1. usage' = Land(usage, i)
    BY <1>1, <1>2, <1>9 DEF Report
  <2>2. i \in Flyers /\ Flyers' = Flyers \ {i}
    BY <1>7, <1>9 DEF Flyers, InFlight
  <2>3. Users \subseteq Permit /\ Priced(Users) /\ Keepers \subseteq Users /\ Flyers \subseteq Users
    BY UsersPriced
  <2>4. Bill(Users, Keepers, Flyers \ {i}) = Land(Bill(Users, Keepers, Flyers), i)
    BY <2>2, <2>3, BillLanded
  <2> QED BY <1>7, <1>8, <2>1, <2>2, <2>4, UsageBill DEF CacheExact
<1>10. CASE ~(InFlight(attempts[i]) /\ b.state = "COMPLETED")
  <2>1. UNCHANGED usage
    BY <1>1, <1>2, <1>10 DEF Report
  <2>2. InFlight(b) <=> InFlight(attempts[i])
    BY <1>6, <1>10
  <2>3. Flyers' = Flyers
    BY <1>7, <2>2 DEF Flyers
  <2> QED BY <1>7, <1>8, <2>1, <2>3, UsageBill DEF CacheExact
<1> QED BY <1>9, <1>10

LEMMA ReleaseExact ==
    ASSUME TypeOK, Used, CacheExact, NEW i \in Permit, Release(i)
    PROVE  CacheExact'
<1>1. PICK b : b = [attempts[i] EXCEPT !.state = "NOT_STARTED_RELEASED"]
  OBVIOUS
<1>2. /\ attempts[i] # None /\ attempts[i].state = "RESERVED"
      /\ attempts' = [attempts EXCEPT ![i] = b] /\ UNCHANGED permits
      /\ usage' = Refund(usage, i)
  BY <1>1 DEF Release, Known
<1>3. b \in AttemptRecord /\ b.state = "NOT_STARTED_RELEASED" /\ ~InFlight(b)
  BY <1>1, <1>2 DEF TypeOK, AttemptRecord, InFlight
<1>4. /\ Users' = Users /\ i \in Users
      /\ Keepers' = IF b.state = "NOT_STARTED_RELEASED" THEN Keepers \ {i} ELSE Keepers \cup {i}
      /\ Flyers' = IF InFlight(b) THEN Flyers \cup {i} ELSE Flyers \ {i}
      /\ UsageOf(attempts)' = Bill(Users', Keepers', Flyers')
  BY <1>2, <1>3, OneChanges
<1>5. i \in Keepers /\ i \in Flyers
  BY <1>2, <1>4 DEF Keepers, Flyers, InFlight
<1>6. Users \subseteq Permit /\ Priced(Users) /\ Keepers \subseteq Users /\ Flyers \subseteq Users
  BY UsersPriced
<1>7. Bill(Users, Keepers \ {i}, Flyers \ {i}) = Refund(Bill(Users, Keepers, Flyers), i)
  BY <1>5, <1>6, BillRefunded
<1> QED BY <1>2, <1>3, <1>4, <1>7, UsageBill DEF CacheExact

LEMMA AcceptExact ==
    ASSUME TypeOK, Used, CacheExact, NEW i \in Permit, NEW v \in Verdicts, AcceptResult(i, v)
    PROVE  CacheExact'
<1>1. PICK b : b = [attempts[i] EXCEPT !.result = v, !.supersedes = Supersedes(i, v)]
  OBVIOUS
<1>2. /\ attempts[i] # None /\ attempts[i].state = "COMPLETED"
      /\ attempts' = [attempts EXCEPT ![i] = b] /\ UNCHANGED <<usage, permits>>
  BY <1>1 DEF AcceptResult, Known
<1>3. Supersedes(i, v) \in SUBSET Permit
  <2>1. permits[i].prior \in Permit \cup {None}
    BY <1>2 DEF Used, TypeOK, PermitRecord
  <2> QED BY <2>1 DEF Supersedes
<1>4. b \in AttemptRecord /\ b.state = "COMPLETED"
  <2>1. attempts[i] \in AttemptRecord
    BY <1>2 DEF TypeOK
  <2> QED BY <1>1, <1>2, <1>3, <2>1 DEF AttemptRecord
<1>5. /\ Users' = Users /\ i \in Users
      /\ Keepers' = IF b.state = "NOT_STARTED_RELEASED" THEN Keepers \ {i} ELSE Keepers \cup {i}
      /\ Flyers' = IF InFlight(b) THEN Flyers \cup {i} ELSE Flyers \ {i}
      /\ UsageOf(attempts)' = Bill(Users', Keepers', Flyers')
  BY <1>2, <1>4, OneChanges
<1>6. Keepers' = Keepers /\ Flyers' = Flyers
  BY <1>2, <1>4, <1>5 DEF Keepers, Flyers, InFlight
<1> QED BY <1>2, <1>5, <1>6, UsageBill DEF CacheExact

LEMMA NextExact ==
    ASSUME HeldInv, CacheExact, Next
    PROVE  CacheExact'
<1>1. TypeOK /\ Used /\ Sound /\ Numbering
  BY DEF HeldInv, Numbering
<1>2. ASSUME NEW s \in Slots, NEW p \in Profiles, NEW q \in Permit \cup {None}, Prepare(s, p, q)
      PROVE  CacheExact'
  <2>1. UNCHANGED <<usage, attempts>>
    BY <1>2 DEF Prepare
  <2>2. \A k \in Permit : attempts[k] # None => permits'[k] = permits[k]
    BY <1>1, <1>2, PrepareNumbering
  <2> QED BY <1>1, <2>1, <2>2, RestExact
<1>3. CASE \E s \in Slots : Inline(s) \/ RevisePlan(s) \/ \E i \in Permit : Waive(s, i)
  BY <1>1, <1>3, RestExact DEF Inline, RevisePlan, Waive
<1>4. ASSUME NEW i \in Permit, Revoke(i) PROVE CacheExact'
  <2>1. UNCHANGED <<usage, attempts>> /\ attempts[i] = None
    BY <1>1, <1>4 DEF Revoke, Used
  <2>2. \A k \in Permit : attempts[k] # None => permits'[k] = permits[k]
    BY <1>1, <1>4, <2>1 DEF Revoke, TypeOK
  <2> QED BY <1>1, <2>1, <2>2, RestExact
<1>5. CASE \E i \in Permit : Reserve(i)
  BY <1>1, <1>5, ReserveExact
<1>6. CASE \E i \in Permit : HookStep(i)
  BY <1>1, <1>6, HookReports, ReportExact
<1>7. CASE \E i \in Permit : Release(i) \/ \E v \in Verdicts : AcceptResult(i, v)
  BY <1>1, <1>7, ReleaseExact, AcceptExact
<1>8. CASE AddEvidence \/ WorldChanges \/ \E o \in {"PASS", "FAILED"} : Close(o)
  BY <1>1, <1>8, RestExact DEF AddEvidence, WorldChanges, Close
<1> QED BY <1>2, <1>3, <1>4, <1>5, <1>6, <1>7, <1>8 DEF Next, HookStep

LEMMA InitExact ==
    ASSUME Init
    PROVE  CacheExact
<1>1. Users = {} /\ Keepers = {} /\ Flyers = {}
  BY DEF Init, Users, Keepers, Flyers
<1>2. \A w : Total({}, w) = 0
  BY FS_EmptySet DEF Total
<1>3. Cardinality({}) = 0 /\ Scarce({}) = {} /\ \A p : InPhase({}, p) = {}
  BY FS_EmptySet DEF Scarce, InPhase
<1>4. Bill({}, {}, {}) = NoUsage
  BY <1>2, <1>3 DEF Bill, NoUsage, Phases
<1> QED BY <1>1, <1>4, UsageBill DEF Init, CacheExact

(* The usage kept by hand is always what a recomputation from the attempts *)
(* gives: whatever the order of receipts, links, stops and releases,       *)
(* _usage_cache charges every attempt once, lands it once and refunds only *)
(* what was charged.                                                       *)
THEOREM CacheIsExact == Spec => []CacheExact
<1>1. Init => CacheExact
  BY InitExact
<1>2. HeldInv /\ CacheExact /\ [Next]_vars => CacheExact'
  <2>1. ASSUME HeldInv, CacheExact, UNCHANGED vars PROVE CacheExact'
    BY <2>1, RestExact DEF vars, HeldInv, Numbering
  <2> QED BY <2>1, NextExact
<1> QED BY <1>1, <1>2, HeldAlways, PTL DEF Spec

-------------------------------------------------------------------------------
(* What a closed root was told.                                            *)

(* Results come from attempts that ended; one that says more than          *)
(* "incomplete" was attested to the end.                                   *)
Faithful(a) ==
    /\ a.state = "COMPLETED" => /\ a.receipt = "created" /\ a.linked
                                /\ a.stopped # None /\ a.outcome = a.stopped
    /\ a.result # None => a.state = "COMPLETED"
    /\ a.result \in {"pass", "blocking"} =>
          a.context = "DELIVERED" /\ a.final = a.result /\ a.stopped = "UNKNOWN"
    /\ a.supersedes # {} => a.result = "pass"
Truthful ==
    \A i \in Permit : attempts[i] # None =>
        Faithful(attempts[i]) /\ attempts[i].supersedes \subseteq {permits[i].prior} \ {None}

(* The earlier attempt a permit names is of its slot, or the blocker that  *)
(* its repair is for.                                                      *)
Names(s, k) ==
    /\ k \in Permit /\ attempts[k] # None
    /\ \/ SlotOf(k) = s
       \/ /\ Phase[s] = "repair" /\ SlotOf(k) \in DependsOn[s]
          /\ attempts[k].result = "blocking"
Named ==
    \A i \in Permit : permits[i] # None =>
        /\ SlotOf(i) \in plan
        /\ permits[i].prior # None => Names(SlotOf(i), permits[i].prior)

(* A slot is settled for a reason. *)
Says(t, v) == \E i \in Consumed(t) : attempts[i].result = v
Grant(s) ==
    /\ slot[s] = "WAIVED" => s \in Conditional /\ \E d \in DependsOn[s] : Says(d, "pass")
    /\ slot[s] = "SATISFIED" => s \in Inlineable \/ Says(s, "pass") \/ Says(s, "blocking")
Granted == \A s \in Slots : Grant(s)

(* What is known of attempts and permits is never taken back. *)
Grows ==
    /\ plan \subseteq plan'
    /\ \A i \in Permit : attempts[i] # None =>
          /\ attempts'[i] # None /\ permits'[i].slot = permits[i].slot
          /\ attempts[i].result # None => attempts'[i].result = attempts[i].result

LEMMA SaysKept ==
    ASSUME Grows, NEW t, NEW v \in Verdicts, Says(t, v)
    PROVE  Says(t, v)'
<1>1. PICK i \in Permit : attempts[i] # None /\ SlotOf(i) = t /\ attempts[i].result = v
  BY DEF Says, Consumed
<1>2. v # None
  BY NoneAssumption DEF NoneAssumption
<1>3. attempts'[i] # None /\ permits'[i].slot = t /\ attempts'[i].result = v
  BY <1>1, <1>2 DEF Grows, SlotOf
<1> QED BY <1>3 DEF Says, Consumed, SlotOf

LEMMA NamesKept ==
    ASSUME Grows, NEW s, NEW k, Names(s, k)
    PROVE  Names(s, k)'
<1>1. k \in Permit /\ attempts[k] # None /\ attempts'[k] # None /\ SlotOf(k)' = SlotOf(k)
  BY DEF Names, Grows, SlotOf
<1>2. attempts[k].result = "blocking" => attempts'[k].result = "blocking"
  BY <1>1, NoneAssumption DEF Grows, NoneAssumption, Verdicts
<1> QED BY <1>1, <1>2 DEF Names

LEMMA NamedKept ==
    ASSUME Grows, Named,
           \A i \in Permit : permits'[i] # None =>
              /\ permits[i] # None
              /\ permits'[i].slot = permits[i].slot /\ permits'[i].prior = permits[i].prior
    PROVE  Named'
<1>1. ASSUME NEW i \in Permit, permits'[i] # None
      PROVE  SlotOf(i)' \in plan'
             /\ (permits[i].prior # None => Names(SlotOf(i), permits[i].prior))'
  <2>1. /\ permits[i] # None /\ SlotOf(i)' = SlotOf(i) /\ permits'[i].prior = permits[i].prior
    BY <1>1 DEF SlotOf
  <2>2. SlotOf(i) \in plan /\ (permits[i].prior # None => Names(SlotOf(i), permits[i].prior))
    BY <2>1 DEF Named
  <2>3. PICK s, q : s = SlotOf(i) /\ q = permits[i].prior
    OBVIOUS
  <2>4. q # None => Names(s, q)'
    BY <2>2, <2>3, NamesKept
  <2> QED BY <2>1, <2>2, <2>3, <2>4 DEF Grows
<1> QED BY <1>1 DEF Named

LEMMA GrantKept ==
    ASSUME Grows, NEW s \in Slots, Grant(s), slot'[s] \in {slot[s], "PENDING", "RESERVED", "AWAITING_RESULT"}
    PROVE  Grant(s)'
<1>1. {"pass", "blocking"} \subseteq Verdicts
  BY DEF Verdicts
<1>2. \A t : Says(t, "pass") => Says(t, "pass")'
  BY <1>1, SaysKept
<1>3. \A t : Says(t, "blocking") => Says(t, "blocking")'
  BY <1>1, SaysKept
<1> QED BY <1>2, <1>3 DEF Grant

ReviewInv == Truthful /\ Named /\ Granted

(* Steps that change no attempt, and at most the status of one slot. *)
LEMMA RestReview ==
    ASSUME TypeOK, Used, ReviewInv, UNCHANGED <<attempts, permits>>, plan \subseteq plan',
           \A s \in Slots : slot'[s] = slot[s] \/ Grant(s)'
    PROVE  ReviewInv'
<1>1. Grows
  BY DEF Grows
<1>2. Truthful'
  BY DEF ReviewInv, Truthful
<1>3. Named'
  BY <1>1, NamedKept DEF ReviewInv
<1>4. Granted'
  BY <1>1, GrantKept DEF ReviewInv, Granted
<1> QED BY <1>2, <1>3, <1>4 DEF ReviewInv

LEMMA InlineReview ==
    ASSUME TypeOK, Used, ReviewInv, NEW s \in Slots, Inline(s)
    PROVE  ReviewInv'
<1>1. UNCHANGED <<attempts, permits, plan>> /\ slot' = [slot EXCEPT ![s] = "SATISFIED"] /\ s \in Inlineable
  BY DEF Inline
<1>2. slot'[s] = "SATISFIED" /\ \A t \in Slots \ {s} : slot'[t] = slot[t]
  BY <1>1 DEF TypeOK
<1>3. Grant(s)'
  BY <1>1, <1>2 DEF Grant
<1> QED BY <1>1, <1>2, <1>3, RestReview

LEMMA WaiveReview ==
    ASSUME TypeOK, Used, ReviewInv, NEW s \in Slots, NEW i \in Permit, Waive(s, i)
    PROVE  ReviewInv'
<1>1. /\ UNCHANGED <<attempts, permits, plan>> /\ slot' = [slot EXCEPT ![s] = "WAIVED"]
      /\ s \in Conditional /\ SlotOf(i) \in DependsOn[s]
      /\ attempts[i] # None /\ attempts[i].result = "pass"
  BY DEF Waive, Known
<1>2. slot'[s] = "WAIVED" /\ \A t \in Slots \ {s} : slot'[t] = slot[t]
  BY <1>1 DEF TypeOK
<1>3. PICK d \in DependsOn[s] : Says(d, "pass")
  BY <1>1 DEF Says, Consumed
<1>4. Says(d, "pass")'
  <2>1. Grows /\ "pass" \in Verdicts
    BY <1>1 DEF Grows, Verdicts
  <2> QED BY <1>3, <2>1, SaysKept
<1>5. Grant(s)'
  BY <1>1, <1>2, <1>3, <1>4 DEF Grant
<1> QED BY <1>1, <1>2, <1>5, RestReview

(* The latest attempt of a slot that has one. *)
LEMMA LatestIn ==
    ASSUME NEW s, Consumed(s) # {}
    PROVE  Latest(s) \in Consumed(s)
<1>1. PICK n \in Nat : n = MaxPermits
  BY PhaseBudgetAssumption DEF PhaseBudgetAssumption
<1>2. Consumed(s) \subseteq 1..n
  BY <1>1 DEF Consumed, Permit
<1> DEFINE C == Consumed(s)
           U == {m \in Nat : \A k \in C : k <= m}
<1> HIDE DEF C
<1>3. C \subseteq 1..n /\ C # {}
  BY <1>2 DEF C
<1>4. n \in U /\ U \subseteq Nat
  BY <1>3
<1>5. PICK m \in U : \A y \in U : ~ (<<y, m>> \in OpToRel(<, Nat))
  BY <1>4, NatLessThanWellFounded, WFMin, Zenon
<1>6. m \in Nat /\ \A k \in C : k \in Nat /\ k <= m /\ 1 <= k
  BY <1>3, <1>5 DEF OpToRel
<1>7. \A y \in U : ~(y < m)
  BY <1>4, <1>5 DEF OpToRel
<1>8. m \in C
  <2> SUFFICES ASSUME m \notin C PROVE FALSE
    OBVIOUS
  <2>1. \A k \in C : k <= m - 1
    BY <1>6
  <2>2. m - 1 \in Nat
    <3>1. PICK k \in C : TRUE
      BY <1>3
    <3>2. m \in Nat /\ k \in Nat /\ k <= m /\ 1 <= k
      BY <1>6
    <3> QED BY <3>2
  <2>3. m - 1 \in U
    BY <2>1, <2>2
  <2> QED BY <1>6, <1>7, <2>3
<1>9. m \in Consumed(s) /\ \A k \in Consumed(s) : k <= m
  BY <1>6, <1>8 DEF C
<1> QED BY <1>9 DEF Latest

LEMMA PriorNamed ==
    ASSUME NEW s, NEW q \in Priors(s), q # None
    PROVE  Names(s, q)
<1>1. CASE Consumed(s) # {}
  <2>1. q = Latest(s)
    BY <1>1 DEF Priors
  <2> QED BY <1>1, <2>1, LatestIn DEF Names, Consumed
<1>2. CASE Consumed(s) = {}
  BY <1>2 DEF Priors, Names
<1> QED BY <1>1, <1>2

LEMMA PrepareReview ==
    ASSUME TypeOK, Numbering, ReviewInv,
           NEW s \in Slots, NEW p \in Profiles, NEW q \in Permit \cup {None}, Prepare(s, p, q)
    PROVE  ReviewInv'
<1>1. \E i \in Permit : \E r : permits' = [permits EXCEPT ![i] = r] /\ r.slot = s /\ r.prior = q
  <2>1. PICK i \in Permit :
          permits' = [permits EXCEPT ![i] = [slot |-> s, profile |-> p, prior |-> q,
                          status |-> "PREPARED", revision |-> revision, world |-> world]]
    BY DEF Prepare
  <2>2. PICK r : r = [slot |-> s, profile |-> p, prior |-> q,
                      status |-> "PREPARED", revision |-> revision, world |-> world]
    OBVIOUS
  <2>3. permits' = [permits EXCEPT ![i] = r] /\ r.slot = s /\ r.prior = q
    BY <2>1, <2>2
  <2> QED BY <2>3
<1>2. PICK i \in Permit : \E r : permits' = [permits EXCEPT ![i] = r] /\ r.slot = s /\ r.prior = q
  BY <1>1
<1>3. PICK r : permits' = [permits EXCEPT ![i] = r] /\ r.slot = s /\ r.prior = q
  BY <1>2
<1>4. UNCHANGED <<attempts, slot, plan>> /\ s \in plan /\ q \in Priors(s)
  BY DEF Prepare
<1>5. permits'[i] = r /\ \A k \in Permit \ {i} : permits'[k] = permits[k]
  BY <1>3 DEF TypeOK
<1>6. \A k \in Permit : attempts[k] # None => permits'[k] = permits[k]
  BY PrepareNumbering
<1>7. Grows
  BY <1>4, <1>6 DEF Grows
<1>8. Truthful'
  BY <1>4, <1>6 DEF ReviewInv, Truthful
<1>9. Granted'
  BY <1>4, <1>7, GrantKept DEF ReviewInv, Granted
<1>10. ASSUME NEW k \in Permit, permits'[k] # None
      PROVE  SlotOf(k)' \in plan'
             /\ (permits[k].prior # None => Names(SlotOf(k), permits[k].prior))'
  <2>1. PICK t, z : t = permits'[k].slot /\ z = permits'[k].prior
    OBVIOUS
  <2>2. CASE k = i
    <3>1. t = s /\ z = q
      BY <1>3, <1>5, <2>1, <2>2
    <3>2. z # None => Names(t, z)
      BY <1>4, <3>1, PriorNamed
    <3> QED BY <1>4, <1>7, <2>1, <3>1, <3>2, NamesKept DEF SlotOf
  <2>3. CASE k # i
    <3>1. permits'[k] = permits[k] /\ permits[k] # None
      BY <1>5, <1>10, <2>3
    <3>2. t \in plan /\ (z # None => Names(t, z))
      BY <2>1, <3>1 DEF ReviewInv, Named, SlotOf
    <3> QED BY <1>4, <1>7, <2>1, <3>2, NamesKept DEF SlotOf
  <2> QED BY <2>2, <2>3
<1>11. Named'
  BY <1>10 DEF Named
<1> QED BY <1>8, <1>9, <1>11 DEF ReviewInv

LEMMA RevokeReview ==
    ASSUME TypeOK, Used, ReviewInv, NEW i \in Permit, Revoke(i)
    PROVE  ReviewInv'
<1>1. /\ UNCHANGED <<attempts, slot, plan>> /\ permits[i] # None /\ attempts[i] = None
      /\ permits' = [permits EXCEPT ![i].status = "REVOKED"]
  BY DEF Revoke, Used
<1>2. \A k \in Permit : permits'[k] # None =>
          /\ permits[k] # None
          /\ permits'[k].slot = permits[k].slot /\ permits'[k].prior = permits[k].prior
  BY <1>1 DEF TypeOK, PermitRecord
<1>3. \A k \in Permit : attempts[k] # None => permits'[k] = permits[k]
  BY <1>1 DEF TypeOK
<1>4. Grows
  BY <1>1, <1>3 DEF Grows
<1>5. Truthful'
  BY <1>1, <1>3 DEF ReviewInv, Truthful
<1>6. Named'
  BY <1>2, <1>4, NamedKept DEF ReviewInv
<1>7. Granted'
  BY <1>1, <1>4, GrantKept DEF ReviewInv, Granted
<1> QED BY <1>5, <1>6, <1>7 DEF ReviewInv

LEMMA ReserveReview ==
    ASSUME TypeOK, Used, ReviewInv, NEW i \in Permit, Reserve(i)
    PROVE  ReviewInv'
<1>1. /\ permits[i] # None /\ permits[i].status = "PREPARED" /\ attempts[i] = None
      /\ permits' = [permits EXCEPT ![i].status = "CONSUMED"]
      /\ attempts' = [attempts EXCEPT ![i] = NewAttempt]
      /\ slot' = [slot EXCEPT ![SlotOf(i)] = "RESERVED"]
      /\ plan' = plan
  BY DEF Reserve, Used
<1>2. \A k \in Permit : permits'[k] # None =>
          /\ permits[k] # None
          /\ permits'[k].slot = permits[k].slot /\ permits'[k].prior = permits[k].prior
  <2>1. ASSUME NEW k \in Permit, k = i
        PROVE  permits'[k].slot = permits[k].slot /\ permits'[k].prior = permits[k].prior
    <3>1. permits[i] \in PermitRecord
      BY <1>1 DEF TypeOK
    <3> QED BY <1>1, <2>1, <3>1 DEF TypeOK, PermitRecord
  <2>2. ASSUME NEW k \in Permit, k # i PROVE permits'[k] = permits[k]
    BY <1>1, <2>2 DEF TypeOK
  <2> QED BY <1>1, <2>1, <2>2
<1>3. attempts'[i] = NewAttempt /\ \A k \in Permit \ {i} : attempts'[k] = attempts[k] /\ permits'[k] = permits[k]
  BY <1>1 DEF TypeOK
<1>4. \A k \in Permit : attempts[k] # None => k # i
  BY <1>1
<1>5. Grows
  BY <1>1, <1>3, <1>4 DEF Grows
<1>6. Truthful'
  <2>1. Faithful(NewAttempt) /\ NewAttempt.supersedes = {}
    BY NoneAssumption DEF NewAttempt, Faithful, NoneAssumption, Verdicts
  <2>2. ASSUME NEW k \in Permit, k # i, attempts'[k] # None
        PROVE  Faithful(attempts'[k]) /\ attempts'[k].supersedes \subseteq {permits'[k].prior} \ {None}
    BY <1>3, <2>2 DEF ReviewInv, Truthful
  <2> QED BY <1>3, <2>1, <2>2 DEF Truthful, Faithful
<1>7. Named'
  <2>1. \A k \in Permit : permits'[k] # None => permits[k] # None
    BY <1>2
  <2> QED BY <1>2, <1>5, NamedKept DEF ReviewInv
<1>8. Granted'
  <2>1. \A s \in Slots : slot'[s] \in {slot[s], "RESERVED"}
    BY <1>1 DEF TypeOK
  <2> QED BY <1>5, <2>1, GrantKept DEF ReviewInv, Granted
<1> QED BY <1>6, <1>7, <1>8 DEF ReviewInv

(* One attempt changes, and keeps its result. *)
LEMMA OneReview ==
    ASSUME TypeOK, ReviewInv, NEW i \in Permit, attempts[i] # None, NEW b \in AttemptRecord,
           attempts' = [attempts EXCEPT ![i] = b], UNCHANGED <<permits, plan>>,
           attempts[i].result # None => b.result = attempts[i].result,
           Faithful(b), b.supersedes \subseteq {permits[i].prior} \ {None}
    PROVE  Grows /\ Truthful' /\ Named'
<1>1. attempts'[i] = b /\ b # None /\ \A k \in Permit \ {i} : attempts'[k] = attempts[k]
  BY NoneAssumption DEF TypeOK, NoneAssumption
<1>2. Grows
  BY <1>1 DEF Grows
<1>3. Truthful'
  <2>1. ASSUME NEW k \in Permit, attempts'[k] # None
        PROVE  Faithful(attempts'[k]) /\ attempts'[k].supersedes \subseteq {permits'[k].prior} \ {None}
    <3>1. CASE k = i
      BY <1>1, <3>1
    <3>2. CASE k # i
      BY <1>1, <2>1, <3>2 DEF ReviewInv, Truthful
    <3> QED BY <3>1, <3>2
  <2> QED BY <2>1 DEF Truthful, Faithful
<1>4. Named'
  BY <1>2, NamedKept DEF ReviewInv
<1> QED BY <1>2, <1>3, <1>4

LEMMA ProjectedFaithful ==
    ASSUME NEW i \in Permit, attempts[i] \in AttemptRecord, Faithful(attempts[i]),
           attempts[i].state = "NOT_STARTED_RELEASED" => attempts[i].receipt = "not-started",
           NEW a \in AttemptRecord, Adds(i, a)
    PROVE  /\ Faithful(Projected(a))
           /\ Projected(a).result = attempts[i].result
           /\ Projected(a).supersedes = attempts[i].supersedes
<1>1. PICK o : o = attempts[i]
  OBVIOUS
<1>2. None \notin {"UNKNOWN", "FAILED", "created", "not-started"} /\ None \notin Verdicts
  BY NoneAssumption DEF NoneAssumption
<1>3. /\ a.state = o.state /\ a.outcome = o.outcome
      /\ a.result = o.result /\ a.supersedes = o.supersedes
      /\ o.receipt # None => a.receipt = o.receipt
      /\ o.linked => a.linked
      /\ o.stopped # None => a.stopped = o.stopped
      /\ o.final # None => a.final = o.final
      /\ ~InFlight(o) => a.context = o.context
  BY <1>1 DEF Adds
<1>4. Faithful(o) /\ o \in AttemptRecord
  BY <1>1
<1>5. Faithful(a)
  <2>1. a.result # None => ~InFlight(o) /\ o.state = "COMPLETED"
    BY <1>3, <1>4 DEF Faithful, InFlight
  <2>2. a.state = "COMPLETED" => a.receipt = "created" /\ a.linked /\ a.stopped # None /\ a.outcome = a.stopped
    BY <1>2, <1>3, <1>4 DEF Faithful
  <2>3. a.result \in {"pass", "blocking"} => a.context = "DELIVERED" /\ a.final = a.result /\ a.stopped = "UNKNOWN"
    BY <1>2, <1>3, <1>4, <2>1 DEF Faithful, Verdicts
  <2> QED BY <1>3, <1>4, <2>1, <2>2, <2>3 DEF Faithful
<1>6. CASE a.receipt # "created" \/ ~a.linked
  BY <1>1, <1>3, <1>5, <1>6 DEF Projected
<1>7. CASE a.receipt = "created" /\ a.linked /\ a.stopped # None
  <2>1. PICK b : b = [a EXCEPT !.state = "COMPLETED", !.outcome = a.stopped]
    OBVIOUS
  <2>2. /\ b.state = "COMPLETED" /\ b.outcome = a.stopped /\ b.stopped = a.stopped
        /\ b.receipt = a.receipt /\ b.linked = a.linked /\ b.result = a.result
        /\ b.context = a.context /\ b.final = a.final /\ b.supersedes = a.supersedes
    BY <2>1 DEF AttemptRecord
  <2>3. Faithful(b)
    BY <1>5, <1>7, <2>2 DEF Faithful
  <2>4. Projected(a) = b
    BY <1>7, <2>1 DEF Projected
  <2> QED BY <1>1, <1>3, <2>2, <2>3, <2>4
<1>8. CASE a.receipt = "created" /\ a.linked /\ a.stopped = None
  <2>1. a.state # "COMPLETED" /\ a.result = None
    BY <1>5, <1>8 DEF Faithful
  <2>2. PICK b : b = [a EXCEPT !.state = "STARTED"]
    OBVIOUS
  <2>3. /\ b.state = "STARTED" /\ b.result = None /\ b.supersedes = a.supersedes
    BY <2>1, <2>2 DEF AttemptRecord
  <2>4. Faithful(b)
    BY <1>2, <1>5, <2>1, <2>3 DEF Faithful, Verdicts
  <2>5. Projected(a) \in {a, b}
    BY <1>8, <2>2 DEF Projected
  <2> QED BY <1>1, <1>3, <1>5, <2>1, <2>3, <2>4, <2>5
<1> QED BY <1>6, <1>7, <1>8

LEMMA ReportReview ==
    ASSUME TypeOK, Used, Sound, ReviewInv, NEW i \in Permit, attempts[i] # None, Reported(i)
    PROVE  ReviewInv'
<1>1. PICK a \in AttemptRecord : Adds(i, a) /\ Report(i, a)
  BY DEF Reported
<1>2. PICK b : b = Projected(a)
  OBVIOUS
<1>3. attempts[i] \in AttemptRecord /\ b \in AttemptRecord
  BY <1>2, ProjectedType DEF TypeOK
<1>4. /\ Faithful(b) /\ b.result = attempts[i].result /\ b.supersedes = attempts[i].supersedes
  BY <1>1, <1>2, <1>3, ProjectedFaithful DEF ReviewInv, Truthful, Sound
<1>5. attempts' = [attempts EXCEPT ![i] = b] /\ UNCHANGED <<permits, plan>>
  BY <1>1, <1>2 DEF Report
<1>6. b.supersedes \subseteq {permits[i].prior} \ {None}
  BY <1>4 DEF ReviewInv, Truthful
<1>7. Grows /\ Truthful' /\ Named'
  BY <1>3, <1>4, <1>5, <1>6, OneReview
<1>8. \A s \in Slots : slot'[s] \in {slot[s], "AWAITING_RESULT"}
  BY <1>1 DEF Report, TypeOK
<1>9. Granted'
  BY <1>7, <1>8, GrantKept DEF ReviewInv, Granted
<1> QED BY <1>7, <1>9 DEF ReviewInv

LEMMA ReleaseReview ==
    ASSUME TypeOK, Used, ReviewInv, NEW i \in Permit, Release(i)
    PROVE  ReviewInv'
<1>1. PICK b : b = [attempts[i] EXCEPT !.state = "NOT_STARTED_RELEASED"]
  OBVIOUS
<1>2. /\ attempts[i] # None /\ attempts[i].state = "RESERVED"
      /\ attempts' = [attempts EXCEPT ![i] = b] /\ UNCHANGED <<permits, plan>>
      /\ slot' = [slot EXCEPT ![SlotOf(i)] = "PENDING"]
  BY <1>1 DEF Release, Known
<1>3. attempts[i] \in AttemptRecord
  BY <1>2 DEF TypeOK
<1>4. /\ b \in AttemptRecord /\ b.state = "NOT_STARTED_RELEASED"
      /\ b.result = attempts[i].result /\ b.supersedes = attempts[i].supersedes
  BY <1>1, <1>3 DEF AttemptRecord
<1>5. /\ attempts[i].result = None /\ attempts[i].supersedes \subseteq {permits[i].prior} \ {None}
      /\ attempts[i].supersedes # {} => attempts[i].result = "pass"
  BY <1>2 DEF ReviewInv, Truthful, Faithful
<1>6. Faithful(b)
  BY <1>4, <1>5, NoneAssumption DEF Faithful, NoneAssumption, Verdicts
<1>7. Grows /\ Truthful' /\ Named'
  BY <1>2, <1>4, <1>5, <1>6, OneReview
<1>8. \A s \in Slots : slot'[s] \in {slot[s], "PENDING"}
  BY <1>2 DEF TypeOK
<1>9. Granted'
  BY <1>7, <1>8, GrantKept DEF ReviewInv, Granted
<1> QED BY <1>7, <1>9 DEF ReviewInv

LEMMA AcceptReview ==
    ASSUME TypeOK, Used, ReviewInv, NEW i \in Permit, NEW v \in Verdicts, AcceptResult(i, v)
    PROVE  ReviewInv'
<1>1. PICK t, b : t = SlotOf(i) /\ b = [attempts[i] EXCEPT !.result = v, !.supersedes = Supersedes(i, v)]
  OBVIOUS
<1>2. /\ attempts[i] # None /\ attempts[i].state = "COMPLETED" /\ attempts[i].result = None
      /\ Acceptable(attempts[i], v)
      /\ attempts' = [attempts EXCEPT ![i] = b] /\ UNCHANGED <<permits, plan>>
      /\ slot' = [slot EXCEPT ![t] = IF v = "incomplete" \/ (v = "blocking" /\ Phase[t] # "post")
                                     THEN "PENDING" ELSE "SATISFIED"]
  BY <1>1 DEF AcceptResult, Known
<1>3. attempts[i] \in AttemptRecord /\ t \in Slots
  BY <1>1, <1>2, SlotOfType DEF TypeOK, Used
<1>4. /\ Supersedes(i, v) \subseteq {permits[i].prior} \ {None}
      /\ Supersedes(i, v) # {} => v = "pass"
      /\ Supersedes(i, v) \in SUBSET Permit
  <2>1. permits[i].prior \in Permit \cup {None}
    BY <1>2 DEF Used, TypeOK, PermitRecord
  <2> QED BY <2>1 DEF Supersedes
<1>5. /\ b \in AttemptRecord /\ b.result = v /\ b.supersedes = Supersedes(i, v)
      /\ b.state = attempts[i].state /\ b.receipt = attempts[i].receipt /\ b.linked = attempts[i].linked
      /\ b.stopped = attempts[i].stopped /\ b.outcome = attempts[i].outcome
      /\ b.context = attempts[i].context /\ b.final = attempts[i].final
  BY <1>1, <1>3, <1>4 DEF AttemptRecord
<1>6. Faithful(b)
  <2>1. Faithful(attempts[i])
    BY <1>2 DEF ReviewInv, Truthful
  <2>2. attempts[i].stopped \in {None, "UNKNOWN", "FAILED"}
    BY <1>3 DEF AttemptRecord
  <2>3. v \in {"pass", "blocking"} =>
            b.context = "DELIVERED" /\ b.final = v /\ b.stopped = "UNKNOWN"
    BY <1>2, <1>5, <2>1, <2>2 DEF Faithful, Acceptable, Failed
  <2> QED BY <1>2, <1>4, <1>5, <2>1, <2>3 DEF Faithful
<1>7. Grows /\ Truthful' /\ Named'
  BY <1>2, <1>4, <1>5, <1>6, OneReview
<1>8. Says(t, v)'
  <2>1. attempts'[i] = b /\ attempts'[i] # None
    BY <1>2, <1>5, NoneAssumption DEF TypeOK, NoneAssumption
  <2>2. attempts'[i].result = v /\ SlotOf(i)' = t
    BY <1>1, <1>2, <1>5, <2>1 DEF SlotOf
  <2> QED BY <2>1, <2>2 DEF Says, Consumed
<1>9. ASSUME NEW s \in Slots PROVE Grant(s)'
  <2>1. CASE s = t /\ v \in {"pass", "blocking"}
    <3>1. slot'[s] \in {"PENDING", "SATISFIED"}
      BY <1>2, <1>3, <2>1 DEF TypeOK
    <3> QED BY <1>8, <2>1, <3>1 DEF Grant
  <2>2. CASE s # t \/ v = "incomplete"
    <3>1. slot'[s] \in {slot[s], "PENDING"}
      BY <1>2, <1>3, <2>2 DEF TypeOK
    <3> QED BY <1>7, <3>1, GrantKept DEF ReviewInv, Granted
  <2> QED BY <2>1, <2>2 DEF Verdicts
<1>10. Granted'
  BY <1>9 DEF Granted
<1> QED BY <1>7, <1>10 DEF ReviewInv

LEMMA NextReview ==
    ASSUME HeldInv, ReviewInv, Next
    PROVE  ReviewInv'
<1>1. TypeOK /\ Used /\ Sound /\ Numbering
  BY DEF HeldInv, Numbering
<1>2. CASE \E s \in Slots, p \in Profiles, prior \in Permit \cup {None} : Prepare(s, p, prior)
  BY <1>1, <1>2, PrepareReview
<1>3. CASE \E s \in Slots : Inline(s) \/ \E i \in Permit : Waive(s, i)
  BY <1>1, <1>3, InlineReview, WaiveReview
<1>4. CASE \E s \in Slots : RevisePlan(s)
  <2>1. UNCHANGED <<attempts, permits, slot>> /\ plan \subseteq plan'
    BY <1>4 DEF RevisePlan
  <2> QED BY <1>1, <2>1, RestReview
<1>5. CASE \E i \in Permit : Revoke(i) \/ Reserve(i)
  BY <1>1, <1>5, RevokeReview, ReserveReview
<1>6. CASE \E i \in Permit : HookStep(i)
  BY <1>1, <1>6, HookReports, ReportReview
<1>7. CASE \E i \in Permit : Release(i) \/ \E v \in Verdicts : AcceptResult(i, v)
  BY <1>1, <1>7, ReleaseReview, AcceptReview
<1>8. CASE AddEvidence \/ WorldChanges \/ \E o \in {"PASS", "FAILED"} : Close(o)
  <2>1. UNCHANGED <<attempts, permits, slot, plan>>
    BY <1>8 DEF AddEvidence, WorldChanges, Close
  <2> QED BY <1>1, <2>1, RestReview
<1> QED BY <1>2, <1>3, <1>4, <1>5, <1>6, <1>7, <1>8 DEF Next, HookStep

(* What was said is a clean review. *)
LEMMA SaidClean ==
    ASSUME ReviewInv, NEW t, NEW v \in {"pass", "blocking"}, Says(t, v)
    PROVE  \E i \in Consumed(t) :
              /\ attempts[i].result = v
              /\ attempts[i].receipt = "created" /\ attempts[i].linked
              /\ attempts[i].context = "DELIVERED" /\ attempts[i].final = attempts[i].result
              /\ attempts[i].stopped = "UNKNOWN"
<1>1. PICK i \in Consumed(t) : attempts[i].result = v
  BY DEF Says
<1>2. Faithful(attempts[i])
  BY <1>1 DEF ReviewInv, Truthful, Consumed
<1>3. v # None
  BY NoneAssumption DEF NoneAssumption, Verdicts
<1> QED BY <1>1, <1>2, <1>3 DEF Faithful

(* What found a blocker, or nothing, was made good: the slot passed later, *)
(* or a repair did that is for it.                                         *)
LEMMA MadeGood ==
    ASSUME TypeOK, Used, ReviewInv, Unresolved = {}, NEW i \in Permit, attempts[i] # None,
           attempts[i].result \in {"blocking", "incomplete"}
    PROVE  \/ Says(SlotOf(i), "pass")
           \/ /\ Says(SlotOf(i), "blocking")
              /\ \E r \in plan : Phase[r] = "repair" /\ SlotOf(i) \in DependsOn[r] /\ Says(r, "pass")
<1>1. i \in Superseded
  BY NoneAssumption DEF Unresolved, Results, NoneAssumption, Verdicts
<1>2. PICK j \in Results : i \in attempts[j].supersedes
  BY <1>1 DEF Superseded
<1>3. j \in Permit /\ attempts[j] # None /\ permits[j] # None
  BY <1>2 DEF Results, Used
<1>4. attempts[j].result = "pass" /\ i = permits[j].prior /\ i # None
  BY <1>2, <1>3 DEF ReviewInv, Truthful, Faithful
<1>5. SlotOf(j) \in plan /\ Names(SlotOf(j), i)
  BY <1>3, <1>4 DEF ReviewInv, Named
<1>6. Says(SlotOf(j), "pass")
  BY <1>3, <1>4 DEF Says, Consumed
<1>7. CASE SlotOf(i) = SlotOf(j)
  BY <1>6, <1>7
<1>8. CASE SlotOf(i) # SlotOf(j)
  <2>1. /\ Phase[SlotOf(j)] = "repair" /\ SlotOf(i) \in DependsOn[SlotOf(j)]
        /\ attempts[i].result = "blocking"
    BY <1>5, <1>8 DEF Names
  <2>2. Says(SlotOf(i), "blocking")
    BY <2>1 DEF Says, Consumed
  <2> QED BY <1>5, <1>6, <2>1, <2>2
<1> QED BY <1>7, <1>8

LEMMA ClosingReviewed ==
    ASSUME HeldInv, ReviewInv, Unresolved = {}, NEW s \in plan, Settled(s)
    PROVE  Reviewed(s)
<1>1. TypeOK /\ Used /\ s \in Slots
  BY DEF HeldInv, Numbering, TypeOK
<1>2. Says(s, "pass") => Reviewed(s)
  BY SaidClean DEF Reviewed
<1>3. Says(s, "blocking") /\ (\E r \in plan : Phase[r] = "repair" /\ s \in DependsOn[r] /\ Says(r, "pass"))
        => Reviewed(s)
  <2>1. ASSUME Says(s, "blocking"),
               NEW r \in plan, Phase[r] = "repair", s \in DependsOn[r], Says(r, "pass")
        PROVE  Reviewed(s)
    BY <2>1, SaidClean DEF Reviewed
  <2> QED BY <2>1
<1>4. ASSUME NEW i \in Consumed(s), attempts[i].result \in {"blocking", "incomplete"}
      PROVE  Reviewed(s)
  <2>1. i \in Permit /\ attempts[i] # None /\ SlotOf(i) = s
    BY <1>4 DEF Consumed
  <2> QED BY <1>1, <1>2, <1>3, <1>4, <2>1, MadeGood
<1>5. CASE slot[s] = "WAIVED"
  <2>1. s \in Conditional /\ \E d \in DependsOn[s] : Says(d, "pass")
    BY <1>1, <1>5 DEF ReviewInv, Granted, Grant
  <2> QED BY <1>5, <2>1, SaidClean DEF Reviewed
<1>6. CASE slot[s] = "SATISFIED"
  <2>1. s \in Inlineable \/ Says(s, "pass") \/ Says(s, "blocking")
    BY <1>1, <1>6 DEF ReviewInv, Granted, Grant
  <2>2. CASE Says(s, "blocking")
    BY <1>4, <2>2 DEF Says
  <2>3. CASE s \in Inlineable /\ \A i \in Consumed(s) : attempts[i].state = "NOT_STARTED_RELEASED"
    BY <2>3 DEF Reviewed
  <2>4. CASE \E i \in Consumed(s) : attempts[i].state # "NOT_STARTED_RELEASED"
    <3>1. PICK i \in Consumed(s) : attempts[i].state # "NOT_STARTED_RELEASED"
      BY <2>4
    <3>2. Flying(s) = {} /\ Silent(s) = {}
      BY <1>1, <1>6 DEF HeldInv, SlotHeld
    <3>3. attempts[i] \in AttemptRecord /\ attempts[i] # None
      BY <1>1, <3>1 DEF Consumed, TypeOK
    <3>4. attempts[i].result # None
      BY <3>1, <3>2, <3>3 DEF Flying, Silent, InFlight, AttemptRecord
    <3>5. attempts[i].result \in {"pass", "blocking", "incomplete"}
      BY <3>3, <3>4 DEF AttemptRecord, Verdicts
    <3>6. attempts[i].result = "pass" => Says(s, "pass")
      BY <3>1 DEF Says
    <3> QED BY <1>2, <1>4, <3>1, <3>5, <3>6
  <2> QED BY <1>2, <2>1, <2>2, <2>3, <2>4
<1> QED BY <1>5, <1>6 DEF Settled

(* Nothing moves in a closed root but the world around it. *)
LEMMA ClosedStays ==
    ASSUME Closed, Next
    PROVE  UNCHANGED <<plan, slot, permits, attempts, outcome>>
<1>1. WorldChanges
  BY DEF Next, Known, Prepare, Inline, RevisePlan, Waive, Revoke, Reserve, Release, Link, ObserveStart,
         Deliver, Deny, Receipt, ObserveStop, Attest, AcceptResult, Close, AddEvidence
<1> QED BY <1>1 DEF WorldChanges

LEMMA SameReviewed ==
    ASSUME UNCHANGED <<plan, slot, permits, attempts>>, NEW s, Reviewed(s)
    PROVE  Reviewed(s)'
<1>1. \A t : Consumed(t)' = Consumed(t)
  BY DEF Consumed, SlotOf
<1> QED BY <1>1 DEF Reviewed

LEMMA NextPass ==
    ASSUME HeldInv, ReviewInv, PassMeansReviewed, Next
    PROVE  PassMeansReviewed'
<1>1. CASE Closed
  BY <1>1, ClosedStays, SameReviewed DEF PassMeansReviewed
<1>2. CASE ~Closed /\ \E o \in {"PASS", "FAILED"} : Close(o)
  <2>1. PICK o \in {"PASS", "FAILED"} : Close(o)
    BY <1>2
  <2>2. UNCHANGED <<plan, slot, permits, attempts>> /\ outcome' = o
    BY <2>1 DEF Close
  <2>3. ASSUME o = "PASS", NEW s \in plan PROVE Reviewed(s)
    BY <2>1, <2>3, ClosingReviewed DEF Close
  <2> QED BY <2>2, <2>3, SameReviewed DEF PassMeansReviewed
<1>3. CASE ~Closed /\ ~(\E o \in {"PASS", "FAILED"} : Close(o))
  <2>1. outcome' = outcome
    BY <1>3 DEF Next, Prepare, Inline, RevisePlan, Waive, Revoke, Reserve, Release, Link, ObserveStart,
         Deliver, Deny, Receipt, ObserveStop, Attest, AcceptResult, Report, AddEvidence, WorldChanges
  <2> QED BY <1>3, <2>1, NoneAssumption DEF Closed, PassMeansReviewed, NoneAssumption
<1> QED BY <1>1, <1>2, <1>3

(* A root closed as PASS was reviewed, for every plan and budget: whatever *)
(* was retried, released, revoked, waived or repaired on the way, each of  *)
(* its slots ends in a review that was delivered, attested and stopped     *)
(* without failing, in the parent's own where that is allowed, or in a     *)
(* blocker whose repair passed.                                            *)
THEOREM PassIsReviewed == Spec => []PassMeansReviewed
<1>1. Init => ReviewInv /\ PassMeansReviewed
  BY NoneAssumption DEF Init, ReviewInv, Truthful, Named, Granted, Grant, PassMeansReviewed, NoneAssumption
<1>2. HeldInv /\ ReviewInv /\ PassMeansReviewed /\ [Next]_vars => (ReviewInv /\ PassMeansReviewed)'
  <2>1. ASSUME HeldInv, ReviewInv, PassMeansReviewed, UNCHANGED vars
        PROVE  ReviewInv' /\ PassMeansReviewed'
    <3>1. ReviewInv'
      BY <2>1, RestReview DEF vars, HeldInv, Numbering
    <3>2. PassMeansReviewed'
      BY <2>1, SameReviewed DEF vars, PassMeansReviewed
    <3> QED BY <3>1, <3>2
  <2> QED BY <2>1, NextReview, NextPass
<1> QED BY <1>1, <1>2, HeldAlways, PTL DEF Spec

-------------------------------------------------------------------------------
(* The installer: types of what InstallerType leaves open.                 *)

Forward == {"target", "write", "record", "base", "activate", "manifest"}
Backward == {"leave", "undo", "undone"}
Rolling == {"restore", "putback", "end"}
Place == 1 .. Len(Order)

Process == [phase : Forward \cup Backward \cup Rolling \cup {"backup", "begin", "commit", "finish", "rollback"},
            at : 0 .. Len(Order) + 1, j : Journal, records : SUBSET Target, undo : 0..MaxTxn \cup {Nil},
            force : BOOLEAN, recovering : BOOLEAN, error : BOOLEAN]

Backup == [files : [Target -> Content], records : SUBSET Target, manifest : BOOLEAN]
Ghost == [touched : SUBSET (Target \ {BaseState, State}), waived : SUBSET (0..MaxVisits),
          skipped : BOOLEAN, unrecorded : BOOLEAN]

Typed ==
    /\ file \in [Target -> Content] /\ host \in HostState /\ txn \in 0..MaxTxn
    /\ backup \in [1..MaxTxn -> Backup]
    /\ live \in Journal \cup {Nil}
    /\ proc \in Process \cup {Idle}
    /\ count \in [visits : 0..MaxVisits, faults : Nat]
    /\ ghost \in Ghost

(* Where a process is tells how far its journal is. *)
Resolved == live = Nil \/ live.stage \in {"PREPARED", "COMMITTED", "ROLLED_BACK"}

Working ==
    /\ live = proc.j /\ live # Nil
    /\ live.records \subseteq proc.records
    /\ proc.phase \in Forward \cup {"rollback"} => live.op = "install"
    /\ proc.phase \in Backward => live.op = "uninstall"
    /\ proc.phase = "backup" => live.stage = "PREPARED" /\ live.records = {}
    /\ proc.phase \in {"begin", "commit"} \cup Forward \cup Backward =>
          /\ live.stage \in {"BACKED_UP", "APPLYING", "ACTIVATING"}
          /\ proc.records = live.records
    /\ proc.phase \in {"rollback"} \cup Rolling => live.stage = "ROLLBACK_STARTED"
    /\ proc.phase = "finish" => live.stage \in {"COMMITTED", "ROLLED_BACK"}
    /\ proc.recovering => proc.phase \in Rolling \cup {"finish"}
    /\ proc.phase \in Rolling => live.op = "install" \/ proc.recovering
    /\ proc.phase \in {"target", "base", "activate"} => proc.at # 0
    /\ proc.phase \in {"base", "activate"} => proc.at - 1 \in Place /\ Order[proc.at - 1] = Payload
    /\ proc.phase \in {"write", "record", "putback", "undone"} => proc.at \in Place /\ Now \in proc.records
    /\ proc.phase \in {"rollback", "leave"} => proc.at = Len(Order)
    /\ proc.phase \in {"undo", "restore"} => proc.at # Len(Order) + 1
    /\ proc.phase = "putback" => Now \notin Merged

Protocol ==
    /\ live # Nil => live.id = txn /\ (live.saved <=> live.stage # "PREPARED")
    /\ proc # Idle => Working

(* What the state file names can be undone, or is being installed.         *)
Revertible(c) == c.block # Nil => /\ c.block \in 1..txn /\ backup[c.block].manifest
                             /\ State \in backup[c.block].records
BeingInstalled ==
    /\ ~Resolved /\ live.op = "install" /\ file[State].block = txn
    /\ State \in live.records /\ State \in backup[txn].records

(* The state files are the package's alone. *)
Plain == \A t \in {State, BaseState} : file[t].user = 0 /\ \A b \in 1..MaxTxn : backup[b].files[t].user = 0
BackupsSound == \A b \in 1..MaxTxn : Revertible(backup[b].files[State])
Unwritten == \A b \in 1..MaxTxn : b > txn \/ (b = txn /\ proc.phase = "backup") => ~backup[b].manifest
Recorded == live # Nil => live.records \subseteq backup[txn].records
VersionSound == Revertible(file[State]) \/ BeingInstalled
Complete == proc # Idle /\ live.op = "install" /\ proc.phase = "commit" => backup[txn].manifest
Undoes ==
    proc # Idle /\ live.op = "uninstall" /\ proc.phase \in Backward \cup {"backup", "begin"} =>
        /\ proc.undo \in 1..txn /\ proc.undo # txn /\ backup[proc.undo].manifest
        /\ proc.phase = "backup" => file[State].block = proc.undo
        /\ proc.phase # "backup" => proc.records = backup[proc.undo].records
NotReached ==
    proc # Idle /\ proc.phase \in {"rollback"} \cup Rolling /\ State \notin proc.records => Revertible(file[State])
GivenBack ==
    proc # Idle /\ proc.phase \in Rolling /\ ~proc.error /\ State \in proc.records =>
        \A i \in Place : Order[i] = State /\ (i > proc.at \/ proc.phase = "end")
                              => file[State] = backup[txn].files[State]

UndoInv ==
    /\ Plain /\ BackupsSound /\ Unwritten /\ Recorded /\ VersionSound
    /\ Complete /\ Undoes /\ NotReached /\ GivenBack

(* What the user wrote is kept when nothing would be lost by losing it.    *)
Kept(u) == \/ u = 0 \/ u \in ghost.waived
           \/ \E b \in 1..txn, t \in Target : backup[b].files[t].user = u

Accounted == \A n \in 1..count.visits : Kept(n) \/ \E t \in Target : file[t].user = n
Secured == proc # Idle /\ proc.phase # "backup" /\ ~proc.recovering => \A t \in Target : Kept(file[t].user)
JournalSecured == live # Nil => \A t \in Target : live.applied[t] # Nil => Kept(live.applied[t].user)
HandSecured == proc.phase = "putback" => Kept(file[Now].user)
Unsaved == \A b \in 1..MaxTxn, t \in Target :
               b > txn \/ (b = txn /\ proc.phase = "backup") => backup[b].files[t].user = 0

KeptInv == Accounted /\ Secured /\ JournalSecured /\ HandSecured /\ Unsaved

(* One version: files of one version, and the host's plugin.               *)
Consistent(f) ==
    /\ \A t \in Target : t \notin ghost.touched /\ t # BaseState => f[t].block = f[State].block
    /\ f[BaseState] = IF HadBase /\ f[State].block = Nil THEN Package(0) ELSE Missing
HostIs(plugin, v) == ~ghost.skipped /\ Payload \notin ghost.touched => plugin = v
Full(b) == {t \in Target : t = BaseState => backup[b].files[t] # Missing}

(* Target t is that of files f. *)
Same(t, f) == IF t = BaseState THEN file[t] = f[t] ELSE t \notin ghost.touched => file[t].block = f[t].block

ManifestsConsistent ==
    \A b \in 1..MaxTxn : backup[b].manifest => Consistent(backup[b].files) /\ backup[b].records = Full(b)
SavedConsistent ==
    live # Nil /\ live.saved =>
        /\ Consistent(backup[txn].files)
        /\ HostIs(live.prev.plugin, backup[txn].files[State].block)
        /\ live.op = "install" => live.records = Full(txn) /\ backup[txn].records = Full(txn)
        /\ live.op = "uninstall" => /\ Target \ {BaseState} \subseteq live.records
                                    /\ backup[txn].files[BaseState] = Missing
        /\ BaseState \notin live.records => file[BaseState] = backup[txn].files[BaseState]
OneSet == proc # Idle => proc.records = live.records
RestConsistent == Resolved => Consistent(file) /\ HostIs(host.plugin, file[State].block)

(* Targets that are installed. *)
Installed(t) == IF t = BaseState THEN file[t] = Missing ELSE t \notin ghost.touched => file[t].block = txn
ForwardInv ==
    proc # Idle /\ live.op = "install" =>
        /\ proc.phase \in {"target", "base", "activate", "write", "record"} =>
              \A i \in Place : i < proc.at \/ (i = proc.at /\ proc.phase = "record") => Installed(Order[i])
        /\ proc.phase \in {"manifest", "commit"} => \A t \in Target : Installed(t)
        /\ proc.phase \in {"target", "write", "record"} =>
              \A i \in Place : Order[i] = Payload /\ i < proc.at => host.plugin = txn
        /\ proc.phase \in {"manifest", "commit"} => host.plugin = txn
BackwardInv ==
    proc # Idle /\ live.op = "uninstall" =>
        /\ proc.phase \in {"undo", "undone"} =>
              /\ host.plugin = Nil \/ ghost.skipped
              /\ \A i \in Place : i > proc.at \/ (i = proc.at /\ proc.phase = "undone")
                                    => Same(Order[i], backup[proc.undo].files)
        /\ proc.phase = "commit" => Consistent(file) /\ HostIs(host.plugin, file[State].block)
RollingInv ==
    proc # Idle /\ proc.phase \in Rolling /\ ~proc.error =>
        /\ \A i \in Place : i > proc.at \/ proc.phase = "end" => Same(Order[i], backup[txn].files)
        /\ proc.phase = "end" => HostIs(host.plugin, backup[txn].files[State].block)

Unmixed ==
    /\ ManifestsConsistent /\ SavedConsistent /\ OneSet /\ RestConsistent
    /\ ForwardInv /\ BackwardInv /\ RollingInv

OneInv == ghost.unrecorded \/ Unmixed

-------------------------------------------------------------------------------
(* Lemmas.                                                                 *)

LEMMA Places ==
    /\ Len(Order) \in Nat
    /\ \A i \in Place : Order[i] \in Target
    /\ \A t \in Target : \E i \in Place : Order[i] = t
    /\ \A i, k \in Place : Order[i] = Order[k] => i = k
    /\ Payload \in Target /\ BaseState \in Target /\ State \in Target
    /\ Payload \notin Merged /\ BaseState \notin Merged /\ State \notin Merged
    /\ Payload # State /\ BaseState # State /\ Payload # BaseState
    /\ MaxTxn \in Nat /\ MaxVisits \in Nat
<1>1. Order \in Seq(Target)
  BY InstallerAssumption DEF InstallerAssumption
<1>2. Len(Order) \in Nat
  BY <1>1
<1> QED BY <1>2, InstallerAssumption DEF InstallerAssumption, Place, Target

LEMMA Nothing ==
    Missing \in Content /\ Missing.block = Nil /\ Missing.user = 0 /\ Nil \notin Nat
    /\ \A n \in 0..MaxTxn : Package(n) \in Content /\ Package(n).block = n /\ Package(n).user = 0
                            /\ Package(n) # Missing
BY Places, NilAssumption DEF NilAssumption, Missing, Package, Content

LEMMA Running ==
    ASSUME Typed
    PROVE  /\ proc = Idle <=> At("none")
           /\ proc # Idle => proc \in Process
           /\ live # Nil => live \in Journal
BY DEF Typed, At, Idle, Process, Forward, Backward, Rolling

(* The process goes on; its journal is j in memory and on disk. *)
Moved(phase, at, j) ==
    /\ live' = j /\ live' # Nil /\ proc' \in Process /\ proc' # Idle
    /\ proc'.phase = phase /\ proc'.at = at /\ proc'.j = j
    /\ proc'.records = proc.records /\ proc'.undo = proc.undo /\ proc'.force = proc.force
    /\ proc'.recovering = proc.recovering /\ proc'.error = proc.error

LEMMA GotoIs ==
    ASSUME Typed, Protocol, proc # Idle,
           NEW phase \in Forward \cup Backward \cup Rolling \cup {"backup", "begin", "commit", "finish", "rollback"},
           NEW at \in 0 .. Len(Order) + 1, Goto(phase, at)
    PROVE  Moved(phase, at, live)
<1>1. proc \in Process /\ live = proc.j /\ live # Nil
  BY Running DEF Protocol, Working
<1>2. proc' = [proc EXCEPT !.phase = phase, !.at = at] /\ live' = live
  BY DEF Goto
<1>3. proc' \in Process
  BY <1>1, <1>2 DEF Process
<1>4. proc' # Idle
  BY <1>3 DEF Process, Idle, Forward, Backward, Rolling
<1> QED BY <1>1, <1>2, <1>3, <1>4 DEF Moved, Process

LEMMA WriteIs ==
    ASSUME Typed, Protocol, proc # Idle,
           NEW phase \in Forward \cup Backward \cup Rolling \cup {"backup", "begin", "commit", "finish", "rollback"},
           NEW at \in 0 .. Len(Order) + 1, NEW j \in Journal, Write(j, phase, at)
    PROVE  Moved(phase, at, j)
<1>1. proc \in Process
  BY Running
<1>2. proc' = [proc EXCEPT !.j = j, !.phase = phase, !.at = at] /\ live' = j
  BY DEF Write
<1>3. proc' \in Process
  BY <1>1, <1>2 DEF Process
<1>4. proc' # Idle
  BY <1>3 DEF Process, Idle, Forward, Backward, Rolling
<1>5. j # Nil
  BY NilAssumption DEF NilAssumption
<1> QED BY <1>1, <1>2, <1>3, <1>4, <1>5 DEF Moved, Process

LEMMA StageIs ==
    ASSUME Typed, Protocol, proc # Idle,
           NEW s \in {"BACKED_UP", "APPLYING", "ACTIVATING", "COMMITTED",
                      "ROLLBACK_STARTED", "ROLLED_BACK", "RECOVERY_REQUIRED"}
    PROVE  /\ Stage(s) \in Journal /\ Stage(s).stage = s /\ Stage(s).op = live.op /\ Stage(s).id = live.id
           /\ Stage(s).saved = live.saved /\ Stage(s).records = live.records
           /\ Stage(s).applied = live.applied /\ Stage(s).prev = live.prev
<1>1. proc.j \in Journal /\ proc.j = live
  BY Running DEF Protocol, Working, Process
<1> QED BY <1>1 DEF Stage, Journal

LEMMA AppliedIs ==
    ASSUME Typed, Protocol, proc # Idle, NEW t \in Target, NEW c \in Content
    PROVE  /\ Applied(t, c) \in Journal /\ Applied(t, c).stage = live.stage /\ Applied(t, c).op = live.op
           /\ Applied(t, c).id = live.id /\ Applied(t, c).saved = live.saved
           /\ Applied(t, c).records = live.records /\ Applied(t, c).prev = live.prev
           /\ Applied(t, c).applied = [live.applied EXCEPT ![t] = c]
<1>1. proc.j \in Journal /\ proc.j = live
  BY Running DEF Protocol, Working, Process
<1> QED BY <1>1 DEF Applied, Journal

LEMMA ContentIs ==
    ASSUME Typed, NEW t \in Target
    PROVE  /\ file[t] \in Content /\ file[t].block \in 0..MaxTxn \cup {Nil} /\ file[t].user \in 0..MaxVisits
           /\ \A n \in 0..MaxTxn \cup {Nil} : /\ [file[t] EXCEPT !.block = n] \in Content
                                              /\ [file[t] EXCEPT !.block = n].block = n
                                              /\ [file[t] EXCEPT !.block = n].user = file[t].user
BY DEF Typed, Content

LEMMA NewIs ==
    ASSUME Typed, Protocol, proc # Idle, NEW t \in Target
    PROVE  /\ New(t) \in Content
           /\ New(t).user = (IF t \in Merged THEN file[t].user ELSE 0)
           /\ t # BaseState => New(t).block = txn
           /\ t = BaseState => New(t) = Missing
<1>1. proc.j.id = txn /\ txn \in 1..MaxTxn
  BY Running, Places DEF Protocol, Working, Process, Journal, Typed
<1>2. CASE t \in Merged
  <2>1. New(t) = [file[t] EXCEPT !.block = txn]
    BY <1>1, <1>2 DEF New
  <2> QED BY <1>1, <1>2, <2>1, ContentIs, Places
<1>3. CASE t \notin Merged
  BY <1>1, <1>3, Nothing DEF New
<1> QED BY <1>2, <1>3

LEMMA OldIs ==
    ASSUME Typed, NEW t \in Target, NEW was \in Content
    PROVE  /\ Old(t, was) \in Content /\ Old(t, was).block = was.block
           /\ t \notin Merged \/ file[t] = Missing => Old(t, was) = was
           /\ t \in Merged /\ file[t] # Missing => Old(t, was).user = file[t].user
<1>1. was.block \in 0..MaxTxn \cup {Nil}
  BY DEF Content
<1> QED BY <1>1, ContentIs DEF Old

LEMMA BackupIs ==
    ASSUME Typed, NEW n \in 1..MaxTxn
    PROVE  /\ backup[n].files \in [Target -> Content] /\ backup[n].records \subseteq Target
           /\ \A t \in Target : backup[n].files[t] \in Content
BY DEF Typed, Backup
-------------------------------------------------------------------------------
(* What each step does to types and protocol.                              *)

LEMMA Engaged ==
    ASSUME Typed, Protocol, proc # Idle
    PROVE  /\ proc \in Process /\ live = proc.j /\ live \in Journal /\ live # Nil /\ live.id = txn
           /\ txn \in 1..MaxTxn /\ proc.at \in 0 .. Len(Order) + 1 /\ Len(Order) \in Nat
           /\ proc.records \subseteq Target /\ live.records \subseteq Target
           /\ Working /\ ~At("none")
           /\ Installing <=> live.op = "install"
<1>1. proc \in Process /\ live = proc.j /\ live # Nil /\ live \in Journal
  BY Running DEF Protocol, Working
<1>2. live.id = txn /\ Working
  BY <1>1 DEF Protocol
<1> QED BY <1>1, <1>2, Running, Places DEF Process, Journal, Installing

LEMMA Undoing ==
    ASSUME Typed, Protocol, UndoInv, proc # Idle, live.op = "uninstall",
           proc.phase \in Backward \cup {"backup", "begin"}
    PROVE  /\ proc.undo \in 1..txn /\ proc.undo # txn /\ proc.undo \in 1..MaxTxn /\ backup[proc.undo].manifest
           /\ proc.phase = "backup" => file[State].block = proc.undo
           /\ proc.phase # "backup" => proc.records = backup[proc.undo].records
<1>1. /\ proc.undo \in 1..txn /\ proc.undo # txn /\ backup[proc.undo].manifest
      /\ proc.phase = "backup" => file[State].block = proc.undo
      /\ proc.phase # "backup" => proc.records = backup[proc.undo].records
  BY DEF UndoInv, Undoes
<1>2. txn \in 1..MaxTxn /\ MaxTxn \in Nat
  BY Engaged, Places
<1> QED BY <1>1, <1>2

LEMMA StartStep ==
    ASSUME Typed, Protocol, NEW op \in {"install", "uninstall"}, NEW force \in BOOLEAN, Start(op, force)
    PROVE  /\ Typed' /\ Protocol' /\ proc = Idle /\ proc' # Idle /\ Resolved
           /\ txn' = txn + 1 /\ txn' \in 1..MaxTxn
           /\ live'.op = op /\ live'.stage = "PREPARED" /\ ~live'.saved /\ live'.records = {} /\ live' # Nil
           /\ live'.applied = [t \in Target |-> Nil]
           /\ proc'.phase = "backup" /\ proc'.records = {} /\ proc'.undo = file[State].block /\ ~proc'.recovering
           /\ ~proc'.error
<1>1. txn' \in 1..MaxTxn /\ txn' = txn + 1
  BY Places DEF Start, Typed
<1>2. NewJournal(op) \in Journal
  BY <1>1 DEF NewJournal, Journal, Start, Typed
<1>3. NewJournal(op) # Nil
  BY <1>2, NilAssumption DEF NilAssumption
<1>4. file[State].block \in 0..MaxTxn \cup {Nil}
  BY ContentIs, Places
<1>5. proc' \in Process
  BY <1>2, <1>4, Places DEF Start, Process
<1>6. proc' # Idle
  BY <1>5 DEF Process, Idle, Forward, Backward, Rolling
<1>7. Typed'
  BY <1>1, <1>2, <1>5 DEF Typed, Start
<1>8. proc = Idle /\ Resolved
  BY Running DEF Start, NoLiveTransaction, Resolved
<1>9. Protocol'
  BY <1>1, <1>2, <1>3, <1>5, <1>6, <1>8 DEF Protocol, Working, Start, NewJournal, Forward, Backward, Rolling
<1>10. /\ live'.op = op /\ live'.stage = "PREPARED" /\ ~live'.saved /\ live'.records = {} /\ live' # Nil
       /\ live'.applied = [t \in Target |-> Nil]
  BY <1>3 DEF Start, NewJournal
<1>11. /\ proc'.phase = "backup" /\ proc'.records = {} /\ proc'.undo = file[State].block /\ ~proc'.recovering
       /\ ~proc'.error
  BY DEF Start
<1> QED BY <1>1, <1>6, <1>7, <1>8, <1>9, <1>10, <1>11

LEMMA BackUpStep ==
    ASSUME Typed, Protocol, UndoInv, BackUp
    PROVE  /\ Typed' /\ Protocol' /\ proc # Idle /\ proc' # Idle
           /\ backup'[txn].files = file /\ backup'[txn].records = Saved
           /\ backup'[txn].manifest = backup[txn].manifest
           /\ \A b \in 1..MaxTxn : b # txn => backup'[b] = backup[b]
           /\ live'.op = live.op /\ live'.stage = "BACKED_UP" /\ live'.saved /\ live'.records = Saved
           /\ live'.prev = host /\ live' # Nil
           /\ \A t \in Target : live'.applied[t] # Nil => live'.applied[t] = file[t]
           /\ proc'.phase = "begin" /\ proc'.records = Saved /\ proc'.undo = proc.undo
           /\ proc'.recovering = proc.recovering /\ proc'.error = proc.error
<1>1. proc # Idle
  BY Running DEF BackUp, At
<1>2. proc \in Process /\ live = proc.j /\ live \in Journal /\ live.id = txn /\ txn \in 1..MaxTxn /\ Working
  BY <1>1, Engaged
<1>3. Saved \subseteq Target
  <2>1. CASE Installing
    BY <2>1 DEF Saved
  <2>2. CASE ~Installing
    <3>1. proc.undo \in 1..MaxTxn
      BY <1>1, <1>2, <2>2, Undoing DEF Installing, Journal, BackUp, At
    <3> QED BY <2>2, <3>1, BackupIs DEF Saved
  <2> QED BY <2>1, <2>2
<1>4. PICK j : /\ live' = j
               /\ j = [proc.j EXCEPT !.stage = "BACKED_UP", !.saved = TRUE, !.records = Saved, !.prev = host,
                       !.applied = [t \in Target |->
                          IF ~Installing /\ t \in Saved /\ file[t] # Missing THEN file[t] ELSE Nil]]
  BY DEF BackUp
<1>5. /\ j \in Journal /\ j.op = live.op /\ j.id = live.id /\ j.stage = "BACKED_UP" /\ j.saved
      /\ j.records = Saved /\ j.prev = host
      /\ \A t \in Target : j.applied[t] # Nil => j.applied[t] = file[t]
  BY <1>2, <1>3, <1>4, ContentIs DEF Journal, Typed
<1>6. /\ proc' \in Process /\ proc'.phase = "begin" /\ proc'.records = Saved /\ proc'.undo = proc.undo
      /\ proc'.recovering = proc.recovering /\ proc'.error = proc.error /\ proc'.j = j
  BY <1>2, <1>3, <1>4, <1>5 DEF BackUp, Process
<1>7. /\ backup'[txn].files = file /\ backup'[txn].records = Saved
      /\ backup'[txn].manifest = backup[txn].manifest
      /\ \A b \in 1..MaxTxn : b # txn => backup'[b] = backup[b]
      /\ backup' \in [1..MaxTxn -> Backup]
  BY <1>2, <1>3 DEF BackUp, Typed, Backup
<1>8. Typed'
  BY <1>4, <1>5, <1>6, <1>7 DEF Typed, BackUp
<1>9. proc' # Idle /\ j # Nil
  BY <1>5, <1>6, NilAssumption DEF NilAssumption, Process, Idle
<1>10. Protocol'
  BY <1>2, <1>4, <1>5, <1>6, <1>9 DEF Protocol, Working, BackUp, At, Forward, Backward, Rolling
<1> QED BY <1>1, <1>4, <1>5, <1>6, <1>7, <1>8, <1>9, <1>10
LEMMA BeginStep ==
    ASSUME Typed, Protocol, Begin
    PROVE  /\ Typed' /\ Protocol' /\ proc # Idle
           /\ \E at \in Nat : Moved(IF live.op = "install" THEN "target" ELSE "leave", at, Stage("APPLYING"))
           /\ live.op = "install" => proc'.at = 1
<1>1. proc # Idle
  BY Running DEF Begin, At
<1>2. proc.phase = "begin" /\ Working /\ live = proc.j /\ Len(Order) \in Nat
  BY <1>1, Engaged DEF Begin, At
<1>3. CASE Installing
  <2>1. Moved("target", 1, Stage("APPLYING"))
    BY <1>1, <1>2, <1>3, StageIs, WriteIs DEF Begin, Forward
  <2>2. Typed' /\ Protocol'
    BY <1>1, <1>2, <1>3, <2>1, StageIs DEF Begin, Moved, Typed, Protocol, Working, Forward, Backward, Rolling,
                                           Installing
  <2> QED BY <1>1, <1>2, <1>3, <2>1, <2>2 DEF Installing, Moved
<1>4. CASE ~Installing
  <2>1. Moved("leave", Len(Order), Stage("APPLYING"))
    <3>1. Len(Order) \in 0 .. Len(Order) + 1 /\ Stage("APPLYING") \in Journal
      BY <1>1, <1>2, StageIs
    <3>2. Write(Stage("APPLYING"), "leave", Len(Order))
      BY <1>4 DEF Begin
    <3> QED BY <1>1, <3>1, <3>2, WriteIs DEF Backward
  <2>2. Typed' /\ Protocol'
    BY <1>1, <1>2, <1>4, <2>1, StageIs, Engaged DEF Begin, Moved, Typed, Protocol, Working, Forward, Backward,
                                                    Rolling, Installing, Journal
  <2> QED BY <1>1, <1>2, <1>4, <2>1, <2>2 DEF Installing
<1> QED BY <1>3, <1>4

LEMMA SelectStep ==
    ASSUME Typed, Protocol, Select
    PROVE  /\ Typed' /\ Protocol' /\ proc # Idle /\ proc' # Idle /\ proc.phase = "target" /\ live.op = "install"
           /\ \/ proc.at > Len(Order) /\ Moved("manifest", 0, live)
              \/ proc.at \in Place /\ Now \notin proc.records /\ Moved("target", proc.at + 1, live)
              \/ proc.at \in Place /\ Now \in proc.records /\ Moved("write", proc.at, live)
              \/ proc.at \in Place /\ Now \in proc.records /\ Moved("write", proc.at, Applied(Now, New(Now)))
<1>1. proc # Idle
  BY Running DEF Select, At
<1>2. /\ proc.phase = "target" /\ Working /\ live = proc.j /\ Len(Order) \in Nat /\ proc.at \in 1 .. Len(Order) + 1
      /\ live.op = "install"
  BY <1>1, Engaged DEF Select, At, Working, Forward
<1>3. ~(proc.at > Len(Order)) => proc.at \in Place /\ proc.at + 1 \in 0 .. Len(Order) + 1
  BY <1>2 DEF Place
<1>4. CASE proc.at > Len(Order)
  <2>1. Moved("manifest", 0, live)
    BY <1>1, <1>2, <1>4, GotoIs DEF Select, Forward
  <2>2. Typed' /\ Protocol'
    BY <1>1, <1>2, <1>4, <2>1, Engaged DEF Select, Moved, Typed, Protocol, Working, Forward, Backward, Rolling
  <2> QED BY <1>1, <1>2, <1>4, <2>1, <2>2 DEF Moved
<1>5. CASE ~(proc.at > Len(Order)) /\ Now \notin proc.records
  <2>1. proc.at \in Place /\ Moved("target", proc.at + 1, live)
    BY <1>1, <1>2, <1>5, <1>3, GotoIs DEF Select, Forward
  <2>2. Typed' /\ Protocol'
    BY <1>1, <1>2, <1>5, <2>1, Engaged DEF Select, Moved, Typed, Protocol, Working, Forward, Backward, Rolling
  <2> QED BY <1>1, <1>2, <1>5, <2>1, <2>2 DEF Moved
<1>6. CASE ~(proc.at > Len(Order)) /\ Now \in proc.records /\ Now \notin Intent
  <2>1. proc.at \in Place /\ Goto("write", proc.at)
    BY <1>2, <1>6, <1>3 DEF Select
  <2>2. Moved("write", proc.at, live)
    BY <1>2, <1>3, <1>1, <2>1, GotoIs DEF Forward
  <2>3. Typed' /\ Protocol'
    BY <1>1, <1>2, <1>6, <2>1, <2>2, Engaged DEF Select, Moved, Typed, Protocol, Working, Forward, Backward, Rolling, Now
  <2> QED BY <1>1, <1>2, <1>6, <2>1, <2>2, <2>3 DEF Moved
<1>7. CASE ~(proc.at > Len(Order)) /\ Now \in proc.records /\ Now \in Intent
  <2>1. proc.at \in Place /\ Now \in Target
    BY <1>2, <1>7, Places DEF Place, Now
  <2>2. New(Now) \in Content
    BY <1>1, <2>1, NewIs
  <2>3. Applied(Now, New(Now)) \in Journal
    BY <1>1, <2>1, <2>2, AppliedIs
  <2>4. Moved("write", proc.at, Applied(Now, New(Now)))
    BY <1>1, <1>2, <1>7, <2>3, WriteIs DEF Select, Forward
  <2>5. /\ Applied(Now, New(Now)).stage = live.stage /\ Applied(Now, New(Now)).op = live.op
        /\ Applied(Now, New(Now)).id = live.id /\ Applied(Now, New(Now)).saved = live.saved
        /\ Applied(Now, New(Now)).records = live.records
    BY <1>1, <2>1, <2>2, AppliedIs
  <2>6. Typed'
    BY <2>3, <2>4 DEF Select, Moved, Typed
  <2>7. Protocol'
    BY <1>1, <1>2, <1>7, <2>1, <2>4, <2>5, Engaged
       DEF Select, Moved, Protocol, Working, Forward, Backward, Rolling, Now
  <2> QED BY <1>1, <1>2, <1>7, <2>1, <2>4, <2>6, <2>7 DEF Moved
<1> QED BY <1>4, <1>5, <1>6, <1>7

LEMMA RemoveStep ==
    ASSUME Typed, Protocol, Remove
    PROVE  /\ Typed' /\ Protocol' /\ proc # Idle /\ proc.phase = "write" /\ live.op = "install"
           /\ proc.at \in Place /\ Now \in Target /\ Now \in proc.records /\ Now \notin Merged
           /\ file' = [file EXCEPT ![Now] = Missing]
<1>1. proc # Idle
  BY Running DEF Remove, At
<1>2. /\ proc.phase = "write" /\ Working /\ live.op = "install" /\ proc.at \in Place
      /\ Now \in proc.records /\ Now \in Target
  BY <1>1, Engaged DEF Remove, At, Working, Forward
<1>3. Typed'
  BY <1>2, Nothing DEF Typed, Remove
<1>4. Protocol'
  BY DEF Remove, Protocol, Working, Now
<1> QED BY <1>1, <1>2, <1>3, <1>4 DEF Remove

LEMMA ReplaceStep ==
    ASSUME Typed, Protocol, Replace
    PROVE  /\ Typed' /\ Protocol' /\ proc # Idle /\ proc' # Idle /\ proc.phase = "write" /\ live.op = "install"
           /\ proc.at \in Place /\ Now \in Target /\ Now \in proc.records
           /\ file' = [file EXCEPT ![Now] = New(Now)] /\ Moved("record", proc.at, live)
<1>1. proc # Idle
  BY Running DEF Replace, At
<1>2. /\ proc.phase = "write" /\ Working /\ live.op = "install" /\ proc.at \in Place
      /\ Now \in proc.records /\ Now \in Target
  BY <1>1, Engaged DEF Replace, At, Working, Forward
<1>3. Moved("record", proc.at, live)
  BY <1>1, <1>2, Engaged, GotoIs DEF Replace, Forward
<1>4. New(Now) \in Content
  BY <1>1, <1>2, NewIs
<1>5. Typed'
  BY <1>1, <1>2, <1>3, <1>4, Engaged DEF Typed, Replace, Moved
<1>6. Protocol'
  BY <1>1, <1>2, <1>3, Engaged DEF Replace, Protocol, Working, Now, Moved, Forward, Backward, Rolling
<1> QED BY <1>1, <1>2, <1>3, <1>5, <1>6 DEF Replace, Moved

LEMMA RecordStep ==
    ASSUME Typed, Protocol, Record
    PROVE  /\ Typed' /\ Protocol' /\ proc # Idle /\ proc' # Idle /\ proc.phase = "record" /\ live.op = "install"
           /\ proc.at \in Place /\ Now \in Target /\ Now \in proc.records
           /\ Moved(IF Now = Payload THEN "base" ELSE "target", proc.at + 1, Applied(Now, file[Now]))
<1>1. proc # Idle
  BY Running DEF Record, At
<1>2. /\ proc.phase = "record" /\ Working /\ live.op = "install" /\ proc.at \in Place /\ Now \in proc.records
      /\ Now \in Target /\ file[Now] \in Content
  BY <1>1, Engaged, ContentIs DEF Record, At, Working, Forward
<1>3. Applied(Now, file[Now]) \in Journal
  BY <1>1, <1>2, AppliedIs
<1>4. Moved(IF Now = Payload THEN "base" ELSE "target", proc.at + 1, Applied(Now, file[Now]))
  <2>1. proc.at + 1 \in 0 .. Len(Order) + 1
    BY <1>2, Places DEF Place
  <2>2. CASE Now = Payload
    BY <1>1, <1>3, <2>1, <2>2, WriteIs DEF Record, Forward
  <2>3. CASE Now # Payload
    BY <1>1, <1>3, <2>1, <2>3, WriteIs DEF Record, Forward
  <2> QED BY <2>2, <2>3
<1>5. Typed'
  BY <1>1, <1>3, <1>4 DEF Typed, Record, Moved
<1>6. Protocol'
  <2>1. Applied(Now, file[Now]).stage = live.stage /\ Applied(Now, file[Now]).op = live.op
        /\ Applied(Now, file[Now]).id = live.id /\ Applied(Now, file[Now]).saved = live.saved
        /\ Applied(Now, file[Now]).records = live.records
    BY <1>1, <1>2, AppliedIs
  <2>2. proc.at + 1 # 0 /\ proc.at + 1 - 1 = proc.at
    BY <1>2, Places DEF Place
  <2> QED BY <1>1, <1>2, <1>4, <2>1, <2>2, Engaged DEF Record, Protocol, Working, Now, Moved, Forward, Backward, Rolling
<1> QED BY <1>1, <1>2, <1>4, <1>5, <1>6 DEF Moved
LEMMA LeaveBaseStep ==
    ASSUME Typed, Protocol, LeaveBase
    PROVE  /\ Typed' /\ Protocol' /\ proc # Idle /\ proc' # Idle /\ proc.phase = "base" /\ live.op = "install"
           /\ host'.plugin = host.plugin /\ Moved("activate", proc.at, Stage("ACTIVATING"))
<1>1. proc # Idle
  BY Running DEF LeaveBase, At
<1>2. proc.phase = "base" /\ Working /\ live.op = "install"
  BY <1>1, Engaged DEF LeaveBase, At, Working, Forward
<1>3. Moved("activate", proc.at, Stage("ACTIVATING"))
  BY <1>1, <1>2, Engaged, StageIs, WriteIs DEF LeaveBase, Forward
<1>4. host' \in HostState /\ host'.plugin = host.plugin
  BY DEF LeaveBase, Typed, HostState
<1>5. Typed'
  BY <1>1, <1>3, <1>4, StageIs DEF LeaveBase, Moved, Typed
<1>6. Protocol'
  BY <1>1, <1>2, <1>3, StageIs, Engaged DEF LeaveBase, Moved, Protocol, Working, Forward, Backward, Rolling
<1> QED BY <1>1, <1>2, <1>3, <1>4, <1>5, <1>6 DEF Moved

LEMMA ActivateStep ==
    ASSUME Typed, Protocol, Activate
    PROVE  /\ Typed' /\ Protocol' /\ proc # Idle /\ proc' # Idle /\ proc.phase = "activate" /\ live.op = "install"
           /\ host'.plugin = txn /\ file[Payload].block = txn /\ Moved("target", proc.at, live)
<1>1. proc # Idle
  BY Running DEF Activate, At
<1>2. proc.phase = "activate" /\ Working /\ live.op = "install" /\ proc.j.id = txn /\ txn \in 1..MaxTxn
  BY <1>1, Engaged DEF Activate, At, Working, Forward
<1>3. Moved("target", proc.at, live)
  BY <1>1, <1>2, Engaged, GotoIs DEF Activate, Forward
<1>4. file[Payload].block = txn
  BY <1>2, Nothing, Places DEF Activate, PayloadIntact
<1>5. host' \in HostState /\ host'.plugin = txn
  BY <1>2, <1>4 DEF Activate, Typed, HostState
<1>6. Typed'
  BY <1>1, <1>3, <1>5, Engaged DEF Activate, Moved, Typed
<1>7. Protocol'
  BY <1>1, <1>2, <1>3, Engaged DEF Activate, Moved, Protocol, Working, Forward, Backward, Rolling
<1> QED BY <1>1, <1>2, <1>3, <1>4, <1>5, <1>6, <1>7 DEF Moved

LEMMA WriteManifestStep ==
    ASSUME Typed, Protocol, WriteManifest
    PROVE  /\ Typed' /\ Protocol' /\ proc # Idle /\ proc' # Idle /\ proc.phase = "manifest" /\ live.op = "install"
           /\ backup'[txn].manifest
           /\ \A b \in 1..MaxTxn : /\ backup'[b].files = backup[b].files /\ backup'[b].records = backup[b].records
                                   /\ b # txn => backup'[b].manifest = backup[b].manifest
           /\ file[Payload].block = txn /\ Moved("commit", 0, live)
<1>1. proc # Idle
  BY Running DEF WriteManifest, At
<1>2. proc.phase = "manifest" /\ Working /\ live.op = "install" /\ proc.j.id = txn /\ txn \in 1..MaxTxn
  BY <1>1, Engaged DEF WriteManifest, At, Working, Forward
<1>3. Moved("commit", 0, live)
  <2>1. 0 \in 0 .. Len(Order) + 1
    BY Places
  <2> QED BY <1>1, <2>1, GotoIs DEF WriteManifest
<1>4. file[Payload].block = txn
  BY <1>2, Nothing, Places DEF WriteManifest, PayloadIntact
<1>5. /\ backup'[txn].manifest
      /\ \A b \in 1..MaxTxn : /\ backup'[b].files = backup[b].files /\ backup'[b].records = backup[b].records
                              /\ b # txn => backup'[b].manifest = backup[b].manifest
      /\ backup' \in [1..MaxTxn -> Backup]
  BY <1>2 DEF WriteManifest, Typed, Backup
<1>6. Typed'
  BY <1>1, <1>3, <1>5, Engaged DEF WriteManifest, Moved, Typed
<1>7. Protocol'
  BY <1>1, <1>2, <1>3, Engaged DEF WriteManifest, Moved, Protocol, Working, Forward, Backward, Rolling
<1> QED BY <1>1, <1>2, <1>3, <1>4, <1>5, <1>6, <1>7 DEF Moved

LEMMA CommitStep ==
    ASSUME Typed, Protocol, Commit
    PROVE  /\ Typed' /\ Protocol' /\ proc # Idle /\ proc' # Idle /\ proc.phase = "commit"
           /\ Moved("finish", 0, Stage("COMMITTED"))
<1>1. proc # Idle
  BY Running DEF Commit, At
<1>2. proc.phase = "commit" /\ Working
  BY <1>1, Engaged DEF Commit, At
<1>3. Moved("finish", 0, Stage("COMMITTED"))
  <2>1. 0 \in 0 .. Len(Order) + 1 /\ Stage("COMMITTED") \in Journal
    BY <1>1, StageIs, Places
  <2> QED BY <1>1, <2>1, WriteIs DEF Commit
<1>4. Typed'
  BY <1>1, <1>3, StageIs DEF Commit, Moved, Typed
<1>5. Protocol'
  BY <1>1, <1>2, <1>3, StageIs, Engaged DEF Commit, Moved, Protocol, Working, Forward, Backward, Rolling
<1> QED BY <1>1, <1>2, <1>3, <1>4, <1>5 DEF Moved

LEMMA FinishStep ==
    ASSUME Typed, Protocol, Finish
    PROVE  /\ Typed' /\ Protocol' /\ proc # Idle /\ proc' = Idle /\ proc.phase = "finish"
           /\ live' = Nil /\ Resolved
<1>1. proc # Idle
  BY Running DEF Finish, At
<1>2. proc.phase = "finish" /\ Working
  BY <1>1, Engaged DEF Finish, At
<1>3. Typed' /\ Protocol'
  BY DEF Finish, Typed, Protocol
<1> QED BY <1>1, <1>2, <1>3 DEF Finish, Working, Resolved

LEMMA LeaveStep ==
    ASSUME Typed, Protocol, Leave
    PROVE  /\ Typed' /\ Protocol' /\ proc # Idle /\ proc' # Idle /\ proc.phase = "leave" /\ live.op = "uninstall"
           /\ host'.plugin = Nil \/ ghost'.skipped
           /\ Moved("undo", proc.at, live)
           /\ ghost'.touched = ghost.touched /\ ghost'.waived = ghost.waived
           /\ ghost'.unrecorded = ghost.unrecorded /\ (ghost.skipped => ghost'.skipped)
<1>1. proc # Idle
  BY Running DEF Leave, At
<1>2. proc.phase = "leave" /\ Working /\ live.op = "uninstall"
  BY <1>1, Engaged DEF Leave, At, Working, Backward
<1>3. Moved("undo", proc.at, live)
  BY <1>1, <1>2, Engaged, GotoIs DEF Leave, Backward
<1>4. /\ host' \in HostState
      /\ ghost' \in Ghost
      /\ host'.plugin = Nil \/ ghost'.skipped
      /\ ghost'.touched = ghost.touched /\ ghost'.waived = ghost.waived
      /\ ghost'.unrecorded = ghost.unrecorded /\ (ghost.skipped => ghost'.skipped)
  <2>1. CASE host' = [host EXCEPT !.plugin = Nil] /\ UNCHANGED ghost
    BY <2>1 DEF Typed, HostState
  <2>2. CASE ghost' = [ghost EXCEPT !.skipped = TRUE] /\ UNCHANGED host
    BY <2>2 DEF Typed, HostState, Ghost
  <2> QED BY <2>1, <2>2 DEF Leave
<1>5. Typed'
  BY <1>1, <1>3, <1>4, Engaged DEF Leave, Moved, Typed
<1>6. Protocol'
  BY <1>1, <1>2, <1>3, Engaged DEF Leave, Moved, Protocol, Working, Forward, Backward, Rolling
<1> QED BY <1>1, <1>2, <1>3, <1>4, <1>5, <1>6 DEF Moved

LEMMA UndoStep ==
    ASSUME Typed, Protocol, UndoInv, Undo
    PROVE  /\ Typed' /\ Protocol' /\ proc # Idle /\ proc' # Idle /\ proc.phase = "undo" /\ live.op = "uninstall"
           /\ proc.at \in Place /\ Now \in Target /\ proc.undo \in 1..txn /\ proc.undo # txn
           /\ \/ Now \notin proc.records /\ Moved("undo", proc.at - 1, live) /\ file' = file
              \/ /\ Now \in proc.records /\ Now \notin Merged /\ UNCHANGED <<live, proc>>
                 /\ file' = [file EXCEPT ![Now] = Missing]
              \/ /\ Now \in proc.records /\ (Now \in Merged \/ file[Now] = Missing)
                 /\ Moved("undone", proc.at, live)
                 /\ file' = [file EXCEPT ![Now] = Old(Now, backup[proc.undo].files[Now])]
<1>1. proc # Idle
  BY Running DEF Undo, At
<1>2. /\ proc.phase = "undo" /\ Working /\ live.op = "uninstall" /\ proc.at \in Place
      /\ Len(Order) \in Nat /\ Now \in Target
  <2>1. proc.phase = "undo" /\ Working /\ live.op = "uninstall" /\ proc.at # Len(Order) + 1
    BY <1>1, Engaged DEF Undo, At, Working, Backward
  <2>2. proc.at \in Place
    BY <1>1, <2>1, Engaged DEF Undo, Place
  <2> QED BY <2>1, <2>2, Places DEF Now
<1>3. proc.undo \in 1..txn /\ proc.undo # txn /\ proc.undo \in 1..MaxTxn
  BY <1>1, <1>2, Undoing DEF Backward
<1>4. backup[proc.undo].files[Now] \in Content
  BY <1>2, <1>3, BackupIs
<1>5. CASE Now \notin proc.records
  <2>1. proc.at - 1 \in 0 .. Len(Order) + 1 /\ proc.at - 1 # Len(Order) + 1
    BY <1>2 DEF Place
  <2>2. Moved("undo", proc.at - 1, live) /\ file' = file
    BY <1>1, <1>5, <2>1, GotoIs DEF Undo, Backward
  <2>3. Typed'
    BY <1>1, <2>2, Engaged DEF Undo, Moved, Typed
  <2>4. Protocol'
    BY <1>1, <1>2, <2>1, <2>2, Engaged DEF Undo, Moved, Protocol, Working, Forward, Backward, Rolling
  <2> QED BY <1>1, <1>2, <1>3, <1>5, <2>2, <2>3, <2>4 DEF Moved
<1>6. CASE Now \in proc.records /\ Now \notin Merged /\ file[Now] # Missing
  <2>1. file' = [file EXCEPT ![Now] = Missing] /\ UNCHANGED <<live, proc>>
    BY <1>6 DEF Undo
  <2>2. Typed'
    BY <2>1, Nothing DEF Undo, Typed
  <2>3. Protocol'
    BY <2>1 DEF Undo, Protocol, Working, Now
  <2> QED BY <1>1, <1>2, <1>3, <1>6, <2>1, <2>2, <2>3
<1>7. CASE Now \in proc.records /\ ~(Now \notin Merged /\ file[Now] # Missing)
  <2>1. Moved("undone", proc.at, live) /\ file' = [file EXCEPT ![Now] = Old(Now, backup[proc.undo].files[Now])]
    BY <1>1, <1>7, Engaged, GotoIs DEF Undo, Backward
  <2>2. Old(Now, backup[proc.undo].files[Now]) \in Content
    BY <1>2, <1>4, OldIs
  <2>3. Typed'
    BY <1>1, <2>1, <2>2, Engaged DEF Undo, Moved, Typed
  <2>4. Protocol'
    BY <1>1, <1>2, <1>7, <2>1, Engaged DEF Undo, Moved, Protocol, Working, Forward, Backward, Rolling, Now
  <2> QED BY <1>1, <1>2, <1>3, <1>7, <2>1, <2>3, <2>4 DEF Moved
<1> QED BY <1>5, <1>6, <1>7

LEMMA RecordUndoneStep ==
    ASSUME Typed, Protocol, RecordUndone
    PROVE  /\ Typed' /\ Protocol' /\ proc # Idle /\ proc' # Idle /\ proc.phase = "undone" /\ live.op = "uninstall"
           /\ proc.at \in Place /\ Now \in Target /\ Now \in proc.records
           /\ Moved("undo", proc.at - 1, Applied(Now, file[Now]))
<1>1. proc # Idle
  BY Running DEF RecordUndone, At
<1>2. /\ proc.phase = "undone" /\ Working /\ live.op = "uninstall" /\ proc.at \in Place /\ Now \in proc.records
      /\ Now \in Target /\ file[Now] \in Content
  BY <1>1, Engaged, ContentIs DEF RecordUndone, At, Working, Backward
<1>3. Applied(Now, file[Now]) \in Journal
  BY <1>1, <1>2, AppliedIs
<1>4. proc.at - 1 \in 0 .. Len(Order) + 1 /\ proc.at - 1 # Len(Order) + 1
  BY <1>2, Places DEF Place
<1>5. Moved("undo", proc.at - 1, Applied(Now, file[Now]))
  BY <1>1, <1>3, <1>4, WriteIs DEF RecordUndone, Backward
<1>6. Typed'
  BY <1>1, <1>3, <1>5 DEF Typed, RecordUndone, Moved
<1>7. Protocol'
  <2>1. Applied(Now, file[Now]).stage = live.stage /\ Applied(Now, file[Now]).op = live.op
        /\ Applied(Now, file[Now]).id = live.id /\ Applied(Now, file[Now]).saved = live.saved
        /\ Applied(Now, file[Now]).records = live.records
    BY <1>1, <1>2, AppliedIs
  <2> QED BY <1>1, <1>2, <1>4, <1>5, <2>1, Engaged
          DEF RecordUndone, Protocol, Working, Now, Moved, Forward, Backward, Rolling
<1> QED BY <1>1, <1>2, <1>5, <1>6, <1>7 DEF Moved

LEMMA ReturnStep ==
    ASSUME Typed, Protocol, UndoInv, Return
    PROVE  /\ Typed' /\ Protocol' /\ proc # Idle /\ proc' # Idle /\ proc.phase = "undo" /\ live.op = "uninstall"
           /\ proc.at = 0 /\ proc.undo \in 1..txn /\ proc.undo # txn /\ Moved("commit", 0, live)
           /\ ghost'.touched = ghost.touched /\ ghost'.waived = ghost.waived
           /\ ghost'.unrecorded = ghost.unrecorded /\ (ghost.skipped => ghost'.skipped)
           /\ \/ ghost'.skipped
              \/ LET was == backup[proc.undo].files[State].block
                 IN  IF was # Nil /\ file[Payload] # Missing THEN host'.plugin = was
                     ELSE host'.plugin = host.plugin
<1>1. proc # Idle
  BY Running DEF Return, At
<1>2. proc.phase = "undo" /\ Working /\ live.op = "uninstall" /\ proc.at = 0
  BY <1>1, Engaged, Places DEF Return, At, Working, Backward
<1>3. proc.undo \in 1..txn /\ proc.undo # txn /\ proc.undo \in 1..MaxTxn
  BY <1>1, <1>2, Undoing DEF Backward
<1>4. Moved("commit", 0, live)
  BY <1>1, Engaged, GotoIs DEF Return
<1>5. /\ host' \in HostState
      /\ ghost' \in Ghost
      /\ ghost'.touched = ghost.touched /\ ghost'.waived = ghost.waived
      /\ ghost'.unrecorded = ghost.unrecorded /\ (ghost.skipped => ghost'.skipped)
      /\ \/ ghost'.skipped
         \/ LET was == backup[proc.undo].files[State].block
            IN  IF was # Nil /\ file[Payload] # Missing THEN host'.plugin = was
                ELSE host'.plugin = host.plugin
  <2> DEFINE was == backup[proc.undo].files[State].block
             back == [plugin |-> IF was # Nil /\ file[Payload] # Missing
                                 THEN file[Payload].block ELSE host.plugin,
                      base   |-> host.base \/ file[BaseState] # Missing]
  <2>1. CASE ((was # Nil /\ file[Payload] # Missing) => back.plugin = was) /\ host' = back /\ UNCHANGED ghost
    <3>1. file[Payload].block \in 0..MaxTxn \cup {Nil}
      BY ContentIs, Places
    <3>2. back \in HostState
      BY <3>1 DEF Typed, HostState
    <3> QED BY <2>1, <3>2 DEF Typed
  <2>2. CASE ghost' = [ghost EXCEPT !.skipped = TRUE] /\ UNCHANGED host
    BY <2>2 DEF Typed, Ghost
  <2> QED BY <2>1, <2>2 DEF Return
<1>6. Typed'
  BY <1>1, <1>4, <1>5, Engaged DEF Return, Moved, Typed
<1>7. Protocol'
  BY <1>1, <1>2, <1>4, Engaged DEF Return, Moved, Protocol, Working, Forward, Backward, Rolling
<1> QED BY <1>1, <1>2, <1>3, <1>4, <1>5, <1>6, <1>7 DEF Moved

(* A rollback before the targets were saved, and after. *)
FailedEarly ==
    /\ proc.phase = "backup"
    /\ backup'[txn].files = file /\ backup'[txn].manifest = backup[txn].manifest
    /\ backup'[txn].records \subseteq Saved
    /\ \A b \in 1..MaxTxn : b # txn => backup'[b] = backup[b]
    /\ live' # Nil /\ live'.stage = "ROLLBACK_STARTED" /\ live'.saved /\ live'.op = "install" /\ live'.records = {}
    /\ live'.applied = live.applied /\ live'.prev = live.prev
    /\ proc' # Idle /\ proc'.phase = "rollback" /\ proc'.at = Len(Order) /\ proc'.records = backup'[txn].records
    /\ ~proc'.recovering /\ proc'.error = proc.error
    /\ ghost'.unrecorded /\ ghost'.touched = ghost.touched /\ ghost'.waived = ghost.waived
    /\ ghost'.skipped = ghost.skipped

FailedLate ==
    /\ proc.phase # "backup"
    /\ \E j \in Journal :
          /\ Moved("rollback", Len(Order), j)
          /\ j.stage = "ROLLBACK_STARTED" /\ j.op = "install" /\ j.records = live.records /\ j.prev = live.prev
          /\ j.id = live.id /\ j.saved
          /\ \A t \in Target : \/ j.applied[t] = live.applied[t]
                               \/ proc.phase = "record" /\ t = Now /\ j.applied[t] = file[Now]
    /\ UNCHANGED <<backup, ghost>>

LEMMA FailStep ==
    ASSUME Typed, Protocol, Fail
    PROVE  /\ Typed' /\ Protocol' /\ proc # Idle /\ proc' # Idle /\ live.op = "install" /\ ~proc.recovering
           /\ proc.phase \notin {"rollback"} \cup Rolling
           /\ count'.visits = count.visits
           /\ FailedEarly \/ FailedLate
<1>1. proc # Idle
  BY Running DEF Fail, At
<1>2. /\ proc \in Process /\ Working /\ live.op = "install" /\ ~proc.recovering /\ live = proc.j /\ Len(Order) \in Nat
      /\ txn \in 1..MaxTxn /\ live \in Journal /\ live.id = txn /\ Len(Order) \in 0 .. Len(Order) + 1
      /\ Len(Order) # Len(Order) + 1
  BY <1>1, Engaged DEF Fail
<1>3. proc.phase \notin {"rollback"} \cup Rolling
  BY DEF Fail, Rolling
<1>4. count' \in [visits : 0..MaxVisits, faults : Nat] /\ count'.visits = count.visits
  BY DEF Fail, Typed
<1>5. CASE At("backup")
  <2>1. PICK k \in 0..Len(Order) :
          LET some == {Order[i] : i \in 1..k} \cap Saved
          IN  /\ backup' = [backup EXCEPT ![proc.j.id] = [@ EXCEPT !.files = file, !.records = some]]
              /\ live' = [Stage("ROLLBACK_STARTED") EXCEPT !.saved = TRUE]
              /\ proc' = [proc EXCEPT !.j = live', !.records = some, !.phase = "rollback", !.at = Len(Order)]
              /\ ghost' = [ghost EXCEPT !.unrecorded = TRUE]
    BY <1>5 DEF Fail
  <2> DEFINE some == {Order[i] : i \in 1..k} \cap Saved
  <2>2. some \subseteq Target /\ some \subseteq Saved
    BY <1>2 DEF Saved, Fail
  <2>3. /\ live' \in Journal /\ live'.stage = "ROLLBACK_STARTED" /\ live'.saved /\ live'.op = "install"
        /\ live'.records = {} /\ live'.id = txn /\ live'.applied = live.applied
        /\ live'.prev = live.prev
    <3>1. live.records = {}
      BY <1>2, <1>5 DEF Working, At
    <3> QED BY <1>1, <1>2, <2>1, <3>1, StageIs DEF Journal
  <2>4. /\ proc' \in Process /\ proc'.phase = "rollback" /\ proc'.at = Len(Order) /\ proc'.records = some
        /\ ~proc'.recovering /\ proc'.error = proc.error /\ proc'.j = live'
    BY <1>2, <2>1, <2>2, <2>3 DEF Process
  <2>5. /\ backup'[txn].files = file /\ backup'[txn].manifest = backup[txn].manifest
        /\ backup'[txn].records = some
        /\ \A b \in 1..MaxTxn : b # txn => backup'[b] = backup[b]
        /\ backup' \in [1..MaxTxn -> Backup]
    <3>1. backup' = [backup EXCEPT ![txn] = [@ EXCEPT !.files = file, !.records = some]]
      BY <1>2, <2>1
    <3> HIDE DEF some
    <3>2. /\ backup \in [1..MaxTxn -> Backup]
          /\ file \in [Target -> Content]
      BY DEF Typed
    <3>3. backup'[txn] = [backup[txn] EXCEPT !.files = file, !.records = some]
      BY <1>2, <3>1, <3>2
    <3>4. backup[txn] \in Backup
      BY <1>2, <3>2
    <3>5. backup'[txn].files = file /\ backup'[txn].manifest = backup[txn].manifest /\ backup'[txn].records = some
      BY <3>3, <3>4
    <3>6. backup'[txn] \in Backup
      BY <2>2, <3>2, <3>3, <3>4 DEF Backup
    <3>7. \A b \in 1..MaxTxn : b # txn => backup'[b] = backup[b]
      BY <1>2, <3>1, <3>2
    <3>8. backup' \in [1..MaxTxn -> Backup]
      BY <1>2, <3>1, <3>2, <3>6
    <3> QED BY <3>5, <3>7, <3>8
  <2>6. /\ ghost' \in Ghost
        /\ ghost'.unrecorded /\ ghost'.touched = ghost.touched /\ ghost'.waived = ghost.waived
        /\ ghost'.skipped = ghost.skipped
    BY <2>1 DEF Typed, Ghost
  <2>7. live' # Nil /\ proc' # Idle
    BY <2>3, <2>4, NilAssumption DEF NilAssumption, Process, Idle
  <2>8. FailedEarly
    BY <1>5, <2>2, <2>3, <2>4, <2>5, <2>6, <2>7 DEF FailedEarly, At
  <2>9. Typed'
    BY <1>4, <2>3, <2>4, <2>5, <2>6 DEF Typed, Fail
  <2>10. Protocol'
    BY <1>2, <2>3, <2>4, <2>7 DEF Fail, Protocol, Working, Forward, Backward, Rolling
  <2> QED BY <1>1, <1>2, <1>3, <1>4, <2>7, <2>8, <2>9, <2>10
<1>6. CASE ~At("backup")
  <2> DEFINE j == [Stage("ROLLBACK_STARTED") EXCEPT !.applied =
                       IF At("record") THEN [@ EXCEPT ![Now] = file[Now]] ELSE @]
  <2>1. Write(j, "rollback", Len(Order)) /\ UNCHANGED <<backup, ghost>>
    BY <1>6 DEF Fail
  <2>2. /\ Stage("ROLLBACK_STARTED") \in Journal /\ Stage("ROLLBACK_STARTED").stage = "ROLLBACK_STARTED"
        /\ Stage("ROLLBACK_STARTED").op = live.op
        /\ Stage("ROLLBACK_STARTED").id = live.id /\ Stage("ROLLBACK_STARTED").saved = live.saved
        /\ Stage("ROLLBACK_STARTED").records = live.records
        /\ Stage("ROLLBACK_STARTED").applied = live.applied /\ Stage("ROLLBACK_STARTED").prev = live.prev
    BY <1>1, StageIs
  <2>3. proc.phase \in {"begin", "commit", "finish"} \cup Forward
    BY <1>2, <1>3, <1>6 DEF Process, At, Working, Backward, Rolling
  <2>4. live.saved
    BY <1>1, <1>2, <2>3 DEF Working, Protocol
  <2>5. At("record") => Now \in Target /\ file[Now] \in Content
    BY <1>2, Places, ContentIs DEF Working, At, Now
  <2>6. /\ j \in Journal /\ j.stage = "ROLLBACK_STARTED" /\ j.op = "install" /\ j.records = live.records
        /\ j.prev = live.prev /\ j.id = live.id /\ j.saved
    BY <1>2, <2>2, <2>4, <2>5 DEF Journal
  <2>7. \A t \in Target : \/ j.applied[t] = live.applied[t]
                          \/ At("record") /\ t = Now /\ j.applied[t] = file[Now]
    BY <1>2, <2>2, <2>5 DEF Journal
  <2> HIDE DEF j
  <2>8. Moved("rollback", Len(Order), j)
    BY <1>1, <1>2, <2>1, <2>6, WriteIs
  <2>9. FailedLate
    BY <1>6, <2>1, <2>6, <2>7, <2>8 DEF FailedLate, At
  <2>10. Typed'
    BY <1>4, <2>1, <2>6, <2>8 DEF Typed, Fail, Moved
  <2>11. Protocol'
    BY <1>2, <2>6, <2>8 DEF Fail, Protocol, Working, Forward, Backward, Rolling, Moved
  <2> QED BY <1>1, <1>2, <1>3, <1>4, <2>8, <2>9, <2>10, <2>11 DEF Moved
<1> QED BY <1>5, <1>6

LEMMA DeactivateStep ==
    ASSUME Typed, Protocol, Deactivate
    PROVE  /\ Typed' /\ Protocol' /\ proc # Idle /\ proc' # Idle /\ proc.phase = "rollback" /\ live.op = "install"
           /\ Moved("restore", proc.at, live)
<1>1. proc # Idle
  BY Running DEF Deactivate, At
<1>2. proc.phase = "rollback" /\ Working /\ live.op = "install"
  BY <1>1, Engaged DEF Deactivate, At, Working
<1>3. Moved("restore", proc.at, live)
  BY <1>1, <1>2, Engaged, GotoIs DEF Deactivate, Rolling
<1>4. host' \in HostState
  BY DEF Deactivate, Typed, HostState
<1>5. Typed'
  BY <1>1, <1>3, <1>4, Engaged DEF Deactivate, Moved, Typed
<1>6. Protocol'
  BY <1>1, <1>2, <1>3, Engaged DEF Deactivate, Moved, Protocol, Working, Forward, Backward, Rolling
<1> QED BY <1>1, <1>2, <1>3, <1>5, <1>6 DEF Moved

LEMMA RecoverStep ==
    ASSUME Typed, Protocol, Recover
    PROVE  /\ Typed' /\ Protocol' /\ proc = Idle /\ live # Nil
           /\ \/ Resolved /\ live' = Nil /\ proc' = Idle
              \/ /\ ~Resolved /\ live' # Nil /\ live'.stage = "ROLLBACK_STARTED" /\ live'.op = live.op
                 /\ live'.saved = live.saved /\ live'.records = live.records /\ live'.applied = live.applied
                 /\ live'.prev = live.prev
                 /\ proc' # Idle /\ proc'.phase = "restore" /\ proc'.at = Len(Order) /\ proc'.records = live.records
                 /\ proc'.recovering /\ ~proc'.error
<1>1. proc = Idle /\ live # Nil /\ live \in Journal /\ live.id = txn /\ (live.saved <=> live.stage # "PREPARED")
  BY Running DEF Recover, Protocol
<1>2. CASE live.stage \in {"COMMITTED", "ROLLED_BACK"} \/ ~live.saved
  <2>1. live' = Nil /\ proc' = Idle
    BY <1>1, <1>2 DEF Recover
  <2>2. Typed' /\ Protocol'
    BY <2>1 DEF Typed, Recover, Protocol
  <2> QED BY <1>1, <1>2, <2>1, <2>2 DEF Resolved
<1>3. CASE ~(live.stage \in {"COMMITTED", "ROLLED_BACK"} \/ ~live.saved)
  <2>1. /\ live' = [live EXCEPT !.stage = "ROLLBACK_STARTED"]
        /\ proc' = [phase |-> "restore", at |-> Len(Order), j |-> live', records |-> live.records,
                    undo |-> Nil, force |-> FALSE, recovering |-> TRUE, error |-> FALSE]
    BY <1>1, <1>3 DEF Recover
  <2>2. /\ live' \in Journal /\ live'.stage = "ROLLBACK_STARTED" /\ live'.op = live.op /\ live'.id = live.id
        /\ live'.saved = live.saved /\ live'.records = live.records /\ live'.applied = live.applied
        /\ live'.prev = live.prev
    BY <1>1, <2>1 DEF Journal
  <2>3. Len(Order) \in 0 .. Len(Order) + 1 /\ Len(Order) # Len(Order) + 1 /\ live.records \subseteq Target
    BY <1>1, Places DEF Journal
  <2>4. /\ proc' \in Process /\ proc'.phase = "restore" /\ proc'.at = Len(Order) /\ proc'.records = live.records
        /\ proc'.recovering /\ ~proc'.error /\ proc'.j = live'
    BY <2>1, <2>2, <2>3 DEF Process, Rolling
  <2>5. live' # Nil /\ proc' # Idle
    BY <2>2, <2>4, NilAssumption DEF NilAssumption, Process, Idle
  <2>6. Typed'
    BY <2>2, <2>4 DEF Typed, Recover
  <2>7. Protocol'
    BY <1>1, <1>3, <2>2, <2>3, <2>4, <2>5 DEF Recover, Protocol, Working, Forward, Backward, Rolling
  <2> QED BY <1>1, <1>3, <2>2, <2>4, <2>5, <2>6, <2>7 DEF Resolved
<1> QED BY <1>2, <1>3

LEMMA RestoreStep ==
    ASSUME Typed, Protocol, Restore
    PROVE  /\ Typed' /\ Protocol' /\ proc # Idle /\ proc' # Idle /\ proc.phase = "restore"
           /\ proc.at \in Place /\ Now \in Target /\ proc.at - 1 \in Nat
           /\ \/ Now \notin proc.records /\ Moved("restore", proc.at - 1, live) /\ file' = file
              \/ /\ Now \in proc.records /\ ~Owned(Now) /\ file' = file /\ live' = live
                 /\ proc'.phase = "restore" /\ proc'.at = proc.at - 1 /\ proc'.error
                 /\ proc'.records = proc.records /\ proc'.recovering = proc.recovering
              \/ /\ Now \in proc.records /\ Owned(Now) /\ Now \notin Merged
                 /\ file' = [file EXCEPT ![Now] = Missing] /\ Moved("putback", proc.at, live)
              \/ /\ Now \in proc.records /\ Owned(Now) /\ (Now \in Merged \/ file[Now] = Missing)
                 /\ file' = [file EXCEPT ![Now] = Old(Now, backup[txn].files[Now])]
                 /\ Moved("restore", proc.at - 1, live)
<1>1. proc # Idle
  BY Running DEF Restore, At
<1>2. /\ proc.phase = "restore" /\ Working /\ proc.at \in Place /\ Now \in Target /\ txn \in 1..MaxTxn
      /\ proc.j.id = txn /\ proc.j = live
  <2>1. proc.phase = "restore" /\ Working /\ proc.at # Len(Order) + 1
    BY <1>1, Engaged DEF Restore, At, Working
  <2>2. proc.at \in Place
    BY <1>1, <2>1, Engaged DEF Restore, Place
  <2> QED BY <1>1, <2>1, <2>2, Places, Engaged DEF Now
<1>3. proc.at - 1 \in 0 .. Len(Order) + 1 /\ proc.at - 1 # Len(Order) + 1 /\ proc.at - 1 \in Nat
  BY <1>2, Places DEF Place
<1>4. CASE Now \notin proc.records
  <2>1. Moved("restore", proc.at - 1, live) /\ file' = file
    BY <1>1, <1>3, <1>4, GotoIs DEF Restore, Rolling
  <2>2. Typed'
    BY <1>1, <2>1, Engaged DEF Restore, Moved, Typed
  <2>3. Protocol'
    BY <1>1, <1>2, <1>3, <2>1, Engaged DEF Restore, Moved, Protocol, Working, Forward, Backward, Rolling
  <2> QED BY <1>1, <1>2, <1>3, <1>4, <2>1, <2>2, <2>3 DEF Moved
<1>5. CASE Now \in proc.records /\ ~Owned(Now)
  <2>1. Error /\ file' = file
    BY <1>5 DEF Restore
  <2>2. /\ proc' \in Process /\ proc'.phase = "restore" /\ proc'.at = proc.at - 1 /\ proc'.error
        /\ proc'.records = proc.records /\ proc'.recovering = proc.recovering /\ proc'.j = proc.j
        /\ live' = live
    BY <1>1, <1>3, <2>1, Running DEF Error, Process, Rolling
  <2>3. proc' # Idle
    BY <2>2 DEF Idle, Process
  <2>4. Typed'
    BY <2>1, <2>2 DEF Restore, Typed
  <2>5. Protocol'
    BY <1>1, <1>2, <1>3, <2>2, Engaged DEF Restore, Protocol, Working, Forward, Backward, Rolling
  <2> QED BY <1>1, <1>2, <1>3, <1>5, <2>1, <2>2, <2>3, <2>4, <2>5
<1>6. CASE Now \in proc.records /\ Owned(Now) /\ Now \notin Merged /\ file[Now] # Missing
  <2>1. Moved("putback", proc.at, live) /\ file' = [file EXCEPT ![Now] = Missing]
    BY <1>1, <1>6, Engaged, GotoIs DEF Restore, Rolling
  <2>2. Typed'
    BY <1>1, <2>1, Engaged, Nothing DEF Restore, Moved, Typed
  <2>3. Protocol'
    BY <1>1, <1>2, <1>6, <2>1, Engaged DEF Restore, Moved, Protocol, Working, Forward, Backward, Rolling, Now
  <2> QED BY <1>1, <1>2, <1>3, <1>6, <2>1, <2>2, <2>3 DEF Moved
<1>7. CASE Now \in proc.records /\ Owned(Now) /\ ~(Now \notin Merged /\ file[Now] # Missing)
  <2>1. Moved("restore", proc.at - 1, live) /\ file' = [file EXCEPT ![Now] = Old(Now, backup[txn].files[Now])]
    BY <1>1, <1>2, <1>3, <1>7, GotoIs DEF Restore, Rolling
  <2>2. Old(Now, backup[txn].files[Now]) \in Content
    BY <1>2, BackupIs, OldIs
  <2>3. Typed'
    BY <1>1, <2>1, <2>2, Engaged DEF Restore, Moved, Typed
  <2>4. Protocol'
    BY <1>1, <1>2, <1>3, <2>1, Engaged DEF Restore, Moved, Protocol, Working, Forward, Backward, Rolling
  <2> QED BY <1>1, <1>2, <1>3, <1>7, <2>1, <2>3, <2>4 DEF Moved
<1> QED BY <1>4, <1>5, <1>6, <1>7

LEMMA PutBackStep ==
    ASSUME Typed, Protocol, PutBack
    PROVE  /\ Typed' /\ Protocol' /\ proc # Idle /\ proc' # Idle /\ proc.phase = "putback"
           /\ proc.at \in Place /\ Now \in Target /\ Now \in proc.records /\ Now \notin Merged /\ proc.at - 1 \in Nat
           /\ file' = [file EXCEPT ![Now] = backup[txn].files[Now]] /\ Moved("restore", proc.at - 1, live)
<1>1. proc # Idle
  BY Running DEF PutBack, At
<1>2. /\ proc.phase = "putback" /\ Working /\ proc.at \in Place /\ Now \in Target /\ txn \in 1..MaxTxn
      /\ proc.j.id = txn /\ Now \in proc.records /\ Now \notin Merged
  BY <1>1, Engaged, Places DEF PutBack, At, Working, Now
<1>3. proc.at - 1 \in 0 .. Len(Order) + 1 /\ proc.at - 1 # Len(Order) + 1 /\ proc.at - 1 \in Nat
  BY <1>2, Places DEF Place
<1>4. Moved("restore", proc.at - 1, live)
  BY <1>1, <1>3, GotoIs DEF PutBack, Rolling
<1>5. file' = [file EXCEPT ![Now] = backup[txn].files[Now]]
  BY <1>2 DEF PutBack
<1>6. Typed'
  BY <1>1, <1>2, <1>4, <1>5, Engaged, BackupIs DEF PutBack, Moved, Typed
<1>7. Protocol'
  BY <1>1, <1>2, <1>3, <1>4, Engaged DEF PutBack, Moved, Protocol, Working, Forward, Backward, Rolling
<1> QED BY <1>1, <1>2, <1>3, <1>4, <1>5, <1>6, <1>7 DEF Moved

LEMMA RestoreHostStep ==
    ASSUME Typed, Protocol, RestoreHost
    PROVE  /\ Typed' /\ Protocol' /\ proc # Idle /\ proc' # Idle /\ proc.phase = "restore" /\ proc.at = 0
           /\ live' = live /\ proc'.phase = "end" /\ proc'.at = proc.at /\ proc'.records = proc.records
           /\ proc'.recovering = proc.recovering /\ (proc.error => proc'.error)
           /\ ghost'.touched = ghost.touched /\ ghost'.waived = ghost.waived
           /\ ghost'.unrecorded = ghost.unrecorded /\ (ghost.skipped => ghost'.skipped)
           /\ \/ ghost'.skipped
              \/ proc'.error
              \/ host'.plugin = (IF live.prev.plugin # Nil /\ file[Payload] # Missing THEN live.prev.plugin ELSE Nil)
<1>1. proc # Idle
  BY Running DEF RestoreHost, At
<1>2. proc.phase = "restore" /\ Working /\ proc.at = 0 /\ proc \in Process /\ proc.j = live
  BY <1>1, Engaged DEF RestoreHost, At
<1> DEFINE prev == proc.j.prev
           again == prev.plugin # Nil /\ file[Payload] # Missing
           plugin == IF again THEN file[Payload].block ELSE Nil
<1>3. /\ host' \in HostState
      /\ ghost' \in Ghost
      /\ ghost'.touched = ghost.touched /\ ghost'.waived = ghost.waived
      /\ ghost'.unrecorded = ghost.unrecorded /\ (ghost.skipped => ghost'.skipped)
      /\ proc' \in Process /\ proc'.phase = "end" /\ proc'.at = proc.at /\ proc'.records = proc.records
      /\ proc'.recovering = proc.recovering /\ (proc.error => proc'.error) /\ proc'.j = proc.j
      /\ \/ ghost'.skipped
         \/ proc'.error
         \/ host'.plugin = (IF live.prev.plugin # Nil /\ file[Payload] # Missing THEN live.prev.plugin ELSE Nil)
  <2>1. CASE /\ host' = [plugin |-> plugin, base |-> host.base \/ (~proc.recovering /\ prev.base)]
             /\ proc' = [proc EXCEPT !.phase = "end", !.error = @ \/ (again /\ plugin # prev.plugin)]
             /\ UNCHANGED ghost
    <3>1. file[Payload].block \in 0..MaxTxn \cup {Nil}
      BY ContentIs, Places
    <3>2. prev \in HostState
      BY <1>2 DEF Process, Journal
    <3>3. host' \in HostState /\ host'.plugin = plugin
      BY <2>1, <3>1 DEF HostState
    <3>4. /\ proc'.error = (proc.error \/ (again /\ plugin # prev.plugin))
          /\ proc' \in Process /\ proc'.phase = "end" /\ proc'.at = proc.at /\ proc'.records = proc.records
          /\ proc'.recovering = proc.recovering /\ proc'.j = proc.j
      BY <1>2, <2>1 DEF Process, Rolling
    <3>5. ~proc'.error => plugin = IF live.prev.plugin # Nil /\ file[Payload] # Missing THEN live.prev.plugin ELSE Nil
      BY <1>2, <3>4
    <3> QED BY <2>1, <3>3, <3>4, <3>5 DEF Typed
  <2>2. CASE /\ ghost' = [ghost EXCEPT !.skipped = TRUE]
             /\ proc' = [proc EXCEPT !.phase = "end"]
             /\ UNCHANGED host
    BY <1>2, <2>2 DEF Typed, Process, Rolling, Ghost
  <2> QED BY <2>1, <2>2 DEF RestoreHost
<1>4. proc' # Idle
  BY <1>3 DEF Process, Idle
<1>5. Typed'
  BY <1>3 DEF RestoreHost, Typed
<1>6. Protocol'
  BY <1>1, <1>2, <1>3, <1>4, Engaged DEF RestoreHost, Protocol, Working, Forward, Backward, Rolling
<1> QED BY <1>1, <1>2, <1>3, <1>4, <1>5, <1>6 DEF RestoreHost

LEMMA EndRollbackStep ==
    ASSUME Typed, Protocol, EndRollback
    PROVE  /\ Typed' /\ Protocol' /\ proc # Idle /\ proc.phase = "end"
           /\ \/ proc.error /\ live' # Nil /\ live' = Stage("RECOVERY_REQUIRED") /\ proc' = Idle
              \/ ~proc.error /\ proc' # Idle /\ Moved("finish", 0, Stage("ROLLED_BACK"))
<1>1. proc # Idle
  BY Running DEF EndRollback, At
<1>2. proc.phase = "end" /\ Working /\ live.id = txn /\ live.saved
  BY <1>1, Engaged DEF EndRollback, At, Working, Protocol, Rolling
<1>3. CASE proc.error
  <2>1. live' = Stage("RECOVERY_REQUIRED") /\ proc' = Idle
    BY <1>3 DEF EndRollback
  <2>2. live' \in Journal /\ live' # Nil
    BY <1>1, <2>1, StageIs, NilAssumption DEF NilAssumption
  <2>3. Typed'
    BY <2>1, <2>2 DEF EndRollback, Typed
  <2>4. Protocol'
    BY <1>1, <1>2, <2>1, StageIs DEF EndRollback, Protocol
  <2> QED BY <1>1, <1>2, <1>3, <2>1, <2>2, <2>3, <2>4
<1>4. CASE ~proc.error
  <2>1. Moved("finish", 0, Stage("ROLLED_BACK"))
    <3>1. 0 \in 0 .. Len(Order) + 1 /\ Stage("ROLLED_BACK") \in Journal
      BY <1>1, Places, StageIs
    <3> QED BY <1>1, <1>4, <3>1, WriteIs DEF EndRollback
  <2>2. Typed'
    BY <1>1, <2>1, StageIs DEF EndRollback, Typed, Moved
  <2>3. Protocol'
    BY <1>1, <1>2, <2>1, StageIs, Engaged DEF EndRollback, Protocol, Working, Forward, Backward, Rolling, Moved
  <2> QED BY <1>1, <1>2, <1>4, <2>1, <2>2, <2>3 DEF Moved
<1> QED BY <1>3, <1>4

LEMMA CrashStep ==
    ASSUME Typed, Protocol, Crash
    PROVE  /\ Typed' /\ Protocol' /\ proc # Idle /\ proc' = Idle /\ count'.visits = count.visits
           /\ UNCHANGED <<file, host, backup, live, txn, ghost>>
<1>1. proc # Idle
  BY Running DEF Crash
<1>2. count' \in [visits : 0..MaxVisits, faults : Nat] /\ count'.visits = count.visits
  BY DEF Crash, Typed
<1>3. Typed' /\ Protocol'
  BY <1>2 DEF Crash, Typed, Protocol
<1> QED BY <1>1, <1>2, <1>3 DEF Crash

(* What an edit makes of a target. *)
Edited(t, c) ==
    /\ c \in Content /\ file' = [file EXCEPT ![t] = c]
    /\ IF t \in Merged THEN c.block = file[t].block ELSE c.block = Nil
    /\ c = Missing \/ c.user = count'.visits
    /\ t \notin Merged => t \in ghost'.touched
    /\ ghost.touched \subseteq ghost'.touched
    /\ ghost.waived \subseteq ghost'.waived /\ file[t].user \in ghost'.waived
    /\ (At("none") /\ c # Missing) \/ count'.visits \in ghost'.waived
    /\ ghost'.skipped = ghost.skipped /\ ghost'.unrecorded = ghost.unrecorded

LEMMA EditStep ==
    ASSUME Typed, Protocol, NEW t \in Target, Edit(t)
    PROVE  /\ Typed' /\ Protocol' /\ t # State /\ t # BaseState /\ \E c \in Content : Edited(t, c)
           /\ count'.visits = count.visits + 1
           /\ UNCHANGED <<host, backup, live, proc, txn>>
<1>1. /\ count'.visits = count.visits + 1 /\ count'.visits \in 0..MaxVisits
      /\ count' \in [visits : 0..MaxVisits, faults : Nat]
  BY Places DEF Edit, Typed
<1>2. file[t] \in Content /\ file[t].block \in 0..MaxTxn \cup {Nil} /\ file[t].user \in 0..MaxVisits
  BY ContentIs
<1>3. PICK c \in {[block |-> IF t \in Merged THEN file[t].block ELSE Nil, user |-> count'.visits]}
                  \cup IF t \in Merged THEN {} ELSE {Missing} :
        /\ file' = [file EXCEPT ![t] = c]
        /\ ghost' = [ghost EXCEPT
                !.touched = IF t \in Merged THEN @ ELSE @ \cup {t},
                !.waived = @ \cup {file[t].user}
                             \cup IF At("none") /\ c # Missing THEN {} ELSE {count'.visits}]
  BY DEF Edit
<1>4. /\ c \in Content /\ (IF t \in Merged THEN c.block = file[t].block ELSE c.block = Nil)
      /\ c = Missing \/ c.user = count'.visits
  <2>1. CASE c = Missing /\ t \notin Merged
    BY <2>1, Nothing
  <2>2. CASE c = [block |-> IF t \in Merged THEN file[t].block ELSE Nil, user |-> count'.visits]
    BY <1>1, <1>2, <2>2 DEF Content
  <2> QED BY <1>3, <2>1, <2>2
<1>5. /\ ghost' \in Ghost
      /\ ghost'.touched = (IF t \in Merged THEN ghost.touched ELSE ghost.touched \cup {t})
      /\ ghost'.waived = ghost.waived \cup {file[t].user}
                             \cup IF At("none") /\ c # Missing THEN {} ELSE {count'.visits}
      /\ ghost'.skipped = ghost.skipped /\ ghost'.unrecorded = ghost.unrecorded
  BY <1>1, <1>2, <1>3 DEF Typed, Edit, Ghost
<1>6. Edited(t, c)
  BY <1>3, <1>4, <1>5 DEF Edited
<1>7. Typed'
  BY <1>1, <1>3, <1>4, <1>5 DEF Edit, Typed
<1>8. Protocol'
  BY DEF Edit, Protocol, Working, Now
<1> QED BY <1>1, <1>4, <1>6, <1>7, <1>8 DEF Edit

-------------------------------------------------------------------------------
(* What is installed can be undone.                                        *)

LEMMA SoundStays ==
    ASSUME Typed, Typed', txn' >= txn,
           \A b \in 1..MaxTxn : backup[b].manifest => backup'[b].manifest /\ backup'[b].records = backup[b].records
    PROVE  \A c \in Content : Revertible(c) => Revertible(c)'
<1> SUFFICES ASSUME NEW c \in Content, Revertible(c), c.block # Nil
             PROVE  c.block \in 1..txn' /\ backup'[c.block].manifest /\ State \in backup'[c.block].records
  BY DEF Revertible
<1>1. c.block \in 1..txn /\ backup[c.block].manifest /\ State \in backup[c.block].records
  BY DEF Revertible
<1>2. txn \in Nat /\ txn' \in Nat /\ txn <= MaxTxn /\ MaxTxn \in Nat
  BY Places DEF Typed
<1>3. c.block \in 1..MaxTxn /\ c.block \in 1..txn'
  BY <1>1, <1>2
<1> QED BY <1>1, <1>3

(* A step that only moves the process on. *)
LEMMA UndoMoved ==
    ASSUME Typed, Protocol, UndoInv, Typed', Protocol', proc # Idle, proc' # Idle, UNCHANGED <<file, backup, txn>>,
           live'.op = live.op, live'.records = live.records,
           proc'.records = proc.records, proc'.undo = proc.undo, proc'.phase # "backup",
           ~Resolved', proc'.phase = "commit" => live.op = "uninstall",
           proc'.phase \in Backward \cup {"begin"} => proc.phase \in Backward \cup {"begin"},
           proc'.phase \in {"rollback"} \cup Rolling => proc.phase \in {"rollback"} \cup Rolling,
           proc'.phase \in Rolling /\ ~proc'.error =>
              /\ ~proc.error
              /\ \A i \in Place : i > proc'.at \/ proc'.phase = "end" => proc.phase \in Rolling /\ i > proc.at
    PROVE  UndoInv'
<1>1. Plain' /\ BackupsSound' /\ Unwritten'
  BY DEF UndoInv, Plain, BackupsSound, Revertible, Unwritten
<1>2. live # Nil /\ live' # Nil
  BY Engaged, Running DEF Protocol, Working
<1>3. Recorded'
  BY <1>2 DEF UndoInv, Recorded
<1>4. VersionSound'
  <2>1. Revertible(file[State]) => Revertible(file[State])'
    BY DEF Revertible
  <2>2. BeingInstalled => BeingInstalled'
    BY <1>2 DEF BeingInstalled
  <2> QED BY <2>1, <2>2 DEF UndoInv, VersionSound
<1>5. Complete' /\ Undoes'
  BY DEF UndoInv, Complete, Undoes, Backward
<1>6. NotReached'
  BY DEF UndoInv, NotReached, Revertible
<1>7. GivenBack'
  BY DEF UndoInv, GivenBack
<1> QED BY <1>1, <1>3, <1>4, <1>5, <1>6, <1>7 DEF UndoInv

LEMMA StartUndo ==
    ASSUME Typed, Protocol, UndoInv, Install \/ \E force \in BOOLEAN : Uninstall(force)
    PROVE  UndoInv'
<1>1. PICK op \in {"install", "uninstall"}, force \in BOOLEAN :
         Start(op, force) /\ (op = "uninstall" => file[State] # Missing)
  BY DEF Install, Uninstall
<1>2. /\ Typed' /\ Protocol' /\ proc = Idle /\ proc' # Idle /\ Resolved
      /\ txn' = txn + 1 /\ txn' \in 1..MaxTxn /\ txn \in Nat
      /\ live'.op = op /\ live'.stage = "PREPARED" /\ live'.records = {} /\ live' # Nil
      /\ proc'.phase = "backup" /\ proc'.records = {} /\ proc'.undo = file[State].block
  BY <1>1, StartStep DEF Typed
<1>3. UNCHANGED <<file, backup>>
  BY <1>1 DEF Start
<1>4. \A c \in Content : Revertible(c) => Revertible(c)'
  BY <1>2, <1>3, SoundStays
<1>5. Plain'
  BY <1>3 DEF UndoInv, Plain
<1>6. BackupsSound'
  BY <1>3, <1>4, BackupIs, Places DEF UndoInv, BackupsSound
<1>7. Unwritten' /\ Recorded'
  BY <1>2, <1>3 DEF UndoInv, Unwritten, Recorded
<1>8. Revertible(file[State]) /\ Revertible(file[State])'
  <2>1. Revertible(file[State])
    BY <1>2 DEF UndoInv, VersionSound, BeingInstalled
  <2> QED BY <2>1, <1>3, <1>4, ContentIs, Places
<1>9. VersionSound' /\ Complete' /\ NotReached' /\ GivenBack'
  BY <1>2, <1>8 DEF VersionSound, Complete, NotReached, GivenBack, Rolling
<1>10. Undoes'
  <2> SUFFICES ASSUME op = "uninstall"
               PROVE  proc'.undo \in 1..txn' /\ proc'.undo # txn' /\ backup'[proc'.undo].manifest
                      /\ file'[State].block = proc'.undo
    BY <1>2 DEF Undoes, Backward
  <2>1. file[State].block # Nil
    <3>1. file[State] \in Content /\ file[State].user = 0 /\ file[State] # Missing
      BY <1>1, ContentIs, Places DEF UndoInv, Plain
    <3> QED BY <3>1 DEF Missing, Content
  <2> QED BY <1>2, <1>3, <1>8, <2>1 DEF Revertible
<1> QED BY <1>5, <1>6, <1>7, <1>9, <1>10 DEF UndoInv

LEMMA BackUpUndo ==
    ASSUME Typed, Protocol, UndoInv, BackUp
    PROVE  UndoInv'
<1>1. /\ Typed' /\ Protocol' /\ proc # Idle /\ proc' # Idle
      /\ backup'[txn].files = file /\ backup'[txn].records = Saved
      /\ backup'[txn].manifest = backup[txn].manifest
      /\ \A b \in 1..MaxTxn : b # txn => backup'[b] = backup[b]
      /\ live'.op = live.op /\ live'.stage = "BACKED_UP" /\ live'.saved /\ live'.records = Saved /\ live' # Nil
      /\ proc'.phase = "begin" /\ proc'.records = Saved /\ proc'.undo = proc.undo
  BY BackUpStep
<1>2. UNCHANGED <<file, txn>> /\ proc.phase = "backup" /\ txn \in 1..MaxTxn /\ ~backup[txn].manifest
      /\ (Installing <=> live.op = "install") /\ live \in Journal /\ live.stage = "PREPARED"
  BY <1>1, Engaged DEF BackUp, UndoInv, Unwritten, At, Working
<1>3. \A c \in Content : Revertible(c) => Revertible(c)'
  BY <1>1, <1>2, SoundStays
<1>4. Plain'
  BY <1>1, <1>2 DEF UndoInv, Plain
<1>5. Revertible(file[State]) /\ Revertible(file[State])'
  <2>1. Revertible(file[State])
    BY <1>2 DEF UndoInv, VersionSound, BeingInstalled, Resolved
  <2> QED BY <2>1, <1>2, <1>3, ContentIs, Places
<1>6. BackupsSound'
  <2> SUFFICES ASSUME NEW b \in 1..MaxTxn PROVE Revertible(backup[b].files[State])'
    BY DEF BackupsSound
  <2>1. CASE b = txn
    BY <1>1, <1>5, <1>2, <2>1 DEF Revertible
  <2>2. CASE b # txn
    <3>1. Revertible(backup[b].files[State]) /\ backup[b].files[State] \in Content
      BY BackupIs, Places DEF UndoInv, BackupsSound
    <3>2. backup'[b].files[State] = backup[b].files[State]
      BY <1>1, <2>2
    <3> QED BY <1>3, <3>1, <3>2
  <2> QED BY <2>1, <2>2
<1>7. Unwritten' /\ Recorded'
  BY <1>1, <1>2 DEF UndoInv, Unwritten, Recorded
<1>8. VersionSound' /\ Complete' /\ NotReached' /\ GivenBack'
  BY <1>1, <1>5 DEF VersionSound, Complete, NotReached, GivenBack, Rolling
<1>9. Undoes'
  <2> SUFFICES ASSUME live.op = "uninstall"
               PROVE  proc'.undo \in 1..txn /\ proc'.undo # txn /\ backup'[proc'.undo].manifest
                      /\ proc'.records = backup'[proc'.undo].records
    BY <1>1, <1>2 DEF Undoes, Backward
  <2>1. proc.undo \in 1..txn /\ proc.undo # txn /\ backup[proc.undo].manifest /\ proc.undo \in 1..MaxTxn
    BY <1>1, <1>2, Undoing
  <2>2. Saved = backup[proc.undo].records
    BY <1>2, <2>1 DEF Saved
  <2> QED BY <1>1, <2>1, <2>2
<1> QED BY <1>4, <1>6, <1>7, <1>8, <1>9 DEF UndoInv

LEMMA BeginUndo ==
    ASSUME Typed, Protocol, UndoInv, Begin
    PROVE  UndoInv'
<1>1. Typed' /\ Protocol' /\ proc # Idle /\ UNCHANGED <<file, backup, txn>> /\ proc.phase = "begin"
  BY BeginStep DEF Begin, At
<1>2. PICK at \in Nat : Moved(IF live.op = "install" THEN "target" ELSE "leave", at, Stage("APPLYING"))
  BY BeginStep
<1>3. Stage("APPLYING").stage = "APPLYING" /\ Stage("APPLYING").op = live.op /\ Stage("APPLYING").records = live.records
  BY <1>1, StageIs
<1>4. ~Resolved'
  BY <1>2, <1>3 DEF Moved, Resolved
<1> QED BY <1>1, <1>2, <1>3, <1>4, UndoMoved DEF Moved, Backward, Rolling

LEMMA SelectUndo ==
    ASSUME Typed, Protocol, UndoInv, Select
    PROVE  UndoInv'
<1>1. Typed' /\ Protocol' /\ proc # Idle /\ proc' # Idle /\ UNCHANGED <<file, backup, txn>> /\ proc.phase = "target"
  BY SelectStep DEF Select
<1>2. PICK phase \in {"manifest", "target", "write"}, at \in Int, j \in {live, Applied(Now, New(Now))} :
         /\ Moved(phase, at, j)
         /\ j.stage = live.stage /\ j.op = live.op /\ j.records = live.records
  <2>1. CASE proc.at \in Place /\ Moved("write", proc.at, Applied(Now, New(Now)))
    <3>1. New(Now) \in Content /\ Now \in Target
      BY <1>1, <2>1, NewIs, Places DEF Now
    <3>2. /\ Applied(Now, New(Now)).stage = live.stage /\ Applied(Now, New(Now)).op = live.op
          /\ Applied(Now, New(Now)).records = live.records
      BY <1>1, <3>1, AppliedIs
    <3> QED BY <2>1, <3>2 DEF Place
  <2>2. CASE ~(proc.at \in Place /\ Moved("write", proc.at, Applied(Now, New(Now))))
    BY <1>1, <2>2, SelectStep, Engaged
  <2> QED BY <2>1, <2>2
<1>3. ~Resolved'
  BY <1>1, <1>2, Engaged DEF Moved, Resolved, Working, Forward
<1> QED BY <1>1, <1>2, <1>3, UndoMoved DEF Moved, Backward, Rolling

LEMMA RecordUndo ==
    ASSUME Typed, Protocol, UndoInv, Record
    PROVE  UndoInv'
<1>1. /\ Typed' /\ Protocol' /\ proc # Idle /\ proc' # Idle /\ UNCHANGED <<file, backup, txn>> /\ proc.phase = "record"
      /\ Now \in Target
  BY RecordStep DEF Record
<1>2. PICK phase \in {"base", "target"}, j \in {Applied(Now, file[Now])} :
         /\ Moved(phase, proc.at + 1, j)
         /\ j.stage = live.stage /\ j.op = live.op /\ j.records = live.records
  <2>1. Applied(Now, file[Now]).stage = live.stage /\ Applied(Now, file[Now]).op = live.op
        /\ Applied(Now, file[Now]).records = live.records
    BY <1>1, AppliedIs, ContentIs
  <2> QED BY <2>1, RecordStep
<1>3. ~Resolved'
  BY <1>1, <1>2, Engaged DEF Moved, Resolved, Working, Forward
<1> QED BY <1>1, <1>2, <1>3, UndoMoved DEF Moved, Backward, Rolling

LEMMA LeaveBaseUndo ==
    ASSUME Typed, Protocol, UndoInv, LeaveBase
    PROVE  UndoInv'
<1>1. /\ Typed' /\ Protocol' /\ proc # Idle /\ proc' # Idle /\ UNCHANGED <<file, backup, txn>>
      /\ Moved("activate", proc.at, Stage("ACTIVATING"))
  BY LeaveBaseStep DEF LeaveBase
<1>2. /\ Stage("ACTIVATING").stage = "ACTIVATING" /\ Stage("ACTIVATING").op = live.op
      /\ Stage("ACTIVATING").records = live.records
  BY <1>1, StageIs
<1>3. ~Resolved'
  BY <1>1, <1>2 DEF Moved, Resolved
<1> QED BY <1>1, <1>2, <1>3, UndoMoved DEF Moved, Backward, Rolling

LEMMA ActivateUndo ==
    ASSUME Typed, Protocol, UndoInv, Activate
    PROVE  UndoInv'
<1>1. /\ Typed' /\ Protocol' /\ proc # Idle /\ proc' # Idle /\ UNCHANGED <<file, backup, txn>>
      /\ Moved("target", proc.at, live) /\ proc.phase = "activate"
  BY ActivateStep DEF Activate
<1>2. ~Resolved'
  BY <1>1, Engaged DEF Moved, Resolved, Working, Forward
<1> QED BY <1>1, <1>2, UndoMoved DEF Moved, Backward, Rolling

LEMMA LeaveUndo ==
    ASSUME Typed, Protocol, UndoInv, Leave
    PROVE  UndoInv'
<1>1. /\ Typed' /\ Protocol' /\ proc # Idle /\ proc' # Idle /\ UNCHANGED <<file, backup, txn>>
      /\ Moved("undo", proc.at, live) /\ proc.phase = "leave"
  BY LeaveStep DEF Leave
<1>2. ~Resolved'
  BY <1>1, Engaged DEF Moved, Resolved, Working, Backward
<1> QED BY <1>1, <1>2, UndoMoved DEF Moved, Backward, Rolling

LEMMA RecordUndoneUndo ==
    ASSUME Typed, Protocol, UndoInv, RecordUndone
    PROVE  UndoInv'
<1>1. /\ Typed' /\ Protocol' /\ proc # Idle /\ proc' # Idle /\ UNCHANGED <<file, backup, txn>>
      /\ Moved("undo", proc.at - 1, Applied(Now, file[Now])) /\ proc.phase = "undone" /\ Now \in Target
  BY RecordUndoneStep DEF RecordUndone
<1>2. Applied(Now, file[Now]).stage = live.stage /\ Applied(Now, file[Now]).op = live.op
      /\ Applied(Now, file[Now]).records = live.records
  BY <1>1, AppliedIs, ContentIs
<1>3. ~Resolved'
  BY <1>1, <1>2, Engaged DEF Moved, Resolved, Working, Backward
<1> QED BY <1>1, <1>2, <1>3, UndoMoved DEF Moved, Backward, Rolling

LEMMA ReturnUndo ==
    ASSUME Typed, Protocol, UndoInv, Return
    PROVE  UndoInv'
<1>1. /\ Typed' /\ Protocol' /\ proc # Idle /\ proc' # Idle /\ UNCHANGED <<file, backup, txn>>
      /\ Moved("commit", 0, live) /\ proc.phase = "undo" /\ live.op = "uninstall"
  BY ReturnStep DEF Return
<1>2. ~Resolved'
  BY <1>1, Engaged DEF Moved, Resolved, Working, Backward
<1> QED BY <1>1, <1>2, UndoMoved DEF Moved, Backward, Rolling

LEMMA DeactivateUndo ==
    ASSUME Typed, Protocol, UndoInv, Deactivate
    PROVE  UndoInv'
<1>1. /\ Typed' /\ Protocol' /\ proc # Idle /\ proc' # Idle /\ UNCHANGED <<file, backup, txn>>
      /\ Moved("restore", proc.at, live) /\ proc.phase = "rollback"
  BY DeactivateStep DEF Deactivate
<1>2. ~Resolved' /\ proc.at = Len(Order) /\ Len(Order) \in Nat
  BY <1>1, Engaged DEF Moved, Resolved, Working
<1>3. Plain' /\ BackupsSound' /\ Unwritten' /\ Recorded'
  BY <1>1, Engaged DEF UndoInv, Plain, BackupsSound, Revertible, Unwritten, Recorded, Moved
<1>4. VersionSound'
  <2>1. Revertible(file[State]) => Revertible(file[State])'
    BY <1>1 DEF Revertible
  <2>2. BeingInstalled => BeingInstalled'
    BY <1>1, <1>2 DEF BeingInstalled, Moved
  <2> QED BY <2>1, <2>2 DEF UndoInv, VersionSound
<1>5. Complete' /\ Undoes'
  BY <1>1 DEF Complete, Undoes, Backward, Moved
<1>6. NotReached'
  BY <1>1 DEF UndoInv, NotReached, Revertible, Moved
<1>7. GivenBack'
  BY <1>1, <1>2 DEF GivenBack, Moved, Place
<1> QED BY <1>3, <1>4, <1>5, <1>6, <1>7 DEF UndoInv

LEMMA RestoreHostUndo ==
    ASSUME Typed, Protocol, UndoInv, RestoreHost
    PROVE  UndoInv'
<1>1. /\ Typed' /\ Protocol' /\ proc # Idle /\ proc' # Idle /\ UNCHANGED <<file, backup, txn, live>>
      /\ proc'.phase = "end" /\ proc.phase = "restore" /\ proc.at = 0 /\ proc'.records = proc.records
      /\ (proc.error => proc'.error)
  BY RestoreHostStep DEF RestoreHost
<1>2. Plain' /\ BackupsSound' /\ Unwritten' /\ Recorded'
  BY <1>1 DEF UndoInv, Plain, BackupsSound, Revertible, Unwritten, Recorded
<1>3. VersionSound'
  BY <1>1 DEF UndoInv, VersionSound, Revertible, BeingInstalled, Resolved
<1>4. Complete' /\ Undoes'
  BY <1>1 DEF Complete, Undoes, Backward
<1>5. NotReached'
  BY <1>1 DEF UndoInv, NotReached, Revertible, Rolling
<1>6. GivenBack'
  BY <1>1, Places DEF UndoInv, GivenBack, Place, Rolling
<1> QED BY <1>2, <1>3, <1>4, <1>5, <1>6 DEF UndoInv

(* The process is gone; its journal is as it was. *)
LEMMA CrashUndo ==
    ASSUME Typed, Protocol, UndoInv, Crash
    PROVE  UndoInv'
<1>1. Typed' /\ Protocol' /\ proc # Idle /\ proc' = Idle /\ UNCHANGED <<file, host, backup, live, txn, ghost>>
  BY CrashStep
<1>2. Plain' /\ BackupsSound' /\ Unwritten' /\ Recorded'
  BY <1>1 DEF UndoInv, Plain, BackupsSound, Revertible, Unwritten, Recorded, Idle
<1>3. VersionSound'
  BY <1>1 DEF UndoInv, VersionSound, Revertible, BeingInstalled, Resolved
<1>4. Complete' /\ Undoes' /\ NotReached' /\ GivenBack'
  BY <1>1 DEF Complete, Undoes, NotReached, GivenBack
<1> QED BY <1>2, <1>3, <1>4 DEF UndoInv

LEMMA FinishUndo ==
    ASSUME Typed, Protocol, UndoInv, Finish
    PROVE  UndoInv'
<1>1. /\ Typed' /\ Protocol' /\ proc # Idle /\ proc' = Idle /\ UNCHANGED <<file, backup, txn>>
      /\ live' = Nil /\ Resolved
  BY FinishStep DEF Finish
<1>2. Plain' /\ BackupsSound' /\ Unwritten' /\ Recorded'
  BY <1>1 DEF UndoInv, Plain, BackupsSound, Revertible, Unwritten, Recorded, Idle
<1>3. VersionSound'
  BY <1>1 DEF UndoInv, VersionSound, Revertible, BeingInstalled
<1>4. Complete' /\ Undoes' /\ NotReached' /\ GivenBack'
  BY <1>1 DEF Complete, Undoes, NotReached, GivenBack
<1> QED BY <1>2, <1>3, <1>4 DEF UndoInv

LEMMA CommitUndo ==
    ASSUME Typed, Protocol, UndoInv, Commit
    PROVE  UndoInv'
<1>1. /\ Typed' /\ Protocol' /\ proc # Idle /\ proc' # Idle /\ UNCHANGED <<file, backup, txn>>
      /\ proc.phase = "commit" /\ Moved("finish", 0, Stage("COMMITTED")) /\ live # Nil
  BY CommitStep, Engaged DEF Commit
<1>2. Stage("COMMITTED").op = live.op /\ Stage("COMMITTED").records = live.records
  BY <1>1, StageIs
<1>3. Plain' /\ BackupsSound' /\ Unwritten' /\ Recorded'
  BY <1>1, <1>2 DEF UndoInv, Plain, BackupsSound, Revertible, Unwritten, Recorded, Moved
<1>4. VersionSound'
  <2>1. BeingInstalled => Revertible(file[State])
    BY <1>1, Engaged DEF UndoInv, Complete, BeingInstalled, Revertible
  <2> QED BY <1>1, <2>1 DEF UndoInv, VersionSound, Revertible
<1>5. Complete' /\ Undoes' /\ NotReached' /\ GivenBack'
  BY <1>1, <1>2 DEF Complete, Undoes, NotReached, GivenBack, Backward, Rolling, Moved
<1> QED BY <1>3, <1>4, <1>5 DEF UndoInv

LEMMA EndRollbackUndo ==
    ASSUME Typed, Protocol, UndoInv, EndRollback
    PROVE  UndoInv'
<1>1. /\ Typed' /\ Protocol' /\ proc # Idle /\ UNCHANGED <<file, backup, txn>> /\ proc.phase = "end"
      /\ live # Nil /\ live' # Nil /\ proc'.phase # "backup"
      /\ \/ proc.error /\ live' = Stage("RECOVERY_REQUIRED") /\ proc' = Idle
         \/ ~proc.error /\ proc' # Idle /\ Moved("finish", 0, Stage("ROLLED_BACK"))
  BY EndRollbackStep, Engaged DEF EndRollback, Moved, Idle
<1>2. \A s \in {"RECOVERY_REQUIRED", "ROLLED_BACK"} :
         Stage(s).op = live.op /\ Stage(s).records = live.records /\ Stage(s).stage = s
  BY <1>1, StageIs
<1>3. live'.op = live.op /\ live'.records = live.records
  BY <1>1, <1>2 DEF Moved
<1>4. Plain' /\ BackupsSound' /\ Unwritten' /\ Recorded'
  BY <1>1, <1>3 DEF UndoInv, Plain, BackupsSound, Revertible, Unwritten, Recorded
<1>5. VersionSound'
  <2>1. CASE proc.error
    <3>1. ~Resolved'
      BY <1>1, <1>2, <2>1 DEF Resolved
    <3> QED BY <1>1, <1>3, <3>1 DEF UndoInv, VersionSound, BeingInstalled, Revertible
  <2>2. CASE ~proc.error
    <3>1. CASE State \in proc.records
      <4>1. file[State] = backup[txn].files[State] /\ txn \in 1..MaxTxn
        BY <1>1, <2>2, <3>1, Places, Engaged DEF UndoInv, GivenBack, Rolling
      <4> QED BY <1>1, <4>1 DEF UndoInv, BackupsSound, VersionSound, Revertible
    <3>2. CASE State \notin proc.records
      BY <1>1, <3>2 DEF UndoInv, NotReached, Rolling, VersionSound, Revertible
    <3> QED BY <3>1, <3>2
  <2> QED BY <2>1, <2>2
<1>6. Complete' /\ Undoes' /\ NotReached' /\ GivenBack'
  BY <1>1 DEF Complete, Undoes, NotReached, GivenBack, Backward, Rolling, Moved
<1> QED BY <1>4, <1>5, <1>6 DEF UndoInv

LEMMA RecoverUndo ==
    ASSUME Typed, Protocol, UndoInv, Recover
    PROVE  UndoInv'
<1>1. Typed' /\ Protocol' /\ proc = Idle /\ live # Nil /\ UNCHANGED <<file, backup, txn>> /\ Len(Order) \in Nat
  BY RecoverStep, Places DEF Recover
<1>2. CASE Resolved /\ live' = Nil /\ proc' = Idle
  <2>1. Plain' /\ BackupsSound' /\ Unwritten' /\ Recorded'
    BY <1>1, <1>2 DEF UndoInv, Plain, BackupsSound, Revertible, Unwritten, Recorded, Idle
  <2>2. VersionSound'
    BY <1>1, <1>2 DEF UndoInv, VersionSound, Revertible, BeingInstalled
  <2>3. Complete' /\ Undoes' /\ NotReached' /\ GivenBack'
    BY <1>2 DEF Complete, Undoes, NotReached, GivenBack
  <2> QED BY <2>1, <2>2, <2>3 DEF UndoInv
<1>3. CASE /\ ~Resolved /\ live' # Nil /\ live'.stage = "ROLLBACK_STARTED" /\ live'.op = live.op
           /\ live'.records = live.records
           /\ proc' # Idle /\ proc'.phase = "restore" /\ proc'.at = Len(Order) /\ proc'.records = live.records
  <2>1. Plain' /\ BackupsSound' /\ Unwritten' /\ Recorded'
    BY <1>1, <1>3 DEF UndoInv, Plain, BackupsSound, Revertible, Unwritten, Recorded
  <2>2. ~Resolved'
    BY <1>3 DEF Resolved
  <2>3. VersionSound' /\ (State \notin live.records => Revertible(file[State])')
    BY <1>1, <1>3, <2>2 DEF UndoInv, VersionSound, Revertible, BeingInstalled
  <2>4. Complete' /\ Undoes' /\ NotReached'
    BY <1>3, <2>3 DEF Complete, Undoes, NotReached, Backward
  <2>5. GivenBack'
    BY <1>1, <1>3 DEF GivenBack, Place
  <2> QED BY <2>1, <2>3, <2>4, <2>5 DEF UndoInv
<1> QED BY <1>2, <1>3, RecoverStep

LEMMA MissingSound ==
    /\ Revertible(Missing)
    /\ Revertible(Missing)'
BY Nothing DEF Revertible

LEMMA RemoveUndo ==
    ASSUME Typed, Protocol, UndoInv, Remove
    PROVE  UndoInv'
<1>1. /\ Typed' /\ Protocol' /\ proc # Idle /\ UNCHANGED <<backup, txn, live, proc>> /\ proc.phase = "write"
      /\ live.op = "install" /\ Now \in Target /\ file' = [file EXCEPT ![Now] = Missing] /\ live # Nil
  BY RemoveStep, Engaged DEF Remove
<1>2. \A t \in Target : file'[t] = IF t = Now THEN Missing ELSE file[t]
  BY <1>1 DEF Typed
<1>3. Plain' /\ BackupsSound' /\ Unwritten' /\ Recorded'
  BY <1>1, <1>2, Nothing, Places DEF UndoInv, Plain, BackupsSound, Revertible, Unwritten, Recorded
<1>4. VersionSound'
  <2>1. CASE Now = State
    BY <1>2, <2>1, MissingSound, Places DEF VersionSound, Revertible
  <2>2. CASE Now # State
    BY <1>1, <1>2, <2>2, Places DEF UndoInv, VersionSound, Revertible, BeingInstalled, Resolved
  <2> QED BY <2>1, <2>2
<1>5. Complete' /\ Undoes' /\ NotReached' /\ GivenBack'
  BY <1>1 DEF Complete, Undoes, NotReached, GivenBack, Backward, Rolling
<1> QED BY <1>3, <1>4, <1>5 DEF UndoInv

LEMMA ReplaceUndo ==
    ASSUME Typed, Protocol, UndoInv, Replace
    PROVE  UndoInv'
<1>1. /\ Typed' /\ Protocol' /\ proc # Idle /\ proc' # Idle /\ UNCHANGED <<backup, txn>> /\ proc.phase = "write"
      /\ live.op = "install" /\ Now \in Target /\ file' = [file EXCEPT ![Now] = New(Now)] /\ live # Nil
      /\ Moved("record", proc.at, live) /\ Now \in proc.records
  BY ReplaceStep, Engaged DEF Replace
<1>2. \A t \in Target : file'[t] = IF t = Now THEN New(Now) ELSE file[t]
  BY <1>1 DEF Typed
<1>3. New(Now).user = (IF Now \in Merged THEN file[Now].user ELSE 0) /\ (Now # BaseState => New(Now).block = txn)
  BY <1>1, NewIs
<1>4. proc.records = live.records /\ ~Resolved /\ live.records \subseteq backup[txn].records
  BY <1>1, Engaged DEF Working, Forward, Resolved, UndoInv, Recorded
<1>5. Plain'
  BY <1>1, <1>2, <1>3, Places DEF UndoInv, Plain
<1>6. BackupsSound' /\ Unwritten' /\ Recorded'
  BY <1>1 DEF UndoInv, BackupsSound, Revertible, Unwritten, Recorded, Moved
<1>7. VersionSound'
  <2>1. CASE Now = State
    BY <1>1, <1>2, <1>3, <1>4, <2>1, Places DEF VersionSound, BeingInstalled, Resolved, Moved
  <2>2. CASE Now # State
    BY <1>1, <1>2, <2>2, Places DEF UndoInv, VersionSound, Revertible, BeingInstalled, Resolved, Moved
  <2> QED BY <2>1, <2>2
<1>8. Complete' /\ Undoes' /\ NotReached' /\ GivenBack'
  BY <1>1 DEF Complete, Undoes, NotReached, GivenBack, Backward, Rolling, Moved
<1> QED BY <1>5, <1>6, <1>7, <1>8 DEF UndoInv

LEMMA UndoUndo ==
    ASSUME Typed, Protocol, UndoInv, Undo
    PROVE  UndoInv'
<1>1. /\ Typed' /\ Protocol' /\ proc # Idle /\ proc' # Idle /\ UNCHANGED <<backup, txn>> /\ proc.phase = "undo"
      /\ live.op = "uninstall" /\ Now \in Target /\ proc.undo \in 1..txn /\ live # Nil
      /\ proc'.phase \in {"undo", "undone"} /\ live' = live /\ proc'.records = proc.records /\ proc'.undo = proc.undo
  BY UndoStep, Engaged DEF Undo, Moved
<1>2. \/ file' = file
      \/ file' = [file EXCEPT ![Now] = Missing]
      \/ /\ (Now \in Merged \/ file[Now] = Missing)
         /\ file' = [file EXCEPT ![Now] = Old(Now, backup[proc.undo].files[Now])]
  BY UndoStep
<1>3. \A t \in Target \ {Now} : file'[t] = file[t]
  BY <1>2 DEF Typed
<1>4. proc.undo \in 1..MaxTxn /\ backup[proc.undo].files[Now] \in Content
  BY <1>1, Places, BackupIs DEF Typed
<1>5. \/ file'[Now] = file[Now]
      \/ file'[Now] = Missing
      \/ (Now \in Merged \/ file[Now] = Missing) /\ file'[Now] = Old(Now, backup[proc.undo].files[Now])
  BY <1>1, <1>2 DEF Typed
<1>6. Now \notin Merged => file'[Now] \in {file[Now], Missing, backup[proc.undo].files[Now]}
  BY <1>1, <1>4, <1>5, OldIs
<1>7. Plain'
  BY <1>1, <1>3, <1>4, <1>6, Nothing, Places DEF UndoInv, Plain
<1>8. BackupsSound' /\ Unwritten' /\ Recorded'
  BY <1>1 DEF UndoInv, BackupsSound, Revertible, Unwritten, Recorded
<1>9. VersionSound'
  <2>1. Revertible(file[State])
    BY <1>1 DEF UndoInv, VersionSound, BeingInstalled
  <2>2. Revertible(file'[State])
    <3>1. CASE Now = State
      BY <1>4, <1>6, <2>1, <3>1, MissingSound, Places DEF UndoInv, BackupsSound
    <3>2. CASE Now # State
      BY <1>3, <2>1, <3>2, Places
    <3> QED BY <3>1, <3>2
  <2> QED BY <1>1, <2>2 DEF VersionSound, Revertible
<1>10. Complete' /\ Undoes' /\ NotReached' /\ GivenBack'
  BY <1>1 DEF UndoInv, Complete, Undoes, NotReached, GivenBack, Backward, Rolling
<1> QED BY <1>7, <1>8, <1>9, <1>10 DEF UndoInv

LEMMA RestoreUndo ==
    ASSUME Typed, Protocol, UndoInv, Restore
    PROVE  UndoInv'
<1>1. /\ Typed' /\ Protocol' /\ proc # Idle /\ proc' # Idle /\ UNCHANGED <<backup, txn>> /\ proc.phase = "restore"
      /\ Now \in Target /\ txn \in 1..MaxTxn /\ live # Nil /\ proc.at \in Place /\ Now = Order[proc.at]
      /\ proc'.phase \in {"restore", "putback"} /\ live' = live /\ proc'.records = proc.records
      /\ backup[txn].files[Now] \in Content
  BY RestoreStep, Engaged, BackupIs DEF Restore, Moved, Now
<1>2. \/ Now \notin proc.records /\ file' = file /\ proc'.at = proc.at - 1 /\ proc'.error = proc.error
      \/ file' = file /\ proc'.error
      \/ /\ Now \in proc.records /\ Now \notin Merged /\ file' = [file EXCEPT ![Now] = Missing]
         /\ proc'.at = proc.at /\ proc'.error = proc.error
      \/ /\ Now \in proc.records /\ (Now \in Merged \/ file[Now] = Missing)
         /\ file' = [file EXCEPT ![Now] = Old(Now, backup[txn].files[Now])]
         /\ proc'.at = proc.at - 1 /\ proc'.error = proc.error
  BY RestoreStep DEF Moved
<1>3. /\ \A t \in Target \ {Now} : file'[t] = file[t]
      /\ Now \notin proc.records => file'[Now] = file[Now]
      /\ Now \notin Merged => file'[Now] \in {file[Now], Missing, backup[txn].files[Now]}
  BY <1>1, <1>2, OldIs DEF Typed
<1>4. Plain'
  BY <1>1, <1>3, Nothing, Places DEF UndoInv, Plain
<1>5. BackupsSound' /\ Unwritten' /\ Recorded'
  BY <1>1 DEF UndoInv, BackupsSound, Revertible, Unwritten, Recorded
<1>6. VersionSound'
  <2>1. CASE file'[State] = file[State]
    BY <1>1, <2>1 DEF UndoInv, VersionSound, Revertible, BeingInstalled, Resolved
  <2>2. CASE file'[State] # file[State]
    <3>1. file'[State] \in {Missing, backup[txn].files[State]}
      BY <1>3, <2>2, Places
    <3>2. Revertible(file'[State])
      BY <1>1, <3>1, MissingSound DEF UndoInv, BackupsSound
    <3> QED BY <1>1, <3>2 DEF VersionSound, Revertible
  <2> QED BY <2>1, <2>2
<1>7. Complete' /\ Undoes'
  BY <1>1 DEF Complete, Undoes, Backward
<1>8. NotReached'
  <2>1. State \notin proc.records => file'[State] = file[State]
    BY <1>3, Places
  <2> QED BY <1>1, <2>1 DEF UndoInv, NotReached, Revertible, Rolling
<1>9. GivenBack'
  <2> SUFFICES ASSUME ~proc'.error, State \in proc.records,
                      NEW i \in Place, Order[i] = State, i > proc'.at
               PROVE  file'[State] = backup[txn].files[State]
    BY <1>1 DEF GivenBack
  <2>1. CASE Now = State
    <3>1. i = proc.at
      BY <1>1, <2>1, Places
    <3>2. (Now \in Merged \/ file[Now] = Missing) /\ file' = [file EXCEPT ![Now] = Old(Now, backup[txn].files[Now])]
      BY <1>2, <2>1, <3>1, Places DEF Place
    <3> QED BY <1>1, <2>1, <3>2, OldIs, Places DEF Typed
  <2>2. CASE Now # State
    <3>1. i > proc.at /\ ~proc.error
      <4>1. i # proc.at
        BY <1>1, <2>2
      <4> QED BY <1>1, <1>2, <4>1, Places DEF Place
    <3> QED BY <1>1, <1>3, <2>2, <3>1, Places DEF UndoInv, GivenBack, Rolling
  <2> QED BY <2>1, <2>2
<1> QED BY <1>4, <1>5, <1>6, <1>7, <1>8, <1>9 DEF UndoInv

LEMMA PutBackUndo ==
    ASSUME Typed, Protocol, UndoInv, PutBack
    PROVE  UndoInv'
<1>1. /\ Typed' /\ Protocol' /\ proc # Idle /\ proc' # Idle /\ UNCHANGED <<backup, txn>> /\ proc.phase = "putback"
      /\ Now \in Target /\ txn \in 1..MaxTxn /\ live # Nil /\ proc.at \in Place /\ Now = Order[proc.at]
      /\ Now \in proc.records
      /\ proc'.phase = "restore" /\ live' = live /\ proc'.records = proc.records /\ proc'.at = proc.at - 1
      /\ proc'.error = proc.error /\ backup[txn].files[Now] \in Content
  BY PutBackStep, Engaged, BackupIs DEF PutBack, Moved, Now
<1>2. \A t \in Target : file'[t] = IF t = Now THEN backup[txn].files[Now] ELSE file[t]
  BY PutBackStep DEF Typed
<1>3. Plain'
  BY <1>1, <1>2, Places DEF UndoInv, Plain
<1>4. BackupsSound' /\ Unwritten' /\ Recorded'
  BY <1>1 DEF UndoInv, BackupsSound, Revertible, Unwritten, Recorded
<1>5. VersionSound'
  <2>1. CASE Now = State
    BY <1>1, <1>2, <2>1, Places DEF UndoInv, BackupsSound, VersionSound, Revertible
  <2>2. CASE Now # State
    BY <1>1, <1>2, <2>2, Places DEF UndoInv, VersionSound, Revertible, BeingInstalled, Resolved
  <2> QED BY <2>1, <2>2
<1>6. Complete' /\ Undoes'
  BY <1>1 DEF Complete, Undoes, Backward
<1>7. NotReached'
  BY <1>1, <1>2, Places DEF UndoInv, NotReached, Revertible, Rolling
<1>8. GivenBack'
  <2> SUFFICES ASSUME ~proc.error, State \in proc.records, NEW i \in Place, Order[i] = State, i > proc.at - 1
               PROVE  file'[State] = backup[txn].files[State]
    BY <1>1 DEF GivenBack
  <2>1. CASE i = proc.at
    BY <1>1, <1>2, <2>1, Places
  <2>2. CASE i > proc.at
    BY <1>1, <1>2, <2>2, Places DEF UndoInv, GivenBack, Rolling
  <2> QED BY <1>1, <2>1, <2>2, Places DEF Place
<1> QED BY <1>3, <1>4, <1>5, <1>6, <1>7, <1>8 DEF UndoInv

LEMMA EditUndo ==
    ASSUME Typed, Protocol, UndoInv, NEW t \in Target, Edit(t)
    PROVE  UndoInv'
<1>1. UNCHANGED <<host, backup, live, proc, txn>> /\ file'[State] = file[State] /\ file'[BaseState] = file[BaseState]
  BY EditStep, Places DEF Edited, Typed
<1> QED BY <1>1 DEF UndoInv, Plain, BackupsSound, Revertible, Unwritten, Recorded, VersionSound,
                    BeingInstalled, Resolved,
           Complete, Undoes, NotReached, GivenBack

LEMMA WriteManifestUndo ==
    ASSUME Typed, Protocol, UndoInv, WriteManifest
    PROVE  UndoInv'
<1>1. /\ Typed' /\ Protocol' /\ proc # Idle /\ proc' # Idle /\ proc.phase = "manifest" /\ live.op = "install"
      /\ backup'[txn].manifest /\ UNCHANGED <<file, txn>> /\ txn \in 1..MaxTxn /\ live # Nil
      /\ \A b \in 1..MaxTxn : /\ backup'[b].files = backup[b].files /\ backup'[b].records = backup[b].records
                              /\ b # txn => backup'[b].manifest = backup[b].manifest
      /\ Moved("commit", 0, live)
  BY WriteManifestStep, Engaged DEF WriteManifest
<1>2. \A c \in Content : Revertible(c) => Revertible(c)'
  <2>1. txn' >= txn
    BY <1>1
  <2> QED BY <1>1, <2>1, SoundStays
<1>3. Plain' /\ Unwritten' /\ Recorded'
  BY <1>1 DEF UndoInv, Plain, Unwritten, Recorded, Moved
<1>4. BackupsSound'
  <2> SUFFICES ASSUME NEW b \in 1..MaxTxn PROVE Revertible(backup[b].files[State])'
    BY DEF BackupsSound
  <2>1. Revertible(backup[b].files[State]) /\ backup[b].files[State] \in Content
    BY BackupIs, Places DEF UndoInv, BackupsSound
  <2>2. backup'[b].files[State] = backup[b].files[State]
    BY <1>1
  <2> QED BY <1>2, <2>1, <2>2
<1>5. VersionSound'
  <2>1. Revertible(file[State]) => Revertible(file[State])'
    BY <1>1, <1>2, ContentIs, Places
  <2>2. BeingInstalled => BeingInstalled'
    BY <1>1 DEF BeingInstalled, Resolved, Moved
  <2> QED BY <2>1, <2>2 DEF UndoInv, VersionSound
<1>6. Complete' /\ Undoes' /\ NotReached' /\ GivenBack'
  BY <1>1 DEF Complete, Undoes, NotReached, GivenBack, Backward, Rolling, Moved
<1> QED BY <1>3, <1>4, <1>5, <1>6 DEF UndoInv

LEMMA FailUndo ==
    ASSUME Typed, Protocol, UndoInv, Fail
    PROVE  UndoInv'
<1>1. /\ Typed' /\ Protocol' /\ proc # Idle /\ proc' # Idle /\ live.op = "install"
      /\ UNCHANGED <<file, txn>> /\ txn \in 1..MaxTxn /\ live # Nil
      /\ live' # Nil /\ live'.op = "install" /\ live'.stage = "ROLLBACK_STARTED" /\ live'.records = live.records
      /\ proc'.phase = "rollback"
  BY FailStep, Engaged DEF Fail, FailedEarly, FailedLate, Moved, Working
<1>2. ~Resolved'
  BY <1>1 DEF Resolved
<1>3. Complete' /\ Undoes' /\ GivenBack'
  BY <1>1 DEF Complete, Undoes, GivenBack, Backward, Rolling
<1>4. CASE FailedLate
  <2>1. UNCHANGED backup /\ proc'.records = proc.records
    BY <1>4 DEF FailedLate, Moved
  <2>2. Plain' /\ BackupsSound' /\ Unwritten' /\ Recorded'
    BY <1>1, <2>1 DEF UndoInv, Plain, BackupsSound, Revertible, Unwritten, Recorded
  <2>3. VersionSound'
    BY <1>1, <1>2, <2>1 DEF UndoInv, VersionSound, Revertible, BeingInstalled
  <2>4. NotReached'
    <3>1. State \notin proc.records => Revertible(file[State])
      BY <1>1, Engaged DEF UndoInv, VersionSound, BeingInstalled, Working
    <3> QED BY <1>1, <2>1, <3>1 DEF NotReached, Revertible
  <2> QED BY <1>3, <2>2, <2>3, <2>4 DEF UndoInv
<1>5. CASE FailedEarly
  <2>1. /\ proc.phase = "backup" /\ backup'[txn].files = file /\ backup'[txn].manifest = backup[txn].manifest
        /\ \A b \in 1..MaxTxn : b # txn => backup'[b] = backup[b]
        /\ live'.records = {}
    BY <1>5 DEF FailedEarly
  <2>2. ~backup[txn].manifest /\ live.stage = "PREPARED"
    BY <1>1, <2>1, Engaged DEF UndoInv, Unwritten, Working
  <2>3. \A c \in Content : Revertible(c) => Revertible(c)'
    <3>1. txn' >= txn
      BY <1>1
    <3> QED BY <1>1, <2>1, <2>2, <3>1, SoundStays
  <2>4. Revertible(file[State]) /\ Revertible(file[State])'
    <3>1. Revertible(file[State])
      BY <2>2 DEF UndoInv, VersionSound, BeingInstalled, Resolved
    <3> QED BY <1>1, <2>3, <3>1, ContentIs, Places
  <2>5. Plain'
    BY <1>1, <2>1 DEF UndoInv, Plain
  <2>6. BackupsSound'
    <3> SUFFICES ASSUME NEW b \in 1..MaxTxn PROVE Revertible(backup[b].files[State])'
      BY DEF BackupsSound
    <3>1. CASE b = txn
      BY <1>1, <2>1, <2>4, <3>1 DEF Revertible
    <3>2. CASE b # txn
      <4>1. Revertible(backup[b].files[State]) /\ backup[b].files[State] \in Content
        BY BackupIs, Places DEF UndoInv, BackupsSound
      <4>2. backup'[b].files[State] = backup[b].files[State]
        BY <2>1, <3>2
      <4> QED BY <2>3, <4>1, <4>2
    <3> QED BY <3>1, <3>2
  <2>7. Unwritten' /\ Recorded'
    BY <1>1, <2>1 DEF UndoInv, Unwritten, Recorded
  <2>8. VersionSound' /\ NotReached'
    BY <2>4 DEF VersionSound, NotReached
  <2> QED BY <1>3, <2>5, <2>6, <2>7, <2>8 DEF UndoInv
<1> QED BY <1>4, <1>5, FailStep

LEMMA BeginningUndo ==
    ASSUME InstallerInit
    PROVE  Typed /\ Protocol /\ UndoInv
<1>1. file \in [Target -> Content] /\ host \in HostState /\ txn \in 0..MaxTxn
  <2>1. Package(0) \in Content /\ Missing \in Content
    BY Nothing, Places
  <2> QED BY <2>1, Places, InstallerAssumption DEF InstallerInit, HostState, InstallerAssumption
<1>2. backup \in [1..MaxTxn -> Backup]
  BY Nothing DEF InstallerInit, Backup
<1>3. count \in [visits : 0..MaxVisits, faults : Nat]
  BY Places DEF InstallerInit
<1>4. ghost \in Ghost
  BY DEF InstallerInit, Ghost
<1>5. live = Nil /\ proc = Idle
  BY DEF InstallerInit
<1>6. Typed /\ Protocol
  BY <1>1, <1>2, <1>3, <1>4, <1>5 DEF Typed, Protocol
<1>7. \A t \in Target : file[t].user = 0 /\ (t # BaseState => file[t] = Missing)
  BY Nothing, Places DEF InstallerInit
<1>8. \A b \in 1..MaxTxn : ~backup[b].manifest /\ \A t \in Target : backup[b].files[t] = Missing
  BY DEF InstallerInit
<1>9. Plain /\ BackupsSound /\ Unwritten /\ VersionSound
  BY <1>7, <1>8, Nothing, MissingSound, Places DEF Plain, BackupsSound, Unwritten, VersionSound
<1>10. Recorded /\ Complete /\ Undoes /\ NotReached /\ GivenBack
  BY <1>5 DEF Recorded, Complete, Undoes, NotReached, GivenBack
<1> QED BY <1>6, <1>9, <1>10 DEF UndoInv

LEMMA UndoInductive ==
    ASSUME Typed, Protocol, UndoInv, [InstallerNext]_installation
    PROVE  Typed' /\ Protocol' /\ UndoInv'
<1>1. CASE Install \/ \E force \in BOOLEAN : Uninstall(force)
  <2>1. PICK op \in {"install", "uninstall"}, force \in BOOLEAN : Start(op, force)
    BY <1>1 DEF Install, Uninstall
  <2> QED BY <1>1, <2>1, StartStep, StartUndo
<1>2. CASE BackUp
  BY <1>2, BackUpStep, BackUpUndo
<1>3. CASE Begin
  BY <1>3, BeginStep, BeginUndo
<1>4. CASE Select
  BY <1>4, SelectStep, SelectUndo
<1>5. CASE Remove
  BY <1>5, RemoveStep, RemoveUndo
<1>6. CASE Replace
  BY <1>6, ReplaceStep, ReplaceUndo
<1>7. CASE Record
  BY <1>7, RecordStep, RecordUndo
<1>8. CASE LeaveBase
  BY <1>8, LeaveBaseStep, LeaveBaseUndo
<1>9. CASE Activate
  BY <1>9, ActivateStep, ActivateUndo
<1>10. CASE WriteManifest
  BY <1>10, WriteManifestStep, WriteManifestUndo
<1>11. CASE Leave
  BY <1>11, LeaveStep, LeaveUndo
<1>12. CASE Undo
  BY <1>12, UndoStep, UndoUndo
<1>13. CASE RecordUndone
  BY <1>13, RecordUndoneStep, RecordUndoneUndo
<1>14. CASE Return
  BY <1>14, ReturnStep, ReturnUndo
<1>15. CASE Commit
  BY <1>15, CommitStep, CommitUndo
<1>16. CASE Finish
  BY <1>16, FinishStep, FinishUndo
<1>17. CASE Fail
  BY <1>17, FailStep, FailUndo
<1>18. CASE Deactivate
  BY <1>18, DeactivateStep, DeactivateUndo
<1>19. CASE Restore
  BY <1>19, RestoreStep, RestoreUndo
<1>20. CASE PutBack
  BY <1>20, PutBackStep, PutBackUndo
<1>21. CASE RestoreHost
  BY <1>21, RestoreHostStep, RestoreHostUndo
<1>22. CASE EndRollback
  BY <1>22, EndRollbackStep, EndRollbackUndo
<1>23. CASE Recover
  BY <1>23, RecoverStep, RecoverUndo
<1>24. CASE Crash
  BY <1>24, CrashStep, CrashUndo
<1>25. CASE \E t \in Target : Edit(t)
  BY <1>25, EditStep, EditUndo
<1>26. CASE UNCHANGED installation
  BY <1>26 DEF installation, Typed, Protocol, Working, Now, UndoInv, Plain, BackupsSound, Revertible,
               Unwritten, Recorded,
               VersionSound, BeingInstalled, Resolved, Complete, Undoes, NotReached, GivenBack
<1> QED BY <1>1, <1>2, <1>3, <1>4, <1>5, <1>6, <1>7, <1>8, <1>9, <1>10, <1>11, <1>12, <1>13, <1>14, <1>15,
           <1>16, <1>17, <1>18, <1>19, <1>20, <1>21, <1>22, <1>23, <1>24, <1>25, <1>26
        DEF InstallerNext, InstallStep, UninstallStep, RollbackStep

(* The variables have their types, in every reachable state. *)
THEOREM InstallerTypeCorrect == InstallerSpec => []InstallerType
<1>1. InstallerInit => Typed /\ Protocol /\ UndoInv
  BY BeginningUndo
<1>2. Typed /\ Protocol /\ UndoInv /\ [InstallerNext]_installation => (Typed /\ Protocol /\ UndoInv)'
  BY UndoInductive
<1>3. Typed /\ Protocol /\ UndoInv => InstallerType
  BY DEF Typed, Process, InstallerType, Backup
<1> QED BY <1>1, <1>2, <1>3, PTL DEF InstallerSpec

(* The installed version can be undone: whenever no transaction is live,   *)
(* the backup the state file names has its manifest, and the state file is *)
(* among its records.                                                      *)
THEOREM InstalledCanBeUndone == InstallerSpec => []Undoable
<1>1. InstallerInit => Typed /\ Protocol /\ UndoInv
  BY BeginningUndo
<1>2. Typed /\ Protocol /\ UndoInv /\ [InstallerNext]_installation => (Typed /\ Protocol /\ UndoInv)'
  BY UndoInductive
<1>3. Typed /\ Protocol /\ UndoInv => Undoable
  BY DEF Undoable, AtRest, Version, UndoInv, VersionSound, Revertible, BeingInstalled, Resolved
<1> QED BY <1>1, <1>2, <1>3, PTL DEF InstallerSpec

-------------------------------------------------------------------------------
(* Nothing the user wrote is lost.                                         *)

LEMMA KeptStays ==
    ASSUME Typed, Typed', ghost.waived \subseteq ghost'.waived, txn' >= txn,
           \A b \in 1..MaxTxn : \/ backup'[b].files = backup[b].files
                                \/ \A t \in Target : backup[b].files[t].user = 0
    PROVE  \A u : Kept(u) => Kept(u)'
<1> SUFFICES ASSUME NEW u, Kept(u), u # 0, u \notin ghost'.waived
             PROVE  \E b \in 1..txn', t \in Target : backup'[b].files[t].user = u
  BY DEF Kept
<1>1. PICK b \in 1..txn, t \in Target : backup[b].files[t].user = u
  BY DEF Kept
<1>2. txn \in Nat /\ txn' \in Nat /\ txn <= MaxTxn /\ MaxTxn \in Nat
  BY Places DEF Typed
<1>3. b \in 1..MaxTxn /\ b \in 1..txn'
  BY <1>2
<1>4. backup'[b].files[t].user = u
  BY <1>1, <1>3
<1> QED BY <1>3, <1>4

LEMMA BackedUpIsKept == \A b \in 1..txn, t \in Target : Kept(backup[b].files[t].user)
BY DEF Kept

(* A step that changes no file, backup or edit. *)
LEMMA KeptMoved ==
    ASSUME Typed, Protocol, KeptInv, Typed', Protocol', UNCHANGED <<file, backup, txn>>, count'.visits = count.visits,
           ghost'.waived = ghost.waived, proc'.phase \notin {"putback", "backup"},
           proc' # Idle /\ ~proc'.recovering => proc # Idle /\ ~proc.recovering /\ proc.phase # "backup",
           live' # Nil => live # Nil /\ \A t \in Target : \/ live'.applied[t] = live.applied[t]
                                                          \/ Kept(live'.applied[t].user)
    PROVE  KeptInv'
<1>1. \A u : Kept(u) <=> Kept(u)'
  BY DEF Kept
<1>2. Accounted'
  BY <1>1 DEF KeptInv, Accounted
<1>3. Secured' /\ HandSecured'
  BY <1>1 DEF KeptInv, Secured, HandSecured
<1>4. JournalSecured'
  BY <1>1 DEF KeptInv, JournalSecured
<1>5. Unsaved'
  BY DEF KeptInv, Unsaved
<1> QED BY <1>2, <1>3, <1>4, <1>5 DEF KeptInv

(* A step that changes a target whose edits are kept, or keeps them in it. *)
LEMMA KeptChanged ==
    ASSUME Typed, Protocol, KeptInv, Typed', Protocol', UNCHANGED <<backup, txn, ghost, count>>,
           live' = live, live # Nil, NEW t \in Target, NEW c \in Content, file' = [file EXCEPT ![t] = c],
           Kept(file[t].user) \/ c.user = file[t].user, Kept(c.user) \/ c.user = file[t].user,
           proc'.phase # "backup", proc'.phase = "putback" => Now' = t /\ Kept(c.user),
           ~proc'.recovering => proc # Idle /\ ~proc.recovering /\ proc.phase # "backup"
    PROVE  KeptInv'
<1>1. \A u : Kept(u) <=> Kept(u)'
  BY DEF Kept
<1>2. \A k \in Target : file'[k] = IF k = t THEN c ELSE file[k]
  BY DEF Typed
<1>3. Accounted'
  <2> SUFFICES ASSUME NEW n \in 1..count.visits PROVE Kept(n)' \/ \E k \in Target : file'[k].user = n
    BY DEF Accounted
  <2>1. CASE Kept(n)
    BY <1>1, <2>1
  <2>2. CASE \E k \in Target : file[k].user = n
    BY <1>1, <1>2, <2>2
  <2> QED BY <2>1, <2>2 DEF KeptInv, Accounted
<1>4. Secured'
  BY <1>1, <1>2 DEF KeptInv, Secured
<1>5. HandSecured'
  BY <1>1, <1>2 DEF HandSecured
<1>6. JournalSecured' /\ Unsaved'
  BY <1>1 DEF KeptInv, JournalSecured, Unsaved
<1> QED BY <1>3, <1>4, <1>5, <1>6 DEF KeptInv

LEMMA StartKept ==
    ASSUME Typed, Protocol, KeptInv, Install \/ \E force \in BOOLEAN : Uninstall(force)
    PROVE  KeptInv'
<1>1. PICK op \in {"install", "uninstall"}, force \in BOOLEAN : Start(op, force)
  BY DEF Install, Uninstall
<1>2. /\ Typed' /\ Protocol' /\ proc = Idle /\ proc' # Idle /\ txn' = txn + 1 /\ txn' \in 1..MaxTxn /\ txn \in Nat
      /\ live'.applied = [t \in Target |-> Nil] /\ proc'.phase = "backup"
  BY <1>1, StartStep DEF Typed
<1>3. UNCHANGED <<file, backup, count, ghost>>
  BY <1>1 DEF Start
<1>4. \A u : Kept(u) => Kept(u)'
  BY <1>2, <1>3, KeptStays
<1>5. Accounted'
  BY <1>3, <1>4 DEF KeptInv, Accounted
<1>6. Secured' /\ JournalSecured' /\ HandSecured'
  BY <1>2 DEF Secured, JournalSecured, HandSecured
<1>7. Unsaved'
  BY <1>2, <1>3 DEF KeptInv, Unsaved
<1> QED BY <1>5, <1>6, <1>7 DEF KeptInv

LEMMA BackUpKept ==
    ASSUME Typed, Protocol, UndoInv, KeptInv, BackUp
    PROVE  KeptInv'
<1>1. /\ Typed' /\ Protocol' /\ proc # Idle /\ proc' # Idle /\ backup'[txn].files = file
      /\ \A b \in 1..MaxTxn : b # txn => backup'[b] = backup[b]
      /\ \A t \in Target : live'.applied[t] # Nil => live'.applied[t] = file[t]
      /\ proc'.phase = "begin"
  BY BackUpStep
<1>2. UNCHANGED <<file, txn, count, ghost>> /\ proc.phase = "backup" /\ txn \in 1..MaxTxn
  BY <1>1, Engaged DEF BackUp, At
<1>3. \A t \in Target : backup[txn].files[t].user = 0
  BY <1>2 DEF KeptInv, Unsaved
<1>4. \A u : Kept(u) => Kept(u)'
  BY <1>1, <1>2, <1>3, KeptStays DEF Typed
<1>5. \A t \in Target : Kept(file[t].user)'
  BY <1>1, <1>2 DEF Kept
<1>6. Accounted'
  BY <1>2, <1>4 DEF KeptInv, Accounted
<1>7. Secured' /\ JournalSecured' /\ HandSecured'
  BY <1>1, <1>2, <1>5 DEF Secured, JournalSecured, HandSecured
<1>8. Unsaved'
  BY <1>1, <1>2 DEF KeptInv, Unsaved
<1> QED BY <1>6, <1>7, <1>8 DEF KeptInv

LEMMA FailKept ==
    ASSUME Typed, Protocol, UndoInv, KeptInv, Fail
    PROVE  KeptInv'
<1>1. /\ Typed' /\ Protocol' /\ proc # Idle /\ proc' # Idle /\ live.op = "install" /\ ~proc.recovering
      /\ UNCHANGED <<file, txn>> /\ count'.visits = count.visits /\ txn \in 1..MaxTxn /\ live # Nil
  BY FailStep, Engaged DEF Fail
<1>2. CASE FailedLate
  <2>1. /\ UNCHANGED <<backup, ghost>> /\ proc.phase # "backup" /\ proc'.phase = "rollback"
        /\ \A t \in Target : \/ live'.applied[t] = live.applied[t]
                             \/ proc.phase = "record" /\ t = Now /\ live'.applied[t] = file[Now]
    BY <1>2 DEF FailedLate, Moved
  <2>2. \A t \in Target : live'.applied[t] = live.applied[t] \/ Kept(live'.applied[t].user)
    BY <1>1, <2>1 DEF KeptInv, Secured
  <2> QED BY <1>1, <2>1, <2>2, KeptMoved
<1>3. CASE FailedEarly
  <2>1. /\ proc.phase = "backup" /\ backup'[txn].files = file /\ proc'.phase = "rollback"
        /\ \A b \in 1..MaxTxn : b # txn => backup'[b] = backup[b]
        /\ live'.applied = live.applied /\ ghost'.waived = ghost.waived
    BY <1>3 DEF FailedEarly
  <2>2. \A t \in Target : backup[txn].files[t].user = 0
    BY <1>1, <2>1 DEF KeptInv, Unsaved
  <2>3. \A u : Kept(u) => Kept(u)'
    BY <1>1, <2>1, <2>2, KeptStays DEF Typed
  <2>4. \A t \in Target : Kept(file[t].user)'
    BY <1>1, <2>1 DEF Kept
  <2>5. Accounted'
    BY <1>1, <2>3 DEF KeptInv, Accounted
  <2>6. Secured' /\ HandSecured'
    BY <1>1, <2>1, <2>4 DEF Secured, HandSecured
  <2>7. JournalSecured'
    BY <1>1, <2>1, <2>3 DEF KeptInv, JournalSecured
  <2>8. Unsaved'
    BY <1>1, <2>1 DEF KeptInv, Unsaved
  <2> QED BY <2>5, <2>6, <2>7, <2>8 DEF KeptInv
<1> QED BY <1>2, <1>3, FailStep

LEMMA WriteManifestKept ==
    ASSUME Typed, Protocol, KeptInv, WriteManifest
    PROVE  KeptInv'
<1>1. /\ Typed' /\ Protocol' /\ proc # Idle /\ proc' # Idle /\ proc.phase = "manifest" /\ live # Nil
      /\ \A b \in 1..MaxTxn : backup'[b].files = backup[b].files
      /\ Moved("commit", 0, live) /\ UNCHANGED <<file, txn, ghost, count>> /\ txn \in Nat /\ ~proc.recovering
  <2>1. /\ Typed' /\ Protocol' /\ proc # Idle /\ proc' # Idle /\ proc.phase = "manifest"
        /\ \A b \in 1..MaxTxn : backup'[b].files = backup[b].files
        /\ Moved("commit", 0, live) /\ UNCHANGED <<file, txn, ghost, count>>
    BY WriteManifestStep DEF WriteManifest
  <2>2. Working /\ live # Nil /\ txn \in 1..MaxTxn
    BY <2>1, Engaged
  <2> QED BY <2>1, <2>2 DEF Working, Rolling
<1>2. \A u : Kept(u) => Kept(u)'
  <2>1. txn' >= txn
    BY <1>1
  <2> QED BY <1>1, <2>1, KeptStays
<1>3. Accounted'
  BY <1>1, <1>2 DEF KeptInv, Accounted
<1>4. Secured' /\ JournalSecured' /\ HandSecured'
  BY <1>1, <1>2 DEF KeptInv, Secured, JournalSecured, HandSecured, Moved
<1>5. Unsaved'
  BY <1>1 DEF KeptInv, Unsaved, Moved
<1> QED BY <1>3, <1>4, <1>5 DEF KeptInv

(* Steps that journal what they did. *)
LEMMA JournalKept ==
    ASSUME Typed, Protocol, KeptInv, Select \/ Record \/ RecordUndone
    PROVE  KeptInv'
<1>1. /\ Typed' /\ Protocol' /\ proc # Idle /\ proc' # Idle /\ UNCHANGED <<file, backup, txn, ghost, count>>
      /\ proc.phase \in {"target", "record", "undone"} /\ live # Nil /\ ~proc.recovering
      /\ proc'.recovering = proc.recovering /\ proc'.phase \notin {"putback", "backup"}
  <2>1. /\ Typed' /\ Protocol' /\ proc # Idle /\ proc' # Idle /\ UNCHANGED <<file, backup, txn, ghost, count>>
        /\ proc.phase \in {"target", "record", "undone"}
        /\ proc'.recovering = proc.recovering /\ proc'.phase \notin {"putback", "backup"}
    BY SelectStep, RecordStep, RecordUndoneStep DEF Select, Record, RecordUndone, Moved
  <2> QED BY <2>1, Engaged DEF Working, Rolling
<1>2. \A t \in Target : Kept(file[t].user) /\ Kept(0)
  BY <1>1 DEF KeptInv, Secured, Kept
<1>3. PICK t \in Target, c \in Content :
         Kept(c.user) /\ (live'.applied = live.applied \/ live' = Applied(t, c))
  <2>1. CASE Select
    <3>1. CASE live' = live
      BY <1>2, <3>1, Places, Nothing
    <3>2. CASE proc.at \in Place /\ live' = Applied(Now, New(Now))
      <4>1. Now \in Target
        BY <3>2, Places DEF Now
      <4> QED BY <1>1, <1>2, <3>2, <4>1, NewIs
    <3> QED BY <2>1, <3>1, <3>2, SelectStep DEF Moved
  <2>2. CASE Record
    BY <1>2, <2>2, RecordStep, ContentIs DEF Moved
  <2>3. CASE RecordUndone
    BY <1>2, <2>3, RecordUndoneStep, ContentIs DEF Moved
  <2> QED BY <2>1, <2>2, <2>3
<1>4. \A k \in Target : live'.applied[k] = live.applied[k] \/ Kept(live'.applied[k].user)
  <2>1. CASE live'.applied = live.applied
    BY <2>1
  <2>2. CASE live' = Applied(t, c)
    <3>1. live'.applied = [live.applied EXCEPT ![t] = c] /\ live.applied \in [Target -> Content \cup {Nil}]
      BY <1>1, <2>2, AppliedIs, Engaged DEF Journal
    <3> QED BY <1>3, <3>1
  <2> QED BY <1>3, <2>1, <2>2
<1> QED BY <1>1, <1>4, KeptMoved

(* Steps that leave files and what is journaled of them alone. *)
LEMMA QuietKept ==
    ASSUME Typed, Protocol, UndoInv, KeptInv,
           \/ Begin \/ LeaveBase \/ Activate \/ Leave \/ Return \/ Commit \/ Finish
           \/ Deactivate \/ RestoreHost \/ EndRollback \/ Recover \/ Crash
    PROVE  KeptInv'
<1>1. CASE Begin
  <2>1. Stage("APPLYING").applied = live.applied
    BY <1>1, BeginStep, StageIs
  <2> QED BY <1>1, <2>1, BeginStep, Engaged, KeptMoved DEF Begin, At, Moved
<1>2. CASE LeaveBase
  <2>1. Stage("ACTIVATING").applied = live.applied
    BY <1>2, LeaveBaseStep, StageIs
  <2> QED BY <1>2, <2>1, LeaveBaseStep, Engaged, KeptMoved DEF LeaveBase, At, Moved
<1>3. CASE Activate
  BY <1>3, ActivateStep, Engaged, KeptMoved DEF Activate, At, Moved
<1>4. CASE Leave
  BY <1>4, LeaveStep, Engaged, KeptMoved DEF Leave, At, Moved
<1>5. CASE Return
  BY <1>5, ReturnStep, Engaged, KeptMoved DEF Return, At, Moved
<1>6. CASE Commit
  <2>1. Stage("COMMITTED").applied = live.applied
    BY <1>6, CommitStep, StageIs
  <2> QED BY <1>6, <2>1, CommitStep, Engaged, KeptMoved DEF Commit, At, Moved
<1>7. CASE Finish
  BY <1>7, FinishStep, KeptMoved DEF Finish, Idle
<1>8. CASE Deactivate
  BY <1>8, DeactivateStep, Engaged, KeptMoved DEF Deactivate, At, Moved
<1>9. CASE RestoreHost
  BY <1>9, RestoreHostStep, Engaged, KeptMoved DEF RestoreHost, At
<1>10. CASE EndRollback
  <2>1. \A s \in {"RECOVERY_REQUIRED", "ROLLED_BACK"} : Stage(s).applied = live.applied
    BY <1>10, EndRollbackStep, StageIs
  <2> QED BY <1>10, <2>1, EndRollbackStep, Engaged, KeptMoved DEF EndRollback, At, Moved, Idle
<1>11. CASE Recover
  BY <1>11, RecoverStep, KeptMoved DEF Recover, Idle
<1>12. CASE Crash
  BY <1>12, CrashStep, KeptMoved DEF Crash, Idle
<1> QED BY <1>1, <1>2, <1>3, <1>4, <1>5, <1>6, <1>7, <1>8, <1>9, <1>10, <1>11, <1>12

LEMMA RemoveKept ==
    ASSUME Typed, Protocol, KeptInv, Remove
    PROVE  KeptInv'
<1>1. /\ Typed' /\ Protocol' /\ proc # Idle /\ proc.phase = "write" /\ Now \in Target
      /\ file' = [file EXCEPT ![Now] = Missing]
      /\ UNCHANGED <<host, backup, live, proc, txn, count, ghost>>
  BY RemoveStep DEF Remove
<1>2. live # Nil /\ ~proc.recovering
  BY <1>1, Engaged DEF Working, Rolling
<1>3. Kept(file[Now].user) /\ Kept(Missing.user)
  BY <1>1, <1>2, Nothing DEF KeptInv, Secured, Kept
<1> QED BY <1>1, <1>2, <1>3, Nothing, KeptChanged

LEMMA ReplaceKept ==
    ASSUME Typed, Protocol, KeptInv, Replace
    PROVE  KeptInv'
<1>1. /\ Typed' /\ Protocol' /\ proc # Idle /\ proc' # Idle /\ proc.phase = "write" /\ Now \in Target
      /\ file' = [file EXCEPT ![Now] = New(Now)] /\ Moved("record", proc.at, live)
      /\ UNCHANGED <<host, backup, txn, count, ghost>>
  BY ReplaceStep DEF Replace
<1>2. live # Nil /\ ~proc.recovering
  BY <1>1, Engaged DEF Working, Rolling
<1>3. Kept(file[Now].user) /\ Kept(0)
  BY <1>1, <1>2 DEF KeptInv, Secured, Kept
<1>4. New(Now) \in Content /\ New(Now).user \in {0, file[Now].user}
  BY <1>1, NewIs
<1> QED BY <1>1, <1>2, <1>3, <1>4, KeptChanged DEF Moved

LEMMA UndoKept ==
    ASSUME Typed, Protocol, UndoInv, KeptInv, Undo
    PROVE  KeptInv'
<1>1. /\ Typed' /\ Protocol' /\ proc # Idle /\ proc' # Idle /\ proc.phase = "undo" /\ Now \in Target
      /\ UNCHANGED <<host, backup, txn, count, ghost>> /\ proc.undo \in 1..txn
  BY UndoStep DEF Undo
<1>2. live # Nil /\ ~proc.recovering
  BY <1>1, Engaged DEF Working, Rolling
<1>3. \A t \in Target : Kept(file[t].user) /\ Kept(0)
  BY <1>1, <1>2 DEF KeptInv, Secured, Kept
<1>4. CASE Moved("undo", proc.at - 1, live) /\ file' = file
  BY <1>1, <1>2, <1>4, KeptMoved DEF Moved
<1>5. CASE UNCHANGED <<live, proc>> /\ file' = [file EXCEPT ![Now] = Missing]
  BY <1>1, <1>2, <1>3, <1>5, Nothing, KeptChanged
<1>6. CASE Moved("undone", proc.at, live) /\ file' = [file EXCEPT ![Now] = Old(Now, backup[proc.undo].files[Now])]
  <2>1. backup[proc.undo].files[Now] \in Content /\ Kept(backup[proc.undo].files[Now].user)
    <3>1. proc.undo \in 1..MaxTxn
      BY <1>1, Places DEF Typed
    <3> QED BY <1>1, <3>1, BackupIs, BackedUpIsKept
  <2>2. Old(Now, backup[proc.undo].files[Now]) \in Content /\ Kept(Old(Now, backup[proc.undo].files[Now]).user)
    BY <1>1, <1>3, <2>1, OldIs
  <2> QED BY <1>1, <1>2, <1>3, <1>6, <2>2, KeptChanged DEF Moved
<1> QED BY <1>4, <1>5, <1>6, UndoStep

LEMMA RestoreKept ==
    ASSUME Typed, Protocol, UndoInv, KeptInv, Restore
    PROVE  KeptInv'
<1>1. /\ Typed' /\ Protocol' /\ proc # Idle /\ proc' # Idle /\ proc.phase = "restore" /\ Now \in Target
      /\ UNCHANGED <<host, backup, txn, count, ghost>> /\ Now = Order[proc.at]
  BY RestoreStep DEF Restore, Now
<1>2. /\ live # Nil /\ txn \in 1..MaxTxn /\ proc.j = live /\ proc.j.id = txn /\ live \in Journal
      /\ file[Now] \in Content /\ file[Now] # Nil
  BY <1>1, Engaged, ContentIs, NilAssumption DEF NilAssumption
<1>3. backup[txn].files[Now] \in Content /\ Kept(backup[txn].files[Now].user) /\ Kept(0)
  <2>1. txn \in 1..txn
    BY <1>2
  <2> QED BY <1>1, <1>2, <2>1, BackupIs, BackedUpIsKept DEF Kept
<1>4. CASE Moved("restore", proc.at - 1, live) /\ file' = file
  BY <1>1, <1>2, <1>4, KeptMoved DEF Moved
<1>5. CASE /\ file' = file /\ live' = live /\ proc'.phase = "restore" /\ proc'.recovering = proc.recovering
  BY <1>1, <1>2, <1>5, KeptMoved
<1>6. CASE /\ Owned(Now) /\ Now \notin Merged
           /\ file' = [file EXCEPT ![Now] = Missing] /\ Moved("putback", proc.at, live)
  <2>1. Kept(file[Now].user)
    BY <1>1, <1>2, <1>3, <1>6, Nothing DEF Owned, KeptInv, JournalSecured
  <2>2. Now' = Now
    BY <1>6 DEF Moved, Now
  <2> QED BY <1>1, <1>2, <1>3, <1>6, <2>1, <2>2, Nothing, KeptChanged DEF Moved
<1>7. CASE /\ (Now \in Merged \/ file[Now] = Missing)
           /\ file' = [file EXCEPT ![Now] = Old(Now, backup[txn].files[Now])]
           /\ Moved("restore", proc.at - 1, live)
  <2>1. PICK c \in Content : c = Old(Now, backup[txn].files[Now])
    BY <1>1, <1>3, OldIs
  <2>2. /\ Kept(file[Now].user) \/ c.user = file[Now].user
        /\ Kept(c.user) \/ c.user = file[Now].user
    BY <1>1, <1>3, <1>7, <2>1, OldIs, Nothing
  <2> QED BY <1>1, <1>2, <1>7, <2>1, <2>2, KeptChanged DEF Moved
<1> QED BY <1>4, <1>5, <1>6, <1>7, RestoreStep

LEMMA PutBackKept ==
    ASSUME Typed, Protocol, UndoInv, KeptInv, PutBack
    PROVE  KeptInv'
<1>1. /\ Typed' /\ Protocol' /\ proc # Idle /\ proc' # Idle /\ proc.phase = "putback" /\ Now \in Target
      /\ UNCHANGED <<host, backup, txn, count, ghost>>
      /\ file' = [file EXCEPT ![Now] = backup[txn].files[Now]] /\ Moved("restore", proc.at - 1, live)
  BY PutBackStep DEF PutBack
<1>2. live # Nil /\ txn \in 1..MaxTxn
  BY <1>1, Engaged
<1>3. backup[txn].files[Now] \in Content /\ Kept(backup[txn].files[Now].user) /\ Kept(file[Now].user)
  <2>1. txn \in 1..txn
    BY <1>2
  <2> QED BY <1>1, <1>2, <2>1, BackupIs, BackedUpIsKept DEF KeptInv, HandSecured
<1> QED BY <1>1, <1>2, <1>3, KeptChanged DEF Moved

LEMMA EditKept ==
    ASSUME Typed, Protocol, KeptInv, NEW t \in Target, Edit(t)
    PROVE  KeptInv'
<1>1. /\ Typed' /\ Protocol' /\ count'.visits = count.visits + 1 /\ count.visits \in Nat
      /\ UNCHANGED <<host, backup, live, proc, txn>>
  BY EditStep, Places DEF Typed
<1>2. PICK c \in Content : Edited(t, c)
  BY EditStep
<1>3. /\ \A k \in Target : file'[k] = IF k = t THEN c ELSE file[k]
      /\ c.user = 0 \/ c.user = count'.visits
      /\ file[t].user \in ghost'.waived
      /\ (At("none") /\ c # Missing) \/ count'.visits \in ghost'.waived
      /\ c = Missing \/ c.user = count'.visits
  BY <1>2, Nothing DEF Edited, Typed
<1>4. \A u : Kept(u) => Kept(u)'
  BY <1>1, <1>2 DEF Edited, Kept
<1>5. Kept(0)' /\ \A u \in ghost'.waived : Kept(u)'
  BY DEF Kept
<1>6. Accounted'
  <2> SUFFICES ASSUME NEW n \in 1..count'.visits PROVE Kept(n)' \/ \E k \in Target : file'[k].user = n
    BY DEF Accounted
  <2>1. CASE n = count'.visits
    BY <1>3, <2>1 DEF Kept
  <2>2. CASE n \in 1..count.visits
    <3>1. CASE Kept(n)
      BY <1>4, <3>1
    <3>2. CASE \E k \in Target : file[k].user = n
      <4>1. PICK k \in Target : file[k].user = n
        BY <3>2
      <4> QED BY <1>3, <4>1 DEF Kept
    <3> QED BY <2>2, <3>1, <3>2 DEF KeptInv, Accounted
  <2> QED BY <1>1, <2>1, <2>2
<1>7. proc # Idle => Kept(c.user)'
  <2>1. proc # Idle => ~At("none")
    BY Running
  <2> QED BY <1>3, <2>1 DEF Kept
<1>8. Secured'
  BY <1>1, <1>3, <1>4, <1>7 DEF KeptInv, Secured
<1>9. HandSecured'
  <2> SUFFICES ASSUME proc.phase = "putback" PROVE Kept(file[Now].user)'
    BY <1>1 DEF HandSecured
  <2>1. Now' = Now
    BY <1>1 DEF Now
  <2>2. proc # Idle /\ Now \in Target
    <3>1. proc # Idle
      BY DEF Idle
    <3> QED BY <3>1, Engaged, Places DEF Working, Now
  <2>3. CASE Now = t
    BY <1>3, <1>7, <2>2, <2>1, <2>3
  <2>4. CASE Now # t
    BY <1>3, <1>4, <2>2, <2>1, <2>4 DEF KeptInv, HandSecured
  <2> QED BY <2>3, <2>4
<1>10. JournalSecured' /\ Unsaved'
  BY <1>1, <1>4 DEF KeptInv, JournalSecured, Unsaved
<1> QED BY <1>6, <1>8, <1>9, <1>10 DEF KeptInv

LEMMA KeptInductive ==
    ASSUME Typed, Protocol, UndoInv, KeptInv, [InstallerNext]_installation
    PROVE  KeptInv'
<1>1. CASE UNCHANGED installation
  BY <1>1 DEF installation, KeptInv, Accounted, Secured, JournalSecured, HandSecured, Unsaved, Kept, Now
<1> QED BY <1>1, StartKept, BackUpKept, JournalKept, QuietKept, RemoveKept, ReplaceKept, WriteManifestKept, UndoKept,
           FailKept, RestoreKept, PutBackKept, EditKept
        DEF InstallerNext, InstallStep, UninstallStep, RollbackStep

LEMMA BeginningKept ==
    ASSUME InstallerInit
    PROVE  KeptInv
<1>1. live = Nil /\ proc = Idle /\ count.visits = 0
  BY DEF InstallerInit
<1>2. Accounted
  BY <1>1 DEF Accounted
<1>3. Secured /\ JournalSecured /\ HandSecured
  BY <1>1 DEF Secured, JournalSecured, HandSecured, Idle
<1>4. Unsaved
  BY Nothing DEF InstallerInit, Unsaved
<1> QED BY <1>2, <1>3, <1>4 DEF KeptInv

LEMMA KeptIsNotLost ==
    ASSUME Typed, KeptInv
    PROVE  NothingLost
<1> SUFFICES ASSUME NEW n \in 1..count.visits
             PROVE  \/ n \in ghost.waived
                    \/ \E t \in Target : file[t].user = n \/ \E b \in 1..txn : backup[b].files[t].user = n
  BY DEF NothingLost
<1>1. n # 0
  BY Places DEF Typed
<1> QED BY <1>1 DEF KeptInv, Accounted, Kept

(* What the user wrote while no command ran is on disk or in a backup,     *)
(* whatever is installed, undone, rolled back or recovered after it.       *)
THEOREM EditsAreKept == InstallerSpec => []NothingLost
<1>1. InstallerInit => Typed /\ Protocol /\ UndoInv /\ KeptInv
  BY BeginningUndo, BeginningKept
<1>2. Typed /\ Protocol /\ UndoInv /\ KeptInv /\ [InstallerNext]_installation
         => (Typed /\ Protocol /\ UndoInv /\ KeptInv)'
  BY UndoInductive, KeptInductive
<1>3. Typed /\ Protocol /\ UndoInv /\ KeptInv => NothingLost
  BY KeptIsNotLost
<1> QED BY <1>1, <1>2, <1>3, PTL DEF InstallerSpec

-------------------------------------------------------------------------------
(* All targets are of one version.                                         *)

LEMMA ConsistentStays ==
    ASSUME ghost.touched \subseteq ghost'.touched, ghost.skipped => ghost'.skipped
    PROVE  /\ \A f : Consistent(f) => Consistent(f)'
           /\ \A p, v : HostIs(p, v) => HostIs(p, v)'
BY DEF Consistent, HostIs

(* A step that leaves the backups alone leaves what they hold consistent. *)
LEMMA SavedStays ==
    ASSUME ManifestsConsistent, SavedConsistent, UNCHANGED <<backup, txn>>,
           ghost.touched \subseteq ghost'.touched, ghost.skipped => ghost'.skipped,
           live' # Nil => /\ live # Nil /\ live'.saved = live.saved /\ live'.op = live.op
                          /\ live'.prev = live.prev /\ live'.records = live.records,
           file'[BaseState] = file[BaseState] \/ (live # Nil /\ BaseState \in live.records)
    PROVE  ManifestsConsistent' /\ SavedConsistent'
<1>1. /\ \A f : Consistent(f) => Consistent(f)'
      /\ \A p, v : HostIs(p, v) => HostIs(p, v)'
      /\ \A b : Full(b)' = Full(b)
  BY ConsistentStays DEF Full
<1>2. ManifestsConsistent'
  BY <1>1 DEF ManifestsConsistent
<1>3. SavedConsistent'
  <2>1. CASE ~(live' # Nil /\ live'.saved)
    BY <2>1 DEF SavedConsistent
  <2>2. CASE live' # Nil /\ live'.saved
    <3>1. /\ Consistent(backup[txn].files)
          /\ HostIs(live.prev.plugin, backup[txn].files[State].block)
          /\ live.op = "install" => live.records = Full(txn) /\ backup[txn].records = Full(txn)
          /\ live.op = "uninstall" => /\ Target \ {BaseState} \subseteq live.records
                                      /\ backup[txn].files[BaseState] = Missing
          /\ BaseState \notin live.records => file[BaseState] = backup[txn].files[BaseState]
      BY <2>2 DEF SavedConsistent
    <3>2. Consistent(backup[txn].files)'
      BY <1>1, <3>1
    <3>3. HostIs(live.prev.plugin, backup[txn].files[State].block)'
      BY <1>1, <2>2, <3>1
    <3>4. /\ live'.op = "install" => live'.records = Full(txn)' /\ backup'[txn].records = Full(txn)'
          /\ live'.op = "uninstall" => /\ Target \ {BaseState} \subseteq live'.records
                                       /\ backup'[txn].files[BaseState] = Missing
          /\ BaseState \notin live'.records => file'[BaseState] = backup'[txn].files[BaseState]
      BY <1>1, <2>2, <3>1
    <3> QED BY <3>2, <3>3, <3>4 DEF SavedConsistent
  <2> QED BY <2>1, <2>2
<1> QED BY <1>2, <1>3

LEMMA SameIsConsistent ==
    ASSUME Typed, NEW f, Consistent(f), \A t \in Target : Same(t, f)
    PROVE  Consistent(file) /\ file[State].block = f[State].block
<1>1. State \in Target /\ BaseState \in Target /\ State \notin ghost.touched /\ State # BaseState
  BY Places DEF Typed, Ghost
<1>2. file[State].block = f[State].block
  BY <1>1 DEF Same
<1> QED BY <1>1, <1>2 DEF Same, Consistent

LEMMA InstalledIsConsistent ==
    ASSUME Typed, txn \in 1..MaxTxn, \A t \in Target : Installed(t)
    PROVE  Consistent(file) /\ file[State].block = txn
<1>1. State \in Target /\ BaseState \in Target /\ State \notin ghost.touched /\ State # BaseState /\ txn # Nil
  BY Places, Nothing DEF Typed, Ghost
<1>2. file[State].block = txn
  BY <1>1 DEF Installed
<1> QED BY <1>1, <1>2 DEF Installed, Consistent

LEMMA StartOne ==
    ASSUME Typed, Protocol, UndoInv, Unmixed, Install \/ \E force \in BOOLEAN : Uninstall(force)
    PROVE  Unmixed'
<1>1. PICK op \in {"install", "uninstall"}, force \in BOOLEAN : Start(op, force)
  BY DEF Install, Uninstall
<1>2. /\ Resolved /\ ~live'.saved /\ live'.records = {}
      /\ proc'.phase = "backup" /\ proc'.records = {}
  BY <1>1, StartStep
<1>3. UNCHANGED <<file, backup, host, ghost>> /\ Resolved /\ live'.records = {} /\ ~live'.saved
  BY <1>1, StartStep DEF Start
<1>4. ManifestsConsistent'
  BY <1>3 DEF Unmixed, ManifestsConsistent, Consistent, Full
<1>5. SavedConsistent' /\ OneSet'
  BY <1>2, <1>3 DEF SavedConsistent, OneSet
<1>6. RestConsistent'
  BY <1>3 DEF Unmixed, RestConsistent, Consistent, HostIs
<1>7. ForwardInv' /\ BackwardInv' /\ RollingInv'
  BY <1>2 DEF ForwardInv, BackwardInv, RollingInv, Rolling
<1> QED BY <1>4, <1>5, <1>6, <1>7 DEF Unmixed

LEMMA BackUpOne ==
    ASSUME Typed, Protocol, UndoInv, Unmixed, BackUp
    PROVE  Unmixed'
<1>1. /\ Typed' /\ Protocol' /\ proc # Idle /\ proc' # Idle /\ backup'[txn].files = file /\ backup'[txn].records = Saved
      /\ backup'[txn].manifest = backup[txn].manifest
      /\ \A b \in 1..MaxTxn : b # txn => backup'[b] = backup[b]
      /\ live'.op = live.op /\ live'.stage = "BACKED_UP" /\ live'.records = Saved /\ live'.prev = host /\ live' # Nil
      /\ proc'.phase = "begin" /\ proc'.records = Saved
  BY BackUpStep
<1>2. /\ UNCHANGED <<file, txn, ghost>> /\ proc.phase = "backup" /\ txn \in 1..MaxTxn /\ live.stage = "PREPARED"
      /\ live \in Journal /\ (Installing <=> live.op = "install")
  BY <1>1, Engaged DEF BackUp, At, Working
<1>3. Consistent(file) /\ HostIs(host.plugin, file[State].block) /\ ~backup[txn].manifest
  BY <1>2 DEF Unmixed, RestConsistent, Resolved, UndoInv, Unwritten
<1>4. ManifestsConsistent'
  <2> SUFFICES ASSUME NEW b \in 1..MaxTxn, backup'[b].manifest
               PROVE  Consistent(backup[b].files)' /\ backup'[b].records = Full(b)'
    BY DEF ManifestsConsistent
  <2>1. backup'[b] = backup[b] /\ backup[b].manifest
    BY <1>1, <1>3
  <2>2. Consistent(backup[b].files) /\ backup[b].records = Full(b)
    BY <2>1 DEF Unmixed, ManifestsConsistent
  <2> QED BY <1>2, <2>1, <2>2 DEF Consistent, Full
<1>5. Consistent(backup[txn].files)' /\ HostIs(live.prev.plugin, backup[txn].files[State].block)'
  BY <1>1, <1>2, <1>3 DEF Consistent, HostIs
<1>6. live.op = "install" => Saved = Full(txn)'
  BY <1>1, <1>2 DEF Saved, Full
<1>7. live.op = "uninstall" => Target \ {BaseState} \subseteq Saved /\ file[BaseState] = Missing
  <2> SUFFICES ASSUME live.op = "uninstall" PROVE Target \ {BaseState} \subseteq Saved /\ file[BaseState] = Missing
    OBVIOUS
  <2>1. proc.undo \in 1..txn /\ proc.undo \in 1..MaxTxn /\ backup[proc.undo].manifest /\ file[State].block = proc.undo
    BY <1>1, <1>2, Undoing
  <2>2. Saved = backup[proc.undo].records /\ backup[proc.undo].records = Full(proc.undo)
    BY <1>2, <2>1 DEF Saved, Unmixed, ManifestsConsistent
  <2>3. proc.undo # Nil
    BY <2>1, NilAssumption DEF NilAssumption
  <2> QED BY <1>3, <2>1, <2>2, <2>3 DEF Full, Consistent
<1>8. SavedConsistent' /\ OneSet'
  <2>1. file[BaseState] = backup'[txn].files[BaseState]
    BY <1>1
  <2> QED BY <1>1, <1>2, <1>5, <1>6, <1>7, <2>1 DEF SavedConsistent, OneSet
<1>9. RestConsistent' /\ ForwardInv' /\ BackwardInv' /\ RollingInv'
  BY <1>1 DEF RestConsistent, Resolved, ForwardInv, BackwardInv, RollingInv, Rolling
<1> QED BY <1>4, <1>8, <1>9 DEF Unmixed

LEMMA BeginOne ==
    ASSUME Typed, Protocol, UndoInv, Unmixed, Begin
    PROVE  Unmixed'
<1>1. /\ Typed' /\ Protocol' /\ proc # Idle /\ UNCHANGED <<file, backup, txn, ghost>> /\ live # Nil
      /\ live.op = "install" => proc'.at = 1
  BY BeginStep, Engaged DEF Begin
<1>2. PICK at \in Nat : Moved(IF live.op = "install" THEN "target" ELSE "leave", at, Stage("APPLYING"))
  BY BeginStep
<1>3. /\ Stage("APPLYING").stage = "APPLYING" /\ Stage("APPLYING").op = live.op
      /\ Stage("APPLYING").records = live.records /\ Stage("APPLYING").saved = live.saved
      /\ Stage("APPLYING").prev = live.prev
  BY <1>1, StageIs
<1>4. ManifestsConsistent' /\ SavedConsistent'
  BY <1>1, <1>2, <1>3, SavedStays DEF Unmixed, Moved
<1>5. OneSet' /\ RestConsistent'
  BY <1>1, <1>2, <1>3 DEF Unmixed, OneSet, RestConsistent, Resolved, Moved
<1>6. ForwardInv'
  BY <1>1, <1>2, <1>3 DEF ForwardInv, Moved, Place
<1>7. BackwardInv' /\ RollingInv'
  BY <1>2, <1>3 DEF BackwardInv, RollingInv, Rolling, Moved
<1> QED BY <1>4, <1>5, <1>6, <1>7 DEF Unmixed

(* A target that is not in the records of an install is the state file of  *)
(* a base plugin that is not there; so it is for the backup an uninstall   *)
(* gives back.                                                             *)
LEMMA LeftOut ==
    ASSUME Typed, Protocol, UndoInv, Unmixed, proc # Idle, live.saved, NEW t \in Target, t \notin proc.records
    PROVE  /\ t = BaseState /\ file[t] = backup[txn].files[t]
           /\ live.op = "install" => file[t] = Missing
           /\ live.op = "uninstall" => file[t] = Missing
           /\ live.op = "uninstall" /\ proc.phase \in Backward =>
                 backup[proc.undo].files[t] = Missing
<1>1. live # Nil /\ proc.records = live.records /\ live \in Journal /\ txn \in 1..MaxTxn
  BY Engaged DEF Unmixed, OneSet
<1>2. t = BaseState /\ file[t] = backup[txn].files[t]
  BY <1>1 DEF Unmixed, SavedConsistent, Full, Journal
<1>3. live.op = "install" => file[t] = Missing
  BY <1>1, <1>2 DEF Unmixed, SavedConsistent, Full
<1>4. live.op = "uninstall" => file[t] = Missing
  BY <1>1, <1>2 DEF Unmixed, SavedConsistent
<1>5. live.op = "uninstall" /\ proc.phase \in Backward => backup[proc.undo].files[t] = Missing
  <2> SUFFICES ASSUME live.op = "uninstall", proc.phase \in Backward PROVE backup[proc.undo].files[t] = Missing
    OBVIOUS
  <2>1. proc.undo \in 1..MaxTxn /\ backup[proc.undo].manifest /\ proc.records = backup[proc.undo].records
    BY Undoing DEF Backward
  <2>2. backup[proc.undo].records = Full(proc.undo)
    BY <2>1 DEF Unmixed, ManifestsConsistent
  <2> QED BY <1>2, <2>1, <2>2 DEF Full
<1> QED BY <1>2, <1>3, <1>4, <1>5

LEMMA SelectOne ==
    ASSUME Typed, Protocol, UndoInv, Unmixed, Select
    PROVE  Unmixed'
<1>1. /\ Typed' /\ Protocol' /\ proc # Idle /\ proc' # Idle /\ UNCHANGED <<file, backup, txn, ghost, host>>
      /\ proc.phase = "target" /\ live.op = "install"
  BY SelectStep DEF Select
<1>2. /\ live # Nil /\ live.saved /\ ~Resolved /\ proc.at \in 1 .. Len(Order) + 1 /\ Len(Order) \in Nat
      /\ proc.records = live.records
  BY <1>1, Engaged DEF Working, Protocol, Resolved, Forward
<1>3. /\ live'.stage = live.stage /\ live'.op = live.op /\ live'.records = live.records /\ live' # Nil
      /\ live'.saved = live.saved /\ live'.prev = live.prev /\ proc'.records = proc.records
  <2>1. CASE proc.at \in Place /\ Moved("write", proc.at, Applied(Now, New(Now)))
    <3>1. New(Now) \in Content /\ Now \in Target
      BY <1>1, <2>1, NewIs, Places DEF Now
    <3>2. /\ Applied(Now, New(Now)).stage = live.stage /\ Applied(Now, New(Now)).op = live.op
          /\ Applied(Now, New(Now)).records = live.records /\ Applied(Now, New(Now)).saved = live.saved
          /\ Applied(Now, New(Now)).prev = live.prev
      BY <1>1, <3>1, AppliedIs
    <3> QED BY <2>1, <3>2 DEF Moved
  <2>2. CASE ~(proc.at \in Place /\ Moved("write", proc.at, Applied(Now, New(Now))))
    BY <2>2, SelectStep DEF Moved
  <2> QED BY <2>1, <2>2
<1>4. ManifestsConsistent' /\ SavedConsistent'
  BY <1>1, <1>2, <1>3, SavedStays DEF Unmixed
<1>5. OneSet' /\ RestConsistent'
  BY <1>1, <1>2, <1>3 DEF OneSet, RestConsistent, Resolved
<1>6. /\ \A i \in Place : i < proc.at => Installed(Order[i])
      /\ \A i \in Place : Order[i] = Payload /\ i < proc.at => host.plugin = txn
  BY <1>1 DEF Unmixed, ForwardInv
<1>7. \A t \in Target : Installed(t) <=> Installed(t)'
  BY <1>1 DEF Installed
<1>8. ForwardInv'
  <2>1. CASE proc.at > Len(Order) /\ Moved("manifest", 0, live)
    <3>1. \A i \in Place : Installed(Order[i]) /\ (Order[i] = Payload => host.plugin = txn)
      BY <1>2, <1>6, <2>1 DEF Place
    <3>2. (\A t \in Target : Installed(t)) /\ host.plugin = txn
      BY <3>1, Places
    <3>3. \A t \in Target : Installed(t)'
      BY <1>7, <3>2
    <3> QED BY <1>1, <2>1, <3>2, <3>3 DEF ForwardInv, Moved
  <2>2. CASE proc.at \in Place /\ Now \notin proc.records /\ Moved("target", proc.at + 1, live)
    <3>1. Now = BaseState /\ Installed(Now)
      BY <1>1, <1>2, <2>2, Places, LeftOut DEF Now, Installed
    <3>2. \A i \in Place : i < proc.at + 1 => i < proc.at \/ Order[i] = Now
      BY <2>2, Places DEF Place, Now
    <3>3. \A i \in Place : i < proc.at + 1 => Installed(Order[i])'
      BY <1>6, <1>7, <3>1, <3>2, Places
    <3>4. \A i \in Place : Order[i] = Payload /\ i < proc.at + 1 => host.plugin = txn
      BY <1>6, <3>1, <3>2, Places
    <3> QED BY <1>1, <2>2, <3>3, <3>4 DEF ForwardInv, Moved
  <2>3. CASE proc'.phase = "write" /\ proc'.at = proc.at
    <3>1. \A i \in Place : i < proc.at => Installed(Order[i])'
      BY <1>6, <1>7, Places
    <3> QED BY <1>1, <1>6, <2>3, <3>1 DEF ForwardInv
  <2> QED BY <2>1, <2>2, <2>3, SelectStep DEF Moved
<1>9. BackwardInv' /\ RollingInv'
  BY <1>1, <1>3, SelectStep DEF BackwardInv, RollingInv, Rolling, Moved
<1> QED BY <1>4, <1>5, <1>8, <1>9 DEF Unmixed

LEMMA RemoveOne ==
    ASSUME Typed, Protocol, UndoInv, Unmixed, Remove
    PROVE  Unmixed'
<1>1. /\ Typed' /\ Protocol' /\ proc # Idle /\ proc.phase = "write" /\ live.op = "install" /\ proc.at \in Place
      /\ Now \in Target /\ Now = Order[proc.at] /\ Now \in proc.records /\ file' = [file EXCEPT ![Now] = Missing]
      /\ UNCHANGED <<host, backup, live, proc, txn, ghost>>
  BY RemoveStep DEF Remove, Now
<1>2. live # Nil /\ ~Resolved /\ proc.records = live.records
  BY <1>1, Engaged DEF Working, Resolved, Forward
<1>3. \A t \in Target \ {Now} : file'[t] = file[t]
  BY <1>1 DEF Typed
<1>4. ManifestsConsistent' /\ SavedConsistent'
  <2>1. file'[BaseState] = file[BaseState] \/ BaseState \in live.records
    BY <1>1, <1>2, <1>3, Places
  <2> QED BY <1>1, <1>2, <2>1, SavedStays DEF Unmixed
<1>5. OneSet' /\ RestConsistent'
  BY <1>1, <1>2 DEF OneSet, RestConsistent, Resolved
<1>6. ForwardInv'
  <2>1. \A i \in Place : i < proc.at => Installed(Order[i])'
    <3> SUFFICES ASSUME NEW i \in Place, i < proc.at PROVE Installed(Order[i])'
      OBVIOUS
    <3>1. Order[i] \in Target \ {Now}
      BY <1>1, Places DEF Place
    <3>2. Installed(Order[i])
      BY <1>1 DEF Unmixed, ForwardInv
    <3> QED BY <1>1, <1>3, <3>1, <3>2 DEF Installed
  <2> QED BY <1>1, <2>1 DEF Unmixed, ForwardInv
<1>7. BackwardInv' /\ RollingInv'
  BY <1>1 DEF BackwardInv, RollingInv, Rolling
<1> QED BY <1>4, <1>5, <1>6, <1>7 DEF Unmixed

LEMMA ReplaceOne ==
    ASSUME Typed, Protocol, UndoInv, Unmixed, Replace
    PROVE  Unmixed'
<1>1. /\ Typed' /\ Protocol' /\ proc # Idle /\ proc' # Idle /\ proc.phase = "write" /\ live.op = "install"
      /\ proc.at \in Place /\ Now \in Target /\ Now = Order[proc.at] /\ Now \in proc.records
      /\ file' = [file EXCEPT ![Now] = New(Now)] /\ Moved("record", proc.at, live)
      /\ UNCHANGED <<host, backup, txn, ghost>>
  BY ReplaceStep DEF Replace, Now
<1>2. live # Nil /\ ~Resolved /\ proc.records = live.records
  BY <1>1, Engaged DEF Working, Resolved, Forward
<1>3. (\A t \in Target \ {Now} : file'[t] = file[t]) /\ file'[Now] = New(Now)
  BY <1>1 DEF Typed
<1>4. ManifestsConsistent' /\ SavedConsistent'
  <2>1. file'[BaseState] = file[BaseState] \/ BaseState \in live.records
    BY <1>1, <1>2, <1>3, Places
  <2> QED BY <1>1, <1>2, <2>1, SavedStays DEF Unmixed, Moved
<1>5. OneSet' /\ RestConsistent'
  BY <1>1, <1>2 DEF OneSet, RestConsistent, Resolved, Moved
<1>6. ForwardInv'
  <2>1. Installed(Order[proc.at])'
    <3>1. Order[proc.at]' = Now /\ (Now # BaseState => New(Now).block = txn) /\ (Now = BaseState => New(Now) = Missing)
      BY <1>1, NewIs DEF Moved
    <3> QED BY <1>1, <1>3, <3>1 DEF Installed
  <2>2. \A i \in Place : i < proc.at => Installed(Order[i])'
    <3> SUFFICES ASSUME NEW i \in Place, i < proc.at PROVE Installed(Order[i])'
      OBVIOUS
    <3>1. Order[i] \in Target \ {Now}
      BY <1>1, Places DEF Place
    <3>2. Installed(Order[i])
      BY <1>1 DEF Unmixed, ForwardInv
    <3> QED BY <1>1, <1>3, <3>1, <3>2 DEF Installed
  <2>3. \A i \in Place : Order[i] = Payload /\ i < proc.at => host.plugin = txn
    BY <1>1 DEF Unmixed, ForwardInv
  <2> QED BY <1>1, <2>1, <2>2, <2>3 DEF ForwardInv, Moved
<1>7. BackwardInv' /\ RollingInv'
  BY <1>1 DEF BackwardInv, RollingInv, Rolling, Moved
<1> QED BY <1>4, <1>5, <1>6, <1>7 DEF Unmixed

LEMMA RecordOne ==
    ASSUME Typed, Protocol, UndoInv, Unmixed, Record
    PROVE  Unmixed'
<1>1. /\ Typed' /\ Protocol' /\ proc # Idle /\ proc' # Idle /\ proc.phase = "record" /\ live.op = "install"
      /\ proc.at \in Place /\ Now \in Target /\ Now = Order[proc.at]
      /\ Moved(IF Now = Payload THEN "base" ELSE "target", proc.at + 1, Applied(Now, file[Now]))
      /\ UNCHANGED <<file, host, backup, txn, ghost>>
  BY RecordStep DEF Record, Now
<1>2. live # Nil /\ ~Resolved /\ proc.records = live.records
  BY <1>1, Engaged DEF Working, Resolved, Forward
<1>3. LET j == Applied(Now, file[Now])
      IN  /\ j.stage = live.stage /\ j.op = live.op /\ j.saved = live.saved
          /\ j.records = live.records /\ j.prev = live.prev
  BY <1>1, AppliedIs, ContentIs
<1>4. ManifestsConsistent' /\ SavedConsistent'
  BY <1>1, <1>2, <1>3, SavedStays DEF Unmixed, Moved
<1>5. OneSet' /\ RestConsistent'
  BY <1>1, <1>2, <1>3 DEF OneSet, RestConsistent, Resolved, Moved
<1>6. ForwardInv'
  <2>1. \A i \in Place : i < proc.at + 1 <=> i < proc.at \/ i = proc.at
    BY <1>1, Places DEF Place
  <2>2. \A i \in Place : i < proc.at + 1 => Installed(Order[i])
    BY <1>1, <2>1 DEF Unmixed, ForwardInv
  <2>3. Now # Payload => \A i \in Place : Order[i] = Payload /\ i < proc.at + 1 => host.plugin = txn
    BY <1>1, <2>1 DEF Unmixed, ForwardInv
  <2>4. \A i \in Place : i < proc.at + 1 => Installed(Order[i])'
    BY <1>1, <2>2 DEF Installed
  <2>5. CASE Now = Payload
    BY <1>1, <2>4, <2>5 DEF ForwardInv, Moved
  <2>6. CASE Now # Payload
    BY <1>1, <2>3, <2>4, <2>6 DEF ForwardInv, Moved
  <2> QED BY <2>5, <2>6
<1>7. BackwardInv' /\ RollingInv'
  BY <1>1, <1>3 DEF BackwardInv, RollingInv, Rolling, Moved
<1> QED BY <1>4, <1>5, <1>6, <1>7 DEF Unmixed

LEMMA LeaveBaseOne ==
    ASSUME Typed, Protocol, UndoInv, Unmixed, LeaveBase
    PROVE  Unmixed'
<1>1. /\ Typed' /\ Protocol' /\ proc # Idle /\ proc' # Idle /\ proc.phase = "base" /\ live.op = "install"
      /\ Moved("activate", proc.at, Stage("ACTIVATING")) /\ UNCHANGED <<file, backup, txn, ghost>>
  BY LeaveBaseStep DEF LeaveBase
<1>2. live # Nil /\ proc.records = live.records
  BY <1>1, Engaged DEF Working, Forward
<1>3. LET j == Stage("ACTIVATING")
      IN  /\ j.stage = "ACTIVATING" /\ j.op = live.op /\ j.saved = live.saved
          /\ j.records = live.records /\ j.prev = live.prev
  BY <1>1, StageIs
<1>4. ManifestsConsistent' /\ SavedConsistent'
  BY <1>1, <1>2, <1>3, SavedStays DEF Unmixed, Moved
<1>5. OneSet' /\ RestConsistent'
  BY <1>1, <1>2, <1>3 DEF OneSet, RestConsistent, Resolved, Moved
<1>6. ForwardInv'
  <2>1. \A i \in Place : i < proc.at => Installed(Order[i])
    BY <1>1 DEF Unmixed, ForwardInv
  <2>2. \A i \in Place : i < proc.at => Installed(Order[i])'
    BY <1>1, <2>1 DEF Installed
  <2> QED BY <1>1, <2>2 DEF ForwardInv, Moved
<1>7. BackwardInv' /\ RollingInv'
  BY <1>1, <1>3 DEF BackwardInv, RollingInv, Rolling, Moved
<1> QED BY <1>4, <1>5, <1>6, <1>7 DEF Unmixed

LEMMA ActivateOne ==
    ASSUME Typed, Protocol, UndoInv, Unmixed, Activate
    PROVE  Unmixed'
<1>1. /\ Typed' /\ Protocol' /\ proc # Idle /\ proc' # Idle /\ proc.phase = "activate" /\ live.op = "install"
      /\ Moved("target", proc.at, live) /\ UNCHANGED <<file, backup, txn, ghost>> /\ host'.plugin = txn
  BY ActivateStep DEF Activate
<1>2. live # Nil /\ proc.records = live.records /\ ~Resolved
  BY <1>1, Engaged DEF Working, Forward, Resolved
<1>3. ManifestsConsistent' /\ SavedConsistent'
  BY <1>1, <1>2, SavedStays DEF Unmixed, Moved
<1>4. OneSet' /\ RestConsistent'
  BY <1>1, <1>2 DEF OneSet, RestConsistent, Resolved, Moved
<1>5. ForwardInv'
  <2>1. \A i \in Place : i < proc.at => Installed(Order[i])
    BY <1>1 DEF Unmixed, ForwardInv
  <2>2. \A i \in Place : i < proc.at => Installed(Order[i])'
    BY <1>1, <2>1 DEF Installed
  <2> QED BY <1>1, <2>2 DEF ForwardInv, Moved
<1>6. BackwardInv' /\ RollingInv'
  BY <1>1 DEF BackwardInv, RollingInv, Rolling, Moved
<1> QED BY <1>3, <1>4, <1>5, <1>6 DEF Unmixed

LEMMA WriteManifestOne ==
    ASSUME Typed, Protocol, UndoInv, Unmixed, WriteManifest
    PROVE  Unmixed'
<1>1. /\ Typed' /\ Protocol' /\ proc # Idle /\ proc' # Idle /\ proc.phase = "manifest" /\ live.op = "install"
      /\ \A b \in 1..MaxTxn : /\ backup'[b].files = backup[b].files /\ backup'[b].records = backup[b].records
                              /\ b # txn => backup'[b].manifest = backup[b].manifest
      /\ Moved("commit", 0, live) /\ UNCHANGED <<file, host, txn, ghost>>
  BY WriteManifestStep DEF WriteManifest
<1>2. live # Nil /\ proc.records = live.records /\ ~Resolved /\ live.saved /\ txn \in 1..MaxTxn
  BY <1>1, Engaged DEF Working, Forward, Resolved, Protocol
<1>3. \A b \in 1..MaxTxn : Full(b)' = Full(b)
  BY <1>1 DEF Full
<1>4. ManifestsConsistent'
  <2> SUFFICES ASSUME NEW b \in 1..MaxTxn, backup'[b].manifest
               PROVE  Consistent(backup[b].files)' /\ backup'[b].records = Full(b)'
    BY DEF ManifestsConsistent
  <2>1. Consistent(backup[b].files) /\ backup[b].records = Full(b)
    BY <1>1, <1>2 DEF Unmixed, ManifestsConsistent, SavedConsistent
  <2> QED BY <1>1, <1>3, <2>1 DEF Consistent
<1>5. SavedConsistent'
  <2>1. /\ Consistent(backup[txn].files)
        /\ HostIs(live.prev.plugin, backup[txn].files[State].block)
        /\ live.records = Full(txn) /\ backup[txn].records = Full(txn)
        /\ BaseState \notin live.records => file[BaseState] = backup[txn].files[BaseState]
    BY <1>1, <1>2 DEF Unmixed, SavedConsistent
  <2>2. Consistent(backup[txn].files)' /\ HostIs(live.prev.plugin, backup[txn].files[State].block)'
    BY <1>1, <1>2, <2>1 DEF Consistent, HostIs, Moved
  <2> QED BY <1>1, <1>2, <1>3, <2>1, <2>2 DEF SavedConsistent, Moved
<1>6. OneSet' /\ RestConsistent'
  BY <1>1, <1>2 DEF OneSet, RestConsistent, Resolved, Moved
<1>7. ForwardInv'
  <2>1. (\A t \in Target : Installed(t)) /\ host.plugin = txn
    BY <1>1 DEF Unmixed, ForwardInv
  <2>2. \A t \in Target : Installed(t)'
    BY <1>1, <2>1 DEF Installed
  <2> QED BY <1>1, <2>1, <2>2 DEF ForwardInv, Moved
<1>8. BackwardInv' /\ RollingInv'
  BY <1>1 DEF BackwardInv, RollingInv, Rolling, Moved
<1> QED BY <1>4, <1>5, <1>6, <1>7, <1>8 DEF Unmixed

LEMMA CommitOne ==
    ASSUME Typed, Protocol, UndoInv, Unmixed, Commit
    PROVE  Unmixed'
<1>1. /\ Typed' /\ Protocol' /\ proc # Idle /\ proc' # Idle /\ proc.phase = "commit"
      /\ Moved("finish", 0, Stage("COMMITTED")) /\ UNCHANGED <<file, host, backup, txn, ghost>>
  BY CommitStep DEF Commit
<1>2. live # Nil /\ proc.records = live.records /\ txn \in 1..MaxTxn /\ live \in Journal
  BY <1>1, Engaged DEF Working
<1>3. LET j == Stage("COMMITTED")
      IN  j.op = live.op /\ j.saved = live.saved /\ j.records = live.records /\ j.prev = live.prev
  BY <1>1, StageIs
<1>4. ManifestsConsistent' /\ SavedConsistent'
  BY <1>1, <1>2, <1>3, SavedStays DEF Unmixed, Moved
<1>5. Consistent(file) /\ HostIs(host.plugin, file[State].block)
  <2>1. CASE live.op = "install"
    <3>1. (\A t \in Target : Installed(t)) /\ host.plugin = txn
      BY <1>1, <2>1 DEF Unmixed, ForwardInv
    <3> QED BY <1>2, <3>1, InstalledIsConsistent DEF HostIs
  <2>2. CASE live.op = "uninstall"
    BY <1>1, <2>2 DEF Unmixed, BackwardInv
  <2> QED BY <1>2, <2>1, <2>2 DEF Journal
<1>6. RestConsistent'
  BY <1>1, <1>5 DEF RestConsistent, Consistent, HostIs
<1>7. OneSet' /\ ForwardInv' /\ BackwardInv' /\ RollingInv'
  BY <1>1, <1>2, <1>3 DEF OneSet, ForwardInv, BackwardInv, RollingInv, Rolling, Moved
<1> QED BY <1>4, <1>6, <1>7 DEF Unmixed

LEMMA FinishOne ==
    ASSUME Typed, Protocol, UndoInv, Unmixed, Finish
    PROVE  Unmixed'
<1>1. /\ proc' = Idle /\ live' = Nil /\ Resolved /\ UNCHANGED <<file, host, backup, txn, ghost>>
  BY FinishStep DEF Finish
<1>2. ManifestsConsistent' /\ SavedConsistent'
  BY <1>1, SavedStays DEF Unmixed
<1>3. RestConsistent'
  BY <1>1 DEF Unmixed, RestConsistent, Consistent, HostIs
<1>4. OneSet' /\ ForwardInv' /\ BackwardInv' /\ RollingInv'
  BY <1>1 DEF OneSet, ForwardInv, BackwardInv, RollingInv
<1> QED BY <1>2, <1>3, <1>4 DEF Unmixed

LEMMA CrashOne ==
    ASSUME Typed, Protocol, UndoInv, Unmixed, Crash
    PROVE  Unmixed'
<1>1. /\ proc' = Idle /\ UNCHANGED <<file, host, backup, live, txn, ghost>>
  BY CrashStep
<1>2. ManifestsConsistent' /\ SavedConsistent'
  BY <1>1, SavedStays DEF Unmixed
<1>3. RestConsistent'
  BY <1>1 DEF Unmixed, RestConsistent, Consistent, HostIs, Resolved
<1>4. OneSet' /\ ForwardInv' /\ BackwardInv' /\ RollingInv'
  BY <1>1 DEF OneSet, ForwardInv, BackwardInv, RollingInv
<1> QED BY <1>2, <1>3, <1>4 DEF Unmixed

LEMMA LeaveOne ==
    ASSUME Typed, Protocol, UndoInv, Unmixed, Leave
    PROVE  Unmixed'
<1>1. /\ Typed' /\ Protocol' /\ proc # Idle /\ proc' # Idle /\ proc.phase = "leave" /\ live.op = "uninstall"
      /\ host'.plugin = Nil \/ ghost'.skipped
      /\ Moved("undo", proc.at, live) /\ UNCHANGED <<file, backup, txn>>
      /\ ghost'.touched = ghost.touched /\ (ghost.skipped => ghost'.skipped)
  BY LeaveStep DEF Leave
<1>2. /\ live # Nil /\ proc.records = live.records /\ ~Resolved /\ proc.at = Len(Order)
  BY <1>1, Engaged DEF Working, Backward, Resolved
<1>3. ManifestsConsistent' /\ SavedConsistent'
  BY <1>1, <1>2, SavedStays DEF Unmixed, Moved
<1>4. OneSet' /\ RestConsistent'
  BY <1>1, <1>2 DEF OneSet, RestConsistent, Resolved, Moved
<1>5. BackwardInv'
  BY <1>1, <1>2, Places DEF BackwardInv, Place, Moved
<1>6. ForwardInv' /\ RollingInv'
  BY <1>1 DEF ForwardInv, RollingInv, Rolling, Moved
<1> QED BY <1>3, <1>4, <1>5, <1>6 DEF Unmixed

LEMMA UndoOne ==
    ASSUME Typed, Protocol, UndoInv, Unmixed, Undo
    PROVE  Unmixed'
<1>1. /\ Typed' /\ Protocol' /\ proc # Idle /\ proc' # Idle /\ proc.phase = "undo" /\ live.op = "uninstall"
      /\ proc.at \in Place /\ Now \in Target /\ Now = Order[proc.at] /\ proc.undo \in 1..txn
      /\ UNCHANGED <<host, backup, live, txn, ghost>>
      /\ proc'.records = proc.records /\ proc'.undo = proc.undo
  BY UndoStep DEF Undo, Now, Moved
<1>2. /\ live # Nil /\ proc.records = live.records /\ ~Resolved /\ live.saved /\ txn \in 1..MaxTxn
      /\ proc.undo \in 1..MaxTxn
  BY <1>1, Engaged, Places DEF Working, Backward, Resolved, Protocol
<1>3. \/ Now \notin proc.records /\ proc'.phase = "undo" /\ proc'.at = proc.at - 1 /\ file' = file
      \/ Now \in proc.records /\ UNCHANGED proc /\ file' = [file EXCEPT ![Now] = Missing]
      \/ /\ Now \in proc.records /\ (Now \in Merged \/ file[Now] = Missing)
         /\ proc'.phase = "undone" /\ proc'.at = proc.at
         /\ file' = [file EXCEPT ![Now] = Old(Now, backup[proc.undo].files[Now])]
  BY UndoStep DEF Moved
<1>4. \A t \in Target \ {Now} : file'[t] = file[t]
  BY <1>3 DEF Typed
<1>5. ManifestsConsistent' /\ SavedConsistent'
  <2>1. file'[BaseState] = file[BaseState] \/ BaseState \in live.records
    BY <1>2, <1>3, <1>4, Places
  <2> QED BY <1>1, <1>2, <2>1, SavedStays DEF Unmixed
<1>6. OneSet' /\ RestConsistent'
  BY <1>1, <1>2 DEF OneSet, RestConsistent, Resolved
<1>7. PICK was : was = backup[proc.undo].files
  OBVIOUS
<1>8. (host.plugin = Nil \/ ghost.skipped) /\ \A i \in Place : i > proc.at => Same(Order[i], was)
  BY <1>1, <1>7 DEF Unmixed, BackwardInv
<1>9. \A i \in Place : i > proc.at => Same(Order[i], was)'
  <2> SUFFICES ASSUME NEW i \in Place, i > proc.at PROVE Same(Order[i], was)'
    OBVIOUS
  <2>1. Order[i] \in Target \ {Now}
    BY <1>1, Places DEF Place
  <2> QED BY <1>1, <1>4, <1>8, <2>1 DEF Same
<1>10. was = backup'[proc'.undo].files
  BY <1>1, <1>7
<1>11. BackwardInv'
  <2>1. CASE UNCHANGED proc
    BY <1>1, <1>8, <1>9, <2>1, <1>10 DEF BackwardInv, Same
  <2>2. CASE Now \notin proc.records /\ proc'.phase = "undo" /\ proc'.at = proc.at - 1 /\ file' = file
    <3>1. Same(Now, was)
      BY <1>1, <1>2, <1>7, <2>2, LeftOut DEF Same, Backward
    <3>2. \A i \in Place : i > proc.at - 1 => i > proc.at \/ Order[i] = Now
      BY <1>1, Places DEF Place
    <3>3. \A i \in Place : i > proc.at - 1 => Same(Order[i], was)'
      BY <1>1, <1>8, <2>2, <3>1, <3>2 DEF Same
    <3> QED BY <1>1, <1>8, <2>2, <1>10, <3>3 DEF BackwardInv, Same
  <2>3. CASE /\ (Now \in Merged \/ file[Now] = Missing) /\ proc'.phase = "undone" /\ proc'.at = proc.at
              /\ file' = [file EXCEPT ![Now] = Old(Now, backup[proc.undo].files[Now])]
    <3>1. /\ file'[Now] = Old(Now, was[Now]) /\ was[Now] \in Content
      BY <1>1, <1>2, <1>7, <2>3, BackupIs DEF Typed
    <3>2. Same(Order[proc.at], was)' \/ Same(Now, was)'
      BY <1>1, <3>1, <2>3, OldIs, Places DEF Same, Now
    <3>3. \A i \in Place : i = proc.at => Same(Order[i], was)'
      BY <1>1, <3>1, <2>3, OldIs, Places DEF Same
    <3> QED BY <1>1, <1>8, <1>9, <2>3, <1>10, <3>3 DEF BackwardInv, Same
  <2> QED BY <1>3, <2>1, <2>2, <2>3
<1>12. ForwardInv' /\ RollingInv'
  BY <1>1, <1>3 DEF ForwardInv, RollingInv, Rolling
<1> QED BY <1>5, <1>6, <1>11, <1>12 DEF Unmixed

LEMMA RecordUndoneOne ==
    ASSUME Typed, Protocol, UndoInv, Unmixed, RecordUndone
    PROVE  Unmixed'
<1>1. /\ Typed' /\ Protocol' /\ proc # Idle /\ proc' # Idle /\ proc.phase = "undone" /\ live.op = "uninstall"
      /\ proc.at \in Place /\ Now \in Target /\ Moved("undo", proc.at - 1, Applied(Now, file[Now]))
      /\ UNCHANGED <<file, host, backup, txn, ghost>>
  BY RecordUndoneStep DEF RecordUndone
<1>2. live # Nil /\ ~Resolved /\ proc.records = live.records
  BY <1>1, Engaged DEF Working, Resolved, Backward
<1>3. LET j == Applied(Now, file[Now])
      IN  /\ j.stage = live.stage /\ j.op = live.op /\ j.saved = live.saved
          /\ j.records = live.records /\ j.prev = live.prev
  BY <1>1, AppliedIs, ContentIs
<1>4. ManifestsConsistent' /\ SavedConsistent'
  BY <1>1, <1>2, <1>3, SavedStays DEF Unmixed, Moved
<1>5. OneSet' /\ RestConsistent'
  BY <1>1, <1>2, <1>3 DEF OneSet, RestConsistent, Resolved, Moved
<1>6. BackwardInv'
  <2>1. \A i \in Place : i > proc.at - 1 => i > proc.at \/ i = proc.at
    BY <1>1, Places DEF Place
  <2>2. /\ host.plugin = Nil \/ ghost.skipped
        /\ \A i \in Place : i > proc.at - 1 => Same(Order[i], backup[proc.undo].files)
    BY <1>1, <2>1 DEF Unmixed, BackwardInv
  <2>3. proc'.phase = "undo" /\ proc'.at = proc.at - 1 /\ proc'.undo = proc.undo
    BY <1>1 DEF Moved
  <2>4. \A i \in Place : i > proc.at - 1 => Same(Order[i], backup[proc.undo].files)'
    BY <1>1, <2>2, <2>3 DEF Same
  <2> QED BY <1>1, <2>2, <2>3, <2>4 DEF BackwardInv
<1>7. ForwardInv' /\ RollingInv'
  BY <1>1, <1>3 DEF ForwardInv, RollingInv, Rolling, Moved
<1> QED BY <1>4, <1>5, <1>6, <1>7 DEF Unmixed

LEMMA ReturnOne ==
    ASSUME Typed, Protocol, UndoInv, Unmixed, Return
    PROVE  Unmixed'
<1>1. /\ Typed' /\ Protocol' /\ proc # Idle /\ proc' # Idle /\ proc.phase = "undo" /\ live.op = "uninstall"
      /\ proc.at = 0 /\ Moved("commit", 0, live) /\ UNCHANGED <<file, backup, txn>>
      /\ ghost'.touched = ghost.touched /\ (ghost.skipped => ghost'.skipped)
  BY ReturnStep DEF Return
<1>2. live # Nil /\ ~Resolved /\ proc.records = live.records
  BY <1>1, Engaged DEF Working, Resolved, Backward
<1>3. ManifestsConsistent' /\ SavedConsistent'
  BY <1>1, <1>2, SavedStays DEF Unmixed, Moved
<1>4. OneSet' /\ RestConsistent'
  BY <1>1, <1>2 DEF OneSet, RestConsistent, Resolved, Moved
<1>5. PICK was : was = backup[proc.undo].files
  OBVIOUS
<1>6. (host.plugin = Nil \/ ghost.skipped) /\ \A t \in Target : Same(t, was)
  <2>1. \A i \in Place : i > proc.at
    BY <1>1, Places DEF Place
  <2> QED BY <1>1, <1>5, <2>1, Places DEF Unmixed, BackwardInv
<1>7. Consistent(was)
  BY <1>1, <1>5, Undoing DEF Unmixed, ManifestsConsistent, Backward
<1>8. Consistent(file) /\ file[State].block = was[State].block
  BY <1>6, <1>7, SameIsConsistent
<1>9. HostIs(host.plugin, file[State].block)'
  <2> SUFFICES ASSUME ~ghost'.skipped, Payload \notin ghost.touched PROVE host'.plugin = was[State].block
    BY <1>1, <1>8 DEF HostIs
  <2>1. host'.plugin = (IF was[State].block # Nil /\ file[Payload] # Missing THEN was[State].block ELSE host.plugin)
    BY <1>5, ReturnStep
  <2>2. host.plugin = Nil
    BY <1>1, <1>6
  <2>3. file[Payload].block = was[State].block
    BY <1>8, Places DEF Consistent
  <2> QED BY <2>1, <2>2, <2>3, Nothing
<1>10. Consistent(file)'
  BY <1>1, <1>8 DEF Consistent
<1>11. BackwardInv'
  BY <1>1, <1>9, <1>10 DEF BackwardInv, Moved
<1>12. ForwardInv' /\ RollingInv'
  BY <1>1 DEF ForwardInv, RollingInv, Rolling, Moved
<1> QED BY <1>3, <1>4, <1>11, <1>12 DEF Unmixed

LEMMA FailOne ==
    ASSUME Typed, Protocol, UndoInv, Unmixed, Fail
    PROVE  ghost'.unrecorded \/ Unmixed'
<1>1. CASE FailedEarly
  BY <1>1 DEF FailedEarly
<1>2. CASE FailedLate
  <2>1. /\ Typed' /\ Protocol' /\ proc # Idle /\ proc' # Idle /\ live.op = "install"
        /\ UNCHANGED <<file, host, backup, txn, ghost>> /\ proc'.phase = "rollback" /\ proc.phase # "backup"
        /\ live' # Nil /\ live'.stage = "ROLLBACK_STARTED" /\ live'.op = live.op /\ live'.records = live.records
        /\ live'.prev = live.prev /\ live'.saved /\ proc'.records = proc.records
    BY <1>2, FailStep DEF Fail, FailedLate, Moved
  <2>2. live # Nil /\ live.saved
    <3>1. /\ live # Nil /\ proc.phase \in {"begin", "commit", "finish"} \cup Forward
      BY <2>1, FailStep, Engaged DEF Process, Working, Backward
    <3> QED BY <2>1, <3>1, Engaged DEF Working, Protocol
  <2>3. ManifestsConsistent' /\ SavedConsistent'
    BY <2>1, <2>2, SavedStays DEF Unmixed
  <2>4. OneSet' /\ RestConsistent' /\ ForwardInv' /\ BackwardInv' /\ RollingInv'
    BY <2>1 DEF Unmixed, OneSet, RestConsistent, Resolved, ForwardInv, BackwardInv, RollingInv, Rolling
  <2> QED BY <2>3, <2>4 DEF Unmixed
<1> QED BY <1>1, <1>2, FailStep

LEMMA DeactivateOne ==
    ASSUME Typed, Protocol, UndoInv, Unmixed, Deactivate
    PROVE  Unmixed'
<1>1. /\ Typed' /\ Protocol' /\ proc # Idle /\ proc' # Idle /\ proc.phase = "rollback"
      /\ Moved("restore", proc.at, live) /\ UNCHANGED <<file, backup, txn, ghost>>
  BY DeactivateStep DEF Deactivate
<1>2. live # Nil /\ ~Resolved /\ proc.at = Len(Order)
  BY <1>1, Engaged DEF Working, Resolved
<1>3. ManifestsConsistent' /\ SavedConsistent'
  BY <1>1, <1>2, SavedStays DEF Unmixed, Moved
<1>4. OneSet' /\ RestConsistent' /\ ForwardInv' /\ BackwardInv'
  BY <1>1, <1>2 DEF Unmixed, OneSet, RestConsistent, Resolved, ForwardInv, BackwardInv, Moved
<1>5. RollingInv'
  BY <1>1, <1>2, Places DEF RollingInv, Place, Moved
<1> QED BY <1>3, <1>4, <1>5 DEF Unmixed

LEMMA RecoverOne ==
    ASSUME Typed, Protocol, UndoInv, Unmixed, Recover
    PROVE  Unmixed'
<1>1. proc = Idle /\ live # Nil /\ UNCHANGED <<file, host, backup, txn, ghost>>
  BY RecoverStep DEF Recover
<1>2. CASE Resolved /\ live' = Nil /\ proc' = Idle
  <2>1. ManifestsConsistent' /\ SavedConsistent'
    BY <1>1, <1>2, SavedStays DEF Unmixed
  <2>2. RestConsistent'
    BY <1>1, <1>2 DEF Unmixed, RestConsistent, Consistent, HostIs
  <2>3. OneSet' /\ ForwardInv' /\ BackwardInv' /\ RollingInv'
    BY <1>2 DEF OneSet, ForwardInv, BackwardInv, RollingInv
  <2> QED BY <2>1, <2>2, <2>3 DEF Unmixed
<1>3. CASE /\ live' # Nil /\ live'.stage = "ROLLBACK_STARTED" /\ live'.op = live.op
           /\ live'.saved = live.saved /\ live'.records = live.records /\ live'.prev = live.prev
           /\ proc' # Idle /\ proc'.phase = "restore" /\ proc'.at = Len(Order) /\ proc'.records = live.records
  <2>1. ManifestsConsistent' /\ SavedConsistent'
    BY <1>1, <1>3, SavedStays DEF Unmixed
  <2>2. OneSet' /\ RestConsistent' /\ ForwardInv' /\ BackwardInv'
    BY <1>3 DEF OneSet, RestConsistent, Resolved, ForwardInv, BackwardInv
  <2>3. RollingInv'
    BY <1>3, Places DEF RollingInv, Place
  <2> QED BY <2>1, <2>2, <2>3 DEF Unmixed
<1> QED BY <1>2, <1>3, RecoverStep

LEMMA RestoreOne ==
    ASSUME Typed, Protocol, UndoInv, Unmixed, Restore
    PROVE  Unmixed'
<1>1. /\ Typed' /\ Protocol' /\ proc # Idle /\ proc' # Idle /\ proc.phase = "restore"
      /\ proc.at \in Place /\ Now \in Target /\ Now = Order[proc.at]
      /\ live' = live /\ proc'.records = proc.records
      /\ UNCHANGED <<host, backup, txn, ghost>>
  BY RestoreStep DEF Restore, Now, Moved
<1>2. /\ live # Nil /\ proc.records = live.records /\ ~Resolved /\ live.saved /\ txn \in 1..MaxTxn
  BY <1>1, Engaged DEF Working, Rolling, Resolved, Protocol, Unmixed, OneSet
<1>3. PICK was : was = backup[txn].files
  OBVIOUS
<1>4. \/ /\ Now \notin proc.records /\ proc'.phase = "restore" /\ proc'.at = proc.at - 1 /\ file' = file
         /\ proc'.error = proc.error
      \/ proc'.error /\ file' = file
      \/ /\ Now \in proc.records /\ proc'.phase = "putback" /\ proc'.at = proc.at
         /\ file' = [file EXCEPT ![Now] = Missing] /\ proc'.error = proc.error
      \/ /\ Now \in proc.records /\ (Now \in Merged \/ file[Now] = Missing)
         /\ proc'.phase = "restore" /\ proc'.at = proc.at - 1
         /\ file' = [file EXCEPT ![Now] = Old(Now, was[Now])] /\ proc'.error = proc.error
  BY <1>3, RestoreStep DEF Moved
<1>5. \A t \in Target \ {Now} : file'[t] = file[t]
  BY <1>4 DEF Typed
<1>6. Now \notin proc.records \/ proc'.error => file' = file \/ Now \in proc.records
  BY <1>4
<1>7. ManifestsConsistent' /\ SavedConsistent'
  <2>1. file'[BaseState] = file[BaseState] \/ BaseState \in live.records
    BY <1>2, <1>5, <1>6, <1>4, Places
  <2> QED BY <1>1, <1>2, <2>1, SavedStays DEF Unmixed
<1>8. OneSet' /\ RestConsistent'
  BY <1>1, <1>2 DEF OneSet, RestConsistent, Resolved
<1>9. was = backup'[txn'].files /\ was[Now] \in Content
  BY <1>1, <1>2, <1>3, BackupIs
<1>10. RollingInv'
  <2> SUFFICES ASSUME ~proc'.error
               PROVE  /\ proc'.phase # "end"
                      /\ \A i \in Place : i > proc'.at => Same(Order[i], was)'
    BY <1>9 DEF RollingInv, Same
  <2>1. \A i \in Place : i > proc.at => Same(Order[i], was)
    BY <1>1, <1>3, <1>4 DEF Unmixed, RollingInv, Rolling
  <2>2. \A i \in Place : i > proc.at => Same(Order[i], was)'
    <3> SUFFICES ASSUME NEW i \in Place, i > proc.at PROVE Same(Order[i], was)'
      OBVIOUS
    <3>1. Order[i] \in Target \ {Now}
      BY <1>1, Places DEF Place
    <3> QED BY <1>1, <1>5, <2>1, <3>1 DEF Same
  <2>3. \A i \in Place : i > proc.at - 1 => i > proc.at \/ Order[i] = Now
    BY <1>1, Places DEF Place
  <2>4. CASE Now \notin proc.records /\ proc'.phase = "restore" /\ proc'.at = proc.at - 1 /\ file' = file
    <3>1. Same(Now, was)
      BY <1>1, <1>2, <1>3, <2>4, LeftOut DEF Same
    <3> QED BY <1>1, <2>2, <2>3, <2>4, <3>1 DEF Same
  <2>5. CASE proc'.phase = "putback" /\ proc'.at = proc.at
    BY <2>2, <2>5
  <2>6. CASE /\ Now \in Merged \/ file[Now] = Missing
             /\ proc'.phase = "restore" /\ proc'.at = proc.at - 1
             /\ file' = [file EXCEPT ![Now] = Old(Now, was[Now])]
    <3>1. file'[Now] = Old(Now, was[Now])
      BY <1>1, <2>6 DEF Typed
    <3>2. \A i \in Place : Order[i] = Now => Same(Order[i], was)'
      BY <1>1, <3>1, <1>9, <2>6, OldIs, Places DEF Same
    <3> QED BY <2>2, <2>3, <2>6, <3>2
  <2> QED BY <1>4, <2>4, <2>5, <2>6
<1>11. ForwardInv' /\ BackwardInv'
  BY <1>1, <1>4, RestoreStep DEF ForwardInv, BackwardInv, Moved
<1> QED BY <1>7, <1>8, <1>10, <1>11 DEF Unmixed

LEMMA PutBackOne ==
    ASSUME Typed, Protocol, UndoInv, Unmixed, PutBack
    PROVE  Unmixed'
<1>1. /\ Typed' /\ Protocol' /\ proc # Idle /\ proc' # Idle /\ proc.phase = "putback"
      /\ proc.at \in Place /\ Now \in Target /\ Now = Order[proc.at] /\ Now \in proc.records
      /\ live' = live /\ proc'.phase = "restore" /\ proc'.at = proc.at - 1
      /\ proc'.records = proc.records /\ proc'.error = proc.error
      /\ UNCHANGED <<host, backup, txn, ghost>>
  BY PutBackStep DEF PutBack, Now, Moved
<1>2. /\ live # Nil /\ proc.records = live.records /\ ~Resolved /\ txn \in 1..MaxTxn
  BY <1>1, Engaged DEF Working, Rolling, Resolved, Unmixed, OneSet
<1>3. PICK was : was = backup[txn].files
  OBVIOUS
<1>4. file' = [file EXCEPT ![Now] = was[Now]] /\ was = backup'[txn'].files
  BY <1>1, <1>3, PutBackStep
<1>5. file'[Now] = was[Now] /\ \A t \in Target \ {Now} : file'[t] = file[t]
  BY <1>1, <1>4 DEF Typed
<1>6. ManifestsConsistent' /\ SavedConsistent'
  <2>1. file'[BaseState] = file[BaseState] \/ BaseState \in live.records
    BY <1>1, <1>2, <1>5, Places
  <2> QED BY <1>1, <1>2, <2>1, SavedStays DEF Unmixed
<1>7. OneSet' /\ RestConsistent' /\ ForwardInv' /\ BackwardInv'
  BY <1>1, <1>2 DEF OneSet, RestConsistent, Resolved, ForwardInv, BackwardInv
<1>8. RollingInv'
  <2> SUFFICES ASSUME ~proc.error
               PROVE  \A i \in Place : i > proc.at - 1 => Same(Order[i], was)'
    BY <1>1, <1>4 DEF RollingInv, Same
  <2>1. \A i \in Place : i > proc.at => Same(Order[i], was)
    BY <1>1, <1>3 DEF Unmixed, RollingInv, Rolling
  <2>2. \A i \in Place : i > proc.at - 1 => i > proc.at \/ Order[i] = Now
    BY <1>1, Places DEF Place
  <2>3. \A i \in Place : Order[i] = Now => Same(Order[i], was)'
    BY <1>5 DEF Same
  <2>4. \A i \in Place : i > proc.at => Same(Order[i], was)'
    <3> SUFFICES ASSUME NEW i \in Place, i > proc.at PROVE Same(Order[i], was)'
      OBVIOUS
    <3>1. Order[i] \in Target \ {Now}
      BY <1>1, Places DEF Place
    <3> QED BY <1>1, <1>5, <2>1, <3>1 DEF Same
  <2> QED BY <2>2, <2>3, <2>4
<1> QED BY <1>6, <1>7, <1>8 DEF Unmixed

LEMMA RestoreHostOne ==
    ASSUME Typed, Protocol, UndoInv, Unmixed, RestoreHost
    PROVE  Unmixed'
<1>1. /\ Typed' /\ Protocol' /\ proc # Idle /\ proc' # Idle /\ proc.phase = "restore" /\ proc.at = 0
      /\ live' = live /\ proc'.phase = "end" /\ proc'.records = proc.records
      /\ proc.error => proc'.error
      /\ ghost'.touched = ghost.touched /\ (ghost.skipped => ghost'.skipped)
      /\ UNCHANGED <<file, backup, txn>>
  BY RestoreHostStep DEF RestoreHost
<1>2. /\ live # Nil /\ proc.records = live.records /\ ~Resolved /\ live.saved /\ txn \in 1..MaxTxn
  BY <1>1, Engaged DEF Working, Rolling, Resolved, Protocol, Unmixed, OneSet
<1>3. ManifestsConsistent' /\ SavedConsistent'
  BY <1>1, <1>2, SavedStays DEF Unmixed
<1>4. OneSet' /\ RestConsistent' /\ ForwardInv' /\ BackwardInv'
  BY <1>1, <1>2 DEF OneSet, RestConsistent, Resolved, ForwardInv, BackwardInv
<1>5. PICK was : was = backup[txn].files
  OBVIOUS
<1>6. RollingInv'
  <2> SUFFICES ASSUME ~proc'.error
               PROVE  /\ \A i \in Place : Same(Order[i], was)
                      /\ HostIs(host.plugin, was[State].block)'
    BY <1>1, <1>5 DEF RollingInv, Same
  <2>1. \A i \in Place : i > proc.at
    BY <1>1, Places DEF Place
  <2>2. \A i \in Place : Same(Order[i], was)
    BY <1>1, <1>5, <2>1 DEF Unmixed, RollingInv, Rolling
  <2>3. Consistent(was) /\ HostIs(live.prev.plugin, was[State].block)
    BY <1>2, <1>5 DEF Unmixed, SavedConsistent
  <2>4. HostIs(host.plugin, was[State].block)'
    <3> SUFFICES ASSUME ~ghost'.skipped, Payload \notin ghost.touched PROVE host'.plugin = was[State].block
      BY <1>1 DEF HostIs
    <3>1. host'.plugin = (IF live.prev.plugin # Nil /\ file[Payload] # Missing THEN live.prev.plugin ELSE Nil)
      BY RestoreHostStep
    <3>2. live.prev.plugin = was[State].block
      BY <1>1, <2>3 DEF HostIs
    <3>3. file[Payload].block = was[State].block
      BY <2>2, <2>3, Places DEF Consistent, Same
    <3> QED BY <3>1, <3>2, <3>3, Nothing
  <2> QED BY <2>2, <2>4
<1> QED BY <1>3, <1>4, <1>6 DEF Unmixed

LEMMA EndRollbackOne ==
    ASSUME Typed, Protocol, UndoInv, Unmixed, EndRollback
    PROVE  Unmixed'
<1>1. /\ Typed' /\ Protocol' /\ proc # Idle /\ proc.phase = "end" /\ live # Nil /\ live.saved
      /\ UNCHANGED <<file, host, backup, txn, ghost>>
  BY EndRollbackStep, Engaged DEF EndRollback, Working, Protocol, Rolling
<1>2. \A s \in {"RECOVERY_REQUIRED", "ROLLED_BACK"} :
        /\ Stage(s).stage = s /\ Stage(s).op = live.op /\ Stage(s).saved = live.saved
        /\ Stage(s).records = live.records /\ Stage(s).prev = live.prev
  BY <1>1, StageIs
<1>3. live' # Nil /\ \E s \in {"RECOVERY_REQUIRED", "ROLLED_BACK"} : live' = Stage(s)
  BY EndRollbackStep DEF Moved
<1>4. ManifestsConsistent' /\ SavedConsistent'
  BY <1>1, <1>2, <1>3, SavedStays DEF Unmixed
<1>5. OneSet' /\ ForwardInv' /\ BackwardInv' /\ RollingInv'
  BY <1>1, <1>2, EndRollbackStep DEF Unmixed, OneSet, ForwardInv, BackwardInv, RollingInv, Rolling, Moved
<1>6. RestConsistent'
  <2>1. CASE proc.error
    BY <1>2, <2>1, EndRollbackStep DEF RestConsistent, Resolved
  <2>2. CASE ~proc.error
    <3>1. /\ \A i \in Place : Same(Order[i], backup[txn].files)
          /\ HostIs(host.plugin, backup[txn].files[State].block)
      BY <1>1, <2>2 DEF Unmixed, RollingInv, Rolling
    <3>2. Consistent(backup[txn].files)
      BY <1>1 DEF Unmixed, SavedConsistent
    <3>3. \A t \in Target : Same(t, backup[txn].files)
      BY <3>1, Places
    <3>4. Consistent(file) /\ file[State].block = backup[txn].files[State].block
      BY <3>2, <3>3, SameIsConsistent
    <3> QED BY <1>1, <3>1, <3>4 DEF RestConsistent, Consistent, HostIs
  <2> QED BY <2>1, <2>2
<1> QED BY <1>4, <1>5, <1>6 DEF Unmixed

LEMMA EditOne ==
    ASSUME Typed, Protocol, UndoInv, Unmixed, NEW t \in Target, Edit(t)
    PROVE  Unmixed'
<1>1. /\ t # State /\ t # BaseState
      /\ UNCHANGED <<host, backup, live, proc, txn>>
  BY EditStep
<1>2. PICK c \in Content : Edited(t, c)
  BY EditStep
<1>3. /\ \A u \in Target \ {t} : file'[u] = file[u]
      /\ t \notin ghost'.touched => file'[t].block = file[t].block
      /\ ghost.touched \subseteq ghost'.touched /\ ghost'.skipped = ghost.skipped
  BY <1>2 DEF Edited, Typed
<1>4. /\ file'[State] = file[State] /\ file'[BaseState] = file[BaseState]
      /\ \A u \in Target : u \notin ghost'.touched => u \notin ghost.touched /\ file'[u].block = file[u].block
  BY <1>1, <1>3, Places
<1>5. /\ \A f : Consistent(f) => Consistent(f)'
      /\ \A p, v : HostIs(p, v) => HostIs(p, v)'
      /\ Consistent(file) => Consistent(file)'
  <2>1. Consistent(file) => Consistent(file)'
    BY <1>4, Places DEF Consistent
  <2> QED BY <1>3, <2>1, ConsistentStays
<1>6. /\ \A u \in Target : Installed(u) => Installed(u)'
      /\ \A u \in Target : \A f : Same(u, f) => Same(u, f)'
  BY <1>1, <1>4 DEF Installed, Same
<1>7. ManifestsConsistent' /\ SavedConsistent'
  BY <1>1, <1>3, <1>4, SavedStays DEF Unmixed
<1>8. OneSet' /\ RestConsistent'
  BY <1>1, <1>4, <1>5 DEF Unmixed, OneSet, RestConsistent, Resolved
<1>9. ForwardInv'
  BY <1>1, <1>6, Places DEF Unmixed, ForwardInv
<1>10. BackwardInv'
  BY <1>1, <1>3, <1>4, <1>5, <1>6, Places DEF Unmixed, BackwardInv
<1>11. RollingInv'
  BY <1>1, <1>5, <1>6, Places DEF Unmixed, RollingInv
<1> QED BY <1>7, <1>8, <1>9, <1>10, <1>11 DEF Unmixed

(* That an install failed before its records were journaled is not         *)
(* forgotten.                                                              *)
LEMMA UnrecordedStays ==
    ASSUME Typed, Protocol, UndoInv, InstallerNext, ghost.unrecorded
    PROVE  ghost'.unrecorded
<1>1. CASE Leave
  BY <1>1, LeaveStep
<1>2. CASE Return
  BY <1>2, ReturnStep
<1>3. CASE Fail
  BY <1>3, FailStep DEF FailedEarly, FailedLate
<1>4. CASE RestoreHost
  BY <1>4, RestoreHostStep
<1>5. CASE \E t \in Target : Edit(t)
  BY <1>5, EditStep DEF Edited
<1>6. CASE UNCHANGED ghost
  BY <1>6
<1>7. CASE Install \/ \E force \in BOOLEAN : Uninstall(force)
  BY <1>7 DEF Install, Uninstall, Start
<1>8. CASE BackUp \/ Begin \/ Select \/ Remove \/ Replace \/ Record \/ LeaveBase \/ Activate \/ WriteManifest
  BY <1>8 DEF BackUp, Begin, Select, Remove, Replace, Record, LeaveBase, Activate, WriteManifest
<1>9. CASE Undo \/ RecordUndone \/ Commit \/ Finish \/ Crash \/ Recover
  BY <1>9 DEF Undo, RecordUndone, Commit, Finish, Crash, Recover
<1>10. CASE Deactivate \/ Restore \/ PutBack \/ EndRollback
  BY <1>10 DEF Deactivate, Restore, PutBack, EndRollback
<1> QED BY <1>1, <1>2, <1>3, <1>4, <1>5, <1>7, <1>8, <1>9, <1>10
        DEF InstallerNext, InstallStep, UninstallStep, RollbackStep

LEMMA OneInductive ==
    ASSUME Typed, Protocol, UndoInv, OneInv, [InstallerNext]_installation
    PROVE  OneInv'
<1>1. CASE UNCHANGED installation
  <2>1. ghost.unrecorded => ghost'.unrecorded
    BY <1>1 DEF installation
  <2>2. ManifestsConsistent => ManifestsConsistent'
    BY <1>1 DEF installation, ManifestsConsistent, Consistent, Full
  <2>3. SavedConsistent => SavedConsistent'
    BY <1>1 DEF installation, SavedConsistent, Consistent, Full, HostIs
  <2>4. OneSet /\ RestConsistent => OneSet' /\ RestConsistent'
    BY <1>1 DEF installation, OneSet, RestConsistent, Resolved, Consistent, HostIs
  <2>5. ForwardInv => ForwardInv'
    BY <1>1 DEF installation, ForwardInv, Installed
  <2>6. BackwardInv => BackwardInv'
    BY <1>1 DEF installation, BackwardInv, Same, Consistent, HostIs
  <2>7. RollingInv => RollingInv'
    BY <1>1 DEF installation, RollingInv, Same, HostIs
  <2> QED BY <2>1, <2>2, <2>3, <2>4, <2>5, <2>6, <2>7 DEF OneInv, Unmixed
<1>2. CASE ghost.unrecorded /\ InstallerNext
  BY <1>2, UnrecordedStays DEF OneInv
<1>3. CASE Unmixed /\ InstallerNext
  BY <1>3, StartOne, BackUpOne, BeginOne, SelectOne, RemoveOne, ReplaceOne, RecordOne, LeaveBaseOne, ActivateOne,
     WriteManifestOne, CommitOne, FinishOne, CrashOne, LeaveOne, UndoOne, RecordUndoneOne, ReturnOne, FailOne,
     DeactivateOne, RecoverOne, RestoreOne, PutBackOne, RestoreHostOne, EndRollbackOne, EditOne
  DEF OneInv, InstallerNext, InstallStep, UninstallStep, RollbackStep
<1> QED BY <1>1, <1>2, <1>3 DEF OneInv

LEMMA BeginningOne ==
    ASSUME InstallerInit
    PROVE  OneInv
<1>1. /\ live = Nil /\ proc = Idle /\ host.plugin = Nil
      /\ \A b \in 1..MaxTxn : ~backup[b].manifest
      /\ \A t \in Target : file[t] = IF t = BaseState /\ HadBase THEN Package(0) ELSE Missing
  BY DEF InstallerInit
<1>2. Consistent(file) /\ HostIs(host.plugin, file[State].block)
  BY <1>1, Places, Nothing DEF Consistent, HostIs
<1> QED BY <1>1, <1>2 DEF OneInv, Unmixed, ManifestsConsistent, SavedConsistent, OneSet, RestConsistent, ForwardInv,
                          BackwardInv, RollingInv

(* All or nothing: whenever no transaction is live, the targets the user   *)
(* left alone, the plugin the host runs and the state file are of one      *)
(* version, after commits, rollbacks and recoveries alike.                 *)
THEOREM OneVersionAtRest == InstallerSpec => []OneVersion
<1>1. InstallerInit => Typed /\ Protocol /\ UndoInv /\ OneInv
  BY BeginningUndo, BeginningOne
<1>2. Typed /\ Protocol /\ UndoInv /\ OneInv /\ [InstallerNext]_installation
         => (Typed /\ Protocol /\ UndoInv /\ OneInv)'
  BY UndoInductive, OneInductive
<1>3. Typed /\ Protocol /\ UndoInv /\ OneInv => OneVersion
  BY DEF OneVersion, AtRest, Version, OneInv, Unmixed, RestConsistent, Resolved, Consistent, HostIs
<1> QED BY <1>1, <1>2, <1>3, PTL DEF InstallerSpec

-------------------------------------------------------------------------------
(* What is read.  A status report speaks of whole files and says nothing of *)
(* which of them the user replaced, so that this part tells what OneInv    *)
(* leaves out: a file the user once replaced, and an install that failed   *)
(* before its records were journaled, never bring back another version.    *)

Whole == Target \ Merged
Early == {"BACKED_UP", "APPLYING", "ACTIVATING"}

(* Target t is that of files f, or the user replaced it; it is what the    *)
(* transaction installs, or the user replaced it.                          *)
Near(t, f) == file[t].block \in {f[t].block, Nil}
Into(t) == file[t].block \in {txn, Nil}

(* Files of one version, and the plugin of the host with them.             *)
OfVersion(f) == f[State].block # Nil => \A t \in Whole : f[t].block \in {f[State].block, Nil}
HostOf(f, plugin) ==
    ~ghost.skipped /\ f[State].block # Nil =>
        /\ plugin \in {f[State].block, Nil}
        /\ f[Payload].block = f[State].block => plugin = f[State].block

(* A backup holds what older transactions installed. *)
Dated ==
    /\ \A t \in Whole :
          /\ file[t].block # Nil => file[t].user = 0 /\ file[t].block <= txn
          /\ live # Nil /\ ~live.saved => file[t].block # txn
          /\ \A b \in 1..MaxTxn : backup[b].files[t].block # Nil =>
                backup[b].files[t].user = 0 /\ backup[b].files[t].block < b
    /\ file[BaseState].block \in {0, Nil}
    /\ \A b \in 1..MaxTxn : backup[b].files[BaseState].block \in {0, Nil}
ManifestsOf ==
    \A b \in 1..MaxTxn : backup[b].manifest =>
        /\ OfVersion(backup[b].files) /\ Target \ {BaseState} \subseteq backup[b].records
        /\ BaseState \notin backup[b].records => backup[b].files[BaseState].block = Nil
SavedOf ==
    live # Nil /\ live.saved =>
        /\ OfVersion(backup[txn].files) /\ HostOf(backup[txn].files, live.prev.plugin)
        /\ \A t \in Whole \ live.records : Near(t, backup[txn].files)
        /\ live.op = "uninstall" \/ live.stage \in Early => Target \ {BaseState} \subseteq live.records
        /\ live.op = "uninstall" \/ (live.stage \in Early /\ BaseState \notin live.records)
              => backup[txn].files[BaseState].block = Nil
Noted == proc.phase = "backup" => live.prev = host
RestOf == Resolved => OfVersion(file) /\ HostOf(file, host.plugin)
ForwardOf ==
    proc # Idle /\ live.op = "install" =>
        /\ proc.phase \in {"target", "base", "activate", "write", "record"} =>
              \A i \in Place : i < proc.at \/ (i = proc.at /\ proc.phase = "record")
                                 => Order[i] \in Merged \/ Into(Order[i])
        /\ proc.phase \in {"manifest", "commit"} => \A t \in Whole : Into(t)
        /\ proc.phase \in {"target", "write", "record"} =>
              \A i \in Place : Order[i] = Payload /\ i < proc.at => host.plugin = txn
        /\ proc.phase \in {"manifest", "commit"} => host.plugin = txn
BackwardOf ==
    proc # Idle /\ live.op = "uninstall" =>
        /\ proc.phase \in {"undo", "undone"} =>
              /\ host.plugin = Nil \/ ghost.skipped
              /\ \A i \in Place : i > proc.at \/ (i = proc.at /\ proc.phase = "undone")
                                    => Order[i] \in Merged \/ Near(Order[i], backup[proc.undo].files)
        /\ proc.phase = "commit" => OfVersion(file) /\ HostOf(file, host.plugin)
RollingOf ==
    proc # Idle /\ proc.phase \in Rolling /\ ~proc.error =>
        /\ \A i \in Place : i > proc.at \/ proc.phase = "end"
                              => Order[i] \in Merged \/ Near(Order[i], backup[txn].files)
        /\ proc.phase = "end" => HostOf(file, host.plugin)

LineageInv ==
    /\ Dated /\ ManifestsOf /\ SavedOf /\ Noted
    /\ RestOf /\ ForwardOf /\ BackwardOf /\ RollingOf

-------------------------------------------------------------------------------
(* What a step does to files, backups, the host and the journal.           *)

LEMMA Wholes ==
    /\ State \in Whole /\ BaseState \in Whole /\ Payload \in Whole
    /\ \A t \in Whole : t \in Target /\ t \notin Merged
BY Places DEF Whole

(* Whole files are removed or replaced, written by an install, given back  *)
(* by an uninstall, or given back by a rollback.                           *)
LEMMA FileChanges ==
    ASSUME Typed, Protocol, UndoInv, InstallerNext, NEW t \in Whole
    PROVE  \/ file'[t] = file[t]
           \/ file'[t].block = Nil
           \/ /\ proc.phase = "write" /\ t = Now /\ t \in proc.records /\ t # BaseState
              /\ file'[t] = Package(txn)
           \/ /\ proc.phase = "undo" /\ live.op = "uninstall" /\ t = Now /\ t \in proc.records
              /\ proc.undo \in 1..txn /\ file'[t] = backup[proc.undo].files[t]
           \/ /\ proc.phase \in {"restore", "putback"} /\ t = Now /\ file'[t] = backup[txn].files[t]
<1>1. t \in Target /\ t \notin Merged
  BY Wholes
<1>2. \A u \in Target : \A c : file' = [file EXCEPT ![u] = c] => file'[t] = IF t = u THEN c ELSE file[t]
  BY <1>1 DEF Typed
<1>3. CASE UNCHANGED file
  BY <1>3
<1>4. CASE Remove
  BY <1>2, <1>4, RemoveStep, Nothing
<1>5. CASE Replace
  <2>1. /\ proc # Idle /\ proc.phase = "write" /\ Now \in Target /\ Now \in proc.records
        /\ file' = [file EXCEPT ![Now] = New(Now)]
        /\ proc.j.id = txn
    BY <1>5, ReplaceStep, Engaged
  <2>2. CASE t = Now
    BY <1>1, <1>2, <2>1, <2>2, Nothing DEF New
  <2> QED BY <1>2, <2>1, <2>2
<1>6. CASE Undo
  <2>1. /\ proc.phase = "undo" /\ live.op = "uninstall" /\ Now \in Target /\ proc.undo \in 1..txn /\ proc.undo # txn
        /\ \/ file' = file
           \/ file' = [file EXCEPT ![Now] = Missing]
           \/ Now \in proc.records /\ file' = [file EXCEPT ![Now] = Old(Now, backup[proc.undo].files[Now])]
    BY <1>6, UndoStep
  <2>2. t = Now => Old(Now, backup[proc.undo].files[Now]) = backup[proc.undo].files[Now]
    BY <1>1 DEF Old
  <2> QED BY <1>2, <2>1, <2>2, Nothing
<1>7. CASE Restore
  <2>1. /\ proc.phase = "restore" /\ Now \in Target
        /\ \/ file' = file
           \/ file' = [file EXCEPT ![Now] = Missing]
           \/ file' = [file EXCEPT ![Now] = Old(Now, backup[txn].files[Now])]
    BY <1>7, RestoreStep
  <2>2. t = Now => Old(Now, backup[txn].files[Now]) = backup[txn].files[Now]
    BY <1>1 DEF Old
  <2> QED BY <1>2, <2>1, <2>2, Nothing
<1>8. CASE PutBack
  BY <1>2, <1>8, PutBackStep
<1>9. CASE \E u \in Target : Edit(u)
  <2>1. PICK u \in Target : Edit(u)
    BY <1>9
  <2>2. PICK c \in Content : Edited(u, c)
    BY <2>1, EditStep
  <2> QED BY <1>1, <1>2, <2>2 DEF Edited
<1>10. CASE Install \/ \E force \in BOOLEAN : Uninstall(force)
  BY <1>3, <1>10 DEF Install, Uninstall, Start
<1>11. CASE BackUp \/ Begin \/ Select \/ Record \/ LeaveBase \/ Activate \/ WriteManifest \/ Commit \/ Finish
  BY <1>3, <1>11 DEF BackUp, Begin, Select, Record, LeaveBase, Activate, WriteManifest, Commit, Finish
<1>12. CASE Leave \/ RecordUndone \/ Return \/ Fail \/ Deactivate \/ RestoreHost \/ EndRollback \/ Recover \/ Crash
  BY <1>3, <1>12 DEF Leave, RecordUndone, Return, Fail, Deactivate, RestoreHost, EndRollback, Recover, Crash
<1> QED BY <1>4, <1>5, <1>6, <1>7, <1>8, <1>9, <1>10, <1>11, <1>12
        DEF InstallerNext, InstallStep, UninstallStep, RollbackStep

(* Backups are made once, and get their manifest once. *)
LEMMA BackupChanges ==
    ASSUME Typed, Protocol, UndoInv, InstallerNext, NEW b \in 1..MaxTxn
    PROVE  /\ \/ backup'[b] = backup[b]
              \/ /\ b = txn /\ proc.phase = "backup" /\ proc # Idle /\ backup'[b].files = file
                 /\ backup'[b].manifest = backup[b].manifest /\ live' # Nil /\ live'.saved
                 /\ UNCHANGED <<file, host, txn>>
              \/ /\ b = txn /\ WriteManifest /\ backup'[b].files = backup[b].files
                 /\ backup'[b].records = backup[b].records
<1>1. CASE UNCHANGED backup
  BY <1>1
<1>2. CASE BackUp
  <2>1. /\ proc # Idle /\ live' # Nil /\ live'.saved /\ backup'[txn].files = file
        /\ backup'[txn].manifest = backup[txn].manifest /\ \A c \in 1..MaxTxn : c # txn => backup'[c] = backup[c]
    BY <1>2, BackUpStep
  <2> QED BY <1>2, <2>1 DEF BackUp, At
<1>3. CASE Fail
  BY <1>3, FailStep DEF FailedEarly, FailedLate, Fail
<1>4. CASE WriteManifest
  <2>1. proc # Idle /\ backup' = [backup EXCEPT ![proc.j.id].manifest = TRUE]
    BY <1>4, WriteManifestStep DEF WriteManifest
  <2>2. proc.j.id = txn
    BY <2>1, Engaged
  <2>3. b # txn => backup'[b] = backup[b]
    BY <2>1, <2>2 DEF Typed
  <2>4. backup'[b].files = backup[b].files /\ backup'[b].records = backup[b].records
    BY <1>4, WriteManifestStep
  <2> QED BY <1>4, <2>3, <2>4
<1>5. CASE Install \/ \E force \in BOOLEAN : Uninstall(force)
  BY <1>1, <1>5 DEF Install, Uninstall, Start
<1>6. CASE Begin \/ Select \/ Remove \/ Replace \/ Record \/ LeaveBase \/ Activate \/ Commit \/ Finish
  BY <1>1, <1>6 DEF Begin, Select, Remove, Replace, Record, LeaveBase, Activate, Commit, Finish
<1>7. CASE Leave \/ Undo \/ RecordUndone \/ Return \/ Deactivate \/ Restore \/ PutBack \/ RestoreHost \/ EndRollback
  BY <1>1, <1>7 DEF Leave, Undo, RecordUndone, Return, Deactivate, Restore, PutBack, RestoreHost, EndRollback
<1>8. CASE Recover \/ Crash \/ \E t \in Target : Edit(t)
  BY <1>1, <1>8, EditStep DEF Recover, Crash
<1> QED BY <1>2, <1>3, <1>4, <1>5, <1>6, <1>7, <1>8 DEF InstallerNext, InstallStep, UninstallStep, RollbackStep

LEMMA HostChanges ==
    ASSUME Typed, Protocol, UndoInv, InstallerNext
    PROVE  /\ \/ host'.plugin = host.plugin
              \/ host'.plugin = Nil
              \/ proc.phase = "activate" /\ host'.plugin = txn
              \/ /\ proc.phase \in {"undo", "restore"} /\ proc'.phase \in {"commit", "end"}
                 /\ host'.plugin = file[Payload].block
           /\ ghost.skipped => ghost'.skipped
<1>1. CASE UNCHANGED <<host, ghost>>
  BY <1>1
<1>2. CASE LeaveBase
  BY <1>2, LeaveBaseStep DEF LeaveBase
<1>3. CASE Activate
  BY <1>3, ActivateStep DEF Activate
<1>4. CASE Leave
  BY <1>4 DEF Leave, Typed, HostState, Ghost
<1>5. CASE Return
  BY <1>5, ReturnStep DEF Return, At, Typed, HostState, Ghost, Moved
<1>6. CASE Deactivate
  BY <1>6 DEF Deactivate, Typed, HostState
<1>7. CASE RestoreHost
  BY <1>7, RestoreHostStep DEF RestoreHost, At, Typed, HostState, Ghost
<1>8. CASE Fail
  BY <1>8, FailStep DEF Fail, FailedEarly, FailedLate
<1>9. CASE \E t \in Target : Edit(t)
  BY <1>9, EditStep DEF Edited
<1>10. CASE Install \/ \E force \in BOOLEAN : Uninstall(force)
  BY <1>1, <1>10 DEF Install, Uninstall, Start
<1>11. CASE BackUp \/ Begin \/ Select \/ Remove \/ Replace \/ Record \/ WriteManifest \/ Commit \/ Finish
  BY <1>1, <1>11 DEF BackUp, Begin, Select, Remove, Replace, Record, WriteManifest, Commit, Finish
<1>12. CASE Undo \/ RecordUndone \/ Restore \/ PutBack \/ EndRollback \/ Recover \/ Crash
  BY <1>1, <1>12 DEF Undo, RecordUndone, Restore, PutBack, EndRollback, Recover, Crash
<1> QED BY <1>2, <1>3, <1>4, <1>5, <1>6, <1>7, <1>8, <1>9, <1>10, <1>11, <1>12
        DEF InstallerNext, InstallStep, UninstallStep, RollbackStep


(* The journal of a transaction keeps what it was begun with.              *)
Carried(j) ==
    /\ live # Nil /\ j.op = live.op /\ j.saved = live.saved /\ j.records = live.records /\ j.prev = live.prev
    /\ j.stage \in Early => live.stage \in Early

LEMMA JournalChanges ==
    ASSUME Typed, Protocol, UndoInv, InstallerNext, live' # Nil
    PROVE  \/ \E op \in {"install", "uninstall"}, force \in BOOLEAN : Start(op, force)
           \/ BackUp
           \/ Fail /\ FailedEarly
           \/ txn' = txn /\ Carried(live')
<1>1. CASE UNCHANGED <<live, txn>>
  BY <1>1 DEF Carried
<1>2. CASE Install \/ \E force \in BOOLEAN : Uninstall(force)
  BY <1>2 DEF Install, Uninstall
<1>3. CASE Begin
  <2>1. /\ proc # Idle /\ live' = Stage("APPLYING") /\ txn' = txn /\ proc.phase = "begin"
    BY <1>3, BeginStep DEF Moved, Begin, At
  <2>2. live.stage \in Early /\ live # Nil
    BY <2>1, Engaged DEF Working, Early
  <2> QED BY <2>1, <2>2, StageIs DEF Carried
<1>4. CASE Select
  <2>1. proc # Idle /\ live.op = "install" /\ txn' = txn /\ live # Nil
    BY <1>4, SelectStep, Engaged DEF Select
  <2>2. CASE live' = live
    BY <2>1, <2>2 DEF Carried
  <2>3. CASE proc.at \in Place /\ live' = Applied(Now, New(Now))
    <3>1. Now \in Target /\ New(Now) \in Content
      BY <2>1, <2>3, Places, NewIs DEF Now
    <3> QED BY <2>1, <2>3, <3>1, AppliedIs DEF Carried
  <2> QED BY <1>4, <2>2, <2>3, SelectStep DEF Moved
<1>5. CASE Record
  <2>1. /\ proc # Idle /\ live.op = "install" /\ txn' = txn /\ live # Nil /\ Now \in Target
        /\ live' = Applied(Now, file[Now])
    BY <1>5, RecordStep, Engaged DEF Record, Moved
  <2> QED BY <2>1, AppliedIs, ContentIs DEF Carried
<1>6. CASE LeaveBase
  <2>1. proc # Idle /\ live' = Stage("ACTIVATING") /\ txn' = txn /\ proc.phase = "base"
    BY <1>6, LeaveBaseStep DEF Moved, LeaveBase
  <2>2. live.stage \in Early /\ live # Nil
    BY <2>1, Engaged DEF Working, Early, Forward
  <2> QED BY <2>1, <2>2, StageIs DEF Carried
<1>7. CASE Commit
  <2>1. proc # Idle /\ live' = Stage("COMMITTED") /\ txn' = txn /\ live # Nil
    BY <1>7, CommitStep, Engaged DEF Moved, Commit
  <2> QED BY <2>1, StageIs DEF Carried, Early
<1>8. CASE RecordUndone
  <2>1. /\ proc # Idle /\ txn' = txn /\ live # Nil /\ Now \in Target
        /\ live' = Applied(Now, file[Now]) /\ file[Now] \in Content
    BY <1>8, RecordUndoneStep, Engaged, ContentIs DEF RecordUndone, Moved
  <2> QED BY <2>1, AppliedIs DEF Carried
<1>9. CASE Fail /\ FailedLate
  <2>1. /\ live # Nil /\ live.op = "install" /\ txn' = txn /\ live.saved /\ proc # Idle
    <3>1. /\ live # Nil /\ live.op = "install" /\ txn' = txn /\ proc # Idle /\ proc \in Process
          /\ proc.phase \notin {"backup", "rollback"} \cup Rolling
      BY <1>9, FailStep, Engaged DEF Fail, FailedLate
    <3> QED BY <3>1, Engaged DEF Working, Protocol, Process, Forward, Backward, Rolling
  <2> QED BY <1>9, <2>1 DEF FailedLate, Moved, Carried, Early
<1>10. CASE Recover
  <2>1. /\ txn' = txn /\ live # Nil /\ live'.stage = "ROLLBACK_STARTED" /\ live'.op = live.op
        /\ live'.saved = live.saved /\ live'.records = live.records /\ live'.applied = live.applied
        /\ live'.prev = live.prev
    BY <1>10, RecoverStep DEF Recover
  <2> QED BY <2>1 DEF Carried, Early
<1>11. CASE EndRollback
  <2>1. proc # Idle /\ txn' = txn /\ live # Nil /\ \E s \in {"RECOVERY_REQUIRED", "ROLLED_BACK"} : live' = Stage(s)
    BY <1>11, EndRollbackStep, Engaged DEF Moved, EndRollback
  <2> QED BY <2>1, StageIs DEF Carried, Early
<1>12. CASE Finish
  BY <1>12, FinishStep
<1>13. CASE Remove \/ Replace \/ Activate \/ WriteManifest \/ Deactivate \/ Crash
  BY <1>1, <1>13, ReplaceStep, ActivateStep, WriteManifestStep, DeactivateStep
     DEF Remove, Replace, Activate, WriteManifest, Deactivate, Crash, Moved
<1>14. CASE Leave \/ Undo \/ Return
  BY <1>1, <1>14, LeaveStep, UndoStep, ReturnStep DEF Leave, Undo, Return, Moved
<1>15. CASE Restore \/ PutBack \/ RestoreHost \/ \E t \in Target : Edit(t)
  BY <1>1, <1>15, RestoreStep, PutBackStep, RestoreHostStep, EditStep DEF Restore, PutBack, RestoreHost, Moved
<1> QED BY <1>2, <1>3, <1>4, <1>5, <1>6, <1>7, <1>8, <1>9, <1>10, <1>11, <1>12, <1>13, <1>14, <1>15, FailStep
        DEF InstallerNext, InstallStep, UninstallStep, RollbackStep

LEMMA TxnChanges ==
    ASSUME Typed, Protocol, InstallerNext
    PROVE  \/ \E op \in {"install", "uninstall"}, force \in BOOLEAN : Start(op, force)
           \/ txn' = txn
<1>1. CASE Install \/ \E force \in BOOLEAN : Uninstall(force)
  BY <1>1 DEF Install, Uninstall
<1>2. CASE BackUp \/ Begin \/ InstallStep \/ Commit \/ Finish
  BY <1>2 DEF BackUp, Begin, InstallStep, Select, Remove, Replace, Record, LeaveBase, Activate, WriteManifest, Commit,
              Finish
<1>3. CASE UninstallStep \/ Recover \/ Crash
  BY <1>3 DEF UninstallStep, Leave, Undo, RecordUndone, Return, Recover, Crash
<1>4. CASE RollbackStep \/ \E t \in Target : Edit(t)
  BY <1>4, EditStep DEF RollbackStep, Fail, Deactivate, Restore, PutBack, RestoreHost, EndRollback
<1> QED BY <1>1, <1>2, <1>3, <1>4 DEF InstallerNext

(* Where a process is that writes files, its journal was saved. *)
LEMMA Writing ==
    ASSUME Typed, Protocol, proc.phase \in Forward \cup Backward \cup Rolling \cup {"begin", "commit", "rollback"}
    PROVE  /\ proc # Idle /\ live # Nil /\ live.saved /\ txn \in 1..MaxTxn /\ ~Resolved
           /\ proc.phase \in Forward \cup Backward => live.stage \in Early /\ proc.records = live.records
           /\ proc.phase = "commit" => live.stage \in Early
<1>1. proc # Idle
  BY Running DEF At, Forward, Backward, Rolling
<1> QED BY <1>1, Engaged DEF Working, Protocol, Early, Resolved

LEMMA DatedStep ==
    ASSUME Typed, Protocol, UndoInv, Typed', LineageInv, InstallerNext
    PROVE  Dated'
<1>1. \A t \in Whole : t \in Target /\ (file[t].block = Nil \/ file[t].block \in Nat)
  BY Wholes, ContentIs
<1>2. \A t \in Whole, b \in 1..MaxTxn : backup[b].files[t].block = Nil \/ backup[b].files[t].block \in Nat
  BY Wholes, BackupIs DEF Content
<1>3. txn \in Nat /\ txn' \in Nat /\ txn <= txn' /\ txn <= MaxTxn /\ Nil \notin Nat /\ MaxTxn \in Nat
  BY Places, Nothing, TxnChanges, StartStep DEF Typed
<1>4. \A t \in Whole : /\ file[t].block # Nil => file[t].user = 0 /\ file[t].block <= txn
                       /\ live # Nil /\ ~live.saved => file[t].block # txn
                       /\ \A b \in 1..MaxTxn : backup[b].files[t].block # Nil =>
                             backup[b].files[t].user = 0 /\ backup[b].files[t].block < b
  BY DEF LineageInv, Dated
<1>5. ASSUME NEW t \in Whole, file'[t] # file[t], file'[t].block # Nil
      PROVE  /\ file'[t].user = 0 /\ file'[t].block <= txn
             /\ proc # Idle /\ live # Nil /\ live.saved
             /\ t = BaseState => file'[t].block \in {0, Nil}
  <2>1. CASE /\ proc.phase = "write" /\ t # BaseState /\ file'[t] = Package(txn)
    <3>1. proc # Idle /\ live # Nil /\ live.saved
      BY <2>1, Writing DEF Forward
    <3> QED BY <1>3, <2>1, <3>1, Nothing
  <2>2. CASE /\ proc.phase = "undo" /\ live.op = "uninstall" /\ proc.undo \in 1..txn
             /\ file'[t] = backup[proc.undo].files[t]
    <3>1. proc # Idle /\ live # Nil /\ live.saved
      BY <2>2, Writing DEF Backward
    <3>2. proc.undo \in 1..MaxTxn
      BY <1>3, <2>2
    <3>3. /\ backup[proc.undo].files[t].user = 0 /\ backup[proc.undo].files[t].block < proc.undo
          /\ t = BaseState => backup[proc.undo].files[t].block \in {0, Nil}
      BY <1>4, <1>5, <2>2, <3>2 DEF LineageInv, Dated
    <3> QED BY <1>2, <1>3, <1>5, <2>2, <3>1, <3>2, <3>3
  <2>3. CASE proc.phase \in {"restore", "putback"} /\ file'[t] = backup[txn].files[t]
    <3>1. proc # Idle /\ live # Nil /\ live.saved /\ txn \in 1..MaxTxn
      BY <2>3, Writing DEF Rolling
    <3>2. /\ backup[txn].files[t].user = 0 /\ backup[txn].files[t].block < txn
          /\ t = BaseState => backup[txn].files[t].block \in {0, Nil}
      BY <1>4, <1>5, <2>3, <3>1 DEF LineageInv, Dated
    <3> QED BY <1>2, <1>3, <1>5, <2>3, <3>1, <3>2
  <2> QED BY <1>5, <2>1, <2>2, <2>3, FileChanges
<1>6. ASSUME NEW t \in Whole
      PROVE  file'[t].block # Nil => file'[t].user = 0 /\ file'[t].block <= txn'
  <2>1. CASE file'[t] = file[t]
    BY <1>1, <1>3, <1>4, <2>1
  <2>2. CASE file'[t] # file[t] /\ file'[t].block # Nil
    <3>1. file'[t].block \in Nat
      BY <2>2, Wholes DEF Typed, Content
    <3> QED BY <1>3, <1>5, <2>2, <3>1
  <2> QED BY <2>1, <2>2
<1>7. ASSUME NEW t \in Whole, live' # Nil, ~live'.saved
      PROVE  file'[t].block # txn'
  <2>1. CASE \E op \in {"install", "uninstall"}, force \in BOOLEAN : Start(op, force)
    <3>1. file' = file /\ txn' = txn + 1
      BY <2>1 DEF Start
    <3> QED BY <1>1, <1>3, <1>4, <3>1
  <2>2. CASE txn' = txn /\ Carried(live')
    <3>1. live # Nil /\ ~live.saved
      BY <1>7, <2>2 DEF Carried
    <3>2. file'[t] = file[t] \/ file'[t].block = Nil
      BY <1>5, <3>1
    <3> QED BY <1>3, <1>4, <2>2, <3>1, <3>2
  <2> QED BY <1>7, <2>1, <2>2, JournalChanges, BackUpStep DEF FailedEarly
<1>8. ASSUME NEW t \in Whole, NEW b \in 1..MaxTxn, backup'[b].files[t].block # Nil
      PROVE  /\ backup'[b].files[t].user = 0 /\ backup'[b].files[t].block < b
  <2>1. CASE backup'[b].files = backup[b].files
    BY <1>4, <1>8, <2>1
  <2>2. CASE b = txn /\ proc.phase = "backup" /\ proc # Idle /\ backup'[b].files = file
    <3>1. live # Nil /\ ~live.saved
      BY <2>2, Engaged DEF Working, Protocol
    <3> QED BY <1>1, <1>3, <1>4, <1>8, <2>2, <3>1
  <2> QED BY <2>1, <2>2, BackupChanges
<1>9. file'[BaseState].block \in {0, Nil}
  <2>1. file[BaseState].block \in {0, Nil}
    BY DEF LineageInv, Dated
  <2> QED BY <1>5, <2>1, Wholes
<1>10. ASSUME NEW b \in 1..MaxTxn
       PROVE  backup'[b].files[BaseState].block \in {0, Nil}
  BY BackupChanges DEF LineageInv, Dated
<1> QED BY <1>6, <1>7, <1>8, <1>9, <1>10 DEF Dated, Whole

LEMMA ManifestsStep ==
    ASSUME Typed, Protocol, UndoInv, LineageInv, InstallerNext
    PROVE  ManifestsOf'
<1> SUFFICES ASSUME NEW b \in 1..MaxTxn, backup'[b].manifest
             PROVE  /\ OfVersion(backup'[b].files) /\ Target \ {BaseState} \subseteq backup'[b].records
                    /\ BaseState \notin backup'[b].records => backup'[b].files[BaseState].block = Nil
  BY DEF ManifestsOf, OfVersion
<1>1. CASE backup'[b] = backup[b]
  BY <1>1 DEF LineageInv, ManifestsOf
<1>2. CASE b = txn /\ proc.phase = "backup" /\ backup'[b].manifest = backup[b].manifest
  BY <1>2 DEF UndoInv, Unwritten
<1>3. CASE /\ b = txn /\ WriteManifest /\ backup'[b].files = backup[b].files
           /\ backup'[b].records = backup[b].records
  <2>1. live # Nil /\ live.saved /\ live.stage \in Early /\ live.op = "install"
    BY <1>3, WriteManifestStep, Writing DEF Forward
  <2>2. live.records \subseteq backup[txn].records
    BY <2>1 DEF UndoInv, Recorded
  <2> QED BY <1>3, <2>1, <2>2 DEF LineageInv, SavedOf
<1> QED BY <1>1, <1>2, <1>3, BackupChanges

LEMMA SavedStep ==
    ASSUME Typed, Protocol, UndoInv, LineageInv, InstallerNext
    PROVE  SavedOf'
<1> SUFFICES ASSUME live' # Nil, live'.saved PROVE SavedOf'
  BY DEF SavedOf
<1>1. CASE \E op \in {"install", "uninstall"}, force \in BOOLEAN : Start(op, force)
  BY <1>1, StartStep
<1>2. ASSUME proc.phase = "backup", proc # Idle
      PROVE  /\ OfVersion(file) /\ HostOf(file, host.plugin) /\ live.prev = host /\ live # Nil /\ ~live.saved
             /\ txn \in 1..MaxTxn
  <2>1. live.stage = "PREPARED" /\ live # Nil /\ ~live.saved /\ txn \in 1..MaxTxn
    BY <1>2, Engaged DEF Working, Protocol
  <2>2. Resolved
    BY <2>1 DEF Resolved
  <2> QED BY <1>2, <2>1, <2>2 DEF LineageInv, RestOf, Noted
<1>3. CASE BackUp
  <2>1. /\ proc # Idle /\ backup'[txn].files = file /\ live'.op = live.op /\ live'.stage = "BACKED_UP"
        /\ live'.records = Saved /\ live'.prev = host /\ proc.phase = "backup" /\ UNCHANGED <<file, ghost, txn>>
    BY <1>3, BackUpStep DEF BackUp, At
  <2>2. OfVersion(file) /\ HostOf(file, host.plugin) /\ txn \in 1..MaxTxn
    BY <1>2, <2>1
  <2>3. (Installing <=> live.op = "install") /\ live.op \in {"install", "uninstall"}
    BY <2>1, Engaged DEF Journal
  <2>4. /\ Target \ {BaseState} \subseteq Saved
        /\ live.op = "uninstall" \/ BaseState \notin Saved => file[BaseState].block = Nil
    <3>1. CASE live.op = "install"
      BY <2>3, <3>1, Nothing, Places DEF Saved
    <3>2. CASE live.op = "uninstall"
      <4>1. proc.undo \in 1..MaxTxn /\ backup[proc.undo].manifest /\ file[State].block = proc.undo
        BY <2>1, <3>2, Undoing
      <4>2. file[BaseState].block \in {0, Nil} /\ file[BaseState].block \in {proc.undo, Nil}
        BY <2>2, <4>1, Wholes, Nothing DEF OfVersion, LineageInv, Dated
      <4>3. file[BaseState].block = Nil
        BY <4>1, <4>2
      <4> QED BY <2>3, <3>2, <4>1, <4>3 DEF Saved, LineageInv, ManifestsOf
    <3> QED BY <2>3, <3>1, <3>2
  <2>5. OfVersion(backup[txn].files)' /\ HostOf(backup[txn].files, live.prev.plugin)'
    BY <2>1, <2>2 DEF OfVersion, HostOf
  <2>6. \A t \in Whole : Near(t, backup[txn].files)'
    BY <2>1 DEF Near
  <2> QED BY <2>1, <2>4, <2>5, <2>6 DEF SavedOf
<1>4. CASE Fail /\ FailedEarly
  <2>1. /\ proc # Idle /\ backup'[txn].files = file /\ live'.op = "install" /\ live'.stage \notin Early
        /\ live'.prev = live.prev /\ proc.phase = "backup" /\ UNCHANGED <<file, txn>>
        /\ ghost'.skipped = ghost.skipped
    BY <1>4, FailStep DEF FailedEarly, Fail, Early
  <2>2. OfVersion(file) /\ HostOf(file, host.plugin) /\ live.prev = host
    BY <1>2, <2>1
  <2>3. OfVersion(backup[txn].files)' /\ HostOf(backup[txn].files, live.prev.plugin)'
    BY <2>1, <2>2 DEF OfVersion, HostOf
  <2>4. \A t \in Whole : Near(t, backup[txn].files)'
    BY <2>1 DEF Near
  <2> QED BY <2>1, <2>3, <2>4 DEF SavedOf
<1>5. CASE txn' = txn /\ Carried(live')
  <2>1. /\ live # Nil /\ live.saved /\ live'.op = live.op /\ live'.records = live.records /\ live'.prev = live.prev
        /\ live'.stage \in Early => live.stage \in Early
    BY <1>5 DEF Carried
  <2>2. txn \in 1..MaxTxn
    BY <2>1, Running DEF Protocol, Journal
  <2>3. proc.phase = "backup" => proc = Idle
    BY <1>2, <2>1
  <2>4. backup'[txn].files = backup[txn].files
    BY <2>2, <2>3, BackupChanges
  <2>5. OfVersion(backup[txn].files) /\ HostOf(backup[txn].files, live.prev.plugin)
    BY <2>1 DEF LineageInv, SavedOf
  <2>6. OfVersion(backup[txn].files)' /\ HostOf(backup[txn].files, live.prev.plugin)'
    BY <1>5, <2>1, <2>4, <2>5, HostChanges DEF OfVersion, HostOf
  <2>7. ASSUME NEW t \in Whole, t \notin live.records PROVE Near(t, backup[txn].files)'
    <3>1. Near(t, backup[txn].files)
      BY <2>1, <2>7 DEF LineageInv, SavedOf
    <3>2. ~(proc.phase \in {"write", "undo"} /\ t \in proc.records)
      BY <2>7, Writing DEF Forward, Backward
    <3>3. file'[t] = file[t] \/ file'[t].block = Nil \/ file'[t] = backup[txn].files[t]
      BY <3>2, FileChanges
    <3> QED BY <1>5, <2>4, <3>1, <3>3 DEF Near
  <2>8. /\ live.op = "uninstall" \/ live.stage \in Early => Target \ {BaseState} \subseteq live.records
        /\ live.op = "uninstall" \/ (live.stage \in Early /\ BaseState \notin live.records)
              => backup[txn].files[BaseState].block = Nil
    BY <2>1 DEF LineageInv, SavedOf
  <2> QED BY <1>5, <2>1, <2>4, <2>6, <2>7, <2>8 DEF SavedOf, Whole
<1> QED BY <1>1, <1>3, <1>4, <1>5, JournalChanges

LEMMA NotedStep ==
    ASSUME Typed, Protocol, UndoInv, LineageInv, InstallerNext
    PROVE  Noted'
<1> SUFFICES ASSUME proc'.phase = "backup" PROVE live'.prev = host'
  BY DEF Noted
<1>1. CASE Install \/ \E force \in BOOLEAN : Uninstall(force)
  BY <1>1 DEF Install, Uninstall, Start, NewJournal
<1>2. CASE \E t \in Target : Edit(t)
  BY <1>2, EditStep DEF LineageInv, Noted
<1>3. CASE BackUp \/ Begin \/ Select \/ Replace \/ Record \/ LeaveBase \/ Activate \/ WriteManifest \/ Commit
  BY <1>3, BackUpStep, BeginStep, SelectStep, ReplaceStep, RecordStep, LeaveBaseStep, ActivateStep,
     WriteManifestStep, CommitStep DEF Moved
<1>4. CASE Remove
  BY <1>4, RemoveStep DEF Remove
<1>5. CASE Leave \/ RecordUndone \/ Return \/ Fail \/ Deactivate \/ RestoreHost
  BY <1>5, LeaveStep, RecordUndoneStep, ReturnStep, FailStep, DeactivateStep, RestoreHostStep
     DEF Moved, FailedEarly, FailedLate
<1>6. CASE Undo
  BY <1>6, UndoStep DEF Moved
<1>7. CASE Restore \/ PutBack
  BY <1>7, RestoreStep, PutBackStep DEF Moved
<1>8. CASE EndRollback \/ Finish \/ Crash \/ Recover
  BY <1>8, EndRollbackStep, FinishStep, CrashStep, RecoverStep DEF Moved, Idle
<1> QED BY <1>1, <1>2, <1>3, <1>4, <1>5, <1>6, <1>7, <1>8
        DEF InstallerNext, InstallStep, UninstallStep, RollbackStep

(* An edit takes a whole file out of its version.                          *)
LEMMA EditOf ==
    ASSUME Typed, Protocol, NEW u \in Target, Edit(u)
    PROVE  /\ \A t \in Whole : file'[t] = file[t] \/ file'[t].block = Nil
           /\ file'[State] = file[State] /\ UNCHANGED <<host, backup, live, proc, txn>>
           /\ ghost'.skipped = ghost.skipped
<1>1. PICK c \in Content : Edited(u, c)
  BY EditStep
<1>2. \A t \in Target : file'[t] = IF t = u THEN c ELSE file[t]
  BY <1>1 DEF Edited, Typed
<1> QED BY <1>1, <1>2, EditStep, Wholes, Places DEF Edited

(* Where nothing needs a recovery, files and host stay as they are.        *)
LEMMA RestStep ==
    ASSUME Typed, Protocol, UndoInv, LineageInv, InstallerNext
    PROVE  RestOf'
<1> SUFFICES ASSUME Resolved' PROVE OfVersion(file)' /\ HostOf(file, host.plugin)'
  BY DEF RestOf
<1>1. ASSUME Resolved, UNCHANGED <<file, host, ghost>>
      PROVE  OfVersion(file)' /\ HostOf(file, host.plugin)'
  BY <1>1 DEF LineageInv, RestOf, OfVersion, HostOf
<1>2. CASE Install \/ \E force \in BOOLEAN : Uninstall(force)
  <2>1. Resolved
    BY <1>2, StartStep DEF Install, Uninstall
  <2> QED BY <1>1, <1>2, <2>1 DEF Install, Uninstall, Start
<1>3. CASE Finish \/ Recover
  <2>1. Resolved
    BY <1>3, FinishStep, RecoverStep DEF Resolved
  <2> QED BY <1>1, <1>3, <2>1 DEF Finish, Recover
<1>4. CASE Crash
  BY <1>1, <1>4, CrashStep DEF Resolved
<1>5. CASE \E t \in Target : Edit(t)
  <2>1. PICK u \in Target : Edit(u)
    BY <1>5
  <2>2. Resolved
    BY <2>1, EditOf DEF Resolved
  <2>3. OfVersion(file) /\ HostOf(file, host.plugin)
    BY <2>2 DEF LineageInv, RestOf
  <2> QED BY <2>1, <2>3, EditOf, Wholes DEF OfVersion, HostOf
<1>6. CASE Commit
  <2>1. /\ proc # Idle /\ proc.phase = "commit" /\ UNCHANGED <<file, host, ghost>>
        /\ live.op \in {"install", "uninstall"} /\ txn \in 1..MaxTxn
    BY <1>6, CommitStep, Engaged DEF Commit, Journal
  <2>2. CASE live.op = "install"
    <3>1. (\A t \in Whole : Into(t)) /\ host.plugin = txn
      BY <2>1, <2>2 DEF LineageInv, ForwardOf
    <3>2. OfVersion(file) /\ HostOf(file, host.plugin)
      BY <2>1, <3>1, Wholes DEF Into, OfVersion, HostOf
    <3> QED BY <2>1, <3>2 DEF OfVersion, HostOf
  <2>3. CASE live.op = "uninstall"
    <3>1. OfVersion(file) /\ HostOf(file, host.plugin)
      BY <2>1, <2>3 DEF LineageInv, BackwardOf
    <3> QED BY <2>1, <3>1 DEF OfVersion, HostOf
  <2> QED BY <2>1, <2>2, <2>3
<1>7. CASE EndRollback
  <2>1. /\ proc # Idle /\ proc.phase = "end" /\ UNCHANGED <<file, host, ghost>> /\ live # Nil /\ live.saved
        /\ ~proc.error
    <3>1. proc # Idle /\ proc.phase = "end" /\ UNCHANGED <<file, host, ghost>> /\ live # Nil
      BY <1>7, EndRollbackStep, Engaged DEF EndRollback
    <3>2. Stage("RECOVERY_REQUIRED").stage = "RECOVERY_REQUIRED"
      BY <3>1, StageIs
    <3> QED BY <1>7, <3>1, <3>2, EndRollbackStep, Writing DEF Resolved, Rolling
  <2>2. /\ \A i \in Place : Order[i] \in Merged \/ Near(Order[i], backup[txn].files)
        /\ HostOf(file, host.plugin) /\ OfVersion(backup[txn].files)
    BY <2>1 DEF LineageInv, RollingOf, SavedOf, Rolling
  <2>3. \A t \in Whole : Near(t, backup[txn].files)
    BY <2>2, Places, Wholes
  <2>4. OfVersion(file)
    BY <2>2, <2>3, Wholes DEF Near, OfVersion
  <2> QED BY <2>1, <2>2, <2>4 DEF OfVersion, HostOf
<1>8. CASE BackUp \/ Begin \/ Fail
  <2>1. BackUp => ~Resolved'
    BY BackUpStep DEF Resolved
  <2>2. Begin => ~Resolved'
    BY BeginStep, StageIs DEF Resolved, Moved
  <2>3. Fail => ~Resolved'
    BY FailStep DEF Resolved, Moved, FailedEarly, FailedLate
  <2> QED BY <1>8, <2>1, <2>2, <2>3
<1>9. CASE Select \/ Remove \/ Replace \/ Record \/ LeaveBase \/ Activate \/ WriteManifest \/ UninstallStep
           \/ Deactivate \/ Restore \/ PutBack \/ RestoreHost
  <2>1. proc.phase \in Forward \cup Backward \cup {"restore", "putback", "rollback"}
    BY <1>9 DEF Select, Remove, Replace, Record, LeaveBase, Activate, WriteManifest, UninstallStep, Leave, Undo,
                RecordUndone, Return, Deactivate, Restore, PutBack, RestoreHost, At, Forward, Backward
  <2>2. live # Nil /\ ~Resolved /\ proc # Idle
    BY <2>1, Writing DEF Rolling
  <2>3. live' # Nil /\ (live'.stage = live.stage \/ live'.stage = "ACTIVATING")
    <3>1. CASE Select \/ Record \/ RecordUndone
      <4>1. Now \in Target /\ proc.at \in Place => New(Now) \in Content /\ file[Now] \in Content
        BY <2>2, NewIs, ContentIs
      <4>2. proc.at \in Place => Now \in Target
        BY Places DEF Now
      <4>3. Now \in Target /\ proc.at \in Place => /\ Applied(Now, New(Now)).stage = live.stage
                                                   /\ Applied(Now, file[Now]).stage = live.stage
        BY <2>2, <4>1, AppliedIs
      <4> QED BY <3>1, <4>2, <4>3, SelectStep, RecordStep, RecordUndoneStep DEF Moved
    <3>2. CASE LeaveBase
      BY <2>2, <3>2, LeaveBaseStep, StageIs DEF Moved
    <3>3. CASE Remove \/ Replace \/ Activate \/ WriteManifest \/ Deactivate
      BY <2>2, <3>3, ReplaceStep, ActivateStep, WriteManifestStep, DeactivateStep DEF Moved, Remove
    <3>4. CASE Leave \/ Undo \/ Return
      BY <2>2, <3>4, LeaveStep, UndoStep, ReturnStep DEF Moved
    <3>5. CASE Restore \/ PutBack \/ RestoreHost
      BY <2>2, <3>5, RestoreStep, PutBackStep, RestoreHostStep DEF Moved
    <3> QED BY <1>9, <3>1, <3>2, <3>3, <3>4, <3>5 DEF UninstallStep
  <2> QED BY <2>2, <2>3 DEF Resolved
<1> QED BY <1>2, <1>3, <1>4, <1>5, <1>6, <1>7, <1>8, <1>9
        DEF InstallerNext, InstallStep, UninstallStep, RollbackStep

(* A target that is not among the records of an install or an uninstall is *)
(* the state file of the base, and neither has it.                         *)
LEMMA NotRecorded ==
    ASSUME Typed, Protocol, UndoInv, LineageInv, NEW t \in Target, t \notin proc.records,
           proc.phase \in Forward \cup Backward
    PROVE  /\ t = BaseState /\ file[t].block = Nil
           /\ proc.phase \in Backward => backup[proc.undo].files[t].block = Nil
<1>1. /\ proc # Idle /\ live # Nil /\ live.saved /\ live.stage \in Early /\ proc.records = live.records
      /\ live \in Journal
  BY Writing, Engaged
<1>2. t = BaseState
  BY <1>1 DEF LineageInv, SavedOf, Journal
<1>3. Near(BaseState, backup[txn].files) /\ backup[txn].files[BaseState].block = Nil
  BY <1>1, <1>2, Wholes DEF LineageInv, SavedOf
<1>4. ASSUME proc.phase \in Backward PROVE backup[proc.undo].files[t].block = Nil
  <2>1. live.op = "uninstall"
    BY <1>1, <1>4, Engaged DEF Working
  <2>2. /\ proc.undo \in 1..MaxTxn /\ backup[proc.undo].manifest /\ proc.records = backup[proc.undo].records
    BY <1>1, <1>4, <2>1, Undoing DEF Backward
  <2> QED BY <1>2, <2>2 DEF LineageInv, ManifestsOf
<1> QED BY <1>2, <1>3, <1>4 DEF Near

LEMMA ForwardStep ==
    ASSUME Typed, Protocol, UndoInv, LineageInv, InstallerNext
    PROVE  ForwardOf'
<1> SUFFICES ASSUME proc' # Idle, live'.op = "install" PROVE ForwardOf'
  BY DEF ForwardOf
<1>1. ASSUME proc'.phase \notin {"target", "base", "activate", "write", "record", "manifest", "commit"}
      PROVE  ForwardOf'
  BY <1>1 DEF ForwardOf
<1>2. CASE Install \/ \E force \in BOOLEAN : Uninstall(force)
  BY <1>1, <1>2, StartStep DEF Install, Uninstall
<1>3. CASE BackUp \/ Finish \/ Crash \/ Recover \/ Deactivate \/ Restore \/ PutBack \/ RestoreHost \/ EndRollback
  BY <1>1, <1>3, BackUpStep, FinishStep, CrashStep, RecoverStep, DeactivateStep, RestoreStep, PutBackStep,
     RestoreHostStep, EndRollbackStep DEF Moved
<1>4. CASE Fail
  BY <1>1, <1>4, FailStep DEF Moved, FailedEarly, FailedLate
<1>5. CASE Leave \/ RecordUndone \/ Undo \/ Commit
  BY <1>1, <1>5, LeaveStep, RecordUndoneStep, UndoStep, CommitStep DEF Moved
<1>6. CASE Return
  BY <1>6, ReturnStep DEF Moved
<1>7. CASE Begin
  <2>1. proc'.phase \in {"target", "leave"} /\ (proc'.phase = "target" => proc'.at = 1)
    <3>1. PICK at \in Nat : Moved(IF live.op = "install" THEN "target" ELSE "leave", at, Stage("APPLYING"))
      BY <1>7, BeginStep
    <3> QED BY <1>7, <3>1, BeginStep DEF Moved
  <2> QED BY <2>1, Places DEF ForwardOf, Place
<1>8. CASE Select
  <2>1. /\ proc.phase = "target" /\ proc # Idle /\ live.op = "install" /\ UNCHANGED <<file, host, txn>>
        /\ proc.at \in 1 .. Len(Order) + 1 /\ Len(Order) \in Nat
    BY <1>8, SelectStep, Engaged DEF Select, Working
  <2>2. /\ \A i \in Place : i < proc.at => Order[i] \in Merged \/ Into(Order[i])
        /\ \A i \in Place : Order[i] = Payload /\ i < proc.at => host.plugin = txn
    BY <2>1 DEF LineageInv, ForwardOf
  <2>3. \A t : Into(t) <=> Into(t)'
    BY <2>1 DEF Into
  <2>4. CASE proc.at > Len(Order) /\ Moved("manifest", 0, live)
    <3>1. \A i \in Place : (Order[i] \in Merged \/ Into(Order[i])) /\ (Order[i] = Payload => host.plugin = txn)
      BY <2>1, <2>2, <2>4 DEF Place
    <3>2. (\A t \in Whole : Into(t)') /\ host.plugin = txn
      BY <2>3, <3>1, Places, Wholes
    <3> QED BY <2>1, <2>4, <3>2 DEF ForwardOf, Moved, Whole
  <2>5. CASE proc.at \in Place /\ Now \notin proc.records /\ Moved("target", proc.at + 1, live)
    <3>1. Now = BaseState /\ Into(Now)
      BY <2>1, <2>5, Places, NotRecorded DEF Now, Into, Forward
    <3>2. \A i \in Place : i < proc.at + 1 => i < proc.at \/ Order[i] = Now
      BY <2>5, Places DEF Place, Now
    <3>3. \A i \in Place : i < proc.at + 1 => Order[i] \in Merged \/ Into(Order[i])'
      BY <2>2, <2>3, <3>1, <3>2
    <3>4. \A i \in Place : Order[i] = Payload /\ i < proc.at + 1 => host.plugin = txn
      BY <2>2, <3>1, <3>2, Places
    <3> QED BY <2>1, <2>5, <3>3, <3>4 DEF ForwardOf, Moved
  <2>6. CASE proc'.phase = "write" /\ proc'.at = proc.at
    <3>1. \A i \in Place : i < proc.at => Order[i] \in Merged \/ Into(Order[i])'
      BY <2>2, <2>3
    <3> QED BY <2>1, <2>2, <2>6, <3>1 DEF ForwardOf
  <2> QED BY <1>8, <2>4, <2>5, <2>6, SelectStep DEF Moved
<1>9. CASE Remove \/ Replace
  <2>1. /\ proc.phase = "write" /\ proc # Idle /\ live.op = "install" /\ UNCHANGED <<host, txn>>
        /\ proc.at \in Place /\ Now = Order[proc.at] /\ Now \in Target
        /\ proc'.at = proc.at /\ proc'.phase \in {"write", "record"}
        /\ proc'.phase = "write" \/ Now \in Merged \/ (file'[Now].block \in {txn, Nil})
    <3>1. New(Now).block \in {txn, Nil} \/ ~Replace
      BY ReplaceStep, NewIs, Nothing
    <3>2. Remove => file'[Now].block = Nil
      BY RemoveStep, Nothing DEF Typed
    <3>3. Replace => file'[Now] = New(Now)
      BY ReplaceStep DEF Typed
    <3> QED BY <1>9, <3>1, <3>2, <3>3, RemoveStep, ReplaceStep DEF Remove, Replace, Moved, Now
  <2>2. /\ \A i \in Place : i < proc.at => Order[i] \in Merged \/ Into(Order[i])
        /\ \A i \in Place : Order[i] = Payload /\ i < proc.at => host.plugin = txn
    BY <2>1 DEF LineageInv, ForwardOf
  <2>3. \A t \in Target \ {Now} : file'[t] = file[t]
    BY <1>9, RemoveStep, ReplaceStep DEF Typed
  <2>4. \A i \in Place : i < proc.at => Order[i] \in Merged \/ Into(Order[i])'
    <3> SUFFICES ASSUME NEW i \in Place, i < proc.at PROVE Order[i] \in Merged \/ Into(Order[i])'
      OBVIOUS
    <3>1. Order[i] \in Target \ {Now}
      BY <2>1, Places DEF Place
    <3> QED BY <2>1, <2>2, <2>3, <3>1 DEF Into
  <2>5. \A i \in Place : i = proc.at /\ proc'.phase = "record" => Order[i] \in Merged \/ Into(Order[i])'
    BY <2>1 DEF Into
  <2> QED BY <2>1, <2>2, <2>4, <2>5 DEF ForwardOf
<1>10. CASE Record
  <2>1. /\ proc # Idle /\ proc.phase = "record" /\ live.op = "install" /\ proc.at \in Place /\ Now = Order[proc.at]
        /\ proc'.phase = (IF Now = Payload THEN "base" ELSE "target") /\ proc'.at = proc.at + 1
        /\ UNCHANGED <<file, host, txn>>
    BY <1>10, RecordStep DEF Record, Now, Moved
  <2>2. \A i \in Place : i < proc.at + 1 <=> i < proc.at \/ i = proc.at
    BY <2>1, Places DEF Place
  <2>3. /\ \A i \in Place : i < proc.at + 1 => Order[i] \in Merged \/ Into(Order[i])
        /\ \A i \in Place : Order[i] = Payload /\ i < proc.at => host.plugin = txn
    BY <2>1, <2>2 DEF LineageInv, ForwardOf
  <2>4. \A i \in Place : i < proc.at + 1 => Order[i] \in Merged \/ Into(Order[i])'
    BY <2>1, <2>3 DEF Into
  <2>5. Now # Payload => \A i \in Place : Order[i] = Payload /\ i < proc.at + 1 => host.plugin = txn
    BY <2>1, <2>2, <2>3
  <2>6. CASE Now = Payload
    BY <2>1, <2>4, <2>6 DEF ForwardOf
  <2>7. CASE Now # Payload
    BY <2>1, <2>4, <2>5, <2>7 DEF ForwardOf
  <2> QED BY <2>6, <2>7
<1>11. CASE LeaveBase \/ Activate
  <2>1. /\ proc # Idle /\ proc.phase \in {"base", "activate"} /\ live.op = "install" /\ proc'.at = proc.at
        /\ UNCHANGED <<file, txn>>
        /\ \/ proc'.phase = "activate"
           \/ proc'.phase = "target" /\ host'.plugin = txn
    BY <1>11, LeaveBaseStep, ActivateStep DEF LeaveBase, Activate, Moved
  <2>2. \A i \in Place : i < proc.at => Order[i] \in Merged \/ Into(Order[i])
    BY <2>1 DEF LineageInv, ForwardOf
  <2>3. \A i \in Place : i < proc.at => Order[i] \in Merged \/ Into(Order[i])'
    BY <2>1, <2>2 DEF Into
  <2> QED BY <2>1, <2>3 DEF ForwardOf
<1>12. CASE WriteManifest
  <2>1. /\ proc # Idle /\ proc.phase = "manifest" /\ live.op = "install" /\ proc'.phase = "commit"
        /\ UNCHANGED <<file, host, txn>>
    BY <1>12, WriteManifestStep DEF WriteManifest, Moved
  <2>2. (\A t \in Whole : Into(t)) /\ host.plugin = txn
    BY <2>1 DEF LineageInv, ForwardOf
  <2>3. \A t \in Whole : Into(t)'
    BY <2>1, <2>2 DEF Into
  <2> QED BY <2>1, <2>2, <2>3 DEF ForwardOf, Whole
<1>13. CASE \E t \in Target : Edit(t)
  <2>1. PICK u \in Target : Edit(u)
    BY <1>13
  <2>2. \A t \in Whole : Into(t) => Into(t)'
    BY <2>1, EditOf DEF Into
  <2>3. \A i \in Place : Order[i] \in Merged \/ Into(Order[i]) => Order[i] \in Merged \/ Into(Order[i])'
    BY <2>2, Places DEF Whole
  <2>4. UNCHANGED <<host, live, proc, txn>>
    BY <2>1, EditOf
  <2> QED BY <2>2, <2>3, <2>4 DEF LineageInv, ForwardOf, Whole
<1> QED BY <1>2, <1>3, <1>4, <1>5, <1>6, <1>7, <1>8, <1>9, <1>10, <1>11, <1>12, <1>13
        DEF InstallerNext, InstallStep, UninstallStep, RollbackStep

LEMMA BackwardStep ==
    ASSUME Typed, Protocol, UndoInv, LineageInv, InstallerNext
    PROVE  BackwardOf'
<1> SUFFICES ASSUME proc' # Idle, live'.op = "uninstall" PROVE BackwardOf'
  BY DEF BackwardOf
<1>1. ASSUME proc'.phase \notin {"undo", "undone", "commit"} PROVE BackwardOf'
  BY <1>1 DEF BackwardOf
<1>2. CASE Install \/ \E force \in BOOLEAN : Uninstall(force)
  BY <1>1, <1>2, StartStep DEF Install, Uninstall
<1>3. CASE BackUp \/ Finish \/ Crash \/ Recover \/ Deactivate \/ Restore \/ PutBack \/ RestoreHost \/ EndRollback
  BY <1>1, <1>3, BackUpStep, FinishStep, CrashStep, RecoverStep, DeactivateStep, RestoreStep, PutBackStep,
     RestoreHostStep, EndRollbackStep DEF Moved
<1>4. CASE Fail \/ Begin \/ Commit
  BY <1>1, <1>4, FailStep, BeginStep, CommitStep DEF Moved, FailedEarly, FailedLate
<1>5. CASE Select \/ Remove \/ Replace \/ Record \/ LeaveBase \/ Activate
  BY <1>1, <1>5, SelectStep, RemoveStep, ReplaceStep, RecordStep, LeaveBaseStep, ActivateStep DEF Moved, Remove
<1>6. CASE WriteManifest
  BY <1>6, WriteManifestStep DEF Moved
<1>7. CASE Leave
  <2>1. /\ proc # Idle /\ proc.phase = "leave" /\ live.op = "uninstall" /\ proc'.phase = "undo"
        /\ host'.plugin = Nil \/ ghost'.skipped
        /\ proc'.at = Len(Order)
    BY <1>7, LeaveStep, Engaged DEF Working, Moved
  <2> QED BY <2>1, Places DEF BackwardOf, Place
<1>8. CASE Undo
  <2>1. /\ proc # Idle /\ proc.phase = "undo" /\ live.op = "uninstall" /\ proc.at \in Place /\ Now \in Target
        /\ Now = Order[proc.at] /\ proc.undo \in 1..MaxTxn
        /\ UNCHANGED <<host, backup, ghost>> /\ proc'.undo = proc.undo
    BY <1>8, UndoStep, Undoing DEF Undo, Now, Moved, Backward
  <2>2. PICK was : was = backup[proc.undo].files
    OBVIOUS
  <2>3. \/ Now \notin proc.records /\ proc'.phase = "undo" /\ proc'.at = proc.at - 1 /\ file' = file
        \/ UNCHANGED proc /\ file' = [file EXCEPT ![Now] = Missing]
        \/ /\ Now \in Merged \/ file[Now] = Missing
           /\ proc'.phase = "undone" /\ proc'.at = proc.at /\ file' = [file EXCEPT ![Now] = Old(Now, was[Now])]
    BY <1>8, <2>2, UndoStep DEF Moved
  <2>4. \A t \in Target \ {Now} : file'[t] = file[t]
    BY <2>3 DEF Typed
  <2>5. /\ host.plugin = Nil \/ ghost.skipped
        /\ \A i \in Place : i > proc.at => Order[i] \in Merged \/ Near(Order[i], was)
    BY <2>1, <2>2 DEF LineageInv, BackwardOf
  <2>6. \A i \in Place : i > proc.at => Order[i] \in Merged \/ Near(Order[i], was)'
    <3> SUFFICES ASSUME NEW i \in Place, i > proc.at PROVE Order[i] \in Merged \/ Near(Order[i], was)'
      OBVIOUS
    <3>1. Order[i] \in Target \ {Now}
      BY <2>1, Places DEF Place
    <3> QED BY <2>4, <2>5, <3>1 DEF Near
  <2>7. was = backup'[proc'.undo].files
    BY <2>1, <2>2
  <2>8. CASE UNCHANGED proc
    BY <2>1, <2>5, <2>6, <2>7, <2>8 DEF BackwardOf, Near
  <2>9. CASE Now \notin proc.records /\ proc'.phase = "undo" /\ proc'.at = proc.at - 1 /\ file' = file
    <3>2. \A i \in Place : i > proc.at - 1 => i > proc.at \/ i = proc.at
      BY <2>1, Places DEF Place
    <3>3. \A i \in Place : i > proc.at - 1 => Order[i] \in Merged \/ Near(Order[i], was)'
      BY <2>1, <2>2, <2>6, <2>9, <3>2, NotRecorded DEF Near, Backward
    <3> QED BY <2>1, <2>5, <2>7, <2>9, <3>3 DEF BackwardOf, Near
  <2>10. CASE /\ Now \in Merged \/ file[Now] = Missing
              /\ proc'.phase = "undone" /\ proc'.at = proc.at /\ file' = [file EXCEPT ![Now] = Old(Now, was[Now])]
    <3>1. Now \in Merged \/ file'[Now] = was[Now]
      BY <2>1, <2>10 DEF Typed, Old
    <3>2. \A i \in Place : i = proc.at => Order[i] \in Merged \/ Near(Order[i], was)'
      BY <2>1, <3>1 DEF Near
    <3> QED BY <2>1, <2>5, <2>6, <2>7, <2>10, <3>2 DEF BackwardOf, Near
  <2> QED BY <2>3, <2>8, <2>9, <2>10
<1>9. CASE RecordUndone
  <2>1. /\ proc # Idle /\ proc.phase = "undone" /\ live.op = "uninstall" /\ proc.at \in Place
        /\ proc'.phase = "undo" /\ proc'.at = proc.at - 1 /\ proc'.undo = proc.undo
        /\ UNCHANGED <<file, host, backup, ghost>>
    BY <1>9, RecordUndoneStep DEF RecordUndone, Moved
  <2>2. \A i \in Place : i > proc.at - 1 => i > proc.at \/ i = proc.at
    BY <2>1, Places DEF Place
  <2>3. /\ host.plugin = Nil \/ ghost.skipped
        /\ \A i \in Place : i > proc.at - 1 => Order[i] \in Merged \/ Near(Order[i], backup[proc.undo].files)
    BY <2>1, <2>2 DEF LineageInv, BackwardOf
  <2>4. \A i \in Place : i > proc.at - 1 => Order[i] \in Merged \/ Near(Order[i], backup[proc.undo].files)'
    BY <2>1, <2>3 DEF Near
  <2> QED BY <2>1, <2>3, <2>4 DEF BackwardOf
<1>10. CASE Return
  <2>1. /\ proc # Idle /\ proc.phase = "undo" /\ live.op = "uninstall" /\ proc.at = 0 /\ proc'.phase = "commit"
        /\ UNCHANGED <<file, backup>> /\ (ghost.skipped => ghost'.skipped)
    BY <1>10, ReturnStep DEF Return, Moved
  <2>2. PICK was : was = backup[proc.undo].files
    OBVIOUS
  <2>3. OfVersion(was)
    BY <2>1, <2>2, Undoing DEF LineageInv, ManifestsOf, Backward
  <2>4. (host.plugin = Nil \/ ghost.skipped) /\ \A t \in Whole : Near(t, was)
    <3>1. \A i \in Place : i > proc.at
      BY <2>1, Places DEF Place
    <3>2. /\ host.plugin = Nil \/ ghost.skipped
          /\ \A i \in Place : Order[i] \in Merged \/ Near(Order[i], was)
      BY <2>1, <2>2, <3>1 DEF LineageInv, BackwardOf
    <3> QED BY <3>2, Places, Wholes
  <2>5. OfVersion(file)
    BY <2>3, <2>4, Wholes DEF Near, OfVersion
  <2>6. HostOf(file, host.plugin)'
    <3> SUFFICES ASSUME ~ghost'.skipped, file[State].block # Nil
                 PROVE  /\ host'.plugin \in {file[State].block, Nil}
                        /\ file[Payload].block = file[State].block => host'.plugin = file[State].block
      BY <2>1 DEF HostOf
    <3>1. host'.plugin = (IF was[State].block # Nil /\ file[Payload] # Missing THEN was[State].block ELSE host.plugin)
      BY <1>10, <2>2, ReturnStep
    <3>2. host.plugin = Nil /\ file[State].block = was[State].block
      BY <2>1, <2>4, Wholes DEF Near
    <3> QED BY <3>1, <3>2, Nothing
  <2>7. OfVersion(file)' /\ HostOf(file, host.plugin)'
    BY <2>1, <2>5, <2>6 DEF OfVersion, HostOf
  <2> QED BY <2>1, <2>7 DEF BackwardOf
<1>11. CASE \E t \in Target : Edit(t)
  <2>1. PICK u \in Target : Edit(u)
    BY <1>11
  <2>2. \A t \in Whole : \A f : Near(t, f) => Near(t, f)'
    BY <2>1, EditOf DEF Near
  <2>3. \A i \in Place : \A f : Order[i] \in Merged \/ Near(Order[i], f) => Order[i] \in Merged \/ Near(Order[i], f)'
    BY <2>2, Places DEF Whole
  <2>4. OfVersion(file) /\ HostOf(file, host.plugin) => OfVersion(file)' /\ HostOf(file, host.plugin)'
    BY <2>1, EditOf, Wholes DEF OfVersion, HostOf
  <2>5. UNCHANGED <<host, backup, live, proc>> /\ ghost'.skipped = ghost.skipped
    BY <2>1, EditOf
  <2>6. CASE proc.phase \in {"undo", "undone"}
    <3>1. /\ host.plugin = Nil \/ ghost.skipped
          /\ \A i \in Place : i > proc.at \/ (i = proc.at /\ proc.phase = "undone")
                                => Order[i] \in Merged \/ Near(Order[i], backup[proc.undo].files)
      BY <2>5, <2>6 DEF LineageInv, BackwardOf
    <3>2. \A i \in Place : i > proc.at \/ (i = proc.at /\ proc.phase = "undone")
                                => Order[i] \in Merged \/ Near(Order[i], backup[proc.undo].files)'
      BY <2>3, <2>5, <3>1 DEF Near
    <3> QED BY <2>5, <2>6, <3>1, <3>2 DEF BackwardOf
  <2>7. CASE proc.phase = "commit"
    BY <2>4, <2>5, <2>7 DEF LineageInv, BackwardOf
  <2> QED BY <1>1, <2>5, <2>6, <2>7
<1> QED BY <1>2, <1>3, <1>4, <1>5, <1>6, <1>7, <1>8, <1>9, <1>10, <1>11
        DEF InstallerNext, InstallStep, UninstallStep, RollbackStep

LEMMA RollingStep ==
    ASSUME Typed, Protocol, UndoInv, LineageInv, InstallerNext
    PROVE  RollingOf'
<1> SUFFICES ASSUME proc' # Idle, proc'.phase \in Rolling, ~proc'.error PROVE RollingOf'
  BY DEF RollingOf
<1>1. ASSUME proc # Idle, proc.phase \in Rolling
      PROVE  /\ live # Nil /\ live.saved /\ txn \in 1..MaxTxn
             /\ \A t \in Whole : t \notin proc.records => Near(t, backup[txn].files)
  <2>1. live # Nil /\ live.saved /\ txn \in 1..MaxTxn
    BY <1>1, Writing
  <2>2. live.records \subseteq proc.records
    BY <1>1, Engaged DEF Working
  <2> QED BY <2>1, <2>2 DEF LineageInv, SavedOf
<1>2. CASE Install \/ \E force \in BOOLEAN : Uninstall(force)
  BY <1>2, StartStep DEF Install, Uninstall, Rolling
<1>3. CASE BackUp \/ Begin \/ Select \/ Remove \/ Replace \/ Record \/ LeaveBase \/ Activate \/ WriteManifest \/ Commit
  BY <1>3, BackUpStep, BeginStep, SelectStep, RemoveStep, ReplaceStep, RecordStep, LeaveBaseStep, ActivateStep,
     WriteManifestStep, CommitStep DEF Moved, Rolling, Remove
<1>4. CASE Finish \/ Crash \/ Leave \/ Undo \/ RecordUndone \/ Return
  BY <1>4, FinishStep, CrashStep, LeaveStep, UndoStep, RecordUndoneStep, ReturnStep DEF Moved, Rolling
<1>5. CASE Fail \/ EndRollback
  BY <1>5, FailStep, EndRollbackStep DEF Moved, FailedEarly, FailedLate, Rolling
<1>6. CASE Deactivate
  <2>1. proc'.phase = "restore" /\ proc'.at = Len(Order)
    BY <1>6, DeactivateStep, Engaged DEF Working, Moved
  <2> QED BY <2>1, Places DEF RollingOf, Place
<1>7. CASE Recover
  <2>1. proc'.phase = "restore" /\ proc'.at = Len(Order)
    BY <1>7, RecoverStep
  <2> QED BY <2>1, Places DEF RollingOf, Place
<1>8. CASE Restore
  <2>1. /\ proc # Idle /\ proc.phase = "restore" /\ proc.at \in Place /\ Now \in Target /\ Now = Order[proc.at]
        /\ UNCHANGED <<backup, txn>>
    BY <1>8, RestoreStep DEF Restore, Now
  <2>2. PICK was : was = backup[txn].files
    OBVIOUS
  <2>3. \/ Now \notin proc.records /\ proc'.phase = "restore" /\ proc'.at = proc.at - 1 /\ file' = file
        \/ /\ proc'.phase = "putback" /\ proc'.at = proc.at /\ file' = [file EXCEPT ![Now] = Missing]
        \/ /\ Now \in Merged \/ file[Now] = Missing
           /\ proc'.phase = "restore" /\ proc'.at = proc.at - 1 /\ file' = [file EXCEPT ![Now] = Old(Now, was[Now])]
    BY <1>8, <2>2, RestoreStep DEF Moved
  <2>4. ~proc.error
    BY <1>8, RestoreStep DEF Moved
  <2>5. \A t \in Target \ {Now} : file'[t] = file[t]
    BY <2>3 DEF Typed
  <2>6. \A i \in Place : i > proc.at => Order[i] \in Merged \/ Near(Order[i], was)
    BY <2>1, <2>2, <2>4 DEF LineageInv, RollingOf, Rolling
  <2>7. \A i \in Place : i > proc.at => Order[i] \in Merged \/ Near(Order[i], was)'
    <3> SUFFICES ASSUME NEW i \in Place, i > proc.at PROVE Order[i] \in Merged \/ Near(Order[i], was)'
      OBVIOUS
    <3>1. Order[i] \in Target \ {Now}
      BY <2>1, Places DEF Place
    <3> QED BY <2>5, <2>6, <3>1 DEF Near
  <2>8. \A i \in Place : i > proc.at - 1 => i > proc.at \/ i = proc.at
    BY <2>1, Places DEF Place
  <2>9. \/ proc'.phase = "putback" /\ proc'.at = proc.at
        \/ /\ proc'.phase = "restore" /\ proc'.at = proc.at - 1
           /\ \A i \in Place : i = proc.at => Order[i] \in Merged \/ Near(Order[i], was)'
    <3>1. CASE Now \notin proc.records /\ proc'.phase = "restore" /\ proc'.at = proc.at - 1 /\ file' = file
      <4>1. Now \in Merged \/ Near(Now, was)
        BY <1>1, <2>1, <2>2, <3>1 DEF Rolling, Whole
      <4> QED BY <2>1, <3>1, <4>1 DEF Near
    <3>2. CASE /\ Now \in Merged \/ file[Now] = Missing
               /\ proc'.phase = "restore" /\ proc'.at = proc.at - 1 /\ file' = [file EXCEPT ![Now] = Old(Now, was[Now])]
      <4>1. Now \in Merged \/ file'[Now] = was[Now]
        BY <2>1, <3>2 DEF Typed, Old
      <4> QED BY <2>1, <3>2, <4>1 DEF Near
    <3> QED BY <2>3, <3>1, <3>2
  <2>10. was = backup'[txn'].files
    BY <2>1, <2>2
  <2> QED BY <2>7, <2>8, <2>9, <2>10 DEF RollingOf, Near
<1>9. CASE PutBack
  <2>1. /\ proc # Idle /\ proc.phase = "putback" /\ proc.at \in Place /\ Now \in Target /\ Now = Order[proc.at]
        /\ proc'.phase = "restore" /\ proc'.at = proc.at - 1 /\ ~proc.error
        /\ UNCHANGED <<backup, txn>>
    BY <1>9, PutBackStep DEF PutBack, Now, Moved
  <2>2. PICK was : was = backup[txn].files
    OBVIOUS
  <2>3. file'[Now] = was[Now] /\ \A t \in Target \ {Now} : file'[t] = file[t]
    BY <1>9, <2>2, PutBackStep DEF Typed
  <2>4. \A i \in Place : i > proc.at => Order[i] \in Merged \/ Near(Order[i], was)
    BY <2>1, <2>2 DEF LineageInv, RollingOf, Rolling
  <2>5. \A i \in Place : i > proc.at => Order[i] \in Merged \/ Near(Order[i], was)'
    <3> SUFFICES ASSUME NEW i \in Place, i > proc.at PROVE Order[i] \in Merged \/ Near(Order[i], was)'
      OBVIOUS
    <3>1. Order[i] \in Target \ {Now}
      BY <2>1, Places DEF Place
    <3> QED BY <2>3, <2>4, <3>1 DEF Near
  <2>6. \A i \in Place : i > proc.at - 1 => i > proc.at \/ i = proc.at
    BY <2>1, Places DEF Place
  <2>7. \A i \in Place : i = proc.at => Order[i] \in Merged \/ Near(Order[i], was)'
    BY <2>1, <2>3 DEF Near
  <2>8. was = backup'[txn'].files
    BY <2>1, <2>2
  <2> QED BY <2>1, <2>5, <2>6, <2>7, <2>8 DEF RollingOf, Near
<1>10. CASE RestoreHost
  <2>1. /\ proc # Idle /\ proc.phase = "restore" /\ proc.at = 0 /\ proc'.phase = "end" /\ ~proc.error
        /\ UNCHANGED <<file, backup, live, txn>> /\ (ghost.skipped => ghost'.skipped)
    BY <1>10, RestoreHostStep DEF RestoreHost
  <2>2. PICK was : was = backup[txn].files
    OBVIOUS
  <2>3. \A i \in Place : Order[i] \in Merged \/ Near(Order[i], was)
    <3>1. \A i \in Place : i > proc.at
      BY <2>1, Places DEF Place
    <3> QED BY <2>1, <2>2, <3>1 DEF LineageInv, RollingOf, Rolling
  <2>4. HostOf(file, host.plugin)'
    <3> SUFFICES ASSUME ~ghost'.skipped, file[State].block # Nil
                 PROVE  /\ host'.plugin \in {file[State].block, Nil}
                        /\ file[Payload].block = file[State].block => host'.plugin = file[State].block
      BY <2>1 DEF HostOf
    <3>1. host'.plugin = (IF live.prev.plugin # Nil /\ file[Payload] # Missing THEN live.prev.plugin ELSE Nil)
      BY <1>10, RestoreHostStep
    <3>2. Near(State, was) /\ Near(Payload, was)
      BY <2>3, Places
    <3>3. HostOf(was, live.prev.plugin)
      BY <1>1, <2>1, <2>2 DEF LineageInv, SavedOf, Rolling
    <3> QED BY <2>1, <3>1, <3>2, <3>3, Nothing DEF HostOf, Near
  <2> QED BY <2>1, <2>2, <2>3, <2>4 DEF RollingOf, Near
<1>11. CASE \E t \in Target : Edit(t)
  <2>1. PICK u \in Target : Edit(u)
    BY <1>11
  <2>2. \A t \in Whole : \A f : Near(t, f) => Near(t, f)'
    BY <2>1, EditOf DEF Near
  <2>3. \A i \in Place : \A f : Order[i] \in Merged \/ Near(Order[i], f) => Order[i] \in Merged \/ Near(Order[i], f)'
    BY <2>2, Places DEF Whole
  <2>4. HostOf(file, host.plugin) => HostOf(file, host.plugin)'
    BY <2>1, EditOf, Wholes DEF HostOf
  <2>5. UNCHANGED <<host, backup, live, proc, txn>>
    BY <2>1, EditOf
  <2>6. /\ \A i \in Place : i > proc.at \/ proc.phase = "end"
                              => Order[i] \in Merged \/ Near(Order[i], backup[txn].files)
        /\ proc.phase = "end" => HostOf(file, host.plugin)
    BY <2>5 DEF LineageInv, RollingOf
  <2>7. \A i \in Place : i > proc.at \/ proc.phase = "end"
                              => Order[i] \in Merged \/ Near(Order[i], backup[txn].files)'
    BY <2>3, <2>5, <2>6 DEF Near
  <2> QED BY <2>4, <2>5, <2>6, <2>7 DEF RollingOf
<1> QED BY <1>2, <1>3, <1>4, <1>5, <1>6, <1>7, <1>8, <1>9, <1>10, <1>11
        DEF InstallerNext, InstallStep, UninstallStep, RollbackStep

LEMMA BeginningOf ==
    ASSUME InstallerInit
    PROVE  LineageInv
<1>1. /\ live = Nil /\ proc = Idle /\ host.plugin = Nil
      /\ \A b \in 1..MaxTxn : ~backup[b].manifest /\ \A t \in Target : backup[b].files[t] = Missing
      /\ \A t \in Target : file[t] = IF t = BaseState /\ HadBase THEN Package(0) ELSE Missing
      /\ txn = 0
  BY DEF InstallerInit
<1>2. \A t \in Whole : t \in Target
  BY Wholes
<1>3. /\ \A t \in Whole : file[t].block # Nil => file[t].user = 0 /\ file[t].block <= txn
      /\ file[BaseState].block \in {0, Nil} /\ file[State].block = Nil
  BY <1>1, <1>2, Nothing, Places
<1>4. Dated
  BY <1>1, <1>2, <1>3, Nothing, Places DEF Dated
<1>5. OfVersion(file) /\ HostOf(file, host.plugin) /\ proc.phase = "none"
  BY <1>1, <1>3 DEF OfVersion, HostOf, Idle
<1> QED BY <1>1, <1>4, <1>5 DEF LineageInv, ManifestsOf, SavedOf, Noted, RestOf, ForwardOf, BackwardOf, RollingOf

LEMMA LineageInductive ==
    ASSUME Typed, Protocol, UndoInv, LineageInv, [InstallerNext]_installation
    PROVE  LineageInv'
<1>1. CASE UNCHANGED installation
  <2>1. Dated' /\ ManifestsOf' /\ Noted'
    BY <1>1 DEF installation, LineageInv, Dated, ManifestsOf, OfVersion, Noted
  <2>2. SavedOf' /\ RestOf'
    BY <1>1 DEF installation, LineageInv, SavedOf, RestOf, OfVersion, HostOf, Near, Resolved
  <2>3. ForwardOf'
    BY <1>1 DEF installation, LineageInv, ForwardOf, Into
  <2>4. BackwardOf'
    BY <1>1 DEF installation, LineageInv, BackwardOf, OfVersion, HostOf, Near
  <2>5. RollingOf'
    BY <1>1 DEF installation, LineageInv, RollingOf, HostOf, Near
  <2> QED BY <2>1, <2>2, <2>3, <2>4, <2>5 DEF LineageInv
<1>2. CASE InstallerNext
  <2>1. Typed'
    BY <1>2, UndoInductive
  <2> QED BY <1>2, <2>1, DatedStep, ManifestsStep, SavedStep, NotedStep, RestStep, ForwardStep, BackwardStep, RollingStep
          DEF LineageInv
<1> QED BY <1>1, <1>2

-------------------------------------------------------------------------------
(* What a status report has yet to read.  A report that has found only good *)
(* of version v, while the installation was never intact since it began,   *)
(* has still to read something that is not of v and will not be before the *)
(* report is done: Gone(v, t) says so of file t.                           *)

Giving == proc # Idle /\ live.op = "uninstall" /\ proc.phase \in {"backup", "begin"} \cup Backward

(* Target t is not of version v, and neither a rollback nor the running    *)
(* uninstall gives it back.                                                *)
Gone(v, t) ==
    /\ file[t] # Package(v)
    /\ live # Nil /\ live.saved => backup[txn].files[t] # Package(v)
    /\ Giving => backup[proc.undo].files[t] # Package(v)

(* A rollback gives back nothing of version v.                            *)
Unlike(v) == \A t \in Whole : IF live.saved THEN backup[txn].files[t] # Package(v) ELSE file[t] # Package(v)

(* A version that the transaction in progress does not install. *)
Older(v) == v \in 1..MaxTxn /\ (live # Nil => v # txn)

LEMMA PackageIs ==
    ASSUME Typed, UndoInv, LineageInv, NEW v \in 1..MaxTxn
    PROVE  /\ Package(v) # Missing /\ Package(v).block = v /\ v # Nil
           /\ \A t \in Whole : file[t].block = v => file[t] = Package(v)
<1>1. Package(v) # Missing /\ Package(v).block = v /\ v # Nil
  BY Nothing, Places
<1>2. ASSUME NEW t \in Whole, file[t].block = v PROVE file[t] = Package(v)
  <2>1. file[t].user = 0 /\ file[t] \in Content
    BY <1>1, <1>2, Wholes, ContentIs DEF LineageInv, Dated
  <2> QED BY <1>2, <2>1 DEF Content, Package
<1> QED BY <1>1, <1>2

LEMMA GivingStays ==
    ASSUME Typed, Protocol, UndoInv, InstallerNext, txn' = txn, Giving'
    PROVE  /\ Giving /\ proc'.undo = proc.undo /\ proc.undo \in 1..MaxTxn /\ proc.undo # txn
           /\ backup'[proc.undo] = backup[proc.undo]
<1>1. ASSUME Giving, proc'.undo = proc.undo
      PROVE  proc.undo \in 1..MaxTxn /\ proc.undo # txn /\ backup'[proc.undo] = backup[proc.undo]
  <2>1. proc.undo \in 1..MaxTxn /\ proc.undo # txn
    BY <1>1, Undoing DEF Giving, Backward
  <2> QED BY <2>1, BackupChanges
<1>2. CASE \E op \in {"install", "uninstall"}, force \in BOOLEAN : Start(op, force)
  <2>1. txn' = txn + 1 /\ txn \in Nat
    BY <1>2 DEF Start, Typed
  <2> QED BY <2>1
<1>3. CASE BackUp
  BY <1>1, <1>3, BackUpStep DEF Giving, BackUp, At
<1>4. CASE Begin
  <2>1. proc # Idle /\ proc.phase = "begin" /\ live'.op = live.op /\ proc'.undo = proc.undo
    BY <1>4, BeginStep, StageIs DEF Begin, At, Moved
  <2> QED BY <1>1, <2>1 DEF Giving
<1>5. CASE Leave \/ Undo
  BY <1>1, <1>5, LeaveStep, UndoStep DEF Giving, Backward, Moved
<1>6. CASE RecordUndone
  <2>1. /\ proc # Idle /\ proc.phase = "undone" /\ live.op = "uninstall" /\ proc'.undo = proc.undo
    BY <1>6, RecordUndoneStep DEF Moved
  <2> QED BY <1>1, <2>1 DEF Giving, Backward
<1>7. CASE Return \/ Commit \/ Finish \/ Crash \/ Recover \/ EndRollback
  BY <1>7, ReturnStep, CommitStep, FinishStep, CrashStep, RecoverStep, EndRollbackStep DEF Moved, Giving, Backward
<1>8. CASE Fail \/ Deactivate \/ Restore \/ PutBack \/ RestoreHost
  BY <1>8, FailStep, DeactivateStep, RestoreStep, PutBackStep, RestoreHostStep
     DEF Moved, FailedEarly, FailedLate, Giving, Backward
<1>9. CASE Select \/ Remove \/ Replace \/ Record \/ LeaveBase \/ Activate \/ WriteManifest
  BY <1>9, SelectStep, RemoveStep, ReplaceStep, RecordStep, LeaveBaseStep, ActivateStep, WriteManifestStep
     DEF Moved, Remove, Giving, Backward
<1>10. CASE \E t \in Target : Edit(t)
  BY <1>1, <1>10, EditStep DEF Giving
<1> QED BY <1>2, <1>3, <1>4, <1>5, <1>6, <1>7, <1>8, <1>9, <1>10
        DEF InstallerNext, Install, Uninstall, InstallStep, UninstallStep, RollbackStep

(* What is gone stays gone while no other transaction begins.              *)
LEMMA GoneStays ==
    ASSUME Typed, Protocol, UndoInv, LineageInv, InstallerNext, txn' = txn,
           NEW v, Older(v), NEW t \in Whole, Gone(v, t)
    PROVE  Gone(v, t)'
<1>1. /\ file[t] # Package(v) /\ Package(v).block = v /\ v # Nil /\ v \in 1..MaxTxn
      /\ live # Nil => v # txn
      /\ live # Nil /\ live.saved => backup[txn].files[t] # Package(v)
      /\ Giving => backup[proc.undo].files[t] # Package(v)
  BY PackageIs DEF Gone, Older
<1>2. file'[t] # Package(v)
  <2>1. CASE proc.phase = "write" /\ file'[t] = Package(txn)
    <3>1. live # Nil /\ txn \in 1..MaxTxn
      BY <2>1, Writing DEF Forward
    <3> QED BY <1>1, <2>1, <3>1, PackageIs
  <2>2. CASE proc.phase = "undo" /\ live.op = "uninstall" /\ file'[t] = backup[proc.undo].files[t]
    <3>1. proc # Idle
      BY <2>2, Writing DEF Backward
    <3> QED BY <1>1, <2>2, <3>1 DEF Giving, Backward
  <2>3. CASE proc.phase \in {"restore", "putback"} /\ file'[t] = backup[txn].files[t]
    <3>1. live # Nil /\ live.saved
      BY <2>3, Writing DEF Rolling
    <3> QED BY <1>1, <2>3, <3>1
  <2> QED BY <1>1, <2>1, <2>2, <2>3, FileChanges
<1>3. ASSUME live' # Nil, live'.saved PROVE backup'[txn'].files[t] # Package(v)
  <2>1. CASE BackUp \/ (Fail /\ FailedEarly)
    BY <1>1, <2>1, BackUpStep DEF FailedEarly
  <2>2. CASE Carried(live')
    <3>1. live # Nil /\ live.saved
      BY <1>3, <2>2 DEF Carried
    <3>2. txn \in 1..MaxTxn
      BY <3>1, Running DEF Protocol, Journal
    <3>3. backup'[txn].files = backup[txn].files \/ backup'[txn].files = file
      BY <3>2, BackupChanges
    <3> QED BY <1>1, <3>1, <3>3
  <2>3. ~\E op \in {"install", "uninstall"}, force \in BOOLEAN : Start(op, force)
    BY DEF Start, Typed
  <2> QED BY <1>3, <2>1, <2>2, <2>3, JournalChanges
<1>4. Giving' => backup'[proc'.undo].files[t] # Package(v)
  BY <1>1, GivingStays
<1> QED BY <1>2, <1>3, <1>4 DEF Gone

(* With no transaction in progress, only a user acts, or one begins.       *)
LEMMA AtRestStays ==
    ASSUME Typed, Protocol, InstallerNext, live = Nil, txn' = txn
    PROVE  live' = Nil /\ UNCHANGED host
<1>1. proc = Idle /\ At("none")
  BY Running DEF Protocol, Working
<1>2. ~\E op \in {"install", "uninstall"}, force \in BOOLEAN : Start(op, force)
  BY DEF Start, Typed
<1>3. ~Recover
  BY DEF Recover
<1>4. \E t \in Target : Edit(t)
  <2>1. ~(BackUp \/ Begin \/ InstallStep \/ Commit \/ Finish \/ Crash)
    BY <1>1 DEF At, BackUp, Begin, InstallStep, Select, Remove, Replace, Record, LeaveBase, Activate, WriteManifest,
                Commit, Finish, Crash
  <2>2. ~UninstallStep /\ ~RollbackStep
    BY <1>1 DEF At, UninstallStep, Leave, Undo, RecordUndone, Return, RollbackStep, Fail, Deactivate, Restore, PutBack,
                RestoreHost, EndRollback
  <2> QED BY <1>2, <1>3, <2>1, <2>2 DEF InstallerNext, Install, Uninstall
<1> QED BY <1>4, EditStep

(* While files of v are given back to the host, the files that are not of  *)
(* v are gone.                                                             *)
LEMMA UnlikeStays ==
    ASSUME Typed, Protocol, UndoInv, LineageInv, InstallerNext, txn' = txn,
           NEW v, Older(v), live # Nil, Unlike(v), host.plugin # v
    PROVE  /\ live' # Nil => Unlike(v)'
           /\ host'.plugin = v => \A t \in Whole : file'[t] # Package(v) => Gone(v, t)'
<1>1. v # Nil /\ Package(v).block = v /\ v # txn /\ v \in 1..MaxTxn
  BY PackageIs DEF Older
<1>2. proc.phase = "backup" /\ proc # Idle => ~live.saved
  BY Engaged DEF Working, Protocol
<1>3. live' # Nil => Unlike(v)'
  <2> SUFFICES ASSUME live' # Nil, NEW t \in Whole
               PROVE  IF live'.saved THEN backup'[txn'].files[t] # Package(v) ELSE file'[t] # Package(v)
    BY DEF Unlike, Whole
  <2>1. CASE BackUp
    BY <1>2, <2>1, BackUpStep DEF Unlike, BackUp, At
  <2>2. CASE Fail /\ FailedEarly
    BY <1>2, <2>2, FailStep DEF Unlike, FailedEarly
  <2>3. CASE Carried(live')
    <3>1. txn \in 1..MaxTxn /\ live'.saved = live.saved
      BY <2>3, Running DEF Protocol, Journal, Carried
    <3>2. CASE live.saved
      <4>1. backup'[txn].files = backup[txn].files
        BY <1>2, <3>1, <3>2, BackupChanges
      <4> QED BY <3>1, <3>2, <4>1 DEF Unlike
    <3>3. CASE ~live.saved
      <4>1. proc.phase \notin {"write", "undo", "restore", "putback"}
        BY <3>3, Writing DEF Forward, Backward, Rolling
      <4> QED BY <1>1, <3>1, <3>3, <4>1, FileChanges DEF Unlike
    <3> QED BY <3>2, <3>3
  <2>4. ~\E op \in {"install", "uninstall"}, force \in BOOLEAN : Start(op, force)
    BY DEF Start, Typed
  <2> QED BY <2>1, <2>2, <2>3, <2>4, JournalChanges
<1>4. ASSUME host'.plugin = v, NEW t \in Whole, file'[t] # Package(v) PROVE Gone(v, t)'
  <2>1. proc'.phase \in {"commit", "end"}
    <3>1. proc.phase # "activate" \/ host'.plugin # txn
      BY <1>1, <1>4
    <3> QED BY <1>1, <1>4, <3>1, HostChanges
  <2>2. /\ ~Giving'
        /\ live' # Nil /\ live'.saved => backup'[txn'].files[t] # Package(v)
    BY <1>3, <2>1 DEF Giving, Backward, Unlike
  <2> QED BY <1>4, <2>2 DEF Gone
<1> QED BY <1>3, <1>4

(* The host does not get v back from a payload that is gone.               *)
LEMMA HostStays ==
    ASSUME Typed, Protocol, UndoInv, LineageInv, InstallerNext, txn' = txn,
           NEW v, Older(v), Gone(v, Payload), host.plugin # v
    PROVE  host'.plugin # v
<1>1. v # Nil /\ Package(v).block = v /\ v \in 1..MaxTxn /\ (live # Nil => v # txn) /\ file[Payload].block # v
  BY PackageIs, Wholes DEF Older, Gone
<1>2. proc.phase = "activate" => live # Nil
  BY Writing DEF Forward
<1> QED BY <1>1, <1>2, HostChanges

(* A transaction begins, when none is in progress and something is not of  *)
(* version v.                                                              *)
LEMMA GoneAtStart ==
    ASSUME Typed, Protocol, UndoInv, LineageInv, InstallerNext, live = Nil, txn' # txn, ~ghost.skipped,
           NEW v \in 1..MaxTxn
    PROVE  /\ UNCHANGED <<file, host>> /\ live' # Nil
           /\ \/ /\ \A t \in Whole : file[t] # Package(v) => Gone(v, t)'
                 /\ host.plugin # v /\ file[Payload] = Package(v) => file[State] # Package(v)
              \/ file[State] # Package(v) /\ Gone(v, State)'
              \/ file[State] # Package(v) /\ host.plugin # v /\ Unlike(v)' /\ \A t \in Whole : file[t] # Package(v)
<1>1. PICK op \in {"install", "uninstall"}, force \in BOOLEAN : Start(op, force)
  BY TxnChanges
<1>2. /\ UNCHANGED <<file, host, backup, ghost>> /\ live' # Nil /\ ~live'.saved /\ live'.op = op /\ proc' # Idle
      /\ proc'.phase = "backup" /\ proc'.undo = file[State].block /\ UndoInv' /\ Resolved
      /\ Typed' /\ Protocol'
  BY <1>1, StartStep, UndoInductive DEF Start
<1>3. /\ OfVersion(file) /\ HostOf(file, host.plugin)
      /\ Package(v) # Missing /\ Package(v).block = v /\ v # Nil
      /\ \A t \in Whole : file[t].block = v => file[t] = Package(v)
  BY <1>2, PackageIs DEF LineageInv, RestOf
<1>4. host.plugin # v /\ file[Payload] = Package(v) => file[State] # Package(v)
  BY <1>3, Wholes DEF HostOf
<1>5. CASE op = "install"
  BY <1>2, <1>4, <1>5 DEF Gone, Giving
<1>6. CASE op = "uninstall"
  <2>1. PICK u : u = file[State].block
    OBVIOUS
  <2>2. u \in 1..txn /\ u \in 1..MaxTxn /\ backup[u].manifest
    <3>1. u \in 1..txn'
      BY <1>2, <1>6, <2>1 DEF UndoInv, Undoes
    <3>2. Revertible(file[State])
      BY <1>2 DEF UndoInv, VersionSound, BeingInstalled
    <3>3. u # Nil /\ txn \in Nat /\ txn <= MaxTxn /\ MaxTxn \in Nat
      BY <3>1, Nothing, Places DEF Typed
    <3> QED BY <2>1, <3>2, <3>3 DEF Revertible
  <2>3. \A t \in Whole : Gone(v, t)' <=> file[t] # Package(v) /\ backup[u].files[t] # Package(v)
    BY <1>2, <1>6, <2>1 DEF Gone, Giving
  <2>4. CASE u = v
    <3>1. \A t \in Whole : backup[u].files[t] # Package(v)
      <4> SUFFICES ASSUME NEW t \in Whole, backup[u].files[t] = Package(v) PROVE FALSE
        OBVIOUS
      <4>1. v < u
        BY <1>3, <2>2 DEF LineageInv, Dated
      <4> QED BY <2>2, <2>4, <4>1
    <3> QED BY <1>2, <1>4, <2>3, <3>1
  <2>5. CASE u # v
    <3>1. file[State] # Package(v)
      BY <1>3, <2>1, <2>5
    <3>2. CASE backup[u].files[State] # Package(v)
      BY <1>2, <2>3, <3>1, <3>2, Wholes
    <3>3. CASE backup[u].files[State] = Package(v)
      <4>1. u # Nil
        BY <2>2, Nothing
      <4>2. host.plugin # v /\ \A t \in Whole : file[t] # Package(v)
        BY <1>3, <2>1, <2>5, <4>1 DEF OfVersion, HostOf
      <4>3. Unlike(v)'
        BY <1>2, <4>2 DEF Unlike, Whole
      <4> QED BY <1>2, <3>1, <4>2, <4>3
    <3> QED BY <3>2, <3>3
  <2> QED BY <2>4, <2>5
<1> QED BY <1>5, <1>6

-------------------------------------------------------------------------------
(* What a status report has read.                                          *)

Reading == [phase : {"journal", "host", "files", "again", "journal-again", "done"}, at : Nat \ {0}, attempt : Nat,
           state : 0..MaxTxn \cup {Nil}, base : Content, quiet : BOOLEAN, ok : BOOLEAN, was : BOOLEAN,
           began : 0..MaxTxn]
NotRead == [phase |-> "none"]

(* It has found only good, although the installation never was intact.     *)
Deceived ==
    /\ reader.phase \in {"host", "files", "again", "journal-again", "done"} /\ reader.ok /\ ~reader.was
    /\ ~ghost.skipped /\ txn <= reader.began + 1

(* What it has still to read and will not find good.                       *)
StateGone == reader.phase \in {"host", "files", "again"} /\ Gone(reader.state, State)
FileGone == reader.phase \in {"host", "files"} /\ \E i \in reader.at..Len(Hashed) : Gone(reader.state, Hashed[i])
HostGone ==
    /\ reader.phase = "host" /\ host.plugin # reader.state
    /\ live # Nil => Gone(reader.state, Payload) \/ Unlike(reader.state)

Undeceived == Deceived => StateGone \/ FileGone \/ HostGone
Overtaken == Deceived /\ live # Nil => txn = reader.began + 1
FromFirst == reader.phase \in {"journal", "host"} => reader.at = 1
HostSeen == Deceived /\ txn = reader.began /\ reader.phase # "host" => host.plugin = reader.state
NeverIntact == reader.phase \notin {"none", "done"} /\ ~reader.was => ~Intact(reader.state, file, host)
OfInstalled == reader.phase # "none" => reader.began <= txn /\ (reader.ok => reader.state \in 1..reader.began)

ReadInv ==
    /\ reader \in Reading \cup {NotRead}
    /\ Undeceived /\ Overtaken /\ FromFirst /\ HostSeen /\ NeverIntact /\ OfInstalled

LEMMA Hashes ==
    /\ Len(Hashed) \in Nat
    /\ \A i \in 1..Len(Hashed) : Hashed[i] \in Whole
BY StatusAssumption DEF StatusAssumption, Whole

LEMMA ReportIs ==
    ASSUME Typed, ReadInv
    PROVE  /\ reader.phase # "none" => reader \in Reading
           /\ reader.phase # "none" /\ reader.ok => reader.state \in 1..MaxTxn
BY Places DEF ReadInv, Reading, NotRead, OfInstalled, Typed

(* What is read first.                                                     *)
LEMMA ReadStep ==
    ASSUME Typed, Protocol, UndoInv, NEW n \in {1, 2}, Read(n), UNCHANGED <<file, host, backup, live, proc, txn>>
    PROVE  ReadInv'
<1>1. file[State] \in Content /\ file[BaseState] \in Content /\ file[State].block \in 0..MaxTxn \cup {Nil}
  BY ContentIs, Places
<1>2. PICK was \in BOOLEAN : was = Intact(file[State].block, file, host)
  BY DEF Intact
<1>3. reader' = [phase |-> "journal", at |-> 1, attempt |-> n, state |-> file[State].block,
                 base |-> file[BaseState], quiet |-> FALSE, ok |-> file[State].block # Nil, was |-> was, began |-> txn]
  BY <1>2 DEF Read, Version
<1>4. reader' \in Reading
  BY <1>1, <1>3 DEF Reading, Typed
<1>5. file[State].block # Nil => file[State].block \in 1..txn
  BY Places DEF UndoInv, VersionSound, Revertible, BeingInstalled, Protocol, Resolved, Typed, Journal
<1>6. NeverIntact'
  BY <1>2, <1>3 DEF NeverIntact, Intact
<1>7. Undeceived' /\ Overtaken' /\ FromFirst' /\ HostSeen'
  BY <1>3 DEF Undeceived, Overtaken, FromFirst, HostSeen, Deceived
<1>8. OfInstalled'
  <2>1. txn \in Nat /\ txn' = txn
    BY DEF Typed
  <2>2. reader'.began = txn /\ reader'.state = file[State].block /\ (reader'.ok <=> file[State].block # Nil)
    BY <1>3
  <2> QED BY <1>5, <2>1, <2>2 DEF OfInstalled
<1> QED BY <1>4, <1>6, <1>7, <1>8 DEF ReadInv

(* With nothing in progress, what is not of the version is gone.           *)
LEMMA GoneAtRest ==
    ASSUME Typed, Protocol, live = Nil, NEW v, NEW t, file[t] # Package(v)
    PROVE  Gone(v, t)
<1>1. proc = Idle
  BY DEF Protocol, Working
<1> QED BY <1>1 DEF Gone, Giving

LEMMA FoundStep ==
    ASSUME Typed, ReadInv, reader.phase # "none", NEW good \in BOOLEAN,
           NEW phase \in {"host", "files", "again", "journal-again", "done"}, Found(good, phase)
    PROVE  /\ reader' \in Reading /\ reader'.phase = phase /\ reader'.ok = (reader.ok /\ good)
           /\ reader'.at = reader.at /\ reader'.state = reader.state /\ reader'.was = reader.was
           /\ reader'.began = reader.began
<1>1. reader \in Reading
  BY ReportIs
<1>2. reader' = [reader EXCEPT !.ok = @ /\ good, !.phase = phase]
  BY DEF Found
<1>3. (reader.ok /\ good) \in BOOLEAN
  OBVIOUS
<1> QED BY <1>1, <1>2, <1>3 DEF Reading

LEMMA StatusStepReads ==
    ASSUME Typed, Protocol, UndoInv, LineageInv, ReadInv, StatusStep
    PROVE  ReadInv'
<1>1. UNCHANGED <<file, host, backup, live, proc, txn, ghost>> /\ UNCHANGED installation
  BY DEF StatusStep, installation
<1>2. \A v, t : Gone(v, t)' <=> Gone(v, t)
  BY <1>1 DEF Gone, Giving
<1>3. ASSUME reader \in Reading, reader' \in Reading, reader'.state = reader.state, reader'.was = reader.was,
             reader'.began = reader.began, reader'.ok => reader.ok, reader.phase # "done",
             reader'.phase \notin {"journal", "host"}, reader'.phase # "host" => reader.phase # "journal",
             Undeceived', HostSeen'
      PROVE  ReadInv'
  <2>1. NeverIntact' /\ OfInstalled'
    BY <1>1, <1>3 DEF ReadInv, NeverIntact, OfInstalled, Intact, Reading
  <2>2. Deceived' => Deceived
    BY <1>1, <1>3 DEF Deceived, Reading
  <2>3. Overtaken' /\ FromFirst'
    BY <1>1, <1>3, <2>2 DEF ReadInv, Overtaken, FromFirst
  <2> QED BY <1>3, <2>1, <2>3 DEF ReadInv
<1>4. CASE ReadJournal
  <2>1. reader \in Reading /\ reader.phase = "journal"
    BY <1>4, ReportIs DEF ReadJournal
  <2>2. /\ reader' \in Reading /\ reader'.phase = "host" /\ reader'.ok = (reader.ok /\ live = Nil)
        /\ reader'.at = 1 /\ reader'.state = reader.state /\ reader'.was = reader.was /\ reader'.began = reader.began
    BY <1>4, <2>1 DEF ReadJournal, Reading, ReadInv, FromFirst
  <2>3. NeverIntact' /\ OfInstalled' /\ Overtaken' /\ FromFirst' /\ HostSeen'
    BY <1>1, <2>1, <2>2 DEF ReadInv, NeverIntact, OfInstalled, Overtaken, FromFirst, HostSeen, Intact, Deceived
  <2>4. Undeceived'
    <3> SUFFICES ASSUME reader'.ok, ~reader.was PROVE (StateGone \/ FileGone \/ HostGone)'
      BY <2>2 DEF Undeceived, Deceived
    <3>1. live = Nil /\ ~Intact(reader.state, file, host) /\ reader.state \in 1..MaxTxn
      BY <2>1, <2>2, ReportIs DEF ReadInv, NeverIntact
    <3>2. CASE host.plugin # reader.state
      BY <1>1, <2>2, <3>1, <3>2 DEF HostGone
    <3>3. CASE file[State].block # reader.state
      <4>1. Gone(reader.state, State)
        BY <3>1, <3>3, PackageIs, GoneAtRest
      <4> QED BY <1>2, <2>2, <4>1 DEF StateGone
    <3>4. CASE \E i \in 1..Len(Hashed) : file[Hashed[i]] # Package(reader.state)
      <4>1. \E i \in 1..Len(Hashed) : Gone(reader.state, Hashed[i])
        BY <3>1, <3>4, GoneAtRest
      <4> QED BY <1>2, <2>2, <4>1 DEF FileGone
    <3> QED BY <3>1, <3>2, <3>3, <3>4 DEF Intact
  <2> QED BY <2>2, <2>3, <2>4 DEF ReadInv
<1>5. CASE ReadHost
  <2>1. reader.phase = "host" /\ (host.plugin = reader.state /\ ~host.base) \in BOOLEAN
    BY <1>5 DEF ReadHost
  <2>2. /\ reader \in Reading /\ reader' \in Reading /\ reader'.phase = "files" /\ reader'.at = reader.at
        /\ reader'.state = reader.state /\ reader'.was = reader.was /\ reader'.began = reader.began
        /\ reader'.ok => reader.ok /\ host.plugin = reader.state
    BY <1>5, <2>1, ReportIs, FoundStep DEF ReadHost
  <2>3. Deceived' => Deceived /\ host.plugin = reader.state
    BY <1>1, <2>1, <2>2 DEF Deceived
  <2>4. Deceived' => StateGone \/ FileGone
    BY <2>3 DEF ReadInv, Undeceived, HostGone
  <2>5. Undeceived'
    BY <1>2, <2>1, <2>2, <2>4 DEF Undeceived, StateGone, FileGone
  <2>6. HostSeen'
    BY <1>1, <2>2, <2>3 DEF HostSeen
  <2> QED BY <1>3, <2>1, <2>2, <2>5, <2>6
<1>6. CASE ReadFile
  <2>1. reader.phase = "files" /\ reader \in Reading /\ Len(Hashed) \in Nat /\ reader.at \in Nat \ {0}
    BY <1>6, ReportIs, Hashes DEF ReadFile, Reading
  <2>2. CASE reader.at > Len(Hashed)
    <3>1. /\ reader' \in Reading /\ reader'.phase = "again" /\ reader'.at = reader.at
          /\ reader'.state = reader.state /\ reader'.was = reader.was /\ reader'.began = reader.began
          /\ reader'.ok = reader.ok
      BY <1>6, <2>1, <2>2, FoundStep DEF ReadFile, Reading
    <3>2. Deceived' => Deceived
      BY <1>1, <2>1, <3>1 DEF Deceived
    <3>3. Deceived' => StateGone
      BY <2>1, <2>2, <3>2 DEF ReadInv, Undeceived, HostGone, FileGone
    <3>4. Undeceived'
      BY <1>2, <3>1, <3>3 DEF Undeceived, StateGone
    <3>5. HostSeen'
      BY <1>1, <2>1, <3>1, <3>2 DEF ReadInv, HostSeen
    <3> QED BY <1>3, <2>1, <3>1, <3>4, <3>5
  <2>3. CASE ~(reader.at > Len(Hashed))
    <3>1. reader' = [reader EXCEPT !.ok = @ /\ file[Hashed[reader.at]] = Package(reader.state), !.at = @ + 1]
      BY <1>6, <2>3 DEF ReadFile
    <3>2. /\ reader' \in Reading /\ reader'.phase = "files" /\ reader'.at = reader.at + 1
          /\ reader'.state = reader.state /\ reader'.was = reader.was /\ reader'.began = reader.began
          /\ reader'.ok => reader.ok /\ file[Hashed[reader.at]] = Package(reader.state)
      <4>1. (reader.ok /\ file[Hashed[reader.at]] = Package(reader.state)) \in BOOLEAN
        OBVIOUS
      <4>2. PICK good \in BOOLEAN : good = (reader.ok /\ file[Hashed[reader.at]] = Package(reader.state))
        BY <4>1
      <4>3. PICK next \in Nat \ {0} : next = reader.at + 1
        BY <2>1
      <4>4. reader' = [reader EXCEPT !.ok = good, !.at = next]
        BY <3>1, <4>2, <4>3
      <4>5. /\ reader' \in Reading /\ reader'.phase = "files" /\ reader'.at = next
            /\ reader'.state = reader.state /\ reader'.was = reader.was /\ reader'.began = reader.began
            /\ reader'.ok = good
        BY <2>1, <4>4 DEF Reading
      <4> QED BY <4>2, <4>3, <4>5
    <3>3. Deceived' => Deceived /\ ~Gone(reader.state, Hashed[reader.at])
      BY <1>1, <2>1, <3>2 DEF Deceived, Gone
    <3>4. Deceived' => StateGone \/ \E i \in reader.at + 1 .. Len(Hashed) : Gone(reader.state, Hashed[i])
      <4>1. \A i \in reader.at..Len(Hashed) : i = reader.at \/ i \in reader.at + 1 .. Len(Hashed)
        BY <2>1
      <4> QED BY <2>1, <3>3, <4>1 DEF ReadInv, Undeceived, HostGone, FileGone
    <3>5. Undeceived'
      BY <1>2, <2>1, <3>2, <3>4 DEF Undeceived, StateGone, FileGone
    <3>6. HostSeen'
      BY <1>1, <2>1, <3>2, <3>3 DEF ReadInv, HostSeen
    <3> QED BY <1>3, <2>1, <3>2, <3>5, <3>6
  <2> QED BY <2>2, <2>3
<1>7. ASSUME reader.phase \in {"again", "journal-again"}, Retry PROVE ReadInv'
  <2>1. CASE Read(2)
    BY <1>1, <2>1, ReadStep
  <2>2. CASE Found(FALSE, "done")
    <3>1. /\ reader \in Reading /\ reader' \in Reading /\ reader'.phase = "done" /\ ~reader'.ok
          /\ reader'.state = reader.state /\ reader'.was = reader.was /\ reader'.began = reader.began
      BY <1>7, <2>2, ReportIs, FoundStep
    <3> QED BY <1>3, <1>7, <3>1 DEF Undeceived, HostSeen, Deceived
  <2> QED BY <1>7, <2>1, <2>2 DEF Retry
<1>8. ASSUME reader.phase \in {"again", "journal-again"}, ~Deceived, NEW phase \in {"journal-again", "done"},
             Found(TRUE, phase)
      PROVE  ReadInv'
  <2>1. /\ reader \in Reading /\ reader' \in Reading /\ reader'.phase = phase /\ reader'.ok = reader.ok
        /\ reader'.state = reader.state /\ reader'.was = reader.was /\ reader'.began = reader.began
    BY <1>8, ReportIs, FoundStep DEF Reading
  <2>2. ~Deceived'
    BY <1>1, <1>8, <2>1 DEF Deceived
  <2> QED BY <1>3, <1>8, <2>1, <2>2 DEF Undeceived, HostSeen
<1>9. CASE ReadStateAgain
  <2>1. reader.phase = "again"
    BY <1>9 DEF ReadStateAgain
  <2>2. CASE reader.state = Version /\ Found(TRUE, "journal-again")
    <3>1. Deceived => reader.state \in 1..MaxTxn
      BY <2>1, ReportIs DEF Deceived
    <3>2. Deceived => file[State] = Package(reader.state)
      BY <2>2, <3>1, PackageIs, Wholes DEF Version
    <3>3. Deceived => StateGone
      BY <2>1 DEF ReadInv, Undeceived, FileGone, HostGone
    <3>4. ~Deceived
      BY <3>2, <3>3 DEF StateGone, Gone
    <3> QED BY <1>8, <2>1, <2>2, <3>4
  <2> QED BY <1>7, <1>9, <2>1, <2>2 DEF ReadStateAgain
<1>10. CASE ReadJournalAgain
  <2>1. reader.phase = "journal-again" /\ ~Deceived
    BY <1>10 DEF ReadJournalAgain, ReadInv, Undeceived, StateGone, FileGone, HostGone
  <2> QED BY <1>7, <1>8, <1>10, <2>1 DEF ReadJournalAgain
<1> QED BY <1>4, <1>5, <1>6, <1>9, <1>10 DEF StatusStep

(* The installation goes on under the report.                              *)
LEMMA InstallerStepReads ==
    ASSUME Typed, Protocol, UndoInv, LineageInv, ReadInv, InstallerStep
    PROVE  ReadInv'
<1>1. /\ InstallerNext /\ Typed' /\ txn \in Nat /\ txn' \in Nat
      /\ (ghost.skipped => ghost'.skipped) /\ (txn' = txn \/ txn' = txn + 1)
  <2>1. InstallerNext
    BY DEF InstallerStep
  <2>2. txn' = txn \/ txn' = txn + 1
    BY <2>1, TxnChanges, StartStep
  <2> QED BY <2>1, <2>2, UndoInductive, HostChanges DEF Typed
<1>2. CASE reader.phase \in {"none", "done"}
  <2>1. reader' = reader
    BY <1>2 DEF InstallerStep
  <2>2. ~Deceived
    BY <1>2 DEF ReadInv, Undeceived, StateGone, FileGone, HostGone, Deceived
  <2>3. ~Deceived'
    BY <1>1, <2>1, <2>2 DEF Deceived, ReadInv, Reading, NotRead
  <2>4. Undeceived' /\ Overtaken' /\ HostSeen' /\ FromFirst' /\ NeverIntact'
    BY <1>2, <2>1, <2>3 DEF Undeceived, Overtaken, HostSeen, FromFirst, NeverIntact
  <2>5. OfInstalled'
    <3>1. reader.phase # "none" => reader.began \in Nat
      BY ReportIs DEF Reading
    <3> QED BY <1>1, <2>1, <3>1 DEF ReadInv, OfInstalled
  <2> QED BY <2>1, <2>4, <2>5 DEF ReadInv
<1>3. CASE reader.phase \notin {"none", "done"}
  <2>1. reader \in Reading
    BY <1>3, ReportIs
  <2>2. PICK was \in BOOLEAN : was = (reader.was \/ Intact(reader.state, file', host'))
    BY DEF Intact
  <2>3. reader' = [reader EXCEPT !.was = was]
    BY <1>3, <2>2 DEF InstallerStep
  <2>4. /\ reader' \in Reading /\ reader'.phase = reader.phase /\ reader'.at = reader.at /\ reader'.ok = reader.ok
        /\ reader'.state = reader.state /\ reader'.began = reader.began /\ reader'.was = was
    BY <2>1, <2>3 DEF Reading
  <2>5. ~reader'.was => ~reader.was /\ ~Intact(reader.state, file', host')
    BY <2>2, <2>4
  <2>6. NeverIntact'
    BY <2>4, <2>5 DEF NeverIntact, Intact
  <2>7. OfInstalled' /\ FromFirst' /\ reader.began \in Nat /\ reader.began <= txn
    BY <1>1, <1>3, <2>1, <2>4 DEF ReadInv, OfInstalled, FromFirst, Reading
  <2>8. ASSUME Deceived'
        PROVE  /\ Deceived /\ reader.state \in 1..MaxTxn /\ ~ghost.skipped
               /\ reader.phase \in {"host", "files", "again"}
               /\ live # Nil => txn' = txn /\ txn = reader.began + 1 /\ reader.state # txn
               /\ txn' # txn => txn = reader.began /\ live = Nil
    <3>1. Deceived
      BY <1>1, <2>4, <2>5, <2>7, <2>8 DEF Deceived
    <3>2. reader.state \in 1..MaxTxn /\ reader.state \in 1..reader.began /\ ~ghost.skipped
      BY <1>3, <3>1, ReportIs DEF Deceived, ReadInv, OfInstalled
    <3>3. reader.phase \in {"host", "files", "again"}
      BY <3>1 DEF ReadInv, Undeceived, StateGone, FileGone, HostGone
    <3>4. live # Nil => txn = reader.began + 1
      BY <3>1 DEF ReadInv, Overtaken
    <3>5. txn' <= reader.began + 1
      BY <2>4, <2>8 DEF Deceived
    <3>6. live # Nil => txn' = txn /\ reader.state # txn
      BY <1>1, <2>7, <3>2, <3>4, <3>5
    <3>7. txn' # txn => txn = reader.began
      BY <1>1, <2>7, <3>5
    <3> QED BY <3>1, <3>2, <3>3, <3>4, <3>6, <3>7
  <2>9. Overtaken'
    <3> SUFFICES ASSUME Deceived', live' # Nil PROVE txn' = reader.began + 1
      BY <2>4 DEF Overtaken
    <3>1. CASE txn' = txn
      BY <1>1, <2>8, <3>1, AtRestStays
    <3>2. CASE txn' # txn
      BY <1>1, <2>8, <3>2
    <3> QED BY <3>1, <3>2
  <2>10. HostSeen'
    <3> SUFFICES ASSUME Deceived', txn' = reader.began, reader.phase # "host" PROVE host'.plugin = reader.state
      BY <2>4 DEF HostSeen
    <3>1. txn' = txn /\ live = Nil
      BY <1>1, <2>7, <2>8
    <3> QED BY <1>1, <2>8, <3>1, AtRestStays DEF ReadInv, HostSeen
  <2>11. Undeceived'
    <3> SUFFICES ASSUME Deceived' PROVE (StateGone \/ FileGone \/ HostGone)'
      BY DEF Undeceived
    <3>1. PICK v : v = reader.state
      OBVIOUS
    <3>2. /\ v \in 1..MaxTxn /\ Older(v)
          /\ StateGone \/ FileGone \/ HostGone
          /\ reader.phase \in {"host", "files", "again"} /\ reader'.state = v
      BY <2>4, <2>8, <3>1 DEF Older, ReadInv, Undeceived
    <3>3. /\ Gone(v, State)' => StateGone'
          /\ (reader.phase \in {"host", "files"} /\ \E i \in reader.at..Len(Hashed) : Gone(v, Hashed[i])') => FileGone'
      BY <2>4, <3>2 DEF StateGone, FileGone
    <3>4. ASSUME reader.phase = "host", host'.plugin = v, \A t \in Whole : file'[t] # Package(v) => Gone(v, t)'
          PROVE  StateGone' \/ FileGone'
      <4>1. reader.at = 1
        BY <3>4 DEF ReadInv, FromFirst
      <4>2. ~Intact(v, file', host')
        BY <2>4, <2>5, <3>1 DEF Deceived
      <4>3. CASE file'[State].block # v
        <5>1. file'[State] # Package(v)
          BY <3>2, <4>3, PackageIs
        <5> QED BY <3>3, <3>4, <5>1, Wholes
      <4>4. CASE \E i \in 1..Len(Hashed) : file'[Hashed[i]] # Package(v)
        BY <3>3, <3>4, <4>1, <4>4, Hashes
      <4> QED BY <3>4, <4>2, <4>3, <4>4 DEF Intact
    <3>5. CASE txn' = txn
      <4>1. CASE StateGone
        BY <1>1, <3>1, <3>2, <3>3, <3>5, <4>1, GoneStays, Wholes DEF StateGone
      <4>2. CASE FileGone
        <5>1. PICK i \in reader.at..Len(Hashed) : Gone(v, Hashed[i])
          BY <3>1, <4>2 DEF FileGone
        <5>2. reader.at \in Nat \ {0} /\ Len(Hashed) \in Nat
          BY <2>1, Hashes DEF Reading
        <5>3. Hashed[i] \in Whole
          BY <5>1, <5>2, Hashes
        <5>4. Gone(v, Hashed[i])'
          BY <1>1, <3>2, <3>5, <5>1, <5>3, GoneStays
        <5> QED BY <3>3, <4>2, <5>1, <5>4 DEF FileGone
      <4>3. CASE HostGone
        <5>1. CASE live = Nil
          BY <1>1, <2>4, <3>1, <3>2, <3>5, <4>3, <5>1, AtRestStays DEF HostGone
        <5>2. CASE live # Nil /\ Gone(v, Payload)
          <6>1. host'.plugin # v /\ Gone(v, Payload)'
            BY <1>1, <3>1, <3>2, <3>5, <4>3, <5>2, GoneStays, HostStays, Wholes DEF HostGone
          <6> QED BY <2>4, <3>2, <4>3, <6>1 DEF HostGone
        <5>3. CASE live # Nil /\ Unlike(v)
          <6>1. /\ live' # Nil => Unlike(v)'
                /\ host'.plugin = v => \A t \in Whole : file'[t] # Package(v) => Gone(v, t)'
            BY <1>1, <3>1, <3>2, <3>5, <4>3, <5>3, UnlikeStays DEF HostGone
          <6>2. CASE host'.plugin = v
            BY <3>4, <4>3, <6>1, <6>2 DEF HostGone
          <6>3. CASE host'.plugin # v
            BY <2>4, <3>2, <4>3, <6>1, <6>3 DEF HostGone
          <6> QED BY <6>2, <6>3
        <5> QED BY <3>1, <4>3, <5>1, <5>2, <5>3 DEF HostGone
      <4> QED BY <3>2, <4>1, <4>2, <4>3
    <3>6. CASE txn' # txn
      <4>1. /\ live = Nil /\ txn = reader.began
            /\ UNCHANGED <<file, host>> /\ live' # Nil
            /\ \/ /\ \A t \in Whole : file[t] # Package(v) => Gone(v, t)'
                  /\ host.plugin # v /\ file[Payload] = Package(v) => file[State] # Package(v)
               \/ file[State] # Package(v) /\ Gone(v, State)'
               \/ file[State] # Package(v) /\ host.plugin # v /\ Unlike(v)' /\ \A t \in Whole : file[t] # Package(v)
        BY <1>1, <2>8, <3>2, <3>6, GoneAtStart
      <4>2. CASE Gone(v, State)'
        BY <3>3, <4>2
      <4>3. CASE host.plugin # v /\ Unlike(v)'
        <5>1. reader.phase = "host"
          BY <2>8, <3>1, <4>1, <4>3 DEF ReadInv, HostSeen
        <5> QED BY <2>4, <3>2, <4>1, <4>3, <5>1 DEF HostGone
      <4>4. CASE /\ \A t \in Whole : file[t] # Package(v) => Gone(v, t)'
                 /\ host.plugin # v /\ file[Payload] = Package(v) => file[State] # Package(v)
        <5>1. CASE StateGone
          BY <3>1, <3>3, <4>4, <5>1, Wholes DEF StateGone, Gone
        <5>2. CASE FileGone
          <6>1. PICK i \in reader.at..Len(Hashed) : Gone(v, Hashed[i])
            BY <3>1, <5>2 DEF FileGone
          <6>2. reader.at \in Nat \ {0} /\ Len(Hashed) \in Nat
            BY <2>1, Hashes DEF Reading
          <6>3. Hashed[i] \in Whole
            BY <6>1, <6>2, Hashes
          <6>4. Gone(v, Hashed[i])'
            BY <4>4, <6>1, <6>3 DEF Gone
          <6> QED BY <3>3, <5>2, <6>1, <6>4 DEF FileGone
        <5>3. CASE HostGone
          <6>1. CASE file[Payload] = Package(v)
            BY <3>1, <3>3, <4>4, <5>3, <6>1, Wholes DEF HostGone
          <6>2. CASE file[Payload] # Package(v)
            BY <2>4, <3>1, <3>2, <4>1, <4>4, <5>3, <6>2, Wholes DEF HostGone
          <6> QED BY <6>1, <6>2
        <5> QED BY <3>2, <5>1, <5>2, <5>3
      <4> QED BY <4>1, <4>2, <4>3, <4>4
    <3> QED BY <3>5, <3>6
  <2> QED BY <2>4, <2>6, <2>7, <2>9, <2>10, <2>11 DEF ReadInv
<1> QED BY <1>2, <1>3

(* A reading changes nothing that is installed.                            *)
LEMMA ReadStateReads ==
    ASSUME Typed, Protocol, UndoInv, LineageInv, ReadState
    PROVE  Typed' /\ Protocol' /\ UndoInv' /\ LineageInv' /\ ReadInv'
<1>1. /\ UNCHANGED <<file, host, backup, live, proc, txn>> /\ count.visits < MaxVisits
      /\ count' = [count EXCEPT !.visits = @ + 1]
      /\ ghost' = [ghost EXCEPT !.waived = @ \cup {count'.visits}] /\ Read(1)
  BY DEF ReadState
<1>2. count' \in [visits : 0..MaxVisits, faults : Nat]
  BY <1>1, Places DEF Typed
<1>3. ghost' \in Ghost /\ ghost'.skipped = ghost.skipped
  BY <1>1, <1>2 DEF Typed, Ghost
<1>4. Typed' /\ Protocol'
  BY <1>1, <1>2, <1>3 DEF Typed, Protocol, Working, Now
<1>5. UndoInv'
  BY <1>1 DEF UndoInv, Plain, BackupsSound, Revertible, Unwritten, Recorded, VersionSound, BeingInstalled, Resolved,
              Complete, Undoes, NotReached, GivenBack
<1>6. Dated' /\ ManifestsOf' /\ Noted'
  BY <1>1 DEF LineageInv, Dated, ManifestsOf, OfVersion, Noted
<1>7. SavedOf' /\ RestOf'
  BY <1>1, <1>3 DEF LineageInv, SavedOf, RestOf, OfVersion, HostOf, Near, Resolved
<1>8. ForwardOf' /\ BackwardOf' /\ RollingOf'
  <2>1. ForwardOf'
    BY <1>1 DEF LineageInv, ForwardOf, Into
  <2>2. BackwardOf'
    BY <1>1, <1>3 DEF LineageInv, BackwardOf, OfVersion, HostOf, Near
  <2>3. RollingOf'
    BY <1>1, <1>3 DEF LineageInv, RollingOf, HostOf, Near
  <2> QED BY <2>1, <2>2, <2>3
<1>9. ReadInv'
  BY <1>1, ReadStep
<1> QED BY <1>4, <1>5, <1>6, <1>7, <1>8, <1>9 DEF LineageInv

StatusInv == Typed /\ Protocol /\ UndoInv /\ LineageInv /\ ReadInv

LEMMA BeginningStatus ==
    ASSUME StatusInit
    PROVE  StatusInv
<1>1. InstallerInit /\ reader = NotRead /\ reader.phase = "none"
  BY DEF StatusInit, NotRead
<1>2. ReadInv
  BY <1>1 DEF ReadInv, Undeceived, Overtaken, FromFirst, HostSeen, NeverIntact, OfInstalled, Deceived
<1> QED BY <1>1, <1>2, BeginningUndo, BeginningOf DEF StatusInv

LEMMA StatusInductive ==
    ASSUME StatusInv, [StatusNext]_statusVars
    PROVE  StatusInv'
<1>1. CASE ReadState
  BY <1>1, ReadStateReads DEF StatusInv
<1>2. CASE StatusStep
  <2>1. UNCHANGED installation
    BY <1>2 DEF StatusStep
  <2> QED BY <1>2, <2>1, StatusStepReads, UndoInductive, LineageInductive DEF StatusInv
<1>3. CASE InstallerStep
  <2>1. InstallerNext
    BY <1>3 DEF InstallerStep
  <2> QED BY <1>3, <2>1, InstallerStepReads, UndoInductive, LineageInductive DEF StatusInv
<1>4. CASE UNCHANGED statusVars
  <2>1. UNCHANGED installation /\ reader' = reader
    BY <1>4 DEF statusVars
  <2>2. \A v, t : Gone(v, t)' <=> Gone(v, t)
    BY <2>1 DEF installation, Gone, Giving
  <2>3. \A v : Unlike(v)' <=> Unlike(v)
    BY <2>1 DEF installation, Unlike
  <2>4. (Deceived' <=> Deceived) /\ (StateGone' <=> StateGone) /\ (FileGone' <=> FileGone) /\ (HostGone' <=> HostGone)
    BY <2>1, <2>2, <2>3 DEF installation, Deceived, StateGone, FileGone, HostGone
  <2>5. ReadInv'
    BY <2>1, <2>4 DEF StatusInv, installation, ReadInv, Undeceived, Overtaken, FromFirst, HostSeen, NeverIntact,
                      OfInstalled, Intact
  <2> QED BY <2>1, <2>5, UndoInductive, LineageInductive DEF StatusInv
<1> QED BY <1>1, <1>2, <1>3, <1>4 DEF StatusNext

(* A status that reports the installation as intact, although a            *)
(* transaction or a recovery ran while it read, reports what the           *)
(* installation was at some moment of the reading: files edited, installs  *)
(* failed halfway and processes killed at any step included.               *)
THEOREM StatusIsSound == StatusSpec => []StatusSound
<1>1. StatusInit => StatusInv
  BY BeginningStatus
<1>2. StatusInv /\ [StatusNext]_statusVars => StatusInv'
  BY StatusInductive
<1>3. StatusInv => StatusSound
  BY DEF StatusInv, ReadInv, Undeceived, Deceived, StateGone, FileGone, HostGone, StatusSound
<1> QED BY <1>1, <1>2, <1>3, PTL DEF StatusSpec

LEMMA ReadStateKeeps ==
    ASSUME Typed, Protocol, UndoInv, LineageInv, KeptInv, OneInv, ReadState
    PROVE  KeptInv' /\ OneInv'
<1>1. /\ UNCHANGED <<file, host, backup, live, proc, txn>> /\ Typed'
      /\ count' = [count EXCEPT !.visits = @ + 1]
      /\ ghost' = [ghost EXCEPT !.waived = @ \cup {count'.visits}]
  BY ReadStateReads DEF ReadState
<1>2. /\ ghost'.touched = ghost.touched /\ ghost'.skipped = ghost.skipped /\ ghost'.unrecorded = ghost.unrecorded
      /\ ghost'.waived = ghost.waived \cup {count'.visits}
      /\ count'.visits = count.visits + 1 /\ count.visits \in Nat
  BY <1>1 DEF Typed, Ghost
<1>3. \A u : Kept(u) => Kept(u)'
  BY <1>1, <1>2 DEF Kept
<1>4. Accounted'
  <2> SUFFICES ASSUME NEW n \in 1..count'.visits
               PROVE  Kept(n)' \/ \E t \in Target : file'[t].user = n
    BY DEF Accounted
  <2>1. n \in 1..count.visits \/ n = count'.visits
    BY <1>2
  <2> QED BY <1>1, <1>2, <1>3, <2>1 DEF KeptInv, Accounted, Kept
<1>5. Secured' /\ JournalSecured' /\ HandSecured' /\ Unsaved'
  BY <1>1, <1>3 DEF KeptInv, Secured, JournalSecured, HandSecured, Unsaved, Now
<1>6. ManifestsConsistent /\ SavedConsistent => ManifestsConsistent' /\ SavedConsistent'
  BY <1>1, <1>2 DEF ManifestsConsistent, SavedConsistent, Consistent, Full, HostIs
<1>7. OneSet /\ RestConsistent => OneSet' /\ RestConsistent'
  BY <1>1, <1>2 DEF OneSet, RestConsistent, Resolved, Consistent, HostIs
<1>8. ForwardInv => ForwardInv'
  BY <1>1, <1>2 DEF ForwardInv, Installed
<1>9. BackwardInv => BackwardInv'
  BY <1>1, <1>2 DEF BackwardInv, Same, Consistent, HostIs
<1>10. RollingInv => RollingInv'
  BY <1>1, <1>2 DEF RollingInv, Same, HostIs
<1> QED BY <1>2, <1>4, <1>5, <1>6, <1>7, <1>8, <1>9, <1>10 DEF KeptInv, OneInv, Unmixed

(* With readers besides it the installer keeps its promises: the readings  *)
(* of a status, at any step of a transaction, mix no versions, lose        *)
(* nothing of the user's and leave every version to be undone.             *)
THEOREM ReadingIsHarmless == StatusSpec => [](OneVersion /\ NothingLost /\ Undoable)
<1> DEFINE Inv == StatusInv /\ KeptInv /\ OneInv
<1>1. StatusInit => Inv
  <2> SUFFICES ASSUME StatusInit PROVE KeptInv /\ OneInv
    BY BeginningStatus
  <2>1. InstallerInit
    BY DEF StatusInit
  <2> QED BY <2>1, BeginningKept, BeginningOne
<1>2. Inv /\ [StatusNext]_statusVars => Inv'
  <2> SUFFICES ASSUME Inv, [StatusNext]_statusVars PROVE KeptInv' /\ OneInv'
    BY StatusInductive
  <2>1. CASE [InstallerNext]_installation
    BY <2>1, KeptInductive, OneInductive DEF StatusInv
  <2>2. CASE ReadState
    BY <2>2, ReadStateKeeps DEF StatusInv
  <2> QED BY <2>1, <2>2 DEF StatusNext, StatusStep, InstallerStep, statusVars
<1>3. Inv => OneVersion /\ NothingLost /\ Undoable
  <2>1. Inv => OneVersion
    BY DEF OneVersion, AtRest, Version, OneInv, Unmixed, RestConsistent, Resolved, Consistent, HostIs
  <2>2. Inv => NothingLost
    BY KeptIsNotLost DEF StatusInv
  <2>3. Inv => Undoable
    BY DEF StatusInv, Undoable, AtRest, Version, UndoInv, VersionSound, Revertible, BeingInstalled, Resolved
  <2> QED BY <2>1, <2>2, <2>3
<1> QED BY <1>1, <1>2, <1>3, PTL DEF StatusSpec

================================================================================
