----------------------- MODULE DefaultActivation_proofs -----------------------
(***************************************************************************)
(* Proofs about DefaultActivation, for any sources, approvals and          *)
(* processes.                                                              *)
(***************************************************************************)
EXTENDS DefaultActivation, TLAPS

Working == {"intent", "enroll", "check", "consume", "effect", "point"}
Used == {"consumed", "late"}

ProcState == [pc : {"idle", "authorize"} \cup Working,
              approval : Approval \cup {None}, current : Source \cup {None}]

IntentState == {None} \cup [approval : Approval, previous : Source \cup {None}]

(* Exactly the process that works on the files holds the lock.             *)
LockInv ==
    \A p \in Proc :
        /\ proc[p].pc \in Working <=> lock = p
        /\ proc[p].pc # "idle" => proc[p].approval \in Approval

(* What the holder of the lock has seen or done still stands.              *)
Holder(p) ==
    LET a == proc[p].approval
        s == Target[a]
        pc == proc[p].pc
    IN  /\ pointer \in {proc[p].current, None}
        /\ Kind[a] = "restore" => proc[p].current \in {s, None} /\ pc \notin {"intent", "enroll"}
        /\ Kind[a] = "activate" /\ (pc # "intent" \/ intent[s] # None) =>
            /\ intent[s] # None /\ intent[s].approval = a
            /\ proc[p].current # s => intent[s].previous = proc[p].current
        /\ pc \in {"check", "consume", "effect", "point"} => enrolled
        /\ pc = "consume" => spent[a] = 0
        /\ pc \in {"effect", "point"} => approval[a] \in Used
        /\ pc = "point" => status[s] = IF Kind[a] = "activate" THEN "ACTIVE" ELSE "LEGACY_RESTORED"

HolderInv == \A p \in Proc : lock = p => Holder(p)

(* A state file in effect names the used approval that put it there.       *)
Approved(s, kind) ==
    by[s] \in Approval /\ Kind[by[s]] = kind /\ Target[by[s]] = s /\ approval[by[s]] \in Used

StateInv ==
    \A s \in Source :
        /\ status[s] = "ACTIVE" =>
            Approved(s, "activate") /\ intent[s] # None /\ by[s] = intent[s].approval
        /\ status[s] = "LEGACY_RESTORED" => Approved(s, "restore")

(* What is left behind when an approval has been consumed.                 *)
SpentInv ==
    \A a \in Approval :
        /\ spent[a] \in {0, 1}
        /\ spent[a] = 1 =>
            /\ approval[a] \in Used /\ enrolled
            /\ Kind[a] = "activate" =>
                intent[Target[a]] # None /\ intent[Target[a]].approval = a

Typed ==
    /\ status \in [Source -> Statuses]
    /\ by \in [Source -> Approval \cup {None}]
    /\ intent \in [Source -> IntentState]
    /\ enrolled \in BOOLEAN
    /\ pointer \in Source \cup {None}
    /\ approval \in [Approval -> {"active", "expired", "consumed", "late"}]
    /\ spent \in [Approval -> Nat] /\ granted \in [Approval -> Nat]
    /\ lock \in Proc \cup {None}
    /\ proc \in [Proc -> ProcState]
    /\ reader \in [pc : {"missing", "content", "state", "active"} \cup Answers,
                   seen : Source \cup {None}]

IInv == Typed /\ LockInv /\ HolderInv /\ StateInv /\ SpentInv /\ PointerEffective

-------------------------------------------------------------------------------
LEMMA InitInv == Init => IInv
<1>. SUFFICES ASSUME Init PROVE IInv
  OBVIOUS
<1>. USE ActivationAssumption
<1>1. Idle \in ProcState /\ Idle.pc = "idle"
  BY DEF Idle, ProcState
<1>2. Typed
  BY <1>1 DEF Init, Typed, Statuses, IntentState, Answers, Resolver
<1>3. \A p \in Proc : proc[p].pc = "idle"
  BY <1>1 DEF Init
<1>4. LockInv /\ HolderInv
  BY <1>3 DEF Init, LockInv, HolderInv, Working
<1>5. StateInv /\ SpentInv /\ PointerEffective
  BY DEF Init, StateInv, SpentInv, PointerEffective
<1>. QED
  BY <1>2, <1>4, <1>5 DEF IInv

(* A step that writes one state file and nothing else.                     *)
LEMMA BecomeInv ==
    ASSUME IInv, NEW s \in Source, Unlocked(s), NEW new \in Statuses, Become(s, new, None),
           new \notin {"ACTIVE", "LEGACY_RESTORED"},
           new = "REVOKED" \/ status[s] \in {"NONE", "PREPARED"},
           UNCHANGED <<intent, enrolled, pointer, use, lock, proc, reader>>
    PROVE  IInv'
<1>. USE ActivationAssumption DEF use
<1>1. Typed'
  BY DEF IInv, Typed, Become
<1>2. LockInv'
  BY DEF IInv, LockInv
<1>3. HolderInv'
  BY DEF IInv, HolderInv, Holder, Become, Unlocked, Typed, LockInv
<1>4. StateInv' /\ SpentInv'
  BY DEF IInv, StateInv, SpentInv, Approved, Become, Typed
<1>5. PointerEffective'
  BY DEF IInv, PointerEffective, Become, Typed
<1>. QED
  BY <1>1, <1>2, <1>3, <1>4, <1>5 DEF IInv

(* A call takes the locks; what holds then is what it has read. *)
LEMMA BeginInv ==
    ASSUME IInv, NEW p \in Proc, NEW a \in Approval, Activate(p, a) \/ RestoreLegacy(p, a)
    PROVE  IInv'
<1>. USE ActivationAssumption DEF use, files, At, Mine, Working
<1>1. Typed'
  BY DEF IInv, Typed, ProcState, Activate, RestoreLegacy, Begin
<1>2. LockInv'
  BY DEF IInv, LockInv, Typed, ProcState, Activate, RestoreLegacy, Begin
<1>3. HolderInv'
    BY DEF IInv, HolderInv, Holder, LockInv, Typed, ProcState, Activate, RestoreLegacy, Begin,
         IntentAgrees, StateInv, PointerEffective, SpentInv, Approved, Used
<1>4. StateInv'
    BY DEF IInv, StateInv, Approved, HolderInv, Holder, LockInv, Typed, Activate, RestoreLegacy,
         Begin
<1>5. SpentInv'
  BY DEF IInv, SpentInv, HolderInv, Holder, LockInv, Typed, Activate, RestoreLegacy, Begin
<1>6. PointerEffective'
  BY DEF IInv, PointerEffective, HolderInv, Holder, LockInv, Typed, Activate, RestoreLegacy, Begin
<1>. QED
  BY <1>1, <1>2, <1>3, <1>4, <1>5, <1>6 DEF IInv

LEMMA WriteIntentInv ==
    ASSUME IInv, NEW p \in Proc, WriteIntent(p)
    PROVE  IInv'
<1>. USE ActivationAssumption DEF use, files, At, Mine, Working
<1>1. Typed'
  BY DEF IInv, Typed, ProcState, IntentState, LockInv, WriteIntent, Goto
<1>2. LockInv'
  BY DEF IInv, LockInv, Typed, ProcState, WriteIntent, Goto
<1>3. HolderInv'
  <2>1. lock = p /\ proc[p].approval \in Approval /\ Holder(p)
    BY DEF IInv, LockInv, HolderInv, WriteIntent
  <2>2. proc'[p].pc = "enroll" /\ proc'[p].approval = proc[p].approval
        /\ proc'[p].current = proc[p].current
    BY DEF IInv, Typed, ProcState, WriteIntent, Goto
  <2>3. Kind[proc[p].approval] = "activate"
    BY <2>1 DEF Holder, WriteIntent
  <2>4. LET s == Target[proc[p].approval] IN
          /\ intent'[s] # None /\ intent'[s].approval = proc[p].approval
          /\ proc[p].current # s => intent'[s].previous = proc[p].current
    <3>1. Target[proc[p].approval] \in Source
      BY <2>1
    <3>2. CASE intent[Target[proc[p].approval]] = None
      <4> DEFINE r == [approval |-> proc[p].approval, previous |-> proc[p].current]
      <4>1. intent'[Target[proc[p].approval]] = r
        BY <3>1, <3>2 DEF IInv, Typed, WriteIntent
      <4>2. r # None /\ r.approval = proc[p].approval /\ r.previous = proc[p].current
        BY ActivationAssumption, <2>1 DEF IInv, Typed, ProcState
      <4>. QED
        BY <4>1, <4>2
    <3>3. CASE intent[Target[proc[p].approval]] # None
      BY <2>1, <2>3, <3>3 DEF Holder, WriteIntent
    <3>. QED
      BY <3>2, <3>3
  <2>5. Holder(p)'
    BY <2>1, <2>2, <2>3, <2>4 DEF Holder, WriteIntent
  <2>. QED
    BY <2>1, <2>5 DEF HolderInv, WriteIntent
<1>4. StateInv'
  BY DEF IInv, StateInv, Approved, HolderInv, Holder, LockInv, Typed, WriteIntent, Goto
<1>5. SpentInv'
  BY DEF IInv, SpentInv, HolderInv, Holder, LockInv, Typed, WriteIntent, Goto
<1>6. PointerEffective'
  BY DEF IInv, PointerEffective, HolderInv, Holder, LockInv, Typed, WriteIntent, Goto
<1>. QED
  BY <1>1, <1>2, <1>3, <1>4, <1>5, <1>6 DEF IInv

LEMMA EnrollInv ==
    ASSUME IInv, NEW p \in Proc, Enroll(p)
    PROVE  IInv'
<1>. USE ActivationAssumption DEF use, files, At, Mine, Working
<1>1. Typed'
  BY DEF IInv, Typed, ProcState, Enroll, Goto
<1>2. LockInv'
  BY DEF IInv, LockInv, Typed, ProcState, Enroll, Goto
<1>3. HolderInv'
  BY DEF IInv, HolderInv, Holder, LockInv, Typed, ProcState, Enroll, Goto
<1>4. StateInv'
  BY DEF IInv, StateInv, Approved, HolderInv, Holder, LockInv, Typed, Enroll, Goto
<1>5. SpentInv'
  BY DEF IInv, SpentInv, HolderInv, Holder, LockInv, Typed, Enroll, Goto
<1>6. PointerEffective'
  BY DEF IInv, PointerEffective, HolderInv, Holder, LockInv, Typed, Enroll, Goto
<1>. QED
  BY <1>1, <1>2, <1>3, <1>4, <1>5, <1>6 DEF IInv

LEMMA CheckInv ==
    ASSUME IInv, NEW p \in Proc, Check(p)
    PROVE  IInv'
<1>. USE ActivationAssumption DEF use, files, At, Mine, Working
<1>1. Typed'
  BY DEF IInv, Typed, ProcState, Check, Goto
<1>2. LockInv'
  BY DEF IInv, LockInv, Typed, ProcState, Check, Goto
<1>3. HolderInv'
  BY DEF IInv, HolderInv, Holder, LockInv, Typed, ProcState, Check, Goto, SpentInv, Used
<1>4. StateInv'
  BY DEF IInv, StateInv, Approved, HolderInv, Holder, LockInv, Typed, Check, Goto
<1>5. SpentInv'
  BY DEF IInv, SpentInv, HolderInv, Holder, LockInv, Typed, Check, Goto
<1>6. PointerEffective'
  BY DEF IInv, PointerEffective, HolderInv, Holder, LockInv, Typed, Check, Goto
<1>. QED
  BY <1>1, <1>2, <1>3, <1>4, <1>5, <1>6 DEF IInv

LEMMA ConsumeInv ==
    ASSUME IInv, NEW p \in Proc, Consume(p)
    PROVE  IInv'
<1>. USE ActivationAssumption DEF use, files, At, Mine, Working
<1>1. Typed'
  <2>1. proc[p].approval \in Approval
    BY DEF IInv, LockInv, Consume
  <2>2. approval' \in [Approval -> {"active", "expired", "consumed", "late"}]
    BY <2>1 DEF IInv, Typed, Consume, Mark
  <2>3. proc' \in [Proc -> ProcState]
    <3>1. proc \in [Proc -> ProcState] /\ Goto(p, "effect")
      BY DEF IInv, Typed, Consume
    <3>. QED
      BY <3>1 DEF Goto, ProcState
  <2>4. spent' \in [Approval -> Nat]
    BY <2>1 DEF IInv, Typed, Consume
  <2>. QED
    BY <2>2, <2>3, <2>4 DEF IInv, Typed, Consume
<1>2. LockInv'
  BY DEF IInv, LockInv, Typed, ProcState, Consume, Goto, Mark
<1>3. HolderInv'
  BY DEF IInv, HolderInv, Holder, LockInv, Typed, ProcState, Consume, Goto, Mark, Used
<1>4. StateInv'
  BY DEF IInv, StateInv, Approved, HolderInv, Holder, LockInv, Typed, Consume, Goto, Mark, Used
<1>5. SpentInv'
  BY DEF IInv, SpentInv, HolderInv, Holder, LockInv, Typed, Consume, Goto, Mark, Used
<1>6. PointerEffective'
  BY DEF IInv, PointerEffective, HolderInv, Holder, LockInv, Typed, Consume, Goto, Mark
<1>. QED
  BY <1>1, <1>2, <1>3, <1>4, <1>5, <1>6 DEF IInv

LEMMA EffectInv ==
    ASSUME IInv, NEW p \in Proc, Effect(p)
    PROVE  IInv'
<1>. USE ActivationAssumption DEF use, files, At, Mine, Working
<1>1. Typed'
  BY DEF IInv, Typed, ProcState, LockInv, Effect, Goto, Become, Statuses
<1>2. LockInv'
  BY DEF IInv, LockInv, Typed, ProcState, Effect, Goto, Become
<1>3. HolderInv'
  BY DEF IInv, HolderInv, Holder, LockInv, Typed, ProcState, Effect, Goto, Become, Used
<1>4. StateInv'
  BY DEF IInv, StateInv, Approved, HolderInv, Holder, LockInv, Typed, Effect, Goto, Become, Used
<1>5. SpentInv'
  BY DEF IInv, SpentInv, HolderInv, Holder, LockInv, Typed, Effect, Goto, Become
<1>6. PointerEffective'
  BY DEF IInv, PointerEffective, HolderInv, Holder, LockInv, Typed, Effect, Goto, Become
<1>. QED
  BY <1>1, <1>2, <1>3, <1>4, <1>5, <1>6 DEF IInv

LEMMA PointInv ==
    ASSUME IInv, NEW p \in Proc, Point(p)
    PROVE  IInv'
<1>. USE ActivationAssumption DEF use, files, At, Mine, Working
<1>1. Typed'
  BY DEF IInv, Typed, ProcState, LockInv, Point, Release, Idle
<1>2. LockInv'
  BY DEF IInv, LockInv, Typed, ProcState, Point, Release, Idle
<1>3. HolderInv'
  BY DEF IInv, HolderInv, Holder, LockInv, Typed, ProcState, Point, Release, Idle
<1>4. StateInv'
  BY DEF IInv, StateInv, Approved, HolderInv, Holder, LockInv, Typed, Point, Release, Idle
<1>5. SpentInv'
  BY DEF IInv, SpentInv, HolderInv, Holder, LockInv, Typed, Point, Release, Idle
<1>6. PointerEffective'
    BY DEF IInv, PointerEffective, HolderInv, Holder, LockInv, Typed, ProcState, Point, Release,
         Idle
<1>. QED
  BY <1>1, <1>2, <1>3, <1>4, <1>5, <1>6 DEF IInv

LEMMA InterruptInv ==
    ASSUME IInv, NEW p \in Proc, Interrupt(p)
    PROVE  IInv'
<1>. USE ActivationAssumption DEF use, files, At, Mine, Working
<1>1. Typed'
  BY DEF IInv, Typed, ProcState, Interrupt, Release, Idle
<1>2. LockInv'
  BY DEF IInv, LockInv, Typed, ProcState, Interrupt, Release, Idle
<1>3. HolderInv'
  BY DEF IInv, HolderInv, Holder, LockInv, Typed, ProcState, Interrupt, Release, Idle
<1>4. StateInv'
  BY DEF IInv, StateInv, Approved, HolderInv, Holder, LockInv, Typed, Interrupt, Release, Idle
<1>5. SpentInv'
  BY DEF IInv, SpentInv, HolderInv, Holder, LockInv, Typed, Interrupt, Release, Idle
<1>6. PointerEffective'
  BY DEF IInv, PointerEffective, HolderInv, Holder, LockInv, Typed, Interrupt, Release, Idle
<1>. QED
  BY <1>1, <1>2, <1>3, <1>4, <1>5, <1>6 DEF IInv

LEMMA AuthorizeInv ==
    ASSUME IInv, NEW p \in Proc, NEW a \in Approval, Authorize(p, a)
    PROVE  IInv'
<1>. USE ActivationAssumption DEF use, files, At, Mine, Working
<1>1. Typed'
  BY DEF IInv, Typed, ProcState, Authorize, Idle
<1>2. LockInv'
  BY DEF IInv, LockInv, Typed, ProcState, Authorize, Idle
<1>3. HolderInv'
  BY DEF IInv, HolderInv, Holder, LockInv, Typed, ProcState, Authorize, Idle
<1>4. StateInv'
  BY DEF IInv, StateInv, Approved, HolderInv, Holder, LockInv, Typed, Authorize, Idle
<1>5. SpentInv'
  BY DEF IInv, SpentInv, HolderInv, Holder, LockInv, Typed, Authorize, Idle
<1>6. PointerEffective'
  BY DEF IInv, PointerEffective, HolderInv, Holder, LockInv, Typed, Authorize, Idle
<1>. QED
  BY <1>1, <1>2, <1>3, <1>4, <1>5, <1>6 DEF IInv

LEMMA ConsumeAuthorizedInv ==
    ASSUME IInv, NEW p \in Proc, ConsumeAuthorized(p)
    PROVE  IInv'
<1>. USE ActivationAssumption DEF use, files, At, Mine, Working
<1>1. Typed'
  BY DEF IInv, Typed, ProcState, LockInv, ConsumeAuthorized, Mark, Release, Idle
<1>2. LockInv'
  BY DEF IInv, LockInv, Typed, ProcState, ConsumeAuthorized, Mark, Release, Idle
<1>3. HolderInv'
    BY DEF IInv, HolderInv, Holder, LockInv, Typed, ProcState, ConsumeAuthorized, Mark, Release,
         Idle, Used
<1>4. StateInv'
    BY DEF IInv, StateInv, Approved, HolderInv, Holder, LockInv, Typed, ConsumeAuthorized, Mark,
         Release, Idle, Used
<1>5. SpentInv'
    BY DEF IInv, SpentInv, HolderInv, Holder, LockInv, Typed, ConsumeAuthorized, Mark, Release,
         Idle, Used
<1>6. PointerEffective'
    BY DEF IInv, PointerEffective, HolderInv, Holder, LockInv, Typed, ConsumeAuthorized, Mark,
         Release, Idle
<1>. QED
  BY <1>1, <1>2, <1>3, <1>4, <1>5, <1>6 DEF IInv

LEMMA ExpireInv ==
    ASSUME IInv, NEW a \in Approval, Expire(a)
    PROVE  IInv'
<1>. USE ActivationAssumption DEF use, files, At, Mine, Working
<1>1. Typed'
  BY DEF IInv, Typed, ProcState, Expire
<1>2. LockInv'
  BY DEF IInv, LockInv, Typed, ProcState, Expire
<1>3. HolderInv'
  BY DEF IInv, HolderInv, Holder, LockInv, Typed, ProcState, Expire, Used
<1>4. StateInv'
  BY DEF IInv, StateInv, Approved, HolderInv, Holder, LockInv, Typed, Expire, Used
<1>5. SpentInv'
  BY DEF IInv, SpentInv, HolderInv, Holder, LockInv, Typed, Expire, Used
<1>6. PointerEffective'
  BY DEF IInv, PointerEffective, HolderInv, Holder, LockInv, Typed, Expire
<1>. QED
  BY <1>1, <1>2, <1>3, <1>4, <1>5, <1>6 DEF IInv

LEMMA LoseInv ==
    ASSUME IInv, LosePointer
    PROVE  IInv'
<1>. USE ActivationAssumption DEF use, files, At, Mine, Working
<1>1. Typed'
  BY DEF IInv, Typed, ProcState, LosePointer
<1>2. LockInv'
  BY DEF IInv, LockInv, Typed, ProcState, LosePointer
<1>3. HolderInv'
  BY DEF IInv, HolderInv, Holder, LockInv, Typed, ProcState, LosePointer
<1>4. StateInv'
  BY DEF IInv, StateInv, Approved, HolderInv, Holder, LockInv, Typed, LosePointer
<1>5. SpentInv'
  BY DEF IInv, SpentInv, HolderInv, Holder, LockInv, Typed, LosePointer
<1>6. PointerEffective'
  BY DEF IInv, PointerEffective, HolderInv, Holder, LockInv, Typed, LosePointer
<1>. QED
  BY <1>1, <1>2, <1>3, <1>4, <1>5, <1>6 DEF IInv

LEMMA ResolveInv ==
    ASSUME IInv, Resolve
    PROVE  IInv'
<1>1. UNCHANGED <<files, use, lock, proc>>
  BY DEF Resolve, ResolvePointer, ResolveMissing, ResolveContent, ResolveRestored,
         ResolveActive, Read
<1>2. Typed'
  BY <1>1 DEF IInv, Typed, files, use, Resolve, ResolvePointer, ResolveMissing, ResolveContent,
              ResolveRestored, ResolveActive, Read, Answers
<1>. QED
  BY <1>1, <1>2
     DEF IInv, files, use, LockInv, HolderInv, Holder, StateInv, Approved, SpentInv,
         PointerEffective

LEMMA NextInv == IInv /\ [Next]_vars => IInv'
<1>. SUFFICES ASSUME IInv, [Next]_vars PROVE IInv'
  OBVIOUS
<1>1. ASSUME NEW s \in Source, Prepare(s) PROVE IInv'
  BY <1>1, BecomeInv DEF Prepare, Statuses
<1>2. ASSUME NEW s \in Source, VerifyInstallation(s) PROVE IInv'
  BY <1>2, BecomeInv DEF VerifyInstallation, Statuses
<1>3. ASSUME NEW s \in Source, Revoke(s) PROVE IInv'
  BY <1>3, BecomeInv DEF Revoke, Statuses
<1>4. ASSUME NEW p \in Proc, Step(p) PROVE IInv'
  BY <1>4, BeginInv, WriteIntentInv, EnrollInv, CheckInv, ConsumeInv, EffectInv, PointInv,
     InterruptInv, AuthorizeInv, ConsumeAuthorizedInv DEF Step
<1>5. CASE (\E a \in Approval : Expire(a)) \/ LosePointer \/ Resolve
  BY <1>5, ExpireInv, LoseInv, ResolveInv
<1>6. CASE UNCHANGED vars
  BY <1>6 DEF vars, IInv, Typed, LockInv, HolderInv, Holder, StateInv, Approved, SpentInv,
              PointerEffective
<1>. QED
  BY <1>1, <1>2, <1>3, <1>4, <1>5, <1>6 DEF Next

(* The invariant that holds in every state; the theorems below are drawn    *)
(* from it.                                                                *)
THEOREM Inductive == Spec => []IInv
BY InitInv, NextInv, PTL DEF Spec

-------------------------------------------------------------------------------
(* Whatever is interrupted and tried again, the pointer names a source that *)
(* has been put into effect.                                               *)
THEOREM PointerIsEffective == Spec => []PointerEffective
BY Inductive, PTL DEF IInv

(* activate and restore_legacy consume an approval once, however often they *)
(* are tried again.                                                        *)
THEOREM SpentOnce == Spec => []ConsumedOnce
<1>1. IInv => ConsumedOnce
  BY DEF IInv, SpentInv, ConsumedOnce
<1>. QED
  BY <1>1, Inductive, PTL

(* An activation that was interrupted after it had consumed its approval    *)
(* can be tried again.                                                     *)
THEOREM RetryFinds == Spec => []Resumable
<1>1. IInv => Resumable
  <2>. SUFFICES ASSUME IInv, NEW a \in Approval, Kind[a] = "activate", spent[a] > 0,
                       approval[a] # "late"
                PROVE  /\ approval[a] = "consumed" /\ enrolled
                       /\ intent[Target[a]] # None /\ intent[Target[a]].approval = a
                       /\ status[Target[a]] = "ACTIVE" => by[Target[a]] = a
    BY DEF Resumable
  <2>1. spent[a] = 1 /\ Target[a] \in Source
    BY ActivationAssumption DEF IInv, SpentInv
  <2>. QED
    BY <2>1 DEF IInv, SpentInv, StateInv, Used
<1>. QED
  BY <1>1, Inductive, PTL

(* A pointer is replaced only by an activation that was begun when it was   *)
(* the default.                                                            *)
THEOREM PointerNotOverwritten == Spec => NoOverwrite
<1>1. ASSUME IInv, [Next]_vars, pointer # None, pointer' \notin {pointer, None}
      PROVE  intent[pointer'] # None /\ intent[pointer'].previous = pointer
  <2>1. PICK p \in Proc : Point(p)
    BY <1>1 DEF Next, vars, files, use, Step, Prepare, VerifyInstallation, Revoke, Become,
       Activate, RestoreLegacy, Begin, Authorize, WriteIntent, Enroll, Check, Consume, Effect,
       ConsumeAuthorized, Interrupt, Expire, LosePointer, Resolve, ResolvePointer,
       ResolveMissing, ResolveContent, ResolveRestored, ResolveActive, Read
  <2>2. lock = p /\ Holder(p) /\ proc[p].approval \in Approval
    BY <1>1, <2>1 DEF IInv, LockInv, HolderInv, Point, At, Working
  <2>3. pointer' = Target[proc[p].approval] /\ proc[p].current = pointer
    BY <1>1, <2>1, <2>2 DEF Point, Mine, Holder
  <2>4. Kind[proc[p].approval] = "activate"
    BY <1>1, <2>2, <2>3, ActivationAssumption DEF Holder
  <2>. QED
    BY <1>1, <2>1, <2>2, <2>3, <2>4 DEF Holder, Point, At
<1>. QED
  BY <1>1, Inductive, PTL DEF Spec, NoOverwrite

(* resolve_default answers with the old policy as if nothing was enrolled   *)
(* only while no approval has been consumed.                               *)
THEOREM NeverFallsBack == Spec => NoSilentFallback
<1>1. ASSUME IInv, [Next]_vars, reader'.pc = "legacy", reader.pc # "legacy"
      PROVE  \A a \in Approval : spent[a] = 0
  <2>1. Resolve
    BY <1>1 DEF Next, vars, files, use, Step, Prepare, VerifyInstallation, Revoke, Become,
       Activate, RestoreLegacy, Begin, Authorize, WriteIntent, Enroll, Check, Consume, Effect,
       Point, ConsumeAuthorized, Interrupt, Expire, LosePointer
  <2>2. ~enrolled
    BY <1>1, <2>1 DEF Resolve, ResolvePointer, ResolveMissing, ResolveContent, ResolveRestored,
       ResolveActive, Read
  <2>. QED
    BY <1>1, <2>2 DEF IInv, SpentInv
<1>. QED
  BY <1>1, Inductive, PTL DEF Spec, NoSilentFallback

(* The policy in force is one that a used approval allowed for that source. *)
THEOREM ChoiceApproved == Spec => ApprovedChoice
<1>1. ASSUME IInv', Choice' \in {"new", "restored"}
      PROVE  \E a \in Approval :
                /\ Target[a] = pointer' /\ approval'[a] \in {"consumed", "late"}
                /\ Kind[a] = IF Choice' = "new" THEN "activate" ELSE "restore"
  <2>1. pointer' \in Source
    BY <1>1 DEF Choice, IInv, Typed
  <2>2. CASE Choice' = "new"
    <3>1. status'[pointer'] = "ACTIVE"
      BY <2>1, <2>2, ActivationAssumption DEF Choice
    <3>. QED
      BY <1>1, <2>1, <2>2, <3>1 DEF IInv, StateInv, Approved, Used
  <2>3. CASE Choice' = "restored"
    <3>1. status'[pointer'] = "LEGACY_RESTORED"
      BY <2>1, <2>3, ActivationAssumption DEF Choice
    <3>. QED
      BY <1>1, <2>1, <2>3, <3>1 DEF IInv, StateInv, Approved, Used
  <2>. QED
    BY <1>1, <2>2, <2>3
<1>. QED
  BY <1>1, Inductive, PTL DEF ApprovedChoice
===============================================================================
