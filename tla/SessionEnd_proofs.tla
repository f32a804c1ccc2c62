--------------------------- MODULE SessionEnd_proofs ---------------------------
(***************************************************************************)
(* Proofs about SessionEnd, for any number of processes and events: its    *)
(* invariants, and that it uses each root's queue as JobBoard allows.      *)
(***************************************************************************)
EXTENDS SessionEnd, TLAPS

Held == {"lifecycle", "boundary", "append", "pin", "enqueue", "raise"}

(* A process inside a delivery owns the selection guard. *)
GuardInv == \A p \in Proc : proc[p].pc \in Held => guard = p

(* What a delivery knows of the route is still true: a process on its way  *)
(* to the primary chain has seen no route, one on its way to the fallback  *)
(* chain has seen or written it.                                           *)
RouteOK(p) ==
    /\ proc[p].pc \in Held /\ proc[p].root = "fallback" => pinned
    /\ proc[p].pc \in {"lifecycle", "boundary", "append", "pin"} /\ proc[p].root = "primary"
          => ~pinned
    /\ proc[p].pc = "pin" => proc[p].root = "primary"

RouteInv == \A p \in Proc : RouteOK(p)

(* What a delivery carries, and that it is in the chain once appended. *)
EventOK(p) ==
    /\ proc[p].pc = "lifecycle" => proc[p].event \in Lifecycle
    /\ proc[p].pc \in Held \ {"lifecycle"} => proc[p].event \in Session
    /\ proc[p].pc = "enqueue" => proc[p].event \in chain[proc[p].root]

EventInv == \A p \in Proc : EventOK(p)

IInv ==
    /\ TypeOK /\ GuardInv /\ RouteInv /\ EventInv
    /\ RouteFirst /\ RecoveryGrounded

-------------------------------------------------------------------------------
ProcState == [pc : {"off", "lifecycle", "boundary", "append", "pin", "enqueue",
                    "raise", "recover"},
              event : Session \cup Lifecycle \cup {None},
              root : Root, fresh : BOOLEAN,
              todo : SUBSET (Session \X Receipt)]

Receipts == [Root -> [Session -> Receipt \cup {NoReceipt}]]

LEMMA OffType == Off \in ProcState
BY DEF Off, ProcState, Root

(* Writing one receipt changes no other; what is there afterwards is the   *)
(* receipt asked for, a diagnostic or the old one.                         *)
LEMMA WriteReceiptFacts ==
    ASSUME receipt \in Receipts,
           NEW r \in Root, NEW s \in Session, NEW o \in Root,
           NEW k \in {"diagnostic", "recoverable", "pending"},
           WriteReceipt(r, s, k, o)
    PROVE  /\ receipt' \in Receipts
           /\ \A r2 \in Root, s2 \in Session :
                 \/ receipt'[r2][s2] = receipt[r2][s2]
                 \/ r2 = r /\ s2 = s /\ receipt'[r2][s2].kind \in {k, "diagnostic"}
<1>1. PICK new \in {[kind |-> k, origin |-> o]} \cup
                  (IF "receipt" \in Faults
                   THEN {receipt[r][s], [kind |-> "diagnostic", origin |-> o]} ELSE {}) :
         receipt' = [receipt EXCEPT ![r][s] = new]
  BY DEF WriteReceipt
<1>2. new = receipt[r][s] \/ new = [kind |-> k, origin |-> o]
      \/ new = [kind |-> "diagnostic", origin |-> o]
  BY <1>1
<1>3. new \in Receipt \cup {NoReceipt}
  BY <1>2 DEF Receipts, Receipt
<1>4. receipt' \in Receipts
  BY <1>1, <1>3 DEF Receipts
<1>5. ASSUME NEW r2 \in Root, NEW s2 \in Session
      PROVE  \/ receipt'[r2][s2] = receipt[r2][s2]
             \/ r2 = r /\ s2 = s /\ receipt'[r2][s2].kind \in {k, "diagnostic"}
  <2>1. CASE r2 = r /\ s2 = s
    <3>1. receipt'[r2][s2] = new
      BY <1>1, <2>1 DEF Receipts
    <3> QED
      BY <3>1, <1>2, <2>1
  <2>2. CASE ~(r2 = r /\ s2 = s)
    BY <1>1, <2>2 DEF Receipts
  <2> QED
    BY <2>1, <2>2
<1> QED
  BY <1>4, <1>5

(* The receipt part of a step: who writes which receipt. *)
ReceiptStep ==
    \/ UNCHANGED receipt
    \/ \E r \in Root, s \in Session, o \in Root :
          \/ WriteReceipt(r, s, "diagnostic", o)
          \/ WriteReceipt(r, s, "pending", o)
          \/ s \in chain[r] /\ WriteReceipt(r, s, "recoverable", o)

LEMMA ReceiptSteps ==
    ASSUME TypeOK, EventInv, [Next]_vars
    PROVE  ReceiptStep
<1> USE DEF ReceiptStep
<1>1. ASSUME NEW p \in Proc
      PROVE  /\ proc[p].root \in Root
             /\ proc[p].pc \in Held \ {"lifecycle"} => proc[p].event \in Session
             /\ proc[p].pc = "enqueue" => proc[p].event \in chain[proc[p].root]
  BY DEF TypeOK, EventInv, EventOK
<1>r. "primary" \in Root /\ "fallback" \in Root
  BY DEF Root
<1>2. CASE \E p \in Proc, e \in Lifecycle : LifecycleBegin(p, e)
  BY <1>2 DEF LifecycleBegin
<1>3. ASSUME NEW p \in Proc, NEW s \in Session,
             Deliver(p, s) \/ DeliverRefused(p, s) \/ RecoverOne(p, s) \/ RecoverSkip(p, s)
      PROVE  ReceiptStep
  <2>1. CASE Deliver(p, s) \/ RecoverSkip(p, s)
    BY <2>1 DEF Deliver, RecoverSkip
  <2>2. CASE DeliverRefused(p, s)
    BY <2>2, <1>r DEF DeliverRefused
  <2>3. CASE RecoverOne(p, s)
    BY <2>3, <1>1 DEF RecoverOne
  <2> QED
    BY <1>3, <2>1, <2>2, <2>3
<1>4. CASE \E p \in Proc, r \in Root : Recover(p, r)
  BY <1>4 DEF Recover, ReadReceipts
<1>5. CASE \E r \in Root, s \in Session : Work(r, s)
  BY <1>5 DEF Work
<1>6. ASSUME NEW p \in Proc, AppendFailed(p)
      PROVE  ReceiptStep
  BY <1>6, <1>1, <1>r DEF AppendFailed, At, Held
<1>7. ASSUME NEW p \in Proc, Enqueue(p)
      PROVE  ReceiptStep
  BY <1>7, <1>1, <1>r DEF Enqueue, At, Held
<1>8. ASSUME NEW p \in Proc, EnqueueFailed(p)
      PROVE  ReceiptStep
  BY <1>8, <1>1 DEF EnqueueFailed, At, Held
<1>9. ASSUME NEW p \in Proc, FallbackFailed(p)
      PROVE  ReceiptStep
  BY <1>9, <1>1, <1>r DEF FallbackFailed, At, Held
<1>10. ASSUME NEW p \in Proc,
              \/ LifecycleAppend(p) \/ BoundaryPassed(p) \/ BoundaryDenied(p)
              \/ Pin(p) \/ PinFailed(p) \/ AppendEvent(p) \/ RecoverStop(p) \/ Die(p)
       PROVE  ReceiptStep
  BY <1>10 DEF LifecycleAppend, BoundaryPassed, BoundaryDenied, Pin, PinFailed, AppendEvent,
               RecoverStop, Die
<1>11. CASE UNCHANGED vars
  BY <1>11 DEF vars
<1> QED
  BY <1>2, <1>3, <1>4, <1>5, <1>6, <1>7, <1>8, <1>9, <1>10, <1>11 DEF Next

(* A receipt that says "recoverable" was there before or names an event of *)
(* its root's chain.                                                       *)
LEMMA ReceiptsGrounded ==
    ASSUME TypeOK, EventInv, [Next]_vars
    PROVE  /\ receipt' \in Receipts
           /\ \A r \in Root, s \in Session :
                 receipt'[r][s].kind = "recoverable"
                    => receipt[r][s].kind = "recoverable" \/ s \in chain[r]
<1>1. receipt \in Receipts
  BY DEF TypeOK, Receipts
<1>2. CASE UNCHANGED receipt
  BY <1>1, <1>2
<1>3. ASSUME NEW r \in Root, NEW s \in Session, NEW o \in Root, NEW k \in {"diagnostic", "pending"},
             WriteReceipt(r, s, k, o)
      PROVE  /\ receipt' \in Receipts
             /\ \A r2 \in Root, s2 \in Session :
                   receipt'[r2][s2].kind = "recoverable" => receipt[r2][s2].kind = "recoverable"
  BY <1>1, <1>3, WriteReceiptFacts
<1>4. ASSUME NEW r \in Root, NEW s \in Session, NEW o \in Root,
             s \in chain[r], WriteReceipt(r, s, "recoverable", o)
      PROVE  /\ receipt' \in Receipts
             /\ \A r2 \in Root, s2 \in Session :
                   receipt'[r2][s2].kind = "recoverable"
                      => receipt[r2][s2].kind = "recoverable" \/ s2 \in chain[r2]
  BY <1>1, <1>4, WriteReceiptFacts
<1> QED
  BY <1>2, <1>3, <1>4, ReceiptSteps DEF ReceiptStep

-------------------------------------------------------------------------------
LEMMA ProcTypeStep ==
    ASSUME TypeOK, EventInv, [Next]_vars
    PROVE  proc' \in [Proc -> ProcState]
<1> USE DEF ProcState
<1>1. proc \in [Proc -> ProcState]
  BY DEF TypeOK
<1>2. ASSUME NEW p \in Proc, Stop(p)
      PROVE  proc' \in [Proc -> ProcState]
  BY <1>1, <1>2, OffType DEF Stop
<1>3. ASSUME NEW p \in Proc, NEW l \in Held \cup {"off"}, Goto(p, l)
      PROVE  proc' \in [Proc -> ProcState]
  BY <1>1, <1>3 DEF Goto, Held
<1>4. ASSUME NEW p \in Proc, NEW l \in Held, NEW e \in Session \cup Lifecycle \cup {None},
             NEW r \in Root, NEW f \in BOOLEAN, Enter(p, l, e, r, f)
      PROVE  proc' \in [Proc -> ProcState]
  BY <1>1, <1>4 DEF Enter, Held
<1>5. ASSUME NEW p \in Proc, NEW x, proc' = [proc EXCEPT ![p].todo = @ \ x]
      PROVE  proc' \in [Proc -> ProcState]
  BY <1>1, <1>5
<1>r. Route \in Root /\ "fallback" \in Root
  BY DEF Root, Route
<1>6. CASE \E p \in Proc, e \in Lifecycle : LifecycleBegin(p, e)
  BY <1>6, <1>4, <1>r DEF LifecycleBegin, Held
<1>7. ASSUME NEW p \in Proc, NEW s \in Session,
             Deliver(p, s) \/ DeliverRefused(p, s) \/ RecoverOne(p, s) \/ RecoverSkip(p, s)
      PROVE  proc' \in [Proc -> ProcState]
  <2>1. CASE Deliver(p, s)
    BY <2>1, <1>4, <1>r DEF Deliver, Held
  <2>2. CASE DeliverRefused(p, s)
    BY <2>2, <1>1 DEF DeliverRefused
  <2>3. CASE RecoverOne(p, s)
    BY <2>3, <1>5 DEF RecoverOne
  <2>4. CASE RecoverSkip(p, s)
    BY <2>4, <1>5 DEF RecoverSkip
  <2> QED
    BY <1>7, <2>1, <2>2, <2>3, <2>4
<1>8. ASSUME NEW p \in Proc, NEW r \in Root, Recover(p, r)
      PROVE  proc' \in [Proc -> ProcState]
  <2> DEFINE S == {s \in Session : receipt[r][s].kind # "none"}
             T == {<<s, receipt[r][s]>> : s \in S}
  <2>1. ASSUME NEW s \in S
        PROVE  receipt[r][s] \in Receipt
    BY <2>1 DEF TypeOK, NoReceipt
  <2>2. T \in SUBSET (Session \X Receipt)
    BY <2>1
  <2>3. proc' = [proc EXCEPT ![p] = [pc |-> "recover", event |-> None, root |-> r,
                                     fresh |-> FALSE, todo |-> T]]
    BY <1>8 DEF Recover, ReadReceipts
  <2> HIDE DEF T
  <2> QED
    BY <1>1, <2>2, <2>3
<1>9. CASE \E r \in Root, s \in Session : Work(r, s)
  BY <1>9, <1>1 DEF Work
<1>10. ASSUME NEW p \in Proc,
              \/ LifecycleAppend(p) \/ AppendFailed(p) \/ PinFailed(p) \/ Enqueue(p)
              \/ FallbackFailed(p) \/ RecoverStop(p) \/ Die(p)
       PROVE  proc' \in [Proc -> ProcState]
  BY <1>10, <1>2 DEF LifecycleAppend, AppendFailed, PinFailed, Enqueue, FallbackFailed,
                     RecoverStop, Die
<1>11. ASSUME NEW p \in Proc, BoundaryPassed(p) \/ BoundaryDenied(p) \/ AppendEvent(p)
       PROVE  proc' \in [Proc -> ProcState]
  BY <1>11, <1>3 DEF BoundaryPassed, BoundaryDenied, AppendEvent, Held
<1>12. ASSUME NEW p \in Proc, EnqueueFailed(p)
       PROVE  proc' \in [Proc -> ProcState]
  BY <1>12, <1>2, <1>3 DEF EnqueueFailed, Held
<1>13. ASSUME NEW p \in Proc, Pin(p)
       PROVE  proc' \in [Proc -> ProcState]
  <2>1. proc[p].event \in Session \cup Lifecycle \cup {None}
    BY <1>1
  <2> QED
    BY <1>13, <2>1, <1>4, <1>r DEF Pin, Held
<1>14. CASE UNCHANGED vars
  BY <1>14, <1>1 DEF vars
<1> QED
  BY <1>6, <1>7, <1>8, <1>9, <1>10, <1>11, <1>12, <1>13, <1>14 DEF Next

(* Which actions change which variable. *)
LEMMA Changes ==
    ASSUME [Next]_vars
    PROVE  /\ chain' = chain \/ \E p \in Proc : LifecycleAppend(p) \/ AppendEvent(p)
           /\ job' = job \/ (\E p \in Proc : Enqueue(p))
                \/ (\E p \in Proc, s \in Session : RecoverOne(p, s))
                \/ (\E r \in Root, s \in Session : Work(r, s))
           /\ pinned' = pinned \/ \E p \in Proc : Pin(p)
           /\ sent' = sent \/ \E p \in Proc, e \in Lifecycle : LifecycleBegin(p, e)
BY DEF Next, vars, LifecycleBegin, LifecycleAppend, Deliver, DeliverRefused, BoundaryPassed,
       BoundaryDenied, AppendFailed, Pin, PinFailed, AppendEvent, Enqueue, EnqueueFailed,
       FallbackFailed, Recover, ReadReceipts, RecoverOne, RecoverSkip, RecoverStop, Work, Die

LEMMA TypeStep ==
    ASSUME TypeOK, EventInv, [Next]_vars
    PROVE  TypeOK'
<1>1. ASSUME NEW p \in Proc
      PROVE  /\ proc[p].root \in Root
             /\ proc[p].pc \in Held => proc[p].event \in Session \cup Lifecycle
             /\ proc[p].pc = "enqueue" => proc[p].event \in Session
  BY DEF TypeOK, EventInv, EventOK, Held
<1>2. chain' \in [Root -> SUBSET (Session \cup Lifecycle)]
  <2>1. ASSUME NEW p \in Proc, LifecycleAppend(p)
        PROVE  chain' \in [Root -> SUBSET (Session \cup Lifecycle)]
    <3>1. PICK added \in {{}, {proc[p].event}} :
             chain' = [chain EXCEPT ![proc[p].root] = @ \cup added]
      BY <2>1 DEF LifecycleAppend
    <3>2. added \subseteq Session \cup Lifecycle
      BY <1>1, <2>1 DEF LifecycleAppend, At, Held
    <3> QED
      BY <3>1, <3>2 DEF TypeOK
  <2>2. ASSUME NEW p \in Proc, AppendEvent(p)
        PROVE  chain' \in [Root -> SUBSET (Session \cup Lifecycle)]
    <3>1. proc[p].event \in Session \cup Lifecycle
      BY <1>1, <2>2 DEF AppendEvent, At, Held
    <3> QED
      BY <2>2, <3>1 DEF AppendEvent, TypeOK
  <2>3. CASE chain' = chain
    BY <2>3 DEF TypeOK
  <2> QED
    BY <2>1, <2>2, <2>3, Changes
<1>3. job' \in [Root -> [Session -> {"absent", "open", "done", "dead"}]]
  <2>1. ASSUME NEW r \in Root, NEW s \in Session, job' = Queued(r, s)
        PROVE  job' \in [Root -> [Session -> {"absent", "open", "done", "dead"}]]
    BY <2>1 DEF Queued, TypeOK
  <2>2. CASE \E p \in Proc : Enqueue(p)
    BY <2>2, <2>1, <1>1 DEF Enqueue, At
  <2>3. CASE \E p \in Proc, s \in Session : RecoverOne(p, s)
    BY <2>3, <2>1, <1>1 DEF RecoverOne
  <2>4. CASE \E r \in Root, s \in Session : Work(r, s)
    BY <2>4 DEF Work, TypeOK
  <2>5. CASE job' = job
    BY <2>5 DEF TypeOK
  <2> QED
    BY <2>2, <2>3, <2>4, <2>5, Changes
<1>4. receipt' \in [Root -> [Session -> Receipt \cup {NoReceipt}]]
  BY ReceiptsGrounded DEF Receipts
<1>5. pinned' \in BOOLEAN
  BY Changes DEF TypeOK, Pin
<1>6. sent' \subseteq Lifecycle
  <2>1. ASSUME NEW p \in Proc, NEW e \in Lifecycle, LifecycleBegin(p, e)
        PROVE  sent' \subseteq Lifecycle
    <3>1. sent' = sent \cup {e}
      BY <2>1 DEF LifecycleBegin
    <3> QED
      BY <3>1 DEF TypeOK
  <2> QED
    BY <2>1, Changes DEF TypeOK
<1>7. guard' \in Proc \cup {None}
  BY DEF TypeOK, Next, vars, LifecycleBegin, LifecycleAppend, Deliver, DeliverRefused,
         BoundaryPassed, BoundaryDenied, AppendFailed, Pin, PinFailed, AppendEvent, Enqueue,
         EnqueueFailed, FallbackFailed, Recover, ReadReceipts, RecoverOne, RecoverSkip,
         RecoverStop, Work, Die, Stop
<1>8. proc' \in [Proc -> ProcState]
  BY ProcTypeStep
<1> QED
  BY <1>2, <1>3, <1>4, <1>5, <1>6, <1>7, <1>8 DEF TypeOK, ProcState

-------------------------------------------------------------------------------
(* What the invariant says of one process. *)
ProcOK(p) == (proc[p].pc \in Held => guard = p) /\ RouteOK(p) /\ EventOK(p)

ProcInv == \A p \in Proc : ProcOK(p)

(* A process is not disturbed by a step that does not change it, as long   *)
(* as whoever changes the guard or the route owned the guard (or nobody    *)
(* did) and chains only grow.                                              *)
LEMMA Undisturbed ==
    ASSUME TypeOK, NEW p, NEW q \in Proc, ProcOK(q), proc'[q] = proc[q],
           guard' = guard \/ (q # p /\ guard \in {p, None}),
           pinned' = pinned \/ (q # p /\ guard = p),
           \A r \in Root : chain[r] \subseteq chain'[r]
    PROVE  ProcOK(q)'
<1>1. proc[q].pc \in Held => guard' = q /\ pinned' = pinned
  BY SessionEndAssumption DEF ProcOK
<1>2. proc[q].root \in Root
  BY DEF TypeOK
<1> QED
  BY <1>1, <1>2 DEF ProcOK, RouteOK, EventOK, Held

LEMMA ChainGrows ==
    ASSUME TypeOK, [Next]_vars
    PROVE  \A r \in Root : chain[r] \subseteq chain'[r]
BY Changes DEF TypeOK, LifecycleAppend, AppendEvent

(* The process that leaves. *)
LEMMA Stopped ==
    ASSUME TypeOK, ProcInv, NEW p \in Proc, Stop(p), pinned' = pinned,
           \A r \in Root : chain[r] \subseteq chain'[r]
    PROVE  ProcInv'
<1>1. ProcOK(p)'
  BY DEF ProcOK, RouteOK, EventOK, Stop, Off, Held, TypeOK
<1>2. ASSUME NEW q \in Proc, q # p
      PROVE  ProcOK(q)'
  <2>1. proc'[q] = proc[q] /\ (guard' = guard \/ guard = p)
    BY <1>2 DEF Stop, TypeOK
  <2> QED
    BY <1>2, <2>1, Undisturbed DEF ProcInv
<1> QED
  BY <1>1, <1>2 DEF ProcInv

LEMMA ProcStep ==
    ASSUME TypeOK, ProcInv, [Next]_vars
    PROVE  ProcInv'
<1>g. \A r \in Root : chain[r] \subseteq chain'[r]
  BY ChainGrows
<1>t. ASSUME NEW p \in Proc
      PROVE  ProcOK(p) /\ proc[p] \in ProcState
  BY DEF ProcInv, TypeOK, ProcState
(* It is enough to look at the process that moves. *)
<1>o. ASSUME NEW p \in Proc, NEW y, proc' = [proc EXCEPT ![p] = y],
             guard' = guard \/ guard \in {p, None}, pinned' = pinned \/ guard = p, ProcOK(p)'
      PROVE  ProcInv'
  <2>1. ASSUME NEW q \in Proc, q # p
        PROVE  ProcOK(q)'
    <3>1. proc'[q] = proc[q]
      BY <1>o, <2>1 DEF TypeOK
    <3> QED
      BY <1>g, <1>t, <1>o, <2>1, <3>1, Undisturbed
  <2> QED
    BY <1>o, <2>1 DEF ProcInv
<1>1. ASSUME NEW p \in Proc, NEW e \in Lifecycle, LifecycleBegin(p, e)
      PROVE  ProcInv'
  <2>1. proc'[p] = [pc |-> "lifecycle", event |-> e, root |-> Route, fresh |-> FALSE, todo |-> {}]
    BY <1>1 DEF LifecycleBegin, Enter, TypeOK
  <2>2. ProcOK(p)'
    BY <1>1, <2>1 DEF LifecycleBegin, Route, ProcOK, RouteOK, EventOK, Held
  <2> QED
    BY <1>1, <1>o, <2>2 DEF LifecycleBegin, Enter
<1>2. ASSUME NEW p \in Proc, NEW s \in Session, Deliver(p, s)
      PROVE  ProcInv'
  <2>1. proc'[p] = [pc |-> "boundary", event |-> s, root |-> Route, fresh |-> FALSE, todo |-> {}]
    BY <1>2 DEF Deliver, Enter, TypeOK
  <2>2. ProcOK(p)'
    BY <1>2, <2>1 DEF Deliver, Route, ProcOK, RouteOK, EventOK, Held
  <2> QED
    BY <1>2, <1>o, <2>2 DEF Deliver, Enter
<1>3. ASSUME NEW p \in Proc, BoundaryPassed(p)
      PROVE  ProcInv'
  <2>1. /\ proc' = [proc EXCEPT ![p].pc = "append"] /\ proc[p].pc = "boundary"
        /\ proc'[p].pc = "append" /\ proc'[p].event = proc[p].event
        /\ proc'[p].root = proc[p].root /\ UNCHANGED <<pinned, guard, chain>>
    BY <1>3, <1>t DEF BoundaryPassed, Goto, At, ProcState, TypeOK
  <2>2. ProcOK(p)'
    BY <1>t, <2>1 DEF ProcOK, RouteOK, EventOK, Held
  <2> QED
    BY <1>o, <2>1, <2>2
<1>14. ASSUME NEW p \in Proc, BoundaryDenied(p)
       PROVE  ProcInv'
  <2>1. /\ proc' = [proc EXCEPT ![p].pc = "pin"] /\ proc[p].pc = "boundary"
        /\ proc'[p].pc = "pin" /\ proc'[p].event = proc[p].event
        /\ proc'[p].root = "primary" /\ proc[p].root = "primary"
        /\ UNCHANGED <<pinned, guard, chain>>
    BY <1>14, <1>t DEF BoundaryDenied, Goto, At, ProcState, TypeOK
  <2>2. ProcOK(p)'
    BY <1>t, <2>1 DEF ProcOK, RouteOK, EventOK, Held
  <2> QED
    BY <1>o, <2>1, <2>2
<1>4. ASSUME NEW p \in Proc, Pin(p)
      PROVE  ProcInv'
  <2>1. proc'[p] = [pc |-> "boundary", event |-> proc[p].event, root |-> "fallback",
                    fresh |-> TRUE, todo |-> {}]
    BY <1>4 DEF Pin, Enter, TypeOK
  <2>2. ProcOK(p)' /\ guard = p
    BY <1>t, <1>4, <2>1 DEF Pin, At, ProcOK, RouteOK, EventOK, Held
  <2> QED
    BY <1>4, <1>o, <2>2 DEF Pin, Enter
<1>5. ASSUME NEW p \in Proc, AppendEvent(p)
      PROVE  ProcInv'
  <2>1. /\ proc' = [proc EXCEPT ![p].pc = "enqueue"] /\ proc[p].pc = "append"
        /\ proc'[p].pc = "enqueue" /\ proc'[p].event = proc[p].event
        /\ proc'[p].root = proc[p].root /\ UNCHANGED <<pinned, guard>>
    BY <1>5, <1>t DEF AppendEvent, Goto, At, ProcState, TypeOK
  <2>2. proc[p].event \in chain'[proc[p].root]
    BY <1>5, <1>t DEF AppendEvent, ProcState, TypeOK
  <2>3. ProcOK(p)'
    BY <1>t, <2>1, <2>2 DEF ProcOK, RouteOK, EventOK, Held
  <2> QED
    BY <1>o, <2>1, <2>3
<1>6. ASSUME NEW p \in Proc, EnqueueFailed(p)
      PROVE  ProcInv'
  <2>1. CASE Stop(p)
    BY <1>6, <1>g, <2>1, Stopped DEF EnqueueFailed
  <2>2. CASE Goto(p, "raise") /\ UNCHANGED guard
    <3>1. /\ proc' = [proc EXCEPT ![p].pc = "raise"] /\ proc[p].pc = "enqueue"
          /\ proc'[p].pc = "raise" /\ proc'[p].event = proc[p].event
          /\ proc'[p].root = proc[p].root /\ UNCHANGED <<pinned, guard, chain>>
      BY <1>6, <1>t, <2>2 DEF EnqueueFailed, Goto, At, ProcState, TypeOK
    <3>2. ProcOK(p)'
      BY <1>t, <3>1 DEF ProcOK, RouteOK, EventOK, Held
    <3> QED
      BY <1>o, <3>1, <3>2
  <2> QED
    BY <1>6, <2>1, <2>2 DEF EnqueueFailed
<1>7. ASSUME NEW p \in Proc,
             \/ LifecycleAppend(p) \/ AppendFailed(p) \/ PinFailed(p) \/ Enqueue(p)
             \/ FallbackFailed(p) \/ RecoverStop(p) \/ Die(p)
      PROVE  ProcInv'
  <2>1. Stop(p) /\ pinned' = pinned
    BY <1>7 DEF LifecycleAppend, AppendFailed, PinFailed, Enqueue, FallbackFailed, RecoverStop, Die
  <2> QED
    BY <1>g, <2>1, Stopped
<1>8. ASSUME NEW p \in Proc, NEW r \in Root, Recover(p, r)
      PROVE  ProcInv'
  <2>1. PICK y : /\ proc' = [proc EXCEPT ![p] = y] /\ y.pc = "recover"
                 /\ UNCHANGED <<guard, pinned>>
    BY <1>8 DEF Recover, ReadReceipts
  <2>2. ProcOK(p)'
    BY <2>1 DEF ProcOK, RouteOK, EventOK, Held, TypeOK
  <2> QED
    BY <1>o, <2>1, <2>2
<1>9. ASSUME NEW p \in Proc, NEW s \in Session, RecoverOne(p, s) \/ RecoverSkip(p, s)
      PROVE  ProcInv'
  <2>1. /\ proc[p].pc = "recover" /\ UNCHANGED <<guard, pinned>>
        /\ \E x : proc' = [proc EXCEPT ![p].todo = @ \ x]
    BY <1>9 DEF RecoverOne, RecoverSkip, At
  <2>2. PICK x : proc' = [proc EXCEPT ![p].todo = @ \ x]
    BY <2>1
  <2>3. proc'[p].pc = "recover"
    BY <1>t, <2>1, <2>2 DEF TypeOK, ProcState
  <2>4. ProcOK(p)'
    BY <2>3 DEF ProcOK, RouteOK, EventOK, Held
  <2> QED
    BY <1>o, <2>1, <2>2, <2>4
<1>10. CASE UNCHANGED <<proc, guard, pinned>>
  BY <1>g, <1>t, <1>10, Undisturbed DEF ProcInv
<1>11. ASSUME NEW p \in Proc, NEW s \in Session, DeliverRefused(p, s)
       PROVE  ProcInv'
  BY <1>11, <1>10 DEF DeliverRefused
<1>12. ASSUME NEW r \in Root, NEW s \in Session, Work(r, s)
       PROVE  ProcInv'
  BY <1>12, <1>10 DEF Work
<1>13. CASE UNCHANGED vars
  BY <1>13, <1>10 DEF vars
<1> QED
  BY <1>1, <1>2, <1>3, <1>4, <1>5, <1>6, <1>7, <1>8, <1>9, <1>11, <1>12, <1>13, <1>14 DEF Next

-------------------------------------------------------------------------------
LEMMA RouteFirstStep ==
    ASSUME TypeOK, ProcInv, RouteFirst, [Next]_vars
    PROVE  RouteFirst'
<1>1. pinned => pinned'
  BY Changes DEF Pin
<1>2. ASSUME NEW p \in Proc, LifecycleAppend(p) \/ AppendEvent(p), ~pinned
      PROVE  chain'["fallback"] = chain["fallback"]
  <2>1. proc[p].root # "fallback"
    BY <1>2 DEF ProcInv, ProcOK, RouteOK, LifecycleAppend, AppendEvent, At, Held
  <2> QED
    BY <1>2, <2>1 DEF LifecycleAppend, AppendEvent, TypeOK, Root
<1> QED
  BY <1>1, <1>2, Changes DEF RouteFirst

(* A recovery run that goes on reads nothing more. *)
Reading(p) ==
    /\ proc[p].pc = "recover" /\ proc[p].root = proc'[p].root
    /\ proc'[p].todo \subseteq proc[p].todo

LEMMA ReadsOnce ==
    ASSUME TypeOK, [Next]_vars, NEW p \in Proc, proc'[p].pc = "recover"
    PROVE  (\E r \in Root : Recover(p, r)) \/ Reading(p)
<1> DEFINE Goal == (\E r \in Root : Recover(p, r)) \/ Reading(p)
<1>t. proc \in [Proc -> ProcState] /\ p \in Proc
  BY DEF TypeOK, ProcState
<1>1. CASE proc'[p] = proc[p]
  BY <1>1 DEF Reading
<1>2. ASSUME NEW q \in Proc, Stop(q)
      PROVE  Goal
  BY <1>t, <1>1, <1>2 DEF Stop, Off
<1>3. ASSUME NEW q \in Proc, NEW l, l # "recover", Goto(q, l)
      PROVE  Goal
  BY <1>t, <1>1, <1>3 DEF Goto, ProcState
<1>4. ASSUME NEW q \in Proc, NEW l, l # "recover", NEW e, NEW r, NEW f, Enter(q, l, e, r, f)
      PROVE  Goal
  BY <1>t, <1>1, <1>4 DEF Enter
<1>5. ASSUME NEW q \in Proc, NEW x, At(q, "recover"), proc' = [proc EXCEPT ![q].todo = @ \ x]
      PROVE  Goal
  <2>1. CASE q = p
    BY <1>t, <1>5, <2>1 DEF Reading, At, ProcState
  <2>2. CASE q # p
    BY <1>t, <1>1, <1>5, <2>2
  <2> QED
    BY <2>1, <2>2
<1>6. ASSUME NEW q \in Proc, NEW e \in Lifecycle, LifecycleBegin(q, e)
      PROVE  Goal
  BY <1>4, <1>6 DEF LifecycleBegin
<1>7. ASSUME NEW q \in Proc, NEW s \in Session,
             Deliver(q, s) \/ DeliverRefused(q, s) \/ RecoverOne(q, s) \/ RecoverSkip(q, s)
      PROVE  Goal
  <2>1. CASE Deliver(q, s)
    BY <1>4, <2>1 DEF Deliver
  <2>2. CASE DeliverRefused(q, s)
    BY <1>1, <2>2 DEF DeliverRefused
  <2>3. CASE RecoverOne(q, s)
    BY <1>5, <2>3 DEF RecoverOne
  <2>4. CASE RecoverSkip(q, s)
    BY <1>5, <2>4 DEF RecoverSkip
  <2> QED
    BY <1>7, <2>1, <2>2, <2>3, <2>4
<1>8. ASSUME NEW q \in Proc, NEW r \in Root, Recover(q, r)
      PROVE  Goal
  <2>1. CASE q # p
    BY <1>t, <1>1, <1>8, <2>1 DEF Recover, ReadReceipts
  <2> QED
    BY <1>8, <2>1
<1>9. CASE \E r \in Root, s \in Session : Work(r, s)
  BY <1>1, <1>9 DEF Work
<1>10. ASSUME NEW q \in Proc,
              \/ LifecycleAppend(q) \/ AppendFailed(q) \/ PinFailed(q) \/ Enqueue(q)
              \/ FallbackFailed(q) \/ RecoverStop(q) \/ Die(q)
       PROVE  Goal
  BY <1>10, <1>2 DEF LifecycleAppend, AppendFailed, PinFailed, Enqueue, FallbackFailed,
                     RecoverStop, Die
<1>11. ASSUME NEW q \in Proc, BoundaryPassed(q) \/ BoundaryDenied(q) \/ AppendEvent(q)
       PROVE  Goal
  BY <1>11, <1>3 DEF BoundaryPassed, BoundaryDenied, AppendEvent
<1>12. ASSUME NEW q \in Proc, EnqueueFailed(q) \/ Pin(q)
       PROVE  Goal
  BY <1>12, <1>2, <1>3, <1>4 DEF EnqueueFailed, Pin
<1>13. CASE UNCHANGED vars
  BY <1>1, <1>13 DEF vars
<1> QED
  BY <1>6, <1>7, <1>8, <1>9, <1>10, <1>11, <1>12, <1>13 DEF Next

LEMMA GroundedStep ==
    ASSUME TypeOK, ProcInv, RecoveryGrounded, [Next]_vars
    PROVE  RecoveryGrounded'
<1>g. \A r \in Root : chain[r] \subseteq chain'[r]
  BY ChainGrows
<1>e. EventInv
  BY DEF ProcInv, ProcOK, EventInv
<1>1. ASSUME NEW r \in Root, NEW s \in Session, job'[r][s] # "absent"
      PROVE  s \in chain'[r]
  <2>1. CASE job[r][s] # "absent"
    BY <1>g, <2>1 DEF RecoveryGrounded
  <2>2. ASSUME NEW r2 \in Root, NEW s2 \in Session, s2 \in chain[r2], job' = Queued(r2, s2)
        PROVE  job[r][s] # "absent" \/ s \in chain[r]
    BY <1>1, <2>2 DEF Queued, TypeOK
  <2>3. ASSUME NEW p \in Proc, Enqueue(p)
        PROVE  s \in chain'[r]
    <3>1. proc[p].root \in Root /\ proc[p].event \in Session /\ proc[p].event \in chain[proc[p].root]
      BY <1>e, <2>3 DEF TypeOK, EventInv, EventOK, Enqueue, At, Held
    <3> QED
      BY <1>g, <2>1, <2>2, <2>3, <3>1 DEF Enqueue
  <2>4. ASSUME NEW p \in Proc, NEW s2 \in Session, RecoverOne(p, s2)
        PROVE  s \in chain'[r]
    <3>1. proc[p].root \in Root
      BY DEF TypeOK
    <3> QED
      BY <1>g, <2>1, <2>2, <2>4, <3>1 DEF RecoverOne
  <2>5. ASSUME NEW r2 \in Root, NEW s2 \in Session, Work(r2, s2)
        PROVE  job[r][s] # "absent"
    BY <1>1, <2>5 DEF Work, TypeOK
  <2> QED
    BY <1>1, <2>1, <2>3, <2>4, <2>5, Changes
<1>2. ASSUME NEW r \in Root, NEW s \in Session, receipt'[r][s].kind = "recoverable"
      PROVE  s \in chain'[r]
  BY <1>e, <1>g, <1>2, ReceiptsGrounded DEF RecoveryGrounded
(* A recovery run holds what it read; it only reads when it starts. *)
<1>3. ASSUME NEW r \in Root, NEW s \in Session, NEW p \in Proc,
             proc'[p].pc = "recover", proc'[p].root = r,
             <<s, [kind |-> "recoverable", origin |-> r]>> \in proc'[p].todo
      PROVE  s \in chain'[r]
  <2> DEFINE rec == [kind |-> "recoverable", origin |-> r]
  <2>1. CASE proc[p].pc = "recover" /\ proc[p].root = r /\ <<s, rec>> \in proc[p].todo
    BY <1>g, <2>1 DEF RecoveryGrounded, At
  <2>2. CASE Recover(p, r)
    <3>1. proc'[p].todo = {<<s2, receipt[r][s2]>> : s2 \in {t \in Session : receipt[r][t].kind # "none"}}
      BY <2>2 DEF Recover, ReadReceipts, TypeOK
    <3>2. PICK t \in Session : <<s, rec>> = <<t, receipt[r][t]>>
      BY <1>3, <3>1
    <3>3. receipt[r][s].kind = "recoverable"
      BY <3>2
    <3> QED
      BY <1>g, <3>3 DEF RecoveryGrounded
  <2>3. (\E r2 \in Root : Recover(p, r2)) \/ Reading(p)
    BY <1>3, ReadsOnce
  <2>4. CASE Reading(p)
    BY <1>3, <2>1, <2>4 DEF Reading
  <2>5. ASSUME NEW r2 \in Root, Recover(p, r2)
        PROVE  r2 = r
    BY <1>3, <2>5 DEF Recover, ReadReceipts, TypeOK
  <2> QED
    BY <2>2, <2>3, <2>4, <2>5
<1> QED
  BY <1>1, <1>2, <1>3 DEF RecoveryGrounded, At

-------------------------------------------------------------------------------
LEMMA InitInv == Init => IInv
<1> SUFFICES ASSUME Init PROVE IInv
  OBVIOUS
<1>1. TypeOK
  BY OffType DEF Init, TypeOK, ProcState
<1>2. GuardInv /\ RouteInv /\ EventInv
  BY DEF Init, Off, Held, GuardInv, RouteInv, RouteOK, EventInv, EventOK
<1>3. RouteFirst /\ RecoveryGrounded
  BY DEF Init, RouteFirst, RecoveryGrounded, At, Off, NoReceipt, Root
<1> QED
  BY <1>1, <1>2, <1>3 DEF IInv

LEMMA NextInv == IInv /\ [Next]_vars => IInv'
<1> SUFFICES ASSUME IInv, [Next]_vars PROVE IInv'
  OBVIOUS
<1>1. ProcInv
  BY DEF IInv, ProcInv, ProcOK, GuardInv, RouteInv, EventInv
<1>2. ProcInv'
  BY <1>1, ProcStep DEF IInv
<1>3. GuardInv' /\ RouteInv' /\ EventInv'
  BY <1>2 DEF ProcInv, ProcOK, GuardInv, RouteInv, EventInv
<1>4. TypeOK' /\ RouteFirst' /\ RecoveryGrounded'
  BY <1>1, TypeStep, RouteFirstStep, GroundedStep DEF IInv
<1> QED
  BY <1>3, <1>4 DEF IInv

THEOREM Inductive == Spec => []IInv
BY InitInv, NextInv, PTL DEF Spec

(* Every variable keeps its type, and a recovery run only holds receipts   *)
(* that exist.                                                             *)
THEOREM TypeCorrect == Spec => []TypeOK
<1>1. IInv => TypeOK
  BY DEF IInv
<1> QED
  BY <1>1, Inductive, PTL

(* A project's fallback chain is only ever written once its route is.      *)
THEOREM RouteAlwaysFirst == Spec => []RouteFirst
<1>1. IInv => RouteFirst
  BY DEF IInv
<1> QED
  BY <1>1, Inductive, PTL

(* Recovery only ever queues events of the root's own chain.               *)
THEOREM RecoveryAlwaysGrounded == Spec => []RecoveryGrounded
<1>1. IInv => RecoveryGrounded
  BY DEF IInv
<1> QED
  BY <1>1, Inductive, PTL

(* Whoever appends to the primary chain saw no route, and there is none. *)
LEMMA Frozen ==
    ASSUME IInv, [Next]_vars, pinned
    PROVE  chain'["primary"] = chain["primary"]
<1>1. ASSUME NEW p \in Proc, LifecycleAppend(p) \/ AppendEvent(p)
      PROVE  chain'["primary"] = chain["primary"]
  <2>1. proc[p].root # "primary"
    BY <1>1 DEF IInv, RouteInv, RouteOK, LifecycleAppend, AppendEvent, At
  <2> QED
    BY <1>1, <2>1 DEF LifecycleAppend, AppendEvent, IInv, TypeOK, Root
<1> QED
  BY <1>1, Changes

(* Once a project is pinned nobody appends to its primary chain, whoever   *)
(* was on the way there.                                                   *)
THEOREM PrimaryStaysFrozen == Spec => PrimaryFrozen
<1>1. IInv /\ [Next]_vars => [pinned => chain'["primary"] = chain["primary"]]_vars
  BY Frozen
<1> QED
  BY <1>1, Inductive, PTL DEF Spec, PrimaryFrozen

(* The histories of a project's two roots never alternate: with an event   *)
(* in the fallback chain the primary one is over, because the route it     *)
(* went by is durable.                                                     *)
THEOREM HistoriesStayApart == Spec => HistoriesApart
<1>1. IInv /\ [Next]_vars =>
         [chain["fallback"] # {} => chain'["primary"] = chain["primary"]]_vars
  BY Frozen DEF IInv, RouteFirst
<1> QED
  BY <1>1, Inductive, PTL DEF Spec, HistoriesApart

-------------------------------------------------------------------------------
(* The queues as boards.                                                   *)

(* Queueing an event posts its job, if it was not posted. *)
LEMMA Queueing ==
    ASSUME TypeOK, NEW q \in Root, NEW s \in Session, job' = Queued(q, s), NEW r \in Root
    PROVE  \/ job'[r] = job[r]
           \/ job[r][s] = "absent" /\ job'[r] = [job[r] EXCEPT ![s] = "open"]
<1>1. job \in [Root -> [Session -> {"absent", "open", "done", "dead"}]]
      /\ job[r] \in [Session -> {"absent", "open", "done", "dead"}]
  BY DEF TypeOK
<1>2. CASE r # q
  BY <1>1, <1>2 DEF Queued
<1>3. CASE r = q /\ job[r][s] = "absent"
  BY <1>1, <1>3 DEF Queued
<1>4. CASE r = q /\ job[r][s] # "absent"
  <2>1. job'[r] = [job[r] EXCEPT ![s] = job[r][s]]
    BY <1>1, <1>4 DEF Queued
  <2> QED BY <1>1, <2>1
<1> QED BY <1>2, <1>3, <1>4

(* What a step does to the queue and the chain of one root. *)
LEMMA BoardSteps ==
    ASSUME IInv, [Next]_vars, NEW r \in Root
    PROVE  \/ job'[r] = job[r] /\ chain[r] \subseteq chain'[r]
           \/ /\ chain' = chain
              /\ \E s \in Session :
                    \/ job[r][s] = "absent" /\ job'[r] = [job[r] EXCEPT ![s] = "open"]
                    \/ /\ job[r][s] = "open" /\ s \in chain[r]
                       /\ job'[r] = [job[r] EXCEPT ![s] = "done"]
                    \/ job[r][s] = "open" /\ job'[r] = [job[r] EXCEPT ![s] = "dead"]
<1>1. job \in [Root -> [Session -> {"absent", "open", "done", "dead"}]]
      /\ job[r] \in [Session -> {"absent", "open", "done", "dead"}]
  BY DEF IInv, TypeOK
<1>2. chain[r] \subseteq chain'[r]
  BY ChainGrows DEF IInv
<1>3. ASSUME NEW p \in Proc, Enqueue(p)
      PROVE  /\ chain' = chain
             /\ \E s \in Session : \/ job'[r] = job[r]
                                   \/ job[r][s] = "absent" /\ job'[r] = [job[r] EXCEPT ![s] = "open"]
  <2>1. proc[p].root \in Root /\ proc[p].event \in Session
    BY <1>3 DEF IInv, TypeOK, EventInv, EventOK, Enqueue, At, Held
  <2>2. job' = Queued(proc[p].root, proc[p].event) /\ chain' = chain
    BY <1>3 DEF Enqueue
  <2> QED BY <2>1, <2>2, Queueing DEF IInv
<1>4. ASSUME NEW p \in Proc, NEW s \in Session, RecoverOne(p, s)
      PROVE  /\ chain' = chain
             /\ \/ job'[r] = job[r]
                \/ job[r][s] = "absent" /\ job'[r] = [job[r] EXCEPT ![s] = "open"]
  <2>1. proc[p].root \in Root
    BY DEF IInv, TypeOK
  <2>2. job' = Queued(proc[p].root, s) /\ chain' = chain
    BY <1>4 DEF RecoverOne
  <2> QED BY <2>1, <2>2, Queueing DEF IInv
<1>5. ASSUME NEW q \in Root, NEW s \in Session, Work(q, s)
      PROVE  /\ chain' = chain
             /\ \/ job'[r] = job[r]
                \/ job[r][s] = "open" /\ s \in chain[r] /\ job'[r] = [job[r] EXCEPT ![s] = "done"]
                \/ job[r][s] = "open" /\ job'[r] = [job[r] EXCEPT ![s] = "dead"]
  <2>1. PICK l \in {"open", "done", "dead"} : job' = [job EXCEPT ![q][s] = l]
    BY <1>5 DEF Work
  <2>2. chain' = chain /\ job[q][s] = "open"
    BY <1>5 DEF Work
  <2>3. CASE r # q
    BY <1>1, <2>1, <2>2, <2>3
  <2>4. CASE r = q
    <3>1. job'[r] = [job[r] EXCEPT ![s] = l]
      BY <1>1, <2>1, <2>4
    <3>2. s \in chain[r]
      BY <2>2, <2>4 DEF IInv, RecoveryGrounded
    <3>3. l = "open" => job'[r] = job[r]
      BY <1>1, <2>2, <2>4, <3>1
    <3> QED BY <2>2, <2>4, <3>1, <3>2, <3>3
  <2> QED BY <2>3, <2>4
<1> QED BY <1>2, <1>3, <1>4, <1>5, Changes

(* Deliveries, recoveries and workers use the queue of each root as        *)
(* JobBoard allows, of which SealQueue is the implementation.              *)
THEOREM QueuesAreJobBoards == Spec => ImplementsJobBoards
<1>1. Init => PrimaryBoard!Init /\ FallbackBoard!Init
  BY DEF Init, PrimaryBoard!Init, FallbackBoard!Init, Root
<1>2. IInv /\ [Next]_vars => [PrimaryBoard!Next]_PrimaryBoard!vars
  <2> SUFFICES ASSUME IInv, [Next]_vars PROVE [PrimaryBoard!Next]_PrimaryBoard!vars
    OBVIOUS
  <2> DEFINE r == "primary"
  <2>1. r \in Root
    BY DEF Root
  <2>2. CASE job'[r] = job[r] /\ chain[r] \subseteq chain'[r]
    <3>1. PrimaryBoard!Seal(Session \cap chain'[r])
      BY <2>2 DEF PrimaryBoard!Seal
    <3> QED BY <3>1 DEF PrimaryBoard!Next
  <2>3. ASSUME chain' = chain, NEW s \in Session,
               \/ job[r][s] = "absent" /\ job'[r] = [job[r] EXCEPT ![s] = "open"]
               \/ job[r][s] = "open" /\ s \in chain[r] /\ job'[r] = [job[r] EXCEPT ![s] = "done"]
               \/ job[r][s] = "open" /\ job'[r] = [job[r] EXCEPT ![s] = "dead"]
        PROVE  PrimaryBoard!Next
    BY <2>3 DEF PrimaryBoard!Next, PrimaryBoard!Post, PrimaryBoard!Complete, PrimaryBoard!Bury
  <2> QED BY <2>1, <2>2, <2>3, BoardSteps
<1>3. IInv /\ [Next]_vars => [FallbackBoard!Next]_FallbackBoard!vars
  <2> SUFFICES ASSUME IInv, [Next]_vars PROVE [FallbackBoard!Next]_FallbackBoard!vars
    OBVIOUS
  <2> DEFINE r == "fallback"
  <2>1. r \in Root
    BY DEF Root
  <2>2. CASE job'[r] = job[r] /\ chain[r] \subseteq chain'[r]
    <3>1. FallbackBoard!Seal(Session \cap chain'[r])
      BY <2>2 DEF FallbackBoard!Seal
    <3> QED BY <3>1 DEF FallbackBoard!Next
  <2>3. ASSUME chain' = chain, NEW s \in Session,
               \/ job[r][s] = "absent" /\ job'[r] = [job[r] EXCEPT ![s] = "open"]
               \/ job[r][s] = "open" /\ s \in chain[r] /\ job'[r] = [job[r] EXCEPT ![s] = "done"]
               \/ job[r][s] = "open" /\ job'[r] = [job[r] EXCEPT ![s] = "dead"]
        PROVE  FallbackBoard!Next
    BY <2>3 DEF FallbackBoard!Next, FallbackBoard!Post, FallbackBoard!Complete, FallbackBoard!Bury
  <2> QED BY <2>1, <2>2, <2>3, BoardSteps
<1> QED
  BY <1>1, <1>2, <1>3, Inductive, PTL DEF Spec, ImplementsJobBoards, PrimaryBoard!Spec, FallbackBoard!Spec
===============================================================================
