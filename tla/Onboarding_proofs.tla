-------------------------- MODULE Onboarding_proofs ---------------------------
(***************************************************************************)
(* Proofs about Onboarding, for any number of processes and any bounds on  *)
(* revisions: its safety properties, and that it implements ConsentedScan. *)
(***************************************************************************)
EXTENDS Onboarding, TLAPS

Inside == {"queue", "claim", "checkpoint", "finish"}

(* A process between its two locks, or between writing an answer and       *)
(* cancelling the scan, owns the offer's lock.                             *)
LockInv == \A p \in Proc : proc[p].pc \in Inside \cup {"declining"} => lock = p

(* What such a process read of the offer still stands, but for its expiry. *)
SeenInv ==
    \A p \in Proc : proc[p].pc \in Inside =>
        proc[p].seen.state = offer.state /\ proc[p].seen.revision = offer.revision

(* A job serves an acceptance there has been; revisions count from the     *)
(* making of the offer.                                                    *)
JobInv ==
    /\ scan.offer <= offer.revision
    /\ offer.state = "UNSEEN" => offer.revision = 0

(* Claims are counted, and a lease's generation is the number of claims.   *)
AttemptInv == scan.state = "RUNNING" => scan.lease.generation = scan.attempts

(* Lease tokens are drawn once, and each is in one worker's ticket at most. *)
TokenInv ==
    /\ scan.lease.token <= issued
    /\ scan.state = "RUNNING" => scan.lease.token # 0
    /\ \A p \in Proc : proc[p].ticket.token <= issued
    /\ \A p, q \in Proc : p # q /\ proc[p].ticket.token = proc[q].ticket.token
                              => proc[p].ticket.token = 0

Holds(p) == proc[p].ticket.token # 0 /\ proc[p].ticket.token = scan.lease.token

(* Cursors name index revisions; that of the worker whose ticket is the    *)
(* lease's is not behind the one the job has recorded.                     *)
CursorInv ==
    /\ scan.cursor <= index
    /\ \A p \in Proc : proc[p].cursor <= index
    /\ \A p \in Proc : Holds(p) /\ proc[p].cursor # 0 => scan.cursor <= proc[p].cursor

IInv == TypeOK /\ LockInv /\ SeenInv /\ JobInv /\ AttemptInv /\ TokenInv /\ CursorInv

-------------------------------------------------------------------------------
ProcState == [pc : {"idle", "declining", "queue", "claim", "held", "scan",
                    "checkpoint", "finish"},
              seen : OfferRecord, ticket : Ticket,
              base : 0 .. MaxIndex, cursor : 0 .. MaxIndex]

LEMMA FreshType == Fresh \in ProcState /\ NoScan \in ScanRecord /\ NoOffer \in OfferRecord
                   /\ NoLease \in LeaseRecord
BY OnboardingAssumption
DEF Fresh, ProcState, NoOffer, NoTicket, NoScan, NoLease, OfferRecord, ScanRecord, LeaseRecord,
    Ticket, MaxAttempts

LEMMA FreshFields ==
    Fresh.pc = "idle" /\ Fresh.ticket = NoTicket /\ Fresh.cursor = 0 /\ NoTicket.token = 0
BY DEF Fresh, NoTicket

LEMMA Types ==
    ASSUME TypeOK
    PROVE  /\ proc \in [Proc -> ProcState] /\ offer \in OfferRecord /\ scan \in ScanRecord
           /\ index \in 0 .. MaxIndex /\ index \in Nat
           /\ issued \in Nat /\ lock \in Proc \cup {None}
BY OnboardingAssumption DEF TypeOK, ProcState

LEMMA InitInv == Init => IInv
<1> SUFFICES ASSUME Init PROVE IInv
  OBVIOUS
<1>1. TypeOK
  BY FreshType, OnboardingAssumption DEF Init, TypeOK, ProcState
<1>2. \A p \in Proc : proc[p] = Fresh
  BY DEF Init
<1>3. LockInv /\ SeenInv
  BY <1>2 DEF LockInv, SeenInv, Inside, Fresh
<1>4. JobInv /\ AttemptInv /\ TokenInv /\ CursorInv
  <2>1. /\ offer.state = "UNSEEN" /\ offer.revision = 0
        /\ scan.state = "NONE" /\ scan.offer = 0 /\ scan.cursor = 0 /\ scan.lease.token = 0
        /\ index = 0 /\ issued = 0
    BY DEF Init, NoOffer, NoScan, NoLease
  <2>2. \A p \in Proc : proc[p].ticket.token = 0 /\ proc[p].cursor = 0
    BY <1>2, FreshFields
  <2> QED
    BY <2>1, <2>2 DEF JobInv, AttemptInv, TokenInv, CursorInv, Holds
<1> QED
  BY <1>1, <1>3, <1>4 DEF IInv

(* A step of process p that leaves the records, the index and its ticket   *)
(* alone, as entering and leaving a command do.                            *)
LEMMA MovesInv ==
    ASSUME IInv, NEW p \in Proc,
           UNCHANGED <<offer, scan, index, issued>>,
           NEW s \in ProcState, proc' = [proc EXCEPT ![p] = s],
           s.ticket = proc[p].ticket,
           s.cursor = proc[p].cursor,
           lock' = lock \/ (lock = None /\ lock' = p) \/ (lock = p /\ lock' = None),
           s.pc \in Inside \cup {"declining"} => lock' = p,
           s.pc \in Inside => s.seen.state = offer.state /\ s.seen.revision = offer.revision
    PROVE  IInv'
<1> USE DEF IInv
<1>1. /\ proc \in [Proc -> ProcState] /\ lock \in Proc \cup {None}
      /\ proc' \in [Proc -> ProcState]
  BY Types
<1>2. /\ \A q \in Proc : q # p => proc'[q] = proc[q]
      /\ proc'[p] = s
  BY <1>1
<1>3. TypeOK'
  BY <1>1, Types DEF TypeOK, ProcState
<1>4. LockInv'
  BY <1>2, OnboardingAssumption DEF LockInv
<1>5. SeenInv' /\ JobInv' /\ AttemptInv'
  BY <1>2 DEF SeenInv, JobInv, AttemptInv
<1>6. \A q \in Proc : proc'[q].ticket = proc[q].ticket /\ proc'[q].cursor = proc[q].cursor
  BY <1>2
<1>7. TokenInv' /\ CursorInv'
  BY <1>6 DEF TokenInv, CursorInv, Holds
<1> QED
  BY <1>3, <1>4, <1>5, <1>7

(* A step on the offer's record alone. *)
LEMMA OfferInv ==
    ASSUME IInv, UNCHANGED <<scan, index, lock, issued, proc>>,
           offer' \in OfferRecord,
           offer'.revision >= offer.revision,
           offer'.state = "UNSEEN" => offer'.revision = 0,
           (offer'.state = offer.state /\ offer'.revision = offer.revision) \/ lock = None
    PROVE  IInv'
<1> USE DEF IInv
<1>1. TypeOK' /\ AttemptInv' /\ TokenInv' /\ CursorInv'
  BY DEF TypeOK, AttemptInv, TokenInv, CursorInv, Holds
<1>2. LockInv'
  BY DEF LockInv
<1>3. SeenInv'
  BY OnboardingAssumption DEF LockInv, SeenInv
<1>4. JobInv'
  BY Types DEF JobInv, OfferRecord, ScanRecord
<1> QED
  BY <1>1, <1>2, <1>3, <1>4

(* A step on the scan record: by a command p, which it ends, or by none.   *)
LEMMA ScanInv ==
    ASSUME IInv, NEW p,
           p \in Proc \/ (UNCHANGED <<proc, lock>> /\ scan'.cursor \in {0, scan.cursor}),
           UNCHANGED <<offer, index, issued>>,
           NEW l \in {"idle", "held"},
           proc' = proc \/ proc' = [proc EXCEPT ![p].pc = l],
           lock' = lock \/ (lock = p /\ lock' = None /\ proc' = [proc EXCEPT ![p].pc = l]),
           scan' \in ScanRecord,
           scan'.offer <= offer.revision,
           scan'.lease.token \in {0, scan.lease.token},
           scan'.state = "RUNNING" => /\ scan.state = "RUNNING"
                                      /\ scan'.lease.token = scan.lease.token
                                      /\ scan'.lease.generation = scan.lease.generation
                                      /\ scan'.attempts = scan.attempts,
           \/ scan'.cursor = scan.cursor
           \/ scan'.cursor = 0
           \/ scan'.cursor = proc[p].cursor /\ Holds(p)
    PROVE  IInv'
<1> USE DEF IInv
<1>1. /\ proc \in [Proc -> ProcState] /\ scan \in ScanRecord /\ lock \in Proc \cup {None}
      /\ proc' \in [Proc -> ProcState]
  BY Types DEF ProcState
<1>2. \A q \in Proc : /\ proc'[q].seen = proc[q].seen /\ proc'[q].ticket = proc[q].ticket
                      /\ proc'[q].cursor = proc[q].cursor
                      /\ proc'[q].pc = proc[q].pc \/ proc'[q].pc = l
                      /\ q # p => proc'[q].pc = proc[q].pc
  BY <1>1 DEF ProcState
<1>3. proc' # proc => proc'[p].pc = l
  BY <1>1 DEF ProcState
<1>4. TypeOK'
  BY <1>1, Types DEF TypeOK, ProcState
<1>5. LockInv'
  <2> SUFFICES ASSUME NEW q \in Proc, proc'[q].pc \in Inside \cup {"declining"}
               PROVE  lock' = q
    BY DEF LockInv
  <2>1. proc[q].pc = proc'[q].pc /\ lock = q
    BY <1>2 DEF LockInv, Inside
  <2>2. CASE lock' = lock
    BY <2>1, <2>2
  <2>3. CASE lock = p /\ lock' = None /\ proc' = [proc EXCEPT ![p].pc = l]
    <3>1. proc'[p].pc = l
      BY <1>1, <2>3 DEF ProcState
    <3> QED
      BY <2>1, <2>3, <3>1 DEF Inside
  <2> QED
    BY <2>2, <2>3
<1>6. SeenInv'
  BY <1>2 DEF SeenInv, Inside
<1>7. JobInv' /\ AttemptInv'
  BY DEF JobInv, AttemptInv
<1>8. TokenInv'
  BY <1>2, Types DEF TokenInv
<1>9. scan'.cursor <= index
  <2>1. scan.cursor <= index /\ (p \in Proc => proc[p].cursor <= index) /\ 0 <= index
    BY Types DEF CursorInv
  <2> QED
    BY <2>1
<1>10. \A q \in Proc : Holds(q)' /\ proc'[q].cursor # 0 => scan'.cursor <= proc'[q].cursor
  <2> SUFFICES ASSUME NEW q \in Proc, Holds(q)', proc'[q].cursor # 0
               PROVE  scan'.cursor <= proc'[q].cursor
    OBVIOUS
  <2>1. /\ proc'[q].ticket.token = proc[q].ticket.token /\ proc'[q].cursor = proc[q].cursor
        /\ proc[q].cursor \in Nat
    BY <1>1, <1>2, OnboardingAssumption DEF ProcState
  <2>2. Holds(q) /\ scan.cursor <= proc[q].cursor
    BY <2>1 DEF CursorInv, Holds
  <2>3. CASE scan'.cursor = proc[p].cursor /\ Holds(p)
    BY <2>1, <2>2, <2>3 DEF TokenInv, Holds
  <2> QED
    BY <2>1, <2>2, <2>3
<1>11. CursorInv'
  <2>1. scan'.cursor <= index' /\ \A q \in Proc : proc'[q].cursor <= index'
    BY <1>2, <1>9 DEF CursorInv
  <2> QED
    BY <1>10, <2>1 DEF CursorInv
<1> QED
  BY <1>4, <1>5, <1>6, <1>7, <1>8, <1>11

-------------------------------------------------------------------------------
(* Each command, and each event outside the commands, keeps the invariant. *)

LEMMA AnsweredType ==
    ASSUME offer \in OfferRecord, offer.revision < MaxRevision,
           NEW c \in {"ACCEPTED", "DECLINED"}, offer' = Answered(c)
    PROVE  /\ offer' \in OfferRecord /\ offer'.state = c
           /\ offer'.revision = offer.revision + 1 /\ offer'.revision >= offer.revision
<1> DEFINE r == offer.revision + 1
<1>1. r \in 0 .. MaxRevision /\ r >= offer.revision
  BY OnboardingAssumption DEF OfferRecord
<1>2. offer' = [offer EXCEPT !.state = c, !.revision = r]
  BY DEF Answered
<1> HIDE DEF r
<1>3. offer' \in OfferRecord /\ offer'.revision = r /\ offer'.state = c
  BY <1>1, <1>2 DEF OfferRecord
<1> QED
  BY <1>1, <1>3 DEF r

LEMMA OfferStep ==
    ASSUME IInv, CreateOffer \/ ExpireOffer
    PROVE  IInv'
<1>t. offer \in OfferRecord
  BY Types DEF IInv
<1>1. CASE CreateOffer
  <2>1. NoOffer \in OfferRecord /\ NoOffer.revision = 0
    BY FreshType DEF NoOffer
  <2>2. /\ offer' \in OfferRecord /\ offer'.revision = 0 /\ offer'.state = "OFFERED"
        /\ UNCHANGED <<scan, index, lock, issued, proc>> /\ lock = None
    BY <1>1, <2>1 DEF CreateOffer, OfferRecord
  <2>3. offer'.revision >= offer.revision
    BY <1>1, <2>2 DEF CreateOffer, IInv, JobInv
  <2> QED
    BY <2>2, <2>3, OfferInv
<1>2. CASE ExpireOffer
  <2>1. /\ offer' \in OfferRecord /\ offer'.revision = offer.revision
        /\ offer'.state = offer.state /\ UNCHANGED <<scan, index, lock, issued, proc>>
    BY <1>2, <1>t DEF ExpireOffer, OfferRecord
  <2>2. offer'.revision >= offer.revision /\ (offer'.state = "UNSEEN" => offer'.revision = 0)
    BY <1>t, <2>1, OnboardingAssumption DEF OfferRecord, IInv, JobInv
  <2> QED
    BY <2>1, <2>2, OfferInv
<1> QED
  BY <1>1, <1>2

LEMMA RenewedState ==
    ASSUME offer \in OfferRecord, NEW p, RenewOffer(p)
    PROVE  offer.state = "OFFERED" /\ offer'.state = "OFFERED"
<1> DEFINE r == offer.revision + 1
           n == offer.nonce + 1
<1>1. /\ offer' = [offer EXCEPT !.revision = r, !.nonce = n, !.expired = FALSE]
      /\ offer.state = "OFFERED"
  BY DEF RenewOffer
<1> HIDE DEF r, n
<1> QED
  BY <1>1 DEF OfferRecord

LEMMA AnswerStep ==
    ASSUME IInv, NEW p \in Proc, RenewOffer(p) \/ Accept(p)
    PROVE  IInv'
<1>t. offer \in OfferRecord
  BY Types DEF IInv
<1>1. CASE RenewOffer(p)
  <2> DEFINE r == offer.revision + 1
             n == offer.nonce + 1
  <2>1. r \in 0 .. MaxRevision /\ r >= offer.revision /\ n \in Nat
    BY <1>1, <1>t, OnboardingAssumption DEF RenewOffer, OfferRecord
  <2>2. /\ offer' = [offer EXCEPT !.revision = r, !.nonce = n, !.expired = FALSE]
        /\ offer.state = "OFFERED" /\ lock = None
        /\ UNCHANGED <<scan, index, lock, issued, proc>>
    BY <1>1 DEF RenewOffer
  <2> HIDE DEF r, n
  <2>3. offer' \in OfferRecord /\ offer'.revision >= offer.revision /\ offer'.state = "OFFERED"
    BY <1>t, <2>1, <2>2 DEF OfferRecord
  <2> QED
    BY <2>2, <2>3, OfferInv
<1>2. CASE Accept(p)
  <2>1. /\ offer' = Answered("ACCEPTED") /\ offer.revision < MaxRevision /\ lock = None
        /\ UNCHANGED <<scan, index, lock, issued, proc>>
    BY <1>2 DEF Accept
  <2> QED
    BY <1>t, <2>1, AnsweredType, OfferInv
<1> QED
  BY <1>1, <1>2

LEMMA DeclineStep ==
    ASSUME IInv, NEW p \in Proc, Decline(p)
    PROVE  IInv'
<1> USE DEF IInv
<1>1. /\ proc \in [Proc -> ProcState] /\ offer \in OfferRecord /\ scan \in ScanRecord
      /\ lock = None /\ lock' = p
      /\ proc' = [proc EXCEPT ![p].pc = "declining"]
      /\ UNCHANGED <<scan, index, issued>>
  BY Types DEF Decline, Goto
<1>2. offer' \in OfferRecord /\ offer'.revision >= offer.revision /\ offer'.state = "DECLINED"
  BY <1>1, AnsweredType DEF Decline
<1>3. /\ \A q \in Proc : proc'[q].ticket = proc[q].ticket /\ proc'[q].cursor = proc[q].cursor
      /\ proc'[p].pc = "declining"
      /\ \A q \in Proc : q # p => proc'[q] = proc[q]
      /\ proc' \in [Proc -> ProcState]
  BY <1>1 DEF ProcState
<1>4. TypeOK'
  BY <1>1, <1>2, <1>3, Types DEF TypeOK, ProcState
<1>5. \A q \in Proc : proc[q].pc \notin Inside \cup {"declining"}
  BY <1>1, OnboardingAssumption DEF LockInv
<1>6. LockInv' /\ SeenInv'
  BY <1>1, <1>3, <1>5 DEF LockInv, SeenInv, Inside
<1>7. JobInv' /\ AttemptInv'
  BY <1>1, <1>2, OnboardingAssumption DEF JobInv, AttemptInv, OfferRecord, ScanRecord
<1>8. TokenInv' /\ CursorInv'
  BY <1>1, <1>3 DEF TokenInv, CursorInv, Holds
<1> QED
  BY <1>4, <1>6, <1>7, <1>8

(* Reading an offer, entering a command and leaving one without effect. *)
LEMMA CommandStep ==
    ASSUME IInv, NEW p \in Proc,
           \/ ReadOffer(p) \/ DeclineAgain(p)
           \/ \E c \in DOMAIN Commands : Enter(p, c)
           \/ QueueNothing(p) \/ ClaimRefuse(p) \/ ReadIndex(p) \/ ConflictIndex(p) \/ Refuse(p)
    PROVE  IInv'
<1> USE DEF IInv
<1>t. /\ proc \in [Proc -> ProcState] /\ offer \in OfferRecord /\ lock \in Proc \cup {None}
      /\ proc[p] \in ProcState /\ index \in 0 .. MaxIndex
  BY Types
<1>l. \A l : Leave(p, l) => \/ lock' = lock /\ lock # p
                            \/ lock = p /\ lock' = None
  BY DEF Leave, Unlock
<1>1. CASE ReadOffer(p)
  <2> DEFINE s == [proc[p] EXCEPT !.seen = offer]
  <2>1. /\ s \in ProcState /\ s.ticket = proc[p].ticket /\ s.cursor = proc[p].cursor
        /\ s.pc = "idle" /\ proc' = [proc EXCEPT ![p] = s]
    BY <1>1, <1>t DEF ReadOffer, At, ProcState
  <2>2. UNCHANGED <<offer, scan, index, issued, lock>>
    BY <1>1 DEF ReadOffer
  <2> HIDE DEF s
  <2> QED
    BY <2>1, <2>2, MovesInv DEF Inside
<1>2. CASE DeclineAgain(p)
  <2> DEFINE s == [proc[p] EXCEPT !.pc = "declining"]
  <2>1. /\ s \in ProcState /\ s.ticket = proc[p].ticket /\ s.cursor = proc[p].cursor
        /\ s.pc = "declining" /\ proc' = [proc EXCEPT ![p] = s]
    BY <1>2, <1>t DEF DeclineAgain, Goto, ProcState
  <2>2. UNCHANGED <<offer, scan, index, issued>> /\ lock = None /\ lock' = p
    BY <1>2 DEF DeclineAgain
  <2> HIDE DEF s
  <2> QED
    BY <2>1, <2>2, MovesInv DEF Inside
<1>3. ASSUME NEW c \in DOMAIN Commands, Enter(p, c)
      PROVE  IInv'
  <2> DEFINE s == [proc[p] EXCEPT !.pc = c, !.seen = offer]
  <2>0. c \in Inside
    BY DEF Commands, Inside
  <2>1. /\ s \in ProcState /\ s.ticket = proc[p].ticket /\ s.cursor = proc[p].cursor
        /\ s.pc = c /\ s.seen = offer /\ proc' = [proc EXCEPT ![p] = s]
    BY <1>3, <1>t, <2>0 DEF Enter, ProcState, Inside
  <2>2. UNCHANGED <<offer, scan, index, issued>> /\ lock = None /\ lock' = p
    BY <1>3 DEF Enter
  <2> HIDE DEF s
  <2> QED
    BY <2>1, <2>2, MovesInv
<1>4. ASSUME NEW l \in {"idle", "held"}, Leave(p, l)
      PROVE  IInv'
  <2> DEFINE s == [proc[p] EXCEPT !.pc = l]
  <2>1. /\ s \in ProcState /\ s.ticket = proc[p].ticket /\ s.cursor = proc[p].cursor
        /\ s.pc = l /\ proc' = [proc EXCEPT ![p] = s]
    BY <1>4, <1>t DEF Leave, Goto, ProcState
  <2>2. /\ UNCHANGED <<offer, scan, index, issued>>
        /\ lock' = lock \/ (lock = p /\ lock' = None)
    BY <1>4, <1>l DEF Leave
  <2> HIDE DEF s
  <2> QED
    BY <2>1, <2>2, MovesInv DEF Inside
<1>5. CASE ReadIndex(p)
  <2> DEFINE s == [proc[p] EXCEPT !.pc = "scan", !.base = index]
  <2>1. /\ s \in ProcState /\ s.ticket = proc[p].ticket /\ s.cursor = proc[p].cursor
        /\ s.pc = "scan" /\ proc' = [proc EXCEPT ![p] = s]
    BY <1>5, <1>t DEF ReadIndex, ProcState
  <2>2. UNCHANGED <<offer, scan, index, issued, lock>>
    BY <1>5 DEF ReadIndex
  <2> HIDE DEF s
  <2> QED
    BY <2>1, <2>2, MovesInv DEF Inside
<1> QED
  BY <1>1, <1>2, <1>3, <1>4, <1>5 DEF QueueNothing, ClaimRefuse, ConflictIndex, Refuse

LEMMA CancelStep ==
    ASSUME IInv, Cancel \/ \E p \in Proc : DeclineCancel(p)
    PROVE  IInv'
<1> USE DEF IInv
<1>t. scan \in ScanRecord /\ scan.lease \in LeaseRecord
  BY Types DEF ScanRecord
<1>1. /\ scan' \in ScanRecord /\ scan'.offer = scan.offer /\ scan'.cursor = scan.cursor
      /\ scan'.lease.token \in {0, scan.lease.token}
      /\ scan'.state = "RUNNING" => scan' = scan
  <2> DEFINE e == scan.epoch + 1
  <2>1. e \in Nat /\ NoLease.token = 0 /\ NoLease \in LeaseRecord
    BY <1>t, FreshType DEF ScanRecord, NoLease
  <2>2. \/ scan' = [scan EXCEPT !.state = "CANCELLED", !.epoch = e, !.lease = NoLease]
        \/ scan' = scan
    BY DEF DeclineCancel, Cancel, CancelLocked
  <2> HIDE DEF e
  <2> QED
    BY <1>t, <2>1, <2>2 DEF ScanRecord
<1>2. scan'.offer <= offer.revision
  BY <1>1 DEF JobInv
<1>3. ASSUME NEW p \in Proc, DeclineCancel(p)
      PROVE  IInv'
  <2>1. /\ lock = p /\ lock' = None /\ proc' = [proc EXCEPT ![p].pc = "idle"]
        /\ UNCHANGED <<offer, index, issued>>
    BY <1>3 DEF DeclineCancel, Goto, LockInv, At
  <2> QED
    BY <1>1, <1>2, <2>1, ScanInv
<1>4. CASE Cancel
  <2>1. UNCHANGED <<offer, index, issued, lock, proc>>
    BY <1>4 DEF Cancel
  <2> QED
    BY <1>1, <1>2, <2>1, ScanInv
<1> QED
  BY <1>3, <1>4

LEMMA ExpireLeaseStep ==
    ASSUME IInv, ExpireLease
    PROVE  IInv'
<1>t. scan \in ScanRecord /\ scan.lease \in LeaseRecord
  BY Types DEF IInv, ScanRecord
<1>1. /\ scan' = [scan EXCEPT !.lease.expired = TRUE]
      /\ UNCHANGED <<offer, index, lock, issued, proc>>
  BY DEF ExpireLease
<1>2. /\ scan' \in ScanRecord /\ scan'.offer = scan.offer /\ scan'.cursor = scan.cursor
      /\ scan'.state = scan.state /\ scan'.attempts = scan.attempts
      /\ scan'.lease.token = scan.lease.token /\ scan'.lease.generation = scan.lease.generation
  BY <1>t, <1>1 DEF ScanRecord, LeaseRecord
<1>3. scan'.offer <= offer.revision
  BY <1>2 DEF IInv, JobInv
<1> QED
  BY <1>1, <1>2, <1>3, ScanInv

LEMMA QueueStep ==
    ASSUME IInv, NEW p \in Proc, Queue(p)
    PROVE  IInv'
<1>t. /\ scan \in ScanRecord /\ offer \in OfferRecord /\ proc[p] \in ProcState /\ NoScan \in ScanRecord
      /\ NoScan.cursor = 0 /\ NoScan.lease.token = 0
  BY Types, FreshType DEF IInv, NoScan, NoLease
<1>1. /\ lock = p /\ lock' = None /\ proc' = [proc EXCEPT ![p].pc = "idle"]
      /\ UNCHANGED <<offer, index, issued>>
      /\ proc[p].seen.revision = offer.revision
  BY DEF Queue, Goto, Unlock, At, IInv, LockInv, SeenInv, Inside
<1>2. scan' = [NoScan EXCEPT !.state = "QUEUED", !.offer = offer.revision, !.epoch = scan.epoch]
  BY <1>1 DEF Queue
<1>3. /\ scan' \in ScanRecord /\ scan'.offer = offer.revision /\ scan'.cursor = 0
      /\ scan'.lease.token = 0 /\ scan'.state = "QUEUED"
  BY <1>t, <1>2 DEF ScanRecord, OfferRecord
<1>4. scan'.offer <= offer.revision
  BY <1>t, <1>3, OnboardingAssumption DEF OfferRecord
<1> QED
  BY <1>1, <1>3, <1>4, ScanInv

(* What checking a lease leaves to be known. *)
LEMMA LeasedHolds ==
    ASSUME IInv, NEW p \in Proc, Leased(p)
    PROVE  Holds(p) /\ scan.state = "RUNNING"
BY DEF IInv, TokenInv, Leased, Holds

LEMMA ReportStep ==
    ASSUME IInv, NEW p \in Proc, Checkpoint(p) \/ Finish(p)
    PROVE  IInv'
<1>t. /\ scan \in ScanRecord /\ scan.lease \in LeaseRecord
      /\ proc[p] \in ProcState /\ proc[p].cursor \in 0 .. MaxIndex
  BY Types DEF IInv, ScanRecord, ProcState
<1>1. /\ lock = p /\ lock' = None /\ proc' = [proc EXCEPT ![p].pc = "held"]
      /\ UNCHANGED <<offer, index, issued>>
      /\ Leased(p)
  BY DEF Checkpoint, Finish, Goto, Unlock, At, IInv, LockInv, Inside
<1>2. Holds(p) /\ scan.state = "RUNNING"
  BY <1>1, LeasedHolds
<1>3. CASE Checkpoint(p)
  <2>1. scan' = [scan EXCEPT !.cursor = proc[p].cursor, !.lease.expired = FALSE]
    BY <1>3 DEF Checkpoint
  <2>2. /\ scan' \in ScanRecord /\ scan'.offer = scan.offer /\ scan'.cursor = proc[p].cursor
        /\ scan'.state = scan.state /\ scan'.attempts = scan.attempts
        /\ scan'.lease.token = scan.lease.token /\ scan'.lease.generation = scan.lease.generation
    BY <1>t, <2>1 DEF ScanRecord, LeaseRecord
  <2>3. scan'.offer <= offer.revision
    BY <2>2 DEF IInv, JobInv
  <2> QED
    BY <1>1, <1>2, <2>2, <2>3, ScanInv
<1>4. CASE Finish(p)
  <2>1. scan' = [scan EXCEPT !.state = "COMPLETED", !.lease = NoLease]
    BY <1>4 DEF Finish
  <2>2. /\ scan' \in ScanRecord /\ scan'.offer = scan.offer /\ scan'.cursor = scan.cursor
        /\ scan'.state = "COMPLETED" /\ scan'.lease = NoLease
    BY <1>t, <2>1, FreshType DEF ScanRecord
  <2>3. scan'.lease.token = 0
    BY <2>2 DEF NoLease
  <2>4. scan'.offer <= offer.revision
    BY <2>2 DEF IInv, JobInv
  <2> QED
    BY <1>1, <2>2, <2>3, <2>4, ScanInv
<1> QED
  BY <1>3, <1>4

LEMMA CommitStep ==
    ASSUME IInv, NEW p \in Proc, CommitIndex(p)
    PROVE  IInv'
<1> USE DEF IInv
<1>t. /\ proc \in [Proc -> ProcState] /\ index \in Nat /\ scan \in ScanRecord
      /\ scan.cursor \in Nat /\ scan.cursor <= index
      /\ \A q \in Proc : proc[q].cursor \in Nat /\ proc[q].cursor <= index
  BY Types, OnboardingAssumption DEF ProcState, CursorInv, ScanRecord
<1>1. index' \in 0 .. MaxIndex /\ index' \in Nat /\ index' >= index
  BY <1>t, OnboardingAssumption DEF CommitIndex
<1>2. /\ proc' = [proc EXCEPT ![p].pc = "held", ![p].cursor = index']
      /\ UNCHANGED <<offer, scan, lock, issued>>
  BY DEF CommitIndex
<1>3. /\ \A q \in Proc : /\ proc'[q].ticket = proc[q].ticket /\ proc'[q].seen = proc[q].seen
                         /\ q # p => proc'[q] = proc[q]
      /\ proc'[p].pc = "held" /\ proc'[p].cursor = index'
      /\ proc' \in [Proc -> ProcState]
  BY <1>t, <1>1, <1>2 DEF ProcState
<1>4. TypeOK'
  BY <1>1, <1>2, <1>3, Types DEF TypeOK, ProcState
<1>5. LockInv' /\ SeenInv'
  BY <1>2, <1>3 DEF LockInv, SeenInv, Inside
<1>6. JobInv' /\ AttemptInv' /\ TokenInv'
  BY <1>2, <1>3 DEF JobInv, AttemptInv, TokenInv
<1>7. CursorInv'
  <2>1. scan'.cursor <= index' /\ \A q \in Proc : proc'[q].cursor <= index'
    BY <1>t, <1>1, <1>2, <1>3
  <2>2. ASSUME NEW q \in Proc, Holds(q)', proc'[q].cursor # 0
        PROVE  scan'.cursor <= proc'[q].cursor
    BY <1>t, <1>1, <1>2, <1>3, <2>1, <2>2 DEF CursorInv, Holds
  <2> QED
    BY <2>1, <2>2 DEF CursorInv
<1> QED
  BY <1>4, <1>5, <1>6, <1>7

LEMMA ClaimStep ==
    ASSUME IInv, NEW p \in Proc, Claim(p)
    PROVE  IInv'
<1> USE DEF IInv
<1>t. /\ proc \in [Proc -> ProcState] /\ scan \in ScanRecord /\ scan.lease \in LeaseRecord
      /\ issued \in Nat /\ scan.attempts \in 0 .. MaxAttempts /\ scan.epoch \in Nat
      /\ scan.lease.generation \in 0 .. MaxAttempts /\ scan.lease.token \in Nat
      /\ \A q \in Proc : proc[q].ticket.token \in Nat
  BY Types DEF ScanRecord, LeaseRecord, ProcState, Ticket
<1> DEFINE g == scan.attempts + 1
           token == issued + 1
           ticket == [token |-> token, generation |-> g, epoch |-> scan.epoch]
           lease == [token |-> token, generation |-> g, expired |-> FALSE]
           s == [Fresh EXCEPT !.pc = "held", !.ticket = ticket]
<1>1. scan.attempts < MaxAttempts /\ (Takeover => scan.lease.generation = scan.attempts)
  BY DEF Claim, Claimable, Takeover, AttemptInv
<1>2. /\ g \in 0 .. MaxAttempts /\ token \in Nat /\ token # 0
      /\ token > issued
  BY <1>t, <1>1 DEF MaxAttempts
<1>3. /\ issued' = token /\ lock = p /\ lock' = None
      /\ scan' = [scan EXCEPT !.state = "RUNNING", !.attempts = g, !.lease = lease]
      /\ proc' = [proc EXCEPT ![p] = s]
      /\ UNCHANGED <<offer, index>>
  BY <1>1 DEF Claim, Unlock, At, LockInv, Inside
<1>4. /\ lease \in LeaseRecord /\ ticket \in Ticket /\ lease.token = token
      /\ lease.generation = g /\ ticket.token = token
  BY <1>t, <1>2 DEF LeaseRecord, Ticket
<1> HIDE DEF g, token, lease, ticket
<1>5. s \in ProcState /\ s.pc = "held" /\ s.ticket = ticket /\ s.cursor = 0
  BY <1>4, FreshType, FreshFields DEF ProcState
<1> HIDE DEF s
<1>6. /\ scan' \in ScanRecord /\ scan'.state = "RUNNING" /\ scan'.offer = scan.offer
      /\ scan'.cursor = scan.cursor /\ scan'.attempts = g /\ scan'.lease = lease
  BY <1>t, <1>2, <1>3, <1>4 DEF ScanRecord
<1>7. /\ proc' \in [Proc -> ProcState] /\ proc'[p] = s
      /\ \A q \in Proc : q # p => proc'[q] = proc[q]
  BY <1>t, <1>3, <1>5
<1>8. TypeOK'
  BY <1>2, <1>3, <1>6, <1>7, Types DEF TypeOK, ProcState
<1>9. LockInv' /\ SeenInv'
  BY <1>3, <1>5, <1>7, OnboardingAssumption DEF LockInv, SeenInv, Inside
<1>10. JobInv' /\ AttemptInv'
  BY <1>3, <1>4, <1>6 DEF JobInv, AttemptInv
<1>11. TokenInv'
  <2>1. \A q \in Proc : q # p => proc'[q].ticket.token < token
    BY <1>t, <1>2, <1>7 DEF TokenInv
  <2>2. /\ proc'[p].ticket.token = token /\ scan'.lease.token = token /\ issued' = token
        /\ \A q \in Proc : proc'[q].ticket.token <= token
    BY <1>t, <1>2, <1>3, <1>4, <1>5, <1>6, <1>7, <2>1
  <2>3. ASSUME NEW q \in Proc, NEW r \in Proc, q # r, proc'[q].ticket.token = proc'[r].ticket.token
        PROVE  proc'[q].ticket.token = 0
    BY <1>t, <1>2, <1>7, <2>1, <2>2, <2>3 DEF TokenInv
  <2> QED
    BY <1>2, <2>2, <2>3 DEF TokenInv
<1>12. CursorInv'
  <2>1. \A q \in Proc : proc'[q].cursor <= index
    BY <1>5, <1>7, Types DEF CursorInv
  <2>2. ASSUME NEW q \in Proc, Holds(q)'
        PROVE  q = p
    BY <1>t, <1>2, <1>4, <1>6, <1>7, <2>2 DEF Holds, TokenInv
  <2> QED
    BY <1>3, <1>5, <1>6, <1>7, <2>1, <2>2 DEF CursorInv
<1> QED
  BY <1>8, <1>9, <1>10, <1>11, <1>12

LEMMA DieStep ==
    ASSUME IInv, NEW p \in Proc, Die(p)
    PROVE  IInv'
<1> USE DEF IInv
<1>t. proc \in [Proc -> ProcState] /\ index \in Nat /\ issued \in Nat /\ lock \in Proc \cup {None}
  BY Types
<1>1. /\ proc' = [proc EXCEPT ![p] = Fresh]
      /\ (lock' = lock /\ lock # p) \/ (lock = p /\ lock' = None)
      /\ UNCHANGED <<offer, scan, index, issued>>
  BY DEF Die, Unlock
<1>2. /\ proc' \in [Proc -> ProcState] /\ proc'[p] = Fresh
      /\ \A q \in Proc : q # p => proc'[q] = proc[q]
  BY <1>t, <1>1, FreshType
<1>3. TypeOK'
  BY <1>1, <1>2, Types DEF TypeOK, ProcState
<1>4. LockInv' /\ SeenInv'
  BY <1>1, <1>2, FreshFields DEF LockInv, SeenInv, Inside
<1>5. JobInv' /\ AttemptInv'
  BY <1>1 DEF JobInv, AttemptInv
<1>6. TokenInv'
  BY <1>t, <1>1, <1>2, FreshFields DEF TokenInv
<1>7. CursorInv'
  BY <1>t, <1>1, <1>2, FreshFields DEF CursorInv, Holds
<1> QED
  BY <1>3, <1>4, <1>5, <1>6, <1>7

LEMMA NextInv == IInv /\ [Next]_vars => IInv'
<1> SUFFICES ASSUME IInv, [Next]_vars PROVE IInv'
  OBVIOUS
<1>1. CASE CreateOffer \/ ExpireOffer
  BY <1>1, OfferStep
<1>2. CASE Cancel \/ ExpireLease
  BY <1>2, CancelStep, ExpireLeaseStep
<1>3. ASSUME NEW p \in Proc, Step(p)
      PROVE  IInv'
  BY <1>3, AnswerStep, DeclineStep, CommandStep, CancelStep, QueueStep, ClaimStep, CommitStep,
     ReportStep, DieStep DEF Step
<1>4. CASE UNCHANGED vars
  BY <1>4 DEF vars, IInv, TypeOK, LockInv, SeenInv, JobInv, AttemptInv, TokenInv, CursorInv, Holds
<1> QED
  BY <1>1, <1>2, <1>3, <1>4 DEF Next

-------------------------------------------------------------------------------
(* The records, tickets and locks relate as IInv says, at every moment of  *)
(* every command, also when processes die between their steps.             *)
THEOREM Inductive == Spec => []IInv
<1> QED
  BY InitInv, NextInv, PTL DEF Spec

(* Every record keeps its form: attempts, generations and revisions stay   *)
(* within their bounds, because a lease's generation counts its claims.    *)
THEOREM TypeCorrect == Spec => []TypeOK
<1>1. IInv => TypeOK
  BY DEF IInv
<1> QED
  BY Inductive, <1>1, PTL

(* No job reports an index revision that was not committed (checkpoint     *)
(* records the revision its own worker has committed or found).            *)
THEOREM CursorAlwaysCommitted == Spec => []CursorCommitted
<1>1. IInv => CursorCommitted
  BY DEF IInv, CursorInv, CursorCommitted
<1> QED
  BY Inductive, <1>1, PTL

(* No job serves the acceptance that a decline has ended or one after it, *)
(* and nobody answers between the two steps of a decline.                  *)
DeclineInv ==
    /\ offer.state = "DECLINED" => scan.offer < offer.revision
    /\ \A p \in Proc : proc[p].pc = "declining" => offer.state = "DECLINED"

(* Which steps change the offer, and which job the scan serves. *)
LEMMA OfferChanges ==
    ASSUME IInv, [Next]_vars
    PROVE  /\ \/ offer' = offer
              \/ CreateOffer \/ ExpireOffer
              \/ \E p \in Proc : RenewOffer(p) \/ Accept(p) \/ Decline(p)
           /\ scan'.offer = scan.offer \/ \E p \in Proc : Queue(p)
<1>1. scan \in ScanRecord
  BY DEF IInv, TypeOK
<1>2. CASE UNCHANGED scan
  BY <1>2
  DEF Next, Step, vars, Cancel, ExpireLease, ReadOffer, DeclineAgain, DeclineCancel, Enter, Leave,
      Queue, QueueNothing, Claim, ClaimRefuse, ReadIndex, CommitIndex, ConflictIndex, Checkpoint,
      Finish, Refuse, Die
<1>3. CASE \/ Cancel \/ ExpireLease
           \/ \E p \in Proc : DeclineCancel(p) \/ Claim(p) \/ Checkpoint(p) \/ Finish(p) \/ Queue(p)
  BY <1>1, <1>3 DEF Cancel, CancelLocked, ExpireLease, DeclineCancel, Claim, Checkpoint, Finish,
                    Queue, ScanRecord
<1> QED
  BY <1>2, <1>3
  DEF Next, Step, vars, CreateOffer, ExpireOffer, ReadOffer, RenewOffer, Accept, Decline,
      DeclineAgain, Enter, Leave, QueueNothing, ClaimRefuse, ReadIndex, CommitIndex,
      ConflictIndex, Refuse, Die

LEMMA DeclinersBegan ==
    ASSUME IInv, [Next]_vars, NEW p \in Proc, proc'[p].pc = "declining"
    PROVE  proc[p].pc = "declining" \/ Decline(p) \/ DeclineAgain(p)
<1>t. proc \in [Proc -> ProcState]
  BY Types DEF IInv
<1>1. ASSUME NEW q \in Proc, q # p, Step(q)
      PROVE  proc'[p] = proc[p]
  BY <1>t, <1>1
  DEF Step, ReadOffer, RenewOffer, Accept, Decline, DeclineAgain, DeclineCancel, Enter, Queue,
      QueueNothing, Claim, ClaimRefuse, ReadIndex, CommitIndex, ConflictIndex, Checkpoint, Finish,
      Refuse, Leave, Goto, Die
<1>2. CASE Step(p)
  <2>1. CASE ReadOffer(p) \/ RenewOffer(p) \/ Accept(p)
    BY <1>t, <2>1 DEF ReadOffer, RenewOffer, Accept, ProcState
  <2>2. ASSUME NEW c \in DOMAIN Commands, Enter(p, c)
        PROVE  FALSE
    BY <1>t, <2>2 DEF Enter, Commands, ProcState
  <2>3. CASE \/ DeclineCancel(p) \/ Queue(p) \/ QueueNothing(p) \/ ClaimRefuse(p)
             \/ ConflictIndex(p) \/ Checkpoint(p) \/ Finish(p) \/ Refuse(p)
    BY <1>t, <2>3
    DEF DeclineCancel, Queue, QueueNothing, ClaimRefuse, ConflictIndex, Checkpoint, Finish, Refuse,
        Leave, Goto, ProcState
  <2>4. CASE Die(p)
    BY <1>t, <2>4, FreshFields DEF Die
  <2>6. CASE Claim(p)
    <3>1. PICK y : proc' = [proc EXCEPT ![p] = [Fresh EXCEPT !.pc = "held", !.ticket = y]]
      BY <2>6 DEF Claim
    <3> QED
      BY <1>t, <3>1 DEF Fresh
  <2>5. CASE ReadIndex(p) \/ CommitIndex(p)
    BY <1>t, <2>5 DEF ReadIndex, CommitIndex, ProcState
  <2> QED
    BY <1>2, <2>1, <2>2, <2>3, <2>4, <2>5, <2>6 DEF Step
<1>3. CASE CreateOffer \/ ExpireOffer \/ Cancel \/ ExpireLease \/ UNCHANGED vars
  BY <1>3 DEF CreateOffer, ExpireOffer, Cancel, ExpireLease, vars
<1> QED
  BY <1>1, <1>2, <1>3 DEF Next

LEMMA DeclineInvStep ==
    ASSUME IInv, DeclineInv, [Next]_vars
    PROVE  DeclineInv'
<1>t. /\ offer \in OfferRecord /\ offer.revision \in Nat /\ scan.offer \in Nat
      /\ scan.offer <= offer.revision
  BY Types, OnboardingAssumption DEF IInv, OfferRecord, ScanRecord, JobInv
<1>1. offer'.state = "DECLINED" => scan'.offer < offer'.revision
  <2>1. CASE offer' = offer
    <3>1. ASSUME NEW p \in Proc, Queue(p)
          PROVE  offer.state = "ACCEPTED"
      BY <3>1 DEF Queue, At, IInv, SeenInv, Inside
    <3> QED
      BY <2>1, <3>1, OfferChanges DEF DeclineInv
  <2>2. CASE CreateOffer \/ ExpireOffer
    BY <1>t, <2>2 DEF CreateOffer, NoOffer, ExpireOffer, OfferRecord
  <2>3. ASSUME NEW p \in Proc, RenewOffer(p) \/ Accept(p) \/ Decline(p)
        PROVE  offer'.state = "DECLINED" => scan'.offer < offer'.revision
    <3>1. CASE RenewOffer(p) \/ Accept(p)
      <4>1. offer'.state # "DECLINED"
        BY <1>t, <3>1, RenewedState, AnsweredType DEF Accept
      <4> QED
        BY <4>1
    <3>2. CASE Decline(p)
      <4>1. offer'.revision = offer.revision + 1 /\ scan' = scan
        BY <1>t, <3>2, AnsweredType DEF Decline
      <4> QED
        BY <1>t, <4>1
    <3> QED
      BY <2>3, <3>1, <3>2
  <2> QED
    BY <2>1, <2>2, <2>3, OfferChanges
<1>2. ASSUME NEW p \in Proc, proc'[p].pc = "declining"
      PROVE  offer'.state = "DECLINED"
  <2>1. CASE proc[p].pc = "declining"
    <3>1. offer.state = "DECLINED" /\ lock # None
      BY <2>1, OnboardingAssumption DEF DeclineInv, IInv, LockInv
    <3> QED
      BY <3>1, OfferChanges DEF CreateOffer, ExpireOffer, RenewOffer, Accept, Decline
  <2>2. CASE Decline(p)
    BY <1>t, <2>2, AnsweredType DEF Decline
  <2>3. CASE DeclineAgain(p)
    BY <2>3 DEF DeclineAgain
  <2> QED
    BY <1>2, <2>1, <2>2, <2>3, DeclinersBegan
<1> QED
  BY <1>1, <1>2 DEF DeclineInv

(* The cancellation that ends a decline only ever meets a scan whose       *)
(* acceptance is over, although other commands and deaths lie between the  *)
(* two steps of the decline.                                               *)
THEOREM DeclineAlwaysStands == Spec => []DeclineStands
<1>1. Init => DeclineInv
  BY DEF Init, NoOffer, Fresh, DeclineInv
<1>2. DeclineInv => DeclineStands
  BY DEF DeclineInv, DeclineStands, At
<1>3. IInv /\ DeclineInv /\ [Next]_vars => DeclineInv'
  BY DeclineInvStep
<1> QED
  BY <1>1, <1>2, <1>3, Inductive, PTL DEF Spec

-------------------------------------------------------------------------------
(* The refinement.  Active is the abstract `open`, the number of the       *)
(* acceptance that stands the abstract `consent`.                          *)
consent == IF offer.state = "ACCEPTED" THEN offer.revision ELSE 0

(* A step that keeps the acceptance, the job, its activity and its cursor  *)
(* is a stutter.                                                           *)
LEMMA Stutters ==
    ASSUME consent' = consent, scan'.offer = scan.offer, Active' <=> Active,
           scan'.cursor = scan.cursor
    PROVE  UNCHANGED Consented!vars
<1>1. Active' = Active
  BY DEF Active
<1> QED
  BY <1>1 DEF Consented!vars, consent

(* The user's steps: an acceptance is newer than any job, and between two  *)
(* acceptances there is none.                                              *)
LEMMA UserStep ==
    ASSUME IInv, NEW p,
           \/ CreateOffer \/ ExpireOffer
           \/ p \in Proc /\ (RenewOffer(p) \/ Accept(p) \/ Decline(p))
    PROVE  [Consented!Next]_Consented!vars
<1>t. /\ offer \in OfferRecord /\ scan \in ScanRecord /\ offer.revision \in Nat /\ scan.offer \in Nat
      /\ scan.offer <= offer.revision
  BY Types, OnboardingAssumption DEF IInv, OfferRecord, ScanRecord, JobInv
<1>0. UNCHANGED scan
  BY DEF CreateOffer, ExpireOffer, RenewOffer, Accept, Decline
<1>1. Active' <=> Active
  BY <1>0 DEF Active
<1>2. CASE CreateOffer \/ RenewOffer(p)
  <2>1. offer.state \in {"UNSEEN", "OFFERED"} /\ offer'.state = "OFFERED"
    BY <1>2, <1>t, FreshType, RenewedState DEF CreateOffer, OfferRecord
  <2>2. consent' = consent
    BY <2>1 DEF consent
  <2> QED
    BY <1>0, <1>1, <2>2, Stutters
<1>3. CASE ExpireOffer
  <2>1. consent' = consent
    BY <1>3, <1>t DEF ExpireOffer, consent, OfferRecord
  <2> QED
    BY <1>0, <1>1, <2>1, Stutters
<1>4. CASE Accept(p)
  <2>1. /\ offer'.state = "ACCEPTED" /\ offer.state # "ACCEPTED"
        /\ offer'.revision = offer.revision + 1
    BY <1>4, <1>t, AnsweredType DEF Accept
  <2>2. consent = 0 /\ consent' \in Nat /\ consent' > scan.offer
    BY <1>t, <2>1 DEF consent
  <2>3. Active' = Active
    BY <1>1 DEF Active
  <2>4. Consented!Accept
    BY <1>0, <2>2, <2>3 DEF Consented!Accept, consent
  <2> QED
    BY <2>4 DEF Consented!Next
<1>5. CASE Decline(p)
  <2>1. offer'.state = "DECLINED"
    BY <1>5, <1>t, AnsweredType DEF Decline
  <2>2. consent' = 0
    BY <2>1 DEF consent
  <2>3. Active' = Active
    BY <1>1 DEF Active
  <2>4. Consented!Withdraw
    BY <1>0, <2>2, <2>3 DEF Consented!Withdraw, consent
  <2> QED
    BY <2>4 DEF Consented!Next
<1> QED
  BY <1>2, <1>3, <1>4, <1>5

(* Cancelling, with the offer's lock or without. *)
LEMMA CancelImplements ==
    ASSUME IInv, Cancel \/ \E p \in Proc : DeclineCancel(p)
    PROVE  [Consented!Next]_Consented!vars
<1>t. scan \in ScanRecord
  BY Types DEF IInv
<1>1. UNCHANGED offer /\ CancelLocked
  BY DEF Cancel, DeclineCancel
<1>2. consent' = consent
  BY <1>1 DEF consent
<1>3. CASE Active
  <2>1. /\ scan'.state = "CANCELLED" /\ scan'.offer = scan.offer /\ scan'.cursor = scan.cursor
    BY <1>1, <1>3, <1>t DEF CancelLocked, ScanRecord
  <2>2. Active' = FALSE
    BY <2>1 DEF Active
  <2>3. Consented!Cancel
    BY <1>2, <2>1, <2>2 DEF Consented!Cancel, consent
  <2> QED
    BY <2>3 DEF Consented!Next
<1>4. CASE ~Active
  <2>1. UNCHANGED scan
    BY <1>1, <1>4 DEF CancelLocked
  <2>2. Active' <=> Active
    BY <2>1 DEF Active
  <2> QED
    BY <1>2, <2>1, <2>2, Stutters
<1> QED
  BY <1>3, <1>4

(* Queueing opens a job for the acceptance that stands; claiming and       *)
(* losing a lease are not seen.                                            *)
LEMMA QueueImplements ==
    ASSUME IInv, NEW p \in Proc, Queue(p)
    PROVE  [Consented!Next]_Consented!vars
<1>t. /\ offer \in OfferRecord /\ scan \in ScanRecord /\ offer.revision \in Nat /\ scan.offer \in Nat
      /\ scan.offer <= offer.revision
  BY Types, OnboardingAssumption DEF IInv, OfferRecord, ScanRecord, JobInv
<1>1. /\ offer.state = "ACCEPTED" /\ proc[p].seen.revision = offer.revision
      /\ scan.offer # offer.revision /\ ~Active /\ UNCHANGED offer
  BY DEF Queue, At, IInv, SeenInv, Inside
<1>2. scan' = [NoScan EXCEPT !.state = "QUEUED", !.offer = offer.revision, !.epoch = scan.epoch]
  BY <1>1 DEF Queue
<1>3. NoScan \in ScanRecord /\ NoScan.cursor = 0
  BY FreshType DEF NoScan
<1>4. scan'.state = "QUEUED" /\ scan'.offer = offer.revision /\ scan'.cursor = 0
  BY <1>2, <1>3 DEF ScanRecord
<1>5. consent = offer.revision /\ consent' = consent /\ consent > scan.offer
  BY <1>t, <1>1 DEF consent
<1>6. Active' = TRUE
  BY <1>4 DEF Active
<1>7. Consented!Open
  BY <1>1, <1>4, <1>5, <1>6 DEF Consented!Open, consent
<1> QED
  BY <1>7 DEF Consented!Next

LEMMA ClaimImplements ==
    ASSUME IInv, (\E p \in Proc : Claim(p)) \/ ExpireLease
    PROVE  [Consented!Next]_Consented!vars
<1>t. scan \in ScanRecord
  BY Types DEF IInv
<1>1. CASE ExpireLease
  <2>1. scan.state = "RUNNING" /\ scan' = [scan EXCEPT !.lease.expired = TRUE] /\ UNCHANGED offer
    BY <1>1 DEF ExpireLease
  <2>2. scan'.state = "RUNNING" /\ scan'.offer = scan.offer /\ scan'.cursor = scan.cursor
    BY <1>t, <2>1 DEF ScanRecord
  <2> QED
    BY <2>1, <2>2, Stutters DEF consent, Active
<1>2. ASSUME NEW p \in Proc, Claim(p)
      PROVE  UNCHANGED Consented!vars
  <2>1. scan.state \in {"QUEUED", "RUNNING"} /\ UNCHANGED offer
    BY <1>2 DEF Claim, Claimable, Takeover
  <2>2. PICK a, l : scan' = [scan EXCEPT !.state = "RUNNING", !.attempts = a, !.lease = l]
    BY <1>2 DEF Claim
  <2>3. scan'.state = "RUNNING" /\ scan'.offer = scan.offer /\ scan'.cursor = scan.cursor
    BY <1>t, <2>2 DEF ScanRecord
  <2> QED
    BY <2>1, <2>3, Stutters DEF consent, Active
<1> QED
  BY <1>1, <1>2

(* A report is recorded only while the acceptance the job serves stands,   *)
(* and never behind the last one.                                          *)
LEMMA ReportImplements ==
    ASSUME IInv, NEW p \in Proc, Checkpoint(p) \/ Finish(p)
    PROVE  [Consented!Next]_Consented!vars
<1>t. /\ scan \in ScanRecord /\ proc[p].cursor \in Nat
  BY Types, OnboardingAssumption DEF IInv, ProcState
<1>1. /\ offer.state = "ACCEPTED" /\ scan.offer = offer.revision
      /\ UNCHANGED offer /\ Leased(p)
  BY DEF Checkpoint, Finish, Accepted, At, IInv, SeenInv, Inside
<1>2. Holds(p) /\ scan.state = "RUNNING"
  BY <1>1, LeasedHolds
<1>3. consent = scan.offer /\ consent' = consent /\ Active = TRUE
  BY <1>1, <1>2 DEF consent, Active
<1>4. CASE Checkpoint(p)
  <2>1. scan' = [scan EXCEPT !.cursor = proc[p].cursor, !.lease.expired = FALSE] /\ proc[p].cursor # 0
    BY <1>4 DEF Checkpoint
  <2>2. /\ scan'.state = "RUNNING" /\ scan'.offer = scan.offer
        /\ scan'.cursor = proc[p].cursor
    BY <1>t, <1>2, <2>1 DEF ScanRecord
  <2>3. scan'.cursor \in Nat /\ scan'.cursor >= scan.cursor
    BY <1>t, <1>2, <2>1, <2>2, OnboardingAssumption DEF IInv, CursorInv, ScanRecord
  <2>4. Active' = Active
    BY <1>3, <2>2 DEF Active
  <2>5. Consented!Report
    BY <1>3, <2>2, <2>3, <2>4 DEF Consented!Report, consent
  <2> QED
    BY <2>5 DEF Consented!Next
<1>5. CASE Finish(p)
  <2>1. scan' = [scan EXCEPT !.state = "COMPLETED", !.lease = NoLease]
    BY <1>5 DEF Finish
  <2>2. /\ scan'.state = "COMPLETED" /\ scan'.offer = scan.offer /\ scan'.cursor = scan.cursor
    BY <1>t, <2>1 DEF ScanRecord
  <2>3. Active' = FALSE
    BY <2>2 DEF Active
  <2>4. Consented!Finish
    BY <1>3, <2>2, <2>3 DEF Consented!Finish, consent
  <2> QED
    BY <2>4 DEF Consented!Next
<1> QED
  BY <1>4, <1>5

(* Onboarding scans by consent: one job per acceptance, and nothing is     *)
(* recorded for an acceptance that no longer stands, whatever commands     *)
(* overlap and whichever process dies (onboarding.py).                     *)
THEOREM ScansByConsent == Spec => ImplementsConsent
<1>1. Init => Consented!Init
  <2> SUFFICES ASSUME Init PROVE Consented!Init
    OBVIOUS
  <2>1. /\ offer.state = "UNSEEN" /\ scan.state = "NONE" /\ scan.offer = 0 /\ scan.cursor = 0
    BY DEF Init, NoOffer, NoScan
  <2> QED
    BY <2>1 DEF Consented!Init, Active
<1>2. IInv /\ [Next]_vars => [Consented!Next]_Consented!vars
  <2> SUFFICES ASSUME IInv, [Next]_vars PROVE [Consented!Next]_Consented!vars
    OBVIOUS
  <2>1. CASE UNCHANGED <<offer, scan>>
    BY <2>1, Stutters DEF consent, Active
  <2>2. CASE CreateOffer \/ ExpireOffer
    BY <2>2, UserStep
  <2>3. CASE Cancel \/ ExpireLease
    BY <2>3, CancelImplements, ClaimImplements
  <2>4. ASSUME NEW p \in Proc, Step(p)
        PROVE  [Consented!Next]_Consented!vars
    <3>1. CASE RenewOffer(p) \/ Accept(p) \/ Decline(p)
      BY <3>1, UserStep
    <3>2. CASE DeclineCancel(p) \/ Queue(p) \/ Claim(p) \/ Checkpoint(p) \/ Finish(p)
      BY <3>2, CancelImplements, QueueImplements, ClaimImplements, ReportImplements
    <3> QED
      BY <2>1, <2>4, <3>1, <3>2
      DEF Step, ReadOffer, DeclineAgain, Enter, Leave, QueueNothing, ClaimRefuse, ReadIndex,
          CommitIndex, ConflictIndex, Refuse, Die
  <2> QED
    BY <2>1, <2>2, <2>3, <2>4 DEF Next, vars
<1> QED
  BY <1>1, <1>2, Inductive, PTL DEF Spec, ImplementsConsent, Consented!Spec
===============================================================================
