------------------------------- MODULE Onboarding -------------------------------
(***************************************************************************)
(* First-use onboarding of one project (runtime/cp_runtime/onboarding.py,  *)
(* onboarding_cli.py): an offer record the user answers, a scan record a   *)
(* worker claims under a lease, and the capability index the scan commits  *)
(* to.  Each command is a process that may die between any two steps.      *)
(*                                                                         *)
(* Commands lock the offer, then the scan.  What is done under the scan    *)
(* lock is one step: nothing waits for another lock while holding it.      *)
(* A clock that runs backwards is refused by every command (CLOCK_ROLLBACK)*)
(* and is left out; time is what makes an offer or a lease expire.         *)
(***************************************************************************)
EXTENDS Naturals

CONSTANTS
    Proc,           \* processes: clients that answer, workers that scan
    MaxRevision,    \* bound on the offer's revisions
    MaxIndex,       \* bound on the index's revisions
    None

ASSUME OnboardingAssumption ==
    /\ MaxRevision \in Nat /\ MaxIndex \in Nat
    /\ None \notin Proc

MaxAttempts == 3

VARIABLES
    offer,      \* offer.json
    scan,       \* scan.json
    index,      \* revision of the capability index, 0 while there is none
    lock,       \* owner of the offer's OwnerTokenLock, or None
    issued,     \* number of lease tokens drawn, which are unique
    proc        \* memory of each process

vars == <<offer, scan, index, lock, issued, proc>>

-------------------------------------------------------------------------------
NoOffer == [state |-> "UNSEEN", revision |-> 0, nonce |-> 0, expired |-> FALSE]
NoLease == [token |-> 0, generation |-> 0, expired |-> FALSE]
NoScan == [state |-> "NONE", offer |-> 0, cursor |-> 0, epoch |-> 0, attempts |-> 0, lease |-> NoLease]
NoTicket == [token |-> 0, generation |-> 0, epoch |-> 0]

(* What a command reads of the offer, the ticket a claim returned, the     *)
(* index revision a scan started from, the cursor it reached.              *)
Fresh == [pc |-> "idle", seen |-> NoOffer, ticket |-> NoTicket, base |-> 0, cursor |-> 0]

Init ==
    /\ offer = NoOffer /\ scan = NoScan /\ index = 0
    /\ lock = None /\ issued = 0
    /\ proc = [p \in Proc |-> Fresh]

At(p, l) == proc[p].pc = l
Goto(p, l) == proc' = [proc EXCEPT ![p].pc = l]

-------------------------------------------------------------------------------
(* The user's side: one record, always rewritten under its lock. *)

CreateOffer ==
    /\ lock = None /\ offer.state = "UNSEEN"
    /\ offer' = [NoOffer EXCEPT !.state = "OFFERED"]
    /\ UNCHANGED <<scan, index, lock, issued, proc>>

ExpireOffer ==
    /\ offer.state = "OFFERED" /\ ~offer.expired
    /\ offer' = [offer EXCEPT !.expired = TRUE]
    /\ UNCHANGED <<scan, index, lock, issued, proc>>

(* offer_status: what it shows is answered later, maybe more than once. *)
ReadOffer(p) ==
    /\ At(p, "idle") /\ offer.state # "UNSEEN"
    /\ proc' = [proc EXCEPT ![p].seen = offer]
    /\ UNCHANGED <<offer, scan, index, lock, issued>>

Current(p) == proc[p].seen.revision = offer.revision /\ proc[p].seen.nonce = offer.nonce

RenewOffer(p) ==
    /\ At(p, "idle") /\ lock = None
    /\ offer.state = "OFFERED" /\ Current(p) /\ offer.expired
    /\ offer.revision < MaxRevision
    /\ offer' = [offer EXCEPT !.revision = @ + 1, !.nonce = @ + 1, !.expired = FALSE]
    /\ UNCHANGED <<scan, index, lock, issued, proc>>

Answered(choice) == [offer EXCEPT !.state = choice, !.revision = @ + 1]

(* respond("ACCEPTED"); repeating the answer that stands changes nothing. *)
Accept(p) ==
    /\ At(p, "idle") /\ lock = None
    /\ offer.state \in {"OFFERED", "DECLINED"} /\ Current(p)
    /\ offer.state = "OFFERED" => ~offer.expired
    /\ offer.revision < MaxRevision
    /\ offer' = Answered("ACCEPTED")
    /\ UNCHANGED <<scan, index, lock, issued, proc>>

(* Mutant: the offer's lock is let go before the scan is cancelled. *)
DeclineUnlocked(p) ==
    /\ At(p, "idle") /\ lock = None
    /\ offer.state \in {"OFFERED", "ACCEPTED"} /\ Current(p)
    /\ offer.state = "OFFERED" => ~offer.expired
    /\ offer.revision < MaxRevision
    /\ offer' = Answered("DECLINED")
    /\ Goto(p, "declining")
    /\ UNCHANGED <<scan, index, lock, issued>>

(* respond("DECLINED") writes the offer and, still holding the offer's     *)
(* lock, goes on to cancel the scan.                                       *)
Decline(p) ==
    /\ At(p, "idle") /\ lock = None
    /\ offer.state \in {"OFFERED", "ACCEPTED"} /\ Current(p)
    /\ offer.state = "OFFERED" => ~offer.expired
    /\ offer.revision < MaxRevision
    /\ offer' = Answered("DECLINED")
    /\ lock' = p
    /\ Goto(p, "declining")
    /\ UNCHANGED <<scan, index, issued>>

(* The answer is repeated: whatever its revision, it cancels again. *)
DeclineAgain(p) ==
    /\ At(p, "idle") /\ lock = None
    /\ offer.state = "DECLINED" /\ proc[p].seen.nonce = offer.nonce
    /\ lock' = p
    /\ Goto(p, "declining")
    /\ UNCHANGED <<offer, scan, index, issued>>

Active == scan.state \in {"QUEUED", "RUNNING"}

(* _cancel_scan_locked. *)
CancelLocked ==
    scan' = IF Active
            THEN [scan EXCEPT !.state = "CANCELLED", !.epoch = @ + 1, !.lease = NoLease]
            ELSE scan

DeclineCancel(p) ==
    /\ At(p, "declining")
    /\ CancelLocked
    /\ lock' = None
    /\ Goto(p, "idle")
    /\ UNCHANGED <<offer, index, issued>>

(* cancel_scan takes the scan's lock only. *)
Cancel ==
    /\ Active
    /\ CancelLocked
    /\ UNCHANGED <<offer, index, lock, issued, proc>>

-------------------------------------------------------------------------------
(* The worker's side: lock the offer and read it, then lock the scan. *)

Commands == [queue |-> "idle", claim |-> "idle", checkpoint |-> "held", finish |-> "held"]

(* Mutant: the offer is read without its lock. *)
EnterUnlocked(p, c) ==
    /\ At(p, Commands[c])
    /\ proc' = [proc EXCEPT ![p].pc = c, ![p].seen = offer]
    /\ UNCHANGED <<offer, scan, index, lock, issued>>

Enter(p, c) ==
    /\ At(p, Commands[c]) /\ lock = None
    /\ lock' = p
    /\ proc' = [proc EXCEPT ![p].pc = c, ![p].seen = offer]
    /\ UNCHANGED <<offer, scan, index, issued>>

Unlock(p) == lock' = IF lock = p THEN None ELSE lock

(* The command raises, or finds nothing to change. *)
Leave(p, l) ==
    /\ Unlock(p)
    /\ Goto(p, l)
    /\ UNCHANGED <<offer, scan, index, issued>>

Queue(p) ==
    /\ At(p, "queue")
    /\ proc[p].seen.state = "ACCEPTED"
    /\ scan.offer # proc[p].seen.revision /\ ~Active
    /\ scan' = [NoScan EXCEPT !.state = "QUEUED", !.offer = proc[p].seen.revision, !.epoch = scan.epoch]
    /\ Unlock(p)
    /\ Goto(p, "idle")
    /\ UNCHANGED <<offer, index, issued>>

(* ONBOARDING_NOT_ACCEPTED, ONBOARDING_SCAN_ACTIVE, or queued already. *)
QueueNothing(p) ==
    /\ At(p, "queue")
    /\ proc[p].seen.state = "ACCEPTED" => scan.offer = proc[p].seen.revision \/ Active
    /\ Leave(p, "idle")

(* _require_accepted_offer. *)
Accepted(p) ==
    /\ scan.state # "NONE"
    /\ proc[p].seen.state = "ACCEPTED" /\ scan.offer = proc[p].seen.revision

Takeover == scan.state = "RUNNING" /\ scan.lease.expired

Claimable(p) ==
    /\ Accepted(p)
    /\ scan.state = "QUEUED" \/ Takeover
    /\ scan.attempts < MaxAttempts

Claim(p) ==
    /\ At(p, "claim") /\ Claimable(p)
    /\ issued' = issued + 1
    /\ LET g == IF Takeover THEN scan.lease.generation + 1 ELSE scan.attempts + 1 IN
        /\ scan' = [scan EXCEPT !.state = "RUNNING", !.attempts = @ + 1,
                                !.lease = [token |-> issued', generation |-> g, expired |-> FALSE]]
        /\ proc' = [proc EXCEPT ![p] = [Fresh EXCEPT !.pc = "held", !.ticket =
                        [token |-> issued', generation |-> g, epoch |-> scan.epoch]]]
    /\ Unlock(p)
    /\ UNCHANGED <<offer, index>>

ClaimRefuse(p) ==
    /\ At(p, "claim") /\ ~Claimable(p)
    /\ Leave(p, "idle")

ExpireLease ==
    /\ scan.state = "RUNNING" /\ ~scan.lease.expired
    /\ scan' = [scan EXCEPT !.lease.expired = TRUE]
    /\ UNCHANGED <<offer, index, lock, issued, proc>>

(* LEASE_FENCED, SCAN_CANCELLED, LEASE_EXPIRED. *)
Leased(p) ==
    /\ scan.state = "RUNNING"
    /\ scan.lease.token = proc[p].ticket.token
    /\ scan.lease.generation = proc[p].ticket.generation
    /\ scan.epoch = proc[p].ticket.epoch
    /\ ~scan.lease.expired

(* capability_index.scan reads the index, walks the project and commits    *)
(* under the index's own lock; the onboarding locks are not held.          *)
ReadIndex(p) ==
    /\ At(p, "held")
    /\ proc' = [proc EXCEPT ![p].pc = "scan", ![p].base = index]
    /\ UNCHANGED <<offer, scan, index, lock, issued>>

(* Mutant: the index may have changed since it was read. *)
CommitIndexAny(p) ==
    /\ At(p, "scan")
    /\ proc[p].base < MaxIndex
    /\ index' = proc[p].base + 1
    /\ proc' = [proc EXCEPT ![p].pc = "held", ![p].cursor = index']
    /\ UNCHANGED <<offer, scan, lock, issued>>

(* An index that would not change is not written again. *)
CommitIndex(p) ==
    /\ At(p, "scan")
    /\ index = proc[p].base
    /\ index' \in {index, index + 1} \cap 1 .. MaxIndex
    /\ proc' = [proc EXCEPT ![p].pc = "held", ![p].cursor = index']
    /\ UNCHANGED <<offer, scan, lock, issued>>

(* REVISION_CONFLICT. *)
ConflictIndex(p) ==
    /\ At(p, "scan")
    /\ index # proc[p].base
    /\ Leave(p, "held")

(* A cursor names the index revision that was committed. *)
Checkpoint(p) ==
    /\ At(p, "checkpoint") /\ Accepted(p) /\ Leased(p)
    /\ proc[p].cursor # 0
    /\ scan' = [scan EXCEPT !.cursor = proc[p].cursor, !.lease.expired = FALSE]
    /\ Unlock(p)
    /\ Goto(p, "held")
    /\ UNCHANGED <<offer, index, issued>>

Finish(p) ==
    /\ At(p, "finish") /\ Accepted(p) /\ Leased(p)
    /\ scan' = [scan EXCEPT !.state = "COMPLETED", !.lease = NoLease]
    /\ Unlock(p)
    /\ Goto(p, "held")
    /\ UNCHANGED <<offer, index, issued>>

(* The worker may try again with the ticket it has. *)
Refuse(p) ==
    /\ At(p, "checkpoint") \/ At(p, "finish")
    /\ ~(Accepted(p) /\ Leased(p)) \/ (At(p, "checkpoint") /\ proc[p].cursor = 0)
    /\ Leave(p, "held")

(* A process ends, is killed, or gives up waiting for a lock. *)
Die(p) ==
    /\ ~At(p, "idle")
    /\ Unlock(p)
    /\ proc' = [proc EXCEPT ![p] = Fresh]
    /\ UNCHANGED <<offer, scan, index, issued>>

Step(p) ==
    \/ ReadOffer(p) \/ RenewOffer(p) \/ Accept(p)
    \/ Decline(p) \/ DeclineAgain(p) \/ DeclineCancel(p)
    \/ \E c \in DOMAIN Commands : Enter(p, c)
    \/ Queue(p) \/ QueueNothing(p) \/ Claim(p) \/ ClaimRefuse(p)
    \/ ReadIndex(p) \/ CommitIndex(p) \/ ConflictIndex(p)
    \/ Checkpoint(p) \/ Finish(p) \/ Refuse(p) \/ Die(p)

Next ==
    \/ CreateOffer \/ ExpireOffer \/ Cancel \/ ExpireLease
    \/ \E p \in Proc : Step(p)

Spec == Init /\ [][Next]_vars

-------------------------------------------------------------------------------
OfferRecord == [state : {"UNSEEN", "OFFERED", "ACCEPTED", "DECLINED"},
                revision : 0 .. MaxRevision, nonce : Nat, expired : BOOLEAN]
LeaseRecord == [token : Nat, generation : 0 .. MaxAttempts, expired : BOOLEAN]
ScanRecord == [state : {"NONE", "QUEUED", "RUNNING", "COMPLETED", "CANCELLED"},
               offer : 0 .. MaxRevision, cursor : 0 .. MaxIndex, epoch : Nat,
               attempts : 0 .. MaxAttempts, lease : LeaseRecord]
Ticket == [token : Nat, generation : 0 .. MaxAttempts, epoch : Nat]

TypeOK ==
    /\ offer \in OfferRecord
    /\ scan \in ScanRecord
    /\ index \in 0 .. MaxIndex
    /\ lock \in Proc \cup {None}
    /\ issued \in Nat
    /\ proc \in [Proc -> [pc : {"idle", "declining", "queue", "claim", "held", "scan",
                                "checkpoint", "finish"},
                          seen : OfferRecord, ticket : Ticket,
                          base : 0 .. MaxIndex, cursor : 0 .. MaxIndex]]

(* Cancelling is a second step of a decline, taken between two steps of    *)
(* any other command; yet it only ever meets the scan of an acceptance     *)
(* that is over, never that of one the user gave after declining.          *)
DeclineStands ==
    \A p \in Proc : At(p, "declining") =>
        offer.state = "DECLINED" /\ scan.offer < offer.revision

(* The cursor names an index revision that has been committed.             *)
CursorCommitted == scan.cursor <= index

Consented == INSTANCE ConsentedScan WITH
    consent <- IF offer.state = "ACCEPTED" THEN offer.revision ELSE 0,
    job <- scan.offer,
    open <- Active,
    progress <- scan.cursor

(* Records, locks and leases implement scanning by consent. *)
ImplementsConsent == Consented!Spec
===============================================================================
