------------------------------- MODULE SessionEnd -------------------------------
(***************************************************************************)
(* Where a project's terminal events go (runtime/cp_runtime/seal_queue.py):*)
(* to the primary root or, when that denies access before the delivery     *)
(* appends, to a fallback root the project is pinned to from then on; and  *)
(* how an event whose job could not be queued is found again from its      *)
(* receipt.  Each root has an event chain (EventChain), a queue (SealQueue)*)
(* and one receipt per event identity.                                     *)
(*                                                                         *)
(* Deliveries and lifecycle events hold the selection guard throughout;    *)
(* recovery and the workers of the queues do not.                          *)
(***************************************************************************)
EXTENDS Naturals

CONSTANTS
    Proc,       \* Hook processes, bootstrap workers, recovery runs
    Session,    \* identities of terminal events, delivered any number of times
    Lifecycle,  \* other events, each delivered once
    Faults,     \* subset of {"kill", "receipt"}: what else may go wrong
    None

ASSUME SessionEndAssumption ==
    /\ Session \cap Lifecycle = {}
    /\ Faults \subseteq {"kill", "receipt"}
    /\ None \notin Proc \cup Session

Root == {"primary", "fallback"}

VARIABLES
    chain,      \* events in each root's chain
    job,        \* what each root's queue has of each terminal event
    receipt,    \* the receipt each root has of each terminal event
    pinned,     \* whether the route to the fallback root has been written
    guard,      \* owner of the selection guard, or None
    sent,       \* lifecycle events delivered so far
    proc        \* memory of each process

vars == <<chain, job, receipt, pinned, guard, sent, proc>>

-------------------------------------------------------------------------------
NoReceipt == [kind |-> "none", origin |-> "primary"]
Off == [pc |-> "off", event |-> None, root |-> "primary", fresh |-> FALSE, todo |-> {}]

Init ==
    /\ chain = [r \in Root |-> {}]
    /\ job = [r \in Root |-> [s \in Session |-> "absent"]]
    /\ receipt = [r \in Root |-> [s \in Session |-> NoReceipt]]
    /\ pinned = FALSE
    /\ guard = None
    /\ sent = {}
    /\ proc = [p \in Proc |-> Off]

At(p, l) == proc[p].pc = l
Goto(p, l) == proc' = [proc EXCEPT ![p].pc = l]

(* _read_route: the root a project's events go to now. *)
Route == IF pinned THEN "fallback" ELSE "primary"

(* p is at l on its way to root r with event e; f says that it pinned r.   *)
Enter(p, l, e, r, f) ==
    proc' = [proc EXCEPT ![p] = [pc |-> l, event |-> e, root |-> r, fresh |-> f, todo |-> {}]]

(* _write_recovery_receipt replaces the receipt of that identity.  It never*)
(* raises; without a keyring what would be authenticated is a diagnostic.  *)
WriteReceipt(r, s, k, o) ==
    \E new \in {[kind |-> k, origin |-> o]} \cup
               (IF "receipt" \in Faults
                THEN {receipt[r][s], [kind |-> "diagnostic", origin |-> o]} ELSE {}) :
        receipt' = [receipt EXCEPT ![r][s] = new]

(* The exception leaves the guard and ends the process. *)
Stop(p) ==
    /\ guard' = IF guard = p THEN None ELSE guard
    /\ proc' = [proc EXCEPT ![p] = Off]

-------------------------------------------------------------------------------
(* Mutant: the route is read before the guard is taken. *)
LifecycleBeginEarly(p, e) ==
    /\ At(p, "off") /\ e \notin sent
    /\ sent' = sent \cup {e}
    /\ Enter(p, "lifecycle", e, Route, FALSE)
    /\ UNCHANGED <<chain, job, receipt, pinned, guard>>

(* append_lifecycle_event: the route is read under the guard. *)
LifecycleBegin(p, e) ==
    /\ At(p, "off") /\ e \notin sent
    /\ guard = None
    /\ guard' = p
    /\ sent' = sent \cup {e}
    /\ Enter(p, "lifecycle", e, Route, FALSE)
    /\ UNCHANGED <<chain, job, receipt, pinned>>

(* The append may fail; the receipt that leaves has the identity of an    *)
(* event no recovery looks for.                                            *)
LifecycleAppend(p) ==
    /\ At(p, "lifecycle")
    /\ \E added \in {{}, {proc[p].event}} :
          chain' = [chain EXCEPT ![proc[p].root] = @ \cup added]
    /\ Stop(p)
    /\ UNCHANGED <<job, receipt, pinned, sent>>

-------------------------------------------------------------------------------
(* prepare_session_end_with_recovery, started for the primary root's queue.*)
Deliver(p, s) ==
    /\ At(p, "off")
    /\ guard = None
    /\ guard' = p
    /\ Enter(p, "boundary", s, Route, FALSE)
    /\ UNCHANGED <<chain, job, receipt, pinned, sent>>

(* The guard is not free in time, or the route cannot be read. *)
DeliverRefused(p, s) ==
    /\ At(p, "off")
    /\ WriteReceipt("primary", s, "diagnostic", "primary")
    /\ UNCHANGED <<chain, job, pinned, guard, sent, proc>>

(* _preappend_boundary. *)
BoundaryPassed(p) ==
    /\ At(p, "boundary")
    /\ Goto(p, "append")
    /\ UNCHANGED <<chain, job, receipt, pinned, guard, sent>>

(* Any failure but a denial at the primary root ends the delivery, as does *)
(* a failure of append_event.                                              *)
AppendFailed(p) ==
    /\ At(p, "boundary") \/ At(p, "append")
    /\ WriteReceipt(proc[p].root, proc[p].event, "diagnostic", "primary")
    /\ Stop(p)
    /\ UNCHANGED <<chain, job, pinned, sent>>

(* mkdir of the chain's directory is denied: at the primary root that means*)
(* another root, whether or not the primary has a chain.                   *)
BoundaryDenied(p) ==
    /\ At(p, "boundary") /\ proc[p].root = "primary"
    /\ Goto(p, "pin")
    /\ UNCHANGED <<chain, job, receipt, pinned, guard, sent>>

(* Mutant: the route may be lost without the delivery noticing. *)
PinQuietly(p) ==
    /\ At(p, "pin")
    /\ pinned' \in {pinned, TRUE}
    /\ Enter(p, "boundary", proc[p].event, "fallback", TRUE)
    /\ UNCHANGED <<chain, job, receipt, guard, sent>>

(* _pin_fallback_root. *)
Pin(p) ==
    /\ At(p, "pin")
    /\ pinned' = TRUE
    /\ Enter(p, "boundary", proc[p].event, "fallback", TRUE)
    /\ UNCHANGED <<chain, job, receipt, guard, sent>>

(* The route cannot be written: the delivery ends without a receipt. *)
PinFailed(p) ==
    /\ At(p, "pin")
    /\ Stop(p)
    /\ UNCHANGED <<chain, job, receipt, pinned, sent>>

(* append_event deduplicates by identity. *)
AppendEvent(p) ==
    /\ At(p, "append")
    /\ chain' = [chain EXCEPT ![proc[p].root] = @ \cup {proc[p].event}]
    /\ Goto(p, "enqueue")
    /\ UNCHANGED <<job, receipt, pinned, guard, sent>>

Queued(r, s) == [job EXCEPT ![r][s] = IF @ = "absent" THEN "open" ELSE @]

(* enqueue_session_end; a delivery that has pinned the fallback root adds a*)
(* receipt there.                                                          *)
Enqueue(p) ==
    /\ At(p, "enqueue")
    /\ job' = Queued(proc[p].root, proc[p].event)
    /\ IF proc[p].fresh
       THEN WriteReceipt("fallback", proc[p].event, "pending", "primary")
       ELSE UNCHANGED receipt
    /\ Stop(p)
    /\ UNCHANGED <<chain, pinned, sent>>

(* The queue is full or locked, or there is no keyring. *)
EnqueueFailed(p) ==
    /\ At(p, "enqueue")
    /\ WriteReceipt(proc[p].root, proc[p].event, "recoverable", proc[p].root)
    /\ IF proc[p].fresh THEN Goto(p, "raise") /\ UNCHANGED guard ELSE Stop(p)
    /\ UNCHANGED <<chain, job, pinned, sent>>

(* In the delivery that pinned the root, `except Exception` catches the    *)
(* enqueue's failure too.                                                  *)
FallbackFailed(p) ==
    /\ At(p, "raise")
    /\ WriteReceipt("fallback", proc[p].event, "diagnostic", "primary")
    /\ Stop(p)
    /\ UNCHANGED <<chain, job, pinned, sent>>

-------------------------------------------------------------------------------
(* recover_pending_session_end of one root reads its receipts and its chain*)
(* and then takes the receipts one by one, in the order of their names.    *)
ReadReceipts(p, r, S) ==
    /\ At(p, "off")
    /\ proc' = [proc EXCEPT ![p] = [pc |-> "recover", event |-> None, root |-> r, fresh |-> FALSE,
                                    todo |-> {<<s, receipt[r][s]>> : s \in S}]]
    /\ UNCHANGED <<chain, job, receipt, pinned, guard, sent>>

Recover(p, r) == ReadReceipts(p, r, {s \in Session : receipt[r][s].kind # "none"})

(* Mutant: a diagnostic is as good as an authenticated receipt. *)
RecoverAnyReceipt(p, s) ==
    /\ At(p, "recover")
    /\ \E rec \in {x[2] : x \in proc[p].todo} :
        /\ <<s, rec>> \in proc[p].todo
        /\ job' = Queued(proc[p].root, s)
        /\ WriteReceipt(proc[p].root, s, "pending", proc[p].root)
        /\ proc' = [proc EXCEPT ![p].todo = @ \ {<<s, rec>>}]
    /\ UNCHANGED <<chain, pinned, guard, sent>>

(* An authenticated receipt of an enqueue that failed. *)
RecoverOne(p, s) ==
    /\ At(p, "recover")
    /\ LET rec == [kind |-> "recoverable", origin |-> proc[p].root] IN
        /\ <<s, rec>> \in proc[p].todo
        /\ s \in chain[proc[p].root]
        /\ job' = Queued(proc[p].root, s)
        /\ WriteReceipt(proc[p].root, s, "pending", proc[p].root)
        /\ proc' = [proc EXCEPT ![p].todo = @ \ {<<s, rec>>}]
    /\ UNCHANGED <<chain, pinned, guard, sent>>

RecoverSkip(p, s) ==
    /\ At(p, "recover")
    /\ LET rec == [kind |-> "diagnostic", origin |-> proc[p].root] IN
        /\ <<s, rec>> \in proc[p].todo
        /\ proc' = [proc EXCEPT ![p].todo = @ \ {<<s, rec>>}]
    /\ UNCHANGED <<chain, job, receipt, pinned, guard, sent>>

(* A receipt of another root, or of an event that is queued already, ends  *)
(* the run; so does an enqueue that fails, and there being no more.        *)
RecoverStop(p) ==
    /\ At(p, "recover")
    /\ Stop(p)
    /\ UNCHANGED <<chain, job, receipt, pinned, sent>>

(* process_queue acknowledges a job, gives it another turn or buries it    *)
(* (SealQueue says which).  The job carries no record hash, so a receipt   *)
(* written for it, when one exists or the turn failed, is a diagnostic.    *)
Work(r, s) ==
    /\ job[r][s] = "open"
    /\ \E l \in {"open", "done", "dead"} : job' = [job EXCEPT ![r][s] = l]
    /\ UNCHANGED receipt \/ WriteReceipt(r, s, "diagnostic", r)
    /\ UNCHANGED <<chain, pinned, guard, sent, proc>>

Die(p) ==
    /\ ~At(p, "off") /\ "kill" \in Faults
    /\ Stop(p)
    /\ UNCHANGED <<chain, job, receipt, pinned, sent>>

Next ==
    \/ \E p \in Proc, e \in Lifecycle : LifecycleBegin(p, e)
    \/ \E p \in Proc, s \in Session :
          Deliver(p, s) \/ DeliverRefused(p, s) \/ RecoverOne(p, s) \/ RecoverSkip(p, s)
    \/ \E p \in Proc, r \in Root : Recover(p, r)
    \/ \E r \in Root, s \in Session : Work(r, s)
    \/ \E p \in Proc :
          \/ LifecycleAppend(p) \/ BoundaryPassed(p) \/ BoundaryDenied(p) \/ AppendFailed(p)
          \/ Pin(p) \/ PinFailed(p) \/ AppendEvent(p) \/ Enqueue(p) \/ EnqueueFailed(p) \/ FallbackFailed(p)
          \/ RecoverStop(p) \/ Die(p)

Spec == Init /\ [][Next]_vars

-------------------------------------------------------------------------------
Receipt == [kind : {"diagnostic", "recoverable", "pending"}, origin : Root]

(* Every variable has its type; what a recovery run holds are receipts     *)
(* that exist.                                                             *)
TypeOK ==
    /\ chain \in [Root -> SUBSET (Session \cup Lifecycle)]
    /\ job \in [Root -> [Session -> {"absent", "open", "done", "dead"}]]
    /\ receipt \in [Root -> [Session -> Receipt \cup {NoReceipt}]]
    /\ pinned \in BOOLEAN
    /\ guard \in Proc \cup {None}
    /\ sent \subseteq Lifecycle
    /\ proc \in [Proc -> [pc : {"off", "lifecycle", "boundary", "append", "pin", "enqueue",
                                "raise", "recover"},
                          event : Session \cup Lifecycle \cup {None},
                          root : Root, fresh : BOOLEAN,
                          todo : SUBSET (Session \X Receipt)]]

(* From the moment a project is pinned to the fallback root, nothing is    *)
(* appended to its primary chain any more: histories are never interleaved *)
(* (the route is read under the guard that also covers the append).        *)
PrimaryFrozen == [][pinned => chain'["primary"] = chain["primary"]]_vars

(* The fallback chain never has an event the route does not lead to, even  *)
(* if the process that opened it died: the route is durable first.         *)
RouteFirst == chain["fallback"] # {} => pinned

(* Recovery is grounded: only events that are in a root's own chain are    *)
(* queued there, and a receipt that authorises queueing one, also one that *)
(* a recovery run has read and not yet used, names such an event.          *)
RecoveryGrounded ==
    \A r \in Root, s \in Session :
        /\ job[r][s] # "absent" => s \in chain[r]
        /\ receipt[r][s].kind = "recoverable" => s \in chain[r]
        /\ \A p \in Proc : At(p, "recover") /\ proc[p].root = r
              /\ <<s, [kind |-> "recoverable", origin |-> r]>> \in proc[p].todo => s \in chain[r]

(* Both roots may hold a history, but the two never alternate: once the    *)
(* fallback chain has an event, the primary chain is over, whoever was on  *)
(* the way to it and whoever died since (test_dual_histories_remain_       *)
(* separate_after_the_project_pin).  This rests on the route being durable *)
(* before the first append under it.                                       *)
HistoriesApart == [][chain["fallback"] # {} => chain'["primary"] = chain["primary"]]_vars

(* What the recovery test expects of an enqueue that failed after the      *)
(* append: the event is queued, or its receipt lets recovery queue it.     *)
EnqueueRecoverable ==
    \A r \in Root, s \in Session :
        s \in chain[r] /\ job[r][s] = "absent" /\ guard = None
            => receipt[r][s] = [kind |-> "recoverable", origin |-> r]

(* The queues of the two roots.  Seals are not part of this module: what   *)
(* is in the chain counts as sealed, as it can be at any time (SealQueue). *)
PrimaryBoard == INSTANCE JobBoard WITH
    Job <- Session, status <- job["primary"], sealed <- Session \cap chain["primary"]
FallbackBoard == INSTANCE JobBoard WITH
    Job <- Session, status <- job["fallback"], sealed <- Session \cap chain["fallback"]

(* The queues that deliveries, recoveries and workers share are used as    *)
(* JobBoard allows, which is what SealQueue implements: jobs are posted    *)
(* once, by whichever of them, and are done only when their event is in    *)
(* the chain of the same root.                                             *)
ImplementsJobBoards == PrimaryBoard!Spec /\ FallbackBoard!Spec
===============================================================================
