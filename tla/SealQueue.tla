------------------------------- MODULE SealQueue -------------------------------
(***************************************************************************)
(* The durable SessionEnd queue (runtime/cp_runtime/seal_queue.py): signed *)
(* job files that workers move between four directories under one queue    *)
(* lock, while they append the job's event to the chain and seal it with   *)
(* no queue lock held.  A worker may be killed between any two steps, and  *)
(* rewriting a job file and renaming it are two steps.                     *)
(*                                                                         *)
(* The event chain is taken at the level of EventLog: an event is          *)
(* committed once, and a seal covers all that is committed.                *)
(***************************************************************************)
EXTENDS Naturals, FiniteSets

CONSTANTS
    Worker,         \* worker processes that may run at the same time
    Job,            \* job digests; workers take them in sorted order
    Capacity,       \* CP_ASSISTANT_SEAL_QUEUE_MAX_JOBS
    MaxTurns,       \* --max-jobs
    FaultKinds,     \* the faults that may occur
    MaxFaults,      \* how many occur at most
    None, Gone

ASSUME QueueAssumption ==
    /\ Job \subseteq Nat
    /\ Capacity \in Nat /\ MaxTurns \in Nat /\ MaxFaults \in Nat
    /\ FaultKinds \subseteq {"kill", "keyring", "lock", "rename", "identity"}
    /\ None \notin Worker \cup Job /\ Gone \notin Worker /\ None # Gone

MaxAttempts == 3
Dir == {"pending", "running", "done", "dead-letter"}

VARIABLES
    committed,  \* jobs whose event is in the chain
    sealed,     \* jobs whose event the newest seal covers
    files,      \* <<directory, job>> -> content of that job file
    lock,       \* owner of the queue-state lock, or None
    worker,     \* memory of each worker process
    keyring,    \* whether the keyring can be read
    faults      \* the faults so far: how many and of which kinds

vars == <<committed, sealed, files, lock, worker, keyring, faults>>

-------------------------------------------------------------------------------
(* _job_paths and _job_file. *)
In(d) == {j \in Job : <<d, j>> \in DOMAIN files}
Queued(j) == \E d \in Dir : j \in In(d)

First(S) == CHOOSE j \in S : \A k \in S : j <= k

(* _atomic_json: the file appears, or is replaced, as a whole. *)
Put(d, j, c) ==
    files' = [f \in DOMAIN files \cup {<<d, j>>} |-> IF f = <<d, j>> THEN c ELSE files[f]]

(* os.replace into another directory. *)
Move(d, e, j) ==
    files' = [f \in (DOMAIN files \ {<<d, j>>}) \cup {<<e, j>>} |->
                IF f = <<e, j>> THEN files[<<d, j>>] ELSE files[f]]

(* lease_process_identity is bound to one process start; of a process that *)
(* has ended it equals no live identity, so that all such are one value.   *)
Disowned(w) ==
    [f \in DOMAIN files |-> IF files[f].owner = w THEN [files[f] EXCEPT !.owner = Gone] ELSE files[f]]

Off == [pc |-> "off", job |-> None, epoch |-> 0, todo |-> {}, turns |-> 0]

Init ==
    /\ committed = {} /\ sealed = {}
    /\ files = [f \in {} |-> None]
    /\ lock = None
    /\ worker = [w \in Worker |-> Off]
    /\ keyring = TRUE
    /\ faults = [count |-> 0, kinds |-> {}]

Fault(kind) ==
    /\ kind \in FaultKinds
    /\ faults.count < MaxFaults
    /\ faults' = [count |-> faults.count + 1, kinds |-> faults.kinds \cup {kind}]

At(w, l) == worker[w].pc = l
Goto(w, l) == worker' = [worker EXCEPT ![w].pc = l]

(* The end of one iteration of process_queue's loop. *)
NextTurn(w) ==
    worker' = [worker EXCEPT ![w] = [Off EXCEPT !.pc = "loop", !.turns = worker[w].turns - 1]]

(* The process ends, whichever way: its lock is freed, its leases go stale.*)
Exit(w) ==
    /\ worker' = [worker EXCEPT ![w] = Off]
    /\ files' = Disowned(w)
    /\ lock' = IF lock = w THEN None ELSE lock

-------------------------------------------------------------------------------
(* prepare_session_end appends the terminal event and then enqueues its    *)
(* job, unless the queue has it already, is full or cannot sign.           *)
PrepareAppend(j) ==
    /\ committed' = committed \cup {j}
    /\ UNCHANGED <<sealed, files, lock, worker, keyring, faults>>

(* Mutant: only open jobs are looked for. *)
EnqueueClosed(j) ==
    /\ j \in committed
    /\ lock = None
    /\ j \notin In("pending") \cup In("running")
    /\ Cardinality(DOMAIN files) < Capacity
    /\ keyring
    /\ Put("pending", j, [state |-> "pending", attempt |-> 0, epoch |-> 0, owner |-> None])
    /\ UNCHANGED <<committed, sealed, lock, worker, keyring, faults>>

Enqueue(j) ==
    /\ j \in committed
    /\ lock = None
    /\ ~Queued(j)
    /\ Cardinality(DOMAIN files) < Capacity
    /\ keyring
    /\ Put("pending", j, [state |-> "pending", attempt |-> 0, epoch |-> 0, owner |-> None])
    /\ UNCHANGED <<committed, sealed, lock, worker, keyring, faults>>

(* seal_worker.py, started by a later SessionEnd or by hand. *)
Launch(w) ==
    /\ At(w, "off")
    /\ worker' = [worker EXCEPT ![w] = [Off EXCEPT !.pc = "loop", !.turns = MaxTurns]]
    /\ UNCHANGED <<committed, sealed, files, lock, keyring, faults>>

-------------------------------------------------------------------------------
(* Mutant: jobs in running are not recovered. *)
BeginTurnOnly(w) ==
    /\ At(w, "loop") /\ worker[w].turns > 0
    /\ lock = None
    /\ lock' = w
    /\ worker' = [worker EXCEPT ![w].pc = "recover"]
    /\ UNCHANGED <<committed, sealed, files, keyring, faults>>

(* process_queue: a turn starts with _recover_running under the queue lock.*)
BeginTurn(w) ==
    /\ At(w, "loop") /\ worker[w].turns > 0
    /\ lock = None
    /\ lock' = w
    /\ worker' = [worker EXCEPT ![w].pc = "recover", ![w].todo = In("running")]
    /\ UNCHANGED <<committed, sealed, files, keyring, faults>>

EndTurns(w) ==
    /\ At(w, "loop") /\ worker[w].turns = 0
    /\ Exit(w)
    /\ UNCHANGED <<committed, sealed, keyring, faults>>

Recovering(w, j) == At(w, "recover") /\ worker[w].todo # {} /\ j = First(worker[w].todo)
Recovered(w, j) == worker' = [worker EXCEPT ![w].pc = "recover", ![w].todo = @ \ {j}]

RecoverSkip(w, j) ==
    /\ Recovering(w, j) /\ keyring
    /\ files[<<"running", j>>].owner \in Worker
    /\ Recovered(w, j)
    /\ UNCHANGED <<committed, sealed, files, lock, keyring, faults>>

(* Mutant: every job in running is taken for an orphan. *)
RecoverAny(w, j) ==
    /\ Recovering(w, j) /\ keyring
    /\ Put("running", j, [files[<<"running", j>>] EXCEPT !.state = "pending", !.owner = None])
    /\ Goto(w, "recovering")
    /\ UNCHANGED <<committed, sealed, lock, keyring, faults>>

(* The lease of a process that has ended, or, a fault, of one that lives   *)
(* but cannot be observed.                                                 *)
RecoverWrite(w, j) ==
    /\ Recovering(w, j) /\ keyring
    /\ \/ files[<<"running", j>>].owner \notin Worker /\ UNCHANGED faults
       \/ files[<<"running", j>>].owner \in Worker /\ Fault("identity")
    /\ Put("running", j, [files[<<"running", j>>] EXCEPT !.state = "pending", !.owner = None])
    /\ Goto(w, "recovering")
    /\ UNCHANGED <<committed, sealed, lock, keyring>>

(* If the rename to pending fails, one to dead-letter is tried. *)
RecoverMove(w) ==
    /\ At(w, "recovering")
    /\ LET j == First(worker[w].todo) IN
        /\ \/ Move("running", "pending", j) /\ UNCHANGED faults
           \/ Move("running", "dead-letter", j) /\ Fault("rename")
        /\ Recovered(w, j)
    /\ UNCHANGED <<committed, sealed, lock, keyring>>

(* Mutant: a job that cannot be verified is deleted. *)
RecoverDelete(w, j) ==
    /\ Recovering(w, j) /\ ~keyring
    /\ files' = [f \in DOMAIN files \ {<<"running", j>>} |-> files[f]]
    /\ Recovered(w, j)
    /\ UNCHANGED <<committed, sealed, lock, keyring, faults>>

(* A job that cannot be verified or signed now goes to dead-letter, also   *)
(* when its owner is at work.                                              *)
RecoverBury(w, j) ==
    /\ Recovering(w, j) /\ ~keyring
    /\ Move("running", "dead-letter", j)
    /\ Recovered(w, j)
    /\ UNCHANGED <<committed, sealed, lock, keyring, faults>>

-------------------------------------------------------------------------------
Choosing(w) == At(w, "recover") /\ worker[w].todo = {}

NothingPending(w) ==
    /\ Choosing(w) /\ In("pending") = {}
    /\ Exit(w)
    /\ UNCHANGED <<committed, sealed, keyring, faults>>

Choose(w) ==
    /\ Choosing(w) /\ In("pending") # {} /\ keyring
    /\ worker' = [worker EXCEPT ![w].pc = "claim", ![w].job = First(In("pending"))]
    /\ UNCHANGED <<committed, sealed, files, lock, keyring, faults>>

ChooseBury(w) ==
    /\ Choosing(w) /\ In("pending") # {} /\ ~keyring
    /\ Move("pending", "dead-letter", First(In("pending")))
    /\ lock' = None
    /\ NextTurn(w)
    /\ UNCHANGED <<committed, sealed, keyring, faults>>

(* The lease is written into the pending file, which is then renamed. *)
ClaimWrite(w) ==
    /\ At(w, "claim") /\ keyring
    /\ LET j == worker[w].job
           c == files[<<"pending", j>>]
       IN /\ Put("pending", j, [state |-> "running", attempt |-> c.attempt + 1,
                                epoch |-> c.epoch + 1, owner |-> w])
          /\ worker' = [worker EXCEPT ![w].pc = "claiming", ![w].epoch = c.epoch + 1]
    /\ UNCHANGED <<committed, sealed, lock, keyring, faults>>

(* The keyring is lost between verifying and signing: the exception ends   *)
(* the worker.                                                             *)
ClaimAbort(w) ==
    /\ At(w, "claim") /\ ~keyring
    /\ Exit(w)
    /\ UNCHANGED <<committed, sealed, keyring, faults>>

ClaimMove(w) ==
    /\ At(w, "claiming")
    /\ Move("pending", "running", worker[w].job)
    /\ lock' = None
    /\ Goto(w, "append")
    /\ UNCHANGED <<committed, sealed, keyring, faults>>

(* append_event with deduplicate_event_id, then seal_event_chain. *)
Append(w) ==
    /\ At(w, "append")
    /\ committed' = committed \cup {worker[w].job}
    /\ Goto(w, "seal")
    /\ UNCHANGED <<sealed, files, lock, keyring, faults>>

Seal(w) ==
    /\ At(w, "seal") /\ keyring
    /\ sealed' = committed
    /\ Goto(w, "ack")
    /\ UNCHANGED <<committed, files, lock, keyring, faults>>

(* Either raises: storage errors, an invalid chain, no keyring, a timeout. *)
WorkFail(w) ==
    /\ At(w, "append") \/ At(w, "seal")
    /\ Goto(w, "fail")
    /\ UNCHANGED <<committed, sealed, files, lock, keyring, faults>>

Leased(w) ==
    /\ worker[w].job \in In("running")
    /\ files[<<"running", worker[w].job>>].epoch = worker[w].epoch

AckWrite(w) ==
    /\ At(w, "ack") /\ lock = None
    /\ keyring /\ Leased(w)
    /\ lock' = w
    /\ Put("running", worker[w].job,
           [files[<<"running", worker[w].job>>] EXCEPT !.state = "done", !.owner = None])
    /\ Goto(w, "acking")
    /\ UNCHANGED <<committed, sealed, keyring, faults>>

(* JOB_READ_INVALID, no keyring, JOB_LEASE_MISMATCH. *)
AckRefuse(w) ==
    /\ At(w, "ack") /\ lock = None
    /\ ~(keyring /\ Leased(w))
    /\ Goto(w, "fail")
    /\ UNCHANGED <<committed, sealed, files, lock, keyring, faults>>

AckTimeout(w) ==
    /\ At(w, "ack") /\ lock # None
    /\ Goto(w, "fail")
    /\ UNCHANGED <<committed, sealed, files, lock, keyring, faults>>

AckMove(w) ==
    /\ At(w, "acking")
    /\ Move("running", "done", worker[w].job)
    /\ lock' = None
    /\ NextTurn(w)
    /\ UNCHANGED <<committed, sealed, keyring, faults>>

(* The rename fails: the lock is released and the failure branch taken. *)
AckMoveFail(w) ==
    /\ At(w, "acking")
    /\ Fault("rename")
    /\ lock' = None
    /\ Goto(w, "fail")
    /\ UNCHANGED <<committed, sealed, files, keyring>>

-------------------------------------------------------------------------------
(* The failure branch looks at the file in running, not at the lease. *)
FailGone(w) ==
    /\ At(w, "fail") /\ lock = None
    /\ worker[w].job \notin In("running")
    /\ NextTurn(w)
    /\ UNCHANGED <<committed, sealed, files, lock, keyring, faults>>

(* Mutant: two claims are enough. *)
FailWriteEarly(w) ==
    /\ At(w, "fail") /\ lock = None
    /\ worker[w].job \in In("running")
    /\ keyring
    /\ lock' = w
    /\ LET c == files[<<"running", worker[w].job>>]
       IN Put("running", worker[w].job,
              [c EXCEPT !.state = IF c.attempt + 1 >= MaxAttempts THEN "dead-letter" ELSE "pending",
                        !.owner = None])
    /\ Goto(w, "failing")
    /\ UNCHANGED <<committed, sealed, keyring, faults>>

FailWrite(w) ==
    /\ At(w, "fail") /\ lock = None
    /\ worker[w].job \in In("running")
    /\ keyring
    /\ lock' = w
    /\ LET c == files[<<"running", worker[w].job>>]
       IN Put("running", worker[w].job,
              [c EXCEPT !.state = IF c.attempt >= MaxAttempts THEN "dead-letter" ELSE "pending",
                        !.owner = None])
    /\ Goto(w, "failing")
    /\ UNCHANGED <<committed, sealed, keyring, faults>>

FailMove(w) ==
    /\ At(w, "failing")
    /\ Move("running", files[<<"running", worker[w].job>>].state, worker[w].job)
    /\ lock' = None
    /\ NextTurn(w)
    /\ UNCHANGED <<committed, sealed, keyring, faults>>

(* The keyring cannot sign: the exception ends the worker, and the job     *)
(* stays in running.                                                       *)
FailAbort(w) ==
    /\ At(w, "fail") /\ lock = None
    /\ worker[w].job \in In("running")
    /\ ~keyring
    /\ Exit(w)
    /\ UNCHANGED <<committed, sealed, keyring, faults>>

(* The lock is not free in time: the exception ends the worker. *)
LockTimeout(w) ==
    /\ At(w, "loop") \/ At(w, "fail")
    /\ lock # None
    /\ Fault("lock")
    /\ Exit(w)
    /\ UNCHANGED <<committed, sealed, keyring>>

Die(w) ==
    /\ ~At(w, "off")
    /\ Fault("kill")
    /\ Exit(w)
    /\ UNCHANGED <<committed, sealed, keyring>>

KeyringLost ==
    /\ keyring
    /\ Fault("keyring")
    /\ keyring' = FALSE
    /\ UNCHANGED <<committed, sealed, files, lock, worker>>

KeyringBack ==
    /\ ~keyring
    /\ keyring' = TRUE
    /\ UNCHANGED <<committed, sealed, files, lock, worker, faults>>

Step(w) ==
    \/ BeginTurn(w) \/ EndTurns(w)
    \/ \E j \in Job : RecoverSkip(w, j) \/ RecoverWrite(w, j) \/ RecoverBury(w, j)
    \/ RecoverMove(w)
    \/ NothingPending(w) \/ Choose(w) \/ ChooseBury(w)
    \/ ClaimWrite(w) \/ ClaimAbort(w) \/ ClaimMove(w)
    \/ Append(w) \/ Seal(w) \/ WorkFail(w)
    \/ AckWrite(w) \/ AckRefuse(w) \/ AckTimeout(w) \/ AckMove(w)
    \/ FailGone(w) \/ FailWrite(w) \/ FailMove(w) \/ FailAbort(w)

Next ==
    \/ \E j \in Job : PrepareAppend(j) \/ Enqueue(j)
    \/ \E w \in Worker : Launch(w) \/ Step(w) \/ AckMoveFail(w) \/ LockTimeout(w) \/ Die(w)
    \/ KeyringLost \/ KeyringBack

Spec == Init /\ [][Next]_vars

(* Worker processes are scheduled, a worker that polls the queue lock gets *)
(* it when it keeps becoming free, an outage of the keyring ends, and each *)
(* SessionEnd launches a worker, so that there always comes another one.   *)
TakesLock(w) == BeginTurn(w) \/ FailGone(w) \/ FailWrite(w) \/ FailAbort(w)

FairSpec ==
    /\ Spec
    /\ \A w \in Worker : WF_vars(Launch(w)) /\ WF_vars(Step(w)) /\ SF_vars(TakesLock(w))
    /\ WF_vars(KeyringBack)

-------------------------------------------------------------------------------
Content == [state : Dir, attempt : Nat, epoch : Nat, owner : Worker \cup {None, Gone}]

TypeOK ==
    /\ committed \subseteq Job /\ sealed \subseteq Job
    /\ DOMAIN files \subseteq Dir \X Job
    /\ \A f \in DOMAIN files : files[f] \in Content
    /\ lock \in Worker \cup {None}
    /\ worker \in [Worker -> [pc : {"off", "loop", "recover", "recovering", "claim", "claiming",
                                    "append", "seal", "ack", "acking", "fail", "failing"},
                              job : Job \cup {None}, epoch : Nat, todo : SUBSET Job, turns : Nat]]
    /\ keyring \in BOOLEAN
    /\ faults \in [count : 0 .. MaxFaults, kinds : SUBSET FaultKinds]

Without(kinds) == kinds \cap faults.kinds = {}

(* A job is in one directory at most, in every instant: no crash between   *)
(* writing and renaming, and no second delivery, leaves two files of it.   *)
OneFile == \A j \in Job, d, e \in Dir : j \in In(d) /\ j \in In(e) => d = e

(* While a worker processes a job, it holds the job's lease: the file is   *)
(* in running under its epoch and its process identity, or was buried for  *)
(* want of a readable keyring; unless it was taken for dead, or a rename   *)
(* has failed.                                                             *)
LeaseHeld ==
    Without({"identity", "rename"}) => \A w \in Worker : worker[w].pc \in {"append", "seal", "ack"} =>
        \/ Leased(w) /\ files[<<"running", worker[w].job>>].owner = w
        \/ worker[w].job \in In("dead-letter")

(* While the keyring is readable and renames succeed, a job is given up    *)
(* only after three claims.                                                *)
BuriedAfterThree ==
    [][\A j \in Job : keyring /\ Without({"rename"})' /\ j \notin In("dead-letter") /\ j \in In("dead-letter")'
           => files'[<<"dead-letter", j>>].attempt >= MaxAttempts]_vars

(* Every queued job is settled in the end, although workers die, stop for  *)
(* want of a lock or a keyring, and leave jobs behind.                     *)
JobsSettle == \A j \in Job : Queued(j) ~> j \in In("done") \cup In("dead-letter")

Board == INSTANCE JobBoard WITH
    status <- [j \in Job |->
        IF j \in In("done") THEN "done" ELSE IF j \in In("dead-letter") THEN "dead"
        ELSE IF Queued(j) THEN "open" ELSE "absent"]

(* The queue's files behave like one board of jobs. *)
ImplementsJobBoard == Board!Spec
===============================================================================
