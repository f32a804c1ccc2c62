# Formal models of the assistant runtime

The repository is a plugin for a coding agent: skills (prose), Hook scripts the
agent runs at session events, and a Python runtime, `src/runtime/cp_runtime`,
that keeps per-project records on disk. There is no server and no database. Every
operation is a short-lived process that reads JSON files, takes a file lock, writes
and exits, and the agent may kill it at any point. What is hard in this code is
therefore always the same: several processes on the same files, processes that die
between two writes, deliveries that are repeated, and locks, leases and caches that
are stale when used. These models are about that.

## 1. Inventory

| part | state it keeps | operations | hard behaviour |
|---|---|---|---|
| event chain (`event_v2.py`) | active file, closed segments, `.corrupt-tail-` files, one owner-token lock | `append_event`, `read_event_chain`, `verify_event_chain`, `aggregate_by_task` | concurrent writers, torn lines, rotation by rename, redelivery, dead lock owners |
| integrity (`integrity.py`) | keyring, detached seal chain | `init_keyring`, `rotate_key`, `seal_event_chain`, `verify_event_seals` | seals made from a stale read; loss of the keyring |
| archive (`event_archive.py`) | copies of closed segments, manifests | `archive_closed_segments`, `verify_archive`, reports | copy first, manifest last; interrupted runs |
| SessionEnd queue (`seal_queue.py`, `seal_worker.py`) | signed job files in four directories, queue lock | `enqueue_session_end`, `process_queue`, `launch_worker` | leases of dead processes, rewrite and rename as two steps, late acknowledgements, retries |
| SessionEnd routing (`seal_queue.py`) | route file, one recovery receipt per event identity, selection guard | `prepare_session_end_with_recovery`, `append_lifecycle_event`, `recover_pending_session_end` | permission denied half way, a second root, repeated deliveries, recovery from stale reads |
| onboarding (`onboarding.py`, `onboarding_cli.py`) | offer record, scan record | create, renew, respond; queue, claim, checkpoint, finish, cancel | two locks, compare-and-set answers, lease takeover, fencing of late workers |
| capability store and index (`capability_store.py`, `capability_index.py`) | versioned index, the index before it, copies of replaced ones | `commit`, `recover`, `scan`, `register`, `invalidate` | revision conflicts; crash between keeping the old index and publishing the new one; damaged files |
| G6 stack (`g6_*.py`) | budget journal, task origin, scope, receipts, allowances | prepare, reserve, receipt, terminal record, continue, recover, register, request, grant, revoke | permits that are stale when reserved, counters at their limits, duplicated and late records |
| root budget, version 5 (`budget_v5.py`, `routing_phase_plan.py`, `routing_v4.select`) | ledger of permits, attempts, results and the plan of review slots | prepare, reserve, receipt, link, observe, deliver, attest, release, accept, waive, revise, close | permits that are stale when used, reports of hooks in any order, retries and repairs |
| earlier budgets (`delegation_budget.py`, `budget_v4.py`) | ledgers of budget units | reserve, settle, reconcile, expire | as above |
| reader protocol (`routing_context_delivery_v2.py`, `context_recovery_v2.py`) | grant file, reading records in the ledger | admit, read, recover, deliver | bounded retries, a reader killed between ledger and grant |
| installer (`scripts/package_manager.py`) | managed files, plugin host, journal, backups, state files | install, uninstall, recover, status | kills between some twenty steps, user edits, a status that reads without a lock |
| evolution registry (`evolution/`) | aggregation state, candidate registry | incremental aggregation, promotion, retirement | watermark over a chain that grows and is rotated |
| capability gates, operations | admission records | admit, complete | single use of an admission |
| default activation (`desktop_default_activation.py`) | state, intent, approval, enrollment and pointer files | prepare, verify, activate, revoke, restore, resolve | killed between five files and tried again, a reader that takes no lock |
| task envelope (`execution_guard.py`, `approval.py`, `finalization.py`) | one state file per task, approval files | init, transition, gate, record, authorize, read back, validate, finalize | no lock at all, a repository that changes under every command, two files that are written one after the other |
| resume, review, routing, dispatch, research, memory | derived or validated documents | build, validate, score | mostly pure functions over records |
| notifications, spawn recovery | small state files | deliver, recover | retry |
| Hooks (`src/hooks`) | none of their own | dispatch of agent events to the parts above | the environment of all the others |
| other scripts, skills, docs, locales | release artefacts, prose | build, validate | build-time only |

How they interact. The Hooks call `append_lifecycle_event` for events in the middle
of a session and `prepare_session_end_with_recovery` at its end. The latter appends
the terminal event to the event chain, posts a job in the queue and starts a
detached worker; the worker appends the event once more (deduplicated), seals the
chain and acknowledges the job. A root that denies access is replaced by a fallback
root. Onboarding drives the capability index, which commits through the capability
store. The archive, the evolution registry and the reports read the event chain.

What makes each part correct:

- event chain: the hash chain verifies at every instant, no id twice, what was
  acknowledged stays, partial lines are saved before they are cut, seals and
  archive agree with the chain, locks are not left behind;
- queue: a job has one file, is posted once, is done only when its event is
  sealed, is held by one worker, is given up only after three claims, is settled
  in the end;
- routing: the histories of the two roots do not alternate, the route is durable before the
  fallback is used, recovery queues only what is in the chain;
- onboarding: declining cancels no scan but that of the acceptance it ends, nothing is recorded for
  an acceptance that does not stand, late workers are fenced;
- capability store: no update is lost, a revision names one index also after a
  recovery, recovery loses the newest update at most, nothing is replaced without a copy;
- G6 budget journal: what is in flight or charged never exceeds the capacity or a
  grant, what is required stays funded, a work is done by one call at a time, no call
  starts on a permission that was withdrawn, nothing is refunded;
- root budget: the usage kept by hand is what the attempts add up to, a slot and its
  attempts agree, a reservation leaves the rest of the plan fundable, a root closed as
  PASS was reviewed;
- installer: one version at rest or a journal that says otherwise, nothing of the
  user's is lost, the version can be undone, a good status report is of an installation that was intact at
  some moment of the reading;
- default activation: the pointer names what is in effect, an approval is consumed once
  however often its activation is tried again, a retry does not overwrite a default that was
  chosen since, nobody who reads half of it falls back to the old policy;
- task envelope: what a report confirms was approved for the fingerprint that decided it and
  the approval is used up, what it calls validated was there when it was validated, no approval
  stays free once it has authorised an action.

## 2. Modules

| module | what it is |
|---|---|
| `EventLog` | abstract: one sequence of events, ids unique, sealed and archived prefixes |
| `EventChain` | `event_v2.append_event`, `integrity.seal_event_chain`, `event_archive.archive_closed_segments` step by step |
| `EventChain_proofs` | theorems about `EventChain` |
| `JobBoard` | abstract: a job is posted once and closed once, as done only if sealed |
| `SealQueue` | `seal_queue.enqueue_session_end`, `process_queue` and its helpers |
| `SealQueue_proofs` | theorems about `SealQueue` |
| `ConsentedScan` | abstract: what a scan records belongs to an acceptance that stands |
| `Onboarding` | `OnboardingStore` and `onboarding_cli` `scan-run` |
| `Onboarding_proofs` | theorems about `Onboarding` |
| `SessionEnd` | routing to primary or fallback root, receipts, recovery |
| `SessionEnd_proofs` | theorems about `SessionEnd` |
| `IndexRegister` | abstract: a register with compare and set that may lose its newest value and go back by one update |
| `CapabilityStore` | `capability_store.commit` and `recover`, and how tools load the index |
| `G6Budget` | the budget journal: `g6_budget_v1`, `g6_allowance_contract`, and how the Hooks call them |
| `Stores_proofs` | theorems about `CapabilityStore` and `G6Budget` |
| `Sums` | the sum of a function over a finite set |
| `PhaseBudget` | the root budget of review dispatches: `budget_v5`, with the plan and the choice of a profile |
| `Installer` | `package_manager`: install, uninstall, rollback and recovery with journal and backups |
| `InstallerStatus` | the status command, which reads while the above runs |
| `BudgetAndInstaller_proofs` | theorems about `PhaseBudget`, `Installer` and `InstallerStatus` |
| `DefaultActivation` | `desktop_default_activation`: activation, revocation and restoration, and the lock-free reader |
| `DefaultActivation_proofs` | theorems about `DefaultActivation` |
| `TaskEnvelope` | `execution_guard`, `approval`, `finalization` over a repository that changes |
| `TaskEnvelope_proofs` | theorems about `TaskEnvelope` |
| `MC*` | constants for TLC |

`EventChain`, `SealQueue` and `SessionEnd` are layers over each other: `SealQueue`
and `SessionEnd` use the chain at the level of `EventLog` (an event is committed
once; a seal covers everything committed), which `EventChain` is shown to implement.
`SessionEnd` in turn uses the queue at the level of `JobBoard`, which `SealQueue` is
shown to implement, and is shown to ask nothing of it that `JobBoard` does not allow. The `map` of `PROJECT.json` gives the source lines of every
definition.

### EventChain

The closed segments and the active file are one sequence `log`, with `ends` marking
where each segment ends; a rename that closes a segment is an extension of `ends`. A
record is its event and `prev`, the hash it carries. Hashes are ideal: the hash of a
history is the history itself, so a record linked to a stale head differs from one
linked to the right head. `torn` is an unterminated last line. A process (`pc`)
acquires the lock for an append, a seal or an archive run and then makes one step per
system call that leaves a trace: save the tail, truncate it, rename, write, publish.
What it read stays in `view` and is what it later writes, so the model does fork when
the lock is broken (the `AcquireOwned` mutant). A process can die in front of each
step; the operating system then frees its lock, as it does for the `flock`/`msvcrt`
locks the code uses. A write may leave a partial line. A terminal event is delivered
with `deduplicate_event_id` alone (by the worker) or with the identity fields as well
(by the Hook), under the same or another event id.

### SealQueue

A job file is a pair of directory and job with its content: state, attempt, epoch and
owner. `_atomic_json` (a replaced file) and `os.replace` between directories are two
steps, so there are files whose state differs from their directory. `owner` stands
for `lease_pid` and `lease_process_identity`; the identity includes the start of the
process, so that the owner of a file becomes `Gone` when the process ends, and a
reused pid is not its owner. Faults are bounded by `MaxFaults` and limited to
`FaultKinds`: `kill` (a worker dies anywhere), `keyring` (it cannot be read for a
while), `lock` (the queue lock is not free within two seconds), `rename` (a rename
fails), `identity` (a live process cannot be observed). The failure branch
(`FailWrite`) tests, as the code does, that the job is in `running` and not that
its lease is still its own.

### SessionEnd

Each root has a chain (a set of events), a job per terminal event and a receipt per
event identity. A delivery holds the selection guard from reading the route to the
end; recovery and workers do not. Any failure of a delivery leaves the receipt the
code writes at that place; writing a receipt never raises and, with the fault
`receipt`, may do nothing or produce a diagnostic instead of an authenticated one. The
primary may be denied at any delivery (`BoundaryDenied`), whether or not it has a chain:
permissions change, and any `PermissionError` of `mkdir` leads to the fallback. So both
roots may have a history, as `test_session_end_recovery.py` expects
(`test_dual_histories_remain_separate_after_the_project_pin`). Lifecycle events' own receipts are
left out: their identity is that of no session end and recovery never uses them.
A worker processes the fallback's queue as it does the primary's (`Work`).

### Onboarding

The offer and scan records are rewritten whole under their locks. Commands take the
offer's lock, read the offer, then take the scan's; between the two other processes
may take the scan's lock (`cancel_scan` takes only that). What happens under the
scan lock is one step, since nothing waits there. Time is what makes an offer or a
lease expire; a clock that runs backwards is refused by every command and left out.
`scan-run` claims, scans (reads the index, then commits to it under the index's lock
if its revision is still the same), checkpoints and finishes, and may be killed in
between; a worker that was refused may try again with the ticket it holds. The
index is only its revision; commits by other tools than scans and cursors typed by
hand are left out. `COMPLETED` stands for every terminal state of a scan but
`CANCELLED`.

### CapabilityStore

Three kinds of files: `current` (`index.json`), `previous` (`index.previous.json`)
and `archive` (the `index.recovery-*.bin` copies). A record has its revision, its
payload and whether it is a restoration. A file is replaced as a whole
(`atomic_write_bytes`: temporary file and rename), so one write is one step; a commit
writes the previous index and then the new one, a recovery a copy and then the
restored index, and a process can be killed before each. A tool loads the index
without the lock, computes, and commits under the lock against the revision it has
loaded. `Damage` replaces `index.json` from outside by something that does not verify
or deletes it. Every way in which a call raises or finds nothing to do (conflict,
unchanged payload, a guard on the directory's identity) is `Leave`, since none of them
writes. Damage to `index.previous.json`, from which nothing can be recovered, is left
out, as is a copy of a `.bin` file that is deleted. A first index deleted before it was
ever updated cannot be told from one that never was; revision 0 may therefore be
created twice, and `RevisionNames` speaks of the revisions from 1.

`IndexRegister` says what tools may rely on: an update is made of the very version it was computed
from, a loss is not taken for an empty register, and going back reuses no revision and takes back one
update at most. Its register has the version of `index.json`, or none when that file does not
verify. While a commit is between its two writes, it has what `index.previous.json` already keeps, so
damage done in between is seen when the commit is given up (`Quit`), and not at all when it is published.

### G6Budget

The journal is append-only; every operation takes its lock, replays all of it, decides
and appends one record. So one operation is one step, and the variables are what
`replay` computes from the journal: the prepared permits, how far each is (`stage`:
`prepared`, `reserved`, a receipt `created` or `notstarted`, then `passed` or
`failed`), the call that reserved it (`by`), the works, the requests and the answers.
`_usage` and `snapshot` are the operators from `UnitsSpent` to `AttemptsLeft`,
computed from these and never stored.

Concurrency comes from the Hooks. A Hook prepares a permit, or finds one that was
prepared by an earlier attempt, reads the time (`Attempt`), waits for the locks, and
reserves (`Reserve`) or is refused or killed (`Deny`). Between these steps other Hooks
prepare and reserve, permits expire, and the user's answers are taken from the
transcript. A follow-up to an idle agent prepares a permit with a name of its own
(`Continue`). A call that the host ran although it was not reserved is charged when its
transcript is read (`Recover`; its check of the permits is made without the lock, and
is merged with the append). Reviews are registered, asked for, granted, revoked and
closed; what pays for a permit is its `funding`.

`decide` is abstracted to the profiles it may choose: any profile allowed for the item
for which `Affordable` holds. Preferences, fallbacks, adjustments, gates and depth
select among these or refuse, so the model has more permits than the code. What is
compared when a permit is reserved (arguments, messages, sessions, the decision at the
time of `prepare`) is left out. Permits expire in any order. `passed` is reported for
slots by the API only; the Hooks report what the model calls `failed`. Two things the
model allows as the code does are not what one would expect: a
required slot that failed is held for again even where there is no room, and nothing
more is prepared then; and a name may start two agents, because the time of a
reservation is read before the lock is taken.

### PhaseBudget

The ledger is append-only; an operation replays it under its lock, checks and appends
one event, so an operation is one step. The state is what replay computes. A permit is
used at most once, so permits and attempts share a number, and an attempt record holds
what the code keeps in several maps by reservation id (receipt, identity, observations,
delivery, final answer, result). `usage` is `_usage_cache`, which every event updates
by hand; `UsageOf` is the recomputation the code has for ledgers without it.
`revision` is `resource_revision`: `Revise` raises it when, and only when, the
economic projection changes, and `Current` compares it when a permit is used. What
lies outside the ledger and is compared as well (the capability snapshot, the
published cost cards) is `world`.

`Feasible` is `feasible_witness`: one profile for every pending slot so that all
limits hold. `Candidate` is the part of `select` that depends on the ledger; which
candidate is chosen, by cost cards and scores, is left open, so the model has more
choices than the code. `_project_host` is `Projected`: receipt and identity must both
be known before a start or stop counts. A reading is one step that delivers or breaks
the protocol. `Reason` and `Acceptable` are what `review_v5` and the ledger ask of a
result; the result `nonblocking` is treated as `pass` everywhere and is left out.

The model is of a `PRODUCTION` root with review roles. Left out are ordinary,
evaluation and research events, carries from older roots, role capacities and Astra
High attempts (bounded in the same way as phases and Astra), the bytes of requests and
answers, and the search limit of `feasible_witness`, at which it refuses. A stop that
reports `PASS` counts as one that reports `UNKNOWN`, since neither is a verdict. The
native root is bound at `Init`. An attempt whose creation receipt never arrives stays active and its root
cannot be closed; the documentation says so.

### Installer and InstallerStatus

A file is the block of the package and what the user wrote. Merged files (`AGENTS.md`,
`hooks.json`) hold both and are restored in parts; all others are replaced and restored
as a whole. Order, merged files and the targets whose hash is journaled before they are
written (`Intent`) are constants. Each change of a file, of the journal or of the host
is one step, and so is each read that a later step relies on; removing a target and
renaming its copy into place are two. The scope lock is tried without waiting and dies
with its process, so there is one process at most, `proc`, whose journal in memory may
be ahead of `live`, the one on disk, when it dies (`Crash`) or raises (`Fail`).
`Fail` inside a backup rolls back what was saved so far, and is the one place where the
records are not in the journal, so that recovery after it does not find them;
`OneVersion` leaves that case out. The host and its cache are external: the active plugin is the
payload it was added from, or, when the host is not there, skipped (`ghost.skipped`).

`InstallerStatus` adds a reader that takes no lock: state files, journal, host and
files one after the other, then state and journal again, and everything once more if
they changed. `was` remembers whether the installation was intact at some moment of the
reading, and `began` how many transactions there were when it began. `StatusSound` speaks of readings during
which one transaction begins at most. With two it is not true: state and journal are compared by
value, so when an upgrade is committed, uninstalled, that uninstall killed and recovered, and the
upgrade uninstalled once more, all while one status reads, the host may be read at the end
of the first uninstall and the files at the end of the second, with the state file the same before and
after, although the user changed a file in both. TLC finds this with four
transactions, one crash and two edits (a behaviour of 95 steps, with the commands restricted
to these).

Left out: `install_repo`, which follows the same journal without a plugin; migration of
old states, marketplace manifests and restoring of older caches; a backup directory
that is deleted or damaged; links and path checks.

### DefaultActivation

Putting a source into effect writes five files one after the other, each of which is
replaced as a whole: intent, enrollment, the consumed approval, state, pointer. One
holder has the locks of pointer, source and approval together, so `lock` is one; a
process may be killed or refuse before every write (`Interrupt`) and be started again.
What it found before its first write stays in `proc`; the previous default is what the
intent records. An approval that expires between being checked and being consumed is
consumed all the same, and then refused by a retry (`late`). `authorize-action` of
`execution_guard` consumes approvals of the same kind under no lock
(`ConsumeAuthorized`). The pointer file can be lost from outside (`LosePointer`), which
`restore_legacy` repairs. The reader (`resolve_default`) looks at one file per step. Installation
manifests, cards and time windows are checks whose refusal writes nothing, and are
left out, as is `g6_default_activation`. `spent` and `granted` count uses, for the properties and
bounds.

### TaskEnvelope

Every command of `execution_guard` loads the envelope, takes a snapshot of the
repository if it needs one, and saves the whole file; there is no lock. So a process
has the envelope it loaded (`copy`) and overwrites with it whatever was saved since. A
snapshot is five reads, one step each: HEAD, the status, the difference of the tracked
files to HEAD, that of the index to HEAD, and the untracked files. Between any two of
them tracked and untracked files are edited, staged and committed, and HEAD is
switched (pushes change nothing a snapshot's fingerprint has; `git checkout` writes files and index before HEAD; the model does these as
edits and a staging, and `Checkout` moves HEAD at the end). A fingerprint has what each read found, and may
be of files that never were together. One read is one step although git opens one file
after the other in it, and the model's tracked files, index and untracked files have one content each.
`seen` is a history variable, all the repository was
from the first read to the last. The upstream reference is read after these and is no
part of the fingerprint. `finalize` takes two snapshots: the first is quoted under
`readback.repo` and decides nothing (it is not modelled), the second decides every
surface, and its fingerprint is in the report as the evidence of `modified`; `print` is
the second. `authorize-action` consumes the approval in its file and then saves
the envelope, and may be killed in between (`Stop`, which is also every refusal).
Project, task and environment of an approval are folded into the `Operations` it
names. Transitions and gates are advisory in the code (a transition goes on without the
gates it lacks), so `gate` and `set-envelope` only write back what they loaded
(`Rewrite`). Reviews are recorded and judged like validations and are one kind of
`Check`.

## 3. Runs

| run | instance | what is shown |
|---|---|---|
| `chain` | 2 processes, 1 lifecycle event, 2 deliveries of one session's end under different ids, 1 record per segment, one torn event, no seal after two; 446,628 states | `ChainLinked`, `SealsAnchored`, `AckedCommitted`, `TailSavedBeforeCut`, refinement of `EventLog`, `LockFreed` |
| `queue` | 2 workers, 2 jobs, two faults of every kind with one job committed, one (a kill or a failed observation) with both; 167,261 states | `LeaseHeld`, `OneFile`, `BuriedAfterThree`, refinement of `JobBoard`, `JobsSettle` |
| `onboarding` | 2 processes, 3 offer revisions, 2 index revisions; 1,133,058 states | `CursorCommitted`, `DeclineStands`, refinement of `ConsentedScan` |
| `session_end` | 3 processes, 1 session end, 1 lifecycle event, kills and unwritable receipts; 428,531 states | `RecoveryGrounded`, `PrimaryFrozen`, `HistoriesApart` |
| `session_end_receipt` | 2 processes, 1 session end, no kills | violated: `EnqueueRecoverable` |
| `capability_store` | 2 processes, 2 payloads, revisions up to 5, 2 damages; 778,777 states | `RevisionNames`, `LosesOneUpdate`, `NothingDestroyed`, refinement of `IndexRegister` |
| `g6_budget` | 3 permits, 3 calls, a required slot, a review, one request, 3 units, 2 attempts; 657,745 states | `WithinCapacity`, `RequiredFunded`, `OneRunPerWork`, `ApprovedOnly` |
| `installer` | 5 targets, 3 transactions, two of edits, readings, crashes and failures; 2,065,181 states | `OneVersion`, `NothingLost`, `Undoable`, `StatusSound` |
| `phase_budget` | 3 slots, 2 profiles, 2 permits, 3 units, two things going wrong or changing; 211,141 states | `CacheExact`, `SlotHeld`, `PassMeansReviewed`, `HoldKept` |
| `phase_repair` | a post review and its repair, 3 permits | violated: `BlockersSuperseded` |
| `default_activation` | 2 processes, 2 sources, 3 approvals; 341,296 states | `PointerEffective`, `ConsumedOnce`, `NoOverwrite`, `NoSilentFallback` |
| `task_envelope` | 2 processes and 1 approval, or 1 process and 1 validation with untracked files and a commit; 2 contents that are edited and staged; 1,559,752 states | `ConfirmedAsApproved`, `FreshEvidence`, `ConsumedFirst` |

Why the bounds are enough to be interesting. In `chain`, three events with one record
per segment give two rotations, several seals, archive runs with more than one
segment, and a duplicate by id and one by identity; two processes are enough for every
race on the lock, and deaths are not bounded. `OneTornEvent` lets one event be torn,
as often as its appends fail, and `TwoSeals` lets nobody ask for a seal after two. They
cut a failing write and the taking of the lock, which have an alternative or no
fairness, so `LockFreed` means the same. In `queue`, two jobs give an order to
choose from and a worker that goes on with a second job; a worker may be overtaken
by the other after one kill. Workers are launched again and again with one job per run,
and failing appends, which are not faults, reach the third attempt and the dead letter.
The constraint `FewFaults` lets two faults of any kinds meet with one job; with two it
lets one worker be killed or be taken for dead. It cuts
arrivals and faults only, for which no fairness is assumed, so a behaviour that is cut
could also have gone on without them, and `JobsSettle` means the same. Two properties
depend on the faults there were: a live worker that cannot be observed, or whose
rename failed, may lose its lease, and `LeaseHeld` and `BuriedAfterThree` say so. In `onboarding`, three revisions
are an acceptance, a withdrawal and a second acceptance while the first scan is still
at work, and three attempts are reached by expiry and takeover. In `session_end`, the
session end is delivered any number of times, before and after a denial, while two other processes
deliver the lifecycle event, deliver again or recover. In `capability_store`, two damages
and five revisions are an update, a recovery, an update on top of it and another
recovery, with a second tool that still holds what it loaded before the first. In `g6_budget`, the
base pays for the slot and the review once, or for the slot twice and then no review,
and the grant for one more call of the review, so every hold and every limit decides;
the parallel limit of two and the family of which one call may run bind as well.
In `installer`, the five targets are one of each kind: merged, plain, payload, the
state file of the base plugin and the installer's own; three transactions are an
install, an upgrade and an uninstall or a rollback of either, and `FewEvents` lets two
of an edit, a reading, a crash and a failure meet. In `phase_budget`, units and attempts
pay for the post review under the dear profile or for it and its repair and one retry, so
choosing and retrying decide whether the rest is fundable; `FewMishaps` bounds what
goes wrong (a revocation, a failed stop, a denied reading, a call not started, an
incomplete answer) or changes (cards, evidence) to two together, and orders reports that
commute: the agent was seen to start before it reads, and a result is accepted after
the answer was attested. `phase_repair` has a third permit, for the second repair.
`TwoWaiting` lets two calls of `g6_budget` race for the locks at a time. In
`default_activation` the approvals are one to activate each source and one to restore the
old policy in place of the first, so that retries meet another default; one use by
`authorize-action` and one expiry race with them. The run `task_envelope` has two kinds of behaviours.
With approvals, a snapshot has to differ from the approved one, or not: one change between its reads is
enough for a mixed one, two commands for an envelope that is overwritten. With a validation, one change that leaves
HEAD in place falls between the reads of a snapshot, and none between those of a report's, since
`FreshEvidence` says nothing of more; between the commands anything may happen, so that a mixed fingerprint may
be met by the repository later. That two commands overwrite each other's
evidence is left to the proof. The envelope is made once; a transition,
which decides nothing but the next transition, a report that blocks or (with a validation) is made, after which nothing new is said, and
a stale mark on the one validation, which is then as good as none, end a behaviour.
Symmetry is used among processes,
workers, session ends, permits and agents, in runs without liveness. Deadlock is
checked in every run but those of `G6Budget` and `PhaseBudget`, where permits are
finitely many and the task ends, of `Installer`, where transactions are, of `DefaultActivation`, where
approvals are, and of `TaskEnvelope`, where commits and approvals are.

Each property of a passing run has a mutant in `PROJECT.json`, an operator marked
`Mutant` in the module, for which the run finds the property violated.

### Fairness

- `LockFreed`: weak fairness of each process's steps while it holds the lock. Nothing
  in the code waits while it holds the event lock, and a dead process's lock is freed.
- `JobsSettle`: weak fairness of `Launch` (every SessionEnd launches a worker, so
  another one comes), of a worker's steps (it is scheduled), of `KeyringBack` (an
  outage ends), and strong fairness of taking the queue lock (`OwnerTokenLock` polls
  for two seconds while others hold it for some file operations). With a last session
  whose worker is killed, the job stays until the next session or until the
  worker is started by hand; that is what fairness of `Launch` abstracts from.

### What the violated runs show

- `EnqueueRecoverable`. An event that was appended and not queued leaves an
  authenticated receipt from which `recover_pending_session_end` queues it. There is
  one receipt per identity, and a repeated delivery that is refused (the selection
  guard is not free in time) replaces it by a diagnostic, which recovery skips. The
  event stays in the chain unsealed until it is delivered once more with success or
  another event's worker seals the chain.
- `BlockersSuperseded`. The routing contract says that a repair's result supersedes the
  blocker. `result_supersedes` takes what is superseded from the permit's transition,
  and the transition of a second attempt at the repair must name the first attempt. If
  that one ended blocking or incomplete, the repair that passes supersedes it and not
  the post review's blocker, which then refuses `CLOSED` with `PASS` for good. Version 4
  took the list from its caller, and a test of it names both.

## 4. Proofs

Every safety property of the passing runs is proved, and so are the four
refinements and that `SessionEnd` uses its queues as `JobBoard` allows. Type correctness is proved of every component.

The theorems hold for every number of processes, workers, jobs, events, sessions, payloads, permits,
calls, requests, targets, transactions and faults, every order of targets and every segment size, from the
assumptions the modules name:

- `IdsAssumption`: a lifecycle event shares its id with no other event, since the code draws 128
  random bits; `SegmentAssumption`: a segment holds a record at least;
- `QueueAssumption`: jobs are ordered, as names of files are; `OnboardingAssumption`,
  `SessionEndAssumption`: bounds are numbers and `None` is no process;
- `StoreAssumption`: there is a payload, and the contents of a missing and of a damaged file
  are no records;
- `BudgetAssumption`: permits and items are finitely many (a journal is a finite file), every
  work has one profile, prices are positive. That the slots can be paid for at the start is
  not an assumption: `JournalInit` requires it as `initialize` does
  (`g6_budget_v1.py:599`);
- `PhaseBudgetAssumption`: the shape of a plan of finitely many slots;
- `InstallerAssumption`: targets are distinct, the payload and the state files are not merged files;
  `StatusAssumption`: status compares the hashes of a list of files that are not merged;
- `ActivationAssumption`: approvals have a kind and a source; `EnvelopeAssumption`: which calls there are;
- `NilAssumption`, `NoneAssumption`: the value that stands for nothing is no record.

Proof modules are shared by two components where their models have no name in common; the lemmas
on sums are stated in both that need them.

### EventChain

The properties are not inductive. What a process does with `view` is
only right because it owns the lock, so the invariant `IInv` adds `LockInv` (every
process that is not idle owns the lock: exactly one is), `ViewInv` (what it read is
still what is on disk, and its position tells whether there is a torn tail and
whether its event is new), `EndsInv` (segments end in order within the log), and
`AckInv` (an event about to be acknowledged is in the log) to `TypeOK`,
`ChainLinked`, `IdInv` and `SealsAnchored`. Theorem `Inductive` proves it one action
at a time; the safety theorems and the action properties `FilesOnlyGrow` and
`TailAlwaysSaved` follow from it.

`StoreIsEventLog` is the refinement. The abstract archive is how far the last manifest reaches, which
is a prefix only because an archive run takes the closed segments from the first that is not archived on.
`ArchiveInv` says so: the manifests name the segments `1..k`, the last head is where segment `k` ends, and what
a run has copied lies behind. With it a manifest maps to `Archive`, a seal to
`Seal`, a write to an append, and every other step, deaths and cut tails included, to no step.

### SealQueue

A file's content says who works on a job, and the file moves and is rewritten in separate steps. `IInv` is
`TypeOK`, `OneFile`, `sealed \subseteq committed`, and for every worker what its position implies: in the middle of
a locked section it owns the queue lock (`Locked`); what it remembers of the file it recovers, claims or settles
is in that file (`Recovery`, `Claiming`, `Settling`); its event is committed before it is sealed and sealed before
it is acknowledged (`Work`); it holds its lease unless it was taken for dead or a rename failed (`Lease`).
`OneFile` needs the first four, since only the owner of the lock moves files. The
refinement of `JobBoard` follows from the same invariant. `First` chooses the least job of a set; that there
is one is the well-ordering of the natural numbers (`FirstIn`).

### SessionEnd

`IInv` adds to the types and `RecoveryGrounded` `GuardInv` (who delivers holds the
guard), `RouteInv` (the root a delivery works on is the one the route leads to, or it
is about to write it), `EventInv` (what is between append and enqueue is in the
chain) and `RouteFirst` (the fallback chain is empty until the route is durable).
`PrimaryStaysFrozen` follows since only a holder of the guard appends, and
its root was read under the guard; `HistoriesStayApart` since a fallback chain with an event
means, by `RouteFirst`, a durable route. Nothing is assumed of the primary chain when it is denied.

`QueuesAreJobBoards` joins the layers: the queue of each root, as deliveries, recoveries and workers use it here, is a
`JobBoard`, of which `SealQueue` is the implementation. Seals are not part of `SessionEnd`; an event in the chain counts
as sealed. A job is done only if its event is in the chain of the same root, which is `RecoveryGrounded`.

### Onboarding

A worker that lost its lease goes on, so what makes cursors right is who has which token. `IInv` adds to the
types `LockInv` and `SeenInv` (between the two locks of a command the offer stays what was read), `JobInv` (a
job serves an acceptance there has been), `AttemptInv` (a lease's generation is the number of claims), `TokenInv`
(a token is in one ticket at most) and `CursorInv` (every cursor names an index revision there has been, and that of
the worker with the lease is not behind the job's). The refinement of `ConsentedScan` maps a job to whether its
acceptance stands, and uses `SeenInv` for the two locks. `DeclineAlwaysStands` needs `LockInv` and, as `DeclineInv`, that a
declined offer is newer than the offer of every scan there is.

### CapabilityStore

What makes a published revision safe is decided when the lock is
held and the old index is kept, two steps before it is published; meanwhile
`index.json` may be damaged. `IInv` adds to the three invariants `LockInv`, `SeenInv`
(what a process has loaded was published, and what it commits follows that),
`FilesInv` (a valid `index.json` is the newest there was, at most two revisions after
the previous one and then a restoration) and `PublishInv` (what is about to be
published is newer than everything published, or the same as what its revision
names). The invariants of the run are proved, and `NoLostUpdate` and `RevisionsRise`.

`StoreIsIndexRegister` is the refinement. `WriteInv` says of the process about to publish which step of the register that
will be: an update (the previous index is what it loaded, as far as revisions tell, and `index.json`
is still that or damaged), a first index (there is none), or a restoration (what it replaces, if it verifies, is
one update after the previous index). `NoLostUpdate` is what makes the first of these a compare and set; that a
restoration goes back by one update only follows from `FilesInv`: an index two revisions after the previous one
is a restoration of it.

### G6Budget

Every limit is a sum over permits, computed anew from the journal. `JournalInv` is `JournalType`, `WithinCapacity`,
`RequiredFunded`, `Single` (the calls in flight for a work are one) and `Asked` (what is granted was asked for,
what pays was granted once, what is required was registered). Steps are of three kinds. Most spend
nothing (`Thrifty`): what pays stays or shrinks, the number of attempts stays, and the holds for required
work do not grow. Reserving and recovering spend (`Spends`), and decide again that the permit is affordable at that
moment, so it does not matter how old it is. Registrations, grants and closings move limits, and check the room when
they do (`RegisterFunded`, `CapacityKept`).

Sums are written without recursion (`Sums`): the sum of `w` over `S` is the number of units in the set of
pairs of an element and a number up to its weight, so that adding to a sum is adding disjoint finite sets, which the
library's theorems on cardinality cover (`TotalAdds`, `TotalAgrees`).

### PhaseBudget

A permit is chosen when it is prepared and used later, and `Reserve` does
not compute feasibility again. `HoldKept` therefore needs to know of every permit that
is still current that its choice would be made now. This is `Funded`; it is kept because
every step either leaves all that feasibility is computed from alone or raises
`revision` and so ends the permit (`Aging`, `LiveKept`). With `TypeOK` and `Backed`
(an attempt has a permit) it is inductive, and `OnlyReserve` says that no other step
makes an attempt. `SlotHeld` needs that a slot's newest permit is its newest attempt:
`Numbered`, `Used` and `Ordered` (a permit that is current has a higher number than every
attempt, because every reservation ends the current ones), and `Sound` (an attempt with
a result has ended). One lemma per kind of step shows what it does to one slot and that
it leaves the others alone. Together these are `HeldInv`.

`CacheExact` compares a record of counters with six sums and counts over the attempts. Each event changes one attempt,
and `Users`, `Keepers` and `Flyers` are the sets the counters count: a lemma for each of charging, landing and refunding says which
of the sets the attempt enters or leaves (`ChargeParts`, `LandParts`, `RefundParts`), and three more that the
increments of the code are the difference in size (`BillCharged`, `BillLanded`, `BillRefunded`).

`PassMeansReviewed` is about a moment long after the one in which a slot was settled. `ReviewInv` keeps the reason: an
attempt's result is one its observations allow and supersedes nothing but the blocker its permit names (`Truthful`), a permit
names an earlier attempt of its own slot or the blocker its repair is for (`Named`), and a slot that is waived or
satisfied is so because of a result (`Granted`). What is known of attempts is never
taken back (`Grows`), so a reason stays one.

### Installer

Nearly every step may be the last one of its process, so what is true must be true of the files, the backups and the journal
on disk after each of them. Types and the position of the process (`Typed`, `Protocol`: how far
the journal on disk is at each place of the program) carry three invariants.

- `UndoInv`, for `Undoable`: the state file names a backup with a manifest that holds the state file, or the
  transaction that wrote it is not over (`VersionSound`); the same is true of the state file in every backup
  (`BackupsSound`), so that giving one back is safe; the transaction an uninstall undoes is an older one with a
  manifest (`Undoes`); and a rollback that met no error has given the state file back or never took it
  (`GivenBack`, `NotReached`), which is what makes `ROLLED_BACK` true.
- `KeptInv`, for `NothingLost`: a text the user wrote is kept if a backup has it or it was waived. Once the backup is made
  everything on disk is kept (`Secured`), and edits made later, while the process runs, are waived. A recovery runs
  after edits that no backup has. It removes a file only if it is in the backup or is what the journal says the transaction made of
  it, and what the journal says is kept as well (`JournalSecured`).
- `OneInv`, for `OneVersion`: unless an install failed before its records were journaled, the installation is of one
  version when the journal is settled (`RestConsistent`), and so is every backup that can be given back
  (`ManifestsConsistent`, `SavedConsistent`). In between, the targets before the position of an install are of its version
  (`ForwardInv`), those behind the position of an uninstall are of the version it goes back to (`BackwardInv`), and
  those behind the position of a rollback without errors are as in its backup (`RollingInv`). A target that is in no records is the state file of a
  base plugin that was not there (`LeftOut`).

`StatusSound` is about a reading that spans many steps of others, and the model remembers of it only `was`. Two
invariants make up for that.

- `LineageInv` says of which version the files are, and does so of what status sees: of whole files,
  whoever wrote them. `OneInv` is of no use here, since it leaves out files the user edited
  and installs that failed before their records were journaled. It has the same shape (`RestOf`, `ForwardOf`,
  `BackwardOf`, `RollingOf`, and `Dated`, `ManifestsOf`, `SavedOf` for the backups): a target of a version at rest
  is of the version of the state file or has been replaced by the user.
- `ReadInv` says why a reading that never met an intact installation will notice. As long as it has found all well, something
  it has yet to look at is not what the report says: the state file (`StateGone`), a file whose hash is still to be compared
  (`FileGone`), or the host (`HostGone`). For that to last until it is read, what is missing must not come back (`Gone`, `GoneStays`):
  not now, not by a rollback, since the backup does not have it, and not by an uninstall under way, since the backup it gives back
  does not have it. What a transaction that begins later could bring back is excluded by `LineageInv` and `Dated`: backups
  hold what older transactions installed. A second transaction in one reading could go back to the version read, which is why the
  property leaves it out; `Overtaken` counts them.

The run checks `StatusSpec`, in which status reads between any two steps. `ReadingIsHarmless` carries the other three properties over to it.

For each of the 25 actions one lemma shows types and protocol with the action's effect, and one for each invariant what
becomes of it. `EditStep` is part of all of them: the user may edit between any two steps.

### DefaultActivation

Whether a retry finds what it needs depends on where the call before
it was interrupted, on approvals and on state files that other calls changed since. `IInv`
says of every source what its files tell of each other (`StateInv`), of every approval what
its use implies (`SpentInv`), and of the holder of the lock what it has still to do and that
what it saw stands (`LockInv`, `HolderInv`).
The four properties of the run follow, and two more: `Resumable` (an activation that
was interrupted after it consumed its approval finds all it needs to be tried again)
and `ApprovedChoice` (the policy in force is one that a used approval allowed).

### TaskEnvelope

Any copy of the envelope, however old, may be saved at any time, so the
invariant cannot be about the file alone. `IInv` says that every envelope, saved, loaded or
half made, is sound with respect to the approval files (what it authorises names a
consumed approval of the same fingerprint; what it confirms was authorised for the fingerprint
of its readback) and to the commits there are. Approval files change in one direction
only, and commits are only added, so what was sound stays so (`Keeps`, `Extends`): this is why
processes that overwrite each other do no harm to the three properties.

`ReportFresh` is about what five reads can say of a repository that changes. `Complete` says of every fingerprint that
each of its parts is that of some state in `seen`, as long as HEAD was the same in all of them (`Steady`; else the two differences are to
different commits). Two states that are one change apart share two of the three contents (`Near`, kept as `Linked`), and a
difference to a given commit tells the content. So a fingerprint taken over one change has the contents of one of
the two states (`FreshTree`): the repository at rest that has this fingerprint is that state.

### What is left to TLC

- `LockFreed` and `JobsSettle`: liveness under fairness is out of the prover's reach.
- The invariants were checked by TLC on the instances of the runs before they were proved. Those that no run lists are `UniqueIds`,
  `OnlyExtended`, `RouteFirst`, `NoLostUpdate`, `RevisionsRise`, `Resumable`, `ApprovedChoice`, `ImplementsJobBoards`, the inductive invariants named above
  and the types.

## 5. What is not modelled

Within the modelled parts: HMAC and hash collisions; validation of payloads and of
paths (symbolic links, foreign roots); wrong jobs (another project's) moved to the
dead letter; `rotate_key`; `capacity_report` and `health_overview`; `aggregate_by_task`;
the v6 legacy root, which is read only; `prepare_session_end`, which nothing calls; the
capacity of the queue filling up with closed jobs over months. Notes in the `hazards`
of `PROJECT.json` say of the hazards no property covers why that is so.

The other components of the inventory have status `not_modelled` in `PROJECT.json`
with the reason.

Many components are left. The largest are the review controller (`review_controller.py`, files of one process at a time), the
budgets of versions 3 and 4 (the protocol of version 5 with fewer events), `checkpoint.py`
(a single process that writes a document), and the observation and qualification tools,
which compute from recorded data. What is known of modelled parts, that no
property is about and that is not in the list of `PROJECT.json`:

- a `PermissionError` of `mkdir` is taken as proof that the event is in no chain ("positive proof that no append_event
  call occurred", `seal_queue.py:487`; "Never replay it to another root", `:374`). It is proof for the delivery that was
  denied. If an earlier delivery of the same session end was appended to the primary chain, the denied
  redelivery appends it to the fallback chain as well, and `SessionEnd` has that behaviour (deliver and append, deliver again,
  `BoundaryDenied`, `Pin`, append): `Session \cap chain["primary"] \cap chain["fallback"] = {}` is no
  invariant of it;
- two edits between the reads of one snapshot, with HEAD where it is, file a validation under the fingerprint of files that
  never were there together (`common.py:291-294`); once they are, `finalize` calls them validated, though
  `docs/APPROVAL_EVIDENCE_FINALIZATION.md:81` says that evidence is `STALE` after a change.
  `FreshEvidence` without its exception `OneChange` is violated by TLC in this way;
- `docs/APPROVAL_EVIDENCE_FINALIZATION.md:112` lets a local upstream reference support `pushed`, with a
  limitation. The code does not: `derive_surfaces` takes only an action that was read back (`finalization.py:71`), and the report
  says that an upstream reference is no substitute (`:129`). `ConfirmedAsApproved` follows the code;
- a report quotes a snapshot under `readback.repo` (`finalization.py:91`, `:115`) and decides its surfaces by another one, taken
  later (`:48`, `:100`), so what it quotes need not be what it confirms;
- a worker whose job was cancelled or taken over still commits its index
  (`onboarding_cli.py:55`), though the release notes of v7.8.1 promise "late-result rejection":
  the checkpoint's `commit` callback is passed by no caller, and only the cursor is refused;
- a job that died on its third attempt stays `RUNNING` until somebody cancels it
  (`onboarding.py:250`);
- in a G6 journal without registered works, two permits prepared for one item before either
  is reserved can both be reserved (`g6_budget_v1.py:720`);
- a partial line in a JSONL journal (G6, root budget) is refused for good, while the event chain
  repairs its own (`common.py:146`);
- one approval can be consumed by two calls that check it before either writes
  (`approval.py:155`), as no lock is taken, though the documentation calls it single-use;
- a commit is read back as approved when `HEAD` has moved, whatever was committed
  (`execution_guard.py:490`), though `docs/APPROVAL_EVIDENCE_FINALIZATION.md` says that an
  approval fails when the code changes before the action;
- of two commands of `execution_guard` that overlap the later save wins, so that a failed
  validation, a stale mark or a closed phase may be undone;
- an activation that is tried again passes its check of the pointer although the user went back
  to the old policy meanwhile, since the intent does not record the previous default's status
  (`desktop_default_activation.py:352`); a restoration killed after consuming its approval needs
  another one (`:476`), and an intent whose approval expired blocks its source (`:351`);
- installing journals an intent for three targets only; a file copied and not yet recorded
  when the process dies is owned by nobody (`package_manager.py:2248`), and recovery does not
  activate the base plugin again (`:2801`);
- a torn chain refuses deliveries until another append repairs it (`seal_queue.py:350`);
- `recover_pending_session_end` stops at a receipt it has itself marked as queued
  (`seal_queue.py:565`);
- an index deleted before its first update is created again as revision 0
  (`capability_store.py:351`);
- a G6 journal that is full refuses the receipts of calls in flight, and a required slot
  that failed is held for again without room (`g6_budget_v1.py:93`, `:354`);
- `INLINE` satisfies a slot without asking whether the slots it depends on are settled
  (`budget_v5.py:912`), which `prepare` asks of every dispatch.

## 6. Plan

1. The reader protocol (`routing_context_delivery_v2`, `context_recovery_v2`): bounded
   retries, the grant file written after the ledger, a reader killed between the two; it
   refines `Deliver` and `Deny` of `PhaseBudget`.
2. The composition of `IndexRegister` with `Onboarding` in place of `index`.
3. `G6Budget`: the capacity of the journal (room kept for the receipts and stops of
   calls in flight), the completion of task scopes, the queue of stops to reconcile;
   `decide` as a pure algorithm against a reference definition.
4. Evolution's incremental aggregation over a chain that is rotated and archived;
   spawn recovery; notifications.
5. Proofs: an abstract specification of the installer (a version that is put in place and taken back as a whole), for which
   `LineageInv` has what a refinement needs; one of the root budget, once the reader protocol is there.
