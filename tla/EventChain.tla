------------------------------ MODULE EventChain ------------------------------
(***************************************************************************)
(* The hash-chained task-outcome store of one project root                 *)
(* (runtime/cp_runtime/event_v2.py), its detached seals (integrity.py) and *)
(* its archive (event_archive.py), shared by Hook processes, seal workers  *)
(* and command-line tools that may be killed between any two steps.        *)
(*                                                                         *)
(* The segment files and the active file are one sequence `log`; `ends`    *)
(* says where each closed segment ends.  A hash is ideal: the record hash  *)
(* of position n is the sequence of the n events it commits to, so that    *)
(* two hashes are equal exactly when the histories are.                    *)
(***************************************************************************)
EXTENDS Naturals, Sequences, FiniteSets

CONSTANTS
    Proc,             \* processes that use the store
    LifecycleEvent,   \* non-terminal events: a fresh random event_id each
    TerminalEvent,    \* SESSION_ENDED events: event_id derived from the session
    SegmentRecords,   \* records an active file holds when it is rotated
    None

Event == LifecycleEvent \cup TerminalEvent

(* event_v2.py draws 128 random bits for an event without an id, so a      *)
(* lifecycle event shares its id with no other event.                      *)
ASSUME IdsAssumption ==
    /\ \A e \in LifecycleEvent, f \in Event : e.id = f.id => e = f
    /\ None \notin Event \cup Proc

ASSUME SegmentAssumption == SegmentRecords \in Nat \ {0}

VARIABLES
    log,        \* committed lines of all segments and the active file, in order
    ends,       \* ends[s]: number of records up to the end of closed segment s
    torn,       \* the event whose unterminated line ends the active file, or None
    corrupt,    \* events with a partial line in some .corrupt-tail- file
    seals,      \* the detached seal chain
    copies,     \* segment number -> events of the file archive/segments holds
    manifests,  \* the archive manifests
    lock,       \* owner of the OwnerTokenLock of the event path, or None
    pc,         \* what each process is about to do
    req,        \* the request each process works on
    view,       \* what each process read under the lock
    drawn,      \* lifecycle events whose id has been drawn
    acked       \* events whose append has returned to its caller

disk == <<log, ends, torn, corrupt, seals, copies, manifests>>
vars == <<disk, lock, pc, req, view, drawn, acked>>

-------------------------------------------------------------------------------
(* The chain head after n records. *)
HeadAt(l, n) == [i \in 1 .. n |-> l[i].ev]

(* _verify_events with allow_duplicate_ids=True. *)
Linked(l) == \A i \in DOMAIN l : l[i].prev = HeadAt(l, i - 1)

LastEnd == IF ends = <<>> THEN 0 ELSE ends[Len(ends)]
SegmentStart(s) == IF s = 1 THEN 0 ELSE ends[s - 1]
SegmentEvents(s) ==
    [i \in 1 .. ends[s] - SegmentStart(s) |-> log[SegmentStart(s) + i].ev]

(* _verify_seals: every seal refers to the chain head at its count. *)
SealsMatch(ss, l) ==
    \A i \in DOMAIN ss : ss[i].count <= Len(l) /\ ss[i].head = HeadAt(l, ss[i].count)

(* Counts never decrease, so the newest seal has the largest count. *)
SealedCurrent(ss, l) == ss # <<>> /\ ss[Len(ss)].count = Len(l)

(* Segments some manifest names. *)
Archived == UNION {manifests[m].segments : m \in DOMAIN manifests}

(* verify_archive: a manifest's segments have their copies, and no segment *)
(* is named twice.                                                         *)
ArchiveVerified ==
    /\ Archived \subseteq DOMAIN copies
    /\ \A m, n \in DOMAIN manifests :
          m # n => manifests[m].segments \cap manifests[n].segments = {}

(* The request an event already answers under the request's dedupe mode. *)
SameEvent(stored, r) ==
    \/ r.dedupe \in {"id", "identity"} /\ stored.id = r.ev.id
    \/ r.dedupe = "identity" /\ stored.identity = r.ev.identity

NoView == [log |-> <<>>, seals |-> <<>>, added |-> {}]
Idle == [kind |-> "none", ev |-> None, dedupe |-> "none"]

AppendRequest ==
    [kind : {"append"}, ev : LifecycleEvent, dedupe : {"none"}]
        \cup [kind : {"append"}, ev : TerminalEvent, dedupe : {"id", "identity"}]
SealRequest == [Idle EXCEPT !.kind = "seal"]
ArchiveRequest == [Idle EXCEPT !.kind = "archive"]
Request == AppendRequest \cup {SealRequest, ArchiveRequest}

-------------------------------------------------------------------------------
Init ==
    /\ log = <<>> /\ ends = <<>> /\ torn = None /\ corrupt = {}
    /\ seals = <<>> /\ copies = <<>> /\ manifests = <<>>
    /\ lock = None
    /\ pc = [p \in Proc |-> "idle"]
    /\ req = [p \in Proc |-> Idle]
    /\ view = [p \in Proc |-> NoView]
    /\ drawn = {} /\ acked = {}

Goto(p, l) == pc' = [pc EXCEPT ![p] = l]

(* Leaving the `with OwnerTokenLock` block. *)
Release(p) ==
    /\ lock' = None
    /\ Goto(p, "idle")
    /\ req' = [req EXCEPT ![p] = Idle]
    /\ view' = [view EXCEPT ![p] = NoView]

(* Mutant: the lock is entered while another process owns it. *)
AcquireOwned(p, r) ==
    /\ pc[p] = "idle"
    /\ r.ev \notin drawn
    /\ lock' = p
    /\ req' = [req EXCEPT ![p] = r]
    /\ drawn' = IF r.ev \in LifecycleEvent THEN drawn \cup {r.ev} ELSE drawn
    /\ Goto(p, IF r.kind = "archive" THEN "archive" ELSE "read")
    /\ UNCHANGED <<disk, view, acked>>

(* OwnerTokenLock.__enter__; while another process owns the lock, the      *)
(* caller polls and at its deadline raises without having changed anything.*)
Acquire(p, r) ==
    /\ pc[p] = "idle"
    /\ lock = None
    /\ r.ev \notin drawn
    /\ lock' = p
    /\ req' = [req EXCEPT ![p] = r]
    /\ drawn' = IF r.ev \in LifecycleEvent THEN drawn \cup {r.ev} ELSE drawn
    /\ Goto(p, IF r.kind = "archive" THEN "archive" ELSE "read")
    /\ UNCHANGED <<disk, view, acked>>

(* _quarantine_partial_tail: the partial line is saved to a file of its    *)
(* own and synced, and only then cut from the active file.                 *)
SaveTail(p) ==
    /\ pc[p] = "read" /\ torn # None
    /\ corrupt' = corrupt \cup {torn}
    /\ Goto(p, "truncate")
    /\ UNCHANGED <<log, ends, torn, seals, copies, manifests, lock, req, view, drawn, acked>>

(* Mutant: the tail is cut before it has been saved. *)
TruncateUnsaved(p) ==
    /\ pc[p] \in {"read", "truncate"} /\ torn # None
    /\ torn' = None
    /\ Goto(p, "read")
    /\ UNCHANGED <<log, ends, corrupt, seals, copies, manifests, lock, req, view, drawn, acked>>

TruncateTail(p) ==
    /\ pc[p] = "truncate"
    /\ torn' = None
    /\ Goto(p, "read")
    /\ UNCHANGED <<log, ends, corrupt, seals, copies, manifests, lock, req, view, drawn, acked>>

(* append_event: an event the request duplicates is returned as stored. *)
AppendDuplicate(p) ==
    /\ pc[p] = "read" /\ torn = None /\ req[p].kind = "append"
    /\ Linked(log)
    /\ \E i \in DOMAIN log : SameEvent(log[i].ev, req[p])
    /\ acked' = acked \cup {req[p].ev}
    /\ Release(p)
    /\ UNCHANGED <<disk, drawn>>

AppendRead(p) ==
    /\ pc[p] = "read" /\ torn = None /\ req[p].kind = "append"
    /\ Linked(log)
    /\ \A i \in DOMAIN log : ~SameEvent(log[i].ev, req[p])
    /\ view' = [view EXCEPT ![p].log = log]
    /\ Goto(p, IF Len(log) - LastEnd >= SegmentRecords THEN "rotate" ELSE "write")
    /\ UNCHANGED <<disk, lock, req, drawn, acked>>

(* The full active file becomes the next closed segment by rename. *)
Rotate(p) ==
    /\ pc[p] = "rotate"
    /\ ends' = Append(ends, Len(log))
    /\ Goto(p, "write")
    /\ UNCHANGED <<log, torn, corrupt, seals, copies, manifests, lock, req, view, drawn, acked>>

(* The record is linked to the head that was read, not to the head on disk.*)
Write(p) ==
    /\ pc[p] = "write"
    /\ log' = Append(log, [ev |-> req[p].ev, prev |-> HeadAt(view[p].log, Len(view[p].log))])
    /\ Goto(p, "return")
    /\ UNCHANGED <<ends, torn, corrupt, seals, copies, manifests, lock, req, view, drawn, acked>>

(* Mutant: a write that failed is reported as done. *)
WriteTornAcked(p) ==
    /\ pc[p] = "write"
    /\ torn' = req[p].ev
    /\ acked' = acked \cup {req[p].ev}
    /\ Release(p)
    /\ UNCHANGED <<log, ends, corrupt, seals, copies, manifests, drawn>>

(* Killed, or out of space, with part of the line in the file. *)
WriteTorn(p) ==
    /\ pc[p] = "write"
    /\ torn' = req[p].ev
    /\ Release(p)
    /\ UNCHANGED <<log, ends, corrupt, seals, copies, manifests, drawn, acked>>

Return(p) ==
    /\ pc[p] = "return"
    /\ acked' = acked \cup {req[p].ev}
    /\ Release(p)
    /\ UNCHANGED <<disk, drawn>>

(* seal_event_chain: nothing to do when the newest seal covers the head. *)
SealNothing(p) ==
    /\ pc[p] = "read" /\ torn = None /\ req[p].kind = "seal"
    /\ Linked(log) /\ SealsMatch(seals, log)
    /\ SealedCurrent(seals, log)
    /\ Release(p)
    /\ UNCHANGED <<disk, drawn, acked>>

(* Mutant: a chain whose head is sealed is sealed again. *)
SealReadAgain(p) ==
    /\ pc[p] = "read" /\ torn = None /\ req[p].kind = "seal"
    /\ Linked(log) /\ SealsMatch(seals, log)
    /\ view' = [view EXCEPT ![p].log = log, ![p].seals = seals]
    /\ Goto(p, "publish")
    /\ UNCHANGED <<disk, lock, req, drawn, acked>>

SealRead(p) ==
    /\ pc[p] = "read" /\ torn = None /\ req[p].kind = "seal"
    /\ Linked(log) /\ SealsMatch(seals, log)
    /\ ~SealedCurrent(seals, log)
    /\ view' = [view EXCEPT ![p].log = log, ![p].seals = seals]
    /\ Goto(p, "publish")
    /\ UNCHANGED <<disk, lock, req, drawn, acked>>

(* Mutant: only the closed segments are sealed. *)
SealPublishClosed(p) ==
    /\ pc[p] = "publish"
    /\ seals' = Append(view[p].seals, [count |-> LastEnd, head |-> HeadAt(log, LastEnd)])
    /\ Release(p)
    /\ UNCHANGED <<log, ends, torn, corrupt, copies, manifests, drawn, acked>>

(* _atomic_seals replaces the whole file by what was read and one more. *)
SealPublish(p) ==
    /\ pc[p] = "publish"
    /\ seals' = Append(view[p].seals,
                       [count |-> Len(view[p].log),
                        head |-> HeadAt(view[p].log, Len(view[p].log))])
    /\ Release(p)
    /\ UNCHANGED <<log, ends, torn, corrupt, copies, manifests, drawn, acked>>

(* Mutant: the run waits, with the lock held, for the tail to be recovered.*)
ArchiveWait(p) ==
    /\ pc[p] = "archive" /\ torn # None
    /\ UNCHANGED vars

(* archive_closed_segments reads without recovering the tail: it refuses a *)
(* chain that ends in a partial line.                                      *)
ArchiveRefuse(p) ==
    /\ pc[p] = "archive" /\ torn # None
    /\ Release(p)
    /\ UNCHANGED <<disk, drawn, acked>>

ArchiveRead(p) ==
    /\ pc[p] = "archive" /\ torn = None
    /\ Linked(log) /\ ArchiveVerified
    /\ Goto(p, "copy")
    /\ UNCHANGED <<disk, lock, req, view, drawn, acked>>

ToArchive(p) == (1 .. Len(ends)) \ (Archived \cup view[p].added)

(* _atomic_copy of the next closed segment; a copy that an interrupted run *)
(* left behind must be the same file.                                      *)
ArchiveCopy(p) ==
    /\ pc[p] = "copy"
    /\ \E s \in ToArchive(p) :
        /\ \A t \in ToArchive(p) : s <= t
        /\ s \in DOMAIN copies => copies[s] = SegmentEvents(s)
        /\ copies' = [x \in DOMAIN copies \cup {s} |->
                        IF x \in DOMAIN copies THEN copies[x] ELSE SegmentEvents(x)]
        /\ view' = [view EXCEPT ![p].added = @ \cup {s}]
    /\ UNCHANGED <<log, ends, torn, corrupt, seals, manifests, lock, pc, req, drawn, acked>>

ArchiveNothing(p) ==
    /\ pc[p] = "copy"
    /\ ToArchive(p) = {} /\ view[p].added = {}
    /\ Release(p)
    /\ UNCHANGED <<disk, drawn, acked>>

(* The next manifest names the segments this run added. *)
ArchivePublish(p) ==
    /\ pc[p] = "copy"
    /\ ToArchive(p) = {} /\ view[p].added # {}
    /\ manifests' = Append(manifests,
                           [segments |-> view[p].added, head |-> HeadAt(log, LastEnd)])
    /\ Release(p)
    /\ UNCHANGED <<log, ends, torn, corrupt, seals, copies, drawn, acked>>

(* A killed process loses its memory; the operating system frees its lock. *)
Die(p) ==
    /\ pc[p] # "idle"
    /\ Release(p)
    /\ UNCHANGED <<disk, drawn, acked>>

Step(p) ==
    \/ SaveTail(p) \/ TruncateTail(p)
    \/ AppendDuplicate(p) \/ AppendRead(p) \/ Rotate(p)
    \/ Write(p) \/ WriteTorn(p) \/ Return(p)
    \/ SealNothing(p) \/ SealRead(p) \/ SealPublish(p)
    \/ ArchiveRefuse(p) \/ ArchiveRead(p) \/ ArchiveCopy(p) \/ ArchiveNothing(p) \/ ArchivePublish(p)

Next ==
    \/ \E p \in Proc, r \in Request : Acquire(p, r)
    \/ \E p \in Proc : Step(p) \/ Die(p)

Spec == Init /\ [][Next]_vars

(* A process that holds the lock is scheduled: nothing in the code waits   *)
(* while holding it.                                                       *)
FairSpec == Spec /\ \A p \in Proc : WF_vars(Step(p))

-------------------------------------------------------------------------------
Record(E) == [ev : E, prev : Seq(E)]
SealRecord == [count : Nat, head : Seq(Event)]

TypeOK ==
    /\ log \in Seq(Record(Event))
    /\ ends \in Seq(Nat)
    /\ torn \in Event \cup {None}
    /\ corrupt \subseteq Event
    /\ seals \in Seq(SealRecord)
    /\ DOMAIN copies \subseteq Nat
    /\ manifests \in Seq([segments : SUBSET Nat, head : Seq(Event)])
    /\ lock \in Proc \cup {None}
    /\ pc \in [Proc -> {"idle", "read", "truncate", "rotate", "write", "return",
                        "publish", "archive", "copy"}]
    /\ req \in [Proc -> Request \cup {Idle}]
    /\ view \in [Proc -> [log : Seq(Record(Event)),
                          seals : Seq(SealRecord),
                          added : SUBSET Nat]]
    /\ drawn \subseteq LifecycleEvent
    /\ acked \subseteq Event

(* The chain always verifies: every record commits to exactly the records  *)
(* before it, across segments, concurrent writers and killed writers       *)
(* (append_event links to the head it read, under the lock).               *)
ChainLinked == Linked(log)

(* No event id is committed twice, whichever processes deliver the same    *)
(* terminal event, at once or again after a crash (deduplicate_event_id).  *)
UniqueIds == \A i, j \in DOMAIN log : log[i].ev.id = log[j].ev.id => i = j

(* Seals stay verifiable while writers append, rotate and cut tails: each  *)
(* refers to the head at its count, and each covers more than the last.    *)
SealsAnchored ==
    /\ SealsMatch(seals, log)
    /\ \A i, j \in DOMAIN seals : i < j => seals[i].count < seals[j].count

(* An append that returned is in the log for good: under its own id, or,   *)
(* when it was deduplicated by identity, as the event of that identity.    *)
AckedCommitted ==
    \A e \in acked : \E i \in DOMAIN log :
        log[i].ev.id = e.id \/ log[i].ev.identity = e.identity

(* Committed records, seals, closed segments and manifests are only ever   *)
(* extended: no recovery, rotation or crash drops or rewrites one.         *)
OnlyExtended ==
    [][/\ \E n \in 0 .. Len(log') : log = SubSeq(log', 1, n)
       /\ \E n \in 0 .. Len(ends') : ends = SubSeq(ends', 1, n)
       /\ \E n \in 0 .. Len(seals') : seals = SubSeq(seals', 1, n)
       /\ \E n \in 0 .. Len(manifests') : manifests = SubSeq(manifests', 1, n)]_vars

(* A partial line is never destroyed before it has been saved, also when   *)
(* the process that recovers it dies in between, and no complete line is   *)
(* ever written behind one.                                                *)
TailSavedBeforeCut ==
    [][torn # None => /\ torn' # torn => torn' = None /\ torn \in corrupt
                      /\ log' = log]_vars

(* The lock never wedges: a dead owner's lock is freed by the system.      *)
LockFreed == lock # None ~> lock = None

Abstract == INSTANCE EventLog WITH
    records  <- HeadAt(log, Len(log)),
    sealed   <- IF seals = <<>> THEN 0 ELSE seals[Len(seals)].count,
    archived <- IF manifests = <<>> THEN 0 ELSE Len(manifests[Len(manifests)].head)

(* The files, locks and crashes implement the abstract event log. *)
ImplementsEventLog == Abstract!Spec
===============================================================================
