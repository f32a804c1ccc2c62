---------------------------- MODULE CapabilityStore ----------------------------
(***************************************************************************)
(* The capability index of one worktree                                    *)
(* (runtime/cp_runtime/capability_store.py): index.json, the record it     *)
(* replaced in index.previous.json, and copies of what recovery replaced.  *)
(* Tools load the index, compute for a while, and commit what they made of *)
(* it under the store's lock if the revision is still the one they loaded. *)
(* index.json may be damaged or deleted from outside; recover then builds  *)
(* a record from the previous one.  Any tool may be killed at any point.   *)
(*                                                                         *)
(* A file is replaced as a whole (atomic_write_bytes).  A record that      *)
(* fails verification in any way is Junk.                                  *)
(***************************************************************************)
EXTENDS Naturals

CONSTANTS
    Proc,           \* processes that use the store
    Payload,        \* baseline, coverage and entries of an index
    Missing,        \* the content of a file that does not exist
    Junk,           \* content that does not decode
    MaxRevision,    \* bound on the revisions
    MaxDamage,      \* bound on the damages from outside
    None

Record == [revision : 0 .. MaxRevision, payload : Payload, recovered : BOOLEAN]

ASSUME StoreAssumption ==
    /\ MaxRevision \in Nat /\ MaxDamage \in Nat
    /\ Payload # {}
    /\ Missing \notin Record /\ Junk \notin Record /\ Missing # Junk
    /\ None \notin Proc

VARIABLES
    current,    \* index.json
    previous,   \* index.previous.json
    archive,    \* contents of the index.recovery-*.bin files
    lock,       \* owner of the OwnerTokenLock, or None
    proc,       \* memory of each process
    published,  \* revisions with their payloads index.json has had (history)
    damage      \* damages so far

vars == <<current, previous, archive, lock, proc, published, damage>>

-------------------------------------------------------------------------------
Decodes(file) == file \in Record

Version(r) == [revision |-> r.revision, payload |-> r.payload]

Blank == [revision |-> 0, payload |-> CHOOSE x \in Payload : TRUE, recovered |-> FALSE]

(* What a process loaded or looked at, and the record it is to publish. *)
Fresh == [pc |-> "idle", seen |-> Missing, new |-> Blank]

Init ==
    /\ current = Missing /\ previous = Missing /\ archive = {}
    /\ lock = None
    /\ proc = [p \in Proc |-> Fresh]
    /\ published = {}
    /\ damage = 0

At(p, l) == proc[p].pc = l
Goto(p, l) == proc' = [proc EXCEPT ![p].pc = l]

(* capability_index._load; an index that is lost is not taken for one that *)
(* never was.                                                              *)
Load(p) ==
    /\ At(p, "idle")
    /\ Decodes(current) \/ (current = Missing /\ previous = Missing)
    /\ proc' = [proc EXCEPT ![p].pc = "loaded", ![p].seen = current]
    /\ UNCHANGED <<current, previous, archive, lock, published, damage>>

(* commit(payload, expected_revision) has the lock. *)
BeginCommit(p, x) ==
    /\ At(p, "loaded") /\ lock = None
    /\ lock' = p
    /\ LET r == IF proc[p].seen = Missing THEN 0 ELSE proc[p].seen.revision + 1 IN
        /\ r <= MaxRevision
        /\ proc' = [proc EXCEPT ![p].pc = "commit",
                                ![p].new = [revision |-> r, payload |-> x, recovered |-> FALSE]]
    /\ UNCHANGED <<current, previous, archive, published, damage>>

(* The first index; otherwise ALREADY_EXISTS. *)
Create(p) ==
    /\ At(p, "commit") /\ proc[p].seen = Missing
    /\ current = Missing /\ previous = Missing
    /\ Goto(p, "publish")
    /\ UNCHANGED <<current, previous, archive, lock, published, damage>>

(* Mutant: the revision is not compared. *)
ExpectedAny(p) == proc[p].seen # Missing /\ Decodes(current)

(* Not REVISION_CONFLICT. *)
Expected(p) ==
    /\ proc[p].seen # Missing
    /\ Decodes(current) /\ current.revision = proc[p].seen.revision

(* Mutant: the first index that was ever replaced is kept. *)
KeepPreviousOnce(p) ==
    /\ At(p, "commit") /\ Expected(p)
    /\ current.payload # proc[p].new.payload
    /\ previous' = IF previous = Missing THEN current ELSE previous
    /\ Goto(p, "publish")
    /\ UNCHANGED <<current, archive, lock, published, damage>>

(* The index that is to be replaced is kept first; one that would not      *)
(* change is not written (see Leave).                                      *)
KeepPrevious(p) ==
    /\ At(p, "commit") /\ Expected(p)
    /\ current.payload # proc[p].new.payload
    /\ previous' = current
    /\ Goto(p, "publish")
    /\ UNCHANGED <<current, archive, lock, published, damage>>

(* recover is called with the hash of what the caller saw of index.json. *)
Look(p) ==
    /\ At(p, "idle")
    /\ proc' = [proc EXCEPT ![p].seen = current]
    /\ UNCHANGED <<current, previous, archive, lock, published, damage>>

BeginRecover(p) ==
    /\ At(p, "idle") /\ lock = None
    /\ lock' = p
    /\ Goto(p, "recover")
    /\ UNCHANGED <<current, previous, archive, published, damage>>

(* Neither RECOVERY_CONFLICT nor INVALID_RECOVERY_ORDER, nor recovered     *)
(* already.                                                                *)
Recoverable(p) ==
    /\ current = proc[p].seen
    /\ Decodes(previous)
    /\ Decodes(current) =>
        /\ previous.revision < current.revision
        /\ ~(current.recovered /\ current.payload = previous.payload)

(* Mutant: the revision that may have been lost is used again. *)
RestoredReused ==
    [revision |-> IF Decodes(current) THEN current.revision + 1 ELSE previous.revision + 1,
     payload |-> previous.payload, recovered |-> TRUE]

(* The lost index may have had the revision after the previous one: the    *)
(* restored one gets another.                                              *)
Restored ==
    [revision |-> IF Decodes(current) /\ current.revision >= previous.revision + 2
                  THEN current.revision + 1 ELSE previous.revision + 2,
     payload |-> previous.payload, recovered |-> TRUE]

(* Mutant: only what does not decode is copied. *)
KeepDamagedOnly(p) ==
    /\ At(p, "recover") /\ Recoverable(p)
    /\ Restored.revision <= MaxRevision
    /\ archive' = archive \cup ({current} \cap {Junk})
    /\ proc' = [proc EXCEPT ![p].pc = "publish", ![p].new = Restored]
    /\ UNCHANGED <<current, previous, lock, published, damage>>

(* What recovery replaces is copied first, if there is anything. *)
KeepCurrent(p) ==
    /\ At(p, "recover") /\ Recoverable(p)
    /\ Restored.revision <= MaxRevision
    /\ archive' = archive \cup ({current} \ {Missing})
    /\ proc' = [proc EXCEPT ![p].pc = "publish", ![p].new = Restored]
    /\ UNCHANGED <<current, previous, lock, published, damage>>

Publish(p) ==
    /\ At(p, "publish")
    /\ current' = proc[p].new
    /\ published' = published \cup {Version(proc[p].new)}
    /\ lock' = None
    /\ proc' = [proc EXCEPT ![p] = Fresh]
    /\ UNCHANGED <<previous, archive, damage>>

(* The call raises, finds nothing to do, or the process is killed. *)
Leave(p) ==
    /\ ~At(p, "idle")
    /\ lock' = IF lock = p THEN None ELSE lock
    /\ proc' = [proc EXCEPT ![p] = Fresh]
    /\ UNCHANGED <<current, previous, archive, published, damage>>

(* index.json is damaged or deleted from outside. *)
Damage ==
    /\ damage < MaxDamage
    /\ damage' = damage + 1
    /\ Decodes(current)
    /\ current' \in {Junk, Missing}
    /\ UNCHANGED <<previous, archive, lock, proc, published>>

Step(p) ==
    \/ Load(p) \/ Look(p) \/ BeginRecover(p)
    \/ \E x \in Payload : BeginCommit(p, x)
    \/ Create(p) \/ KeepPrevious(p) \/ KeepCurrent(p)
    \/ Publish(p) \/ Leave(p)

Next == Damage \/ \E p \in Proc : Step(p)

Spec == Init /\ [][Next]_vars

-------------------------------------------------------------------------------
Content == Record \cup {Missing, Junk}

(* Every variable has its type; index.previous.json is never damaged. *)
TypeOK ==
    /\ current \in Content
    /\ previous \in Record \cup {Missing}
    /\ archive \subseteq Record \cup {Junk}
    /\ lock \in Proc \cup {None}
    /\ proc \in [Proc -> [pc : {"idle", "loaded", "commit", "recover", "publish"},
                          seen : Content, new : Record]]
    /\ published \subseteq [revision : 0 .. MaxRevision, payload : Payload]
    /\ damage \in 0 .. MaxDamage

(* A revision names one index for good, also one that was lost and that    *)
(* recovery has never seen: a tool that loaded it cannot mistake another   *)
(* for it.  (Revision 0 may be created again if index.json is deleted      *)
(* before the first update.)                                               *)
RevisionNames ==
    \A x, y \in published : x.revision = y.revision /\ x.revision > 0 => x.payload = y.payload

(* No update is lost: what a commit is about to replace is what its caller *)
(* loaded and computed the new index from, whatever was recovered since.   *)
NoLostUpdate ==
    \A p \in Proc :
        At(p, "publish") /\ ~proc[p].new.recovered /\ proc[p].new.revision > 1
            => Version(previous) = Version(proc[p].seen)

(* Recovery loses the newest update at most: there was no other index      *)
(* after the previous one but the one that replaced it and restorations.   *)
LosesOneUpdate ==
    previous # Missing => \A x \in published :
        \/ x.revision <= previous.revision + 1
        \/ x.revision = previous.revision + 2 /\ x.payload = previous.payload

(* Whatever is published has the highest revision there was. *)
RevisionsRise ==
    [][\A x \in published : current' # current /\ Decodes(current')
                            => x.revision <= current'.revision]_vars

(* An index is replaced only when a copy of it is on disk, by commits and  *)
(* by recoveries that roll a valid index back.                             *)
NothingDestroyed ==
    [][current' # current /\ Decodes(current) /\ Decodes(current')
           => current = previous \/ current \in archive]_vars

(* The version a file holds, and the one a process has loaded. *)
Value(file) == IF Decodes(file) THEN {Version(file)} ELSE {}
Updating(p) == At(p, "publish") /\ ~proc[p].new.recovered
Holding(p) == IF At(p, "loaded") \/ At(p, "commit") \/ Updating(p) THEN Value(proc[p].seen) ELSE {}

(* From when a commit has kept what it replaces until it is published or   *)
(* given up, the register has what is kept: damage in between is seen when *)
(* the commit is given up.                                                 *)
Replacing(p) == Updating(p) /\ proc[p].new.revision > 0
InForce == IF \E p \in Proc : Replacing(p) THEN Value(previous) ELSE Value(current)

Abstract == INSTANCE IndexRegister WITH
    Client <- Proc,
    value  <- InForce,
    kept   <- Value(previous),
    held   <- [p \in Proc |-> Holding(p)]

(* The two files, the lock, crashes, damage and recovery implement a       *)
(* register with compare and set that can go back by one update.           *)
ImplementsIndexRegister == Abstract!Spec
===============================================================================
