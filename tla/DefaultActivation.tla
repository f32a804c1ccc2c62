--------------------------- MODULE DefaultActivation ---------------------------
(***************************************************************************)
(* desktop_default_activation: the default routing policy of a project is  *)
(* what a pointer file names. A source (a definition with its state file)  *)
(* becomes the default by an activation, which writes five files one after *)
(* the other and may be interrupted before each: intent, enrollment,       *)
(* approval, state, pointer. Approvals are used once; execution_guard      *)
(* consumes them as well, and takes no lock. resolve_default reads the     *)
(* files without a lock.                                                   *)
(***************************************************************************)
EXTENDS Naturals

CONSTANTS Source, Approval, Proc, None,
          Kind,    \* what an approval's note allows: "activate" or "restore"
          Target   \* and the source it names

ASSUME ActivationAssumption ==
    /\ Kind \in [Approval -> {"activate", "restore"}]
    /\ Target \in [Approval -> Source]
    /\ None \notin Source \cup Approval \cup Proc
    /\ None \notin [approval : Approval, previous : Source \cup {None}]

VARIABLES
    status,    \* per source: the status of its state file
    by,        \* per source: the approval in the last entry of its history
    intent,    \* per source: the activation intent, or None
    enrolled,  \* the enrollment file exists
    pointer,   \* the source the pointer file names, or None when it is missing
    approval,  \* per approval: "active", "expired", "consumed" or "late"
    spent,     \* per approval: how often activate and restore_legacy consumed it
    granted,   \* per approval: how often authorize-action consumed it
    lock,      \* the process that holds the pointer's lock, with those of its source and approval
    proc,      \* per process: the call it makes
    reader     \* a call of resolve_default

vars == <<status, by, intent, enrolled, pointer, approval, spent, granted, lock, proc, reader>>
files == <<status, by, intent, enrolled, pointer>>
use == <<approval, spent, granted>>

Idle == [pc |-> "idle", approval |-> None, current |-> None]
Resolver == [pc |-> "refused", seen |-> None]

Init ==
    /\ status = [s \in Source |-> "NONE"]
    /\ by = [s \in Source |-> None]
    /\ intent = [s \in Source |-> None]
    /\ enrolled = FALSE /\ pointer = None
    /\ approval = [a \in Approval |-> "active"]
    /\ spent = [a \in Approval |-> 0]
    /\ granted = [a \in Approval |-> 0]
    /\ lock = None
    /\ proc = [p \in Proc |-> Idle]
    /\ reader = Resolver

-------------------------------------------------------------------------------
(* prepare, verify_installation and revoke write one file under the        *)
(* source's own lock, which an activation of that source holds too.        *)

Unlocked(s) == lock # None => Target[proc[lock].approval] # s

Become(s, new, a) ==
    /\ status' = [status EXCEPT ![s] = new]
    /\ by' = [by EXCEPT ![s] = a]

Prepare(s) ==
    /\ Unlocked(s) /\ status[s] = "NONE"
    /\ Become(s, "PREPARED", None)
    /\ UNCHANGED <<intent, enrolled, pointer, use, lock, proc, reader>>

VerifyInstallation(s) ==
    /\ Unlocked(s) /\ status[s] = "PREPARED"
    /\ Become(s, "INSTALLED_VERIFIED", None)
    /\ UNCHANGED <<intent, enrolled, pointer, use, lock, proc, reader>>

Revoke(s) ==
    /\ Unlocked(s) /\ status[s] \in {"PREPARED", "INSTALLED_VERIFIED", "ACTIVE"}
    /\ Become(s, "REVOKED", None)
    /\ UNCHANGED <<intent, enrolled, pointer, use, lock, proc, reader>>

-------------------------------------------------------------------------------
(* activate and restore_legacy. All that is read is read when the locks    *)
(* are held; a call that refuses changes nothing and is not a step.        *)

At(p, l) == proc[p].pc = l
Mine(p) == proc[p].approval
Goto(p, l) == proc' = [proc EXCEPT ![p].pc = l]

Begin(p, a, l) ==
    /\ At(p, "idle") /\ lock = None
    /\ lock' = p
    /\ proc' = [proc EXCEPT ![p] = [pc |-> l, approval |-> a, current |-> pointer]]
    /\ UNCHANGED <<files, use, reader>>

Release(p) ==
    /\ lock' = IF lock = p THEN None ELSE lock
    /\ proc' = [proc EXCEPT ![p] = Idle]

(* Mutant: a retry overwrites whatever has become the default.             *)
IntentAgreesAnywhere(s, a) == intent[s] # None => intent[s].approval = a

(* An intent on disk binds its approval and the pointer it was made for.   *)
IntentAgrees(s, a) ==
    intent[s] # None => /\ intent[s].approval = a
                        /\ pointer # s => pointer = intent[s].previous

Activate(p, a) ==
    LET s == Target[a] IN
    /\ Kind[a] = "activate"
    /\ status[s] \in {"INSTALLED_VERIFIED", "ACTIVE"}
    /\ IntentAgrees(s, a)
    /\ \/ /\ approval[a] = "active" /\ status[s] = "INSTALLED_VERIFIED"
          /\ Begin(p, a, "intent")
       \/ /\ approval[a] = "consumed" /\ intent[s] # None /\ enrolled
          /\ Begin(p, a, "effect")

RestoreLegacy(p, a) ==
    LET s == Target[a] IN
    /\ Kind[a] = "restore"
    /\ \/ /\ pointer = None /\ enrolled
          /\ status[s] \in {"INSTALLED_VERIFIED", "ACTIVE", "REVOKED", "LEGACY_RESTORED"}
       \/ pointer = s /\ status[s] \in {"ACTIVE", "REVOKED", "LEGACY_RESTORED"}
    /\ IF status[s] = "LEGACY_RESTORED"
       THEN approval[a] \in {"consumed", "late"} /\ by[s] = a /\ Begin(p, a, "point")
       ELSE approval[a] = "active" /\ Begin(p, a, "check")

WriteIntent(p) ==
    LET s == Target[Mine(p)] IN
    /\ At(p, "intent")
    /\ intent' = IF intent[s] = None
                 THEN [intent EXCEPT ![s] = [approval |-> Mine(p), previous |-> proc[p].current]]
                 ELSE intent
    /\ Goto(p, "enroll")
    /\ UNCHANGED <<status, by, enrolled, pointer, use, lock, reader>>

(* Mutant: the enrollment is left to the end. *)
EnrollLater(p) ==
    /\ At(p, "enroll")
    /\ Goto(p, "check")
    /\ UNCHANGED <<files, use, lock, reader>>

Enroll(p) ==
    /\ At(p, "enroll")
    /\ enrolled' = TRUE
    /\ Goto(p, "check")
    /\ UNCHANGED <<status, by, intent, pointer, use, lock, reader>>

(* consume_approval: checks the approval, then loads it again and writes.  *)
Check(p) ==
    /\ At(p, "check")
    /\ approval[Mine(p)] = "active"
    /\ Goto(p, "consume")
    /\ UNCHANGED <<files, use, lock, reader>>

(* What is written is the time; "late" is a consumption after expiry.      *)
Mark(a) ==
    \E mark \in IF approval[a] \in {"expired", "late"} THEN {"late"}
                ELSE IF approval[a] = "consumed" THEN {"consumed", "late"} ELSE {"consumed"} :
        approval' = [approval EXCEPT ![a] = mark]

(* Mutant: the approval is not marked. *)
ConsumeUnmarked(p) ==
    /\ At(p, "consume")
    /\ spent' = [spent EXCEPT ![Mine(p)] = @ + 1]
    /\ Goto(p, "effect")
    /\ UNCHANGED <<files, approval, granted, lock, reader>>

Consume(p) ==
    /\ At(p, "consume")
    /\ Mark(Mine(p))
    /\ spent' = [spent EXCEPT ![Mine(p)] = @ + 1]
    /\ Goto(p, "effect")
    /\ UNCHANGED <<files, granted, lock, reader>>

(* Mutant: the pointer is written in front of the state. *)
EffectLate(p) ==
    /\ At(p, "effect")
    /\ pointer' = Target[Mine(p)]
    /\ Goto(p, "point")
    /\ UNCHANGED <<status, by, intent, enrolled, use, lock, reader>>

(* The state file; one that is ACTIVE already must be so by this approval. *)
Effect(p) ==
    LET s == Target[Mine(p)] IN
    /\ At(p, "effect")
    /\ \/ Kind[Mine(p)] = "restore" /\ Become(s, "LEGACY_RESTORED", Mine(p))
       \/ Kind[Mine(p)] = "activate" /\ status[s] = "INSTALLED_VERIFIED" /\ Become(s, "ACTIVE", Mine(p))
       \/ /\ Kind[Mine(p)] = "activate" /\ status[s] = "ACTIVE" /\ by[s] = Mine(p)
          /\ UNCHANGED <<status, by>>
    /\ Goto(p, "point")
    /\ UNCHANGED <<intent, enrolled, pointer, use, lock, reader>>

(* The pointer; a restoration writes it only when it was missing. *)
Point(p) ==
    LET s == Target[Mine(p)] IN
    /\ At(p, "point")
    /\ pointer' = IF proc[p].current = s THEN pointer ELSE s
    /\ Release(p)
    /\ UNCHANGED <<status, by, intent, enrolled, use, reader>>

(* A process is killed, or a write or a check raises.                      *)
Interrupt(p) ==
    /\ ~At(p, "idle")
    /\ Release(p)
    /\ UNCHANGED <<files, use, reader>>

-------------------------------------------------------------------------------
(* execution_guard authorize-action consumes an approval under no lock.    *)
Authorize(p, a) ==
    /\ At(p, "idle")
    /\ approval[a] = "active"
    /\ proc' = [proc EXCEPT ![p] = [Idle EXCEPT !.pc = "authorize", !.approval = a]]
    /\ UNCHANGED <<files, use, lock, reader>>

ConsumeAuthorized(p) ==
    /\ At(p, "authorize")
    /\ Mark(Mine(p))
    /\ granted' = [granted EXCEPT ![Mine(p)] = @ + 1]
    /\ Release(p)
    /\ UNCHANGED <<files, spent, reader>>

Expire(a) ==
    /\ approval[a] = "active"
    /\ approval' = [approval EXCEPT ![a] = "expired"]
    /\ UNCHANGED <<files, spent, granted, lock, proc, reader>>

(* The pointer file is lost. *)
LosePointer ==
    /\ pointer # None
    /\ pointer' = None
    /\ UNCHANGED <<status, by, intent, enrolled, use, lock, proc, reader>>

-------------------------------------------------------------------------------
(* resolve_default, one file after the other.                              *)

Read(l, s) ==
    /\ reader' = [pc |-> l, seen |-> s]
    /\ UNCHANGED <<files, use, lock, proc>>

Answers == {"legacy", "restored", "new", "refused"}

ResolvePointer ==
    /\ reader.pc \in Answers
    /\ Read(IF pointer = None THEN "missing" ELSE "content", None)

ResolveMissing ==
    /\ reader.pc = "missing"
    /\ Read(IF enrolled THEN "refused" ELSE "legacy", None)

ResolveContent ==
    /\ reader.pc = "content"
    /\ IF enrolled /\ pointer # None THEN Read("state", pointer) ELSE Read("refused", None)

ResolveRestored ==
    /\ reader.pc = "state"
    /\ IF status[reader.seen] = "LEGACY_RESTORED"
       THEN Read("restored", None)
       ELSE Read("active", reader.seen)

(* verify_active reads the state once more. *)
ResolveActive ==
    /\ reader.pc = "active"
    /\ Read(IF status[reader.seen] = "ACTIVE" THEN "new" ELSE "refused", None)

Resolve ==
    ResolvePointer \/ ResolveMissing \/ ResolveContent \/ ResolveRestored \/ ResolveActive

-------------------------------------------------------------------------------
Step(p) ==
    \/ \E a \in Approval : Activate(p, a) \/ RestoreLegacy(p, a) \/ Authorize(p, a)
    \/ WriteIntent(p) \/ Enroll(p) \/ Check(p) \/ Consume(p) \/ Effect(p) \/ Point(p)
    \/ ConsumeAuthorized(p) \/ Interrupt(p)

Next ==
    \/ \E s \in Source : Prepare(s) \/ VerifyInstallation(s) \/ Revoke(s)
    \/ \E p \in Proc : Step(p)
    \/ \E a \in Approval : Expire(a)
    \/ LosePointer \/ Resolve

Spec == Init /\ [][Next]_vars

-------------------------------------------------------------------------------
Statuses == {"NONE", "PREPARED", "INSTALLED_VERIFIED", "ACTIVE", "REVOKED", "LEGACY_RESTORED"}

TypeOK ==
    /\ status \in [Source -> Statuses]
    /\ by \in [Source -> Approval \cup {None}]
    /\ intent \in [Source -> {None} \cup [approval : Approval, previous : Source \cup {None}]]
    /\ enrolled \in BOOLEAN
    /\ pointer \in Source \cup {None}
    /\ approval \in [Approval -> {"active", "expired", "consumed", "late"}]
    /\ spent \in [Approval -> Nat] /\ granted \in [Approval -> Nat]
    /\ lock \in Proc \cup {None}
    /\ proc \in [Proc -> [pc : {"idle", "intent", "enroll", "check", "consume", "effect", "point",
                                "authorize"},
                          approval : Approval \cup {None}, current : Source \cup {None}]]
    /\ reader \in [pc : {"missing", "content", "state", "active"} \cup Answers,
                   seen : Source \cup {None}]

(* What the pointer names has been put into effect, wherever activations   *)
(* and restorations were interrupted and whichever were tried again.       *)
PointerEffective ==
    pointer # None => status[pointer] \in {"ACTIVE", "REVOKED", "LEGACY_RESTORED"} /\ enrolled

(* Retrying an interrupted activation or restoration does not consume its  *)
(* approval again, nor do two calls consume one.                           *)
ConsumedOnce == \A a \in Approval : spent[a] <= 1

(* An activation that consumed its approval and was interrupted finds all  *)
(* that a retry of it asks for, unless the source was revoked or restored  *)
(* or the approval expired while it was being consumed.                    *)
Resumable ==
    \A a \in Approval :
        /\ Kind[a] = "activate" /\ spent[a] > 0
        /\ approval[a] # "late"
        /\ lock # None => Mine(lock) # a
        /\ status[Target[a]] \in {"INSTALLED_VERIFIED", "ACTIVE"}
        => /\ approval[a] = "consumed" /\ enrolled
           /\ intent[Target[a]] # None /\ intent[Target[a]].approval = a
           /\ status[Target[a]] = "ACTIVE" => by[Target[a]] = a

(* The default of today is replaced only by an activation that was begun   *)
(* when it was the default: a retry does not overwrite another's pointer.  *)
NoOverwrite ==
    [][pointer # None /\ pointer' \notin {pointer, None}
         => intent[pointer'] # None /\ intent[pointer'].previous = pointer]_vars

(* A reader that sees one file after the other falls back to the old       *)
(* policy only if nobody has yet consumed an approval to leave it.         *)
NoSilentFallback ==
    [][reader'.pc = "legacy" /\ reader.pc # "legacy"
         => \A a \in Approval : spent[a] = 0]_vars

(* What a new task is given when no call is at work. *)
Choice ==
    IF pointer = None THEN IF enrolled THEN "refused" ELSE "legacy"
    ELSE CASE status[pointer] = "LEGACY_RESTORED" -> "restored"
           [] status[pointer] = "ACTIVE" -> "new"
           [] OTHER -> "refused"

(* The choice changes to a new policy, or back to the old one, by an       *)
(* approval of exactly that, which has been consumed.                      *)
ApprovedChoice ==
    [][/\ Choice' # Choice \/ pointer' # pointer
       /\ Choice' \in {"new", "restored"}
       => \E a \in Approval :
            /\ Target[a] = pointer' /\ approval'[a] \in {"consumed", "late"}
            /\ Kind[a] = IF Choice' = "new" THEN "activate" ELSE "restore"]_vars
===============================================================================
