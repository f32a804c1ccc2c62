------------------------------- MODULE Installer -------------------------------
(***************************************************************************)
(* The account-level installer (scripts/package_manager.py): install and   *)
(* uninstall as journaled transactions over managed files and the plugin   *)
(* host, their rollback, and recovery of what a dead process left.         *)
(*                                                                         *)
(* The scope lock is tried without waiting and dies with its process, so   *)
(* at most one process runs: proc.  What it knows is the journal in its    *)
(* memory; what survives it is the journal on disk, live.  The user edits  *)
(* managed files at any time.                                              *)
(*                                                                         *)
(* A file is a block of the package and what the user wrote; only merged   *)
(* files (AGENTS.md, hooks.json) hold both.  Transaction n installs        *)
(* version n, and its backup is backup n.  The host and its cache are      *)
(* external: the plugin that is active is the payload it was added from.   *)
(***************************************************************************)
EXTENDS Integers, Sequences

CONSTANTS
    Order,          \* the targets, in the order they are written
    Merged,         \* targets that are merged and restored in parts
    Intent,         \* targets whose new hash is journaled before they are written
    Payload,        \* the marketplace payload the host installs from
    BaseState,      \* state file of the base plugin, which an install removes
    State,          \* state file of the installer
    HadBase,        \* the base plugin was installed before
    MaxTxn, MaxVisits, MaxFaults,    \* bounds
    Nil

Target == {Order[i] : i \in 1..Len(Order)}

ASSUME InstallerAssumption ==
    /\ Order \in Seq(Target)
    /\ \A i, k \in 1..Len(Order) : Order[i] = Order[k] => i = k
    /\ {Payload, BaseState, State} \subseteq Target \ Merged
    /\ Merged \cup Intent \subseteq Target
    /\ Payload # State /\ BaseState # State /\ Payload # BaseState
    /\ HadBase \in BOOLEAN
    /\ {MaxTxn, MaxVisits, MaxFaults} \subseteq Nat

(* What a target holds, what the host runs, and what a transaction has      *)
(* journaled.                                                              *)
Content == [block : 0..MaxTxn \cup {Nil}, user : 0..MaxVisits]
HostState == [plugin : 0..MaxTxn \cup {Nil}, base : BOOLEAN]
Journal == [op : {"install", "uninstall"}, id : 1..MaxTxn,
            stage : {"PREPARED", "BACKED_UP", "APPLYING", "ACTIVATING", "COMMITTED",
                     "ROLLBACK_STARTED", "ROLLED_BACK", "RECOVERY_REQUIRED"},
            saved : BOOLEAN, records : SUBSET Target,
            applied : [Target -> Content \cup {Nil}], prev : HostState]

ASSUME NilAssumption == Nil \notin Nat /\ Nil \notin Content /\ Nil \notin Journal

VARIABLES
    file,       \* what a target holds on disk
    host,       \* the plugins that are active
    backup,     \* the backups of the transactions
    live,       \* the journal on disk
    proc,       \* the running process and the journal in its memory
    txn,        \* transactions so far
    count,      \* visits (edits, readings) and faults (crashes, failures) so far
    ghost       \* history the properties speak of

installation == <<file, host, backup, live, proc, txn, count, ghost>>

Missing == [block |-> Nil, user |-> 0]
Package(n) == [block |-> n, user |-> 0]

Idle == [phase |-> "none"]

InstallerInit ==
    /\ file = [t \in Target |-> IF t = BaseState /\ HadBase THEN Package(0) ELSE Missing]
    /\ host = [plugin |-> Nil, base |-> HadBase]
    /\ backup = [n \in 1..MaxTxn |-> [files |-> [t \in Target |-> Missing], records |-> {},
                                       manifest |-> FALSE]]
    /\ live = Nil /\ proc = Idle /\ txn = 0
    /\ count = [visits |-> 0, faults |-> 0]
    /\ ghost = [touched    |-> {},      \* targets the user replaced
                waived     |-> {},      \* edits made while a process ran, or replaced by the user
                skipped    |-> FALSE,   \* a host operation was skipped, by force or without a host
                unrecorded |-> FALSE]   \* an install failed before its records were journaled

-------------------------------------------------------------------------------
(* The process and its journal.                                            *)

At(phase) == proc.phase = phase
Installing == proc.j.op = "install"
Now == Order[proc.at]

(* _journal_write: memory and disk agree after it. *)
Write(j, phase, at) ==
    /\ live' = j
    /\ proc' = [proc EXCEPT !.j = j, !.phase = phase, !.at = at]
Goto(phase, at) == proc' = [proc EXCEPT !.phase = phase, !.at = at] /\ UNCHANGED live
Error == proc' = [proc EXCEPT !.error = TRUE, !.phase = "restore", !.at = @ - 1] /\ UNCHANGED live

Stage(s) == [proc.j EXCEPT !.stage = s]
Applied(t, content) == [proc.j EXCEPT !.applied[t] = content]

(* What an install makes of a target. *)
New(t) ==
    IF t \in Merged THEN [file[t] EXCEPT !.block = proc.j.id]
    ELSE IF t = BaseState THEN Missing ELSE Package(proc.j.id)

(* What a target is given back of an older file: merged files keep what    *)
(* the user wrote.                                                         *)
Old(t, old) ==
    IF t \in Merged /\ file[t] # Missing THEN [file[t] EXCEPT !.block = old.block] ELSE old

-------------------------------------------------------------------------------
(* Beginning a transaction.                                                *)

(* The journals the next command may replace. *)
NoLiveTransaction == live = Nil \/ (live # Nil /\ live.stage \in {"COMMITTED", "ROLLED_BACK"})

NewJournal(op) ==
    [op |-> op, id |-> txn + 1, stage |-> "PREPARED", saved |-> FALSE, records |-> {},
     applied |-> [t \in Target |-> Nil], prev |-> host]

Start(op, force) ==
    /\ At("none") /\ NoLiveTransaction /\ txn < MaxTxn
    /\ txn' = txn + 1
    /\ live' = NewJournal(op)
    /\ proc' = [phase |-> "backup", at |-> 0, j |-> NewJournal(op), records |-> {},
                undo |-> file[State].block, force |-> force, recovering |-> FALSE, error |-> FALSE]
    /\ UNCHANGED <<file, host, backup, count, ghost>>

Install == Start("install", FALSE)

(* Files that are not what the state says was installed. *)
Drift == {t \in Target \ (Merged \cup {BaseState, State}) :
            file[t] \notin {Missing, Package(file[State].block)}}

(* Uninstalling undoes the install that wrote the state file. *)
Uninstall(force) ==
    /\ file[State] # Missing
    /\ Drift = {} \/ force
    /\ Start("uninstall", force)

(* An install saves its targets, the state of the base among them if there *)
(* is one; an uninstall what is in the manifest of the backup it undoes.   *)
Saved == IF Installing THEN {t \in Target : t = BaseState => file[t] # Missing}
         ELSE IF backup[proc.undo].manifest THEN backup[proc.undo].records ELSE {}

BackUp ==
    /\ At("backup")
    /\ backup' = [backup EXCEPT ![proc.j.id] = [@ EXCEPT !.files = file, !.records = Saved]]
    /\ live' = [proc.j EXCEPT
            !.stage = "BACKED_UP", !.saved = TRUE, !.records = Saved, !.prev = host,
            !.applied = [t \in Target |->
                IF ~Installing /\ t \in Saved /\ file[t] # Missing THEN file[t] ELSE Nil]]
    /\ proc' = [proc EXCEPT !.j = live', !.records = Saved, !.phase = "begin"]
    /\ UNCHANGED <<file, host, txn, count, ghost>>

Begin ==
    /\ At("begin")
    /\ IF Installing THEN Write(Stage("APPLYING"), "target", 1)
                     ELSE Write(Stage("APPLYING"), "leave", Len(Order))
    /\ UNCHANGED <<file, host, backup, txn, count, ghost>>

-------------------------------------------------------------------------------
(* Applying an install.                                                    *)

(* The next target; targets with an intent journal their new hash first,   *)
(* and before the base plugin's state file is removed the host is changed. *)
Select ==
    /\ At("target")
    /\ IF proc.at > Len(Order) THEN Goto("manifest", 0)
       ELSE IF Now \notin proc.records THEN Goto("target", proc.at + 1)
       ELSE IF Now \in Intent THEN Write(Applied(Now, New(Now)), "write", proc.at)
       ELSE Goto("write", proc.at)
    /\ UNCHANGED <<file, host, backup, txn, count, ghost>>

(* copy_atomic removes what is there and renames the copy to its place. *)
Remove ==
    /\ At("write") /\ Now \notin Merged /\ file[Now] # Missing
    /\ file' = [file EXCEPT ![Now] = Missing]
    /\ UNCHANGED <<host, backup, live, proc, txn, count, ghost>>

Replace ==
    /\ At("write") /\ (Now \in Merged \/ file[Now] = Missing)
    /\ file' = [file EXCEPT ![Now] = New(Now)]
    /\ Goto("record", proc.at)
    /\ UNCHANGED <<host, backup, txn, count, ghost>>

(* _record_applied: the hash of what is there now. *)
Record ==
    /\ At("record")
    /\ Write(Applied(Now, file[Now]), IF Now = Payload THEN "base" ELSE "target", proc.at + 1)
    /\ UNCHANGED <<file, host, backup, txn, count, ghost>>

LeaveBase ==
    /\ At("base")
    /\ host' = [host EXCEPT !.base = @ /\ BaseState \notin proc.records]
    /\ Write(Stage("ACTIVATING"), "activate", proc.at)
    /\ UNCHANGED <<file, backup, txn, count, ghost>>

(* The payload is verified after the activation and before the commit. *)
PayloadIntact == file[Payload] = Package(proc.j.id)

Activate ==
    /\ At("activate") /\ PayloadIntact
    /\ host' = [host EXCEPT !.plugin = file[Payload].block]
    /\ Goto("target", proc.at)
    /\ UNCHANGED <<file, backup, txn, count, ghost>>

(* Mutant: a first install has nothing to go back to. *)
WriteManifestOver ==
    /\ At("manifest") /\ PayloadIntact
    /\ backup' = [backup EXCEPT ![proc.j.id].manifest = @ \/ backup[proc.j.id].files[State] # Missing]
    /\ Goto("commit", 0)
    /\ UNCHANGED <<file, host, txn, count, ghost>>

WriteManifest ==
    /\ At("manifest") /\ PayloadIntact
    /\ backup' = [backup EXCEPT ![proc.j.id].manifest = TRUE]
    /\ Goto("commit", 0)
    /\ UNCHANGED <<file, host, txn, count, ghost>>

Commit ==
    /\ At("commit")
    /\ Write(Stage("COMMITTED"), "finish", 0)
    /\ UNCHANGED <<file, host, backup, txn, count, ghost>>

Finish ==
    /\ At("finish")
    /\ live' = Nil /\ proc' = Idle
    /\ UNCHANGED <<file, host, backup, txn, count, ghost>>

-------------------------------------------------------------------------------
(* Undoing an install by uninstall: host first, then the targets backwards. *)

Leave ==
    /\ At("leave")
    /\ \/ host' = [host EXCEPT !.plugin = Nil] /\ UNCHANGED ghost
       \/ proc.force /\ ghost' = [ghost EXCEPT !.skipped = TRUE] /\ UNCHANGED host
    /\ Goto("undo", proc.at)
    /\ UNCHANGED <<file, backup, txn, count>>

Undo ==
    /\ At("undo") /\ proc.at > 0
    /\ LET was == backup[proc.undo].files[Now]
       IN  IF Now \notin proc.records THEN Goto("undo", proc.at - 1) /\ UNCHANGED file
           ELSE IF Now \notin Merged /\ file[Now] # Missing
                THEN file' = [file EXCEPT ![Now] = Missing] /\ UNCHANGED <<live, proc>>
           ELSE file' = [file EXCEPT ![Now] = Old(Now, was)] /\ Goto("undone", proc.at)
    /\ UNCHANGED <<host, backup, txn, count, ghost>>

RecordUndone ==
    /\ At("undone")
    /\ Write(Applied(Now, file[Now]), "undo", proc.at - 1)
    /\ UNCHANGED <<file, host, backup, txn, count, ghost>>

(* The plugin of the version before is activated, and the base plugin if   *)
(* its state file is back.                                                 *)
Return ==
    /\ At("undo") /\ proc.at = 0
    /\ LET was == backup[proc.undo].files[State].block
           back == [plugin |-> IF was # Nil /\ file[Payload] # Missing
                               THEN file[Payload].block ELSE host.plugin,
                    base   |-> host.base \/ file[BaseState] # Missing]
       IN  \/ /\ (was # Nil /\ file[Payload] # Missing) => back.plugin = was
              /\ host' = back /\ UNCHANGED ghost
           \/ proc.force /\ ghost' = [ghost EXCEPT !.skipped = TRUE] /\ UNCHANGED host
    /\ Goto("commit", 0)
    /\ UNCHANGED <<file, backup, txn, count>>

-------------------------------------------------------------------------------
(* Rolling back, in the process that failed or in a later one.             *)

(* Mutant: whatever is there is taken for this transaction's. *)
OwnedAlways(t) == t \in Target

(* The target is what this transaction made of it or what it was before;   *)
(* a merged file may be anything.                                          *)
Owned(t) ==
    \/ t \in Merged \/ file[t] = Missing
    \/ file[t] = proc.j.applied[t]
    \/ file[t] = backup[proc.j.id].files[t]

(* An install that raises rolls back what it saved so far; its records are *)
(* in the journal only if all targets were saved.  The hash of the target  *)
(* it wrote last is in memory even when writing the journal is what failed. *)
Fail ==
    /\ proc.phase \notin {"none", "rollback", "restore", "putback", "end"}
    /\ Installing /\ ~proc.recovering
    /\ \/ proc.phase \in {"activate", "manifest"} /\ ~PayloadIntact /\ UNCHANGED count
       \/ count.faults < MaxFaults /\ count' = [count EXCEPT !.faults = @ + 1]
    /\ \E k \in 0..Len(Order) :
        LET some == {Order[i] : i \in 1..k} \cap Saved
        IN  IF At("backup")
            THEN /\ backup' = [backup EXCEPT ![proc.j.id] = [@ EXCEPT !.files = file, !.records = some]]
                 /\ live' = [Stage("ROLLBACK_STARTED") EXCEPT !.saved = TRUE]
                 /\ proc' = [proc EXCEPT !.j = live', !.records = some, !.phase = "rollback",
                                         !.at = Len(Order)]
                 /\ ghost' = [ghost EXCEPT !.unrecorded = TRUE]
            ELSE /\ k = 0
                 /\ Write([Stage("ROLLBACK_STARTED") EXCEPT !.applied =
                               IF At("record") THEN [@ EXCEPT ![Now] = file[Now]] ELSE @],
                          "rollback", Len(Order))
                 /\ UNCHANGED <<backup, ghost>>
    /\ UNCHANGED <<file, host, txn>>

Deactivate ==
    /\ At("rollback")
    /\ host' = [host EXCEPT !.plugin = Nil]
    /\ Goto("restore", proc.at)
    /\ UNCHANGED <<file, backup, txn, count, ghost>>

(* recover_transaction. *)
Recover ==
    /\ At("none") /\ live # Nil
    /\ IF live.stage \in {"COMMITTED", "ROLLED_BACK"} \/ ~live.saved
       THEN live' = Nil /\ UNCHANGED proc
       ELSE /\ live' = [live EXCEPT !.stage = "ROLLBACK_STARTED"]
            /\ proc' = [phase |-> "restore", at |-> Len(Order), j |-> live', records |-> live.records,
                        undo |-> Nil, force |-> FALSE, recovering |-> TRUE, error |-> FALSE]
    /\ UNCHANGED <<file, host, backup, txn, count, ghost>>

Restore ==
    /\ At("restore") /\ proc.at > 0
    /\ LET was == backup[proc.j.id].files[Now]
       IN  IF Now \notin proc.records THEN Goto("restore", proc.at - 1) /\ UNCHANGED file
           ELSE IF ~Owned(Now) THEN Error /\ UNCHANGED file
           ELSE IF Now \notin Merged /\ file[Now] # Missing
                THEN file' = [file EXCEPT ![Now] = Missing] /\ Goto("putback", proc.at)
           ELSE file' = [file EXCEPT ![Now] = Old(Now, was)] /\ Goto("restore", proc.at - 1)
    /\ UNCHANGED <<host, backup, txn, count, ghost>>

PutBack ==
    /\ At("putback")
    /\ file' = [file EXCEPT ![Now] = backup[proc.j.id].files[Now]]
    /\ Goto("restore", proc.at - 1)
    /\ UNCHANGED <<host, backup, txn, count, ghost>>

(* The plugin that was active is activated and read back; the process that *)
(* failed also activates the base plugin again.  Without a host all of it  *)
(* is left out, and no error is noted.                                     *)
RestoreHost ==
    /\ At("restore") /\ proc.at = 0
    /\ LET prev == proc.j.prev
           again == prev.plugin # Nil /\ file[Payload] # Missing
           plugin == IF again THEN file[Payload].block ELSE Nil
       IN  \/ /\ host' = [plugin |-> plugin,
                          base |-> host.base \/ (~proc.recovering /\ prev.base)]
              /\ proc' = [proc EXCEPT !.phase = "end",
                                      !.error = @ \/ (again /\ plugin # prev.plugin)]
              /\ UNCHANGED ghost
           \/ /\ ghost' = [ghost EXCEPT !.skipped = TRUE]
              /\ proc' = [proc EXCEPT !.phase = "end"]
              /\ UNCHANGED host
    /\ UNCHANGED <<file, backup, live, txn, count>>

(* Mutant: what could not be restored is not asked for. *)
EndRollbackAnyway ==
    /\ At("end")
    /\ Write(Stage("ROLLED_BACK"), "finish", 0)
    /\ UNCHANGED <<file, host, backup, txn, count, ghost>>

EndRollback ==
    /\ At("end")
    /\ IF proc.error
       THEN live' = Stage("RECOVERY_REQUIRED") /\ proc' = Idle
       ELSE Write(Stage("ROLLED_BACK"), "finish", 0)
    /\ UNCHANGED <<file, host, backup, txn, count, ghost>>

-------------------------------------------------------------------------------
(* The process is killed, or an uninstall or a recovery raises.            *)
Crash ==
    /\ count.faults < MaxFaults /\ ~At("none")
    /\ count' = [count EXCEPT !.faults = @ + 1]
    /\ proc' = Idle
    /\ UNCHANGED <<file, host, backup, live, txn, ghost>>

(* The user replaces a managed file or his part of a merged one, or deletes *)
(* a file that is not merged.                                              *)
Edit(t) ==
    /\ count.visits < MaxVisits /\ t \notin {BaseState, State}
    /\ count' = [count EXCEPT !.visits = @ + 1]
    /\ \E content \in {[block |-> IF t \in Merged THEN file[t].block ELSE Nil, user |-> count'.visits]}
                       \cup IF t \in Merged THEN {} ELSE {Missing} :
        /\ file' = [file EXCEPT ![t] = content]
        /\ ghost' = [ghost EXCEPT
                !.touched = IF t \in Merged THEN @ ELSE @ \cup {t},
                !.waived = @ \cup {file[t].user}
                             \cup IF At("none") /\ content # Missing THEN {} ELSE {count'.visits}]
    /\ UNCHANGED <<host, backup, live, proc, txn>>

InstallStep == Select \/ Remove \/ Replace \/ Record \/ LeaveBase \/ Activate \/ WriteManifest
UninstallStep == Leave \/ Undo \/ RecordUndone \/ Return
RollbackStep == Fail \/ Deactivate \/ Restore \/ PutBack \/ RestoreHost \/ EndRollback

InstallerNext ==
    \/ Install \/ \E force \in BOOLEAN : Uninstall(force)
    \/ BackUp \/ Begin \/ InstallStep \/ UninstallStep \/ Commit \/ Finish
    \/ RollbackStep \/ Recover \/ Crash
    \/ \E t \in Target : Edit(t)

InstallerSpec == InstallerInit /\ [][InstallerNext]_installation

-------------------------------------------------------------------------------
(* The variables have their types; _load_live_journal accepts what the     *)
(* commands write.                                                         *)
InstallerType ==
    /\ file \in [Target -> Content] /\ host \in HostState /\ txn \in 0..MaxTxn
    /\ \A n \in 1..MaxTxn : /\ backup[n].files \in [Target -> Content]
                            /\ backup[n].records \subseteq Target
                            /\ backup[n].manifest \in BOOLEAN
    /\ live = Nil \/ live \in Journal
    /\ proc = Idle \/ (proc.at \in 0..Len(Order) + 1 /\ proc.j \in Journal)

AtRest == At("none") /\ live = Nil
Version == file[State].block

(* All or nothing: when no transaction is live, all targets the user left  *)
(* alone, the host's plugin and the state file are of one version, after   *)
(* commits, rollbacks and recoveries alike.  Rollbacks of installs that    *)
(* failed before their records were journaled are left out.                *)
OneVersion ==
    AtRest /\ ~ghost.unrecorded =>
        /\ \A t \in Target \ (ghost.touched \cup {BaseState}) : file[t].block = Version
        /\ file[BaseState] = IF HadBase /\ Version = Nil THEN Package(0) ELSE Missing
        /\ ~ghost.skipped /\ Payload \notin ghost.touched => host.plugin = Version

(* What the user wrote while no command ran is on disk or in a backup,     *)
(* whatever is installed, undone, rolled back or recovered after it.       *)
NothingLost ==
    \A n \in 1..count.visits :
        \/ n \in ghost.waived
        \/ \E t \in Target : file[t].user = n \/ \E b \in 1..txn : backup[b].files[t].user = n

(* The backup that the state file names is complete whenever nothing is    *)
(* live, so that the version can be uninstalled.                           *)
Undoable ==
    AtRest /\ Version # Nil => backup[Version].manifest /\ State \in backup[Version].records
================================================================================
