---------------------------- MODULE InstallerStatus ----------------------------
(***************************************************************************)
(* The installer and a status command that reads what it writes            *)
(* (scripts/package_manager.py, _diagnostic_facts).  Status takes no lock: *)
(* it reads the state files, the journal, the host and the files one after *)
(* the other, then the state files and the journal again, and trusts the   *)
(* facts if those have not changed; else it reads everything once more.    *)
(***************************************************************************)
EXTENDS Installer

CONSTANT Hashed     \* files whose hash is compared with the state, in order

ASSUME StatusAssumption == Hashed \in Seq(Target \ Merged)

VARIABLE reader

statusVars == <<installation, reader>>

(* All that status verifies is of version v in files f and host h. *)
Intact(v, f, h) ==
    /\ f[State].block = v /\ h.plugin = v
    /\ \A i \in 1..Len(Hashed) : f[Hashed[i]] = Package(v)

StatusInit == InstallerInit /\ reader = [phase |-> "none"]

(* State files are read first. *)
Read(attempt) ==
    reader' = [phase |-> "journal", at |-> 1, attempt |-> attempt, state |-> Version,
               base |-> file[BaseState], quiet |-> FALSE, ok |-> Version # Nil,
               was |-> Intact(Version, file, host), began |-> txn]

ReadState ==
    /\ reader.phase = "none" /\ count.visits < MaxVisits
    /\ count' = [count EXCEPT !.visits = @ + 1]
    /\ ghost' = [ghost EXCEPT !.waived = @ \cup {count'.visits}]      \* a visit without an edit
    /\ Read(1)
    /\ UNCHANGED <<file, host, backup, live, proc, txn>>

Found(good, phase) == reader' = [reader EXCEPT !.ok = @ /\ good, !.phase = phase]

(* Mutant: a live transaction is only noted. *)
ReadJournalOnly ==
    /\ reader.phase = "journal"
    /\ reader' = [reader EXCEPT !.quiet = live = Nil, !.phase = "host"]

(* A live transaction is an error. *)
ReadJournal ==
    /\ reader.phase = "journal"
    /\ reader' = [reader EXCEPT !.quiet = live = Nil, !.ok = @ /\ live = Nil, !.phase = "host"]

(* The version the host runs is the state's, and the base plugin is not    *)
(* registered besides it.                                                  *)
ReadHost ==
    /\ reader.phase = "host"
    /\ Found(host.plugin = reader.state /\ ~host.base, "files")

ReadFile ==
    /\ reader.phase = "files"
    /\ IF reader.at > Len(Hashed)
       THEN Found(TRUE, "again")
       ELSE reader' = [reader EXCEPT !.ok = @ /\ file[Hashed[reader.at]] = Package(reader.state),
                                     !.at = @ + 1]

Retry == IF reader.attempt = 1 THEN Read(2) ELSE Found(FALSE, "done")

ReadStateAgain ==
    /\ reader.phase = "again"
    /\ IF reader.state = Version /\ reader.base = file[BaseState]
       THEN Found(TRUE, "journal-again") ELSE Retry

(* A journal that is live both times may or may not be the same. *)
ReadJournalAgain ==
    /\ reader.phase = "journal-again"
    /\ \/ reader.quiet = (live = Nil) /\ Found(TRUE, "done")
       \/ (live # Nil \/ ~reader.quiet) /\ Retry

StatusStep ==
    /\ \/ ReadJournal \/ ReadHost \/ ReadFile \/ ReadStateAgain \/ ReadJournalAgain
    /\ UNCHANGED installation

InstallerStep ==
    /\ InstallerNext
    /\ reader' = IF reader.phase \in {"none", "done"} THEN reader
                 ELSE [reader EXCEPT !.was = @ \/ Intact(reader.state, file', host')]

StatusNext == ReadState \/ StatusStep \/ InstallerStep

StatusSpec == StatusInit /\ [][StatusNext]_statusVars

-------------------------------------------------------------------------------
(* A status that reports the installation as intact, although an install,  *)
(* an uninstall, its rollback or a recovery ran while it read, reports what *)
(* the installation was at some moment of the reading.  What is read twice *)
(* is compared by value: when two transactions begin during one reading,   *)
(* the first half of it may be of one and the second half of the other, so *)
(* such readings are left out, as are hosts that were skipped by force.    *)
StatusSound ==
    reader.phase = "done" /\ reader.ok /\ txn <= reader.began + 1 /\ ~ghost.skipped => reader.was
================================================================================
