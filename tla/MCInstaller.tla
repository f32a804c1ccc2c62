------------------------------ MODULE MCInstaller ------------------------------
(***************************************************************************)
(* Installer with a merged file, a plain one, the payload and the two      *)
(* state files, over an installed base plugin.                             *)
(***************************************************************************)
EXTENDS InstallerStatus

MCOrder == <<"agents", "tool", "payload", "base-state", "install-state">>

MCHashed == <<"tool", "payload">>

(* An edit or a reading meets one fault, or two faults meet each other. *)
FewEvents == count.visits + count.faults <= 2
================================================================================
