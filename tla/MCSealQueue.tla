------------------------------ MODULE MCSealQueue -----------------------------
(***************************************************************************)
(* SealQueue with two workers and two jobs.                                *)
(***************************************************************************)
EXTENDS SealQueue, TLC

CONSTANTS w1, w2

MCWorker == {w1, w2}
TwoJobs == {1, 2}
AllFaults == {"kill", "keyring", "lock", "rename", "identity"}

(* Bound: two faults of any kinds while one job is committed; with two     *)
(* jobs, one, a kill or a failed observation.                              *)
FewFaults ==
    committed = Job =>
        faults.count <= 1 /\ faults.kinds \subseteq {"kill", "identity"}
===============================================================================
