------------------------------- MODULE JobBoard -------------------------------
(***************************************************************************)
(* What the SessionEnd queue promises: a job is posted at most once, it    *)
(* stays posted, and it is closed once and for good, either as dead or, if *)
(* its event is under a seal, as done.  SealQueue implements this          *)
(* specification with files, locks, leases and workers that die.           *)
(***************************************************************************)
CONSTANT Job

VARIABLES status,   \* what has become of each job
          sealed    \* jobs whose event the newest seal covers

vars == <<status, sealed>>

Init ==
    /\ status = [j \in Job |-> "absent"]
    /\ sealed = {}

Post(j) ==
    /\ status[j] = "absent"
    /\ status' = [status EXCEPT ![j] = "open"]
    /\ UNCHANGED sealed

Seal(S) ==
    /\ sealed \subseteq S
    /\ sealed' = S
    /\ UNCHANGED status

Complete(j) ==
    /\ status[j] = "open"
    /\ j \in sealed
    /\ status' = [status EXCEPT ![j] = "done"]
    /\ UNCHANGED sealed

Bury(j) ==
    /\ status[j] = "open"
    /\ status' = [status EXCEPT ![j] = "dead"]
    /\ UNCHANGED sealed

Next ==
    \/ \E j \in Job : Post(j) \/ Complete(j) \/ Bury(j)
    \/ \E S \in SUBSET Job : Seal(S)

Spec == Init /\ [][Next]_vars
===============================================================================
