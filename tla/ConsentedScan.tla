----------------------------- MODULE ConsentedScan -----------------------------
(***************************************************************************)
(* What first-use onboarding promises the user: a scan job serves one      *)
(* acceptance, no acceptance is scanned twice, and nothing a job reports   *)
(* is recorded unless the very acceptance it serves still stands.          *)
(* Onboarding implements this specification.                               *)
(***************************************************************************)
EXTENDS Naturals

VARIABLES consent,  \* number of the acceptance that stands, or 0
          job,      \* the acceptance the newest job serves, or 0
          open,     \* whether that job may still report
          progress  \* the newest index revision it has recorded

vars == <<consent, job, open, progress>>

Init == consent = 0 /\ job = 0 /\ ~open /\ progress = 0

(* Acceptances are numbered upwards. *)
Accept ==
    /\ consent = 0
    /\ consent' \in Nat /\ consent' > job
    /\ UNCHANGED <<job, open, progress>>

Withdraw ==
    /\ consent' = 0
    /\ UNCHANGED <<job, open, progress>>

Open ==
    /\ consent > job /\ ~open
    /\ job' = consent /\ open' = TRUE /\ progress' = 0
    /\ UNCHANGED consent

Report ==
    /\ open /\ job = consent
    /\ progress' \in Nat /\ progress' >= progress
    /\ UNCHANGED <<consent, job, open>>

Finish ==
    /\ open /\ job = consent
    /\ open' = FALSE
    /\ UNCHANGED <<consent, job, progress>>

Cancel ==
    /\ open' = FALSE
    /\ UNCHANGED <<consent, job, progress>>

Next == Accept \/ Withdraw \/ Open \/ Report \/ Finish \/ Cancel

Spec == Init /\ [][Next]_vars
===============================================================================
