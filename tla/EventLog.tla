------------------------------- MODULE EventLog -------------------------------
(***************************************************************************)
(* What the task-outcome event store promises its callers, with no files,  *)
(* locks, processes or crashes: one growing sequence of events in which no *)
(* event id occurs twice, a sealed prefix and an archived prefix.          *)
(* EventChain implements this specification.                               *)
(***************************************************************************)
EXTENDS Naturals, Sequences

CONSTANT Event          \* event payloads; e.id is the event_id

VARIABLES records,      \* the committed events, oldest first
          sealed,       \* number of leading records the newest seal covers
          archived      \* number of leading records the newest manifest freezes

vars == <<records, sealed, archived>>

Ids == {records[i].id : i \in DOMAIN records}

Init ==
    /\ records = <<>>
    /\ sealed = 0
    /\ archived = 0

(* An event is committed at the end, once per event id. *)
Commit(e) ==
    /\ e.id \notin Ids
    /\ records' = Append(records, e)
    /\ UNCHANGED <<sealed, archived>>

(* A seal covers everything committed when it is made. *)
Seal ==
    /\ sealed' = Len(records)
    /\ UNCHANGED <<records, archived>>

(* A manifest freezes a longer prefix than the one before. *)
Freeze(n) ==
    /\ archived < n
    /\ archived' = n
    /\ UNCHANGED <<records, sealed>>

Next ==
    \/ \E e \in Event : Commit(e)
    \/ Seal
    \/ \E n \in 1 .. Len(records) : Freeze(n)

Spec == Init /\ [][Next]_vars
===============================================================================
