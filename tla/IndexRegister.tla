----------------------------- MODULE IndexRegister -----------------------------
(***************************************************************************)
(* What the capability store promises the tools that share an index, with  *)
(* no files, locks or crashes: a register that is changed by compare and   *)
(* set, may lose its newest value, and can then be set back to the one     *)
(* before it, under a revision that the lost one cannot have had.          *)
(* CapabilityStore implements this specification.                          *)
(*                                                                         *)
(* A value that may be absent is the set that holds it, or {}.             *)
(***************************************************************************)
EXTENDS Naturals

CONSTANTS Client, Payload

VARIABLES value,    \* the version in the register
          kept,     \* the version it can be set back to
          held      \* what each client has read and computes from

vars == <<value, kept, held>>

Init ==
    /\ value = {} /\ kept = {}
    /\ held = [c \in Client |-> {}]

(* A value that was lost is not taken for one that never was. *)
Read(c) ==
    /\ kept = {} \/ value # {}
    /\ held' = [held EXCEPT ![c] = value]
    /\ UNCHANGED <<value, kept>>

(* The first value.  It may be lost before anything is kept, and made again. *)
Create(x) ==
    /\ value = {} /\ kept = {}
    /\ value' = {[revision |-> 0, payload |-> x]}
    /\ UNCHANGED <<kept, held>>

(* The value is made safe before it is changed. *)
Keep ==
    /\ value # {}
    /\ kept' = value
    /\ UNCHANGED <<value, held>>

(* Compare and set: the register has the value the client computed from,   *)
(* and something changes.  First values have the same revision.            *)
Update(c, x) ==
    /\ kept = value
    /\ \E v \in value, h \in held[c] :
        /\ h = v \/ (h.revision = 0 /\ v.revision = 0)
        /\ x # v.payload
        /\ value' = {[revision |-> v.revision + 1, payload |-> x]}
    /\ held' = [held EXCEPT ![c] = {}]
    /\ UNCHANGED kept

Lose ==
    /\ value' = {}
    /\ UNCHANGED <<kept, held>>

(* A client gives up.  If it had a value made safe, that may be lost by now. *)
Quit(c) ==
    /\ value' \in {value, {}}
    /\ held' = [held EXCEPT ![c] = {}]
    /\ UNCHANGED kept

(* At most one update is taken back; who read what was lost cannot mistake *)
(* what is restored for it.                                                *)
Restore ==
    /\ \E k \in kept :
        /\ \A v \in value : v.revision = k.revision + 1
        /\ value' = {[revision |-> k.revision + 2, payload |-> k.payload]}
    /\ UNCHANGED <<kept, held>>

Next ==
    \/ \E c \in Client : Read(c) \/ Quit(c) \/ \E x \in Payload : Update(c, x)
    \/ \E x \in Payload : Create(x)
    \/ Keep \/ Lose \/ Restore

Spec == Init /\ [][Next]_vars
===============================================================================
