------------------------- MODULE Stores_proofs -------------------------
(***************************************************************************)
(* Proofs about CapabilityStore and about G6Budget, which share no name.   *)
(*                                                                         *)
(* CapabilityStore, for any processes, payloads and bounds: revisions,     *)
(* updates and recovery, and the register they implement.  G6Budget, for   *)
(* any plan of works and any limits: capacity, required work, runs and     *)
(* approvals.                                                              *)
(***************************************************************************)
EXTENDS CapabilityStore, G6Budget, FiniteSetTheorems, WellFoundedInduction, TLAPS

Locked == {"commit", "recover", "publish"}

LockInv == \A p \in Proc : proc[p].pc \in Locked => lock = p

(* What a process has seen of index.json was published; what it is about   *)
(* to commit follows what it has seen.                                     *)
SeenOK(p) ==
    /\ proc[p].seen \in Record => Version(proc[p].seen) \in published
    /\ proc[p].pc \in {"loaded", "commit"} => proc[p].seen \in Record \cup {Missing}
    /\ proc[p].pc = "commit" =>
        /\ ~proc[p].new.recovered
        /\ proc[p].seen = Missing => proc[p].new.revision = 0
        /\ proc[p].seen # Missing => proc[p].new.revision = proc[p].seen.revision + 1

SeenInv == \A p \in Proc : SeenOK(p)

(* A valid index.json is the newest index; two revisions after the         *)
(* previous one, it is a restoration.  As long as nothing was replaced,    *)
(* there is revision 0 only.                                               *)
FilesInv ==
    /\ current \in Record =>
        /\ Version(current) \in published
        /\ \A x \in published : x.revision <= current.revision
    /\ previous \in Record => Version(previous) \in published
    /\ current \in Record /\ previous \in Record /\ current.revision = previous.revision + 2
         => current.recovered
    /\ previous = Missing => \A x \in published : x.revision = 0

(* What is about to be published is new, or what its revision named, and   *)
(* follows the previous index; what it replaces is on disk.                *)
NewOK(r) ==
    /\ \A x \in published :
        \/ x.revision < r.revision
        \/ x.revision = r.revision /\ (x.payload = r.payload \/ r.revision = 0)
    /\ previous \in Record =>
        \/ r.revision = previous.revision + 1
        \/ /\ r.revision = previous.revision + 2
           /\ r.recovered /\ r.payload = previous.payload
    /\ previous = Missing => r.revision = 0
    /\ current \in Record => current = previous \/ current \in archive

PublishInv == \A p \in Proc : proc[p].pc = "publish" => NewOK(proc[p].new)

IInv ==
    /\ TypeOK /\ LockInv /\ SeenInv /\ FilesInv /\ PublishInv
    /\ RevisionNames /\ LosesOneUpdate /\ NoLostUpdate

-------------------------------------------------------------------------------
ProcState == [pc : {"idle", "loaded", "commit", "recover", "publish"},
              seen : Content, new : Record]

LEMMA FreshType == Fresh \in ProcState
<1>1. (CHOOSE x \in Payload : TRUE) \in Payload
  BY StoreAssumption
<1>. QED
  BY <1>1, StoreAssumption DEF Fresh, Blank, ProcState, Content, Record

LEMMA InitInv == Init => IInv
<1>. SUFFICES ASSUME Init PROVE IInv
  OBVIOUS
<1>1. proc \in [Proc -> ProcState] /\ \A p \in Proc : proc[p] = Fresh
  BY FreshType DEF Init
<1>2. TypeOK
  BY <1>1, StoreAssumption DEF Init, TypeOK, ProcState, Content
<1>3. \A p \in Proc : proc[p].pc = "idle" /\ proc[p].seen = Missing
  <2>1. Fresh.pc = "idle" /\ Fresh.seen = Missing
    BY DEF Fresh
  <2>. QED
    BY <1>1, <2>1
<1>4. LockInv /\ SeenInv /\ PublishInv /\ NoLostUpdate
  BY <1>3, StoreAssumption DEF LockInv, Locked, SeenInv, SeenOK, PublishInv, NoLostUpdate, At
<1>5. FilesInv /\ RevisionNames /\ LosesOneUpdate
  BY StoreAssumption DEF Init, FilesInv, RevisionNames, LosesOneUpdate
<1>. QED
  BY <1>2, <1>4, <1>5 DEF IInv

(* A step of p that leaves the files alone and has p neither at "commit"   *)
(* nor at "publish" preserves everything if what p has seen was published. *)
LEMMA QuietStep ==
    ASSUME IInv, NEW p \in Proc, NEW s \in ProcState,
           UNCHANGED <<current, previous, archive, published, damage>>,
           proc' = [proc EXCEPT ![p] = s],
           lock' \in Proc \cup {None},
           \A q \in Proc \ {p} : proc[q].pc \in Locked => lock' = q,
           s.pc \in {"idle", "loaded", "recover"},
           s.pc = "recover" => lock' = p,
           s.seen \in Record => Version(s.seen) \in published,
           s.pc = "loaded" => s.seen \in Record \cup {Missing}
    PROVE  IInv'
<1>. USE DEF IInv
<1>1. /\ proc' \in [Proc -> ProcState]
      /\ proc'[p] = s
      /\ \A q \in Proc \ {p} : proc'[q] = proc[q]
  BY DEF TypeOK, ProcState
<1>2. TypeOK'
  BY <1>1 DEF TypeOK, ProcState, Content
<1>3. LockInv'
  BY <1>1 DEF LockInv, Locked
<1>4. SeenInv'
  <2>. SUFFICES ASSUME NEW q \in Proc PROVE SeenOK(q)'
    BY DEF SeenInv
  <2>1. CASE q = p
    BY <2>1, <1>1 DEF SeenOK, Version
  <2>2. CASE q # p
    BY <2>2, <1>1 DEF SeenOK, SeenInv, Version
  <2>. QED
    BY <2>1, <2>2
<1>5. FilesInv' /\ RevisionNames' /\ LosesOneUpdate'
  BY DEF FilesInv, RevisionNames, LosesOneUpdate, Version
<1>6. PublishInv'
  <2>. SUFFICES ASSUME NEW q \in Proc, proc'[q].pc = "publish" PROVE NewOK(proc[q].new)'
    BY <1>1 DEF PublishInv, NewOK
  <2>1. q # p /\ proc'[q] = proc[q]
    BY <1>1
  <2>. QED
    BY <2>1 DEF PublishInv, NewOK
<1>7. NoLostUpdate'
  <2>. SUFFICES ASSUME NEW q \in Proc, proc'[q].pc = "publish", ~proc'[q].new.recovered,
                       proc'[q].new.revision > 1
                PROVE  Version(previous) = Version(proc'[q].seen)
    BY DEF NoLostUpdate, At, Version
  <2>1. q # p /\ proc'[q] = proc[q]
    BY <1>1
  <2>. QED
    BY <2>1 DEF NoLostUpdate, At
<1>. QED
  BY <1>2, <1>3, <1>4, <1>5, <1>6, <1>7

(* Taking the lock for a commit, and taking the decision to publish: only  *)
(* the memory of p, the lock and, before index.json, the copies change.    *)
LEMMA CommitBegins ==
    ASSUME IInv, NEW p \in Proc, NEW x \in Payload, BeginCommit(p, x)
    PROVE  IInv'
<1>. USE DEF IInv
<1>. DEFINE r == IF proc[p].seen = Missing THEN 0 ELSE proc[p].seen.revision + 1
            n == [revision |-> r, payload |-> x, recovered |-> FALSE]
            s == [proc[p] EXCEPT !.pc = "commit", !.new = n]
<1>1. proc[p] \in ProcState /\ proc[p].pc = "loaded" /\ lock = None /\ lock' = p
  BY DEF TypeOK, ProcState, BeginCommit, At
<1>2. proc[p].seen \in Record \cup {Missing}
  BY <1>1 DEF SeenInv, SeenOK
<1>3. r \in 0 .. MaxRevision
  BY <1>2, StoreAssumption DEF BeginCommit, Record
<1>4. n \in Record
  BY <1>3 DEF Record
<1>5. s \in ProcState /\ s.pc = "commit" /\ s.new = n /\ s.seen = proc[p].seen
  BY <1>1, <1>4 DEF ProcState
<1>6. proc' = [proc EXCEPT ![p] = s]
  BY DEF BeginCommit
<1>7. /\ proc' \in [Proc -> ProcState]
      /\ proc'[p] = s
      /\ \A q \in Proc \ {p} : proc'[q] = proc[q]
  BY <1>5, <1>6 DEF TypeOK, ProcState
<1>8. UNCHANGED <<current, previous, archive, published, damage>>
  BY DEF BeginCommit
<1>9. TypeOK'
  BY <1>1, <1>7, <1>8 DEF TypeOK, ProcState, Content
<1>10. \A q \in Proc \ {p} : proc[q].pc \notin Locked
  BY <1>1, StoreAssumption DEF LockInv
<1>11. LockInv'
  BY <1>1, <1>7, <1>10 DEF LockInv
<1>12. SeenInv'
  <2>. SUFFICES ASSUME NEW q \in Proc PROVE SeenOK(q)'
    BY DEF SeenInv
  <2>1. CASE q = p
    <3>1. proc[p].seen \in Record => Version(proc[p].seen) \in published
      BY DEF SeenInv, SeenOK
    <3>2. /\ ~n.recovered
          /\ proc[p].seen = Missing => n.revision = 0
          /\ proc[p].seen # Missing => n.revision = proc[p].seen.revision + 1
      OBVIOUS
    <3>. HIDE DEF s, n, r
    <3>. QED
      BY <2>1, <3>1, <3>2, <1>2, <1>5, <1>7, <1>8 DEF SeenOK, Version
  <2>2. CASE q # p
    BY <2>2, <1>7, <1>8 DEF SeenOK, SeenInv, Version
  <2>. QED
    BY <2>1, <2>2
<1>13. FilesInv' /\ RevisionNames' /\ LosesOneUpdate'
  BY <1>8 DEF FilesInv, RevisionNames, LosesOneUpdate, Version
<1>14. \A q \in Proc : proc'[q].pc # "publish"
  BY <1>5, <1>7, <1>10 DEF Locked
<1>15. PublishInv' /\ NoLostUpdate'
  BY <1>14 DEF PublishInv, NoLostUpdate, At
<1>. QED
  BY <1>9, <1>11, <1>12, <1>13, <1>15

(* p owns the lock and decides to publish n: nobody else is locked.        *)
LEMMA Decided ==
    ASSUME IInv, NEW p \in Proc, NEW n \in Record,
           proc[p].pc \in Locked,
           proc' = [proc EXCEPT ![p].pc = "publish", ![p].new = n],
           UNCHANGED <<current, lock, published, damage>>,
           previous' \in Record \cup {Missing},
           archive' \subseteq Record \cup {Junk},
           FilesInv', LosesOneUpdate', NewOK(n)',
           ~n.recovered /\ n.revision > 1 => Version(previous') = Version(proc[p].seen)
    PROVE  IInv'
<1>. USE DEF IInv
<1>. DEFINE s == [proc[p] EXCEPT !.pc = "publish", !.new = n]
<1>1. proc[p] \in ProcState /\ lock = p
  BY DEF TypeOK, ProcState, LockInv
<1>2. s \in ProcState /\ s.pc = "publish" /\ s.new = n /\ s.seen = proc[p].seen
  BY <1>1 DEF ProcState
<1>3. /\ proc' \in [Proc -> ProcState]
      /\ proc'[p] = s
      /\ \A q \in Proc \ {p} : proc'[q] = proc[q]
  BY <1>2 DEF TypeOK, ProcState
<1>4. TypeOK'
  BY <1>3 DEF TypeOK, ProcState, Content
<1>. HIDE DEF s
<1>5. \A q \in Proc \ {p} : proc[q].pc \notin Locked
  BY <1>1 DEF LockInv
<1>6. LockInv'
  BY <1>1, <1>3, <1>5 DEF LockInv
<1>7. SeenInv'
  <2>. SUFFICES ASSUME NEW q \in Proc PROVE SeenOK(q)'
    BY DEF SeenInv
  <2>1. SeenOK(q)
    BY DEF SeenInv
  <2>2. CASE q = p
    BY <2>1, <2>2, <1>2, <1>3 DEF SeenOK, Version
  <2>3. CASE q # p
    BY <2>1, <2>3, <1>3 DEF SeenOK, Version
  <2>. QED
    BY <2>2, <2>3
<1>8. \A q \in Proc : proc'[q].pc = "publish" => q = p
  BY <1>3, <1>5 DEF Locked
<1>9. PublishInv'
  <2>1. ASSUME NEW q \in Proc, proc'[q].pc = "publish" PROVE NewOK(proc[q].new)'
    <3>1. proc'[q].new = n
      BY <2>1, <1>8, <1>3, <1>2
    <3>. QED
      BY <3>1 DEF NewOK
  <2>. QED
    BY <2>1 DEF PublishInv
<1>10. NoLostUpdate'
  <2>1. ASSUME NEW q \in Proc, proc'[q].pc = "publish", ~proc'[q].new.recovered,
               proc'[q].new.revision > 1
        PROVE  Version(previous') = Version(proc'[q].seen)
    <3>1. proc'[q] = s
      BY <2>1, <1>8, <1>3
    <3>. QED
      BY <2>1, <3>1, <1>2
  <2>. QED
    BY <2>1 DEF NoLostUpdate, At, Version
<1>11. RevisionNames'
  BY DEF RevisionNames
<1>. QED
  BY <1>4, <1>6, <1>7, <1>9, <1>10, <1>11

(* The first index is created only when nothing was ever replaced. *)
LEMMA CreateStep ==
    ASSUME IInv, NEW p \in Proc, Create(p)
    PROVE  IInv'
<1>. USE DEF IInv
<1>1. /\ proc[p] \in ProcState /\ proc[p].pc = "commit" /\ proc[p].seen = Missing
      /\ current = Missing /\ previous = Missing
      /\ UNCHANGED <<current, previous, archive, lock, published, damage>>
      /\ proc' = [proc EXCEPT ![p].pc = "publish"]
  BY DEF TypeOK, ProcState, Create, At, Goto
<1>2. PICK n \in Record : n = proc[p].new
  BY <1>1 DEF ProcState
<1>3. n \in Record /\ n.revision = 0 /\ ~n.recovered
  BY <1>1, <1>2 DEF SeenInv, SeenOK
<1>4. proc' = [proc EXCEPT ![p].pc = "publish", ![p].new = n]
  <2>1. proc[p] = [pc |-> proc[p].pc, seen |-> proc[p].seen, new |-> proc[p].new]
    BY <1>1 DEF ProcState
  <2>2. [proc[p] EXCEPT !.pc = "publish"] = [proc[p] EXCEPT !.pc = "publish", !.new = n]
    BY <2>1, <1>2
  <2>. QED
    BY <1>1, <2>2 DEF TypeOK
<1>5. NewOK(n)'
  BY <1>1, <1>3, StoreAssumption DEF NewOK, FilesInv
<1>6. FilesInv' /\ LosesOneUpdate'
  BY <1>1 DEF FilesInv, LosesOneUpdate, Version
<1>7. previous' \in Record \cup {Missing} /\ archive' \subseteq Record \cup {Junk}
  BY <1>1 DEF TypeOK
<1>8. proc[p].pc \in Locked
  BY <1>1 DEF Locked
<1>9. ~n.recovered /\ n.revision > 1 => Version(previous') = Version(proc[p].seen)
  BY <1>3
<1>. QED
  BY <1>1, <1>3, <1>4, <1>5, <1>6, <1>7, <1>8, <1>9, Decided

(* The index a commit replaces is, by its revision, what was loaded. *)
LEMMA KeepPreviousStep ==
    ASSUME IInv, NEW p \in Proc, KeepPrevious(p)
    PROVE  IInv'
<1>. USE DEF IInv
<1>. DEFINE old == proc[p].seen
<1>1. /\ proc[p] \in ProcState /\ proc[p].pc = "commit" /\ old # Missing
      /\ current \in Record /\ current.revision = old.revision
      /\ previous' = current
      /\ UNCHANGED <<current, archive, lock, published, damage>>
      /\ proc' = [proc EXCEPT ![p].pc = "publish"]
  BY DEF TypeOK, ProcState, KeepPrevious, Expected, Decodes, At, Goto
<1>2. PICK n \in Record : n = proc[p].new
  BY <1>1 DEF ProcState
<1>3. /\ old \in Record /\ Version(old) \in published
      /\ n \in Record /\ ~n.recovered /\ n.revision = old.revision + 1
  BY <1>1, <1>2 DEF ProcState, SeenInv, SeenOK
<1>4. proc' = [proc EXCEPT ![p].pc = "publish", ![p].new = n]
  <2>1. proc[p] = [pc |-> proc[p].pc, seen |-> proc[p].seen, new |-> proc[p].new]
    BY <1>1 DEF ProcState
  <2>2. [proc[p] EXCEPT !.pc = "publish"] = [proc[p] EXCEPT !.pc = "publish", !.new = n]
    BY <2>1, <1>2
  <2>. QED
    BY <1>1, <2>2 DEF TypeOK
<1>5. Version(current) \in published /\ \A x \in published : x.revision <= current.revision
  BY <1>1 DEF FilesInv
<1>6. published \subseteq [revision : 0 .. MaxRevision, payload : Payload] /\ MaxRevision \in Nat
  BY StoreAssumption DEF TypeOK
<1>7. current.revision \in Nat /\ n.revision = current.revision + 1
  BY <1>1, <1>3, <1>6 DEF Record
<1>. HIDE DEF old
<1>8. NewOK(n)'
  <2>1. \A x \in published : x.revision < n.revision
    BY <1>5, <1>6, <1>7
  <2>. QED
    BY <2>1, <1>1, <1>7, StoreAssumption DEF NewOK
<1>9. FilesInv'
  <2>1. current.revision # current.revision + 2
    BY <1>7
  <2>. QED
    BY <2>1, <1>1, <1>5, StoreAssumption DEF FilesInv, Version
<1>10. LosesOneUpdate'
  BY <1>1, <1>5, <1>6, <1>7 DEF LosesOneUpdate
<1>11. n.revision > 1 => Version(previous') = Version(old)
  <2>. SUFFICES ASSUME n.revision > 1 PROVE Version(current) = Version(old)
    BY <1>1
  <2>1. Version(current).revision = current.revision /\ Version(old).revision = current.revision
    BY <1>1 DEF Version
  <2>2. current.revision > 0
    BY <1>7
  <2>3. Version(current).payload = Version(old).payload
    BY <2>1, <2>2, <1>3, <1>5 DEF RevisionNames
  <2>. QED
    BY <2>1, <2>3 DEF Version
<1>12. archive' \subseteq Record \cup {Junk} /\ proc[p].pc \in Locked
  BY <1>1 DEF TypeOK, Locked
<1>. QED
  BY <1>1, <1>3, <1>4, <1>8, <1>9, <1>10, <1>11, <1>12, Decided DEF old

(* A restoration has a revision nobody has seen, or its own once more. *)
LEMMA KeepCurrentStep ==
    ASSUME IInv, NEW p \in Proc, KeepCurrent(p)
    PROVE  IInv'
<1>. USE DEF IInv
<1>1. /\ proc[p].pc = "recover"
      /\ previous \in Record
      /\ Restored.revision <= MaxRevision
      /\ archive' = archive \cup ({current} \ {Missing})
      /\ UNCHANGED <<current, previous, lock, published, damage>>
      /\ proc' = [proc EXCEPT ![p].pc = "publish", ![p].new = Restored]
  BY DEF KeepCurrent, Recoverable, Decodes, At
<1>2. /\ published \subseteq [revision : 0 .. MaxRevision, payload : Payload]
      /\ MaxRevision \in Nat
      /\ previous.revision \in Nat /\ previous.payload \in Payload
      /\ current \in Record => current.revision \in Nat /\ current.payload \in Payload
  BY <1>1, StoreAssumption DEF TypeOK, Record
<1>3. ASSUME NEW x \in published
      PROVE  \/ x.revision <= previous.revision + 1
             \/ x.revision = previous.revision + 2 /\ x.payload = previous.payload
  <2>1. previous # Missing
    BY <1>1, StoreAssumption
  <2>. QED
    BY <2>1, Zenon DEF LosesOneUpdate
<1>4. current \in Record => current.revision < previous.revision + 2
  <2>. SUFFICES ASSUME current \in Record, ~(current.revision < previous.revision + 2) PROVE FALSE
    OBVIOUS
  <2>1. Version(current) \in published /\ Version(current).revision = current.revision
        /\ Version(current).payload = current.payload
    BY DEF FilesInv, Version
  <2>2. current.revision = previous.revision + 2 /\ current.payload = previous.payload
    BY <2>1, <1>2, <1>3
  <2>3. current.recovered
    BY <2>2, <1>1 DEF FilesInv
  <2>. QED
    BY <2>2, <2>3 DEF KeepCurrent, Recoverable, Decodes
<1>5. Restored \in Record
  BY <1>1, <1>2, <1>4 DEF Restored, Record, Decodes
<1>6. PICK n \in Record : n = Restored
  BY <1>5
<1>7. n.revision = previous.revision + 2 /\ n.payload = previous.payload /\ n.recovered
  BY <1>2, <1>4, <1>6 DEF Restored, Decodes
<1>8. archive' \subseteq Record \cup {Junk}
  BY <1>1 DEF TypeOK, Content
<1>9. NewOK(n)'
  <2>1. \A x \in published :
          \/ x.revision < n.revision
          \/ x.revision = n.revision /\ x.payload = n.payload
    BY <1>2, <1>3, <1>7
  <2>2. current \in Record => current \in archive'
    BY <1>1, StoreAssumption
  <2>. QED
    BY <2>1, <2>2, <1>1, <1>7, StoreAssumption DEF NewOK
<1>10. FilesInv' /\ LosesOneUpdate'
  BY <1>1 DEF FilesInv, LosesOneUpdate, Version
<1>11. proc[p].pc \in Locked /\ previous' \in Record \cup {Missing}
  BY <1>1 DEF Locked
<1>12. proc' = [proc EXCEPT ![p].pc = "publish", ![p].new = n]
  BY <1>1, <1>6
<1>. QED
  BY <1>1, <1>7, <1>8, <1>9, <1>10, <1>11, <1>12, Decided

LEMMA PublishStep ==
    ASSUME IInv, NEW p \in Proc, Publish(p)
    PROVE  IInv'
<1>. USE DEF IInv
<1>. DEFINE n == proc[p].new
            v == Version(n)
<1>1. /\ proc[p] \in ProcState /\ proc[p].pc = "publish" /\ n \in Record /\ lock = p
      /\ current' = n /\ published' = published \cup {v}
      /\ lock' = None
      /\ proc' = [proc EXCEPT ![p] = Fresh]
      /\ UNCHANGED <<previous, archive, damage>>
  BY DEF TypeOK, ProcState, Publish, At, LockInv, Locked
<1>2. NewOK(n)
  BY <1>1 DEF PublishInv
<1>3. /\ published \subseteq [revision : 0 .. MaxRevision, payload : Payload]
      /\ MaxRevision \in Nat /\ n.revision \in Nat
      /\ previous \in Record => previous.revision \in Nat
  BY <1>1, StoreAssumption DEF TypeOK, Record
<1>4. v \in [revision : 0 .. MaxRevision, payload : Payload]
      /\ v.revision = n.revision /\ v.payload = n.payload
  BY <1>1 DEF Version, Record
<1>5. /\ proc' \in [Proc -> ProcState]
      /\ proc'[p] = Fresh
      /\ \A q \in Proc \ {p} : proc'[q] = proc[q]
  BY <1>1, FreshType DEF TypeOK, ProcState
<1>6. Fresh.pc = "idle" /\ Fresh.seen = Missing
  BY DEF Fresh
<1>. HIDE DEF n, v
<1>7. TypeOK'
  BY <1>1, <1>4, <1>5 DEF TypeOK, ProcState, Content
<1>8. \A q \in Proc : proc'[q].pc \notin Locked
  BY <1>1, <1>5, <1>6 DEF LockInv, Locked
<1>9. LockInv' /\ PublishInv' /\ NoLostUpdate'
  BY <1>8 DEF LockInv, PublishInv, NoLostUpdate, At, Locked
<1>10. SeenInv'
  <2>. SUFFICES ASSUME NEW q \in Proc PROVE SeenOK(q)'
    BY DEF SeenInv
  <2>1. CASE q = p
    BY <2>1, <1>5, <1>6, StoreAssumption DEF SeenOK
  <2>2. CASE q # p
    BY <2>2, <1>1, <1>5 DEF SeenOK, SeenInv, Version
  <2>. QED
    BY <2>1, <2>2
<1>11. FilesInv'
  <2>1. \A x \in published' : x.revision <= n.revision
    BY <1>1, <1>2, <1>3, <1>4 DEF NewOK
  <2>2. Version(current)' \in published'
    BY <1>1 DEF v, Version
  <2>3. previous \in Record => Version(previous)' \in published'
    BY <1>1 DEF FilesInv, Version
  <2>4. previous \in Record /\ n.revision = previous.revision + 2 => n.recovered
    BY <1>2, <1>3 DEF NewOK
  <2>5. previous = Missing => \A x \in published' : x.revision = 0
    BY <1>1, <1>2, <1>4 DEF FilesInv, NewOK
  <2>. QED
    BY <1>1, <2>1, <2>2, <2>3, <2>4, <2>5 DEF FilesInv
<1>12. RevisionNames'
  <2>1. \A x \in published : x.revision = v.revision /\ x.revision > 0 => x.payload = v.payload
    BY <1>2, <1>3, <1>4 DEF NewOK
  <2>. QED
    BY <2>1, <1>1 DEF RevisionNames
<1>13. LosesOneUpdate'
  <2>1. previous # Missing => previous \in Record
    BY DEF TypeOK
  <2>2. previous # Missing => \/ v.revision <= previous.revision + 1
                              \/ v.revision = previous.revision + 2 /\ v.payload = previous.payload
    BY <2>1, <1>2, <1>3, <1>4 DEF NewOK
  <2>. QED
    BY <2>2, <1>1 DEF LosesOneUpdate
<1>. QED
  BY <1>7, <1>9, <1>10, <1>11, <1>12, <1>13

LEMMA DamageStep ==
    ASSUME IInv, Damage
    PROVE  IInv'
<1>. USE DEF IInv
<1>1. /\ current' \in {Junk, Missing} /\ damage' \in 0 .. MaxDamage
      /\ UNCHANGED <<previous, archive, lock, proc, published>>
  BY StoreAssumption DEF Damage, TypeOK
<1>2. current' \notin Record
  BY <1>1, StoreAssumption
<1>3. TypeOK'
  BY <1>1 DEF TypeOK, Content
<1>4. LockInv' /\ SeenInv'
  BY <1>1 DEF LockInv, SeenInv, SeenOK, Version
<1>5. FilesInv' /\ RevisionNames' /\ LosesOneUpdate' /\ NoLostUpdate'
  BY <1>1, <1>2 DEF FilesInv, RevisionNames, LosesOneUpdate, NoLostUpdate, At, Version
<1>6. PublishInv'
  BY <1>1, <1>2 DEF PublishInv, NewOK
<1>. QED
  BY <1>3, <1>4, <1>5, <1>6

LEMMA StepInv == IInv /\ [Next]_vars => IInv'
<1>. SUFFICES ASSUME IInv, [Next]_vars PROVE IInv'
  OBVIOUS
<1>. USE DEF IInv
<1>1. CASE UNCHANGED vars
  BY <1>1 DEF vars, TypeOK, Content, LockInv, SeenInv, SeenOK, FilesInv, PublishInv, NewOK,
              RevisionNames, LosesOneUpdate, NoLostUpdate, At, Version
<1>2. CASE Damage
  BY <1>2, DamageStep
<1>3. ASSUME NEW p \in Proc, Step(p) PROVE IInv'
  <2>1. proc \in [Proc -> ProcState] /\ proc[p] \in ProcState /\ lock \in Proc \cup {None}
    BY DEF TypeOK, ProcState
  <2>2. \A q \in Proc : proc[q].pc \in Locked => lock = q
    BY DEF LockInv
  <2>3. proc[p].seen \in Record => Version(proc[p].seen) \in published
    BY DEF SeenInv, SeenOK
  <2>4. current \in Record => Version(current) \in published
    BY DEF FilesInv
  <2>5. current \in Content
    BY DEF TypeOK
  <2>6. CASE Load(p) \/ Look(p)
    <3>1. PICK l \in {"idle", "loaded"} :
            /\ proc' = [proc EXCEPT ![p].pc = l, ![p].seen = current]
            /\ l = "loaded" => current \in Record \cup {Missing}
      <4>1. CASE Load(p)
        BY <4>1 DEF Load, Decodes
      <4>2. CASE Look(p)
        <5>1. proc[p] = [pc |-> proc[p].pc, seen |-> proc[p].seen, new |-> proc[p].new]
          BY <2>1 DEF ProcState
        <5>2. [proc[p] EXCEPT !.seen = current] = [proc[p] EXCEPT !.pc = "idle", !.seen = current]
          BY <5>1, <4>2 DEF Look, At
        <5>3. proc' = [proc EXCEPT ![p].pc = "idle", ![p].seen = current]
          BY <5>2, <4>2, <2>1 DEF Look
        <5>. QED
          BY <5>3
      <4>. QED
        BY <4>1, <4>2, <2>6
    <3>. DEFINE s == [proc[p] EXCEPT !.pc = l, !.seen = current]
    <3>2. /\ UNCHANGED <<current, previous, archive, lock, published, damage>>
          /\ proc' = [proc EXCEPT ![p] = s]
      BY <2>6, <3>1 DEF Load, Look
    <3>3. s \in ProcState /\ s.pc = l /\ s.seen = current
      BY <2>1, <2>5 DEF ProcState
    <3>. HIDE DEF s
    <3>. QED
      BY <3>1, <3>2, <3>3, <2>1, <2>2, <2>4, QuietStep
  <2>7. CASE BeginRecover(p)
    <3>. DEFINE s == [proc[p] EXCEPT !.pc = "recover"]
    <3>1. /\ UNCHANGED <<current, previous, archive, published, damage>>
          /\ lock = None /\ lock' = p
          /\ proc' = [proc EXCEPT ![p] = s]
      BY <2>7 DEF BeginRecover, Goto
    <3>2. s \in ProcState /\ s.pc = "recover" /\ s.seen = proc[p].seen
      BY <2>1 DEF ProcState
    <3>3. \A q \in Proc \ {p} : proc[q].pc \in Locked => lock' = q
      BY <3>1, <2>2, StoreAssumption
    <3>. HIDE DEF s
    <3>. QED
      BY <3>1, <3>2, <3>3, <2>1, <2>3, QuietStep
  <2>8. CASE Leave(p)
    <3>1. /\ UNCHANGED <<current, previous, archive, published, damage>>
          /\ lock' = IF lock = p THEN None ELSE lock
          /\ proc' = [proc EXCEPT ![p] = Fresh]
      BY <2>8 DEF Leave
    <3>2. Fresh \in ProcState /\ Fresh.pc = "idle" /\ Fresh.seen = Missing
      BY FreshType DEF Fresh
    <3>3. \A q \in Proc \ {p} : proc[q].pc \in Locked => lock' = q
      BY <3>1, <2>2
    <3>4. lock' \in Proc \cup {None}
      BY <3>1, <2>1
    <3>5. Fresh.seen \notin Record
      BY <3>2, StoreAssumption
    <3>. QED
      BY <3>1, <3>2, <3>3, <3>4, <3>5, QuietStep
  <2>. QED
    BY <1>3, <2>6, <2>7, <2>8, CommitBegins, CreateStep, KeepPreviousStep, KeepCurrentStep,
       PublishStep DEF Step
<1>. QED
  BY <1>1, <1>2, <1>3 DEF Next

(* The invariant holds of every behaviour. *)
THEOREM Inductive == Spec => []IInv
BY InitInv, StepInv, PTL DEF Spec

(* Type correctness. *)
THEOREM TypeCorrect == Spec => []TypeOK
<1>1. IInv => TypeOK
  BY DEF IInv
<1>. QED
  BY <1>1, Inductive, PTL

(* A revision names one index for good, through any number of damages and  *)
(* recoveries (recover skips the revision the lost index may have had).    *)
THEOREM RevisionsKeepTheirMeaning == Spec => []RevisionNames
<1>1. IInv => RevisionNames
  BY DEF IInv
<1>. QED
  BY <1>1, Inductive, PTL

(* No commit replaces an index other than the one it was computed from     *)
(* (commit compares the revision under the lock).                          *)
THEOREM UpdatesNotLost == Spec => []NoLostUpdate
<1>1. IInv => NoLostUpdate
  BY DEF IInv
<1>. QED
  BY <1>1, Inductive, PTL

(* Recovery loses one update at most (commit keeps what it replaces).      *)
THEOREM RecoveryLosesOne == Spec => []LosesOneUpdate
<1>1. IInv => LosesOneUpdate
  BY DEF IInv
<1>. QED
  BY <1>1, Inductive, PTL

LEMMA OnlyPublishWrites ==
    ASSUME IInv, [Next]_vars, current' # current, Decodes(current')
    PROVE  \E p \in Proc : proc[p].pc = "publish" /\ Publish(p)
<1>1. ~Damage
  BY StoreAssumption DEF Damage, Decodes
<1>2. PICK p \in Proc : Step(p)
  BY <1>1 DEF Next, vars
<1>3. Publish(p)
  BY <1>2 DEF Step, Load, Look, BeginRecover, BeginCommit, Create, KeepPrevious, KeepCurrent, Leave
<1>. QED
  BY <1>3 DEF Publish, At

(* What is published has the highest revision there was. *)
THEOREM RevisionsOnlyRise == Spec => RevisionsRise
<1>1. ASSUME IInv, [Next]_vars, NEW x \in published, current' # current, Decodes(current')
      PROVE  x.revision <= current'.revision
  <2>1. PICK p \in Proc : proc[p].pc = "publish" /\ Publish(p)
    BY <1>1, OnlyPublishWrites
  <2>2. NewOK(proc[p].new) /\ current' = proc[p].new /\ proc[p].new \in Record
    BY <1>1, <2>1 DEF IInv, PublishInv, Publish, TypeOK
  <2>3. x.revision \in Nat /\ proc[p].new.revision \in Nat
    BY <1>1, <2>2, StoreAssumption DEF IInv, TypeOK, Record
  <2>. QED
    BY <2>2, <2>3 DEF NewOK
<1>2. IInv /\ [Next]_vars =>
        [\A x \in published : current' # current /\ Decodes(current')
                               => x.revision <= current'.revision]_vars
  BY <1>1
<1>. QED
  BY <1>2, Inductive, PTL DEF Spec, RevisionsRise

(* No valid index is overwritten before a copy of it is on disk. *)
THEOREM NothingIsDestroyed == Spec => NothingDestroyed
<1>1. ASSUME IInv, [Next]_vars, current' # current, Decodes(current), Decodes(current')
      PROVE  current = previous \/ current \in archive
  <2>1. PICK p \in Proc : proc[p].pc = "publish" /\ Publish(p)
    BY <1>1, OnlyPublishWrites
  <2>. QED
    BY <1>1, <2>1 DEF IInv, PublishInv, NewOK, Decodes
<1>2. IInv /\ [Next]_vars =>
        [current' # current /\ Decodes(current) /\ Decodes(current')
           => current = previous \/ current \in archive]_vars
  BY <1>1
<1>. QED
  BY <1>2, Inductive, PTL DEF Spec, NothingDestroyed

-------------------------------------------------------------------------------
(* CapabilityStore implements IndexRegister.  What is about to be          *)
(* published is what the register allows: an update of what was loaded,    *)
(* made safe in index.previous.json; a first index where there is none; or *)
(* the previous one, when at most one update follows it.                   *)

WritesOK(p) ==
    /\ Updating(p) /\ proc[p].new.revision > 0 =>
        /\ previous \in Record /\ proc[p].seen \in Record
        /\ proc[p].new.revision = proc[p].seen.revision + 1
        /\ proc[p].new.payload # previous.payload
        /\ current \in Record => current = previous
    /\ Updating(p) /\ proc[p].new.revision = 0 =>
        proc[p].seen = Missing /\ previous = Missing /\ current \notin Record
    /\ At(p, "publish") /\ proc[p].new.recovered =>
        /\ previous \in Record
        /\ proc[p].new.revision = previous.revision + 2
        /\ proc[p].new.payload = previous.payload
        /\ current \in Record => current.revision = previous.revision + 1

WriteInv == \A p \in Proc : WritesOK(p)

Holds == [p \in Proc |-> Holding(p)]

LEMMA Values ==
    /\ Value(Missing) = {}
    /\ \A r \in Record : Value(r) = {Version(r)} /\ Version(r).revision = r.revision
                         /\ Version(r).payload = r.payload
    /\ \A r : r \notin Record => Value(r) = {}
BY StoreAssumption DEF Value, Decodes, Version

(* A step of one process changes what that one holds. *)
LEMMA HoldsOf ==
    ASSUME NEW p \in Proc, \A q \in Proc \ {p} : proc'[q] = proc[q]
    PROVE  /\ Holds' = [Holds EXCEPT ![p] = Holding(p)']
           /\ Holding(p)' = Holding(p) => Holds' = Holds
<1>1. \A q \in Proc \ {p} : Holding(q)' = Holding(q)
  BY DEF Holding, At, Updating
<1>2. Holds' = [q \in Proc |-> Holding(q)']
  BY DEF Holds
<1>3. Holds = [q \in Proc |-> Holding(q)]
  BY DEF Holds
<1> QED BY <1>1, <1>2, <1>3

(* One process at a time is about to publish. *)
LEMMA InForceOf ==
    ASSUME LockInv, NEW p \in Proc, proc[p].pc \in Locked
    PROVE  InForce = IF Replacing(p) THEN Value(previous) ELSE Value(current)
<1>1. \A q \in Proc : Replacing(q) => q = p
  BY DEF LockInv, Locked, Replacing, Updating, At
<1> QED BY <1>1 DEF InForce

LEMMA InForceFree ==
    ASSUME \A q \in Proc : proc[q].pc # "publish"
    PROVE  InForce = Value(current)
BY DEF InForce, Replacing, Updating, At

(* Nothing changes for the register while p neither was nor is about to    *)
(* publish and the files stay.                                             *)
LEMMA InForceStays ==
    ASSUME NEW p \in Proc, \A q \in Proc \ {p} : proc'[q] = proc[q], UNCHANGED <<current, previous>>,
           ~Replacing(p), ~Replacing(p)'
    PROVE  InForce' = InForce
<1>1. \A q \in Proc : Replacing(q)' <=> Replacing(q)
  <2>1. \A q \in Proc \ {p} : Replacing(q)' <=> Replacing(q)
    BY DEF Replacing, Updating, At
  <2> QED BY <2>1
<1> QED BY <1>1 DEF InForce

(* Who is about to publish stays so: the files can only be damaged. *)
LEMMA WritesStay ==
    ASSUME NEW q \in Proc, WritesOK(q), proc'[q] = proc[q], previous' = previous,
           current' = current \/ current' \notin Record
    PROVE  WritesOK(q)'
BY DEF WritesOK, Updating, At

LEMMA WritesOfOthers ==
    ASSUME WriteInv, NEW p \in Proc, \A q \in Proc \ {p} : proc'[q] = proc[q],
           UNCHANGED <<current, previous>>, proc'[p].pc # "publish"
    PROVE  WriteInv'
<1>1. WritesOK(p)'
  BY DEF WritesOK, Updating, At
<1>2. ASSUME NEW q \in Proc, q # p PROVE WritesOK(q)'
  BY <1>2, WritesStay DEF WriteInv
<1> QED BY <1>1, <1>2 DEF WriteInv

LEMMA WritesOfOwner ==
    ASSUME LockInv, LockInv', NEW p \in Proc, \A q \in Proc \ {p} : proc'[q] = proc[q],
           proc[p].pc \in Locked, WritesOK(p)'
    PROVE  WriteInv'
<1>1. ASSUME NEW q \in Proc, q # p PROVE WritesOK(q)'
  <2>1. proc'[q].pc # "publish"
    BY <1>1 DEF LockInv, Locked
  <2> QED BY <2>1 DEF WritesOK, Updating, At
<1> QED BY <1>1 DEF WriteInv

-------------------------------------------------------------------------------
(* Every step is one of the register, or none. *)

(* What a step does to the memory of the process that takes it. *)
LEMMA Own ==
    ASSUME TypeOK, NEW p \in Proc, NEW s, proc' = [proc EXCEPT ![p] = s]
    PROVE  proc'[p] = s /\ \A q \in Proc \ {p} : proc'[q] = proc[q]
BY DEF TypeOK

LEMMA LoadImplements ==
    ASSUME IInv, WriteInv, NEW p \in Proc, Load(p)
    PROVE  WriteInv' /\ Abstract!Read(p)
<1> DEFINE s == [proc[p] EXCEPT !.pc = "loaded", !.seen = current]
<1>1. proc[p] \in ProcState /\ proc[p].pc = "idle"
      /\ (current \in Record \/ (current = Missing /\ previous = Missing))
      /\ UNCHANGED <<current, previous>> /\ proc' = [proc EXCEPT ![p] = s]
  BY DEF IInv, TypeOK, ProcState, Load, At, Decodes
<1>2. s.pc = "loaded" /\ s.seen = current
  BY <1>1 DEF ProcState
<1> HIDE DEF s
<1>3. proc'[p] = s /\ \A q \in Proc \ {p} : proc'[q] = proc[q]
  BY <1>1, Own DEF IInv
<1>4. WriteInv'
  BY <1>1, <1>2, <1>3, WritesOfOthers
<1>5. InForce' = InForce
  BY <1>1, <1>2, <1>3, InForceStays DEF Replacing, Updating, At
<1>6. InForce = Value(current)
  <2>1. CASE \E q \in Proc : Replacing(q)
    <3>1. previous \in Record /\ (current \in Record => current = previous)
      BY <2>1 DEF WriteInv, WritesOK, Replacing
    <3>2. current = previous
      BY <1>1, <3>1, StoreAssumption
    <3> QED BY <2>1, <3>2 DEF InForce
  <2>2. CASE ~\E q \in Proc : Replacing(q)
    BY <2>2 DEF InForce
  <2> QED BY <2>1, <2>2
<1>7. Holding(p)' = Value(current)
  BY <1>2, <1>3 DEF Holding, At, Value, Decodes, Version
<1>8. Holds' = [Holds EXCEPT ![p] = InForce]
  BY <1>3, <1>6, <1>7, HoldsOf
<1>9. Value(previous) = {} \/ InForce # {}
  BY <1>1, <1>6, Values
<1>10. Value(previous)' = Value(previous)
  BY <1>1
<1> QED BY <1>4, <1>5, <1>8, <1>9, <1>10 DEF Abstract!Read, Holds

(* Looking, and having the lock for a commit or a recovery. *)
LEMMA QuietImplements ==
    ASSUME IInv, WriteInv, NEW p \in Proc, Look(p) \/ BeginRecover(p) \/ \E x \in Payload : BeginCommit(p, x)
    PROVE  WriteInv' /\ UNCHANGED <<InForce, Value(previous), Holds>>
<1>1. PICK s \in ProcState :
        /\ proc' = [proc EXCEPT ![p] = s]
        /\ \/ proc[p].pc = "idle" /\ s.pc \in {"idle", "recover"}
           \/ proc[p].pc = "loaded" /\ s.pc = "commit" /\ s.seen = proc[p].seen
  <2>1. proc[p] \in ProcState /\ current \in Content
    BY DEF IInv, TypeOK, ProcState
  <2>2. CASE Look(p)
    <3> DEFINE t == [proc[p] EXCEPT !.seen = current]
    <3>1. t \in ProcState /\ t.pc = "idle" /\ proc[p].pc = "idle" /\ proc' = [proc EXCEPT ![p] = t]
      BY <2>1, <2>2 DEF Look, At, ProcState
    <3> HIDE DEF t
    <3> QED BY <3>1
  <2>3. CASE BeginRecover(p)
    <3> DEFINE t == [proc[p] EXCEPT !.pc = "recover"]
    <3>1. t \in ProcState /\ t.pc = "recover" /\ proc[p].pc = "idle" /\ proc' = [proc EXCEPT ![p] = t]
      BY <2>1, <2>3 DEF BeginRecover, At, Goto, ProcState
    <3> HIDE DEF t
    <3> QED BY <3>1
  <2>4. ASSUME NEW x \in Payload, BeginCommit(p, x)
        PROVE  \E s \in ProcState : proc' = [proc EXCEPT ![p] = s] /\ proc[p].pc = "loaded"
                                    /\ s.pc = "commit" /\ s.seen = proc[p].seen
    <3>1. PICK n : proc' = [proc EXCEPT ![p].pc = "commit", ![p].new = n]
      BY <2>4 DEF BeginCommit
    <3>2. proc'[p] = [proc[p] EXCEPT !.pc = "commit", !.new = n]
      BY <3>1 DEF IInv, TypeOK
    <3>3. proc'[p] \in ProcState
      BY <2>4, CommitBegins DEF IInv, TypeOK, ProcState
    <3>4. proc[p].pc = "loaded"
      BY <2>4 DEF BeginCommit, At
    <3>5. proc'[p].pc = "commit" /\ proc'[p].seen = proc[p].seen
      BY <2>1, <3>2 DEF ProcState
    <3>6. proc' = [proc EXCEPT ![p] = proc'[p]]
      BY <3>1, <3>2
    <3> QED BY <3>3, <3>4, <3>5, <3>6
  <2> QED BY <2>2, <2>3, <2>4
<1>2. proc'[p] = s /\ \A q \in Proc \ {p} : proc'[q] = proc[q]
  BY <1>1, Own DEF IInv
<1>3. UNCHANGED <<current, previous>>
  BY DEF Look, BeginRecover, BeginCommit
<1>4. WriteInv'
  BY <1>1, <1>2, <1>3, WritesOfOthers
<1>5. InForce' = InForce
  BY <1>1, <1>2, <1>3, InForceStays DEF Replacing, Updating, At
<1>6. Holding(p)' = Holding(p)
  BY <1>1, <1>2 DEF Holding, At, Updating, Value, Decodes, Version
<1> QED BY <1>2, <1>3, <1>4, <1>5, <1>6, HoldsOf

(* The first index is decided upon when there is none, and under the lock. *)
LEMMA CreateImplements ==
    ASSUME IInv, WriteInv, NEW p \in Proc, Create(p)
    PROVE  WriteInv' /\ UNCHANGED <<InForce, Value(previous), Holds>>
<1> DEFINE s == [proc[p] EXCEPT !.pc = "publish"]
<1>1. /\ proc[p] \in ProcState /\ proc[p].pc = "commit" /\ proc[p].seen = Missing
      /\ current = Missing /\ previous = Missing
      /\ UNCHANGED <<current, previous>> /\ proc' = [proc EXCEPT ![p] = s]
  BY DEF IInv, TypeOK, ProcState, Create, At, Goto
<1>2. /\ s.pc = "publish" /\ s.seen = Missing /\ s.new = proc[p].new
      /\ s.new.revision = 0 /\ ~s.new.recovered
  BY <1>1 DEF ProcState, IInv, SeenInv, SeenOK
<1> HIDE DEF s
<1>3. proc'[p] = s /\ \A q \in Proc \ {p} : proc'[q] = proc[q]
  BY <1>1, Own DEF IInv
<1>4. WritesOK(p)'
  BY <1>1, <1>2, <1>3, StoreAssumption DEF WritesOK, Updating, At
<1>5. WriteInv'
  BY <1>1, <1>3, <1>4, CreateStep, WritesOfOwner DEF IInv, Locked
<1>6. InForce' = InForce
  BY <1>1, <1>2, <1>3, InForceStays DEF Replacing, Updating, At
<1>7. Holding(p)' = Holding(p)
  BY <1>1, <1>2, <1>3 DEF Holding, At, Updating, Value, Decodes, Version
<1> QED BY <1>1, <1>3, <1>5, <1>6, <1>7, HoldsOf

(* What a commit replaces is made safe: from here on the register has it. *)
LEMMA KeepPreviousImplements ==
    ASSUME IInv, WriteInv, NEW p \in Proc, KeepPrevious(p)
    PROVE  WriteInv' /\ Abstract!Keep
<1> DEFINE s == [proc[p] EXCEPT !.pc = "publish"]
<1>1. /\ proc[p] \in ProcState /\ proc[p].pc = "commit" /\ proc[p].seen # Missing
      /\ current \in Record /\ current.payload # proc[p].new.payload
      /\ current' = current /\ previous' = current /\ proc' = [proc EXCEPT ![p] = s]
  BY DEF IInv, TypeOK, ProcState, KeepPrevious, Expected, Decodes, At, Goto
<1>2. /\ s.pc = "publish" /\ s.seen = proc[p].seen /\ s.new = proc[p].new
      /\ proc[p].seen \in Record /\ proc[p].seen.revision \in Nat
      /\ proc[p].new.revision = proc[p].seen.revision + 1 /\ ~proc[p].new.recovered
  BY <1>1, StoreAssumption DEF ProcState, IInv, SeenInv, SeenOK, Record
<1> HIDE DEF s
<1>3. proc'[p] = s /\ \A q \in Proc \ {p} : proc'[q] = proc[q]
  BY <1>1, Own DEF IInv
<1>4. WritesOK(p)' /\ Replacing(p)'
  <2>1. proc[p].new.revision > 0 /\ proc[p].new.revision # 0
    BY <1>2
  <2> QED BY <1>1, <1>2, <1>3, <2>1 DEF WritesOK, Updating, Replacing, At
<1>5. WriteInv' /\ LockInv'
  BY <1>1, <1>3, <1>4, KeepPreviousStep, WritesOfOwner DEF IInv, Locked
<1>6. InForce = Value(current)
  BY <1>1, InForceOf DEF IInv, Locked, Replacing, Updating, At
<1>7. InForce' = Value(current)
  <2>1. \E q \in Proc : Replacing(q)'
    BY <1>4
  <2>2. InForce' = Value(previous')
    BY <2>1 DEF InForce, Value, Decodes, Version
  <2> QED BY <1>1, <2>2
<1>8. Holding(p)' = Holding(p)
  BY <1>1, <1>2, <1>3 DEF Holding, At, Updating, Value, Decodes, Version
<1>9. Holds' = Holds
  BY <1>3, <1>8, HoldsOf
<1>10. Value(previous)' = Value(current) /\ Value(current) # {}
  BY <1>1, Values DEF Value, Decodes, Version
<1> QED BY <1>5, <1>6, <1>7, <1>9, <1>10 DEF Abstract!Keep, Holds

(* A recovery is decided upon when one update, at most, follows the kept one. *)
LEMMA KeepCurrentImplements ==
    ASSUME IInv, WriteInv, NEW p \in Proc, KeepCurrent(p)
    PROVE  WriteInv' /\ UNCHANGED <<InForce, Value(previous), Holds>>
<1> DEFINE s == [proc[p] EXCEPT !.pc = "publish", !.new = Restored]
<1>1. /\ proc[p] \in ProcState /\ proc[p].pc = "recover" /\ previous \in Record
      /\ current \in Record => previous.revision < current.revision
      /\ UNCHANGED <<current, previous>> /\ proc' = [proc EXCEPT ![p] = s]
  BY DEF IInv, TypeOK, ProcState, KeepCurrent, Recoverable, Decodes, At
<1>2. s.pc = "publish" /\ s.new = Restored
  BY <1>1 DEF ProcState
<1> HIDE DEF s
<1>3. proc'[p] = s /\ \A q \in Proc \ {p} : proc'[q] = proc[q]
  BY <1>1, Own DEF IInv
<1>4. IInv'
  BY KeepCurrentStep
<1>5. NewOK(Restored)'
  <2>1. NewOK(proc[p].new)'
    BY <1>2, <1>3, <1>4 DEF IInv, PublishInv
  <2>2. proc'[p].new = Restored /\ Restored' = Restored
    BY <1>1, <1>2, <1>3 DEF Restored, Decodes
  <2> QED BY <2>1, <2>2 DEF NewOK
<1>6. /\ previous.revision \in Nat /\ Restored.recovered /\ Restored.payload = previous.payload
      /\ Restored.revision = previous.revision + 2
      /\ current \in Record => current.revision = previous.revision + 1
  <2>1. /\ previous.revision \in Nat
        /\ current \in Record => current.revision \in Nat
    BY <1>1, StoreAssumption DEF Record
  <2>2. current \in Record => current.revision < Restored.revision \/ current.revision = Restored.revision
    <3>1. current \in Record => Version(current) \in published'
      BY <1>4, <1>1 DEF IInv, FilesInv, Version
    <3>2. current \in Record => Version(current).revision = current.revision
      BY DEF Version
    <3>3. \A x \in published' : x.revision < Restored'.revision \/ x.revision = Restored'.revision
      BY <1>5 DEF NewOK
    <3>4. Restored' = Restored
      BY <1>1 DEF Restored, Decodes
    <3> QED BY <3>1, <3>2, <3>3, <3>4
  <2>3. /\ Restored.revision = IF Decodes(current) /\ current.revision >= previous.revision + 2
                               THEN current.revision + 1 ELSE previous.revision + 2
        /\ Restored.payload = previous.payload /\ Restored.recovered
    BY DEF Restored
  <2>4. Restored.revision = previous.revision + 1 \/ Restored.revision = previous.revision + 2
    <3>1. Restored' = Restored
      BY <1>1 DEF Restored, Decodes
    <3> QED BY <1>1, <1>5, <3>1 DEF NewOK
  <2> QED BY <1>1, <2>1, <2>2, <2>3, <2>4 DEF Decodes
<1>7. WritesOK(p)'
  BY <1>1, <1>2, <1>3, <1>6 DEF WritesOK, Updating, At
<1>8. WriteInv'
  BY <1>1, <1>3, <1>4, <1>7, WritesOfOwner DEF IInv, Locked
<1>9. InForce' = InForce
  BY <1>1, <1>2, <1>3, <1>6, InForceStays DEF Replacing, Updating, At
<1>10. Holding(p)' = {} /\ Holding(p) = {}
  BY <1>1, <1>2, <1>3, <1>6 DEF Holding, At, Updating
<1> QED BY <1>1, <1>3, <1>8, <1>9, <1>10, HoldsOf

(* Publishing is an update, a first value or a restoration. *)
LEMMA PublishImplements ==
    ASSUME IInv, WriteInv, NEW p \in Proc, Publish(p)
    PROVE  WriteInv' /\ Abstract!Next
<1>1. /\ proc[p] \in ProcState /\ proc[p].pc = "publish" /\ proc[p].new \in Record /\ lock = p
      /\ current' = proc[p].new /\ previous' = previous /\ proc' = [proc EXCEPT ![p] = Fresh]
      /\ previous \in Record \cup {Missing}
  BY DEF IInv, TypeOK, ProcState, Publish, At, LockInv, Locked
<1>2. Fresh.pc = "idle"
  BY DEF Fresh
<1>3. proc'[p] = Fresh /\ \A q \in Proc \ {p} : proc'[q] = proc[q]
  BY <1>1, Own DEF IInv
<1>4. \A q \in Proc : proc'[q].pc # "publish"
  BY <1>1, <1>2, <1>3 DEF IInv, LockInv, Locked
<1>5. WriteInv'
  BY <1>4 DEF WriteInv, WritesOK, Updating, At
<1>6. InForce' = {Version(proc[p].new)}
  <2>1. InForce' = Value(current)'
    BY <1>4 DEF InForce, Replacing, Updating, At
  <2>2. Value(current)' = Value(proc[p].new)
    BY <1>1 DEF Value, Decodes, Version
  <2> QED BY <1>1, <2>1, <2>2, Values
<1>7. Version(proc[p].new) = [revision |-> proc[p].new.revision, payload |-> proc[p].new.payload]
      /\ proc[p].new.revision \in Nat /\ proc[p].new.payload \in Payload
  BY <1>1, StoreAssumption DEF Version, Record
<1>8. Value(previous)' = Value(previous)
  BY <1>1 DEF Value, Decodes, Version
<1>9. Holding(p)' = {}
  BY <1>2, <1>3 DEF Holding, Updating, At
<1>10. Holds' = [Holds EXCEPT ![p] = {}]
  BY <1>3, <1>9, HoldsOf
<1>11. WritesOK(p) /\ NewOK(proc[p].new)
  BY <1>1 DEF WriteInv, IInv, PublishInv
<1>12. CASE Replacing(p)
  <2>1. /\ previous \in Record /\ proc[p].seen \in Record
        /\ proc[p].new.revision = proc[p].seen.revision + 1
        /\ proc[p].new.payload # previous.payload /\ ~proc[p].new.recovered
    BY <1>11, <1>12 DEF WritesOK, Replacing, Updating
  <2>2. previous.revision \in Nat /\ proc[p].seen.revision \in Nat
    BY <2>1, StoreAssumption DEF Record
  <2>3. proc[p].new.revision = previous.revision + 1
    BY <1>11, <2>1 DEF NewOK
  <2>4. proc[p].seen.revision = previous.revision
    BY <2>1, <2>2, <2>3
  <2>5. Version(proc[p].seen) = Version(previous)
        \/ (Version(proc[p].seen).revision = 0 /\ Version(previous).revision = 0)
    <3>1. CASE proc[p].new.revision > 1
      BY <1>1, <2>1, <3>1 DEF IInv, NoLostUpdate, At
    <3>2. CASE ~(proc[p].new.revision > 1)
      <4>1. previous.revision = 0 /\ proc[p].seen.revision = 0
        BY <2>2, <2>3, <2>4, <3>2
      <4> QED BY <4>1, <2>1, Values
    <3> QED BY <3>1, <3>2
  <2>6. InForce = {Version(previous)} /\ Value(previous) = {Version(previous)}
    BY <1>1, <1>12, <2>1, InForceOf, Values DEF IInv, Locked
  <2>7. Holds[p] = {Version(proc[p].seen)}
    BY <1>12, <2>1, Values DEF Holds, Holding, Replacing
  <2>8. Version(previous).revision = previous.revision /\ Version(previous).payload = previous.payload
    BY <2>1, Values
  <2>9. Abstract!Update(p, proc[p].new.payload)
    BY <1>6, <1>7, <1>8, <1>10, <2>1, <2>3, <2>5, <2>6, <2>7, <2>8 DEF Abstract!Update, Holds
  <2> QED BY <1>5, <1>7, <2>9 DEF Abstract!Next
<1>13. CASE Updating(p) /\ ~Replacing(p)
  <2>1. proc[p].new.revision = 0
    BY <1>7, <1>13 DEF Replacing
  <2>2. proc[p].seen = Missing /\ previous = Missing /\ current \notin Record
    BY <1>11, <1>13, <2>1 DEF WritesOK
  <2>3. InForce = {} /\ Value(previous) = {}
    BY <1>1, <1>13, <2>2, InForceOf, Values DEF IInv, Locked
  <2>4. Holding(p) = {}
    BY <1>13, <2>2, Values DEF Holding
  <2>5. Holds' = Holds
    BY <1>3, <1>9, <2>4, HoldsOf
  <2>6. Abstract!Create(proc[p].new.payload)
    BY <1>6, <1>7, <1>8, <2>1, <2>3, <2>5 DEF Abstract!Create, Holds
  <2> QED BY <1>5, <1>7, <2>6 DEF Abstract!Next
<1>14. CASE ~Updating(p)
  <2>1. /\ previous \in Record
        /\ proc[p].new.revision = previous.revision + 2
        /\ proc[p].new.payload = previous.payload
        /\ current \in Record => current.revision = previous.revision + 1
    BY <1>1, <1>11, <1>14 DEF WritesOK, Updating, At
  <2>2. InForce = Value(current)
    BY <1>1, <1>14, InForceOf DEF IInv, Locked, Replacing
  <2>3. Value(previous) = {Version(previous)} /\ Version(previous).revision = previous.revision
        /\ Version(previous).payload = previous.payload
    BY <2>1, Values
  <2>4. \A v \in InForce : v.revision = previous.revision + 1
    BY <2>1, <2>2, Values
  <2>5. Holding(p) = {}
    BY <1>1, <1>14 DEF Holding, At
  <2>6. Holds' = Holds
    BY <1>3, <1>9, <2>5, HoldsOf
  <2>7. Abstract!Restore
    BY <1>6, <1>7, <1>8, <2>1, <2>3, <2>4, <2>6 DEF Abstract!Restore, Holds
  <2> QED BY <1>5, <2>7 DEF Abstract!Next
<1> QED BY <1>12, <1>13, <1>14

(* Damage done while a commit was about to publish is seen when it gives up. *)
LEMMA LeaveImplements ==
    ASSUME IInv, WriteInv, NEW p \in Proc, Leave(p)
    PROVE  WriteInv' /\ Abstract!Quit(p)
<1>1. proc' = [proc EXCEPT ![p] = Fresh] /\ UNCHANGED <<current, previous>>
  BY DEF Leave
<1>2. Fresh.pc = "idle"
  BY DEF Fresh
<1>3. proc'[p] = Fresh /\ \A q \in Proc \ {p} : proc'[q] = proc[q]
  BY <1>1, Own DEF IInv
<1>4. WriteInv'
  BY <1>1, <1>2, <1>3, WritesOfOthers
<1>5. Value(previous)' = Value(previous) /\ Value(current)' = Value(current)
  BY <1>1 DEF Value, Decodes, Version
<1>6. Holds' = [Holds EXCEPT ![p] = {}]
  <2>1. Holding(p)' = {}
    BY <1>2, <1>3 DEF Holding, Updating, At
  <2> QED BY <1>3, <2>1, HoldsOf
<1>7. InForce' \in {InForce, {}}
  <2>1. CASE Replacing(p)
    <3>1. proc[p].pc = "publish" /\ previous \in Record /\ (current \in Record => current = previous)
      BY <2>1 DEF WriteInv, WritesOK, Replacing, Updating, At
    <3>2. InForce = Value(previous)
      BY <2>1, <3>1, InForceOf DEF IInv, Locked
    <3>3. \A q \in Proc : proc'[q].pc # "publish"
      BY <1>2, <1>3, <3>1 DEF IInv, LockInv, Locked
    <3>4. InForce' = Value(current)'
      BY <3>3 DEF InForce, Replacing, Updating, At
    <3>5. Value(current) \in {Value(previous), {}}
      BY <3>1, Values
    <3> QED BY <1>5, <3>2, <3>4, <3>5
  <2>2. CASE ~Replacing(p)
    <3>1. ~Replacing(p)'
      BY <1>2, <1>3 DEF Replacing, Updating, At
    <3> QED BY <1>1, <1>3, <2>2, <3>1, InForceStays
  <2> QED BY <2>1, <2>2
<1> QED BY <1>4, <1>5, <1>6, <1>7 DEF Abstract!Quit, Holds

LEMMA DamageImplements ==
    ASSUME IInv, WriteInv, Damage
    PROVE  WriteInv' /\ (Abstract!Lose \/ UNCHANGED <<InForce, Value(previous), Holds>>)
<1>1. current' \notin Record /\ UNCHANGED <<previous, proc>>
  BY StoreAssumption DEF Damage
<1>2. WriteInv'
  BY <1>1, WritesStay DEF WriteInv
<1>3. Value(previous)' = Value(previous) /\ Value(current)' = {}
  BY <1>1 DEF Value, Decodes, Version
<1>4. Holds' = Holds
  BY <1>1 DEF Holds, Holding, Updating, At, Value, Decodes, Version
<1>5. (\E q \in Proc : Replacing(q)') <=> \E q \in Proc : Replacing(q)
  BY <1>1 DEF Replacing, Updating, At
<1>6. InForce' = InForce \/ InForce' = {}
  BY <1>3, <1>5 DEF InForce
<1> QED BY <1>2, <1>3, <1>4, <1>6 DEF Abstract!Lose, Holds

(* Two files, a lock, crashes, damage and recovery implement a register    *)
(* with compare and set: no update is computed from another version than   *)
(* the one it replaces, a loss is never taken for an empty register, and   *)
(* a recovery goes back by one update and reuses no revision.              *)
THEOREM StoreIsIndexRegister == Spec => ImplementsIndexRegister
<1>1. Init => WriteInv /\ Abstract!Init
  <2> SUFFICES ASSUME Init PROVE WriteInv /\ Abstract!Init
    OBVIOUS
  <2>1. \A p \in Proc : proc[p].pc = "idle" /\ current = Missing /\ previous = Missing
    BY DEF Init, Fresh
  <2>2. WriteInv
    BY <2>1 DEF WriteInv, WritesOK, Updating, At
  <2>3. \A p \in Proc : Holding(p) = {}
    BY <2>1 DEF Holding, Updating, At
  <2>4. Value(previous) = {} /\ Value(current) = {}
    BY Values DEF Init
  <2>5. InForce = {}
    BY <2>4 DEF InForce
  <2> QED BY <2>2, <2>3, <2>4, <2>5 DEF Abstract!Init
<1>2. IInv /\ WriteInv /\ [Next]_vars => WriteInv' /\ [Abstract!Next]_Abstract!vars
  <2> SUFFICES ASSUME IInv, WriteInv, [Next]_vars
               PROVE  WriteInv' /\ [Abstract!Next]_Abstract!vars
    OBVIOUS
  <2>1. UNCHANGED <<InForce, Value(previous), Holds>> => UNCHANGED Abstract!vars
    BY DEF Abstract!vars, Holds
  <2>2. CASE UNCHANGED vars
    <3>1. UNCHANGED <<current, previous, proc>>
      BY <2>2 DEF vars
    <3>2. WriteInv'
      BY <3>1, WritesStay DEF WriteInv
    <3>3. UNCHANGED <<InForce, Value(previous), Holds>>
      BY <3>1 DEF InForce, Holds, Holding, Replacing, Updating, At, Value, Decodes, Version
    <3> QED BY <2>1, <3>2, <3>3
  <2>3. CASE Damage
    BY <2>1, <2>3, DamageImplements DEF Abstract!Next
  <2>4. ASSUME NEW p \in Proc, Step(p)
        PROVE  WriteInv' /\ [Abstract!Next]_Abstract!vars
    <3>1. CASE Load(p)
      BY <3>1, LoadImplements DEF Abstract!Next
    <3>2. CASE Look(p) \/ BeginRecover(p) \/ \E x \in Payload : BeginCommit(p, x)
      BY <2>1, <3>2, QuietImplements
    <3>3. CASE Create(p)
      BY <2>1, <3>3, CreateImplements
    <3>4. CASE KeepPrevious(p)
      BY <3>4, KeepPreviousImplements DEF Abstract!Next
    <3>5. CASE KeepCurrent(p)
      BY <2>1, <3>5, KeepCurrentImplements
    <3>6. CASE Publish(p)
      BY <3>6, PublishImplements
    <3>7. CASE Leave(p)
      BY <3>7, LeaveImplements DEF Abstract!Next
    <3> QED BY <2>4, <3>1, <3>2, <3>3, <3>4, <3>5, <3>6, <3>7 DEF Step
  <2> QED BY <2>2, <2>3, <2>4 DEF Next
<1> QED
  BY <1>1, <1>2, Inductive, PTL DEF Spec, ImplementsIndexRegister, Abstract!Spec

-------------------------------------------------------------------------------
(* Sums over finite sets.                                                  *)

Pairs(S, w) == UNION {{x} \X (1..w[x]) : x \in S}

LEMMA PairsIn == \A S, w, z : z \in Pairs(S, w) <=> \E x \in S : z \in {x} \X (1..w[x])
BY DEF Pairs

LEMMA StackSize ==
    ASSUME NEW x, NEW n \in Nat
    PROVE  IsFiniteSet({x} \X (1..n)) /\ Cardinality({x} \X (1..n)) = n
<1>1. IsFiniteSet(1..n) /\ Cardinality(1..n) = n
  <2>1. Cardinality(1..n) = IF 1 > n THEN 0 ELSE n - 1 + 1
    BY FS_Interval
  <2> QED BY <2>1, FS_Interval
<1>2. IsFiniteSet({x}) /\ Cardinality({x}) = 1
  BY FS_Singleton
<1>3. /\ IsFiniteSet({x} \X (1..n))
      /\ Cardinality({x} \X (1..n)) = Cardinality({x}) * Cardinality(1..n)
  BY <1>1, <1>2, FS_Product
<1> QED BY <1>1, <1>2, <1>3

LEMMA PairsFinite ==
    ASSUME NEW S, IsFiniteSet(S), NEW w, \A x \in S : w[x] \in Nat
    PROVE  IsFiniteSet(Pairs(S, w))
<1> DEFINE T == {{x} \X (1..w[x]) : x \in S}
           f == [x \in S |-> {x} \X (1..w[x])]
<1>1. f \in Surjection(S, T)
  BY DEF Surjection
<1>2. IsFiniteSet(T)
  BY <1>1, FS_Surjection
<1>3. ASSUME NEW t \in T PROVE IsFiniteSet(t)
  <2>1. PICK x \in S : t = {x} \X (1..w[x])
    OBVIOUS
  <2> QED BY <2>1, StackSize
<1> QED BY <1>2, <1>3, FS_UNION DEF Pairs

LEMMA TotalType ==
    ASSUME NEW S, IsFiniteSet(S), NEW w, \A x \in S : w[x] \in Nat
    PROVE  Total(S, w) \in Nat
BY PairsFinite, FS_CardinalityType DEF Total, Pairs

LEMMA TotalAdds ==
    ASSUME NEW S, IsFiniteSet(S), NEW i, i \notin S, NEW w, \A x \in S \cup {i} : w[x] \in Nat
    PROVE  Total(S \cup {i}, w) = Total(S, w) + w[i]
<1> DEFINE A == Pairs(S, w)
           B == {i} \X (1..w[i])
<1>1. Pairs(S \cup {i}, w) = A \cup B
  <2>1. \A z : z \in Pairs(S \cup {i}, w) <=> z \in A \/ z \in B
    BY PairsIn
  <2> QED BY <2>1
<1>2. A \cap B = {}
  <2>1. \A z : z \in A => \E x \in S : z[1] = x
    BY PairsIn
  <2>2. \A z : z \in B => z[1] = i
    OBVIOUS
  <2> QED BY <2>1, <2>2
<1>3. IsFiniteSet(A)
  BY PairsFinite
<1>4. IsFiniteSet(B) /\ Cardinality(B) = w[i]
  BY StackSize
<1> HIDE DEF A, B
<1>5. Cardinality(A \cup B) = Cardinality(A) + Cardinality(B) - Cardinality(A \cap B)
  BY <1>3, <1>4, FS_Union
<1>6. Cardinality(A \cap B) = 0 /\ Cardinality(A) \in Nat
  BY <1>2, <1>3, FS_EmptySet, FS_CardinalityType
<1>7. Cardinality(A \cup B) = Cardinality(A) + w[i]
  BY <1>4, <1>5, <1>6
<1> QED BY <1>1, <1>7 DEF Total, Pairs, A

LEMMA TotalAgrees ==
    ASSUME NEW S, NEW v, NEW w, \A x \in S : v[x] = w[x]
    PROVE  Total(S, v) = Total(S, w)
<1>1. \A z : z \in Pairs(S, v) <=> z \in Pairs(S, w)
  BY PairsIn
<1>2. Pairs(S, v) = Pairs(S, w)
  BY <1>1
<1> QED BY <1>2 DEF Total, Pairs

-------------------------------------------------------------------------------
(* The budget journal of one task (G6Budget).                              *)


(* A call is given a permit's budget; a call goes on. *)
Spends(p, c, s) ==
    /\ stage[p] = "prepared" /\ NewCall(c) /\ Funded(p)
    /\ stage' = [stage EXCEPT ![p] = s] /\ by' = [by EXCEPT ![p] = c]
    /\ UNCHANGED <<permit, expired, work, required, request, answer>>
    /\ waiting' \in {waiting, [waiting EXCEPT ![c] = Nil]}
Moves(p, s) == stage[p] \in {"reserved", "created"} /\ Progress(p, s)

Works == \/ \E w \in Review : Close(w) \/ \E r \in BOOLEAN : Register(w, r)
         \/ \E q \in Request :
            \/ \E W \in (SUBSET Review) \ {{}}, d \in 1 .. MaxDispatches : Ask(q, W, d)
            \/ Grant(q) \/ Revoke(q)
Waits == \/ \E p \in Permit : Expire(p)
         \/ \E c \in Call : Deny(c) \/ \E p \in Permit : Attempt(c, p)
JournalStep ==
    \/ \E p \in Permit, i \in Item, x \in Profile, a \in Agent, spawn \in BOOLEAN : Issue(p, i, x, a, spawn)
    \/ \E p \in Permit, c \in Call, s \in {"reserved", "failed"} : Spends(p, c, s)
    \/ \E p \in Permit, s \in {"created", "notstarted", "passed", "failed"} : Moves(p, s)
    \/ Waits \/ Works

(* Every step is one of these. *)
LEMMA JournalSteps ==
    ASSUME JournalType, JournalNext
    PROVE  JournalStep
<1>1. ASSUME NEW p \in Permit, NEW q \in Permit, Continue(p, q)
      PROVE  JournalStep
  <2>1. permit[q] \in PermitRecord
    BY <1>1 DEF Continue, JournalType
  <2>2. permit[q].item \in Item /\ permit[q].profile \in Profile /\ permit[q].agent \in Agent
    BY <2>1 DEF PermitRecord
  <2>3. Issue(p, permit[q].item, permit[q].profile, permit[q].agent, FALSE)
    BY <1>1 DEF Continue
  <2> QED BY <2>2, <2>3 DEF JournalStep
<1>2. ASSUME NEW p \in Permit, NEW i \in Item, NEW x \in Profile, NEW a \in Agent, Prepare(p, i, x, a)
      PROVE  JournalStep
  <2>1. Issue(p, i, x, a, TRUE)
    BY <1>2 DEF Prepare
  <2> QED BY <2>1 DEF JournalStep
<1>3. ASSUME NEW c \in Call, Reserve(c) PROVE JournalStep
  <2>1. waiting[c] \in Permit
    BY <1>3 DEF Reserve, JournalType
  <2>2. Spends(waiting[c], c, "reserved")
    BY <1>3 DEF Reserve, Spends
  <2> QED BY <2>1, <2>2 DEF JournalStep
<1>4. ASSUME NEW c \in Call, NEW p \in Permit, Recover(c, p) PROVE JournalStep
  <2>1. Spends(p, c, "failed")
    BY <1>4 DEF Recover, Spends
  <2> QED BY <2>1 DEF JournalStep
<1>5. ASSUME NEW p \in Permit, NEW s \in {"created", "notstarted"}, Receipt(p, s) PROVE JournalStep
  <2>1. Moves(p, s)
    BY <1>5 DEF Receipt, Moves
  <2> QED BY <2>1 DEF JournalStep
<1>6. ASSUME NEW a \in Agent, NEW s \in {"passed", "failed"}, Stop(a, s) PROVE JournalStep
  <2>1. PICK p \in Permit : Moves(p, s)
    BY <1>6 DEF Stop, Made, Moves
  <2> QED BY <2>1 DEF JournalStep
<1>7. CASE Waits \/ Works
  BY <1>7 DEF JournalStep
<1> QED BY <1>1, <1>2, <1>3, <1>4, <1>5, <1>6, <1>7 DEF JournalNext, Waits, Works

LEMMA PermitType ==
    ASSUME JournalType
    PROVE  /\ permit \in [Permit -> PermitRecord \cup {Nil}] /\ by \in [Permit -> Call \cup {Nil}]
           /\ \A p \in Made : p \in Permit /\ permit[p] \in PermitRecord
           /\ InFlight \subseteq Reserved /\ Charged \subseteq Reserved
           /\ Reserved \subseteq Made
<1>1. \A p \in Permit : by[p] # Nil => stage[p] # "none"
  BY DEF JournalType
<1>2. \A p \in Permit : stage[p] \notin {"none", "prepared"} => by[p] # Nil
  BY DEF JournalType
<1> QED BY <1>1, <1>2 DEF JournalType, Made, Reserved, InFlight, Charged

(* A new permit, with what decide has chosen for it. *)
LEMMA IssuedPermit ==
    ASSUME JournalType, NEW p \in Permit, NEW i \in Item, NEW x \in Profile,
           NEW a \in Agent, NEW spawn \in BOOLEAN, Issue(p, i, x, a, spawn)
    PROVE  \E f \in Fundings(i), r \in PermitRecord :
              /\ f \in Request \cup {Base} /\ r.funding = f /\ r.item = i
              /\ permit' = [permit EXCEPT ![p] = r] /\ r # Nil
<1>1. PICK f \in Fundings(i) :
          permit' = [permit EXCEPT ![p] = [item |-> i, profile |-> x, funding |-> f,
                                           agent |-> a, spawn |-> spawn]]
  BY DEF Issue
<1>2. f \in Request \cup {Base}
  BY <1>1 DEF Fundings, Buckets
<1>3. PICK r : r = [item |-> i, profile |-> x, funding |-> f, agent |-> a, spawn |-> spawn]
  OBVIOUS
<1>4. r \in PermitRecord /\ r.funding = f /\ r.item = i
  BY <1>2, <1>3 DEF PermitRecord
<1>5. r # Nil
  BY NilAssumption, <1>4 DEF NilAssumption
<1> QED BY <1>1, <1>2, <1>3, <1>4, <1>5

LEMMA IssueType ==
    ASSUME JournalType, NEW p \in Permit, NEW i \in Item, NEW x \in Profile,
           NEW a \in Agent, NEW spawn \in BOOLEAN, Issue(p, i, x, a, spawn)
    PROVE  JournalType'
<1>1. PICK r \in PermitRecord : permit' = [permit EXCEPT ![p] = r] /\ r # Nil
  BY IssuedPermit
<1>2. /\ permit[p] = Nil /\ stage' = [stage EXCEPT ![p] = "prepared"]
      /\ UNCHANGED <<expired, by, waiting, work, required, request, answer>>
  BY DEF Issue
<1>3. permit' \in [Permit -> PermitRecord \cup {Nil}]
  BY <1>1 DEF JournalType
<1>4. permit'[p] # Nil /\ stage'[p] = "prepared"
      /\ \A k \in Permit \ {p} : permit'[k] = permit[k] /\ stage'[k] = stage[k]
  BY <1>1, <1>2 DEF JournalType
<1>5. \A k \in Permit : /\ stage'[k] = "none" <=> permit'[k] = Nil
                        /\ stage'[k] \in {"none", "prepared"} <=> by'[k] = Nil
  <2>1. by[p] = Nil
    BY <1>2 DEF JournalType
  <2> QED BY <1>2, <1>4, <2>1 DEF JournalType
<1>6. expired' \subseteq Made'
  BY <1>2, <1>4 DEF JournalType, Made
<1> QED BY <1>2, <1>3, <1>5, <1>6 DEF JournalType

LEMMA SpendType ==
    ASSUME JournalType, NEW p \in Permit, NEW c \in Call,
           NEW s \in {"reserved", "failed"}, Spends(p, c, s)
    PROVE  JournalType'
<1>1. /\ stage'[p] = s /\ by'[p] = c /\ c # Nil /\ stage[p] = "prepared"
      /\ \A k \in Permit \ {p} : by'[k] = by[k] /\ stage'[k] = stage[k]
  BY NilAssumption DEF JournalType, Spends, NilAssumption
<1>2. \A k \in Permit : /\ stage'[k] = "none" <=> permit[k] = Nil
                        /\ stage'[k] \in {"none", "prepared"} <=> by'[k] = Nil
  BY <1>1 DEF JournalType
<1>3. by' \in [Permit -> Call \cup {Nil}] /\ waiting' \in [Call -> Permit \cup {Nil}]
  BY DEF JournalType, Spends
<1> QED BY <1>2, <1>3 DEF JournalType, Spends, Made

LEMMA MoveType ==
    ASSUME JournalType, NEW p \in Permit, NEW s \in {"created", "notstarted", "passed", "failed"}, Moves(p, s)
    PROVE  JournalType'
<1>1. /\ stage'[p] = s /\ stage[p] \in {"reserved", "created"}
      /\ \A k \in Permit \ {p} : stage'[k] = stage[k]
  BY DEF JournalType, Moves, Progress
<1>2. \A k \in Permit : /\ stage'[k] = "none" <=> permit[k] = Nil
                        /\ stage'[k] \in {"none", "prepared"} <=> by[k] = Nil
  BY <1>1 DEF JournalType
<1> QED BY <1>2 DEF JournalType, Moves, Progress, Made

LEMMA RestType ==
    ASSUME JournalType, Waits \/ Works
    PROVE  JournalType'
<1>1. CASE Waits
  BY <1>1 DEF Waits, Expire, Deny, Attempt, JournalType, Made
<1>2. CASE \E w \in Review : Close(w) \/ \E r \in BOOLEAN : Register(w, r)
  BY <1>2 DEF Close, Register, JournalType, Made
<1>3. ASSUME NEW q \in Request, NEW W \in (SUBSET Review) \ {{}}, NEW d \in 1 .. MaxDispatches, Ask(q, W, d)
      PROVE  JournalType'
  <2>1. PICK r \in RequestRecord : request' = [request EXCEPT ![q] = r]
    <3>1. PICK r : r = [works |-> W, dispatches |-> d]
      OBVIOUS
    <3>2. r \in RequestRecord
      BY <3>1 DEF RequestRecord
    <3> QED BY <1>3, <3>1, <3>2 DEF Ask
  <2>2. request' \in [Request -> RequestRecord \cup {Nil}]
    BY <2>1 DEF JournalType
  <2> QED BY <1>3, <2>2 DEF Ask, JournalType, Made
<1>4. CASE \E q \in Request : Grant(q) \/ Revoke(q)
  BY <1>4 DEF Grant, Revoke, JournalType, Made
<1> QED BY <1>1, <1>2, <1>3, <1>4 DEF Works

LEMMA JournalTypeKept ==
    ASSUME JournalType, JournalStep
    PROVE  JournalType'
BY IssueType, SpendType, MoveType, RestType DEF JournalStep

(* Sums, and the least of a set. *)
LEMMA TotalGrows ==
    ASSUME NEW T, IsFiniteSet(T), NEW w, \A x \in T : w[x] \in Nat, NEW S, S \subseteq T
    PROVE  Total(S, w) \in Nat /\ Total(T, w) \in Nat /\ Total(S, w) <= Total(T, w)
<1>1. IsFiniteSet(Pairs(T, w))
  BY PairsFinite
<1>2. Pairs(S, w) \subseteq Pairs(T, w)
  BY PairsIn
<1>3. IsFiniteSet(S)
  BY FS_Subset
<1>4. Total(S, w) \in Nat /\ Total(T, w) \in Nat
  BY <1>3, TotalType
<1>5. Cardinality(Pairs(S, w)) <= Cardinality(Pairs(T, w))
  BY <1>1, <1>2, FS_Subset
<1> QED BY <1>4, <1>5 DEF Total, Pairs

LEMMA LeastIn ==
    ASSUME NEW S, S \subseteq Nat, S # {}
    PROVE  Min(S) \in S /\ \A y \in S : Min(S) <= y
<1>1. PICK x \in S : \A y \in S : ~ (<<y, x>> \in OpToRel(<, Nat))
  BY NatLessThanWellFounded, WFMin, Zenon
<1>2. \A y \in S : ~(y < x)
  BY <1>1 DEF OpToRel
<1>3. \A y \in S : x <= y
  BY <1>2
<1> QED BY <1>3 DEF Min

LEMMA JournalFacts ==
           /\ IsFiniteSet(Permit) /\ IsFiniteSet(Item) /\ Slot \subseteq Item /\ Review \subseteq Item \ Slot
           /\ \A x \in Profile : Cost[x] \in Nat
           /\ \A i \in Item : Allowed[i] \subseteq Profile /\ Allowed[i] # {}
           /\ Base \notin Request
           /\ {Units, Attempts, Parallel, MaxDispatches, RetryLimit} \subseteq Nat
<1>1. /\ IsFiniteSet(Permit) /\ IsFiniteSet(Item) /\ Slot \subseteq Item /\ Review \subseteq Item \ Slot
      /\ Cost \in [Profile -> Nat \ {0}] /\ Allowed \in [Item -> (SUBSET Profile) \ {{}}]
      /\ Base \notin Request
      /\ {Units, Attempts, Parallel, MaxDispatches, RetryLimit} \subseteq Nat
  BY BudgetAssumption DEF BudgetAssumption
<1>2. \A x \in Profile : Cost[x] \in Nat
  BY <1>1
<1>3. \A i \in Item : Allowed[i] \subseteq Profile /\ Allowed[i] # {}
  BY <1>1
<1> QED BY <1>1, <1>2, <1>3


LEMMA SlotCostType ==
    ASSUME NEW i \in Item
    PROVE  SlotCost(i) \in Nat /\ \A x \in Allowed[i] : SlotCost(i) <= Cost[x]
<1> DEFINE C == {Cost[x] : x \in Allowed[i]}
<1>1. C \subseteq Nat /\ C # {}
  BY JournalFacts
<1>2. Min(C) \in C /\ \A y \in C : Min(C) <= y
  BY <1>1, LeastIn
<1> QED BY <1>1, <1>2 DEF SlotCost

LEMMA SumCostIs ==
    ASSUME NEW T, T \subseteq Item, NEW S, S \subseteq T
    PROVE  /\ SumCost(S) \in Nat /\ SumCost(T) \in Nat /\ SumCost(S) <= SumCost(T)
           /\ Cardinality(S) \in Nat /\ Cardinality(T) \in Nat /\ Cardinality(S) <= Cardinality(T)
<1> DEFINE w == [i \in Item |-> SlotCost(i)]
<1>1. IsFiniteSet(T) /\ IsFiniteSet(S) /\ S \subseteq Item
  BY JournalFacts, FS_Subset
<1>2. \A i \in T : w[i] \in Nat
  BY SlotCostType
<1>3. ASSUME NEW U, U \subseteq Item PROVE SumCost(U) = Total(U, w)
  <2>1. Total(U, [i \in U |-> SlotCost(i)]) = Total(U, w)
    <3>1. \A i \in U : [k \in U |-> SlotCost(k)][i] = w[i]
      BY <1>3
    <3> HIDE DEF w
    <3>2. PICK v : v = [k \in U |-> SlotCost(k)]
      OBVIOUS
    <3> QED BY <3>1, <3>2, TotalAgrees
  <2>2. SumCost(U) = Total(U, [i \in U |-> SlotCost(i)])
    BY DEF SumCost
  <2> QED BY <2>1, <2>2
<1>4. SumCost(S) = Total(S, w) /\ SumCost(T) = Total(T, w)
  BY <1>1, <1>3
<1> HIDE DEF w
<1>5. Total(S, w) \in Nat /\ Total(T, w) \in Nat /\ Total(S, w) <= Total(T, w)
  BY <1>1, <1>2, TotalGrows
<1>6. Cardinality(S) \in Nat /\ Cardinality(T) \in Nat /\ Cardinality(S) <= Cardinality(T)
  BY <1>1, FS_Subset, FS_CardinalityType
<1> QED BY <1>4, <1>5, <1>6

LEMMA SumCostAdds ==
    ASSUME NEW S, S \subseteq Item, NEW i \in Item, i \notin S
    PROVE  /\ SumCost(S \cup {i}) = SumCost(S) + SlotCost(i)
           /\ Cardinality(S \cup {i}) = Cardinality(S) + 1
<1> DEFINE T == S \cup {i}
           w == [k \in T |-> SlotCost(k)]
           v == [k \in S |-> SlotCost(k)]
<1>1. IsFiniteSet(S)
  BY JournalFacts, FS_Subset
<1>2. \A k \in T : w[k] \in Nat
  BY SlotCostType
<1>3. \A k \in S : v[k] = w[k]
  OBVIOUS
<1>4. w[i] = SlotCost(i)
  OBVIOUS
<1>5. SumCost(T) = Total(T, w) /\ SumCost(S) = Total(S, v)
  BY DEF SumCost
<1> HIDE DEF v, w
<1>6. Total(T, w) = Total(S, w) + w[i]
  BY <1>1, <1>2, TotalAdds
<1>7. Total(S, v) = Total(S, w)
  BY <1>3, TotalAgrees
<1>8. Total(T, w) = Total(S, v) + SlotCost(i)
  BY <1>4, <1>6, <1>7
<1>9. Cardinality(T) = Cardinality(S) + 1
  BY <1>1, FS_AddElement
<1> QED BY <1>5, <1>8, <1>9

(* What is spent follows the permits in flight or charged. *)
Spending == InFlight \cup Charged
Paying(f, i) == PaidBy(f, i) \cap Spending

LEMMA PayingFinite ==
    ASSUME JournalType, NEW f, NEW i
    PROVE  /\ IsFiniteSet(Paying(f, i)) /\ IsFiniteSet(PaidBy(f, i) \cap Reserved)
           /\ \A p \in Paying(f, i) : PriceOf(p) \in Nat
           /\ UnitsSpent(f, i) = Total(Paying(f, i), [p \in Paying(f, i) |-> PriceOf(p)])
           /\ UnitsSpent(f, i) \in Nat /\ AttemptsSpent(f, i) \in Nat
           /\ AttemptsSpent(f, i) = Cardinality(PaidBy(f, i) \cap Reserved)
<1> DEFINE P == Paying(f, i)
           w == [p \in P |-> PriceOf(p)]
<1>1. P \subseteq Permit /\ P \subseteq Made /\ PaidBy(f, i) \subseteq Permit
  BY DEF Paying, PaidBy, Made
<1>2. IsFiniteSet(P) /\ IsFiniteSet(PaidBy(f, i) \cap Reserved)
  BY <1>1, JournalFacts, FS_Subset
<1>3. ASSUME NEW p \in P PROVE PriceOf(p) \in Nat
  <2>1. permit[p].profile \in Profile
    BY <1>1, PermitType DEF PermitRecord
  <2> QED BY <2>1, JournalFacts DEF PriceOf
<1>4. \A p \in P : w[p] \in Nat
  BY <1>3
<1>5. UnitsSpent(f, i) = Total(P, w)
  BY DEF UnitsSpent, Paying, Spending
<1> HIDE DEF w
<1>6. UnitsSpent(f, i) = Total(P, w) /\ Total(P, w) \in Nat
  BY <1>2, <1>4, <1>5, TotalType
<1>7. /\ AttemptsSpent(f, i) = Cardinality(PaidBy(f, i) \cap Reserved)
      /\ AttemptsSpent(f, i) \in Nat
  BY <1>2, FS_CardinalityType DEF AttemptsSpent
<1> QED BY <1>2, <1>3, <1>6, <1>7 DEF w

LEMMA PayingNext ==
    ASSUME JournalType', NEW f, NEW i
    PROVE  /\ \A p \in Paying(f, i)' : PriceOf(p)' \in Nat
           /\ UnitsSpent(f, i)' = Total(Paying(f, i)', [p \in Paying(f, i)' |-> PriceOf(p)'])
           /\ UnitsSpent(f, i)' \in Nat /\ AttemptsSpent(f, i)' \in Nat
<1>1. (\A p \in Paying(f, i) : PriceOf(p) \in Nat)'
  BY PayingFinite, PTL
<1>2. (UnitsSpent(f, i) = Total(Paying(f, i), [p \in Paying(f, i) |-> PriceOf(p)]))'
  BY PayingFinite, PTL
<1>3. (UnitsSpent(f, i) \in Nat)'
  BY PayingFinite, PTL
<1>4. (AttemptsSpent(f, i) \in Nat)'
  BY PayingFinite, PTL
<1> QED BY <1>1, <1>2, <1>3, <1>4

(* Most steps spend nothing; a call that was not started gives back. *)
Thrifty ==
    /\ \A p \in Made : permit'[p] = permit[p]
    /\ Spending' \subseteq Spending /\ Reserved' = Reserved

LEMMA SpentKept ==
    ASSUME JournalType, JournalType', Thrifty, NEW f, NEW i
    PROVE  UnitsSpent(f, i)' <= UnitsSpent(f, i) /\ AttemptsSpent(f, i)' = AttemptsSpent(f, i)
<1> DEFINE P == Paying(f, i)
           Q == Paying(f, i)'
           w == [p \in P |-> PriceOf(p)]
           v == [p \in Q |-> PriceOf(p)']
<1>1. Spending \subseteq Made /\ Reserved \subseteq Made
  BY PermitType DEF Spending
<1>2. Q \subseteq P
  BY <1>1 DEF Paying, Thrifty, PaidBy, Made
<1>3. PaidBy(f, i)' \cap Reserved' = PaidBy(f, i) \cap Reserved
  <2>1. \A p \in Reserved : p \in Made' /\ permit'[p] = permit[p]
    <3>1. \A p \in Reserved : p \in Made' /\ p \in Made
      BY <1>1, PermitType DEF Thrifty, JournalType, Made, Reserved
    <3> QED BY <3>1 DEF Thrifty
  <2> QED BY <1>1, <2>1 DEF Thrifty, PaidBy
<1>4. \A p \in Q : w[p] = v[p]
  BY <1>1, <1>2 DEF Thrifty, PriceOf, Paying
<1>5. IsFiniteSet(P) /\ \A p \in P : w[p] \in Nat
  BY PayingFinite
<1>6. UnitsSpent(f, i) = Total(P, w)
  BY PayingFinite
<1>7. UnitsSpent(f, i)' = Total(Q, v)
  BY PayingNext
<1> HIDE DEF P, Q, w, v
<1>8. Total(Q, v) = Total(Q, w)
  BY <1>4, TotalAgrees
<1>9. Total(Q, w) <= Total(P, w)
  BY <1>2, <1>5, TotalGrows
<1>10. AttemptsSpent(f, i)' = AttemptsSpent(f, i)
  BY <1>3 DEF AttemptsSpent
<1> QED BY <1>6, <1>7, <1>8, <1>9, <1>10

(* A call in flight is paid for by the funding of its permit. *)
LEMMA SpentGrows ==
    ASSUME JournalType, JournalType', NEW p \in Permit, NEW c \in Call,
           NEW s \in {"reserved", "failed"}, Spends(p, c, s), NEW f, NEW i
    PROVE  IF permit[p].funding = f /\ (f = Base \/ permit[p].item = i)
           THEN /\ UnitsSpent(f, i)' = UnitsSpent(f, i) + Cost[permit[p].profile]
                /\ AttemptsSpent(f, i)' = AttemptsSpent(f, i) + 1
           ELSE /\ UnitsSpent(f, i)' = UnitsSpent(f, i)
                /\ AttemptsSpent(f, i)' = AttemptsSpent(f, i)
<1> DEFINE P == Paying(f, i)
           Q == Paying(f, i)'
           w == [q \in P |-> PriceOf(q)]
           v == [q \in Q |-> PriceOf(q)']
           R == PaidBy(f, i) \cap Reserved
           pays == permit[p].funding = f /\ (f = Base \/ permit[p].item = i)
<1>1. /\ stage'[p] = s /\ by'[p] = c /\ c # Nil /\ stage[p] = "prepared" /\ by[p] = Nil
      /\ \A k \in Permit \ {p} : by'[k] = by[k] /\ stage'[k] = stage[k]
      /\ UNCHANGED permit
  BY NilAssumption DEF JournalType, Spends, NilAssumption
<1>2. p \in Made /\ p \notin Spending /\ p \notin Reserved
  BY <1>1 DEF JournalType, Made, Spending, InFlight, Charged, Reserved
<1>3. Spending' = Spending \cup {p}
  BY <1>1 DEF Spending, InFlight, Charged
<1>4. Reserved' = Reserved \cup {p}
  BY <1>1 DEF Reserved
<1>5. PaidBy(f, i)' = PaidBy(f, i) /\ (p \in PaidBy(f, i) <=> pays)
  BY <1>1, <1>2 DEF PaidBy, Made
<1>6. Q = IF pays THEN P \cup {p} ELSE P
  BY <1>3, <1>5 DEF Paying
<1>7. PaidBy(f, i)' \cap Reserved' = IF pays THEN R \cup {p} ELSE R
  BY <1>4, <1>5
<1>8. /\ IsFiniteSet(P) /\ IsFiniteSet(R) /\ UnitsSpent(f, i) = Total(P, w)
      /\ AttemptsSpent(f, i) = Cardinality(R)
  BY PayingFinite
<1>9. /\ UnitsSpent(f, i)' = Total(Q, v) /\ \A q \in Q : v[q] \in Nat
  BY PayingNext
<1>10. \A q \in P : w[q] = v[q]
  BY <1>1, <1>6 DEF PriceOf
<1>11. pays => v[p] = Cost[permit[p].profile]
  BY <1>1, <1>6 DEF PriceOf
<1>12. p \notin P /\ p \notin R
  BY <1>2 DEF Paying
<1>13. AttemptsSpent(f, i)' = Cardinality(IF pays THEN R \cup {p} ELSE R)
  BY <1>7 DEF AttemptsSpent
<1> HIDE DEF P, Q, w, v, R
<1>14. Total(P, v) = Total(P, w)
  BY <1>10, TotalAgrees
<1>15. CASE pays
  <2>1. Total(P \cup {p}, v) = Total(P, v) + v[p]
    BY <1>6, <1>8, <1>9, <1>12, <1>15, TotalAdds
  <2>2. UnitsSpent(f, i)' = UnitsSpent(f, i) + Cost[permit[p].profile]
    BY <1>6, <1>8, <1>9, <1>11, <1>14, <1>15, <2>1
  <2>3. Cardinality(R \cup {p}) = Cardinality(R) + 1
    BY <1>8, <1>12, FS_AddElement
  <2>4. AttemptsSpent(f, i)' = AttemptsSpent(f, i) + 1
    BY <1>8, <1>13, <1>15, <2>3
  <2> QED BY <1>15, <2>2, <2>4
<1>16. CASE ~pays
  <2>1. UnitsSpent(f, i)' = UnitsSpent(f, i)
    BY <1>6, <1>8, <1>9, <1>14, <1>16
  <2>2. AttemptsSpent(f, i)' = AttemptsSpent(f, i)
    BY <1>8, <1>13, <1>16
  <2> QED BY <1>16, <2>1, <2>2
<1> QED BY <1>15, <1>16

LEMMA ThriftySteps ==
    ASSUME JournalType,
           \/ \E p \in Permit, i \in Item, x \in Profile, a \in Agent, spawn \in BOOLEAN : Issue(p, i, x, a, spawn)
           \/ \E p \in Permit, s \in {"created", "notstarted", "passed", "failed"} : Moves(p, s)
           \/ Waits \/ Works \/ UNCHANGED journal
    PROVE  Thrifty
<1>1. ASSUME NEW p \in Permit, NEW i \in Item, NEW x \in Profile, NEW a \in Agent,
             NEW spawn \in BOOLEAN, Issue(p, i, x, a, spawn)
      PROVE  Thrifty
  <2>1. permit[p] = Nil /\ stage' = [stage EXCEPT ![p] = "prepared"] /\ UNCHANGED by
        /\ \E r : permit' = [permit EXCEPT ![p] = r]
    BY <1>1 DEF Issue
  <2> QED BY <2>1 DEF Thrifty, JournalType, Made, Spending, InFlight, Charged, Reserved
<1>2. ASSUME NEW p \in Permit, NEW s \in {"created", "notstarted", "passed", "failed"}, Moves(p, s)
      PROVE  Thrifty
  BY <1>2 DEF Moves, Progress, Thrifty, JournalType, Spending, InFlight, Charged, Reserved
<1>3. CASE UNCHANGED <<permit, stage, by>>
  BY <1>3 DEF Thrifty, Spending, InFlight, Charged, Reserved
<1> QED BY <1>1, <1>2, <1>3 DEF journal, Waits, Expire, Deny, Attempt,
                              Works, Close, Register, Ask, Grant, Revoke

(* Only what was asked for is granted and pays, and what is required was   *)
(* registered.                                                             *)
Asked ==
    /\ \A q \in Request : answer[q] # "none" <=> request[q] # Nil
    /\ \A p \in Made : permit[p].funding # Base => answer[permit[p].funding] # "none"
    /\ \A w \in required : work[w] # Nil

LEMMA AskedKept ==
    ASSUME JournalType, Asked, JournalStep
    PROVE  Asked'
<1>1. ASSUME NEW p \in Permit, NEW i \in Item, NEW x \in Profile, NEW a \in Agent,
             NEW spawn \in BOOLEAN, Issue(p, i, x, a, spawn)
      PROVE  Asked'
  <2>1. PICK f \in Fundings(i), r \in PermitRecord :
            r.funding = f /\ permit' = [permit EXCEPT ![p] = r]
    BY <1>1, IssuedPermit
  <2>2. UNCHANGED <<required, work, request, answer>>
    BY <1>1 DEF Issue
  <2>3. f # Base => answer[f] # "none"
    BY <2>1 DEF Fundings, Buckets
  <2>4. ASSUME NEW k \in Permit, permit'[k] # Nil, permit'[k].funding # Base
        PROVE  answer'[permit'[k].funding] # "none"
    <3>1. CASE k = p
      BY <2>1, <2>2, <2>3, <2>4, <3>1 DEF JournalType
    <3>2. CASE k # p
      BY <2>1, <2>2, <2>4, <3>2 DEF JournalType, Asked, Made
    <3> QED BY <3>1, <3>2
  <2> QED BY <2>2, <2>4 DEF Asked, Made
<1>2. CASE UNCHANGED <<permit, required, work, request, answer>>
  BY <1>2 DEF Asked, Made
<1>3. CASE \E w \in Review : Close(w) \/ \E r \in BOOLEAN : Register(w, r)
  BY NilAssumption, <1>3 DEF Asked, Close, Register, JournalType, Made, NilAssumption
<1>4. ASSUME NEW q \in Request, NEW W \in (SUBSET Review) \ {{}}, NEW d \in 1 .. MaxDispatches, Ask(q, W, d)
      PROVE  Asked'
  <2>1. PICK r : r = [works |-> W, dispatches |-> d]
    OBVIOUS
  <2>2. r # Nil
    <3>1. r \in RequestRecord
      BY <2>1 DEF RequestRecord
    <3> QED BY NilAssumption, <3>1 DEF NilAssumption
  <2>3. /\ request' = [request EXCEPT ![q] = r] /\ answer' = [answer EXCEPT ![q] = "asked"]
        /\ UNCHANGED <<permit, work, required>>
    BY <1>4, <2>1 DEF Ask
  <2> QED BY <2>2, <2>3 DEF Asked, JournalType, Made
<1>5. ASSUME NEW q \in Request, Grant(q) \/ Revoke(q)
      PROVE  Asked'
  <2>1. PICK a \in {"granted", "revoked"} : answer' = [answer EXCEPT ![q] = a]
    BY <1>5 DEF Grant, Revoke
  <2>2. answer[q] # "none" /\ UNCHANGED <<permit, work, required, request>>
    BY <1>5 DEF Grant, Revoke
  <2>3. \A k \in Request : answer'[k] # "none" <=> answer[k] # "none"
    BY <2>1, <2>2 DEF JournalType
  <2>4. \A p \in Made : permit[p].funding \in Request \cup {Base}
    BY PermitType DEF PermitRecord
  <2> QED BY <2>2, <2>3, <2>4 DEF Asked, Made
<1> QED BY <1>1, <1>2, <1>3, <1>4, <1>5 DEF JournalStep, Spends, Moves, Progress, Works,
            Waits, Expire, Deny, Attempt

LEMMA LimitType ==
    ASSUME JournalType, NEW q \in Request, request[q] # Nil, NEW w \in request[q].works
    PROVE  /\ q # Base /\ w \in Item /\ UnitsOf(q, w) \in Nat /\ AttemptsOf(q, w) \in Nat
           /\ UnitsOf(q, w) = request[q].dispatches * Cost[ProfileOf(w)]
           /\ AttemptsOf(q, w) = request[q].dispatches * (RetryLimit + 1)
<1>1. request[q] \in RequestRecord
  BY DEF JournalType
<1>2. w \in Review /\ request[q].dispatches \in Nat
  BY <1>1, JournalFacts DEF RequestRecord
<1>3. q # Base /\ w \in Item /\ RetryLimit \in Nat
  BY <1>2, JournalFacts
<1>4. Cost[ProfileOf(w)] \in Nat
  <2>1. ProfileOf(w) \in Allowed[w]
    BY <1>3, JournalFacts DEF ProfileOf
  <2> QED BY <1>3, <2>1, JournalFacts
<1>5. /\ UnitsOf(q, w) = request[q].dispatches * Cost[ProfileOf(w)]
      /\ AttemptsOf(q, w) = request[q].dispatches * (RetryLimit + 1)
  BY <1>3 DEF UnitsOf, AttemptsOf
<1>6. \A m, n \in Nat : m * n \in Nat
  OBVIOUS
<1>7. RetryLimit + 1 \in Nat
  BY <1>3
<1> QED BY <1>2, <1>3, <1>4, <1>5, <1>6, <1>7

LEMMA LimitNext ==
    ASSUME JournalType', NEW q \in Request, request'[q] # Nil, NEW w \in request'[q].works
    PROVE  UnitsOf(q, w)' \in Nat /\ AttemptsOf(q, w)' \in Nat
<1>1. request'[q] \in RequestRecord
  BY DEF JournalType
<1>2. w \in Item /\ q # Base /\ request'[q].dispatches \in Nat /\ RetryLimit + 1 \in Nat
  BY <1>1, JournalFacts DEF RequestRecord
<1>3. Cost[ProfileOf(w)] \in Nat
  <2>1. ProfileOf(w) \in Allowed[w]
    BY <1>2, JournalFacts DEF ProfileOf
  <2> QED BY <1>2, <2>1, JournalFacts
<1>4. /\ UnitsOf(q, w)' = request'[q].dispatches * Cost[ProfileOf(w)]
      /\ AttemptsOf(q, w)' = request'[q].dispatches * (RetryLimit + 1)
  BY <1>2 DEF UnitsOf, AttemptsOf
<1>5. \A m, n \in Nat : m * n \in Nat
  OBVIOUS
<1> QED BY <1>2, <1>3, <1>4, <1>5

LEMMA UnfundedSpent ==
    ASSUME JournalType, NEW q, q # Base,
           \A p \in Made : permit[p].funding # q, NEW w
    PROVE  UnitsSpent(q, w) = 0 /\ AttemptsSpent(q, w) = 0
<1>1. PaidBy(q, w) = {}
  BY DEF PaidBy
<1>2. Paying(q, w) = {} /\ PaidBy(q, w) \cap Reserved = {}
  BY <1>1 DEF Paying
<1>3. \A v : Total({}, v) = 0
  BY FS_EmptySet DEF Total
<1> QED BY <1>2, <1>3, PayingFinite, FS_EmptySet

LEMMA CapacityKept ==
    ASSUME JournalType, JournalType', Asked, WithinCapacity, Thrifty,
           \A q \in Request : request[q] # Nil => request'[q] = request[q]
    PROVE  WithinCapacity'
<1>1. ASSUME NEW i \in Item
      PROVE  UnitsSpent(Base, i)' <= Units /\ AttemptsSpent(Base, i)' <= Attempts
  <2>1. /\ UnitsSpent(Base, i)' <= UnitsSpent(Base, i)
        /\ AttemptsSpent(Base, i)' = AttemptsSpent(Base, i)
    BY SpentKept
  <2>2. UnitsSpent(Base, i) <= Units /\ AttemptsSpent(Base, i) <= Attempts
    BY DEF WithinCapacity
  <2>3. /\ UnitsSpent(Base, i) \in Nat /\ AttemptsSpent(Base, i) \in Nat
        /\ Units \in Nat /\ Attempts \in Nat
    BY PayingFinite, JournalFacts
  <2>4. UnitsSpent(Base, i)' \in Nat
    BY PayingNext
  <2> QED BY <2>1, <2>2, <2>3, <2>4
<1>2. ASSUME NEW q \in Request, request'[q] # Nil, NEW w \in request'[q].works
      PROVE  UnitsSpent(q, w)' <= UnitsOf(q, w)' /\ AttemptsSpent(q, w)' <= AttemptsOf(q, w)'
  <2>1. /\ UnitsSpent(q, w)' <= UnitsSpent(q, w)
        /\ AttemptsSpent(q, w)' = AttemptsSpent(q, w)
    BY SpentKept
  <2>2. UnitsSpent(q, w) \in Nat /\ AttemptsSpent(q, w) \in Nat
    BY PayingFinite
  <2>3. UnitsSpent(q, w)' \in Nat
    BY PayingNext
  <2>4. UnitsOf(q, w)' \in Nat /\ AttemptsOf(q, w)' \in Nat
    BY <1>2, LimitNext
  <2>5. CASE request[q] # Nil
    <3>1. request'[q] = request[q] /\ w \in request[q].works
      BY <1>2, <2>5
    <3>2. UnitsSpent(q, w) <= UnitsOf(q, w) /\ AttemptsSpent(q, w) <= AttemptsOf(q, w)
      BY <2>5, <3>1 DEF WithinCapacity
    <3>3. UnitsOf(q, w)' = UnitsOf(q, w) /\ AttemptsOf(q, w)' = AttemptsOf(q, w)
      BY <3>1 DEF UnitsOf, AttemptsOf
    <3> QED BY <2>1, <2>2, <2>3, <2>4, <3>2, <3>3
  <2>6. CASE request[q] = Nil
    <3>1. \A p \in Made : permit[p].funding # q
      BY <2>6, JournalFacts DEF Asked
    <3>2. q # Base
      BY JournalFacts
    <3>3. UnitsSpent(q, w) = 0 /\ AttemptsSpent(q, w) = 0
      BY <3>1, <3>2, UnfundedSpent
    <3> QED BY <2>1, <2>2, <2>3, <2>4, <3>3
  <2> QED BY <2>5, <2>6
<1> QED BY <1>1, <1>2 DEF WithinCapacity
LEMMA TwoLeast ==
    ASSUME NEW a \in Int, NEW b \in Int
    PROVE  Min({a, b}) = (IF a <= b THEN a ELSE b) /\ Max({a, b}) = (IF a <= b THEN b ELSE a)
<1>1. \A m \in {a, b} : (\A y \in {a, b} : m <= y) <=> m = (IF a <= b THEN a ELSE b)
  OBVIOUS
<1>2. \A m \in {a, b} : (\A y \in {a, b} : m >= y) <=> m = (IF a <= b THEN b ELSE a)
  OBVIOUS
<1> QED BY <1>1, <1>2 DEF Min, Max

LEMMA HeldType ==
    ASSUME JournalType, NEW i
    PROVE  /\ HeldSlots(i) \subseteq Item /\ HeldWorks(i) \subseteq Item
           /\ Cardinality(HeldSlots(i)) \in Nat /\ Cardinality(HeldWorks(i)) \in Nat
           /\ SumCost(HeldSlots(i) \cup HeldWorks(i)) \in Nat
<1>1. HeldSlots(i) \subseteq Item /\ HeldWorks(i) \subseteq Item
  BY JournalFacts DEF HeldSlots, HeldWorks, JournalType
<1>2. HeldSlots(i) \cup HeldWorks(i) \subseteq Item
  BY <1>1
<1> QED BY <1>1, <1>2, SumCostIs

(* What is found affordable leaves what is held. *)
LEMMA BaseRoom ==
    ASSUME JournalType, NEW i \in Item, NEW n \in Nat,
           UnitsLeft(Base, i) >= n, AttemptsLeft(Base, i) >= 1
    PROVE  /\ UnitsSpent(Base, i) + SumCost(HeldSlots(i) \cup HeldWorks(i)) + n <= Units
           /\ AttemptsSpent(Base, i) + Cardinality(HeldSlots(i)) + Cardinality(HeldWorks(i)) + 1 <= Attempts
<1> DEFINE u == UnitsSpent(Base, i)
           t == AttemptsSpent(Base, i)
           h == SumCost(HeldSlots(i) \cup HeldWorks(i))
           k == Cardinality(HeldSlots(i))
           m == Cardinality(HeldWorks(i))
           left == Attempts - t - k
<1>1. /\ u \in Nat /\ t \in Nat /\ h \in Nat /\ k \in Nat /\ m \in Nat
      /\ Units \in Nat /\ Attempts \in Nat
  BY PayingFinite, HeldType, JournalFacts
<1>2. UnitsLeft(Base, i) = Units - u - h
  BY DEF UnitsLeft, UnitsOf, UnitsHeld
<1>3. AttemptsLeft(Base, i) = Attempts - t - (k + Max({0, Min({left, m})}))
  BY DEF AttemptsLeft, AttemptsOf, AttemptsHeld
<1> HIDE DEF u, t, h, k, m
<1>4. left \in Int
  BY <1>1
<1> HIDE DEF left
<1>5. Min({left, m}) = IF left <= m THEN left ELSE m
  BY <1>1, <1>4, TwoLeast
<1>6. Max({0, Min({left, m})}) = IF 0 <= Min({left, m}) THEN Min({left, m}) ELSE 0
  BY <1>1, <1>4, <1>5, TwoLeast
<1>7. Max({0, Min({left, m})}) \in Nat /\ (left <= m => left <= Max({0, Min({left, m})}))
      /\ (left > m => Max({0, Min({left, m})}) = m)
  BY <1>1, <1>4, <1>5, <1>6
<1>8. left > m
  BY <1>1, <1>3, <1>4, <1>7 DEF left
<1>9. t + k + m + 1 <= Attempts
  BY <1>1, <1>4, <1>8 DEF left
<1>10. u + h + n <= Units
  BY <1>1, <1>2
<1> QED BY <1>9, <1>10 DEF u, t, h, k, m

LEMMA GrantRoom ==
    ASSUME JournalType, NEW q \in Request, request[q] # Nil, NEW w \in request[q].works,
           NEW n \in Nat, UnitsLeft(q, w) >= n, AttemptsLeft(q, w) >= 1
    PROVE  UnitsSpent(q, w) + n <= UnitsOf(q, w) /\ AttemptsSpent(q, w) + 1 <= AttemptsOf(q, w)
<1>1. q # Base /\ UnitsOf(q, w) \in Nat /\ AttemptsOf(q, w) \in Nat
  BY LimitType
<1>2. /\ UnitsLeft(q, w) = UnitsOf(q, w) - UnitsSpent(q, w) - 0
      /\ AttemptsLeft(q, w) = AttemptsOf(q, w) - AttemptsSpent(q, w) - 0
  BY <1>1 DEF UnitsLeft, AttemptsLeft, UnitsHeld, AttemptsHeld
<1>3. UnitsSpent(q, w) \in Nat /\ AttemptsSpent(q, w) \in Nat
  BY PayingFinite
<1> QED BY <1>1, <1>2, <1>3

(* The base is one for all items. *)
LEMMA BaseSpent ==
    ASSUME NEW i, NEW k
    PROVE  UnitsSpent(Base, i) = UnitsSpent(Base, k) /\ AttemptsSpent(Base, i) = AttemptsSpent(Base, k)
<1>1. PaidBy(Base, i) = PaidBy(Base, k)
  BY DEF PaidBy
<1> QED BY <1>1 DEF UnitsSpent, AttemptsSpent

(* A call is paid for by what was found affordable. *)
LEMMA SpendFacts ==
    ASSUME JournalType, Asked, NEW p \in Permit, NEW c \in Call,
           NEW s \in {"reserved", "failed"}, Spends(p, c, s)
    PROVE  /\ p \in Made /\ permit[p].item \in Item /\ permit[p].profile \in Profile
           /\ permit[p].funding \in Request \cup {Base}
           /\ Cost[permit[p].profile] \in Nat
           /\ Affordable(permit[p].funding, permit[p].item, permit[p].profile)
           /\ permit[p].item \in Review => work[permit[p].item] = "open"
           /\ permit[p].funding # Base =>
                /\ permit[p].funding \in Request /\ answer[permit[p].funding] = "granted"
                /\ request[permit[p].funding] # Nil
                /\ permit[p].item \in request[permit[p].funding].works /\ work[permit[p].item] = "open"
           /\ Extended => Idle(permit[p].item)
<1>1. p \in Made
  BY DEF Spends, JournalType, Made
<1>2. permit[p] \in PermitRecord
  BY <1>1, PermitType
<1>3. permit[p].item \in Item /\ permit[p].profile \in Profile /\ permit[p].funding \in Request \cup {Base}
  BY <1>2 DEF PermitRecord
<1>4. Cost[permit[p].profile] \in Nat
  BY <1>3, JournalFacts
<1>5. Funded(p)
  BY DEF Spends
<1>6. permit[p].funding # Base =>
                /\ permit[p].funding \in Request /\ answer[permit[p].funding] = "granted"
                /\ permit[p].item \in request[permit[p].funding].works /\ work[permit[p].item] = "open"
  BY <1>3, <1>5 DEF Funded, Buckets
<1>7. permit[p].funding # Base => request[permit[p].funding] # Nil
  BY <1>6 DEF Asked
<1> QED BY <1>1, <1>3, <1>4, <1>5, <1>6, <1>7 DEF Funded

LEMMA CapacitySpent ==
    ASSUME JournalType, JournalType', Asked, WithinCapacity, NEW p \in Permit, NEW c \in Call,
           NEW s \in {"reserved", "failed"}, Spends(p, c, s)
    PROVE  WithinCapacity'
<1> DEFINE f == permit[p].funding
           i == permit[p].item
           n == Cost[permit[p].profile]
<1>1. /\ f \in Request \cup {Base} /\ i \in Item /\ n \in Nat
      /\ UnitsLeft(f, i) >= n /\ AttemptsLeft(f, i) >= 1
      /\ f # Base => f \in Request /\ request[f] # Nil /\ i \in request[f].works
  BY SpendFacts DEF Affordable
<1>2. UNCHANGED request
  BY DEF Spends
<1>3. ASSUME NEW k \in Item
      PROVE  UnitsSpent(Base, k)' <= Units /\ AttemptsSpent(Base, k)' <= Attempts
  <2>1. CASE f = Base
    <3>1. /\ UnitsSpent(Base, i) + SumCost(HeldSlots(i) \cup HeldWorks(i)) + n <= Units
          /\ AttemptsSpent(Base, i) + Cardinality(HeldSlots(i)) + Cardinality(HeldWorks(i)) + 1 <= Attempts
      BY <1>1, <2>1, BaseRoom
    <3>2. UnitsSpent(Base, k)' = UnitsSpent(Base, k) + n /\ AttemptsSpent(Base, k)' = AttemptsSpent(Base, k) + 1
      BY <2>1, SpentGrows
    <3>3. UnitsSpent(Base, i) = UnitsSpent(Base, k) /\ AttemptsSpent(Base, i) = AttemptsSpent(Base, k)
      BY BaseSpent
    <3>4. /\ UnitsSpent(Base, k) \in Nat /\ AttemptsSpent(Base, k) \in Nat
          /\ SumCost(HeldSlots(i) \cup HeldWorks(i)) \in Nat
          /\ Cardinality(HeldSlots(i)) \in Nat /\ Cardinality(HeldWorks(i)) \in Nat
      BY PayingFinite, HeldType
    <3> HIDE DEF f, i, n
    <3> QED BY <1>1, <3>1, <3>2, <3>3, <3>4, JournalFacts
  <2>2. CASE f # Base
    <3>1. UnitsSpent(Base, k)' = UnitsSpent(Base, k) /\ AttemptsSpent(Base, k)' = AttemptsSpent(Base, k)
      BY <2>2, SpentGrows
    <3> QED BY <3>1 DEF WithinCapacity
  <2> QED BY <2>1, <2>2
<1>4. ASSUME NEW q \in Request, request[q] # Nil, NEW w \in request[q].works
      PROVE  UnitsSpent(q, w)' <= UnitsOf(q, w) /\ AttemptsSpent(q, w)' <= AttemptsOf(q, w)
  <2>1. CASE f = q /\ i = w
    <3>1. UnitsSpent(q, w) + n <= UnitsOf(q, w) /\ AttemptsSpent(q, w) + 1 <= AttemptsOf(q, w)
      BY <1>1, <1>4, <2>1, GrantRoom
    <3>2. UnitsSpent(q, w)' = UnitsSpent(q, w) + n /\ AttemptsSpent(q, w)' = AttemptsSpent(q, w) + 1
      BY <2>1, SpentGrows
    <3> QED BY <3>1, <3>2
  <2>2. CASE ~(f = q /\ i = w)
    <3>1. q # Base
      BY JournalFacts
    <3>2. UnitsSpent(q, w)' = UnitsSpent(q, w) /\ AttemptsSpent(q, w)' = AttemptsSpent(q, w)
      BY <2>2, <3>1, SpentGrows
    <3> QED BY <1>4, <3>2 DEF WithinCapacity
  <2> QED BY <2>1, <2>2
<1>5. \A q, w : UnitsOf(q, w)' = UnitsOf(q, w) /\ AttemptsOf(q, w)' = AttemptsOf(q, w)
  BY <1>2 DEF UnitsOf, AttemptsOf
<1> QED BY <1>2, <1>3, <1>4, <1>5 DEF WithinCapacity

(* What is required and was not attempted, and the room it has. *)
Untouched == {i \in Slot \cup {w \in required : work[w] = "open"} : For(i) \cap Reserved = {}}
RoomFor(S) == \A i \in Item : /\ UnitsSpent(Base, i) + SumCost(S) <= Units
                              /\ AttemptsSpent(Base, i) + Cardinality(S) <= Attempts

LEMMA UntouchedIs ==
    /\ JournalType => Untouched \subseteq Item
    /\ RequiredFunded <=> RoomFor(Untouched)
<1>1. JournalType => Untouched \subseteq Item
  BY JournalFacts DEF Untouched, JournalType
<1> QED BY <1>1 DEF RequiredFunded, RoomFor, Untouched

LEMMA UntouchedHeld ==
    ASSUME JournalType, NEW i \in Item
    PROVE  /\ SumCost(Untouched \ {i}) <= SumCost(HeldSlots(i) \cup HeldWorks(i))
           /\ Cardinality(Untouched \ {i}) <= Cardinality(HeldSlots(i)) + Cardinality(HeldWorks(i))
<1> DEFINE A == HeldSlots(i)
           B == HeldWorks(i)
           U == Untouched \ {i}
<1>1. A \subseteq Slot /\ B \subseteq Review /\ A \cup B \subseteq Item /\ IsFiniteSet(A) /\ IsFiniteSet(B)
  <2>1. A \subseteq Slot /\ B \subseteq Review
    BY DEF HeldSlots, HeldWorks, JournalType
  <2>2. A \subseteq Item /\ B \subseteq Item
    BY <2>1, JournalFacts
  <2> QED BY <2>1, <2>2, JournalFacts, FS_Subset
<1>2. ASSUME NEW k \in U PROVE k \in A \cup B
  <2>1. For(k) \cap Reserved = {} /\ k # i
    BY DEF Untouched
  <2>2. For(k) \cap (InFlight \cup Charged) = {}
    BY <2>1, PermitType
  <2>3. CASE k \in Slot
    BY <2>1, <2>2, <2>3 DEF HeldSlots, InFlight, Charged, For, Made
  <2>4. CASE k \in required /\ work[k] = "open"
    BY <2>1, <2>2, <2>4 DEF HeldWorks
  <2> QED BY <2>3, <2>4 DEF Untouched
<1>3. U \subseteq A \cup B
  BY <1>2
<1>4. A \cap B = {}
  BY <1>1, JournalFacts
<1> HIDE DEF A, B, U
<1>5. Cardinality(A \cup B) = Cardinality(A) + Cardinality(B) - Cardinality(A \cap B)
  BY <1>1, FS_Union
<1>6. Cardinality(A \cap B) = 0 /\ Cardinality(A) \in Nat /\ Cardinality(B) \in Nat
  BY <1>1, <1>4, FS_EmptySet, FS_CardinalityType
<1>7. Cardinality(A \cup B) = Cardinality(A) + Cardinality(B)
  BY <1>5, <1>6
<1>8. SumCost(U) <= SumCost(A \cup B) /\ Cardinality(U) <= Cardinality(A \cup B)
  BY <1>1, <1>3, SumCostIs
<1> QED BY <1>7, <1>8 DEF A, B, U

LEMMA Shrinks ==
    ASSUME JournalType', NEW S, S \subseteq Item, Untouched' \subseteq S,
           \A i \in Item : /\ UnitsSpent(Base, i)' + SumCost(S) <= Units
                           /\ AttemptsSpent(Base, i)' + Cardinality(S) <= Attempts
    PROVE  RequiredFunded'
<1>1. ASSUME NEW i \in Item
      PROVE  /\ UnitsSpent(Base, i)' + SumCost(Untouched') <= Units
             /\ AttemptsSpent(Base, i)' + Cardinality(Untouched') <= Attempts
  <2>1. /\ SumCost(Untouched') \in Nat /\ SumCost(S) \in Nat /\ SumCost(Untouched') <= SumCost(S)
        /\ Cardinality(Untouched') \in Nat /\ Cardinality(S) \in Nat
        /\ Cardinality(Untouched') <= Cardinality(S)
    BY SumCostIs
  <2>2. UnitsSpent(Base, i)' \in Nat /\ AttemptsSpent(Base, i)' \in Nat
    BY PayingNext
  <2> QED BY <2>1, <2>2, JournalFacts
<1> QED BY <1>1 DEF RequiredFunded, Untouched

LEMMA FundedKept ==
    ASSUME JournalType, JournalType', Thrifty, RequiredFunded, Untouched' \subseteq Untouched
    PROVE  RequiredFunded'
<1>1. ASSUME NEW i \in Item
      PROVE  /\ UnitsSpent(Base, i)' + SumCost(Untouched) <= Units
             /\ AttemptsSpent(Base, i)' + Cardinality(Untouched) <= Attempts
  <2>1. UnitsSpent(Base, i)' <= UnitsSpent(Base, i) /\ AttemptsSpent(Base, i)' = AttemptsSpent(Base, i)
    BY SpentKept
  <2>2. /\ UnitsSpent(Base, i) + SumCost(Untouched) <= Units
        /\ AttemptsSpent(Base, i) + Cardinality(Untouched) <= Attempts
    BY UntouchedIs DEF RoomFor
  <2>3. /\ UnitsSpent(Base, i)' \in Nat /\ UnitsSpent(Base, i) \in Nat
        /\ SumCost(Untouched) \in Nat /\ Units \in Nat
    BY PayingNext, PayingFinite, UntouchedIs, SumCostIs, JournalFacts
  <2> QED BY <2>1, <2>2, <2>3
<1> QED BY <1>1, UntouchedIs, Shrinks

LEMMA FundedSpent ==
    ASSUME JournalType, JournalType', Asked, RequiredFunded, NEW p \in Permit, NEW c \in Call,
           NEW s \in {"reserved", "failed"}, Spends(p, c, s)
    PROVE  RequiredFunded'
<1> DEFINE f == permit[p].funding
           i == permit[p].item
           n == Cost[permit[p].profile]
           U == Untouched \ {i}
<1>1. /\ f \in Request \cup {Base} /\ i \in Item /\ n \in Nat /\ p \in Made
      /\ UnitsLeft(f, i) >= n /\ AttemptsLeft(f, i) >= 1
  BY SpendFacts DEF Affordable
<1>2. Reserved' = Reserved \cup {p} /\ UNCHANGED <<permit, work, required>>
  BY NilAssumption DEF Spends, Reserved, JournalType, NilAssumption
<1>3. Made' = Made /\ \A k : For(k)' = For(k)
  BY <1>2 DEF Made, For
<1>4. p \in For(i)
  BY <1>1 DEF For
<1>5. Untouched' \subseteq Untouched /\ i \notin Untouched'
  BY <1>2, <1>3, <1>4 DEF Untouched
<1>6. Untouched' \subseteq U /\ U \subseteq Item /\ U \subseteq Untouched /\ Untouched \subseteq Item
  BY <1>5, UntouchedIs
<1>7. /\ SumCost(U) \in Nat /\ SumCost(Untouched) \in Nat /\ SumCost(U) <= SumCost(Untouched)
      /\ Cardinality(U) \in Nat /\ Cardinality(Untouched) \in Nat /\ Cardinality(U) <= Cardinality(Untouched)
  BY <1>6, SumCostIs
<1>8. ASSUME NEW k \in Item
      PROVE  UnitsSpent(Base, k)' + SumCost(U) <= Units /\ AttemptsSpent(Base, k)' + Cardinality(U) <= Attempts
  <2>1. UnitsSpent(Base, k) \in Nat /\ AttemptsSpent(Base, k) \in Nat /\ Units \in Nat /\ Attempts \in Nat
    BY PayingFinite, JournalFacts
  <2>2. CASE f = Base
    <3>1. /\ UnitsSpent(Base, i) + SumCost(HeldSlots(i) \cup HeldWorks(i)) + n <= Units
          /\ AttemptsSpent(Base, i) + Cardinality(HeldSlots(i)) + Cardinality(HeldWorks(i)) + 1 <= Attempts
      BY <1>1, <2>2, BaseRoom
    <3>2. UnitsSpent(Base, k)' = UnitsSpent(Base, k) + n /\ AttemptsSpent(Base, k)' = AttemptsSpent(Base, k) + 1
      BY <2>2, SpentGrows
    <3>3. UnitsSpent(Base, i) = UnitsSpent(Base, k) /\ AttemptsSpent(Base, i) = AttemptsSpent(Base, k)
      BY BaseSpent
    <3>4. /\ SumCost(U) <= SumCost(HeldSlots(i) \cup HeldWorks(i))
          /\ Cardinality(U) <= Cardinality(HeldSlots(i)) + Cardinality(HeldWorks(i))
      BY <1>1, UntouchedHeld
    <3>5. /\ SumCost(HeldSlots(i) \cup HeldWorks(i)) \in Nat
          /\ Cardinality(HeldSlots(i)) \in Nat /\ Cardinality(HeldWorks(i)) \in Nat
      BY HeldType
    <3> HIDE DEF f, i, n, U
    <3> QED BY <1>1, <1>7, <2>1, <3>1, <3>2, <3>3, <3>4, <3>5
  <2>3. CASE f # Base
    <3>1. UnitsSpent(Base, k)' = UnitsSpent(Base, k) /\ AttemptsSpent(Base, k)' = AttemptsSpent(Base, k)
      BY <2>3, SpentGrows
    <3>2. /\ UnitsSpent(Base, k) + SumCost(Untouched) <= Units
          /\ AttemptsSpent(Base, k) + Cardinality(Untouched) <= Attempts
      BY UntouchedIs DEF RoomFor
    <3> HIDE DEF f, i, n, U
    <3> QED BY <1>7, <2>1, <3>1, <3>2
  <2> QED BY <2>2, <2>3
<1> HIDE DEF U
<1> QED BY <1>6, <1>8, Shrinks

LEMMA RegisterFunded ==
    ASSUME JournalType, JournalType', Asked, RequiredFunded, Thrifty,
           NEW w \in Review, NEW r \in BOOLEAN, Register(w, r)
    PROVE  RequiredFunded'
<1> DEFINE U == Untouched \ {w}
           V == U \cup {w}
<1>1. /\ work[w] = Nil /\ work' = [work EXCEPT ![w] = "open"] /\ UNCHANGED <<permit, by>>
      /\ required' = IF r /\ BaseFunded(w) THEN required \cup {w} ELSE required
  BY DEF Register
<1>2. /\ w \notin required /\ w \in Item
      /\ \A k \in Review \ {w} : work'[k] = work[k]
  BY <1>1, JournalFacts DEF Asked, JournalType
<1>3. Reserved' = Reserved /\ \A k : For(k)' = For(k)
  BY <1>1 DEF Reserved, For, Made
<1>4. CASE ~(r /\ BaseFunded(w))
  <2>1. Untouched' \subseteq Untouched
    BY <1>1, <1>2, <1>3, <1>4 DEF Untouched, JournalType
  <2> QED BY <2>1, FundedKept
<1>5. CASE r /\ BaseFunded(w)
  <2>1. Untouched' \subseteq V
    BY <1>1, <1>2, <1>3, <1>5 DEF Untouched, JournalType
  <2>2. U \subseteq Item /\ w \notin U /\ V \subseteq Item
    BY <1>2, UntouchedIs
  <2>3. SumCost(V) = SumCost(U) + SlotCost(w) /\ Cardinality(V) = Cardinality(U) + 1
    BY <1>2, <2>2, SumCostAdds
  <2>4. UnitsLeft(Base, w) >= SlotCost(w) /\ AttemptsLeft(Base, w) >= 1 /\ SlotCost(w) \in Nat
    BY <1>2, <1>5, SlotCostType DEF BaseFunded, Room
  <2>5. /\ UnitsSpent(Base, w) + SumCost(HeldSlots(w) \cup HeldWorks(w)) + SlotCost(w) <= Units
        /\ AttemptsSpent(Base, w) + Cardinality(HeldSlots(w)) + Cardinality(HeldWorks(w)) + 1 <= Attempts
    BY <1>2, <2>4, BaseRoom
  <2>6. /\ SumCost(U) <= SumCost(HeldSlots(w) \cup HeldWorks(w))
        /\ Cardinality(U) <= Cardinality(HeldSlots(w)) + Cardinality(HeldWorks(w))
    BY <1>2, UntouchedHeld
  <2>7. /\ SumCost(HeldSlots(w) \cup HeldWorks(w)) \in Nat /\ Cardinality(HeldSlots(w)) \in Nat
        /\ Cardinality(HeldWorks(w)) \in Nat /\ SumCost(U) \in Nat /\ Cardinality(U) \in Nat
    BY <2>2, HeldType, SumCostIs
  <2> HIDE DEF U, V
  <2>8. ASSUME NEW i \in Item
        PROVE  UnitsSpent(Base, i)' + SumCost(V) <= Units /\ AttemptsSpent(Base, i)' + Cardinality(V) <= Attempts
    <3>1. UnitsSpent(Base, i)' <= UnitsSpent(Base, i) /\ AttemptsSpent(Base, i)' = AttemptsSpent(Base, i)
      BY SpentKept
    <3>2. UnitsSpent(Base, i) = UnitsSpent(Base, w) /\ AttemptsSpent(Base, i) = AttemptsSpent(Base, w)
      BY BaseSpent
    <3>3. /\ UnitsSpent(Base, i)' \in Nat /\ UnitsSpent(Base, i) \in Nat /\ AttemptsSpent(Base, i) \in Nat
          /\ Units \in Nat /\ Attempts \in Nat
      BY PayingNext, PayingFinite, JournalFacts
    <3> QED BY <2>3, <2>4, <2>5, <2>6, <2>7, <3>1, <3>2, <3>3
  <2> QED BY <2>1, <2>2, <2>8, Shrinks
<1> QED BY <1>4, <1>5

LEMMA RequiredKept ==
    ASSUME JournalType, JournalType', Asked, RequiredFunded, JournalStep
    PROVE  RequiredFunded'
<1>1. ASSUME NEW p \in Permit, NEW c \in Call, NEW s \in {"reserved", "failed"}, Spends(p, c, s)
      PROVE  RequiredFunded'
  BY <1>1, FundedSpent
<1>2. ASSUME NEW p \in Permit, NEW i \in Item, NEW x \in Profile, NEW a \in Agent,
             NEW spawn \in BOOLEAN, Issue(p, i, x, a, spawn)
      PROVE  RequiredFunded'
  <2>1. permit[p] = Nil /\ UNCHANGED <<by, work, required>> /\ \E r : permit' = [permit EXCEPT ![p] = r]
    BY <1>2 DEF Issue
  <2>2. Reserved' = Reserved /\ \A k \in Reserved : permit'[k] = permit[k] /\ k \in Made
    BY <2>1, PermitType DEF Reserved, Made
  <2>3. ASSUME NEW k PROVE For(k)' \cap Reserved' = For(k) \cap Reserved
    BY <2>2 DEF For, Made, Reserved
  <2>4. Untouched' \subseteq Untouched
    BY <2>1, <2>3 DEF Untouched
  <2> QED BY <1>2, <2>4, FundedKept, ThriftySteps
<1>3. CASE UNCHANGED <<permit, by, work, required>> /\ Thrifty
  BY <1>3, FundedKept DEF Untouched, For, Made, Reserved
<1>4. ASSUME NEW w \in Review, Close(w)
      PROVE  RequiredFunded'
  <2>1. Untouched' \subseteq Untouched
    BY <1>4 DEF Close, Untouched, For, Made, Reserved, JournalType
  <2>2. Thrifty
    BY <1>4, ThriftySteps DEF Works
  <2> QED BY <2>1, <2>2, FundedKept
<1>5. ASSUME NEW w \in Review, NEW r \in BOOLEAN, Register(w, r)
      PROVE  RequiredFunded'
  <2>1. Thrifty
    BY <1>5, ThriftySteps DEF Works
  <2> QED BY <1>5, <2>1, RegisterFunded
<1>6. ASSUME NEW p \in Permit, NEW s \in {"created", "notstarted", "passed", "failed"}, Moves(p, s)
      PROVE  RequiredFunded'
  <2>1. Thrifty /\ UNCHANGED <<permit, by, work, required>>
    BY <1>6, ThriftySteps DEF Moves, Progress
  <2> QED BY <1>3, <2>1
<1>7. CASE Waits
  <2>1. Thrifty
    BY <1>7, ThriftySteps
  <2> QED BY <1>3, <1>7, <2>1 DEF Waits, Expire, Deny, Attempt
<1>8. CASE Works
  <2>1. Thrifty
    BY <1>8, ThriftySteps
  <2>2. CASE \E w \in Review : Close(w) \/ \E r \in BOOLEAN : Register(w, r)
    BY <1>4, <1>5, <2>2
  <2>3. CASE \E q \in Request :
            \/ \E W \in (SUBSET Review) \ {{}}, d \in 1 .. MaxDispatches : Ask(q, W, d)
            \/ Grant(q) \/ Revoke(q)
    BY <1>3, <2>1, <2>3 DEF Ask, Grant, Revoke
  <2> QED BY <1>8, <2>2, <2>3 DEF Works
<1> QED BY <1>1, <1>2, <1>6, <1>7, <1>8 DEF JournalStep

LEMMA CapacityStep ==
    ASSUME JournalType, JournalType', Asked, WithinCapacity, JournalStep
    PROVE  WithinCapacity'
<1>1. ASSUME NEW p \in Permit, NEW c \in Call, NEW s \in {"reserved", "failed"}, Spends(p, c, s)
      PROVE  WithinCapacity'
  BY <1>1, CapacitySpent
<1>2. CASE ~\E p \in Permit, c \in Call, s \in {"reserved", "failed"} : Spends(p, c, s)
  <2>1. Thrifty
    BY <1>2, ThriftySteps DEF JournalStep
  <2>2. \A q \in Request : request[q] # Nil => request'[q] = request[q]
    <3>1. ASSUME NEW k \in Request, NEW W, NEW d, Ask(k, W, d), NEW q \in Request, request[q] # Nil
          PROVE  request'[q] = request[q]
      <4>1. request[k] = Nil
        BY <3>1 DEF Ask, Asked
      <4> QED BY <3>1, <4>1 DEF Ask, JournalType
    <3>2. CASE UNCHANGED request
      BY <3>2
    <3>3. UNCHANGED request \/ \E k \in Request : \E W, d : Ask(k, W, d)
      BY <1>2 DEF JournalStep, Issue, Moves, Progress, Waits, Expire, Deny, Attempt,
                  Works, Close, Register, Grant, Revoke
    <3> QED BY <3>1, <3>2, <3>3
  <2> QED BY <2>1, <2>2, CapacityKept
<1> QED BY <1>1, <1>2

(* A work is done by one call at a time. *)
Single == \A w \in Review : \A p, q \in For(w) \cap InFlight : p = q

LEMMA SingleIs ==
    ASSUME Single
    PROVE  OneRunPerWork
<1>1. ASSUME NEW w \in Review
      PROVE  Cardinality(For(w) \cap InFlight) <= 1
  <2>1. CASE For(w) \cap InFlight = {}
    BY <2>1, FS_EmptySet
  <2>2. ASSUME NEW p \in For(w) \cap InFlight
        PROVE  Cardinality(For(w) \cap InFlight) = 1
    <3>1. For(w) \cap InFlight = {p}
      BY <2>2 DEF Single
    <3> QED BY <3>1, FS_Singleton
  <2> QED BY <2>1, <2>2
<1> QED BY <1>1 DEF OneRunPerWork

(* What a step adds to the permits in flight. *)
LEMMA InFlightNext ==
    ASSUME JournalType, JournalStep
    PROVE  /\ \A k \in Made : permit'[k] = permit[k]
           /\ \/ InFlight' \subseteq InFlight
              \/ \E p \in Permit, c \in Call : /\ Spends(p, c, "reserved")
                                               /\ InFlight' = InFlight \cup {p}
<1>1. ASSUME NEW p \in Permit, NEW i \in Item, NEW x \in Profile, NEW a \in Agent,
             NEW spawn \in BOOLEAN, Issue(p, i, x, a, spawn)
      PROVE  InFlight' \subseteq InFlight /\ \A k \in Made : permit'[k] = permit[k]
  <2>1. permit[p] = Nil /\ stage' = [stage EXCEPT ![p] = "prepared"]
        /\ \E r : permit' = [permit EXCEPT ![p] = r]
    BY <1>1 DEF Issue
  <2> QED BY <2>1 DEF InFlight, Made, JournalType
<1>2. ASSUME NEW p \in Permit, NEW c \in Call, NEW s \in {"reserved", "failed"}, Spends(p, c, s)
      PROVE  /\ \A k \in Made : permit'[k] = permit[k]
             /\ InFlight' \subseteq InFlight \/ (s = "reserved" /\ InFlight' = InFlight \cup {p})
  BY <1>2 DEF Spends, InFlight, JournalType
<1>3. ASSUME NEW p \in Permit, NEW s \in {"created", "notstarted", "passed", "failed"}, Moves(p, s)
      PROVE  InFlight' \subseteq InFlight /\ \A k \in Made : permit'[k] = permit[k]
  BY <1>3 DEF Moves, Progress, InFlight, JournalType
<1>4. CASE Waits \/ Works
  BY <1>4 DEF InFlight, Waits, Expire, Deny, Attempt, Works, Close, Register, Ask, Grant, Revoke
<1> QED BY <1>1, <1>2, <1>3, <1>4 DEF JournalStep

LEMMA SingleKept ==
    ASSUME JournalType, Asked, Single, JournalStep
    PROVE  Single'
<1>1. InFlight \subseteq Made /\ \A k \in Made : permit'[k] = permit[k]
  BY PermitType, InFlightNext
<1>2. ASSUME NEW w, NEW k \in InFlight, k \in For(w)' PROVE k \in For(w)
  BY <1>1, <1>2 DEF For
<1>3. CASE InFlight' \subseteq InFlight
  BY <1>2, <1>3 DEF Single
<1>4. ASSUME NEW p \in Permit, NEW c \in Call, Spends(p, c, "reserved"), InFlight' = InFlight \cup {p}
      PROVE  Single'
  <2>1. /\ p \in Made
        /\ Extended => Idle(permit[p].item)
        /\ permit[p].item \in Review => work[permit[p].item] = "open"
    BY <1>4, SpendFacts
  <2>2. permit[p].item \in Review => For(permit[p].item) \cap InFlight = {}
    <3>1. permit[p].item \in Review => work[permit[p].item] # Nil
      BY <2>1, NilAssumption DEF NilAssumption
    <3>2. permit[p].item \in Review => Extended
      BY <3>1 DEF Extended
    <3> QED BY <2>1, <3>2 DEF Idle
  <2>3. ASSUME NEW w \in Review, p \in For(w)' PROVE w = permit[p].item
    <3>1. permit'[p] = permit[p]
      BY <1>1, <2>1
    <3> QED BY <2>3, <3>1 DEF For
  <2>4. ASSUME NEW w \in Review, NEW k \in For(w)' \cap InFlight', NEW q \in For(w)' \cap InFlight'
        PROVE  k = q
    BY <1>2, <1>4, <2>2, <2>3, <2>4 DEF Single
  <2> QED BY <2>4 DEF Single
<1> QED BY <1>3, <1>4, InFlightNext

-------------------------------------------------------------------------------
(* The inductive invariant of the journal.                                 *)
JournalInv == /\ JournalType /\ Asked
              /\ WithinCapacity /\ RequiredFunded /\ Single

LEMMA JournalStarts == JournalInit => JournalInv
<1> SUFFICES ASSUME JournalInit PROVE JournalInv
  OBVIOUS
<1>1. JournalType /\ Made = {}
  BY DEF JournalInit, JournalType, Made
<1>2. Asked /\ Single
  BY <1>1 DEF JournalInit, Asked, Single, For
<1>3. ASSUME NEW f, NEW i PROVE UnitsSpent(f, i) = 0 /\ AttemptsSpent(f, i) = 0
  <2>1. Paying(f, i) = {} /\ PaidBy(f, i) \cap Reserved = {}
    BY <1>1 DEF Paying, PaidBy
  <2>2. \A v : Total({}, v) = 0
    BY FS_EmptySet DEF Total
  <2> QED BY <1>1, <2>1, <2>2, PayingFinite, FS_EmptySet
<1>4. \A q \in Request : request[q] = Nil
  BY DEF JournalInit
<1>5. Units \in Nat /\ Attempts \in Nat
  BY JournalFacts
<1>6. WithinCapacity
  BY <1>3, <1>4, <1>5 DEF WithinCapacity
<1>7. Untouched = Slot
  BY <1>1 DEF Untouched, JournalInit, For
<1>8. SumCost(Slot) \in Nat /\ Cardinality(Slot) \in Nat /\ SumCost(Slot) <= Units /\ Cardinality(Slot) <= Attempts
  BY JournalFacts, SumCostIs DEF JournalInit
<1>9. RequiredFunded
  BY <1>3, <1>5, <1>7, <1>8, UntouchedIs DEF RoomFor
<1> QED BY <1>1, <1>2, <1>6, <1>9 DEF JournalInv

LEMMA JournalKept ==
    ASSUME JournalInv, [JournalNext]_journal
    PROVE  JournalInv'
<1>1. CASE JournalNext
  <2>1. JournalStep
    BY <1>1, JournalSteps DEF JournalInv
  <2>2. JournalType'
    BY <2>1, JournalTypeKept DEF JournalInv
  <2> QED BY <2>1, <2>2, AskedKept, CapacityStep, RequiredKept, SingleKept DEF JournalInv
<1>2. CASE UNCHANGED journal
  <2>1. JournalType'
    BY <1>2 DEF journal, JournalInv, JournalType, Made
  <2>2. Asked' /\ Single'
    BY <1>2 DEF journal, JournalInv, Asked, Single, For, Made, InFlight
  <2>3. Thrifty
    BY <1>2, ThriftySteps DEF JournalInv
  <2>4. WithinCapacity'
    BY <1>2, <2>1, <2>3, CapacityKept DEF journal, JournalInv
  <2>5. Untouched' \subseteq Untouched
    BY <1>2 DEF journal, Untouched, For, Made, Reserved
  <2>6. RequiredFunded'
    BY <2>1, <2>3, <2>5, FundedKept DEF JournalInv
  <2> QED BY <2>1, <2>2, <2>4, <2>6 DEF JournalInv
<1> QED BY <1>1, <1>2

(* The invariant holds in every state, for any items, capacity, requests   *)
(* and calls.                                                              *)
THEOREM JournalInductive == JournalSpec => []JournalInv
BY JournalStarts, JournalKept, PTL DEF JournalSpec

(* Every variable of the journal has its type. *)
THEOREM JournalTypeCorrect == JournalSpec => []JournalType
<1>1. JournalInv => JournalType
  BY DEF JournalInv
<1> QED BY <1>1, JournalInductive, PTL

(* Calls in flight and charged stay within the capacity class and within   *)
(* what the user has granted (_account and decide under the lock).         *)
THEOREM CapacityNeverExceeded == JournalSpec => []WithinCapacity
<1>1. JournalInv => WithinCapacity
  BY DEF JournalInv
<1> QED BY <1>1, JournalInductive, PTL

(* The base always has room for the first run of each required slot and    *)
(* each required work it has funded (_required_remaining).                 *)
THEOREM RequiredAlwaysFunded == JournalSpec => []RequiredFunded
<1>1. JournalInv => RequiredFunded
  BY DEF JournalInv
<1> QED BY <1>1, JournalInductive, PTL

(* No registered work is done by two calls at a time (_check_funding).     *)
THEOREM WorksRunOnce == JournalSpec => []OneRunPerWork
<1>1. JournalInv => OneRunPerWork
  BY SingleIs DEF JournalInv
<1> QED BY <1>1, JournalInductive, PTL

(* A call starts on an allowance only while it is granted and the work is  *)
(* open (replay checks the funding of each reservation).                   *)
THEOREM StartsApproved == JournalSpec => ApprovedOnly
<1> DEFINE A == \A p \in Permit : p \in InFlight' \ InFlight /\ permit[p].funding # Base
                    => answer[permit[p].funding] = "granted" /\ work[permit[p].item] = "open"
<1>1. JournalInv /\ [JournalNext]_journal => [A]_journal
  <2> SUFFICES ASSUME JournalInv, JournalNext PROVE A
    BY DEF journal
  <2>1. JournalStep /\ JournalType /\ Asked
    BY JournalSteps DEF JournalInv
  <2>2. ASSUME NEW p \in Permit, NEW c \in Call, Spends(p, c, "reserved"), permit[p].funding # Base
        PROVE  answer[permit[p].funding] = "granted" /\ work[permit[p].item] = "open"
    BY <2>1, <2>2, SpendFacts
  <2> QED BY <2>1, <2>2, InFlightNext
<1> QED BY <1>1, JournalInductive, PTL DEF JournalSpec, ApprovedOnly
===============================================================================
