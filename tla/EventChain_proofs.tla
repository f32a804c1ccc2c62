-------------------------- MODULE EventChain_proofs ---------------------------
(***************************************************************************)
(* Proofs about EventChain, for any number of processes and events and     *)
(* any segment size.                                                       *)
(***************************************************************************)
EXTENDS EventChain, TLAPS

(* The lock is owned by the one process that is inside an operation. *)
LockInv == \A p \in Proc : pc[p] # "idle" <=> lock = p

(* What a process knows while it holds the lock is still true. *)
ViewOK(p) ==
    /\ pc[p] = "idle" => req[p] = Idle /\ view[p] = NoView
    /\ pc[p] = "truncate" => torn # None /\ torn \in corrupt
    /\ pc[p] \in {"rotate", "write", "return", "publish", "copy"} => torn = None
    /\ pc[p] \in {"rotate", "write", "return"} => req[p] \in AppendRequest
    /\ pc[p] \in {"rotate", "write", "publish"} => view[p].log = log
    /\ pc[p] = "rotate" => Len(log) > LastEnd
    /\ pc[p] = "publish" => view[p].seals = seals /\ ~SealedCurrent(seals, log)

ViewInv == \A p \in Proc : ViewOK(p)

(* Closed segments are not empty and lie inside the log. *)
EndsInv ==
    /\ \A x \in DOMAIN ends : ends[x] \in 1 .. Len(log)
    /\ \A x, y \in DOMAIN ends : x < y => ends[x] < ends[y]

(* Why the id a process is about to write is new: a lifecycle event's id   *)
(* was drawn for this request alone, a terminal event's was looked up.     *)
IdOK(p) ==
    /\ req[p].ev \in LifecycleEvent => req[p].ev \in drawn
    /\ pc[p] \in {"read", "truncate", "rotate", "write"} /\ req[p].ev \in LifecycleEvent
          => \A i \in DOMAIN log : log[i].ev # req[p].ev
    /\ pc[p] \in {"rotate", "write"} => \A i \in DOMAIN log : log[i].ev.id # req[p].ev.id

IdInv ==
    /\ UniqueIds
    /\ \A i \in DOMAIN log : log[i].ev \in LifecycleEvent => log[i].ev \in drawn
    /\ \A p \in Proc : IdOK(p)

(* An append about to return has its event in the log. *)
AckInv ==
    /\ AckedCommitted
    /\ \A p \in Proc : pc[p] = "return" => \E i \in DOMAIN log : log[i].ev = req[p].ev

IInv ==
    /\ TypeOK /\ LockInv /\ ViewInv /\ EndsInv
    /\ ChainLinked /\ IdInv /\ SealsAnchored /\ AckInv

-------------------------------------------------------------------------------
LEMMA HeadAtType ==
    ASSUME NEW l \in Seq(Record(Event)), NEW n \in 0 .. Len(l)
    PROVE  HeadAt(l, n) \in Seq(Event)
<1>1. ASSUME NEW i \in 1 .. n
      PROVE  l[i].ev \in Event
  <2>1. l[i] \in Record(Event)
    OBVIOUS
  <2> QED
    BY <2>1 DEF Record
<1>2. HeadAt(l, n) \in [1 .. n -> Event]
  BY <1>1 DEF HeadAt
<1> QED
  BY <1>2

LEMMA HeadAtAppend ==
    ASSUME NEW l \in Seq(Record(Event)), NEW r \in Record(Event), NEW n \in 0 .. Len(l)
    PROVE  HeadAt(Append(l, r), n) = HeadAt(l, n)
BY DEF HeadAt

LEMMA LinkedAppend ==
    ASSUME NEW l \in Seq(Record(Event)), Linked(l), NEW e \in Event
    PROVE  Linked(Append(l, [ev |-> e, prev |-> HeadAt(l, Len(l))]))
<1> DEFINE r == [ev |-> e, prev |-> HeadAt(l, Len(l))]
           m == Append(l, r)
<1>1. r \in Record(Event)
  <2>1. HeadAt(l, Len(l)) \in Seq(Event)
    BY HeadAtType
  <2> QED
    BY <2>1 DEF Record
<1>2. ASSUME NEW i \in DOMAIN m
      PROVE  m[i].prev = HeadAt(m, i - 1)
  <2>1. HeadAt(m, i - 1) = HeadAt(l, i - 1)
    BY <1>1, HeadAtAppend
  <2>2. CASE i \in DOMAIN l
    BY <2>1, <2>2 DEF Linked
  <2>3. CASE i = Len(l) + 1
    BY <2>1, <2>3, <1>1
  <2> QED
    BY <2>2, <2>3
<1> QED
  BY <1>2 DEF Linked

-------------------------------------------------------------------------------
LEMMA InitInv == Init => IInv
<1> SUFFICES ASSUME Init PROVE IInv
  OBVIOUS
<1>1. TypeOK
  BY DEF Init, TypeOK, NoView, Idle
<1>2. LockInv /\ ViewInv /\ EndsInv
  BY IdsAssumption DEF Init, LockInv, ViewInv, ViewOK, EndsInv
<1>3. ChainLinked /\ SealsAnchored
  BY DEF Init, ChainLinked, Linked, SealsAnchored, SealsMatch
<1>4. IdInv /\ AckInv
  BY IdsAssumption DEF Init, IdInv, IdOK, UniqueIds, AckInv, AckedCommitted, Event, Idle
<1> QED
  BY <1>1, <1>2, <1>3, <1>4 DEF IInv

-------------------------------------------------------------------------------
(* The part of TypeOK that concerns the processes. *)
ProcTypeOK ==
    /\ lock \in Proc \cup {None}
    /\ pc \in [Proc -> {"idle", "read", "truncate", "rotate", "write", "return",
                        "publish", "archive", "copy"}]
    /\ req \in [Proc -> Request \cup {Idle}]
    /\ view \in [Proc -> [log : Seq(Record(Event)),
                          seals : Seq(SealRecord),
                          added : SUBSET Nat]]

LEMMA ReleaseType ==
    ASSUME ProcTypeOK, NEW p \in Proc, Release(p)
    PROVE  ProcTypeOK'
<1>1. NoView \in [log : Seq(Record(Event)), seals : Seq(SealRecord),
                  added : SUBSET Nat]
  BY DEF NoView
<1> QED
  BY <1>1 DEF ProcTypeOK, Release, Goto

LEMMA AppendRequestType ==
    ASSUME NEW r \in AppendRequest
    PROVE  r.ev \in Event /\ r.kind = "append"
BY DEF AppendRequest, Event

LEMMA RequestType ==
    ASSUME NEW r \in Request \cup {Idle}, r.kind = "append"
    PROVE  r \in AppendRequest
BY DEF Request, SealRequest, ArchiveRequest, Idle

LEMMA TypeStep ==
    ASSUME TypeOK, ViewInv, EndsInv, [Next]_vars
    PROVE  TypeOK'
<1>p. ProcTypeOK
  BY DEF ProcTypeOK, TypeOK
<1>1. ASSUME NEW p \in Proc, NEW r \in Request, Acquire(p, r)
      PROVE  TypeOK'
  BY <1>1, <1>p DEF Acquire, Goto, disk, TypeOK, ProcTypeOK
<1>2. ASSUME NEW p \in Proc, SaveTail(p)
      PROVE  TypeOK'
  BY <1>2, <1>p DEF SaveTail, Goto, TypeOK
<1>3. ASSUME NEW p \in Proc, TruncateTail(p)
      PROVE  TypeOK'
  BY <1>3, <1>p DEF TruncateTail, Goto, TypeOK
<1>4. ASSUME NEW p \in Proc, AppendDuplicate(p)
      PROVE  TypeOK'
  <2>1. req[p].ev \in Event
    BY <1>4, RequestType, AppendRequestType DEF AppendDuplicate, TypeOK
  <2>2. ProcTypeOK'
    BY <1>4, <1>p, ReleaseType DEF AppendDuplicate
  <2> QED
    BY <1>4, <2>1, <2>2 DEF AppendDuplicate, disk, TypeOK, ProcTypeOK
<1>5. ASSUME NEW p \in Proc, AppendRead(p)
      PROVE  TypeOK'
  BY <1>5, <1>p DEF AppendRead, Goto, disk, TypeOK
<1>6. ASSUME NEW p \in Proc, Rotate(p)
      PROVE  TypeOK'
  <2>1. ends' \in Seq(Nat)
    BY <1>6 DEF Rotate, TypeOK
  <2> QED
    BY <1>6, <2>1 DEF Rotate, Goto, TypeOK
<1>7. ASSUME NEW p \in Proc, Write(p)
      PROVE  TypeOK'
  <2> DEFINE r == [ev |-> req[p].ev, prev |-> HeadAt(view[p].log, Len(view[p].log))]
  <2>1. req[p].ev \in Event
    BY <1>7, AppendRequestType DEF Write, ViewInv, ViewOK
  <2>2. HeadAt(log, Len(log)) \in Seq(Event)
    BY HeadAtType DEF TypeOK
  <2>3. r \in Record(Event)
    BY <1>7, <2>1, <2>2 DEF Write, ViewInv, ViewOK, Record
  <2>4. log' = Append(log, r)
    BY <1>7 DEF Write
  <2>5. log' \in Seq(Record(Event))
    BY <2>3, <2>4 DEF TypeOK
  <2> QED
    BY <1>7, <2>5 DEF Write, Goto, TypeOK
<1>8. ASSUME NEW p \in Proc, WriteTorn(p)
      PROVE  TypeOK'
  <2>1. req[p].ev \in Event
    BY <1>8, AppendRequestType DEF WriteTorn, ViewInv, ViewOK
  <2>2. ProcTypeOK'
    BY <1>8, <1>p, ReleaseType DEF WriteTorn
  <2> QED
    BY <1>8, <2>1, <2>2 DEF WriteTorn, TypeOK, ProcTypeOK
<1>9. ASSUME NEW p \in Proc, Return(p)
      PROVE  TypeOK'
  <2>1. req[p].ev \in Event
    BY <1>9, AppendRequestType DEF Return, ViewInv, ViewOK
  <2>2. ProcTypeOK'
    BY <1>9, <1>p, ReleaseType DEF Return
  <2> QED
    BY <1>9, <2>1, <2>2 DEF Return, disk, TypeOK, ProcTypeOK
<1>10. ASSUME NEW p \in Proc, SealNothing(p) \/ ArchiveRefuse(p) \/ ArchiveNothing(p) \/ Die(p)
       PROVE  TypeOK'
  <2>1. Release(p) /\ UNCHANGED <<disk, drawn, acked>>
    BY <1>10 DEF SealNothing, ArchiveRefuse, ArchiveNothing, Die
  <2>2. ProcTypeOK'
    BY <2>1, <1>p, ReleaseType
  <2> QED
    BY <2>1, <2>2 DEF disk, TypeOK, ProcTypeOK
<1>11. ASSUME NEW p \in Proc, SealRead(p)
       PROVE  TypeOK'
  <2>1. view' \in [Proc -> [log : Seq(Record(Event)),
                            seals : Seq(SealRecord),
                            added : SUBSET Nat]]
    BY <1>11 DEF SealRead, TypeOK
  <2> QED
    BY <1>11, <2>1 DEF SealRead, Goto, disk, TypeOK
<1>12. ASSUME NEW p \in Proc, SealPublish(p)
       PROVE  TypeOK'
  <2> DEFINE x == [count |-> Len(view[p].log), head |-> HeadAt(view[p].log, Len(view[p].log))]
  <2>1. view[p].log = log /\ view[p].seals = seals
    BY <1>12 DEF SealPublish, ViewInv, ViewOK
  <2>2. HeadAt(log, Len(log)) \in Seq(Event) /\ Len(log) \in Nat
    BY HeadAtType DEF TypeOK
  <2>3. x \in SealRecord
    BY <2>1, <2>2 DEF SealRecord
  <2>4. seals' = Append(seals, x)
    BY <1>12, <2>1 DEF SealPublish
  <2>5. seals' \in Seq(SealRecord)
    BY <2>3, <2>4 DEF TypeOK
  <2>6. ProcTypeOK'
    BY <1>12, <1>p, ReleaseType DEF SealPublish
  <2> QED
    BY <1>12, <2>5, <2>6 DEF SealPublish, TypeOK, ProcTypeOK
<1>13. ASSUME NEW p \in Proc, ArchiveRead(p)
       PROVE  TypeOK'
  BY <1>13 DEF ArchiveRead, Goto, disk, TypeOK
<1>14. ASSUME NEW p \in Proc, ArchiveCopy(p)
       PROVE  TypeOK'
  <2>1. PICK s \in ToArchive(p) :
           /\ copies' = [x \in DOMAIN copies \cup {s} |->
                           IF x \in DOMAIN copies THEN copies[x] ELSE SegmentEvents(x)]
           /\ view' = [view EXCEPT ![p].added = @ \cup {s}]
    BY <1>14 DEF ArchiveCopy
  <2>2. s \in Nat
    BY DEF ToArchive, TypeOK
  <2>3. DOMAIN copies' \subseteq Nat
    BY <2>1, <2>2 DEF TypeOK
  <2>4. view' \in [Proc -> [log : Seq(Record(Event)),
                            seals : Seq(SealRecord),
                            added : SUBSET Nat]]
    BY <2>1, <2>2 DEF TypeOK
  <2> QED
    BY <1>14, <2>3, <2>4 DEF ArchiveCopy, TypeOK
<1>15. ASSUME NEW p \in Proc, ArchivePublish(p)
       PROVE  TypeOK'
  <2> DEFINE x == [segments |-> view[p].added, head |-> HeadAt(log, LastEnd)]
  <2>1. LastEnd \in 0 .. Len(log)
    BY DEF LastEnd, EndsInv, TypeOK
  <2>2. HeadAt(log, LastEnd) \in Seq(Event)
    BY <2>1, HeadAtType DEF TypeOK
  <2>3. x \in [segments : SUBSET Nat, head : Seq(Event)]
    BY <2>2 DEF TypeOK
  <2>4. manifests' \in Seq([segments : SUBSET Nat, head : Seq(Event)])
    BY <1>15, <2>3 DEF ArchivePublish, TypeOK
  <2>5. ProcTypeOK'
    BY <1>15, <1>p, ReleaseType DEF ArchivePublish
  <2> QED
    BY <1>15, <2>4, <2>5 DEF ArchivePublish, TypeOK, ProcTypeOK
<1>16. CASE UNCHANGED vars
  BY <1>16 DEF vars, disk, TypeOK
<1> QED
  BY <1>1, <1>2, <1>3, <1>4, <1>5, <1>6, <1>7, <1>8, <1>9, <1>10, <1>11, <1>12, <1>13,
     <1>14, <1>15, <1>16 DEF Next, Step

(* Which actions change which file. *)
LEMMA FileChanges ==
    ASSUME [Next]_vars
    PROVE  /\ log' = log \/ \E p \in Proc : Write(p)
           /\ ends' = ends \/ \E p \in Proc : Rotate(p)
           /\ seals' = seals \/ \E p \in Proc : SealPublish(p)
           /\ manifests' = manifests \/ \E p \in Proc : ArchivePublish(p)
           /\ acked' = acked \/ \E p \in Proc : AppendDuplicate(p) \/ Return(p)
BY DEF Next, Step, vars, disk, Acquire, SaveTail, TruncateTail, AppendDuplicate, AppendRead,
       Rotate, Write, WriteTorn, Return, SealNothing, SealRead, SealPublish, ArchiveRefuse,
       ArchiveRead, ArchiveCopy, ArchiveNothing, ArchivePublish, Die

(* Every step is taken by a process that gets or has the lock. *)
LEMMA LockStep ==
    ASSUME TypeOK, LockInv, [Next]_vars
    PROVE  LockInv'
<1>n. None \notin Proc
  BY IdsAssumption
<1>1. ASSUME NEW p \in Proc, NEW r \in Request, Acquire(p, r)
      PROVE  LockInv'
  BY <1>1, <1>n DEF Acquire, Goto, TypeOK, LockInv
<1>2. ASSUME NEW p \in Proc, Release(p), pc[p] # "idle"
      PROVE  LockInv'
  BY <1>2, <1>n DEF Release, Goto, TypeOK, LockInv
<1>3. ASSUME NEW p \in Proc, pc[p] # "idle", lock' = lock,
             pc' = pc \/ \E l \in {"read", "truncate", "rotate", "write", "return", "publish", "copy"} :
                              Goto(p, l)
      PROVE  LockInv'
  BY <1>3 DEF Goto, TypeOK, LockInv
<1>4. ASSUME NEW p \in Proc, Step(p) \/ Die(p)
      PROVE  LockInv'
  BY <1>2, <1>3, <1>4
     DEF Step, disk, SaveTail, TruncateTail, AppendDuplicate, AppendRead,
         Rotate, Write, WriteTorn, Return, SealNothing, SealRead, SealPublish, ArchiveRefuse,
         ArchiveRead, ArchiveCopy, ArchiveNothing, ArchivePublish, Die
<1>5. CASE UNCHANGED vars
  BY <1>5 DEF vars, LockInv
<1> QED
  BY <1>1, <1>4, <1>5 DEF Next

(* A step of one process leaves what the others remember alone. *)
LEMMA OthersUnchanged ==
    ASSUME TypeOK, LockInv, NEW p \in Proc, NEW q \in Proc, q # p,
           Step(p) \/ Die(p) \/ \E r \in Request : Acquire(p, r)
    PROVE  pc[q] = "idle" /\ pc'[q] = pc[q] /\ req'[q] = req[q] /\ view'[q] = view[q]
<1>1. pc[q] = "idle"
  BY IdsAssumption
     DEF LockInv, Acquire, Step, SaveTail, TruncateTail, AppendDuplicate, AppendRead,
         Rotate, Write, WriteTorn, Return, SealNothing, SealRead, SealPublish, ArchiveRefuse,
         ArchiveRead, ArchiveCopy, ArchiveNothing, ArchivePublish, Die
<1>2. pc'[q] = pc[q] /\ req'[q] = req[q] /\ view'[q] = view[q]
  BY DEF TypeOK, Acquire, Goto, Release, Step, SaveTail, TruncateTail, AppendDuplicate, AppendRead,
         Rotate, Write, WriteTorn, Return, SealNothing, SealRead, SealPublish, ArchiveRefuse,
         ArchiveRead, ArchiveCopy, ArchiveNothing, ArchivePublish, Die
<1> QED
  BY <1>1, <1>2

LEMMA ReleaseView ==
    ASSUME TypeOK, NEW p \in Proc, Release(p)
    PROVE  ViewOK(p)'
BY DEF TypeOK, Release, Goto, ViewOK

LEMMA ViewStep ==
    ASSUME TypeOK, LockInv, ViewInv, EndsInv, [Next]_vars
    PROVE  ViewInv'
<1>1. ASSUME NEW p \in Proc, NEW r \in Request, Acquire(p, r)
      PROVE  ViewOK(p)'
  BY <1>1 DEF Acquire, Goto, TypeOK, ViewOK
<1>2. ASSUME NEW p \in Proc, Step(p) \/ Die(p), Release(p)
      PROVE  ViewOK(p)'
  BY <1>2, ReleaseView
<1>3. ASSUME NEW p \in Proc, SaveTail(p) \/ TruncateTail(p) \/ ArchiveRead(p)
      PROVE  ViewOK(p)'
  BY <1>3 DEF SaveTail, TruncateTail, ArchiveRead, Goto, disk, TypeOK, ViewOK
<1>4. ASSUME NEW p \in Proc, AppendRead(p)
      PROVE  ViewOK(p)'
  <2>1. req[p] \in AppendRequest
    BY <1>4, RequestType DEF AppendRead, TypeOK
  <2>2. LastEnd \in Nat /\ Len(log) \in Nat /\ SegmentRecords \in Nat \ {0}
    BY SegmentAssumption DEF LastEnd, TypeOK
  <2>3. pc'[p] \in {"rotate", "write"} /\ (pc'[p] = "rotate" => Len(log) > LastEnd)
    BY <1>4, <2>2 DEF AppendRead, Goto, TypeOK
  <2>4. /\ torn' = None /\ req' = req /\ log' = log /\ LastEnd' = LastEnd
        /\ view'[p].log = log
    BY <1>4 DEF AppendRead, disk, TypeOK, LastEnd
  <2> QED
    BY <2>1, <2>3, <2>4 DEF ViewOK
<1>5. ASSUME NEW p \in Proc, Rotate(p)
      PROVE  ViewOK(p)'
  BY <1>5 DEF Rotate, Goto, TypeOK, ViewInv, ViewOK
<1>6. ASSUME NEW p \in Proc, Write(p)
      PROVE  ViewOK(p)'
  BY <1>6 DEF Write, Goto, TypeOK, ViewInv, ViewOK
<1>7. ASSUME NEW p \in Proc, SealRead(p)
      PROVE  ViewOK(p)'
  <2>1. view'[p].log = log /\ view'[p].seals = seals /\ pc'[p] = "publish"
    BY <1>7 DEF SealRead, Goto, TypeOK
  <2> QED
    BY <1>7, <2>1 DEF SealRead, disk, SealedCurrent, ViewOK
<1>8. ASSUME NEW p \in Proc, ArchiveCopy(p)
      PROVE  ViewOK(p)'
  BY <1>8 DEF ArchiveCopy, ViewInv, ViewOK
<1>9. CASE UNCHANGED vars
  BY <1>9 DEF vars, disk, ViewInv, ViewOK, SealedCurrent, LastEnd
<1>10. ASSUME NEW p \in Proc, Step(p) \/ Die(p) \/ \E r \in Request : Acquire(p, r)
       PROVE  ViewOK(p)'
  BY <1>1, <1>2, <1>3, <1>4, <1>5, <1>6, <1>7, <1>8, <1>10
     DEF Step, AppendDuplicate, WriteTorn, Return, SealNothing, SealPublish, ArchiveRefuse,
         ArchiveNothing, ArchivePublish, Die
<1>11. ASSUME NEW p \in Proc, Step(p) \/ Die(p) \/ \E r \in Request : Acquire(p, r)
       PROVE  ViewInv'
  <2>1. ASSUME NEW q \in Proc, q # p
        PROVE  ViewOK(q)'
    <3>1. pc[q] = "idle" /\ pc'[q] = pc[q] /\ req'[q] = req[q] /\ view'[q] = view[q]
      BY <1>11, <2>1, OthersUnchanged
    <3> QED
      BY <3>1 DEF ViewInv, ViewOK
  <2> QED
    BY <1>10, <1>11, <2>1 DEF ViewInv, ViewOK
<1> QED
  BY <1>9, <1>11 DEF Next

LEMMA IncreasingAppend ==
    ASSUME NEW t \in Seq(Nat), NEW n \in Nat, n > 0,
           t # <<>> => t[Len(t)] < n,
           \A x \in DOMAIN t : t[x] \in 1 .. n,
           \A x, y \in DOMAIN t : x < y => t[x] < t[y]
    PROVE  /\ \A x \in DOMAIN Append(t, n) : Append(t, n)[x] \in 1 .. n
           /\ \A x, y \in DOMAIN Append(t, n) : x < y => Append(t, n)[x] < Append(t, n)[y]
<1> DEFINE u == Append(t, n)
           k == Len(t)
<1>1. /\ k \in Nat /\ DOMAIN t = 1 .. k /\ DOMAIN u = 1 .. (k + 1)
      /\ u[k + 1] = n /\ \A x \in 1 .. k : u[x] = t[x] /\ t[x] \in Nat
  OBVIOUS
<1>2. ASSUME NEW x \in DOMAIN u
      PROVE  u[x] \in 1 .. n
  BY <1>1
<1>3. ASSUME NEW x \in 1 .. k
      PROVE  t[x] < n
  <2>1. k \in 1 .. k /\ k \in DOMAIN t /\ x \in DOMAIN t /\ t # <<>>
    BY <1>1
  <2>2. t[k] < n /\ t[k] \in Nat /\ t[x] \in Nat
    BY <1>1, <2>1
  <2>3. x \in Nat /\ k \in Nat /\ x <= k
    BY <1>1
  <2>4. CASE x = k
    BY <2>2, <2>4
  <2>5. CASE x # k
    <3>1. x < k
      BY <2>3, <2>5
    <3>2. t[x] < t[k]
      BY <2>1, <3>1
    <3> QED
      BY <2>2, <3>2
  <2> QED
    BY <2>4, <2>5
<1>4. ASSUME NEW x \in DOMAIN u, NEW y \in DOMAIN u, x < y
      PROVE  u[x] < u[y]
  <2>1. x \in 1 .. k /\ (y \in 1 .. k \/ y = k + 1)
    BY <1>1, <1>4
  <2> QED
    BY <1>1, <1>3, <1>4, <2>1
<1> QED
  BY <1>2, <1>4

LEMMA EndsStep ==
    ASSUME TypeOK, TypeOK', ViewInv, EndsInv, [Next]_vars
    PROVE  EndsInv'
<1>1. ASSUME NEW p \in Proc, Write(p)
      PROVE  EndsInv'
  <2>1. Len(log') = Len(log) + 1 /\ ends' = ends
    BY <1>1 DEF Write, TypeOK
  <2> QED
    BY <2>1 DEF EndsInv, TypeOK
<1>2. ASSUME NEW p \in Proc, Rotate(p)
      PROVE  EndsInv'
  <2>1. ends' = Append(ends, Len(log)) /\ log' = log /\ Len(log) > LastEnd
    BY <1>2 DEF Rotate, ViewInv, ViewOK
  <2>2. ends \in Seq(Nat) /\ log \in Seq(Record(Event))
    BY DEF TypeOK
  <2>3. Len(log) \in Nat
    BY <2>2
  <2>4. Len(log) > 0 /\ (ends # <<>> => ends[Len(ends)] < Len(log))
    BY <2>1, <2>2, <2>3 DEF LastEnd
  <2> QED
    BY <2>1, <2>2, <2>3, <2>4, IncreasingAppend DEF EndsInv
<1>3. CASE log' = log /\ ends' = ends
  BY <1>3 DEF EndsInv
<1> QED
  BY <1>1, <1>2, <1>3, FileChanges DEF Write, Rotate

LEMMA ChainStep ==
    ASSUME TypeOK, ViewInv, ChainLinked, [Next]_vars
    PROVE  ChainLinked'
<1>1. ASSUME NEW p \in Proc, Write(p)
      PROVE  ChainLinked'
  <2>1. req[p].ev \in Event /\ view[p].log = log
    BY <1>1, AppendRequestType DEF Write, ViewInv, ViewOK
  <2>2. log' = Append(log, [ev |-> req[p].ev, prev |-> HeadAt(log, Len(log))])
    BY <1>1, <2>1 DEF Write
  <2> QED
    BY <2>1, <2>2, LinkedAppend DEF ChainLinked, TypeOK
<1>2. CASE log' = log
  BY <1>2 DEF ChainLinked
<1> QED
  BY <1>1, <1>2, FileChanges

LEMMA IdStep ==
    ASSUME TypeOK, LockInv, ViewInv, IdInv, [Next]_vars
    PROVE  IdInv'
<1>n. \A r \in Request \cup {Idle} : r.kind # "append" => r.ev = None
  BY DEF Request, AppendRequest, SealRequest, ArchiveRequest, Idle
<1>1. ASSUME NEW p \in Proc, NEW r \in Request, Acquire(p, r)
      PROVE  IdInv'
  <2>1. /\ log' = log /\ drawn \subseteq drawn' /\ req'[p] = r
        /\ pc'[p] \notin {"rotate", "write"}
        /\ r.ev \in LifecycleEvent => r.ev \in drawn' /\ r.ev \notin drawn
    BY <1>1 DEF Acquire, disk, Goto, TypeOK
  <2>2. IdOK(p)'
    BY <2>1 DEF IdInv, IdOK
  <2>3. ASSUME NEW q \in Proc, q # p
        PROVE  IdOK(q)'
    <3>1. pc'[q] = pc[q] /\ req'[q] = req[q]
      BY <1>1, <2>3, OthersUnchanged
    <3> QED
      BY <2>1, <3>1 DEF IdInv, IdOK
  <2> QED
    BY <2>1, <2>2, <2>3 DEF IdInv, UniqueIds
<1>2. ASSUME NEW p \in Proc, Write(p)
      PROVE  IdInv'
  <2> DEFINE x == [ev |-> req[p].ev, prev |-> HeadAt(view[p].log, Len(view[p].log))]
  <2>1. log' = Append(log, x) /\ drawn' = drawn /\ pc[p] = "write" /\ log \in Seq(Record(Event))
    BY <1>2 DEF Write, TypeOK
  <2>2. /\ DOMAIN log' = DOMAIN log \cup {Len(log) + 1} /\ Len(log) + 1 \notin DOMAIN log
        /\ log'[Len(log) + 1].ev = req[p].ev
        /\ \A i \in DOMAIN log : log'[i] = log[i]
    BY <2>1
  <2>3. UniqueIds'
    BY <2>1, <2>2 DEF IdInv, IdOK, UniqueIds
  <2>4. (\A i \in DOMAIN log : log[i].ev \in LifecycleEvent => log[i].ev \in drawn)'
    BY <2>1, <2>2 DEF IdInv, IdOK
  <2>5. IdOK(p)'
    BY <1>2, <2>1 DEF Write, Goto, TypeOK, IdInv, IdOK
  <2>6. ASSUME NEW q \in Proc, q # p
        PROVE  IdOK(q)'
    <3>1. pc'[q] = "idle" /\ req'[q] = req[q]
      BY <1>2, <2>6, OthersUnchanged DEF Step
    <3> QED
      BY <2>1, <3>1 DEF IdInv, IdOK
  <2> QED
    BY <2>3, <2>4, <2>5, <2>6 DEF IdInv
<1>3. ASSUME NEW p \in Proc, log' = log, drawn' = drawn, IdOK(p)', Step(p) \/ Die(p)
      PROVE  IdInv'
  <2>1. ASSUME NEW q \in Proc, q # p
        PROVE  IdOK(q)'
    <3>1. pc'[q] = pc[q] /\ req'[q] = req[q]
      BY <1>3, <2>1, OthersUnchanged
    <3> QED
      BY <1>3, <3>1 DEF IdInv, IdOK
  <2> QED
    BY <1>3, <2>1 DEF IdInv, UniqueIds
<1>4. ASSUME NEW p \in Proc, AppendRead(p)
      PROVE  log' = log /\ drawn' = drawn /\ IdOK(p)'
  <2>1. req[p] \in AppendRequest
    BY <1>4, RequestType DEF AppendRead, TypeOK
  <2>2. ASSUME NEW i \in DOMAIN log
        PROVE  log[i].ev.id # req[p].ev.id
    <3>1. CASE req[p].ev \in LifecycleEvent
      <4>1. log[i].ev # req[p].ev
        BY <1>4, <3>1 DEF AppendRead, IdInv, IdOK
      <4>2. log[i] \in Record(Event)
        BY DEF TypeOK
      <4>3. log[i].ev \in Event
        BY <4>2 DEF Record
      <4> QED
        BY <3>1, <4>1, <4>3, IdsAssumption
    <3>2. CASE req[p].dedupe \in {"id", "identity"}
      BY <1>4, <3>2 DEF AppendRead, SameEvent
    <3> QED
      BY <2>1, <3>1, <3>2 DEF AppendRequest
  <2>3. log' = log /\ drawn' = drawn /\ req' = req /\ pc[p] = "read"
    BY <1>4 DEF AppendRead, disk
  <2> QED
    BY <2>2, <2>3 DEF IdInv, IdOK
<1>5. ASSUME NEW p \in Proc, Release(p), drawn' = drawn, log' = log
      PROVE  IdOK(p)'
  BY <1>5, IdsAssumption DEF Release, Goto, TypeOK, IdOK, Idle, Event
<1>6. ASSUME NEW p \in Proc,
             SaveTail(p) \/ TruncateTail(p) \/ Rotate(p) \/ SealRead(p) \/ ArchiveRead(p) \/ ArchiveCopy(p)
      PROVE  log' = log /\ drawn' = drawn /\ IdOK(p)'
  BY <1>6 DEF SaveTail, TruncateTail, Rotate, SealRead, ArchiveRead, ArchiveCopy, disk, Goto,
              TypeOK, IdInv, IdOK
<1>7. ASSUME NEW p \in Proc, Step(p) \/ Die(p)
      PROVE  IdInv'
  <2>1. CASE Write(p)
    BY <1>2, <2>1
  <2>2. CASE AppendRead(p)
    BY <1>3, <1>4, <1>7, <2>2
  <2>3. CASE SaveTail(p) \/ TruncateTail(p) \/ Rotate(p) \/ SealRead(p) \/ ArchiveRead(p) \/ ArchiveCopy(p)
    BY <1>3, <1>6, <1>7, <2>3
  <2>4. CASE Release(p) /\ drawn' = drawn /\ log' = log
    BY <1>3, <1>5, <1>7, <2>4
  <2> QED
    BY <1>7, <2>1, <2>2, <2>3, <2>4
       DEF Step, disk, AppendDuplicate, WriteTorn, Return, SealNothing, SealPublish,
           ArchiveRefuse, ArchiveNothing, ArchivePublish, Die
<1>8. CASE UNCHANGED vars
  BY <1>8 DEF vars, disk, IdInv, IdOK, UniqueIds
<1> QED
  BY <1>1, <1>7, <1>8 DEF Next

LEMMA SealStep ==
    ASSUME TypeOK, ViewInv, SealsAnchored, [Next]_vars
    PROVE  SealsAnchored'
<1>t. log \in Seq(Record(Event)) /\ seals \in Seq(SealRecord)
  BY DEF TypeOK
<1>1. ASSUME NEW p \in Proc, Write(p)
      PROVE  SealsAnchored'
  <2> DEFINE x == [ev |-> req[p].ev, prev |-> HeadAt(log, Len(log))]
  <2>1. log' = Append(log, x) /\ seals' = seals
    BY <1>1 DEF Write, ViewInv, ViewOK
  <2>2. x \in Record(Event)
    <3>1. req[p].ev \in Event
      BY <1>1, AppendRequestType DEF Write, ViewInv, ViewOK
    <3>2. HeadAt(log, Len(log)) \in Seq(Event)
      BY <1>t, HeadAtType
    <3> QED
      BY <3>1, <3>2 DEF Record
  <2>3. Len(log') = Len(log) + 1
    BY <1>t, <2>1
  <2>4. ASSUME NEW i \in DOMAIN seals
        PROVE  seals[i].count <= Len(log') /\ seals[i].head = HeadAt(log', seals[i].count)
    <3>1. /\ seals[i].count \in Nat /\ seals[i].count <= Len(log)
          /\ seals[i].head = HeadAt(log, seals[i].count)
      <4>1. seals[i] \in SealRecord
        BY <1>t
      <4> QED
        BY <4>1 DEF SealsAnchored, SealsMatch, SealRecord
    <3>2. HeadAt(log', seals[i].count) = HeadAt(log, seals[i].count)
      BY <1>t, <2>1, <2>2, <3>1, HeadAtAppend
    <3> QED
      BY <1>t, <2>3, <3>1, <3>2
  <2> QED
    BY <2>1, <2>4 DEF SealsAnchored, SealsMatch
<1>2. ASSUME NEW p \in Proc, SealPublish(p)
      PROVE  SealsAnchored'
  <2> DEFINE x == [count |-> Len(log), head |-> HeadAt(log, Len(log))]
             k == Len(seals)
  <2>1. seals' = Append(seals, x) /\ log' = log /\ ~SealedCurrent(seals, log)
    BY <1>2 DEF SealPublish, ViewInv, ViewOK
  <2>2. /\ k \in Nat /\ DOMAIN seals = 1 .. k /\ DOMAIN seals' = 1 .. (k + 1)
        /\ seals'[k + 1] = x /\ \A i \in 1 .. k : seals'[i] = seals[i]
    BY <1>t, <2>1
  <2>3. ASSUME NEW i \in 1 .. k
        PROVE  seals[i].count < Len(log)
    <3>1. k \in DOMAIN seals /\ i \in DOMAIN seals /\ seals # <<>> /\ i <= k
      BY <1>t, <2>2
    <3>2. seals[k].count \in Nat /\ seals[i].count \in Nat /\ Len(log) \in Nat
      <4>1. seals[k] \in SealRecord /\ seals[i] \in SealRecord
        BY <1>t, <3>1
      <4> QED
        BY <1>t, <4>1 DEF SealRecord
    <3>3. seals[k].count < Len(log)
      BY <2>1, <3>1, <3>2 DEF SealedCurrent, SealsAnchored, SealsMatch
    <3>4. i = k \/ seals[i].count < seals[k].count
      BY <2>2, <3>1 DEF SealsAnchored
    <3> QED
      BY <3>2, <3>3, <3>4
  <2>4. SealsMatch(seals', log')
    BY <1>t, <2>1, <2>2 DEF SealsMatch, SealsAnchored
  <2>5. ASSUME NEW i \in DOMAIN seals', NEW j \in DOMAIN seals', i < j
        PROVE  seals'[i].count < seals'[j].count
    <3>1. i \in 1 .. k /\ (j \in 1 .. k \/ j = k + 1)
      BY <2>2, <2>5
    <3> QED
      BY <2>2, <2>3, <2>5, <3>1 DEF SealsAnchored
  <2> QED
    BY <2>4, <2>5 DEF SealsAnchored
<1>3. CASE log' = log /\ seals' = seals
  BY <1>3 DEF SealsAnchored, SealsMatch
<1> QED
  BY <1>1, <1>2, <1>3, FileChanges DEF Write

LEMMA AckStep ==
    ASSUME TypeOK, LockInv, ViewInv, AckInv, [Next]_vars
    PROVE  AckInv'
<1> DEFINE Answers(l, e) == \E i \in DOMAIN l : l[i].ev.id = e.id \/ l[i].ev.identity = e.identity
<1>1. ASSUME NEW p \in Proc, Write(p)
      PROVE  AckInv'
  <2> DEFINE x == [ev |-> req[p].ev, prev |-> HeadAt(view[p].log, Len(view[p].log))]
  <2>1. log' = Append(log, x) /\ log \in Seq(Record(Event)) /\ acked' = acked /\ req' = req
    BY <1>1 DEF Write, TypeOK
  <2>2. /\ Len(log) + 1 \in DOMAIN log' /\ log'[Len(log) + 1].ev = req[p].ev
        /\ \A i \in DOMAIN log : i \in DOMAIN log' /\ log'[i] = log[i]
    BY <2>1
  <2>3. AckedCommitted'
    BY <2>1, <2>2 DEF AckInv, AckedCommitted
  <2>4. ASSUME NEW q \in Proc, q # p
        PROVE  pc'[q] = "idle"
    BY <1>1, <2>4, OthersUnchanged DEF Step
  <2> QED
    BY <2>1, <2>2, <2>3, <2>4 DEF AckInv
<1>2. ASSUME NEW p \in Proc, AppendDuplicate(p) \/ Return(p)
      PROVE  AckedCommitted'
  <2>1. Answers(log, req[p].ev)
    BY <1>2 DEF AppendDuplicate, SameEvent, Return, AckInv
  <2>2. acked' = acked \cup {req[p].ev} /\ log' = log
    BY <1>2 DEF AppendDuplicate, Return, disk
  <2> QED
    BY <2>1, <2>2 DEF AckInv, AckedCommitted
<1>3. ASSUME log' = log, AckedCommitted',
             NEW p \in Proc, Step(p) \/ Die(p) \/ \E r \in Request : Acquire(p, r)
      PROVE  AckInv'
  <2>1. pc'[p] # "return"
    BY <1>3 DEF Step, Release, disk, Goto, TypeOK, Acquire, SaveTail, TruncateTail, AppendDuplicate,
         AppendRead, Rotate, Write, WriteTorn, Return, SealNothing, SealRead, SealPublish,
         ArchiveRefuse, ArchiveRead, ArchiveCopy, ArchiveNothing, ArchivePublish, Die
  <2>2. ASSUME NEW q \in Proc, q # p
        PROVE  pc'[q] = "idle"
    BY <1>3, <2>2, OthersUnchanged
  <2> QED
    BY <1>3, <2>1, <2>2 DEF AckInv
<1>4. CASE UNCHANGED vars
  BY <1>4 DEF vars, disk, AckInv, AckedCommitted
<1>5. CASE log' = log /\ acked' = acked
  BY <1>3, <1>4, <1>5 DEF Next, AckInv, AckedCommitted
<1> QED
  BY <1>1, <1>2, <1>3, <1>5, FileChanges
     DEF Step, AppendDuplicate, Return, Write, disk

-------------------------------------------------------------------------------
(* IInv is inductive. *)
LEMMA IInvStep == IInv /\ [Next]_vars => IInv'
<1> SUFFICES ASSUME IInv, [Next]_vars PROVE IInv'
  OBVIOUS
<1>1. TypeOK'
  BY TypeStep DEF IInv
<1>2. LockInv' /\ ViewInv'
  BY LockStep, ViewStep DEF IInv
<1>3. EndsInv'
  BY <1>1, EndsStep DEF IInv
<1>4. ChainLinked' /\ IdInv' /\ SealsAnchored' /\ AckInv'
  BY ChainStep, IdStep, SealStep, AckStep DEF IInv
<1> QED
  BY <1>1, <1>2, <1>3, <1>4 DEF IInv

(* The inductive invariant holds in every state of every behaviour. *)
THEOREM Inductive == Spec => []IInv
BY InitInv, IInvStep, PTL DEF Spec

(* Every variable keeps its type. *)
THEOREM TypeCorrect == Spec => []TypeOK
<1>1. IInv => TypeOK
  BY DEF IInv
<1> QED
  BY <1>1, Inductive, PTL

(* append_event, recovery, rotation and kills keep the hash chain linked.  *)
THEOREM ChainAlwaysVerifies == Spec => []ChainLinked
<1>1. IInv => ChainLinked
  BY DEF IInv
<1> QED
  BY <1>1, Inductive, PTL

(* No event id is ever committed twice, however often and from however     *)
(* many processes it is delivered.                                         *)
THEOREM IdsAlwaysUnique == Spec => []UniqueIds
<1>1. IInv => UniqueIds
  BY DEF IInv, IdInv
<1> QED
  BY <1>1, Inductive, PTL

(* Every detached seal always verifies, and seals cover more and more.     *)
THEOREM SealsAlwaysVerify == Spec => []SealsAnchored
<1>1. IInv => SealsAnchored
  BY DEF IInv
<1> QED
  BY <1>1, Inductive, PTL

(* An append that returned stays in the log.                               *)
THEOREM AcknowledgedStays == Spec => []AckedCommitted
<1>1. IInv => AckedCommitted
  BY DEF IInv, AckInv
<1> QED
  BY <1>1, Inductive, PTL

(* A partial line is saved before it is cut, whoever dies in between.      *)
THEOREM TailAlwaysSaved == Spec => TailSavedBeforeCut
<1> DEFINE A == torn # None => /\ torn' # torn => torn' = None /\ torn \in corrupt
                               /\ log' = log
<1>1. ASSUME IInv, [Next]_vars
      PROVE  [A]_vars
  <2>1. ASSUME NEW p \in Proc, torn # None
        PROVE  pc[p] \notin {"rotate", "write", "return", "publish", "copy"}
    BY <1>1, <2>1 DEF IInv, ViewInv, ViewOK
  <2>2. ASSUME NEW p \in Proc, pc[p] = "truncate"
        PROVE  torn \in corrupt
    BY <1>1, <2>2 DEF IInv, ViewInv, ViewOK
  <2> QED
    BY <1>1, <2>1, <2>2
       DEF Next, Step, vars, disk, Acquire, SaveTail, TruncateTail, AppendDuplicate, AppendRead,
           Rotate, Write, WriteTorn, Return, SealNothing, SealRead, SealPublish, ArchiveRefuse,
           ArchiveRead, ArchiveCopy, ArchiveNothing, ArchivePublish, Die
<1> QED
  BY <1>1, Inductive, PTL DEF Spec, TailSavedBeforeCut

LEMMA PrefixSelf ==
    ASSUME NEW T, NEW t \in Seq(T)
    PROVE  \E n \in 0 .. Len(t) : t = SubSeq(t, 1, n)
<1>1. t = SubSeq(t, 1, Len(t)) /\ Len(t) \in 0 .. Len(t)
  OBVIOUS
<1> QED
  BY <1>1

LEMMA PrefixAppend ==
    ASSUME NEW T, NEW t \in Seq(T), NEW x \in T
    PROVE  \E n \in 0 .. Len(Append(t, x)) : t = SubSeq(Append(t, x), 1, n)
<1>1. t = SubSeq(Append(t, x), 1, Len(t)) /\ Len(t) \in 0 .. Len(Append(t, x))
  OBVIOUS
<1> QED
  BY <1>1

(* No step drops or rewrites a committed record, a closed segment, a seal  *)
(* or a manifest.                                                          *)
THEOREM FilesOnlyGrow == Spec => OnlyExtended
<1> DEFINE Extends(t, u) == \E n \in 0 .. Len(u) : t = SubSeq(u, 1, n)
           A == /\ Extends(log, log') /\ Extends(ends, ends')
                /\ Extends(seals, seals') /\ Extends(manifests, manifests')
           MRecord == [segments : SUBSET Nat, head : Seq(Event)]
<1>1. ASSUME IInv, [Next]_vars
      PROVE  A
  <2>t. /\ TypeOK /\ TypeOK' /\ ViewInv
        /\ log \in Seq(Record(Event)) /\ ends \in Seq(Nat)
        /\ seals \in Seq(SealRecord) /\ manifests \in Seq(MRecord)
        /\ log' \in Seq(Record(Event)) /\ ends' \in Seq(Nat)
        /\ seals' \in Seq(SealRecord) /\ manifests' \in Seq(MRecord)
    BY <1>1, TypeStep DEF IInv, TypeOK
  <2> HIDE DEF MRecord
  <2>1. Extends(log, log')
    <3>1. ASSUME NEW p \in Proc, Write(p)
          PROVE  Extends(log, log')
      <4>1. PICK x : log' = Append(log, x)
        BY <3>1 DEF Write
      <4>2. x = log'[Len(log')] /\ Len(log') \in DOMAIN log'
        BY <2>t, <4>1
      <4>3. x \in Record(Event)
        BY <2>t, <4>2
      <4> QED
        BY <2>t, <4>1, <4>3, PrefixAppend
    <3> QED
      BY <1>1, <2>t, <3>1, FileChanges, PrefixSelf
  <2>2. Extends(ends, ends')
    <3>1. ASSUME NEW p \in Proc, Rotate(p)
          PROVE  Extends(ends, ends')
      <4>1. PICK x \in Nat : ends' = Append(ends, x)
        BY <2>t, <3>1 DEF Rotate
      <4>2. ends \in Seq(Nat)
        BY <2>t
      <4> QED
        BY <4>1, <4>2, PrefixAppend
    <3> QED
      BY <1>1, <2>t, <3>1, FileChanges, PrefixSelf
  <2>3. Extends(seals, seals')
    <3>1. ASSUME NEW p \in Proc, SealPublish(p)
          PROVE  Extends(seals, seals')
      <4>1. PICK x : seals' = Append(seals, x)
        BY <2>t, <3>1 DEF SealPublish, ViewInv, ViewOK
      <4>2. x = seals'[Len(seals')] /\ Len(seals') \in DOMAIN seals'
        BY <2>t, <4>1
      <4>3. x \in SealRecord
        BY <2>t, <4>2
      <4> QED
        BY <2>t, <4>1, <4>3, PrefixAppend
    <3> QED
      BY <1>1, <2>t, <3>1, FileChanges, PrefixSelf
  <2>4. Extends(manifests, manifests')
    <3>1. ASSUME NEW p \in Proc, ArchivePublish(p)
          PROVE  Extends(manifests, manifests')
      <4>1. PICK x : manifests' = Append(manifests, x)
        BY <3>1 DEF ArchivePublish
      <4>2. x = manifests'[Len(manifests')] /\ Len(manifests') \in DOMAIN manifests'
        BY <2>t, <4>1
      <4>3. x \in MRecord
        BY <2>t, <4>2
      <4> QED
        BY <2>t, <4>1, <4>3, PrefixAppend
    <3>2. CASE manifests' = manifests
      BY <2>t, <3>2, PrefixSelf
    <3> QED
      BY <1>1, <3>1, <3>2, FileChanges
  <2> QED
    BY <2>1, <2>2, <2>3, <2>4
<1>2. ASSUME IInv, [Next]_vars
      PROVE  [A]_vars
  BY <1>1, <1>2
<1> QED
  BY <1>2, Inductive, PTL DEF Spec, OnlyExtended

-------------------------------------------------------------------------------
(* The refinement of EventLog.  Its one obligation that IInv does not give *)
(* is that a manifest freezes more than the one before: manifests name the *)
(* leading closed segments, and the run at work adds segments behind them. *)
ArchiveInv ==
    /\ manifests # <<>> =>
          \E k \in DOMAIN ends : Archived = 1 .. k /\ Len(manifests[Len(manifests)].head) = ends[k]
    /\ \A p \in Proc :
          /\ pc[p] = "archive" => view[p].added = {}
          /\ pc[p] = "copy" => view[p].added \subseteq (1 .. Len(ends)) \ Archived

LEMMA ArchivedAppend ==
    ASSUME NEW m, manifests \in Seq([segments : SUBSET Nat, head : Seq(Event)]),
           manifests' = Append(manifests, m)
    PROVE  Archived' = Archived \cup m.segments
<1>1. /\ DOMAIN manifests' = DOMAIN manifests \cup {Len(manifests) + 1}
      /\ manifests'[Len(manifests) + 1] = m
      /\ \A i \in DOMAIN manifests : manifests'[i] = manifests[i]
  OBVIOUS
<1> QED
  BY <1>1 DEF Archived

LEMMA HeadLength ==
    ASSUME NEW l \in Seq(Record(Event)), NEW n \in 0 .. Len(l)
    PROVE  Len(HeadAt(l, n)) = n
<1>1. HeadAt(l, n) \in Seq(Event) /\ DOMAIN HeadAt(l, n) = 1 .. n /\ n \in Nat
  BY HeadAtType DEF HeadAt
<1> QED
  BY <1>1

LEMMA LastEndType ==
    ASSUME TypeOK, EndsInv
    PROVE  /\ LastEnd \in 0 .. Len(log)
           /\ ends # <<>> => Len(ends) \in DOMAIN ends /\ LastEnd = ends[Len(ends)]
BY DEF LastEnd, EndsInv, TypeOK

(* What publishing a manifest does, given the invariants. *)
LEMMA ManifestGrows ==
    ASSUME IInv, ArchiveInv, NEW p \in Proc, ArchivePublish(p)
    PROVE  /\ ends # <<>> /\ Archived' = 1 .. Len(ends)
           /\ Len(manifests'[Len(manifests')].head) = ends[Len(ends)]
           /\ manifests' # <<>>
           /\ manifests # <<>> => Len(manifests[Len(manifests)].head) < LastEnd
<1> DEFINE m == [segments |-> view[p].added, head |-> HeadAt(log, LastEnd)]
<1>1. /\ manifests' = Append(manifests, m)
      /\ ToArchive(p) = {} /\ view[p].added # {}
      /\ view[p].added \subseteq (1 .. Len(ends)) \ Archived
  BY DEF ArchivePublish, ArchiveInv
<1>t. /\ TypeOK /\ EndsInv
      /\ manifests \in Seq([segments : SUBSET Nat, head : Seq(Event)])
      /\ ends \in Seq(Nat) /\ log \in Seq(Record(Event))
  BY DEF IInv, TypeOK
<1>m. /\ m.segments = view[p].added /\ m.head = HeadAt(log, LastEnd)
      /\ m \in [segments : SUBSET Nat, head : Seq(Event)]
  BY <1>t, HeadAtType, LastEndType DEF TypeOK
<1> HIDE DEF m
<1>2. /\ manifests' # <<>> /\ manifests'[Len(manifests')] = m
  <2> DEFINE MRecord == [segments : SUBSET Nat, head : Seq(Event)]
  <2>1. manifests \in Seq(MRecord) /\ m \in MRecord /\ manifests' = Append(manifests, m)
    BY <1>1, <1>t, <1>m
  <2> HIDE DEF MRecord
  <2> QED
    BY <2>1
<1>3. Archived' = Archived \cup view[p].added
  BY <1>1, <1>t, <1>m, ArchivedAppend
<1>4. 1 .. Len(ends) \subseteq Archived \cup view[p].added
  BY <1>1 DEF ToArchive
<1>5. Archived \subseteq 1 .. Len(ends)
  <2>1. CASE manifests = <<>>
    BY <2>1 DEF Archived
  <2>2. CASE manifests # <<>>
    <3>1. PICK k \in DOMAIN ends : Archived = 1 .. k
      BY <2>2 DEF ArchiveInv
    <3> QED
      BY <1>t, <3>1
  <2> QED
    BY <2>1, <2>2
<1>6. Archived' = 1 .. Len(ends)
  BY <1>1, <1>3, <1>4, <1>5
<1>7. ends # <<>>
  BY <1>1, <1>t
<1>8. Len(m.head) = LastEnd /\ LastEnd = ends[Len(ends)]
  BY <1>t, <1>m, <1>7, HeadLength, LastEndType
<1>9. ASSUME manifests # <<>>
      PROVE  Len(manifests[Len(manifests)].head) < LastEnd
  <2>1. PICK k \in DOMAIN ends : /\ Archived = 1 .. k
                                 /\ Len(manifests[Len(manifests)].head) = ends[k]
    BY <1>9 DEF ArchiveInv
  <2>2. PICK x \in 1 .. Len(ends) : x \notin 1 .. k
    BY <1>1, <2>1
  <2>3. k < Len(ends) /\ Len(ends) \in DOMAIN ends
    BY <1>t, <2>2
  <2> QED
    BY <1>t, <1>8, <2>1, <2>3 DEF EndsInv
<1> QED
  BY <1>2, <1>6, <1>7, <1>8, <1>9

LEMMA ArchiveStep ==
    ASSUME IInv, ArchiveInv, [Next]_vars
    PROVE  ArchiveInv'
<1>t. /\ TypeOK /\ LockInv /\ ends \in Seq(Nat)
      /\ view \in [Proc -> [log : Seq(Record(Event)), seals : Seq(SealRecord), added : SUBSET Nat]]
  BY DEF IInv, TypeOK
<1> DEFINE Frozen ==
        manifests # <<>> =>
          \E k \in DOMAIN ends : Archived = 1 .. k /\ Len(manifests[Len(manifests)].head) = ends[k]
           Own(p) ==
          /\ pc[p] = "archive" => view[p].added = {}
          /\ pc[p] = "copy" => view[p].added \subseteq (1 .. Len(ends)) \ Archived
<1>i. Frozen /\ \A p \in Proc : Own(p)
  BY DEF ArchiveInv
<1>1. Frozen'
  <2>1. CASE manifests' = manifests /\ ends' = ends
    BY <1>i, <2>1 DEF Archived
  <2>2. ASSUME NEW p \in Proc, Rotate(p)
        PROVE  Frozen'
    <3>1. manifests' = manifests /\ ends' = Append(ends, Len(log)) /\ Len(log) \in Nat
      BY <2>2 DEF Rotate, IInv, TypeOK
    <3>2. \A k \in DOMAIN ends : k \in DOMAIN ends' /\ ends'[k] = ends[k]
      BY <1>t, <3>1
    <3> QED
      BY <1>i, <3>1, <3>2 DEF Archived
  <2>3. ASSUME NEW p \in Proc, ArchivePublish(p)
        PROVE  Frozen'
    <3>1. ends' = ends /\ Len(ends) \in DOMAIN ends
      <4>1. ends' = ends /\ ends # <<>>
        BY <2>3, ManifestGrows DEF ArchivePublish
      <4> QED
        BY <1>t, <4>1
    <3>2. /\ Archived' = 1 .. Len(ends')
          /\ Len(manifests'[Len(manifests')].head) = ends'[Len(ends')]
      BY <2>3, <3>1, ManifestGrows
    <3> QED
      BY <3>1, <3>2
  <2> QED
    BY <2>1, <2>2, <2>3, FileChanges DEF Rotate
<1>2. ASSUME NEW p \in Proc, Step(p) \/ Die(p) \/ \E r \in Request : Acquire(p, r)
      PROVE  Own(p)'
  <2>1. CASE \E r \in Request : Acquire(p, r)
    <3>1. pc[p] = "idle" /\ view' = view /\ pc'[p] # "copy"
      BY <1>t, <2>1 DEF Acquire, Goto, TypeOK
    <3>2. view[p].added = {}
      BY <3>1 DEF IInv, ViewInv, ViewOK, NoView
    <3> QED
      BY <3>1, <3>2
  <2>2. CASE ArchiveRead(p)
    <3>1. view'[p].added = {} /\ pc'[p] = "copy"
      BY <1>i, <1>t, <2>2 DEF ArchiveRead, Goto, TypeOK
    <3> QED
      BY <3>1
  <2>3. CASE ArchiveCopy(p)
    <3>1. PICK s \in ToArchive(p) : view' = [view EXCEPT ![p].added = @ \cup {s}]
      BY <2>3 DEF ArchiveCopy
    <3>2. view'[p].added = view[p].added \cup {s} /\ s \in (1 .. Len(ends)) \ Archived
      BY <1>t, <3>1 DEF ToArchive
    <3>3. pc[p] = "copy" /\ UNCHANGED <<pc, ends, manifests>>
      BY <2>3 DEF ArchiveCopy
    <3>4. Archived' = Archived
      BY <3>3 DEF Archived
    <3> QED
      BY <1>i, <3>2, <3>3, <3>4
  <2>4. CASE pc'[p] \notin {"archive", "copy"}
    BY <2>4
  <2>5. CASE Release(p)
    BY <1>t, <2>4, <2>5 DEF Release, Goto, TypeOK
  <2>6. ASSUME NEW l \in {"read", "truncate", "rotate", "write", "return", "publish"}, Goto(p, l)
        PROVE  Own(p)'
    BY <1>t, <2>4, <2>6 DEF Goto, TypeOK
  <2> QED
    BY <1>2, <2>1, <2>2, <2>3, <2>5, <2>6
       DEF Step, SaveTail, TruncateTail, AppendDuplicate, AppendRead,
           Rotate, Write, WriteTorn, Return, SealNothing, SealRead, SealPublish, ArchiveRefuse,
           ArchiveNothing, ArchivePublish, Die
<1>3. ASSUME NEW p \in Proc, Step(p) \/ Die(p) \/ \E r \in Request : Acquire(p, r)
      PROVE  \A q \in Proc : Own(q)'
  <2>1. ASSUME NEW q \in Proc, q # p
        PROVE  Own(q)'
    <3>1. pc'[q] = "idle"
      BY <1>3, <1>t, <2>1, OthersUnchanged
    <3> QED
      BY <3>1
  <2> QED
    BY <1>2, <1>3, <2>1
<1>4. CASE UNCHANGED vars
  <2>1. Archived' = Archived /\ UNCHANGED <<manifests, ends, pc, view>>
    BY <1>4 DEF vars, disk, Archived
  <2> QED
    BY <1>i, <2>1 DEF ArchiveInv
<1> QED
  BY <1>1, <1>3, <1>4 DEF Next, ArchiveInv

THEOREM ArchiveInductive == Spec => []ArchiveInv
<1>1. Init => ArchiveInv
  BY DEF Init, ArchiveInv
<1>2. IInv /\ ArchiveInv /\ [Next]_vars => ArchiveInv'
  BY ArchiveStep
<1> QED
  BY <1>1, <1>2, Inductive, PTL DEF Spec

records == HeadAt(log, Len(log))
sealed == IF seals = <<>> THEN 0 ELSE seals[Len(seals)].count
archived == IF manifests = <<>> THEN 0 ELSE Len(manifests[Len(manifests)].head)

LEMMA RecordsAppend ==
    ASSUME NEW l \in Seq(Record(Event)), NEW r \in Record(Event)
    PROVE  HeadAt(Append(l, r), Len(Append(l, r))) = Append(HeadAt(l, Len(l)), r.ev)
<1> DEFINE m == Append(l, r)
           h == HeadAt(l, Len(l))
           k == Len(l)
<1>1. /\ k \in Nat /\ Len(m) = k + 1 /\ m[k + 1] = r
      /\ \A i \in 1 .. k : m[i] = l[i]
  OBVIOUS
<1>2. h \in Seq(Event) /\ Len(h) = k /\ \A i \in 1 .. k : h[i] = l[i].ev
  BY HeadAtType, HeadLength DEF HeadAt
<1>3. r.ev \in Event
  BY DEF Record
<1>4. /\ Append(h, r.ev) \in Seq(Event) /\ Len(Append(h, r.ev)) = k + 1
      /\ Append(h, r.ev)[k + 1] = r.ev /\ \A i \in 1 .. k : Append(h, r.ev)[i] = h[i]
  BY <1>2, <1>3
<1>5. HeadAt(m, Len(m)) = [i \in 1 .. k + 1 |-> m[i].ev]
  BY <1>1 DEF HeadAt
<1>6. \A i \in 1 .. k + 1 : m[i].ev = Append(h, r.ev)[i]
  BY <1>1, <1>2, <1>4
<1>7. Append(h, r.ev) = [i \in 1 .. k + 1 |-> Append(h, r.ev)[i]]
  BY <1>1, <1>4
<1> HIDE DEF h, k, m
<1>8. [i \in 1 .. k + 1 |-> m[i].ev] = [i \in 1 .. k + 1 |-> Append(h, r.ev)[i]]
  BY <1>6
<1> QED
  BY <1>5, <1>7, <1>8 DEF h, k, m

LEMMA WriteImplements ==
    ASSUME IInv, NEW p \in Proc, Write(p)
    PROVE  Abstract!Next
<1> DEFINE r == [ev |-> req[p].ev, prev |-> HeadAt(log, Len(log))]
<1>t. TypeOK /\ log \in Seq(Record(Event))
  BY DEF IInv, TypeOK
<1>1. /\ log' = Append(log, r) /\ seals' = seals /\ manifests' = manifests
      /\ req[p].ev \in Event
      /\ \A i \in DOMAIN log : log[i].ev.id # req[p].ev.id
  BY AppendRequestType DEF Write, IInv, ViewInv, ViewOK, IdInv, IdOK
<1>2. r \in Record(Event) /\ r.ev = req[p].ev
  <2>1. HeadAt(log, Len(log)) \in Seq(Event)
    BY <1>t, HeadAtType
  <2> QED
    BY <1>1, <2>1 DEF Record
<1> HIDE DEF r
<1>3. records' = Append(records, req[p].ev)
  BY <1>t, <1>1, <1>2, RecordsAppend DEF records
<1>4. /\ DOMAIN records = DOMAIN log
      /\ \A i \in DOMAIN log : records[i] = log[i].ev
  BY <1>t DEF records, HeadAt
<1>5. req[p].ev.id \notin Abstract!Ids
  BY <1>1, <1>4 DEF Abstract!Ids, records
<1>6. sealed' = sealed /\ archived' = archived
  BY <1>1 DEF sealed, archived
<1>7. Abstract!Commit(req[p].ev)
  BY <1>3, <1>5, <1>6 DEF Abstract!Commit, records, sealed, archived
<1> QED
  BY <1>1, <1>7 DEF Abstract!Next

LEMMA SealImplements ==
    ASSUME IInv, NEW p \in Proc, SealPublish(p)
    PROVE  Abstract!Next
<1> DEFINE x == [count |-> Len(log), head |-> HeadAt(log, Len(log))]
<1>t. /\ TypeOK /\ log \in Seq(Record(Event)) /\ seals \in Seq(SealRecord)
  BY DEF IInv, TypeOK
<1>1. seals' = Append(seals, x) /\ log' = log /\ manifests' = manifests
  BY DEF SealPublish, IInv, ViewInv, ViewOK
<1>2. x \in SealRecord /\ x.count = Len(log)
  BY <1>t, HeadAtType DEF SealRecord
<1> HIDE DEF x
<1>3. sealed' = Len(log)
  BY <1>t, <1>1, <1>2 DEF sealed
<1>4. Len(records) = Len(log)
  BY <1>t, HeadLength DEF records
<1>5. records' = records /\ archived' = archived
  BY <1>1 DEF records, archived
<1>6. Abstract!Seal
  BY <1>3, <1>4, <1>5 DEF Abstract!Seal, records, sealed, archived
<1> QED
  BY <1>6 DEF Abstract!Next

LEMMA ArchiveImplements ==
    ASSUME IInv, ArchiveInv, NEW p \in Proc, ArchivePublish(p)
    PROVE  Abstract!Next
<1>t. /\ TypeOK /\ EndsInv /\ log \in Seq(Record(Event)) /\ ends \in Seq(Nat)
  BY DEF IInv, TypeOK
<1>1. log' = log /\ seals' = seals
  BY DEF ArchivePublish
<1>2. /\ ends # <<>> /\ LastEnd = ends[Len(ends)] /\ LastEnd \in 1 .. Len(log)
  BY <1>t, ManifestGrows, LastEndType DEF EndsInv
<1>3. archived' = LastEnd
  BY <1>2, ManifestGrows DEF archived
<1>4. archived < LastEnd
  BY <1>t, <1>2, ManifestGrows DEF archived
<1>5. Len(records) = Len(log)
  BY <1>t, HeadLength DEF records
<1>6. records' = records /\ sealed' = sealed
  BY <1>1 DEF records, sealed
<1>7. Abstract!Freeze(LastEnd)
  BY <1>3, <1>4, <1>6 DEF Abstract!Freeze, records, sealed, archived
<1> QED
  BY <1>2, <1>5, <1>7 DEF Abstract!Next, records

(* Files, locks, kills and recoveries implement one growing log of events  *)
(* with unique ids, whose sealed and archived parts are prefixes of it     *)
(* (append_event, seal_event_chain and archive_closed_segments).           *)
THEOREM StoreIsEventLog == Spec => ImplementsEventLog
<1>1. Init => Abstract!Init
  BY DEF Init, Abstract!Init, HeadAt
<1>2. IInv /\ ArchiveInv /\ [Next]_vars => [Abstract!Next]_Abstract!vars
  <2> SUFFICES ASSUME IInv, ArchiveInv, [Next]_vars
               PROVE  [Abstract!Next]_Abstract!vars
    OBVIOUS
  <2>1. CASE UNCHANGED <<log, seals, manifests>>
    BY <2>1 DEF Abstract!vars, HeadAt
  <2>2. CASE \E p \in Proc : Write(p) \/ SealPublish(p) \/ ArchivePublish(p)
    BY <2>2, WriteImplements, SealImplements, ArchiveImplements
  <2> QED
    BY <2>1, <2>2, FileChanges
<1> QED
  BY <1>1, <1>2, Inductive, ArchiveInductive, PTL DEF Spec, ImplementsEventLog, Abstract!Spec
===============================================================================
