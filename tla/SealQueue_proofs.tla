--------------------------- MODULE SealQueue_proofs ---------------------------
(***************************************************************************)
(* Proofs about SealQueue, for any number of workers and jobs and any      *)
(* faults: its safety properties, and that it implements JobBoard.         *)
(***************************************************************************)
EXTENDS SealQueue, WellFoundedInduction, TLAPS

Inside == {"recover", "recovering", "claim", "claiming", "acking", "failing"}
Working == {"append", "seal", "ack", "fail"}

(* A worker in the middle of a locked section owns the queue lock. *)
Locked(w) == worker[w].pc \in Inside => lock = w

(* What a worker's memory says of the files while it owns the lock. *)
Recovery(w) ==
    /\ worker[w].pc \in {"recover", "recovering"} => worker[w].todo \subseteq In("running")
    /\ At(w, "recovering") => /\ worker[w].todo # {}
                              /\ files[<<"running", First(worker[w].todo)>>].owner = None

Claiming(w) ==
    /\ worker[w].pc \in {"claim", "claiming"} => worker[w].job \in In("pending")
    /\ At(w, "claiming") => /\ files[<<"pending", worker[w].job>>].owner = w
                            /\ files[<<"pending", worker[w].job>>].epoch = worker[w].epoch

Given(c) == c.state = "pending" \/ (c.state = "dead-letter" /\ c.attempt >= MaxAttempts)

Settling(w) ==
    /\ worker[w].pc \in {"acking", "failing"} =>
        /\ worker[w].job \in In("running")
        /\ files[<<"running", worker[w].job>>].owner = None
    /\ At(w, "failing") => Given(files[<<"running", worker[w].job>>])

(* A worker inside a turn has it left; the event of its job is committed   *)
(* before it is sealed, and sealed before it is acknowledged.              *)
Work(w) ==
    /\ worker[w].pc \notin {"off", "loop"} => worker[w].turns > 0
    /\ worker[w].pc \in Working => worker[w].job \in Job
    /\ At(w, "seal") => worker[w].job \in committed
    /\ worker[w].pc \in {"ack", "acking"} => worker[w].job \in sealed

(* LeaseHeld, which still holds when the work has failed. *)
Holding(w) ==
    \/ Leased(w) /\ files[<<"running", worker[w].job>>].owner = w
    \/ worker[w].job \in In("dead-letter")

Lease(w) == Without({"identity", "rename"}) /\ worker[w].pc \in Working => Holding(w)

Own(w) == Locked(w) /\ Recovery(w) /\ Claiming(w) /\ Settling(w) /\ Work(w) /\ Lease(w)

IInv == TypeOK /\ OneFile /\ sealed \subseteq committed /\ \A w \in Worker : Own(w)

-------------------------------------------------------------------------------
(* The least element that First chooses exists. *)
LEMMA FirstIn ==
    ASSUME NEW S, S \subseteq Job, S # {}
    PROVE  First(S) \in S /\ First(S) \in Job
<1>1. S \subseteq Nat
  BY QueueAssumption
<1>2. PICK x \in S : \A y \in S : ~ (<<y, x>> \in OpToRel(<, Nat))
  BY <1>1, NatLessThanWellFounded, WFMin, Zenon
<1>3. \A y \in S : ~(y < x)
  BY <1>1, <1>2 DEF OpToRel
<1>4. \A y \in S : x <= y
  BY <1>1, <1>3
<1> QED
  BY <1>4 DEF First

(* What writing, renaming and ending do to the files. *)
LEMMA PutFiles ==
    ASSUME NEW d, NEW j, NEW c, Put(d, j, c)
    PROVE  /\ DOMAIN files' = DOMAIN files \cup {<<d, j>>}
           /\ files'[<<d, j>>] = c
           /\ \A f \in DOMAIN files : f # <<d, j>> => files'[f] = files[f]
BY DEF Put

LEMMA MoveFiles ==
    ASSUME NEW d, NEW e, NEW j, Move(d, e, j)
    PROVE  /\ DOMAIN files' = (DOMAIN files \ {<<d, j>>}) \cup {<<e, j>>}
           /\ files'[<<e, j>>] = files[<<d, j>>]
           /\ \A f \in DOMAIN files' : f # <<e, j>> => files'[f] = files[f]
BY DEF Move

LEMMA DisownedFiles ==
    ASSUME TypeOK, NEW w \in Worker, files' = Disowned(w)
    PROVE  /\ DOMAIN files' = DOMAIN files
           /\ \A f \in DOMAIN files :
                /\ files'[f] \in Content
                /\ files'[f].owner = IF files[f].owner = w THEN Gone ELSE files[f].owner
                /\ files'[f].state = files[f].state
                /\ files'[f].attempt = files[f].attempt
                /\ files'[f].epoch = files[f].epoch
<1>1. DOMAIN files' = DOMAIN files
  BY DEF Disowned
<1> SUFFICES ASSUME NEW f \in DOMAIN files
             PROVE  /\ files'[f] \in Content
                    /\ files'[f].owner = IF files[f].owner = w THEN Gone ELSE files[f].owner
                    /\ files'[f].state = files[f].state
                    /\ files'[f].attempt = files[f].attempt
                    /\ files'[f].epoch = files[f].epoch
  BY <1>1
<1>2. files'[f] = IF files[f].owner = w THEN [files[f] EXCEPT !.owner = Gone] ELSE files[f]
  BY DEF Disowned
<1>3. files[f] \in Content
  BY DEF TypeOK
<1> QED
  BY <1>2, <1>3 DEF Content

(* The same in terms of the directories. *)
LEMMA PutIn ==
    ASSUME NEW d, NEW j \in In(d), NEW c, Put(d, j, c)
    PROVE  /\ \A x : In(x)' = In(x)
           /\ files'[<<d, j>>] = c
           /\ \A x, k : <<x, k>> \in DOMAIN files /\ <<x, k>> # <<d, j>>
                            => files'[<<x, k>>] = files[<<x, k>>]
BY PutFiles DEF In

LEMMA DisownedIn ==
    ASSUME TypeOK, NEW w \in Worker, files' = Disowned(w)
    PROVE  /\ \A x : In(x)' = In(x)
           /\ \A x, j : j \in In(x) =>
                /\ files'[<<x, j>>].owner = IF files[<<x, j>>].owner = w THEN Gone
                                            ELSE files[<<x, j>>].owner
                /\ files'[<<x, j>>].state = files[<<x, j>>].state
                /\ files'[<<x, j>>].attempt = files[<<x, j>>].attempt
                /\ files'[<<x, j>>].epoch = files[<<x, j>>].epoch
BY DisownedFiles DEF In

-------------------------------------------------------------------------------
(* What the steps do to the workers' memory. *)
Pc == {"off", "loop", "recover", "recovering", "claim", "claiming",
       "append", "seal", "ack", "acking", "fail", "failing"}
Memory == [pc : Pc, job : Job \cup {None}, epoch : Nat, todo : SUBSET Job, turns : Nat]

Others(w) == \A v \in Worker \ {w} : worker'[v] = worker[v]

LEMMA MemoryType == TypeOK => worker \in [Worker -> Memory]
BY DEF TypeOK, Memory, Pc

LEMMA GotoMemory ==
    ASSUME TypeOK, NEW w \in Worker, NEW l \in Pc, Goto(w, l)
    PROVE  /\ worker' \in [Worker -> Memory] /\ Others(w)
           /\ worker'[w].pc = l
           /\ worker'[w].job = worker[w].job
           /\ worker'[w].epoch = worker[w].epoch
           /\ worker'[w].todo = worker[w].todo
           /\ worker'[w].turns = worker[w].turns
BY MemoryType DEF Goto, Others, Memory

LEMMA OffMemory ==
    /\ Off \in Memory
    /\ Off.pc = "off" /\ Off.job = None /\ Off.todo = {} /\ Off.turns = 0
BY DEF Off, Memory, Pc

LEMMA TurnMemory ==
    ASSUME NEW n \in Nat
    PROVE  /\ [Off EXCEPT !.pc = "loop", !.turns = n] \in Memory
           /\ [Off EXCEPT !.pc = "loop", !.turns = n].pc = "loop"
BY DEF Off, Memory, Pc

LEMMA NextTurnMemory ==
    ASSUME TypeOK, NEW w \in Worker, worker[w].turns > 0, NextTurn(w)
    PROVE  /\ worker' \in [Worker -> Memory] /\ Others(w)
           /\ worker'[w].pc = "loop"
<1> DEFINE n == worker[w].turns - 1
<1>1. n \in Nat
  BY MemoryType DEF Memory
<1>2. worker' = [worker EXCEPT ![w] = [Off EXCEPT !.pc = "loop", !.turns = n]]
  BY DEF NextTurn
<1> HIDE DEF n
<1> QED
  BY <1>1, <1>2, TurnMemory, MemoryType DEF Others

LEMMA LaunchMemory ==
    ASSUME TypeOK, NEW w \in Worker, Launch(w)
    PROVE  /\ worker' \in [Worker -> Memory] /\ Others(w)
           /\ worker'[w].pc = "loop"
BY QueueAssumption, TurnMemory, MemoryType DEF Launch, Others

LEMMA ExitMemory ==
    ASSUME TypeOK, NEW w \in Worker, Exit(w)
    PROVE  /\ worker' \in [Worker -> Memory] /\ Others(w)
           /\ worker'[w].pc = "off"
BY OffMemory, MemoryType DEF Exit, Others

LEMMA BeginMemory ==
    ASSUME TypeOK, NEW w \in Worker, BeginTurn(w)
    PROVE  /\ worker' \in [Worker -> Memory] /\ Others(w)
           /\ worker'[w].pc = "recover"
           /\ worker'[w].todo = In("running")
           /\ worker'[w].turns = worker[w].turns
<1> DEFINE S == In("running")
<1>1. S \subseteq Job
  BY DEF In
<1>2. worker' = [worker EXCEPT ![w].pc = "recover", ![w].todo = S]
  BY DEF BeginTurn
<1> HIDE DEF S
<1>3. worker'[w] = [worker[w] EXCEPT !.pc = "recover", !.todo = S]
  BY <1>2, MemoryType
<1>4. worker'[w] \in Memory /\ worker'[w].pc = "recover" /\ worker'[w].todo = S
      /\ worker'[w].turns = worker[w].turns
  BY <1>1, <1>3, MemoryType DEF Memory, Pc
<1>5. worker' \in [Worker -> Memory] /\ Others(w)
  BY <1>2, <1>3, <1>4, MemoryType DEF Others
<1> QED
  BY <1>4, <1>5 DEF S

LEMMA RecoveredMemory ==
    ASSUME TypeOK, NEW w \in Worker, NEW j, Recovered(w, j)
    PROVE  /\ worker' \in [Worker -> Memory] /\ Others(w)
           /\ worker'[w].pc = "recover"
           /\ worker'[w].todo = worker[w].todo \ {j}
           /\ worker'[w].turns = worker[w].turns
<1>1. worker'[w] = [worker[w] EXCEPT !.pc = "recover", !.todo = worker[w].todo \ {j}]
  BY MemoryType DEF Recovered
<1>2. worker'[w] \in Memory /\ worker'[w].pc = "recover"
      /\ worker'[w].todo = worker[w].todo \ {j} /\ worker'[w].turns = worker[w].turns
  BY <1>1, MemoryType DEF Memory, Pc
<1> QED
  BY <1>1, <1>2, MemoryType DEF Recovered, Others

LEMMA ChooseMemory ==
    ASSUME TypeOK, NEW w \in Worker, Choose(w)
    PROVE  /\ worker' \in [Worker -> Memory] /\ Others(w)
           /\ worker'[w].pc = "claim"
           /\ worker'[w].job \in In("pending")
           /\ worker'[w].turns = worker[w].turns
<1> DEFINE j == First(In("pending"))
<1>1. j \in In("pending") /\ j \in Job
  BY FirstIn DEF Choose, In
<1>2. worker' = [worker EXCEPT ![w].pc = "claim", ![w].job = j]
  BY DEF Choose
<1> HIDE DEF j
<1>3. worker'[w] = [worker[w] EXCEPT !.pc = "claim", !.job = j]
  BY <1>2, MemoryType
<1>4. worker'[w] \in Memory /\ worker'[w].pc = "claim" /\ worker'[w].job = j
      /\ worker'[w].turns = worker[w].turns
  BY <1>1, <1>3, MemoryType DEF Memory, Pc
<1> QED
  BY <1>1, <1>2, <1>3, <1>4, MemoryType DEF Others

LEMMA ClaimMemory ==
    ASSUME TypeOK, NEW w \in Worker, ClaimWrite(w), worker[w].job \in In("pending")
    PROVE  /\ worker' \in [Worker -> Memory] /\ Others(w)
           /\ worker'[w].pc = "claiming"
           /\ worker'[w].job = worker[w].job
           /\ worker'[w].turns = worker[w].turns
           /\ \E c \in Content : /\ Put("pending", worker[w].job, c)
                                 /\ c.owner = w /\ c.epoch = worker'[w].epoch
<1> DEFINE b == files[<<"pending", worker[w].job>>]
           n == b.attempt + 1
           e == b.epoch + 1
           c == [state |-> "running", attempt |-> n, epoch |-> e, owner |-> w]
<1>1. b \in Content
  BY DEF TypeOK, In
<1>2. n \in Nat /\ e \in Nat
  BY <1>1 DEF Content
<1>3. worker' = [worker EXCEPT ![w].pc = "claiming", ![w].epoch = e]
  BY DEF ClaimWrite
<1>4. Put("pending", worker[w].job, c)
  BY DEF ClaimWrite
<1> HIDE DEF n, e
<1>5. c \in Content /\ c.owner = w /\ c.epoch = e
  BY <1>2 DEF Content, Dir
<1> HIDE DEF c
<1>6. worker'[w] = [worker[w] EXCEPT !.pc = "claiming", !.epoch = e]
  BY <1>3, MemoryType
<1>7. worker'[w] \in Memory /\ worker'[w].pc = "claiming" /\ worker'[w].job = worker[w].job
      /\ worker'[w].turns = worker[w].turns /\ worker'[w].epoch = e
  BY <1>2, <1>6, MemoryType DEF Memory, Pc
<1>8. worker' \in [Worker -> Memory] /\ Others(w)
  BY <1>3, <1>6, <1>7, MemoryType DEF Others
<1> QED
  BY <1>4, <1>5, <1>7, <1>8

-------------------------------------------------------------------------------
(* How the parts of the invariant that concern the files are preserved. *)
FilesOK == DOMAIN files \subseteq Dir \X Job /\ \A f \in DOMAIN files : files[f] \in Content

LEMMA InType == TypeOK => \A d : \A j \in In(d) : d \in Dir /\ j \in Job /\ files[<<d, j>>] \in Content
BY DEF TypeOK, In

LEMMA PutInv ==
    ASSUME TypeOK, OneFile, NEW d, NEW j \in In(d), NEW c \in Content, Put(d, j, c)
    PROVE  FilesOK' /\ OneFile'
<1>1. FilesOK'
  BY PutFiles DEF FilesOK, TypeOK, In
<1>2. \A x : In(x)' = In(x)
  BY PutIn
<1>3. OneFile'
  BY <1>2 DEF OneFile
<1> QED
  BY <1>1, <1>3

LEMMA MoveInv ==
    ASSUME TypeOK, OneFile, NEW d, NEW e \in Dir, d # e, NEW j \in In(d), Move(d, e, j)
    PROVE  FilesOK' /\ OneFile'
<1>1. d \in Dir /\ j \in Job
  BY InType
<1>2. /\ DOMAIN files' = (DOMAIN files \ {<<d, j>>}) \cup {<<e, j>>}
      /\ files'[<<e, j>>] = files[<<d, j>>]
      /\ \A f \in DOMAIN files' : f # <<e, j>> => files'[f] = files[f]
  BY MoveFiles
<1>3. files[<<d, j>>] \in Content
  BY InType
<1>4. FilesOK'
  BY <1>1, <1>2, <1>3 DEF FilesOK, TypeOK
<1>5. \A x \in Dir : j \in In(x) => x = d
  BY <1>1 DEF OneFile
<1>6. \A k \in Job, x \in Dir : k \in In(x)' => (k # j /\ k \in In(x)) \/ (k = j /\ x = e)
  <2>1. /\ In(d)' = In(d) \ {j}
        /\ In(e)' = In(e) \cup {j}
        /\ \A x : x # d /\ x # e => In(x)' = In(x)
    BY <1>1, <1>2 DEF In
  <2> QED
    BY <1>5, <2>1
<1>7. OneFile'
  BY <1>6 DEF OneFile
<1> QED
  BY <1>4, <1>7

LEMMA DisownedInv ==
    ASSUME TypeOK, OneFile, NEW w \in Worker, files' = Disowned(w)
    PROVE  FilesOK' /\ OneFile'
<1>1. FilesOK'
  BY DisownedFiles DEF FilesOK, TypeOK
<1>2. OneFile'
  BY DisownedIn DEF OneFile
<1> QED
  BY <1>1, <1>2

(* Another worker's part of the invariant, while w takes a step. *)
Grows == committed \subseteq committed' /\ sealed \subseteq sealed' /\ faults.kinds \subseteq faults'.kinds

LEMMA FramedWork ==
    ASSUME NEW v \in Worker, Work(v), worker'[v] = worker[v], Grows
    PROVE  Work(v)'
BY DEF Work, At, Grows

LEMMA FramedSame ==
    ASSUME NEW v \in Worker, Own(v), worker'[v] = worker[v], Grows, UNCHANGED files,
           lock' = lock \/ worker[v].pc \notin Inside
    PROVE  Own(v)'
<1>1. Work(v)'
  BY FramedWork DEF Own
<1>2. Locked(v)' /\ Recovery(v)' /\ Claiming(v)' /\ Settling(v)'
  BY DEF Own, Locked, Recovery, Claiming, Settling, At, In, Given, Inside
<1>3. Lease(v)'
  BY DEF Own, Lease, Holding, Leased, In, Without, Grows
<1> QED
  BY <1>1, <1>2, <1>3 DEF Own

LEMMA FramedOutside ==
    ASSUME NEW v \in Worker, Own(v), worker'[v] = worker[v], Grows, worker[v].pc \notin Inside,
           worker[v].pc \in Working /\ Without({"identity", "rename"})' /\ Holding(v) => Holding(v)'
    PROVE  Own(v)'
<1>1. Work(v)'
  BY FramedWork DEF Own
<1>2. Locked(v)' /\ Recovery(v)' /\ Claiming(v)' /\ Settling(v)'
  BY DEF Locked, Recovery, Claiming, Settling, At, Inside
<1>3. Lease(v)'
  BY DEF Own, Lease, Without, Grows
<1> QED
  BY <1>1, <1>2, <1>3 DEF Own

LEMMA FramedDisowned ==
    ASSUME TypeOK, NEW w \in Worker, NEW v \in Worker, v # w, Own(v), worker'[v] = worker[v], Grows,
           files' = Disowned(w), lock' = IF lock = w THEN None ELSE lock
    PROVE  Own(v)'
<1>1. Work(v)'
  BY FramedWork DEF Own
<1>2. \A d : In(d)' = In(d)
  BY DisownedIn
<1>3. \A d, j : j \in In(d) =>
        /\ files[<<d, j>>].owner # w => files'[<<d, j>>].owner = files[<<d, j>>].owner
        /\ files'[<<d, j>>].state = files[<<d, j>>].state
        /\ files'[<<d, j>>].attempt = files[<<d, j>>].attempt
        /\ files'[<<d, j>>].epoch = files[<<d, j>>].epoch
  BY DisownedIn
<1>4. None # w
  BY QueueAssumption
<1>5. Locked(v)'
  BY DEF Own, Locked
<1>6. Recovery(v)'
  <2>1. At(v, "recovering") => First(worker[v].todo) \in In("running")
    <3>1. worker[v].todo \subseteq Job
      BY MemoryType DEF Memory
    <3> QED
      BY <3>1, FirstIn DEF Own, Recovery, At
  <2> QED
    BY <1>2, <1>3, <1>4, <2>1 DEF Own, Recovery, At
<1>7. Claiming(v)'
  BY <1>2, <1>3, <1>4 DEF Own, Claiming, At
<1>8. Settling(v)'
  BY <1>2, <1>3, <1>4 DEF Own, Settling, At, Given
<1>9. Lease(v)'
  BY <1>2, <1>3 DEF Own, Lease, Holding, Leased, Without, Grows
<1> QED
  BY <1>1, <1>5, <1>6, <1>7, <1>8, <1>9 DEF Own

LEMMA AloneInside ==
    ASSUME \A v \in Worker : Own(v), NEW w \in Worker, lock \in {None, w}
    PROVE  \A v \in Worker \ {w} : worker[v].pc \notin Inside
BY QueueAssumption DEF Own, Locked

-------------------------------------------------------------------------------
(* Three kinds of steps of a worker: one that leaves the files as they     *)
(* are, one that writes or renames a file under the lock, and its end.     *)
FaultsOK == faults \in [count : 0 .. MaxFaults, kinds : SUBSET FaultKinds]

LEMMA FaultFacts ==
    ASSUME TypeOK, NEW k, Fault(k)
    PROVE  FaultsOK' /\ faults.kinds \subseteq faults'.kinds /\ k \in faults'.kinds
<1> DEFINE n == faults.count + 1
           s == faults.kinds \cup {k}
<1>1. n \in 0 .. MaxFaults /\ s \subseteq FaultKinds
  BY QueueAssumption DEF TypeOK, Fault
<1>2. faults' = [count |-> n, kinds |-> s] /\ faults.kinds \subseteq s /\ k \in s
  BY DEF Fault
<1> HIDE DEF n, s
<1> QED
  BY <1>1, <1>2 DEF FaultsOK

LEMMA StillFaults ==
    ASSUME TypeOK, UNCHANGED faults
    PROVE  FaultsOK' /\ faults.kinds \subseteq faults'.kinds
BY DEF TypeOK, FaultsOK

LEMMA Assembled ==
    ASSUME IInv, NEW w \in Worker, FilesOK', OneFile', FaultsOK', worker' \in [Worker -> Memory],
           lock' \in Worker \cup {None}, keyring' \in BOOLEAN,
           committed' \subseteq Job, sealed' \subseteq committed',
           \A v \in Worker \ {w} : Own(v)', Own(w)'
    PROVE  IInv'
<1>1. TypeOK'
  BY DEF TypeOK, FilesOK, FaultsOK, Memory, Pc
<1> QED
  BY <1>1 DEF IInv

LEMMA SameInv ==
    ASSUME IInv, NEW w \in Worker, UNCHANGED <<files, keyring>>, FaultsOK', Grows,
           worker' \in [Worker -> Memory], Others(w),
           committed' \subseteq Job, sealed' \subseteq committed',
           lock' = lock \/ (lock \in {None, w} /\ lock' \in {None, w}),
           Own(w)'
    PROVE  IInv'
<1>1. FilesOK' /\ OneFile' /\ keyring' \in BOOLEAN /\ lock' \in Worker \cup {None}
  BY DEF IInv, TypeOK, FilesOK, OneFile, In
<1>2. lock' = lock \/ \A v \in Worker \ {w} : worker[v].pc \notin Inside
  BY AloneInside DEF IInv
<1>3. \A v \in Worker \ {w} : Own(v)'
  BY <1>2, FramedSame DEF IInv, Others
<1> QED
  BY <1>1, <1>3, Assembled

LEMMA LockedInv ==
    ASSUME IInv, NEW w \in Worker, UNCHANGED <<committed, sealed, keyring>>, FaultsOK',
           faults.kinds \subseteq faults'.kinds, FilesOK', OneFile',
           worker' \in [Worker -> Memory], Others(w),
           lock \in {None, w}, lock' \in {None, w},
           \A v \in Worker \ {w} :
               worker[v].pc \in Working /\ Without({"identity", "rename"})' /\ Holding(v) => Holding(v)',
           Own(w)'
    PROVE  IInv'
<1>1. committed' \subseteq Job /\ sealed' \subseteq committed' /\ keyring' \in BOOLEAN /\ Grows
  BY DEF IInv, TypeOK, Grows
<1>2. \A v \in Worker \ {w} : worker[v].pc \notin Inside
  BY AloneInside DEF IInv
<1>3. \A v \in Worker \ {w} : Own(v)'
  BY <1>1, <1>2, FramedOutside DEF IInv, Others
<1> QED
  BY <1>1, <1>3, Assembled

LEMMA OffOwn ==
    ASSUME NEW w \in Worker, worker'[w].pc \in {"off", "loop"}
    PROVE  Own(w)'
BY DEF Own, Locked, Recovery, Claiming, Settling, Work, Lease, At, Inside, Working

LEMMA ExitInv ==
    ASSUME IInv, NEW w \in Worker, Exit(w), UNCHANGED <<committed, sealed, keyring>>,
           FaultsOK', faults.kinds \subseteq faults'.kinds
    PROVE  IInv'
<1>1. committed' \subseteq Job /\ sealed' \subseteq committed' /\ keyring' \in BOOLEAN /\ Grows
  BY DEF IInv, TypeOK, Grows
<1>2. FilesOK' /\ OneFile'
  BY DisownedInv DEF IInv, Exit
<1>3. worker' \in [Worker -> Memory] /\ Others(w) /\ Own(w)'
  BY ExitMemory, OffOwn DEF IInv
<1>4. lock' = (IF lock = w THEN None ELSE lock) /\ files' = Disowned(w)
  BY DEF Exit
<1>5. lock' \in Worker \cup {None}
  BY <1>4 DEF IInv, TypeOK
<1>6. \A v \in Worker \ {w} : Own(v)'
  BY <1>1, <1>3, <1>4, FramedDisowned DEF IInv, Others
<1> QED
  BY <1>1, <1>2, <1>3, <1>5, <1>6, Assembled

-------------------------------------------------------------------------------
(* A lease outlasts what others do to the files. *)
LEMMA KeptPut ==
    ASSUME NEW v \in Worker, worker'[v] = worker[v], Holding(v),
           NEW d, NEW j \in In(d), NEW c, Put(d, j, c),
           d = "pending" \/ (d = "running" /\ files[<<d, j>>].owner # v)
    PROVE  Holding(v)'
<1>1. /\ \A x : In(x)' = In(x)
      /\ \A x, k : <<x, k>> \in DOMAIN files /\ <<x, k>> # <<d, j>>
                            => files'[<<x, k>>] = files[<<x, k>>]
  BY PutIn
<1> QED
  BY <1>1 DEF Holding, Leased, In

LEMMA KeptMove ==
    ASSUME TypeOK, OneFile, NEW v \in Worker, worker'[v] = worker[v], Holding(v),
           NEW d, NEW e \in Dir, d # e, NEW j \in In(d), Move(d, e, j),
           d = "pending" \/ (d = "running" /\ (files[<<d, j>>].owner # v \/ e = "dead-letter"))
    PROVE  Holding(v)'
<1> DEFINE k == worker[v].job
<1>1. /\ DOMAIN files' = (DOMAIN files \ {<<d, j>>}) \cup {<<e, j>>}
      /\ files'[<<e, j>>] = files[<<d, j>>]
      /\ \A f \in DOMAIN files' : f # <<e, j>> => files'[f] = files[f]
  BY MoveFiles
<1>2. \A x : k \in In(x) /\ <<x, k>> # <<d, j>> => k \in In(x)'
  BY <1>1 DEF In
<1>3. k \in In("running")' /\ <<"running", k>> # <<e, j>>
        => files'[<<"running", k>>] = files[<<"running", k>>]
  BY <1>1 DEF In
<1>4. j \in In(e)'
  BY <1>1 DEF In
<1>5. CASE k \in In("dead-letter")
  BY <1>2, <1>5 DEF Holding
<1>6. CASE Leased(v) /\ files[<<"running", k>>].owner = v
  <2>1. k \in In("running")
    BY <1>6 DEF Leased
  <2>2. CASE d = "running" /\ k = j
    BY <1>4, <1>6, <2>2 DEF Holding
  <2>3. CASE d # "running" \/ k # j
    <3>1. k \in In("running")' /\ <<"running", k>> # <<e, j>>
      <4>1. d \in Dir /\ k \in Job
        BY <2>1, InType
      <4>2. k # j \/ d = "running"
        BY <2>1, <4>1 DEF OneFile, Dir
      <4> QED
        BY <1>2, <2>1, <2>3, <4>2
    <3> QED
      BY <1>3, <1>6, <3>1 DEF Holding, Leased
  <2> QED
    BY <2>2, <2>3
<1> QED
  BY <1>5, <1>6 DEF Holding

LEMMA HoldsOwn ==
    ASSUME IInv, NEW w \in Worker, worker[w].pc \in Working, worker[w].job \in In("running"),
           Without({"identity", "rename"})
    PROVE  files[<<"running", worker[w].job>>].owner = w
<1>1. worker[w].job \in Job
  BY DEF In
<1>2. worker[w].job \notin In("dead-letter")
  BY <1>1 DEF IInv, OneFile, Dir
<1> QED
  BY <1>2 DEF IInv, Own, Lease, Holding

LEMMA WithoutBack ==
    ASSUME NEW K, faults.kinds \subseteq faults'.kinds, Without(K)'
    PROVE  Without(K)
BY DEF Without

-------------------------------------------------------------------------------
(* The steps outside a worker's loop. *)
LEMMA PrepareInv ==
    ASSUME IInv, NEW j \in Job, PrepareAppend(j) \/ Enqueue(j)
    PROVE  IInv'
<1>1. CASE PrepareAppend(j)
  <2>1. TypeOK'
    BY <1>1 DEF PrepareAppend, IInv, TypeOK
  <2>2. OneFile' /\ sealed' \subseteq committed' /\ Grows
    BY <1>1 DEF PrepareAppend, IInv, OneFile, In, Grows
  <2>3. \A v \in Worker : Own(v)'
    BY <1>1, <2>2, FramedSame DEF PrepareAppend, IInv
  <2> QED
    BY <2>1, <2>2, <2>3 DEF IInv
<1>2. CASE Enqueue(j)
  <2> DEFINE c == [state |-> "pending", attempt |-> 0, epoch |-> 0, owner |-> None]
  <2>1. c \in Content /\ Put("pending", j, c)
    BY <1>2 DEF Enqueue, Content, Dir
  <2> HIDE DEF c
  <2>2. /\ DOMAIN files' = DOMAIN files \cup {<<"pending", j>>}
        /\ files'[<<"pending", j>>] = c
        /\ \A f \in DOMAIN files : f # <<"pending", j>> => files'[f] = files[f]
    BY <2>1, PutFiles
  <2>3. TypeOK'
    BY <1>2, <2>1, <2>2 DEF Enqueue, IInv, TypeOK, Dir
  <2>4. \A d \in Dir : j \notin In(d)
    BY <1>2 DEF Enqueue, Queued
  <2>5. OneFile'
    BY <2>2, <2>4 DEF IInv, OneFile, In
  <2>6. Grows
    BY <1>2 DEF Enqueue, Grows
  <2>7. \A v \in Worker : worker[v].pc \notin Inside
    BY <1>2, QueueAssumption DEF Enqueue, IInv, Own, Locked
  <2>8. \A v \in Worker : Holding(v) => Holding(v)'
    <3>1. \A x \in Dir : In(x) \subseteq In(x)'
      BY <2>2 DEF In
    <3>2. \A k \in In("running") : files'[<<"running", k>>] = files[<<"running", k>>]
      BY <2>2 DEF In
    <3>3. worker' = worker
      BY <1>2 DEF Enqueue
    <3> QED
      BY <3>1, <3>2, <3>3 DEF Holding, Leased, Dir
  <2>9. \A v \in Worker : Own(v)'
    <3>1. worker' = worker
      BY <1>2 DEF Enqueue
    <3> QED
      BY <2>6, <2>7, <2>8, <3>1, FramedOutside DEF IInv
  <2> QED
    BY <1>2, <2>3, <2>5, <2>9 DEF Enqueue, IInv
<1> QED
  BY <1>1, <1>2

LEMMA KeyringInv ==
    ASSUME IInv, KeyringLost \/ KeyringBack
    PROVE  IInv'
<1>1. FaultsOK' /\ faults.kinds \subseteq faults'.kinds
  BY FaultFacts, StillFaults DEF KeyringLost, KeyringBack, IInv
<1>2. UNCHANGED <<committed, sealed, files, lock, worker>> /\ keyring' \in BOOLEAN
  BY DEF KeyringLost, KeyringBack
<1>3. TypeOK'
  BY <1>1, <1>2 DEF IInv, TypeOK, FaultsOK
<1>4. OneFile' /\ sealed' \subseteq committed' /\ Grows
  BY <1>1, <1>2 DEF IInv, OneFile, In, Grows
<1>5. \A v \in Worker : Own(v)'
  BY <1>2, <1>4, FramedSame DEF IInv
<1> QED
  BY <1>3, <1>4, <1>5 DEF IInv

LEMMA LaunchInv ==
    ASSUME IInv, NEW w \in Worker, Launch(w)
    PROVE  IInv'
<1>1. worker' \in [Worker -> Memory] /\ Others(w) /\ Own(w)'
  BY LaunchMemory, OffOwn DEF IInv
<1>2. UNCHANGED <<committed, sealed, files, lock, keyring, faults>>
  BY DEF Launch
<1>3. FaultsOK' /\ Grows /\ committed' \subseteq Job /\ sealed' \subseteq committed'
  BY <1>2, StillFaults DEF IInv, TypeOK, Grows
<1> QED
  BY <1>1, <1>2, <1>3, SameInv

LEMMA EndInv ==
    ASSUME IInv, NEW w \in Worker,
           EndTurns(w) \/ NothingPending(w) \/ ClaimAbort(w) \/ FailAbort(w) \/ LockTimeout(w) \/ Die(w)
    PROVE  IInv'
<1>1. Exit(w) /\ UNCHANGED <<committed, sealed, keyring>>
  BY DEF EndTurns, NothingPending, ClaimAbort, FailAbort, LockTimeout, Die
<1>2. FaultsOK' /\ faults.kinds \subseteq faults'.kinds
  BY FaultFacts, StillFaults
  DEF EndTurns, NothingPending, ClaimAbort, FailAbort, LockTimeout, Die, IInv
<1> QED
  BY <1>1, <1>2, ExitInv

-------------------------------------------------------------------------------
(* The steps of a worker that leave the files alone. *)
LEMMA BeginInv ==
    ASSUME IInv, NEW w \in Worker, BeginTurn(w)
    PROVE  IInv'
<1>1. /\ worker' \in [Worker -> Memory] /\ Others(w)
      /\ worker'[w].pc = "recover" /\ worker'[w].todo = In("running")
      /\ worker'[w].turns = worker[w].turns
  BY BeginMemory DEF IInv
<1>2. /\ UNCHANGED <<committed, sealed, files, keyring, faults>>
      /\ lock = None /\ lock' = w /\ worker[w].turns > 0
  BY DEF BeginTurn
<1>3. FaultsOK' /\ Grows /\ committed' \subseteq Job /\ sealed' \subseteq committed'
  BY <1>2, StillFaults DEF IInv, TypeOK, Grows
<1>4. In("running")' = In("running")
  BY <1>2 DEF In
<1>5. Own(w)'
  BY <1>1, <1>2, <1>4
  DEF Own, Locked, Recovery, Claiming, Settling, Work, Lease, At, Inside, Working
<1> QED
  BY <1>1, <1>2, <1>3, <1>5, SameInv

LEMMA SkipInv ==
    ASSUME IInv, NEW w \in Worker, NEW j \in Job, RecoverSkip(w, j)
    PROVE  IInv'
<1>1. /\ worker' \in [Worker -> Memory] /\ Others(w)
      /\ worker'[w].pc = "recover" /\ worker'[w].todo = worker[w].todo \ {j}
      /\ worker'[w].turns = worker[w].turns
  BY RecoveredMemory DEF IInv, RecoverSkip
<1>2. UNCHANGED <<committed, sealed, files, lock, keyring, faults>> /\ At(w, "recover")
  BY DEF RecoverSkip, Recovering
<1>3. FaultsOK' /\ Grows /\ committed' \subseteq Job /\ sealed' \subseteq committed'
  BY <1>2, StillFaults DEF IInv, TypeOK, Grows
<1>4. In("running")' = In("running")
  BY <1>2 DEF In
<1>5. Own(w)
  BY DEF IInv
<1>6. Own(w)'
  BY <1>1, <1>2, <1>4, <1>5
  DEF Own, Locked, Recovery, Claiming, Settling, Work, Lease, At, Inside, Working
<1> QED
  BY <1>1, <1>2, <1>3, <1>6, SameInv

LEMMA ChooseInv ==
    ASSUME IInv, NEW w \in Worker, Choose(w)
    PROVE  IInv'
<1>1. /\ worker' \in [Worker -> Memory] /\ Others(w)
      /\ worker'[w].pc = "claim" /\ worker'[w].job \in In("pending")
      /\ worker'[w].turns = worker[w].turns
  BY ChooseMemory DEF IInv
<1>2. UNCHANGED <<committed, sealed, files, lock, keyring, faults>> /\ At(w, "recover")
  BY DEF Choose, Choosing
<1>3. FaultsOK' /\ Grows /\ committed' \subseteq Job /\ sealed' \subseteq committed'
  BY <1>2, StillFaults DEF IInv, TypeOK, Grows
<1>4. In("pending")' = In("pending")
  BY <1>2 DEF In
<1>5. Own(w)
  BY DEF IInv
<1>6. Own(w)'
  BY <1>1, <1>2, <1>4, <1>5
  DEF Own, Locked, Recovery, Claiming, Settling, Work, Lease, At, Inside, Working
<1> QED
  BY <1>1, <1>2, <1>3, <1>6, SameInv

(* Going from one step of the work to the next, the worker keeps its lease.*)
LEMMA GoOnInv ==
    ASSUME IInv, NEW w \in Worker, NEW l \in Working, Goto(w, l),
           worker[w].pc \in Working \cup {"acking"},
           worker[w].pc = "acking" => ~Without({"identity", "rename"})' /\ worker[w].job \in Job,
           UNCHANGED <<files, keyring>>, FaultsOK', Grows,
           committed' \subseteq Job, sealed' \subseteq committed',
           lock' = lock \/ (lock \in {None, w} /\ lock' \in {None, w}),
           l = "seal" => worker[w].job \in committed',
           l = "ack" => worker[w].job \in sealed'
    PROVE  IInv'
<1>1. /\ worker' \in [Worker -> Memory] /\ Others(w)
      /\ worker'[w].pc = l /\ worker'[w].job = worker[w].job /\ worker'[w].epoch = worker[w].epoch
      /\ worker'[w].turns = worker[w].turns
  <2>1. l \in Pc
    BY DEF Working, Pc
  <2> QED
    BY <2>1, GotoMemory DEF IInv
<1>2. Own(w)
  BY DEF IInv
<1>3. Locked(w)' /\ Recovery(w)' /\ Claiming(w)' /\ Settling(w)'
  BY <1>1 DEF Locked, Recovery, Claiming, Settling, At, Inside, Working
<1>4. Work(w)'
  BY <1>1, <1>2 DEF Own, Work, At, Working
<1>5. Lease(w)'
  <2> SUFFICES ASSUME Without({"identity", "rename"})'
               PROVE  Holding(w)'
    BY DEF Lease
  <2>1. worker[w].pc \in Working /\ Without({"identity", "rename"})
    BY WithoutBack DEF Grows
  <2>2. Holding(w)
    BY <1>2, <2>1 DEF Own, Lease
  <2> QED
    BY <1>1, <2>2 DEF Holding, Leased, In
<1> QED
  BY <1>1, <1>3, <1>4, <1>5, SameInv DEF Own

LEMMA AppendInv ==
    ASSUME IInv, NEW w \in Worker, Append(w)
    PROVE  IInv'
<1>1. /\ At(w, "append") /\ Goto(w, "seal") /\ committed' = committed \cup {worker[w].job}
      /\ UNCHANGED <<sealed, files, lock, keyring, faults>>
  BY DEF Append
<1>2. worker[w].job \in Job
  BY <1>1 DEF IInv, Own, Work, At, Working
<1>3. FaultsOK' /\ Grows /\ committed' \subseteq Job /\ sealed' \subseteq committed'
  BY <1>1, <1>2, StillFaults DEF IInv, TypeOK, Grows
<1> QED
  BY <1>1, <1>3, GoOnInv DEF At, Working

LEMMA SealInv ==
    ASSUME IInv, NEW w \in Worker, Seal(w)
    PROVE  IInv'
<1>1. /\ At(w, "seal") /\ Goto(w, "ack") /\ sealed' = committed
      /\ UNCHANGED <<committed, files, lock, keyring, faults>>
  BY DEF Seal
<1>2. worker[w].job \in committed
  BY <1>1 DEF IInv, Own, Work
<1>3. FaultsOK' /\ Grows /\ committed' \subseteq Job /\ sealed' \subseteq committed'
  BY <1>1, StillFaults DEF IInv, TypeOK, Grows
<1> QED
  BY <1>1, <1>2, <1>3, GoOnInv DEF At, Working

LEMMA StopInv ==
    ASSUME IInv, NEW w \in Worker, WorkFail(w) \/ AckRefuse(w) \/ AckTimeout(w) \/ AckMoveFail(w)
    PROVE  IInv'
<1>1. /\ Goto(w, "fail") /\ UNCHANGED <<committed, sealed, files, keyring>>
      /\ worker[w].pc \in Working \cup {"acking"}
  BY DEF WorkFail, AckRefuse, AckTimeout, AckMoveFail, At, Working
<1>2. FaultsOK' /\ faults.kinds \subseteq faults'.kinds
  BY FaultFacts, StillFaults DEF WorkFail, AckRefuse, AckTimeout, AckMoveFail, IInv
<1>3. Grows /\ committed' \subseteq Job /\ sealed' \subseteq committed'
  BY <1>1, <1>2 DEF IInv, TypeOK, Grows
<1>4. ASSUME worker[w].pc = "acking"
      PROVE  ~Without({"identity", "rename"})' /\ worker[w].job \in Job /\ lock = w /\ lock' = None
  <2>1. AckMoveFail(w)
    BY <1>4 DEF WorkFail, AckRefuse, AckTimeout, At
  <2>2. ~Without({"identity", "rename"})'
    BY <2>1, FaultFacts DEF AckMoveFail, IInv, Without
  <2>3. worker[w].job \in Job /\ lock = w
    BY <1>4 DEF IInv, Own, Locked, Settling, In, Inside
  <2> QED
    BY <2>1, <2>2, <2>3 DEF AckMoveFail
<1>5. lock' = lock \/ (lock \in {None, w} /\ lock' \in {None, w})
  BY <1>4 DEF WorkFail, AckRefuse, AckTimeout, AckMoveFail, At
<1> QED
  BY <1>1, <1>2, <1>3, <1>4, <1>5, GoOnInv DEF Working

LEMMA GoneInv ==
    ASSUME IInv, NEW w \in Worker, FailGone(w)
    PROVE  IInv'
<1>1. worker[w].turns > 0
  BY DEF IInv, Own, Work, FailGone, At
<1>2. worker' \in [Worker -> Memory] /\ Others(w) /\ Own(w)'
  BY <1>1, NextTurnMemory, OffOwn DEF IInv, FailGone
<1>3. UNCHANGED <<committed, sealed, files, lock, keyring, faults>>
  BY DEF FailGone
<1>4. FaultsOK' /\ Grows /\ committed' \subseteq Job /\ sealed' \subseteq committed'
  BY <1>3, StillFaults DEF IInv, TypeOK, Grows
<1> QED
  BY <1>2, <1>3, <1>4, SameInv

-------------------------------------------------------------------------------
(* The steps of a worker that write or rename a file under the lock. *)
LEMMA Reset ==
    ASSUME NEW c \in Content, NEW s \in Dir
    PROVE  /\ [c EXCEPT !.state = s, !.owner = None] \in Content
           /\ [c EXCEPT !.state = s, !.owner = None].owner = None
           /\ [c EXCEPT !.state = s, !.owner = None].state = s
           /\ [c EXCEPT !.state = s, !.owner = None].attempt = c.attempt
BY DEF Content

LEMMA RecoveringJob ==
    ASSUME IInv, NEW w \in Worker, worker[w].pc \in {"recover", "recovering"}, worker[w].todo # {}
    PROVE  /\ First(worker[w].todo) \in worker[w].todo
           /\ First(worker[w].todo) \in In("running")
           /\ lock = w /\ worker[w].turns > 0
<1>1. worker[w].todo \subseteq Job
  BY MemoryType DEF IInv, Memory
<1>2. First(worker[w].todo) \in worker[w].todo
  BY <1>1, FirstIn
<1> QED
  BY <1>2 DEF IInv, Own, Recovery, Locked, Inside, Work

LEMMA RecoverWriteInv ==
    ASSUME IInv, NEW w \in Worker, NEW j \in Job, RecoverWrite(w, j)
    PROVE  IInv'
<1> DEFINE c == [files[<<"running", j>>] EXCEPT !.state = "pending", !.owner = None]
<1>1. /\ At(w, "recover") /\ worker[w].todo # {} /\ j = First(worker[w].todo)
      /\ Put("running", j, c) /\ Goto(w, "recovering")
      /\ UNCHANGED <<committed, sealed, lock, keyring>>
  BY DEF RecoverWrite, Recovering
<1>2. j \in In("running") /\ lock = w /\ worker[w].turns > 0
  BY <1>1, RecoveringJob DEF At
<1>3. c \in Content /\ c.owner = None
  BY <1>2, InType, Reset DEF IInv, Dir
<1> HIDE DEF c
<1>4. FilesOK' /\ OneFile'
  BY <1>1, <1>2, <1>3, PutInv DEF IInv
<1>5. /\ worker' \in [Worker -> Memory] /\ Others(w)
      /\ worker'[w].pc = "recovering" /\ worker'[w].todo = worker[w].todo
      /\ worker'[w].turns = worker[w].turns
  BY <1>1, GotoMemory DEF IInv, Pc
<1>6. FaultsOK' /\ faults.kinds \subseteq faults'.kinds
  BY FaultFacts, StillFaults DEF RecoverWrite, IInv
<1>7. files[<<"running", j>>].owner \in Worker => ~Without({"identity", "rename"})'
  BY FaultFacts DEF RecoverWrite, IInv, Without
<1>8. ASSUME NEW v \in Worker \ {w}, Without({"identity", "rename"})', Holding(v)
      PROVE  Holding(v)'
  BY <1>1, <1>2, <1>5, <1>7, <1>8, KeptPut DEF Others
<1>9. Own(w)'
  <2>1. In("running")' = In("running") /\ files'[<<"running", j>>] = c
    BY <1>1, <1>2, PutIn
  <2>2. worker[w].todo \subseteq In("running")
    BY <1>1 DEF IInv, Own, Recovery, At
  <2>3. Recovery(w)'
    BY <1>1, <1>3, <1>5, <2>1, <2>2 DEF Recovery, At
  <2> QED
    BY <1>1, <1>2, <1>5, <2>3
    DEF Own, Locked, Claiming, Settling, Work, Lease, At, Inside, Working
<1> QED
  BY <1>1, <1>2, <1>4, <1>5, <1>6, <1>8, <1>9, LockedInv

(* A job leaves running, and the scan goes on. *)
LEMMA RecoverOutInv ==
    ASSUME IInv, NEW w \in Worker, NEW j, NEW e \in Dir, e # "running",
           worker[w].pc \in {"recover", "recovering"}, worker[w].todo # {},
           j = First(worker[w].todo), Move("running", e, j), Recovered(w, j),
           files[<<"running", j>>].owner = None \/ e = "dead-letter",
           UNCHANGED <<committed, sealed, lock, keyring>>,
           FaultsOK', faults.kinds \subseteq faults'.kinds
    PROVE  IInv'
<1>1. j \in In("running") /\ lock = w /\ worker[w].turns > 0
  BY RecoveringJob
<1>2. FilesOK' /\ OneFile'
  BY <1>1, MoveInv DEF IInv
<1>3. /\ worker' \in [Worker -> Memory] /\ Others(w)
      /\ worker'[w].pc = "recover" /\ worker'[w].todo = worker[w].todo \ {j}
      /\ worker'[w].turns = worker[w].turns
  BY RecoveredMemory DEF IInv
<1>4. ASSUME NEW v \in Worker \ {w}, Holding(v)
      PROVE  Holding(v)'
  <2>1. None # v
    BY QueueAssumption
  <2> QED
    BY <1>1, <1>3, <1>4, <2>1, KeptMove DEF IInv, Others
<1>5. Own(w)'
  <2>1. \A k : k \in In("running")' <=> k \in In("running") /\ k # j
    <3>1. /\ DOMAIN files' = (DOMAIN files \ {<<"running", j>>}) \cup {<<e, j>>}
          /\ files'[<<e, j>>] = files[<<"running", j>>]
          /\ \A f \in DOMAIN files' : f # <<e, j>> => files'[f] = files[f]
      BY MoveFiles
    <3> QED
      BY <3>1 DEF In
  <2>2. worker[w].todo \subseteq In("running")
    BY DEF IInv, Own, Recovery
  <2>3. Recovery(w)'
    BY <1>3, <2>1, <2>2 DEF Recovery, At
  <2> QED
    BY <1>1, <1>3, <2>3
    DEF Own, Locked, Claiming, Settling, Work, Lease, At, Inside, Working
<1> QED
  BY <1>1, <1>2, <1>3, <1>4, <1>5, LockedInv

LEMMA RecoverMoveInv ==
    ASSUME IInv, NEW w \in Worker, RecoverMove(w) \/ \E j \in Job : RecoverBury(w, j)
    PROVE  IInv'
<1>1. FaultsOK' /\ faults.kinds \subseteq faults'.kinds
  BY FaultFacts, StillFaults DEF RecoverMove, RecoverBury, IInv
<1>2. UNCHANGED <<committed, sealed, lock, keyring>>
  BY DEF RecoverMove, RecoverBury
<1>3. CASE RecoverMove(w)
  <2> DEFINE j == First(worker[w].todo)
  <2>1. /\ worker[w].pc = "recovering" /\ Recovered(w, j)
        /\ Move("running", "pending", j) \/ Move("running", "dead-letter", j)
    BY <1>3 DEF RecoverMove, At
  <2>2. worker[w].todo # {} /\ files[<<"running", j>>].owner = None
    BY <2>1 DEF IInv, Own, Recovery, At
  <2> HIDE DEF j
  <2> QED
    BY <1>1, <1>2, <2>1, <2>2, RecoverOutInv DEF Dir, j
<1>4. CASE \E j \in Job : RecoverBury(w, j)
  <2>1. PICK j \in Job : RecoverBury(w, j)
    BY <1>4
  <2> QED
    BY <1>1, <1>2, <2>1, RecoverOutInv DEF RecoverBury, Recovering, At, Dir
<1> QED
  BY <1>3, <1>4

(* A turn ends with a rename under the lock. *)
LEMMA LastMoveInv ==
    ASSUME IInv, NEW w \in Worker, NEW d, NEW e \in Dir, d # e, NEW j \in In(d), Move(d, e, j),
           d = "pending" \/ (d = "running" /\ files[<<d, j>>].owner = None),
           lock = w, lock' = None, worker[w].turns > 0, NextTurn(w),
           UNCHANGED <<committed, sealed, keyring, faults>>
    PROVE  IInv'
<1>1. FilesOK' /\ OneFile'
  BY MoveInv DEF IInv
<1>2. worker' \in [Worker -> Memory] /\ Others(w) /\ Own(w)'
  BY NextTurnMemory, OffOwn DEF IInv
<1>3. FaultsOK' /\ faults.kinds \subseteq faults'.kinds
  BY StillFaults DEF IInv
<1>4. ASSUME NEW v \in Worker \ {w}, Holding(v)
      PROVE  Holding(v)'
  <2>1. None # v
    BY QueueAssumption
  <2> QED
    BY <1>2, <1>4, <2>1, KeptMove DEF IInv, Others
<1> QED
  BY <1>1, <1>2, <1>3, <1>4, LockedInv

LEMMA ChooseBuryInv ==
    ASSUME IInv, NEW w \in Worker, ChooseBury(w)
    PROVE  IInv'
<1> DEFINE j == First(In("pending"))
<1>1. /\ In("pending") # {} /\ Move("pending", "dead-letter", j) /\ At(w, "recover")
      /\ lock' = None /\ NextTurn(w) /\ UNCHANGED <<committed, sealed, keyring, faults>>
  BY DEF ChooseBury, Choosing
<1>2. j \in In("pending")
  BY <1>1, FirstIn DEF In
<1>3. lock = w /\ worker[w].turns > 0
  BY <1>1 DEF IInv, Own, Locked, Work, At, Inside
<1> HIDE DEF j
<1> QED
  BY <1>1, <1>2, <1>3, LastMoveInv DEF Dir

LEMMA AckMoveInv ==
    ASSUME IInv, NEW w \in Worker, AckMove(w)
    PROVE  IInv'
<1>1. /\ At(w, "acking") /\ Move("running", "done", worker[w].job)
      /\ lock' = None /\ NextTurn(w) /\ UNCHANGED <<committed, sealed, keyring, faults>>
  BY DEF AckMove
<1>2. /\ worker[w].job \in In("running") /\ files[<<"running", worker[w].job>>].owner = None
      /\ lock = w /\ worker[w].turns > 0
  BY <1>1 DEF IInv, Own, Settling, Locked, Work, At, Inside
<1> QED
  BY <1>1, <1>2, LastMoveInv DEF Dir

LEMMA FailMoveInv ==
    ASSUME IInv, NEW w \in Worker, FailMove(w)
    PROVE  IInv'
<1> DEFINE e == files[<<"running", worker[w].job>>].state
<1>1. /\ At(w, "failing") /\ Move("running", e, worker[w].job)
      /\ lock' = None /\ NextTurn(w) /\ UNCHANGED <<committed, sealed, keyring, faults>>
  BY DEF FailMove
<1>2. /\ worker[w].job \in In("running") /\ files[<<"running", worker[w].job>>].owner = None
      /\ lock = w /\ worker[w].turns > 0
  BY <1>1 DEF IInv, Own, Settling, Locked, Work, At, Inside
<1>3. e \in Dir /\ e # "running"
  BY <1>1 DEF IInv, Own, Settling, Given, Dir
<1> HIDE DEF e
<1> QED
  BY <1>1, <1>2, <1>3, LastMoveInv

LEMMA ClaimWriteInv ==
    ASSUME IInv, NEW w \in Worker, ClaimWrite(w)
    PROVE  IInv'
<1>1. At(w, "claim") /\ UNCHANGED <<committed, sealed, lock, keyring, faults>>
  BY DEF ClaimWrite
<1>2. worker[w].job \in In("pending") /\ lock = w /\ worker[w].turns > 0
  BY <1>1 DEF IInv, Own, Claiming, Locked, Work, At, Inside
<1>3. /\ worker' \in [Worker -> Memory] /\ Others(w)
      /\ worker'[w].pc = "claiming" /\ worker'[w].job = worker[w].job
      /\ worker'[w].turns = worker[w].turns
  BY <1>2, ClaimMemory DEF IInv
<1>4. PICK c \in Content : /\ Put("pending", worker[w].job, c)
                           /\ c.owner = w /\ c.epoch = worker'[w].epoch
  BY <1>2, ClaimMemory DEF IInv
<1>5. FilesOK' /\ OneFile'
  BY <1>2, <1>4, PutInv DEF IInv
<1>6. FaultsOK' /\ faults.kinds \subseteq faults'.kinds
  BY <1>1, StillFaults DEF IInv
<1>7. ASSUME NEW v \in Worker \ {w}, Holding(v)
      PROVE  Holding(v)'
  BY <1>2, <1>3, <1>4, <1>7, KeptPut DEF Others
<1>8. Own(w)'
  <2>1. In("pending")' = In("pending") /\ files'[<<"pending", worker[w].job>>] = c
    BY <1>2, <1>4, PutIn
  <2>2. Claiming(w)'
    BY <1>2, <1>3, <1>4, <2>1 DEF Claiming, At
  <2> QED
    BY <1>1, <1>2, <1>3, <2>2
    DEF Own, Locked, Recovery, Settling, Work, Lease, At, Inside, Working
<1> QED
  BY <1>1, <1>2, <1>3, <1>5, <1>6, <1>7, <1>8, LockedInv

LEMMA ClaimMoveInv ==
    ASSUME IInv, NEW w \in Worker, ClaimMove(w)
    PROVE  IInv'
<1> DEFINE j == worker[w].job
<1>1. /\ At(w, "claiming") /\ Move("pending", "running", j) /\ lock' = None /\ Goto(w, "append")
      /\ UNCHANGED <<committed, sealed, keyring, faults>>
  BY DEF ClaimMove
<1>2. /\ j \in In("pending") /\ lock = w /\ worker[w].turns > 0
      /\ files[<<"pending", j>>].owner = w /\ files[<<"pending", j>>].epoch = worker[w].epoch
  BY <1>1 DEF IInv, Own, Claiming, Locked, Work, At, Inside
<1>3. FilesOK' /\ OneFile'
  BY <1>1, <1>2, MoveInv DEF IInv, Dir
<1>4. /\ worker' \in [Worker -> Memory] /\ Others(w)
      /\ worker'[w].pc = "append" /\ worker'[w].job = j /\ worker'[w].epoch = worker[w].epoch
      /\ worker'[w].turns = worker[w].turns
  BY <1>1, GotoMemory DEF IInv, Pc
<1>5. FaultsOK' /\ faults.kinds \subseteq faults'.kinds
  BY <1>1, StillFaults DEF IInv
<1>6. ASSUME NEW v \in Worker \ {w}, Holding(v)
      PROVE  Holding(v)'
  BY <1>1, <1>2, <1>4, <1>6, KeptMove DEF IInv, Others, Dir
<1>7. Own(w)'
  <2>1. /\ DOMAIN files' = (DOMAIN files \ {<<"pending", j>>}) \cup {<<"running", j>>}
        /\ files'[<<"running", j>>] = files[<<"pending", j>>]
        /\ \A f \in DOMAIN files' : f # <<"running", j>> => files'[f] = files[f]
    BY <1>1, MoveFiles
  <2>2. j \in Job /\ j \in In("running")'
    BY <1>2, <2>1 DEF In
  <2>3. Holding(w)'
    BY <1>2, <1>4, <2>1, <2>2 DEF Holding, Leased
  <2> QED
    BY <1>2, <1>4, <2>2, <2>3
    DEF Own, Locked, Recovery, Claiming, Settling, Work, Lease, At, Inside, Working
<1> QED
  BY <1>1, <1>2, <1>3, <1>4, <1>5, <1>6, <1>7, LockedInv

(* A worker that has come to the end of its work takes the lock again. *)
LEMMA SettleInv ==
    ASSUME IInv, NEW w \in Worker, worker[w].pc \in Working, worker[w].job \in In("running"),
           NEW l \in {"acking", "failing"}, Goto(w, l), NEW c \in Content,
           Put("running", worker[w].job, c), c.owner = None,
           l = "acking" => worker[w].job \in sealed, l = "failing" => Given(c),
           lock = None, lock' = w, UNCHANGED <<committed, sealed, keyring, faults>>
    PROVE  IInv'
<1>1. FilesOK' /\ OneFile'
  BY PutInv DEF IInv
<1>2. /\ worker' \in [Worker -> Memory] /\ Others(w)
      /\ worker'[w].pc = l /\ worker'[w].job = worker[w].job
      /\ worker'[w].turns = worker[w].turns
  <2>1. l \in Pc
    BY DEF Pc
  <2> QED
    BY <2>1, GotoMemory DEF IInv
<1>3. FaultsOK' /\ faults.kinds \subseteq faults'.kinds
  BY StillFaults DEF IInv
<1>4. ASSUME NEW v \in Worker \ {w}, Without({"identity", "rename"})', Holding(v)
      PROVE  Holding(v)'
  <2>1. files[<<"running", worker[w].job>>].owner # v
    BY <1>3, <1>4, HoldsOwn, WithoutBack
  <2> QED
    BY <1>2, <1>4, <2>1, KeptPut DEF Others
<1>5. Own(w)'
  <2>1. In("running")' = In("running") /\ files'[<<"running", worker[w].job>>] = c
    BY PutIn
  <2>2. Settling(w)'
    BY <1>2, <2>1 DEF Settling, At
  <2>3. worker[w].turns > 0
    BY DEF IInv, Own, Work, Working
  <2> QED
    BY <1>2, <2>2, <2>3
    DEF Own, Locked, Recovery, Claiming, Work, Lease, At, Inside, Working
<1> QED
  BY <1>1, <1>2, <1>3, <1>4, <1>5, LockedInv

LEMMA AckWriteInv ==
    ASSUME IInv, NEW w \in Worker, AckWrite(w)
    PROVE  IInv'
<1> DEFINE b == files[<<"running", worker[w].job>>]
           c == [b EXCEPT !.state = "done", !.owner = None]
<1>1. /\ At(w, "ack") /\ lock = None /\ Leased(w) /\ lock' = w
      /\ Put("running", worker[w].job, c) /\ Goto(w, "acking")
      /\ UNCHANGED <<committed, sealed, keyring, faults>>
  BY DEF AckWrite
<1>2. worker[w].job \in In("running") /\ worker[w].job \in sealed
  BY <1>1 DEF Leased, IInv, Own, Work, At
<1>3. c \in Content /\ c.owner = None
  BY <1>2, InType, Reset DEF IInv, Dir
<1> HIDE DEF c
<1> QED
  BY <1>1, <1>2, <1>3, SettleInv DEF At, Working

LEMMA FailWriteInv ==
    ASSUME IInv, NEW w \in Worker, FailWrite(w)
    PROVE  IInv'
<1> DEFINE b == files[<<"running", worker[w].job>>]
           s == IF b.attempt >= MaxAttempts THEN "dead-letter" ELSE "pending"
           c == [b EXCEPT !.state = s, !.owner = None]
<1>1. /\ At(w, "fail") /\ lock = None /\ worker[w].job \in In("running") /\ lock' = w
      /\ Put("running", worker[w].job, c) /\ Goto(w, "failing")
      /\ UNCHANGED <<committed, sealed, keyring, faults>>
  BY DEF FailWrite
<1>2. b \in Content /\ s \in Dir
  BY <1>1, InType DEF IInv, Dir
<1>3. s = "pending" \/ (s = "dead-letter" /\ b.attempt >= MaxAttempts)
  OBVIOUS
<1> HIDE DEF b, s
<1>4. c \in Content /\ c.owner = None /\ Given(c)
  BY <1>2, <1>3, Reset DEF Given
<1> HIDE DEF c
<1> QED
  BY <1>1, <1>4, SettleInv DEF At, Working

-------------------------------------------------------------------------------
LEMMA InitInv == Init => IInv
<1> SUFFICES ASSUME Init PROVE IInv
  OBVIOUS
<1>1. DOMAIN files = {} /\ \A w \in Worker : worker[w] = Off
  BY DEF Init
<1>2. TypeOK
  BY <1>1, QueueAssumption DEF Init, TypeOK, Off
<1>3. OneFile /\ sealed \subseteq committed
  BY <1>1 DEF Init, OneFile, In
<1>4. \A w \in Worker : Own(w)
  BY <1>1, OffMemory
  DEF Own, Locked, Recovery, Claiming, Settling, Work, Lease, At, Inside, Working
<1> QED
  BY <1>2, <1>3, <1>4 DEF IInv

LEMMA StepInv == IInv /\ [Next]_vars => IInv'
<1> SUFFICES ASSUME IInv, [Next]_vars PROVE IInv'
  OBVIOUS
<1>1. CASE UNCHANGED vars
  BY <1>1 DEF vars, IInv, TypeOK, OneFile, In, Own, Locked, Recovery, Claiming, Settling, Given,
              Work, Lease, Holding, Leased, Without, At
<1>2. ASSUME NEW j \in Job, PrepareAppend(j) \/ Enqueue(j) PROVE IInv'
  BY <1>2, PrepareInv
<1>3. ASSUME NEW w \in Worker, Launch(w) \/ AckMoveFail(w) \/ LockTimeout(w) \/ Die(w) PROVE IInv'
  BY <1>3, LaunchInv, StopInv, EndInv
<1>4. ASSUME NEW w \in Worker, Step(w) PROVE IInv'
  <2>1. CASE BeginTurn(w) \/ EndTurns(w) \/ NothingPending(w) \/ Choose(w) \/ ChooseBury(w)
    BY <2>1, BeginInv, EndInv, ChooseInv, ChooseBuryInv
  <2>2. CASE \E j \in Job : RecoverSkip(w, j) \/ RecoverWrite(w, j) \/ RecoverBury(w, j)
    BY <2>2, SkipInv, RecoverWriteInv, RecoverMoveInv
  <2>3. CASE RecoverMove(w) \/ ClaimWrite(w) \/ ClaimAbort(w) \/ ClaimMove(w)
    BY <2>3, RecoverMoveInv, ClaimWriteInv, EndInv, ClaimMoveInv
  <2>4. CASE Append(w) \/ Seal(w) \/ WorkFail(w) \/ AckRefuse(w) \/ AckTimeout(w)
    BY <2>4, AppendInv, SealInv, StopInv
  <2>5. CASE AckWrite(w) \/ AckMove(w)
    BY <2>5, AckWriteInv, AckMoveInv
  <2>6. CASE FailGone(w) \/ FailWrite(w) \/ FailMove(w) \/ FailAbort(w)
    BY <2>6, GoneInv, FailWriteInv, FailMoveInv, EndInv
  <2> QED
    BY <1>4, <2>1, <2>2, <2>3, <2>4, <2>5, <2>6 DEF Step
<1>5. CASE KeyringLost \/ KeyringBack
  BY <1>5, KeyringInv
<1> QED
  BY <1>1, <1>2, <1>3, <1>4, <1>5 DEF Next

(* Whatever the workers do, and whenever one of them is killed or a rename *)
(* fails, what each remembers of the queue agrees with the files.          *)
THEOREM Inductive == Spec => []IInv
BY InitInv, StepInv, PTL DEF Spec

(* Every variable always has its type. *)
THEOREM TypeCorrect == Spec => []TypeOK
<1>1. IInv => TypeOK
  BY DEF IInv
<1> QED
  BY <1>1, Inductive, PTL

(* No crash between writing and renaming a job file, and no second         *)
(* delivery, ever leaves a job in two directories.                         *)
THEOREM OneFileAlways == Spec => []OneFile
<1>1. IInv => OneFile
  BY DEF IInv
<1> QED
  BY <1>1, Inductive, PTL

(* A worker at work holds the lease of its job in running, or the job was  *)
(* buried under it for want of a keyring.                                  *)
THEOREM LeaseAlwaysHeld == Spec => []LeaseHeld
<1>1. IInv => LeaseHeld
  BY DEF IInv, LeaseHeld, Own, Lease, Holding, Working
<1> QED
  BY <1>1, Inductive, PTL

-------------------------------------------------------------------------------
(* Every step leaves the jobs where they are, enqueues one, or moves one   *)
(* on: to done under a seal, and to dead-letter for want of a keyring,     *)
(* because a rename fails, or after three claims.                          *)
Stays == (\A d : In(d)' = In(d)) /\ sealed \subseteq sealed' /\ sealed' \subseteq Job

MovesOn(d, e, j) ==
    /\ d \in {"pending", "running"} /\ e \in Dir /\ d # e
    /\ j \in In(d) /\ Move(d, e, j) /\ UNCHANGED sealed
    /\ e = "done" => j \in sealed
    /\ e = "dead-letter" /\ keyring /\ Without({"rename"})'
           => files[<<d, j>>].attempt >= MaxAttempts

Effect == Stays \/ (\E j \in Job : Enqueue(j)) \/ (\E d, e, j : MovesOn(d, e, j))

LEMMA SameStays == IInv /\ UNCHANGED <<files, sealed>> => Stays
BY DEF Stays, In, IInv, TypeOK

LEMMA ExitStays ==
    ASSUME IInv, NEW w \in Worker, Exit(w), UNCHANGED sealed
    PROVE  Stays
BY DisownedIn DEF Exit, Stays, IInv, TypeOK

LEMMA PutStays ==
    ASSUME IInv, NEW d, NEW j \in In(d), NEW c, Put(d, j, c), UNCHANGED sealed
    PROVE  Stays
<1>1. \A x : In(x)' = In(x)
  BY PutIn
<1> QED
  BY <1>1 DEF Stays, IInv, TypeOK

LEMMA QuietEffect ==
    ASSUME IInv, NEW w \in Worker,
           \/ Launch(w) \/ AckMoveFail(w) \/ LockTimeout(w) \/ Die(w)
           \/ BeginTurn(w) \/ EndTurns(w) \/ (\E j \in Job : RecoverSkip(w, j))
           \/ NothingPending(w) \/ Choose(w) \/ ClaimAbort(w)
           \/ Append(w) \/ Seal(w) \/ WorkFail(w) \/ AckRefuse(w) \/ AckTimeout(w)
           \/ FailGone(w) \/ FailAbort(w)
    PROVE  Stays
<1>1. CASE Launch(w) \/ AckMoveFail(w) \/ BeginTurn(w) \/ (\E j \in Job : RecoverSkip(w, j))
           \/ Choose(w) \/ Append(w) \/ WorkFail(w) \/ AckRefuse(w) \/ AckTimeout(w) \/ FailGone(w)
  BY <1>1, SameStays DEF Launch, AckMoveFail, BeginTurn, RecoverSkip, Choose, Append, WorkFail,
                         AckRefuse, AckTimeout, FailGone
<1>2. CASE LockTimeout(w) \/ Die(w) \/ EndTurns(w) \/ NothingPending(w) \/ ClaimAbort(w) \/ FailAbort(w)
  BY <1>2, ExitStays DEF LockTimeout, Die, EndTurns, NothingPending, ClaimAbort, FailAbort
<1>3. CASE Seal(w)
  BY <1>3 DEF Seal, Stays, In, IInv, TypeOK
<1> QED
  BY <1>1, <1>2, <1>3

LEMMA WriteEffect ==
    ASSUME IInv, NEW w \in Worker,
           (\E j \in Job : RecoverWrite(w, j)) \/ ClaimWrite(w) \/ AckWrite(w) \/ FailWrite(w)
    PROVE  Stays
<1>1. CASE \E j \in Job : RecoverWrite(w, j)
  <2>1. PICK j \in Job : RecoverWrite(w, j)
    BY <1>1
  <2>2. j \in In("running")
    BY <2>1, RecoveringJob DEF RecoverWrite, Recovering, At
  <2> QED
    BY <2>1, <2>2, PutStays DEF RecoverWrite
<1>2. CASE ClaimWrite(w)
  <2>1. worker[w].job \in In("pending")
    BY <1>2 DEF ClaimWrite, IInv, Own, Claiming, At
  <2> QED
    BY <1>2, <2>1, PutStays DEF ClaimWrite
<1>3. CASE AckWrite(w)
  BY <1>3, PutStays DEF AckWrite, Leased
<1>4. CASE FailWrite(w)
  BY <1>4, PutStays DEF FailWrite
<1> QED
  BY <1>1, <1>2, <1>3, <1>4

LEMMA MoveEffect ==
    ASSUME IInv, NEW w \in Worker,
           (\E j \in Job : RecoverBury(w, j)) \/ RecoverMove(w) \/ ChooseBury(w)
               \/ ClaimMove(w) \/ AckMove(w) \/ FailMove(w)
    PROVE  \E d, e, j : MovesOn(d, e, j)
<1>1. CASE \E j \in Job : RecoverBury(w, j)
  <2>1. PICK j \in Job : RecoverBury(w, j)
    BY <1>1
  <2>2. j \in In("running")
    BY <2>1, RecoveringJob DEF RecoverBury, Recovering, At
  <2>3. MovesOn("running", "dead-letter", j)
    BY <2>1, <2>2 DEF RecoverBury, MovesOn, Dir
  <2> QED
    BY <2>3
<1>2. CASE RecoverMove(w)
  <2> DEFINE j == First(worker[w].todo)
  <2>1. At(w, "recovering") /\ UNCHANGED sealed
        /\ (Move("running", "pending", j) \/ (Move("running", "dead-letter", j) /\ Fault("rename")))
    BY <1>2 DEF RecoverMove
  <2>2. worker[w].todo # {}
    BY <2>1 DEF IInv, Own, Recovery
  <2>3. j \in In("running")
    BY <2>1, <2>2, RecoveringJob DEF At
  <2> HIDE DEF j
  <2>4. Fault("rename") => ~Without({"rename"})'
    BY FaultFacts DEF IInv, Without
  <2>5. MovesOn("running", "pending", j) \/ MovesOn("running", "dead-letter", j)
    BY <2>1, <2>3, <2>4 DEF MovesOn, Dir
  <2> QED
    BY <2>5
<1>3. CASE ChooseBury(w)
  <2> DEFINE j == First(In("pending"))
  <2>1. j \in In("pending")
    BY <1>3, FirstIn DEF ChooseBury, In
  <2>2. ~keyring /\ Move("pending", "dead-letter", j) /\ UNCHANGED sealed
    BY <1>3 DEF ChooseBury
  <2> HIDE DEF j
  <2>3. MovesOn("pending", "dead-letter", j)
    BY <2>1, <2>2 DEF MovesOn, Dir
  <2> QED
    BY <2>3
<1>4. CASE ClaimMove(w)
  <2>1. worker[w].job \in In("pending")
    BY <1>4 DEF ClaimMove, IInv, Own, Claiming, At
  <2>2. MovesOn("pending", "running", worker[w].job)
    BY <1>4, <2>1 DEF ClaimMove, MovesOn, Dir
  <2> QED
    BY <2>2
<1>5. CASE AckMove(w)
  <2>1. worker[w].job \in In("running") /\ worker[w].job \in sealed
    BY <1>5 DEF AckMove, IInv, Own, Settling, Work, At
  <2>2. MovesOn("running", "done", worker[w].job)
    BY <1>5, <2>1 DEF AckMove, MovesOn, Dir
  <2> QED
    BY <2>2
<1>6. CASE FailMove(w)
  <2> DEFINE e == files[<<"running", worker[w].job>>].state
  <2>1. /\ worker[w].job \in In("running")
        /\ \/ e = "pending"
           \/ e = "dead-letter" /\ files[<<"running", worker[w].job>>].attempt >= MaxAttempts
    BY <1>6 DEF FailMove, IInv, Own, Settling, Given, At
  <2>2. Move("running", e, worker[w].job) /\ UNCHANGED sealed
    BY <1>6 DEF FailMove
  <2> HIDE DEF e
  <2>3. MovesOn("running", e, worker[w].job)
    BY <2>1, <2>2 DEF MovesOn, Dir
  <2> QED
    BY <2>3
<1> QED
  BY <1>1, <1>2, <1>3, <1>4, <1>5, <1>6

LEMMA StepEffect == IInv /\ [Next]_vars => Effect
<1> SUFFICES ASSUME IInv, [Next]_vars PROVE Effect
  OBVIOUS
<1>1. CASE UNCHANGED vars \/ KeyringLost \/ KeyringBack \/ \E j \in Job : PrepareAppend(j)
  BY <1>1, SameStays DEF Effect, vars, KeyringLost, KeyringBack, PrepareAppend
<1>2. ASSUME NEW w \in Worker, Launch(w) \/ AckMoveFail(w) \/ LockTimeout(w) \/ Die(w) PROVE Effect
  BY <1>2, QuietEffect DEF Effect
<1>3. ASSUME NEW w \in Worker, Step(w) PROVE Effect
  <2>1. CASE BeginTurn(w) \/ EndTurns(w) \/ NothingPending(w) \/ Choose(w) \/ ClaimAbort(w)
             \/ Append(w) \/ Seal(w) \/ WorkFail(w) \/ AckRefuse(w) \/ AckTimeout(w)
             \/ FailGone(w) \/ FailAbort(w)
    BY <2>1, QuietEffect DEF Effect
  <2>2. CASE \E j \in Job : RecoverSkip(w, j) \/ RecoverWrite(w, j) \/ RecoverBury(w, j)
    BY <2>2, QuietEffect, WriteEffect, MoveEffect DEF Effect
  <2>3. CASE ClaimWrite(w) \/ AckWrite(w) \/ FailWrite(w)
    BY <2>3, WriteEffect DEF Effect
  <2>4. CASE RecoverMove(w) \/ ChooseBury(w) \/ ClaimMove(w) \/ AckMove(w) \/ FailMove(w)
    BY <2>4, MoveEffect DEF Effect
  <2> QED
    BY <1>3, <2>1, <2>2, <2>3, <2>4 DEF Step
<1>4. ASSUME NEW j \in Job, Enqueue(j) PROVE Effect
  BY <1>4 DEF Effect
<1> QED
  BY <1>1, <1>2, <1>3, <1>4 DEF Next

(* While the keyring is readable and renames succeed, only a job that was  *)
(* claimed three times is given up.                                        *)
THEOREM BuriedOnlyAfterThree == Spec => BuriedAfterThree
<1> DEFINE Buried == \A j \in Job :
               keyring /\ Without({"rename"})' /\ j \notin In("dead-letter") /\ j \in In("dead-letter")'
                   => files'[<<"dead-letter", j>>].attempt >= MaxAttempts
<1>1. IInv /\ [Next]_vars => Buried
  <2> SUFFICES ASSUME IInv, [Next]_vars, NEW k \in Job, keyring, Without({"rename"})',
                      k \notin In("dead-letter"), k \in In("dead-letter")'
               PROVE  files'[<<"dead-letter", k>>].attempt >= MaxAttempts
    OBVIOUS
  <2>1. Effect
    BY StepEffect
  <2>2. ~Stays
    BY DEF Stays
  <2>3. ASSUME NEW j \in Job, Enqueue(j) PROVE FALSE
    <3>1. Put("pending", j, [state |-> "pending", attempt |-> 0, epoch |-> 0, owner |-> None])
      BY <2>3 DEF Enqueue
    <3>2. DOMAIN files' = DOMAIN files \cup {<<"pending", j>>}
      BY <3>1, PutFiles
    <3> QED
      BY <3>2 DEF In
  <2>4. PICK d, e, j : MovesOn(d, e, j)
    BY <2>1, <2>2, <2>3 DEF Effect
  <2>5. /\ DOMAIN files' = (DOMAIN files \ {<<d, j>>}) \cup {<<e, j>>}
        /\ files'[<<e, j>>] = files[<<d, j>>]
        /\ \A f \in DOMAIN files' : f # <<e, j>> => files'[f] = files[f]
    BY <2>4, MoveFiles DEF MovesOn
  <2>6. e = "dead-letter" /\ k = j
    BY <2>5 DEF In
  <2> QED
    BY <2>4, <2>5, <2>6 DEF MovesOn
<1>2. IInv /\ [Next]_vars => [Buried]_vars
  BY <1>1
<1> HIDE DEF Buried
<1>3. Spec => [][Buried]_vars
  BY <1>2, Inductive, PTL DEF Spec
<1> QED
  BY <1>3 DEF BuriedAfterThree, Buried

-------------------------------------------------------------------------------
(* SealQueue implements JobBoard. *)
Standing(j) ==
    IF j \in In("done") THEN "done" ELSE IF j \in In("dead-letter") THEN "dead"
    ELSE IF Queued(j) THEN "open" ELSE "absent"

status == [j \in Job |-> Standing(j)]

LEMMA StatusMoves ==
    ASSUME NEW j \in Job, \A k \in Job \ {j} : Standing(k)' = Standing(k)
    PROVE  status' = [status EXCEPT ![j] = Standing(j)']
BY DEF status

LEMMA StaysStands == (\A d : In(d)' = In(d)) => \A j \in Job : Standing(j)' = Standing(j)
BY DEF Standing, Queued

LEMMA StaysImplements ==
    ASSUME IInv, Stays
    PROVE  [Board!Next]_Board!vars
<1>1. status' = status
  BY StaysStands DEF Stays, status
<1>2. sealed' \in SUBSET Job /\ sealed \subseteq sealed'
  BY DEF Stays
<1>3. Board!Seal(sealed')
  BY <1>1, <1>2 DEF Board!Seal, status, Standing
<1> QED
  BY <1>2, <1>3 DEF Board!Next

LEMMA EnqueueImplements ==
    ASSUME IInv, NEW j \in Job, Enqueue(j)
    PROVE  Board!Next
<1>1. /\ DOMAIN files' = DOMAIN files \cup {<<"pending", j>>} /\ UNCHANGED sealed /\ ~Queued(j)
  BY PutFiles DEF Enqueue
<1>2. \A d \in Dir : \A k \in Job : k \in In(d)' <=> k \in In(d) \/ (d = "pending" /\ k = j)
  BY <1>1 DEF In
<1>3. \A k \in Job \ {j} : Standing(k)' = Standing(k)
  BY <1>2 DEF Standing, Queued, Dir
<1>4. Standing(j) = "absent" /\ Standing(j)' = "open"
  BY <1>1, <1>2 DEF Standing, Queued, Dir
<1>5. status[j] = "absent" /\ status' = [status EXCEPT ![j] = "open"]
  BY <1>3, <1>4, StatusMoves DEF status
<1>6. Board!Post(j)
  BY <1>1, <1>5 DEF Board!Post, status, Standing
<1> QED
  BY <1>6 DEF Board!Next

LEMMA MovesImplements ==
    ASSUME IInv, NEW d, NEW e, NEW j, MovesOn(d, e, j)
    PROVE  [Board!Next]_Board!vars
<1>1. /\ j \in Job /\ d \in {"pending", "running"} /\ e \in Dir /\ d # e /\ UNCHANGED sealed
      /\ e = "done" => j \in sealed
      /\ Move(d, e, j) /\ j \in In(d)
  BY DEF MovesOn, In
<1>2. /\ DOMAIN files' = (DOMAIN files \ {<<d, j>>}) \cup {<<e, j>>}
      /\ files'[<<e, j>>] = files[<<d, j>>]
      /\ \A f \in DOMAIN files' : f # <<e, j>> => files'[f] = files[f]
  BY <1>1, MoveFiles
<1>3. \A x \in Dir : \A k \in Job :
          k \in In(x)' <=> (k \in In(x) /\ ~(x = d /\ k = j)) \/ (x = e /\ k = j)
  BY <1>2 DEF In
<1>4. \A x \in Dir : j \in In(x) => x = d
  BY <1>1 DEF IInv, OneFile, Dir
<1>5. \A k \in Job \ {j} : Standing(k)' = Standing(k)
  BY <1>3 DEF Standing, Queued, Dir
<1>6. Standing(j) = "open"
  BY <1>1, <1>4 DEF Standing, Queued, Dir
<1>7. Standing(j)' = IF e = "done" THEN "done" ELSE IF e = "dead-letter" THEN "dead" ELSE "open"
  BY <1>1, <1>3, <1>4 DEF Standing, Queued, Dir
<1>8. status[j] = "open" /\ status' = [status EXCEPT ![j] = Standing(j)']
  BY <1>1, <1>5, <1>6, StatusMoves DEF status
<1>9. CASE e = "done"
  <2>1. Board!Complete(j)
    BY <1>1, <1>7, <1>8, <1>9 DEF Board!Complete, status, Standing
  <2> QED
    BY <1>1, <2>1 DEF Board!Next
<1>10. CASE e = "dead-letter"
  <2>1. Board!Bury(j)
    BY <1>1, <1>7, <1>8, <1>10 DEF Board!Bury, status, Standing
  <2> QED
    BY <1>1, <2>1 DEF Board!Next
<1>11. CASE e # "done" /\ e # "dead-letter"
  <2>1. Standing(j)' = Standing(j)
    BY <1>6, <1>7, <1>11
  <2>2. status' = status
    BY <1>5, <2>1 DEF status
  <2> QED
    BY <1>1, <2>2 DEF Board!vars, status, Standing
<1> QED
  BY <1>9, <1>10, <1>11

(* The files, locks and leases implement the board: a job is posted once,  *)
(* stays posted, and is closed for good, as done only under a seal that    *)
(* covers its event.                                                       *)
THEOREM QueueIsJobBoard == Spec => ImplementsJobBoard
<1>1. Init => Board!Init
  <2> SUFFICES ASSUME Init PROVE Board!Init
    OBVIOUS
  <2>1. DOMAIN files = {} /\ sealed = {}
    BY DEF Init
  <2>2. \A j \in Job : Standing(j) = "absent"
    BY <2>1 DEF Standing, Queued, In
  <2> QED
    BY <2>1, <2>2 DEF Board!Init, Standing
<1>2. IInv /\ [Next]_vars => [Board!Next]_Board!vars
  <2> SUFFICES ASSUME IInv, [Next]_vars PROVE [Board!Next]_Board!vars
    OBVIOUS
  <2> QED
    BY StepEffect, StaysImplements, EnqueueImplements, MovesImplements DEF Effect
<1> QED
  BY <1>1, <1>2, Inductive, PTL DEF Spec, ImplementsJobBoard, Board!Spec
===============================================================================
