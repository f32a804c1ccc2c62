------------------------- MODULE TaskEnvelope_proofs -------------------------
(***************************************************************************)
(* Proofs about TaskEnvelope, for any number of commands, approvals,       *)
(* actions, validations and contents.                                      *)
(***************************************************************************)
EXTENDS TaskEnvelope, TLAPS

RepoState == [head : Nat, tree : Tree]
Now == [head |-> head, tree |-> tree]

EntryState == [status : {"valid", "failed", "stale"}, print : PrintState, seen : SUBSET RepoState]
UseState == [approval : Approval, print : PrintState]
ActionState == [status : {"success", "failed"}, print : PrintState, by : UseState \cup {None}]
EnvelopeState ==
    [phase : Phases, baseline : PrintState,
     evidence : [Check -> EntryState \cup {None}],
     authorized : [Action -> UseState \cup {None}],
     actions : [Action -> ActionState \cup {None}]]

AnyCall == Call \cup {[op |-> "init"], [op |-> "amend"]} \cup [op : {"issue"}, approval : Approval]

Reads == {"status", "tracked", "staged", "untracked"}

ProcState ==
    [pc : {"idle", "blocked"}]
        \cup [pc : {"passed"}, claims : SUBSET (Surface \cup Action), print : PrintState,
              seen : SUBSET RepoState, validated : SUBSET SUBSET RepoState]
        \cup [pc : Reads \cup {"head", "act", "consume", "save"}, cmd : AnyCall,
              copy : EnvelopeState \cup {None}, print : PrintState, seen : SUBSET RepoState]

-------------------------------------------------------------------------------
(* What a snapshot has, held against what the repository was during it (S) *)
(* and the commits cs. Each part it has read is that of some state in S.   *)
Steady(S) == \A a, b \in S : a.head = b.head

Near(t, u) ==
    \/ t.tracked = u.tracked /\ t.staged = u.staged
    \/ t.tracked = u.tracked /\ t.untracked = u.untracked
    \/ t.staged = u.staged /\ t.untracked = u.untracked

Linked(S) == \A a, b \in S : S = {a, b} /\ a.head = b.head => Near(a.tree, b.tree)

DiffOf(cs, h, c) == IF c = cs[h] THEN {} ELSE {<<cs[h], c>>}

Begun(print, S, cs) ==
    /\ print \in PrintState /\ print.head \in 1 .. Len(cs)
    /\ S \in SUBSET RepoState /\ Linked(S)
    /\ \E a \in S : a.head = print.head

TrackedRead(print, S, cs) ==
    Steady(S) => \E a \in S : print.tracked = DiffOf(cs, print.head, a.tree.tracked)

StagedRead(print, S, cs) ==
    Steady(S) => \E a \in S : print.staged = DiffOf(cs, print.head, a.tree.staged)

UntrackedRead(print, S) ==
    Steady(S) => \E a \in S : print.untracked = a.tree.untracked

Complete(print, S, cs) ==
    Begun(print, S, cs) /\ TrackedRead(print, S, cs) /\ StagedRead(print, S, cs) /\ UntrackedRead(print, S)

(* What an envelope says of an action, held against the approval files ap. *)
Backed(a, use, ap) ==
    /\ ap[use.approval] # None /\ a \in Operations[use.approval]
    /\ ap[use.approval].print = use.print
    /\ use.approval \in OneTime => ap[use.approval].status = "consumed"

Sound(env, ap, cs) ==
    /\ env \in EnvelopeState
    /\ \A a \in Action : env.authorized[a] # None => Backed(a, env.authorized[a], ap)
    /\ \A a \in Action :
          LET done == env.actions[a] IN
          done # None /\ done.status = "success" =>
              /\ done.by # None /\ Backed(a, done.by, ap)
              /\ a # "committed" => done.print = done.by.print
    /\ \A c \in Check : env.evidence[c] # None =>
          Complete(env.evidence[c].print, env.evidence[c].seen, cs)

(* What a process that is at work may rely on. *)
Loaded(r, ap, cs) ==
    /\ r.cmd \in Call /\ Sound(r.copy, ap, cs)
    /\ r.cmd.op = "authorize" => ap[r.cmd.approval] # None
    /\ r.cmd.op = "action" /\ r.cmd.status = "success" => r.copy.authorized[r.cmd.action] # None

Entitled(r, ap, cs) == r.cmd.op \notin {"init", "issue"} => Loaded(r, ap, cs)

Using(r, ap, cs) ==
    /\ Loaded(r, ap, cs) /\ r.cmd.op = "authorize" /\ r.print \in PrintState
    /\ r.cmd.action \in Operations[r.cmd.approval]
    /\ ap[r.cmd.approval].print = r.print

UpToDate(r) ==
    "validated" \in r.claims =>
        \A now \in r.seen : r.seen = {now} =>
            \E S \in r.validated : now.tree \in {was.tree : was \in S} \/ ~OneChange(S)

Passing(r, ap) ==
    /\ \A a \in (r.claims \cap Action) \ {"committed"} :
          \E x \in Approval : Backed(a, [approval |-> x, print |-> r.print], ap)
    /\ UpToDate(r)

Snapped(r, cs) ==
    /\ r.pc \in Reads \cup {"act"} => Begun(r.print, r.seen, cs)
    /\ r.pc \in {"staged", "untracked", "act"} => TrackedRead(r.print, r.seen, cs)
    /\ r.pc \in {"untracked", "act"} => StagedRead(r.print, r.seen, cs)
    /\ r.pc = "act" => UntrackedRead(r.print, r.seen)

ProcSound(r, ap, cs) ==
    /\ r \in ProcState
    /\ r.pc \in Reads \cup {"head", "act"} => Entitled(r, ap, cs)
    /\ Snapped(r, cs)
    /\ r.pc = "consume" => Using(r, ap, cs)
    /\ r.pc = "save" => Sound(r.copy, ap, cs)
    /\ r.pc = "passed" => Passing(r, ap)

(* A process in the middle of a snapshot has seen what the repository is.  *)
Watches(r) == r.pc \in Reads => Now \in r.seen

RepoInv ==
    /\ commits \in Seq(Content) /\ head \in 1 .. Len(commits)
    /\ tree \in Tree

IInv ==
    /\ RepoInv
    /\ approval \in [Approval -> ApprovalState \cup {None}]
    /\ proc \in [Proc -> ProcState]
    /\ envelope # None => Sound(envelope, approval, commits)
    /\ \A p \in Proc : ProcSound(proc[p], approval, commits) /\ Watches(proc[p])

-------------------------------------------------------------------------------
(* Approval files change in one direction only, and commits are appended.  *)
Keeps(ap, bp) ==
    \A x \in Approval : ap[x] # None =>
        /\ bp[x] # None /\ bp[x].print = ap[x].print
        /\ ap[x].status = "consumed" => bp[x].status = "consumed"

Extends(cs, ds) == \A k \in 1 .. Len(cs) : k \in 1 .. Len(ds) /\ ds[k] = cs[k]

LEMMA CompleteKept ==
    ASSUME NEW cs, NEW ds, Extends(cs, ds), NEW print, NEW S
    PROVE  /\ Begun(print, S, cs) => Begun(print, S, ds)
           /\ Begun(print, S, cs) /\ TrackedRead(print, S, cs) => TrackedRead(print, S, ds)
           /\ Begun(print, S, cs) /\ StagedRead(print, S, cs) => StagedRead(print, S, ds)
           /\ Complete(print, S, cs) => Complete(print, S, ds)
<1>1. Begun(print, S, cs) => Begun(print, S, ds)
  BY DEF Begun, Extends
<1>2. ASSUME Begun(print, S, cs), NEW c PROVE DiffOf(ds, print.head, c) = DiffOf(cs, print.head, c)
  BY <1>2 DEF Begun, Extends, DiffOf
<1>3. Begun(print, S, cs) /\ TrackedRead(print, S, cs) => TrackedRead(print, S, ds)
  BY <1>2 DEF TrackedRead
<1>4. Begun(print, S, cs) /\ StagedRead(print, S, cs) => StagedRead(print, S, ds)
  BY <1>2 DEF StagedRead
<1>. QED
  BY <1>1, <1>3, <1>4 DEF Complete

LEMMA SoundKept ==
    ASSUME NEW ap, NEW bp, Keeps(ap, bp), NEW cs, NEW ds, Extends(cs, ds), NEW env, Sound(env, ap, cs)
    PROVE  Sound(env, bp, ds)
<1>1. \A a \in Action : env.authorized[a] # None => env.authorized[a] \in UseState
  BY DEF Sound, EnvelopeState
<1>2. \A a \in Action : env.actions[a] # None /\ env.actions[a].by # None => env.actions[a].by \in UseState
  BY DEF Sound, EnvelopeState, ActionState
<1>3. \A use \in UseState, a \in Action : Backed(a, use, ap) => Backed(a, use, bp)
  BY DEF Backed, Keeps, UseState
<1>4. \A c \in Check : env.evidence[c] # None =>
         Complete(env.evidence[c].print, env.evidence[c].seen, ds)
  BY CompleteKept DEF Sound
<1>. QED
  BY <1>1, <1>2, <1>3, <1>4 DEF Sound

LEMMA ProcKept ==
    ASSUME NEW ap, NEW bp, Keeps(ap, bp), NEW cs, NEW ds, Extends(cs, ds), NEW r, ProcSound(r, ap, cs)
    PROVE  ProcSound(r, bp, ds)
<1>. USE EnvelopeAssumption
<1>1. ASSUME r.cmd \in Call, r.cmd.op = "authorize"
      PROVE  r.cmd.approval \in Approval
  BY <1>1
<1>2. ASSUME Loaded(r, ap, cs) PROVE Loaded(r, bp, ds)
  <2>1. Sound(r.copy, bp, ds)
    BY <1>2, SoundKept DEF Loaded
  <2>. QED
    BY <1>1, <1>2, <2>1 DEF Loaded, Keeps
<1>3. Entitled(r, ap, cs) => Entitled(r, bp, ds)
  BY <1>2 DEF Entitled
<1>4. Using(r, ap, cs) => Using(r, bp, ds)
  BY <1>1, <1>2 DEF Using, Loaded, Keeps
<1>5. ASSUME Passing(r, ap) PROVE Passing(r, bp)
  <2>1. ASSUME NEW a, NEW x \in Approval, Backed(a, [approval |-> x, print |-> r.print], ap)
        PROVE  Backed(a, [approval |-> x, print |-> r.print], bp)
    BY <2>1 DEF Backed, Keeps
  <2>. QED
    BY <1>5, <2>1 DEF Passing
<1>6. r.pc = "save" => Sound(r.copy, bp, ds)
  BY SoundKept DEF ProcSound
<1>7. Snapped(r, ds)
  <2>1. Snapped(r, cs)
    BY DEF ProcSound
  <2>2. /\ Begun(r.print, r.seen, cs) => Begun(r.print, r.seen, ds)
        /\ Begun(r.print, r.seen, cs) /\ TrackedRead(r.print, r.seen, cs) => TrackedRead(r.print, r.seen, ds)
        /\ Begun(r.print, r.seen, cs) /\ StagedRead(r.print, r.seen, cs) => StagedRead(r.print, r.seen, ds)
    BY CompleteKept
  <2>. QED
    BY <2>1, <2>2 DEF Snapped, Reads
<1>. QED
  BY <1>3, <1>4, <1>5, <1>6, <1>7 DEF ProcSound

LEMMA KeepsRefl == ASSUME NEW ap, NEW cs PROVE Keeps(ap, ap) /\ Extends(cs, cs)
  BY DEF Keeps, Extends

(* A step that puts process p in a sound state and changes no approval,    *)
(* envelope or repository keeps the invariant; so do the others with the   *)
(* facts named.                                                            *)
LEMMA StepInv ==
    ASSUME IInv, UNCHANGED repo, approval' \in [Approval -> ApprovalState \cup {None}],
           Keeps(approval, approval'),
           NEW p \in Proc, NEW r, ProcSound(r, approval', commits), Watches(r),
           proc' = [proc EXCEPT ![p] = r],
           envelope' # None => envelope' = envelope \/ Sound(envelope', approval', commits)
    PROVE  IInv'
<1>0. RepoInv' /\ commits' = commits /\ Now' = Now /\ Extends(commits, commits)
  BY KeepsRefl DEF IInv, RepoInv, repo, Now
<1>1. r \in ProcState
  BY DEF ProcSound
<1>2. proc' \in [Proc -> ProcState]
  BY <1>1 DEF IInv
<1>3. \A q \in Proc : ProcSound(proc'[q], approval', commits) /\ Watches(proc'[q])
  <2>. SUFFICES ASSUME NEW q \in Proc
                PROVE  ProcSound(proc'[q], approval', commits) /\ Watches(proc'[q])
    OBVIOUS
  <2>1. CASE q = p
    BY <2>1 DEF IInv
  <2>2. CASE q # p
    <3>1. proc'[q] = proc[q] /\ ProcSound(proc[q], approval, commits) /\ Watches(proc[q])
      BY <2>2 DEF IInv
    <3>. QED
      BY <1>0, <3>1, ProcKept
  <2>. QED
    BY <2>1, <2>2
<1>4. envelope' # None => Sound(envelope', approval', commits)
  <2>1. CASE envelope' = envelope
    BY <1>0, <2>1, SoundKept DEF IInv
  <2>. QED
    BY <2>1
<1>5. \A q \in Proc : Watches(proc[q])' <=> Watches(proc'[q])
  BY <1>0 DEF Watches
<1>. QED
  BY <1>0, <1>2, <1>3, <1>4, <1>5 DEF IInv

LEMMA BlankType == Blank \in PrintState
  BY DEF Blank, PrintState

LEMMA IdleSound == ASSUME NEW ap, NEW cs PROVE Idle \in ProcState /\ ProcSound(Idle, ap, cs) /\ Watches(Idle)
  BY DEF Idle, ProcState, ProcSound, Snapped, Watches, Reads

LEMMA InitInv == Init => IInv
<1>. SUFFICES ASSUME Init PROVE IInv
  OBVIOUS
<1>1. RepoInv
  BY DEF Init, RepoInv, Tree
<1>. QED
  BY <1>1, IdleSound DEF Init, IInv

-------------------------------------------------------------------------------
(* Steps of the repository. Every process in the middle of a snapshot sees *)
(* them, and one change of one thing leaves the new state near the old.    *)
LEMMA SeenMore ==
    ASSUME NEW S, NEW a \in S, NEW b, Linked(S), a.head = b.head => Near(a.tree, b.tree)
    PROVE  Linked(S \cup {b})
<1>. SUFFICES ASSUME NEW c \in S \cup {b}, NEW d \in S \cup {b}, S \cup {b} = {c, d}, c.head = d.head
              PROVE  Near(c.tree, d.tree)
  BY DEF Linked
<1>1. CASE b \in S
  BY <1>1 DEF Linked
<1>2. CASE b \notin S
  <2>1. (c = b /\ (d = b \/ d = a)) \/ (c = a /\ d = b)
    BY <1>2
  <2>. QED
    BY <2>1 DEF Near
<1>. QED
  BY <1>1, <1>2

LEMMA SnappedMore ==
    ASSUME NEW cs, NEW r, NEW x \in RepoState, NEW now \in r.seen, now.head = x.head => Near(now.tree, x.tree),
           Snapped(r, cs), NEW new, new.pc = r.pc, new.print = r.print, new.seen = r.seen \cup {x}
    PROVE  Snapped(new, cs)
<1>1. Steady(new.seen) => Steady(r.seen)
  BY DEF Steady
<1>2. TrackedRead(r.print, r.seen, cs) => TrackedRead(new.print, new.seen, cs)
  BY <1>1 DEF TrackedRead
<1>3. StagedRead(r.print, r.seen, cs) => StagedRead(new.print, new.seen, cs)
  BY <1>1 DEF StagedRead
<1>4. UntrackedRead(r.print, r.seen) => UntrackedRead(new.print, new.seen)
  BY <1>1 DEF UntrackedRead
<1>5. Begun(r.print, r.seen, cs) => Begun(new.print, new.seen, cs)
  BY SeenMore DEF Begun
<1>. QED
  BY <1>2, <1>3, <1>4, <1>5 DEF Snapped

LEMMA RepoStep ==
    ASSUME IInv, NEW h, NEW t, Change(h, t), RepoInv', Extends(commits, commits'), h = head => Near(tree, t)
    PROVE  IInv'
<1>. DEFINE x == [head |-> h, tree |-> t]
            More(q) == [proc[q] EXCEPT !.seen = @ \cup {x}]
<1>1. x \in RepoState /\ Now' = x /\ approval' = approval /\ envelope' = envelope
  BY DEF Change, RepoInv, RepoState, Now, files
<1>2. Now \in RepoState /\ (Now.head = x.head => Near(Now.tree, x.tree))
  BY DEF IInv, RepoInv, RepoState, Now
<1>3. Keeps(approval, approval')
  BY <1>1, KeepsRefl
<1>4. ASSUME NEW q \in Proc
      PROVE  proc'[q] = IF proc[q].pc \in Reads THEN More(q) ELSE proc[q]
  BY DEF Change, Reading, Reads
<1>. HIDE DEF x
<1>5. ASSUME NEW q \in Proc
      PROVE  ProcSound(proc'[q], approval', commits') /\ Watches(proc[q])'
  <2>1. ProcSound(proc[q], approval', commits') /\ Watches(proc[q]) /\ proc[q] \in ProcState
    BY <1>3, ProcKept DEF IInv
  <2>2. CASE proc[q].pc \in Reads
    <3>1. /\ More(q) \in ProcState /\ More(q).pc = proc[q].pc /\ More(q).print = proc[q].print
          /\ More(q).seen = proc[q].seen \cup {x}
          /\ More(q).cmd = proc[q].cmd /\ More(q).copy = proc[q].copy
      BY <1>1, <2>1, <2>2 DEF ProcState, Reads
    <3>2. proc'[q] = More(q) /\ Now \in proc[q].seen
      BY <1>4, <2>1, <2>2 DEF Watches
    <3>. HIDE DEF More
    <3>3. Snapped(More(q), commits')
      BY <1>1, <1>2, <2>1, <3>1, <3>2, SnappedMore DEF ProcSound
    <3>4. Entitled(More(q), approval', commits')
      BY <2>1, <2>2, <3>1 DEF ProcSound, Entitled, Loaded
    <3>5. ProcSound(More(q), approval', commits')
      BY <2>2, <3>1, <3>3, <3>4 DEF ProcSound, Reads
    <3>6. Now' \in More(q).seen
      BY <1>1, <3>1
    <3>. QED
      BY <3>2, <3>5, <3>6 DEF Watches
  <2>3. CASE proc[q].pc \notin Reads
    BY <1>4, <2>1, <2>3 DEF Watches
  <2>. QED
    BY <2>2, <2>3
<1>6. proc' \in [Proc -> ProcState]
  <2>1. DOMAIN proc' = Proc /\ proc' = [q \in Proc |-> proc'[q]]
    BY DEF Change
  <2>. QED
    BY <1>5, <2>1 DEF ProcSound
<1>7. envelope' # None => Sound(envelope', approval', commits')
  BY <1>1, <1>3, SoundKept DEF IInv
<1>. QED
  BY <1>1, <1>5, <1>6, <1>7 DEF IInv

LEMMA EditInv ==
    ASSUME IInv, \/ \E c \in Content : EditTracked(c) \/ Stage(c)
                 \/ \E u \in Untracked \cup {None} : EditUntracked(u)
    PROVE  IInv'
<1>1. tree \in Tree /\ commits' = commits
  BY DEF IInv, RepoInv, EditTracked, Stage, EditUntracked
<1>2. PICK t \in Tree : Change(head, t) /\ Near(tree, t)
  <2>1. ASSUME NEW c \in Content, EditTracked(c) PROVE \E t \in Tree : Change(head, t) /\ Near(tree, t)
    <3>1. [tree EXCEPT !.tracked = c] \in Tree /\ Near(tree, [tree EXCEPT !.tracked = c])
      BY <1>1 DEF Tree, Near
    <3>. QED
      BY <2>1, <3>1 DEF EditTracked
  <2>2. ASSUME NEW c \in Content, Stage(c) PROVE \E t \in Tree : Change(head, t) /\ Near(tree, t)
    <3>1. [tree EXCEPT !.staged = c] \in Tree /\ Near(tree, [tree EXCEPT !.staged = c])
      BY <1>1 DEF Tree, Near
    <3>. QED
      BY <2>2, <3>1 DEF Stage
  <2>3. ASSUME NEW u \in Untracked \cup {None}, EditUntracked(u)
        PROVE  \E t \in Tree : Change(head, t) /\ Near(tree, t)
    <3>1. [tree EXCEPT !.untracked = u] \in Tree /\ Near(tree, [tree EXCEPT !.untracked = u])
      BY <1>1 DEF Tree, Near
    <3>. QED
      BY <2>3, <3>1 DEF EditUntracked
  <2>. QED
    BY <2>1, <2>2, <2>3
<1>3. RepoInv' /\ Extends(commits, commits')
  BY <1>1, <1>2, KeepsRefl DEF IInv, RepoInv, Change
<1>. QED
  BY <1>2, <1>3, RepoStep

LEMMA CommitInv == ASSUME IInv, Commit PROVE IInv'
<1>1. RepoInv' /\ Extends(commits, commits')
  BY DEF IInv, RepoInv, Commit, Change, Extends, Tree
<1>2. Len(commits) + 1 # head
  BY DEF IInv, RepoInv
<1>. QED
  BY <1>1, <1>2, RepoStep DEF Commit

LEMMA CheckoutInv == ASSUME IInv, NEW k \in DOMAIN commits, Checkout(k) PROVE IInv'
<1>1. commits' = commits /\ head' = k /\ tree' = tree /\ Change(k, tree) /\ k # head
  BY DEF Checkout, Change
<1>2. RepoInv' /\ Extends(commits, commits')
  BY <1>1, KeepsRefl DEF IInv, RepoInv
<1>. QED
  BY <1>1, <1>2, RepoStep

LEMMA ExpireInv == ASSUME IInv, NEW a \in Approval, Expire(a) PROVE IInv'
<1>0. UNCHANGED <<repo, proc, envelope>> /\ RepoInv' /\ Now' = Now /\ commits' = commits
  BY DEF IInv, RepoInv, Expire, repo, Now
<1>1. approval' \in [Approval -> ApprovalState \cup {None}] /\ Keeps(approval, approval')
  <2>. DEFINE new == [approval[a] EXCEPT !.status = "expired"]
  <2>1. approval[a] \in ApprovalState /\ approval' = [approval EXCEPT ![a] = new]
    BY DEF IInv, Expire
  <2>2. new \in ApprovalState /\ new.print = approval[a].print /\ new # None
    BY <2>1, EnvelopeAssumption DEF ApprovalState
  <2>. HIDE DEF new
  <2>. QED
    BY <2>1, <2>2 DEF IInv, Expire, Keeps
<1>2. \A q \in Proc : ProcSound(proc[q], approval', commits)
  BY <1>1, KeepsRefl, ProcKept DEF IInv
<1>3. envelope # None => Sound(envelope, approval', commits)
  BY <1>1, KeepsRefl, SoundKept DEF IInv
<1>. QED
  BY <1>0, <1>1, <1>2, <1>3 DEF IInv, Watches

-------------------------------------------------------------------------------
(* Steps of a command that change no file.                                 *)
LEMMA Quiet ==
    ASSUME IInv, UNCHANGED <<repo, files>>, NEW p \in Proc, NEW r,
           ProcSound(r, approval, commits), Watches(r), proc' = [proc EXCEPT ![p] = r]
    PROVE  IInv'
<1>1. approval' \in [Approval -> ApprovalState \cup {None}] /\ envelope' = envelope
  BY DEF IInv, files
<1>2. approval' = approval /\ Keeps(approval, approval')
  BY KeepsRefl DEF files
<1>. QED
  BY <1>1, <1>2, StepInv

LEMMA StopInv == ASSUME IInv, NEW p \in Proc, Stop(p) PROVE IInv'
  BY IdleSound, Quiet DEF Stop

LEMMA BeginInv ==
    ASSUME IInv, NEW p \in Proc, NEW cmd \in AnyCall, Begin(p, cmd, "head"),
           cmd.op \notin {"init", "issue"} =>
               /\ envelope # None /\ cmd \in Call
               /\ cmd.op = "authorize" => approval[cmd.approval] # None
               /\ cmd.op = "action" /\ cmd.status = "success" => envelope.authorized[cmd.action] # None
    PROVE  IInv'
<1>. DEFINE r == [pc |-> "head", cmd |-> cmd, copy |-> envelope, print |-> Blank, seen |-> {}]
<1>1. envelope \in EnvelopeState \cup {None}
  BY DEF IInv, Sound
<1>2. r \in ProcState
  BY <1>1, BlankType DEF ProcState
<1>3. Entitled(r, approval, commits)
  BY DEF Entitled, Loaded, IInv
<1>4. ProcSound(r, approval, commits) /\ Watches(r)
  BY <1>2, <1>3 DEF ProcSound, Snapped, Watches, Reads
<1>. HIDE DEF r
<1>5. proc' = [proc EXCEPT ![p] = r]
  BY DEF Begin, r
<1>. QED
  BY <1>4, <1>5, Quiet DEF Begin

LEMMA LoadInv == ASSUME IInv, NEW p \in Proc, NEW cmd \in Call, Load(p, cmd) PROVE IInv'
  BY BeginInv DEF Load, AnyCall

LEMMA StartInitInv == ASSUME IInv, NEW p \in Proc, NEW force, StartInit(p, force) PROVE IInv'
<1>1. [op |-> "init"] \in AnyCall
  BY DEF AnyCall
<1>. QED
  BY <1>1, BeginInv DEF StartInit

LEMMA StartIssueInv == ASSUME IInv, NEW p \in Proc, NEW a \in Approval, StartIssue(p, a) PROVE IInv'
<1>1. [op |-> "issue", approval |-> a] \in AnyCall
  BY DEF AnyCall
<1>. QED
  BY <1>1, BeginInv DEF StartIssue

LEMMA AmendInv ==
    ASSUME IInv, NEW p \in Proc, NEW new, Sound(new, approval, commits), Amend(p, new)
    PROVE  IInv'
<1>. DEFINE r == [pc |-> "save", cmd |-> [op |-> "amend"], copy |-> new, print |-> Blank, seen |-> {}]
<1>1. [op |-> "amend"] \in AnyCall /\ new \in EnvelopeState
  BY DEF AnyCall, Sound
<1>2. r \in ProcState
  BY <1>1, BlankType DEF ProcState
<1>3. ProcSound(r, approval, commits) /\ Watches(r)
  BY <1>2 DEF ProcSound, Snapped, Watches, Reads
<1>. HIDE DEF r
<1>4. proc' = [proc EXCEPT ![p] = r]
  BY DEF Amend, r
<1>. QED
  BY <1>3, <1>4, Quiet DEF Amend

LEMMA RewriteInv == ASSUME IInv, NEW p \in Proc, Rewrite(p) PROVE IInv'
  BY AmendInv DEF Rewrite, Amend, IInv

LEMMA TransitionInv ==
    ASSUME IInv, NEW p \in Proc, NEW to \in Phases, Transition(p, to)
    PROVE  IInv'
<1>. DEFINE new == [envelope EXCEPT !.phase = to]
<1>1. Sound(envelope, approval, commits) /\ envelope \in EnvelopeState
  BY DEF IInv, Transition, Sound
<1>2. /\ new \in EnvelopeState /\ new.authorized = envelope.authorized
      /\ new.actions = envelope.actions /\ new.evidence = envelope.evidence
  BY <1>1 DEF EnvelopeState
<1>. HIDE DEF new
<1>3. Sound(new, approval, commits)
  BY <1>1, <1>2 DEF Sound
<1>. QED
  BY <1>3, AmendInv DEF Transition, new

-------------------------------------------------------------------------------
(* The reads of a snapshot. If HEAD was the same in all of them, a         *)
(* difference is one to the commit the snapshot began with.                *)
LEMMA ReadInv ==
    ASSUME IInv, UNCHANGED <<repo, files>>, NEW p \in Proc, proc[p].pc \in {"head"} \cup Reads,
           NEW r \in ProcState, r.pc \in Reads \cup {"act"}, r.cmd = proc[p].cmd, r.copy = proc[p].copy,
           Snapped(r, commits), Now \in r.seen, proc' = [proc EXCEPT ![p] = r]
    PROVE  IInv'
<1>1. Entitled(r, approval, commits)
  BY DEF IInv, ProcSound, Entitled, Loaded
<1>2. ProcSound(r, approval, commits) /\ Watches(r)
  BY <1>1 DEF ProcSound, Watches, Reads
<1>. QED
  BY <1>2, Quiet

LEMMA ReadHeadInv == ASSUME IInv, NEW p \in Proc, ReadHead(p) PROVE IInv'
<1>. DEFINE print == [Blank EXCEPT !.head = head]
            r == [proc[p] EXCEPT !.pc = "status", !.print = print, !.seen = {Now}]
<1>1. proc[p] \in ProcState /\ proc[p].pc = "head"
  BY DEF IInv, ReadHead, At
<1>2. print \in PrintState /\ print.head = head /\ head \in 1 .. Len(commits) /\ Now \in RepoState /\ Now.head = head
  BY DEF IInv, RepoInv, PrintState, Blank, Now, RepoState
<1>. HIDE DEF print
<1>3. /\ r \in ProcState /\ r.pc = "status" /\ r.print = print /\ r.seen = {Now}
      /\ r.cmd = proc[p].cmd /\ r.copy = proc[p].copy
  BY <1>1, <1>2 DEF ProcState, Reads
<1>4. proc' = [proc EXCEPT ![p] = r] /\ UNCHANGED <<repo, files>>
  BY DEF ReadHead, Now, print
<1>. HIDE DEF r
<1>5. Linked({Now})
  BY DEF Linked, Near
<1>6. Snapped(r, commits)
  BY <1>2, <1>3, <1>5 DEF Snapped, Begun
<1>. QED
  BY <1>1, <1>3, <1>4, <1>6, ReadInv DEF Reads

LEMMA ReadFacts ==
    ASSUME IInv, NEW p \in Proc, proc[p].pc \in Reads
    PROVE  /\ proc[p] \in ProcState /\ Begun(proc[p].print, proc[p].seen, commits)
           /\ Snapped(proc[p], commits) /\ Now \in proc[p].seen
           /\ tree.tracked \in Content /\ tree.staged \in Content /\ tree.untracked \in Untracked \cup {None}
           /\ \A c \in Content : Difference(c) \in SUBSET (Content \X Content)
           /\ Steady(proc[p].seen) => \A c : Difference(c) = DiffOf(commits, proc[p].print.head, c)
<1>1. proc[p] \in ProcState /\ Snapped(proc[p], commits) /\ Now \in proc[p].seen
  BY DEF IInv, ProcSound, Watches
<1>2. Begun(proc[p].print, proc[p].seen, commits)
  BY <1>1 DEF Snapped
<1>3. Steady(proc[p].seen) => head = proc[p].print.head
  BY <1>1, <1>2 DEF Begun, Steady, Now
<1>4. \A c \in Content : Difference(c) \in SUBSET (Content \X Content)
  BY DEF IInv, RepoInv, Difference
<1>. QED
  BY <1>1, <1>2, <1>3, <1>4 DEF IInv, RepoInv, Tree, Difference, DiffOf

LEMMA ReadStatusInv == ASSUME IInv, NEW p \in Proc, ReadStatus(p) PROVE IInv'
<1>. DEFINE was == proc[p].print
            print == [was EXCEPT !.status = Status]
            r == [proc[p] EXCEPT !.pc = "tracked", !.print = print]
<1>1. proc[p].pc = "status"
  BY DEF ReadStatus, At
<1>2. /\ proc[p] \in ProcState /\ Begun(was, proc[p].seen, commits) /\ Now \in proc[p].seen
  BY <1>1, ReadFacts DEF Reads
<1>3. print \in PrintState /\ print.head = was.head
  BY <1>2 DEF Begun, PrintState, Status
<1>. HIDE DEF print
<1>4. /\ r \in ProcState /\ r.pc = "tracked" /\ r.print = print /\ r.seen = proc[p].seen
      /\ r.cmd = proc[p].cmd /\ r.copy = proc[p].copy
  BY <1>1, <1>2, <1>3 DEF ProcState, Reads
<1>5. proc' = [proc EXCEPT ![p] = r] /\ UNCHANGED <<repo, files>>
  BY DEF ReadStatus, Took, print
<1>. HIDE DEF r
<1>6. Snapped(r, commits)
  BY <1>2, <1>3, <1>4 DEF Snapped, Begun
<1>. QED
  BY <1>1, <1>2, <1>4, <1>5, <1>6, ReadInv DEF Reads

LEMMA ReadTrackedInv == ASSUME IInv, NEW p \in Proc, ReadTracked(p) PROVE IInv'
<1>. DEFINE was == proc[p].print
            print == [was EXCEPT !.tracked = Difference(tree.tracked)]
            r == [proc[p] EXCEPT !.pc = "staged", !.print = print]
<1>1. proc[p].pc = "tracked"
  BY DEF ReadTracked, At
<1>2. /\ proc[p] \in ProcState /\ Begun(was, proc[p].seen, commits) /\ Now \in proc[p].seen
      /\ Difference(tree.tracked) \in SUBSET (Content \X Content)
      /\ Steady(proc[p].seen) => Difference(tree.tracked) = DiffOf(commits, was.head, tree.tracked)
  BY <1>1, ReadFacts DEF Reads
<1>3. print \in PrintState /\ print.head = was.head /\ print.tracked = Difference(tree.tracked)
  BY <1>2 DEF Begun, PrintState
<1>. HIDE DEF print
<1>4. /\ r \in ProcState /\ r.pc = "staged" /\ r.print = print /\ r.seen = proc[p].seen
      /\ r.cmd = proc[p].cmd /\ r.copy = proc[p].copy
  BY <1>1, <1>2, <1>3 DEF ProcState, Reads
<1>5. proc' = [proc EXCEPT ![p] = r] /\ UNCHANGED <<repo, files>>
  BY DEF ReadTracked, Took, print
<1>. HIDE DEF r
<1>6. Begun(print, proc[p].seen, commits) /\ TrackedRead(print, proc[p].seen, commits)
  BY <1>2, <1>3 DEF Begun, TrackedRead, Now
<1>7. Snapped(r, commits)
  BY <1>4, <1>6 DEF Snapped
<1>. QED
  BY <1>1, <1>2, <1>4, <1>5, <1>7, ReadInv DEF Reads

LEMMA ReadStagedInv == ASSUME IInv, NEW p \in Proc, ReadStaged(p) PROVE IInv'
<1>. DEFINE was == proc[p].print
            print == [was EXCEPT !.staged = Difference(tree.staged)]
            r == [proc[p] EXCEPT !.pc = "untracked", !.print = print]
<1>1. proc[p].pc = "staged"
  BY DEF ReadStaged, At
<1>2. /\ proc[p] \in ProcState /\ Begun(was, proc[p].seen, commits) /\ Now \in proc[p].seen
      /\ Snapped(proc[p], commits)
      /\ Difference(tree.staged) \in SUBSET (Content \X Content)
      /\ Steady(proc[p].seen) => Difference(tree.staged) = DiffOf(commits, was.head, tree.staged)
  BY <1>1, ReadFacts DEF Reads
<1>3. /\ print \in PrintState /\ print.head = was.head /\ print.staged = Difference(tree.staged)
      /\ print.tracked = was.tracked
  BY <1>2 DEF Begun, PrintState
<1>. HIDE DEF print
<1>4. /\ r \in ProcState /\ r.pc = "untracked" /\ r.print = print /\ r.seen = proc[p].seen
      /\ r.cmd = proc[p].cmd /\ r.copy = proc[p].copy
  BY <1>1, <1>2, <1>3 DEF ProcState, Reads
<1>5. proc' = [proc EXCEPT ![p] = r] /\ UNCHANGED <<repo, files>>
  BY DEF ReadStaged, Took, print
<1>. HIDE DEF r
<1>6. Begun(print, proc[p].seen, commits) /\ StagedRead(print, proc[p].seen, commits)
  BY <1>2, <1>3 DEF Begun, StagedRead, Now
<1>7. TrackedRead(was, proc[p].seen, commits)
  BY <1>1, <1>2 DEF Snapped
<1>8. TrackedRead(print, proc[p].seen, commits)
  BY <1>3, <1>7 DEF TrackedRead
<1>9. Snapped(r, commits)
  BY <1>4, <1>6, <1>8 DEF Snapped
<1>. QED
  BY <1>1, <1>2, <1>4, <1>5, <1>9, ReadInv DEF Reads

LEMMA ReadUntrackedInv == ASSUME IInv, NEW p \in Proc, ReadUntracked(p) PROVE IInv'
<1>. DEFINE was == proc[p].print
            print == [was EXCEPT !.untracked = tree.untracked]
            r == [proc[p] EXCEPT !.pc = "act", !.print = print]
<1>1. proc[p].pc = "untracked"
  BY DEF ReadUntracked, At
<1>2. /\ proc[p] \in ProcState /\ Begun(was, proc[p].seen, commits) /\ Now \in proc[p].seen
      /\ Snapped(proc[p], commits) /\ tree.untracked \in Untracked \cup {None}
  BY <1>1, ReadFacts DEF Reads
<1>3. /\ print \in PrintState /\ print.head = was.head /\ print.untracked = tree.untracked
      /\ print.tracked = was.tracked /\ print.staged = was.staged
  BY <1>2 DEF Begun, PrintState
<1>. HIDE DEF print
<1>4. /\ r \in ProcState /\ r.pc = "act" /\ r.print = print /\ r.seen = proc[p].seen
      /\ r.cmd = proc[p].cmd /\ r.copy = proc[p].copy
  BY <1>1, <1>2, <1>3 DEF ProcState, Reads
<1>5. proc' = [proc EXCEPT ![p] = r] /\ UNCHANGED <<repo, files>>
  BY DEF ReadUntracked, Took, print
<1>. HIDE DEF r
<1>6. Begun(print, proc[p].seen, commits) /\ UntrackedRead(print, proc[p].seen)
  BY <1>2, <1>3 DEF Begun, UntrackedRead, Now
<1>7. TrackedRead(was, proc[p].seen, commits) /\ StagedRead(was, proc[p].seen, commits)
  BY <1>1, <1>2 DEF Snapped
<1>8. TrackedRead(print, proc[p].seen, commits) /\ StagedRead(print, proc[p].seen, commits)
  BY <1>3, <1>7 DEF TrackedRead, StagedRead
<1>9. Snapped(r, commits)
  BY <1>4, <1>6, <1>8 DEF Snapped
<1>. QED
  BY <1>1, <1>2, <1>4, <1>5, <1>9, ReadInv DEF Reads

-------------------------------------------------------------------------------
(* Steps at the end of a snapshot.                                         *)
LEMMA SnapshotFacts ==
    ASSUME IInv, NEW p \in Proc, At(p, "act")
    PROVE  /\ proc[p] \in ProcState /\ Snapshot(p) \in PrintState /\ proc[p].seen \in SUBSET RepoState
           /\ Complete(Snapshot(p), proc[p].seen, commits)
<1>1. proc[p] \in ProcState /\ Snapped(proc[p], commits) /\ proc[p].pc = "act"
  BY DEF IInv, At, ProcSound
<1>2. Complete(Snapshot(p), proc[p].seen, commits)
  BY <1>1 DEF Snapped, Complete, Snapshot
<1>. QED
  BY <1>1, <1>2 DEF Complete, Begun

LEMMA CallFacts ==
    ASSUME IInv, NEW p \in Proc, At(p, "act"), Cmd(p).op \notin {"init", "issue"}
    PROVE  Loaded(proc[p], approval, commits) /\ Cmd(p) \in Call
           /\ Sound(Copy(p), approval, commits) /\ Copy(p) \in EnvelopeState
  BY DEF IInv, At, ProcSound, Entitled, Loaded, Cmd, Copy, Sound

LEMMA ToSaveSound ==
    ASSUME NEW ap, NEW cs, NEW new, Sound(new, ap, cs),
           NEW r \in ProcState, r.pc \in {"act", "consume"},
           NEW s, s = [r EXCEPT !.pc = "save", !.copy = new, !.print = Blank, !.seen = {}]
    PROVE  ProcSound(s, ap, cs) /\ Watches(s)
<1>1. new \in EnvelopeState
  BY DEF Sound
<1>2. s \in ProcState /\ s.pc = "save" /\ s.copy = new
  BY <1>1, BlankType DEF ProcState, Reads
<1>. QED
  BY <1>2 DEF ProcSound, Snapped, Watches, Reads

LEMMA ToSaveInv ==
    ASSUME IInv, NEW p \in Proc, At(p, "act"), NEW new, ToSave(p, new), Sound(new, approval, commits),
           UNCHANGED <<repo, files>>
    PROVE  IInv'
<1>. DEFINE r == [proc[p] EXCEPT !.pc = "save", !.copy = new, !.print = Blank, !.seen = {}]
<1>1. proc' = [proc EXCEPT ![p] = r]
  BY DEF ToSave
<1>. HIDE DEF r
<1>2. ProcSound(r, approval, commits) /\ Watches(r)
  BY SnapshotFacts, ToSaveSound DEF r, At
<1>. QED
  BY <1>1, <1>2, Quiet

LEMMA RecordEvidenceInv == ASSUME IInv, NEW p \in Proc, RecordEvidence(p) PROVE IInv'
<1>. DEFINE entry == [status |-> Cmd(p).status, print |-> Snapshot(p), seen |-> proc[p].seen]
            new == [Copy(p) EXCEPT !.evidence = [@ EXCEPT ![Cmd(p).check] = entry]]
<1>1. At(p, "act") /\ Cmd(p).op = "evidence"
  BY DEF RecordEvidence, Taken
<1>2. Cmd(p) \in Call /\ Sound(Copy(p), approval, commits) /\ Copy(p) \in EnvelopeState
  BY <1>1, CallFacts
<1>3. Cmd(p).check \in Check /\ Cmd(p).status \in {"valid", "failed"}
  BY <1>1, <1>2, EnvelopeAssumption
<1>4. entry \in EntryState /\ Complete(entry.print, entry.seen, commits)
  BY <1>1, <1>3, SnapshotFacts DEF EntryState
<1>. HIDE DEF entry
<1>5. /\ new \in EnvelopeState /\ new.authorized = Copy(p).authorized /\ new.actions = Copy(p).actions
      /\ \A c \in Check : new.evidence[c] = IF c = Cmd(p).check THEN entry ELSE Copy(p).evidence[c]
  BY <1>2, <1>3, <1>4 DEF EnvelopeState
<1>6. ToSave(p, new) /\ UNCHANGED <<repo, files>>
  BY DEF RecordEvidence, entry
<1>. HIDE DEF new
<1>7. Sound(new, approval, commits)
  BY <1>2, <1>4, <1>5 DEF Sound
<1>. QED
  BY <1>1, <1>6, <1>7, ToSaveInv

LEMMA ValidateInv == ASSUME IInv, NEW p \in Proc, Validate(p) PROVE IInv'
<1>. DEFINE Mark(e) == IF e # None /\ e.print # Snapshot(p) THEN [e EXCEPT !.status = "stale"] ELSE e
            old == Copy(p).evidence
            new == [Copy(p) EXCEPT !.evidence = [c \in Check |-> Mark(old[c])]]
<1>1. At(p, "act") /\ Cmd(p).op = "validate"
  BY DEF Validate, Taken
<1>2. Sound(Copy(p), approval, commits) /\ Copy(p) \in EnvelopeState
  BY <1>1, CallFacts
<1>3. old \in [Check -> EntryState \cup {None}]
  BY <1>2 DEF EnvelopeState
<1>4. \A c \in Check :
        /\ Mark(old[c]) \in EntryState \cup {None}
        /\ old[c] # None => Mark(old[c]).print = old[c].print /\ Mark(old[c]).seen = old[c].seen
        /\ old[c] = None => Mark(old[c]) = None
  BY <1>3 DEF EntryState
<1>5. ToSave(p, new) /\ UNCHANGED <<repo, files>>
  BY DEF Validate
<1>. HIDE DEF Mark
<1>6. /\ new \in EnvelopeState /\ new.authorized = Copy(p).authorized /\ new.actions = Copy(p).actions
      /\ \A c \in Check : new.evidence[c] = Mark(old[c])
  BY <1>2, <1>4 DEF EnvelopeState
<1>. HIDE DEF new
<1>7. Sound(new, approval, commits)
  BY <1>2, <1>4, <1>6 DEF Sound
<1>. QED
  BY <1>1, <1>5, <1>7, ToSaveInv

LEMMA InitEnvelopeInv == ASSUME IInv, NEW p \in Proc, InitEnvelope(p) PROVE IInv'
<1>1. At(p, "act") /\ Snapshot(p) \in PrintState
  BY SnapshotFacts DEF InitEnvelope, Taken
<1>2. Sound(Fresh(Snapshot(p)), approval, commits)
  BY <1>1 DEF Fresh, Sound, EnvelopeState, Phases
<1>. QED
  BY <1>1, <1>2, ToSaveInv DEF InitEnvelope

LEMMA CheckApprovalInv == ASSUME IInv, NEW p \in Proc, CheckApproval(p) PROVE IInv'
<1>. DEFINE r == [proc[p] EXCEPT !.pc = "consume", !.seen = {}]
<1>1. At(p, "act") /\ Cmd(p).op = "authorize" /\ ApprovalValid(Cmd(p).approval, Cmd(p).action, Snapshot(p))
  BY DEF CheckApproval, Taken
<1>2. Loaded(proc[p], approval, commits) /\ proc[p] \in ProcState /\ Snapshot(p) \in PrintState /\ proc[p].pc = "act"
  BY <1>1, CallFacts, SnapshotFacts DEF At
<1>3. /\ r \in ProcState /\ r.pc = "consume" /\ r.copy = proc[p].copy /\ r.print = proc[p].print
      /\ r.cmd = proc[p].cmd
  BY <1>2 DEF ProcState, Reads
<1>4. proc' = [proc EXCEPT ![p] = r] /\ UNCHANGED <<repo, files>>
  BY DEF CheckApproval
<1>. HIDE DEF r
<1>5. Using(r, approval, commits)
  BY <1>1, <1>2, <1>3 DEF Using, Loaded, Cmd, Snapshot, ApprovalValid
<1>6. ProcSound(r, approval, commits) /\ Watches(r)
  BY <1>3, <1>5 DEF ProcSound, Snapped, Watches, Reads
<1>. QED
  BY <1>4, <1>6, Quiet

LEMMA RecordActionInv == ASSUME IInv, NEW p \in Proc, RecordAction(p) PROVE IInv'
<1>. DEFINE a == Cmd(p).action
            by == Copy(p).authorized[a]
            done == [status |-> Cmd(p).status, print |-> Snapshot(p), by |-> by]
            new == [Copy(p) EXCEPT !.actions = [@ EXCEPT ![a] = done]]
<1>1. At(p, "act") /\ Cmd(p).op = "action"
  BY DEF RecordAction, Taken
<1>2. Cmd(p) \in Call /\ Sound(Copy(p), approval, commits) /\ Copy(p) \in EnvelopeState
  BY <1>1, CallFacts
<1>3. a \in Action /\ Cmd(p).status \in {"success", "failed"}
  BY <1>1, <1>2, EnvelopeAssumption
<1>4. by \in UseState \cup {None}
  BY <1>2, <1>3 DEF EnvelopeState
<1>5. done \in ActionState
  BY <1>1, <1>3, <1>4, SnapshotFacts DEF ActionState
<1>6. Cmd(p).status = "success" => by # None
  BY <1>1, CallFacts DEF Loaded, Cmd, Copy
<1>7. Cmd(p).status = "success" => Backed(a, by, approval)
  BY <1>2, <1>3, <1>6 DEF Sound
<1>8. Cmd(p).status = "success" /\ a # "committed" => Snapshot(p) = by.print
  BY DEF RecordAction, ReadbackAgrees
<1>9. ToSave(p, new) /\ UNCHANGED <<repo, files>>
  BY DEF RecordAction
<1>10. done.status = Cmd(p).status /\ done.print = Snapshot(p) /\ done.by = by
  OBVIOUS
<1>. HIDE DEF done, by
<1>11. /\ new \in EnvelopeState /\ new.authorized = Copy(p).authorized /\ new.evidence = Copy(p).evidence
       /\ \A x \in Action : new.actions[x] = IF x = a THEN done ELSE Copy(p).actions[x]
  BY <1>2, <1>3, <1>5 DEF EnvelopeState
<1>. HIDE DEF new, a
<1>12. Sound(new, approval, commits)
  <2>1. \A x \in Action :
          LET d == new.actions[x] IN
          d # None /\ d.status = "success" =>
              d.by # None /\ Backed(x, d.by, approval) /\ (x # "committed" => d.print = d.by.print)
    <3>. SUFFICES ASSUME NEW x \in Action, new.actions[x] # None, new.actions[x].status = "success"
                  PROVE  /\ new.actions[x].by # None /\ Backed(x, new.actions[x].by, approval)
                         /\ x # "committed" => new.actions[x].print = new.actions[x].by.print
      OBVIOUS
    <3>1. CASE x = a
      BY <3>1, <1>6, <1>7, <1>8, <1>10, <1>11
    <3>2. CASE x # a
      BY <3>2, <1>2, <1>11 DEF Sound
    <3>. QED
      BY <3>1, <3>2
  <2>. QED
    BY <2>1, <1>2, <1>11 DEF Sound
<1>. QED
  BY <1>1, <1>9, <1>12, ToSaveInv

-------------------------------------------------------------------------------
(* Steps that write a file, and the report.                                *)
LEMMA SaveInv == ASSUME IInv, NEW p \in Proc, Save(p) PROVE IInv'
<1>1. Sound(envelope', approval, commits)
  BY DEF IInv, Save, At, Copy, ProcSound
<1>2. /\ UNCHANGED repo /\ approval' = approval /\ approval' \in [Approval -> ApprovalState \cup {None}]
      /\ proc' = [proc EXCEPT ![p] = Idle]
  BY DEF IInv, Save
<1>. QED
  BY <1>1, <1>2, IdleSound, KeepsRefl, StepInv

LEMMA IssueInv == ASSUME IInv, NEW p \in Proc, Issue(p) PROVE IInv'
<1>. DEFINE a == Cmd(p).approval
            new == [status |-> "active", print |-> Snapshot(p)]
<1>1. At(p, "act") /\ Snapshot(p) \in PrintState
  BY SnapshotFacts DEF Issue, Taken
<1>2. approval[a] = None /\ approval' = [approval EXCEPT ![a] = new] /\ new \in ApprovalState
  BY <1>1 DEF Issue, ApprovalState
<1>3. approval' \in [Approval -> ApprovalState \cup {None}] /\ Keeps(approval, approval')
  BY <1>2 DEF IInv, Keeps
<1>4. UNCHANGED repo /\ envelope' = envelope /\ proc' = [proc EXCEPT ![p] = Idle]
  BY DEF Issue
<1>. QED
  BY <1>3, <1>4, IdleSound, StepInv

LEMMA ConsumeApprovalInv == ASSUME IInv, NEW p \in Proc, ConsumeApproval(p) PROVE IInv'
<1>. DEFINE a == Cmd(p).approval
            x == Cmd(p).action
            file == [approval[a] EXCEPT !.status = IF a \in OneTime THEN "consumed" ELSE @]
            use == [approval |-> a, print |-> Snapshot(p)]
            new == [Copy(p) EXCEPT !.authorized = [@ EXCEPT ![x] = use]]
            r == [proc[p] EXCEPT !.pc = "save", !.copy = new, !.print = Blank, !.seen = {}]
<1>1. Using(proc[p], approval, commits) /\ proc[p] \in ProcState /\ proc[p].pc = "consume"
  BY DEF IInv, ConsumeApproval, At, ProcSound
<1>2. /\ Sound(Copy(p), approval, commits) /\ Copy(p) \in EnvelopeState
      /\ Cmd(p) \in Call /\ Cmd(p).op = "authorize" /\ Snapshot(p) \in PrintState
      /\ approval[a] # None /\ approval[a].print = Snapshot(p) /\ x \in Operations[a]
  BY <1>1 DEF Using, Loaded, Sound, Cmd, Copy, Snapshot
<1>3. a \in Approval /\ x \in Action
  BY <1>2, EnvelopeAssumption
<1>4. approval[a] \in ApprovalState /\ approval \in [Approval -> ApprovalState \cup {None}]
  BY <1>2, <1>3 DEF IInv
<1>5. /\ file \in ApprovalState /\ file.print = Snapshot(p)
      /\ a \in OneTime => file.status = "consumed"
      /\ approval[a].status = "consumed" => file.status = "consumed"
  BY <1>2, <1>4 DEF ApprovalState
<1>6. file # None
  BY <1>5, EnvelopeAssumption
<1>7. approval' = [approval EXCEPT ![a] = file] /\ proc' = [proc EXCEPT ![p] = r]
  BY DEF ConsumeApproval, Authorized, ToSave
<1>. HIDE DEF file
<1>8. approval' \in [Approval -> ApprovalState \cup {None}] /\ Keeps(approval, approval')
  BY <1>2, <1>3, <1>4, <1>5, <1>6, <1>7 DEF Keeps
<1>9. use \in UseState /\ Backed(x, use, approval')
  BY <1>2, <1>3, <1>4, <1>5, <1>6, <1>7 DEF UseState, Backed
<1>. HIDE DEF use
<1>10. /\ new \in EnvelopeState /\ new.actions = Copy(p).actions /\ new.evidence = Copy(p).evidence
       /\ \A y \in Action : new.authorized[y] = IF y = x THEN use ELSE Copy(p).authorized[y]
  BY <1>2, <1>3, <1>9 DEF EnvelopeState
<1>. HIDE DEF new, x
<1>11. Sound(new, approval', commits)
  <2>1. Sound(Copy(p), approval', commits)
    BY <1>2, <1>8, SoundKept, KeepsRefl
  <2>. QED
    BY <2>1, <1>9, <1>10 DEF Sound
<1>. HIDE DEF r
<1>12. ProcSound(r, approval', commits) /\ Watches(r)
  BY <1>1, <1>11, ToSaveSound DEF r
<1>13. UNCHANGED repo /\ envelope' = envelope
  BY DEF ConsumeApproval
<1>. QED
  BY <1>7, <1>8, <1>12, <1>13, StepInv

(* What a snapshot says of a repository at rest, x, another one said of    *)
(* the repository while it changed at most once: x is one of the two.      *)
LEMMA FreshTree ==
    ASSUME NEW print, NEW x, NEW S, NEW cs, OneChange(S),
           Complete(print, {x}, cs), Complete(print, S, cs)
    PROVE  x.tree \in {was.tree : was \in S}
<1>. DEFINE h == print.head
<1>1. PICK a \in S, b \in S : S = {a, b} /\ a.head = b.head
  BY DEF OneChange
<1>2. Near(a.tree, b.tree) /\ a.tree \in Tree /\ b.tree \in Tree /\ x.tree \in Tree
  BY <1>1 DEF Complete, Begun, Linked, RepoState
<1>3. Steady(S) /\ Steady({x})
  BY <1>1 DEF Steady
<1>4. ASSUME NEW c, NEW d, DiffOf(cs, h, c) = DiffOf(cs, h, d) PROVE c = d
  <2>1. CASE c = cs[h] \/ d = cs[h]
    BY <1>4, <2>1 DEF DiffOf
  <2>2. CASE c # cs[h] /\ d # cs[h]
    <3>1. {<<cs[h], c>>} = {<<cs[h], d>>}
      BY <1>4, <2>2 DEF DiffOf
    <3>2. <<cs[h], c>> = <<cs[h], d>>
      BY <3>1
    <3>. QED
      BY <3>2
  <2>. QED
    BY <2>1, <2>2
<1>5. PICK u \in S : x.tree.tracked = u.tree.tracked
  BY <1>3, <1>4 DEF Complete, TrackedRead
<1>6. PICK v \in S : x.tree.staged = v.tree.staged
  BY <1>3, <1>4 DEF Complete, StagedRead
<1>7. PICK w \in S : x.tree.untracked = w.tree.untracked
  BY <1>3 DEF Complete, UntrackedRead
<1>8. ASSUME NEW t \in Tree, x.tree.tracked = t.tracked, x.tree.staged = t.staged, x.tree.untracked = t.untracked
      PROVE  x.tree = t
  BY <1>2, <1>8 DEF Tree
<1>9. u \in {a, b} /\ v \in {a, b} /\ w \in {a, b}
  BY <1>1
<1>10. \E t \in {a.tree, b.tree} :
         x.tree.tracked = t.tracked /\ x.tree.staged = t.staged /\ x.tree.untracked = t.untracked
  BY <1>2, <1>5, <1>6, <1>7, <1>9 DEF Near
<1>. QED
  BY <1>1, <1>2, <1>8, <1>10

LEMMA FinalizeInv == ASSUME IInv, NEW p \in Proc, Finalize(p) PROVE IInv'
<1>. DEFINE S == Snapshot(p)
            validated == {Copy(p).evidence[c].seen : c \in Current(Copy(p), S)}
            passed == [pc |-> "passed", claims |-> Cmd(p).claims, print |-> S, seen |-> proc[p].seen,
                       validated |-> validated]
            blocked == [pc |-> "blocked"]
<1>1. At(p, "act") /\ Cmd(p).op = "finalize"
  BY DEF Finalize, Taken
<1>2. Cmd(p) \in Call /\ Sound(Copy(p), approval, commits) /\ Copy(p) \in EnvelopeState
  BY <1>1, CallFacts
<1>3. Cmd(p).claims \subseteq Surface \cup Action
  BY <1>1, <1>2, EnvelopeAssumption
<1>4. S \in PrintState /\ Complete(S, proc[p].seen, commits) /\ proc[p].seen \in SUBSET RepoState
  BY <1>1, SnapshotFacts
<1>5. ProcSound(blocked, approval, commits) /\ Watches(blocked)
  BY DEF ProcSound, ProcState, Snapped, Watches, Reads
<1>6. ASSUME Cmd(p).claims \subseteq Surfaces(Copy(p), S)
      PROVE  ProcSound(passed, approval, commits) /\ Watches(passed)
  <2>1. \A c \in Current(Copy(p), S) :
          /\ Complete(S, Copy(p).evidence[c].seen, commits)
          /\ Copy(p).evidence[c].seen \in SUBSET RepoState
    BY <1>2 DEF Current, Sound, Complete, Begun
  <2>2. passed \in ProcState
    BY <1>3, <1>4, <2>1 DEF ProcState
  <2>3. ASSUME NEW a \in (Cmd(p).claims \cap Action) \ {"committed"}, a \in Confirmed(Copy(p), S)
        PROVE  \E x \in Approval : Backed(a, [approval |-> x, print |-> S], approval)
    <3>. DEFINE done == Copy(p).actions[a]
    <3>1. /\ done # None /\ done.status = "success" /\ done.print = S
          /\ done.by # None /\ Backed(a, done.by, approval) /\ done.print = done.by.print
      BY <1>2, <2>3 DEF Confirmed, Sound
    <3>2. done.by \in UseState
      BY <1>2, <3>1 DEF EnvelopeState, ActionState
    <3>3. done.by.approval \in Approval /\ done.by.print = S
      BY <3>1, <3>2 DEF UseState
    <3>. QED
      BY <3>1, <3>3 DEF Backed
  <2>4. ASSUME NEW a \in (Cmd(p).claims \cap Action) \ {"committed"}, a \notin Surface
        PROVE  a \in Confirmed(Copy(p), S)
    BY <1>6, <2>4 DEF Surfaces, Surface
  <2>5. ASSUME "validated" \in Cmd(p).claims, NEW now, proc[p].seen = {now}
        PROVE  \E R \in validated : now.tree \in {was.tree : was \in R} \/ ~OneChange(R)
    <3>1. "validated" \in Surfaces(Copy(p), S)
      BY <1>6, <2>5
    <3>2. Current(Copy(p), S) # {}
      BY <3>1, EnvelopeAssumption DEF Surfaces, Confirmed, Surface
    <3>3. PICK c \in Current(Copy(p), S) : TRUE
      BY <3>2
    <3>. DEFINE R == Copy(p).evidence[c].seen
    <3>4. Complete(S, R, commits) /\ Complete(S, {now}, commits) /\ R \in validated
      BY <1>4, <2>1, <2>5, <3>3
    <3>. HIDE DEF R, validated, S
    <3>5. OneChange(R) => now.tree \in {was.tree : was \in R}
      BY <3>4, FreshTree
    <3>. QED
      BY <3>4, <3>5
  <2>6. UpToDate(passed)
    BY <2>5 DEF UpToDate
  <2>7. Passing(passed, approval)
    BY <2>3, <2>4, <2>6, EnvelopeAssumption DEF Passing, Surface
  <2>. QED
    BY <2>2, <2>7 DEF ProcSound, Snapped, Watches, Reads
<1>7. /\ UNCHANGED <<repo, files>>
      /\ proc' = [proc EXCEPT ![p] = IF Cmd(p).claims \subseteq Surfaces(Copy(p), S) THEN passed ELSE blocked]
  BY DEF Finalize
<1>. HIDE DEF passed, blocked
<1>. QED
  BY <1>5, <1>6, <1>7, Quiet

LEMMA NextInv == IInv /\ [Next]_vars => IInv'
<1>. SUFFICES ASSUME IInv, [Next]_vars PROVE IInv'
  OBVIOUS
<1>1. CASE UNCHANGED vars
  BY <1>1 DEF vars, IInv, RepoInv, Watches, Now
<1>2. CASE \/ \E c \in Content : EditTracked(c) \/ Stage(c)
           \/ \E u \in Untracked \cup {None} : EditUntracked(u)
  BY <1>2, EditInv
<1>3. CASE Commit
  BY <1>3, CommitInv
<1>4. ASSUME NEW k \in DOMAIN commits, Checkout(k) PROVE IInv'
  BY <1>4, CheckoutInv
<1>5. ASSUME NEW a \in Approval, Expire(a) PROVE IInv'
  BY <1>5, ExpireInv
<1>6. ASSUME NEW p \in Proc,
             \/ \E cmd \in Call : Load(p, cmd)
             \/ \E force \in BOOLEAN : StartInit(p, force)
             \/ \E a \in Approval : StartIssue(p, a)
             \/ \E to \in Phases : Transition(p, to)
             \/ Rewrite(p)
      PROVE  IInv'
  BY <1>6, LoadInv, StartInitInv, StartIssueInv, TransitionInv, RewriteInv
<1>7. ASSUME NEW p \in Proc,
             ReadHead(p) \/ ReadStatus(p) \/ ReadTracked(p) \/ ReadStaged(p) \/ ReadUntracked(p)
      PROVE  IInv'
  BY <1>7, ReadHeadInv, ReadStatusInv, ReadTrackedInv, ReadStagedInv, ReadUntrackedInv
<1>8. ASSUME NEW p \in Proc,
             \/ RecordEvidence(p) \/ Validate(p) \/ InitEnvelope(p) \/ Issue(p)
             \/ CheckApproval(p) \/ ConsumeApproval(p) \/ RecordAction(p)
             \/ Finalize(p) \/ Save(p) \/ Stop(p)
      PROVE  IInv'
  BY <1>8, RecordEvidenceInv, ValidateInv, InitEnvelopeInv, IssueInv, CheckApprovalInv,
     ConsumeApprovalInv, RecordActionInv, FinalizeInv, SaveInv, StopInv
<1>. QED
  BY <1>1, <1>2, <1>3, <1>4, <1>5, <1>6, <1>7, <1>8 DEF Next

-------------------------------------------------------------------------------
(* IInv holds of every reachable state: every envelope, saved or loaded,   *)
(* is backed by the approval files as they are, however old it is, and     *)
(* every part of a snapshot is what the repository was during it.          *)
THEOREM Inductive == Spec => []IInv
<1>. QED
  BY InitInv, NextInv, PTL DEF Spec

(* What finalize confirms of an external action was approved for the       *)
(* fingerprint that decided the report (ConfirmedAsApproved).              *)
THEOREM ReportApproved == Spec => []ConfirmedAsApproved
<1>1. IInv => ConfirmedAsApproved
  <2>. SUFFICES ASSUME IInv, NEW p \in Proc, At(p, "passed"),
                       NEW a \in (proc[p].claims \cap Action) \ {"committed"}
                PROVE  \E x \in Approval :
                          /\ approval[x] # None /\ a \in Operations[x]
                          /\ approval[x].print = proc[p].print
                          /\ x \in OneTime => approval[x].status = "consumed"
    BY DEF ConfirmedAsApproved
  <2>1. PICK x \in Approval : Backed(a, [approval |-> x, print |-> proc[p].print], approval)
    BY DEF IInv, ProcSound, Passing, At
  <2>. QED
    BY <2>1 DEF Backed
<1>. QED
  BY <1>1, Inductive, PTL

(* What finalize calls validated, of a repository at rest, was there while *)
(* its validation was recorded, unless more than one change, or one that   *)
(* moved HEAD, fell between the reads of that snapshot (FreshEvidence):    *)
(* five reads, one after the other, cannot be fooled by one edit between   *)
(* any two of them.                                                        *)
THEOREM ReportFresh == Spec => []FreshEvidence
<1>1. IInv => FreshEvidence
  BY DEF IInv, FreshEvidence, ProcSound, Passing, UpToDate, At
<1>. QED
  BY <1>1, Inductive, PTL

(* authorize-action consumes before it authorises (ConsumedFirst).         *)
THEOREM NeverAuthorisedUnconsumed == Spec => []ConsumedFirst
<1>1. IInv => ConsumedFirst
  BY DEF IInv, ConsumedFirst, Sound, Backed
<1>. QED
  BY <1>1, Inductive, PTL
===============================================================================
