----------------------------- MODULE TaskEnvelope -----------------------------
(***************************************************************************)
(* execution_guard: the commands that keep the task envelope of a task in  *)
(* one state file. Each command loads the file, takes a snapshot of the    *)
(* repository where it needs one and saves the whole file, with no lock,   *)
(* so that commands overwrite each other. The repository changes under     *)
(* them, also between any two of the git commands a snapshot consists of.  *)
(* Approvals (approval.py) are files of their own, and a finalization      *)
(* report (finalization.py) is what the envelope supports at its snapshot. *)
(***************************************************************************)
EXTENDS Naturals, Sequences

CONSTANTS Proc, None,
          Content,      \* of the tracked files
          Untracked,    \* of the untracked files, None when there are none
          Check,        \* names of validations
          Action,       \* protected actions, "committed" among them
          Approval,
          Operations,   \* the actions an approval names
          OneTime,      \* the approvals that are consumed by their use
          Call,         \* the calls made of the commands that take a snapshot
          MaxCommits    \* bound: commits made in the repository

Surface == {"modified", "validated", "committed"}

(* Fingerprints of the repository, and approval files. *)
Tree == [tracked : Content, staged : Content, untracked : Untracked \cup {None}]
PrintState == [head : Nat, status : SUBSET {"tracked", "staged", "untracked"},
               tracked : SUBSET (Content \X Content), staged : SUBSET (Content \X Content),
               untracked : Untracked \cup {None}]
ApprovalState == [status : {"active", "expired", "consumed"}, print : PrintState]

ASSUME EnvelopeAssumption ==
    /\ Operations \in [Approval -> SUBSET Action]
    /\ OneTime \subseteq Approval
    /\ Action \cap Surface \subseteq {"committed"}
    /\ Call \subseteq [op : {"evidence"}, check : Check, status : {"valid", "failed"}]
                \cup [op : {"authorize"}, action : Action, approval : Approval]
                \cup [op : {"action"}, action : Action, status : {"success", "failed"}]
                \cup [op : {"validate"}]
                \cup [op : {"finalize"}, claims : SUBSET (Surface \cup Action)]
    /\ None \notin ApprovalState
    /\ MaxCommits \in Nat

VARIABLES
    commits,   \* the commits of the repository, by their content
    head,      \* the one HEAD names
    tree,      \* the tracked files, what of them is staged, the untracked files
    envelope,  \* the state file, or None
    approval,  \* the approval files, or None
    proc       \* per process: the command it makes

vars == <<commits, head, tree, envelope, approval, proc>>
repo == <<commits, head, tree>>
files == <<envelope, approval>>

Phases == {"IDENTIFY", "PLAN", "IMPLEMENT", "VALIDATE", "REVIEW", "DELIVER",
           "RECOVER", "BLOCKED", "ROLLBACK", "CANCELLED", "CLOSED"}

Transitions == [f \in Phases |->
    CASE f = "IDENTIFY"  -> {"PLAN", "BLOCKED", "CANCELLED"}
      [] f = "PLAN"      -> {"IMPLEMENT", "BLOCKED", "CANCELLED"}
      [] f = "IMPLEMENT" -> {"VALIDATE", "BLOCKED", "ROLLBACK", "CANCELLED"}
      [] f = "VALIDATE"  -> {"REVIEW", "IMPLEMENT", "BLOCKED", "ROLLBACK", "CANCELLED"}
      [] f = "REVIEW"    -> {"DELIVER", "IMPLEMENT", "VALIDATE", "BLOCKED", "ROLLBACK", "CANCELLED"}
      [] f = "DELIVER"   -> {"CLOSED", "BLOCKED", "ROLLBACK"}
      [] f = "RECOVER"   -> {"IDENTIFY", "PLAN", "IMPLEMENT", "VALIDATE", "REVIEW", "DELIVER", "BLOCKED"}
      [] f = "BLOCKED"   -> {"RECOVER", "PLAN", "IMPLEMENT", "VALIDATE", "REVIEW", "CANCELLED"}
      [] f = "ROLLBACK"  -> {"VALIDATE", "DELIVER", "CLOSED", "BLOCKED"}
      [] OTHER           -> {}]

Idle == [pc |-> "idle"]

Init ==
    /\ \E c \in Content :
          /\ commits = <<c>>
          /\ tree = [tracked |-> c, staged |-> c, untracked |-> None]
    /\ head = 1
    /\ envelope = None
    /\ approval = [a \in Approval |-> None]
    /\ proc = [p \in Proc |-> Idle]

At(p, l) == proc[p].pc = l
Cmd(p) == proc[p].cmd
Copy(p) == proc[p].copy

-------------------------------------------------------------------------------
(* The repository: the agent and the user edit, stage, commit and switch   *)
(* between commits. seen is no part of the program: it is what the  *)
(* repository has been since a process began the snapshot it is making.    *)

Reading(p) == proc[p].pc \in {"status", "tracked", "staged", "untracked"}

Change(h, t) ==
    /\ head' = h /\ tree' = t
    /\ proc' = [p \in Proc |->
          IF Reading(p) THEN [proc[p] EXCEPT !.seen = @ \cup {[head |-> h, tree |-> t]}] ELSE proc[p]]
    /\ UNCHANGED files

EditTracked(c) ==
    /\ c # tree.tracked
    /\ Change(head, [tree EXCEPT !.tracked = c])
    /\ UNCHANGED commits

EditUntracked(u) ==
    /\ u # tree.untracked
    /\ Change(head, [tree EXCEPT !.untracked = u])
    /\ UNCHANGED commits

(* What the tracked files are, or nothing, is staged. *)
Stage(c) ==
    /\ c \in {tree.tracked, commits[head]} \ {tree.staged}
    /\ Change(head, [tree EXCEPT !.staged = c])
    /\ UNCHANGED commits

Commit ==
    /\ tree.staged # commits[head] /\ Len(commits) <= MaxCommits
    /\ commits' = Append(commits, tree.staged)
    /\ Change(Len(commits) + 1, tree)

(* HEAD moves last: git has then written the files and the index, one      *)
(* after the other, as an edit and its staging do.                         *)
Checkout(k) ==
    /\ k \in DOMAIN commits \ {head}
    /\ tree.tracked = commits[k] /\ tree.staged = commits[k]
    /\ Change(k, tree)
    /\ UNCHANGED commits

-------------------------------------------------------------------------------
(* Commands. cmd is the call, copy the envelope the process has loaded,    *)
(* print what it has of its snapshot.                                      *)

Blank == [head |-> 0, status |-> {}, tracked |-> {}, staged |-> {}, untracked |-> None]

Begin(p, cmd, l) ==
    /\ At(p, "idle")
    /\ proc' = [proc EXCEPT ![p] =
          [pc |-> l, cmd |-> cmd, copy |-> envelope, print |-> Blank, seen |-> {}]]
    /\ UNCHANGED <<repo, files>>

Fresh(print) ==
    [phase |-> "IDENTIFY", baseline |-> print,
     evidence |-> [c \in Check |-> None],
     authorized |-> [x \in Action |-> None],
     actions |-> [x \in Action |-> None]]

Load(p, cmd) ==
    /\ envelope # None
    /\ cmd.op = "authorize" => approval[cmd.approval] # None
    /\ cmd.op = "action" /\ cmd.status = "success" => envelope.authorized[cmd.action] # None
    /\ Begin(p, cmd, "head")

StartInit(p, force) ==
    /\ envelope # None => force
    /\ Begin(p, [op |-> "init"], "head")

StartIssue(p, a) ==
    /\ approval[a] = None
    /\ Begin(p, [op |-> "issue", approval |-> a], "head")

(* transition, gate and set-envelope take no snapshot.                     *)
Amend(p, new) ==
    /\ At(p, "idle") /\ envelope # None
    /\ proc' = [proc EXCEPT ![p] =
          [pc |-> "save", cmd |-> [op |-> "amend"], copy |-> new, print |-> Blank, seen |-> {}]]
    /\ UNCHANGED <<repo, files>>

Transition(p, to) ==
    /\ envelope # None
    /\ to \in Transitions[envelope.phase]
    /\ Amend(p, [envelope EXCEPT !.phase = to])

(* What gate and set-envelope write decides nothing here: a transition     *)
(* goes on without the gates it lacks. They write back what they loaded.   *)
Rewrite(p) == Amend(p, envelope)

(* A difference says from which content to which; what is the same after   *)
(* it has changed does not show. The status names what differs, not how.   *)
Difference(c) == IF c = commits[head] THEN {} ELSE {<<commits[head], c>>}

Status ==
    {x \in {"tracked", "staged", "untracked"} :
        CASE x = "tracked"   -> tree.tracked # tree.staged
          [] x = "staged"    -> tree.staged # commits[head]
          [] x = "untracked" -> tree.untracked # None}

(* repo_snapshot: one git command after the other. *)
Took(p, l, new) == proc' = [proc EXCEPT ![p].pc = l, ![p].print = new]

ReadHead(p) ==
    /\ At(p, "head")
    /\ proc' = [proc EXCEPT ![p].pc = "status", ![p].print = [Blank EXCEPT !.head = head],
                            ![p].seen = {[head |-> head, tree |-> tree]}]
    /\ UNCHANGED <<repo, files>>

ReadStatus(p) ==
    /\ At(p, "status")
    /\ Took(p, "tracked", [proc[p].print EXCEPT !.status = Status])
    /\ UNCHANGED <<repo, files>>

ReadTracked(p) ==
    /\ At(p, "tracked")
    /\ Took(p, "staged", [proc[p].print EXCEPT !.tracked = Difference(tree.tracked)])
    /\ UNCHANGED <<repo, files>>

ReadStaged(p) ==
    /\ At(p, "staged")
    /\ Took(p, "untracked", [proc[p].print EXCEPT !.staged = Difference(tree.staged)])
    /\ UNCHANGED <<repo, files>>

ReadUntracked(p) ==
    /\ At(p, "untracked")
    /\ Took(p, "act", [proc[p].print EXCEPT !.untracked = tree.untracked])
    /\ UNCHANGED <<repo, files>>

Snapshot(p) == proc[p].print

(* The command has its snapshot. *)
Taken(p, op) == At(p, "act") /\ Cmd(p).op = op

ToSave(p, new) ==
    proc' = [proc EXCEPT ![p].pc = "save", ![p].copy = new, ![p].print = Blank, ![p].seen = {}]

(* Mutant: a validation is filed under the snapshot its task began with.   *)
RecordUnderBaseline(p) ==
    /\ Taken(p, "evidence")
    /\ ToSave(p, [Copy(p) EXCEPT !.evidence[Cmd(p).check] =
            [status |-> Cmd(p).status, print |-> Copy(p).baseline, seen |-> proc[p].seen]])
    /\ UNCHANGED <<repo, files>>

(* seen is no part of the file.                                            *)
RecordEvidence(p) ==
    /\ Taken(p, "evidence")
    /\ ToSave(p, [Copy(p) EXCEPT !.evidence[Cmd(p).check] =
            [status |-> Cmd(p).status, print |-> Snapshot(p), seen |-> proc[p].seen]])
    /\ UNCHANGED <<repo, files>>

Validate(p) ==
    /\ Taken(p, "validate")
    /\ ToSave(p, [Copy(p) EXCEPT !.evidence = [c \in Check |->
            IF @[c] # None /\ @[c].print # Snapshot(p)
            THEN [@[c] EXCEPT !.status = "stale"] ELSE @[c]]])
    /\ UNCHANGED <<repo, files>>

InitEnvelope(p) ==
    /\ Taken(p, "init")
    /\ ToSave(p, Fresh(Snapshot(p)))
    /\ UNCHANGED <<repo, files>>

Save(p) ==
    /\ At(p, "save")
    /\ envelope' = Copy(p)
    /\ proc' = [proc EXCEPT ![p] = Idle]
    /\ UNCHANGED <<repo, approval>>

(* Any command may be killed, or refuse, which leaves what it has written. *)
Stop(p) ==
    /\ ~At(p, "idle")
    /\ proc' = [proc EXCEPT ![p] = Idle]
    /\ UNCHANGED <<repo, files>>

-------------------------------------------------------------------------------
(* Approvals and the actions they allow.                                   *)

(* The user gives every approval a file of its own. *)
Issue(p) ==
    /\ Taken(p, "issue") /\ approval[Cmd(p).approval] = None
    /\ approval' = [approval EXCEPT ![Cmd(p).approval] = [status |-> "active", print |-> Snapshot(p)]]
    /\ proc' = [proc EXCEPT ![p] = Idle]
    /\ UNCHANGED <<repo, envelope>>

Expire(a) ==
    /\ approval[a] # None /\ approval[a].status = "active"
    /\ approval' = [approval EXCEPT ![a].status = "expired"]
    /\ UNCHANGED <<repo, proc, envelope>>

(* A project, task or environment that differs makes an approval one that  *)
(* does not name the action.                                               *)
ApprovalValid(a, action, print) ==
    /\ approval[a].status = "active"
    /\ action \in Operations[a]
    /\ approval[a].print = print

Authorized(p, print) ==
    [Copy(p) EXCEPT !.authorized[Cmd(p).action] = [approval |-> Cmd(p).approval, print |-> print]]

(* Mutant: the envelope is saved before the approval is consumed.          *)
SaveThenConsume(p) ==
    /\ Taken(p, "authorize")
    /\ ApprovalValid(Cmd(p).approval, Cmd(p).action, Snapshot(p))
    /\ envelope' = Authorized(p, Snapshot(p))
    /\ proc' = [proc EXCEPT ![p].pc = "consume", ![p].seen = {}]
    /\ UNCHANGED <<repo, approval>>

CheckApproval(p) ==
    /\ Taken(p, "authorize")
    /\ ApprovalValid(Cmd(p).approval, Cmd(p).action, Snapshot(p))
    /\ proc' = [proc EXCEPT ![p].pc = "consume", ![p].seen = {}]
    /\ UNCHANGED <<repo, files>>

ConsumeApproval(p) ==
    /\ At(p, "consume")
    /\ approval' = [approval EXCEPT ![Cmd(p).approval].status =
                        IF Cmd(p).approval \in OneTime THEN "consumed" ELSE @]
    /\ ToSave(p, Authorized(p, Snapshot(p)))
    /\ UNCHANGED <<repo, envelope>>

(* Mutant: the code may have changed since the action was authorised.      *)
AnyReadback(action, print, authorization) ==
    action = "committed" => print.head # authorization.print.head

(* A success is accepted for a commit when HEAD has moved, for any other   *)
(* action when nothing has changed since it was authorised.                *)
ReadbackAgrees(action, print, authorization) ==
    IF action = "committed" THEN print.head # authorization.print.head
                            ELSE print = authorization.print

RecordAction(p) ==
    LET action == Cmd(p).action
        authorization == Copy(p).authorized[action]
    IN
    /\ Taken(p, "action")
    /\ Cmd(p).status = "success" => ReadbackAgrees(action, Snapshot(p), authorization)
    /\ ToSave(p, [Copy(p) EXCEPT !.actions[action] =
            [status |-> Cmd(p).status, print |-> Snapshot(p), by |-> authorization]])
    /\ UNCHANGED <<repo, files>>

-------------------------------------------------------------------------------
(* finalize: what of the claims the envelope supports at the snapshot.     *)

Current(env, print) ==
    {c \in Check : env.evidence[c] # None /\ env.evidence[c].status = "valid"
                                          /\ env.evidence[c].print = print}

Confirmed(env, print) ==
    {a \in Action \ {"committed"} :
        env.actions[a] # None /\ env.actions[a].status = "success" /\ env.actions[a].print = print}

Surfaces(env, print) ==
    (IF print # env.baseline THEN {"modified"} ELSE {})
        \cup (IF Current(env, print) # {} THEN {"validated"} ELSE {})
        \cup (IF print.head # env.baseline.head THEN {"committed"} ELSE {})
        \cup Confirmed(env, print)

(* The report is written as a whole, after which the command ends (Stop).  *)
(* It also quotes a snapshot made before the one that decides.             *)
Finalize(p) ==
    /\ Taken(p, "finalize")
    /\ proc' = [proc EXCEPT ![p] =
          IF Cmd(p).claims \subseteq Surfaces(Copy(p), Snapshot(p))
          THEN [pc |-> "passed", claims |-> Cmd(p).claims, print |-> Snapshot(p), seen |-> proc[p].seen,
                validated |-> {Copy(p).evidence[c].seen : c \in Current(Copy(p), Snapshot(p))}]
          ELSE [pc |-> "blocked"]]
    /\ UNCHANGED <<repo, files>>

-------------------------------------------------------------------------------
Next ==
    \/ \E c \in Content : EditTracked(c) \/ Stage(c)
    \/ \E u \in Untracked \cup {None} : EditUntracked(u)
    \/ Commit
    \/ \E k \in DOMAIN commits : Checkout(k)
    \/ \E a \in Approval : Expire(a)
    \/ \E p \in Proc :
          \/ \E cmd \in Call : Load(p, cmd)
          \/ \E force \in BOOLEAN : StartInit(p, force)
          \/ \E a \in Approval : StartIssue(p, a)
          \/ \E to \in Phases : Transition(p, to)
          \/ Rewrite(p)
          \/ ReadHead(p) \/ ReadStatus(p) \/ ReadTracked(p) \/ ReadStaged(p) \/ ReadUntracked(p)
          \/ RecordEvidence(p) \/ Validate(p) \/ InitEnvelope(p) \/ Issue(p)
          \/ CheckApproval(p) \/ ConsumeApproval(p) \/ RecordAction(p)
          \/ Finalize(p) \/ Save(p) \/ Stop(p)

Spec == Init /\ [][Next]_vars

-------------------------------------------------------------------------------
(* Properties.                                                             *)

(* An external action (push, deploy, restart, effective) that a passing    *)
(* report confirms was approved by name, for the very fingerprint that     *)
(* decided the report (its evidence of `modified`), and its one-time       *)
(* approval is used up: whatever the commands overwrote of each other's    *)
(* envelopes in between, and wherever they were killed.                    *)
ConfirmedAsApproved ==
    \A p \in Proc : At(p, "passed") =>
        \A a \in (proc[p].claims \cap Action) \ {"committed"} :
            \E x \in Approval :
                /\ approval[x] # None /\ a \in Operations[x]
                /\ approval[x].print = proc[p].print
                /\ x \in OneTime => approval[x].status = "consumed"

(* A snapshot is made in five reads. S has what the repository was during  *)
(* them; a fingerprint mixes what never was together only if more than one *)
(* thing changed, or HEAD did.                                             *)
OneChange(S) == \E a, b \in S : S = {a, b} /\ a.head = b.head

(* A report made of a repository at rest passes "validated" only for code  *)
(* that was there while a validation was recorded as valid, unless more    *)
(* than one change, or one that moved HEAD, fell between the reads of that *)
(* validation's snapshot.                                                  *)
FreshEvidence ==
    \A p \in Proc : At(p, "passed") /\ "validated" \in proc[p].claims =>
        \A now \in proc[p].seen : proc[p].seen = {now} =>
            \E S \in proc[p].validated : now.tree \in {was.tree : was \in S} \/ ~OneChange(S)

(* An envelope names an authorisation only if its one-time approval has    *)
(* been consumed, so that no kill leaves an action authorised and its      *)
(* approval free to authorise another.                                     *)
ConsumedFirst ==
    envelope # None =>
        \A a \in Action : LET by == envelope.authorized[a] IN
            by # None /\ by.approval \in OneTime => approval[by.approval].status = "consumed"
===============================================================================
