---------------------------- MODULE MCTaskEnvelope ----------------------------
(* Two commands at a time and one approval, or one command at a time and   *)
(* one validation.                                                         *)
EXTENDS TaskEnvelope, TLC

CONSTANTS p1, p2, c1, c2, u1, test, a1

MCOperations == [x \in Approval |-> {"committed", "pushed"}]
MCSymmetry == Permutations({p1, p2}) \cup Permutations({c1, c2})

ApprovalCalls ==
    [op : {"authorize"}, action : {"pushed"}, approval : {a1}]
        \cup [op : {"action"}, action : {"pushed"}, status : {"success"}]
        \cup [op : {"finalize"}, claims : {{"pushed"}}]

EvidenceCalls ==
    [op : {"evidence"}, check : {test}, status : {"valid"}]
        \cup [op : {"validate"}]
        \cup [op : {"finalize"}, claims : {{"validated"}}]

MCCalls == ApprovalCalls \cup EvidenceCalls

(* Bounds: the envelope is made once, of a repository as it was committed. *)
(* A behaviour ends with a transition: the phase decides nothing but which *)
(* transitions there are.                                                  *)
Working(p) == proc[p].pc \notin {"idle", "passed", "blocked"}

MadeOnce ==
    /\ envelope # None => envelope.phase = "IDENTIFY" /\ envelope.baseline = [Blank EXCEPT !.head = 1]
    /\ \A p \in Proc : Working(p) =>
          /\ proc[p].cmd.op = "init" /\ proc[p].pc # "save" => envelope = None
          /\ proc[p].pc = "save" => proc[p].copy.phase = "IDENTIFY"

(* What a snapshot has seen change while it was made. *)
AtMostOneChange(p) == \A a, b, c \in proc[p].seen : a = b \/ b = c \/ a = c
NoChange(p) == \A a, b \in proc[p].seen : a = b

(* For approvals a snapshot only has to differ from the approved one, or   *)
(* not: one content staged or none, no commit, nothing untracked, and at   *)
(* most one edit between the reads of a snapshot.                          *)
ApprovalBound ==
    /\ Len(commits) = 1 /\ tree.untracked = None
    /\ tree.staged \in {commits[head], tree.tracked}
    /\ \A p \in Proc : Working(p) =>
          /\ proc[p].cmd \notin EvidenceCalls
          /\ AtMostOneChange(p)
          /\ \A a, b \in proc[p].seen : a.tree.staged = b.tree.staged
    /\ envelope # None => envelope.evidence[test] = None

(* FreshEvidence says nothing of more than one change, or of one that      *)
(* moves HEAD, between the reads of a validation's snapshot, or of any     *)
(* between those of a report's. Evidence that was marked as stale stays so *)
(* and is as good as none, and a report that is made says no more.         *)
EvidenceBound ==
    /\ \A p \in Proc : ~At(p, "passed")
    /\ envelope # None /\ envelope.evidence[test] # None => envelope.evidence[test].status = "valid"
    /\ \A p \in Proc : ~At(p, "idle") => \A q \in Proc \ {p} : At(q, "idle")
    /\ \A p \in Proc : Working(p) =>
          /\ proc[p].cmd \notin ApprovalCalls /\ proc[p].cmd.op # "issue"
          /\ AtMostOneChange(p) /\ (proc[p].cmd.op = "finalize" => NoChange(p))
          /\ \A a, b \in proc[p].seen : a.head = b.head
    /\ approval[a1] = None

(* A report that blocks leaves its process as good as idle. *)
ApprovalOrEvidence ==
    /\ MadeOnce /\ \A p \in Proc : ~At(p, "blocked")
    /\ (ApprovalBound \/ EvidenceBound)
===============================================================================
