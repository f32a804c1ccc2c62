CONSTANTS
    p1 = p1
    p2 = p2
    c1 = c1
    c2 = c2
    u1 = u1
    test = test
    a1 = a1
    None = None
    Proc = {p1, p2}
    Content = {c1, c2}
    Untracked = {u1}
    Check = {test}
    Action = {"committed", "pushed"}
    Approval = {a1}
    Operations <- MCOperations
    OneTime = {a1}
    Call <- MCCalls
    MaxCommits = 1
SPECIFICATION Spec
CONSTRAINT ApprovalOrEvidence
SYMMETRY MCSymmetry
CHECK_DEADLOCK FALSE
INVARIANTS ConfirmedAsApproved FreshEvidence ConsumedFirst
