CONSTANTS
    None = None
    p1 = p1
    p2 = p2
    s1 = s1
    p3 = p3
    e1 = e1
    Proc <- ThreeProc
    Session <- OneSession
    Lifecycle <- MCLifecycle
    Faults <- AllFaults
SYMMETRY Symmetry
SPECIFICATION Spec
INVARIANT RecoveryGrounded
PROPERTIES PrimaryFrozen HistoriesApart
