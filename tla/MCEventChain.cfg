CONSTANTS
    None = None
    p1 = p1
    p2 = p2
    a = a
    s = s
    s2 = s2
    Proc <- MCProc
    LifecycleEvent <- MCOneLifecycle
    TerminalEvent <- MCTwoTerminal
    SegmentRecords = 1
CONSTRAINTS OneTornEvent TwoSeals
SPECIFICATION FairSpec
INVARIANTS ChainLinked SealsAnchored AckedCommitted
PROPERTIES TailSavedBeforeCut ImplementsEventLog LockFreed
