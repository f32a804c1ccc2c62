CONSTANTS
    None = None
    p1 = p1
    p2 = p2
    Proc <- MCProc
    MaxRevision = 3
    MaxIndex = 2
SYMMETRY ProcSymmetry
SPECIFICATION Spec
INVARIANTS CursorCommitted DeclineStands
PROPERTY ImplementsConsent
