CONSTANTS
    None = None
    Missing = Missing
    Junk = Junk
    p1 = p1
    p2 = p2
    a = a
    b = b
    Proc <- MCProc
    Payload <- MCPayload
    MaxRevision = 5
    MaxDamage = 2
SYMMETRY StoreSymmetry
SPECIFICATION Spec
INVARIANTS RevisionNames LosesOneUpdate
PROPERTIES NothingDestroyed ImplementsIndexRegister
