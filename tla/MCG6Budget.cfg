CONSTANTS
    Nil = Nil
    Base = Base
    s = s
    w = w
    m1 = m1
    m2 = m2
    m3 = m3
    a1 = a1
    a2 = a2
    c1 = c1
    c2 = c2
    c3 = c3
    q1 = q1
    small = small
    big = big
    Permit <- MCPermit
    Item <- SlotAndReview
    Slot = {s}
    Review = {w}
    Execution = {w}
    Agent <- MCAgent
    Call <- MCCall
    Request = {q1}
    Profile = {small, big}
    Astra = {small}
    Cost <- MCCost
    Allowed <- MCAllowed
    Units = 3
    Attempts = 2
    Parallel = 2
    MaxDispatches = 1
    RetryLimit = 1
SYMMETRY G6Symmetry
SPECIFICATION JournalSpec
CHECK_DEADLOCK FALSE
INVARIANTS WithinCapacity RequiredFunded OneRunPerWork
PROPERTIES ApprovedOnly
CONSTRAINT TwoWaiting
