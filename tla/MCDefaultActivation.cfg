SPECIFICATION Spec
CONSTANTS
    s1 = s1
    s2 = s2
    a1 = a1
    a2 = a2
    a3 = a3
    p1 = p1
    p2 = p2
    None = None
    Source = {s1, s2}
    Approval = {a1, a2, a3}
    Proc = {p1, p2}
    Kind <- MCKind
    Target <- MCTarget
SYMMETRY Symmetry
CONSTRAINT Bound
INVARIANT PointerEffective
INVARIANT ConsumedOnce
PROPERTY NoOverwrite
PROPERTY NoSilentFallback
