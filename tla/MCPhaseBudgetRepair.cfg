CONSTANTS
    None = None
    Slots = {"post", "fix"}
    Initial = {"post", "fix"}
    Phase <- MCPhase
    DependsOn <- MCDependsOn
    Conditional = {"fix"}
    Inlineable = {}
    Profiles = {"luna", "astra"}
    Options <- MCOptions
    Units <- MCUnits
    Astra = {"astra"}
    Capacity <- MCCapacity
    PhaseCapacity <- MCPhaseCapacity
    MaxParallel = 2
    MaxAstraParallel = 1
    MaxPermits = 3
    MaxEvidence = 0
    MaxWorld = 0
CONSTRAINT FewMishaps
SPECIFICATION Spec
CHECK_DEADLOCK FALSE
INVARIANT BlockersSuperseded
