CONSTANTS
    None = None
    Slots = {"pre", "post", "fix"}
    Initial = {"post", "fix"}
    Phase <- MCPhase
    DependsOn <- MCDependsOn
    Conditional = {"fix"}
    Inlineable = {"pre"}
    Profiles = {"luna", "astra"}
    Options <- MCOptions
    Units <- MCUnits
    Astra = {"astra"}
    Capacity <- MCCapacity
    PhaseCapacity <- MCPhaseCapacity
    MaxParallel = 2
    MaxAstraParallel = 1
    MaxPermits = 2
    MaxEvidence = 1
    MaxWorld = 1
CONSTRAINT FewMishaps
SPECIFICATION Spec
CHECK_DEADLOCK FALSE
INVARIANTS CacheExact SlotHeld PassMeansReviewed
PROPERTY HoldKept
