\* Every plan for small graphs over nine sets of backends, executed in all three modes.
SPECIFICATION Spec
CONSTANTS
    Tensors <- MCTensors
    Names <- MCNames
    Shape <- MCShape
    Rank <- MCRank
    Graphs <- MCGraphs
    Machines <- MCMachines
    Rules <- MCRules
    Profiles <- MCProfiles
    None = None
    Garbage = "garbage"
    MaxValues = 4
    MaxElements = 9
    MaxPhysical = 16
INVARIANTS
    MovementsFitAssignments
    RefusalsExact
    NoLateMismatch
PROPERTIES
    KeepsPromise
\* An execution is refused, fails or is done.
CHECK_DEADLOCK FALSE
