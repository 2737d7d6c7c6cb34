\* Storage plans of both schemes for graphs of four operations, made and executed.
SPECIFICATION Spec
CONSTANTS
    Tensors <- MCTensors
    Names <- MCNames
    Shape <- MCShape
    Rank <- MCRank
    Graphs <- MCGraphs
    Machines <- MCMachines
    Rules <- MCRules
    Profiles <- MCProfiles
    None = None
    Garbage = "garbage"
    MaxElements = 16
    MaxPhysical = 16
INVARIANTS
    SharersDisjoint
    ReuseIsTight
    ArenaNeverRefuses
PROPERTIES
    KeepsPromise
\* An execution is refused, fails or is done.
CHECK_DEADLOCK FALSE
