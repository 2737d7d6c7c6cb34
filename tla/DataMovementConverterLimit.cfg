\* The converter's limit against the promise that all conversions are checked first.
SPECIFICATION Spec
CONSTANTS
    Tensors <- MCTensors
    Names <- MCNames
    Shape <- MCShape
    Rank <- MCRank
    Graphs <- MCGraphs
    Machines <- MCMachines
    Rules <- MCRules
    Profiles <- MCProfiles
    None = None
    Garbage = "garbage"
    MaxValues = 4
    MaxElements = 9
    MaxPhysical = 16
INVARIANT
    ConversionsCheckedUpFront
\* An execution is refused, fails or is done.
CHECK_DEADLOCK FALSE
