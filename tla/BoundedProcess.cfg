\* An arbitrary command: every interleaving of its reads, writes, closes, fork and exits
\* with the parent's loop.
SPECIFICATION Spec
CONSTANTS
    InputLens = {2, 3}
    InputBudget = 2
    Limit <- MCLimit
    PipeSize = 2
    Chunk = 2
    MaxOutput = 3
INVARIANTS
    CompleteCapture
    BoundedOverread
    OutputLimitJustified
    NothingLeftRunning
PROPERTIES
    NoTruncatedInput
    NoOutputCutOff
    CallEnds
\* The call ends and the group dies: the system stops.
CHECK_DEADLOCK FALSE
