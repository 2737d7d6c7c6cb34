\* Every small graph over three spaces, with budgets that bind for some of them.
SPECIFICATION Spec
CONSTANTS
    Tensors <- MCTensors
    Spaces <- MCSpaces
    Host = "host"
    Garbage = "garbage"
    Graphs <- MCGraphs
    Bytes <- MCBytes
    MaxBuffers = 6
    MaxBytes = 9
INVARIANTS
    DataflowRespected
    ExactResidency
    BudgetExact
    OutputsPublished
\* A plan is finished or refused.
CHECK_DEADLOCK FALSE
