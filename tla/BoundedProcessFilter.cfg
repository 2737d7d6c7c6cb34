\* A filter that blocks on its output, pipes smaller than the input.
SPECIFICATION FilterSpec
CONSTANTS
    InputLens = {0, 1, 3, 4, 5, 6, 8}
    InputBudget = 6
    Limit <- MCFilterLimit
    PipeSize = 2
    Chunk = 3
    MaxOutput = 6
PROPERTIES
    FilterAnswers
\* The call ends: the system stops.
CHECK_DEADLOCK FALSE
