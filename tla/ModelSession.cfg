\* Two threads share a session; every build, run and cleanup command may fail.
SPECIFICATION Spec
CONSTANTS
    t1 = t1
    t2 = t2
    Threads = {t1, t2}
    NoThread = NoThread
    MaxRuns = 4
    DirectoryMayVanish = TRUE
    MaxRequests = 2
    MaxElements = 3
    RequestSizes <- MCRequestSizes
INVARIANTS
    NativeWorkBounded
    BudgetKept
    KeepsCleanupAuthority
    NeverBlocks
PROPERTIES
    KeepsPromises
    CallReturns
\* The caller may stop calling, and a released session has nothing left to do.
CHECK_DEADLOCK FALSE
