\* What RFC 0334 says of cleanup, against a build that fails.
SPECIFICATION Spec
CONSTANTS
    t1 = t1
    t2 = t2
    Threads = {t1, t2}
    NoThread = NoThread
    MaxRuns = 4
    DirectoryMayVanish = FALSE
    MaxRequests = 2
    MaxElements = 3
    RequestSizes <- MCRequestSizes
INVARIANT
    CleanupCanBeRetried
\* The caller may stop calling, and a released session has nothing left to do.
CHECK_DEADLOCK FALSE
