\* Two threads that keep retrying close, commands that succeed if tried often enough.
SPECIFICATION RetrySpec
CONSTANTS
    t1 = t1
    t2 = t2
    t3 = t3
    Threads = {t1, t2}
    NoThread = NoThread
    MaxRuns = 1
    DirectoryMayVanish = FALSE
PROPERTIES
    LockReleased
    CleanupConverges
\* A failed build leaves no handle and nothing to do.
CHECK_DEADLOCK FALSE
