\* Three threads share one handle; any command fails anywhere; the directory may vanish.
SPECIFICATION Spec
CONSTANTS
    t1 = t1
    t2 = t2
    t3 = t3
    Threads = {t1, t2, t3}
    NoThread = NoThread
    MaxRuns = 3
    DirectoryMayVanish = TRUE
SYMMETRY ThreadSymmetry
INVARIANTS
    TypeOK
    OneAtATime
    CloseIsClean
PROPERTIES
    NoStartAfterClose
    DirectoryOutlivesTag
\* A failed build leaves no handle and nothing to do.
CHECK_DEADLOCK FALSE
