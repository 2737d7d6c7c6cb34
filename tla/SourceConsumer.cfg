\* One program with two cases, one source and one input that have to be rejected; every
\* docker command may fail, every call may be killed, and then its docker command may still have its effect.
SPECIFICATION ConsumerSpec
CONSTANTS
    Main = Main
    NoThread = NoThread
    DirectoryMayVanish = TRUE
    MaxRequests = 1
    Programs = 1
    Cases = 2
    Negatives = 1
    Numerics = 1
INVARIANTS
    AcceptedCallsLeaveNothing
    OneContainerOfAll
    ConversionsReportTruly
\* The consumer ends.
CHECK_DEADLOCK FALSE
