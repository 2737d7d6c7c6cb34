\* One command with up to three requests; every docker command may fail.
SPECIFICATION Spec
CONSTANTS
    Main = Main
    NoThread = NoThread
    DirectoryMayVanish = TRUE
    MaxRequests = 3
INVARIANTS
    AllOrNothing
    FailureIsClean
    OneContainer
PROPERTIES
    CommandEnds
\* The command ends.
CHECK_DEADLOCK FALSE
