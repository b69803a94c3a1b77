SPECIFICATION FairSpec
CONSTANTS
    Objects <- AllObjects
    Kind <- AllKinds
    Signo <- Signos
    SigMax = 4
    Clients = 3
    Periodic <- NoTimers
    Faults <- MostFaults
INVARIANTS OwnedOnce
PROPERTIES CallbackRuns
CHECK_DEADLOCK FALSE
