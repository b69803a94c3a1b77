SPECIFICATION FairSpec
CONSTANTS
    Thr <- TwoThr
    Fd <- TwoFd
    Classes <- OneShotClasses
    UseTx = FALSE
    CbCloses = TRUE
    Interrupts = FALSE
    Reused <- OneFd
    MaxInc = 2
    MaxArrive = 2
    BatchMax = 2
INVARIANTS ExclusiveDispatch NoStaleDispatch NoLostWakeup
PROPERTY DataIsRead
CHECK_DEADLOCK FALSE
