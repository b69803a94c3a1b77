SPECIFICATION FairSpec
CONSTANTS
    Thr <- TwoThr
    Fd <- OneFd
    Classes <- OnlyBuffered
    UseTx = FALSE
    CbCloses = FALSE
    Interrupts = TRUE
    Reused <- OneFd
    MaxInc = 1
    MaxArrive = 2
    BatchMax = 2
PROPERTY DataIsRead
CHECK_DEADLOCK FALSE
