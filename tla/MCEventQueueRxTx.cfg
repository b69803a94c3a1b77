SPECIFICATION Spec
CONSTANTS
    Thr <- TwoThr
    Fd <- OneFd
    Classes <- OnlyBuffered
    UseTx = TRUE
    CbCloses = FALSE
    Interrupts = FALSE
    Reused <- OneFd
    MaxInc = 1
    MaxArrive = 2
    BatchMax = 2
INVARIANT ExclusiveDispatch
CHECK_DEADLOCK FALSE
