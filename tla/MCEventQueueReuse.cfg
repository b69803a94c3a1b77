SPECIFICATION Spec
CONSTANTS
    Thr <- TwoThr
    Fd <- OneFd
    Classes <- OnlyConcurrent
    UseTx = FALSE
    CbCloses = TRUE
    Interrupts = FALSE
    Reused <- OneFd
    MaxInc = 2
    MaxArrive = 2
    BatchMax = 2
INVARIANT NoStaleDispatch
CHECK_DEADLOCK FALSE
