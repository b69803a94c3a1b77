SPECIFICATION Spec
CONSTANTS
    Thr <- TwoThr
    Fd <- OneFd
    Classes <- AllClasses
    UseTx = TRUE
    CbCloses = TRUE
    Interrupts = TRUE
    Reused <- OneFd
    MaxInc = 2
    MaxArrive = 1
    BatchMax = 2
INVARIANTS TypeOK SlotBeforeItem
CHECK_DEADLOCK FALSE
