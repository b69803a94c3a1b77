SPECIFICATION Spec
CONSTANTS
    N = 2
    SignalPhases <- AnyPhase
    Apis <- NoApi
    FailPoints <- NoFail
INVARIANT ChainIntact
CHECK_DEADLOCK FALSE
