SPECIFICATION Spec
CONSTANTS
    N = 4
    SignalPhases <- AfterInit
    Apis <- AnyApi
    FailPoints <- AnyFail
INVARIANTS TypeOK GuardAlive RingShape HandshakeOutcome ChainIntact SuccessMeansReaped
CHECK_DEADLOCK FALSE
