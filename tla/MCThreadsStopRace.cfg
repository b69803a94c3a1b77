SPECIFICATION Spec
CONSTANTS
    N = 2
    SignalPhases <- NoPhase
    Apis <- StopOnly
    FailPoints <- NoFail
INVARIANT FreedMeansReaped
CHECK_DEADLOCK FALSE
