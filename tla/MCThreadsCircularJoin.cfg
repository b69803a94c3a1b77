SPECIFICATION FairSpec
CONSTANTS
    N = 3
    SignalPhases <- AfterInit
    Apis <- NoApi
    FailPoints <- NoFail
PROPERTY SignalMeansExit
CHECK_DEADLOCK FALSE
