SPECIFICATION FairSpec
CONSTANTS
    N = 4
    SignalPhases <- WhileJoining
    Apis <- BlockOnly
    FailPoints <- NoFail
INVARIANTS NoFault FreedMeansReaped
PROPERTIES ExitsInLinkOrder InitCompletes ImplementsLifecycle
