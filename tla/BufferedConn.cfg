SPECIFICATION FairSpec
CONSTANTS
    Page = 2
    MaxTot = 8
    MaxSend = 9
    Kinds = {"plain", "duplex", "tls"}
    Partial = {"plain", "duplex"}
    MayFail = TRUE
INVARIANTS TypeOK WindowIntact EofIsReal SeenBeforeSleep
PROPERTY SentIsShown
CHECK_DEADLOCK FALSE
