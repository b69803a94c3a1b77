SPECIFICATION FairSpec
CONSTANTS
    Page = 2
    MaxTot = 4
    MaxSend = 2
    Kinds = {"duplex"}
    Partial = {}
    MayFail = FALSE
PROPERTY DuplexIsShown
CHECK_DEADLOCK FALSE
