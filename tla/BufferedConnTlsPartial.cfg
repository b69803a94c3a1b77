SPECIFICATION Spec
CONSTANTS
    Page = 2
    MaxTot = 4
    MaxSend = 3
    Kinds = {"tls"}
    Partial = {"tls"}
    MayFail = FALSE
INVARIANT WindowIntact
CHECK_DEADLOCK FALSE
