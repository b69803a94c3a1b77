SPECIFICATION Spec
CONSTANTS
    Thr <- TwoThr
    Conn <- OneConn
    Clients <- RxOnly
    Flights <- HandshakeFlights
    MaxRecords = 2
    Renegotiates = TRUE
    TxBlocks = TRUE
    Faults = FALSE
INVARIANT ExclusiveHandler
CHECK_DEADLOCK FALSE
