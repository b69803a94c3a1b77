SPECIFICATION FairSpec
CONSTANTS
    Thr <- TwoThr
    Conn <- OneConn
    Clients <- OneCallback
    Flights <- HandshakeFlights
    MaxRecords = 2
    Renegotiates = TRUE
    TxBlocks = FALSE
    Faults = TRUE
INVARIANTS TypeOK ExclusiveHandler StateOutlivesHandlers ArmedForWhatIsWanted BuffersAccounted
PROPERTY InputServed
CHECK_DEADLOCK FALSE
