SPECIFICATION PtxSpec
CONSTANTS
    PipeCount = 1
    Protocol = "ESB_DPL"
    SelectiveAutoAck = TRUE
    UintMod = 8
    TxSize = 2
    PtxRxSize = 1
    TxMode = "AUTO"
    NeverDisableTx = FALSE
    MaxWrites = 3
    MaxAckWrites = 0
    Crc <- MCCrc
    RetransmitCounts <- MCCounts
    NoackChoices <- MCNoack
    PtxCalls <- MCWriteCalls
INVARIANTS
    SendsQueuedPayload
CHECK_DEADLOCK FALSE
