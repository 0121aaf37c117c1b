SPECIFICATION LinkFairSpec
CONSTANTS
    PipeCount = 1
    Protocol = "ESB"
    SelectiveAutoAck = FALSE
    UintMod = 8
    Crc <- MCCrcPid
    TxSize = 2
    PtxRxSize = 1
    TxMode = "AUTO"
    NeverDisableTx = FALSE
    RetransmitCounts <- MCCounts
    NoackChoices <- MCAckOnly
    PtxCalls <- MCPtxLive
    MaxWrites = 5
    MaxAckWrites = 0
    AckSize = 2
    PrxRxSize = 1
    PrxCalls <- MCPrxLive
    MaxPrxWrites = 0
    MaxForgets = 0
PROPERTIES
    EverythingSucceeds
CHECK_DEADLOCK FALSE
