SPECIFICATION LinkSpec
CONSTANTS
    PipeCount = 1
    Protocol = "ESB_DPL"
    SelectiveAutoAck = TRUE
    UintMod = 8
    Crc <- MCCrc
    TxSize = 2
    PtxRxSize = 1
    TxMode = "AUTO"
    NeverDisableTx = FALSE
    RetransmitCounts <- MCCounts
    NoackChoices <- MCBoth
    PtxCalls <- MCPtxFew
    MaxWrites = 2
    MaxAckWrites = 3
    AckSize = 1
    PrxRxSize = 1
    PrxCalls <- MCPrxAll
    MaxPrxWrites = 2
    MaxForgets = 1
INVARIANTS
    AutoModeDrains
    RedeliveriesBounded
