SPECIFICATION PtxFairSpec
CONSTANTS
    PipeCount = 1
    Protocol = "ESB_DPL"
    SelectiveAutoAck = TRUE
    UintMod = 8
    TxSize = 2
    PtxRxSize = 1
    TxMode = "AUTO"
    NeverDisableTx = TRUE
    MaxWrites = 2
    MaxAckWrites = 1
    Crc <- MCCrc
    RetransmitCounts <- MCCounts
    NoackChoices <- MCNoack
    PtxCalls <- MCAllCalls
INVARIANTS
    PtxTypeOK
    PtxFlagsNotLost
    
PROPERTIES
    TransactionsReported
CHECK_DEADLOCK FALSE
