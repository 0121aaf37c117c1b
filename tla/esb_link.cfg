SPECIFICATION LinkSpec
CONSTANTS
    PipeCount = 1
    Protocol = "ESB_DPL"
    SelectiveAutoAck = TRUE
    UintMod = 8
    Crc <- MCCrc
    TxSize = 2
    PtxRxSize = 1
    TxMode = "MANUAL_START"
    NeverDisableTx = FALSE
    RetransmitCounts <- MCCounts
    NoackChoices <- MCAckOnly
    PtxCalls <- MCPtxCalls
    MaxWrites = 6
    MaxAckWrites = 3
    AckSize = 2
    PrxRxSize = 1
    PrxCalls <- MCPrxCalls
    MaxPrxWrites = 3
    MaxForgets = 0
INVARIANTS
    PtxFifosConsistent
    PrxQueuesConsistent
    SendsQueuedPayload
    SuccessMeansDelivered
    AckPayloadsOnceInOrder
    AckDoneWasReceived
PROPERTIES
    ImplementsReliableLink
