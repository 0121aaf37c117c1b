SPECIFICATION RpcSpec
CONSTANTS
    Nodes = {a, b}
    Crc <- MCCrc
    TxAttempts = 2
    MaxSends <- MCSends
    MaxLost = 1
    MaxLate = 1
    MaxRestarts = 1
INVARIANTS DeliveredInOrder AckedMeansDelivered RetriesSuffice LockingSound
CHECK_DEADLOCK FALSE
