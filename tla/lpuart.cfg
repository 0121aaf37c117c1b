SPECIFICATION LpFairSpec
CONSTANTS
    PacketLen = 2
    HfxoOnRx = TRUE
    SlowCaller = FALSE
    SafeAbort = TRUE
    DisableIn = {"IDLE", "BLOCKED"}
    MaxPackets = 3
    MaxAborts = 2
    MaxDisables = 1
INVARIANTS ReceivedWholeAndApart ReportedOnce RxAssertionsHold
PROPERTIES BothReturnToRest
CHECK_DEADLOCK FALSE
