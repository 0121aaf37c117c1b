SPECIFICATION QosFairSpec
CONSTANTS
    Threads = {"app", "ack"}
    Calls <- MCCalls
    PendingMax = 2
    NotifiedMax = 2
    Cooperative = TRUE
    MaxMessages = 4
    MaxNotifyAll = 1
INVARIANTS RemovedOnceAndLast TimerArmed
PROPERTIES MessagesEnd
CHECK_DEADLOCK FALSE
