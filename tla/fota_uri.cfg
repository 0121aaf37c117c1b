SPECIFICATION FotaSpec
CONSTANTS
    Uris = {u1, u2}
    NoUri = NoUri
    FileLen <- MCFileLen
    FragSize = 2
    DlBufSize = 2
    RangeRequests = TRUE
    ReconnectFails = FALSE
    MaxFaults = 2
    StreamBufLen = 3
    SlotLen = 5
    SaveProgress = TRUE
    Retries = 1
    FlashFails = FALSE
    DoneFails = FALSE
    MaxDownloads = 3
    MaxCancels = 1
    MaxReboots = 1
INVARIANT StoredIsPrefix
CHECK_DEADLOCK FALSE
