SPECIFICATION FotaFairSpec
CONSTANTS
    Uris = {u1}
    NoUri = NoUri
    FileLen <- MCFileLen
    FragSize = 2
    DlBufSize = 2
    RangeRequests = TRUE
    ReconnectFails = FALSE
    MaxFaults = 3
    StreamBufLen = 3
    SlotLen = 5
    SaveProgress = TRUE
    Retries = 1
    FlashFails = FALSE
    DoneFails = TRUE
    MaxDownloads = 2
    MaxCancels = 1
    MaxReboots = 1
INVARIANTS OffsetIsEnd OneReportPerDownload ReadyAfterReport
PROPERTIES ImplementsFotaImage DownloadsEnd
CHECK_DEADLOCK FALSE
