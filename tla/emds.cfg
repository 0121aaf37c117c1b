SPECIFICATION EmdsSpec
CONSTANTS
    Size = 16
    SectorSize = 8
    AteSize = 2
    OffsMod = 64
    Static <- MCStatic
    DynamicIds <- MCDynamic
    Blocks <- MCBlocks
    InitialFlashes <- MCFlashes
    WhileReady = FALSE
    FlashFailsIn = {"invalidate", "clear"}
    MaxStores = 3
    MaxReboots = 3
INVARIANTS EmdsTypeOK NoBlockReprogrammed StoredIsLoaded LoadNeverStale ReadyFits
CHECK_DEADLOCK FALSE
