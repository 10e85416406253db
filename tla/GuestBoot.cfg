SPECIFICATION Spec
CONSTANTS
    Files <- MCFiles
    Modules <- MCModules
    Digits <- MCDigits
    UintRange = 64
    UlongRange = 128
    VecCapacity = 2
    Headers <- MCHeaders
    FileSize <- MCFileSize
    StringLen <- MCStringLen
    PAGE_SIZE = 2
    LINUX_BOOT_SECTOR_SIZE = 2
    SetupHeaderEnd = 4
    SyssizeUnit = 2
    Uint32Range = 32
    Uint64Range = 64
    GDT_GPADDR = 2
    COMMAND_LINE_GPADDR = 4
    ZERO_PAGE_GPADDR = 6
    GranularityBytes <- MCGranularityBytes
INVARIANTS
    ConfigsMeanFile
    RejectsOnlyBad
    StringsOwnedOnce
    NothingLeaked
    ScansInsideFile
    TreeHoldsKeys
    GuestFindsItsParts
    CopiesInsideMemory
PROPERTIES
    BootEnds
CHECK_DEADLOCK FALSE
