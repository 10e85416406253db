SPECIFICATION Spec
CONSTANTS
    PAGE_SHIFT = 12
    TableBits = 2
    MemMaps <- MCMemMaps
    LapicBase <- MCLapicBase
    HPET_BASE <- MCHpetBase
    HYPERVISOR_DIRECT_MAPPING_OFFSET <- MCDirectOffset
    DirectRange <- MCDirectRange
    hypervisor_region <- MCRegion
    ReqBytes <- MCReqBytes
    HostStarts <- MCHostStarts
    APIC_MEM_BASE <- MCApic
    ApicPages <- MCApicPages
    Copies <- MCCopies
INVARIANT CopiesVisible
CHECK_DEADLOCK FALSE
