SPECIFICATION Spec
CONSTANTS
    Cpu = {c1, c2}
    Frames <- SmallMemory
    Reserved = {}
    NrArrayPages = 1
    bin_configs <- TwoBins
    Sizes = {1000, 2048, 5000}
    MaxLive = 3
INVARIANTS AllocationsDisjoint NothingLost PageRecordsExact
SYMMETRY CpuSymmetry
CHECK_DEADLOCK FALSE
