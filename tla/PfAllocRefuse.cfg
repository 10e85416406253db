SPECIFICATION Spec
CONSTANTS
    Cpu = {c1, c2}
    MemMap <- SmallMap
    Requests = {0, 1, 2}
    Word = 64
INVARIANT RefusesOnlyIfImpossible
