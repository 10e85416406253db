SPECIFICATION Spec
CONSTANTS
    NULL = NULL
    v1 = v1
    v2 = v2
    BSP = c1
    Cpu = {c1, c2, c3}
    Vms <- TwoVcpus
INVARIANTS OnlineIsReady LostOnlyByOverlap ActiveWhereBelieved CurrentIsOwn LaunchStateFits NoFieldsAstray
CHECK_DEADLOCK FALSE
SYMMETRY Aps
