SPECIFICATION Spec
CONSTANTS
    NULL = NULL
    idle_task = idle_task
    v1 = v1
    v2 = v2
    v3 = v3
    v4 = v4
    NrCpus = 3
    Submissions <- FourVcpus
    MayFail = {}
    DeviceIrqs = {}
INVARIANT TaskFixedToOneCpu
CHECK_DEADLOCK FALSE
