SPECIFICATION Spec
CONSTANTS
    NULL = NULL
    idle_task = idle_task
    v1 = v1
    v2 = v2
    v3 = v3
    v4 = v4
    NrCpus = 2
    Submissions <- FourVcpus
    MayFail = {v1}
    DeviceIrqs = {0}
INVARIANTS NoLostWakeup EveryVcpuAccounted
PROPERTIES ImplementsFifo QueuedVcpuRuns
CHECK_DEADLOCK FALSE
