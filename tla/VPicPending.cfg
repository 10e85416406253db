SPECIFICATION Spec
CONSTANTS
    Lines = {1, 8}
    CmdBytes <- GuestCmds
    DataBytes = {0, 42}
    Restarts = 2
INVARIANT PendingIsReported
CHECK_DEADLOCK FALSE
