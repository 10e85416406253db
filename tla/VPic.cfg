SPECIFICATION Spec
CONSTANTS
    Lines = {1, 3, 8}
    CmdBytes <- GuestCmds
    DataBytes = {0, 42}
    Restarts = 3
INVARIANTS AnnouncedIsFetched
PROPERTIES RequestsKept NestedByPriority TriedAgain
CHECK_DEADLOCK FALSE
