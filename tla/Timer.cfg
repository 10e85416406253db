SPECIFICATION Spec
CONSTANTS
    NoTimer = NoTimer
    a = a
    b = b
    c = c
    p = p
    Timers = {a, b, c, p}
    Periodic = {p}
    Ticks <- Lengths
    Capacity = 5
    MaxTsc = 4
INVARIANTS HeapExact ArmedForEarliest
PROPERTIES QueuedTimerFires
CHECK_DEADLOCK FALSE
