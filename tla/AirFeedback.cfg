SPECIFICATION Spec
CONSTANTS
    Clock = 64
    Tick = 5
    Interval = 20
    Acl = 8
    Counters = 8
    Lead = 3
    MaxAhead = 4
    Horizon = 140
    SeqMod = 4
    Shifts = {0, 7, 20}
    MaxFrame = 12
INVARIANTS InStep OneTimeline
CHECK_DEADLOCK FALSE
