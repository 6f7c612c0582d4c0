SPECIFICATION Spec
CONSTANTS
    None = None
    Actor = {a1, a2}
    Process = {p1, p2}
    Max = 1
    Modes <- BothModes
    MaxCrashes = 1
    Faults <- Everything
    MaxFaults = 1
INVARIANT LimitKept
INVARIANT RecordUntilGone
PROPERTY KillEnds
CHECK_DEADLOCK FALSE
