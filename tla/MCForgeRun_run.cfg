SPECIFICATION Spec
CONSTANTS
    None = None
    Viewer = Viewer
    Proc = {p1, p2}
    Task = {1, 2}
    Needs <- SecondNeedsFirst
    Commands <- AllCommands
    MaxCommands = 2
    MaxEdit = 1
    Faults <- OnlyCrashes
INVARIANT RunningIsFingerprinted
PROPERTY CompletedIsHonest
PROPERTY QueuedBeginsRight
PROPERTY NoPhantom
CHECK_DEADLOCK FALSE
