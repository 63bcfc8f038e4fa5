\* Objects of every kind made, used and closed at any time, processes killed.
SPECIFICATION NamedSpec
CONSTANTS
    h1 = h1
    h2 = h2
    h3 = h3
    h4 = h4
    Handles = {h1, h2, h3, h4}
    Pids = {h1, h2, h3, h4}
    PidOf <- OwnProcess
    AttachOnly = {h4}
    Closers = {h1, h2, h3, h4}
    Patient = TRUE
    Kinds = {"raw", "mutex", "semaphore", "event", "queue"}
SYMMETRY HandleSymmetry
INVARIANTS OneSegment OneCreator NoLeak QueueOnce LateUseKept
PROPERTIES UnlinkInTurn
CHECK_DEADLOCK FALSE
