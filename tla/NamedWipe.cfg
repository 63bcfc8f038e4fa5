\* The creator of a named object initialises it when another process uses it.
SPECIFICATION NamedSpec
CONSTANTS
    h1 = h1
    h2 = h2
    h3 = h3
    h4 = h4
    Handles = {h1, h2}
    Pids = {h1, h2}
    PidOf <- OwnProcess
    AttachOnly = {}
    Closers = {h1, h2}
    Patient = TRUE
    Kinds = {"mutex", "semaphore", "event"}
INVARIANTS UseKept
CHECK_DEADLOCK FALSE
