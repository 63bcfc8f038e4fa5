\* A process attaches while another closes.
SPECIFICATION Spec
CONSTANTS
    h1 = h1
    h2 = h2
    Handles = {h1, h2}
    Pids = {h1, h2}
    PidOf <- OwnProcess
    AttachOnly = {}
    Closers = {h1, h2}
    Patient = TRUE
PROPERTIES UnlinkOnlyUnused
CHECK_DEADLOCK FALSE
