\* Processes that exit holding the mutex, one recoverer.
SPECIFICATION FairExitSpec
CONSTANTS
    t1 = t1
    t2 = t2
    t3 = t3
    Threads = {t1, t2, t3}
    Pids = {t1, t2, t3}
    PidOf <- OwnProcess
    NoPid = NoPid
    Spin = 1
    Ops = {"acquire", "acquire_ns_t", "release"}
    Recoverers = {t3}
INVARIANTS MutualExclusion
PROPERTIES Progress
CHECK_DEADLOCK FALSE
