\* Two threads of one process and a thread of another, every method; any
\* process may be killed at any step.
SPECIFICATION CrashSpec
CONSTANTS
    t1 = t1
    t2 = t2
    t3 = t3
    Threads = {t1, t2, t3}
    Pids = {t1, t3}
    PidOf <- SharedProcess
    NoPid = NoPid
    Spin = 1
    Ops = {"acquire", "acquire_ns", "acquire_ns_0", "acquire_ns_t", "enter", "try_acquire", "release"}
    Recoverers = {}
INVARIANTS TypeOK MutualExclusion NoLostWakeup OwnerNeverWrong
PROPERTIES LockSpec
CHECK_DEADLOCK FALSE
