CONSTANTS
    t1 = t1
    t2 = t2
    t3 = t3
    Threads = {t1, t2, t3}
    Posters = {t1, t2}
    Waiters = {t2, t3}
    Pids = {t1, t3}
    PidOf <- SharedProcess
    Initial = 0
    PostArgs <- EdgeArgs
    WaitOps = {"block", "timed", "poll"}
    Spin = 1
    UllMod = 8
    UIntMax = 3
    IntMax = 2
SPECIFICATION CrashSpec
INVARIANT TypeOK
PROPERTY PoolSpec
CHECK_DEADLOCK FALSE
