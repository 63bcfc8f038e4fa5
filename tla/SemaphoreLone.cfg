CONSTANTS
    t1 = t1
    t2 = t2
    t3 = t3
    Threads = {t1, t2, t3}
    Posters = {t1, t2}
    Waiters = {t3}
    Pids = {t1, t2, t3}
    PidOf <- OwnProcess
    Initial = 0
    PostArgs <- PairArgs
    WaitOps = {"block", "timed", "poll"}
    Spin = 1
    UllMod = 4
    UIntMax = 2
    IntMax = 1
SPECIFICATION FairSpec
INVARIANT LoneSleeperWoken
PROPERTY LoneWaiterServed
