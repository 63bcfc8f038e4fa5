CONSTANTS
    t1 = t1
    t2 = t2
    t3 = t3
    Threads = {t1, t2, t3}
    Posters = {t1}
    Waiters = {t2, t3}
    Pids = {t1, t2, t3}
    PidOf <- OwnProcess
    Initial = 0
    PostArgs <- UnitArgs
    WaitOps = {"block"}
    Spin = 1
    UllMod = 8
    UIntMax = 3
    IntMax = 2
SPECIFICATION Spec
INVARIANT ExactDelivery
