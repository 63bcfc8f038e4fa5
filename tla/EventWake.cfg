\* Three threads, every method, set() and clear() in any order.
SPECIFICATION FairSpec
CONSTANTS
    t1 = t1
    t2 = t2
    t3 = t3
    Threads = {t1, t2, t3}
    WaitOps = {"block", "timed"}
INVARIANTS NoSleeperWhenSet
PROPERTIES PulseWakes
