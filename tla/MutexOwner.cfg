\* Two processes contend: the owner word.
SPECIFICATION Spec
CONSTANTS
    t1 = t1
    t2 = t2
    t3 = t3
    Threads = {t1, t2}
    Pids = {t1, t2}
    PidOf <- OwnProcess
    NoPid = NoPid
    Spin = 1
    Ops = {"acquire", "release"}
    Recoverers = {}
INVARIANTS HolderIsOwner
