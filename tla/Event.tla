------------------------------- MODULE Event -------------------------------
(***************************************************************************)
(* NamedEvent over fastipc.FutexWord: one futex word in a shared segment,  *)
(* 1 when the event is set.  set() is a store and then a system call, so   *)
(* other threads act in between; wait() is FUTEX_WAIT and nothing else.    *)
(* Each access is one action; the GIL adds no atomicity to them.           *)
(***************************************************************************)
EXTENDS Integers

CONSTANTS
    Threads,      \* the threads, each with its own NamedEvent
    WaitOps       \* "block": timeout_ns < 0, "timed": timeout_ns >= 0

ASSUME EventAssumption == WaitOps \subseteq {"block", "timed"}

VARIABLES
    word,         \* the futex word; a new segment is zeroed by the kernel
    pc,           \* where each thread is
    op,           \* how its wait() was called
    res           \* what its last wait() returned

vars == <<word, pc, op, res>>

Labels == {"new", "init", "py", "wait_futex", "asleep", "set_wake"}

\* The kernel's queue of the word.
Sleepers == {t \in Threads : pc[t] = "asleep"}

Goto(t, label) == pc' = [pc EXCEPT ![t] = label]

\* wait() returns r.
Return(t, r) == Goto(t, "py") /\ res' = [res EXCEPT ![t] = r]

Init ==
    /\ word = 0
    /\ pc = [t \in Threads |-> "new"]
    /\ op = [t \in Threads |-> "block"]
    /\ res = [t \in Threads |-> "none"]

-----------------------------------------------------------------------------
(* NamedEvent(name) *)

\* The first to open the segment is told that it created it.
Open(t) ==
    /\ pc[t] = "new"
    /\ Goto(t, IF \A u \in Threads : pc[u] = "new" THEN "init" ELSE "py")
    /\ UNCHANGED <<word, op, res>>

\* The creator stores 0 once it has the segment.
InitStore(t) ==
    /\ pc[t] = "init"
    /\ word' = 0
    /\ Goto(t, "py")
    /\ UNCHANGED <<op, res>>

-----------------------------------------------------------------------------
(* wait() *)

CallWait(t) ==
    /\ pc[t] = "py"
    /\ \E o \in WaitOps : op' = [op EXCEPT ![t] = o]
    /\ Goto(t, "wait_futex")
    /\ UNCHANGED <<word, res>>

\* FUTEX_WAIT with expected value 0: sleep, or EAGAIN and return False.
FutexWait(t) ==
    /\ pc[t] = "wait_futex"
    /\ \/ word = 0 /\ Goto(t, "asleep") /\ UNCHANGED res
       \/ word # 0 /\ Return(t, "False")
    /\ UNCHANGED <<word, op>>

\* ETIMEDOUT, or EINTR with a finite timeout.
FutexWaitTimeout(t) ==
    /\ pc[t] = "asleep"
    /\ op[t] = "timed"
    /\ Return(t, "False")
    /\ UNCHANGED <<word, op>>

\* EINTR without a timeout: the system call is made again.
FutexWaitIntr(t) ==
    /\ pc[t] = "asleep"
    /\ op[t] = "block"
    /\ Goto(t, "wait_futex")
    /\ UNCHANGED <<word, op, res>>

-----------------------------------------------------------------------------
(* set(), clear() *)

Set(t) ==
    /\ pc[t] = "py"
    /\ word' = 1
    /\ Goto(t, "set_wake")
    /\ UNCHANGED <<op, res>>

\* The setter at t and the threads of `woken' return.
WakeUp(t, woken) ==
    /\ pc' = [u \in Threads |-> IF u = t \/ u \in woken THEN "py" ELSE pc[u]]
    /\ res' = [u \in Threads |-> IF u \in woken THEN "True" ELSE res[u]]
    /\ UNCHANGED <<word, op>>

SetWakeOne(t) ==
    /\ pc[t] = "set_wake"
    /\ \/ Sleepers = {} /\ WakeUp(t, {})
       \/ \E u \in Sleepers : WakeUp(t, {u})

SetWakeIfSet(t) ==
    /\ pc[t] = "set_wake"
    /\ WakeUp(t, IF word = 1 THEN Sleepers ELSE {})

\* FUTEX_WAKE of all sleepers.
SetWake(t) ==
    /\ pc[t] = "set_wake"
    /\ WakeUp(t, Sleepers)

Clear(t) ==
    /\ pc[t] = "py"
    /\ word' = 0
    /\ UNCHANGED <<pc, op, res>>

-----------------------------------------------------------------------------
(* Specifications *)

Step(t) ==
    \/ Open(t) \/ InitStore(t)
    \/ CallWait(t) \/ FutexWait(t) \/ FutexWaitTimeout(t) \/ FutexWaitIntr(t)
    \/ Set(t) \/ SetWake(t) \/ Clear(t)

Next == \E t \in Threads : Step(t)

Spec == Init /\ [][Next]_vars

\* A thread inside set() or wait() reaches its system call.
FairSpec == Spec /\ \A t \in Threads : WF_vars(SetWake(t)) /\ WF_vars(FutexWait(t))

-----------------------------------------------------------------------------
(* Properties *)

TypeOK ==
    /\ word \in 0..1
    /\ pc \in [Threads -> Labels]
    /\ op \in [Threads -> {"block", "timed"}]
    /\ res \in [Threads -> {"none", "True", "False"}]

\* Nobody sleeps on an event that is set, unless its set() has not made its
\* FUTEX_WAKE yet.
NoSleeperWhenSet ==
    word = 1 /\ Sleepers # {} => \E t \in Threads : pc[t] = "set_wake"

\* Whoever sleeps when set() stores its 1 leaves the queue, even if clear()
\* follows at once.
PulseWakes ==
    \A s, t \in Threads :
        (pc[s] = "set_wake" /\ pc[t] = "asleep") ~> pc[t] # "asleep"
=============================================================================
