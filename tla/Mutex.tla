------------------------------- MODULE Mutex -------------------------------
(***************************************************************************)
(* fastipc.Mutex (struct FutexMutex of _primitives.c): a futex mutex over  *)
(* a 64-byte header in shared memory.  Two words of the header matter, the *)
(* futex word `state' (0 unlocked, 1 locked, 2 contended) and `owner', the *)
(* PID written by the acquirer and checked by release().  One action per   *)
(* access to the shared words or per system call, because threads of other *)
(* processes may run between any two of them.  Threads of one process are  *)
(* serialised by its GIL, which the C code drops only around the futex     *)
(* system calls.                                                           *)
(*                                                                         *)
(* Left out: magic, flags and last_acquired_ns (written, never read by the *)
(* protocol).  The words are sequentially consistent here; the code uses   *)
(* acquire/release orders on them and one fence-free diagnostic field.     *)
(***************************************************************************)
EXTENDS Integers

CONSTANTS
    Threads,     \* the threads that use the mutex
    Pids,        \* the processes they run in
    PidOf,       \* the process of each thread (getpid())
    NoPid,       \* the value 0 of the owner word
    Spin,        \* attempts of the spin loops (16 in the code)
    Ops,         \* the methods the threads call
    Recoverers   \* the threads that call force_release() for a dead owner

\* "acquire_ns" is called with timeout_ns < 0, "acquire_ns_0" with 0 and
\* "acquire_ns_t" with timeout_ns > 0.
AcquireOps == {"acquire", "acquire_ns", "acquire_ns_0", "acquire_ns_t",
               "enter", "try_acquire"}

AllOps == AcquireOps \cup {"release"}

ASSUME MutexAssumption ==
    /\ PidOf \in [Threads -> Pids]
    /\ NoPid \notin Pids
    /\ Spin \in Nat
    /\ Ops \subseteq AllOps
    /\ Recoverers \subseteq Threads

VARIABLES
    state,       \* MUTEX_OFF_STATE, the futex word
    owner,       \* MUTEX_OFF_OWNER
    pc,          \* where each thread is
    op,          \* the method each thread is in
    spin,        \* iterations made by the spin loop of each thread
    prev,        \* value a release exchanged out of the futex word
    holds        \* threads whose acquire took the word and not yet gave it back

vars == <<state, owner, pc, op, spin, prev, holds>>

\* At these labels a thread is inside the extension and has the GIL.
GilLabels == {"acq_check", "acq_cas", "acq_spin", "acq_xchg", "acq_own",
              "rel_check", "rel_xchg", "frc_xchg", "rel_owner"}

\* "py" is Python code outside the extension; at the other labels the
\* thread is in a futex call, or back from one and waiting for the GIL.
Labels == GilLabels \cup {"py", "acq_wait", "asleep", "acq_retry", "acq_fail",
                          "rel_wake", "rel_ret", "dead", "killed"}

\* A thread that died, and one that died while sleepers depended on it.
DeadLabels == {"dead", "killed"}

GilFreeThreaded(p) == TRUE

\* No thread of process p is inside the extension with the GIL.
GilFree(p) == \A u \in Threads : PidOf[u] = p => pc[u] \notin GilLabels

\* The kernel's queue of the futex word.
Sleepers == {t \in Threads : pc[t] = "asleep"}

Dead(p) == \E t \in Threads : PidOf[t] = p /\ pc[t] \in DeadLabels

\* Move on; back in Python the thread is in no method.
Goto(t, label) ==
    /\ pc' = [pc EXCEPT ![t] = label]
    /\ op' = IF label = "py" THEN [op EXCEPT ![t] = "none"] ELSE op

\* Enter method o.
Enter(t, o, label) ==
    /\ pc[t] = "py"
    /\ GilFree(PidOf[t])
    /\ pc' = [pc EXCEPT ![t] = label]
    /\ op' = [op EXCEPT ![t] = o]
    /\ UNCHANGED <<state, owner, spin, prev, holds>>

Timed(t) == op[t] = "acquire_ns_t"

Init ==
    /\ state = 0
    /\ owner = NoPid
    /\ pc = [t \in Threads |-> "py"]
    /\ op = [t \in Threads |-> "none"]
    /\ spin = [t \in Threads |-> 0]
    /\ prev = [t \in Threads |-> 0]
    /\ holds = {}

-----------------------------------------------------------------------------
(* acquire(), acquire_ns(), try_acquire(), __enter__() *)

\* A thread that holds the mutex may probe it, or make the re-acquire that
\* acquire() reports, but does not wait for itself without end.  A recoverer
\* makes no call that may wait without end for an owner that is dead.
CallAcquire(t) ==
    \E o \in Ops \cap AcquireOps :
        /\ t \in holds => o \notin {"acquire_ns", "enter"}
        /\ t \in Recoverers => o \notin {"acquire", "acquire_ns", "enter"}
        /\ Enter(t, o, IF o = "acquire" THEN "acq_check" ELSE "acq_cas")

\* acquire() raises RuntimeError when the owner word has the caller's PID.
AcqCheck(t) ==
    /\ pc[t] = "acq_check"
    /\ Goto(t, IF owner = PidOf[t] THEN "py" ELSE "acq_cas")
    /\ UNCHANGED <<state, owner, spin, prev, holds>>

\* The exchange of 0 for w succeeded: the thread has the lock.
Take(t, w) ==
    /\ state = 0
    /\ state' = w
    /\ holds' = holds \cup {t}
    /\ Goto(t, "acq_own")

AcqCas(t) ==
    /\ pc[t] = "acq_cas"
    /\ \/ Take(t, 1)
       \/ /\ state # 0
          /\ Goto(t, IF op[t] = "try_acquire" THEN "py"
                     ELSE IF op[t] = "acquire" THEN "acq_xchg"
                     ELSE "acq_spin")
          /\ UNCHANGED <<state, holds>>
    /\ UNCHANGED <<owner, spin, prev>>

AcqSpinOverrun(t) ==
    /\ pc[t] = "acq_spin"
    /\ \/ /\ spin[t] <= Spin
          /\ Take(t, 1)
          /\ spin' = [spin EXCEPT ![t] = 0]
       \/ /\ spin[t] <= Spin
          /\ spin' = [spin EXCEPT ![t] = @ + 1]
          /\ UNCHANGED <<state, holds, pc, op>>
       \/ /\ spin[t] > Spin
          /\ spin' = [spin EXCEPT ![t] = 0]
          /\ Goto(t, IF op[t] = "acquire_ns_0" THEN "py" ELSE "acq_xchg")
          /\ UNCHANGED <<state, holds>>
    /\ UNCHANGED <<owner, prev>>

\* One iteration: the load saw 0 and the weak exchange took the word, or
\* one of them failed; then the end of the loop.
AcqSpin(t) ==
    /\ pc[t] = "acq_spin"
    /\ \/ /\ spin[t] < Spin
          /\ Take(t, 1)
          /\ spin' = [spin EXCEPT ![t] = 0]
       \/ /\ spin[t] < Spin
          /\ spin' = [spin EXCEPT ![t] = @ + 1]
          /\ UNCHANGED <<state, holds, pc, op>>
       \/ /\ spin[t] = Spin
          /\ spin' = [spin EXCEPT ![t] = 0]
          /\ Goto(t, IF op[t] = "acquire_ns_0" THEN "py" ELSE "acq_xchg")
          /\ UNCHANGED <<state, holds>>
    /\ UNCHANGED <<owner, prev>>

AcqXchgDropsContended(t) ==
    /\ pc[t] = "acq_xchg"
    /\ \/ Take(t, 1)
       \/ /\ state # 0
          /\ state' = 2
          /\ Goto(t, "acq_wait")
          /\ UNCHANGED holds
    /\ UNCHANGED <<owner, spin, prev>>

\* Head of the sleep loop.  The lock is taken with the word left at 2, as
\* there may be other sleepers.  Otherwise the GIL is dropped.
AcqXchg(t) ==
    /\ pc[t] = "acq_xchg"
    /\ \/ Take(t, 2)
       \/ /\ state # 0
          /\ state' = 2
          /\ Goto(t, "acq_wait")
          /\ UNCHANGED holds
    /\ UNCHANGED <<owner, spin, prev>>

\* FUTEX_WAIT with expected value 2: sleep, or EAGAIN and loop.
FutexWait(t) ==
    /\ pc[t] = "acq_wait"
    /\ Goto(t, IF state = 2 THEN "asleep" ELSE "acq_retry")
    /\ UNCHANGED <<state, owner, spin, prev, holds>>

\* ETIMEDOUT or EINTR.  A call with a finite timeout returns False; the
\* others loop, EINTR being a spurious wake-up to them.
FutexWaitError(t) ==
    /\ pc[t] = "asleep"
    /\ Goto(t, IF Timed(t) THEN "acq_fail" ELSE "acq_retry")
    /\ UNCHANGED <<state, owner, spin, prev, holds>>

\* Back from FUTEX_WAIT, the GIL is taken again.
AcqRetry(t) ==
    /\ pc[t] = "acq_retry"
    /\ GilFree(PidOf[t])
    /\ Goto(t, "acq_xchg")
    /\ UNCHANGED <<state, owner, spin, prev, holds>>

AcqFail(t) ==
    /\ pc[t] = "acq_fail"
    /\ GilFree(PidOf[t])
    /\ Goto(t, "py")
    /\ UNCHANGED <<state, owner, spin, prev, holds>>

\* Store the PID in the owner word and return True.
AcqOwn(t) ==
    /\ pc[t] = "acq_own"
    /\ owner' = PidOf[t]
    /\ Goto(t, "py")
    /\ UNCHANGED <<state, spin, prev, holds>>

-----------------------------------------------------------------------------
(* release(), __exit__(), NamedMutex.try_release() *)

\* Callers release what they hold; a thread that does not hold the mutex may
\* call too (try_release() returns False to it), unless a thread of its own
\* process holds it: ownership is per process, the call would succeed.
CallRelease(t) ==
    /\ "release" \in Ops
    /\ t \in holds \/ \A u \in holds : PidOf[u] # PidOf[t]
    /\ Enter(t, "release", "rel_check")

RelCheckUnguarded(t) ==
    /\ pc[t] = "rel_check"
    /\ Goto(t, "rel_xchg")
    /\ UNCHANGED <<state, owner, spin, prev, holds>>

\* RuntimeError when the owner word is not the caller's PID.
RelCheck(t) ==
    /\ pc[t] = "rel_check"
    /\ Goto(t, IF owner = PidOf[t] THEN "rel_xchg" ELSE "py")
    /\ UNCHANGED <<state, owner, spin, prev, holds>>

RelXchg(t) ==
    /\ pc[t] = "rel_xchg"
    /\ prev' = [prev EXCEPT ![t] = state]
    /\ state' = 0
    /\ holds' = holds \ {t}
    /\ Goto(t, "rel_owner")
    /\ UNCHANGED <<owner, spin>>

RelOwnerKept(t) ==
    /\ pc[t] = "rel_owner"
    /\ prev' = [prev EXCEPT ![t] = 0]
    /\ Goto(t, IF prev[t] = 2 THEN "rel_wake" ELSE "py")
    /\ UNCHANGED <<state, owner, spin, holds>>

RelOwnerWakesLocked(t) ==
    /\ pc[t] = "rel_owner"
    /\ owner' = NoPid
    /\ prev' = [prev EXCEPT ![t] = 0]
    /\ Goto(t, IF prev[t] = 1 THEN "rel_wake" ELSE "py")
    /\ UNCHANGED <<state, spin, holds>>

\* Clear the owner word; return, or drop the GIL to wake a sleeper.
RelOwner(t) ==
    /\ pc[t] = "rel_owner"
    /\ owner' = NoPid
    /\ prev' = [prev EXCEPT ![t] = 0]
    /\ Goto(t, IF prev[t] = 2 THEN "rel_wake" ELSE "py")
    /\ UNCHANGED <<state, spin, holds>>

\* FUTEX_WAKE of one sleeper, if there is one.
RelWake(t) ==
    /\ pc[t] = "rel_wake"
    /\ \/ /\ Sleepers = {}
          /\ Goto(t, "rel_ret")
       \/ \E u \in Sleepers :
          /\ pc' = [pc EXCEPT ![t] = "rel_ret", ![u] = "acq_retry"]
          /\ UNCHANGED op
    /\ UNCHANGED <<state, owner, spin, prev, holds>>

RelRet(t) ==
    /\ pc[t] = "rel_ret"
    /\ GilFree(PidOf[t])
    /\ Goto(t, "py")
    /\ UNCHANGED <<state, owner, spin, prev, holds>>

-----------------------------------------------------------------------------
(* Processes that die, and force_release() *)

\* A thread that will rewrite the futex word to 2, or that is about to make
\* the FUTEX_WAKE of a contended release.
WillRecheck(t) ==
    \/ pc[t] \in {"acq_retry", "acq_xchg", "rel_wake"}
    \/ pc[t] = "rel_owner" /\ prev[t] = 2

\* Process p is gone: its threads stop where they are, the header stays.
Die(p) ==
    /\ ~Dead(p)
    /\ pc' = [t \in Threads |-> IF PidOf[t] # p THEN pc[t]
                               ELSE IF WillRecheck(t) THEN "killed" ELSE "dead"]
    /\ holds' = {t \in holds : PidOf[t] # p}
    /\ UNCHANGED <<state, owner, op, spin, prev>>

\* Killed anywhere.
Crash(p) == Die(p)

\* The program ends, with or without the lock, while none of its threads is
\* inside the extension.
Exit(p) ==
    /\ \A t \in Threads : PidOf[t] = p => pc[t] = "py"
    /\ Die(p)

\* force_release() as its documentation asks for: the owner is dead.
CallForceRelease(t) ==
    /\ t \in Recoverers
    /\ Dead(owner)
    /\ Enter(t, "force_release", "frc_xchg")

\* The rest of force_release() is that of release().
ForceXchg(t) ==
    /\ pc[t] = "frc_xchg"
    /\ prev' = [prev EXCEPT ![t] = state]
    /\ state' = 0
    /\ Goto(t, "rel_owner")
    /\ UNCHANGED <<owner, spin, holds>>

-----------------------------------------------------------------------------
(* Specifications *)

\* Steps that a thread inside a call takes on its own, once it has the GIL.
Inside(t) ==
    \/ AcqCheck(t) \/ AcqCas(t) \/ AcqSpin(t) \/ AcqXchg(t)
    \/ FutexWait(t) \/ AcqOwn(t)
    \/ RelCheck(t) \/ RelXchg(t) \/ RelOwner(t) \/ RelWake(t)

Step(t) ==
    \/ CallAcquire(t) \/ CallRelease(t)
    \/ Inside(t)
    \/ FutexWaitError(t)
    \/ AcqRetry(t) \/ AcqFail(t) \/ RelRet(t)

ForceStep(t) == CallForceRelease(t) \/ ForceXchg(t)

Next == \E t \in Threads : Step(t)

CrashNext == Next \/ \E p \in Pids : Crash(p)

ExitNext ==
    \/ Next
    \/ \E p \in Pids : Exit(p)
    \/ \E t \in Threads : ForceStep(t)

Spec == Init /\ [][Next]_vars

\* Any process may be killed at any step.
CrashSpec == Init /\ [][CrashNext]_vars

\* Processes may exit without releasing and are recovered from.
ExitSpec == Init /\ [][ExitNext]_vars

\* Back from a futex call.  A thread that waits for the GIL gets it: CPython
\* makes the running thread drop it on request.
TakesGil(t) == AcqRetry(t) \/ AcqFail(t) \/ RelRet(t)

\* A holder releases in the end.
Unlocks(t) == t \in holds /\ CallRelease(t)

\* A finite timeout runs out.
Expires(t) == Timed(t) /\ FutexWaitError(t)

Fairness ==
    \A t \in Threads :
        /\ WF_vars(Inside(t)) /\ WF_vars(Expires(t))
        /\ SF_vars(TakesGil(t)) /\ SF_vars(Unlocks(t))

\* A recoverer that sees a dead owner acts on it.
FairExitSpec ==
    /\ ExitSpec
    /\ Fairness
    /\ \A t \in Recoverers : SF_vars(CallForceRelease(t)) /\ WF_vars(ForceXchg(t))

-----------------------------------------------------------------------------
(* Properties *)

\* Every variable keeps its type, the spin counter within the loop's bound.
TypeOK ==
    /\ state \in 0..2
    /\ owner \in Pids \cup {NoPid}
    /\ pc \in [Threads -> Labels]
    /\ op \in [Threads -> AllOps \cup {"none", "force_release"}]
    /\ spin \in [Threads -> 0..Spin]
    /\ prev \in [Threads -> 0..2]
    /\ holds \in SUBSET Threads

\* At most one thread has the mutex, whichever methods the threads of all
\* processes use to take it, and release() called by a process that does not
\* own it (try_release()) takes it from nobody.
MutualExclusion == \A t, u \in holds : t = u

SleepersCovered ==
    Sleepers # {} => state = 2 \/ \E t \in Threads : WillRecheck(t)

\* While threads sleep in the futex queue, either the word says "contended",
\* so that the next release wakes one, or such a wake-up is under way, or a
\* thread out of the queue is about to set the word again: no wake-up is lost,
\* whichever processes are killed elsewhere.  Only the death of a thread that
\* has left the queue, or that has set a contended word free and not yet made
\* its FUTEX_WAKE, may leave sleepers behind.
NoLostWakeup == (\A t \in Threads : pc[t] # "killed") => SleepersCovered

\* owner_pid() may say 0 while the mutex is held, but it never names a
\* process that neither holds the mutex nor is in the middle of releasing it,
\* unless that process is dead.
OwnerNeverWrong ==
    owner # NoPid =>
        \E u \in Threads :
            /\ PidOf[u] = owner
            /\ u \in holds \/ pc[u] \in {"rel_owner"} \cup DeadLabels

\* The mutex is the lock of module Lock: threads take it only when it is
\* free and only its holder, or the holder's death, frees it.
L == INSTANCE Lock
LockSpec == L!Spec

\* Threads in the sleep loop of a blocking acquire.
Blocked(t) == pc[t] \in {"acq_xchg", "acq_wait", "asleep", "acq_retry"}

\* The late end of a release() has erased the PID of the next holder, alive or
\* dead (see HolderIsOwner): its own release() raises, and nobody can tell
\* that it is dead.
OwnerErased ==
    \/ \E t \in holds : pc[t] # "acq_own" /\ owner # PidOf[t]
    \/ state # 0 /\ holds = {} /\ owner = NoPid

\* A blocked thread gives up on its timeout, or someone gets the mutex: no
\* thread sleeps on while the mutex stays free, nor, thanks to
\* force_release(), after the holder has exited without releasing it.
\* Excepted are an erased owner, and the death of all recoverers.
Progress ==
    \A t \in Threads :
        Blocked(t) ~>
            \/ ~Blocked(t)
            \/ \E u \in Threads : pc[u] = "acq_own"
            \/ OwnerErased
            \/ \A r \in Recoverers : pc[r] \in DeadLabels

-----------------------------------------------------------------------------
(* What the documentation says and the code does not do *)

\* "Return the current owner PID, or 0 if unlocked": in Python code, after
\* acquire returned True and before release is called, the owner word is the
\* holder's PID, so that its release() does not raise.
HolderIsOwner ==
    \A t \in holds : pc[t] \in {"py", "rel_check"} => owner = PidOf[t]
=============================================================================
