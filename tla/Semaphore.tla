----------------------------- MODULE Semaphore -----------------------------
(***************************************************************************)
(* fastipc.Semaphore (struct FutexSemaphore of _primitives.c): a counting  *)
(* semaphore whose count is itself the futex word waiters sleep on.  One   *)
(* action per access to the count or per system call; threads of one       *)
(* process are serialised by its GIL, dropped around the system calls.     *)
(*                                                                         *)
(* Left out: magic, last_pid and last_acquired_ns (written, never read by  *)
(* the protocol).                                                          *)
(***************************************************************************)
EXTENDS Integers, FiniteSets

CONSTANTS
    Threads,     \* the threads that use the semaphore
    Posters,     \* those that call post()
    Waiters,     \* those that call wait()
    Pids,        \* the processes they run in
    PidOf,       \* the process of each thread
    Initial,     \* the initial count
    PostArgs,    \* Python integers given to post()
    WaitOps,     \* ways in which wait() is called
    Spin,        \* the `spin' argument of wait()
    UllMod,      \* 2^64: post() parses its argument modulo this
    UIntMax,     \* UINT32_MAX, the largest count
    IntMax       \* INT_MAX, the largest argument of FUTEX_WAKE

\* "block": no timeout; "timed": timeout_ns >= 0; "poll": blocking=False.
AllWaitOps == {"block", "timed", "poll"}

ASSUME SemaphoreAssumption ==
    /\ Posters \subseteq Threads /\ Waiters \subseteq Threads
    /\ PidOf \in [Threads -> Pids]
    /\ UIntMax \in Nat /\ UllMod \in Nat /\ UIntMax < UllMod
    /\ IntMax \in 1..UIntMax
    /\ Initial \in 0..UIntMax
    /\ PostArgs \subseteq Int
    /\ WaitOps \subseteq AllWaitOps
    /\ Spin \in Nat

VARIABLES
    count,       \* SEM_OFF_COUNT, the futex word
    pc,          \* where each thread is
    op,          \* the call each thread made last
    add,         \* the parsed argument of post()
    cur,         \* the value an exchange expects, loaded from the count
    tries,       \* iterations of the spin loop of wait()
    res          \* the result of the call, "pending" until it is decided

vars == <<count, pc, op, add, cur, tries, res>>

\* At these labels a thread is inside the extension and has the GIL.
GilLabels == {"post_check", "post_load", "post_cas", "wait_spin", "wait_cas"}

\* "py" is Python code outside the extension; at the other labels the
\* thread is in a futex call, or back from one and waiting for the GIL.
Labels == GilLabels \cup {"py", "post_wake", "post_ret", "wait_futex",
                          "asleep", "wait_retry", "wait_fail", "dead"}

Results == {"pending", "None", "OverflowError", "True", "False"}

\* No thread of process p is inside the extension with the GIL.
GilFree(p) == \A u \in Threads : PidOf[u] = p => pc[u] \notin GilLabels

\* The kernel's queue of the count.
Sleepers == {t \in Threads : pc[t] = "asleep"}

Goto(t, label) ==
    /\ pc' = [pc EXCEPT ![t] = label]
    /\ UNCHANGED res

\* Move on with the result of the call decided.
Finish(t, label, r) ==
    /\ pc' = [pc EXCEPT ![t] = label]
    /\ res' = [res EXCEPT ![t] = r]

Enter(t, o, label) ==
    /\ pc[t] = "py"
    /\ GilFree(PidOf[t])
    /\ op' = [op EXCEPT ![t] = o]
    /\ Finish(t, label, "pending")

Init ==
    /\ count = Initial
    /\ pc = [t \in Threads |-> "py"]
    /\ op = [t \in Threads |-> "none"]
    /\ add = [t \in Threads |-> 0]
    /\ cur = [t \in Threads |-> 0]
    /\ tries = [t \in Threads |-> 0]
    /\ res = [t \in Threads |-> "None"]

-----------------------------------------------------------------------------
(* post(), post1() *)

\* Format "K" takes any Python integer modulo 2^64.
CallPost(t) ==
    /\ t \in Posters
    /\ \E n \in PostArgs : add' = [add EXCEPT ![t] = n % UllMod]
    /\ Enter(t, "post", "post_check")
    /\ UNCHANGED <<count, cur, tries>>

\* An increment beyond uint32_t raises, one of 0 changes nothing.
PostCheck(t) ==
    /\ pc[t] = "post_check"
    /\ \/ add[t] > UIntMax /\ Finish(t, "py", "OverflowError")
       \/ add[t] = 0 /\ Finish(t, "py", "None")
       \/ add[t] \in 1..UIntMax /\ Goto(t, "post_load")
    /\ UNCHANGED <<count, op, add, cur, tries>>

PostLoadUnchecked(t) ==
    /\ pc[t] = "post_load"
    /\ cur' = [cur EXCEPT ![t] = count]
    /\ Goto(t, "post_cas")
    /\ UNCHANGED <<count, op, add, tries>>

\* Head of the loop of semaphore_add_tokens().
PostLoad(t) ==
    /\ pc[t] = "post_load"
    /\ IF count > UIntMax - add[t]
       THEN Finish(t, "py", "OverflowError") /\ UNCHANGED cur
       ELSE Goto(t, "post_cas") /\ cur' = [cur EXCEPT ![t] = count]
    /\ UNCHANGED <<count, op, add, tries>>

PostCasAlwaysQuiet(t) ==
    /\ pc[t] = "post_cas"
    /\ count = cur[t]
    /\ count' = cur[t] + add[t]
    /\ Finish(t, "py", "None")
    /\ cur' = [cur EXCEPT ![t] = 0]
    /\ UNCHANGED <<op, add, tries>>

PostCasBlind(t) ==
    /\ pc[t] = "post_cas"
    /\ count' = cur[t] + add[t]
    /\ Finish(t, IF cur[t] = 0 THEN "post_wake" ELSE "py", "None")
    /\ cur' = [cur EXCEPT ![t] = 0]
    /\ UNCHANGED <<op, add, tries>>

\* The exchange succeeds; sleepers are woken only if the count was 0.
PostCas(t) ==
    /\ pc[t] = "post_cas"
    /\ count = cur[t]
    /\ count' = cur[t] + add[t]
    /\ Finish(t, IF cur[t] = 0 THEN "post_wake" ELSE "py", "None")
    /\ cur' = [cur EXCEPT ![t] = 0]
    /\ UNCHANGED <<op, add, tries>>

\* It fails: the count has changed, or a weak exchange fails for no reason.
PostCasFail(t) ==
    /\ pc[t] = "post_cas"
    /\ Goto(t, "post_load")
    /\ cur' = [cur EXCEPT ![t] = 0]
    /\ UNCHANGED <<count, op, add, tries>>

\* FUTEX_WAKE of as many sleepers as tokens, as far as there are any.
PostWake(t) ==
    /\ pc[t] = "post_wake"
    /\ LET n == IF add[t] > IntMax THEN IntMax ELSE add[t]
       IN  \E woken \in SUBSET Sleepers :
              /\ \/ Cardinality(woken) = n
                 \/ Cardinality(woken) < n /\ woken = Sleepers
              /\ pc' = [u \in Threads |->
                          IF u = t THEN "post_ret"
                          ELSE IF u \in woken THEN "wait_retry"
                          ELSE pc[u]]
    /\ UNCHANGED <<count, op, add, cur, tries, res>>

PostRet(t) ==
    /\ pc[t] = "post_ret"
    /\ GilFree(PidOf[t])
    /\ Goto(t, "py")
    /\ UNCHANGED <<count, op, add, cur, tries>>

-----------------------------------------------------------------------------
(* wait() *)

CallWait(t) ==
    /\ t \in Waiters
    /\ \E o \in WaitOps : Enter(t, o, "wait_spin")
    /\ UNCHANGED <<count, add, cur, tries>>

\* One iteration of the spin loop loads the count ...
WaitLoad(t) ==
    /\ pc[t] = "wait_spin"
    /\ tries[t] < Spin
    /\ \/ /\ count > 0
          /\ cur' = [cur EXCEPT ![t] = count]
          /\ Goto(t, "wait_cas")
          /\ UNCHANGED tries
       \/ /\ count = 0
          /\ tries' = [tries EXCEPT ![t] = @ + 1]
          /\ UNCHANGED <<cur, pc, res>>
    /\ UNCHANGED <<count, op, add>>

\* ... and takes a token ...
WaitCas(t) ==
    /\ pc[t] = "wait_cas"
    /\ count = cur[t]
    /\ count' = cur[t] - 1
    /\ Finish(t, "py", "True")
    /\ cur' = [cur EXCEPT ![t] = 0]
    /\ tries' = [tries EXCEPT ![t] = 0]
    /\ UNCHANGED <<op, add>>

\* ... or finds the count changed, or fails for no reason.
WaitCasFail(t) ==
    /\ pc[t] = "wait_cas"
    /\ tries' = [tries EXCEPT ![t] = @ + 1]
    /\ Goto(t, "wait_spin")
    /\ cur' = [cur EXCEPT ![t] = 0]
    /\ UNCHANGED <<count, op, add>>

\* End of the spin loop: wait(blocking=False) returns, others drop the GIL.
WaitSpun(t) ==
    /\ pc[t] = "wait_spin"
    /\ tries[t] = Spin
    /\ IF op[t] = "poll" THEN Finish(t, "py", "False") ELSE Goto(t, "wait_futex")
    /\ tries' = [tries EXCEPT ![t] = 0]
    /\ UNCHANGED <<count, op, add, cur>>

\* FUTEX_WAIT with expected value 0: sleep, or EAGAIN and loop.
FutexWait(t) ==
    /\ pc[t] = "wait_futex"
    /\ Goto(t, IF count = 0 THEN "asleep" ELSE "wait_retry")
    /\ UNCHANGED <<count, op, add, cur, tries>>

\* EINTR, which the loop takes for a wake-up ...
FutexWaitIntr(t) ==
    /\ pc[t] = "asleep"
    /\ Goto(t, "wait_retry")
    /\ UNCHANGED <<count, op, add, cur, tries>>

\* ... or ETIMEDOUT.
FutexWaitTimeout(t) ==
    /\ pc[t] = "asleep"
    /\ op[t] = "timed"
    /\ Goto(t, "wait_fail")
    /\ UNCHANGED <<count, op, add, cur, tries>>

WaitRetryNoSpin(t) ==
    /\ pc[t] = "wait_retry"
    /\ GilFree(PidOf[t])
    /\ Goto(t, "wait_futex")
    /\ UNCHANGED <<count, op, add, cur, tries>>

\* Back from FUTEX_WAIT, the spin loop starts again.
WaitRetry(t) ==
    /\ pc[t] = "wait_retry"
    /\ GilFree(PidOf[t])
    /\ Goto(t, "wait_spin")
    /\ UNCHANGED <<count, op, add, cur, tries>>

WaitFail(t) ==
    /\ pc[t] = "wait_fail"
    /\ GilFree(PidOf[t])
    /\ Finish(t, "py", "False")
    /\ UNCHANGED <<count, op, add, cur, tries>>

-----------------------------------------------------------------------------
(* Specifications *)

\* Process p is killed: its threads stop where they are, the count stays.
Crash(p) ==
    /\ \E t \in Threads : PidOf[t] = p /\ pc[t] # "dead"
    /\ pc' = [t \in Threads |-> IF PidOf[t] = p THEN "dead" ELSE pc[t]]
    /\ UNCHANGED <<count, op, add, cur, tries, res>>

\* Steps that a thread inside a call takes on its own, once it has the GIL.
Inside(t) ==
    \/ PostCheck(t) \/ PostLoad(t) \/ PostCas(t) \/ PostCasFail(t) \/ PostWake(t)
    \/ WaitLoad(t) \/ WaitCas(t) \/ WaitCasFail(t) \/ WaitSpun(t) \/ FutexWait(t)

\* Back from a futex call.
TakesGil(t) == PostRet(t) \/ WaitRetry(t) \/ WaitFail(t)

Step(t) ==
    \/ CallPost(t) \/ CallWait(t)
    \/ Inside(t) \/ TakesGil(t)
    \/ FutexWaitIntr(t) \/ FutexWaitTimeout(t)

Next == \E t \in Threads : Step(t)

CrashNext == Next \/ \E p \in Pids : Crash(p)

Spec == Init /\ [][Next]_vars

CrashSpec == Init /\ [][CrashNext]_vars

\* Threads inside a call go on and get the GIL in the end, finite timeouts run
\* out, and a compare-and-exchange that may succeed again and again does.
FairSpec ==
    /\ Spec
    /\ \A t \in Threads :
        /\ WF_vars(Inside(t)) /\ WF_vars(FutexWaitTimeout(t))
        /\ SF_vars(TakesGil(t)) /\ SF_vars(PostCas(t)) /\ SF_vars(WaitCas(t))

-----------------------------------------------------------------------------
(* Properties *)

\* Every variable keeps its type, the count within uint32_t.
TypeOK ==
    /\ count \in 0..UIntMax
    /\ pc \in [Threads -> Labels]
    /\ op \in [Threads -> {"none", "post"} \cup AllWaitOps]
    /\ add \in [Threads -> 0..UllMod-1]
    /\ cur \in [Threads -> 0..UIntMax]
    /\ tries \in [Threads -> 0..Spin]
    /\ res \in [Threads -> Results]

\* The semaphore is the pool of tokens of module TokenPool, whatever threads
\* and processes interleave and wherever processes are killed: no token is
\* lost or made, no call takes effect twice, a post that raises OverflowError
\* has added nothing and would not have fitted.
Pool == INSTANCE TokenPool
          WITH value <- count, Max <- UIntMax, Args <- 0..UllMod-1
PoolSpec == Pool!Spec

\* Nobody is on the way to wake a sleeper or to look at the count again.
SleeperStranded(t) ==
    /\ pc[t] = "asleep"
    /\ count > 0
    /\ \A u \in Threads : pc[u] # "post_wake"

\* A thread that is the only one to wait does not sleep beside a token, unless
\* the post that brought the token is about to wake it.
LoneSleeperWoken == \A t \in Threads : ~SleeperStranded(t)

\* A blocking or timed wait() by the only waiting thread, once there is a
\* token, returns; `spin' is at least 1, with 0 the code never takes a token.
LoneWaiterServed ==
    \A t \in Waiters :
        (op[t] # "poll" /\ res[t] = "pending" /\ count > 0)
            ~> res[t] # "pending"

-----------------------------------------------------------------------------
(* What the documentation says and the code does not do *)

\* "exact-delivery wakeups" and "blocks if no tokens": when no call is in
\* progress but the waits of sleeping threads, there are no tokens left.
ExactDelivery ==
    (Sleepers # {} /\ \A t \in Threads : pc[t] \in {"py", "asleep"})
        => count = 0
=============================================================================
