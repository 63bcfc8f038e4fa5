-------------------------- MODULE SemaphoreProofs --------------------------
(***************************************************************************)
(* Proofs about Semaphore for any threads, processes, spin counts, widths  *)
(* of the count and arguments of post().                                   *)
(***************************************************************************)
EXTENDS Semaphore, FiniteSetTheorems, TLAPS

-----------------------------------------------------------------------------
(* The inductive invariant *)

\* Where a thread is says which call it is in and that its result is open;
\* the exchange of a post fits the count, that of a wait finds a token.
CallInv ==
    \A t \in Threads :
        /\ pc[t] \in {"py", "post_wake", "post_ret"} => res[t] # "pending"
        /\ pc[t] \in {"post_check", "post_load", "post_cas"} =>
              op[t] = "post" /\ res[t] = "pending"
        /\ pc[t] \in {"wait_spin", "wait_cas", "wait_futex", "asleep",
                      "wait_retry", "wait_fail"} =>
              op[t] \in AllWaitOps /\ res[t] = "pending"
        /\ pc[t] = "wait_fail" => op[t] = "timed"
        /\ pc[t] \in {"post_load", "post_cas"} => add[t] \in 1..UIntMax
        /\ pc[t] = "post_cas" => cur[t] + add[t] <= UIntMax
        /\ pc[t] = "wait_cas" => cur[t] > 0 /\ tries[t] < Spin

SemaphoreInv == TypeOK /\ CallInv

\* A post() argument, whatever integer it is, is parsed into the range of an
\* unsigned long long.
LEMMA ParsedArg ==
    ASSUME NEW n \in PostArgs
    PROVE  n % UllMod \in 0..UllMod-1
BY SemaphoreAssumption

\* A step of a thread keeps the invariant.
LEMMA StepInv ==
    ASSUME SemaphoreInv, NEW t \in Threads, Step(t)
    PROVE  SemaphoreInv'
<1> USE SemaphoreAssumption
    DEF SemaphoreInv, TypeOK, CallInv, Labels, GilLabels, Results, AllWaitOps,
        Goto, Finish
<1>1. CASE CallPost(t)
  BY <1>1, ParsedArg DEF CallPost, Enter
<1>2. CASE CallWait(t)
  BY <1>2 DEF CallWait, Enter
<1>3. CASE PostCheck(t)
  BY <1>3 DEF PostCheck
<1>4. CASE PostLoad(t)
  BY <1>4 DEF PostLoad
<1>5. CASE PostCas(t)
  BY <1>5 DEF PostCas
<1>6. CASE PostCasFail(t)
  BY <1>6 DEF PostCasFail
<1>7. CASE PostWake(t)
  BY <1>7 DEF PostWake, Sleepers
<1>8. CASE PostRet(t)
  BY <1>8 DEF PostRet
<1>9. CASE WaitLoad(t)
  BY <1>9 DEF WaitLoad
<1>10. CASE WaitCas(t)
  BY <1>10 DEF WaitCas
<1>11. CASE WaitCasFail(t)
  BY <1>11 DEF WaitCasFail
<1>12. CASE WaitSpun(t)
  BY <1>12 DEF WaitSpun
<1>13. CASE FutexWait(t) \/ FutexWaitIntr(t) \/ FutexWaitTimeout(t)
  BY <1>13 DEF FutexWait, FutexWaitIntr, FutexWaitTimeout
<1>14. CASE WaitRetry(t) \/ WaitFail(t)
  BY <1>14 DEF WaitRetry, WaitFail
<1> QED
  BY <1>1, <1>2, <1>3, <1>4, <1>5, <1>6, <1>7, <1>8, <1>9, <1>10, <1>11,
     <1>12, <1>13, <1>14
  DEF Step, Inside, TakesGil

\* So does the death of a process.
LEMMA CrashInv ==
    ASSUME SemaphoreInv, NEW p \in Pids, Crash(p)
    PROVE  SemaphoreInv'
BY SemaphoreAssumption
DEF SemaphoreInv, TypeOK, CallInv, Crash, Labels, GilLabels

\* The inductive invariant holds in every reachable state.
THEOREM SemaphoreInvariant == CrashSpec => []SemaphoreInv
<1>1. Init => SemaphoreInv
  BY SemaphoreAssumption
  DEF Init, SemaphoreInv, TypeOK, CallInv, Labels, GilLabels, Results
<1>2. SemaphoreInv /\ [CrashNext]_vars => SemaphoreInv'
  <2> SUFFICES ASSUME SemaphoreInv, [CrashNext]_vars PROVE SemaphoreInv'
    OBVIOUS
  <2>1. CASE Next
    BY <2>1, StepInv DEF Next
  <2>2. CASE \E p \in Pids : Crash(p)
    BY <2>2, CrashInv
  <2>3. CASE UNCHANGED vars
    BY <2>3 DEF vars, SemaphoreInv, TypeOK, CallInv
  <2> QED
    BY <2>1, <2>2, <2>3 DEF CrashNext
<1> QED
  BY <1>1, <1>2, PTL DEF CrashSpec

\* The count stays within uint32_t, and every other variable in its type, for
\* every argument of post() and every interleaving.
THEOREM SemaphoreType == CrashSpec => []TypeOK
<1>1. SemaphoreInv => TypeOK
  BY DEF SemaphoreInv
<1> QED
  BY <1>1, SemaphoreInvariant, PTL

-----------------------------------------------------------------------------
(* Refinement *)

\* The exchange of a post is Post of the pool and that of a wait its Take; the
\* other steps decide a result without touching the count, or change nothing
\* that the pool shows.
LEMMA StepRefines ==
    ASSUME SemaphoreInv, [CrashNext]_vars
    PROVE  [Pool!Next]_(Pool!vars)
<1> USE SemaphoreAssumption
    DEF SemaphoreInv, TypeOK, CallInv, AllWaitOps, Goto, Finish, Pool!vars
<1>1. ASSUME NEW t \in Threads, Step(t)
      PROVE  Pool!Next \/ UNCHANGED Pool!vars
  <2>1. CASE CallPost(t)
    <3>1. Pool!Call(t)
      BY <2>1, ParsedArg DEF CallPost, Enter, Pool!Call
    <3> QED
      BY <3>1 DEF Pool!Next
  <2>2. CASE CallWait(t)
    <3>1. add[t] \in 0..UllMod-1 /\ add' = [add EXCEPT ![t] = add[t]]
      BY <2>2 DEF CallWait
    <3>2. Pool!Call(t)
      BY <2>2, <3>1 DEF CallWait, Enter, Pool!Call
    <3> QED
      BY <3>2 DEF Pool!Next
  <2>3. CASE PostCheck(t)
    <3>1. Pool!Overflow(t) \/ Pool!Post(t) \/ UNCHANGED Pool!vars
      BY <2>3 DEF PostCheck, Pool!Overflow, Pool!Post, Pool!Result
    <3> QED
      BY <3>1 DEF Pool!Next
  <2>4. CASE PostLoad(t)
    <3>1. Pool!Overflow(t) \/ UNCHANGED Pool!vars
      BY <2>4 DEF PostLoad, Pool!Overflow, Pool!Result
    <3> QED
      BY <3>1 DEF Pool!Next
  <2>5. CASE PostCas(t)
    <3>1. Pool!Post(t)
      BY <2>5 DEF PostCas, Pool!Post, Pool!Result
    <3> QED
      BY <3>1 DEF Pool!Next
  <2>6. CASE WaitCas(t)
    <3>1. Pool!Take(t)
      BY <2>6 DEF WaitCas, Pool!Take, Pool!Result
    <3> QED
      BY <3>1 DEF Pool!Next
  <2>7. CASE WaitSpun(t)
    <3>1. Pool!GiveUp(t) \/ UNCHANGED Pool!vars
      BY <2>7 DEF WaitSpun, Pool!GiveUp, Pool!Result
    <3> QED
      BY <3>1 DEF Pool!Next
  <2>8. CASE WaitFail(t)
    <3>1. Pool!GiveUp(t)
      BY <2>8 DEF WaitFail, Pool!GiveUp, Pool!Result
    <3> QED
      BY <3>1 DEF Pool!Next
  <2>9. CASE \/ PostCasFail(t) \/ PostWake(t) \/ PostRet(t) \/ WaitLoad(t)
             \/ WaitCasFail(t) \/ FutexWait(t) \/ FutexWaitIntr(t)
             \/ FutexWaitTimeout(t) \/ WaitRetry(t)
    BY <2>9
    DEF PostCasFail, PostWake, PostRet, WaitLoad, WaitCasFail, FutexWait,
        FutexWaitIntr, FutexWaitTimeout, WaitRetry
  <2> QED
    BY <1>1, <2>1, <2>2, <2>3, <2>4, <2>5, <2>6, <2>7, <2>8, <2>9
    DEF Step, Inside, TakesGil
<1>2. CASE Next
  BY <1>1, <1>2 DEF Next
<1>3. CASE \E p \in Pids : Crash(p)
  BY <1>3 DEF Crash
<1>4. CASE UNCHANGED vars
  BY <1>4 DEF vars
<1> QED
  BY <1>2, <1>3, <1>4 DEF CrashNext

\* The semaphore implements the pool of tokens: whatever interleaves and
\* whoever is killed, a call takes effect at most once and at one instant.
THEOREM SemaphoreRefinesPool == CrashSpec => PoolSpec
<1>1. Init => Pool!Init
  BY DEF Init, Pool!Init
<1> QED
  BY <1>1, SemaphoreInvariant, StepRefines, PTL
  DEF CrashSpec, PoolSpec, Pool!Spec

-----------------------------------------------------------------------------
(* Wake-ups with one waiting thread *)

OneWaiter == \A t, u \in Waiters : t = u

\* Only waiters are in wait(), and a post about to wake has added tokens.
LoneInv ==
    /\ Sleepers \subseteq Waiters
    /\ \A t \in Threads :
          /\ pc[t] \in {"wait_spin", "wait_cas", "wait_futex", "wait_retry"}
                => t \in Waiters
          /\ pc[t] = "post_wake" => add[t] \in 1..UIntMax
    /\ LoneSleeperWoken

\* FUTEX_WAKE with an argument of at least 1 wakes the only sleeper.
LEMMA WakesTheSleeper ==
    ASSUME OneWaiter, SemaphoreInv, LoneInv,
           NEW t \in Threads, PostWake(t)
    PROVE  Sleepers' = {}
<1> DEFINE n == IF add[t] > IntMax THEN IntMax ELSE add[t]
<1>1. n \in Nat /\ n >= 1
  BY SemaphoreAssumption DEF PostWake, LoneInv, SemaphoreInv, TypeOK
<1>2. PICK woken \in SUBSET Sleepers :
         /\ Cardinality(woken) = n \/ woken = Sleepers
         /\ pc' = [u \in Threads |-> IF u = t THEN "post_ret"
                                     ELSE IF u \in woken THEN "wait_retry"
                                     ELSE pc[u]]
  BY DEF PostWake
<1>3. woken = Sleepers
  <2>1. CASE Cardinality(woken) = n
    <3>1. woken # {}
      BY <1>1, <2>1, FS_EmptySet
    <3> QED
      BY <3>1 DEF OneWaiter, LoneInv
  <2> QED
    BY <1>2, <2>1
<1> QED
  BY <1>2, <1>3 DEF Sleepers

\* A step leaves the only waiter asleep beside a token only if a post is about
\* to wake it.
LEMMA StepLone ==
    ASSUME OneWaiter, SemaphoreInv, LoneInv, NEW t \in Threads, Step(t)
    PROVE  LoneInv'
<1> USE SemaphoreAssumption
    DEF SemaphoreInv, TypeOK, CallInv, LoneInv, LoneSleeperWoken,
        SleeperStranded, Sleepers, Goto, Finish
<1>1. CASE CallPost(t) \/ CallWait(t)
  BY <1>1 DEF CallPost, CallWait, Enter
<1>2. CASE PostCheck(t) \/ PostLoad(t) \/ PostCasFail(t) \/ PostRet(t)
  BY <1>2 DEF PostCheck, PostLoad, PostCasFail, PostRet
<1>3. CASE PostCas(t)
  BY <1>3 DEF PostCas
<1>4. CASE PostWake(t)
  <2>1. Sleepers' = {}
    BY <1>4, WakesTheSleeper
  <2> QED
    BY <1>4, <2>1 DEF PostWake
<1>5. CASE WaitLoad(t) \/ WaitCasFail(t) \/ WaitSpun(t)
  BY <1>5 DEF WaitLoad, WaitCasFail, WaitSpun
<1>6. CASE WaitCas(t)
  BY <1>6 DEF WaitCas
<1>7. CASE FutexWait(t) \/ FutexWaitIntr(t) \/ FutexWaitTimeout(t)
  BY <1>7 DEF FutexWait, FutexWaitIntr, FutexWaitTimeout
<1>8. CASE WaitRetry(t) \/ WaitFail(t)
  BY <1>8 DEF WaitRetry, WaitFail
<1> QED
  BY <1>1, <1>2, <1>3, <1>4, <1>5, <1>6, <1>7, <1>8
  DEF Step, Inside, TakesGil

\* With one waiting thread and any number of posting ones no wake-up is lost.
\* With two this fails: see ExactDelivery.
THEOREM SemaphoreLoneWaiter ==
    ASSUME OneWaiter
    PROVE  Spec => []LoneSleeperWoken
<1>1. Init => LoneInv
  BY DEF Init, LoneInv, LoneSleeperWoken, SleeperStranded, Sleepers
<1>2. SemaphoreInv /\ LoneInv /\ [Next]_vars => LoneInv'
  <2> SUFFICES ASSUME SemaphoreInv, LoneInv, [Next]_vars PROVE LoneInv'
    OBVIOUS
  <2>1. CASE Next
    BY <2>1, OneWaiter, StepLone DEF Next
  <2>2. CASE UNCHANGED vars
    BY <2>2 DEF vars, LoneInv, LoneSleeperWoken, SleeperStranded, Sleepers
  <2> QED
    BY <2>1, <2>2
<1>3. Spec => CrashSpec
  <2>1. [Next]_vars => [CrashNext]_vars
    BY DEF CrashNext
  <2> QED
    BY <2>1, PTL DEF Spec, CrashSpec
<1>4. LoneInv => LoneSleeperWoken
  BY DEF LoneInv
<1> QED
  BY <1>1, <1>2, <1>3, <1>4, SemaphoreInvariant, PTL DEF Spec
=============================================================================
