---------------------------- MODULE MutexProofs ----------------------------
(***************************************************************************)
(* Proofs about Mutex for any set of threads, spread in any way over any   *)
(* set of processes, and any number of spins.                              *)
(***************************************************************************)
EXTENDS Mutex, TLAPS

-----------------------------------------------------------------------------
(* The inductive invariant *)

\* The GIL: of the threads of a process one at most is inside the extension.
GilExclusive ==
    \A t, u \in Threads :
        PidOf[t] = PidOf[u] /\ pc[t] \in GilLabels /\ pc[u] \in GilLabels
            => t = u

\* Processes die as a whole.
DeadTogether ==
    \A t, u \in Threads :
        PidOf[t] = PidOf[u] /\ pc[t] \in DeadLabels => pc[u] \in DeadLabels

\* The futex word is not 0 while the lock is held, and threads between the
\* two halves of acquire or past the check of release hold it.
HolderInv ==
    /\ holds # {} => state # 0
    /\ \A t \in Threads : pc[t] \in {"acq_own", "rel_xchg"} => t \in holds

\* What the caller of release() knew is still true when the owner is checked.
ReleaseInv ==
    \A t \in Threads :
        pc[t] = "rel_check" =>
            t \in holds \/ \A u \in holds : PidOf[u] # PidOf[t]

MutexInv ==
    /\ TypeOK
    /\ GilExclusive
    /\ DeadTogether
    /\ HolderInv
    /\ ReleaseInv
    /\ MutualExclusion
    /\ OwnerNeverWrong

-----------------------------------------------------------------------------
(* Type correctness *)

\* A step of a thread, in whichever method, keeps the types.
LEMMA StepType ==
    ASSUME TypeOK, NEW t \in Threads, Step(t)
    PROVE  TypeOK'
<1> USE MutexAssumption DEF TypeOK, Labels, GilLabels, AllOps, AcquireOps
<1>1. CASE CallAcquire(t)
  BY <1>1 DEF CallAcquire, Enter
<1>2. CASE CallRelease(t)
  BY <1>2 DEF CallRelease, Enter
<1>3. CASE AcqCheck(t)
  BY <1>3 DEF AcqCheck, Goto
<1>4. CASE AcqCas(t)
  BY <1>4 DEF AcqCas, Take, Goto
<1>5. CASE AcqSpin(t)
  BY <1>5 DEF AcqSpin, Take, Goto
<1>6. CASE AcqXchg(t)
  BY <1>6 DEF AcqXchg, Take, Goto
<1>7. CASE FutexWait(t) \/ FutexWaitError(t) \/ AcqRetry(t) \/ AcqFail(t) \/ RelRet(t)
  BY <1>7 DEF FutexWait, FutexWaitError, AcqRetry, AcqFail, RelRet, Goto
<1>8. CASE AcqOwn(t)
  BY <1>8 DEF AcqOwn, Goto
<1>9. CASE RelCheck(t) \/ RelXchg(t) \/ RelOwner(t)
  BY <1>9 DEF RelCheck, RelXchg, RelOwner, Goto
<1>10. CASE RelWake(t)
  BY <1>10 DEF RelWake, Goto, Sleepers
<1> QED
  BY <1>1, <1>2, <1>3, <1>4, <1>5, <1>6, <1>7, <1>8, <1>9, <1>10
  DEF Step, Inside

\* So does the death of a process.
LEMMA CrashType ==
    ASSUME TypeOK, NEW p \in Pids, Crash(p)
    PROVE  TypeOK'
BY DEF TypeOK, Crash, Die, Labels, DeadLabels

\* Every step, of any method in any interleaving and with any process killed,
\* keeps the variables in their types.
THEOREM MutexType == CrashSpec => []TypeOK
<1>1. Init => TypeOK
  BY MutexAssumption DEF Init, TypeOK, Labels
<1>2. TypeOK /\ [CrashNext]_vars => TypeOK'
  <2> SUFFICES ASSUME TypeOK, [CrashNext]_vars PROVE TypeOK'
    OBVIOUS
  <2>1. CASE Next
    BY <2>1, StepType DEF Next
  <2>2. CASE \E p \in Pids : Crash(p)
    BY <2>2, CrashType
  <2>3. CASE UNCHANGED vars
    BY <2>3 DEF vars, TypeOK
  <2> QED
    BY <2>1, <2>2, <2>3 DEF CrashNext
<1> QED
  BY <1>1, <1>2, PTL DEF CrashSpec

-----------------------------------------------------------------------------
(* Mutual exclusion and the owner word *)

\* A step of a thread, in whichever method, keeps the invariant.
LEMMA StepInv ==
    ASSUME MutexInv, NEW t \in Threads, Step(t)
    PROVE  MutexInv'
<1> USE MutexAssumption DEF MutexInv
<1>0. TypeOK'
  BY StepType
<1> SUFFICES /\ GilExclusive' /\ DeadTogether' /\ HolderInv'
             /\ ReleaseInv' /\ MutualExclusion' /\ OwnerNeverWrong'
  BY <1>0
<1> USE DEF TypeOK, GilLabels, DeadLabels
<1>1. CASE CallAcquire(t)
  <2> USE <1>1 DEF CallAcquire, Enter, GilFree
  <2>1. GilExclusive'
    BY DEF GilExclusive
  <2>2. DeadTogether' /\ HolderInv' /\ ReleaseInv' /\ MutualExclusion' /\ OwnerNeverWrong'
    BY DEF DeadTogether, HolderInv, ReleaseInv, MutualExclusion, OwnerNeverWrong
  <2> QED
    BY <2>1, <2>2
<1>2. CASE CallRelease(t)
  <2> USE <1>2 DEF CallRelease, Enter, GilFree
  <2>1. GilExclusive'
    BY DEF GilExclusive
  <2>2. ReleaseInv'
    BY DEF ReleaseInv
  <2>3. DeadTogether' /\ HolderInv' /\ MutualExclusion' /\ OwnerNeverWrong'
    BY DEF DeadTogether, HolderInv, MutualExclusion, OwnerNeverWrong
  <2> QED
    BY <2>1, <2>2, <2>3
<1>3. CASE AcqCheck(t) \/ FutexWait(t) \/ FutexWaitError(t) \/ AcqFail(t) \/ RelRet(t)
  BY <1>3
  DEF AcqCheck, FutexWait, FutexWaitError, AcqFail, RelRet, Goto,
      GilExclusive, DeadTogether, HolderInv, ReleaseInv,
      MutualExclusion, OwnerNeverWrong
<1>4. CASE AcqRetry(t)
  <2> USE <1>4 DEF AcqRetry, Goto, GilFree
  <2>1. GilExclusive'
    BY DEF GilExclusive
  <2>2. DeadTogether' /\ HolderInv' /\ ReleaseInv' /\ MutualExclusion' /\ OwnerNeverWrong'
    BY DEF DeadTogether, HolderInv, ReleaseInv, MutualExclusion, OwnerNeverWrong
  <2> QED
    BY <2>1, <2>2
<1>5. CASE AcqCas(t)
  <2> USE <1>5 DEF AcqCas, Take, Goto
  <2>1. ReleaseInv'
    BY DEF ReleaseInv, GilExclusive
  <2>2. MutualExclusion'
    BY DEF MutualExclusion, HolderInv
  <2>3. GilExclusive' /\ DeadTogether' /\ HolderInv' /\ OwnerNeverWrong'
    BY DEF GilExclusive, DeadTogether, HolderInv, OwnerNeverWrong
  <2> QED
    BY <2>1, <2>2, <2>3
<1>6. CASE AcqSpin(t)
  <2> USE <1>6 DEF AcqSpin, Take, Goto
  <2>1. ReleaseInv'
    BY DEF ReleaseInv, GilExclusive
  <2>2. MutualExclusion'
    BY DEF MutualExclusion, HolderInv
  <2>3. GilExclusive' /\ DeadTogether' /\ HolderInv' /\ OwnerNeverWrong'
    BY DEF GilExclusive, DeadTogether, HolderInv, OwnerNeverWrong
  <2> QED
    BY <2>1, <2>2, <2>3
<1>7. CASE AcqXchg(t)
  <2> USE <1>7 DEF AcqXchg, Take, Goto
  <2>1. ReleaseInv'
    BY DEF ReleaseInv, GilExclusive
  <2>2. MutualExclusion'
    BY DEF MutualExclusion, HolderInv
  <2>3. GilExclusive' /\ DeadTogether' /\ HolderInv' /\ OwnerNeverWrong'
    BY DEF GilExclusive, DeadTogether, HolderInv, OwnerNeverWrong
  <2> QED
    BY <2>1, <2>2, <2>3
<1>8. CASE AcqOwn(t)
  <2> USE <1>8 DEF AcqOwn, Goto
  <2>1. OwnerNeverWrong'
    BY DEF OwnerNeverWrong, HolderInv
  <2>2. GilExclusive' /\ DeadTogether' /\ HolderInv' /\ ReleaseInv' /\ MutualExclusion'
    BY DEF GilExclusive, DeadTogether, HolderInv, ReleaseInv, MutualExclusion
  <2> QED
    BY <2>1, <2>2
<1>9. CASE RelCheck(t)
  <2> USE <1>9 DEF RelCheck, Goto
  <2>1. HolderInv'
    BY DEF HolderInv, OwnerNeverWrong, ReleaseInv, GilExclusive, DeadTogether
  <2>2. GilExclusive' /\ DeadTogether' /\ ReleaseInv' /\ MutualExclusion' /\ OwnerNeverWrong'
    BY DEF GilExclusive, DeadTogether, ReleaseInv, MutualExclusion, OwnerNeverWrong
  <2> QED
    BY <2>1, <2>2
<1>10. CASE RelXchg(t)
  <2> USE <1>10 DEF RelXchg, Goto
  <2>1. HolderInv'
    BY DEF HolderInv, MutualExclusion, GilExclusive
  <2>2. ReleaseInv'
    BY DEF ReleaseInv, HolderInv, MutualExclusion
  <2>3. OwnerNeverWrong'
    BY DEF OwnerNeverWrong, HolderInv, MutualExclusion
  <2>4. GilExclusive' /\ DeadTogether' /\ MutualExclusion'
    BY DEF GilExclusive, DeadTogether, MutualExclusion
  <2> QED
    BY <2>1, <2>2, <2>3, <2>4
<1>11. CASE RelOwner(t)
  <2> USE <1>11 DEF RelOwner, Goto
  <2>1. OwnerNeverWrong'
    BY DEF OwnerNeverWrong
  <2>2. GilExclusive' /\ DeadTogether' /\ HolderInv' /\ ReleaseInv' /\ MutualExclusion'
    BY DEF GilExclusive, DeadTogether, HolderInv, ReleaseInv, MutualExclusion
  <2> QED
    BY <2>1, <2>2
<1>12. CASE RelWake(t)
  BY <1>12
  DEF RelWake, Goto, Sleepers,
      GilExclusive, DeadTogether, HolderInv, ReleaseInv,
      MutualExclusion, OwnerNeverWrong
<1> QED
  BY <1>1, <1>2, <1>3, <1>4, <1>5, <1>6, <1>7, <1>8, <1>9, <1>10, <1>11, <1>12
  DEF Step, Inside

\* So does the death of a process.
LEMMA CrashInv ==
    ASSUME MutexInv, NEW p \in Pids, Crash(p)
    PROVE  MutexInv'
<1> USE MutexAssumption DEF MutexInv, Crash, Die, Dead
<1>0. TypeOK'
  BY CrashType
<1> USE DEF TypeOK, GilLabels, DeadLabels
<1>1. GilExclusive' /\ DeadTogether'
  BY DEF GilExclusive, DeadTogether
<1>2. HolderInv' /\ ReleaseInv' /\ MutualExclusion'
  BY DEF HolderInv, ReleaseInv, MutualExclusion
<1>3. OwnerNeverWrong'
  BY DEF OwnerNeverWrong
<1> QED
  BY <1>0, <1>1, <1>2, <1>3

\* The inductive invariant holds in every reachable state.
THEOREM MutexInvariant == CrashSpec => []MutexInv
<1>1. Init => MutexInv
  BY MutexAssumption
  DEF Init, MutexInv, TypeOK, Labels, GilLabels, DeadLabels, GilExclusive, DeadTogether,
      HolderInv, ReleaseInv, MutualExclusion, OwnerNeverWrong
<1>2. MutexInv /\ [CrashNext]_vars => MutexInv'
  <2> SUFFICES ASSUME MutexInv, [CrashNext]_vars PROVE MutexInv'
    OBVIOUS
  <2>1. CASE Next
    BY <2>1, StepInv DEF Next
  <2>2. CASE \E p \in Pids : Crash(p)
    BY <2>2, CrashInv
  <2>3. CASE UNCHANGED vars
    BY <2>3
    DEF vars, MutexInv, TypeOK, GilExclusive, DeadTogether, HolderInv,
        ReleaseInv, MutualExclusion, OwnerNeverWrong
  <2> QED
    BY <2>1, <2>2, <2>3 DEF CrashNext
<1> QED
  BY <1>1, <1>2, PTL DEF CrashSpec

\* At most one thread holds the mutex, however many threads and processes
\* call whichever methods, and with processes killed at any point.
THEOREM MutexExclusion == CrashSpec => []MutualExclusion
<1>1. MutexInv => MutualExclusion
  BY DEF MutexInv
<1> QED
  BY <1>1, MutexInvariant, PTL

\* owner_pid() never names a live process that neither holds the mutex nor is
\* in the middle of its release().
THEOREM MutexOwner == CrashSpec => []OwnerNeverWrong
<1>1. MutexInv => OwnerNeverWrong
  BY DEF MutexInv
<1> QED
  BY <1>1, MutexInvariant, PTL

\* Taking the free word is Acquire of the abstract lock, the exchange in
\* release() or the death of the holder its Release; every other step leaves
\* the lock as it is.
LEMMA StepRefines ==
    ASSUME MutexInv, [CrashNext]_vars
    PROVE  [L!Next]_holds
<1> USE DEF MutexInv, TypeOK, HolderInv, MutualExclusion
<1>1. ASSUME NEW t \in Threads, NEW w, Take(t, w)
      PROVE  L!Acquire(t)
  BY <1>1 DEF Take, L!Acquire
<1>2. ASSUME NEW t \in Threads, RelXchg(t)
      PROVE  L!Release(t)
  BY <1>2 DEF RelXchg, L!Release
<1>3. ASSUME NEW t \in Threads, Step(t)
      PROVE  \/ RelXchg(t)
             \/ \E w \in 1..2 : Take(t, w)
             \/ UNCHANGED holds
  BY <1>3
  DEF Step, Inside, CallAcquire, CallRelease, Enter, AcqCheck, AcqCas,
      AcqSpin, AcqXchg, FutexWait, FutexWaitError, AcqRetry, AcqFail, AcqOwn,
      RelCheck, RelOwner, RelWake, RelRet
<1>4. ASSUME NEW p \in Pids, Crash(p)
      PROVE  (\E t \in Threads : L!Release(t)) \/ UNCHANGED holds
  <2>1. CASE \E t \in holds : PidOf[t] = p
    <3>1. PICK t \in holds : PidOf[t] = p
      BY <2>1
    <3>2. holds = {t} /\ holds' = {}
      BY <1>4, <3>1 DEF Crash, Die
    <3> QED
      BY <3>1, <3>2 DEF L!Release
  <2>2. CASE \A t \in holds : PidOf[t] # p
    BY <1>4, <2>2 DEF Crash, Die
  <2> QED
    BY <2>1, <2>2
<1>5. CASE Next
  BY <1>1, <1>2, <1>3, <1>5 DEF Next, L!Next
<1>6. CASE \E p \in Pids : Crash(p)
  BY <1>4, <1>6 DEF L!Next
<1>7. CASE UNCHANGED vars
  BY <1>7 DEF vars
<1> QED
  BY <1>5, <1>6, <1>7 DEF CrashNext

\* The futex mutex implements the abstract lock, processes being killed at any
\* point: a thread takes it only when no live thread holds it, and nobody but
\* the holder, or the holder's death, gives it back.
THEOREM MutexRefinesLock == CrashSpec => LockSpec
<1>1. Init => L!Init
  BY DEF Init, L!Init
<1> QED
  BY <1>1, MutexInvariant, StepRefines, PTL DEF CrashSpec, LockSpec, L!Spec

-----------------------------------------------------------------------------
(* Wake-ups, with processes killed *)

\* A step leaves no sleeper without a contended word, or a thread on its way
\* to wake it or to mark the word.
LEMMA StepCovered ==
    ASSUME TypeOK, SleepersCovered, NEW t \in Threads, Step(t)
    PROVE  SleepersCovered'
<1> USE MutexAssumption DEF TypeOK, SleepersCovered, Sleepers, WillRecheck
<1>1. CASE CallAcquire(t) \/ CallRelease(t)
  BY <1>1 DEF CallAcquire, CallRelease, Enter
<1>2. CASE AcqCheck(t) \/ AcqCas(t) \/ AcqSpin(t) \/ AcqOwn(t) \/ RelCheck(t)
  BY <1>2 DEF AcqCheck, AcqCas, AcqSpin, AcqOwn, RelCheck, Take, Goto
<1>3. CASE AcqXchg(t)
  BY <1>3 DEF AcqXchg, Take, Goto
<1>4. CASE FutexWait(t)
  BY <1>4 DEF FutexWait, Goto
<1>5. CASE FutexWaitError(t) \/ AcqRetry(t) \/ AcqFail(t) \/ RelRet(t)
  BY <1>5 DEF FutexWaitError, AcqRetry, AcqFail, RelRet, Goto
<1>6. CASE RelXchg(t)
  BY <1>6 DEF RelXchg, Goto
<1>7. CASE RelOwner(t)
  BY <1>7 DEF RelOwner, Goto
<1>8. CASE RelWake(t)
  BY <1>8 DEF RelWake, Goto
<1> QED
  BY <1>1, <1>2, <1>3, <1>4, <1>5, <1>6, <1>7, <1>8 DEF Step, Inside

\* A thread that was killed takes no step, and a step wakes only sleepers.
LEMMA StepKeepsKilled ==
    ASSUME TypeOK, NEW t \in Threads, Step(t), NEW u \in Threads, pc[u] = "killed"
    PROVE  pc'[u] = "killed"
<1> USE DEF TypeOK
<1>1. CASE CallAcquire(t) \/ CallRelease(t)
  BY <1>1 DEF CallAcquire, CallRelease, Enter
<1>2. CASE AcqCheck(t) \/ AcqCas(t) \/ AcqSpin(t) \/ AcqXchg(t) \/ AcqOwn(t)
  BY <1>2 DEF AcqCheck, AcqCas, AcqSpin, AcqXchg, AcqOwn, Take, Goto
<1>3. CASE FutexWait(t) \/ FutexWaitError(t) \/ AcqRetry(t) \/ AcqFail(t) \/ RelRet(t)
  BY <1>3 DEF FutexWait, FutexWaitError, AcqRetry, AcqFail, RelRet, Goto
<1>4. CASE RelCheck(t) \/ RelXchg(t) \/ RelOwner(t)
  BY <1>4 DEF RelCheck, RelXchg, RelOwner, Goto
<1>5. CASE RelWake(t)
  BY <1>5 DEF RelWake, Sleepers, Goto
<1> QED
  BY <1>1, <1>2, <1>3, <1>4, <1>5 DEF Step, Inside

\* A process that dies takes with it no thread that a sleeper depends on,
\* unless that thread is marked as killed.
LEMMA CrashCovered ==
    ASSUME TypeOK, NoLostWakeup, NEW p \in Pids, Crash(p)
    PROVE  NoLostWakeup'
<1> SUFFICES ASSUME \A t \in Threads : pc'[t] # "killed"
             PROVE  SleepersCovered'
  BY DEF NoLostWakeup
<1> USE DEF TypeOK, Crash, Die
<1>1. \A t \in Threads : PidOf[t] = p => ~WillRecheck(t)
  OBVIOUS
<1>2. \A t \in Threads : pc[t] # "killed"
  <2>1. \A t \in Threads : PidOf[t] = p => pc[t] # "killed"
    BY DEF Dead, DeadLabels
  <2> QED
    BY <2>1
<1>3. SleepersCovered
  BY <1>2 DEF NoLostWakeup
<1>4. \A t \in Threads : WillRecheck(t) => WillRecheck(t)'
  BY <1>1 DEF WillRecheck
<1>5. Sleepers' \subseteq Sleepers
  BY DEF Sleepers
<1> QED
  BY <1>3, <1>4, <1>5 DEF SleepersCovered

\* No wake-up is lost, for any number of threads and processes and with
\* processes killed at any point, except by the death of a thread that was
\* about to pass it on.
THEOREM MutexWakeups == CrashSpec => []NoLostWakeup
<1>1. Init => NoLostWakeup
  BY DEF Init, NoLostWakeup, SleepersCovered, Sleepers
<1>2. TypeOK /\ NoLostWakeup /\ [CrashNext]_vars => NoLostWakeup'
  <2> SUFFICES ASSUME TypeOK, NoLostWakeup, [CrashNext]_vars
               PROVE  NoLostWakeup'
    OBVIOUS
  <2>1. ASSUME NEW t \in Threads, Step(t)
        PROVE  NoLostWakeup'
    <3> SUFFICES ASSUME \A u \in Threads : pc'[u] # "killed"
                 PROVE  SleepersCovered'
      BY DEF NoLostWakeup
    <3>1. \A u \in Threads : pc[u] # "killed"
      BY <2>1, StepKeepsKilled
    <3> QED
      BY <2>1, <3>1, StepCovered DEF NoLostWakeup
  <2>2. ASSUME NEW p \in Pids, Crash(p)
        PROVE  NoLostWakeup'
    BY <2>2, CrashCovered
  <2>3. CASE UNCHANGED vars
    BY <2>3 DEF vars, NoLostWakeup, SleepersCovered, Sleepers, WillRecheck
  <2> QED
    BY <2>1, <2>2, <2>3 DEF CrashNext, Next
<1> QED
  BY <1>1, <1>2, MutexType, PTL DEF CrashSpec

-----------------------------------------------------------------------------
(* Recovery *)

\* force_release() has one caller; a second one that saw the same dead owner
\* would take the mutex from whoever has it by then.
OneRecoverer == \A t, u \in Recoverers : t = u

\* A thread that has set the word free in force_release() and has not yet
\* cleared the owner word.
Forcing(t) == pc[t] = "rel_owner" /\ op[t] = "force_release"

\* While the owner word names a dead process nobody has the mutex and nobody can
\* take it, until force_release() sets it free; so it is when a recoverer that
\* has seen a dead owner comes to that.
RecoverInv ==
    /\ Dead(owner) => (holds = {} /\ state # 0) \/ \E t \in Threads : Forcing(t)
    /\ \A t \in Threads : pc[t] = "frc_xchg" => holds = {} /\ state # 0
    /\ \A t \in Threads :
          /\ op[t] = "force_release" => t \in Recoverers
          /\ pc[t] = "frc_xchg" => op[t] = "force_release"

\* The invariant of the mutex under recovery.
ForceInv == MutexInv /\ RecoverInv

\* A step of a thread outside force_release() keeps RecoverInv.
LEMMA StepRecover ==
    ASSUME ForceInv, NEW t \in Threads, Step(t)
    PROVE  RecoverInv'
<1> USE MutexAssumption
    DEF ForceInv, MutexInv, RecoverInv, TypeOK, Forcing, Dead, DeadLabels
<1>1. CASE CallAcquire(t) \/ CallRelease(t)
  BY <1>1 DEF CallAcquire, CallRelease, Enter, AcquireOps
<1>2. CASE AcqCheck(t) \/ FutexWait(t) \/ FutexWaitError(t)
           \/ AcqRetry(t) \/ AcqFail(t) \/ RelCheck(t) \/ RelRet(t)
  BY <1>2
  DEF AcqCheck, FutexWait, FutexWaitError, AcqRetry, AcqFail, RelCheck, RelRet, Goto
<1>3. CASE AcqCas(t)
  BY <1>3 DEF AcqCas, Take, Goto
<1>4. CASE AcqSpin(t)
  BY <1>4 DEF AcqSpin, Take, Goto
<1>5. CASE AcqXchg(t)
  BY <1>5 DEF AcqXchg, Take, Goto
<1>6. CASE AcqOwn(t)
  BY <1>6 DEF AcqOwn, Goto, DeadTogether
<1>7. CASE RelXchg(t)
  BY <1>7 DEF RelXchg, Goto, HolderInv
<1>8. CASE RelOwner(t)
  BY <1>8 DEF RelOwner, Goto
<1>9. CASE RelWake(t)
  BY <1>9 DEF RelWake, Goto, Sleepers
<1> QED
  BY <1>1, <1>2, <1>3, <1>4, <1>5, <1>6, <1>7, <1>8, <1>9 DEF Step, Inside

\* So does a process that exits: if it leaves its PID, it has had the mutex.
LEMMA ExitRecover ==
    ASSUME ForceInv, NEW p \in Pids, Exit(p)
    PROVE  RecoverInv'
<1> USE MutexAssumption
    DEF ForceInv, MutexInv, RecoverInv, TypeOK, Exit, Die, Dead, DeadLabels
<1>1. ASSUME Dead(owner)' PROVE (holds' = {} /\ state' # 0) \/ \E t \in Threads : Forcing(t)'
  <2>1. CASE owner = p
    <3>1. PICK u \in holds : PidOf[u] = p
      BY <2>1 DEF OwnerNeverWrong
    <3> QED
      BY <3>1 DEF MutualExclusion, HolderInv
  <2>2. CASE owner # p
    <3>1. Dead(owner)
      BY <1>1, <2>2
    <3> QED
      BY <3>1 DEF Forcing
  <2> QED
    BY <2>1, <2>2
<1> QED
  BY <1>1

\* force_release() keeps the invariant when it has one caller.
LEMMA ForceKeeps ==
    ASSUME OneRecoverer, ForceInv, NEW t \in Threads, ForceStep(t)
    PROVE  ForceInv'
<1> USE MutexAssumption DEF ForceInv, MutexInv, TypeOK, Labels, GilLabels, DeadLabels
<1>1. CASE CallForceRelease(t)
  <2> USE <1>1 DEF CallForceRelease, Enter
  <2>1. TypeOK' /\ GilExclusive' /\ DeadTogether'
    BY DEF GilFree, GilExclusive, DeadTogether
  <2>2. HolderInv' /\ ReleaseInv' /\ MutualExclusion' /\ OwnerNeverWrong'
    BY DEF HolderInv, ReleaseInv, MutualExclusion, OwnerNeverWrong
  <2>3. holds = {} /\ state # 0
    BY DEF RecoverInv, Forcing, OneRecoverer
  <2>4. RecoverInv'
    BY <2>3 DEF RecoverInv, Dead, Forcing
  <2> QED
    BY <2>1, <2>2, <2>4
<1>2. CASE ForceXchg(t)
  <2> USE <1>2 DEF ForceXchg, Goto
  <2>1. holds = {} /\ state # 0
    BY DEF RecoverInv
  <2>2. TypeOK' /\ GilExclusive' /\ DeadTogether'
    BY DEF GilExclusive, DeadTogether
  <2>3. HolderInv' /\ ReleaseInv' /\ MutualExclusion' /\ OwnerNeverWrong'
    BY <2>1 DEF HolderInv, ReleaseInv, MutualExclusion, OwnerNeverWrong
  <2>4. RecoverInv'
    <3>1. Forcing(t)'
      BY DEF Forcing, RecoverInv
    <3>2. \A u \in Threads : pc'[u] # "frc_xchg"
      BY DEF RecoverInv, OneRecoverer
    <3> QED
      BY <3>1, <3>2 DEF RecoverInv
  <2> QED
    BY <2>2, <2>3, <2>4
<1> QED
  BY <1>1, <1>2 DEF ForceStep

\* The invariant holds in every reachable state, when there is one recoverer.
LEMMA ForceInvariant ==
    ASSUME OneRecoverer
    PROVE  ExitSpec => []ForceInv
<1>1. Init => ForceInv
  <2> SUFFICES ASSUME Init PROVE ForceInv
    OBVIOUS
  <2>1. MutexInv
    BY MutexAssumption
    DEF Init, MutexInv, TypeOK, Labels, GilLabels, DeadLabels, GilExclusive, DeadTogether,
        HolderInv, ReleaseInv, MutualExclusion, OwnerNeverWrong
  <2>2. RecoverInv
    BY MutexAssumption DEF Init, RecoverInv, Dead, DeadLabels
  <2> QED
    BY <2>1, <2>2 DEF ForceInv
<1>2. ForceInv /\ [ExitNext]_vars => ForceInv'
  <2> SUFFICES ASSUME ForceInv, [ExitNext]_vars PROVE ForceInv'
    OBVIOUS
  <2>1. ASSUME NEW t \in Threads, Step(t) PROVE ForceInv'
    BY <2>1, StepInv, StepRecover DEF ForceInv
  <2>2. ASSUME NEW p \in Pids, Exit(p) PROVE ForceInv'
    <3>1. Crash(p)
      BY <2>2 DEF Exit, Crash
    <3> QED
      BY <2>2, <3>1, CrashInv, ExitRecover DEF ForceInv
  <2>3. ASSUME NEW t \in Threads, ForceStep(t) PROVE ForceInv'
    BY <2>3, ForceKeeps
  <2>4. CASE UNCHANGED vars
    BY <2>4
    DEF vars, ForceInv, MutexInv, TypeOK, GilExclusive, DeadTogether, HolderInv,
        ReleaseInv, MutualExclusion, OwnerNeverWrong, RecoverInv, Dead, Forcing
  <2> QED
    BY <2>1, <2>2, <2>3, <2>4 DEF ExitNext, Next
<1> QED
  BY <1>1, <1>2, PTL DEF ExitSpec

\* With force_release() called by one recoverer, for owners that are dead, the
\* mutex is never taken from a live holder, however the recovery and the other
\* threads' calls are interleaved.
THEOREM RecoveryExclusion ==
    ASSUME OneRecoverer
    PROVE  ExitSpec => []MutualExclusion
<1>1. ForceInv => MutualExclusion
  BY DEF ForceInv, MutexInv
<1> QED
  BY <1>1, ForceInvariant, PTL

\* The mutex is the abstract lock under recovery too: force_release() gives
\* back nothing that a live thread has.
THEOREM RecoveryRefinesLock ==
    ASSUME OneRecoverer
    PROVE  ExitSpec => LockSpec
<1>1. Init => L!Init
  BY DEF Init, L!Init
<1>2. ForceInv /\ [ExitNext]_vars => [L!Next]_holds
  <2> SUFFICES ASSUME ForceInv, [ExitNext]_vars PROVE [L!Next]_holds
    OBVIOUS
  <2>1. MutexInv
    BY DEF ForceInv
  <2>2. CASE [CrashNext]_vars
    BY <2>1, <2>2, StepRefines
  <2>3. ASSUME NEW t \in Threads, ForceStep(t) PROVE UNCHANGED holds
    BY <2>3 DEF ForceStep, CallForceRelease, Enter, ForceXchg
  <2>4. \/ [CrashNext]_vars
        \/ \E t \in Threads : ForceStep(t)
    BY DEF ExitNext, CrashNext, Exit, Crash
  <2> QED
    BY <2>2, <2>3, <2>4
<1> QED
  BY <1>1, <1>2, ForceInvariant, PTL DEF ExitSpec, LockSpec, L!Spec

\* While processes exit outside the extension only, no wake-up is lost, however
\* many recoverers call force_release().
THEOREM RecoveryWakeups == ExitSpec => []NoLostWakeup
<1> DEFINE I == TypeOK /\ SleepersCovered
<1>1. Init => I
  BY MutexAssumption DEF Init, TypeOK, Labels, SleepersCovered, Sleepers
<1>2. I /\ [ExitNext]_vars => I'
  <2> SUFFICES ASSUME I, [ExitNext]_vars PROVE I'
    OBVIOUS
  <2>1. ASSUME NEW t \in Threads, Step(t) PROVE I'
    BY <2>1, StepType, StepCovered
  <2>2. ASSUME NEW p \in Pids, Exit(p) PROVE I'
    <3>1. TypeOK'
      BY <2>2, CrashType DEF Exit, Crash
    <3>2. \A t \in Threads : PidOf[t] = p => pc[t] = "py"
      BY <2>2 DEF Exit
    <3>3. \A t \in Threads : WillRecheck(t) => WillRecheck(t)'
      BY <2>2, <3>2 DEF Exit, Die, WillRecheck, TypeOK
    <3>4. Sleepers' \subseteq Sleepers /\ state' = state
      BY <2>2 DEF Exit, Die, Sleepers, TypeOK
    <3> QED
      BY <3>1, <3>3, <3>4 DEF SleepersCovered
  <2>3. ASSUME NEW t \in Threads, ForceStep(t) PROVE I'
    <3>1. CASE CallForceRelease(t)
      BY <3>1 DEF CallForceRelease, Enter, TypeOK, Labels, GilLabels,
                  SleepersCovered, Sleepers, WillRecheck
    <3>2. CASE ForceXchg(t)
      BY <3>2 DEF ForceXchg, Goto, TypeOK, Labels, GilLabels,
                  SleepersCovered, Sleepers, WillRecheck
    <3> QED
      BY <2>3, <3>1, <3>2 DEF ForceStep
  <2>4. CASE UNCHANGED vars
    BY <2>4 DEF vars, TypeOK, SleepersCovered, Sleepers, WillRecheck
  <2> QED
    BY <2>1, <2>2, <2>3, <2>4 DEF ExitNext, Next
<1>3. I => NoLostWakeup
  BY DEF NoLostWakeup
<1> QED
  BY <1>1, <1>2, <1>3, PTL DEF ExitSpec
=============================================================================
