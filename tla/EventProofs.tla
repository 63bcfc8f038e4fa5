---------------------------- MODULE EventProofs ----------------------------
(***************************************************************************)
(* Proofs about Event for any set of threads.                              *)
(***************************************************************************)
EXTENDS Event, TLAPS

EventInv == TypeOK /\ NoSleeperWhenSet

\* A step of a thread leaves nobody asleep on a set event without a wake-up
\* to come.
LEMMA StepEvent ==
    ASSUME EventInv, NEW t \in Threads, Step(t)
    PROVE  EventInv'
<1> USE EventAssumption
    DEF EventInv, TypeOK, Labels, NoSleeperWhenSet, Sleepers, Goto, Return
<1>1. CASE Open(t) \/ InitStore(t) \/ CallWait(t)
  BY <1>1 DEF Open, InitStore, CallWait
<1>2. CASE FutexWait(t)
  BY <1>2 DEF FutexWait
<1>3. CASE FutexWaitTimeout(t) \/ FutexWaitIntr(t)
  BY <1>3 DEF FutexWaitTimeout, FutexWaitIntr
<1>4. CASE Set(t) \/ Clear(t)
  BY <1>4 DEF Set, Clear
<1>5. CASE SetWake(t)
  BY <1>5 DEF SetWake, WakeUp
<1> QED
  BY <1>1, <1>2, <1>3, <1>4, <1>5 DEF Step

\* Any number of threads may set, clear and wait: nobody sleeps on an event
\* that is set, unless the FUTEX_WAKE of a set() is still to come.
THEOREM EventWakes == Spec => []NoSleeperWhenSet
<1>1. Init => EventInv
  BY DEF Init, EventInv, TypeOK, Labels, NoSleeperWhenSet
<1>2. EventInv /\ [Next]_vars => EventInv'
  <2> SUFFICES ASSUME EventInv, [Next]_vars PROVE EventInv'
    OBVIOUS
  <2>1. CASE Next
    BY <2>1, StepEvent DEF Next
  <2>2. CASE UNCHANGED vars
    BY <2>2 DEF vars, EventInv, TypeOK, NoSleeperWhenSet, Sleepers
  <2> QED
    BY <2>1, <2>2
<1>3. EventInv => NoSleeperWhenSet
  BY DEF EventInv
<1> QED
  BY <1>1, <1>2, <1>3, PTL DEF Spec
=============================================================================
