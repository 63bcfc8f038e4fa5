-------------------------------- MODULE Lock --------------------------------
(***************************************************************************)
(* What fastipc.Mutex promises its callers: a lock that at most one thread *)
(* holds, taken only when free and given back only by the thread that has  *)
(* it.  How the lock word, the owner word and the futex queue bring this   *)
(* about is the business of module Mutex.                                  *)
(***************************************************************************)

CONSTANT Threads

VARIABLE holds      \* the set of threads that hold the lock

Init == holds = {}

Acquire(t) ==
    /\ holds = {}
    /\ holds' = {t}

\* Also how the lock is lost when the holder's process dies.
Release(t) ==
    /\ holds = {t}
    /\ holds' = {}

Next == \E t \in Threads : Acquire(t) \/ Release(t)

Spec == Init /\ [][Next]_holds
=============================================================================
