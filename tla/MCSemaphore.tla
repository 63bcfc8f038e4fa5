---------------------------- MODULE MCSemaphore ----------------------------
(***************************************************************************)
(* Instances of Semaphore for TLC.                                         *)
(***************************************************************************)
EXTENDS Semaphore

CONSTANTS t1, t2, t3

\* Every thread is the only one of its process.
OwnProcess == [t \in Threads |-> t]

\* Threads t1 and t2 share a process, and its GIL.
SharedProcess == [t \in Threads |-> IF t = t3 THEN t3 ELSE t1]

\* Arguments of post() around every boundary: negative, zero, in range,
\* beyond INT_MAX, beyond UINT32_MAX and beyond 2^64.
EdgeArgs == {-1, 0, 1, UIntMax, UIntMax + 1, UllMod + 1}

UnitArgs == {1}

PairArgs == {1, 2}
=============================================================================
