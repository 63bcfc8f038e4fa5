------------------------------ MODULE MCMutex ------------------------------
(***************************************************************************)
(* Instances of Mutex for TLC.  Threads are model values t1, t2, t3.       *)
(***************************************************************************)
EXTENDS Mutex

CONSTANTS t1, t2, t3

\* One thread in each process; the thread stands for its process.
OwnProcess == [t \in Threads |-> t]

\* t1 and t2 share a process, the others have one each.
SharedProcess == [t \in Threads |-> IF t = t2 THEN t1 ELSE t]

=============================================================================
