--------------------------- MODULE MCSharedMemory ---------------------------
(***************************************************************************)
(* The instance of SharedMemory by itself for TLC.                         *)
(***************************************************************************)
EXTENDS SharedMemory

CONSTANTS h1, h2

\* Each handle in a process of its own; the handle stands for the process.
OwnProcess == [h \in Handles |-> h]
=============================================================================
