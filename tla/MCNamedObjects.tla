--------------------------- MODULE MCNamedObjects ---------------------------
(***************************************************************************)
(* Instances of NamedObjects for TLC.                                      *)
(***************************************************************************)
EXTENDS NamedObjects, TLC

CONSTANTS h1, h2, h3, h4

\* Each handle in a process of its own; the handle stands for the process.
OwnProcess == [h \in Handles |-> h]

\* The handles that may create are alike.
HandleSymmetry == Permutations(Handles \ AttachOnly)
=============================================================================
