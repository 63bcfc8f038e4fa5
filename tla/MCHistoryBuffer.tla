-------------------------- MODULE MCHistoryBuffer --------------------------
(***************************************************************************)
(* Instances of HistoryBuffer for TLC.                                     *)
(***************************************************************************)
EXTENDS HistoryBuffer, TLC

CONSTANTS w1, w2, r1

WriterSymmetry == Permutations(Writers)
=============================================================================
