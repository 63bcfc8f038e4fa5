------------------------------ MODULE MCEvent ------------------------------
(***************************************************************************)
(* An instance of Event for TLC.                                           *)
(***************************************************************************)
EXTENDS Event

CONSTANTS t1, t2, t3
=============================================================================
