------------------------------ MODULE MCCollect -----------------------------
(***************************************************************************)
(* Instances of CollectApi for TLC: one .cfg file for each question, with  *)
(* the bounds and the faults that make its interesting case happen.        *)
(***************************************************************************)
EXTENDS CollectProperties

CONSTANTS r1, r2   \* the readers
=============================================================================
