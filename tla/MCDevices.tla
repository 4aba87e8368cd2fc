------------------------------- MODULE MCDevices ----------------------------
(***************************************************************************)
(* Instances of SessionDevices for TLC.                                    *)
(***************************************************************************)
EXTENDS SessionDevices

CONSTANTS r1, r2   \* the readers
=============================================================================
