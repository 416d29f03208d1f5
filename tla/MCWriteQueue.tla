---------------------------- MODULE MCWriteQueue ----------------------------
(***************************************************************************)
(* Three writers for TLC.                                                  *)
(***************************************************************************)
EXTENDS WriteQueue

CONSTANTS w1, w2, w3
=============================================================================
