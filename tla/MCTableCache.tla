---------------------------- MODULE MCTableCache ----------------------------
(***************************************************************************)
(* Two readers and the compaction thread for TLC.  Readers are alike and   *)
(* so are addresses, and no property tells them apart.                     *)
(***************************************************************************)
EXTENDS TableCache

CONSTANTS r1, r2, bg, a1, a2, a3, a4, f1, f2, f3

Symmetry == Permutations({r1, r2}) \cup Permutations(Addresses)
=============================================================================
