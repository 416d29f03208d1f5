----------------------------- MODULE MCRecovery -----------------------------
(***************************************************************************)
(* Blocks of five cells and headers of two for TLC: a batch of two cells   *)
(* may fit into a block and leave a trailer, one of four never fits.       *)
(***************************************************************************)
EXTENDS Recovery

Crashing(w, c, f) == [writes |-> w, crashes |-> c, failures |-> f]

\* With two crashes the second may strike the opening after the first.
UsualBudgets == {Crashing(3, 1, 0), Crashing(2, 2, 0), Crashing(2, 1, 1)}
=============================================================================
