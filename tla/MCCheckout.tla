---------------------------- MODULE MCCheckout -----------------------------
(***************************************************************************)
(* Instances of Checkout for TLC.  The names below are the values the      *)
(* configurations give to its constants.                                   *)
(***************************************************************************)
EXTENDS FreshCheckout

CONSTANTS d1, d2, alice, bob, tent, rope, acme, j1, j2

OneUser == d1 :> alice
TwoUsers == d1 :> alice @@ d2 :> bob
SameVendor == tent :> acme @@ rope :> acme
OneProduct == tent :> acme
TwoTaps == j1 :> d1 @@ j2 :> d1
OneTapEach == j1 :> d1 @@ j2 :> d2

\* The taps of one device, and the products of one vendor, are interchangeable.
TapsAndProducts == Permutations({j1, j2}) \cup Permutations({tent, rope})
=============================================================================
