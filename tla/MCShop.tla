------------------------------- MODULE MCShop -------------------------------
(***************************************************************************)
(* An instance of Shop for TLC: two categories with one product in both,   *)
(* a text that is a word and one that is a price range; the category that  *)
(* is opened lists one product twice.                                      *)
(***************************************************************************)
EXTENDS Shop

CONSTANTS camp, climb, tent, stove, rope

CampThenClimb == << camp, climb >>
TentTwice == << tent, stove, tent >>
TwoShelves == camp :> << tent, stove >> @@ climb :> << rope, tent >>

Word == "tent"
Range1To2 == "1-2"
WordAndRange == {Word, Range1To2}
TitlesOf == Word :> {tent} @@ Range1To2 :> {}
TagsOf == Word :> {tent, rope} @@ Range1To2 :> {}

\* Prices in halves.
LowOf == Word :> NoPrice @@ Range1To2 :> 2
HighOf == Word :> NoPrice @@ Range1To2 :> 4
Prices == tent :> 4 @@ stove :> 3 @@ rope :> NoPrice
=============================================================================
