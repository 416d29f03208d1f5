-------------------------- MODULE MCCatalogStore ---------------------------
(***************************************************************************)
(* Three products, one of them rated and one with a tag, for TLC.          *)
(***************************************************************************)
EXTENDS CatalogStore

CONSTANTS camp, climb

Tent == [text |-> "tent", tags |-> << "camping" >>, rating |-> 0]
Stove == [text |-> "stove", tags |-> << >>, rating |-> 5]
Rope == [text |-> "rope", tags |-> << >>, rating |-> 0]
AllProducts == {Tent, Stove, Rope}
SomeShelves == {<< >>, << Tent >>, << Stove, Rope >>}
=============================================================================
