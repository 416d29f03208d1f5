----------------------------- MODULE Favorites -----------------------------
(***************************************************************************)
(* The stored favorites and the two collections that change them:          *)
(*     Views/Category/CategoryCollectionViewController.swift  (hearts)     *)
(*     Views/Favorites/FavoritesCollectionViewController.swift (crosses)   *)
(*                                                                         *)
(* A cell keeps the index path it was configured with (Cells/ItemCell) and *)
(* its buttons report that path, wherever UIKit has moved the cell since.  *)
(* The Favorites screen deletes a cell, and configures the visible ones    *)
(* anew only when the animation of the deletion has finished.  Taps may    *)
(* come in between.  Module Shop adds the Browse screen and the new        *)
(* process that follows when one ends.                                     *)
(***************************************************************************)
EXTENDS FavoritesController

CONSTANTS
    CategoryRows,   \* category.products of the Category screen
    MaxAnimations   \* bound: the deletions whose animation has not finished

ASSUME FavoritesAssumption ==
    /\ CategoryRows \in Seq(Products)
    /\ MaxAnimations \in Nat

VARIABLES
    favorites,   \* FavoritesCollectionViewController.favorites
    cells,       \* its cells: the product each shows and the index it keeps
    animations,  \* deletions whose completion has not run
    hearts,      \* which rows of the Category screen show a filled heart
    front        \* the screen in front

favoritesVars == << favorites, cells, animations, hearts, front >>

Screens == {"browse", "category", "favorites"}
Cell == [product : Products, index : Nat \ {0}]

\* cellForItemAt, for every item of the Favorites screen.
Configured(list) == [n \in DOMAIN list |-> [product |-> list[n], index |-> n]]

FavoritesInit ==
    /\ stored = << >>
    /\ favorites = << >>
    /\ cells = << >>
    /\ animations = 0
    /\ hearts = [row \in DOMAIN CategoryRows |-> FALSE]
    /\ front = "browse"

\* Wrong version: the cells are not drawn again when the screen comes back.
ShowCategoryAsItWas ==
    /\ front # "category"
    /\ front' = "category"
    /\ UNCHANGED << stored, favorites, cells, animations, hearts >>

\* viewWillAppear and cellForItemAt of the Category screen.
ShowCategory ==
    /\ front # "category"
    /\ front' = "category"
    /\ hearts' = [row \in DOMAIN CategoryRows |-> IsFavorite(stored, CategoryRows[row])]
    /\ UNCHANGED << stored, favorites, cells, animations >>

\* Wrong version: the Favorites screen reads the stored array only once.
ShowFavoritesAsItWas ==
    /\ front # "favorites"
    /\ front' = "favorites"
    /\ UNCHANGED << stored, favorites, cells, animations, hearts >>

\* viewWillAppear of the Favorites screen.
ShowFavorites ==
    /\ front # "favorites"
    /\ front' = "favorites"
    /\ favorites' = stored
    /\ cells' = Configured(stored)
    /\ UNCHANGED << stored, animations, hearts >>

\* The heart of a category cell: the icon of this cell alone is set.
TapHeart(row) ==
    /\ front = "category"
    /\ stored' = Toggle(stored, CategoryRows[row])
    /\ hearts' = [hearts EXCEPT ![row] = IsFavorite(stored', CategoryRows[row])]
    /\ UNCHANGED << favorites, cells, animations, front >>

\* What unmarkFavorite leaves behind when the n-th cell's cross is tapped.
StoredAfterRemove(n) == UnmarkFavorite(stored, favorites[cells[n].index])

\* The cross of the n-th cell of the Favorites screen: the index the cell keeps
\* says which favorite goes and which cell is deleted.
TapRemove(n) ==
    LET index == cells[n].index
    IN  /\ front = "favorites"
        /\ animations < MaxAnimations
        /\ index <= Len(favorites)
        /\ Len(StoredAfterRemove(n)) = Len(cells) - 1
        /\ stored' = StoredAfterRemove(n)
        /\ favorites' = stored'
        /\ cells' = RemoveAt(cells, index)
        /\ animations' = animations + 1
        /\ UNCHANGED << hearts, front >>

\* Wrong version: the completion configures no cell.
AnimationEndsWithoutReload ==
    /\ animations > 0
    /\ animations' = animations - 1
    /\ UNCHANGED << stored, favorites, cells, hearts, front >>

\* The completion of performBatchUpdates: the visible cells are configured anew.
AnimationEnds ==
    /\ animations > 0
    /\ animations' = animations - 1
    /\ cells' = Configured(favorites)
    /\ UNCHANGED << stored, favorites, hearts, front >>

\* Memory is gone; UserDefaults stays.
ProcessEnds ==
    /\ favorites' = << >>
    /\ cells' = << >>
    /\ animations' = 0
    /\ hearts' = [row \in DOMAIN CategoryRows |-> FALSE]
    /\ front' = "browse"

\* The tap of a cell whose index has no favorite any more (the subscript traps), or
\* after which the items left do not add up for deleteItems (UIKit raises).
TapRemoveRaises(n) ==
    /\ front = "favorites"
    /\ \/ /\ cells[n].index > Len(favorites)
          /\ UNCHANGED stored
       \/ /\ cells[n].index <= Len(favorites)
          /\ Len(StoredAfterRemove(n)) # Len(cells) - 1
          /\ stored' = StoredAfterRemove(n)
    /\ ProcessEnds

\* The user quits the app, or iOS ends it.
Terminate ==
    /\ ProcessEnds
    /\ UNCHANGED stored

\* What happens on the two screens while the process lives.
FavoritesNext ==
    \/ ShowCategory
    \/ ShowFavorites
    \/ \E row \in DOMAIN CategoryRows : TapHeart(row)
    \/ \E n \in DOMAIN cells : TapRemove(n)
    \/ AnimationEnds

-----------------------------------------------------------------------------
FavoritesTypeOK ==
    /\ stored \in Seq(Products)
    /\ favorites \in Seq(Products)
    /\ cells \in Seq(Cell)
    /\ animations \in 0..MaxAnimations
    /\ hearts \in [DOMAIN CategoryRows -> BOOLEAN]
    /\ front \in Screens

\* No product is stored twice, although markFavorite appends without a look:
\* unmarkFavorite takes out one position and would leave the other.
StoredOnce == IsInjective(stored)

\* Also while deletions are animated, the Favorites screen holds what is stored
\* and has one cell for each, so that deleteItems always adds up.
ScreenFollowsStore ==
    front = "favorites" => favorites = stored /\ Len(cells) = Len(stored)

\* Once the animations are over, a cross removes the product its cell shows.
SettledCrossIsRight ==
    front = "favorites" /\ animations = 0 =>
        \A n \in DOMAIN cells :
            /\ cells[n].index \in DOMAIN favorites
            /\ favorites[cells[n].index] = cells[n].product

\* On the Category screen a filled heart means a favorite, after any detour to
\* the Favorites screen (a product listed twice has two hearts and is left out).
HeartsTellTheTruth ==
    front = "category" =>
        \A row \in DOMAIN CategoryRows :
            (\A other \in DOMAIN CategoryRows \ {row} : CategoryRows[other] # CategoryRows[row])
            => hearts[row] = IsFavorite(stored, CategoryRows[row])
=============================================================================
