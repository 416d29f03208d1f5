------------------------ MODULE FavoritesController ------------------------
(***************************************************************************)
(* The rules of Controllers/FavoritesController.swift as operators on the  *)
(* stored favorites, a sequence of products.  A product stands for its id, *)
(* the only field that is compared.  Each call reads the array from        *)
(* UserDefaults and writes all of it back, on the main thread.  Favorites  *)
(* and Browse are screens that do so.                                      *)
(***************************************************************************)
EXTENDS Naturals, SequencesExt

CONSTANT Products

VARIABLE stored      \* the favorites in UserDefaults

IsFavorite(favorites, product) == \E i \in DOMAIN favorites : favorites[i] = product

MarkFavorite(favorites, product) == Append(favorites, product)

\* Only the first position that matches is removed.
UnmarkFavorite(favorites, product) ==
    IF IsFavorite(favorites, product)
    THEN RemoveAt(favorites, SelectInSeq(favorites, LAMBDA p : p = product))
    ELSE favorites

\* Wrong version: the tap marks without a look at what is stored.
ToggleAlwaysMarks(favorites, product) == MarkFavorite(favorites, product)

\* A tap on the heart of a cell: the stored array decides, not the icon.
Toggle(favorites, product) ==
    IF IsFavorite(favorites, product)
    THEN UnmarkFavorite(favorites, product)
    ELSE MarkFavorite(favorites, product)
=============================================================================
