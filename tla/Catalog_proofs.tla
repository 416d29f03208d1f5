---------------------------- MODULE Catalog_proofs ----------------------------
(***************************************************************************)
(* The invariants of Shop and CatalogStore: what is marked in the catalog, *)
(* what a search finds in it and how it is stored.                         *)
(*                                                                         *)
(* Shop is Favorites and Browse over the stored favorites.  Each has an    *)
(* invariant of its own, and each step of the one is shown to leave that   *)
(* of the other alone.                                                     *)
(***************************************************************************)
EXTENDS Shop, CatalogStore, SequenceLemmas

-----------------------------------------------------------------------------
(***************************************************************************)
(* The operators of FavoritesController.                                   *)
(***************************************************************************)
\* unmarkFavorite keeps the other products, and removes one position or none.
LEMMA UnmarkKeepsOthers ==
    ASSUME NEW s \in Seq(Products), NEW p \in Products, IsInjective(s)
    PROVE  /\ UnmarkFavorite(s, p) \in Seq(Products)
           /\ IsInjective(UnmarkFavorite(s, p))
           /\ \A q \in Products : q # p =>
                 (IsFavorite(UnmarkFavorite(s, p), q) <=> IsFavorite(s, q))
<1>1. CASE ~IsFavorite(s, p)
  BY <1>1 DEF UnmarkFavorite
<1>2. CASE IsFavorite(s, p)
  <2> DEFINE i    == SelectInSeq(s, LAMBDA x : x = p)
             rest == RemoveAt(s, i)
  <2>1. i \in 1..Len(s) /\ s[i] = p
    BY <1>2, SelectInSeqFinds DEF IsFavorite
  <2>2. UnmarkFavorite(s, p) = rest
    BY <1>2 DEF UnmarkFavorite
  <2> HIDE DEF i
  <2>3. /\ rest \in Seq(Products)
        /\ Len(rest) = Len(s) - 1
        /\ \A k \in 1..(Len(s) - 1) : rest[k] = IF k < i THEN s[k] ELSE s[k + 1]
    BY <2>1, RemoveAtShifts
  <2>4. IsInjective(rest)
    BY <2>1, RemoveAtIsInjective
  <2> HIDE DEF rest
  <2>5. /\ Len(s) \in Nat /\ DOMAIN s = 1..Len(s)
        /\ DOMAIN rest = 1..(Len(s) - 1)
    BY <2>3, LenProperties
  <2>6. ASSUME NEW q \in Products, q # p
        PROVE  IsFavorite(rest, q) <=> IsFavorite(s, q)
    <3>1. ASSUME NEW k \in DOMAIN rest, rest[k] = q PROVE \E l \in DOMAIN s : s[l] = q
      <4>1. k \in DOMAIN s /\ k + 1 \in DOMAIN s
        BY <2>5
      <4> QED BY <2>3, <2>5, <3>1, <4>1
    <3>2. ASSUME NEW l \in DOMAIN s, s[l] = q PROVE \E k \in DOMAIN rest : rest[k] = q
      <4>1. l # i
        BY <2>1, <2>6, <3>2
      <4>2. CASE l < i
        <5>1. l \in DOMAIN rest /\ rest[l] = s[l]
          BY <2>1, <2>3, <2>5, <4>2
        <5> QED BY <3>2, <5>1
      <4>3. CASE l > i
        <5>1. /\ l - 1 \in 1..(Len(s) - 1)
              /\ ~(l - 1 < i)
              /\ (l - 1) + 1 = l
          BY <2>1, <2>5, <4>3
        <5>2. rest[l - 1] = s[l]
          BY <2>3, <5>1
        <5> QED BY <2>5, <3>2, <5>1, <5>2
      <4> QED BY <2>1, <2>5, <4>1, <4>2, <4>3
    <3> QED BY <3>1, <3>2 DEF IsFavorite
  <2> QED BY <2>2, <2>3, <2>4, <2>6
<1> QED BY <1>1, <1>2

\* markFavorite of a product that is not stored.
LEMMA MarkKeepsOthers ==
    ASSUME NEW s \in Seq(Products), NEW p \in Products, IsInjective(s), ~IsFavorite(s, p)
    PROVE  /\ MarkFavorite(s, p) \in Seq(Products)
           /\ IsInjective(MarkFavorite(s, p))
           /\ \A q \in Products : q # p =>
                 (IsFavorite(MarkFavorite(s, p), q) <=> IsFavorite(s, q))
<1> DEFINE new == MarkFavorite(s, p)
<1>1. Len(s) \in Nat /\ DOMAIN s = 1..Len(s)
  BY LenProperties
<1>2. /\ new \in Seq(Products)
      /\ Len(new) = Len(s) + 1
      /\ \A k \in 1..Len(s) : new[k] = s[k]
      /\ new[Len(s) + 1] = p
  BY AppendProperties DEF MarkFavorite
<1>3. IsInjective(new)
  BY AppendIsInjective DEF IsFavorite, MarkFavorite
<1> HIDE DEF new
<1>4. DOMAIN new = 1..(Len(s) + 1)
  BY <1>2, LenProperties
<1>5. ASSUME NEW q \in Products, q # p
      PROVE  IsFavorite(new, q) <=> IsFavorite(s, q)
  BY <1>1, <1>2, <1>4, <1>5 DEF IsFavorite
<1> QED BY <1>2, <1>3, <1>5 DEF new

\* A tap on a heart: no product twice, and no other product comes or goes.
LEMMA ToggleKeepsOthers ==
    ASSUME NEW s \in Seq(Products), NEW p \in Products, IsInjective(s)
    PROVE  /\ Toggle(s, p) \in Seq(Products)
           /\ IsInjective(Toggle(s, p))
           /\ \A q \in Products : q # p =>
                 (IsFavorite(Toggle(s, p), q) <=> IsFavorite(s, q))
<1>1. CASE IsFavorite(s, p)
  BY <1>1, UnmarkKeepsOthers DEF Toggle
<1>2. CASE ~IsFavorite(s, p)
  BY <1>2, MarkKeepsOthers DEF Toggle
<1> QED BY <1>1, <1>2

\* The cells of a list that has just been configured.
LEMMA ConfiguredCells ==
    ASSUME NEW list \in Seq(Products)
    PROVE  /\ Configured(list) \in Seq(Cell)
           /\ Len(Configured(list)) = Len(list)
           /\ DOMAIN Configured(list) = DOMAIN list
           /\ \A n \in DOMAIN list : /\ Configured(list)[n].product = list[n]
                                     /\ Configured(list)[n].index = n
<1>1. Len(list) \in Nat /\ DOMAIN list = 1..Len(list)
  BY LenProperties
<1>2. \A n \in 1..Len(list) : [product |-> list[n], index |-> n] \in Cell
  BY <1>1, ElementOfSeq DEF Cell
<1>3. Configured(list) = [n \in 1..Len(list) |-> [product |-> list[n], index |-> n]]
  BY <1>1 DEF Configured
<1>4. Configured(list) \in Seq(Cell)
  BY <1>1, <1>2, <1>3, IsASeq
<1>5. Len(Configured(list)) = Len(list)
  BY <1>1, <1>3, <1>4, LenProperties
<1> QED BY <1>1, <1>3, <1>4, <1>5

-----------------------------------------------------------------------------
(***************************************************************************)
(* The invariant.  A cross is right because the screen has one cell for    *)
(* each stored product; it has because each deletion takes one of both,    *)
(* and that needs a product to be stored once.                             *)
(***************************************************************************)
FavoritesInv ==
    /\ FavoritesTypeOK
    /\ StoredOnce
    /\ ScreenFollowsStore
    /\ SettledCrossIsRight
    /\ HeartsTellTheTruth

LEMMA InitInv == FavoritesInit => FavoritesInv
<1> SUFFICES ASSUME FavoritesInit PROVE FavoritesInv
  OBVIOUS
<1>1. FavoritesTypeOK
  <2>1. << >> \in Seq(Products) /\ << >> \in Seq(Cell)
    BY EmptySeq
  <2> QED BY <2>1, FavoritesAssumption DEF FavoritesInit, FavoritesTypeOK, Screens
<1>2. IsInjective(<< >>)
  <2>1. DOMAIN << >> = {}
    BY EmptySeq
  <2> QED BY <2>1 DEF IsInjective
<1>3. front = "browse"
  BY DEF FavoritesInit
<1> QED BY <1>1, <1>2, <1>3
        DEF FavoritesInit, FavoritesInv, StoredOnce, ScreenFollowsStore, SettledCrossIsRight,
            HeartsTellTheTruth

\* viewWillAppear of the Category screen.
LEMMA ShowCategoryKeepsInv == FavoritesInv /\ ShowCategory => FavoritesInv'
<1> SUFFICES ASSUME FavoritesInv, ShowCategory PROVE FavoritesInv'
  OBVIOUS
<1> USE DEF FavoritesInv, ShowCategory
<1>1. FavoritesTypeOK'
  BY DEF FavoritesTypeOK, Screens, IsFavorite
<1>2. StoredOnce'
  BY DEF StoredOnce
<1>3. ScreenFollowsStore' /\ SettledCrossIsRight'
  BY DEF ScreenFollowsStore, SettledCrossIsRight
<1>4. HeartsTellTheTruth'
  <2>1. \A row \in DOMAIN CategoryRows :
           hearts'[row] = IsFavorite(stored', CategoryRows[row])
    BY DEF IsFavorite
  <2> QED BY <2>1 DEF HeartsTellTheTruth
<1> QED BY <1>1, <1>2, <1>3, <1>4

\* viewWillAppear of the Favorites screen.
LEMMA ShowFavoritesKeepsInv == FavoritesInv /\ ShowFavorites => FavoritesInv'
<1> SUFFICES ASSUME FavoritesInv, ShowFavorites PROVE FavoritesInv'
  OBVIOUS
<1> USE DEF FavoritesInv, ShowFavorites
<1>1. stored \in Seq(Products)
  BY DEF FavoritesTypeOK
<1>2. /\ cells' \in Seq(Cell)
      /\ Len(cells') = Len(stored)
      /\ DOMAIN cells' = DOMAIN stored
      /\ \A n \in DOMAIN stored : cells'[n].product = stored[n] /\ cells'[n].index = n
  BY <1>1, ConfiguredCells
<1>3. FavoritesTypeOK'
  BY <1>2 DEF FavoritesTypeOK, Screens
<1>4. StoredOnce'
  BY DEF StoredOnce
<1>5. ScreenFollowsStore'
  BY <1>2 DEF ScreenFollowsStore
<1>6. SettledCrossIsRight'
  BY <1>2 DEF SettledCrossIsRight
<1>7. HeartsTellTheTruth'
  BY DEF HeartsTellTheTruth
<1> QED BY <1>3, <1>4, <1>5, <1>6, <1>7

\* A heart of the Category screen.
LEMMA TapHeartKeepsInv ==
    ASSUME NEW row \in DOMAIN CategoryRows
    PROVE  FavoritesInv /\ TapHeart(row) => FavoritesInv'
<1> SUFFICES ASSUME FavoritesInv, TapHeart(row) PROVE FavoritesInv'
  OBVIOUS
<1> DEFINE product == CategoryRows[row]
<1>1. stored \in Seq(Products) /\ IsInjective(stored) /\ hearts \in [DOMAIN CategoryRows -> BOOLEAN]
  BY DEF FavoritesInv, FavoritesTypeOK, StoredOnce
<1>2. \A r \in DOMAIN CategoryRows : CategoryRows[r] \in Products
  BY FavoritesAssumption, LenProperties, ElementOfSeq
<1>3. /\ stored' \in Seq(Products)
      /\ IsInjective(stored')
      /\ \A q \in Products : q # product =>
            (IsFavorite(stored', q) <=> IsFavorite(stored, q))
  BY <1>1, <1>2, ToggleKeepsOthers DEF TapHeart
<1>4. front = "category" /\ front' = "category"
  BY DEF TapHeart
<1>5. hearts' = [hearts EXCEPT ![row] = IsFavorite(stored', product)]
  BY DEF TapHeart
<1>6. FavoritesTypeOK'
  <2>1. IsFavorite(stored', product) \in BOOLEAN
    BY DEF IsFavorite
  <2> QED BY <1>1, <1>3, <1>5, <2>1 DEF FavoritesInv, FavoritesTypeOK, TapHeart
<1>7. StoredOnce'
  BY <1>3 DEF StoredOnce
<1>8. ScreenFollowsStore' /\ SettledCrossIsRight'
  BY <1>4 DEF ScreenFollowsStore, SettledCrossIsRight
<1>9. HeartsTellTheTruth'
  <2>1. SUFFICES ASSUME NEW r \in DOMAIN CategoryRows,
                        \A other \in DOMAIN CategoryRows \ {r} :
                           CategoryRows[other] # CategoryRows[r]
                 PROVE  hearts'[r] = IsFavorite(stored', CategoryRows[r])
    BY DEF HeartsTellTheTruth
  <2>2. CASE r = row
    BY <1>1, <1>5, <2>2
  <2>3. CASE r # row
    <3>1. CategoryRows[r] # product
      BY <2>1, <2>3
    <3>2. hearts[r] = IsFavorite(stored, CategoryRows[r])
      BY <1>4, <2>1 DEF FavoritesInv, HeartsTellTheTruth
    <3>3. hearts'[r] = hearts[r]
      BY <1>1, <1>5, <2>3
    <3>4. IsFavorite(stored', CategoryRows[r]) <=> IsFavorite(stored, CategoryRows[r])
      BY <1>2, <1>3, <3>1
    <3>5. /\ IsFavorite(stored', CategoryRows[r]) \in BOOLEAN
          /\ IsFavorite(stored, CategoryRows[r]) \in BOOLEAN
      BY DEF IsFavorite
    <3> QED BY <3>2, <3>3, <3>4, <3>5, Zenon
  <2> QED BY <2>2, <2>3
<1> QED BY <1>6, <1>7, <1>8, <1>9 DEF FavoritesInv

\* A cross of the Favorites screen, while the cells are there to be deleted.
LEMMA TapRemoveKeepsInv ==
    ASSUME NEW n \in DOMAIN cells
    PROVE  FavoritesInv /\ TapRemove(n) => FavoritesInv'
<1> SUFFICES ASSUME FavoritesInv, TapRemove(n) PROVE FavoritesInv'
  OBVIOUS
<1> DEFINE index == cells[n].index
<1>1. /\ stored \in Seq(Products) /\ IsInjective(stored)
      /\ favorites \in Seq(Products)
      /\ cells \in Seq(Cell)
      /\ animations \in 0..MaxAnimations
      /\ MaxAnimations \in Nat
  BY FavoritesAssumption DEF FavoritesInv, FavoritesTypeOK, StoredOnce
<1>2. front = "favorites" /\ front' = "favorites"
  BY DEF TapRemove
<1>3. favorites = stored /\ Len(cells) = Len(stored)
  BY <1>2 DEF FavoritesInv, ScreenFollowsStore
<1>4. cells[n] \in Cell
  BY <1>1, LenProperties, ElementOfSeq
<1>5. index \in 1..Len(cells)
  <2>1. index \in Nat \ {0} /\ index <= Len(favorites)
    BY <1>4 DEF TapRemove, Cell
  <2>2. Len(cells) \in Nat
    BY <1>1, LenProperties
  <2> QED BY <1>3, <2>1, <2>2
<1>6. favorites[index] \in Products
  BY <1>1, <1>3, <1>5, ElementOfSeq
<1>7. stored' \in Seq(Products) /\ IsInjective(stored')
  BY <1>1, <1>6, UnmarkKeepsOthers DEF TapRemove, StoredAfterRemove
<1>8. cells' \in Seq(Cell) /\ Len(cells') = Len(cells) - 1
  BY <1>1, <1>5, RemoveAtShifts DEF TapRemove
<1>9. favorites' = stored' /\ Len(stored') = Len(cells) - 1
  BY DEF TapRemove
<1>10. animations' \in 1..MaxAnimations
  BY <1>1 DEF TapRemove
<1>11. FavoritesTypeOK'
  BY <1>1, <1>7, <1>8, <1>9, <1>10 DEF FavoritesInv, FavoritesTypeOK, TapRemove
<1>12. StoredOnce'
  BY <1>7 DEF StoredOnce
<1>13. ScreenFollowsStore'
  BY <1>8, <1>9 DEF ScreenFollowsStore
<1>14. SettledCrossIsRight'
  BY <1>10 DEF SettledCrossIsRight
<1>15. HeartsTellTheTruth'
  BY <1>2 DEF HeartsTellTheTruth
<1> QED BY <1>11, <1>12, <1>13, <1>14, <1>15 DEF FavoritesInv

\* The completion of a deletion.
LEMMA AnimationEndsKeepsInv == FavoritesInv /\ AnimationEnds => FavoritesInv'
<1> SUFFICES ASSUME FavoritesInv, AnimationEnds PROVE FavoritesInv'
  OBVIOUS
<1> USE DEF FavoritesInv, AnimationEnds
<1>1. favorites \in Seq(Products)
  BY DEF FavoritesTypeOK
<1>2. /\ cells' \in Seq(Cell)
      /\ Len(cells') = Len(favorites)
      /\ DOMAIN cells' = DOMAIN favorites
      /\ \A n \in DOMAIN favorites : cells'[n].product = favorites[n] /\ cells'[n].index = n
  BY <1>1, ConfiguredCells
<1>3. FavoritesTypeOK'
  BY <1>2, FavoritesAssumption DEF FavoritesTypeOK
<1>4. StoredOnce'
  BY DEF StoredOnce
<1>5. ScreenFollowsStore'
  BY <1>2 DEF ScreenFollowsStore
<1>6. SettledCrossIsRight'
  BY <1>2 DEF SettledCrossIsRight
<1>7. HeartsTellTheTruth'
  BY DEF HeartsTellTheTruth
<1> QED BY <1>3, <1>4, <1>5, <1>6, <1>7

\* A new process starts on the Browse screen, whatever is stored.
LEMMA ProcessEndsKeepsInv ==
    ASSUME FavoritesInv, ProcessEnds, stored' \in Seq(Products), IsInjective(stored')
    PROVE  FavoritesInv'
<1> USE DEF ProcessEnds
<1>1. FavoritesTypeOK'
  <2>1. << >> \in Seq(Products) /\ << >> \in Seq(Cell)
    BY EmptySeq
  <2> QED BY <2>1, FavoritesAssumption DEF FavoritesTypeOK, Screens
<1>2. StoredOnce'
  BY DEF StoredOnce
<1>3. ScreenFollowsStore' /\ SettledCrossIsRight' /\ HeartsTellTheTruth'
  BY DEF ScreenFollowsStore, SettledCrossIsRight, HeartsTellTheTruth
<1> QED BY <1>1, <1>2, <1>3 DEF FavoritesInv

\* A cross that ends the app may have changed what is stored before it does.
LEMMA TapRemoveRaisesKeepsInv ==
    ASSUME NEW n \in DOMAIN cells
    PROVE  FavoritesInv /\ TapRemoveRaises(n) => FavoritesInv'
<1> SUFFICES ASSUME FavoritesInv, TapRemoveRaises(n) PROVE FavoritesInv'
  OBVIOUS
<1>1. /\ stored \in Seq(Products) /\ IsInjective(stored)
      /\ favorites \in Seq(Products) /\ cells \in Seq(Cell)
  BY DEF FavoritesInv, FavoritesTypeOK, StoredOnce
<1>2. stored' \in Seq(Products) /\ IsInjective(stored')
  <2>1. CASE stored' = stored
    BY <1>1, <2>1
  <2>2. CASE cells[n].index <= Len(favorites) /\ stored' = StoredAfterRemove(n)
    <3>1. cells[n] \in Cell
      BY <1>1, LenProperties, ElementOfSeq
    <3>2. cells[n].index \in 1..Len(favorites)
      <4>1. cells[n].index \in Nat \ {0}
        BY <3>1 DEF Cell
      <4>2. Len(favorites) \in Nat
        BY <1>1, LenProperties
      <4> QED BY <2>2, <4>1, <4>2
    <3>3. favorites[cells[n].index] \in Products
      BY <1>1, <3>2, ElementOfSeq
    <3> QED BY <1>1, <2>2, <3>3, UnmarkKeepsOthers DEF StoredAfterRemove
  <2> QED BY <2>1, <2>2 DEF TapRemoveRaises
<1>3. ProcessEnds
  BY DEF TapRemoveRaises
<1> QED BY <1>2, <1>3, ProcessEndsKeepsInv

\* The heart of a search result: another product goes or comes, while neither the
\* Category nor the Favorites screen is in front.
LEMMA ResultHeartKeepsInv ==
    ASSUME FavoritesInv, NEW p \in Products, stored' = Toggle(stored, p),
           front = "browse", UNCHANGED favoritesVars
    PROVE  FavoritesInv'
<1>1. stored \in Seq(Products) /\ IsInjective(stored)
  BY DEF FavoritesInv, FavoritesTypeOK, StoredOnce
<1>2. stored' \in Seq(Products) /\ IsInjective(stored')
  BY <1>1, ToggleKeepsOthers
<1>3. UNCHANGED << favorites, cells, animations, hearts, front >>
  BY DEF favoritesVars
<1>4. FavoritesTypeOK'
  BY <1>2, <1>3 DEF FavoritesInv, FavoritesTypeOK
<1>5. StoredOnce'
  BY <1>2 DEF StoredOnce
<1>6. ScreenFollowsStore' /\ SettledCrossIsRight' /\ HeartsTellTheTruth'
  BY <1>3 DEF ScreenFollowsStore, SettledCrossIsRight, HeartsTellTheTruth
<1> QED BY <1>4, <1>5, <1>6 DEF FavoritesInv

\* A step that leaves the collections and what is stored alone, but for the screen
\* in front, which may become Browse.
LEMMA ElsewhereKeepsInv ==
    ASSUME FavoritesInv, front' \in {front, "browse"},
           UNCHANGED << stored, favorites, cells, animations, hearts >>
    PROVE  FavoritesInv'
<1> USE DEF FavoritesInv
<1>1. FavoritesTypeOK'
  BY DEF FavoritesTypeOK, Screens
<1>2. StoredOnce'
  BY DEF StoredOnce
<1>3. ScreenFollowsStore' /\ SettledCrossIsRight'
  BY DEF ScreenFollowsStore, SettledCrossIsRight
<1>4. HeartsTellTheTruth'
  BY DEF HeartsTellTheTruth
<1> QED BY <1>1, <1>2, <1>3, <1>4

\* What the user does on the collections, and the end of an animation.
LEMMA FavoritesStep == FavoritesInv /\ FavoritesNext => FavoritesInv'
<1> SUFFICES ASSUME FavoritesInv, FavoritesNext PROVE FavoritesInv'
  OBVIOUS
<1>1. CASE ShowCategory
  BY <1>1, ShowCategoryKeepsInv
<1>2. CASE ShowFavorites
  BY <1>2, ShowFavoritesKeepsInv
<1>3. CASE \E row \in DOMAIN CategoryRows : TapHeart(row)
  BY <1>3, TapHeartKeepsInv
<1>4. CASE \E n \in DOMAIN cells : TapRemove(n)
  BY <1>4, TapRemoveKeepsInv
<1>5. CASE AnimationEnds
  BY <1>5, AnimationEndsKeepsInv
<1> QED BY <1>1, <1>2, <1>3, <1>4, <1>5 DEF FavoritesNext

\* The end of the app.
LEMMA TerminateKeepsInv == FavoritesInv /\ Terminate => FavoritesInv'
<1> SUFFICES ASSUME FavoritesInv, Terminate PROVE FavoritesInv'
  OBVIOUS
<1>1. ProcessEnds /\ stored' = stored
  BY DEF Terminate
<1>2. stored' \in Seq(Products) /\ IsInjective(stored')
  BY <1>1 DEF FavoritesInv, FavoritesTypeOK, StoredOnce
<1> QED BY <1>1, <1>2, ProcessEndsKeepsInv

-----------------------------------------------------------------------------
(***************************************************************************)
(* What a search finds                                                     *)
(***************************************************************************)
\* How the filter stands after each product.
Filtering(kept, products, type, t) ==
    kept = [n \in 0..Len(products) |->
               IF n = 0 THEN << >>
               ELSE IF Matches(type, t, products[n]) THEN Append(kept[n - 1], products[n])
               ELSE kept[n - 1]]

\* The recursion of filter has a solution.
LEMMA FilteringExists ==
    ASSUME NEW products \in Seq(Products), NEW type, NEW t
    PROVE  \E kept : Filtering(kept, products, type, t)
<1> DEFINE N == Len(products)
           S == Seq(Products)
           step == [x \in S \X (1..N) |-> IF Matches(type, t, products[x[2]])
                                          THEN Append(x[1], products[x[2]]) ELSE x[1]]
           first == << >>
<1>1. N \in Nat /\ \A n \in 1..N : products[n] \in Products
  BY LenProperties, ElementOfSeq
<1>2. first \in S
  BY EmptySeq
<1>3. step \in [S \X (1..N) -> S]
  <2> SUFFICES ASSUME NEW x \in S \X (1..N) PROVE step[x] \in S
    OBVIOUS
  <2>1. x[1] \in S /\ products[x[2]] \in Products
    BY <1>1
  <2>2. Append(x[1], products[x[2]]) \in S
    BY <2>1, AppendProperties
  <2> QED BY <2>1, <2>2
<1>4. \A s \in S, n \in 1..N :
         step[<< s, n >>] = IF Matches(type, t, products[n]) THEN Append(s, products[n]) ELSE s
  OBVIOUS
<1> HIDE DEF N, S, step, first
<1>5. PICK g : Loop(g, S, N, first, step)
  BY <1>1, <1>2, <1>3, LoopExists, Zenon
<1>6. ASSUME NEW n \in 1..N
      PROVE  g[n] = IF Matches(type, t, products[n]) THEN Append(g[n - 1], products[n])
                    ELSE g[n - 1]
  <2>1. n - 1 \in 0..N
    BY <1>1
  <2> QED BY <1>4, <1>5, <2>1 DEF Loop
<1>7. \A n \in 0..N : n # 0 => n \in 1..N
  BY <1>1
<1>8. g = [n \in 0..N |-> g[n]] /\ g[0] = << >>
  BY <1>5 DEF Loop, first
<1>9. g = [n \in 0..N |->
               IF n = 0 THEN << >>
               ELSE IF Matches(type, t, products[n]) THEN Append(g[n - 1], products[n])
               ELSE g[n - 1]]
  BY <1>6, <1>7, <1>8, Zenon
<1> QED BY <1>9 DEF N, Filtering

\* ... and filter is its last round.
LEMMA FilteredIs ==
    ASSUME NEW products \in Seq(Products), NEW type, NEW t
    PROVE  \E kept : /\ kept[0] = << >>
                     /\ \A n \in 1..Len(products) :
                           kept[n] = IF Matches(type, t, products[n])
                                     THEN Append(kept[n - 1], products[n]) ELSE kept[n - 1]
                     /\ Filtered(products, type, t) = kept[Len(products)]
<1> DEFINE kept == CHOOSE g : Filtering(g, products, type, t)
<1>1. Filtering(kept, products, type, t)
  BY FilteringExists, Zenon
<1>2. Filtered(products, type, t) = kept[Len(products)]
  BY DEF Filtered, Filtering
<1> HIDE DEF kept
<1>3. Len(products) \in Nat
  BY LenProperties
<1>4. 0 \in 0..Len(products) /\ \A n \in 1..Len(products) : n \in 0..Len(products) /\ n # 0
  BY <1>3
<1>5. kept[0] = << >>
  BY <1>1, <1>4 DEF Filtering
<1>6. ASSUME NEW n \in 1..Len(products)
      PROVE  kept[n] = IF Matches(type, t, products[n])
                       THEN Append(kept[n - 1], products[n]) ELSE kept[n - 1]
  BY <1>1, <1>4 DEF Filtering
<1> QED BY <1>2, <1>5, <1>6

\* filter keeps the products that match, and only these.
LEMMA FilteredKeepsMatches ==
    ASSUME NEW products \in Seq(Products), NEW type, NEW t
    PROVE  /\ Filtered(products, type, t) \in Seq(Products)
           /\ ToSet(Filtered(products, type, t)) =
                  {p \in ToSet(products) : Matches(type, t, p)}
<1> DEFINE N == Len(products)
           Among(n) == {p \in {products[i] : i \in 1..n} : Matches(type, t, p)}
<1>1. N \in Nat /\ DOMAIN products = 1..N /\ \A n \in 1..N : products[n] \in Products
  BY LenProperties, ElementOfSeq
<1>2. PICK kept : /\ kept[0] = << >>
                  /\ \A n \in 1..N :
                        kept[n] = IF Matches(type, t, products[n])
                                  THEN Append(kept[n - 1], products[n]) ELSE kept[n - 1]
                  /\ Filtered(products, type, t) = kept[N]
  BY FilteredIs
<1> DEFINE P == {n \in Nat : n <= N => kept[n] \in Seq(Products) /\ ToSet(kept[n]) = Among(n)}
<1>3. 0 \in P
  <2>1. << >> \in Seq(Products) /\ ToSet(<< >>) = {}
    BY EmptySeq DEF ToSet
  <2>2. Among(0) = {}
    OBVIOUS
  <2> HIDE DEF Among
  <2> QED BY <1>2, <2>1, <2>2
<1>4. ASSUME NEW n \in P PROVE n + 1 \in P
  <2>1. n \in Nat
    OBVIOUS
  <2> SUFFICES ASSUME n + 1 <= N
               PROVE  kept[n + 1] \in Seq(Products) /\ ToSet(kept[n + 1]) = Among(n + 1)
    OBVIOUS
  <2>2. n + 1 \in 1..N /\ (n + 1) - 1 = n /\ n <= N
    BY <1>1, <2>1
  <2>3. kept[n] \in Seq(Products) /\ ToSet(kept[n]) = Among(n)
    BY <2>2
  <2>4. kept[n + 1] = IF Matches(type, t, products[n + 1])
                      THEN Append(kept[n], products[n + 1]) ELSE kept[n]
    BY <1>2, <2>2
  <2>5. \A i : i \in 1..(n + 1) <=> i \in 1..n \/ i = n + 1
    BY <2>1
  <2>6. {products[i] : i \in 1..(n + 1)} = {products[i] : i \in 1..n} \cup {products[n + 1]}
    BY <2>5
  <2>7. CASE Matches(type, t, products[n + 1])
    <3>1. Among(n + 1) = Among(n) \cup {products[n + 1]}
      BY <2>6, <2>7
    <3> HIDE DEF Among
    <3>2. products[n + 1] \in Products
      BY <1>1, <2>2
    <3>3. Append(kept[n], products[n + 1]) \in Seq(Products)
      BY <2>3, <3>2, AppendProperties
    <3>4. ToSet(Append(kept[n], products[n + 1])) = ToSet(kept[n]) \cup {products[n + 1]}
      BY <2>3, <3>2, ToSetOfAppend
    <3> QED BY <2>3, <2>4, <2>7, <3>1, <3>3, <3>4
  <2>8. CASE ~Matches(type, t, products[n + 1])
    <3>1. Among(n + 1) = Among(n)
      BY <2>6, <2>8
    <3> HIDE DEF Among
    <3> QED BY <2>3, <2>4, <2>8, <3>1
  <2> QED BY <2>7, <2>8
<1>5. P = Nat
  <2>1. P \in SUBSET Nat
    OBVIOUS
  <2> HIDE DEF P
  <2> QED BY <1>3, <1>4, <2>1, InductionOnNat
<1>6. kept[N] \in Seq(Products) /\ ToSet(kept[N]) = Among(N)
  <2>1. N \in P /\ N <= N
    <3> HIDE DEF P, N
    <3> QED BY <1>1, <1>5
  <2> HIDE DEF N, Among
  <2> QED BY <2>1
<1>7. ToSet(products) = {products[i] : i \in 1..N}
  BY <1>1 DEF ToSet
<1> QED BY <1>2, <1>6, <1>7

\* How fetchItems stands after each category.
Collected(results, list, type, t) ==
    results = [n \in 0..Len(list) |->
                  IF n = 0 THEN << >>
                  ELSE results[n - 1] \o Filtered(ProductsOf[list[n]], type, t)]

\* The recursion of fetchItems has a solution.
LEMMA CollectedExists ==
    ASSUME NEW list \in Seq(CategoryIds), NEW type, NEW t
    PROVE  \E results : Collected(results, list, type, t)
<1> DEFINE N == Len(list)
           S == Seq(Products)
           found(n) == Filtered(ProductsOf[list[n]], type, t)
           step == [x \in S \X (1..N) |-> x[1] \o found(x[2])]
           first == << >>
<1>1. N \in Nat /\ \A n \in 1..N : list[n] \in CategoryIds
  BY LenProperties, ElementOfSeq
<1>2. first \in S
  BY EmptySeq
<1>3. \A n \in 1..N : found(n) \in S
  BY <1>1, FilteredKeepsMatches, BrowseAssumption
<1> HIDE DEF found
<1>4. step \in [S \X (1..N) -> S]
  <2> SUFFICES ASSUME NEW x \in S \X (1..N) PROVE step[x] \in S
    OBVIOUS
  <2>1. x[1] \in S /\ found(x[2]) \in S
    BY <1>3
  <2>2. x[1] \o found(x[2]) \in S
    BY <2>1, ConcatProperties
  <2> QED BY <2>2
<1>5. \A s \in S, n \in 1..N : step[<< s, n >>] = s \o found(n)
  OBVIOUS
<1> HIDE DEF N, S, step, first
<1>6. PICK g : Loop(g, S, N, first, step)
  BY <1>1, <1>2, <1>4, LoopExists, Zenon
<1>7. ASSUME NEW n \in 1..N PROVE g[n] = g[n - 1] \o found(n)
  <2>1. n - 1 \in 0..N
    BY <1>1
  <2> QED BY <1>5, <1>6, <2>1 DEF Loop
<1>8. \A n \in 0..N : n # 0 => n \in 1..N
  BY <1>1
<1>9. g = [n \in 0..N |-> g[n]] /\ g[0] = << >>
  BY <1>6 DEF Loop, first
<1>10. g = [n \in 0..N |-> IF n = 0 THEN << >> ELSE g[n - 1] \o found(n)]
  BY <1>7, <1>8, <1>9, Zenon
<1> QED BY <1>10 DEF N, Collected, found

\* The same by rounds, with what comes out of it.
Fetching(results, list, type, t) ==
    /\ results[0] = << >>
    /\ \A n \in 1..Len(list) :
          results[n] = results[n - 1] \o Filtered(ProductsOf[list[n]], type, t)
    /\ FetchItems(list, type, t) = results[Len(list)]

\* ... and fetchItems is its last round.
LEMMA FetchItemsIs ==
    ASSUME NEW list \in Seq(CategoryIds), NEW type, NEW t
    PROVE  \E results : Fetching(results, list, type, t)
<1> DEFINE results == CHOOSE g : Collected(g, list, type, t)
<1>1. Collected(results, list, type, t)
  BY CollectedExists, Zenon
<1>2. FetchItems(list, type, t) = results[Len(list)]
  BY DEF FetchItems, Collected
<1> HIDE DEF results
<1>3. Len(list) \in Nat
  BY LenProperties
<1>4. 0 \in 0..Len(list) /\ \A n \in 1..Len(list) : n \in 0..Len(list) /\ n # 0
  BY <1>3
<1>5. results[0] = << >>
  BY <1>1, <1>4 DEF Collected
<1>6. ASSUME NEW n \in 1..Len(list)
      PROVE  results[n] = results[n - 1] \o Filtered(ProductsOf[list[n]], type, t)
  BY <1>1, <1>4 DEF Collected
<1>7. Fetching(results, list, type, t)
  BY <1>2, <1>5, <1>6 DEF Fetching
<1> QED BY <1>7

\* fetchItems finds the products of every category that match, and no others.
LEMMA FetchItemsFinds ==
    ASSUME NEW list \in Seq(CategoryIds), NEW type, NEW t
    PROVE  /\ FetchItems(list, type, t) \in Seq(Products)
           /\ \A p : p \in ToSet(FetchItems(list, type, t)) <=>
                 \E n \in DOMAIN list : p \in ToSet(ProductsOf[list[n]]) /\ Matches(type, t, p)
           /\ list = << >> => FetchItems(list, type, t) = << >>
<1> DEFINE N == Len(list)
           found(n) == Filtered(ProductsOf[list[n]], type, t)
           Among(n) == UNION {ToSet(found(i)) : i \in 1..n}
<1>1. N \in Nat /\ DOMAIN list = 1..N /\ \A n \in 1..N : list[n] \in CategoryIds
  BY LenProperties, ElementOfSeq
<1>2. \A n \in 1..N : /\ found(n) \in Seq(Products)
                      /\ ToSet(found(n)) = {p \in ToSet(ProductsOf[list[n]]) : Matches(type, t, p)}
  BY <1>1, FilteredKeepsMatches, BrowseAssumption
<1>3. PICK results : Fetching(results, list, type, t)
  BY FetchItemsIs, Zenon
<1>4. /\ results[0] = << >>
      /\ \A n \in 1..N : results[n] = results[n - 1] \o found(n)
      /\ FetchItems(list, type, t) = results[N]
  BY <1>3 DEF Fetching
<1> HIDE DEF found
<1> DEFINE P == {n \in Nat : n <= N => results[n] \in Seq(Products) /\ ToSet(results[n]) = Among(n)}
<1>5. 0 \in P
  <2>1. << >> \in Seq(Products) /\ ToSet(<< >>) = {}
    BY EmptySeq DEF ToSet
  <2>2. Among(0) = {}
    OBVIOUS
  <2> HIDE DEF Among
  <2> QED BY <1>4, <2>1, <2>2
<1>6. ASSUME NEW n \in P PROVE n + 1 \in P
  <2>1. n \in Nat
    OBVIOUS
  <2> SUFFICES ASSUME n + 1 <= N
               PROVE  results[n + 1] \in Seq(Products) /\ ToSet(results[n + 1]) = Among(n + 1)
    OBVIOUS
  <2>2. n + 1 \in 1..N /\ (n + 1) - 1 = n /\ n <= N
    <3> HIDE DEF P, N, Among
    <3> QED BY <1>1, <2>1
  <2>3. results[n] \in Seq(Products) /\ ToSet(results[n]) = Among(n)
    BY <2>2
  <2>4. results[n + 1] = results[n] \o found(n + 1) /\ found(n + 1) \in Seq(Products)
    BY <1>2, <1>4, <2>2
  <2>5. \A i : i \in 1..(n + 1) <=> i \in 1..n \/ i = n + 1
    BY <2>1
  <2>6. Among(n + 1) = Among(n) \cup ToSet(found(n + 1))
    BY <2>5, Zenon
  <2> HIDE DEF Among
  <2>7. results[n] \o found(n + 1) \in Seq(Products)
    BY <2>3, <2>4, ConcatProperties
  <2>8. ToSet(results[n] \o found(n + 1)) = ToSet(results[n]) \cup ToSet(found(n + 1))
    BY <2>3, <2>4, ToSetOfConcat
  <2> QED BY <2>3, <2>4, <2>6, <2>7, <2>8
<1>7. P = Nat
  <2>1. P \in SUBSET Nat
    OBVIOUS
  <2> HIDE DEF P
  <2> QED BY <1>5, <1>6, <2>1, InductionOnNat
<1>8. results[N] \in Seq(Products) /\ ToSet(results[N]) = Among(N)
  <2>1. N \in P /\ N <= N
    <3> HIDE DEF P, N
    <3> QED BY <1>1, <1>7
  <2> HIDE DEF N, Among
  <2> QED BY <2>1
<1>9. \A p : p \in Among(N) <=>
         \E n \in DOMAIN list : p \in ToSet(ProductsOf[list[n]]) /\ Matches(type, t, p)
  <2> HIDE DEF N
  <2>1. \A p : p \in Among(N) <=> \E n \in 1..N : p \in ToSet(found(n))
    BY Zenon
  <2> HIDE DEF Among
  <2>2. \A p : \A n \in 1..N :
           p \in ToSet(found(n)) <=> p \in ToSet(ProductsOf[list[n]]) /\ Matches(type, t, p)
    BY <1>2, Zenon
  <2> QED BY <1>1, <2>1, <2>2, Zenon
<1>10. list = << >> => N = 0
  BY EmptySeq
<1> HIDE DEF N, Among
<1> QED BY <1>4, <1>8, <1>9, <1>10

-----------------------------------------------------------------------------
(***************************************************************************)
(* Why the rows answer: the last read under way is for the text and the    *)
(* scope of now, reads are answered in order, and every answer is followed *)
(* by a reload.                                                            *)
(***************************************************************************)
Answered ==
    text # NoText =>
        IF reads # << >> THEN reads[Len(reads)] = [type |-> searchType, text |-> text]
        ELSE \/ filteredProducts = FetchItems(Catalog, searchType, text)
             \/ ReadsMayFail /\ filteredProducts = << >>

Drawn == reads = << >> /\ reloads = 0 => rows = DataSource

BrowseInv == BrowseTypeOK /\ Answered /\ Drawn

\* A new process: the list of categories has been asked for.
LEMMA InitBrowse == BrowseInit => BrowseInv
<1> SUFFICES ASSUME BrowseInit PROVE BrowseInv
  OBVIOUS
<1> USE DEF BrowseInit
<1>1. << >> \in Seq(CategoryIds) /\ << >> \in Seq(Products) /\ << >> \in Seq(Products \cup CategoryIds)
  BY EmptySeq
<1>2. reads \in Seq(Purposes) /\ reads # << >>
  BY DEF Purposes
<1>3. searches \in 0..MaxSearches /\ reloads \in Nat
  BY BrowseAssumption
<1>4. searchType \in SearchTypes
  BY DEF SearchTypes
<1>5. BrowseTypeOK
  BY <1>1, <1>2, <1>3, <1>4 DEF BrowseTypeOK
<1>6. Answered
  BY DEF Answered
<1>7. Drawn
  BY <1>2 DEF Drawn
<1> QED BY <1>5, <1>6, <1>7 DEF BrowseInv

\* A search for what the bar holds becomes the last read.
LEMMA SearchKeepsInv ==
    ASSUME BrowseInv, MoreSearches, Search,
           text' \in Texts \cup {NoText}, searchType' \in SearchTypes,
           UNCHANGED << categories, filteredProducts, rows, reloads >>
    PROVE  BrowseInv'
<1> DEFINE search == [type |-> searchType', text |-> text']
<1>1. reads \in Seq(Purposes) /\ search \in Purposes
  BY DEF BrowseInv, BrowseTypeOK, Purposes
<1>2. reads' = Append(reads, search)
  BY DEF Search
<1> HIDE DEF search
<1>3. /\ reads' \in Seq(Purposes) /\ reads' # << >>
      /\ reads'[Len(reads')] = search
  BY <1>1, <1>2, AppendProperties
<1>4. searches' \in 0..MaxSearches
  BY BrowseAssumption DEF BrowseInv, BrowseTypeOK, MoreSearches
<1>5. BrowseTypeOK'
  BY <1>3, <1>4 DEF BrowseInv, BrowseTypeOK
<1>6. Answered'
  BY <1>3 DEF Answered, search
<1>7. Drawn'
  BY <1>3 DEF Drawn
<1> QED BY <1>5, <1>6, <1>7 DEF BrowseInv

\* Without its first read the queue ends as before, if it does not end.
LEMMA LastOfTail ==
    ASSUME NEW S, NEW s \in Seq(S), s # << >>
    PROVE  /\ Tail(s) \in Seq(S)
           /\ Tail(s) # << >> => Tail(s)[Len(Tail(s))] = s[Len(s)]
           /\ Tail(s) = << >> => Head(s) = s[Len(s)]
<1>1. Len(s) \in Nat \ {0}
  BY EmptySeq
<1>2. /\ Tail(s) \in Seq(S) /\ Len(Tail(s)) = Len(s) - 1
      /\ \A i \in 1..Len(Tail(s)) : Tail(s)[i] = s[i + 1]
  BY HeadTailProperties
<1>3. Head(s) = s[1]
  OBVIOUS
<1>4. ASSUME Tail(s) # << >> PROVE Tail(s)[Len(Tail(s))] = s[Len(s)]
  <2>1. Len(Tail(s)) \in Nat \ {0}
    BY <1>2, <1>4, EmptySeq
  <2>2. Len(Tail(s)) \in 1..Len(Tail(s)) /\ Len(Tail(s)) + 1 = Len(s)
    BY <1>1, <1>2, <2>1
  <2> QED BY <1>2, <2>2
<1>5. ASSUME Tail(s) = << >> PROVE Head(s) = s[Len(s)]
  <2>1. Len(s) = 1
    <3> DEFINE n == Len(Tail(s))
    <3>1. n = Len(<< >>)
      BY <1>5, Zenon
    <3>2. n = 0 /\ n = Len(s) - 1
      BY <1>2, <3>1, EmptySeq
    <3> HIDE DEF n
    <3> QED BY <1>1, <3>2
  <2> QED BY <1>3, <2>1
<1> QED BY <1>2, <1>4, <1>5

\* The oldest read is answered with the catalog, or refused.
LEMMA CallbackKeepsInv ==
    ASSUME BrowseInv, NEW list, Callback(list),
           list = Catalog \/ (ReadsMayFail /\ list = << >>)
    PROVE  BrowseInv'
<1>1. /\ reads \in Seq(Purposes) /\ reads # << >> /\ reads' = Tail(reads)
      /\ reloads \in Nat /\ reloads' = reloads + 1
      /\ UNCHANGED << text, searchType, rows, searches, stored >>
  BY DEF BrowseInv, BrowseTypeOK, Callback
<1>2. /\ reads' \in Seq(Purposes)
      /\ reads' # << >> => reads'[Len(reads')] = reads[Len(reads)]
      /\ reads' = << >> => Head(reads) = reads[Len(reads)]
  BY <1>1, LastOfTail
<1>3. Head(reads) \in Purposes
  BY <1>1, HeadTailProperties
<1>4. Catalog \in Seq(CategoryIds) /\ << >> \in Seq(CategoryIds)
  BY EmptySeq, BrowseAssumption
<1>5. list \in Seq(CategoryIds)
  BY <1>4
<1>6. BrowseTypeOK'
  <2>1. FetchItems(list, Head(reads).type, Head(reads).text) \in Seq(Products)
    BY <1>5, FetchItemsFinds
  <2>2. categories' \in Seq(CategoryIds) /\ filteredProducts' \in Seq(Products)
    BY <1>5, <2>1 DEF BrowseInv, BrowseTypeOK, Callback
  <2>3. reloads' \in Nat
    BY <1>1
  <2> QED BY <1>1, <1>2, <2>2, <2>3 DEF BrowseInv, BrowseTypeOK
<1>7. Answered'
  <2> SUFFICES ASSUME text # NoText, reads' = << >>
               PROVE  \/ filteredProducts' = FetchItems(Catalog, searchType, text)
                      \/ ReadsMayFail /\ filteredProducts' = << >>
    <3>1. text # NoText => reads[Len(reads)] = [type |-> searchType, text |-> text]
      BY <1>1 DEF BrowseInv, Answered
    <3> QED BY <1>1, <1>2, <3>1 DEF Answered
  <2>1. Head(reads) = [type |-> searchType, text |-> text]
    BY <1>1, <1>2 DEF BrowseInv, Answered
  <2>2. Head(reads) # ForCategories
    <3>1. searchType # "none"
      BY DEF BrowseInv, BrowseTypeOK, SearchTypes
    <3>2. Head(reads).type = searchType /\ ForCategories.type = "none"
      BY <2>1 DEF ForCategories
    <3> QED BY <3>1, <3>2
  <2>3. filteredProducts' = FetchItems(list, Head(reads).type, Head(reads).text)
    BY <2>2 DEF Callback
  <2>4. filteredProducts' = FetchItems(list, searchType, text)
    BY <2>1, <2>3
  <2>5. FetchItems(<< >>, searchType, text) = << >>
    BY <1>4, FetchItemsFinds
  <2> QED BY <2>4, <2>5
<1>8. Drawn'
  BY <1>1 DEF Drawn
<1> QED BY <1>6, <1>7, <1>8 DEF BrowseInv

\* What the table asks for are rows.
LEMMA DataSourceIsRows ==
    ASSUME BrowseTypeOK
    PROVE  DataSource \in Seq(Products \cup CategoryIds)
<1>1. categories \in Seq(Products \cup CategoryIds) /\ filteredProducts \in Seq(Products \cup CategoryIds)
  BY SeqMonotonic DEF BrowseTypeOK
<1> QED BY <1>1 DEF DataSource

\* The table is loaded with what it asks for now.
LEMMA ReloadKeepsInv == BrowseInv /\ Reload => BrowseInv'
<1> SUFFICES ASSUME BrowseInv, Reload PROVE BrowseInv'
  OBVIOUS
<1>1. /\ rows' = DataSource /\ reloads' \in Nat
      /\ UNCHANGED << text, searchType, categories, filteredProducts, reads, searches, stored >>
  BY DEF Reload, Loaded, BrowseInv, BrowseTypeOK
<1>2. DataSource' = DataSource
  BY <1>1 DEF DataSource, IsFiltering
<1>3. BrowseTypeOK'
  BY <1>1, DataSourceIsRows DEF BrowseInv, BrowseTypeOK
<1>4. Answered'
  BY <1>1 DEF BrowseInv, Answered
<1>5. Drawn'
  BY <1>1, <1>2 DEF Drawn
<1> QED BY <1>3, <1>4, <1>5 DEF BrowseInv

\* A row is drawn again, from what the table asks for now.
LEMMA RedrawKeepsInv ==
    ASSUME BrowseInv, NEW row \in DOMAIN rows, Redraw(row)
    PROVE  BrowseInv'
<1>1. /\ row <= Len(DataSource)
      /\ rows' = [rows EXCEPT ![row] = DataSource[row]]
      /\ UNCHANGED << text, searchType, categories, filteredProducts, reads, reloads, searches, stored >>
  BY DEF Redraw
<1>2. DataSource' = DataSource
  BY <1>1 DEF DataSource, IsFiltering
<1>3. /\ DataSource \in Seq(Products \cup CategoryIds) /\ rows \in Seq(Products \cup CategoryIds)
      /\ BrowseTypeOK
  BY DataSourceIsRows DEF BrowseInv, BrowseTypeOK
<1>4. row \in 1..Len(rows) /\ row \in 1..Len(DataSource)
  <2>1. DOMAIN rows = 1..Len(rows) /\ Len(DataSource) \in Nat /\ Len(rows) \in Nat
    BY <1>3, LenProperties
  <2> QED BY <1>1, <2>1
<1>5. rows' \in Seq(Products \cup CategoryIds)
  BY <1>1, <1>3, <1>4, ElementOfSeq, ExceptSeq
<1>6. BrowseTypeOK'
  BY <1>1, <1>3, <1>5 DEF BrowseTypeOK
<1>7. Answered'
  BY <1>1 DEF BrowseInv, Answered
<1>8. Drawn'
  <2>1. ASSUME rows = DataSource PROVE rows' = rows
    <3>1. rows = [i \in 1..Len(rows) |-> rows[i]]
      BY <1>3, LenProperties
    <3>2. rows' = [rows EXCEPT ![row] = rows[row]]
      BY <1>1, <2>1
    <3> QED BY <1>4, <3>1, <3>2
  <2> QED BY <1>1, <1>2, <2>1 DEF BrowseInv, Drawn
<1> QED BY <1>6, <1>7, <1>8 DEF BrowseInv

\* The app starts anew.
LEMMA StartsAnewKeepsInv ==
    ASSUME BrowseInv, StartsAnew
    PROVE  BrowseInv'
<1> USE DEF StartsAnew
<1>1. << >> \in Seq(CategoryIds) /\ << >> \in Seq(Products) /\ << >> \in Seq(Products \cup CategoryIds)
  BY EmptySeq
<1>2. reads' \in Seq(Purposes) /\ reads' # << >>
  BY DEF Purposes
<1>3. searchType' \in SearchTypes /\ reloads' \in Nat
  BY DEF SearchTypes
<1>4. BrowseTypeOK'
  BY <1>1, <1>2, <1>3 DEF BrowseInv, BrowseTypeOK
<1>5. Answered' /\ Drawn'
  BY <1>2 DEF Answered, Drawn
<1> QED BY <1>4, <1>5 DEF BrowseInv

\* A step that leaves the Browse screen alone.
LEMMA ElsewhereKeepsBrowse ==
    ASSUME BrowseInv, UNCHANGED browseVars
    PROVE  BrowseInv'
<1>1. UNCHANGED << text, searchType, categories, filteredProducts, rows, reads, reloads, searches >>
  BY DEF browseVars
<1> QED BY <1>1 DEF BrowseInv, BrowseTypeOK, Answered, Drawn, DataSource, IsFiltering

\* What the user does on the Browse screen.
LEMMA UsedKeepsBrowse == BrowseInv /\ Used => BrowseInv'
<1> SUFFICES ASSUME BrowseInv, Used PROVE BrowseInv'
  OBVIOUS
<1>1. text \in Texts \cup {NoText} /\ searchType \in SearchTypes
  BY DEF BrowseInv, BrowseTypeOK
<1>2. CASE \E t \in Texts \cup {NoText} : Type(t)
  BY <1>1, <1>2, SearchKeepsInv DEF Type
<1>3. CASE \E type \in SearchTypes : ChangeScope(type)
  BY <1>1, <1>3, SearchKeepsInv DEF ChangeScope
<1>4. CASE \E row \in DOMAIN rows : Redraw(row)
  BY <1>4, RedrawKeepsInv
<1>5. CASE \E row \in DOMAIN rows : TapResultHeart(row)
  BY <1>5, ElsewhereKeepsBrowse DEF TapResultHeart, browseVars
<1> QED BY <1>2, <1>3, <1>4, <1>5 DEF Used

\* ... of which only the heart of a result changes what is stored.
LEMMA UsedTogglesOnly ==
    ASSUME BrowseInv, Used
    PROVE  stored' = stored \/ \E p \in Products : stored' = Toggle(stored, p)
<1>1. CASE \E t \in Texts \cup {NoText} : Type(t)
  BY <1>1 DEF Type
<1>2. CASE \E type \in SearchTypes : ChangeScope(type)
  BY <1>2 DEF ChangeScope
<1>3. CASE \E row \in DOMAIN rows : Redraw(row)
  BY <1>3 DEF Redraw
<1>4. ASSUME NEW row \in DOMAIN rows, TapResultHeart(row)
      PROVE  \E p \in Products : stored' = Toggle(stored, p)
  <2>1. row <= Len(filteredProducts) /\ stored' = Toggle(stored, filteredProducts[row])
    BY <1>4 DEF TapResultHeart
  <2>2. filteredProducts \in Seq(Products) /\ rows \in Seq(Products \cup CategoryIds)
    BY DEF BrowseInv, BrowseTypeOK
  <2>3. row \in 1..Len(filteredProducts)
    <3>1. DOMAIN rows = 1..Len(rows) /\ Len(filteredProducts) \in Nat /\ Len(rows) \in Nat
      BY <2>2, LenProperties
    <3> QED BY <2>1, <3>1
  <2>4. filteredProducts[row] \in Products
    BY <2>2, <2>3, ElementOfSeq
  <2> QED BY <2>1, <2>4
<1> QED BY <1>1, <1>2, <1>3, <1>4 DEF Used

-----------------------------------------------------------------------------
(***************************************************************************)
(* The two together.                                                       *)
(***************************************************************************)
ShopInv == FavoritesInv /\ BrowseInv

\* Every step of Shop, and stuttering.
LEMMA ShopStep == ShopInv /\ [ShopNext]_shopVars => ShopInv'
<1> SUFFICES ASSUME FavoritesInv, BrowseInv, [ShopNext]_shopVars
             PROVE  FavoritesInv' /\ BrowseInv'
  BY DEF ShopInv
<1>1. CASE ShowBrowse
  BY <1>1, ElsewhereKeepsInv, ElsewhereKeepsBrowse DEF ShowBrowse
<1>2. CASE OnTheCollections
  BY <1>2, FavoritesStep, ElsewhereKeepsBrowse DEF OnTheCollections
<1>3. CASE OnTheTable
  <2>1. front = "browse" /\ Used /\ UNCHANGED favoritesVars
    BY <1>3 DEF OnTheTable
  <2>2. BrowseInv'
    BY <2>1, UsedKeepsBrowse
  <2>3. CASE stored' = stored
    BY <2>1, <2>2, <2>3, ElsewhereKeepsInv DEF favoritesVars
  <2>4. CASE \E p \in Products : stored' = Toggle(stored, p)
    BY <2>1, <2>2, <2>4, ResultHeartKeepsInv
  <2> QED BY <2>1, <2>3, <2>4, UsedTogglesOnly
<1>4. CASE ReadEnds
  <2>1. BrowseInv' /\ stored' = stored
    BY <1>4, CallbackKeepsInv DEF ReadEnds, Answer, Refuse, Callback
  <2> QED BY <1>4, <2>1, ElsewhereKeepsInv DEF ReadEnds, favoritesVars
<1>5. CASE TableReloads
  <2>1. BrowseInv' /\ stored' = stored
    BY <1>5, ReloadKeepsInv DEF TableReloads, Reload
  <2> QED BY <1>5, <2>1, ElsewhereKeepsInv DEF TableReloads, favoritesVars
<1>6. CASE AppStartsAnew
  <2>1. BrowseInv'
    BY <1>6, StartsAnewKeepsInv DEF AppStartsAnew
  <2>2. CASE \E n \in DOMAIN cells : TapRemoveRaises(n)
    BY <2>1, <2>2, TapRemoveRaisesKeepsInv
  <2>3. CASE (\E row \in DOMAIN rows : RowTraps(row)) \/ Terminate
    BY <2>1, <2>3, TerminateKeepsInv DEF RowTraps
  <2> QED BY <1>6, <2>2, <2>3 DEF AppStartsAnew
<1>7. CASE UNCHANGED shopVars
  BY <1>7, ElsewhereKeepsInv, ElsewhereKeepsBrowse DEF shopVars, favoritesVars
<1> QED BY <1>1, <1>2, <1>3, <1>4, <1>5, <1>6, <1>7 DEF ShopNext

\* The invariant holds in every state of every behaviour of Shop.
LEMMA ShopAlways == ShopSpec => []ShopInv
<1>1. ShopInit => ShopInv
  BY InitInv, InitBrowse DEF ShopInit, ShopInv
<1> QED BY <1>1, ShopStep, PTL DEF ShopSpec

\* Every variable of the two collections keeps its type.
THEOREM FavoritesTypeCorrect == ShopSpec => []FavoritesTypeOK
<1>1. ShopInv => FavoritesTypeOK
  BY DEF ShopInv, FavoritesInv
<1> QED BY <1>1, ShopAlways, PTL

\* However taps, screens, animations and the end of the app follow each other, on
\* all three screens, markFavorite never stores a product that is stored already.
THEOREM StoredOnceAlways == ShopSpec => []StoredOnce
<1>1. ShopInv => StoredOnce
  BY DEF ShopInv, FavoritesInv
<1> QED BY <1>1, ShopAlways, PTL

\* The Favorites screen has one cell for each stored product, also between a
\* deletion and the end of its animation: deleteItems never finds a wrong count.
THEOREM ScreenFollowsStoreAlways == ShopSpec => []ScreenFollowsStore
<1>1. ShopInv => ScreenFollowsStore
  BY DEF ShopInv, FavoritesInv
<1> QED BY <1>1, ShopAlways, PTL

\* With no deletion under way, a cross removes the product its cell shows.
THEOREM CrossIsRight == ShopSpec => []SettledCrossIsRight
<1>1. ShopInv => SettledCrossIsRight
  BY DEF ShopInv, FavoritesInv
<1> QED BY <1>1, ShopAlways, PTL

\* A filled heart of the Category screen stands for a stored favorite.
THEOREM HeartsAreTrue == ShopSpec => []HeartsTellTheTruth
<1>1. ShopInv => HeartsTellTheTruth
  BY DEF ShopInv, FavoritesInv
<1> QED BY <1>1, ShopAlways, PTL

\* Every variable of the Browse screen keeps its type.
THEOREM BrowseTypeCorrect == ShopSpec => []BrowseTypeOK
<1>1. ShopInv => BrowseTypeOK
  BY DEF ShopInv, BrowseInv
<1> QED BY <1>1, ShopAlways, PTL

\* Once nothing is outstanding, the rows answer the text and the scope in the
\* search bar, whatever was typed, refused and tapped before
\* (BrowseTableViewController.fetchFilteredProducts).
THEOREM RowsAnswerAlways == ShopSpec => []SettledRowsAnswer
<1>1. ShopInv => SettledRowsAnswer
  BY DEF ShopInv, BrowseInv, Answered, Drawn, SettledRowsAnswer, Settled, IsFiltering, DataSource
<1> QED BY <1>1, ShopAlways, PTL

\* A price between two others is in the whole units between theirs.
LEMMA FloorIsMonotonic ==
    ASSUME NEW u \in Nat \ {0}, NEW m \in Nat, NEW n \in Nat, m <= n
    PROVE  m \div u <= n \div u
OBVIOUS

\* A price range that finds anything finds every product of the catalog with a
\* price between its ends (FirebaseController.fetchItems, .priceRange).
THEOREM RangeIsCoveredAlways == ShopSpec => []RangeIsCovered
<1>1. ShopInv => RangeIsCovered
  <2> SUFFICES ASSUME BrowseInv, Settled, IsFiltering, searchType = "priceRange",
                      rows # << >>, NEW n \in DOMAIN Catalog,
                      NEW product \in ToSet(ProductsOf[Catalog[n]]),
                      NoPrice \notin {Low[text], High[text], Price[product]},
                      Low[text] <= Price[product], Price[product] <= High[text]
               PROVE  product \in ToSet(rows)
    BY Zenon DEF ShopInv, RangeIsCovered, ToSet
  <2>1. rows = FetchItems(Catalog, searchType, text)
    BY DEF BrowseInv, Answered, Drawn, Settled, IsFiltering, DataSource
  <2>2. Catalog \in Seq(CategoryIds) /\ Catalog[n] \in CategoryIds
    <3>1. Catalog \in Seq(CategoryIds)
      BY BrowseAssumption
    <3> QED BY <3>1, LenProperties, ElementOfSeq
  <2>3. product \in Products
    <3>1. ProductsOf[Catalog[n]] \in Seq(Products)
      BY <2>2, BrowseAssumption
    <3> QED BY <3>1, LenProperties, ElementOfSeq DEF ToSet
  <2>4. text \in Texts /\ text # NoText
    BY DEF BrowseInv, BrowseTypeOK, IsFiltering
  <2>5. Low[text] \in Nat /\ High[text] \in Nat /\ Price[product] \in Nat /\ Unit \in Nat \ {0}
    BY <2>3, <2>4, BrowseAssumption
  <2>6. InRange(product, text)
    BY <2>5, FloorIsMonotonic DEF InRange, Floor
  <2>7. Matches(searchType, text, product)
    BY <2>4, <2>6 DEF Matches
  <2> QED BY <2>1, <2>2, <2>7, FetchItemsFinds
<1> QED BY <1>1, ShopAlways, PTL

-----------------------------------------------------------------------------
(***************************************************************************)
(* A stay in the database                                                  *)
(***************************************************************************)
\* The stay of a product: the numbers were sent as strings, and are not found as numbers.
ProductTrip(p) == ProductFrom(Kept(ProductDictionary(p)))

\* No field of a product is lost but the numbers.
LEMMA ProductTripKeeps ==
    ASSUME NEW p \in ProductRecords
    PROVE  ProductTrip(p) = [p EXCEPT !.rating = 0]
<1> DEFINE d == ProductDictionary(p)
           k == Kept(d)
<1>1. p = [text |-> p.text, tags |-> p.tags, rating |-> p.rating]
  BY CatalogAssumption
<1>2. /\ DOMAIN d = {"text", "tags", "rating"}
      /\ d["text"] = AsString(p.text)
      /\ d["tags"] = AsList(p.tags)
      /\ d["rating"] = AsString(p.rating)
  BY DEF ProductDictionary
<1>3. \A v : AsString(v) # AsList(<< >>)
  <2> TAKE v
  <2>1. AsString(v).as # AsList(<< >>).as
    BY DEF AsString, AsList
  <2> QED BY <2>1
<1>4. (AsList(p.tags) = AsList(<< >>)) <=> p.tags = << >>
  <2>1. AsList(p.tags).is = p.tags /\ AsList(<< >>).is = << >>
    BY DEF AsList
  <2> QED BY <2>1
<1>5. k = [f \in {g \in {"text", "tags", "rating"} : d[g] # AsList(<< >>)} |-> d[f]]
  BY <1>2 DEF Kept, Restrict
<1> HIDE DEF d
<1>6. /\ \A f \in {"text", "rating"} : f \in DOMAIN k /\ k[f] = d[f]
      /\ "tags" \in DOMAIN k <=> p.tags # << >>
      /\ "tags" \in DOMAIN k => k["tags"] = d["tags"]
  BY <1>2, <1>3, <1>4, <1>5
<1> HIDE DEF k
<1>7. Cast(k, "text", "string", "") = p.text
  <2>1. "text" \in DOMAIN k /\ k["text"] = AsString(p.text)
    BY <1>2, <1>6
  <2>2. k["text"].as = "string" /\ k["text"].is = p.text
    BY <2>1 DEF AsString
  <2> QED BY <2>1, <2>2 DEF Cast
<1>8. Cast(k, "tags", "list", << >>) = p.tags
  BY <1>2, <1>6 DEF Cast, AsList
<1>9. Cast(k, "rating", "number", 0) = 0
  BY <1>2, <1>6 DEF Cast, AsString
<1>10. ProductTrip(p) = [text |-> p.text, tags |-> p.tags, rating |-> 0]
  BY <1>7, <1>8, <1>9 DEF ProductTrip, ProductFrom, d, k
<1>11. [p EXCEPT !.rating = 0] = [text |-> p.text, tags |-> p.tags, rating |-> 0]
  BY <1>1
<1> QED BY <1>10, <1>11

\* An empty list of products is not stored, and is what the reader takes for none.
LEMMA CategoryTripKeeps ==
    ASSUME NEW c \in Categories
    PROVE  CategoryTrip(c).products =
               [m \in DOMAIN c.products |-> [c.products[m] EXCEPT !.rating = 0]]
<1> DEFINE d == CategoryDictionary(c)
           k == Kept(d)
           sent == [m \in DOMAIN c.products |-> Kept(ProductDictionary(c.products[m]))]
           found == Cast(k, "products", "list", << >>)
<1>1. c.products \in Seq(ProductRecords)
  BY CatalogAssumption DEF Categories
<1>2. DOMAIN d = {"name", "products"} /\ d["products"] = AsList(sent)
  BY DEF CategoryDictionary
<1> HIDE DEF sent
<1>3. k = [f \in {g \in {"name", "products"} : d[g] # AsList(<< >>)} |-> d[f]]
  BY <1>2 DEF Kept, Restrict
<1> HIDE DEF d
<1>4. (AsList(sent) = AsList(<< >>)) <=> sent = << >>
  <2>1. AsList(sent).is = sent /\ AsList(<< >>).is = << >>
    BY DEF AsList
  <2> QED BY <2>1
<1>5. /\ "products" \in DOMAIN k <=> sent # << >>
      /\ "products" \in DOMAIN k => k["products"] = AsList(sent)
  BY <1>2, <1>3, <1>4
<1> HIDE DEF k
<1>6. found = sent
  BY <1>5 DEF Cast, AsList
<1>7. CategoryTrip(c).products = [m \in DOMAIN found |-> ProductFrom(found[m])]
  BY DEF CategoryTrip, CategoryFrom, d, k
<1> HIDE DEF found
<1>8. /\ DOMAIN sent = DOMAIN c.products
      /\ \A m \in DOMAIN c.products : ProductFrom(sent[m]) = ProductTrip(c.products[m])
  BY DEF sent, ProductTrip
<1>9. \A m \in DOMAIN c.products : ProductTrip(c.products[m]) = [c.products[m] EXCEPT !.rating = 0]
  BY <1>1, ProductTripKeeps, LenProperties, ElementOfSeq
<1> QED BY <1>6, <1>7, <1>8, <1>9

-----------------------------------------------------------------------------
\* What is listed is the catalog last written as a whole, for only
\* writeProductCatalog writes the keys 0, 1, ...
CatalogInv ==
    /\ whole \in Seq(Categories)
    /\ listed = [n \in DOMAIN whole |-> Kept(CategoryDictionary(whole[n]))]

\* Nothing is written yet.
LEMMA InitCatalog == CatalogInit => CatalogInv
<1> SUFFICES ASSUME CatalogInit PROVE CatalogInv
  OBVIOUS
<1>1. whole = << >> /\ listed = << >>
  BY DEF CatalogInit
<1>2. << >> \in Seq(Categories)
  BY EmptySeq
<1>3. << >> = [n \in DOMAIN << >> |-> Kept(CategoryDictionary(<< >>[n]))]
  OBVIOUS
<1> QED BY <1>1, <1>2, <1>3 DEF CatalogInv

\* Every step of CatalogStore, and stuttering.
LEMMA CatalogStep ==
    CatalogInv /\ [CatalogNext]_catalogVars => CatalogInv'
<1> SUFFICES ASSUME CatalogInv, [CatalogNext]_catalogVars
             PROVE  CatalogInv'
  OBVIOUS
<1>1. ASSUME NEW catalog \in Catalogs, WriteProductCatalog(catalog)
      PROVE  CatalogInv'
  <2>1. PICK n \in 0..MaxCategories : catalog \in [1..n -> Categories]
    BY DEF Catalogs, BoundedSeq, SeqOf
  <2>2. n \in Nat
    BY CatalogAssumption
  <2>3. catalog \in Seq(Categories)
    BY <2>1, <2>2
  <2> QED BY <1>1, <2>3 DEF WriteProductCatalog, CatalogInv
<1>2. ASSUME NEW c \in Categories, WriteProductCategory(c)
      PROVE  CatalogInv'
  BY <1>2 DEF WriteProductCategory, SetNamed, CatalogInv
<1>3. ASSUME NEW c \in Categories, NEW p \in ProductRecords, WriteProduct(p, c)
      PROVE  CatalogInv'
  BY <1>3 DEF WriteProduct, SetNamed, CatalogInv
<1>4. CASE UNCHANGED catalogVars
  BY <1>4 DEF catalogVars, CatalogInv
<1> QED BY <1>1, <1>2, <1>3, <1>4 DEF CatalogNext

\* The invariant holds in every state of every behaviour of CatalogStore.
LEMMA CatalogAlways == CatalogSpec => []CatalogInv
<1>1. CatalogInit => CatalogInv
  BY InitCatalog
<1>2. CatalogInv /\ [CatalogNext]_catalogVars => CatalogInv'
  BY CatalogStep
<1> QED BY <1>1, <1>2, PTL DEF CatalogSpec

\* While no child has a name for a key, what is read is the whole catalog.
LEMMA ReadsTheWhole ==
    ASSUME CatalogInv, DOMAIN named = {}
    PROVE  ReadProductCategories = CatalogTrip(whole)
<1>1. /\ DOMAIN listed = DOMAIN whole
      /\ \A n \in DOMAIN whole : CategoryFrom(listed[n]) = CategoryTrip(whole[n])
  BY DEF CatalogInv, CategoryTrip
<1>2. ReadProductCategories = [n \in DOMAIN listed |-> CategoryFrom(listed[n])]
  BY DEF ReadProductCategories
<1> QED BY <1>1, <1>2, Zenon DEF CatalogTrip

\* As long as nothing is written singly, the reader finds the catalog last written as
\* a whole, in its order and nothing of an earlier one
\* (FirebaseController.readProductCategories).
THEOREM WholeCatalogAlways == CatalogSpec => []WholeCatalogIsFound
<1>1. CatalogInv => WholeCatalogIsFound
  BY ReadsTheWhole DEF WholeCatalogIsFound
<1> QED BY <1>1, CatalogAlways, PTL

\* The products that are read are those that were written, in their order, and
\* each as it was but for its numbers (Product.init(fromDictionary:)).
THEOREM ProductsSurviveTheTrip == CatalogSpec => []TripKeepsProduct
<1>1. CatalogInv => TripKeepsProduct
  <2> SUFFICES ASSUME CatalogInv, ReadProductCategories # << >>, NEW n \in DOMAIN whole
               PROVE  ReadProductCategories[n].products =
                          [m \in DOMAIN whole[n].products |-> [whole[n].products[m] EXCEPT !.rating = 0]]
    BY Zenon DEF TripKeepsProduct
  <2>1. DOMAIN named = {}
    BY DEF ReadProductCategories
  <2>2. ReadProductCategories = CatalogTrip(whole)
    BY <2>1, ReadsTheWhole
  <2>3. CatalogTrip(whole)[n] = CategoryTrip(whole[n])
    BY DEF CatalogTrip
  <2>4. whole[n] \in Categories
    BY LenProperties, ElementOfSeq DEF CatalogInv
  <2> QED BY <2>2, <2>3, <2>4, CategoryTripKeeps
<1> QED BY <1>1, CatalogAlways, PTL
=============================================================================
