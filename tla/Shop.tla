-------------------------------- MODULE Shop --------------------------------
(***************************************************************************)
(* The consumer's screens in one app: Browse, Category and Favorites, over *)
(* the favorites they all read and write.                                  *)
(*     Views/Browse/BrowseTableViewController.swift                        *)
(*     Views/Category/CategoryCollectionViewController.swift               *)
(*     Views/Favorites/FavoritesCollectionViewController.swift             *)
(*                                                                         *)
(* One of them is in front, and only that one is tapped; the others keep   *)
(* what they show.  Reads, reloads and the completions of animations come  *)
(* back whichever it is.  When the process ends, all of them start anew,   *)
(* with the favorites that are stored.                                     *)
(***************************************************************************)
EXTENDS Favorites, Browse

shopVars == << stored, favoritesVars, browseVars >>

ShopInit == FavoritesInit /\ BrowseInit

\* Back, or the other tab: viewWillAppear of the Browse screen draws no row.
ShowBrowse ==
    /\ front # "browse"
    /\ front' = "browse"
    /\ UNCHANGED << stored, favorites, cells, animations, hearts, browseVars >>

\* The user turns to the Category or the Favorites screen, taps there, or an
\* animation ends.
OnTheCollections == FavoritesNext /\ UNCHANGED browseVars

\* The user types, scrolls or taps in the Browse screen.
OnTheTable ==
    /\ front = "browse"
    /\ Used
    /\ UNCHANGED favoritesVars

ReadEnds == (Answer \/ Refuse) /\ UNCHANGED favoritesVars

TableReloads == Reload /\ UNCHANGED favoritesVars

\* A row that is not there any more is drawn or tapped.
RowTraps(row) ==
    /\ front = "browse"
    /\ RowIsGone(row)
    /\ Terminate

\* The end of a process, and the next one.
AppStartsAnew ==
    /\ \/ \E n \in DOMAIN cells : TapRemoveRaises(n)
       \/ \E row \in DOMAIN rows : RowTraps(row)
       \/ Terminate
    /\ StartsAnew

ShopNext ==
    \/ ShowBrowse
    \/ OnTheCollections
    \/ OnTheTable
    \/ ReadEnds
    \/ TableReloads
    \/ AppStartsAnew

ShopSpec == ShopInit /\ [][ShopNext]_shopVars

\* Firebase answers, and the main queue runs its blocks.
FairShopSpec == ShopSpec /\ WF_shopVars(ReadEnds) /\ WF_shopVars(TableReloads)

-----------------------------------------------------------------------------
\* The Browse screen settles, whatever is refused and wherever the user goes,
\* unless the app is ended over and over.
Settles == []<>Settled \/ []<><<AppStartsAnew>>_shopVars
=============================================================================
