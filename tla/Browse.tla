------------------------------- MODULE Browse -------------------------------
(***************************************************************************)
(* The Browse screen: the list of categories, and in its place the results *)
(* of the search that runs as the user types.                              *)
(*     Views/Browse/BrowseTableViewController.swift                        *)
(*     Controllers/SearchController.swift, ProductCatalogController.swift  *)
(*     External/FirebaseController.swift     readProductCategories,        *)
(*                                           fetchItems                    *)
(*                                                                         *)
(* Every change in the search bar reads the whole catalog and filters it.  *)
(* The answer replaces filteredProducts at once; the table is told in a    *)
(* later block of the main queue.  Meanwhile the table asks for the rows   *)
(* of the list it knew, and isFiltering() answers for the bar as it is.    *)
(* Module Shop adds the screens next to it and the new process that        *)
(* follows when one ends.                                                  *)
(***************************************************************************)
EXTENDS FavoritesController

CONSTANTS
    CategoryIds,
    Catalog,        \* the categories in the database, in order
    ProductsOf,     \* category.products
    Texts,          \* what a user may type, without the empty text
    Titles,         \* the products whose name contains a text
    Tagged,         \* the products that have the first word of a text as a tag
    Low, High,      \* the first and last number of a text, or NoPrice
    Price,          \* price of a product, or NoPrice
    NoPrice,        \* stands for a text that is no number
    Unit,           \* how many steps of a price make 1 (for floor)
    MaxSearches,    \* bound: the changes in the search bar of a behaviour
    ReadsMayFail    \* whether a Firebase read may be refused

ASSUME BrowseAssumption ==
    /\ Catalog \in Seq(CategoryIds)
    /\ ProductsOf \in [CategoryIds -> Seq(Products)]
    /\ Titles \in [Texts -> SUBSET Products]
    /\ Tagged \in [Texts -> SUBSET Products]
    /\ NoPrice \notin Nat
    /\ Low \in [Texts -> Nat \cup {NoPrice}]
    /\ High \in [Texts -> Nat \cup {NoPrice}]
    /\ Price \in [Products -> Nat \cup {NoPrice}]
    /\ Unit \in Nat \ {0}
    /\ MaxSearches \in Nat
    /\ ReadsMayFail \in BOOLEAN
    /\ Products \cap CategoryIds = {}

VARIABLES
    text,             \* the text in the search bar
    searchType,       \* the scope of the search
    categories,
    filteredProducts,
    rows,             \* the rows the table has been told of, as configured
    reads,            \* the reads of the catalog Firebase has not answered
    reloads,          \* reloadData blocks in the main queue
    searches          \* changes in the search bar so far

browseVars == << text, searchType, categories, filteredProducts, rows, reads,
                 reloads, searches >>

NoText == ""
SearchTypes == {"title", "tags", "priceRange"}

\* What a read of the catalog is for: the list of categories, or a search.
ForCategories == [type |-> "none", text |-> NoText]
Purposes == [type : SearchTypes, text : Texts \cup {NoText}] \cup {ForCategories}

-----------------------------------------------------------------------------
(***************************************************************************)
(* fetchItems                                                              *)
(***************************************************************************)
Floor(price) == price \div Unit

\* Wrong version: the upper end does not belong to the range.
InRangeOpen(product, t) ==
    /\ NoPrice \notin {Low[t], High[t], Price[product]}
    /\ Floor(Price[product]) >= Floor(Low[t])
    /\ Floor(Price[product]) < Floor(High[t])

\* Whole units are compared, and a text or a price that is no number matches nothing.
InRange(product, t) ==
    /\ NoPrice \notin {Low[t], High[t], Price[product]}
    /\ Floor(Price[product]) >= Floor(Low[t])
    /\ Floor(Price[product]) <= Floor(High[t])

\* The empty text is in no title, is no tag and is no number.
Matches(type, t, product) ==
    /\ t # NoText
    /\ CASE type = "title" -> product \in Titles[t]
         [] type = "tags" -> product \in Tagged[t]
         [] type = "priceRange" -> InRange(product, t)

\* filter
Filtered(products, type, t) ==
    LET kept[n \in 0..Len(products)] ==
            IF n = 0 THEN << >>
            ELSE IF Matches(type, t, products[n]) THEN Append(kept[n - 1], products[n])
            ELSE kept[n - 1]
    IN kept[Len(products)]

\* The matches of every category, one category after the other.
FetchItems(list, type, t) ==
    LET results[n \in 0..Len(list)] ==
            IF n = 0 THEN << >>
            ELSE results[n - 1] \o Filtered(ProductsOf[list[n]], type, t)
    IN results[Len(list)]

-----------------------------------------------------------------------------
\* isFiltering, as the search bar stands.
IsFiltering == text # NoText

\* What the table's data source answers with now: numberOfRows and cellForRowAt.
DataSource == IF IsFiltering THEN filteredProducts ELSE categories

\* A table that has just been told to load.
Loaded == DataSource

BrowseInit ==
    /\ text = NoText
    /\ searchType = "title"
    /\ categories = << >>
    /\ filteredProducts = << >>
    /\ rows = << >>
    /\ reads = << ForCategories >>
    /\ reloads = 0
    /\ searches = 0

\* fetchFilteredProducts: a search for what the bar holds after this step.
Search == reads' = Append(reads, [type |-> searchType', text |-> text'])

\* Within the bound on the changes in the search bar.
MoreSearches == searches < MaxSearches /\ searches' = searches + 1

\* updateSearchResults: the user types, clears the bar, cancels, or only enters it.
Type(t) ==
    /\ MoreSearches
    /\ text' = t
    /\ UNCHANGED searchType
    /\ Search
    /\ UNCHANGED << categories, filteredProducts, rows, reloads, stored >>

\* Wrong version: a new scope waits for the next letter.
ChangeScopeOnly(type) ==
    /\ MoreSearches
    /\ searchType' = type
    /\ UNCHANGED << text, categories, filteredProducts, rows, reads, reloads, stored >>

\* searchBar(_:selectedScopeButtonIndexDidChange:)
ChangeScope(type) ==
    /\ MoreSearches
    /\ searchType' = type
    /\ UNCHANGED text
    /\ Search
    /\ UNCHANGED << categories, filteredProducts, rows, reloads, stored >>

\* The callback of a read that found the categories in list.
Callback(list) ==
    /\ reads # << >>
    /\ reads' = Tail(reads)
    /\ IF Head(reads) = ForCategories
       THEN /\ categories' = list
            /\ UNCHANGED filteredProducts
       ELSE /\ filteredProducts' = FetchItems(list, Head(reads).type, Head(reads).text)
            /\ UNCHANGED categories
    /\ reloads' = reloads + 1
    /\ UNCHANGED << text, searchType, rows, searches, stored >>

\* Firebase answers the oldest read.
Answer == Callback(Catalog)

\* Wrong version: a read that was refused is asked for once more, for ever.
RefuseAndRetry ==
    /\ ReadsMayFail
    /\ reads # << >>
    /\ reads' = Append(Tail(reads), Head(reads))
    /\ reloads' = reloads
    /\ searches' = searches
    /\ UNCHANGED << text, searchType, categories, filteredProducts, rows, stored >>

\* Firebase refuses it: nil is taken for no category at all.
Refuse == ReadsMayFail /\ Callback(<< >>)

\* The block given to DispatchQueue.main.async.
Reload ==
    /\ reloads > 0
    /\ reloads' = reloads - 1
    /\ rows' = Loaded
    /\ UNCHANGED << text, searchType, categories, filteredProducts, reads, searches, stored >>

\* The user scrolls: row is configured once more, from the data source of now.
Redraw(row) ==
    /\ row <= Len(DataSource)
    /\ rows' = [rows EXCEPT ![row] = DataSource[row]]
    /\ UNCHANGED << text, searchType, categories, filteredProducts, reads,
                    reloads, searches, stored >>

\* The heart of a search result, tapped: the row says which product is toggled.
TapResultHeart(row) ==
    /\ rows[row] \in Products
    /\ row <= Len(filteredProducts)
    /\ stored' = Toggle(stored, filteredProducts[row])
    /\ UNCHANGED << text, searchType, categories, filteredProducts, rows,
                    reads, reloads, searches >>

\* A row the table was told of is not in the array any more: the subscript of the
\* next configuration, or of the next tap on its heart, traps.
RowIsGone(row) ==
    \/ row > Len(DataSource)
    \/ rows[row] \in Products /\ row > Len(filteredProducts)

\* The screen of a new process, whose viewDidLoad asks for the categories.
StartsAnew ==
    /\ text' = NoText
    /\ searchType' = "title"
    /\ categories' = << >>
    /\ filteredProducts' = << >>
    /\ rows' = << >>
    /\ reads' = << ForCategories >>
    /\ reloads' = 0
    /\ UNCHANGED searches

\* What the user does on the screen.
Used ==
    \/ \E t \in Texts \cup {NoText} : Type(t)
    \/ \E type \in SearchTypes : ChangeScope(type)
    \/ \E row \in DOMAIN rows : Redraw(row) \/ TapResultHeart(row)

-----------------------------------------------------------------------------
BrowseTypeOK ==
    /\ text \in Texts \cup {NoText}
    /\ searchType \in SearchTypes
    /\ categories \in Seq(CategoryIds)
    /\ filteredProducts \in Seq(Products)
    /\ rows \in Seq(Products \cup CategoryIds)
    /\ reads \in Seq(Purposes)
    /\ reloads \in Nat
    /\ searches \in 0..MaxSearches

\* Nothing is outstanding.
Settled == reads = << >> /\ reloads = 0

\* ... and they answer what the search bar asks for, not an earlier text or scope.
SettledRowsAnswer ==
    Settled /\ IsFiltering =>
        \/ rows = FetchItems(Catalog, searchType, text)
        \/ ReadsMayFail /\ rows = << >>

\* If a price range finds anything, it finds every product of the catalog whose price
\* lies between its ends, these included.
RangeIsCovered ==
    Settled /\ IsFiltering /\ searchType = "priceRange" /\ rows # << >> =>
        \A n \in DOMAIN Catalog : \A product \in ToSet(ProductsOf[Catalog[n]]) :
            /\ NoPrice \notin {Low[text], High[text], Price[product]}
            /\ Low[text] <= Price[product]
            /\ Price[product] <= High[text]
            => product \in ToSet(rows)
=============================================================================
