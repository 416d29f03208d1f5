---------------------------- MODULE CatalogStore ----------------------------
(***************************************************************************)
(* The catalog in the database: its dictionary form, its three writers and *)
(* its reader.                                                             *)
(*     Models/Catalog.swift                 Product, Category, Catalog     *)
(*     External/FirebaseController.swift    readProductCategories,         *)
(*                 writeProductCatalog, writeProductCategory, writeProduct *)
(*                                                                         *)
(* One field stands for each way a field of Product travels: text (id,     *)
(* name, price, desc, vendorId ...), tags (also sizes, image_urls) and     *)
(* rating (also reviewCount).  A value in a dictionary carries its type,   *)
(* since reading one is a conditional cast.                                *)
(***************************************************************************)
EXTENDS Naturals, SequencesExt

CONSTANTS
    ProductRecords,       \* the products vendors list: records of text, tags, rating
    Names,          \* of categories
    Shelves,        \* what category.products may be
    MaxCategories   \* bound: the length of a catalog written as a whole

ASSUME CatalogAssumption ==
    /\ \A p \in ProductRecords : /\ p = [text |-> p.text, tags |-> p.tags, rating |-> p.rating]
                           /\ p.rating \in Nat
    /\ Shelves \subseteq Seq(ProductRecords)
    /\ MaxCategories \in Nat

VARIABLES
    listed,   \* the children of catalog/categories with the keys 0, 1, ...
    named,    \* its children with the name of a category as key
    whole     \* the last catalog that was written as a whole

catalogVars == << listed, named, whole >>

Categories == [name : Names, products : Shelves]
Catalogs == BoundedSeq(Categories, MaxCategories)

-----------------------------------------------------------------------------
(***************************************************************************)
(* Dictionaries                                                            *)
(***************************************************************************)
AsString(v) == [as |-> "string", is |-> v]
AsNumber(v) == [as |-> "number", is |-> v]
AsList(v) == [as |-> "list", is |-> v]

\* Wrong version: the tags are sent as one string, too.
ProductDictionaryJoined(p) ==
    [text |-> AsString(p.text), tags |-> AsString(p.tags), rating |-> AsString(p.rating)]

\* Product.dictionary: the numbers become strings.
ProductDictionary(p) ==
    [text |-> AsString(p.text), tags |-> AsList(p.tags), rating |-> AsString(p.rating)]

\* Firebase keeps no child that is an empty list.
Kept(dictionary) ==
    Restrict(dictionary, {f \in DOMAIN dictionary : dictionary[f] # AsList(<< >>)})

\* (dictionary[f] as? type) ?? default
Cast(dictionary, f, type, default) ==
    IF f \in DOMAIN dictionary /\ dictionary[f].as = type THEN dictionary[f].is ELSE default

\* Product.init(fromDictionary:): the numbers are looked for as numbers.
ProductFrom(dictionary) ==
    [text |-> Cast(dictionary, "text", "string", ""),
     tags |-> Cast(dictionary, "tags", "list", << >>),
     rating |-> Cast(dictionary, "rating", "number", 0)]

\* Category.dictionary and Category.init(fromDictionary:)
CategoryDictionary(c) ==
    [name |-> AsString(c.name),
     products |-> AsList([n \in DOMAIN c.products |-> Kept(ProductDictionary(c.products[n]))])]

CategoryFrom(dictionary) ==
    LET products == Cast(dictionary, "products", "list", << >>)
    IN  [name |-> Cast(dictionary, "name", "string", ""),
         products |-> [n \in DOMAIN products |-> ProductFrom(products[n])]]

\* A category and a catalog after a stay in the database.
CategoryTrip(c) == CategoryFrom(Kept(CategoryDictionary(c)))
CatalogTrip(catalog) == [n \in DOMAIN catalog |-> CategoryTrip(catalog[n])]

-----------------------------------------------------------------------------
\* readProductCategories.  The cast to an array of dictionaries succeeds only if
\* Firebase gives an array, and it gives one only if no child has a name for a key.
ReadProductCategories ==
    IF DOMAIN named = {} THEN [n \in DOMAIN listed |-> CategoryFrom(listed[n])] ELSE << >>

NothingNamed == [n \in {} |-> << >>]

CatalogInit ==
    /\ listed = << >>
    /\ named = NothingNamed
    /\ whole = << >>

\* Wrong version: the catalog is written below what is there already.
WriteBelow(catalog) ==
    /\ listed' = [n \in DOMAIN catalog |-> Kept(CategoryDictionary(catalog[n]))] \o listed
    /\ Len(listed) <= MaxCategories
    /\ named' = NothingNamed
    /\ whole' = catalog

\* writeProductCatalog: the whole node is replaced.
WriteProductCatalog(catalog) ==
    /\ listed' = [n \in DOMAIN catalog |-> Kept(CategoryDictionary(catalog[n]))]
    /\ named' = NothingNamed
    /\ whole' = catalog

\* setValue on catalog/categories/<name>
SetNamed(name, dictionary) ==
    /\ named' = [n \in DOMAIN named \cup {name} |-> IF n = name THEN dictionary ELSE named[n]]
    /\ UNCHANGED << listed, whole >>

\* writeProductCategory
WriteProductCategory(c) == SetNamed(c.name, Kept(CategoryDictionary(c)))

\* writeProduct, from ProductCatalogController.listProduct: the dictionary of the
\* product replaces that of the category.
WriteProduct(p, c) == SetNamed(c.name, Kept(ProductDictionary(p)))

CatalogNext ==
    \/ \E catalog \in Catalogs : WriteProductCatalog(catalog)
    \/ \E c \in Categories :
          \/ WriteProductCategory(c)
          \/ \E p \in ProductRecords : WriteProduct(p, c)

CatalogSpec == CatalogInit /\ [][CatalogNext]_catalogVars

-----------------------------------------------------------------------------
\* As long as nothing is written singly, the reader finds the catalog that was written
\* last as a whole, in its order, and nothing of an earlier one.
WholeCatalogIsFound ==
    DOMAIN named = {} => ReadProductCategories = CatalogTrip(whole)

\* The products that are read are those that were written, in their order and as
\* they were, but for the numbers.
TripKeepsProduct ==
    ReadProductCategories # << >> =>
        \A n \in DOMAIN whole :
            ReadProductCategories[n].products =
                [m \in DOMAIN whole[n].products |-> [whole[n].products[m] EXCEPT !.rating = 0]]

\* A category written singly is appended to the catalog: the reader finds it, next to
\* those of other names it found before.  The comment over writeProductCategory says
\* so; the code does not keep to it, for the reader then finds nothing.
CategoryIsAppended ==
    [][\A c \in Categories :
          WriteProductCategory(c) =>
              {CategoryTrip(c)} \cup {d \in ToSet(ReadProductCategories) : d.name # c.name}
                  \subseteq ToSet(ReadProductCategories')]_catalogVars
=============================================================================
