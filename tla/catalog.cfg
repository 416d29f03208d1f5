\* Whole catalogs, single categories and single products written in any order.
SPECIFICATION CatalogSpec
CONSTANTS
    camp = camp  climb = climb
    ProductRecords <- AllProducts
    Names = {camp, climb}
    Shelves <- SomeShelves
    MaxCategories = 2
INVARIANTS
    WholeCatalogIsFound
    TripKeepsProduct
