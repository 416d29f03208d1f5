\* A category is written singly, alone or beside a catalog that is there.
SPECIFICATION CatalogSpec
CONSTANTS
    camp = camp  climb = climb
    ProductRecords <- AllProducts
    Names = {camp, climb}
    Shelves <- SomeShelves
    MaxCategories = 2
PROPERTIES
    CategoryIsAppended
