\* Three screens, searches that overlap and may be refused, crosses tapped faster
\* than the animations, restarts.
SPECIFICATION FairShopSpec
CONSTANTS
    camp = camp  climb = climb  tent = tent  stove = stove  rope = rope
    Products = {tent, stove, rope}
    CategoryRows <- TentTwice
    MaxAnimations = 2
    CategoryIds = {camp, climb}
    Catalog <- CampThenClimb
    ProductsOf <- TwoShelves
    Texts <- WordAndRange
    Titles <- TitlesOf
    Tagged <- TagsOf
    Low <- LowOf
    High <- HighOf
    Price <- Prices
    NoPrice = NoPrice
    Unit = 2
    MaxSearches = 2
    ReadsMayFail = TRUE
INVARIANTS
    StoredOnce
    ScreenFollowsStore
    SettledCrossIsRight
    HeartsTellTheTruth
    SettledRowsAnswer
    RangeIsCovered
PROPERTIES
    Settles
