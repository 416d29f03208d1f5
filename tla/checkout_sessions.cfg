\* One device that two users take turns on, everything may be refused.
SPECIFICATION FairFreshSpec
CONSTANTS
    d1 = d1  d2 = d2  alice = alice  bob = bob
    tent = tent  rope = rope  acme = acme  j1 = j1  j2 = j2
    Devices = {d1}
    UserIds = {alice, bob}
    FirstUser <- OneUser
    Products = {tent}
    VendorIds = {acme}
    Vendor <- OneProduct
    BlankId = blank
    Jobs = {j1, j2}
    DeviceOf <- TwoTaps
    MaxOrders = 1
    MaxQuantity = 1
    MaxLogins = 1
    ReadsMayFail = TRUE
    WritesMayFail = TRUE
INVARIANTS
    OwnUntilRelogin
PROPERTIES
    CartKeptUntilSaved
    CheckOutEnds
    RefreshRuns
