\* One device, two taps on Check Out, reads and writes refused, restarts.
SPECIFICATION FreshSpec
CONSTANTS
    d1 = d1  d2 = d2  alice = alice  bob = bob
    tent = tent  rope = rope  acme = acme  j1 = j1  j2 = j2
    Devices = {d1}
    UserIds = {alice}
    FirstUser <- OneUser
    Products = {tent, rope}
    VendorIds = {acme}
    Vendor <- SameVendor
    BlankId = blank
    Jobs = {j1, j2}
    DeviceOf <- TwoTaps
    MaxOrders = 2
    MaxQuantity = 1
    MaxLogins = 0
    ReadsMayFail = TRUE
    WritesMayFail = TRUE
SYMMETRY TapsAndProducts
INVARIANTS
    CartOneRowPerProduct
    SettledDeleteIsSafe
    SavedWhileFresh
    NoExtraCopies
PROPERTIES
    GrowsWhileFresh
    KeepsPromise
