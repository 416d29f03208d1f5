\* Two consumers check out with one vendor at the same time.
SPECIFICATION FreshSpec
CONSTANTS
    d1 = d1  d2 = d2  alice = alice  bob = bob
    tent = tent  rope = rope  acme = acme  j1 = j1  j2 = j2
    Devices = {d1, d2}
    UserIds = {alice, bob}
    FirstUser <- TwoUsers
    Products = {tent}
    VendorIds = {acme}
    Vendor <- OneProduct
    BlankId = blank
    Jobs = {j1, j2}
    DeviceOf <- OneTapEach
    MaxOrders = 2
    MaxQuantity = 1
    MaxLogins = 0
    ReadsMayFail = FALSE
    WritesMayFail = FALSE
PROPERTIES
    HistoryAppendOnly
