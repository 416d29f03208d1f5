\* A cache for one table, two readers and the compaction thread, three files.
SPECIFICATION Spec
SYMMETRY Symmetry
CHECK_DEADLOCK FALSE
CONSTANTS
    r1 = r1  r2 = r2  bg = bg
    a1 = a1  a2 = a2  a3 = a3  a4 = a4
    f1 = f1  f2 = f2  f3 = f3
    Clients = {r1, r2, bg}
    Background = bg
    Addresses = {a1, a2, a3, a4}
    Keys = {f1, f2, f3}
    Nobody = Nobody
    Capacity = 1
INVARIANTS
    RefsCountHolders
    HandlesAreGood
    CachedFilesExist
    OpenFilesAreBounded
