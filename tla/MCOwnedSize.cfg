CONSTANTS
    u1 = u1
    u2 = u2
    m1 = m1
    s1 = s1
    h1 = h1
    f1 = f1
    f2 = f2
    Users <- MCUsers
    Miners = {m1}
    Schedulers = {s1}
    Hashes <- MCHashes
    FillerIds <- MCFillerIds
    FileSizes = {4, 12}
    Tiers = {}
    Counts = {4, 5}
    SeededAccounts = {u1, u2}
    GByte = 1
    TByte = 16
    StringLimit = 2
    ItemLimit = 2
    PowerBound = 32

SPECIFICATION UserSpec

SYMMETRY MCSymmetry

INVARIANTS
    OwnedSizeCharged
