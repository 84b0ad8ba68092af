\* One backend instance, one crash: a row for each settlement and one for what
\* the crash leaks.
CONSTANTS
    p1 = p1  p2 = p2  p3 = p3  p4 = p4  p5 = p5  mA = mA  mB = mB
    None = None
    Payments = {p1, p2, p3, p5}
    Settlements = {x1, x2, x3, x4, x5}
    MerchantOf <- MCMerchantOf
    Amount <- MCAmount
    Schedulers = {i1}
    Admins = {a1}
    SmallThreshold = 10
    LargeThreshold = 10000
    MaxBatch = 2
    Window = 1
    MaxTime = 1
    MaxCrashes = 1
SPECIFICATION FairSpec
INVARIANTS
    CountedOnce
    TotalsMatchLinks
    LargeOnlyApproved
PROPERTY SmallGetsBatched
CHECK_DEADLOCK FALSE
