\* One large payment, one approval, no crash.
CONSTANTS
    p1 = p1  p2 = p2  p3 = p3  p4 = p4  p5 = p5  mA = mA  mB = mB
    None = None
    Payments = {p5}
    Settlements = {x1, x2}
    MerchantOf <- MCMerchantOf
    Amount <- MCAmount
    Schedulers = {i1}
    Admins = {a1}
    SmallThreshold = 10
    LargeThreshold = 10000
    MaxBatch = 2
    Window = 1
    MaxTime = 2
    MaxCrashes = 0
SPECIFICATION FairSpec
PROPERTY ApprovedGetsQueued
CHECK_DEADLOCK FALSE
