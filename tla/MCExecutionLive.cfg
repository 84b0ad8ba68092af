\* Two settlements of one merchant, no callbacks or retries, one crash, no overrun.
CONSTANTS
    x1 = x1  x2 = x2  p1 = p1  p2 = p2  p3 = p3  mA = mA  w1 = w1  w2 = w2  w3 = w3
    None = None
    Settlements = {x1, x2}
    Payments = {p1, p3}
    PaymentsOf <- MCPaymentsOf
    MerchantOf <- MCMerchantOf
    Workers = {w1, w2}
    Handlers = {}
    Jobs = {j1, j2}
    Attempts = 2
    MaxOverruns = 0
    MaxCrashes = 1
    MaxCallbacks = 0
SPECIFICATION FairSpec
PROPERTIES
    WorkEnds
INVARIANT RowsAgree
CHECK_DEADLOCK FALSE
