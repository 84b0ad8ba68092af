\* One worker, one settlement, no crash.
CONSTANTS
    x1 = x1  x2 = x2  p1 = p1  p2 = p2  p3 = p3  mA = mA  w1 = w1  w2 = w2  w3 = w3
    None = None
    Settlements = {x1}
    Payments = {p1, p2}
    PaymentsOf <- MCPaymentsOf
    MerchantOf <- MCMerchantOf
    Workers = {w1}
    Handlers = {}
    Jobs = {j1, j2}
    Attempts = 3
    MaxOverruns = 0
    MaxCrashes = 0
    MaxCallbacks = 0
SPECIFICATION Spec
INVARIANT FailedMeansUnpaid
CHECK_DEADLOCK FALSE
