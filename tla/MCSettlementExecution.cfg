\* One settlement; jobs, callbacks and retries race on it, an execution of it may
\* outlast its lock.
CONSTANTS
    x1 = x1  x2 = x2  p1 = p1  p2 = p2  p3 = p3  mA = mA  w1 = w1  w2 = w2  w3 = w3
    None = None
    Settlements = {x1}
    Payments = {p1}
    PaymentsOf <- MCPaymentsOf
    MerchantOf <- MCMerchantOf
    Workers = {w1, w2, w3}
    Handlers = {h1}
    Jobs = {j1, j2, j3}
    Attempts = 1
    MaxOverruns = 1
    MaxCrashes = 1
    MaxCallbacks = 2
SPECIFICATION Spec
SYMMETRY Symmetry
INVARIANTS
    SettledWasAccepted
    NoStranded
    OverlapBounded
CHECK_DEADLOCK FALSE
