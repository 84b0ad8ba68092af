\* One payment and two refund requests; no failures.
CONSTANTS
    p1 = p1
    TxKinds <- MCTxKinds
    Payments = {p1}
    NoMemo = NoMemo
    NoRow = NoRow
    Settleable = {p1}
    Instances = {m1}
    Handlers = {h1, h2}
    Confirmers = {}
    Confirmable = {}
    PageLimit = 1
    ScansOverlap = FALSE
    MaxTxs = 2
    MaxFailures = 0
    MaxRestarts = 0
    MaxSent = 2
SPECIFICATION Spec
INVARIANT RefundedAtMostOnce
CHECK_DEADLOCK FALSE
