\* One payment that is settled, refunded and confirmed by hand; two instances whose
\* scans do not overlap, two transactions, one failed await, one restart.
CONSTANTS
    p1 = p1
    TxKinds <- MCTxKinds
    Payments = {p1}
    NoMemo = NoMemo
    NoRow = NoRow
    Settleable = {p1}
    Instances = {m1, m2}
    Handlers = {h1}
    Confirmers = {c1}
    Confirmable = {p1}
    PageLimit = 1
    ScansOverlap = FALSE
    MaxTxs = 2
    MaxFailures = 1
    MaxRestarts = 1
    MaxSent = 1
SPECIFICATION FairSpec
INVARIANTS
    ConfirmedOnce
    RefundedWasSent
PROPERTIES
    DecidedStays
    ExpiresUnpaidOnly
    ScansConclude
CHECK_DEADLOCK FALSE
