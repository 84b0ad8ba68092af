\* Ledgers 1..3; two changes, one proposal; u32 maximum 3 to meet saturation.
CONSTANTS
    NoRole = NoRole
    Accounts = {a1, a2, a3}
    MaxU = 3
    MaxLedger = 3
    TimelockAdmin = a1
    MinDelayLedgers = 1
    Delays = {0, 1, 2}
    Params = {fee}
    Values = {v1}
    MaxChanges = 2
    MultisigAdmins = {a1, a2, a3}
    Threshold = 2
    ExpirySeconds = 1
    Operations = {op, empty}
    EmptyOperation = empty
    MaxProposals = 1
    FirstSuperAdmin = a1
SPECIFICATION GovernanceSpec
SYMMETRY Symmetry
INVARIANTS
    AppliedOnceAfterDelay
    ExecutedByTwo
PROPERTIES
    DecisionsKept
    SupersDecide
CHECK_DEADLOCK FALSE
