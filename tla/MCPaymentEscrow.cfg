\* Safety: two ids, ttl 1 or 2 (0 and 3 are refused), ledgers 1..4.
CONSTANTS
    p1 = p1  p2 = p2  c1 = c1  m1 = m1  admin = admin
    s1 = s1  s2 = s2  s3 = s3
    NoPayment = NoPayment
    PaymentIds <- MCPayments
    Customers <- MCCustomers
    Merchants <- MCMerchants
    Admin = admin
    Signers <- MCSigners
    Amounts <- MCAmounts
    Ttls <- MCTtls
    MaxTtl = 2
    MaxDisputeWindow = 1
    Cooldown = 2
    MaxU32 = 4
    LastDeposit = 3
    MaxLedger = 4
    MaxVersion = 2
SPECIFICATION Spec
SYMMETRY Symmetry
INVARIANTS
    TypeOK
    Conservation
    Backed
    DrainsSpaced
PROPERTIES
    PayoutRules
    KeepsPromise
CHECK_DEADLOCK FALSE
