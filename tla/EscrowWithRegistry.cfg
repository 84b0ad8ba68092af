CONSTANTS
    NoPayment = NoPayment
    PaymentIds = {p1}
    Customers = {c1}
    Merchants = {m1, c1}
    RegistryAdmins = {ra1, ra2}
    Admin = admin
    Signers = {s1, s2, s3}
    Amounts = {1, 2}
    Ttls = {1}
    MaxTtl = 1
    MaxDisputeWindow = 1
    Cooldown = 1
    MaxU32 = 5
    LastDeposit = 2
    LastLedger = 4
    MaxVersion = 1
SPECIFICATION FairSystem
PROPERTIES
    EventuallyLeaves
    EscrowImplemented
    NoClaimsWhileInactive
CHECK_DEADLOCK FALSE
