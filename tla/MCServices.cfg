SPECIFICATION Spec
CONSTANTS
    EscrowIds = {p1}
    ForeignId = fx
    EventPage = 2
    DedupMax = 2
    Confirmers = {c1}
    MaxEvents = 3
    MaxSyncFaults = 1
    Payments = {"p1", "p2"}
    Settlements = {"s1"}
    RowDay <- mcRowDay
    RowUsd <- mcRowUsd
    RowNetwork <- mcRowNetwork
    RowMerchant <- mcRowMerchant
    MonthStarts <- mcMonthStarts
    DefaultDays = 3
    DefaultMonths = 2
    QueryDays = {9, 13}
    FirstDay = 12
    LastDay = 13
    Scale = 10
    Exports = {"x1"}
    MaxExportFaults = 2
    Signers = {"g1"}
    DayParts = 2
    WindowDays = 2
    ActivationDays = 1
    MonthDays = 1
    MaxSignupTime = 3
    Accounts = {"a1"}
    Callers = {"c1"}
    BulkIds <- mcBulkIds
    MaxEdits = 3
    MaxAccountFaults = 1
    CacheReaders = {"r1"}
    Updaters = {"u1", "u2"}
    Ttl = 2
    MaxRead = 1
    MaxCacheTime = 4
    MaxUpdates = 2
    MaxCacheFaults = 1
    Validations = {"v1"}
    TokenLife = 2
    MaxSessionTime = 3
    WordBits = 22
    SecretBytes = {90, 255}
    MaxSecretLen = 5
    StepSeconds = 2
    MaxTotpTime = 5
    Users = {"u0", "u1"}
    Creator = "u0"
    Holders = {"u0"}
    GroupEditors = {"e1"}
    Sizes = {1, 2}
    MaxGroupEdits = 2
    MaxGroupFaults = 1
    Slots = {s1, s2}
    Limit = 2
    Window = 3
    MaxLatency = 1
    MaxRateTime = 6
    MaxAdmitted = 5
    Raisers = {r1, r2}
    Admins = {a1}
    Cooldown = 2
    MaxAlertTime = 4
    MaxRaises = 3
    MaxAlertCrashes = 1
    Notes = {"n1", "n2", "n3"}
    PageLimit = 1
    MaxAge = 1
    MaxFeedTime = 3
    BackupDays = 3
    RetentionDays = 1
    MaxBackupFaults = 1
INVARIANTS
    
    FiguresAgree
    StaleWithinBounds
    RecordsComplete
    SecondFactorWorks
PROPERTIES
    PollsApplySafely
    VolumeIsComplete
    LimitsHold
CHECK_DEADLOCK FALSE
