SPECIFICATION Spec
CONSTANTS
    Indexers = {i1, i2}
    Blocks <- mcBlocks
    IndexPage = 1
    MaxLedger = 2
    MaxIndexFaults = 1
    Webhooks = {w1}
    HookEvents = {e1, e2}
    ScheduleLength = 3
    DeactivateAt = 3
    MaxHookFaults = 1
    RowMails = {r1}
    LogMails = {l1}
    MailAttempts = 2
    MaxMailFaults = 2
    Calls = {k1, k2}
    maxAttempts = 2
    MaxRpcFaults = 2
    RetryConfigs <- mcRetryConfigs
    PauseAdmins = {a1, a2}
    MaxEscrowOps = 2
    MaxPauseLog = 4
    Creates = {"c1", "c2"}
    Cancels = {"x1"}
    Notifies = {"n1", "n2"}
    NotifyStatuses = {"completed", "failed"}
    MaxApiFaults = 1
    WalletUsers = {"u1", "u2"}
    LegacyUsers = {"u2"}
    LegacyAddress <- mcLegacyAddress
    Provisions = {"q1", "q2"}
    Syncs = {"y1"}
    MaxWalletFaults = 2
    Channels = {"email", "in_app"}
    PrefEvents = {"settled", "failed"}
    PrefUpdates <- mcPrefUpdates
    MaxPrefFaults = 1
    PartnerConfigured = TRUE
    MaxOutages = 3
INVARIANTS
    NothingLost
    NoMoreThanAsked
    RecordsTellTheTruth
PROPERTIES
    OnlyRacesUndo
    QueuesDrain
CHECK_DEADLOCK FALSE
