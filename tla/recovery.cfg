CONSTANTS
    Keys = {k1, k2}
    Elems = {x}
    BadFields = {}
    MaxEstimable = 100
    KeyCost = 1
    TtlCost = 1
    SampleSize = 20
    MaxPasses = 4
    MsTicks = 2
    Enabled = {"SET", "DEL", "EXPIRE", "PERSIST"}
    Limits = {0, 5}
    Policies = {"allkeys-random", "allkeys-lru", "volatile-ttl"}
    AofEnabled = TRUE
    Vals <- StringVals
    SetTtls = {0, 2}
    ExpireTtls = {2}
    Args <- OneArg
    Deltas = {1}
    MaxNow = 3
    MaxLen = 2
    MaxAof = 2
    PowerLoss = TRUE
    EvictingLoads = FALSE
SPECIFICATION FairRecoverySpec
INVARIANTS RecoversValues RecoversDeadlines ExpiryOnlyForLiveKeys
PROPERTIES ExpiredKeysGo
