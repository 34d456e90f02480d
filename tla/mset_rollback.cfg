CONSTANTS
    Keys = {k1, k2}
    Elems = {x}
    BadFields = {}
    MaxEstimable = 100
    KeyCost = 1
    TtlCost = 1
    SampleSize = 20
    MaxPasses = 4
    MsTicks = 1
    Enabled = {"SET", "MSET"}
    Limits = {6}
    Policies = {"allkeys-lru"}
    AofEnabled = TRUE
    Vals <- SmallAndHuge
    SetTtls = {0}
    ExpireTtls = {3}
    Args <- OneArg
    Deltas = {1}
    MaxNow = 1
    MaxLen = 2
    MaxAof = 2
    PowerLoss = FALSE
    EvictingLoads = FALSE
SPECIFICATION RecoverySpec
INVARIANT RecoversValues
