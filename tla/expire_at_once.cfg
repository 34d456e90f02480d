CONSTANTS
    Keys = {k1}
    Elems = {x}
    BadFields = {}
    MaxEstimable = 100
    KeyCost = 1
    TtlCost = 1
    SampleSize = 20
    MaxPasses = 4
    MsTicks = 1
    Enabled = {"SET", "EXPIRE"}
    Limits = {0}
    Policies = {"noeviction"}
    AofEnabled = TRUE
    Vals <- StringVals
    SetTtls = {0}
    ExpireTtls = {0}
    Args <- OneArg
    Deltas = {1}
    MaxNow = 2
    MaxLen = 2
    MaxAof = 2
    PowerLoss = FALSE
    EvictingLoads = FALSE
SPECIFICATION RecoverySpec
INVARIANT DeletedKeysStayDeleted
