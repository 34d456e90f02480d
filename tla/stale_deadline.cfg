CONSTANTS
    Keys = {k1}
    Elems = {x}
    BadFields = {}
    MaxEstimable = 100
    KeyCost = 1
    TtlCost = 1
    SampleSize = 20
    MaxPasses = 4
    MsTicks = 1
    Enabled = {"SET", "PERSIST"}
    Limits = {0}
    Policies = {"noeviction"}
    AofEnabled = TRUE
    Vals <- StringVals
    SetTtls = {0, 3}
    ExpireTtls = {3}
    Args <- OneArg
    Deltas = {1}
    MaxNow = 4
    MaxLen = 2
    MaxAof = 2
    PowerLoss = FALSE
    EvictingLoads = FALSE
SPECIFICATION RecoverySpec
INVARIANT LiveKeysSurvive
