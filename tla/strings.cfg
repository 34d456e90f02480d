CONSTANTS
    Keys = {k1, k2, k3}
    Elems = {}
    BadFields = {}
    MaxEstimable = 100
    KeyCost = 1
    TtlCost = 1
    SampleSize = 1
    MaxPasses = 2
    MsTicks = 1
    Enabled = {"SET", "MSET", "EXPIRE", "PERSIST", "DEL", "READ"}
    Limits = {6}
    Policies = {"noeviction", "allkeys-random", "allkeys-lru", "volatile-ttl"}
    AofEnabled = FALSE
    Vals <- SmallVals
    SetTtls = {0, 1}
    ExpireTtls = {0, 1}
    Args <- NoSeqs
    Deltas = {}
    MaxNow = 2
    MaxLen = 5
    MaxAof = 0
VIEW StateView
SYMMETRY KeySymmetry
SPECIFICATION Spec
INVARIANTS UsedMemoryIsSum MemoryBounded
PROPERTIES FailedWriteIsAtomic EvictionFollowsPolicy AckedWriteIsStored ExpireCycleClearsBacklog
