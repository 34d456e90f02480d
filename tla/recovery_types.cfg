CONSTANTS
    Keys = {k1, k2}
    Elems = {x, y}
    BadFields = {}
    MaxEstimable = 100
    KeyCost = 1
    TtlCost = 1
    SampleSize = 20
    MaxPasses = 4
    MsTicks = 1
    Enabled = {"APPEND", "INCRBY", "PEXPIREAT", "FLUSHALL", "KEYS", "READ", "DEL",
               "LPUSH", "RPUSH", "LPOP", "RPOP", "LSET",
               "SADD", "SREM", "HSET", "HDEL", "ZADD", "ZREM"}
    Limits = {4}
    Policies = {"noeviction", "allkeys-random", "allkeys-lru", "volatile-ttl"}
    AofEnabled = TRUE
    Vals <- StringVals
    SetTtls = {0}
    ExpireTtls = {3}
    Args <- OneArg
    Deltas = {1}
    MaxNow = 2
    MaxLen = 2
    MaxAof = 2
    PowerLoss = TRUE
    EvictingLoads = FALSE
VIEW StateView
SYMMETRY KeySymmetry
SPECIFICATION RecoverySpec
INVARIANTS RecoversValues
