CONSTANTS
    Keys = {k1, k2}
    Elems = {x, y}
    BadFields = {y}
    MaxEstimable = 100
    KeyCost = 1
    TtlCost = 1
    SampleSize = 20
    MaxPasses = 4
    MsTicks = 1
    Enabled = {"SET", "INCRBY", "APPEND", "DEL", "EXPIRE",
               "FLUSHALL", "KEYS", "READ", "LPUSH", "RPUSH", "LPOP", "RPOP", "LSET",
               "SADD", "SREM", "HSET", "HDEL", "ZADD", "ZREM"}
    Limits = {0, 5}
    Policies = {"noeviction", "allkeys-random", "allkeys-lru"}
    AofEnabled = FALSE
    Vals <- StringVals
    SetTtls = {0, 1}
    ExpireTtls = {0, 1}
    Args <- OneOrTwoArgs
    Deltas <- PlusMinusOne
    MaxNow = 2
    MaxLen = 2
    MaxAof = 0
VIEW StateView
SYMMETRY KeySymmetry
SPECIFICATION Spec
INVARIANTS TypeOK KeyMetadataInSync
PROPERTIES FailedWriteIsAtomic
