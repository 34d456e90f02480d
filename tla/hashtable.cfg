CONSTANTS
    f1 = f1
    f2 = f2
    f3 = f3
    f4 = f4
    f5 = f5
    f6 = f6
    Kinds = {"open", "chained", "hash"}
    Fields = {f1, f2, f3, f4, f5, f6}
    Values = {v, w}
    BadFields = {f6}
    BigFields = {}
    BigValues = {w}
    HashCode <- Codes
    INITIAL_CAPACITY = 4
    COMPACT_MAX_ENTRIES = 2
    Missing = Missing
VIEW StateView
SPECIFICATION Spec
INVARIANTS CountersMatch ItemsAreContents LookupsEndEarly CapacityFollowsSize
PROPERTIES IsMap
