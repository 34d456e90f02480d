CONSTANTS
    Keys = {k1, k2}
    Values <- Scores
    Inputs <- LongScores
    Cut <- SixDigits
    Absent = Absent
    NoFile = NoFile
    Partial = Partial
    MaxLog = 3
    MaxFiles = 2
    Configs <- SomeSettings
SPECIFICATION FairSpec
INVARIANTS TypeOK RestartKeepsMemory AlwaysIsDurable StopKeepsMemory SnapshotIsWhole
PROPERTIES EverysecReachesDisk
