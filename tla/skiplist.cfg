CONSTANTS
    Members = {1, 2, 3, 4}
    Numbers = {1, 2}
    NaNs = {}
    None = None
    MaxCopies = 2
    MaxLevel = 3
SPECIFICATION Spec
INVARIANTS TypeOK DictionaryAndListAgree SpansAreDistances BackwardMirrorsForward
           RanksAreRight RangesAreSlices ScoreRangesAreExact
