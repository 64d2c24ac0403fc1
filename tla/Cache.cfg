CONSTANTS
    Refs = {"a", "b", "c"}
    Sizes = {1, 2, 4}
    MaxSize = 3
    MaxCachedImages = 2
    PrepullRefs = {"a", "b"}
    Getters = {g1}
SPECIFICATION FairSpec
INVARIANTS TypeOK WithinSize
PROPERTIES CountStaysLimited ExpiredIsRemoved StatusIsCorrected
