CONSTANTS
    Writers = {w1, w2, w3}
    Readers = {r1}
    Fresh = TRUE
    MaxCrashes = 2
    NoOne = NoOne
SPECIFICATION FairSpec
PROPERTIES ChangesKnown EveryUpdateEnds
CHECK_DEADLOCK FALSE
