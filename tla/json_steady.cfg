CONSTANTS
    Writers = {w1, w2, w3}
    Readers = {r1, r2}
    Fresh = FALSE
    MaxCrashes = 0
    NoOne = NoOne
SPECIFICATION Spec
INVARIANTS TypeOK NoLostUpdate ReadsCurrent
PROPERTIES ImplementsAtomic
CHECK_DEADLOCK FALSE
