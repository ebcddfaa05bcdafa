CONSTANTS
    Handlers = {h1, h2}
    Scrapers = {s1}
    Bounds = 2
    NoOne = NoOne
    MaxPosts = 3
    MaxScrapes = 2
SPECIFICATION Spec
INVARIANTS TypeOK PageConsistent PageBetween
CHECK_DEADLOCK FALSE
