CONSTANTS
    Clients = {c1, c2}
    Rooms = {r1}
    Agents = {a1}
    System = System
    Hooks = {h1}
    NoHook = NoHook
    Calls <- AllCalls
    TornReads = TRUE
    MaxOps = 5
    MaxCrashes = 1
SPECIFICATION FairSpec
INVARIANTS TypeOK AnnouncedOnce LatePostsBounded MembersKnown CopyHasMarker
PROPERTIES EveryArchiveCopied
CHECK_DEADLOCK FALSE
