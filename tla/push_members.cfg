CONSTANTS
    r1 = r1  a1 = a1  a2 = a2  h1 = h1  h2 = h2
    Clients = {c1, c2, Loop}
    Handlers = {c1}
    Loop = Loop
    NoMessage = NoMessage
    Rooms = {r1}
    Agents = {a1, a2}
    System = System
    Hooks = {h1, h2}
    NoHook = NoHook
    Calls <- PushCalls
    TornReads = TRUE
    MaxOps = 4
    MaxCrashes = 0
SPECIFICATION MCSpec
INVARIANTS EveryMemberTold SentWhereRegistered
CHECK_DEADLOCK FALSE
