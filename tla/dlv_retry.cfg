CONSTANTS
    a1 = a1  a2 = a2  a3 = a3  a4 = a4  m1 = m1
    NoEntry = NoEntry
    Agents = {a2, a3, a4}
    Messages = {m1}
    SenderOf <- FromA1
    Concurrency = 1
    MaxRetries = 2
    Queueless = {a4}
    TornReads = TRUE
    MaxCrashes = 1
    MaxSlept = 0
SPECIFICATION FairSpec
INVARIANTS TypeOK NothingForgotten DepthIsEntries RetriesCounted OneOwner
PROPERTIES EveryDeliverySettles LoopGoesOn
