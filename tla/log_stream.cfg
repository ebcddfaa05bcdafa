CONSTANTS
    w1 = w1  w2 = w2  p1 = p1  p2 = p2  a1 = a1  a2 = a2
    m1 = m1  m2 = m2  m3 = m3  m4 = m4
    None = None  Elsewhere = Elsewhere  Torn = Torn  Bad = Bad
    Writers = {w1}
    Pollers = {p1, p2}
    Agents = {a1, a2}
    AgentOf <- TwoAgents
    Messages = {m1, m2, m3}
    Weight <- MCHeavy
    MaxSize = 4
    MaxMessages = 2
    GlobLimit = 9
    SharedCursors = {}
    TornWrites = FALSE
    MaxCrashes = 0
    MaxInbox = 3
SPECIFICATION FairSpec
PROPERTIES ImplementsStream EventuallyDelivered
