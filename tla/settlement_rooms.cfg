SPECIFICATION SettlementRoomsSpec
CONSTANTS
    g1 = g1  g2 = g2  g3 = g3  d1 = d1  d2 = d2
    None = None
    Requests = {g1, g2, g3, d1, d2}
    Opened = 1
    MaxRetries = 1
    OpOf <- GapOpOf
    ObjectOf <- GapObjectOf
    CreatedAt <- DistinctTimes
    s1 = s1  s2 = s2  h1 = h1  h2 = h2  h3 = h3
    Sockets = {s1, s2}
    Handlers = {h1, h2}
    MaxGeneration = 2
    MaxFaults = 1
INVARIANTS
    SettledOnce RowMatchesLedger AnswersAreTrue DeliveredRoomsAreTold
PROPERTIES
    EventuallyCurrent
\* Every request may have been answered or lost, and every socket closed.
CHECK_DEADLOCK FALSE
