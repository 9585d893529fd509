SPECIFICATION SettlementSpec
CONSTANTS
    g1 = g1  g2 = g2  g3 = g3  d1 = d1  d2 = d2
    None = None
    Requests = {g1, g2}
    Opened = 1
    MaxRetries = 1
    OpOf <- GapOpOf
    ObjectOf <- GapObjectOf
    CreatedAt <- DistinctTimes
PROPERTIES
    LosersChangeNothing
\* Every request may have been answered or lost.
CHECK_DEADLOCK FALSE
