SPECIFICATION ProgressSpec
CONSTANTS
    create = create  kill = kill  k1 = k1  k2 = k2  ann = ann  bob = bob
    None = None
    Requests = {create, kill}
    CallerKeys = {k1, k2}
    Fellows = {ann, bob}
    Routes = {1}
    MaxRetries = 2
    Bodies <- RaceBodies
    KeyOf <- RaceKeyOf
    BodyOf <- RaceBodyOf
    FellowOf <- RaceFellowOf
    c1 = c1  c2 = c2  NoClaim = NoClaim
    Claims = {c1, c2}
    Legacy = 1
    DrainBatch = 2
    ReclaimBatch = 1
    MaxRows = 4
    MaxCommands = 1
    MaxMishaps = 2
INVARIANTS
    DeliveredHeadIsIndexed OnlyBadRowsQuarantined 
PROPERTIES
    EveryRequestAnswered EveryRowDrains EventuallyQuiet
\* Without an alarm the drainer waits for a command; every request may have been answered.
CHECK_DEADLOCK FALSE
