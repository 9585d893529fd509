SPECIFICATION WorkloadSpec
CONSTANTS
    s1 = s1  s2 = s2  c1 = c1  v1 = v1  v2 = v2  t1 = t1  t2 = t2
    k1 = k1  k2 = k2  k3 = k3  k4 = k4  k5 = k5
    ann = ann  bob = bob
    None = None
    Requests = {s1, s2, c1, v1, v2, t1, t2}
    CallerKeys = {k1, k2, k3, k4, k5}
    Fellows = {ann, bob}
    Routes = {1}
    MaxRetries = 1
    Bodies <- WorkBodies
    KeyOf <- WorkKeyOf
    BodyOf <- WorkBodyOf
    FellowOf <- WorkFellowOf
SYMMETRY Twins
INVARIANTS
    ExactlyOnce AnswersAreTrue VersionsFollowTheirBase
    ChainIntegrity TransitionsOnce
PROPERTIES
    AuthorityAtCommit ImplementsAppendLog
\* Every request may have been answered and every Fellow have left.
CHECK_DEADLOCK FALSE
