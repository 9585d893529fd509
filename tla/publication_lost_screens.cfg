SPECIFICATION FairSpec
CONSTANTS
    v1 = v1  v2 = v2  r1 = r1  r2 = r2  Nobody = Nobody
    Verifiers = {v1}
    Requests = {r1}
    MaxScreens = 3
    MaxGenerations = 0
    MaxMishaps = 3
PROPERTIES HoldsReachReview
CHECK_DEADLOCK FALSE
