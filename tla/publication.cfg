SPECIFICATION FairSpec
CONSTANTS
    v1 = v1  v2 = v2  r1 = r1  r2 = r2  Nobody = Nobody
    Verifiers = {v1, v2}
    Requests = {r1, r2}
    MaxScreens = 3
    MaxGenerations = 1
    MaxMishaps = 4
INVARIANTS PaidCallsBounded SuccessorKeepsBudget RefusalStands
PROPERTIES AuditIsFresh ReleaseIsCurrent ImplementsReleaseBoundary JobsAreSettled ObservedHoldsReachReview
\* A published job, or one held for good, is at rest.
CHECK_DEADLOCK FALSE
