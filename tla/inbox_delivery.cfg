SPECIFICATION WorkloadSpec
CONSTANTS
    p1 = p1  p2 = p2
    Fellows <- MCFellows
    Events <- MCEvents
    Kind <- MCKind
    Author <- MCAuthor
    Corrupt = {4}
    Poison = {1, 2}
    Passes = {p1, p2}
    PageSize = 1
    JobLimit = 2
    ReadLimit = 1
    MaxFaults = 1
    MaxChanges = 2
INVARIANTS
    NobodySkipped PollsMissNothing
PROPERTIES
    PassesTellOnlyRecipients ImplementsFanOut HealthyJobsSettle
\* Everything may have been delivered and read.
CHECK_DEADLOCK FALSE
