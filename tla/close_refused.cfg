SPECIFICATION WorkloadSpec
CONSTANTS
    a1 = a1  a2 = a2  o1 = o1  o2 = o2  hb = hb  x1 = x1  x2 = x2  ch = ch  rl = rl  cl = cl  p1 = p1  p2 = p2
    ann = ann  bob = bob  lemma = lemma  paper = paper  lab = lab
    q1 = q1  q2 = q2  q3 = q3  q4 = q4  k1 = k1  k2 = k2  k3 = k3  k4 = k4  k5 = k5
    Requests = {a1, a2, o1, o2, hb, x1, x2, ch, rl, cl, p1, p2}
    Sweepers = {1}
    OpOf <- MCOpOf
    FellowOf <- MCFellowOf
    ObjectOf <- MCObjectOf
    ParallelOf <- MCParallelOf
    ShortIdle = 2
    LeaseTerm = 3
    LongIdle = 4
    Skew = 1
    MaxTime = 5
    MaxFaults = 1
    Attempts = {q1, q2, q3, q4}
    Batches = {q3, q4}
    MembersOf <- MCMembersOf
    CallerOf <- MCCallerOf
    ProblemOf <- MCProblemOf
    PayerOf <- MCPayerOf
    Window = 2
    Hold = 1
    Cap = 2
    PayerCap = 3
    SlowCaps = {1}
    Drift = 1
    MaxClock = 3
    MaxControls = 1
INVARIANT ReleasesAreElected
\* Time is bounded and every request may be done.
CHECK_DEADLOCK FALSE
