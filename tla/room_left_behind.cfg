SPECIFICATION Spec
CONSTANTS
    s1 = s1  s2 = s2  h1 = h1  h2 = h2  h3 = h3
    Sockets = {s1}
    Handlers = {h1, h2, h3}
    MaxGeneration = 1
    MaxFaults = 0
INVARIANT NoneLeftBehind
\* Every socket may have been closed.
CHECK_DEADLOCK FALSE
