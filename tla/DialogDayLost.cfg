SPECIFICATION Spec
CONSTANTS
    v1 = v1
    v2 = v2
    h1 = h1
    h2 = h2
    k1 = k1
    k2 = k2
    NULL = NULL
    Values = {v1, v2}
    Handlers = {h1}
    Messages = {k1, k2}
    MaxUpdates = 6
    MaxMishaps <- NoMishaps
SYMMETRY Symmetry
INVARIANT
    RecurringHasDay
CHECK_DEADLOCK FALSE
