SPECIFICATION Spec
CONSTANTS
    CardOps = {1, 2, 3}
    TabOps = {1, 2}
    PageOps = {1, 2, 3}
    Total = 2
    CardChanges = 1
    MaxChanges = 1
    w1 = w1  w2 = w2
    s1 = s1  s2 = s2
    p1 = p1  p2 = p2  p3 = p3
    g1 = g1
    v1 = v1  v2 = v2
    Workers = {w1, w2}
    Sessions = {s1, s2}
    Proposals = {p1, p2, p3}
    Signals = {g1}
    SignalOf <- MCSignalOf
    Policies = {v1, v2}
    Permits <- MCPermits
    MaxOpen = 1
    FirstPolicy = v1
    FirstSession = s1
    Menus <- MCMenus
    MaxRequests = 3
    MaxEnded = 1
    None = None
INVARIANTS PaidOnce BooksTrue
PROPERTIES EndedStays
CHECK_DEADLOCK FALSE
