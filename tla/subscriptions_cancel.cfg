CONSTANTS
    Endpoints = {e1}
    Clusters = {c1}
    Attrs = {a1, a2}
    Wild = Wild
    MAX_CHANGED_ATTRS = 2
    N = 2
    Sessions = {s1, s2}
    s1 = s1
    s2 = s2
    p1 = p1
    p2 = p2
    a1 = a1
    a2 = a2
    e1 = e1
    c1 = c1
    PeerOf <- MCPeerOf
    Interest <- MCInterest
    MinInt = 1
    MaxInt = 2
    WakePeriod = 1
    NoSub = NoSub
    MaxChanges = 1
    MaxTime = 1
    MaxIds = 3
    MaxEvents = 0
SPECIFICATION MCSpec
INVARIANT CancelledIsDropped
CHECK_DEADLOCK FALSE
