SPECIFICATION FairSpec
CONSTANTS
    u1 = u1
    u2 = u2
    t1 = t1
    s1 = s1
    s2 = s2
    None = None
    Users = {u1, u2}
    Tabs = {t1}
    Slots = {s1, s2}
    Changing = {u1}
    Persistent = FALSE
    TTL = 0
    DefaultTTL = 1
    MaxTime = 1
    MaxKey = 1
INVARIANTS TypeOK  TabShowsItsUser
PROPERTIES GoodTokenIsKept LoadingEnds
