\* Two concurrent calls: what they share, and that each of them ends.
SPECIFICATION FairSpec
CONSTANTS
    Calls = {c1, c2}
    MaxClock = 2
INVARIANTS
    ExecutedOnce
    CacheIsNewest
    StaleTokenIsReplaced
    TimestampsIncrease
PROPERTIES
    CallEnds
