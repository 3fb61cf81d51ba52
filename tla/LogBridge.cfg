\* Three concurrent log calls and Close.
SPECIFICATION FairSpec
CONSTANT Calls = {c1, c2, c3}
CHECK_DEADLOCK FALSE
INVARIANTS
    NoLeakedChild
    ClosedStaysClosed
PROPERTIES
    CallEnds
