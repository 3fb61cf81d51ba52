\* Fair scheduling of two deployments of one service.
SPECIFICATION FairSpec
CONSTANTS
    Services = {party}
    Ids = {d1, d2}
    Limit = 1
PROPERTIES
    RunEnds
    CloseEnds
