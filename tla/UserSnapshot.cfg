SPECIFICATION Spec
CONSTANTS
    Calls = {c1, c2}
    Engines = {"xianshi", "config"}
    MaxOpenConns = 1
    maxRows = 2
    MaxMatch = 3
    Getters = {c1}
    Sections <- MCSections
    VIPLimit = 1
    MaxLimit = 1
    DefaultLimit = 1
INVARIANTS
    ConnectionsAreReturned
    NothingIsCutSilently
    SectionFitsClient
PROPERTIES
    CallEnds
