\* Two uninterrupted invocations, one after or beside the other.
SPECIFICATION FairSpec
CONSTANTS
    Runs = {r1, r2}
    NArtifacts = 2
    NAssets = 1
    NProcesses = 2
    ArtifactOf <- OwnArtifact
    Keep = 1
    MaxRestarts = 2
    Signals = {}
    RollbackFaults = 0
CHECK_DEADLOCK FALSE
PROPERTIES
    ImplementsAtomicRelease
    LockIsReleased
