\* Three invocations that retain two backups.
SPECIFICATION Spec
CONSTANTS
    Runs = {r1, r2, r3}
    NArtifacts = 2
    NAssets = 1
    NProcesses = 1
    ArtifactOf <- OwnArtifact
    Keep = 2
    MaxRestarts = 1
    Signals = {}
    RollbackFaults = 0
CHECK_DEADLOCK FALSE
INVARIANT RetainsSuccessful
