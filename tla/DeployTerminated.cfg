\* One invocation and a SIGTERM: is the old version protected?
SPECIFICATION Spec
CONSTANTS
    Runs = {r1}
    NArtifacts = 2
    NAssets = 1
    NProcesses = 1
    ArtifactOf <- OwnArtifact
    Keep = 1
    MaxRestarts = 2
    Signals = {"TERM"}
    RollbackFaults = 0
CHECK_DEADLOCK FALSE
PROPERTY TerminatedMeansRestored
