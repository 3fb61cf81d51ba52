\* Two invocations under SIGTERM, SIGKILL and a failing command in each rollback.
SPECIFICATION Spec
CONSTANTS
    Runs = {r1, r2}
    NArtifacts = 2
    NAssets = 1
    NProcesses = 1
    ArtifactOf <- OwnArtifact
    Keep = 1
    MaxRestarts = 1
    Signals = {"TERM", "KILL"}
    RollbackFaults = 1
SYMMETRY RunSymmetry
CHECK_DEADLOCK FALSE
INVARIANTS
    Recoverable
    BackupIsIntact
PROPERTIES
    AllOrNothing
    OldConfsSurvive
    UntouchedBeforeMarker
