\* Two deployments of two services: every interleaving of two goroutines.
SPECIFICATION Spec
CONSTANTS
    Services = {party, room}
    Ids = {d1, d2}
    Limit = 1
SYMMETRY IdSymmetry
INVARIANTS
    TypeOK
    OneRunPerService
    OneScriptPerService
    LiveRunIsTracked
    NoStuckTask
    HistoryMatchesTasks
    ReportIsTruthful
    StatusAgreesWithReport
    AckedCancelWins
    CleanCloseLeavesNoRun
PROPERTIES
    HistoryIsPruned
    TerminalIsFinal
