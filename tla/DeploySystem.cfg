SPECIFICATION Spec
CONSTANTS
    Services = {s1}
    Clients = {c1, c2, c3}
    Authorized = {c1, c2}
    Runs = {r1, r2}
    MaxConcurrent = 2
INVARIANTS
    OneAtATime
    CompileFailedIsHarmless
    JobsOutliveRequests
PROPERTIES
    FullServerRecovers
