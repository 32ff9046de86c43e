SPECIFICATION FairSpec
CONSTANTS
    w1 = w1
    w2 = w2
    j1 = j1
    j2 = j2
    r1 = r1
    r2 = r2
    p1 = p1
    p2 = p2
    NoJob = NoJob
    NoRecord = NoRecord
    NoProject = NoProject
    Workers = {w1}
    Jobs = {j1, j2}
    Records = {r1, r2}
    Projects = {p1}
    ProjectOf <- SameProject
    Pages <- Shared
    MaxAttempts = 2
    BaseDelay = 1
    MaxDelay = 1
    Lease = 2
    Limit = 2
    Faults <- CrashesEnd
    Punctual = FALSE
    MaxCrashes = 1
INVARIANTS
    CursorBehindWork
PROPERTIES
    EveryJobSettles
    ImplementsLifecycle
