SPECIFICATION HookSpec
CONSTANTS
    w1 = w1
    h1 = h1
    h2 = h2
    d1 = d1
    d2 = d2
    d3 = d3
    j1 = j1
    k1 = k1
    k2 = k2
    n1 = n1
    n2 = n2
    r1 = r1
    p1 = p1
    NoJob = NoJob
    NoRecord = NoRecord
    NoProject = NoProject
    NoDelivery = NoDelivery
    Workers = {w1}
    Jobs <- AllJobs
    Records = {r1}
    Projects = {p1}
    ProjectOf <- JobProject
    Pages <- OnePage
    MaxAttempts = 1
    BaseDelay = 1
    MaxDelay = 1
    Lease = 1
    Limit = 1
    Faults <- HookFaults
    Punctual = FALSE
    MaxCrashes = 1
    Handlers = {h1, h2}
    Deliveries = {d1, d2, d3}
    HookRecords <- Carried
    Named = {d1, d2}
    HookJob <- JobsOfHooks
    Subscribing = {j1}
SYMMETRY Threads
INVARIANTS
    HandlersExclusive
    CompletedIsSettled
    RecordlessDeliveryQueues
