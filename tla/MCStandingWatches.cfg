SPECIFICATION FairWatchSpec
CONSTANTS
    gate = gate
    goal = goal
    old = old
    contrary = contrary
    newer = newer
    a1 = a1
    a2 = a2
    p1 = p1
    p2 = p2
    ana = ana
    d1 = d1
    d2 = d2
    r1 = r1
    r2 = r2
    w1 = w1
    NoPlan = NoPlan
    NoTask = NoTask
    NoWatch = NoWatch
    NoFinding = NoFinding
    Blank = Blank
    Tasks = {gate, goal}
    Units = {old, contrary}
    Plans = {a1, p1, p2}
    Owners = {ana}
    Deciders = {d1}
    Kind <- Kinds
    DependsOn <- Graph
    Cites <- Sources
    Known <- JustOld
    Subject <- OneSubject
    Content <- OwnContent
    Settles <- Approving
    UpdatesOf <- NewerUpdates
    AgentPlans = {a1}
    Proposals <- JustReopen
    Watches = {w1}
    Runners = {r1, r2}
    Faults <- AllFaults
    MaxErrors = 1
INVARIANTS
    OnePlanPerFinding
    ConflictOffersFix
PROPERTIES
    ConflictIsNoticed
