SPECIFICATION PlanSpec
CONSTANTS
    prep = prep
    gate = gate
    goal = goal
    new1 = new1
    new2 = new2
    old = old
    newer = newer
    a1 = a1
    a2 = a2
    d1 = d1
    d2 = d2
    ana = ana
    NoPlan = NoPlan
    NoTask = NoTask
    Blank = Blank
    Tasks = {prep, gate, goal, new1, new2}
    Units = {old, newer}
    Plans = {a1, a2}
    Owners = {ana}
    Deciders = {d1, d2}
    Kind <- Kinds
    DependsOn <- Graph
    Cites <- Sources
    Known <- JustOld
    Subject <- OneSubject
    Content <- OwnContent
    Settles <- Approving
    UpdatesOf <- NewerUpdates
    AgentPlans = {a1, a2}
    Proposals <- ManyProposals
    Faults <- DecisionFaults
    MaxErrors = 1
INVARIANTS
    ApprovedIsApplied
    StallIsExplained
PROPERTIES
    SettledPlansRest
    FieldsKept
