SPECIFICATION FairSpec
CONSTANTS
    d1 = d1
    d2 = d2
    command = command
    refresh = refresh
    memory = memory
    Deciders <- MCDeciders
    Actions <- MCActions
    Refreshes <- MCRefreshes
    Proposals <- MCProposals
    MaxFaults = 2
    MaxCrashes = 1
CHECK_DEADLOCK FALSE
INVARIANTS
    DecisionTakesEffect
PROPERTIES
    DenialStops
    SettledRests
    RefreshSettles
