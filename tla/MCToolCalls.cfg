SPECIFICATION FairSpec
CONSTANTS
    c1 = c1
    c2 = c2
    t1 = t1
    t2 = t2
    t3 = t3
    NoCall = NoCall
    Calls = {c1}
    Deciders = {t1, t2, t3}
    Faults <- AllFaults
    MaxCrashes = 1
INVARIANTS
    ExecutionsApproved
    StatusTellsExecution
    ExecutingIsAttended
PROPERTIES
    ApprovedSettles
CHECK_DEADLOCK FALSE
