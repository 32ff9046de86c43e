SPECIFICATION Spec
CONSTANTS
    t1 = t1
    t2 = t2
    i1 = i1
    i2 = i2
    Threads <- MCThreads
    Ids <- MCIds
    Texts <- MCTexts
    Extractions <- MCExtractions
    Requests = 4
    MaxFaults = 1
SYMMETRY MCSymmetry
CHECK_DEADLOCK FALSE
INVARIANTS
    StepsAreClaimed
    TrustIsReviewed
    DecisionsStand
