SPECIFICATION FairSpec
CONSTANTS
    e1 = e1
    e2 = e2
    fixture = fixture
    entra = entra
    gone = gone
    code = code
    wiki = wiki
    claim = claim
    Deliveries = {e1, e2}
    Claims = {claim}
    Values = {fixture, entra, gone}
    Tiers = {code, wiki}
    Rank <- Order
    Extractions <- Readings
    MaxFaults = 2
    MaxCrashes = 1
INVARIANTS
    ReadyIsRecorded
    ContradictedByHigher
    
PROPERTIES
    EventsSettle
CHECK_DEADLOCK FALSE
