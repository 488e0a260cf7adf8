SPECIFICATION FairSpec
CONSTANTS
    Reporter = {embedded, lent}
    Direct = {embedded}
    ActivityEnabled = {embedded}
    OwnService = TRUE
    MaxIssued = 6
    MaxFaults = 2
INVARIANTS
    StreamsMatchRegistration
    BeatingIsKnown
PROPERTIES
    StaysReported
    NothingLeftBehind
CHECK_DEADLOCK FALSE
