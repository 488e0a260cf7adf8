SPECIFICATION FairSpec
CONSTANTS
    Queue <- MCQueue
    Parser = {p1, p2}
    Line <- MCLine
    Missing = Missing
    MaxLines = 3
    Capacity = 1
INVARIANTS
    TypeOK
    Conserved
    ClosedAfterLastPush
    NoLostWakeup
PROPERTIES
    JobImplemented
    RunReturns
CHECK_DEADLOCK FALSE
