SPECIFICATION FairSpec
CONSTANTS
    Line <- MCLine
    Missing = Missing
    WorkItem = WorkItem
    MaxEvents = {0, 2}
    BatchSize = 2
    HighWater = 1
    MaxLines = 3
    MaxCrashes = 1
INVARIANTS
    TypeOK
    OrderKept
    EndIsLast
    OutputOrderFixed
PROPERTIES
    JobImplemented
    RunEnds
CHECK_DEADLOCK FALSE
