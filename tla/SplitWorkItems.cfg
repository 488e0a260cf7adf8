SPECIFICATION Spec
CONSTANTS
    Line <- MCLine
    Missing = Missing
    WorkItem = WorkItem
    MaxEvents = {0, 2}
    BatchSize = 2
    HighWater = 1
    MaxLines = 3
    MaxCrashes = 1
INVARIANT WorkItemsWritten
CHECK_DEADLOCK FALSE
