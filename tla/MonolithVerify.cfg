SPECIFICATION Spec
CONSTANTS
    Queue <- MCQueue
    Parser = {p1, p2}
    Line <- MCLine
    Missing = Missing
    MaxLines = 2
    Capacity = 1
INVARIANT OutputOrderFixed
CHECK_DEADLOCK FALSE
