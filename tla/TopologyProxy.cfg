SPECIFICATION FairSpec
CONSTANTS
    Part = {node, edge}
    Browser = {b1, b2}
    MaxVersion = 2
    MaxInFlight = 2
    MaxLosses = 1
    Nothing = Nothing
INVARIANTS
    OneWatch
    PictureExact
PROPERTY BrowserCatchesUp
CHECK_DEADLOCK FALSE
