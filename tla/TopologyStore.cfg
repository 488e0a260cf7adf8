SPECIFICATION FairSpec
CONSTANTS
    s1 = s1
    s2 = s2
    calc = calc
    client = client
    math = math
    adder = adder
    port = port
    ghost = ghost
    absent = absent
    unknown = unknown
    healthy = healthy
    ServiceId <- MCServiceId
    Description <- MCDescription
    Target <- MCTarget
    Health <- MCHealth
    UnknownHealth = unknown
    Absent = absent
    BatchSize = {1}
    Failed = {TRUE, FALSE}
    HeartbeatInterval = 1
    TimeoutMultiplier = 3
    IdleTimeout = 1
    UnknownEdgeTimeout = 2
    NodeUpdateThrottle = 1
    MaxPending = 1
    MaxTotal = 2
    MaxEdges = 1
INVARIANTS
    TypeOK
    EdgeSourceRegistered
    StateExplained
    EdgeNotFresherThanSource
PROPERTIES
    NoRequestForgotten
    UnresolvedEdgeExpires
