SPECIFICATION FairSpec
CONSTANTS
    Server = {server}
    RustServer = {rserver}
    Client = {client}
    RustClient = {rclient}
    CppClient = {cclient}
    Started = {{server, rserver, client}, {server, rserver, rclient, cclient}}
    Provider = {server, rserver}
    Program = {server, client}
    NoProvider = NoProvider
    MaxCrashes = 1
    MaxEnded = 5
INVARIANTS
    NeverStranded
    EntriesCoverProviders
    ClientInformed
PROPERTIES
    ShutdownEnds
    Relisted
    PollingClientRecovers
CHECK_DEADLOCK FALSE
