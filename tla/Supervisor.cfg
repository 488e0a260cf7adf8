SPECIFICATION FairSpec
CONSTANTS
    broker = broker
    bridge = bridge
    dashboard = dashboard
    Service = {broker, bridge, dashboard}
    Proc = {p1, p2}
    Policy <- MCPolicy
    RestartOnExit <- MCRestartOnExit
    MaxRestarts <- MCMaxRestarts
    Key = {"quit", "restart", "toggle"}
    NoProcess = NoProcess
    Broken = Broken
INVARIANTS
    TypeOK
    NoTimerBesideTracked
    StopWins
    ShownRunningIsAlive
PROPERTIES
    ShutdownEnds
    WaitingIsRestarted
CHECK_DEADLOCK FALSE
