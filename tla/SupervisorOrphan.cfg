SPECIFICATION Spec
CONSTANTS
    broker = broker
    bridge = bridge
    dashboard = dashboard
    Service = {broker, bridge}
    Proc = {p1, p2, p3}
    Policy <- MCPolicy
    RestartOnExit <- MCRestartOnExit
    MaxRestarts <- MCMaxRestarts
    Key = {"quit", "restart", "toggle"}
    NoProcess = NoProcess
    Broken = Broken
INVARIANT NoOrphan
CHECK_DEADLOCK FALSE
