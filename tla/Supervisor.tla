----------------------------- MODULE Supervisor -----------------------------
(***************************************************************************)
(* The supervisor of apps/supervisor/src/supervisor.tsx: it starts one     *)
(* child process per configured service, restarts those that exit by       *)
(* policy and after a delay, obeys the keys of its terminal and, on quit,  *)
(* stops everything within a time limit.                                   *)
(*                                                                         *)
(* Every handler is one step.  spawn reports success or failure before any *)
(* other event is handled, so that a start is one step too.  A process     *)
(* leaves children when the supervisor handles its exit: until then it is  *)
(* alive as far as anything here can tell.                                 *)
(***************************************************************************)
EXTENDS Integers, FiniteSets, Functions

CONSTANTS
    Service,
    Proc,           \* process ids: a bound on processes alive at once
    Policy,         \* config.restart of each service
    RestartOnExit,  \* config.restartOnUnexpectedExit of each service
    MaxRestarts,    \* config.maxRestarts of each service
    Key,            \* the keys the user presses
    NoProcess,      \* service.process is undefined
    Broken          \* service.process is a ChildProcess that failed to spawn

ASSUME ConfigAssumption ==
    /\ IsFiniteSet(Service)
    /\ Policy \in [Service -> {"always", "on-failure", "never"}]
    /\ RestartOnExit \in [Service -> BOOLEAN]
    /\ MaxRestarts \in [Service -> Nat]
    /\ Key \subseteq {"quit", "restart", "toggle"}
    /\ NoProcess \notin Proc /\ Broken \notin Proc /\ NoProcess # Broken

VARIABLES
    service,            \* the ServiceEntry of each service
    children,           \* live process -> the service it runs, and whether
                        \* shutdownSupervisor listens for its exit
    shuttingDown,
    runningServices,    \* the services shutdownSupervisor found running
    remaining,
    exited              \* the supervisor has called process.exit

vars == <<service, children, shuttingDown, runningServices, remaining, exited>>
shutdownVars == <<shuttingDown, runningServices, remaining, exited>>

ExitCode == {"zero", "nonzero", "signal"}
Status == {"idle", "running", "failed", "waiting-restart", "stopped"}

ServiceEntry ==
    [process : Proc \cup {NoProcess, Broken}, restarts : Nat, status : Status,
     shuttingDown : BOOLEAN, pendingRestart : BOOLEAN]

IdleEntry ==
    [process |-> NoProcess, restarts |-> 0, status |-> "idle",
     shuttingDown |-> FALSE, pendingRestart |-> FALSE]

(***************************************************************************)
(* Starting and stopping one service.                                      *)
(***************************************************************************)
\* A mutated Launched: the restart timer is left running.
LaunchedKeepsTimer(e, p) ==
    [e EXCEPT !.shuttingDown = FALSE, !.process = p,
              !.status = IF p = Broken THEN "failed" ELSE "running"]

Launched(e, p) ==
    [e EXCEPT !.pendingRestart = FALSE, !.shuttingDown = FALSE, !.process = p,
              !.status = IF p = Broken THEN "failed" ELSE "running"]

Child(s) == [service |-> s, awaited |-> FALSE]

StartService(s) ==
    \/ \E p \in Proc \ DOMAIN children :
          /\ service' = [service EXCEPT ![s] = Launched(@, p)]
          /\ children' = [q \in DOMAIN children \cup {p} |->
                             IF q = p THEN Child(s) ELSE children[q]]
    \/ /\ service' = [service EXCEPT ![s] = Launched(@, Broken)]
       /\ UNCHANGED children

\* The process is sent SIGTERM, which it may obey late or never.
StopService(s) ==
    /\ service' = [service EXCEPT ![s].pendingRestart = FALSE, ![s].shuttingDown = TRUE]
    /\ UNCHANGED children

(***************************************************************************)
(* handleExit.                                                             *)
(***************************************************************************)
\* A mutated RestartAllowed: one restart too many.
RestartAllowedOffByOne(s, code) ==
    /\ RestartOnExit[s]
    /\ service[s].restarts <= MaxRestarts[s]
    /\ Policy[s] # "never"

RestartAllowed(s, code) ==
    /\ RestartOnExit[s]
    /\ service[s].restarts < MaxRestarts[s]
    /\ \/ Policy[s] = "always"
       \/ Policy[s] = "on-failure" /\ code # "zero"

\* A mutated AfterExit: a service stopped by the user is restarted as well.
AfterExitRestartsStopped(s, code) ==
    [service[s] EXCEPT
        !.process = NoProcess,
        !.status = IF RestartAllowed(s, code) THEN "waiting-restart" ELSE "stopped",
        !.restarts = IF RestartAllowed(s, code) THEN @ + 1 ELSE @,
        !.pendingRestart = @ \/ RestartAllowed(s, code)]

\* A mutated AfterExit: service.process is not cleared.
AfterExitKeepsProcess(s, code) ==
    LET e == service[s]
        again == ~e.shuttingDown /\ ~shuttingDown /\ RestartAllowed(s, code)
    IN  [e EXCEPT !.status = IF again THEN "waiting-restart" ELSE "stopped",
                  !.restarts = IF again THEN @ + 1 ELSE @,
                  !.pendingRestart = @ \/ again]

AfterExit(s, code) ==
    LET e == service[s]
        again == ~e.shuttingDown /\ ~shuttingDown /\ RestartAllowed(s, code)
    IN  [e EXCEPT !.process = NoProcess,
                  !.status = IF again THEN "waiting-restart" ELSE "stopped",
                  !.restarts = IF again THEN @ + 1 ELSE @,
                  !.pendingRestart = @ \/ again]

\* A process exits; a shutdown that listens for it counts it, and the last
\* one ends the supervisor.
ProcessExits(p, code) ==
    /\ ~exited /\ p \in DOMAIN children
    /\ LET c == children[p]
       IN  /\ service' = [service EXCEPT ![c.service] = AfterExit(c.service, code)]
           /\ remaining' = IF c.awaited THEN remaining - 1 ELSE remaining
           /\ exited' = (c.awaited /\ remaining' = 0)
    /\ children' = Restrict(children, DOMAIN children \ {p})
    /\ UNCHANGED <<shuttingDown, runningServices>>

\* A mutated RestartTimer: it checks the number of restarts once more, after
\* the restart it is about to do has been counted.
RestartTimerCountsTwice(s) ==
    /\ ~exited /\ service[s].pendingRestart
    /\ IF shuttingDown \/ service[s].restarts >= MaxRestarts[s]
       THEN /\ service' = [service EXCEPT ![s].pendingRestart = FALSE]
            /\ UNCHANGED children
       ELSE StartService(s)
    /\ UNCHANGED shutdownVars

\* The timer of scheduleRestart fires.
RestartTimer(s) ==
    /\ ~exited /\ service[s].pendingRestart
    /\ IF shuttingDown
       THEN /\ service' = [service EXCEPT ![s].pendingRestart = FALSE]
            /\ UNCHANGED children
       ELSE StartService(s)
    /\ UNCHANGED shutdownVars

(***************************************************************************)
(* Keys.                                                                   *)
(***************************************************************************)
\* 'r' sends SIGTERM to every process and leaves the rest to handleExit; all
\* that changes is that the processes may now exit, which they always may.
PressRestartAll ==
    /\ "restart" \in Key /\ ~exited
    /\ UNCHANGED vars

\* '1' to '9'
PressToggle(s) ==
    /\ "toggle" \in Key /\ ~exited
    /\ IF service[s].process # NoProcess /\ ~service[s].shuttingDown
       THEN StopService(s) ELSE StartService(s)
    /\ UNCHANGED shutdownVars

\* 'q', escape, SIGINT and SIGTERM: shutdownSupervisor.
Shutdown ==
    LET running == {s \in Service : service[s].process # NoProcess}
    IN  /\ "quit" \in Key /\ ~exited /\ ~shuttingDown
        /\ shuttingDown' = TRUE
        /\ runningServices' = running
        /\ remaining' = Cardinality(running)
        /\ exited' = (running = {})
        /\ service' = [s \in Service |->
                          IF s \in running
                          THEN [service[s] EXCEPT !.shuttingDown = TRUE, !.pendingRestart = FALSE]
                          ELSE service[s]]
        /\ children' = [p \in DOMAIN children |->
                           [children[p] EXCEPT
                               !.awaited = @ \/ service[children[p].service].process = p]]

Tracked(p) ==
    children[p].service \in runningServices /\ service[children[p].service].process = p

\* A mutated ShutdownTimeout: it kills and leaves the exit to the listeners.
ShutdownTimeoutWaits ==
    /\ shuttingDown /\ ~exited /\ remaining > 0
    /\ \E p \in DOMAIN children : Tracked(p)
    /\ children' = Restrict(children, {p \in DOMAIN children : ~Tracked(p)})
    /\ remaining' = remaining - Cardinality({p \in DOMAIN children : Tracked(p)})
    /\ exited' = (remaining' = 0)
    /\ UNCHANGED <<service, shuttingDown, runningServices>>

\* Five seconds later what is left is sent SIGKILL and the supervisor exits.
ShutdownTimeout ==
    /\ shuttingDown /\ ~exited /\ remaining > 0
    /\ children' = Restrict(children, {p \in DOMAIN children : ~Tracked(p)})
    /\ exited' = TRUE
    /\ UNCHANGED <<service, shuttingDown, runningServices, remaining>>

(***************************************************************************)
(* Manual mode starts with every service idle; the other mode, with every  *)
(* service launched.                                                       *)
(***************************************************************************)
Init ==
    /\ \/ /\ service = [s \in Service |-> IdleEntry]
          /\ children = [p \in {} |-> {}]
       \/ \E started \in SUBSET Service : \E pid \in Injection(started, Proc) :
             /\ service = [s \in Service |->
                              Launched(IdleEntry, IF s \in started THEN pid[s] ELSE Broken)]
             /\ children = [p \in {pid[s] : s \in started} |->
                               Child(CHOOSE s \in started : pid[s] = p)]
    /\ shuttingDown = FALSE
    /\ runningServices = {}
    /\ remaining = 0
    /\ exited = FALSE

Next ==
    \/ \E p \in Proc, code \in ExitCode : ProcessExits(p, code)
    \/ \E s \in Service : RestartTimer(s) \/ PressToggle(s)
    \/ PressRestartAll
    \/ Shutdown
    \/ ShutdownTimeout

Spec == Init /\ [][Next]_vars

\* Timers fire.  Nothing is assumed of the processes.
Fairness == WF_vars(ShutdownTimeout) /\ \A s \in Service : WF_vars(RestartTimer(s))

FairSpec == Spec /\ Fairness

(***************************************************************************)
(* Properties.                                                             *)
(***************************************************************************)

\* Type invariant; no service is restarted more often than its limit.
TypeOK ==
    /\ service \in [Service -> ServiceEntry]
    /\ \A s \in Service : service[s].restarts <= MaxRestarts[s]
    /\ DOMAIN children \subseteq Proc
    /\ \A p \in DOMAIN children : children[p] \in [service : Service, awaited : BOOLEAN]
    /\ runningServices \subseteq Service
    /\ remaining \in 0 .. Cardinality(Service)
    /\ shuttingDown \in BOOLEAN /\ exited \in BOOLEAN

\* A restart timer and a tracked process exclude each other: a start cancels
\* the timer, and only an exit, which forgets the process, sets one.  That says
\* nothing of processes the supervisor has lost track of.  The exit of one that
\* was replaced while it was stopping also forgets its successor and sets a
\* timer, which then starts one more beside it.
NoTimerBesideTracked ==
    \A s \in Service : service[s].pendingRestart => service[s].process = NoProcess

\* A service the user or the shutdown has stopped is not about to be
\* restarted, whichever of its exit, its timer and the key came first.
StopWins == \A s \in Service : service[s].shuttingDown => ~service[s].pendingRestart

\* The list on screen tells the truth of the process it tracks: a service is
\* shown running exactly while service.process is a live process.
ShownRunningIsAlive ==
    ~exited =>
        \A s \in Service :
            service[s].status = "running" <=> service[s].process \in DOMAIN children

\* The supervisor leaves no process behind when it exits.  This holds as long
\* as the toggle keys are left alone: they start a second process beside one
\* that is still stopping, and a process during a shutdown that does not know
\* of it.
NoOrphan == exited => children = [p \in {} |-> {}]

\* Once the shutdown has begun no process is started, whatever timers run;
\* only a toggle key still starts one.
NoStartAfterShutdown ==
    [][shuttingDown => DOMAIN children' \subseteq DOMAIN children]_vars

\* A shutdown ends, even when services ignore SIGTERM or failed to spawn.
ShutdownEnds == shuttingDown ~> exited

\* A service shown as waiting for its restart gets it, or the supervisor quits.
WaitingIsRestarted ==
    \A s \in Service :
        service[s].status = "waiting-restart" ~> (service[s].process # NoProcess \/ shuttingDown)
=============================================================================
