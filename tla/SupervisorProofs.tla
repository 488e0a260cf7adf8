-------------------------- MODULE SupervisorProofs --------------------------
(***************************************************************************)
(* What the supervisor keeps for any set of services, policies, keys and   *)
(* restart limits: the types of its entries, and the agreement of restart  *)
(* timers, stop flags, tracked processes and the status on screen.         *)
(***************************************************************************)
EXTENDS Supervisor, FiniteSetTheorems, TLAPS

\* What the proofs need of the entries, without the counters.
Entry ==
    [process : Proc \cup {NoProcess, Broken}, restarts : Nat, status : Status,
     shuttingDown : BOOLEAN, pendingRestart : BOOLEAN]

EntriesTyped ==
    /\ service \in [Service -> Entry]
    /\ DOMAIN children \subseteq Proc
    /\ \A p \in DOMAIN children : children[p] \in [service : Service, awaited : BOOLEAN]

\* A timer is pending only beside no process, and never for a stopped service.
TimerOK(e) ==
    e.pendingRestart => e.process = NoProcess /\ ~e.shuttingDown

TimersOK == \A s \in Service : TimerOK(service[s])

\* Until the supervisor exits, a tracked process is a live child that runs the
\* service, and tracking one is the same as being shown running.
TracksOK ==
    ~exited =>
        \A s \in Service :
            /\ service[s].status = "running" <=> service[s].process \in Proc
            /\ service[s].process \in Proc =>
                  /\ service[s].process \in DOMAIN children
                  /\ children[service[s].process].service = s

IInv == EntriesTyped /\ shuttingDown \in BOOLEAN /\ TimersOK /\ TracksOK

-----------------------------------------------------------------------------
\* A launched entry is well formed and has no timer.
LEMMA LaunchedEntry ==
    ASSUME NEW e \in Entry, NEW p \in Proc \cup {Broken}
    PROVE  Launched(e, p) \in Entry /\ ~Launched(e, p).pendingRestart
BY DEF Launched, Entry, Status

\* handleExit leaves a well-formed entry; it sets a timer only for a service
\* that is not stopped, and always clears the process.
LEMMA ExitedEntry ==
    ASSUME NEW s \in Service, NEW code \in ExitCode,
           service[s] \in Entry, shuttingDown \in BOOLEAN, TimerOK(service[s])
    PROVE  AfterExit(s, code) \in Entry /\ TimerOK(AfterExit(s, code))
<1> DEFINE e == service[s]
           again == ~e.shuttingDown /\ ~shuttingDown /\ RestartAllowed(s, code)
<1>1. again \in BOOLEAN
  OBVIOUS
<1>2. AfterExit(s, code) =
        [e EXCEPT !.process = NoProcess,
                  !.status = IF again THEN "waiting-restart" ELSE "stopped",
                  !.restarts = IF again THEN @ + 1 ELSE @,
                  !.pendingRestart = @ \/ again]
  BY DEF AfterExit
<1>3. again => e.shuttingDown = FALSE
  BY DEF Entry
<1> HIDE DEF again
<1>4. CASE again
  <2>1. AfterExit(s, code) =
          [e EXCEPT !.process = NoProcess, !.status = "waiting-restart",
                    !.restarts = @ + 1, !.pendingRestart = TRUE]
    BY <1>2, <1>4 DEF Entry
  <2>2. AfterExit(s, code) \in Entry
    <3>1. e.restarts + 1 \in Nat /\ "waiting-restart" \in Status
      BY DEF Entry, Status
    <3> QED
      BY <2>1, <3>1, Zenon DEF Entry
  <2>3. AfterExit(s, code).process = NoProcess /\ AfterExit(s, code).shuttingDown = FALSE
    BY <1>3, <1>4, <2>1 DEF Entry
  <2> QED
    BY <2>2, <2>3 DEF TimerOK
<1>5. CASE ~again
  <2>1. AfterExit(s, code) = [e EXCEPT !.process = NoProcess, !.status = "stopped"]
    BY <1>2, <1>5 DEF Entry
  <2> QED
    BY <2>1 DEF Entry, Status, TimerOK
<1> QED
  BY <1>4, <1>5

\* Starting a service keeps entries typed and timers in order.
LEMMA StartKeeps ==
    ASSUME EntriesTyped, TimersOK, NEW s \in Service, StartService(s)
    PROVE  EntriesTyped' /\ TimersOK'
<1>1. service[s] \in Entry
  BY DEF EntriesTyped
<1>2. CASE \E p \in Proc \ DOMAIN children :
             /\ service' = [service EXCEPT ![s] = Launched(@, p)]
             /\ children' = [q \in DOMAIN children \cup {p} |->
                                IF q = p THEN Child(s) ELSE children[q]]
  <2> PICK p \in Proc \ DOMAIN children :
             /\ service' = [service EXCEPT ![s] = Launched(@, p)]
             /\ children' = [q \in DOMAIN children \cup {p} |->
                                IF q = p THEN Child(s) ELSE children[q]]
    BY <1>2
  <2>1. Launched(service[s], p) \in Entry /\ TimerOK(Launched(service[s], p))
    BY <1>1, LaunchedEntry DEF TimerOK
  <2>2. service' = [service EXCEPT ![s] = Launched(service[s], p)]
    BY DEF EntriesTyped
  <2>3. service' \in [Service -> Entry] /\ TimersOK'
    BY <2>1, <2>2 DEF EntriesTyped, TimersOK, TimerOK
  <2>4. /\ DOMAIN children' \subseteq Proc
        /\ \A q \in DOMAIN children' : children'[q] \in [service : Service, awaited : BOOLEAN]
    BY DEF EntriesTyped, Child
  <2> QED
    BY <2>3, <2>4 DEF EntriesTyped
<1>3. CASE /\ service' = [service EXCEPT ![s] = Launched(@, Broken)]
           /\ UNCHANGED children
  <2>1. Launched(service[s], Broken) \in Entry /\ TimerOK(Launched(service[s], Broken))
    BY <1>1, LaunchedEntry DEF TimerOK
  <2>2. service' = [service EXCEPT ![s] = Launched(service[s], Broken)]
    BY <1>3
  <2> QED
    BY <1>3, <2>1, <2>2 DEF EntriesTyped, TimersOK, TimerOK
<1> QED
  BY <1>2, <1>3 DEF StartService

\* ... and, while the supervisor runs, the tracking right: the process is a
\* new one, so that no other service tracks it.
LEMMA StartTracks ==
    ASSUME EntriesTyped, TracksOK, ~exited, NEW s \in Service, StartService(s)
    PROVE  TracksOK'
<1> SUFFICES ASSUME NEW t \in Service
             PROVE  /\ service'[t].status = "running" <=> service'[t].process \in Proc
                    /\ service'[t].process \in Proc =>
                          /\ service'[t].process \in DOMAIN children'
                          /\ children'[service'[t].process].service = t
  BY DEF TracksOK
<1>1. CASE \E p \in Proc \ DOMAIN children :
             /\ service' = [service EXCEPT ![s] = Launched(@, p)]
             /\ children' = [q \in DOMAIN children \cup {p} |->
                                IF q = p THEN Child(s) ELSE children[q]]
  <2> PICK p \in Proc \ DOMAIN children :
             /\ service' = [service EXCEPT ![s] = Launched(@, p)]
             /\ children' = [q \in DOMAIN children \cup {p} |->
                                IF q = p THEN Child(s) ELSE children[q]]
    BY <1>1
  <2>1. CASE t = s
    <3>1. service'[t] = Launched(service[s], p) /\ service[s] \in Entry
      BY <2>1 DEF EntriesTyped
    <3>2. service'[t].process = p /\ service'[t].status = "running"
      BY <3>1, ConfigAssumption DEF Launched, Entry
    <3> QED
      BY <2>1, <3>2 DEF Child
  <2>2. CASE t # s
    <3>1. service'[t] = service[t]
      BY <2>2 DEF EntriesTyped
    <3> QED
      BY <3>1 DEF TracksOK
  <2> QED
    BY <2>1, <2>2
<1>2. CASE /\ service' = [service EXCEPT ![s] = Launched(@, Broken)]
           /\ UNCHANGED children
  <2>1. CASE t = s
    <3>1. service'[t] = Launched(service[s], Broken) /\ service[s] \in Entry
      BY <1>2, <2>1 DEF EntriesTyped
    <3>2. service'[t].process = Broken /\ service'[t].status = "failed"
      BY <3>1 DEF Launched, Entry
    <3> QED
      BY <3>2, ConfigAssumption
  <2>2. CASE t # s
    <3>1. service'[t] = service[t]
      BY <1>2, <2>2 DEF EntriesTyped
    <3> QED
      BY <1>2, <3>1 DEF TracksOK
  <2> QED
    BY <2>1, <2>2
<1> QED
  BY <1>1, <1>2 DEF StartService
-----------------------------------------------------------------------------
\* The invariant holds when the supervisor starts, in either mode.
LEMMA InitInv == Init => IInv
<1> SUFFICES ASSUME Init
             PROVE  IInv
  OBVIOUS
<1>1. shuttingDown = FALSE /\ IdleEntry \in Entry /\ TimerOK(IdleEntry)
  BY DEF Init, IdleEntry, Entry, Status, TimerOK
<1>2. CASE /\ service = [s \in Service |-> IdleEntry]
           /\ children = [p \in {} |-> {}]
  <2>1. EntriesTyped /\ TimersOK
    BY <1>1, <1>2 DEF EntriesTyped, TimersOK
  <2>2. TracksOK
    BY <1>2, ConfigAssumption DEF TracksOK, IdleEntry
  <2> QED
    BY <1>1, <2>1, <2>2 DEF IInv
<1>3. CASE \E started \in SUBSET Service : \E pid \in Injection(started, Proc) :
             /\ service = [s \in Service |->
                              Launched(IdleEntry, IF s \in started THEN pid[s] ELSE Broken)]
             /\ children = [p \in {pid[s] : s \in started} |->
                               Child(CHOOSE s \in started : pid[s] = p)]
  <2> PICK started \in SUBSET Service : \E pid \in Injection(started, Proc) :
             /\ service = [s \in Service |->
                              Launched(IdleEntry, IF s \in started THEN pid[s] ELSE Broken)]
             /\ children = [p \in {pid[s] : s \in started} |->
                               Child(CHOOSE s \in started : pid[s] = p)]
    BY <1>3
  <2> PICK pid \in Injection(started, Proc) :
             /\ service = [s \in Service |->
                              Launched(IdleEntry, IF s \in started THEN pid[s] ELSE Broken)]
             /\ children = [p \in {pid[s] : s \in started} |->
                               Child(CHOOSE s \in started : pid[s] = p)]
    OBVIOUS
  <2> DEFINE proc(s) == IF s \in started THEN pid[s] ELSE Broken
  <2>1. /\ pid \in [started -> Proc]
        /\ \A s, t \in started : pid[s] = pid[t] => s = t
    BY DEF Injection, IsInjective
  <2>2. \A s \in Service : proc(s) \in Proc \cup {Broken} /\ service[s] = Launched(IdleEntry, proc(s))
    BY <2>1
  <2>3. \A s \in Service : service[s] \in Entry /\ TimerOK(service[s])
    BY <1>1, <2>2, LaunchedEntry DEF TimerOK
  <2>4. \A s \in started : (CHOOSE t \in started : pid[t] = pid[s]) = s
    BY <2>1
  <2>5. \A p \in DOMAIN children :
           children[p] \in [service : Service, awaited : BOOLEAN] /\ p \in Proc
    <3> SUFFICES ASSUME NEW p \in DOMAIN children
                 PROVE  children[p] \in [service : Service, awaited : BOOLEAN] /\ p \in Proc
      OBVIOUS
    <3> PICK s \in started : p = pid[s]
      OBVIOUS
    <3> QED
      BY <2>1, <2>4 DEF Child
  <2>6. EntriesTyped /\ TimersOK
    BY <2>3, <2>5 DEF EntriesTyped, TimersOK
  <2>7. TracksOK
    <3> SUFFICES ASSUME NEW s \in Service
                 PROVE  /\ service[s].status = "running" <=> service[s].process \in Proc
                        /\ service[s].process \in Proc =>
                              /\ service[s].process \in DOMAIN children
                              /\ children[service[s].process].service = s
      BY DEF TracksOK
    <3>1. /\ service[s].process = proc(s)
          /\ service[s].status = IF proc(s) = Broken THEN "failed" ELSE "running"
      BY <2>2 DEF Launched, IdleEntry
    <3>2. CASE s \in started
      <4>1. pid[s] \in DOMAIN children
        BY <3>2
      <4>2. children[pid[s]] = Child(s)
        BY <2>4, <3>2, <4>1
      <4>3. children[pid[s]].service = s
        BY <4>2 DEF Child
      <4>4. pid[s] \in Proc /\ pid[s] # Broken
        BY <2>1, <3>2, ConfigAssumption
      <4>5. service[s].process = pid[s] /\ service[s].status = "running"
        BY <3>1, <3>2, <4>4
      <4> QED
        BY <4>1, <4>3, <4>4, <4>5
    <3>3. CASE s \notin started
      BY <3>1, <3>3, ConfigAssumption
    <3> QED
      BY <3>2, <3>3
  <2> QED
    BY <1>1, <2>6, <2>7 DEF IInv
<1> QED
  BY <1>2, <1>3 DEF Init

\* Every step keeps the invariant.
LEMMA StepInv == IInv /\ [Next]_vars => IInv'
<1> SUFFICES ASSUME IInv, [Next]_vars
             PROVE  IInv'
  OBVIOUS
<1> USE DEF IInv
<1>1. ASSUME NEW p \in Proc, NEW code \in ExitCode, ProcessExits(p, code)
      PROVE  IInv'
  <2> DEFINE s == children[p].service
  <2>1. s \in Service /\ service[s] \in Entry /\ TimerOK(service[s]) /\ ~exited
    BY <1>1 DEF ProcessExits, EntriesTyped, TimersOK
  <2>2. service' = [service EXCEPT ![s] = AfterExit(s, code)]
    BY <1>1 DEF ProcessExits
  <2>3. children' = Restrict(children, DOMAIN children \ {p}) /\ shuttingDown' = shuttingDown
    BY <1>1 DEF ProcessExits
  <2>4. AfterExit(s, code) \in Entry /\ TimerOK(AfterExit(s, code))
    BY <2>1, ExitedEntry
  <2>5. EntriesTyped'
    BY <2>2, <2>3, <2>4 DEF EntriesTyped, Restrict
  <2>6. TimersOK'
    BY <2>2, <2>4 DEF TimersOK, EntriesTyped, TimerOK
  <2>7. ASSUME NEW t \in Service
        PROVE  /\ service'[t].status = "running" <=> service'[t].process \in Proc
               /\ service'[t].process \in Proc =>
                     /\ service'[t].process \in DOMAIN children'
                     /\ children'[service'[t].process].service = t
    <3>1. CASE t = s
      <4>1. service'[t] = AfterExit(s, code)
        BY <2>1, <2>2, <3>1 DEF EntriesTyped
      <4>2. service'[t].process = NoProcess /\ service'[t].status # "running"
        BY <2>1, <4>1 DEF AfterExit, Entry
      <4> QED
        BY <4>2, ConfigAssumption
    <3>2. CASE t # s
      <4>1. service'[t] = service[t]
        BY <2>1, <2>2, <3>2 DEF EntriesTyped
      <4>2. service[t].process \in Proc => service[t].process # p
        BY <2>1, <3>2 DEF TracksOK
      <4> QED
        BY <2>1, <2>3, <4>1, <4>2 DEF TracksOK, Restrict
    <3> QED
      BY <3>1, <3>2
  <2>8. TracksOK'
    BY <2>7 DEF TracksOK
  <2> QED
    BY <2>3, <2>5, <2>6, <2>8
<1>2. ASSUME NEW s \in Service, RestartTimer(s)
      PROVE  IInv'
  <2>1. ~exited /\ exited' = exited /\ shuttingDown' = shuttingDown
    BY <1>2 DEF RestartTimer, shutdownVars
  <2>2. CASE StartService(s)
    BY <2>1, <2>2, StartKeeps, StartTracks
  <2>3. CASE /\ service' = [service EXCEPT ![s].pendingRestart = FALSE]
             /\ UNCHANGED children
    <3>1. service[s] \in Entry
      BY DEF EntriesTyped
    <3>2. service' = [service EXCEPT ![s] = [service[s] EXCEPT !.pendingRestart = FALSE]]
      BY <2>3 DEF EntriesTyped
    <3>3. service'[s] \in Entry /\ service'[s].pendingRestart = FALSE
      BY <3>1, <3>2 DEF EntriesTyped, Entry
    <3>4. EntriesTyped' /\ TimersOK'
      BY <2>1, <2>3, <3>2, <3>3 DEF EntriesTyped, TimersOK, TimerOK
    <3>5. \A t \in Service : /\ service'[t].process = service[t].process
                             /\ service'[t].status = service[t].status
      BY <3>1, <3>2 DEF EntriesTyped, Entry
    <3> QED
      BY <2>1, <2>3, <3>4, <3>5 DEF TracksOK
  <2> QED
    BY <1>2, <2>2, <2>3 DEF RestartTimer
<1>3. ASSUME NEW s \in Service, PressToggle(s)
      PROVE  IInv'
  <2>1. ~exited /\ exited' = exited /\ shuttingDown' = shuttingDown
    BY <1>3 DEF PressToggle, shutdownVars
  <2>2. CASE StartService(s)
    BY <2>1, <2>2, StartKeeps, StartTracks
  <2>3. CASE StopService(s)
    <3>1. service[s] \in Entry
      BY DEF EntriesTyped
    <3>2. service' = [service EXCEPT ![s] =
                         [service[s] EXCEPT !.pendingRestart = FALSE, !.shuttingDown = TRUE]]
      BY <2>3 DEF EntriesTyped, StopService
    <3>3. /\ service'[s] \in Entry
          /\ service'[s].pendingRestart = FALSE
      BY <3>1, <3>2 DEF EntriesTyped, Entry
    <3>4. EntriesTyped' /\ TimersOK'
      BY <2>3, <3>2, <3>3 DEF EntriesTyped, TimersOK, TimerOK, StopService
    <3>5. \A t \in Service : /\ service'[t].process = service[t].process
                             /\ service'[t].status = service[t].status
      BY <3>1, <3>2 DEF EntriesTyped, Entry
    <3> QED
      BY <2>1, <2>3, <3>5, <3>4 DEF TracksOK, StopService
  <2> QED
    BY <1>3, <2>2, <2>3 DEF PressToggle
<1>4. ASSUME Shutdown
      PROVE  IInv'
  <2> DEFINE running == {s \in Service : service[s].process # NoProcess}
  <2>1. /\ shuttingDown' = TRUE /\ ~exited
        /\ service' = [s \in Service |->
               IF s \in running
               THEN [service[s] EXCEPT !.shuttingDown = TRUE, !.pendingRestart = FALSE]
               ELSE service[s]]
        /\ DOMAIN children' = DOMAIN children
        /\ \A p \in DOMAIN children :
               children'[p] = [children[p] EXCEPT
                   !.awaited = @ \/ service[children[p].service].process = p]
    BY <1>4 DEF Shutdown
  <2>2. ASSUME NEW p \in DOMAIN children
        PROVE  /\ children'[p].service = children[p].service
               /\ children'[p] \in [service : Service, awaited : BOOLEAN]
    <3> DEFINE found == children[p].awaited \/ service[children[p].service].process = p
    <3>1. children'[p] = [children[p] EXCEPT !.awaited = found]
      BY <2>1
    <3>2. found \in BOOLEAN /\ children[p] \in [service : Service, awaited : BOOLEAN]
      BY DEF EntriesTyped
    <3> HIDE DEF found
    <3> QED
      BY <3>1, <3>2
  <2>3. ASSUME NEW s \in Service
        PROVE  /\ service'[s] \in Entry /\ TimerOK(service'[s])
               /\ service'[s].process = service[s].process
               /\ service'[s].status = service[s].status
    <3>1. service[s] \in Entry /\ TimerOK(service[s])
      BY DEF EntriesTyped, TimersOK
    <3>2. CASE s \in running
      <4>1. service'[s] = [service[s] EXCEPT !.shuttingDown = TRUE, !.pendingRestart = FALSE]
        BY <2>1, <3>2
      <4> QED
        BY <3>1, <4>1 DEF Entry, TimerOK
    <3>3. CASE s \notin running
      <4>1. service'[s] = service[s]
        BY <2>1, <3>3
      <4> QED
        BY <3>1, <4>1
    <3> QED
      BY <3>2, <3>3
  <2>4. EntriesTyped' /\ TimersOK'
    BY <2>1, <2>2, <2>3 DEF EntriesTyped, TimersOK
  <2>5. ASSUME NEW s \in Service
        PROVE  /\ service'[s].status = "running" <=> service'[s].process \in Proc
               /\ service'[s].process \in Proc =>
                     /\ service'[s].process \in DOMAIN children'
                     /\ children'[service'[s].process].service = s
    <3>1. DOMAIN children' = DOMAIN children /\ ~exited
      BY <2>1
    <3>2. /\ service[s].status = "running" <=> service[s].process \in Proc
          /\ service[s].process \in Proc =>
                /\ service[s].process \in DOMAIN children
                /\ children[service[s].process].service = s
      BY <3>1 DEF TracksOK
    <3> QED
      BY <2>2, <2>3, <3>1, <3>2
  <2>6. TracksOK'
    BY <2>5 DEF TracksOK
  <2>7. shuttingDown' \in BOOLEAN
    BY <2>1
  <2> QED
    BY <2>4, <2>6, <2>7
<1>5. CASE ShutdownTimeout
  BY <1>5 DEF ShutdownTimeout, EntriesTyped, TimersOK, TracksOK, Restrict
<1>6. CASE UNCHANGED vars
  BY <1>6 DEF vars, EntriesTyped, TimersOK, TracksOK
<1> QED
  BY <1>1, <1>2, <1>3, <1>4, <1>5, <1>6 DEF Next, PressRestartAll

\* Whatever the user does and however processes behave, a restart is pending
\* only for a service with no tracked process, ...
THEOREM TimersNeedNoProcess == Spec => []NoTimerBesideTracked
<1>1. IInv => NoTimerBesideTracked
  BY DEF IInv, TimersOK, TimerOK, NoTimerBesideTracked
<1> QED
  BY InitInv, StepInv, <1>1, PTL DEF Spec

\* ... a stopped service is not restarted behind the user's back,
THEOREM StopsAreKept == Spec => []StopWins
<1>1. IInv => StopWins
  BY DEF IInv, TimersOK, TimerOK, StopWins
<1> QED
  BY InitInv, StepInv, <1>1, PTL DEF Spec

\* ... and a service is shown running exactly while its process lives.
THEOREM ScreenIsTrue == Spec => []ShownRunningIsAlive
<1>1. IInv => ShownRunningIsAlive
  BY ConfigAssumption DEF IInv, EntriesTyped, TracksOK, ShownRunningIsAlive
<1> QED
  BY InitInv, StepInv, <1>1, PTL DEF Spec

\* Without the toggle keys no timer starts a process in a shutdown.
THEOREM ShutdownStartsNothing == "toggle" \notin Key /\ Spec => NoStartAfterShutdown
<1> SUFFICES ASSUME "toggle" \notin Key
             PROVE  Spec => NoStartAfterShutdown
  OBVIOUS
<1>1. [Next]_vars => [shuttingDown => DOMAIN children' \subseteq DOMAIN children]_vars
  BY DEF Next, ProcessExits, RestartTimer, PressToggle, PressRestartAll, Shutdown,
         ShutdownTimeout, Restrict, vars
<1> QED
  BY <1>1, PTL DEF Spec, NoStartAfterShutdown

-----------------------------------------------------------------------------
\* Without the toggle keys every live process is the one its service tracks,
\* and a shutdown, which started with all of them in its count, still counts
\* each that lives.
AllTracked ==
    ~exited => \A p \in DOMAIN children : service[children[p].service].process = p

AllCounted ==
    /\ ~shuttingDown => \A p \in DOMAIN children : ~children[p].awaited
    /\ shuttingDown /\ ~exited =>
          /\ \A p \in DOMAIN children :
                children[p].awaited /\ children[p].service \in runningServices
          /\ remaining \in Nat /\ Cardinality(DOMAIN children) <= remaining

OrphanInv ==
    /\ IInv /\ AllTracked /\ AllCounted /\ NoOrphan
    /\ IsFiniteSet(DOMAIN children)

LEMMA NothingLeft == Restrict(children, {}) = [p \in {} |-> {}]
BY DEF Restrict

LEMMA InitOrphan == Init => OrphanInv
<1> SUFFICES ASSUME Init
             PROVE  /\ AllTracked /\ IsFiniteSet(DOMAIN children)
                    /\ \A p \in DOMAIN children : ~children[p].awaited
  BY InitInv DEF Init, OrphanInv, AllCounted, NoOrphan
<1>1. CASE children = [p \in {} |-> {}]
  BY <1>1, FS_EmptySet DEF AllTracked
<1>2. CASE \E started \in SUBSET Service : \E pid \in Injection(started, Proc) :
             /\ service = [s \in Service |->
                              Launched(IdleEntry, IF s \in started THEN pid[s] ELSE Broken)]
             /\ children = [p \in {pid[s] : s \in started} |->
                               Child(CHOOSE s \in started : pid[s] = p)]
  <2> PICK started \in SUBSET Service : \E pid \in Injection(started, Proc) :
             /\ service = [s \in Service |->
                              Launched(IdleEntry, IF s \in started THEN pid[s] ELSE Broken)]
             /\ children = [p \in {pid[s] : s \in started} |->
                               Child(CHOOSE s \in started : pid[s] = p)]
    BY <1>2
  <2> PICK pid \in Injection(started, Proc) :
             /\ service = [s \in Service |->
                              Launched(IdleEntry, IF s \in started THEN pid[s] ELSE Broken)]
             /\ children = [p \in {pid[s] : s \in started} |->
                               Child(CHOOSE s \in started : pid[s] = p)]
    OBVIOUS
  <2>1. IsFiniteSet(started)
    BY ConfigAssumption, FS_Subset
  <2>2. IsFiniteSet({pid[s] : s \in started})
    <3> DEFINE T == {pid[s] : s \in started}
    <3>1. [s \in started |-> pid[s]] \in Surjection(started, T)
      BY DEF Surjection
    <3> HIDE DEF T
    <3>2. IsFiniteSet(T)
      BY <2>1, <3>1, FS_Surjection
    <3> QED
      BY <3>2 DEF T
  <2>3. ASSUME NEW p \in DOMAIN children
        PROVE  service[children[p].service].process = p
    <3> DEFINE s == CHOOSE s \in started : pid[s] = p
    <3>1. s \in started /\ pid[s] = p
      OBVIOUS
    <3> HIDE DEF s
    <3>2. children[p].service = s
      BY DEF s, Child
    <3>3. service[s] = Launched(IdleEntry, p)
      BY <3>1
    <3>4. Launched(IdleEntry, p).process = p
      BY DEF Launched, IdleEntry
    <3> QED
      BY <3>2, <3>3, <3>4
  <2> QED
    BY <2>2, <2>3 DEF AllTracked, Child
<1> QED
  BY <1>1, <1>2 DEF Init

\* handleExit forgets exactly the process that exited, and counts it.
LEMMA ExitKeepsCount ==
    ASSUME OrphanInv, NEW p \in Proc, NEW code \in ExitCode, ProcessExits(p, code), IInv'
    PROVE  OrphanInv'
<1> DEFINE s == children[p].service
<1> USE DEF OrphanInv
<1>1. /\ ~exited /\ p \in DOMAIN children /\ shuttingDown' = shuttingDown
      /\ runningServices' = runningServices
      /\ service' = [service EXCEPT ![s] = AfterExit(s, code)]
      /\ remaining' = IF children[p].awaited THEN remaining - 1 ELSE remaining
      /\ exited' = (children[p].awaited /\ remaining' = 0)
      /\ children' = Restrict(children, DOMAIN children \ {p})
  BY DEF ProcessExits
<1>2. /\ DOMAIN children' = DOMAIN children \ {p}
      /\ \A q \in DOMAIN children' : children'[q] = children[q]
  BY <1>1 DEF Restrict
<1>3. /\ IsFiniteSet(DOMAIN children')
      /\ Cardinality(DOMAIN children') = Cardinality(DOMAIN children) - 1
  BY <1>1, <1>2, FS_RemoveElement
<1>4. AllTracked'
  <2> SUFFICES ASSUME NEW q \in DOMAIN children'
               PROVE  service'[children'[q].service].process = q
    BY DEF AllTracked
  <2>1. q # p /\ children[q].service \in Service /\ service[children[q].service].process = q
    BY <1>1, <1>2 DEF AllTracked, IInv, EntriesTyped
  <2>2. service[s].process = p
    BY <1>1 DEF AllTracked
  <2>3. service'[children[q].service] = service[children[q].service]
    BY <1>1, <2>1, <2>2 DEF IInv, EntriesTyped
  <2> QED
    BY <1>2, <2>1, <2>3
<1>5. AllCounted'
  <2>0. ~shuttingDown => \A q \in DOMAIN children' : ~children'[q].awaited
    BY <1>1, <1>2 DEF AllCounted
  <2> SUFFICES ASSUME shuttingDown, ~exited'
               PROVE  /\ \A q \in DOMAIN children' :
                            children'[q].awaited /\ children'[q].service \in runningServices
                      /\ remaining' \in Nat /\ Cardinality(DOMAIN children') <= remaining'
    BY <1>1, <2>0 DEF AllCounted
  <2>1. children[p].awaited /\ remaining \in Nat /\ Cardinality(DOMAIN children) <= remaining
    BY <1>1 DEF AllCounted
  <2>2. remaining # 0
    BY <1>1, <2>1, FS_EmptySet, FS_CardinalityType
  <2>3. remaining' \in Nat /\ Cardinality(DOMAIN children') <= remaining'
    BY <1>1, <1>3, <2>1, <2>2, FS_CardinalityType
  <2> QED
    BY <1>1, <1>2, <2>3 DEF AllCounted
<1>6. NoOrphan'
  <2> SUFFICES ASSUME exited'
               PROVE  children' = [q \in {} |-> {}]
    BY DEF NoOrphan
  <2>1. CASE shuttingDown
    <3>0. /\ remaining \in Nat /\ remaining - 1 = 0
          /\ Cardinality(DOMAIN children) <= remaining
      BY <1>1, <2>1 DEF AllCounted
    <3>1. Cardinality(DOMAIN children') <= 0
      BY <1>3, <3>0, FS_CardinalityType
    <3>2. DOMAIN children \ {p} = {}
      BY <1>2, <1>3, <3>1, FS_CardinalityType, FS_EmptySet
    <3> QED
      BY <1>1, <3>2, NothingLeft
  <2>2. CASE ~shuttingDown
    BY <1>1, <2>2 DEF AllCounted
  <2> QED
    BY <2>1, <2>2
<1> QED
  BY <1>3, <1>4, <1>5, <1>6

\* A restart timer that starts a process does so outside a shutdown, for a
\* service that tracks none.
LEMMA TimerKeepsTracked ==
    ASSUME OrphanInv, NEW s \in Service, RestartTimer(s), IInv'
    PROVE  OrphanInv'
<1> USE DEF OrphanInv
<1>1. /\ ~exited /\ service[s].process = NoProcess
      /\ exited' = exited /\ shuttingDown' = shuttingDown
      /\ remaining' = remaining /\ runningServices' = runningServices
  BY DEF RestartTimer, shutdownVars, IInv, TimersOK, TimerOK
<1>2. NoOrphan'
  BY <1>1 DEF NoOrphan
<1>3. \A p \in DOMAIN children : children[p].service \in Service \ {s} /\ p # NoProcess
  BY <1>1, ConfigAssumption DEF AllTracked, IInv, EntriesTyped
<1>4. \A t \in Service \ {s} : service'[t] = service[t]
  BY DEF RestartTimer, StartService, IInv, EntriesTyped
<1>5. CASE UNCHANGED children
  <2>1. AllTracked'
    BY <1>1, <1>3, <1>4, <1>5 DEF AllTracked
  <2>2. AllCounted'
    BY <1>1, <1>5 DEF AllCounted
  <2> QED
    BY <1>2, <1>5, <2>1, <2>2
<1>6. CASE ~shuttingDown /\ \E p \in Proc \ DOMAIN children :
              /\ service' = [service EXCEPT ![s] = Launched(@, p)]
              /\ children' = [q \in DOMAIN children \cup {p} |->
                                 IF q = p THEN Child(s) ELSE children[q]]
  <2> PICK p \in Proc \ DOMAIN children :
              /\ service' = [service EXCEPT ![s] = Launched(@, p)]
              /\ children' = [q \in DOMAIN children \cup {p} |->
                                 IF q = p THEN Child(s) ELSE children[q]]
    BY <1>6
  <2>1. service'[s].process = p
    <3>1. service[s] \in Entry /\ service'[s] = Launched(service[s], p)
      BY DEF IInv, EntriesTyped
    <3> QED
      BY <3>1 DEF Launched, Entry
  <2>2. AllTracked'
    <3> SUFFICES ASSUME NEW q \in DOMAIN children'
                 PROVE  service'[children'[q].service].process = q
      BY DEF AllTracked
    <3>1. CASE q = p
      BY <2>1, <3>1 DEF Child
    <3>2. CASE q # p
      <4>1. q \in DOMAIN children /\ children'[q] = children[q]
        BY <3>2
      <4> QED
        BY <1>1, <1>3, <1>4, <4>1 DEF AllTracked
    <3> QED
      BY <3>1, <3>2
  <2>3. AllCounted'
    BY <1>1, <1>6 DEF AllCounted, Child
  <2>4. IsFiniteSet(DOMAIN children')
    BY FS_AddElement
  <2> QED
    BY <1>2, <2>2, <2>3, <2>4
<1> QED
  BY <1>5, <1>6 DEF RestartTimer, StartService

\* The shutdown counts every service that tracks a process: there are at least
\* as many as live processes.
LEMMA ShutdownCounts ==
    ASSUME OrphanInv, Shutdown, IInv'
    PROVE  OrphanInv'
<1> DEFINE running == {s \in Service : service[s].process # NoProcess}
<1> USE DEF OrphanInv
<1>1. /\ ~exited /\ ~shuttingDown /\ shuttingDown'
      /\ runningServices' = running /\ remaining' = Cardinality(running)
      /\ exited' = (running = {})
      /\ DOMAIN children' = DOMAIN children
  BY DEF Shutdown
<1>2. ASSUME NEW p \in DOMAIN children
      PROVE  /\ children[p].service \in running
             /\ service[children[p].service].process = p
             /\ children'[p].service = children[p].service
             /\ children'[p].awaited
  <2>1. /\ service[children[p].service].process = p
        /\ children[p] \in [service : Service, awaited : BOOLEAN]
        /\ p # NoProcess
    BY <1>1, ConfigAssumption DEF AllTracked, IInv, EntriesTyped
  <2>2. children'[p] = [children[p] EXCEPT !.awaited = TRUE]
    BY <2>1 DEF Shutdown
  <2> QED
    BY <2>1, <2>2
<1>3. IsFiniteSet(running)
  BY ConfigAssumption, FS_Subset
<1>4. Cardinality(DOMAIN children) <= Cardinality(running)
  <2> DEFINE f == [p \in DOMAIN children |-> children[p].service]
  <2>1. f \in [DOMAIN children -> running] /\ IsInjective(f)
    BY <1>2 DEF IsInjective
  <2>2. f \in Injection(DOMAIN children, running)
    BY <2>1 DEF Injection
  <2> QED
    BY <1>3, <2>2, FS_Injection
<1>5. AllTracked'
  <2> SUFFICES ASSUME NEW p \in DOMAIN children'
               PROVE  service'[children'[p].service].process = p
    BY DEF AllTracked
  <2>1. children[p].service \in running /\ service[children[p].service] \in Entry
    BY <1>1, <1>2 DEF IInv, EntriesTyped
  <2>2. service'[children[p].service] =
          [service[children[p].service] EXCEPT !.shuttingDown = TRUE, !.pendingRestart = FALSE]
    BY <2>1 DEF Shutdown
  <2>3. service'[children[p].service].process = service[children[p].service].process
    BY <2>1, <2>2 DEF Entry
  <2> QED
    BY <1>1, <1>2, <2>3
<1>6. AllCounted'
  BY <1>1, <1>2, <1>3, <1>4, FS_CardinalityType DEF AllCounted
<1>7. NoOrphan'
  <2> SUFFICES ASSUME running = {}
               PROVE  children' = [p \in {} |-> {}]
    BY <1>1 DEF NoOrphan
  <2>1. DOMAIN children = {}
    BY <1>2
  <2> QED
    BY <2>1 DEF Shutdown
<1> QED
  BY <1>1, <1>5, <1>6, <1>7

\* Without the toggle keys the supervisor leaves no process behind, whatever
\* exits, timers and the time limit come first.
THEOREM NobodyLeftBehind == "toggle" \notin Key /\ Spec => []NoOrphan
<1> SUFFICES ASSUME "toggle" \notin Key
             PROVE  Spec => []NoOrphan
  OBVIOUS
<1>1. OrphanInv /\ [Next]_vars => OrphanInv'
  <2> SUFFICES ASSUME OrphanInv, [Next]_vars
               PROVE  OrphanInv'
    OBVIOUS
  <2>0. IInv'
    BY StepInv DEF OrphanInv
  <2>1. ASSUME NEW p \in Proc, NEW code \in ExitCode, ProcessExits(p, code)
        PROVE  OrphanInv'
    BY <2>0, <2>1, ExitKeepsCount
  <2>2. ASSUME NEW s \in Service, RestartTimer(s)
        PROVE  OrphanInv'
    BY <2>0, <2>2, TimerKeepsTracked
  <2>3. CASE Shutdown
    BY <2>0, <2>3, ShutdownCounts
  <2>4. CASE ShutdownTimeout
    <3>1. \A p \in DOMAIN children : Tracked(p)
      BY <2>4 DEF ShutdownTimeout, OrphanInv, AllTracked, AllCounted, Tracked
    <3>2. children' = Restrict(children, {}) /\ exited' /\ shuttingDown' = shuttingDown /\ shuttingDown
      BY <2>4, <3>1 DEF ShutdownTimeout
    <3>3. children' = [p \in {} |-> {}] /\ DOMAIN children' = {}
      BY <3>2, NothingLeft
    <3> QED
      BY <2>0, <3>2, <3>3, FS_EmptySet DEF OrphanInv, AllTracked, AllCounted, NoOrphan
  <2>5. CASE UNCHANGED vars
    BY <2>0, <2>5 DEF vars, OrphanInv, AllTracked, AllCounted, NoOrphan
  <2> QED
    BY <2>1, <2>2, <2>3, <2>4, <2>5 DEF Next, PressRestartAll, PressToggle
<1>2. OrphanInv => NoOrphan
  BY DEF OrphanInv
<1> QED
  BY InitOrphan, <1>1, <1>2, PTL DEF Spec

-----------------------------------------------------------------------------
\* The processes whose exit the shutdown listens for.
Awaited == {p \in DOMAIN children : children[p].awaited}

\* Restarts stay within their limit; and a shutdown listens for no more exits
\* than it has yet to count, so that its count never runs below zero.
RestartsWithin == \A s \in Service : service[s].restarts \in 0 .. MaxRestarts[s]

ExitsCounted ==
    /\ runningServices \subseteq Service /\ exited \in BOOLEAN
    /\ remaining \in 0 .. Cardinality(Service)
    /\ ~shuttingDown => Awaited = {}
    /\ ~exited => IsFiniteSet(Awaited) /\ Cardinality(Awaited) <= remaining

CountInv == IInv /\ RestartsWithin /\ ExitsCounted

LEMMA ServicesFinite == IsFiniteSet(Service) /\ Cardinality(Service) \in Nat
BY ConfigAssumption, FS_CardinalityType

LEMMA InitCount == Init => CountInv
<1> SUFFICES ASSUME Init
             PROVE  CountInv
  OBVIOUS
<1>0. ASSUME NEW p
      PROVE  Launched(IdleEntry, p).restarts = 0 /\ IdleEntry.restarts = 0
  BY DEF Launched, IdleEntry
<1>1. ASSUME NEW s \in Service
      PROVE  service[s].restarts = 0
  <2>1. service[s] = IdleEntry \/ \E p : service[s] = Launched(IdleEntry, p)
    BY DEF Init
  <2> QED
    BY <1>0, <2>1
<1>2. Awaited = {}
  <2>1. CASE children = [p \in {} |-> {}]
    BY <2>1 DEF Awaited
  <2>2. ASSUME NEW T, NEW of, children = [p \in T |-> Child(of[p])]
        PROVE  Awaited = {}
    <3>1. ASSUME NEW p \in T
          PROVE  children[p].awaited = FALSE
      BY <2>2 DEF Child
    <3> QED
      BY <2>2, <3>1 DEF Awaited
  <2>3. ASSUME NEW started \in SUBSET Service, NEW pid \in Injection(started, Proc),
               children = [p \in {pid[s] : s \in started} |->
                              Child(CHOOSE s \in started : pid[s] = p)]
        PROVE  Awaited = {}
    <3> DEFINE T == {pid[s] : s \in started}
               of == [p \in T |-> CHOOSE s \in started : pid[s] = p]
    <3>1. children = [p \in T |-> Child(of[p])]
      BY <2>3
    <3> HIDE DEF T, of
    <3> QED
      BY <2>2, <3>1
  <2> QED
    BY <2>1, <2>3 DEF Init
<1>3. RestartsWithin
  BY <1>1, ConfigAssumption DEF RestartsWithin
<1>4. ExitsCounted
  <2>1. runningServices = {} /\ remaining = 0 /\ exited = FALSE
    BY DEF Init
  <2>2. IsFiniteSet(Awaited) /\ Cardinality(Awaited) = 0
    BY <1>2, FS_EmptySet
  <2>3. 0 \in 0 .. Cardinality(Service)
    BY ServicesFinite
  <2>4. remaining \in 0 .. Cardinality(Service) /\ Cardinality(Awaited) <= remaining
    BY <2>1, <2>2, <2>3
  <2>5. runningServices \subseteq Service /\ exited \in BOOLEAN
    BY <2>1, Zenon
  <2> QED
    BY <1>2, <2>2, <2>4, <2>5, Zenon DEF ExitsCounted
<1> QED
  BY InitInv, <1>3, <1>4 DEF CountInv

\* A start counts no restart, and the shutdown does not listen to its process.
LEMMA StartKeepsCount ==
    ASSUME CountInv, ~exited, NEW s \in Service, StartService(s), UNCHANGED shutdownVars
    PROVE  RestartsWithin' /\ ExitsCounted'
<1> USE DEF CountInv
<1>1. service[s] \in Entry /\ service \in [Service -> Entry]
  BY DEF IInv, EntriesTyped
<1>2. PICK p : service' = [service EXCEPT ![s] = Launched(service[s], p)]
  BY <1>1 DEF StartService
<1>3. Launched(service[s], p).restarts = service[s].restarts
  BY <1>1 DEF Launched, Entry
<1>4. RestartsWithin'
  BY <1>1, <1>2, <1>3 DEF RestartsWithin
<1>5. Awaited' = Awaited
  <2>1. CASE UNCHANGED children
    BY <2>1 DEF Awaited
  <2>2. ASSUME NEW q \in Proc \ DOMAIN children,
               children' = [r \in DOMAIN children \cup {q} |->
                               IF r = q THEN Child(s) ELSE children[r]]
        PROVE  Awaited' = Awaited
    <3>1. children'[q].awaited = FALSE
      BY <2>2 DEF Child
    <3>2. \A r \in DOMAIN children : r # q /\ children'[r] = children[r]
      BY <2>2
    <3>3. DOMAIN children' = DOMAIN children \cup {q}
      BY <2>2
    <3> QED
      BY <3>1, <3>2, <3>3 DEF Awaited
  <2> QED
    BY <2>1, <2>2 DEF StartService
<1> QED
  BY <1>4, <1>5 DEF ExitsCounted, shutdownVars

LEMMA ExitKeepsLimits ==
    ASSUME CountInv, NEW p \in Proc, NEW code \in ExitCode, ProcessExits(p, code)
    PROVE  RestartsWithin' /\ ExitsCounted'
<1> DEFINE s == children[p].service
<1> USE DEF CountInv
<1>1. /\ ~exited /\ p \in DOMAIN children /\ shuttingDown' = shuttingDown
      /\ runningServices' = runningServices
      /\ service' = [service EXCEPT ![s] = AfterExit(s, code)]
      /\ remaining' = IF children[p].awaited THEN remaining - 1 ELSE remaining
      /\ exited' = (children[p].awaited /\ remaining' = 0)
      /\ children' = Restrict(children, DOMAIN children \ {p})
  BY DEF ProcessExits
<1>2. s \in Service /\ service[s] \in Entry /\ service \in [Service -> Entry]
  BY <1>1 DEF IInv, EntriesTyped
<1>3. AfterExit(s, code).restarts \in 0 .. MaxRestarts[s]
  <2>1. service[s].restarts \in 0 .. MaxRestarts[s]
    BY <1>2 DEF RestartsWithin
  <2> DEFINE again == ~service[s].shuttingDown /\ ~shuttingDown /\ RestartAllowed(s, code)
  <2>2. AfterExit(s, code).restarts = IF again THEN service[s].restarts + 1
                                      ELSE service[s].restarts
    BY <1>2 DEF AfterExit, Entry
  <2>3. again => service[s].restarts < MaxRestarts[s]
    BY DEF RestartAllowed
  <2>4. MaxRestarts[s] \in Nat
    BY <1>2, ConfigAssumption
  <2> HIDE DEF again
  <2> QED
    BY <2>1, <2>2, <2>3, <2>4
<1>4. RestartsWithin'
  BY <1>1, <1>2, <1>3 DEF RestartsWithin
<1>5. Awaited' = Awaited \ {p}
  BY <1>1 DEF Awaited, Restrict
<1>6. IsFiniteSet(Awaited) /\ Cardinality(Awaited) <= remaining /\ Cardinality(Awaited) \in Nat
  BY <1>1, FS_CardinalityType DEF ExitsCounted
<1>7. /\ IsFiniteSet(Awaited')
      /\ Cardinality(Awaited') = IF p \in Awaited THEN Cardinality(Awaited) - 1
                                 ELSE Cardinality(Awaited)
      /\ Cardinality(Awaited') \in Nat
  BY <1>5, <1>6, FS_RemoveElement, FS_CardinalityType
<1>8. remaining \in 0 .. Cardinality(Service) /\ Cardinality(Service) \in Nat
  BY ServicesFinite DEF ExitsCounted
<1>9. p \in Awaited <=> children[p].awaited
  BY <1>1 DEF Awaited
<1>10. remaining' \in 0 .. Cardinality(Service) /\ Cardinality(Awaited') <= remaining'
  <2>1. CASE p \in Awaited
    BY <1>1, <1>6, <1>7, <1>8, <1>9, <2>1
  <2>2. CASE p \notin Awaited
    BY <1>1, <1>6, <1>7, <1>8, <1>9, <2>2
  <2> QED
    BY <2>1, <2>2
<1>11. exited' \in BOOLEAN
  BY <1>1
<1>12. ~shuttingDown' => Awaited' = {}
  BY <1>1, <1>5 DEF ExitsCounted
<1>13. runningServices' \subseteq Service
  BY <1>1 DEF ExitsCounted
<1> QED
  BY <1>4, <1>7, <1>10, <1>11, <1>12, <1>13 DEF ExitsCounted

\* A shutdown listens for the process each running service tracks: one each.
LEMMA ShutdownKeepsLimits ==
    ASSUME CountInv, Shutdown
    PROVE  RestartsWithin' /\ ExitsCounted'
<1> DEFINE running == {s \in Service : service[s].process # NoProcess}
<1> USE DEF CountInv
<1>1. /\ ~exited /\ ~shuttingDown /\ shuttingDown'
      /\ runningServices' = running /\ remaining' = Cardinality(running)
      /\ exited' = (running = {})
      /\ DOMAIN children' = DOMAIN children
  BY DEF Shutdown
<1>2. RestartsWithin'
  <2> SUFFICES ASSUME NEW s \in Service
               PROVE  service'[s].restarts = service[s].restarts
    BY DEF RestartsWithin
  <2>1. service[s] \in Entry
    BY DEF IInv, EntriesTyped
  <2>2. \/ service'[s] = [service[s] EXCEPT !.shuttingDown = TRUE, !.pendingRestart = FALSE]
        \/ service'[s] = service[s]
    BY DEF Shutdown
  <2> QED
    BY <2>1, <2>2 DEF Entry
<1>3. IsFiniteSet(running) /\ Cardinality(running) \in 0 .. Cardinality(Service)
  BY ServicesFinite, FS_Subset, FS_CardinalityType
<1>4. ASSUME NEW p \in Awaited'
      PROVE  /\ children[p].service \in running
             /\ service[children[p].service].process = p
  <2>1. /\ p \in DOMAIN children /\ ~children[p].awaited
        /\ children[p] \in [service : Service, awaited : BOOLEAN]
        /\ p # NoProcess
    BY <1>1, ConfigAssumption DEF Awaited, ExitsCounted, IInv, EntriesTyped
  <2>2. children'[p].awaited
    BY DEF Awaited
  <2>3. children'[p] = [children[p] EXCEPT
                           !.awaited = @ \/ service[children[p].service].process = p]
    BY <2>1 DEF Shutdown
  <2> QED
    BY <2>1, <2>2, <2>3
<1>5. IsFiniteSet(Awaited') /\ Cardinality(Awaited') <= Cardinality(running)
  <2> DEFINE f == [p \in Awaited' |-> children[p].service]
  <2>1. f \in Injection(Awaited', running)
    BY <1>4 DEF Injection, IsInjective
  <2> HIDE DEF f, running
  <2> QED
    BY <1>3, <2>1, FS_Injection
<1> QED
  BY <1>1, <1>2, <1>3, <1>5 DEF ExitsCounted

\* For any services, policies, keys and limits the supervisor's counters stay
\* in their ranges: no service is restarted more often than its limit allows,
\* and the shutdown never counts more exits than it waits for.
THEOREM LimitsKept == Spec => []TypeOK
<1>1. CountInv /\ [Next]_vars => CountInv'
  <2> SUFFICES ASSUME CountInv, [Next]_vars
               PROVE  RestartsWithin' /\ ExitsCounted'
    BY StepInv DEF CountInv
  <2> USE DEF CountInv
  <2>1. ASSUME NEW p \in Proc, NEW code \in ExitCode, ProcessExits(p, code)
        PROVE  RestartsWithin' /\ ExitsCounted'
    BY <2>1, ExitKeepsLimits
  <2>2. ASSUME NEW s \in Service, RestartTimer(s) \/ PressToggle(s)
        PROVE  RestartsWithin' /\ ExitsCounted'
    <3>1. ~exited /\ UNCHANGED shutdownVars
      BY <2>2 DEF RestartTimer, PressToggle
    <3>2. CASE StartService(s)
      BY <3>1, <3>2, StartKeepsCount
    <3>3. CASE UNCHANGED children /\ \A t \in Service :
                  service'[t].restarts = service[t].restarts
      BY <3>1, <3>3 DEF RestartsWithin, ExitsCounted, Awaited, shutdownVars
    <3>4. \/ StartService(s)
          \/ /\ UNCHANGED children
             /\ \/ service' = [service EXCEPT ![s].pendingRestart = FALSE]
                \/ service' = [service EXCEPT ![s].pendingRestart = FALSE,
                                              ![s].shuttingDown = TRUE]
      BY <2>2 DEF RestartTimer, PressToggle, StopService
    <3>5. service \in [Service -> Entry]
      BY DEF IInv, EntriesTyped
    <3>6. ASSUME NEW t \in Service, ~StartService(s)
          PROVE  service'[t].restarts = service[t].restarts
      <4>1. service[t] \in Entry
        BY <3>5
      <4> QED
        BY <3>4, <3>5, <3>6, <4>1 DEF Entry
    <3> QED
      BY <3>2, <3>3, <3>4, <3>6
  <2>3. CASE Shutdown
    BY <2>3, ShutdownKeepsLimits
  <2>4. CASE ShutdownTimeout
    BY <2>4 DEF ShutdownTimeout, RestartsWithin, ExitsCounted
  <2>5. CASE UNCHANGED vars
    BY <2>5 DEF vars, RestartsWithin, ExitsCounted, Awaited
  <2> QED
    BY <2>1, <2>2, <2>3, <2>4, <2>5 DEF Next, PressRestartAll
<1>2. CountInv => TypeOK
  <2> SUFFICES ASSUME CountInv
               PROVE  TypeOK
    OBVIOUS
  <2>1. ASSUME NEW s \in Service
        PROVE  service[s] \in ServiceEntry
    BY DEF CountInv, IInv, EntriesTyped, RestartsWithin, Entry, ServiceEntry
  <2>2. service \in [Service -> ServiceEntry]
    BY <2>1 DEF CountInv, IInv, EntriesTyped
  <2>3. \A s \in Service : service[s].restarts <= MaxRestarts[s]
    BY ConfigAssumption DEF CountInv, RestartsWithin
  <2> QED
    BY <2>2, <2>3 DEF CountInv, IInv, EntriesTyped, ExitsCounted, TypeOK
<1> QED
  BY InitCount, <1>1, <1>2, PTL DEF Spec
=============================================================================
