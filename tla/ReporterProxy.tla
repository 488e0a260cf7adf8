--------------------------- MODULE ReporterProxy ---------------------------
(***************************************************************************)
(* The HTTP proxy that lends reporters to programs without gRPC            *)
(* (apps/topology/src/topology-reporter-proxy.ts), beside programs that    *)
(* embed a reporter: every /register makes a reporter that is registered   *)
(* but not started, the proxy files it under its id, and /unregister and   *)
(* the end of the proxy shut it down.  A request handler runs from one     *)
(* await to the next in one step; /heartbeat and /activity read the file   *)
(* and change nothing.                                                     *)
(*                                                                         *)
(* The proxy runs in the process of a topology service                     *)
(* (apps/topology/src/topology.ts) and reports to that service, so that a  *)
(* crash of it takes the proxy and what it lends along, or, by an option,  *)
(* to a service elsewhere.                                                 *)
(***************************************************************************)
EXTENDS TopologyReporter, Functions

CONSTANTS
    Direct,     \* reporters embedded in a program; the rest are the proxy's
    OwnService  \* the proxy reports to the service of its own process

ASSUME DirectAssumption == Direct \subseteq Reporter /\ OwnService \in BOOLEAN

VARIABLES
    services,   \* id -> the reporter filed under it
    awaited,    \* ids whose shutdown a handler of /unregister awaits
    stopping    \* progress of stop: its phase, the ids seen and the one awaited, or NoId

vars == <<reporter, call, leaving, broken, issued, registered, overslept, up, faults,
          services, awaited, stopping>>
proxyVars == <<services, awaited, stopping>>

Proxied == Reporter \ Direct
Filed(id, r) == [i \in DOMAIN services \cup {id} |-> IF i = id THEN r ELSE services[i]]
Without(id) == Restrict(services, DOMAIN services \ {id})
Accepting == stopping.phase \in {"no", "loop"} /\ (OwnService => up)
Progress(ids) ==
    [phase : {"no", "loop", "closed", "exited"}, seen : SUBSET (1 .. ids), awaits : 0 .. ids]
NotStopping == [phase |-> "no", seen |-> {}, awaits |-> NoId]
Empty == Restrict(services, {})

(***************************************************************************)
(* Requests.                                                               *)
(***************************************************************************)
\* /register; a reporter whose call the service never saw is dropped, and may
\* stand for the next request's.
HandleRegister(r) ==
    /\ Accepting
    /\ reporter[r] = NewReporter /\ call[r] = NoCall
    /\ \A id \in DOMAIN issued : issued[id] # r
    /\ call' = [call EXCEPT ![r] = Called(r)]
    /\ UNCHANGED <<reporter, leaving, broken>> /\ UNCHANGED serviceVars
    /\ UNCHANGED proxyVars

\* A mutated HandleRegistered: once stop has cleared the file it files nothing,
\* and leaves the reporter running.
HandleRegisteredUnlessClosed(r) ==
    /\ RegisterAnswered(r)
    /\ services' = IF reporter'[r].serviceId = NoId \/ stopping.phase = "closed" THEN services
                   ELSE Filed(reporter'[r].serviceId, r)
    /\ UNCHANGED <<awaited, stopping>>

\* The handler goes on after its await.
HandleRegistered(r) ==
    /\ RegisterAnswered(r)
    /\ services' = IF reporter'[r].serviceId = NoId THEN services
                   ELSE Filed(reporter'[r].serviceId, r)
    /\ UNCHANGED <<awaited, stopping>>

\* /unregister; a second request for an id finds the shutdown begun and does
\* not wait for it.
HandleUnregister(id) ==
    /\ Accepting
    /\ id \in DOMAIN services
    /\ IF reporter[services[id]].isShuttingDown
       THEN /\ services' = Without(id)
            /\ UNCHANGED awaited /\ UNCHANGED reporterVars
       ELSE /\ Shutdown(services[id])
            /\ awaited' = awaited \cup {id}
            /\ UNCHANGED services
    /\ UNCHANGED stopping

HandleUnregistered(id) ==
    /\ id \in awaited /\ Closed(issued[id])
    /\ awaited' = awaited \ {id}
    /\ services' = Without(id)
    /\ UNCHANGED stopping /\ UNCHANGED reporterVars

(***************************************************************************)
(* stop, and the end of the process.                                       *)
(***************************************************************************)
\* The loop of stop up to its next await, or past its end.  It also sees the
\* entries filed while it waited; which one is next does not matter here.  A
\* shutdown that /unregister has begun is not waited for.
Loop(seen) ==
    \/ /\ \E id \in DOMAIN services \ seen :
             IF reporter[services[id]].isShuttingDown
             THEN /\ stopping' = [phase |-> "loop", seen |-> seen \cup {id}, awaits |-> NoId]
                  /\ UNCHANGED reporterVars
             ELSE /\ stopping' = [phase |-> "loop", seen |-> seen \cup {id}, awaits |-> id]
                  /\ Shutdown(services[id])
       /\ UNCHANGED services
    \/ /\ DOMAIN services \subseteq seen
       /\ services' = Empty
       /\ stopping' = [phase |-> "closed", seen |-> seen, awaits |-> NoId]
       /\ UNCHANGED reporterVars

Stop ==
    /\ stopping.phase = "no" /\ Accepting
    /\ Loop({}) /\ UNCHANGED awaited

StopResumes ==
    /\ stopping.phase = "loop"
    /\ stopping.awaits # NoId => Closed(issued[stopping.awaits])
    /\ Loop(stopping.seen) /\ UNCHANGED awaited

\* Once the requests under way are answered the process ends, and stays ended
\* here: one that is started again is a new one after a crash.
Exit ==
    /\ stopping.phase = "closed" /\ awaited = {} /\ \A r \in Proxied : call[r] = NoCall
    /\ IF OwnService THEN Crash(Proxied) ELSE Die(Proxied)
    /\ services' = Empty
    /\ stopping' = [NotStopping EXCEPT !.phase = "exited"]
    /\ UNCHANGED <<awaited, faults>>

\* The proxy's process dies; one that takes its place has an empty file.
ProxyDies ==
    /\ stopping.phase # "exited"
    /\ IF OwnService THEN Crash(Proxied) ELSE Die(Proxied)
    /\ Fault
    /\ services' = Empty /\ awaited' = {} /\ stopping' = NotStopping

\* The service elsewhere dies, or a program with a reporter of its own.
OtherDies ==
    /\ Fault
    /\ \/ ~OwnService /\ Crash({})
       \/ \E r \in Direct : Die({r})
    /\ UNCHANGED proxyVars

(***************************************************************************)
(* The specification.                                                      *)
(***************************************************************************)
Init ==
    /\ ReporterInit
    /\ services = [id \in {} |-> {}]
    /\ awaited = {}
    /\ stopping = NotStopping

Requests ==
    \/ \E r \in Proxied : HandleRegister(r)
    \/ \E id \in DOMAIN services : HandleUnregister(id)

Continue(r) ==
    \/ r \in Proxied /\ HandleRegistered(r)
    \/ r \in Direct /\ RegisterAnswered(r) /\ UNCHANGED proxyVars
    \/ (RegisterFailed(r) \/ RetryDelayEnds(r)) /\ UNCHANGED proxyVars
    \/ \E kind \in Kind, id \in Id : StreamBroken(r, kind, id) /\ UNCHANGED proxyVars

Answer(r) ==
    /\ ServeRegister(r) \/ RegisterTimeout(r) \/ ServeUnregister(r) \/ UnregisterTimeout(r)
    /\ UNCHANGED proxyVars

Next ==
    \/ Requests
    \/ Stop \/ StopResumes \/ Exit \/ ProxyDies \/ OtherDies
    \/ \E id \in awaited : HandleUnregistered(id)
    \/ \E r \in Direct : (Start(r) \/ Shutdown(r)) /\ UNCHANGED proxyVars
    \/ \E r \in Reporter : Continue(r) \/ Answer(r)
    \/ /\ \/ \E r \in Reporter : StreamsBreak(r)
          \/ \E id \in registered : Sweep(id)
          \/ Restart /\ (OwnService => stopping.phase # "exited")
       /\ UNCHANGED proxyVars

Spec == Init /\ [][Next]_vars

\* Continuations run, calls are answered or fail by their deadline, the sweep
\* timer of the service fires, and a stop that has come to its end ends the
\* process.  Nobody has to start, shut down, request or break anything.
Fairness ==
    /\ \A r \in Reporter : WF_vars(Continue(r)) /\ WF_vars(Answer(r))
    /\ \A id \in Id : WF_vars(~Beating(id) /\ Sweep(id) /\ UNCHANGED proxyVars)
                      /\ WF_vars(id \in awaited /\ HandleUnregistered(id))
    /\ WF_vars(StopResumes) /\ WF_vars(Exit)

FairSpec == Spec /\ Fairness

(***************************************************************************)
(* Properties.                                                             *)
(***************************************************************************)
TypeOK ==
    /\ ReporterTypeOK
    /\ services \in [DOMAIN services -> Proxied] /\ DOMAIN services \subseteq 1 .. Len(issued)
    /\ awaited \subseteq 1 .. Len(issued)
    /\ stopping \in Progress(Len(issued))

\* A reporter of the proxy that holds a registration is known on both sides.
\* The proxy has it filed under its id: /unregister finds it, and a stop that
\* has cleared the file has passed none by, so that what still beats then was
\* answered too late and ends with the process.  And the service lists it: the
\* proxy answers ok for an id nobody lists only if the heartbeat stream broke,
\* which a lent reporter does not repair, or its heartbeats came too late.
BeatingIsKnown ==
    \A r \in Proxied :
        LET id == reporter[r].serviceId
        IN  id # NoId =>
                /\ id \in DOMAIN services /\ services[id] = r
                /\ id \in registered \cup overslept \/ <<r, "heartbeat", id>> \in broken
=============================================================================
