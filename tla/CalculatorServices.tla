------------------------ MODULE CalculatorServices ------------------------
(***************************************************************************)
(* Providers and clients of the calculator around a broker: the TypeScript *)
(* server and client (apps/calculator-server, apps/calculator-client, with *)
(* BrokerClientManager.ts) and the Rust ones (calculator-server-rust,      *)
(* calculator-client-rust) and the C++ client (calculator-client-cpp),     *)
(* which poll.  Some of the programs are started; one that has ended is    *)
(* not started again here, and is signalled once.                          *)
(*                                                                         *)
(* A call that breaks with its connection fails at once.  A register call  *)
(* is served in one step and its answer handled in another; nothing else   *)
(* depends on when the answer to an unregister call is handled.            *)
(***************************************************************************)
EXTENDS Broker, FiniteSetsExt

CONSTANTS
    Server, RustServer, Client, RustClient, CppClient,
    Started,    \* the sets of programs that may be started together
    MaxEnded    \* bound: processes that are ended or told to end

PollingClient == RustClient \cup CppClient

ASSUME ProgramAssumption ==
    /\ MaxEnded \in Nat
    /\ Provider = Server \cup RustServer /\ Server \cap RustServer = {}
    /\ Program = Server \cup Client /\ Provider \cap (Client \cup PollingClient) = {}
    /\ Client \cap PollingClient = {} /\ RustClient \cap CppClient = {}
    /\ \A some \in Started : some \subseteq Provider \cup Client \cup PollingClient

VARIABLES
    phase,      \* of every process
    registered, \* Server: the length of registeredServices
    answers,    \* Server: answers to registerService on their way
    waits,      \* Server: unregisterService promises not yet settled
    polling,    \* RustServer: where run_broker_registration is, and registered
    endpoint,   \* of each client: the provider it calls, or NoProvider
    results     \* Client: answers to getAvailableServices on their way

vars == <<services, listeners, changes, up, link, requests, crashes,
          phase, registered, answers, waits, polling, endpoint, results>>
serverVars == <<registered, answers, waits>>
clientVars == <<endpoint, results>>
processVars == <<phase, registered, answers, waits, polling, endpoint, results>>
connectionVars == <<up, link, requests, crashes>>

Process == Provider \cup Client \cup PollingClient
Leaving == {"closing", "stuck"}
Ends == Cardinality({p \in Process : phase[p] \in Leaving \cup {"exited"}}) < MaxEnded

\* A TypeScript server serves until it exits, a Rust one until it is signalled.
Serving(p) ==
    \/ phase[p] = "running"
    \/ p \in Server /\ phase[p] \in Leaving

\* What is left of a program's connection when its process ends.
Disconnect(c) ==
    /\ Unlistened(c)
    /\ link' = [link EXCEPT ![c] = NewLink]
    /\ requests' = [requests EXCEPT ![c] = <<>>]
    /\ UNCHANGED <<services, up, crashes>>

(***************************************************************************)
(* The TypeScript server.                                                  *)
(***************************************************************************)
\* A bind that fails is tried again after a delay.
StartServer(s) ==
    /\ phase[s] = "binding"
    /\ phase' = [phase EXCEPT ![s] = "running"]
    /\ link' = [link EXCEPT ![s] = Connecting(@)]
    /\ UNCHANGED registryVars /\ UNCHANGED <<up, requests, crashes, polling>>
    /\ UNCHANGED serverVars /\ UNCHANGED clientVars

ServerConnected(s) == Ready(s, <<"listen", "register">>) /\ UNCHANGED processVars

HandleRegistered(s) ==
    /\ answers[s] > 0
    /\ answers' = [answers EXCEPT ![s] = @ - 1]
    /\ registered' = [registered EXCEPT ![s] = @ + 1]
    /\ UNCHANGED brokerVars /\ UNCHANGED <<phase, waits, polling>> /\ UNCHANGED clientVars

\* Without a client the promises of BrokerClientManager.shutdown never settle.
HandleShutdown(s) ==
    /\ Ends
    /\ phase[s] \in {"binding", "running"}
    /\ phase' = [phase EXCEPT ![s] =
                    IF @ = "binding" THEN "exited"
                    ELSE IF link[s].client = "null" /\ registered[s] > 0 THEN "stuck"
                    ELSE "closing"]
    /\ waits' = [waits EXCEPT ![s] = registered[s]]
    /\ registered' = [registered EXCEPT ![s] = 0]
    /\ requests' = [requests EXCEPT ![s] =
                       IF link[s].client = "null" THEN @
                       ELSE @ \o [i \in 1 .. registered[s] |-> "unregister"]]
    /\ UNCHANGED registryVars /\ UNCHANGED <<up, link, crashes, answers, polling>>
    /\ UNCHANGED clientVars

ServerExits(s) ==
    /\ phase[s] = "closing" /\ waits[s] = 0
    /\ phase' = [phase EXCEPT ![s] = "exited"]
    /\ answers' = [answers EXCEPT ![s] = 0]
    /\ Disconnect(s)
    /\ UNCHANGED <<registered, waits, polling>> /\ UNCHANGED clientVars

ServerKilled(s) ==
    /\ Ends
    /\ Serving(s)
    /\ phase' = [phase EXCEPT ![s] = "exited"]
    /\ answers' = [answers EXCEPT ![s] = 0]
    /\ registered' = [registered EXCEPT ![s] = 0]
    /\ waits' = [waits EXCEPT ![s] = 0]
    /\ Disconnect(s)
    /\ UNCHANGED polling /\ UNCHANGED clientVars

(***************************************************************************)
(* The TypeScript client.                                                  *)
(***************************************************************************)
\* A mutated ClientConnected: the registry is read before its changes are
\* listened to.
ClientConnectedReadsFirst(c) ==
    /\ Ready(c, IF endpoint[c] = NoProvider THEN <<"list", "listen">> ELSE <<"listen">>)
    /\ UNCHANGED processVars

\* connected opens the stream, onConnected calls prepareClient.
ClientConnected(c) ==
    /\ Ready(c, IF endpoint[c] = NoProvider THEN <<"listen", "list">> ELSE <<"listen">>)
    /\ UNCHANGED processVars

\* prepareClient again; its call is never made without a client.
HandleChange(c) ==
    /\ changes[c] > 0
    /\ changes' = [changes EXCEPT ![c] = @ - 1]
    /\ requests' = [requests EXCEPT ![c] =
                       IF endpoint[c] = NoProvider /\ link[c].client # "null"
                       THEN Append(@, "list") ELSE @]
    /\ UNCHANGED <<services, listeners, up, link, crashes>> /\ UNCHANGED processVars

\* prepareClient goes on; it does not look at the endpoint a second time.
HandleServices(c) ==
    /\ \E p \in results[c] :
          /\ results' = [results EXCEPT ![c] = @ \ {p}]
          /\ endpoint' = [endpoint EXCEPT ![c] = IF p = NoProvider THEN @ ELSE p]
    /\ UNCHANGED brokerVars /\ UNCHANGED <<phase, polling>> /\ UNCHANGED serverVars

ClientExits(c) ==
    /\ Ends
    /\ phase[c] = "running"
    /\ phase' = [phase EXCEPT ![c] = "exited"]
    /\ results' = [results EXCEPT ![c] = {}]
    /\ Disconnect(c)
    /\ UNCHANGED <<polling, endpoint>> /\ UNCHANGED serverVars

(***************************************************************************)
(* The broker handles a call of a TypeScript program, or its crash fails   *)
(* every call there is.                                                    *)
(***************************************************************************)
Serve(c) ==
    /\ up /\ requests[c] # <<>>
    /\ requests' = [requests EXCEPT ![c] = Tail(@)]
    /\ LET call == Head(requests[c])
       IN  \/ /\ call = "listen" /\ NotifyServiceChanges(c)
              /\ UNCHANGED <<answers, waits, results>>
           \/ /\ call = "list"
              /\ results' = [results EXCEPT ![c] = @ \cup {First}]
              /\ UNCHANGED registryVars /\ UNCHANGED <<answers, waits>>
           \/ /\ call = "register" /\ c \in Server /\ RegisterService(c)
              /\ answers' = [answers EXCEPT ![c] = @ + 1]
              /\ UNCHANGED <<waits, results>>
           \/ /\ call = "unregister" /\ UnregisterService
              /\ waits' = [waits EXCEPT ![c] = @ - 1]
              /\ UNCHANGED <<answers, results>>
           \/ /\ call = "unregister" /\ services = <<>>
              /\ UNCHANGED registryVars /\ UNCHANGED <<answers, waits, results>>
    /\ UNCHANGED <<up, link, crashes, phase, registered, polling, endpoint>>

\* Calls made after the connection broke and before the program knew.
CallsFail(s) ==
    /\ ~up /\ requests[s] # <<>>
    /\ requests' = [requests EXCEPT ![s] = <<>>]
    /\ waits' = [waits EXCEPT ![s] = 0]
    /\ UNCHANGED registryVars /\ UNCHANGED <<up, link, crashes, phase, registered, answers, polling>>
    /\ UNCHANGED clientVars

\* A client that awaits getAvailableServices ends with an unhandled rejection;
\* an unregister call that fails has settled.
BrokerCrashes ==
    /\ Crash
    /\ LET rejected == {c \in Client : "list" \in ToSet(requests[c]) \/ results[c] # {}}
           released == {r \in RustServer : phase[r] = "stuck"}
       IN  /\ phase' = [p \in Process |->
                           IF p \in rejected \cup released THEN "exited" ELSE phase[p]]
           /\ results' = [c \in Client |-> {}]
    /\ waits' = [s \in Server |-> IF phase[s] = "stuck" THEN waits[s] ELSE 0]
    /\ answers' = [s \in Server |-> 0]
    /\ UNCHANGED <<registered, polling, endpoint>>

(***************************************************************************)
(* The Rust server.                                                        *)
(***************************************************************************)
\* A mutated IsRegistered: any entry of the service will do.
IsRegisteredByName(r) ==
    /\ up /\ phase[r] = "running" /\ polling[r].step = "sleep"
    /\ polling' = [polling EXCEPT ![r] =
                      IF services # <<>> THEN [@ EXCEPT !.registered = TRUE]
                      ELSE [@ EXCEPT !.step = "register"]]
    /\ UNCHANGED brokerVars /\ UNCHANGED serverVars /\ UNCHANGED <<phase, endpoint, results>>

\* A sleep ends and the entry is looked for; without a broker the next sleep
\* begins.
IsRegistered(r) ==
    /\ up /\ phase[r] = "running" /\ polling[r].step = "sleep"
    /\ polling' = [polling EXCEPT ![r] =
                      IF Listed(r) THEN [@ EXCEPT !.registered = TRUE]
                      ELSE [@ EXCEPT !.step = "register"]]
    /\ UNCHANGED brokerVars /\ UNCHANGED serverVars /\ UNCHANGED <<phase, endpoint, results>>

RustRegisters(r) ==
    /\ phase[r] \in {"running", "closing"} /\ polling[r].step = "register"
    /\ IF up
       THEN /\ RegisterService(r)
            /\ polling' = [polling EXCEPT ![r] = [step |-> "sleep", registered |-> TRUE]]
       ELSE /\ polling' = [polling EXCEPT ![r].step = "sleep"]
            /\ UNCHANGED registryVars
    /\ UNCHANGED connectionVars /\ UNCHANGED serverVars /\ UNCHANGED <<phase, endpoint, results>>

RustSignalled(r) ==
    /\ Ends
    /\ phase[r] = "running"
    /\ phase' = [phase EXCEPT ![r] = "closing"]
    /\ UNCHANGED brokerVars /\ UNCHANGED serverVars /\ UNCHANGED <<polling, endpoint, results>>

\* The loop breaks where it would sleep.
RustLeaves(r) ==
    /\ phase[r] = "closing" /\ polling[r].step = "sleep"
    /\ IF up /\ polling[r].registered
       THEN \/ /\ UnregisterService
               /\ phase' = [phase EXCEPT ![r] = "exited"]
            \/ /\ services = <<>>
               /\ phase' = [phase EXCEPT ![r] = "stuck"]
               /\ UNCHANGED registryVars
       ELSE /\ phase' = [phase EXCEPT ![r] = "exited"]
            /\ UNCHANGED registryVars
    /\ UNCHANGED connectionVars /\ UNCHANGED serverVars /\ UNCHANGED <<polling, endpoint, results>>

RustKilled(r) ==
    /\ Ends
    /\ phase[r] \in {"running"} \cup Leaving
    /\ phase' = [phase EXCEPT ![r] = "exited"]
    /\ UNCHANGED brokerVars /\ UNCHANGED serverVars /\ UNCHANGED <<polling, endpoint, results>>

(***************************************************************************)
(* The clients that poll, the Rust one and the C++ one.                    *)
(***************************************************************************)
\* connect_calculator tries the first entry only.
ConnectCalculator(k) ==
    /\ phase[k] = "running" /\ endpoint[k] = NoProvider
    /\ up /\ services # <<>> /\ Serving(First)
    /\ endpoint' = [endpoint EXCEPT ![k] = First]
    /\ UNCHANGED brokerVars /\ UNCHANGED serverVars /\ UNCHANGED <<phase, polling, results>>

\* main of the C++ client goes on with the first entry before it knows whether
\* it can be reached.
ResolveService(k) ==
    /\ phase[k] = "running" /\ endpoint[k] = NoProvider
    /\ up /\ services # <<>>
    /\ endpoint' = [endpoint EXCEPT ![k] = First]
    /\ UNCHANGED brokerVars /\ UNCHANGED serverVars /\ UNCHANGED <<phase, polling, results>>

\* A mutated CalculationFails: the client keeps its connection.
CalculationFailsKeeps(k) ==
    /\ phase[k] = "running"
    /\ endpoint[k] # NoProvider /\ ~Serving(endpoint[k])
    /\ UNCHANGED vars

CalculationFails(k) ==
    /\ phase[k] = "running"
    /\ endpoint[k] # NoProvider /\ ~Serving(endpoint[k])
    /\ endpoint' = [endpoint EXCEPT ![k] = NoProvider]
    /\ UNCHANGED brokerVars /\ UNCHANGED serverVars /\ UNCHANGED <<phase, polling, results>>

PollingClientExits(k) ==
    /\ Ends
    /\ phase[k] = "running"
    /\ phase' = [phase EXCEPT ![k] = "exited"]
    /\ UNCHANGED brokerVars /\ UNCHANGED serverVars /\ UNCHANGED <<polling, endpoint, results>>

(***************************************************************************)
(* The specification.                                                      *)
(***************************************************************************)
Init ==
    /\ BrokerInit
    /\ \E some \in Started :
          /\ link = [c \in Program |-> IF c \in Client \cap some THEN Connecting(NewLink)
                                      ELSE NewLink]
          /\ phase = [p \in Process |-> IF p \notin some THEN "exited"
                                        ELSE IF p \in Server THEN "binding" ELSE "running"]
    /\ registered = [s \in Server |-> 0]
    /\ answers = [s \in Server |-> 0]
    /\ waits = [s \in Server |-> 0]
    /\ polling = [r \in RustServer |-> [step |-> "sleep", registered |-> FALSE]]
    /\ endpoint = [c \in Client \cup PollingClient |-> NoProvider]
    /\ results = [c \in Client |-> {}]

\* What a program's own events and the broker's answers bring about.
ProgramStep(c) ==
    /\ phase[c] # "exited"
    /\ \/ (ReconnectTimer(c) \/ StreamEnds(c) \/ WatchFires(c)) /\ UNCHANGED processVars
       \/ Serve(c)
       \/ /\ c \in Server
          /\ \/ StartServer(c) \/ ServerConnected(c) \/ HandleRegistered(c)
             \/ CallsFail(c) \/ ServerExits(c)
       \/ /\ c \in Client
          /\ ClientConnected(c) \/ HandleChange(c) \/ HandleServices(c)

\* waitForReady gives up, which nothing obliges it to.
WaitFails(c) == phase[c] # "exited" /\ NotReady(c) /\ UNCHANGED processVars

RustServerStep(r) ==
    IsRegistered(r) \/ RustRegisters(r) \/ RustLeaves(r)

RustClientStep(k) == ConnectCalculator(k) \/ CalculationFails(k)
CppClientStep(k) == ResolveService(k) \/ CalculationFails(k)

Next ==
    \/ StartBrokerServer /\ UNCHANGED processVars
    \/ BrokerCrashes
    \/ \E c \in Program : ProgramStep(c) \/ WaitFails(c)
    \/ \E s \in Server : HandleShutdown(s) \/ ServerKilled(s)
    \/ \E c \in Client : ClientExits(c)
    \/ \E r \in RustServer : RustServerStep(r) \/ RustSignalled(r) \/ RustKilled(r)
    \/ \E k \in RustClient : RustClientStep(k)
    \/ \E k \in CppClient : CppClientStep(k)
    \/ \E k \in PollingClient : PollingClientExits(k)

Spec == Init /\ [][Next]_vars

\* The supervisor starts the broker again, events are handled, connections made
\* and calls answered, sleeps and timers end.
Fairness ==
    /\ WF_vars(StartBrokerServer /\ UNCHANGED processVars)
    /\ \A c \in Program : WF_vars(ProgramStep(c))
    /\ \A r \in RustServer : WF_vars(RustServerStep(r))
    /\ \A k \in RustClient : WF_vars(RustClientStep(k))
    /\ \A k \in CppClient : WF_vars(CppClientStep(k))

FairSpec == Spec /\ Fairness

(***************************************************************************)
(* Properties.                                                             *)
(***************************************************************************)
\* Every variable has its type.
TypeOK ==
    /\ BrokerTypeOK
    /\ phase \in [Process -> {"binding", "running", "exited"} \cup Leaving]
    /\ registered \in [Server -> Nat] /\ answers \in [Server -> Nat] /\ waits \in [Server -> Int]
    /\ polling \in [RustServer -> [step : {"sleep", "register"}, registered : BOOLEAN]]
    /\ endpoint \in [Client \cup PollingClient -> Provider \cup {NoProvider}]
    /\ results \in [Client -> SUBSET (Provider \cup {NoProvider})]

\* ClientManager: a program that has no client is about to get one, in
\* whatever order the end of the stream and the channel's change were handled.
NeverStranded ==
    \A c \in Program :
        phase[c] \in {"running"} \cup Leaving /\ link[c].client = "null" =>
            link[c].timer \/ "watch" \in link[c].lost

\* How many entries somebody is still going to have removed.
Owed(p) ==
    IF p \in Server
    THEN answers[p] + registered[p]
         + Cardinality({i \in DOMAIN requests[p] : requests[p][i] = "unregister"})
    ELSE IF polling[p].registered /\ phase[p] # "exited" THEN 1 ELSE 0

Removals == UNION {{p} \X (1 .. Owed(p)) : p \in Provider}

\* unregisterService: although a provider may be answered with the removal of
\* another one's entry, as long as the broker has not crashed there is an entry
\* for each removal to come, so that its answer will too.
EntriesCoverProviders == crashes = 0 => Cardinality(Removals) <= Len(services)

\* prepareClient: a connected client without an endpoint and with nothing under
\* way towards one has missed no registration.
ClientInformed ==
    \A c \in Client :
        /\ phase[c] = "running" /\ link[c].client = "ready" /\ link[c].lost = {}
        /\ requests[c] = <<>> /\ results[c] = {} /\ changes[c] = 0
        /\ endpoint[c] = NoProvider
        => services = <<>>

\* handleShutdown: a provider that is told to end does, unless the broker
\* crashes (then it may wait for ever for an answer).
ShutdownEnds ==
    \A p \in Provider : phase[p] \in Leaving ~> (phase[p] = "exited" \/ crashes > 0)

\* A provider that goes on running is listed in the end and stays so, through
\* restarts of the broker: the Rust server whoever else leaves, the TypeScript
\* server provided nobody leaves and takes its entry away.
Relisted ==
    \A p \in Provider :
        <>[](phase[p] = "running")
        => \/ <>[]Listed(p)
           \/ p \in Server /\ <>(\E q \in Provider : phase[q] \in Leaving)

\* The clients that poll: while the first entry is one of a living provider, each
\* ends up at a living provider for good, also when it has resolved a dead one.
PollingClientRecovers ==
    \A k \in PollingClient :
        <>[](phase[k] = "running" /\ up /\ services # <<>> /\ Serving(First))
        => <>[](endpoint[k] # NoProvider /\ Serving(endpoint[k]))
=============================================================================
