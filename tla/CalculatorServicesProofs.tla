---------------------- MODULE CalculatorServicesProofs ----------------------
(***************************************************************************)
(* Theorems about the programs around the broker, for any number of them   *)
(* and of crashes: the types; that no program is left without a connection *)
(* and without anything that would bring one; that until the broker        *)
(* crashes there is an entry for every removal to come; and that no        *)
(* registration escapes a client.                                          *)
(***************************************************************************)
EXTENDS CalculatorServices, FiniteSetTheorems, FunctionTheorems, TLAPS

-----------------------------------------------------------------------------
\* The invariant.

\* Until a server has bound it has no connection; a connection that is being
\* made has lost nothing; and once the change of the channel is handled, the
\* reconnect timer runs until the end of the stream is handled too.
LinkSound(c) ==
    LET l == link[c]
    IN  /\ phase[c] = "binding" => l = NewLink
        /\ l.client = "connecting" => l.lost = {}
        /\ "stream" \in l.lost /\ "watch" \notin l.lost => l.timer
        /\ phase[c] \in {"running"} \cup Leaving /\ l.client = "null"
              => l.timer \/ "watch" \in l.lost

Inv == TypeOK /\ \A c \in Program : LinkSound(c)

Link == [client : {"null", "connecting", "ready"}, timer : BOOLEAN,
         lost : SUBSET {"stream", "watch"}]

LEMMA LinksTyped ==
    ASSUME NEW l \in Link
    PROVE  NewLink \in Link /\ Connecting(l) \in Link /\ Scheduled(l) \in Link
<1>1. NewLink \in Link
  BY DEF Link, NewLink
<1>2. [l EXCEPT !.client = "connecting"] \in Link /\ [l EXCEPT !.timer = TRUE] \in Link
  BY DEF Link
<1> QED
  BY <1>1, <1>2 DEF Connecting, Scheduled

LEMMA InitInv == Init => Inv
<1> SUFFICES ASSUME Init
             PROVE  Inv
  OBVIOUS
<1>0. PICK some \in Started :
        /\ link = [c \in Program |-> IF c \in Client \cap some THEN Connecting(NewLink)
                                    ELSE NewLink]
        /\ phase = [p \in Process |-> IF p \notin some THEN "exited"
                                      ELSE IF p \in Server THEN "binding" ELSE "running"]
  BY DEF Init
<1>1. \A c \in Program : link[c] = IF c \in Client \cap some THEN Connecting(NewLink) ELSE NewLink
  BY <1>0
<1>2. NewLink \in Link /\ Connecting(NewLink) \in Link
  <2>1. NewLink \in Link
    BY DEF Link, NewLink
  <2> QED
    BY <2>1, LinksTyped
<1>3. Program \subseteq Process /\ Server \cap Client = {}
  BY ProgramAssumption DEF Process
<1>4. BrokerTypeOK
  <2>1. link \in [Program -> Link]
    BY <1>0, <1>2
  <2>2. services \in Seq(Provider) /\ listeners \subseteq Program /\ changes \in [Program -> Nat]
    BY DEF Init, BrokerInit
  <2>5. up \in BOOLEAN
    BY DEF Init, BrokerInit
  <2>4. crashes \in 0 .. MaxCrashes
    BY BrokerAssumption DEF Init, BrokerInit
  <2>3. requests \in [Program -> Seq({"listen", "list", "register", "unregister"})]
    BY DEF Init, BrokerInit
  <2> QED
    BY <2>1, <2>2, <2>3, <2>4, <2>5 DEF BrokerTypeOK, Link
<1>5. TypeOK
  BY <1>4 DEF Init, TypeOK
<1>6. ASSUME NEW c \in Program
      PROVE  LinkSound(c)
  <2>1. phase[c] = IF c \notin some THEN "exited"
                   ELSE IF c \in Server THEN "binding" ELSE "running"
    BY <1>0, <1>3
  <2> QED
    BY <1>1, <1>3, <2>1, ProgramAssumption DEF LinkSound, NewLink, Connecting, Leaving
<1> QED
  BY <1>5, <1>6 DEF Inv

-----------------------------------------------------------------------------
\* Connections.

LEMMA SameLinkSound ==
    ASSUME NEW c \in Program, LinkSound(c), link'[c] = link[c],
           \/ phase'[c] = phase[c]
           \/ phase[c] \in {"running"} \cup Leaving /\ phase'[c] \in Leaving \cup {"exited"}
           \/ phase'[c] = "exited"
    PROVE  LinkSound(c)'
BY DEF LinkSound, Leaving

\* What happens to the link of one program.
LEMMA LinkStepSound ==
    ASSUME TypeOK, NEW c \in Program, NEW calls, LinkSound(c), phase'[c] = phase[c],
           Ready(c, calls) \/ NotReady(c) \/ ReconnectTimer(c) \/ StreamEnds(c) \/ WatchFires(c)
    PROVE  LinkSound(c)'
<1>1. link \in [Program -> Link] /\ link[c] \in Link
  BY DEF TypeOK, BrokerTypeOK, Link
<1> USE DEF LinkSound, Leaving
<1>2. CASE Ready(c, calls)
  <2>1. /\ link[c].client = "connecting"
        /\ link'[c] = [link[c] EXCEPT !.client = "ready", !.timer = FALSE]
    BY <1>1, <1>2 DEF Ready
  <2>2. /\ link'[c].client = "ready" /\ link'[c].lost = link[c].lost
        /\ phase[c] # "binding"
    BY <1>1, <2>1 DEF Link, NewLink
  <2> QED
    BY <2>1, <2>2
<1>3. CASE NotReady(c)
  <2>1. /\ link[c].client = "connecting"
        /\ link'[c] = Scheduled([link[c] EXCEPT !.client = "null"])
    BY <1>1, <1>3 DEF NotReady
  <2>2. /\ link'[c].client = "null" /\ link'[c].timer /\ link'[c].lost = link[c].lost
        /\ phase[c] # "binding"
    BY <1>1, <2>1 DEF Link, NewLink, Scheduled
  <2> QED
    BY <2>2
<1>4. CASE ReconnectTimer(c)
  <2>1. /\ link[c].timer /\ link[c].lost = {}
        /\ link'[c] = Connecting([link[c] EXCEPT !.timer = FALSE])
    BY <1>1, <1>4 DEF ReconnectTimer
  <2>2. link'[c].client # "null" /\ link'[c].lost = {} /\ phase[c] # "binding"
    BY <1>1, <2>1 DEF Link, NewLink, Connecting
  <2> QED
    BY <2>2
<1>5. CASE StreamEnds(c)
  <2>1. /\ "stream" \in link[c].lost
        /\ link'[c] = Cleared(link[c], "stream")
    BY <1>1, <1>5 DEF StreamEnds
  <2>2. /\ link'[c].client = "null" /\ link'[c].lost = link[c].lost \ {"stream"}
        /\ link'[c].timer = link[c].timer /\ phase[c] # "binding"
    BY <1>1, <2>1 DEF Link, NewLink, Cleared
  <2> QED
    BY <2>1, <2>2
<1>6. CASE WatchFires(c)
  <2>1. /\ "watch" \in link[c].lost
        /\ link'[c] = Scheduled(Cleared(link[c], "watch"))
    BY <1>1, <1>6 DEF WatchFires
  <2>2. link'[c].client = "null" /\ link'[c].timer /\ phase[c] # "binding"
    BY <1>1, <2>1 DEF Link, NewLink, Scheduled, Cleared
  <2> QED
    BY <2>2
<1> QED
  BY <1>2, <1>3, <1>4, <1>5, <1>6

\* Steps in which at most one program's link changes, and not in being lost.
LEMMA LinksSound ==
    ASSUME TypeOK, \A c \in Program : LinkSound(c), NEW p \in Program,
           \A c \in Program \ {p} : link'[c] = link[c] /\ phase'[c] = phase[c],
           LinkSound(p)'
    PROVE  \A c \in Program : LinkSound(c)'
<1>1. ASSUME NEW c \in Program, c # p
      PROVE  LinkSound(c)'
  BY <1>1, SameLinkSound
<1> QED
  BY <1>1

-----------------------------------------------------------------------------
\* Types.

Calls == {"listen", "list", "register", "unregister"}

LEMMA NotifiedTyped ==
    ASSUME changes \in [Program -> Nat]
    PROVE  Notified \in [Program -> Nat]
BY DEF Notified

LEMMA FirstTyped ==
    ASSUME services \in Seq(Provider)
    PROVE  First \in Provider \cup {NoProvider}
BY DEF First

\* The registry keeps its type, whichever call is handled.
LEMMA RegistryTyped ==
    ASSUME BrokerTypeOK,
           \/ UNCHANGED registryVars
           \/ \E p \in Provider : RegisterService(p)
           \/ UnregisterService
           \/ \E c \in Program : NotifyServiceChanges(c)
           \/ \E c \in Program : Unlistened(c) /\ UNCHANGED services
    PROVE  /\ services' \in Seq(Provider) /\ listeners' \subseteq Program
           /\ changes' \in [Program -> Nat]
<1>1. services \in Seq(Provider) /\ listeners \subseteq Program /\ changes \in [Program -> Nat]
  BY DEF BrokerTypeOK
<1>2. CASE UNCHANGED registryVars
  BY <1>1, <1>2 DEF registryVars
<1>3. CASE \E p \in Provider : RegisterService(p)
  BY <1>1, <1>3, NotifiedTyped DEF RegisterService
<1>4. CASE UnregisterService
  BY <1>1, <1>4, NotifiedTyped DEF UnregisterService
<1>5. CASE \E c \in Program : NotifyServiceChanges(c)
  BY <1>1, <1>5 DEF NotifyServiceChanges
<1>6. CASE \E c \in Program : Unlistened(c) /\ UNCHANGED services
  BY <1>1, <1>6 DEF Unlistened
<1> QED
  BY <1>2, <1>3, <1>4, <1>5, <1>6

\* The connection of one program, and what it asks for.
LEMMA ConnectionTyped ==
    ASSUME BrokerTypeOK, NEW c \in Program, NEW calls \in Seq(Calls),
           \/ Ready(c, calls) \/ NotReady(c) \/ ReconnectTimer(c) \/ StreamEnds(c) \/ WatchFires(c)
    PROVE  BrokerTypeOK'
<1>1. link \in [Program -> Link] /\ link[c] \in Link /\ requests \in [Program -> Seq(Calls)]
  BY DEF BrokerTypeOK, Link, Calls
<1>2. \A l \in Link, e \in {"stream", "watch"} : Cleared(l, e) \in Link
  BY DEF Link, Cleared
<1>3. \A l \in Link : [l EXCEPT !.client = "null"] \in Link /\ [l EXCEPT !.timer = FALSE] \in Link
                      /\ [l EXCEPT !.client = "ready", !.timer = FALSE] \in Link
  BY DEF Link
<1>4. link' \in [Program -> Link]
  <2>1. \E l \in Link : link' = [link EXCEPT ![c] = l]
    <3>1. CASE Ready(c, calls)
      BY <1>1, <1>3, <3>1 DEF Ready
    <3>2. CASE NotReady(c)
      BY <1>1, <1>3, <3>2, LinksTyped DEF NotReady
    <3>3. CASE ReconnectTimer(c)
      BY <1>1, <1>3, <3>3, LinksTyped DEF ReconnectTimer
    <3>4. CASE StreamEnds(c)
      BY <1>1, <1>2, <3>4 DEF StreamEnds
    <3>5. CASE WatchFires(c)
      BY <1>1, <1>2, <3>5, LinksTyped DEF WatchFires
    <3> QED
      BY <3>1, <3>2, <3>3, <3>4, <3>5
  <2> QED
    BY <1>1, <2>1
<1>5. requests' \in [Program -> Seq(Calls)]
  <2>1. \A s, t \in Seq(Calls) : s \o t \in Seq(Calls)
    OBVIOUS
  <2>2. CASE Ready(c, calls)
    <3>1. requests' = [requests EXCEPT ![c] = requests[c] \o calls]
      BY <2>2 DEF Ready
    <3> QED
      BY <1>1, <2>1, <3>1
  <2> QED
    BY <1>1, <2>2 DEF NotReady, ReconnectTimer, StreamEnds, WatchFires
<1>6. UNCHANGED <<registryVars, up, crashes>>
  BY DEF Ready, NotReady, ReconnectTimer, StreamEnds, WatchFires
<1> QED
  BY <1>4, <1>5, <1>6 DEF BrokerTypeOK, Link, Calls, registryVars

LEMMA SetsOfProcesses ==
    /\ Program \subseteq Process /\ Server \subseteq Program /\ Client \subseteq Program
    /\ Provider \subseteq Process /\ RustServer \subseteq Process /\ PollingClient \subseteq Process
    /\ Server \subseteq Provider /\ RustServer \subseteq Provider
BY ProgramAssumption DEF Process, PollingClient

\* The variables that are not the broker's.
ProcessTypeOK ==
    /\ phase \in [Process -> {"binding", "running", "exited"} \cup Leaving]
    /\ registered \in [Server -> Nat] /\ answers \in [Server -> Nat] /\ waits \in [Server -> Int]
    /\ polling \in [RustServer -> [step : {"sleep", "register"}, registered : BOOLEAN]]
    /\ endpoint \in [Client \cup PollingClient -> Provider \cup {NoProvider}]
    /\ results \in [Client -> SUBSET (Provider \cup {NoProvider})]

-----------------------------------------------------------------------------
\* The steps.

LEMMA ConnectionInv ==
    ASSUME Inv, UNCHANGED processVars, NEW c \in Program, NEW calls \in Seq(Calls),
           \/ Ready(c, calls) \/ NotReady(c) \/ ReconnectTimer(c) \/ StreamEnds(c) \/ WatchFires(c)
    PROVE  Inv'
<1>1. TypeOK'
  BY ConnectionTyped DEF Inv, TypeOK, processVars
<1>2. LinkSound(c)'
  BY LinkStepSound DEF Inv, processVars
<1>3. \A q \in Program \ {c} : link'[q] = link[q] /\ phase'[q] = phase[q]
  <2>1. link \in [Program -> Link]
    BY DEF Inv, TypeOK, BrokerTypeOK, Link
  <2> QED
    BY <2>1 DEF Ready, NotReady, ReconnectTimer, StreamEnds, WatchFires, processVars
<1> QED
  BY <1>1, <1>2, <1>3, LinksSound DEF Inv

\* A process leaves or ends, and its connection is as it was or gone.
LEMMA DepartureSound ==
    ASSUME Inv, NEW p \in Process,
           \A q \in Process \ {p} : phase'[q] = phase[q],
           \/ phase'[p] = "exited"
           \/ phase[p] \in {"running"} \cup Leaving /\ phase'[p] \in Leaving \cup {"exited"},
           \/ link' = link
           \/ phase'[p] = "exited" /\ link' = [link EXCEPT ![p] = NewLink]
    PROVE  /\ \A c \in Program : LinkSound(c)'
           /\ link' \in [Program -> Link]
<1>1. link \in [Program -> Link] /\ Program \subseteq Process
  BY SetsOfProcesses DEF Inv, TypeOK, BrokerTypeOK, Link
<1>2. NewLink \in Link
  BY DEF Link, NewLink
<1>3. ASSUME NEW c \in Program
      PROVE  LinkSound(c)'
  <2>1. LinkSound(c) /\ c \in Process
    BY <1>1 DEF Inv
  <2>2. CASE link'[c] = link[c]
    BY <2>1, <2>2, SameLinkSound
  <2>3. CASE link'[c] # link[c]
    <3>1. c = p /\ phase'[c] = "exited" /\ link'[c] = NewLink
      BY <1>1, <2>3
    <3> QED
      BY <3>1 DEF LinkSound, NewLink, Leaving
  <2> QED
    BY <2>2, <2>3
<1> QED
  BY <1>1, <1>2, <1>3

LEMMA StartServerInv ==
    ASSUME Inv, NEW s \in Server, StartServer(s)
    PROVE  Inv'
<1>1. /\ link \in [Program -> Link] /\ phase \in [Process -> {"binding", "running", "exited"} \cup Leaving]
      /\ s \in Program /\ s \in Process /\ Program \subseteq Process
  BY SetsOfProcesses DEF Inv, TypeOK, BrokerTypeOK, Link
<1>2. link'[s] = Connecting(NewLink) /\ phase'[s] = "running" /\ Connecting(NewLink) \in Link
  <2>1. link[s] = NewLink
    BY <1>1 DEF Inv, LinkSound, StartServer
  <2> QED
    BY <1>1, <2>1, LinksTyped DEF StartServer
<1>3. LinkSound(s)'
  BY <1>2 DEF LinkSound, Connecting, NewLink, Leaving
<1>4. \A q \in Program \ {s} : link'[q] = link[q] /\ phase'[q] = phase[q]
  BY <1>1 DEF StartServer
<1>5. BrokerTypeOK'
  <2>1. link' \in [Program -> Link]
    BY <1>1, <1>2, LinksTyped DEF StartServer
  <2> QED
    BY <2>1 DEF StartServer, registryVars, Inv, TypeOK, BrokerTypeOK, Link
<1>6. ProcessTypeOK'
  BY <1>1 DEF StartServer, serverVars, clientVars, Inv, TypeOK, ProcessTypeOK
<1> QED
  BY <1>1, <1>3, <1>4, <1>5, <1>6, LinksSound DEF Inv, TypeOK, ProcessTypeOK

LEMMA DepartureInv ==
    ASSUME Inv,
           \/ \E s \in Server : ServerExits(s) \/ ServerKilled(s)
           \/ \E c \in Client : ClientExits(c)
    PROVE  Inv'
<1>1. PICK p \in Program :
         \/ p \in Server /\ (ServerExits(p) \/ ServerKilled(p))
         \/ p \in Client /\ ClientExits(p)
  BY SetsOfProcesses
<1>2. /\ Disconnect(p) /\ phase' = [phase EXCEPT ![p] = "exited"] /\ p \in Process
      /\ phase \in [Process -> {"binding", "running", "exited"} \cup Leaving]
  BY <1>1, SetsOfProcesses DEF ServerExits, ServerKilled, ClientExits, Inv, TypeOK
<1>3. (\A c \in Program : LinkSound(c)') /\ link' \in [Program -> Link]
  BY <1>2, DepartureSound DEF Disconnect
<1>4. BrokerTypeOK'
  <2>1. /\ services' \in Seq(Provider) /\ listeners' \subseteq Program
        /\ changes' \in [Program -> Nat]
    BY <1>2, RegistryTyped DEF Disconnect, Inv, TypeOK
  <2>2. requests' \in [Program -> Seq(Calls)]
    BY <1>2 DEF Disconnect, Inv, TypeOK, BrokerTypeOK, Calls
  <2>3. up' \in BOOLEAN /\ crashes' \in 0 .. MaxCrashes
    BY <1>2 DEF Disconnect, Inv, TypeOK, BrokerTypeOK
  <2> QED
    BY <1>3, <2>1, <2>2, <2>3 DEF BrokerTypeOK, Link, Calls
<1>5. ProcessTypeOK'
  BY <1>1, <1>2 DEF ServerExits, ServerKilled, ClientExits, serverVars, clientVars, Inv, TypeOK,
                    ProcessTypeOK
<1> QED
  BY <1>3, <1>4, <1>5 DEF Inv, TypeOK, ProcessTypeOK

LEMMA HandleShutdownInv ==
    ASSUME Inv, NEW s \in Server, HandleShutdown(s)
    PROVE  Inv'
<1>1. /\ s \in Program /\ s \in Process
      /\ phase \in [Process -> {"binding", "running", "exited"} \cup Leaving]
      /\ registered \in [Server -> Nat] /\ requests \in [Program -> Seq(Calls)]
  BY SetsOfProcesses DEF Inv, TypeOK, BrokerTypeOK, Calls
<1>2. \A c \in Program : LinkSound(c)'
  <2>1. \/ phase'[s] = "exited"
        \/ phase[s] \in {"running"} \cup Leaving /\ phase'[s] \in Leaving \cup {"exited"}
    BY <1>1 DEF HandleShutdown, Leaving
  <2>2. (\A q \in Process \ {s} : phase'[q] = phase[q]) /\ link' = link
    BY <1>1 DEF HandleShutdown
  <2> QED
    BY <1>1, <2>1, <2>2, DepartureSound
<1>3. BrokerTypeOK'
  <2>1. requests' \in [Program -> Seq(Calls)]
    <3> DEFINE owed == [i \in 1 .. registered[s] |-> "unregister"]
    <3>1. owed \in Seq(Calls)
      BY <1>1 DEF Calls
    <3>2. requests[s] \o owed \in Seq(Calls)
      BY <1>1, <3>1
    <3>3. requests' = [requests EXCEPT ![s] = requests[s]] \/ requests' = [requests EXCEPT ![s] = requests[s] \o owed]
      BY DEF HandleShutdown
    <3> QED
      BY <1>1, <3>2, <3>3
  <2> QED
    BY <2>1 DEF HandleShutdown, registryVars, Inv, TypeOK, BrokerTypeOK, Calls
<1>4. ProcessTypeOK'
  BY <1>1 DEF HandleShutdown, clientVars, Inv, TypeOK, ProcessTypeOK, Leaving
<1> QED
  BY <1>2, <1>3, <1>4 DEF Inv, TypeOK, ProcessTypeOK

\* Steps in which no process comes or goes and no connection changes.
LEMMA QuietInv ==
    ASSUME Inv, link' = link, phase' = phase, BrokerTypeOK', ProcessTypeOK'
    PROVE  Inv'
<1>1. \A c \in Program : LinkSound(c)'
  BY SameLinkSound DEF Inv
<1> QED
  BY <1>1 DEF Inv, TypeOK, ProcessTypeOK

LEMMA HandlingInv ==
    ASSUME Inv,
           \/ \E s \in Server : HandleRegistered(s)
           \/ \E c \in Client : HandleChange(c) \/ HandleServices(c)
           \/ \E s \in Server : CallsFail(s)
           \/ StartBrokerServer /\ UNCHANGED processVars
    PROVE  Inv'
<1>1. /\ requests \in [Program -> Seq(Calls)] /\ changes \in [Program -> Nat]
      /\ BrokerTypeOK /\ ProcessTypeOK
  BY DEF Inv, TypeOK, BrokerTypeOK, ProcessTypeOK, Calls
<1>2. ASSUME NEW s \in Server, HandleRegistered(s)
      PROVE  Inv'
  <2>1. BrokerTypeOK' /\ link' = link /\ phase' = phase
    BY <1>1, <1>2 DEF HandleRegistered, brokerVars, BrokerTypeOK
  <2>2. ProcessTypeOK'
    BY <1>1, <1>2 DEF HandleRegistered, clientVars, ProcessTypeOK
  <2> QED
    BY <2>1, <2>2, QuietInv
<1>3. ASSUME NEW c \in Client, HandleChange(c)
      PROVE  Inv'
  <2>1. /\ link' = link /\ phase' = phase /\ ProcessTypeOK' /\ services' = services
        /\ listeners' = listeners /\ up' = up /\ crashes' = crashes
    BY <1>1, <1>3 DEF HandleChange, processVars, ProcessTypeOK
  <2>2. c \in Program /\ changes[c] \in Nat /\ changes[c] > 0 /\ requests[c] \in Seq(Calls)
    BY <1>1, <1>3, SetsOfProcesses DEF HandleChange
  <2>3. changes' \in [Program -> Nat]
    BY <1>1, <1>3, <2>2 DEF HandleChange
  <2>4. requests' \in [Program -> Seq(Calls)]
    <3>1. Append(requests[c], "list") \in Seq(Calls)
      BY <2>2 DEF Calls
    <3>2. \/ requests' = [requests EXCEPT ![c] = requests[c]]
          \/ requests' = [requests EXCEPT ![c] = Append(requests[c], "list")]
      BY <1>3 DEF HandleChange
    <3> QED
      BY <1>1, <2>2, <3>1, <3>2
  <2>5. BrokerTypeOK'
    BY <1>1, <2>1, <2>3, <2>4 DEF BrokerTypeOK, Calls
  <2> QED
    BY <2>1, <2>5, QuietInv
<1>4. ASSUME NEW c \in Client, HandleServices(c)
      PROVE  Inv'
  <2>1. BrokerTypeOK' /\ link' = link /\ phase' = phase
    BY <1>1, <1>4 DEF HandleServices, brokerVars, BrokerTypeOK
  <2>2. ProcessTypeOK'
    BY <1>1, <1>4 DEF HandleServices, serverVars, ProcessTypeOK
  <2> QED
    BY <2>1, <2>2, QuietInv
<1>5. ASSUME NEW s \in Server, CallsFail(s)
      PROVE  Inv'
  <2>1. /\ link' = link /\ phase' = phase /\ UNCHANGED <<registryVars, up, crashes>>
        /\ requests' = [requests EXCEPT ![s] = <<>>]
    BY <1>5 DEF CallsFail
  <2>2. requests' \in [Program -> Seq(Calls)]
    <3>1. <<>> \in Seq(Calls)
      OBVIOUS
    <3> QED
      BY <1>1, <2>1, <3>1
  <2>3. BrokerTypeOK'
    BY <1>1, <2>1, <2>2 DEF BrokerTypeOK, registryVars, Calls
  <2>4. ProcessTypeOK'
    BY <1>1, <1>5 DEF CallsFail, clientVars, ProcessTypeOK
  <2> QED
    BY <2>1, <2>3, <2>4, QuietInv
<1>6. CASE StartBrokerServer /\ UNCHANGED processVars
  <2>1. BrokerTypeOK' /\ ProcessTypeOK' /\ link' = link /\ phase' = phase
    BY <1>1, <1>6 DEF StartBrokerServer, registryVars, BrokerTypeOK, processVars, ProcessTypeOK
  <2> QED
    BY <2>1, QuietInv
<1> QED
  BY <1>2, <1>3, <1>4, <1>5, <1>6

LEMMA ServeInv ==
    ASSUME Inv, NEW c \in Program, Serve(c)
    PROVE  Inv'
<1>1. BrokerTypeOK /\ ProcessTypeOK /\ requests \in [Program -> Seq(Calls)] /\ requests[c] # <<>>
  BY DEF Inv, TypeOK, BrokerTypeOK, ProcessTypeOK, Calls, Serve
<1>2. /\ requests' = [requests EXCEPT ![c] = Tail(requests[c])]
      /\ UNCHANGED <<up, link, crashes, phase, registered, polling, endpoint>>
  BY DEF Serve
<1>3. requests' \in [Program -> Seq(Calls)]
  BY <1>1, <1>2
<1>4. /\ \/ UNCHANGED registryVars \/ (c \in Server /\ RegisterService(c)) \/ UnregisterService
         \/ NotifyServiceChanges(c)
      /\ \/ UNCHANGED <<answers, waits, results>>
         \/ results' = [results EXCEPT ![c] = @ \cup {First}] /\ UNCHANGED <<answers, waits>>
         \/ answers' = [answers EXCEPT ![c] = @ + 1] /\ UNCHANGED <<waits, results>>
         \/ waits' = [waits EXCEPT ![c] = @ - 1] /\ UNCHANGED <<answers, results>>
  BY DEF Serve
<1>5. /\ services' \in Seq(Provider) /\ listeners' \subseteq Program
      /\ changes' \in [Program -> Nat]
  BY <1>1, <1>4, SetsOfProcesses, RegistryTyped
<1>6. BrokerTypeOK'
  BY <1>1, <1>2, <1>3, <1>5 DEF BrokerTypeOK, Calls
<1>7. /\ answers' \in [Server -> Nat] /\ waits' \in [Server -> Int]
      /\ results' \in [Client -> SUBSET (Provider \cup {NoProvider})]
  <2>1. First \in Provider \cup {NoProvider}
    BY <1>1, FirstTyped DEF BrokerTypeOK
  <2>2. /\ answers \in [Server -> Nat] /\ waits \in [Server -> Int]
        /\ results \in [Client -> SUBSET (Provider \cup {NoProvider})]
    BY <1>1 DEF ProcessTypeOK
  <2> QED
    BY <1>4, <2>1, <2>2
<1>8. ProcessTypeOK'
  BY <1>1, <1>2, <1>7 DEF ProcessTypeOK
<1> QED
  BY <1>2, <1>6, <1>8, QuietInv

LEMMA BrokerCrashesInv ==
    ASSUME Inv, BrokerCrashes
    PROVE  Inv'
<1>1. /\ link \in [Program -> Link]
      /\ phase \in [Process -> {"binding", "running", "exited"} \cup Leaving]
      /\ Program \subseteq Process
  BY SetsOfProcesses DEF Inv, TypeOK, BrokerTypeOK, Link
<1>2. link' = [c \in Program |-> IF link[c].client = "ready"
                                 THEN [link[c] EXCEPT !.lost = {"stream", "watch"}] ELSE link[c]]
  BY DEF BrokerCrashes, Crash
<1>3. \A p \in Process : phase'[p] \in {phase[p], "exited"}
  BY DEF BrokerCrashes
<1>4. ASSUME NEW c \in Program
      PROVE  LinkSound(c)'
  <2>1. link[c] \in Link /\ LinkSound(c) /\ phase'[c] \in {phase[c], "exited"}
    BY <1>1, <1>3 DEF Inv
  <2>2. CASE link[c].client = "ready"
    <3>1. /\ link'[c].client = "ready" /\ link'[c].lost = {"stream", "watch"}
          /\ phase'[c] # "binding"
      BY <1>2, <2>1, <2>2 DEF Link, LinkSound, NewLink
    <3> QED
      BY <3>1 DEF LinkSound
  <2>3. CASE link[c].client # "ready"
    <3>1. link'[c] = link[c]
      BY <1>2, <2>3
    <3> QED
      BY <2>1, <3>1, SameLinkSound
  <2> QED
    BY <2>2, <2>3
<1>5. BrokerTypeOK'
  <2>1. \A l \in Link : [l EXCEPT !.lost = {"stream", "watch"}] \in Link
    BY DEF Link
  <2>2. link' \in [Program -> Link]
    BY <1>1, <1>2, <2>1
  <2>3. /\ services' \in Seq(Provider) /\ listeners' \subseteq Program
        /\ changes' \in [Program -> Nat]
    BY DEF BrokerCrashes, Crash
  <2>4. requests' \in [Program -> Seq(Calls)]
    BY DEF BrokerCrashes, Crash
  <2>5. up' \in BOOLEAN
    BY DEF BrokerCrashes, Crash
  <2>6. crashes' \in 0 .. MaxCrashes
    BY BrokerAssumption DEF BrokerCrashes, Crash, Inv, TypeOK, BrokerTypeOK
  <2> QED
    BY <2>2, <2>3, <2>4, <2>5, <2>6 DEF BrokerTypeOK, Link, Calls
<1>6. ProcessTypeOK'
  <2>1. phase' \in [Process -> {"binding", "running", "exited"} \cup Leaving]
    BY <1>1 DEF BrokerCrashes
  <2>2. answers' \in [Server -> Nat] /\ waits' \in [Server -> Int]
    BY DEF BrokerCrashes, Inv, TypeOK
  <2>3. results' \in [Client -> SUBSET (Provider \cup {NoProvider})]
    BY DEF BrokerCrashes
  <2> QED
    BY <2>1, <2>2, <2>3 DEF BrokerCrashes, Inv, TypeOK, ProcessTypeOK
<1> QED
  BY <1>4, <1>5, <1>6 DEF Inv, TypeOK, ProcessTypeOK

\* The programs that poll have no connection of the modelled kind.
LEMMA PollingInv ==
    ASSUME Inv,
           \/ \E r \in RustServer : RustServerStep(r) \/ RustSignalled(r) \/ RustKilled(r)
           \/ \E k \in RustClient : RustClientStep(k)
           \/ \E k \in CppClient : CppClientStep(k)
           \/ \E k \in PollingClient : PollingClientExits(k)
    PROVE  Inv'
<1>1. /\ BrokerTypeOK /\ ProcessTypeOK /\ link \in [Program -> Link]
      /\ phase \in [Process -> {"binding", "running", "exited"} \cup Leaving]
      /\ polling \in [RustServer -> [step : {"sleep", "register"}, registered : BOOLEAN]]
  BY DEF Inv, TypeOK, ProcessTypeOK, BrokerTypeOK, Link
<1>2. ASSUME NEW r \in RustServer, IsRegistered(r)
      PROVE  Inv'
  <2>1. polling' \in [RustServer -> [step : {"sleep", "register"}, registered : BOOLEAN]]
    BY <1>1, <1>2 DEF IsRegistered
  <2>2. BrokerTypeOK' /\ link' = link /\ phase' = phase
    BY <1>1, <1>2 DEF IsRegistered, brokerVars, BrokerTypeOK
  <2>3. ProcessTypeOK'
    BY <1>1, <1>2, <2>1 DEF IsRegistered, serverVars, ProcessTypeOK
  <2> QED
    BY <2>2, <2>3, QuietInv
<1>3. ASSUME NEW r \in RustServer, RustRegisters(r)
      PROVE  Inv'
  <2>1. polling' \in [RustServer -> [step : {"sleep", "register"}, registered : BOOLEAN]]
    <3>1. CASE up
      <4>1. polling' = [polling EXCEPT ![r] = [step |-> "sleep", registered |-> TRUE]]
        BY <1>3, <3>1, Zenon DEF RustRegisters
      <4> QED
        BY <1>1, <4>1
    <3>2. CASE ~up
      <4>1. polling' = [polling EXCEPT ![r] = [polling[r] EXCEPT !.step = "sleep"]]
        BY <1>1, <1>3, <3>2 DEF RustRegisters
      <4> QED
        BY <1>1, <4>1
    <3> QED
      BY <3>1, <3>2
  <2>2. /\ RegisterService(r) \/ UNCHANGED registryVars
        /\ UNCHANGED connectionVars /\ phase' = phase
    BY <1>3 DEF RustRegisters
  <2>3. /\ services' \in Seq(Provider) /\ listeners' \subseteq Program
        /\ changes' \in [Program -> Nat]
    BY <1>1, <2>2, SetsOfProcesses, RegistryTyped
  <2>4. BrokerTypeOK' /\ link' = link
    BY <1>1, <2>2, <2>3 DEF connectionVars, BrokerTypeOK
  <2>5. ProcessTypeOK'
    BY <1>1, <1>3, <2>1 DEF RustRegisters, serverVars, ProcessTypeOK
  <2> QED
    BY <2>2, <2>4, <2>5, QuietInv
<1>4. ASSUME NEW r \in RustServer, RustSignalled(r) \/ RustLeaves(r) \/ RustKilled(r)
      PROVE  Inv'
  <2>1. /\ UnregisterService \/ UNCHANGED registryVars
        /\ UNCHANGED <<up, link, requests, crashes>>
    BY <1>4 DEF RustSignalled, RustLeaves, RustKilled, brokerVars, registryVars, connectionVars
  <2>2. \E to \in Leaving \cup {"exited"} : phase' = [phase EXCEPT ![r] = to]
    BY <1>4 DEF RustSignalled, RustLeaves, RustKilled, Leaving
  <2>3. phase[r] \in {"running"} \cup Leaving
    BY <1>4 DEF RustSignalled, RustLeaves, RustKilled, Leaving
  <2>4. r \in Process
    BY SetsOfProcesses
  <2>5. \A c \in Program : LinkSound(c)'
    BY <1>1, <2>1, <2>2, <2>3, <2>4, DepartureSound
  <2>6. /\ services' \in Seq(Provider) /\ listeners' \subseteq Program
        /\ changes' \in [Program -> Nat]
    BY <1>1, <2>1, RegistryTyped
  <2>7. BrokerTypeOK'
    BY <1>1, <2>1, <2>6 DEF BrokerTypeOK
  <2>8. UNCHANGED <<registered, answers, waits, polling, endpoint, results>>
    BY <1>4 DEF RustSignalled, RustLeaves, RustKilled, serverVars
  <2>9. ProcessTypeOK'
    BY <1>1, <2>2, <2>8 DEF ProcessTypeOK, Leaving
  <2> QED
    BY <2>5, <2>7, <2>9 DEF Inv, TypeOK, ProcessTypeOK
<1>5. ASSUME NEW k \in PollingClient,
             ConnectCalculator(k) \/ ResolveService(k) \/ CalculationFails(k)
      PROVE  Inv'
  <2>1. /\ UNCHANGED brokerVars /\ UNCHANGED serverVars /\ UNCHANGED <<phase, polling, results>>
        /\ \E p \in {First, NoProvider} : endpoint' = [endpoint EXCEPT ![k] = p]
    BY <1>5 DEF ConnectCalculator, ResolveService, CalculationFails
  <2>2. First \in Provider \cup {NoProvider}
    BY <1>1, FirstTyped DEF BrokerTypeOK
  <2>3. BrokerTypeOK' /\ link' = link
    BY <1>1, <2>1 DEF brokerVars, BrokerTypeOK
  <2>4. ProcessTypeOK'
    BY <1>1, <2>1, <2>2 DEF serverVars, ProcessTypeOK
  <2> QED
    BY <2>1, <2>3, <2>4, QuietInv
<1>6. ASSUME NEW k \in PollingClient, PollingClientExits(k)
      PROVE  Inv'
  <2>1. /\ UNCHANGED brokerVars /\ UNCHANGED serverVars /\ UNCHANGED <<polling, endpoint, results>>
        /\ phase' = [phase EXCEPT ![k] = "exited"] /\ k \in Process
    BY <1>6, SetsOfProcesses DEF PollingClientExits
  <2>2. BrokerTypeOK' /\ link' = link
    BY <1>1, <2>1 DEF brokerVars, BrokerTypeOK
  <2>3. ProcessTypeOK'
    BY <1>1, <2>1 DEF serverVars, ProcessTypeOK
  <2>4. \A c \in Program : LinkSound(c)'
    BY <1>1, <2>1, <2>2, DepartureSound
  <2> QED
    BY <2>2, <2>3, <2>4 DEF Inv, TypeOK, ProcessTypeOK
<1> QED
  BY <1>2, <1>3, <1>4, <1>5, <1>6 DEF RustServerStep, RustClientStep, CppClientStep, PollingClient

LEMMA StepInv == Inv /\ [Next]_vars => Inv'
<1> SUFFICES ASSUME Inv, [Next]_vars
             PROVE  Inv'
  OBVIOUS
<1>1. ASSUME NEW c \in Program, WaitFails(c)
      PROVE  Inv'
  <2>1. <<>> \in Seq(Calls)
    OBVIOUS
  <2> QED
    BY <1>1, <2>1, ConnectionInv DEF WaitFails
<1>2. ASSUME NEW c \in Program, ProgramStep(c)
      PROVE  Inv'
  <2>1. CASE (ReconnectTimer(c) \/ StreamEnds(c) \/ WatchFires(c)) /\ UNCHANGED processVars
    <3>1. <<>> \in Seq(Calls)
      OBVIOUS
    <3> QED
      BY <2>1, <3>1, ConnectionInv
  <2>2. CASE c \in Server /\ ServerConnected(c)
    <3>1. <<"listen", "register">> \in Seq(Calls)
      BY DEF Calls
    <3> QED
      BY <2>2, <3>1, ConnectionInv DEF ServerConnected
  <2>3. CASE c \in Client /\ ClientConnected(c)
    <3>1. <<"listen", "list">> \in Seq(Calls) /\ <<"listen">> \in Seq(Calls)
      BY DEF Calls
    <3> QED
      BY <2>3, <3>1, ConnectionInv DEF ClientConnected
  <2>4. CASE Serve(c)
    BY <2>4, ServeInv
  <2>5. CASE c \in Server /\ StartServer(c)
    BY <2>5, StartServerInv
  <2>6. CASE c \in Server /\ ServerExits(c)
    BY <2>6, DepartureInv
  <2>7. CASE \/ c \in Server /\ (HandleRegistered(c) \/ CallsFail(c))
             \/ c \in Client /\ (HandleChange(c) \/ HandleServices(c))
    BY <2>7, HandlingInv
  <2> QED
    BY <1>2, <2>1, <2>2, <2>3, <2>4, <2>5, <2>6, <2>7 DEF ProgramStep
<1>3. CASE StartBrokerServer /\ UNCHANGED processVars
  BY <1>3, HandlingInv
<1>4. CASE \/ \E s \in Server : ServerKilled(s)
           \/ \E c \in Client : ClientExits(c)
  BY <1>4, DepartureInv
<1>5. CASE UNCHANGED vars
  <2>1. BrokerTypeOK' /\ ProcessTypeOK' /\ link' = link /\ phase' = phase
    BY <1>5 DEF vars, Inv, TypeOK, BrokerTypeOK, ProcessTypeOK
  <2> QED
    BY <2>1, QuietInv
<1> QED
  BY <1>1, <1>2, <1>3, <1>4, <1>5, BrokerCrashesInv, HandleShutdownInv, PollingInv DEF Next

-----------------------------------------------------------------------------
\* Entries and their removal.

Calling(s) == {i \in DOMAIN s : s[i] = "unregister"}

LEMMA CallingFinite ==
    ASSUME NEW s \in Seq(Calls)
    PROVE  IsFiniteSet(Calling(s)) /\ Cardinality(Calling(s)) \in Nat
<1>1. Calling(s) \in SUBSET (1 .. Len(s)) /\ Len(s) \in Int
  BY DEF Calling
<1>2. IsFiniteSet(1 .. Len(s))
  BY <1>1, FS_Interval
<1>3. IsFiniteSet(Calling(s))
  BY <1>1, <1>2, FS_Subset
<1> QED
  BY <1>3, FS_CardinalityType

\* What a map of the calls of s reaches is no larger.
LEMMA CallingImage ==
    ASSUME NEW S, IsFiniteSet(S), NEW T, NEW f \in [S -> T], \A t \in T : \E x \in S : f[x] = t
    PROVE  IsFiniteSet(T) /\ Cardinality(T) <= Cardinality(S)
<1>1. f \in Surjection(S, T)
  BY DEF Surjection
<1> QED
  BY <1>1, FS_Surjection

LEMMA CallingTail ==
    ASSUME NEW s \in Seq(Calls), s # <<>>
    PROVE  Cardinality(Calling(Tail(s)))
             <= Cardinality(Calling(s)) - (IF s[1] = "unregister" THEN 1 ELSE 0)
<1> DEFINE rest == Calling(s) \ {1}
           f == [i \in rest |-> i - 1]
<1>1. Tail(s) \in Seq(Calls) /\ Len(Tail(s)) = Len(s) - 1
      /\ \A i \in 1 .. Len(Tail(s)) : Tail(s)[i] = s[i + 1]
  OBVIOUS
<1>2. IsFiniteSet(Calling(s)) /\ Cardinality(Calling(s)) \in Nat
  BY CallingFinite
<1>3. /\ IsFiniteSet(rest)
      /\ Cardinality(rest) = IF 1 \in Calling(s) THEN Cardinality(Calling(s)) - 1
                             ELSE Cardinality(Calling(s))
  BY <1>2, FS_RemoveElement
<1>4. f \in [rest -> Calling(Tail(s))]
  BY <1>1 DEF Calling
<1>5. ASSUME NEW j \in Calling(Tail(s))
      PROVE  \E i \in rest : f[i] = j
  <2>1. j + 1 \in rest
    BY <1>1, <1>5 DEF Calling
  <2> QED
    BY <1>1, <1>5, <2>1 DEF Calling
<1>6. Cardinality(Calling(Tail(s))) <= Cardinality(rest)
  <2> HIDE DEF f, rest
  <2> QED
    BY <1>3, <1>4, <1>5, CallingImage
<1>7. 1 \in Calling(s) <=> s[1] = "unregister"
  BY DEF Calling
<1> HIDE DEF rest
<1> QED
  BY <1>2, <1>3, <1>6, <1>7

LEMMA CallingMore ==
    ASSUME NEW s \in Seq(Calls), NEW t \in Seq(Calls)
    PROVE  Cardinality(Calling(s \o t)) <= Cardinality(Calling(s)) + Cardinality(Calling(t))
<1> DEFINE later == {i \in Calling(s \o t) : i > Len(s)}
           f == [j \in Calling(t) |-> Len(s) + j]
<1>1. /\ s \o t \in Seq(Calls) /\ Len(s \o t) = Len(s) + Len(t)
      /\ \A i \in 1 .. Len(s) + Len(t) : (s \o t)[i] = IF i <= Len(s) THEN s[i] ELSE t[i - Len(s)]
  OBVIOUS
<1>2. /\ IsFiniteSet(Calling(s)) /\ Cardinality(Calling(s)) \in Nat
      /\ IsFiniteSet(Calling(t)) /\ Cardinality(Calling(t)) \in Nat
  BY CallingFinite
<1>3. f \in [Calling(t) -> later]
  BY <1>1 DEF Calling
<1>4. ASSUME NEW i \in later
      PROVE  \E j \in Calling(t) : f[j] = i
  <2>1. i - Len(s) \in Calling(t)
    BY <1>1, <1>4 DEF Calling
  <2>2. i = Len(s) + (i - Len(s))
    BY <1>1, <1>4 DEF Calling
  <2> QED
    BY <2>1, <2>2
<1>5. IsFiniteSet(later) /\ Cardinality(later) <= Cardinality(Calling(t))
  <2> HIDE DEF f, later
  <2> QED
    BY <1>2, <1>3, <1>4, CallingImage
<1>6. Calling(s \o t) = Calling(s) \cup later
  BY <1>1 DEF Calling
<1>7. /\ Cardinality(later) \in Nat
      /\ Cardinality(Calling(s) \cup later)
           = Cardinality(Calling(s)) + Cardinality(later) - Cardinality(Calling(s) \cap later)
      /\ Cardinality(Calling(s) \cap later) \in Nat
  <2> HIDE DEF later
  <2>1. IsFiniteSet(Calling(s) \cap later)
    BY <1>2, FS_Intersection
  <2> QED
    BY <1>2, <1>5, <2>1, FS_Union, FS_CardinalityType
<1> HIDE DEF later
<1> QED
  BY <1>2, <1>5, <1>6, <1>7

LEMMA CallingNone ==
    ASSUME NEW s \in Seq(Calls), \A i \in DOMAIN s : s[i] # "unregister"
    PROVE  Calling(s) = {} /\ Cardinality(Calling(s)) = 0
BY FS_EmptySet DEF Calling

LEMMA CallingTimes ==
    ASSUME NEW n \in Nat
    PROVE  Cardinality(Calling([i \in 1 .. n |-> "unregister"])) = n
<1>1. Calling([i \in 1 .. n |-> "unregister"]) = 1 .. n
  BY DEF Calling
<1> QED
  BY <1>1, FS_Interval

\* What each provider owes, and one claim for each removal.
OwedBy == [p \in Provider |-> Owed(p)]
Claims(f) == UNION {{p} \X (1 .. f[p]) : p \in Provider}

LEMMA Claimed ==
    ASSUME NEW f, NEW c
    PROVE  c \in Claims(f) <=> \E p \in Provider : \E i \in 1 .. f[p] : c = <<p, i>>
BY DEF Claims

LEMMA ClaimsFewer ==
    ASSUME NEW f \in [Provider -> Nat], IsFiniteSet(Claims(f)), NEW g \in [Provider -> Nat],
           \A p \in Provider : g[p] <= f[p]
    PROVE  IsFiniteSet(Claims(g)) /\ Cardinality(Claims(g)) <= Cardinality(Claims(f))
<1>1. \A p \in Provider : 1 .. g[p] \subseteq 1 .. f[p]
  OBVIOUS
<1>2. Claims(g) \in SUBSET Claims(f)
  BY <1>1, Claimed
<1> QED
  BY <1>2, FS_Subset

LEMMA ClaimsOneMore ==
    ASSUME NEW f \in [Provider -> Nat], IsFiniteSet(Claims(f)), NEW g \in [Provider -> Nat],
           NEW q \in Provider, g[q] <= f[q] + 1, \A p \in Provider \ {q} : g[p] <= f[p]
    PROVE  IsFiniteSet(Claims(g)) /\ Cardinality(Claims(g)) <= Cardinality(Claims(f)) + 1
<1> DEFINE more == Claims(f) \cup {<<q, f[q] + 1>>}
<1>1. \A p \in Provider \ {q} : 1 .. g[p] \subseteq 1 .. f[p]
  OBVIOUS
<1>2. 1 .. g[q] \subseteq (1 .. f[q]) \cup {f[q] + 1}
  OBVIOUS
<1>3. Claims(g) \in SUBSET more
  BY <1>1, <1>2, Claimed
<1>4. IsFiniteSet(more) /\ Cardinality(more) \in Nat /\ Cardinality(more) <= Cardinality(Claims(f)) + 1
  <2>1. /\ IsFiniteSet(more)
        /\ Cardinality(more) = IF <<q, f[q] + 1>> \in Claims(f) THEN Cardinality(Claims(f))
                               ELSE Cardinality(Claims(f)) + 1
    BY FS_AddElement
  <2>2. Cardinality(Claims(f)) \in Nat
    BY FS_CardinalityType
  <2> HIDE DEF more
  <2> QED
    BY <2>1, <2>2
<1>5. /\ Cardinality(Claims(g)) \in Nat /\ IsFiniteSet(Claims(g))
      /\ Cardinality(Claims(g)) <= Cardinality(more) /\ Cardinality(Claims(f)) \in Nat
  <2> HIDE DEF more
  <2>1. IsFiniteSet(Claims(g)) /\ Cardinality(Claims(g)) <= Cardinality(more)
    BY <1>3, <1>4, FS_Subset
  <2> QED
    BY <2>1, FS_CardinalityType
<1> HIDE DEF more
<1> QED
  BY <1>4, <1>5

LEMMA ClaimsOneLess ==
    ASSUME NEW f \in [Provider -> Nat], IsFiniteSet(Claims(f)), NEW g \in [Provider -> Nat],
           NEW q \in Provider, g[q] + 1 <= f[q], \A p \in Provider \ {q} : g[p] <= f[p]
    PROVE  IsFiniteSet(Claims(g)) /\ Cardinality(Claims(g)) <= Cardinality(Claims(f)) - 1
<1> DEFINE less == Claims(f) \ {<<q, f[q]>>}
<1>1. \A p \in Provider \ {q} : 1 .. g[p] \subseteq 1 .. f[p]
  OBVIOUS
<1>2. 1 .. g[q] \subseteq (1 .. f[q]) \ {f[q]}
  OBVIOUS
<1>3. Claims(g) \in SUBSET less
  BY <1>1, <1>2, Claimed
<1>4. <<q, f[q]>> \in Claims(f)
  <2>1. f[q] \in 1 .. f[q]
    OBVIOUS
  <2> QED
    BY <2>1, Claimed
<1>5. IsFiniteSet(less) /\ Cardinality(less) = Cardinality(Claims(f)) - 1
  BY <1>4, FS_RemoveElement
<1>6. IsFiniteSet(Claims(g)) /\ Cardinality(Claims(g)) <= Cardinality(less)
  <2> HIDE DEF less
  <2> QED
    BY <1>3, <1>5, FS_Subset
<1> HIDE DEF less
<1> QED
  BY <1>5, <1>6

\* Until the broker crashes there are at least as many entries as removals to
\* come; a Rust server that is listed knows it; a client removes nothing.
Covered ==
    /\ crashes = 0 => IsFiniteSet(Removals) /\ Cardinality(Removals) <= Len(services)
    /\ \A r \in RustServer : Listed(r) => polling[r].registered
    /\ \A c \in Client : Calling(requests[c]) = {}

LEMMA OwedTyped ==
    ASSUME TypeOK
    PROVE  \A p \in Provider : Owed(p) \in Nat
<1> SUFFICES ASSUME NEW p \in Provider
             PROVE  Owed(p) \in Nat
  OBVIOUS
<1>1. CASE p \in Server
  <2>1. requests[p] \in Seq(Calls) /\ answers[p] \in Nat /\ registered[p] \in Nat
    BY <1>1, SetsOfProcesses DEF TypeOK, BrokerTypeOK, Calls
  <2>2. Cardinality(Calling(requests[p])) \in Nat
    BY <2>1, CallingFinite
  <2> QED
    BY <1>1, <2>1, <2>2 DEF Owed, Calling
<1>2. CASE p \notin Server
  BY <1>2 DEF Owed
<1> QED
  BY <1>1, <1>2

LEMMA OwedTypedNext ==
    ASSUME TypeOK'
    PROVE  \A p \in Provider : Owed(p)' \in Nat
<1> SUFFICES ASSUME NEW p \in Provider
             PROVE  Owed(p)' \in Nat
  OBVIOUS
<1>1. CASE p \in Server
  <2>1. requests'[p] \in Seq(Calls) /\ answers'[p] \in Nat /\ registered'[p] \in Nat
    BY <1>1, SetsOfProcesses DEF TypeOK, BrokerTypeOK, Calls
  <2>2. Cardinality(Calling(requests'[p])) \in Nat
    BY <2>1, CallingFinite
  <2> QED
    BY <1>1, <2>1, <2>2 DEF Owed, Calling
<1>2. CASE p \notin Server
  BY <1>2 DEF Owed
<1> QED
  BY <1>1, <1>2

\* As many entries more or less as removals.
LEMMA CoverKept ==
    ASSUME TypeOK, TypeOK', Covered, crashes' = crashes, Len(services') >= Len(services),
           \A p \in Provider : Owed(p)' <= Owed(p)
    PROVE  crashes' = 0 => IsFiniteSet(Removals') /\ Cardinality(Removals') <= Len(services')
<1> SUFFICES ASSUME crashes = 0
             PROVE  IsFiniteSet(Removals') /\ Cardinality(Removals') <= Len(services')
  OBVIOUS
<1>1. OwedBy \in [Provider -> Nat] /\ OwedBy' \in [Provider -> Nat]
  BY OwedTyped, OwedTypedNext DEF OwedBy
<1>2. Removals = Claims(OwedBy) /\ Removals' = Claims(OwedBy')
  BY DEF Removals, Claims, OwedBy
<1>3. \A p \in Provider : OwedBy'[p] <= OwedBy[p]
  BY DEF OwedBy
<1>4. /\ IsFiniteSet(Claims(OwedBy)) /\ Cardinality(Claims(OwedBy)) <= Len(services)
  BY <1>2 DEF Covered
<1>5. IsFiniteSet(Claims(OwedBy')) /\ Cardinality(Claims(OwedBy')) <= Cardinality(Claims(OwedBy))
  BY <1>1, <1>3, <1>4, ClaimsFewer
<1>6. Cardinality(Claims(OwedBy)) \in Nat /\ Cardinality(Claims(OwedBy')) \in Nat
      /\ Len(services) \in Nat /\ Len(services') \in Nat
  BY <1>4, <1>5, FS_CardinalityType DEF TypeOK, BrokerTypeOK
<1> QED
  BY <1>2, <1>4, <1>5, <1>6

LEMMA CoverMore ==
    ASSUME TypeOK, TypeOK', Covered, crashes' = crashes, Len(services') >= Len(services) + 1,
           NEW q \in Provider, Owed(q)' <= Owed(q) + 1,
           \A p \in Provider \ {q} : Owed(p)' <= Owed(p)
    PROVE  crashes' = 0 => IsFiniteSet(Removals') /\ Cardinality(Removals') <= Len(services')
<1> SUFFICES ASSUME crashes = 0
             PROVE  IsFiniteSet(Removals') /\ Cardinality(Removals') <= Len(services')
  OBVIOUS
<1>1. OwedBy \in [Provider -> Nat] /\ OwedBy' \in [Provider -> Nat]
  BY OwedTyped, OwedTypedNext DEF OwedBy
<1>2. Removals = Claims(OwedBy) /\ Removals' = Claims(OwedBy')
  BY DEF Removals, Claims, OwedBy
<1>3. OwedBy'[q] <= OwedBy[q] + 1 /\ \A p \in Provider \ {q} : OwedBy'[p] <= OwedBy[p]
  BY DEF OwedBy
<1>4. /\ IsFiniteSet(Claims(OwedBy)) /\ Cardinality(Claims(OwedBy)) <= Len(services)
  BY <1>2 DEF Covered
<1>5. IsFiniteSet(Claims(OwedBy')) /\ Cardinality(Claims(OwedBy')) <= Cardinality(Claims(OwedBy)) + 1
  BY <1>1, <1>3, <1>4, ClaimsOneMore
<1>6. Cardinality(Claims(OwedBy)) \in Nat /\ Cardinality(Claims(OwedBy')) \in Nat
      /\ Len(services) \in Nat /\ Len(services') \in Nat
  BY <1>4, <1>5, FS_CardinalityType DEF TypeOK, BrokerTypeOK
<1> QED
  BY <1>2, <1>4, <1>5, <1>6

LEMMA CoverLess ==
    ASSUME TypeOK, TypeOK', Covered, crashes' = crashes, Len(services') >= Len(services) - 1,
           NEW q \in Provider, Owed(q)' + 1 <= Owed(q),
           \A p \in Provider \ {q} : Owed(p)' <= Owed(p)
    PROVE  crashes' = 0 => IsFiniteSet(Removals') /\ Cardinality(Removals') <= Len(services')
<1> SUFFICES ASSUME crashes = 0
             PROVE  IsFiniteSet(Removals') /\ Cardinality(Removals') <= Len(services')
  OBVIOUS
<1>1. OwedBy \in [Provider -> Nat] /\ OwedBy' \in [Provider -> Nat]
  BY OwedTyped, OwedTypedNext DEF OwedBy
<1>2. Removals = Claims(OwedBy) /\ Removals' = Claims(OwedBy')
  BY DEF Removals, Claims, OwedBy
<1>3. OwedBy'[q] + 1 <= OwedBy[q] /\ \A p \in Provider \ {q} : OwedBy'[p] <= OwedBy[p]
  BY DEF OwedBy
<1>4. /\ IsFiniteSet(Claims(OwedBy)) /\ Cardinality(Claims(OwedBy)) <= Len(services)
  BY <1>2 DEF Covered
<1>5. IsFiniteSet(Claims(OwedBy')) /\ Cardinality(Claims(OwedBy')) <= Cardinality(Claims(OwedBy)) - 1
  BY <1>1, <1>3, <1>4, ClaimsOneLess
<1>6. Cardinality(Claims(OwedBy)) \in Nat /\ Cardinality(Claims(OwedBy')) \in Nat
      /\ Len(services) \in Nat /\ Len(services') \in Nat
  BY <1>4, <1>5, FS_CardinalityType DEF TypeOK, BrokerTypeOK
<1> QED
  BY <1>2, <1>4, <1>5, <1>6

\* What one provider owes does not depend on the others' variables.
LEMMA OwedKept ==
    ASSUME TypeOK, TypeOK', NEW p \in Provider,
           p \in Server => /\ answers'[p] = answers[p] /\ registered'[p] = registered[p]
                           /\ requests'[p] = requests[p],
           p \notin Server => /\ polling'[p].registered = polling[p].registered
                              /\ phase[p] = "exited" => phase'[p] = "exited"
    PROVE  Owed(p)' <= Owed(p)
<1>1. Owed(p) \in Nat
  BY OwedTyped
<1>2. CASE p \in Server
  <2>1. Owed(p)' = Owed(p)
    BY <1>2 DEF Owed
  <2> QED
    BY <1>1, <2>1
<1>3. CASE p \notin Server
  BY <1>3 DEF Owed
<1> QED
  BY <1>2, <1>3

\* The entries after a call: one of the caller is added, or the first is gone.
LEMMA RegistrySteps ==
    ASSUME services \in Seq(Provider), NEW p \in Provider
    PROVE  /\ RegisterService(p) =>
                Len(services') = Len(services) + 1 /\ ToSet(services') \subseteq ToSet(services) \cup {p}
           /\ UnregisterService =>
                Len(services') = Len(services) - 1 /\ ToSet(services') \subseteq ToSet(services)
<1>1. CASE RegisterService(p)
  <2>1. services' = Append(services, p)
    BY <1>1 DEF RegisterService
  <2>2. Len(services') = Len(services) + 1
    BY <2>1
  <2>3. ToSet(services') \subseteq ToSet(services) \cup {p}
    BY <2>1 DEF ToSet
  <2>4. ~UnregisterService
    BY <2>2, <1>1 DEF UnregisterService
  <2> QED
    BY <2>2, <2>3, <2>4
<1>2. CASE UnregisterService
  <2>1. services' = Tail(services) /\ services # <<>>
    BY <1>2 DEF UnregisterService
  <2>2. Len(services') = Len(services) - 1
    BY <2>1
  <2>3. ToSet(services') \subseteq ToSet(services)
    BY <2>1 DEF ToSet
  <2>4. ~RegisterService(p)
    BY <2>2 DEF RegisterService
  <2> QED
    BY <2>2, <2>3, <2>4
<1> QED
  BY <1>1, <1>2

\* Steps that neither register nor remove anything, nor ask for it.
LEMMA CoveredQuiet ==
    ASSUME Inv, Inv', Covered,
           UNCHANGED <<services, requests, crashes, answers, registered, polling>>,
           \A p \in Process : phase[p] = "exited" => phase'[p] = "exited"
    PROVE  Covered'
<1>1. \A p \in Provider : Owed(p)' <= Owed(p)
  BY OwedKept, SetsOfProcesses DEF Inv
<1>2. Len(services') >= Len(services)
  BY DEF Inv, TypeOK, BrokerTypeOK
<1>3. crashes' = 0 => IsFiniteSet(Removals') /\ Cardinality(Removals') <= Len(services')
  BY <1>1, <1>2, CoverKept DEF Inv
<1> QED
  BY <1>3 DEF Covered, Listed

\* A program's requests and its own count change, the registry does not.
LEMMA CoveredLocal ==
    ASSUME Inv, Inv', Covered, NEW c \in Program, UNCHANGED <<services, crashes, polling>>,
           \A p \in Process \ {c} : phase[p] = "exited" => phase'[p] = "exited",
           \A p \in Program \ {c} : requests'[p] = requests[p],
           \A p \in Server \ {c} : answers'[p] = answers[p] /\ registered'[p] = registered[p],
           c \in Server => Owed(c)' <= Owed(c),
           c \in Client => Calling(requests'[c]) = {}
    PROVE  Covered'
<1>1. \A p \in Provider : Owed(p)' <= Owed(p)
  <2> SUFFICES ASSUME NEW p \in Provider
               PROVE  Owed(p)' <= Owed(p)
    OBVIOUS
  <2>1. CASE p # c
    BY <2>1, OwedKept, SetsOfProcesses DEF Inv
  <2>2. CASE p = c
    BY <2>2, ProgramAssumption
  <2> QED
    BY <2>1, <2>2
<1>2. Len(services') >= Len(services)
  BY DEF Inv, TypeOK, BrokerTypeOK
<1>3. crashes' = 0 => IsFiniteSet(Removals') /\ Cardinality(Removals') <= Len(services')
  BY <1>1, <1>2, CoverKept DEF Inv
<1>4. \A p \in Client : Calling(requests'[p]) = {}
  BY SetsOfProcesses DEF Covered
<1> QED
  BY <1>3, <1>4 DEF Covered, Listed

LEMMA ServerOwes ==
    ASSUME NEW s \in Server
    PROVE  /\ Owed(s) = answers[s] + registered[s] + Cardinality(Calling(requests[s]))
           /\ Owed(s)' = answers'[s] + registered'[s] + Cardinality(Calling(requests'[s]))
BY DEF Owed, Calling

\* A program connects: what it asks for then is not a removal.
LEMMA ConnectedCovered ==
    ASSUME Inv, Inv', Covered, UNCHANGED processVars, NEW c \in Program, NEW calls \in Seq(Calls),
           Ready(c, calls), \A i \in DOMAIN calls : calls[i] # "unregister"
    PROVE  Covered'
<1>1. requests \in [Program -> Seq(Calls)] /\ requests[c] \in Seq(Calls)
  BY DEF Inv, TypeOK, BrokerTypeOK, Calls
<1>2. /\ requests' = [requests EXCEPT ![c] = requests[c] \o calls]
      /\ UNCHANGED <<services, crashes>>
  BY DEF Ready, registryVars
<1>3. requests'[c] = requests[c] \o calls
  BY <1>1, <1>2
<1>4. Calling(calls) = {} /\ Cardinality(Calling(calls)) = 0
  BY CallingNone
<1>5. Cardinality(Calling(requests'[c])) <= Cardinality(Calling(requests[c])) + 0
  BY <1>1, <1>3, <1>4, CallingMore
<1>6. Cardinality(Calling(requests[c])) \in Nat
  BY <1>1, CallingFinite
<1>7. ASSUME c \in Server
      PROVE  Owed(c)' <= Owed(c)
  <2>1. requests'[c] \in Seq(Calls) /\ answers[c] \in Nat /\ registered[c] \in Nat
    BY <1>1, <1>3, <1>7 DEF Inv, TypeOK
  <2>2. Cardinality(Calling(requests'[c])) \in Nat
    BY <2>1, CallingFinite
  <2> QED
    BY <1>5, <1>6, <1>7, <2>1, <2>2, ServerOwes DEF processVars
<1>8. ASSUME c \in Client
      PROVE  Calling(requests'[c]) = {}
  <2>1. Calling(requests[c]) = {}
    BY <1>8 DEF Covered
  <2>2. \A i \in DOMAIN requests'[c] : requests'[c][i] # "unregister"
    BY <1>1, <1>3, <2>1 DEF Calling
  <2> QED
    BY <2>2 DEF Calling
<1> QED
  BY <1>1, <1>2, <1>7, <1>8, CoveredLocal DEF processVars

LEMMA HandledCovered ==
    ASSUME Inv, Inv', Covered, NEW s \in Server, HandleRegistered(s)
    PROVE  Covered'
<1>1. /\ answers[s] \in Nat /\ registered[s] \in Nat /\ s \in Program
      /\ requests[s] \in Seq(Calls)
  BY SetsOfProcesses DEF Inv, TypeOK, BrokerTypeOK, Calls
<1>2. /\ answers'[s] = answers[s] - 1 /\ registered'[s] = registered[s] + 1
      /\ UNCHANGED <<services, crashes, polling, phase, requests>>
      /\ \A p \in Server \ {s} : answers'[p] = answers[p] /\ registered'[p] = registered[p]
  BY DEF HandleRegistered, brokerVars, Inv, TypeOK
<1>3. Cardinality(Calling(requests[s])) \in Nat
  BY <1>1, CallingFinite
<1>4. Owed(s)' <= Owed(s)
  BY <1>1, <1>2, <1>3, ServerOwes
<1>5. s \notin Client
  BY ProgramAssumption
<1> QED
  BY <1>1, <1>2, <1>4, <1>5, CoveredLocal

LEMMA ShutdownCovered ==
    ASSUME Inv, Inv', Covered, NEW s \in Server, HandleShutdown(s)
    PROVE  Covered'
<1> DEFINE all == [i \in 1 .. registered[s] |-> "unregister"]
<1>1. /\ answers[s] \in Nat /\ registered[s] \in Nat /\ s \in Program /\ s \notin Client
      /\ requests \in [Program -> Seq(Calls)] /\ requests[s] \in Seq(Calls)
  BY SetsOfProcesses, ProgramAssumption DEF Inv, TypeOK, BrokerTypeOK, Calls
<1>2. all \in Seq(Calls)
  BY <1>1 DEF Calls
<1>3. /\ UNCHANGED <<services, crashes, polling, answers>> /\ registered'[s] = 0
      /\ \A p \in Process \ {s} : phase'[p] = phase[p]
      /\ \A p \in Server \ {s} : registered'[p] = registered[p]
      /\ \A p \in Program \ {s} : requests'[p] = requests[p]
      /\ requests'[s] = requests[s] \/ requests'[s] = requests[s] \o all
  BY <1>1 DEF HandleShutdown, registryVars, Inv, TypeOK
<1>4. /\ Cardinality(Calling(requests[s])) \in Nat /\ Cardinality(Calling(all)) = registered[s]
      /\ Cardinality(Calling(requests[s] \o all))
           <= Cardinality(Calling(requests[s])) + Cardinality(Calling(all))
  <2>1. Cardinality(Calling(all)) = registered[s]
    BY <1>1, CallingTimes
  <2> HIDE DEF all
  <2> QED
    BY <1>1, <1>2, <2>1, CallingFinite, CallingMore
<1>5. Owed(s)' <= Owed(s)
  <2>1. Cardinality(Calling(requests'[s])) \in Nat
    <3>1. requests[s] \o all \in Seq(Calls)
      BY <1>1, <1>2
    <3> QED
      BY <1>1, <1>3, <3>1, CallingFinite
  <2>2. Cardinality(Calling(requests'[s])) <= Cardinality(Calling(requests[s])) + registered[s]
    <3>1. CASE requests'[s] = requests[s]
      BY <1>1, <1>4, <3>1
    <3>2. CASE requests'[s] = requests[s] \o all
      <4>1. Cardinality(Calling(requests'[s])) = Cardinality(Calling(requests[s] \o all))
        BY <3>2
      <4> HIDE DEF all
      <4> QED
        BY <1>4, <4>1
    <3> QED
      BY <1>3, <3>1, <3>2
  <2>3. answers'[s] = answers[s] /\ registered'[s] = 0
    BY <1>3
  <2> QED
    BY <1>1, <1>4, <2>1, <2>2, <2>3, ServerOwes
<1> HIDE DEF all
<1> QED
  BY <1>1, <1>3, <1>5, CoveredLocal

\* A program ends, and with it what it would have asked for.
LEMMA EndedCovered ==
    ASSUME Inv, Inv', Covered, NEW c \in Program, Disconnect(c), UNCHANGED polling,
           \A p \in Process : phase[p] = "exited" => phase'[p] = "exited",
           \A p \in Server \ {c} : answers'[p] = answers[p] /\ registered'[p] = registered[p],
           c \in Server => answers'[c] = 0 /\ registered'[c] <= registered[c]
    PROVE  Covered'
<1>1. /\ requests' = [requests EXCEPT ![c] = <<>>] /\ UNCHANGED <<services, crashes>>
      /\ requests \in [Program -> Seq(Calls)] /\ requests[c] \in Seq(Calls)
  BY DEF Disconnect, Inv, TypeOK, BrokerTypeOK, Calls
<1>2. requests'[c] = <<>> /\ \A p \in Program \ {c} : requests'[p] = requests[p]
  BY <1>1
<1>3. Calling(requests'[c]) = {} /\ Cardinality(Calling(requests'[c])) = 0
  BY <1>2, FS_EmptySet DEF Calling
<1>4. Cardinality(Calling(requests[c])) \in Nat
  BY <1>1, CallingFinite
<1>5. ASSUME c \in Server
      PROVE  Owed(c)' <= Owed(c)
  <2>1. answers[c] \in Nat /\ registered[c] \in Nat /\ registered'[c] \in Nat
    BY <1>5 DEF Inv, TypeOK
  <2>2. answers'[c] = 0 /\ registered'[c] <= registered[c]
    BY <1>5
  <2>3. /\ Owed(c) = answers[c] + registered[c] + Cardinality(Calling(requests[c]))
        /\ Owed(c)' = answers'[c] + registered'[c] + Cardinality(Calling(requests'[c]))
    BY <1>5, ServerOwes
  <2> QED
    BY <1>3, <1>4, <2>1, <2>2, <2>3
<1> QED
  BY <1>1, <1>2, <1>3, <1>5, CoveredLocal

LEMMA DepartedCovered ==
    ASSUME Inv, Inv', Covered,
           \/ \E s \in Server : ServerExits(s) \/ ServerKilled(s)
           \/ \E c \in Client : ClientExits(c)
    PROVE  Covered'
<1>1. ASSUME NEW s \in Server, ServerExits(s) \/ ServerKilled(s)
      PROVE  Covered'
  <2>1. /\ registered[s] \in Nat /\ s \in Program /\ Disconnect(s) /\ UNCHANGED polling
        /\ phase' = [phase EXCEPT ![s] = "exited"]
        /\ answers' = [answers EXCEPT ![s] = 0]
        /\ registered' = registered \/ registered' = [registered EXCEPT ![s] = 0]
    BY <1>1, SetsOfProcesses DEF ServerExits, ServerKilled, Inv, TypeOK
  <2>2. /\ \A p \in Process : phase[p] = "exited" => phase'[p] = "exited"
        /\ \A p \in Server \ {s} : answers'[p] = answers[p] /\ registered'[p] = registered[p]
        /\ answers'[s] = 0 /\ registered'[s] <= registered[s]
    BY <2>1 DEF Inv, TypeOK
  <2> QED
    BY <2>1, <2>2, EndedCovered
<1>2. ASSUME NEW c \in Client, ClientExits(c)
      PROVE  Covered'
  <2>1. /\ c \in Program /\ Disconnect(c) /\ UNCHANGED <<polling, answers, registered>>
        /\ phase' = [phase EXCEPT ![c] = "exited"] /\ c \notin Server
    BY <1>2, SetsOfProcesses, ProgramAssumption DEF ClientExits, serverVars
  <2>2. \A p \in Process : phase[p] = "exited" => phase'[p] = "exited"
    BY <2>1 DEF Inv, TypeOK
  <2> QED
    BY <2>1, <2>2, EndedCovered
<1> QED
  BY <1>1, <1>2

LEMMA ChangeCovered ==
    ASSUME Inv, Inv', Covered, NEW c \in Client, HandleChange(c)
    PROVE  Covered'
<1>1. /\ c \in Program /\ c \notin Server /\ requests \in [Program -> Seq(Calls)]
      /\ requests[c] \in Seq(Calls)
  BY SetsOfProcesses, ProgramAssumption DEF Inv, TypeOK, BrokerTypeOK, Calls
<1>2. /\ UNCHANGED <<services, crashes>> /\ UNCHANGED processVars
      /\ \/ requests' = [requests EXCEPT ![c] = requests[c]]
         \/ requests' = [requests EXCEPT ![c] = Append(requests[c], "list")]
  BY DEF HandleChange
<1>3. /\ requests'[c] = requests[c] \/ requests'[c] = Append(requests[c], "list")
      /\ \A p \in Program \ {c} : requests'[p] = requests[p]
  BY <1>1, <1>2
<1>4. Calling(requests'[c]) = {}
  <2>1. \A i \in DOMAIN requests[c] : requests[c][i] # "unregister"
    BY DEF Covered, Calling
  <2>2. \A i \in DOMAIN requests'[c] : requests'[c][i] # "unregister"
    BY <1>1, <1>3, <2>1
  <2> QED
    BY <2>2 DEF Calling
<1> QED
  BY <1>1, <1>2, <1>3, <1>4, CoveredLocal DEF processVars

LEMMA CallsFailCovered ==
    ASSUME Inv, Inv', Covered, NEW s \in Server, CallsFail(s)
    PROVE  Covered'
<1>1. /\ requests' = [requests EXCEPT ![s] = <<>>]
      /\ UNCHANGED <<services, crashes, phase, registered, answers, polling>>
      /\ s \in Program /\ requests[s] \in Seq(Calls) /\ s \notin Client
      /\ requests \in [Program -> Seq(Calls)] /\ answers[s] \in Nat /\ registered[s] \in Nat
  BY SetsOfProcesses, ProgramAssumption
     DEF CallsFail, registryVars, Inv, TypeOK, BrokerTypeOK, Calls
<1>2. requests'[s] = <<>> /\ \A p \in Program \ {s} : requests'[p] = requests[p]
  BY <1>1
<1>3. Cardinality(Calling(requests'[s])) = 0
  <2>1. Calling(requests'[s]) = {}
    BY <1>2 DEF Calling
  <2> QED
    BY <2>1, FS_EmptySet
<1>4. Cardinality(Calling(requests[s])) \in Nat
  BY <1>1, CallingFinite
<1>5. Owed(s)' <= Owed(s)
  BY <1>1, <1>3, <1>4, ServerOwes
<1> QED
  BY <1>1, <1>2, <1>5, CoveredLocal

LEMMA CrashCovered ==
    ASSUME Inv, Covered, BrokerCrashes
    PROVE  Covered'
<1>1. crashes' # 0
  <2>1. crashes \in Nat /\ crashes' = crashes + 1
    BY BrokerAssumption DEF Inv, TypeOK, BrokerTypeOK, BrokerCrashes, Crash
  <2> QED
    BY <2>1
<1>2. services' = <<>> /\ requests' = [c \in Program |-> <<>>]
  BY DEF BrokerCrashes, Crash
<1>3. \A r \in RustServer : ~Listed(r)'
  BY <1>2 DEF Listed, ToSet
<1>4. \A c \in Client : Calling(requests'[c]) = {}
  BY <1>2, SetsOfProcesses DEF Calling
<1> QED
  BY <1>1, <1>3, <1>4 DEF Covered

LEMMA ServedCovered ==
    ASSUME Inv, Inv', Covered, NEW c \in Program, Serve(c)
    PROVE  Covered'
<1>1. /\ requests \in [Program -> Seq(Calls)] /\ requests[c] \in Seq(Calls) /\ requests[c] # <<>>
      /\ services \in Seq(Provider) /\ answers \in [Server -> Nat] /\ registered \in [Server -> Nat]
  BY DEF Inv, TypeOK, BrokerTypeOK, Calls, Serve
<1>2. /\ requests' = [requests EXCEPT ![c] = Tail(requests[c])]
      /\ UNCHANGED <<crashes, phase, registered, polling>>
  BY DEF Serve
<1>3. /\ requests'[c] = Tail(requests[c]) /\ Tail(requests[c]) \in Seq(Calls)
      /\ \A p \in Program \ {c} : requests'[p] = requests[p]
  BY <1>1, <1>2
<1>4. /\ Cardinality(Calling(requests[c])) \in Nat /\ Cardinality(Calling(requests'[c])) \in Nat
      /\ Cardinality(Calling(requests'[c]))
           <= Cardinality(Calling(requests[c])) - (IF requests[c][1] = "unregister" THEN 1 ELSE 0)
  BY <1>1, <1>3, CallingFinite, CallingTail
<1>5. \A d \in Client : Calling(requests'[d]) = {}
  <2>1. ASSUME NEW d \in Client, d = c
        PROVE  Calling(requests'[d]) = {}
    <3>1. \A i \in DOMAIN requests[c] : requests[c][i] # "unregister"
      BY <2>1 DEF Covered, Calling
    <3>2. \A i \in DOMAIN requests'[c] : requests'[c][i] # "unregister"
      BY <1>1, <1>3, <3>1
    <3> QED
      BY <2>1, <3>2 DEF Calling
  <2> QED
    BY <1>3, <2>1, SetsOfProcesses DEF Covered
<1>6. \A p \in Provider \ {c} : UNCHANGED <<answers, registered>> => Owed(p)' <= Owed(p)
  <2> SUFFICES ASSUME NEW p \in Provider \ {c}, UNCHANGED <<answers, registered>>
               PROVE  Owed(p)' <= Owed(p)
    OBVIOUS
  <2> QED
    BY <1>2, <1>3, OwedKept, SetsOfProcesses DEF Inv
<1>7. ASSUME c \in Server, UNCHANGED <<answers, registered>>
      PROVE  Owed(c)' <= Owed(c) - (IF requests[c][1] = "unregister" THEN 1 ELSE 0)
  <2>1. answers'[c] = answers[c] /\ registered'[c] = registered[c]
        /\ answers[c] \in Nat /\ registered[c] \in Nat
    BY <1>1, <1>7
  <2> QED
    BY <1>4, <1>7, <2>1, ServerOwes
<1>8. ASSUME c \in Client
      PROVE  requests[c][1] # "unregister"
  <2>1. 1 \in DOMAIN requests[c]
    BY <1>1
  <2> QED
    BY <1>8, <2>1 DEF Covered, Calling
<1>9. CASE UNCHANGED <<services, answers>>
  <2>1. ASSUME NEW p \in Provider
        PROVE  Owed(p)' <= Owed(p)
    <3>1. CASE p = c
      <4>1. c \in Server /\ Owed(c) \in Nat /\ Owed(c)' \in Nat
        BY <2>1, <3>1, ProgramAssumption, OwedTyped, OwedTypedNext DEF Inv
      <4> QED
        BY <1>2, <1>7, <1>9, <3>1, <4>1
    <3> QED
      BY <1>2, <1>6, <1>9, <2>1, <3>1
  <2>2. Len(services') >= Len(services)
    BY <1>1, <1>9
  <2>3. crashes' = 0 => IsFiniteSet(Removals') /\ Cardinality(Removals') <= Len(services')
    BY <1>2, <2>1, <2>2, CoverKept DEF Inv
  <2> QED
    BY <1>2, <1>5, <1>9, <2>3 DEF Covered, Listed
<1>10. CASE /\ requests[c][1] = "register" /\ c \in Server /\ RegisterService(c)
            /\ answers' = [answers EXCEPT ![c] = @ + 1]
  <2>1. c \in Provider /\ c \notin RustServer
    BY <1>10, SetsOfProcesses, ProgramAssumption
  <2>2. Len(services') = Len(services) + 1 /\ ToSet(services') \subseteq ToSet(services) \cup {c}
    BY <1>1, <1>10, <2>1, RegistrySteps
  <2>3. Owed(c)' <= Owed(c) + 1
    <3>1. answers'[c] = answers[c] + 1 /\ registered'[c] = registered[c]
          /\ answers[c] \in Nat /\ registered[c] \in Nat
      BY <1>1, <1>2, <1>10
    <3>2. Cardinality(Calling(requests'[c])) <= Cardinality(Calling(requests[c]))
      BY <1>4, <1>10
    <3> QED
      BY <1>4, <1>10, <3>1, <3>2, ServerOwes
  <2>4. ASSUME NEW p \in Provider \ {c}
        PROVE  Owed(p)' <= Owed(p)
    <3>1. p \in Server => answers'[p] = answers[p]
      BY <1>1, <1>10, <2>4
    <3> QED
      BY <1>2, <1>3, <2>4, <3>1, OwedKept, SetsOfProcesses DEF Inv
  <2>5. Len(services') >= Len(services) + 1
    BY <1>1, <2>2
  <2>6. crashes' = 0 => IsFiniteSet(Removals') /\ Cardinality(Removals') <= Len(services')
    BY <1>2, <2>1, <2>3, <2>4, <2>5, CoverMore DEF Inv
  <2>7. \A r \in RustServer : Listed(r)' => polling'[r].registered
    BY <1>2, <2>1, <2>2 DEF Covered, Listed
  <2> QED
    BY <1>5, <2>6, <2>7 DEF Covered
<1>11. CASE requests[c][1] = "unregister" /\ UnregisterService /\ UNCHANGED answers
  <2>1. c \in Server /\ c \in Provider
    BY <1>8, <1>11, ProgramAssumption
  <2>2. Len(services') = Len(services) - 1 /\ ToSet(services') \subseteq ToSet(services)
    BY <1>1, <1>11, <2>1, RegistrySteps
  <2>3. Owed(c)' + 1 <= Owed(c)
    <3>1. Owed(c)' <= Owed(c) - 1
      BY <1>2, <1>7, <1>11, <2>1
    <3>2. Owed(c) \in Nat /\ Owed(c)' \in Nat
      BY <2>1, OwedTyped, OwedTypedNext DEF Inv
    <3> QED
      BY <3>1, <3>2
  <2>4. \A p \in Provider \ {c} : Owed(p)' <= Owed(p)
    BY <1>2, <1>6, <1>11
  <2>5. Len(services') >= Len(services) - 1
    BY <1>1, <2>2
  <2>6. crashes' = 0 => IsFiniteSet(Removals') /\ Cardinality(Removals') <= Len(services')
    BY <1>2, <2>1, <2>3, <2>4, <2>5, CoverLess DEF Inv
  <2>7. \A r \in RustServer : Listed(r)' => polling'[r].registered
    BY <1>2, <2>2 DEF Covered, Listed
  <2> QED
    BY <1>5, <2>6, <2>7 DEF Covered
<1> QED
  BY <1>1, <1>9, <1>10, <1>11 DEF Serve, registryVars, NotifyServiceChanges

LEMMA RustServerCovered ==
    ASSUME Inv, Inv', Covered, NEW r \in RustServer, RustServerStep(r)
    PROVE  Covered'
<1>1. /\ services \in Seq(Provider) /\ r \in Provider /\ r \notin Server /\ r \in Process
      /\ polling \in [RustServer -> [step : {"sleep", "register"}, registered : BOOLEAN]]
      /\ phase \in [Process -> {"binding", "running", "exited"} \cup Leaving]
  BY SetsOfProcesses, ProgramAssumption DEF Inv, TypeOK, BrokerTypeOK
<1>2. /\ UNCHANGED <<requests, crashes, answers, registered>>
      /\ \A p \in RustServer \ {r} : polling'[p] = polling[p]
      /\ \A p \in Process : phase[p] = "exited" => phase'[p] = "exited"
  BY <1>1 DEF RustServerStep, IsRegistered, RustRegisters, RustLeaves, brokerVars, connectionVars,
              serverVars
<1>3. \A c \in Client : Calling(requests'[c]) = {}
  BY <1>2 DEF Covered
<1>4. ASSUME NEW p \in Provider \ {r}
      PROVE  Owed(p)' <= Owed(p)
  <2>1. p \in Process /\ (p \notin Server => p \in RustServer \ {r})
    BY <1>4, SetsOfProcesses, ProgramAssumption
  <2> QED
    BY <1>2, <2>1, OwedKept DEF Inv
<1>5. Owed(r) = (IF polling[r].registered /\ phase[r] # "exited" THEN 1 ELSE 0)
      /\ Owed(r)' = (IF polling'[r].registered /\ phase'[r] # "exited" THEN 1 ELSE 0)
  BY <1>1 DEF Owed
<1>6. \A p \in RustServer \ {r} : p \in ToSet(services) => polling'[p].registered
  BY <1>2 DEF Covered, Listed
<1>7. CASE /\ services' = services
           /\ polling[r].registered => polling'[r].registered
           /\ Owed(r)' <= Owed(r)
  <2>1. \A p \in Provider : Owed(p)' <= Owed(p)
    BY <1>4, <1>7
  <2>2. Len(services') >= Len(services)
    BY <1>1, <1>7
  <2>3. crashes' = 0 => IsFiniteSet(Removals') /\ Cardinality(Removals') <= Len(services')
    BY <1>2, <2>1, <2>2, CoverKept DEF Inv
  <2>4. \A p \in RustServer : Listed(p)' => polling'[p].registered
    BY <1>6, <1>7 DEF Covered, Listed
  <2> QED
    BY <1>3, <2>3, <2>4 DEF Covered
<1>8. CASE IsRegistered(r)
  <2>1. CASE Listed(r)
    <3>1. polling[r].registered /\ phase' = phase /\ services' = services
      BY <1>8, <2>1 DEF Covered, IsRegistered, brokerVars
    <3>2. polling'[r].registered
      BY <1>1, <1>8, <2>1 DEF IsRegistered
    <3> QED
      BY <1>5, <1>7, <3>1, <3>2
  <2>2. CASE ~Listed(r)
    <3>1. polling'[r].registered = polling[r].registered /\ phase' = phase /\ services' = services
      BY <1>1, <1>8, <2>2 DEF IsRegistered, brokerVars
    <3> QED
      BY <1>5, <1>7, <3>1
  <2> QED
    BY <2>1, <2>2
<1>9. CASE RustRegisters(r)
  <2>1. CASE up
    <3>1. RegisterService(r) /\ polling'[r].registered
      <4>1. polling' = [polling EXCEPT ![r] = [step |-> "sleep", registered |-> TRUE]]
        BY <1>9, <2>1, Zenon DEF RustRegisters
      <4> QED
        BY <1>1, <1>9, <2>1, <4>1 DEF RustRegisters
    <3>2. Len(services') = Len(services) + 1 /\ ToSet(services') \subseteq ToSet(services) \cup {r}
      BY <1>1, <3>1, RegistrySteps
    <3>3. Owed(r)' <= Owed(r) + 1
      BY <1>5
    <3>4. Len(services') >= Len(services) + 1
      BY <1>1, <3>2
    <3>5. crashes' = 0 => IsFiniteSet(Removals') /\ Cardinality(Removals') <= Len(services')
      BY <1>1, <1>2, <1>4, <3>3, <3>4, CoverMore DEF Inv
    <3>6. \A p \in RustServer : Listed(p)' => polling'[p].registered
      BY <1>6, <3>1, <3>2 DEF Listed
    <3> QED
      BY <1>3, <3>5, <3>6 DEF Covered
  <2>2. CASE ~up
    <3>1. polling' = [polling EXCEPT ![r] = [polling[r] EXCEPT !.step = "sleep"]]
      BY <1>1, <1>9, <2>2 DEF RustRegisters
    <3>2. polling'[r].registered = polling[r].registered
      BY <1>1, <3>1
    <3>3. phase' = phase /\ services' = services
      BY <1>9, <2>2 DEF RustRegisters, registryVars
    <3> QED
      BY <1>5, <1>7, <3>2, <3>3
  <2> QED
    BY <2>1, <2>2
<1>10. CASE RustLeaves(r)
  <2>1. polling' = polling
    BY <1>10 DEF RustLeaves
  <2>2. CASE UnregisterService
    <3>1. Len(services') = Len(services) - 1 /\ ToSet(services') \subseteq ToSet(services)
      BY <1>1, <2>2, RegistrySteps
    <3>2. polling[r].registered /\ phase[r] # "exited" /\ phase'[r] = "exited"
      <4>1. services' # services
        BY <1>1, <3>1
      <4> QED
        BY <1>1, <1>10, <4>1 DEF RustLeaves, registryVars
    <3>3. Owed(r)' + 1 <= Owed(r)
      BY <1>5, <3>2
    <3>4. Len(services') >= Len(services) - 1
      BY <1>1, <3>1
    <3>5. crashes' = 0 => IsFiniteSet(Removals') /\ Cardinality(Removals') <= Len(services')
      BY <1>1, <1>2, <1>4, <3>3, <3>4, CoverLess DEF Inv
    <3>6. \A p \in RustServer : Listed(p)' => polling'[p].registered
      BY <2>1, <3>1 DEF Covered, Listed
    <3> QED
      BY <1>3, <3>5, <3>6 DEF Covered
  <2>3. CASE UNCHANGED registryVars
    <3>1. phase[r] # "exited" /\ services' = services
      BY <1>10, <2>3 DEF RustLeaves, registryVars
    <3> QED
      BY <1>5, <1>7, <2>1, <3>1
  <2> QED
    BY <1>10, <2>2, <2>3 DEF RustLeaves
<1> QED
  BY <1>8, <1>9, <1>10 DEF RustServerStep

LEMMA StepCovered ==
    ASSUME Inv, Inv', Covered, [Next]_vars
    PROVE  Covered'
<1>1. CASE /\ UNCHANGED <<services, requests, crashes, answers, registered, polling>>
           /\ \A p \in Process : phase[p] = "exited" => phase'[p] = "exited"
  BY <1>1, CoveredQuiet
<1>2. CASE \E c \in Program : WaitFails(c)
  BY <1>1, <1>2 DEF WaitFails, NotReady, registryVars, processVars
<1>3. ASSUME NEW c \in Program, ProgramStep(c)
      PROVE  Covered'
  <2>1. CASE (ReconnectTimer(c) \/ StreamEnds(c) \/ WatchFires(c)) /\ UNCHANGED processVars
    BY <1>1, <2>1 DEF ReconnectTimer, StreamEnds, WatchFires, registryVars, processVars
  <2>2. CASE c \in Server /\ ServerConnected(c)
    <3>1. <<"listen", "register">> \in Seq(Calls)
          /\ \A i \in DOMAIN <<"listen", "register">> : <<"listen", "register">>[i] # "unregister"
      BY DEF Calls
    <3> QED
      BY <2>2, <3>1, ConnectedCovered DEF ServerConnected
  <2>3. CASE c \in Client /\ ClientConnected(c)
    <3>1. <<"listen", "list">> \in Seq(Calls)
          /\ \A i \in DOMAIN <<"listen", "list">> : <<"listen", "list">>[i] # "unregister"
      BY DEF Calls
    <3>2. <<"listen">> \in Seq(Calls)
          /\ \A i \in DOMAIN <<"listen">> : <<"listen">>[i] # "unregister"
      BY DEF Calls
    <3>3. CASE endpoint[c] = NoProvider
      BY <2>3, <3>1, <3>3, ConnectedCovered DEF ClientConnected
    <3>4. CASE endpoint[c] # NoProvider
      BY <2>3, <3>2, <3>4, ConnectedCovered DEF ClientConnected
    <3> QED
      BY <3>3, <3>4
  <2>4. CASE Serve(c)
    BY <2>4, ServedCovered
  <2>5. CASE c \in Server /\ StartServer(c)
    <3>1. UNCHANGED <<services, requests, crashes, answers, registered, polling>>
      BY <2>5 DEF StartServer, registryVars, serverVars
    <3>2. \A p \in Process : phase[p] = "exited" => phase'[p] = "exited"
      BY <2>5 DEF StartServer, Inv, TypeOK
    <3> QED
      BY <1>1, <3>1, <3>2
  <2>6. CASE c \in Server /\ ServerExits(c)
    BY <2>6, DepartedCovered
  <2>7. CASE c \in Client /\ HandleServices(c)
    BY <1>1, <2>7 DEF HandleServices, brokerVars, serverVars
  <2> QED
    BY <1>3, <2>1, <2>2, <2>3, <2>4, <2>5, <2>6, <2>7, HandledCovered, CallsFailCovered,
       ChangeCovered DEF ProgramStep
<1>4. CASE StartBrokerServer /\ UNCHANGED processVars
  BY <1>1, <1>4 DEF StartBrokerServer, registryVars, processVars
<1>5. CASE \/ \E s \in Server : ServerKilled(s)
           \/ \E c \in Client : ClientExits(c)
  BY <1>5, DepartedCovered
<1>6. CASE \/ \E r \in RustServer : RustSignalled(r) \/ RustKilled(r)
           \/ \E k \in RustClient : RustClientStep(k)
           \/ \E k \in CppClient : CppClientStep(k)
           \/ \E k \in PollingClient : PollingClientExits(k)
  <2>1. UNCHANGED <<services, requests, crashes, answers, registered, polling>>
    BY <1>6 DEF RustSignalled, RustKilled, RustClientStep, CppClientStep, PollingClientExits,
                ConnectCalculator, ResolveService, CalculationFails, brokerVars, serverVars
  <2>2. \A p \in Process : phase[p] = "exited" => phase'[p] = "exited"
    BY <1>6 DEF RustSignalled, RustKilled, RustClientStep, CppClientStep, PollingClientExits,
                ConnectCalculator, ResolveService, CalculationFails, Inv, TypeOK
  <2> QED
    BY <1>1, <2>1, <2>2
<1>7. CASE UNCHANGED vars
  BY <1>1, <1>7 DEF vars
<1> QED
  BY <1>2, <1>3, <1>4, <1>5, <1>6, <1>7, CrashCovered, ShutdownCovered, RustServerCovered DEF Next

LEMMA InitCovered == Init => Covered
<1> SUFFICES ASSUME Init
             PROVE  Covered
  OBVIOUS
<1>1. services = <<>> /\ requests = [c \in Program |-> <<>>]
  BY DEF Init, BrokerInit
<1>2. \A p \in Provider : Owed(p) = 0
  <2> SUFFICES ASSUME NEW p \in Provider
               PROVE  Owed(p) = 0
    OBVIOUS
  <2>1. CASE p \in Server
    <3>1. requests[p] = <<>> /\ answers[p] = 0 /\ registered[p] = 0
      BY <1>1, <2>1, SetsOfProcesses DEF Init
    <3>2. Cardinality(Calling(requests[p])) = 0
      BY <3>1, FS_EmptySet DEF Calling
    <3> QED
      BY <2>1, <3>1, <3>2, ServerOwes
  <2>2. CASE p \notin Server
    <3>1. p \in RustServer
      BY <2>2, ProgramAssumption
    <3> QED
      BY <2>2, <3>1 DEF Owed, Init
  <2> QED
    BY <2>1, <2>2
<1>3. Removals = {}
  <2>1. \A p \in Provider : {p} \X (1 .. Owed(p)) = {}
    BY <1>2
  <2> QED
    BY <2>1 DEF Removals
<1>4. IsFiniteSet(Removals) /\ Cardinality(Removals) <= Len(services)
  <2>1. Cardinality(Removals) = 0 /\ IsFiniteSet(Removals)
    BY <1>3, FS_EmptySet
  <2>2. Len(services) = 0
    BY <1>1
  <2> QED
    BY <2>1, <2>2
<1>5. \A r \in RustServer : ~Listed(r)
  BY <1>1 DEF Listed, ToSet
<1>6. \A c \in Client : Calling(requests[c]) = {}
  BY <1>1, SetsOfProcesses DEF Calling
<1> QED
  BY <1>4, <1>5, <1>6 DEF Covered

-----------------------------------------------------------------------------
\* What a client is told.

Attached(c) == link[c].client = "ready" /\ link[c].lost = {}

\* A client that has not lost its connection listens, or will before it looks;
\* as long as it has no endpoint and there is an entry, it is going to look or
\* will be told one.
Following(c) ==
    /\ ~Attached(c) => requests[c] = <<>> /\ c \notin listeners /\ changes[c] = 0
    /\ Attached(c) /\ c \notin listeners =>
          /\ requests[c] # <<>> /\ requests[c][1] = "listen"
          /\ endpoint[c] = NoProvider => Len(requests[c]) >= 2 /\ requests[c][2] = "list"
    /\ Attached(c) /\ endpoint[c] = NoProvider /\ services # <<>> =>
          \/ changes[c] > 0
          \/ \E p \in results[c] : p # NoProvider
          \/ \E i \in DOMAIN requests[c] : requests[c][i] = "list"

Followed == \A c \in Client : Following(c)

LEMMA InitFollowed == Init => Followed
<1> SUFFICES ASSUME Init, NEW c \in Client
             PROVE  Following(c)
  BY DEF Followed
<1>1. /\ requests[c] = <<>> /\ listeners = {} /\ changes[c] = 0
      /\ link[c] = Connecting(NewLink) \/ link[c] = NewLink
  BY SetsOfProcesses DEF Init, BrokerInit
<1>2. ~Attached(c)
  BY <1>1 DEF Attached, Connecting, NewLink
<1> QED
  BY <1>1, <1>2 DEF Following

\* Whatever the others do, and the broker for them, a client is told of a new
\* entry as soon as it listens.
LEMMA OthersFollowed ==
    ASSUME Inv, NEW c \in Client, Following(c),
           UNCHANGED <<requests[c], endpoint[c], results[c]>>,
           Attached(c)' <=> Attached(c),
           c \in listeners' <=> c \in listeners,
           \/ UNCHANGED <<services, changes[c]>>
           \/ UnregisterService
           \/ \E p \in Provider : RegisterService(p)
    PROVE  Following(c)'
<1>1. /\ services \in Seq(Provider) /\ changes \in [Program -> Nat] /\ c \in Program
      /\ requests[c] \in Seq(Calls)
  BY SetsOfProcesses DEF Inv, TypeOK, BrokerTypeOK, Calls
<1>2. Attached(c)' <=> Attached(c)
  OBVIOUS
<1>3. CASE UNCHANGED <<services, changes[c]>>
  BY <1>2, <1>3 DEF Following
<1>4. CASE UnregisterService \/ \E p \in Provider : RegisterService(p)
  <2>1. changes'[c] = IF c \in listeners THEN changes[c] + 1 ELSE changes[c]
    BY <1>1, <1>4 DEF UnregisterService, RegisterService, Notified
  <2>2. CASE c \in listeners
    <3>1. changes'[c] > 0 /\ Attached(c)
      BY <1>1, <2>1, <2>2 DEF Following
    <3> QED
      BY <1>2, <2>2, <3>1 DEF Following
  <2>3. CASE c \notin listeners
    <3>1. Attached(c) /\ endpoint[c] = NoProvider =>
            \E i \in DOMAIN requests[c] : requests[c][i] = "list"
      BY <1>1, <2>3 DEF Following
    <3> QED
      BY <1>2, <2>1, <2>3, <3>1 DEF Following
  <2> QED
    BY <2>2, <2>3
<1> QED
  BY <1>3, <1>4

\* The broker handles the calls of the client itself.
LEMMA ServedFollows ==
    ASSUME Inv, Covered, NEW c \in Client, Following(c), Serve(c)
    PROVE  Following(c)'
<1> DEFINE R == requests[c]
<1>1. /\ requests \in [Program -> Seq(Calls)] /\ R \in Seq(Calls) /\ R # <<>> /\ c \in Program
      /\ services \in Seq(Provider) /\ results \in [Client -> SUBSET (Provider \cup {NoProvider})]
      /\ 1 \in DOMAIN R
  BY SetsOfProcesses DEF Inv, TypeOK, BrokerTypeOK, Calls, Serve
<1>2. /\ requests'[c] = Tail(R) /\ link' = link /\ endpoint' = endpoint
      /\ Attached(c)
  BY <1>1 DEF Serve, Following
<1>3. Attached(c)'
  BY <1>2 DEF Attached
<1>4. \A i \in DOMAIN R : i > 1 => i - 1 \in DOMAIN Tail(R) /\ Tail(R)[i - 1] = R[i]
  BY <1>1
<1>5. R[1] # "unregister" /\ c \notin Server
  BY <1>1, ProgramAssumption DEF Covered, Calling
<1>6. CASE R[1] = "listen" /\ NotifyServiceChanges(c) /\ UNCHANGED results
  <2>1. c \in listeners' /\ UNCHANGED <<services, changes>>
    BY <1>6 DEF NotifyServiceChanges
  <2>2. \A i \in DOMAIN R : R[i] = "list" => \E j \in DOMAIN requests'[c] : requests'[c][j] = "list"
    <3> SUFFICES ASSUME NEW i \in DOMAIN R, R[i] = "list"
                 PROVE  \E j \in DOMAIN requests'[c] : requests'[c][j] = "list"
      OBVIOUS
    <3>1. i > 1
      BY <1>1, <1>6
    <3> QED
      BY <1>2, <1>4, <3>1
  <2> QED
    BY <1>2, <1>3, <1>6, <2>1, <2>2 DEF Following
<1>7. CASE R[1] = "list" /\ results' = [results EXCEPT ![c] = @ \cup {First}] /\ UNCHANGED registryVars
  <2>1. c \in listeners
    BY <1>2, <1>7 DEF Following
  <2>2. First \in results'[c] /\ listeners' = listeners /\ services' = services
    BY <1>1, <1>7 DEF registryVars
  <2>3. services # <<>> => First # NoProvider
    BY <1>1, BrokerAssumption DEF First
  <2> QED
    BY <1>3, <2>1, <2>2, <2>3 DEF Following
<1> QED
  BY <1>1, <1>2, <1>5, <1>6, <1>7 DEF Serve

LEMMA ChangeFollows ==
    ASSUME Inv, NEW c \in Client, Following(c), HandleChange(c)
    PROVE  Following(c)'
<1>1. /\ requests \in [Program -> Seq(Calls)] /\ requests[c] \in Seq(Calls) /\ c \in Program
      /\ changes \in [Program -> Nat]
  BY SetsOfProcesses DEF Inv, TypeOK, BrokerTypeOK, Calls
<1>2. /\ UNCHANGED <<services, listeners, link, endpoint, results>>
      /\ changes[c] > 0
      /\ requests'[c] = IF endpoint[c] = NoProvider /\ link[c].client # "null"
                        THEN Append(requests[c], "list") ELSE requests[c]
  BY <1>1 DEF HandleChange, processVars
<1>3. Attached(c) /\ Attached(c)'
  <2>1. Attached(c)
    BY <1>2 DEF Following
  <2> QED
    BY <1>2, <2>1 DEF Attached
<1>4. CASE endpoint[c] = NoProvider
  <2>1. requests'[c] = Append(requests[c], "list")
    BY <1>2, <1>3, <1>4 DEF Attached
  <2>2. /\ Len(requests'[c]) = Len(requests[c]) + 1
        /\ \A i \in 1 .. Len(requests[c]) : requests'[c][i] = requests[c][i]
        /\ Len(requests'[c]) \in DOMAIN requests'[c]
        /\ requests'[c][Len(requests'[c])] = "list" /\ requests'[c] # <<>>
    BY <1>1, <2>1
  <2>3. c \notin listeners => Len(requests[c]) >= 2 /\ requests[c][1] = "listen" /\ requests[c][2] = "list"
    BY <1>3, <1>4 DEF Following
  <2>4. c \notin listeners => /\ Len(requests'[c]) >= 2 /\ requests'[c][1] = "listen"
                             /\ requests'[c][2] = "list"
    BY <1>1, <2>2, <2>3
  <2> QED
    BY <1>2, <1>3, <2>2, <2>4 DEF Following
<1>5. CASE endpoint[c] # NoProvider
  BY <1>2, <1>3, <1>5 DEF Following
<1> QED
  BY <1>4, <1>5

LEMMA ServicesFollows ==
    ASSUME Inv, NEW c \in Client, Following(c), HandleServices(c)
    PROVE  Following(c)'
<1>1. PICK p \in results[c] :
         /\ results' = [results EXCEPT ![c] = @ \ {p}]
         /\ endpoint' = [endpoint EXCEPT ![c] = IF p = NoProvider THEN @ ELSE p]
  BY DEF HandleServices
<1>2. /\ results'[c] = results[c] \ {p}
      /\ endpoint'[c] = IF p = NoProvider THEN endpoint[c] ELSE p
  BY <1>1 DEF Inv, TypeOK
<1>3. UNCHANGED <<services, listeners, changes, link, requests>>
  BY DEF HandleServices, brokerVars
<1>4. Attached(c)' <=> Attached(c)
  BY <1>3 DEF Attached
<1> QED
  BY <1>2, <1>3, <1>4 DEF Following

\* A connection is made: it begins with the calls that are made then.
LEMMA ConnectedFollows ==
    ASSUME Inv, NEW c \in Client, Following(c), ClientConnected(c)
    PROVE  Following(c)'
<1>1. /\ requests \in [Program -> Seq(Calls)] /\ c \in Program
      /\ link \in [Program -> Link] /\ link[c] \in Link
  BY SetsOfProcesses DEF Inv, TypeOK, BrokerTypeOK, Calls, Link
<1> DEFINE calls == IF endpoint[c] = NoProvider THEN <<"listen", "list">> ELSE <<"listen">>
<1>2. /\ link[c].client = "connecting"
      /\ link'[c] = [link[c] EXCEPT !.client = "ready", !.timer = FALSE]
      /\ requests'[c] = requests[c] \o calls
      /\ UNCHANGED <<services, listeners, changes, endpoint, results>>
  BY <1>1 DEF ClientConnected, Ready, registryVars, processVars
<1>3. /\ ~Attached(c) /\ requests[c] = <<>> /\ c \notin listeners
  BY <1>2 DEF Following, Attached
<1>4. Attached(c)'
  <2>1. link[c].lost = {}
    BY <1>1, <1>2, SetsOfProcesses DEF Inv, LinkSound
  <2>2. link'[c].client = "ready" /\ link'[c].lost = {}
    BY <1>1, <1>2, <2>1 DEF Link
  <2> QED
    BY <2>2 DEF Attached
<1>5. requests'[c] = calls
  BY <1>2, <1>3
<1>6. CASE endpoint[c] = NoProvider
  <2>1. requests'[c] = <<"listen", "list">>
    BY <1>5, <1>6
  <2>2. /\ requests'[c] # <<>> /\ requests'[c][1] = "listen" /\ Len(requests'[c]) >= 2
        /\ requests'[c][2] = "list" /\ 2 \in DOMAIN requests'[c]
    BY <2>1
  <2> QED
    BY <1>4, <2>2 DEF Following
<1>7. CASE endpoint[c] # NoProvider
  <2>1. requests'[c] = <<"listen">> /\ endpoint'[c] # NoProvider
    BY <1>2, <1>5, <1>7
  <2>2. requests'[c] # <<>> /\ requests'[c][1] = "listen"
    BY <2>1
  <2> QED
    BY <1>4, <2>1, <2>2 DEF Following
<1> QED
  BY <1>6, <1>7

LEMMA StepFollowed ==
    ASSUME Inv, Covered, Followed, [Next]_vars
    PROVE  Followed'
<1> SUFFICES ASSUME NEW c \in Client
             PROVE  Following(c)'
  BY DEF Followed
<1>1. /\ Following(c) /\ c \in Program /\ c \notin Server /\ c \in Process
      /\ c \notin PollingClient
      /\ requests \in [Program -> Seq(Calls)] /\ link \in [Program -> Link] /\ link[c] \in Link
      /\ changes \in [Program -> Nat] /\ endpoint \in [Client \cup PollingClient -> Provider \cup {NoProvider}]
      /\ results \in [Client -> SUBSET (Provider \cup {NoProvider})]
  BY SetsOfProcesses, ProgramAssumption DEF Followed, Inv, TypeOK, BrokerTypeOK, Calls, Link
<1>2. CASE /\ UNCHANGED <<services, listeners, changes, requests, endpoint, results>>
           /\ Attached(c)' <=> Attached(c)
  BY <1>1, <1>2, OthersFollowed
<1>3. ASSUME NEW d \in Program,
             \/ ReconnectTimer(d) \/ StreamEnds(d) \/ WatchFires(d) \/ NotReady(d),
             UNCHANGED processVars
      PROVE  Following(c)'
  <2>1. /\ UNCHANGED <<services, listeners, changes, requests, endpoint, results>>
        /\ d # c => link'[c] = link[c]
    BY <1>1, <1>3 DEF ReconnectTimer, StreamEnds, WatchFires, NotReady, registryVars, processVars
  <2>2. d = c => (Attached(c)' <=> Attached(c))
    <3> SUFFICES ASSUME d = c
                 PROVE  Attached(c)' <=> Attached(c)
      OBVIOUS
    <3>1. CASE ReconnectTimer(c)
      BY <1>1, <3>1 DEF ReconnectTimer, Connecting, Attached, Link
    <3>2. CASE StreamEnds(c)
      BY <1>1, <3>2 DEF StreamEnds, Cleared, Attached, Link
    <3>3. CASE WatchFires(c)
      BY <1>1, <3>3 DEF WatchFires, Cleared, Scheduled, Attached, Link
    <3>4. CASE NotReady(c)
      BY <1>1, <3>4 DEF NotReady, Scheduled, Attached, Link
    <3> QED
      BY <1>3, <3>1, <3>2, <3>3, <3>4
  <2>3. Attached(c)' <=> Attached(c)
    BY <2>1, <2>2 DEF Attached
  <2> QED
    BY <1>2, <2>1, <2>3
<1>4. ASSUME NEW d \in Program, d # c, Serve(d)
      PROVE  Following(c)'
  <2>1. /\ requests' = [requests EXCEPT ![d] = Tail(requests[d])] /\ UNCHANGED <<link, endpoint>>
        /\ results' = results \/ results' = [results EXCEPT ![d] = @ \cup {First}]
        /\ \/ UNCHANGED registryVars \/ NotifyServiceChanges(d) \/ UnregisterService
           \/ d \in Server /\ RegisterService(d)
    BY <1>4 DEF Serve
  <2>2. UNCHANGED <<requests[c], endpoint[c], results[c], link[c]>>
    BY <1>1, <1>4, <2>1
  <2>3. \/ UNCHANGED <<services, changes[c]>>
        \/ UnregisterService
        \/ \E p \in Provider : RegisterService(p)
    BY <2>1, SetsOfProcesses DEF registryVars, NotifyServiceChanges
  <2>4. c \in listeners' <=> c \in listeners
    BY <1>4, <2>1 DEF registryVars, NotifyServiceChanges, UnregisterService, RegisterService
  <2>5. Attached(c)' <=> Attached(c)
    BY <2>2 DEF Attached
  <2> QED
    BY <1>1, <2>2, <2>3, <2>4, <2>5, OthersFollowed
<1>5. ASSUME NEW d \in Program, Disconnect(d), d # c, UNCHANGED endpoint,
             results' = results \/ results' = [results EXCEPT ![d] = {}]
      PROVE  Following(c)'
  <2>1. UNCHANGED <<requests[c], endpoint[c], results[c], link[c], services, changes[c]>>
    BY <1>1, <1>5 DEF Disconnect, Unlistened
  <2>2. c \in listeners' <=> c \in listeners
    BY <1>5 DEF Disconnect, Unlistened
  <2>3. Attached(c)' <=> Attached(c)
    BY <2>1 DEF Attached
  <2> QED
    BY <1>1, <2>1, <2>2, <2>3, OthersFollowed
<1>6. ASSUME Disconnect(c)
      PROVE  Following(c)'
  <2>1. requests'[c] = <<>> /\ c \notin listeners' /\ changes'[c] = 0 /\ link'[c] = NewLink
    BY <1>1, <1>6 DEF Disconnect, Unlistened
  <2>2. ~Attached(c)'
    BY <2>1 DEF Attached, NewLink
  <2> QED
    BY <2>1, <2>2 DEF Following
<1>7. CASE BrokerCrashes
  <2>1. /\ requests'[c] = <<>> /\ c \notin listeners' /\ changes'[c] = 0
        /\ link'[c] = IF link[c].client = "ready" THEN [link[c] EXCEPT !.lost = {"stream", "watch"}]
                      ELSE link[c]
    BY <1>1, <1>7 DEF BrokerCrashes, Crash
  <2>2. ~Attached(c)'
    BY <1>1, <2>1 DEF Attached, Link
  <2> QED
    BY <2>1, <2>2 DEF Following
<1>8. ASSUME NEW d \in Program, d # c, NEW calls, Ready(d, calls), UNCHANGED processVars
      PROVE  Following(c)'
  <2>1. UNCHANGED <<requests[c], endpoint[c], results[c], link[c], services, listeners, changes[c]>>
    BY <1>1, <1>8 DEF Ready, registryVars, processVars
  <2>2. Attached(c)' <=> Attached(c)
    BY <2>1 DEF Attached
  <2> QED
    BY <1>1, <2>1, <2>2, OthersFollowed
<1>9. ASSUME NEW d \in Client, d # c, HandleChange(d) \/ HandleServices(d)
      PROVE  Following(c)'
  <2>1. UNCHANGED <<requests[c], endpoint[c], results[c], link[c], services, listeners, changes[c]>>
    BY <1>1, <1>9 DEF HandleChange, HandleServices, brokerVars, processVars
  <2>2. Attached(c)' <=> Attached(c)
    BY <2>1 DEF Attached
  <2> QED
    BY <1>1, <2>1, <2>2, OthersFollowed
<1>10. ASSUME NEW s \in Server,
              StartServer(s) \/ HandleRegistered(s) \/ HandleShutdown(s) \/ CallsFail(s)
       PROVE  Following(c)'
  <2>1. s # c
    BY <1>1
  <2>2. UNCHANGED <<endpoint, results, services, listeners, changes>>
    BY <1>10 DEF StartServer, HandleRegistered, HandleShutdown, CallsFail, registryVars, brokerVars,
                 clientVars
  <2>3. UNCHANGED <<requests[c], link[c]>>
    BY <1>1, <1>10, <2>1 DEF StartServer, HandleRegistered, HandleShutdown, CallsFail, registryVars,
                             brokerVars
  <2>4. Attached(c)' <=> Attached(c)
    BY <2>3 DEF Attached
  <2> QED
    BY <1>1, <2>2, <2>3, <2>4, OthersFollowed
<1>11. ASSUME NEW r \in RustServer, RustServerStep(r) \/ RustSignalled(r) \/ RustKilled(r)
       PROVE  Following(c)'
  <2>1. UNCHANGED <<link, requests, endpoint, results>>
    BY <1>11 DEF RustServerStep, IsRegistered, RustRegisters, RustLeaves, RustSignalled, RustKilled,
                 brokerVars, connectionVars
  <2>2. UNCHANGED registryVars \/ UnregisterService \/ RegisterService(r)
    BY <1>11 DEF RustServerStep, IsRegistered, RustRegisters, RustLeaves, RustSignalled, RustKilled,
                 brokerVars, registryVars
  <2>3. c \in listeners' <=> c \in listeners
    BY <2>2 DEF registryVars, UnregisterService, RegisterService
  <2>4. Attached(c)' <=> Attached(c)
    BY <2>1 DEF Attached
  <2>5. \/ UNCHANGED <<services, changes[c]>>
        \/ UnregisterService
        \/ \E p \in Provider : RegisterService(p)
    BY <2>2, SetsOfProcesses DEF registryVars
  <2> QED
    BY <1>1, <2>1, <2>3, <2>4, <2>5, OthersFollowed
<1>12. ASSUME NEW k \in PollingClient,
              \/ ConnectCalculator(k) \/ ResolveService(k) \/ CalculationFails(k)
              \/ PollingClientExits(k)
       PROVE  Following(c)'
  <2>1. UNCHANGED <<services, listeners, changes, requests, link, results>> /\ k # c
    BY <1>1, <1>12 DEF ConnectCalculator, ResolveService, CalculationFails, PollingClientExits, brokerVars
  <2>2. endpoint'[c] = endpoint[c]
    BY <1>1, <1>12, <2>1 DEF ConnectCalculator, ResolveService, CalculationFails, PollingClientExits
  <2>3. Attached(c)' <=> Attached(c)
    BY <2>1 DEF Attached
  <2> QED
    BY <1>1, <2>1, <2>2, <2>3, OthersFollowed
<1>13. CASE \E d \in Program : WaitFails(d)
  BY <1>3, <1>13 DEF WaitFails
<1>14. CASE StartBrokerServer /\ UNCHANGED processVars
  BY <1>2, <1>14 DEF StartBrokerServer, registryVars, processVars, Attached
<1>15. CASE UNCHANGED vars
  BY <1>2, <1>15 DEF vars, Attached
<1>16. ASSUME NEW d \in Program, ProgramStep(d)
       PROVE  Following(c)'
  <2>1. CASE Serve(d)
    BY <1>1, <1>4, <2>1, ServedFollows
  <2>2. CASE d \in Client /\ ClientConnected(d)
    BY <1>1, <1>8, <2>2, ConnectedFollows DEF ClientConnected
  <2>3. CASE d \in Client /\ (HandleChange(d) \/ HandleServices(d))
    BY <1>1, <1>9, <2>3, ChangeFollows, ServicesFollows
  <2>4. CASE d \in Server /\ ServerConnected(d)
    BY <1>1, <1>8, <2>4 DEF ServerConnected
  <2>5. CASE d \in Server /\ ServerExits(d)
    BY <1>1, <1>5, <2>5 DEF ServerExits, clientVars
  <2> QED
    BY <1>3, <1>10, <1>16, <2>1, <2>2, <2>3, <2>4, <2>5 DEF ProgramStep
<1>17. ASSUME NEW s \in Server, ServerKilled(s)
       PROVE  Following(c)'
  BY <1>1, <1>5, <1>17, SetsOfProcesses DEF ServerKilled, clientVars
<1>18. ASSUME NEW d \in Client, ClientExits(d)
       PROVE  Following(c)'
  BY <1>5, <1>6, <1>18, SetsOfProcesses DEF ClientExits
<1> QED
  BY <1>7, <1>10, <1>11, <1>12, <1>13, <1>14, <1>15, <1>16, <1>17, <1>18
     DEF Next, RustClientStep, CppClientStep, PollingClient

-----------------------------------------------------------------------------
\* The theorems.

\* The registry, the connections and the programs keep their types: an entry
\* is always one of a provider, and a client's endpoint is one or none.
THEOREM TypeCorrect == Spec => []TypeOK
<1>1. Inv => TypeOK
  BY DEF Inv
<1> QED
  BY <1>1, InitInv, StepInv, PTL DEF Spec

\* A program without a client always has a timer running or an event to come
\* that starts one, whatever breaks and in whichever order it hears of it.
THEOREM NobodyStranded == Spec => []NeverStranded
<1>1. Inv => NeverStranded
  BY DEF Inv, LinkSound, NeverStranded
<1> QED
  BY <1>1, InitInv, StepInv, PTL DEF Spec

\* Providers take each other's entries away; still, until the broker crashes,
\* there is an entry for every removal that is to come.
THEOREM RemovalsCovered == Spec => []EntriesCoverProviders
<1>1. Init => Inv /\ Covered
  BY InitInv, InitCovered
<1>2. Inv /\ Covered /\ [Next]_vars => (Inv /\ Covered)'
  BY StepInv, StepCovered
<1>3. Covered => EntriesCoverProviders
  BY DEF Covered, EntriesCoverProviders
<1> QED
  BY <1>1, <1>2, <1>3, PTL DEF Spec

\* A connected client without an endpoint that waits for nothing has missed no
\* registration, whatever connections broke and however calls and notifications
\* crossed.
THEOREM NoRegistrationMissed == Spec => []ClientInformed
<1>1. Init => Inv /\ Covered /\ Followed
  BY InitInv, InitCovered, InitFollowed
<1>2. Inv /\ Covered /\ Followed /\ [Next]_vars => (Inv /\ Covered /\ Followed)'
  BY StepInv, StepCovered, StepFollowed
<1>3. Inv /\ Followed => ClientInformed
  <2> SUFFICES ASSUME Inv, Followed, NEW c \in Client,
                      link[c].client = "ready", link[c].lost = {}, requests[c] = <<>>,
                      results[c] = {}, changes[c] = 0, endpoint[c] = NoProvider
               PROVE  services = <<>>
    BY DEF ClientInformed
  <2>1. Following(c) /\ Attached(c)
    BY DEF Followed, Attached
  <2>2. ~\E i \in DOMAIN requests[c] : requests[c][i] = "list"
    OBVIOUS
  <2> QED
    BY <2>1, <2>2 DEF Following
<1> QED
  BY <1>1, <1>2, <1>3, PTL DEF Spec
=============================================================================
