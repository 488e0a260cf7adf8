------------------------ MODULE ReporterProxyProofs ------------------------
(***************************************************************************)
(* Theorems about reporters, embedded and lent, for any number of them, of *)
(* registrations and of faults, with the proxy in the process of the       *)
(* service it reports to or elsewhere: the types, that a reporter's        *)
(* streams are those of its registration, and that a reporter the proxy    *)
(* has lent is filed by it and listed by the service.                      *)
(***************************************************************************)
EXTENDS ReporterProxy, TLAPS

-----------------------------------------------------------------------------
\* Types.

LEMMA StreamsTyped ==
    ASSUME ReporterTypeOK, NEW r \in Reporter
    PROVE  OpenStreams(r) \subseteq Reporter \X Kind \X Id
<1>1. reporter[r].heartbeatStream \in Id \cup {NoId} /\ reporter[r].activityStream \in Id \cup {NoId}
  BY DEF ReporterTypeOK, TopologyReporterFields
<1> QED
  BY <1>1 DEF OpenStreams, Kind

LEMMA CallsTyped == NoCall \in RegisterCall /\ Sent \in RegisterCall /\ Failed \in RegisterCall
BY DEF NoCall, Sent, Failed, RegisterCall

LEMMA InitTyped == Init => TypeOK
<1> SUFFICES ASSUME Init
             PROVE  TypeOK
  OBVIOUS
<1>1. ReporterTypeOK
  BY ReporterAssumption, CallsTyped
     DEF Init, ReporterInit, ReporterTypeOK, NewReporter, TopologyReporterFields
<1>2. DOMAIN services = {} /\ services \in [{} -> Proxied]
  BY DEF Init
<1>3. issued = <<>> /\ Len(issued) = 0 /\ 0 \in 0 .. Len(issued)
  BY DEF Init, ReporterInit
<1>4. stopping \in Progress(Len(issued))
  BY <1>3 DEF Init, NoId, NotStopping, Progress
<1> QED
  BY <1>1, <1>2, <1>4 DEF Init, TypeOK

\* What one reporter does, the proxy apart.
LEMMA ReporterStepTyped ==
    ASSUME ReporterTypeOK, NEW r \in Reporter,
           \/ Start(r) \/ RegisterAnswered(r) \/ RegisterFailed(r) \/ RetryDelayEnds(r)
           \/ \E kind \in Kind, id \in Id : StreamBroken(r, kind, id)
           \/ Shutdown(r)
    PROVE  ReporterTypeOK' /\ issued' = issued
<1> USE DEF ReporterTypeOK
<1>1. /\ reporter[r] \in TopologyReporterFields /\ call[r] \in RegisterCall
      /\ call[r].id \in Id \cup {NoId}
  BY DEF RegisterCall
<1>2. Called(r) \in RegisterCall
  BY <1>1, CallsTyped DEF Called
<1>3. CASE Start(r)
  <2>1. Triggered([reporter[r] EXCEPT !.autoReconnect = TRUE]) \in TopologyReporterFields
    BY <1>1 DEF TopologyReporterFields, Triggered
  <2> QED
    BY <1>2, <1>3, <2>1 DEF Start, serviceVars
<1>4. CASE RegisterAnswered(r)
  <2>1. [reporter[r] EXCEPT !.connecting = "no"] \in TopologyReporterFields
    BY <1>1 DEF TopologyReporterFields
  <2>2. Connected(reporter[r], call[r].id, r \in ActivityEnabled) \in TopologyReporterFields
    BY <1>1 DEF TopologyReporterFields, Connected, Opened
  <2> QED
    BY <1>4, <2>1, <2>2, CallsTyped DEF RegisterAnswered, serviceVars
<1>5. CASE RegisterFailed(r) \/ RetryDelayEnds(r)
  <2>1. \A step \in {"no", "register", "delay"} :
           [reporter[r] EXCEPT !.connecting = step] \in TopologyReporterFields
    BY <1>1 DEF TopologyReporterFields
  <2>2. CASE RegisterFailed(r)
    BY <2>1, <2>2, CallsTyped DEF RegisterFailed, serviceVars
  <2>3. CASE RetryDelayEnds(r)
    BY <1>2, <2>1, <2>3 DEF RetryDelayEnds, serviceVars
  <2> QED
    BY <1>5, <2>2, <2>3
<1>6. CASE \E kind \in Kind, id \in Id : StreamBroken(r, kind, id)
  <2>1. Triggered(Disconnected(reporter[r])) \in TopologyReporterFields
    BY <1>1 DEF TopologyReporterFields, Triggered, Disconnected
  <2> QED
    BY <1>2, <1>6, <2>1 DEF StreamBroken, serviceVars
<1>7. CASE Shutdown(r)
  <2>1. [Disconnected(reporter[r]) EXCEPT !.isShuttingDown = TRUE, !.autoReconnect = FALSE]
           \in TopologyReporterFields
    BY <1>1 DEF TopologyReporterFields, Disconnected
  <2>2. reporter[r].serviceId \in Id \cup {NoId}
    BY <1>1 DEF TopologyReporterFields
  <2> QED
    BY <1>7, <2>1, <2>2 DEF Shutdown, serviceVars
<1> QED
  BY <1>3, <1>4, <1>5, <1>6, <1>7

\* What the service and the network do.
LEMMA ServiceStepTyped ==
    ASSUME ReporterTypeOK,
           \/ \E r \in Reporter : \/ ServeRegister(r) \/ RegisterTimeout(r)
                                  \/ ServeUnregister(r) \/ UnregisterTimeout(r)
                                  \/ StreamsBreak(r)
           \/ \E id \in registered : Sweep(id)
           \/ Restart
    PROVE  /\ ReporterTypeOK' /\ reporter' = reporter
           /\ issued' = issued \/ \E r \in Reporter : issued' = Append(issued, r)
<1> USE DEF ReporterTypeOK
<1>1. ASSUME NEW r \in Reporter, ServeRegister(r)
      PROVE  ReporterTypeOK' /\ reporter' = reporter /\ issued' = Append(issued, r)
  <2>1. /\ issued' = Append(issued, r) /\ issued' \in Seq(Reporter)
        /\ Len(issued') = Len(issued) + 1 /\ Len(issued') \in Id
    BY <1>1, ReporterAssumption DEF ServeRegister, Id
  <2>2. [state |-> "answered", id |-> Len(issued')] \in RegisterCall
    BY <2>1 DEF RegisterCall
  <2>3. Len(issued') <= MaxIssued /\ Len(issued) \in Nat
    BY <1>1, <2>1, ReporterAssumption DEF ServeRegister
  <2>5. 1 .. Len(issued) \subseteq 1 .. Len(issued') /\ Len(issued') \in 1 .. Len(issued')
    BY <2>1, <2>3
  <2>6. registered' = registered \cup {Len(issued')} /\ overslept' = overslept
    BY <1>1 DEF ServeRegister
  <2>7. registered' \subseteq 1 .. Len(issued') /\ overslept' \subseteq 1 .. Len(issued')
    BY <2>5, <2>6
  <2>4. call' \in [Reporter -> RegisterCall]
    BY <1>1, <2>2 DEF ServeRegister
  <2> QED
    BY <1>1, <2>1, <2>3, <2>4, <2>7 DEF ServeRegister
<1>2. ASSUME NEW r \in Reporter, RegisterTimeout(r)
      PROVE  ReporterTypeOK' /\ reporter' = reporter /\ issued' = issued
  BY <1>2, CallsTyped, ReporterAssumption DEF RegisterTimeout, Fault
<1>3. ASSUME NEW r \in Reporter, ServeUnregister(r) \/ UnregisterTimeout(r)
      PROVE  ReporterTypeOK' /\ reporter' = reporter /\ issued' = issued
  BY <1>3 DEF ServeUnregister, UnregisterTimeout, serviceVars
<1>4. ASSUME NEW r \in Reporter, StreamsBreak(r)
      PROVE  ReporterTypeOK' /\ reporter' = reporter /\ issued' = issued
  <2>1. broken' \subseteq Reporter \X Kind \X Id
    BY <1>4, StreamsTyped DEF StreamsBreak
  <2> QED
    BY <1>4, <2>1, ReporterAssumption DEF StreamsBreak, Fault
<1>5. ASSUME NEW id \in registered, Sweep(id)
      PROVE  ReporterTypeOK' /\ reporter' = reporter /\ issued' = issued
  <2>1. registered' = registered \ {id} /\ issued' = issued
    BY <1>5 DEF Sweep
  <2>2. CASE Beating(id)
    <3>1. overslept' = overslept \cup {id} /\ faults' = faults + 1 /\ faults < MaxFaults
      BY <1>5, <2>2 DEF Sweep, Fault
    <3>2. overslept' \subseteq 1 .. Len(issued) /\ faults' \in 0 .. MaxFaults
      BY <3>1, ReporterAssumption
    <3> QED
      BY <1>5, <2>1, <3>2 DEF Sweep
  <2>3. CASE ~Beating(id)
    <3>1. overslept' = overslept /\ faults' = faults
      BY <1>5, <2>3 DEF Sweep
    <3> QED
      BY <1>5, <2>1, <3>1 DEF Sweep
  <2> QED
    BY <2>2, <2>3
<1>6. CASE Restart
  BY <1>6 DEF Restart
<1> QED
  BY <1>1, <1>2, <1>3, <1>4, <1>5, <1>6

\* A process dies.
LEMMA DeathTyped ==
    ASSUME ReporterTypeOK, NEW inside, Die(inside) \/ Crash(inside), faults' \in 0 .. MaxFaults
    PROVE  /\ ReporterTypeOK' /\ issued' = issued
           /\ \A r \in Reporter : reporter'[r] = IF r \in inside THEN NewReporter ELSE reporter[r]
<1> USE DEF ReporterTypeOK
<1>1. NewReporter \in TopologyReporterFields
  BY DEF NewReporter, TopologyReporterFields
<1>2. /\ reporter' = [r \in Reporter |-> IF r \in inside THEN NewReporter ELSE reporter[r]]
      /\ issued' = issued /\ overslept' = overslept
  BY DEF Die, Crash
<1>3. registered' \subseteq 1 .. Len(issued') /\ up' \in BOOLEAN
  BY <1>2 DEF Die, Crash
<1>4. broken' \subseteq Reporter \X Kind \X Id
  BY StreamsTyped DEF Die, Crash
<1>5. call' \in [Reporter -> RegisterCall] /\ leaving' \in [Reporter -> Id \cup {NoId}]
  <2>1. CASE Die(inside)
    BY <2>1, CallsTyped DEF Die
  <2>2. CASE Crash(inside)
    BY <2>2, CallsTyped DEF Crash
  <2> QED
    BY <2>1, <2>2
<1>6. reporter' \in [Reporter -> TopologyReporterFields]
  BY <1>1, <1>2
<1> QED
  BY <1>2, <1>3, <1>4, <1>5, <1>6

-----------------------------------------------------------------------------
\* The invariant.

\* A reporter holds a registration only while it neither calls nor waits nor
\* shuts down, its streams are those of that registration, and what it holds,
\* or is about to be told, was given out to it.
Sound(r) ==
    LET f == reporter[r]
    IN  /\ f.heartbeatStream = f.serviceId
        /\ f.activityStream = IF r \in ActivityEnabled THEN f.serviceId ELSE NoId
        /\ call[r].state # "none" \/ f.connecting # "no" \/ f.isShuttingDown
              => f.serviceId = NoId
        /\ r \in Direct /\ ~f.autoReconnect /\ ~f.isShuttingDown
              => f.serviceId = NoId /\ call[r].state = "none"
        /\ call[r].state = "answered"
              => call[r].id \in 1 .. Len(issued) /\ issued[call[r].id] = r
        /\ f.serviceId # NoId
              => f.serviceId \in 1 .. Len(issued) /\ issued[f.serviceId] = r

\* What it holds, or is about to be told, the service lists, unless the
\* heartbeat stream broke or its heartbeats came too late; what it is about to
\* cancel was its own.
Listed(r) ==
    LET f == reporter[r]
    IN  /\ call[r].state = "answered" /\ ~f.isShuttingDown => call[r].id \in registered
        /\ f.serviceId # NoId =>
              \/ f.serviceId \in registered \cup overslept
              \/ <<r, "heartbeat", f.serviceId>> \in broken
        /\ leaving[r] # NoId =>
              f.isShuttingDown /\ leaving[r] \in 1 .. Len(issued) /\ issued[leaving[r]] = r

\* The file holds reporters under ids they were given, every one of the proxy's
\* that is registered among them; what stop has passed is shut down.
Filing ==
    /\ \A id \in DOMAIN services : services[id] = issued[id]
    /\ \A r \in Proxied : reporter[r].serviceId # NoId => reporter[r].serviceId \in DOMAIN services
    /\ \A id \in stopping.seen :
          issued[id] \in Proxied /\ reporter[issued[id]].isShuttingDown

Reporters == \A r \in Reporter : Sound(r) /\ Listed(r)

Inv == TypeOK /\ Reporters /\ Filing

LEMMA SameReporterSound ==
    ASSUME NEW q \in Reporter, Sound(q), reporter'[q] = reporter[q], call'[q] = call[q],
           issued' = issued
    PROVE  Sound(q)'
BY DEF Sound

LEMMA ReporterStepSound ==
    ASSUME ReporterTypeOK, \A q \in Reporter : Sound(q), NEW r \in Reporter,
           \/ r \in Direct /\ Start(r)
           \/ RegisterAnswered(r) \/ RegisterFailed(r) \/ RetryDelayEnds(r)
           \/ \E kind \in Kind, id \in Id : StreamBroken(r, kind, id)
           \/ Shutdown(r)
    PROVE  \A q \in Reporter : Sound(q)'
<1>1. reporter \in [Reporter -> TopologyReporterFields] /\ call \in [Reporter -> RegisterCall]
  BY DEF ReporterTypeOK
<1>2. issued' = issued
  BY DEF Start, RegisterAnswered, RegisterFailed, RetryDelayEnds, StreamBroken, Shutdown,
         serviceVars
<1>3. ASSUME NEW q \in Reporter, q # r
      PROVE  Sound(q)'
  <2>1. reporter'[q] = reporter[q] /\ call'[q] = call[q]
    BY <1>1, <1>3 DEF Start, RegisterAnswered, RegisterFailed, RetryDelayEnds, StreamBroken,
                      Shutdown
  <2> QED
    BY <1>2, <2>1, SameReporterSound
<1>4. Sound(r)'
  <2>1. Sound(r) /\ reporter[r] \in TopologyReporterFields /\ call[r] \in RegisterCall
    BY <1>1
  <2>2. CASE r \in Direct /\ Start(r)
    <3>1. /\ reporter'[r] = Triggered([reporter[r] EXCEPT !.autoReconnect = TRUE])
          /\ call'[r] = Called(r) /\ ~reporter[r].autoReconnect /\ ~reporter[r].isShuttingDown
      BY <1>1, <2>2 DEF Start
    <3>2. reporter[r].serviceId = NoId /\ call[r].state = "none"
      BY <2>1, <2>2, <3>1 DEF Sound
    <3> QED
      BY <1>2, <2>1, <3>1, <3>2 DEF Sound, Triggered, Called, Sent, TopologyReporterFields
  <2>3. CASE RegisterAnswered(r)
    <3>1. /\ call[r].state = "answered" /\ call'[r] = NoCall
          /\ reporter'[r] = IF reporter[r].isShuttingDown
                            THEN [reporter[r] EXCEPT !.connecting = "no"]
                            ELSE Connected(reporter[r], call[r].id, r \in ActivityEnabled)
      BY <1>1, <2>3 DEF RegisterAnswered
    <3> QED
      BY <1>2, <2>1, <3>1 DEF Sound, Connected, Opened, NoCall, TopologyReporterFields
  <2>4. CASE RegisterFailed(r)
    <3>1. /\ call[r].state = "failed" /\ call'[r] = NoCall
          /\ \E step \in {"no", "delay"} :
                reporter'[r] = [reporter[r] EXCEPT !.connecting = step]
      BY <1>1, <2>4 DEF RegisterFailed
    <3> QED
      BY <1>2, <2>1, <3>1 DEF Sound, NoCall, TopologyReporterFields
  <2>5. CASE RetryDelayEnds(r)
    <3>1. /\ reporter[r].connecting = "delay"
          /\ \/ /\ reporter[r].autoReconnect /\ call'[r] = Called(r)
                /\ reporter'[r] = [reporter[r] EXCEPT !.connecting = "register"]
             \/ call' = call /\ reporter'[r] = [reporter[r] EXCEPT !.connecting = "no"]
      BY <1>1, <2>5 DEF RetryDelayEnds
    <3> QED
      BY <1>2, <2>1, <3>1 DEF Sound, Called, Sent, TopologyReporterFields
  <2>6. CASE \E kind \in Kind, id \in Id : StreamBroken(r, kind, id)
    <3>1. /\ reporter[r].autoReconnect
          /\ reporter'[r] = Triggered(Disconnected(reporter[r]))
          /\ call'[r] = IF reporter[r].connecting = "no" THEN Called(r) ELSE call[r]
      BY <1>1, <2>6 DEF StreamBroken
    <3> QED
      BY <1>2, <2>1, <3>1
         DEF Sound, Triggered, Disconnected, Called, Sent, TopologyReporterFields
  <2>7. CASE Shutdown(r)
    <3>1. /\ reporter'[r] = [Disconnected(reporter[r]) EXCEPT !.isShuttingDown = TRUE,
                                                              !.autoReconnect = FALSE]
          /\ call' = call
      BY <1>1, <2>7 DEF Shutdown
    <3> QED
      BY <1>2, <2>1, <3>1 DEF Sound, Disconnected, TopologyReporterFields
  <2> QED
    BY <2>2, <2>3, <2>4, <2>5, <2>6, <2>7
<1> QED
  BY <1>3, <1>4

LEMMA ServiceStepSound ==
    ASSUME ReporterTypeOK, \A q \in Reporter : Sound(q),
           \/ \E r \in Reporter : \/ ServeRegister(r) \/ RegisterTimeout(r)
                                  \/ ServeUnregister(r) \/ UnregisterTimeout(r)
                                  \/ StreamsBreak(r)
           \/ \E id \in registered : Sweep(id)
           \/ Restart
    PROVE  \A q \in Reporter : Sound(q)'
<1>1. /\ reporter' = reporter
      /\ call \in [Reporter -> RegisterCall] /\ issued \in Seq(Reporter)
  BY ServiceStepTyped DEF ReporterTypeOK
<1>2. ASSUME NEW r \in Reporter, ServeRegister(r), NEW q \in Reporter
      PROVE  Sound(q)'
  <2>1. /\ issued' = Append(issued, r) /\ Len(issued') = Len(issued) + 1 /\ Len(issued) \in Nat
        /\ issued'[Len(issued')] = r
    BY <1>1, <1>2 DEF ServeRegister
  <2>2. \A id \in 1 .. Len(issued) : id \in 1 .. Len(issued') /\ issued'[id] = issued[id]
    BY <1>1, <2>1
  <2>3. Len(issued') \in 1 .. Len(issued')
    BY <2>1
  <2>4. CASE q = r
    <3>1. /\ call[q].state = "sent"
          /\ call'[q] = [state |-> "answered", id |-> Len(issued')]
      BY <1>1, <1>2, <2>4 DEF ServeRegister
    <3>2. call'[q].id \in 1 .. Len(issued') /\ issued'[call'[q].id] = q
      BY <2>1, <2>3, <2>4, <3>1
    <3> QED
      BY <1>1, <3>1, <3>2 DEF Sound
  <2>5. CASE q # r
    <3>1. call'[q] = call[q]
      BY <1>1, <1>2, <2>5 DEF ServeRegister
    <3> QED
      BY <1>1, <2>2, <3>1 DEF Sound
  <2> QED
    BY <2>4, <2>5
<1>3. ASSUME NEW r \in Reporter, RegisterTimeout(r), NEW q \in Reporter
      PROVE  Sound(q)'
  <2>1. issued' = issued /\ call' = [call EXCEPT ![r] = Failed] /\ call[r].state # "none"
    BY <1>3 DEF RegisterTimeout
  <2>2. CASE q = r
    BY <1>1, <2>1, <2>2 DEF Sound, Failed
  <2>3. CASE q # r
    BY <1>1, <2>1, <2>3 DEF Sound
  <2> QED
    BY <2>2, <2>3
<1>4. ASSUME \/ \E r \in Reporter : ServeUnregister(r) \/ UnregisterTimeout(r) \/ StreamsBreak(r)
             \/ \E id \in registered : Sweep(id)
             \/ Restart
      PROVE  \A q \in Reporter : Sound(q)'
  <2>1. call' = call /\ issued' = issued
    BY <1>4 DEF ServeUnregister, UnregisterTimeout, StreamsBreak, Sweep, Restart, serviceVars
  <2> QED
    BY <1>1, <2>1, SameReporterSound
<1> QED
  BY <1>2, <1>3, <1>4

LEMMA DeathSound ==
    ASSUME ReporterTypeOK, \A q \in Reporter : Sound(q), NEW inside,
           Die(inside) \/ Crash(inside), faults' \in 0 .. MaxFaults
    PROVE  \A q \in Reporter : Sound(q)'
<1> SUFFICES ASSUME NEW q \in Reporter
             PROVE  Sound(q)'
  OBVIOUS
<1>1. /\ issued' = issued
      /\ reporter'[q] = IF q \in inside THEN NewReporter ELSE reporter[q]
  BY DeathTyped
<1>2. CASE q \in inside
  <2>1. call'[q] = NoCall
    BY <1>2 DEF Die, Crash
  <2> QED
    BY <1>1, <1>2, <2>1 DEF Sound, NewReporter, NoCall
<1>3. CASE q \notin inside
  <2>1. \/ call'[q] = call[q]
        \/ call[q].state # "none" /\ call'[q] = Failed
        \/ call[q].state = "none" /\ call'[q] = NoCall
    BY <1>3 DEF Die, Crash
  <2> QED
    BY <1>1, <1>3, <2>1 DEF Sound, Failed, NoCall
<1> QED
  BY <1>2, <1>3

LEMMA SameReporterListed ==
    ASSUME NEW q \in Reporter, Listed(q), reporter'[q] = reporter[q], call'[q] = call[q],
           leaving'[q] = leaving[q], issued' = issued, registered' = registered,
           overslept' = overslept,
           \A id : <<q, "heartbeat", id>> \in broken => <<q, "heartbeat", id>> \in broken'
    PROVE  Listed(q)'
BY DEF Listed

LEMMA ReporterStepListed ==
    ASSUME ReporterTypeOK, \A q \in Reporter : Sound(q) /\ Listed(q), NEW r \in Reporter,
           \/ Start(r) \/ RegisterAnswered(r) \/ RegisterFailed(r) \/ RetryDelayEnds(r)
           \/ \E kind \in Kind, id \in Id : StreamBroken(r, kind, id)
           \/ Shutdown(r)
    PROVE  \A q \in Reporter : Listed(q)'
<1>1. /\ reporter \in [Reporter -> TopologyReporterFields] /\ call \in [Reporter -> RegisterCall]
      /\ leaving \in [Reporter -> Id \cup {NoId}]
  BY DEF ReporterTypeOK
<1>2. issued' = issued /\ registered' = registered /\ overslept' = overslept
  BY DEF Start, RegisterAnswered, RegisterFailed, RetryDelayEnds, StreamBroken, Shutdown,
         serviceVars
<1>3. ASSUME NEW q \in Reporter, q # r
      PROVE  Listed(q)'
  <2>1. reporter'[q] = reporter[q] /\ call'[q] = call[q] /\ leaving'[q] = leaving[q]
    BY <1>1, <1>3 DEF Start, RegisterAnswered, RegisterFailed, RetryDelayEnds, StreamBroken,
                      Shutdown
  <2>2. \A id : <<q, "heartbeat", id>> \in broken => <<q, "heartbeat", id>> \in broken'
    BY <1>3 DEF Start, RegisterAnswered, RegisterFailed, RetryDelayEnds, StreamBroken, Shutdown
  <2> QED
    BY <1>2, <2>1, <2>2, SameReporterListed
<1>4. Listed(r)'
  <2>1. /\ Sound(r) /\ Listed(r) /\ reporter[r] \in TopologyReporterFields
        /\ call[r] \in RegisterCall
    BY <1>1
  <2>2. CASE Start(r)
    <3>1. /\ reporter'[r] = Triggered([reporter[r] EXCEPT !.autoReconnect = TRUE])
          /\ call'[r] = Called(r) /\ leaving' = leaving /\ broken' = broken
      BY <1>1, <2>2 DEF Start
    <3> QED
      BY <1>2, <2>1, <3>1 DEF Listed, Triggered, Called, Sent, TopologyReporterFields
  <2>3. CASE RegisterAnswered(r)
    <3>1. /\ call[r].state = "answered" /\ call'[r] = NoCall
          /\ leaving' = leaving /\ broken' = broken
          /\ reporter'[r] = IF reporter[r].isShuttingDown
                            THEN [reporter[r] EXCEPT !.connecting = "no"]
                            ELSE Connected(reporter[r], call[r].id, r \in ActivityEnabled)
      BY <1>1, <2>3 DEF RegisterAnswered
    <3> QED
      BY <1>2, <2>1, <3>1 DEF Listed, Connected, NoCall, TopologyReporterFields
  <2>4. CASE RegisterFailed(r)
    <3>1. /\ call'[r] = NoCall /\ leaving' = leaving /\ broken' = broken
          /\ \E step \in {"no", "delay"} :
                reporter'[r] = [reporter[r] EXCEPT !.connecting = step]
      BY <1>1, <2>4 DEF RegisterFailed
    <3> QED
      BY <1>2, <2>1, <3>1 DEF Listed, NoCall, TopologyReporterFields
  <2>5. CASE RetryDelayEnds(r)
    <3>1. /\ call'[r] \in {Called(r), call[r]} /\ leaving' = leaving /\ broken' = broken
          /\ \E step \in {"no", "register"} :
                reporter'[r] = [reporter[r] EXCEPT !.connecting = step]
      BY <1>1, <2>5 DEF RetryDelayEnds
    <3> QED
      BY <1>2, <2>1, <3>1 DEF Listed, Called, Sent, TopologyReporterFields
  <2>6. CASE \E kind \in Kind, id \in Id : StreamBroken(r, kind, id)
    <3>1. /\ reporter'[r] = Triggered(Disconnected(reporter[r]))
          /\ call'[r] \in {Called(r), call[r]} /\ leaving' = leaving
      BY <1>1, <2>6 DEF StreamBroken
    <3> QED
      BY <1>2, <2>1, <3>1
         DEF Listed, Triggered, Disconnected, Called, Sent, TopologyReporterFields
  <2>7. CASE Shutdown(r)
    <3>1. /\ reporter'[r] = [Disconnected(reporter[r]) EXCEPT !.isShuttingDown = TRUE,
                                                              !.autoReconnect = FALSE]
          /\ call' = call /\ leaving'[r] = reporter[r].serviceId
      BY <1>1, <2>7 DEF Shutdown
    <3>2. reporter'[r].isShuttingDown /\ reporter'[r].serviceId = NoId
      BY <2>1, <3>1 DEF Disconnected, TopologyReporterFields
    <3> QED
      BY <1>2, <2>1, <3>1, <3>2 DEF Listed, Sound
  <2> QED
    BY <2>2, <2>3, <2>4, <2>5, <2>6, <2>7
<1> QED
  BY <1>3, <1>4

LEMMA ServiceStepListed ==
    ASSUME ReporterTypeOK, \A q \in Reporter : Sound(q) /\ Listed(q),
           \/ \E r \in Reporter : \/ ServeRegister(r) \/ RegisterTimeout(r)
                                  \/ ServeUnregister(r) \/ UnregisterTimeout(r)
                                  \/ StreamsBreak(r)
           \/ \E id \in registered : Sweep(id)
           \/ Restart
    PROVE  \A q \in Reporter : Listed(q)'
<1> SUFFICES ASSUME NEW q \in Reporter
             PROVE  Listed(q)'
  OBVIOUS
<1>1. /\ reporter' = reporter /\ Sound(q) /\ Listed(q)
      /\ call \in [Reporter -> RegisterCall] /\ issued \in Seq(Reporter)
      /\ leaving \in [Reporter -> Id \cup {NoId}]
  BY ServiceStepTyped DEF ReporterTypeOK
<1>2. ASSUME NEW r \in Reporter, ServeRegister(r)
      PROVE  Listed(q)'
  <2>1. /\ issued' = Append(issued, r) /\ registered' = registered \cup {Len(issued')}
        /\ overslept' = overslept /\ broken' = broken /\ leaving' = leaving
    BY <1>2 DEF ServeRegister
  <2>2. \A id \in 1 .. Len(issued) : id \in 1 .. Len(issued') /\ issued'[id] = issued[id]
    BY <1>1, <2>1
  <2>3. call'[q] = call[q] \/ call'[q].id \in registered'
    BY <1>1, <1>2, <2>1 DEF ServeRegister
  <2> QED
    BY <1>1, <2>1, <2>2, <2>3 DEF Listed
<1>3. ASSUME NEW r \in Reporter, RegisterTimeout(r)
      PROVE  Listed(q)'
  <2>1. call'[q] = call[q] \/ call'[q] = Failed
    BY <1>1, <1>3 DEF RegisterTimeout
  <2> QED
    BY <1>1, <1>3, <2>1 DEF RegisterTimeout, Listed, Failed
<1>4. ASSUME NEW r \in Reporter, ServeUnregister(r)
      PROVE  Listed(q)'
  <2>1. /\ Listed(r) /\ leaving[r] # NoId /\ registered' = registered \ {leaving[r]}
        /\ call' = call /\ issued' = issued /\ overslept' = overslept /\ broken' = broken
        /\ leaving'[q] \in {leaving[q], NoId}
    BY <1>1, <1>4 DEF ServeUnregister
  <2>2. reporter[r].isShuttingDown /\ issued[leaving[r]] = r
    BY <2>1 DEF Listed
  <2>3. call[q].state = "answered" /\ ~reporter[q].isShuttingDown => call[q].id # leaving[r]
    BY <1>1, <2>2 DEF Sound
  <2>4. reporter[q].serviceId # NoId => reporter[q].serviceId # leaving[r]
    BY <1>1, <2>2 DEF Sound
  <2> QED
    BY <1>1, <2>1, <2>3, <2>4 DEF Listed
<1>5. ASSUME NEW r \in Reporter, UnregisterTimeout(r) \/ StreamsBreak(r)
      PROVE  Listed(q)'
  <2>1. /\ call' = call /\ issued' = issued /\ registered' = registered
        /\ overslept' = overslept /\ broken \subseteq broken'
        /\ leaving'[q] \in {leaving[q], NoId}
    BY <1>1, <1>5 DEF UnregisterTimeout, StreamsBreak, serviceVars
  <2> QED
    BY <1>1, <2>1 DEF Listed
<1>6. ASSUME NEW id \in registered, Sweep(id)
      PROVE  Listed(q)'
  <2>1. /\ call' = call /\ issued' = issued /\ registered' = registered \ {id}
        /\ broken' = broken /\ leaving' = leaving /\ call[q].id # id
        /\ overslept \subseteq overslept' /\ (Beating(id) => id \in overslept')
    BY <1>6 DEF Sweep
  <2>2. ASSUME reporter[q].serviceId = id, id # NoId
        PROVE  id \in overslept' \/ <<q, "heartbeat", id>> \in broken
    BY <1>1, <2>1, <2>2 DEF Beating, Sound
  <2> QED
    BY <1>1, <2>1, <2>2 DEF Listed
<1>7. CASE Restart
  BY <1>1, <1>7, SameReporterListed DEF Restart
<1> QED
  BY <1>2, <1>3, <1>4, <1>5, <1>6, <1>7

LEMMA DeathListed ==
    ASSUME ReporterTypeOK, \A q \in Reporter : Sound(q) /\ Listed(q), NEW inside,
           Die(inside) \/ Crash(inside), faults' \in 0 .. MaxFaults
    PROVE  \A q \in Reporter : Listed(q)'
<1> SUFFICES ASSUME NEW q \in Reporter
             PROVE  Listed(q)'
  OBVIOUS
<1>1. /\ issued' = issued /\ overslept' = overslept /\ Sound(q) /\ Listed(q)
      /\ reporter'[q] = IF q \in inside THEN NewReporter ELSE reporter[q]
  BY DeathTyped DEF Die, Crash
<1>2. CASE q \in inside
  <2>1. call'[q] = NoCall /\ leaving'[q] = NoId
    BY <1>2 DEF Die, Crash
  <2> QED
    BY <1>1, <1>2, <2>1 DEF Listed, NewReporter, NoCall
<1>3. CASE q \notin inside /\ Die(inside)
  <2>1. call'[q] = call[q] /\ leaving'[q] = leaving[q] /\ registered' = registered
    BY <1>3 DEF Die
  <2>2. ASSUME NEW id, <<q, "heartbeat", id>> \in broken
        PROVE  <<q, "heartbeat", id>> \in broken'
    BY <1>3, <2>2 DEF Die
  <2> QED
    BY <1>1, <1>3, <2>1, <2>2, SameReporterListed
<1>4. CASE q \notin inside /\ Crash(inside)
  <2>1. /\ call'[q] = NoCall \/ call'[q] = Failed
        /\ leaving'[q] = NoId /\ reporter'[q] = reporter[q]
    BY <1>1, <1>4 DEF Crash
  <2>2. ASSUME reporter[q].serviceId # NoId
        PROVE  <<q, "heartbeat", reporter[q].serviceId>> \in broken'
    <3>1. <<q, "heartbeat", reporter[q].serviceId>> \in OpenStreams(q)
      BY <1>1, <2>2 DEF Sound, OpenStreams
    <3> QED
      BY <1>4, <3>1 DEF Crash
  <2> QED
    BY <2>1, <2>2 DEF Listed, NoCall, Failed
<1> QED
  BY <1>2, <1>3, <1>4

LEMMA InitInv == Init => Inv
<1> SUFFICES ASSUME Init
             PROVE  Inv
  OBVIOUS
<1>1. Reporters
  BY DEF Init, ReporterInit, NewReporter, NoCall, Sound, Listed, Reporters
<1>2. Filing
  BY DEF Init, ReporterInit, NewReporter, Filing, Proxied, NotStopping
<1> QED
  BY <1>1, <1>2, InitTyped DEF Inv

LEMMA ReporterStepKept ==
    ASSUME ReporterTypeOK, Reporters, NEW r \in Reporter,
           \/ r \in Direct /\ Start(r)
           \/ RegisterAnswered(r) \/ RegisterFailed(r) \/ RetryDelayEnds(r)
           \/ \E kind \in Kind, id \in Id : StreamBroken(r, kind, id)
           \/ Shutdown(r)
    PROVE  Reporters' /\ ReporterTypeOK' /\ issued' = issued
<1>1. (\A q \in Reporter : Sound(q)) /\ (\A q \in Reporter : Sound(q) /\ Listed(q))
  BY DEF Reporters
<1>2. \A q \in Reporter : Sound(q)'
  BY <1>1, ReporterStepSound
<1>3. \A q \in Reporter : Listed(q)'
  BY <1>1, ReporterStepListed
<1>4. ReporterTypeOK' /\ issued' = issued
  BY ReporterStepTyped
<1> QED
  BY <1>2, <1>3, <1>4 DEF Reporters

LEMMA ServiceStepKept ==
    ASSUME ReporterTypeOK, Reporters,
           \/ \E r \in Reporter : \/ ServeRegister(r) \/ RegisterTimeout(r)
                                  \/ ServeUnregister(r) \/ UnregisterTimeout(r)
                                  \/ StreamsBreak(r)
           \/ \E id \in registered : Sweep(id)
           \/ Restart
    PROVE  Reporters'
<1>1. (\A q \in Reporter : Sound(q)) /\ (\A q \in Reporter : Sound(q) /\ Listed(q))
  BY DEF Reporters
<1>2. \A q \in Reporter : Sound(q)'
  BY <1>1, ServiceStepSound
<1>3. \A q \in Reporter : Listed(q)'
  BY <1>1, ServiceStepListed
<1> QED
  BY <1>2, <1>3 DEF Reporters

LEMMA DeathKept ==
    ASSUME ReporterTypeOK, Reporters, NEW inside,
           Die(inside) \/ Crash(inside), faults' \in 0 .. MaxFaults
    PROVE  Reporters'
<1>1. (\A q \in Reporter : Sound(q)) /\ (\A q \in Reporter : Sound(q) /\ Listed(q))
  BY DEF Reporters
<1>2. \A q \in Reporter : Sound(q)'
  BY <1>1, DeathSound
<1>3. \A q \in Reporter : Listed(q)'
  BY <1>1, DeathListed
<1> QED
  BY <1>2, <1>3 DEF Reporters

LEMMA NothingKept ==
    ASSUME ReporterTypeOK, Reporters, UNCHANGED reporterVars
    PROVE  Reporters' /\ ReporterTypeOK' /\ issued' = issued /\ reporter' = reporter
<1>1. /\ reporter' = reporter /\ call' = call /\ leaving' = leaving /\ broken' = broken
      /\ issued' = issued /\ registered' = registered /\ overslept' = overslept
  BY DEF reporterVars
<1>2. ReporterTypeOK'
  BY DEF reporterVars, ReporterTypeOK
<1>3. \A q \in Reporter : Sound(q)' /\ Listed(q)'
  BY <1>1, SameReporterSound, SameReporterListed DEF Reporters
<1> QED
  BY <1>1, <1>2, <1>3 DEF Reporters

\* The file is left alone and the ids keep their reporters: what is left to
\* look at is that no reporter of the proxy gains a registration, that none
\* that was shut down comes back, and what stop has passed now.
LEMMA FilingKept ==
    ASSUME Inv, ReporterTypeOK', services' = services, awaited' \subseteq 1 .. Len(issued),
           stopping' \in Progress(Len(issued)),
           \A id \in stopping'.seen :
              \/ id \in stopping.seen
              \/ issued[id] \in Proxied /\ reporter'[issued[id]].isShuttingDown,
           issued' = issued \/ \E r \in Reporter : issued' = Append(issued, r),
           \A r \in Proxied : /\ reporter'[r].serviceId \in {NoId, reporter[r].serviceId}
                              /\ reporter[r].isShuttingDown => reporter'[r].isShuttingDown
    PROVE  TypeOK' /\ Filing'
<1> USE DEF Inv
<1>1. issued \in Seq(Reporter) /\ Len(issued) \in Nat
  BY DEF TypeOK, ReporterTypeOK
<1>2. \A id \in 1 .. Len(issued) : id \in 1 .. Len(issued') /\ issued'[id] = issued[id]
  BY <1>1
<1>3. Len(issued) <= Len(issued') /\ Len(issued') \in Nat
  BY <1>1
<1>4. stopping'.seen \subseteq 1 .. Len(issued)
  BY DEF Progress
<1>5. TypeOK'
  <2>1. 0 .. Len(issued) \subseteq 0 .. Len(issued') /\ 1 .. Len(issued) \subseteq 1 .. Len(issued')
    BY <1>3, <1>1
  <2>2. stopping' \in Progress(Len(issued'))
    BY <2>1 DEF Progress
  <2>3. /\ services' \in [DOMAIN services' -> Proxied]
        /\ DOMAIN services' \subseteq 1 .. Len(issued') /\ awaited' \subseteq 1 .. Len(issued')
    BY <2>1 DEF TypeOK
  <2> QED
    BY <2>2, <2>3 DEF TypeOK
<1>6. Filing'
  <2>1. \A id \in DOMAIN services : services[id] = issued'[id]
    BY <1>2 DEF TypeOK, Filing
  <2>2. ASSUME NEW id \in stopping'.seen
        PROVE  issued'[id] \in Proxied /\ reporter'[issued'[id]].isShuttingDown
    <3>1. issued'[id] = issued[id]
      BY <1>2, <1>4
    <3>2. issued[id] \in Proxied /\ reporter'[issued[id]].isShuttingDown
      BY DEF Filing
    <3> QED
      BY <3>1, <3>2
  <2>3. \A r \in Proxied : reporter'[r].serviceId # NoId => reporter'[r].serviceId \in DOMAIN services
    BY DEF Filing
  <2>4. Proxied' = Proxied
    BY DEF Proxied
  <2> QED
    BY <2>1, <2>2, <2>3, <2>4 DEF Filing
<1> QED
  BY <1>5, <1>6

LEMMA ProxyLeftAlone ==
    ASSUME Inv, UNCHANGED proxyVars
    PROVE  /\ services' = services /\ awaited' \subseteq 1 .. Len(issued)
           /\ stopping' = stopping /\ stopping' \in Progress(Len(issued))
BY DEF Inv, TypeOK, proxyVars

\* Steps of one reporter that leave the file alone.
LEMMA ReporterStepInv ==
    ASSUME Inv, UNCHANGED proxyVars, NEW r \in Reporter,
           \/ r \in Direct /\ (Start(r) \/ RegisterAnswered(r))
           \/ RegisterFailed(r) \/ RetryDelayEnds(r)
           \/ \E kind \in Kind, id \in Id : StreamBroken(r, kind, id)
           \/ Shutdown(r)
    PROVE  Inv'
<1>1. ReporterTypeOK /\ reporter \in [Reporter -> TopologyReporterFields]
  BY DEF Inv, TypeOK, ReporterTypeOK
<1>2. Reporters' /\ ReporterTypeOK' /\ issued' = issued
  BY <1>1, ReporterStepKept DEF Inv
<1>4. ASSUME NEW q \in Reporter, q # r
      PROVE  reporter'[q] = reporter[q]
  BY <1>1, <1>4 DEF Start, RegisterAnswered, RegisterFailed, RetryDelayEnds, StreamBroken, Shutdown
<1>5. /\ r \in Proxied => reporter'[r].serviceId \in {NoId, reporter[r].serviceId}
      /\ reporter[r].isShuttingDown => reporter'[r].isShuttingDown
  <2>1. reporter[r] \in TopologyReporterFields
    BY <1>1
  <2>2. CASE r \in Direct /\ (Start(r) \/ RegisterAnswered(r))
    BY <1>1, <2>1, <2>2
       DEF Start, RegisterAnswered, Proxied, Triggered, Connected, TopologyReporterFields
  <2>3. CASE RegisterFailed(r) \/ RetryDelayEnds(r)
    BY <1>1, <2>1, <2>3 DEF RegisterFailed, RetryDelayEnds, TopologyReporterFields
  <2>4. CASE \E kind \in Kind, id \in Id : StreamBroken(r, kind, id)
    BY <1>1, <2>1, <2>4 DEF StreamBroken, Triggered, Disconnected, TopologyReporterFields
  <2>5. CASE Shutdown(r)
    BY <1>1, <2>1, <2>5 DEF Shutdown, Disconnected, TopologyReporterFields
  <2> QED
    BY <2>2, <2>3, <2>4, <2>5
<1>6. TypeOK' /\ Filing'
  <2>1. \A q \in Proxied :
           /\ reporter'[q].serviceId \in {NoId, reporter[q].serviceId}
           /\ reporter[q].isShuttingDown => reporter'[q].isShuttingDown
    BY <1>4, <1>5 DEF Proxied
  <2> QED
    BY <1>2, <2>1, ProxyLeftAlone, FilingKept
<1> QED
  BY <1>2, <1>6 DEF Inv

\* Steps of the service and of the network.
LEMMA ServiceStepInv ==
    ASSUME Inv, UNCHANGED proxyVars,
           \/ \E r \in Reporter : \/ ServeRegister(r) \/ RegisterTimeout(r)
                                  \/ ServeUnregister(r) \/ UnregisterTimeout(r)
                                  \/ StreamsBreak(r)
           \/ \E id \in registered : Sweep(id)
           \/ Restart
    PROVE  Inv'
<1>1. ReporterTypeOK
  BY DEF Inv, TypeOK
<1>2. /\ ReporterTypeOK' /\ reporter' = reporter
      /\ issued' = issued \/ \E r \in Reporter : issued' = Append(issued, r)
  BY <1>1, ServiceStepTyped
<1>3. Reporters'
  BY <1>1, ServiceStepKept DEF Inv
<1>4. TypeOK' /\ Filing'
  BY <1>2, ProxyLeftAlone, FilingKept
<1> QED
  BY <1>3, <1>4 DEF Inv

\* Entries leave the file: those of reporters that are shut down.
LEMMA RemovalInv ==
    ASSUME Inv, UNCHANGED reporterVars, NEW D, services' = Restrict(services, D),
           D \subseteq DOMAIN services,
           \A id \in DOMAIN services \ D : reporter[services[id]].isShuttingDown,
           awaited' \subseteq awaited, stopping' \in Progress(Len(issued)),
           \A id \in stopping'.seen :
              issued[id] \in Proxied /\ reporter[issued[id]].isShuttingDown
    PROVE  Inv'
<1>1. Reporters' /\ ReporterTypeOK' /\ issued' = issued /\ reporter' = reporter
  BY NothingKept DEF Inv, TypeOK
<1>2. DOMAIN services' = D /\ services' = [id \in D |-> services[id]]
  BY DEF Restrict
<1>3. TypeOK'
  <2>1. /\ services \in [DOMAIN services -> Proxied] /\ DOMAIN services \subseteq 1 .. Len(issued)
        /\ awaited \subseteq 1 .. Len(issued)
    BY DEF Inv, TypeOK
  <2>2. services' \in [D -> Proxied]
    BY <1>2, <2>1
  <2> QED
    BY <1>1, <1>2, <2>1, <2>2 DEF TypeOK
<1>5. Filing'
  <2>1. ASSUME NEW r \in Proxied, reporter[r].serviceId # NoId
        PROVE  reporter[r].serviceId \in D
    <3>1. r \in Reporter /\ Sound(r) /\ reporter[r].serviceId \in DOMAIN services
      BY <2>1 DEF Inv, Reporters, Filing, Proxied
    <3>2. services[reporter[r].serviceId] = r /\ ~reporter[r].isShuttingDown
      BY <2>1, <3>1 DEF Inv, Filing, Sound
    <3> QED
      BY <3>1, <3>2
  <2>2. \A id \in D : services'[id] = issued[id]
    BY <1>2 DEF Inv, Filing
  <2>3. Proxied' = Proxied
    BY DEF Proxied
  <2> QED
    BY <1>1, <1>2, <2>1, <2>2, <2>3 DEF Filing
<1> QED
  BY <1>1, <1>3, <1>5 DEF Inv

LEMMA HandleRegisterInv ==
    ASSUME Inv, NEW r \in Proxied, HandleRegister(r)
    PROVE  Inv'
<1>1. /\ r \in Reporter /\ r \notin Direct /\ Called(r) = Sent
      /\ call' = [call EXCEPT ![r] = Sent] /\ reporter' = reporter /\ issued' = issued
      /\ leaving' = leaving /\ broken' = broken /\ registered' = registered
      /\ overslept' = overslept /\ reporter[r] = NewReporter
  BY DEF Proxied, HandleRegister, Called, NoCall, serviceVars
<1>2. ReporterTypeOK'
  BY <1>1, CallsTyped DEF Inv, TypeOK, ReporterTypeOK, HandleRegister, serviceVars
<1>3. ASSUME NEW q \in Reporter
      PROVE  Sound(q)' /\ Listed(q)'
  <2>1. call \in [Reporter -> RegisterCall] /\ Sound(q) /\ Listed(q)
    BY DEF Inv, TypeOK, ReporterTypeOK, Reporters
  <2>2. CASE q = r
    <3>1. Sound(q)'
      BY <1>1, <2>1, <2>2 DEF Sound, Sent, NewReporter
    <3>2. Listed(q)'
      BY <1>1, <2>1, <2>2 DEF Listed, Sent, NewReporter
    <3> QED
      BY <3>1, <3>2
  <2>3. CASE q # r
    <3>1. call'[q] = call[q]
      BY <1>1, <2>1, <2>3
    <3> QED
      BY <1>1, <2>1, <3>1, SameReporterSound, SameReporterListed
  <2> QED
    BY <2>2, <2>3
<1>4. TypeOK' /\ Filing'
  BY <1>1, <1>2, ProxyLeftAlone, FilingKept DEF HandleRegister
<1> QED
  BY <1>3, <1>4 DEF Inv, Reporters

LEMMA HandleRegisteredInv ==
    ASSUME Inv, NEW r \in Proxied, HandleRegistered(r)
    PROVE  Inv'
<1>1. /\ r \in Reporter /\ RegisterAnswered(r) /\ awaited' = awaited /\ stopping' = stopping
      /\ reporter \in [Reporter -> TopologyReporterFields] /\ ReporterTypeOK
  BY DEF Proxied, HandleRegistered, Inv, TypeOK, ReporterTypeOK
<1>2. Reporters' /\ ReporterTypeOK' /\ issued' = issued
  BY <1>1, ReporterStepKept DEF Inv
<1>4. /\ \A q \in Reporter : q # r => reporter'[q] = reporter[q]
      /\ \A q \in Reporter : reporter'[q].isShuttingDown = reporter[q].isShuttingDown
  BY <1>1 DEF RegisterAnswered, Connected, TopologyReporterFields
<1> DEFINE given == reporter'[r].serviceId
<1>5. given # NoId => given \in 1 .. Len(issued) /\ issued[given] = r
  BY <1>1, <1>2 DEF Reporters, Sound
<1>6. DOMAIN services' = DOMAIN services \cup ({given} \ {NoId})
  BY DEF HandleRegistered, Filed
<1>7. \A id \in DOMAIN services' : services'[id] \in Proxied /\ services'[id] = issued[id]
  <2>1. \A id \in DOMAIN services : services[id] \in Proxied /\ services[id] = issued[id]
    BY DEF Inv, TypeOK, Filing
  <2> QED
    BY <1>5, <2>1 DEF HandleRegistered, Filed
<1>8. services' = [id \in DOMAIN services' |-> services'[id]]
  BY DEF HandleRegistered, Filed, Inv, TypeOK
<1>9. TypeOK'
  <2>1. services' \in [DOMAIN services' -> Proxied]
    BY <1>7, <1>8
  <2>2. DOMAIN services' \subseteq 1 .. Len(issued)
    BY <1>5, <1>6 DEF Inv, TypeOK
  <2> QED
    BY <1>1, <1>2, <2>1, <2>2 DEF Inv, TypeOK
<1>10. Filing'
  <2>1. ASSUME NEW q \in Proxied, reporter'[q].serviceId # NoId
        PROVE  reporter'[q].serviceId \in DOMAIN services'
    BY <1>4, <1>6, <2>1 DEF Inv, Filing, Proxied
  <2>2. \A id \in stopping.seen :
           issued[id] \in Proxied /\ reporter'[issued[id]].isShuttingDown
    BY <1>4 DEF Inv, Filing, Proxied
  <2>3. Proxied' = Proxied
    BY DEF Proxied
  <2> QED
    BY <1>1, <1>2, <1>7, <2>1, <2>2, <2>3 DEF Filing
<1> QED
  BY <1>2, <1>9, <1>10 DEF Inv

\* A reporter that is filed is shut down, by /unregister or by stop.
LEMMA ShutdownFiledInv ==
    ASSUME Inv, NEW id \in DOMAIN services, Shutdown(services[id]), services' = services,
           awaited' \subseteq 1 .. Len(issued), stopping' \in Progress(Len(issued)),
           stopping'.seen \subseteq stopping.seen \cup {id}
    PROVE  Inv'
<1> DEFINE r == services[id]
<1>1. /\ r \in Reporter /\ r \in Proxied /\ r = issued[id]
      /\ reporter \in [Reporter -> TopologyReporterFields] /\ ReporterTypeOK
  BY DEF Inv, TypeOK, ReporterTypeOK, Filing, Proxied
<1>2. Reporters' /\ ReporterTypeOK' /\ issued' = issued
  BY <1>1, ReporterStepKept DEF Inv
<1>4. \A q \in Reporter : q # r => reporter'[q] = reporter[q]
  BY <1>1 DEF Shutdown
<1>5. reporter'[r].serviceId = NoId /\ reporter'[r].isShuttingDown
  <2>1. reporter[r] \in TopologyReporterFields
    BY <1>1
  <2> QED
    BY <1>1, <2>1 DEF Shutdown, Disconnected, TopologyReporterFields
<1>6. \A q \in Proxied :
         /\ reporter'[q].serviceId \in {NoId, reporter[q].serviceId}
         /\ reporter[q].isShuttingDown => reporter'[q].isShuttingDown
  BY <1>4, <1>5 DEF Proxied
<1>7. \A i \in stopping'.seen :
         \/ i \in stopping.seen
         \/ issued[i] \in Proxied /\ reporter'[issued[i]].isShuttingDown
  BY <1>1, <1>5
<1>8. TypeOK' /\ Filing'
  BY <1>2, <1>6, <1>7, FilingKept
<1> QED
  BY <1>2, <1>8 DEF Inv

LEMMA HandleUnregisterInv ==
    ASSUME Inv, NEW id \in DOMAIN services, HandleUnregister(id)
    PROVE  Inv'
<1>1. /\ stopping \in Progress(Len(issued)) /\ awaited \subseteq 1 .. Len(issued)
      /\ DOMAIN services \subseteq 1 .. Len(issued)
      /\ \A i \in stopping.seen : issued[i] \in Proxied /\ reporter[issued[i]].isShuttingDown
  BY DEF Inv, TypeOK, Filing
<1>2. CASE reporter[services[id]].isShuttingDown
  <2>1. /\ UNCHANGED reporterVars /\ awaited' = awaited /\ stopping' = stopping
        /\ services' = Restrict(services, DOMAIN services \ {id})
    BY <1>2 DEF HandleUnregister, Without
  <2> QED
    BY <1>1, <1>2, <2>1, RemovalInv
<1>3. CASE ~reporter[services[id]].isShuttingDown
  <2>1. /\ Shutdown(services[id]) /\ services' = services /\ stopping' = stopping
        /\ awaited' \subseteq 1 .. Len(issued)
    BY <1>1, <1>3 DEF HandleUnregister
  <2> QED
    BY <1>1, <2>1, ShutdownFiledInv
<1> QED
  BY <1>2, <1>3

LEMMA HandleUnregisteredInv ==
    ASSUME Inv, NEW id \in awaited, HandleUnregistered(id)
    PROVE  Inv'
<1>1. /\ UNCHANGED reporterVars /\ awaited' \subseteq awaited /\ stopping' = stopping
      /\ services' = Restrict(services, DOMAIN services \ {id})
      /\ reporter[issued[id]].isShuttingDown
  BY DEF HandleUnregistered, Without, Closed
<1>2. \A i \in DOMAIN services \ (DOMAIN services \ {id}) : reporter[services[i]].isShuttingDown
  BY <1>1 DEF Inv, Filing
<1>3. /\ stopping \in Progress(Len(issued))
      /\ \A i \in stopping.seen : issued[i] \in Proxied /\ reporter[issued[i]].isShuttingDown
  BY DEF Inv, TypeOK, Filing
<1> QED
  BY <1>1, <1>2, <1>3, RemovalInv

\* A turn of stop's loop, the first one or a later one: it shuts the next
\* reporter down, or has found all of them shut down and clears the file.
LEMMA LoopInv ==
    ASSUME Inv, NEW seen \in SUBSET stopping.seen, Loop(seen), awaited' = awaited
    PROVE  Inv'
<1>1. /\ stopping \in Progress(Len(issued)) /\ awaited \subseteq 1 .. Len(issued)
      /\ DOMAIN services \subseteq 1 .. Len(issued) /\ Len(issued) \in Nat
      /\ services \in [DOMAIN services -> Proxied]
      /\ \A id \in DOMAIN services : services[id] = issued[id]
      /\ \A id \in stopping.seen : issued[id] \in Proxied /\ reporter[issued[id]].isShuttingDown
  BY DEF Inv, TypeOK, ReporterTypeOK, Filing
<1>2. seen \subseteq 1 .. Len(issued) /\ NoId \in 0 .. Len(issued)
  BY <1>1 DEF Progress, NoId
<1>3. ASSUME NEW id \in DOMAIN services \ seen, services' = services,
             reporter[services[id]].isShuttingDown,
             stopping' = [phase |-> "loop", seen |-> seen \cup {id}, awaits |-> NoId],
             UNCHANGED reporterVars
      PROVE  Inv'
  <2>1. services' = Restrict(services, DOMAIN services)
    BY <1>1, <1>3 DEF Restrict
  <2>2. stopping' \in Progress(Len(issued)) /\ stopping'.seen = seen \cup {id}
    BY <1>1, <1>2, <1>3 DEF Progress
  <2>3. \A i \in stopping'.seen : issued[i] \in Proxied /\ reporter[issued[i]].isShuttingDown
    BY <1>1, <1>3, <2>2
  <2> QED
    BY <1>3, <2>1, <2>2, <2>3, RemovalInv
<1>4. ASSUME NEW id \in DOMAIN services \ seen, services' = services,
             stopping' = [phase |-> "loop", seen |-> seen \cup {id}, awaits |-> id],
             Shutdown(services[id])
      PROVE  Inv'
  <2>1. id \in 0 .. Len(issued) /\ id \in 1 .. Len(issued)
    BY <1>1
  <2>2. stopping' \in Progress(Len(issued)) /\ stopping'.seen \subseteq stopping.seen \cup {id}
    BY <1>2, <1>4, <2>1 DEF Progress
  <2> QED
    BY <1>1, <1>4, <2>2, ShutdownFiledInv
<1>5. ASSUME DOMAIN services \subseteq seen, services' = Empty,
             stopping' = [phase |-> "closed", seen |-> seen, awaits |-> NoId],
             UNCHANGED reporterVars
      PROVE  Inv'
  <2>1. services' = Restrict(services, {})
    BY <1>5 DEF Empty
  <2>2. stopping' \in Progress(Len(issued)) /\ stopping'.seen = seen
    BY <1>2, <1>5 DEF Progress
  <2>3. \A id \in DOMAIN services : reporter[services[id]].isShuttingDown
    BY <1>1, <1>5
  <2> QED
    BY <1>1, <1>5, <2>1, <2>2, <2>3, RemovalInv
<1> QED
  BY <1>3, <1>4, <1>5 DEF Loop

\* The process of the proxy is gone, and the file with it.
LEMMA ProxyGoneInv ==
    ASSUME Inv, Die(Proxied) \/ Crash(Proxied), faults' \in 0 .. MaxFaults,
           services' = Empty, awaited' = {}, NEW phase \in {"no", "exited"},
           stopping' = [NotStopping EXCEPT !.phase = phase]
    PROVE  Inv'
<1>1. ReporterTypeOK /\ Reporters
  BY DEF Inv, TypeOK
<1>2. Reporters'
  BY <1>1, DeathKept
<1>3. /\ ReporterTypeOK' /\ issued' = issued
      /\ \A r \in Proxied : reporter'[r] = NewReporter
  BY <1>1, DeathTyped DEF Proxied
<1>4. DOMAIN services' = {} /\ services' \in [{} -> Proxied]
  BY DEF Empty, Restrict
<1>5. stopping' \in Progress(Len(issued)) /\ stopping'.seen = {}
  <2>1. Len(issued) \in Nat
    BY <1>1 DEF ReporterTypeOK
  <2> QED
    BY <2>1 DEF NotStopping, Progress, NoId
<1>6. TypeOK'
  BY <1>3, <1>4, <1>5 DEF TypeOK, Proxied
<1>7. Filing'
  BY <1>3, <1>4, <1>5 DEF Filing, Proxied, NewReporter
<1> QED
  BY <1>2, <1>6, <1>7 DEF Inv

\* The service elsewhere dies, or a program does.
LEMMA OtherDiesInv == ASSUME Inv, OtherDies PROVE Inv'
<1>1. PICK inside \in SUBSET Direct : Die(inside) \/ Crash(inside)
  BY DEF OtherDies
<1>2. /\ ReporterTypeOK /\ Reporters /\ UNCHANGED proxyVars /\ faults' \in 0 .. MaxFaults
  BY ReporterAssumption DEF Inv, TypeOK, ReporterTypeOK, OtherDies, Fault
<1>3. Reporters'
  BY <1>1, <1>2, DeathKept
<1>4. /\ ReporterTypeOK' /\ issued' = issued
      /\ \A r \in Proxied : reporter'[r] = reporter[r]
  BY <1>1, <1>2, DeathTyped DEF Proxied
<1>5. TypeOK' /\ Filing'
  BY <1>2, <1>4, ProxyLeftAlone, FilingKept
<1> QED
  BY <1>3, <1>5 DEF Inv

LEMMA StepInv == Inv /\ [Next]_vars => Inv'
<1> SUFFICES ASSUME Inv, [Next]_vars
             PROVE  Inv'
  OBVIOUS
<1>1. CASE Requests
  BY <1>1, HandleRegisterInv, HandleUnregisterInv DEF Requests
<1>2. CASE Stop \/ StopResumes
  <2>1. {} \in SUBSET stopping.seen /\ stopping.seen \in SUBSET stopping.seen
    OBVIOUS
  <2>2. /\ Loop({}) \/ Loop(stopping.seen)
        /\ awaited' = awaited
    BY <1>2 DEF Stop, StopResumes
  <2> QED
    BY <2>1, <2>2, LoopInv
<1>3. CASE Exit \/ ProxyDies
  <2>1. Die(Proxied) \/ Crash(Proxied)
    BY <1>3 DEF Exit, ProxyDies
  <2>2. faults' \in 0 .. MaxFaults
    BY <1>3, ReporterAssumption DEF Exit, ProxyDies, Fault, Inv, TypeOK, ReporterTypeOK
  <2>3. services' = Empty /\ awaited' = {}
    BY <1>3 DEF Exit, ProxyDies
  <2>4. \E phase \in {"no", "exited"} : stopping' = [NotStopping EXCEPT !.phase = phase]
    BY <1>3 DEF Exit, ProxyDies, NotStopping
  <2> QED
    BY <2>1, <2>2, <2>3, <2>4, ProxyGoneInv
<1>4. CASE OtherDies
  BY <1>4, OtherDiesInv
<1>5. CASE \E id \in awaited : HandleUnregistered(id)
  BY <1>5, HandleUnregisteredInv
<1>6. CASE \E r \in Direct : (Start(r) \/ Shutdown(r)) /\ UNCHANGED proxyVars
  BY <1>6, DirectAssumption, ReporterStepInv
<1>7. ASSUME NEW r \in Reporter, Continue(r)
      PROVE  Inv'
  BY <1>7, HandleRegisteredInv, ReporterStepInv DEF Continue
<1>8. ASSUME NEW r \in Reporter, Answer(r)
      PROVE  Inv'
  BY <1>8, ServiceStepInv DEF Answer
<1>9. CASE /\ \/ \E r \in Reporter : StreamsBreak(r)
              \/ \E id \in registered : Sweep(id)
              \/ Restart
           /\ UNCHANGED proxyVars
  BY <1>9, ServiceStepInv
<1>10. CASE UNCHANGED vars
  <2>1. UNCHANGED reporterVars /\ UNCHANGED proxyVars
    BY <1>10 DEF vars, reporterVars, proxyVars
  <2>2. Reporters' /\ ReporterTypeOK' /\ issued' = issued /\ reporter' = reporter
    BY <2>1, NothingKept DEF Inv, TypeOK
  <2>3. TypeOK' /\ Filing'
    BY <2>1, <2>2, ProxyLeftAlone, FilingKept
  <2> QED
    BY <2>2, <2>3 DEF Inv
<1> QED
  BY <1>1, <1>2, <1>3, <1>4, <1>5, <1>6, <1>7, <1>8, <1>9, <1>10 DEF Next

-----------------------------------------------------------------------------
\* The theorems.

\* The fields, the calls, the service's registrations and the proxy's file
\* keep their types, and no id is filed or awaited that was not given out.
THEOREM TypeCorrect == Spec => []TypeOK
<1>1. Inv => TypeOK
  BY DEF Inv
<1> QED
  BY <1>1, InitInv, StepInv, PTL DEF Spec

\* A reporter never holds a stream of another registration than its own,
\* whichever of its calls and streams fail, and whenever it learns of it.
THEOREM StreamsFollowRegistration == Spec => []StreamsMatchRegistration
<1>1. Inv => StreamsMatchRegistration
  BY DEF Inv, Reporters, Sound, StreamsMatchRegistration
<1> QED
  BY <1>1, InitInv, StepInv, PTL DEF Spec

\* However its handlers, stop and the deaths of processes interleave: a lent
\* reporter that holds a registration is filed under it, so that a stop that
\* cleared the file has passed none by, and the service lists it, unless its
\* heartbeat stream broke or its heartbeats came too late.
THEOREM LentReportersKnown == Spec => []BeatingIsKnown
<1>1. Inv => BeatingIsKnown
  <2> SUFFICES ASSUME Inv, NEW r \in Proxied, reporter[r].serviceId # NoId
               PROVE  /\ reporter[r].serviceId \in DOMAIN services
                      /\ services[reporter[r].serviceId] = r
                      /\ \/ reporter[r].serviceId \in registered \cup overslept
                         \/ <<r, "heartbeat", reporter[r].serviceId>> \in broken
    BY DEF BeatingIsKnown
  <2>1. Sound(r) /\ Listed(r)
    BY DEF Inv, Reporters, Proxied
  <2> QED
    BY <2>1 DEF Inv, Filing, Sound, Listed
<1> QED
  BY <1>1, InitInv, StepInv, PTL DEF Spec
=============================================================================
