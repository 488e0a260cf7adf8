------------------------ MODULE TopologyStoreProofs ------------------------
(***************************************************************************)
(* Proofs about TopologyStore: its type invariant and its safety           *)
(* invariants, for every set of services, descriptions and targets, every  *)
(* timeout, and edges and requests without the bounds TLC needs.           *)
(***************************************************************************)
EXTENDS TopologyStore, TLAPS

(***************************************************************************)
(* One service or edge record at a time: each operation keeps it well      *)
(* formed.                                                                 *)
(***************************************************************************)
\* The horizons are beyond every age at which something happens.
LEMMA HorizonsAreNaturals ==
    /\ StaleAge \in Nat /\ DeadAge \in Nat
    /\ HeartbeatHorizon \in Nat /\ StaleAge < HeartbeatHorizon
    /\ ActivityHorizon \in Nat /\ UpdateHorizon \in Nat
<1>1. HeartbeatInterval * TimeoutMultiplier \in Nat
  BY TimingAssumption
<1> QED
  BY <1>1, TimingAssumption
  DEF StaleAge, DeadAge, HeartbeatHorizon, ActivityHorizon, UpdateHorizon, Larger

\* Zero is an age of every kind, and ages stay ages as they grow.
LEMMA AgesGrow ==
    /\ 0 \in HeartbeatAge /\ 0 \in ActivityAge /\ 0 \in UpdateAge
    /\ \A a \in HeartbeatAge : Older(a, HeartbeatHorizon) \in HeartbeatAge
    /\ \A a \in ActivityAge : Older(a, ActivityHorizon) \in ActivityAge
    /\ \A a \in UpdateAge : Older(a, UpdateHorizon) \in UpdateAge
BY HorizonsAreNaturals DEF HeartbeatAge, ActivityAge, UpdateAge, Older

\* A freshly registered service is a record of the store.
LEMMA NewServiceType ==
    ASSUME NEW d \in Description
    PROVE  NewService(d) \in ServiceRecord
BY AgesGrow, InputAssumption DEF NewService, ServiceRecord, NodeState

\* Heartbeat, activity, sweep and the clock map service records to service records.
LEMMA ServiceStepType ==
    ASSUME NEW s \in ServiceRecord
    PROVE  /\ \A h \in Health \cup {Absent} : AfterHeartbeat(s, h) \in ServiceRecord
           /\ AfterActivity(s) \in ServiceRecord
           /\ Swept(s) \in ServiceRecord
           /\ Aged(s) \in ServiceRecord
<1>1. ASSUME NEW h \in Health \cup {Absent}
      PROVE  AfterHeartbeat(s, h) \in ServiceRecord
  BY AgesGrow DEF AfterHeartbeat, ServiceRecord, NodeState
<1>2. AfterActivity(s) \in ServiceRecord
  BY AgesGrow DEF AfterActivity, ServiceRecord, NodeState
<1>3. SweptState(s) \in NodeState
  BY DEF SweptState, ServiceRecord, NodeState
<1>4. Swept(s) \in ServiceRecord
  BY <1>3, AgesGrow DEF Swept, ServiceRecord
<1>5. Aged(s) \in ServiceRecord
  BY AgesGrow DEF Aged, ServiceRecord
<1> QED
  BY <1>1, <1>2, <1>4, <1>5

\* Saturating counts stay within their bounds and keep their order.
LEMMA CountsSaturate ==
    /\ 0 \in PendingCount /\ 0 \in TotalCount
    /\ \A c \in PendingCount \cup TotalCount : c \in Nat
    /\ \A n \in Nat : UpTo(MaxPending, n) \in PendingCount /\ UpTo(MaxTotal, n) \in TotalCount
    /\ \A b, m, n \in Nat : m <= n => UpTo(b, m) <= UpTo(b, n)
    /\ \A m \in PendingCount, n \in Nat : m <= n => m <= UpTo(MaxPending, n)
BY InputAssumption DEF PendingCount, TotalCount, UpTo

\* Creation, activity, flush and sweep map edge records to edge records.
LEMMA EdgeStepType ==
    /\ NewEdge \in EdgeRecord
    /\ \A r \in EdgeRecord, size \in BatchSize, failed \in Failed :
          Charged(r, size, failed) \in EdgeRecord
    /\ \A r \in EdgeRecord : Flushed(r) \in EdgeRecord /\ SweptEdge(r) \in EdgeRecord
<1>1. NewEdge \in EdgeRecord
  BY AgesGrow, CountsSaturate DEF NewEdge, EdgeRecord, EdgeState
<1>2. ASSUME NEW r \in EdgeRecord, NEW size \in BatchSize, NEW failed \in Failed
      PROVE  Charged(r, size, failed) \in EdgeRecord
  <2>1. /\ UpTo(MaxPending, r.pending + size) \in PendingCount
        /\ UpTo(MaxPending, r.pendingErrors + size) \in PendingCount
    BY CountsSaturate, InputAssumption DEF EdgeRecord
  <2> QED
    BY <2>1, AgesGrow DEF Charged, EdgeRecord, EdgeState
<1>3. ASSUME NEW r \in EdgeRecord
      PROVE  Flushed(r) \in EdgeRecord
  <2>1. /\ UpTo(MaxTotal, r.total + r.pending) \in TotalCount
        /\ UpTo(MaxTotal, r.totalErrors + r.pendingErrors) \in TotalCount
    BY CountsSaturate DEF EdgeRecord
  <2> QED
    BY <2>1, CountsSaturate DEF Flushed, EdgeRecord
<1>4. ASSUME NEW r \in EdgeRecord
      PROVE  SweptEdge(r) \in EdgeRecord
  BY DEF SweptEdge, EdgeRecord, EdgeState
<1> QED
  BY <1>1, <1>2, <1>3, <1>4

(***************************************************************************)
(* The type invariant.                                                     *)
(***************************************************************************)
\* The empty store is well typed.
LEMMA InitTyped == Init => TypeOK
BY DEF Init, TypeOK

\* Every operation keeps the store well typed.
LEMMA StepTyped == TypeOK /\ [Next]_storeVars => TypeOK'
<1> SUFFICES ASSUME TypeOK, [Next]_storeVars
             PROVE  TypeOK'
  OBVIOUS
<1> USE DEF TypeOK
<1>1. ASSUME NEW id \in ServiceId, NEW d \in Description, RegisterService(id, d)
      PROVE  TypeOK'
  BY <1>1, NewServiceType DEF RegisterService, Put
<1>2. ASSUME NEW id \in ServiceId, UnregisterService(id)
      PROVE  TypeOK'
  BY <1>2 DEF UnregisterService, Restrict
<1>3. ASSUME NEW id \in ServiceId, NEW h \in Health \cup {Absent}, RecordHeartbeat(id, h)
      PROVE  TypeOK'
  BY <1>3, ServiceStepType DEF RecordHeartbeat
<1>4. ASSUME NEW id \in ServiceId, NEW t \in Target, NEW n \in BatchSize,
             NEW failed \in Failed, RecordActivity(id, t, n, failed)
      PROVE  TypeOK'
  <2>1. \A i \in DOMAIN services' : services'[i] \in ServiceRecord
    BY <1>4, ServiceStepType DEF RecordActivity
  <2>2. EdgeBefore(<<id, t>>) \in EdgeRecord
    BY EdgeStepType DEF EdgeBefore
  <2>3. \A e \in DOMAIN edges' : edges'[e] \in EdgeRecord
    BY <1>4, <2>2, EdgeStepType DEF RecordActivity, Put
  <2>4. /\ DOMAIN services' = DOMAIN services
        /\ DOMAIN edges' = DOMAIN edges \cup {<<id, t>>}
        /\ issued' = issued
    BY <1>4 DEF RecordActivity, Put
  <2> QED
    BY <2>1, <2>3, <2>4
<1>5. CASE FlushActivity
  BY <1>5, EdgeStepType DEF FlushActivity
<1>6. CASE Sweep
  BY <1>6, ServiceStepType, EdgeStepType DEF Sweep
<1>7. CASE Tick
  <2>1. \A r \in EdgeRecord :
           [r EXCEPT !.activityAge = Older(@, ActivityHorizon)] \in EdgeRecord
    BY AgesGrow DEF EdgeRecord
  <2> QED
    BY <1>7, <2>1, ServiceStepType DEF Tick
<1>8. CASE UNCHANGED storeVars
  BY <1>8 DEF storeVars
<1> QED
  BY <1>1, <1>2, <1>3, <1>4, <1>5, <1>6, <1>7, <1>8 DEF Next

\* Whatever requests, timers and ticks the store sees, its maps stay well formed.
THEOREM StoreTyped == Spec => []TypeOK
BY InitTyped, StepTyped, PTL DEF Spec

(***************************************************************************)
(* Every edge leaves a registered service.                                 *)
(***************************************************************************)
\* No operation leaves an edge behind whose source it removes.
LEMMA StepKeepsSource ==
    TypeOK /\ EdgeSourceRegistered /\ [Next]_storeVars => EdgeSourceRegistered'
<1> SUFFICES ASSUME TypeOK, EdgeSourceRegistered, [Next]_storeVars
             PROVE  EdgeSourceRegistered'
  OBVIOUS
<1> USE DEF EdgeSourceRegistered
<1>1. ASSUME NEW id \in ServiceId, NEW d \in Description, RegisterService(id, d)
      PROVE  EdgeSourceRegistered'
  BY <1>1 DEF RegisterService, Put
<1>2. ASSUME NEW id \in ServiceId, UnregisterService(id)
      PROVE  EdgeSourceRegistered'
  BY <1>2 DEF UnregisterService, EdgesOf, Restrict
<1>3. ASSUME NEW id \in ServiceId, NEW h \in Health \cup {Absent}, RecordHeartbeat(id, h)
      PROVE  EdgeSourceRegistered'
  BY <1>3 DEF RecordHeartbeat
<1>4. ASSUME NEW id \in ServiceId, NEW t \in Target, NEW n \in BatchSize,
             NEW failed \in Failed, RecordActivity(id, t, n, failed)
      PROVE  EdgeSourceRegistered'
  BY <1>4 DEF RecordActivity, Put
<1>5. CASE FlushActivity
  BY <1>5 DEF FlushActivity
<1>6. CASE Sweep
  BY <1>6 DEF Sweep, Lost, EdgesOf
<1>7. CASE Tick
  BY <1>7 DEF Tick
<1>8. CASE UNCHANGED storeVars
  BY <1>8 DEF storeVars
<1> QED
  BY <1>1, <1>2, <1>3, <1>4, <1>5, <1>6, <1>7, <1>8 DEF Next

\* The source of every edge is a registered service: removal by request or by
\* the sweep takes the edges along, and no late report draws one again.
THEOREM EdgesHaveSource == Spec => []EdgeSourceRegistered
<1>1. Init => EdgeSourceRegistered
  BY DEF Init, EdgeSourceRegistered
<1> QED
  BY <1>1, StepKeepsSource, StoreTyped, PTL DEF Spec

(***************************************************************************)
(* The published state of a service agrees with its history.               *)
(***************************************************************************)
\* Record by record: each operation leaves an explained service explained.
LEMMA StepExplained ==
    ASSUME NEW s \in ServiceRecord, Explained(s)
    PROVE  /\ \A h \in Health \cup {Absent} : Explained(AfterHeartbeat(s, h))
           /\ Explained(AfterActivity(s))
           /\ Explained(Swept(s))
           /\ Explained(Aged(s))
<1>1. ASSUME NEW h \in Health \cup {Absent}
      PROVE  Explained(AfterHeartbeat(s, h))
  BY DEF Explained, AfterHeartbeat, ServiceRecord, NodeState
<1>2. Explained(AfterActivity(s))
  BY DEF Explained, AfterActivity, ServiceRecord
<1>3. Explained(Swept(s))
  BY DEF Explained, Swept, SweptState, ServiceRecord, NodeState
<1>4. Explained(Aged(s))
  <2>1. s.heartbeatAge > StaleAge => Older(s.heartbeatAge, HeartbeatHorizon) > StaleAge
    BY HorizonsAreNaturals DEF Older, HeartbeatAge, ServiceRecord
  <2>2. /\ Aged(s).state = s.state
        /\ Aged(s).wasActive = s.wasActive
        /\ Aged(s).heartbeatAge = Older(s.heartbeatAge, HeartbeatHorizon)
    BY DEF Aged, ServiceRecord
  <2> QED
    BY <2>1, <2>2 DEF Explained
<1> QED
  BY <1>1, <1>2, <1>3, <1>4

\* Whatever order heartbeats, reports, sweeps and ticks come in, the state a
\* service is published with is the one its history calls for.
THEOREM StatesExplained == Spec => []StateExplained
<1>1. Init => StateExplained
  BY DEF Init, StateExplained
<1>2. TypeOK /\ StateExplained /\ [Next]_storeVars => StateExplained'
  <2> SUFFICES ASSUME TypeOK, StateExplained, [Next]_storeVars
               PROVE  StateExplained'
    OBVIOUS
  <2> USE DEF StateExplained
  <2>1. \A i \in DOMAIN services : services[i] \in ServiceRecord
    BY DEF TypeOK
  <2>2. ASSUME NEW id \in ServiceId, NEW d \in Description, RegisterService(id, d)
        PROVE  StateExplained'
    <3>1. Explained(NewService(d))
      BY DEF Explained, NewService
    <3> QED
      BY <2>2, <3>1 DEF RegisterService, Put
  <2>3. ASSUME NEW id \in ServiceId, UnregisterService(id)
        PROVE  StateExplained'
    BY <2>3 DEF UnregisterService, Restrict
  <2>4. ASSUME NEW id \in ServiceId, NEW h \in Health \cup {Absent}, RecordHeartbeat(id, h)
        PROVE  StateExplained'
    BY <2>4, <2>1, StepExplained DEF RecordHeartbeat
  <2>5. ASSUME NEW id \in ServiceId, NEW t \in Target, NEW n \in BatchSize,
               NEW failed \in Failed, RecordActivity(id, t, n, failed)
        PROVE  StateExplained'
    BY <2>5, <2>1, StepExplained DEF RecordActivity
  <2>6. CASE FlushActivity
    BY <2>6 DEF FlushActivity
  <2>7. CASE Sweep
    BY <2>7, <2>1, StepExplained DEF Sweep
  <2>8. CASE Tick
    BY <2>8, <2>1, StepExplained DEF Tick
  <2>9. CASE UNCHANGED storeVars
    BY <2>9 DEF storeVars
  <2> QED
    BY <2>2, <2>3, <2>4, <2>5, <2>6, <2>7, <2>8, <2>9 DEF Next
<1> QED
  BY <1>1, <1>2, StoreTyped, PTL DEF Spec

(***************************************************************************)
(* An edge is never fresher than its source.                               *)
(***************************************************************************)
\* Record by record: how each operation moves the clock of the last activity.
LEMMA ActivityClock ==
    ASSUME NEW s \in ServiceRecord
    PROVE  /\ \A h \in Health \cup {Absent} :
                 /\ AfterHeartbeat(s, h).wasActive = s.wasActive
                 /\ AfterHeartbeat(s, h).activityAge = s.activityAge
           /\ AfterActivity(s).wasActive
           /\ AfterActivity(s).activityAge = 0
           /\ Swept(s).wasActive = s.wasActive
           /\ Swept(s).activityAge = s.activityAge
           /\ Aged(s).wasActive = s.wasActive
           /\ s.wasActive => Aged(s).activityAge = Older(s.activityAge, ActivityHorizon)
BY DEF AfterHeartbeat, AfterActivity, Swept, Aged, ServiceRecord

\* Edge by edge: only a new report makes an edge younger, to age 0.
LEMMA EdgeClock ==
    /\ NewEdge.activityAge = 0
    /\ \A r \in EdgeRecord, n \in BatchSize, failed \in Failed :
          Charged(r, n, failed).activityAge = 0
    /\ \A r \in EdgeRecord :
          /\ Flushed(r).activityAge = r.activityAge
          /\ SweptEdge(r).activityAge = r.activityAge
BY DEF NewEdge, Charged, Flushed, SweptEdge, EdgeRecord

\* Two activity ages keep their order as both grow.
LEMMA OlderKeepsOrder ==
    \A a, b \in ActivityAge :
        a <= b => Older(a, ActivityHorizon) <= Older(b, ActivityHorizon)
BY HorizonsAreNaturals DEF Older, ActivityAge

\* The order of the clocks is inductive together with the types and with
\* EdgeSourceRegistered, without which a new service could take over an edge.
THEOREM EdgesNotFresher == Spec => []EdgeNotFresherThanSource
<1>1. Init => EdgeNotFresherThanSource
  BY DEF Init, EdgeNotFresherThanSource
<1>2. /\ TypeOK /\ EdgeSourceRegistered /\ EdgeNotFresherThanSource
      /\ [Next]_storeVars
      => EdgeNotFresherThanSource'
  <2> SUFFICES ASSUME TypeOK, EdgeSourceRegistered, EdgeNotFresherThanSource,
                      [Next]_storeVars
               PROVE  EdgeNotFresherThanSource'
    OBVIOUS
  <2> USE DEF EdgeNotFresherThanSource
  <2>1. /\ \A i \in DOMAIN services : services[i] \in ServiceRecord
        /\ \A e \in DOMAIN edges :
              /\ edges[e] \in EdgeRecord
              /\ e[1] \in DOMAIN services
              /\ services[e[1]].activityAge \in ActivityAge
              /\ edges[e].activityAge \in ActivityAge
    BY DEF TypeOK, EdgeSourceRegistered, ServiceRecord, EdgeRecord
  <2>2. ASSUME NEW id \in ServiceId, NEW d \in Description, RegisterService(id, d)
        PROVE  EdgeNotFresherThanSource'
    <3>1. id \notin DOMAIN services
      BY <2>2 DEF RegisterService, TypeOK
    <3> QED
      BY <2>2, <3>1, <2>1 DEF RegisterService, Put
  <2>3. ASSUME NEW id \in ServiceId, UnregisterService(id)
        PROVE  EdgeNotFresherThanSource'
    BY <2>3, <2>1 DEF UnregisterService, EdgesOf, Restrict
  <2>4. ASSUME NEW id \in ServiceId, NEW h \in Health \cup {Absent}, RecordHeartbeat(id, h)
        PROVE  EdgeNotFresherThanSource'
    BY <2>4, <2>1, ActivityClock DEF RecordHeartbeat
  <2>5. ASSUME NEW id \in ServiceId, NEW t \in Target, NEW n \in BatchSize,
               NEW failed \in Failed, RecordActivity(id, t, n, failed)
        PROVE  EdgeNotFresherThanSource'
    <3> SUFFICES ASSUME NEW e \in DOMAIN edges'
                 PROVE  /\ services'[e[1]].wasActive
                        /\ services'[e[1]].activityAge <= edges'[e].activityAge
      OBVIOUS
    <3>1. EdgeBefore(<<id, t>>) \in EdgeRecord
      BY <2>1, EdgeStepType DEF EdgeBefore
    <3>2. CASE e[1] = id
      <4>1. edges'[e].activityAge \in ActivityAge
        BY <2>1, <2>5, <3>1, EdgeStepType DEF RecordActivity, Put, EdgeRecord
      <4>2. services'[id] = AfterActivity(services[id])
        BY <2>5 DEF RecordActivity
      <4>3. /\ services'[id].wasActive
            /\ services'[id].activityAge = 0
        BY <4>2, <2>1, <2>5, ActivityClock DEF RecordActivity
      <4> QED
        BY <3>2, <4>1, <4>3, HorizonsAreNaturals DEF ActivityAge
    <3>3. CASE e[1] # id
      <4>1. e \in DOMAIN edges /\ edges'[e] = edges[e]
        BY <3>3, <2>5 DEF RecordActivity, Put
      <4>2. services'[e[1]] = services[e[1]]
        BY <3>3, <4>1, <2>1, <2>5 DEF RecordActivity
      <4> QED
        BY <4>1, <4>2
    <3> QED
      BY <3>2, <3>3
  <2>6. CASE FlushActivity
    BY <2>6, <2>1, EdgeClock DEF FlushActivity
  <2>7. CASE Sweep
    <3> SUFFICES ASSUME NEW e \in DOMAIN edges'
                 PROVE  /\ services'[e[1]].wasActive
                        /\ services'[e[1]].activityAge <= edges'[e].activityAge
      OBVIOUS
    <3>1. e \in DOMAIN edges /\ e[1] \in DOMAIN services \ Dead
      BY <2>7, <2>1 DEF Sweep, Lost, EdgesOf
    <3>2. /\ services'[e[1]] = Swept(services[e[1]])
          /\ edges'[e] = SweptEdge(edges[e])
      BY <2>7, <3>1 DEF Sweep
    <3> QED
      BY <3>1, <3>2, <2>1, ActivityClock, EdgeClock
  <2>8. CASE Tick
    <3> SUFFICES ASSUME NEW e \in DOMAIN edges
                 PROVE  /\ services'[e[1]].wasActive
                        /\ services'[e[1]].activityAge <= edges'[e].activityAge
      BY <2>8 DEF Tick
    <3>1. /\ services'[e[1]] = Aged(services[e[1]])
          /\ edges'[e].activityAge = Older(edges[e].activityAge, ActivityHorizon)
      BY <2>8, <2>1 DEF Tick, EdgeRecord
    <3> QED
      BY <3>1, <2>1, ActivityClock, OlderKeepsOrder
  <2>9. CASE UNCHANGED storeVars
    BY <2>9 DEF storeVars
  <2> QED
    BY <2>2, <2>3, <2>4, <2>5, <2>6, <2>7, <2>8, <2>9 DEF Next
<1> QED
  BY <1>1, <1>2, StoreTyped, EdgesHaveSource, PTL DEF Spec

(***************************************************************************)
(* Accounting.                                                             *)
(***************************************************************************)
\* Edge by edge: counting and flushing never let errors outgrow requests.
LEMMA StepSound ==
    /\ Sound(NewEdge)
    /\ \A r \in EdgeRecord, n \in BatchSize, failed \in Failed :
          Sound(r) => Sound(Charged(r, n, failed))
    /\ \A r \in EdgeRecord : Sound(r) =>
          /\ Sound(Flushed(r))
          /\ Sound(SweptEdge(r))
          /\ Sound([r EXCEPT !.activityAge = Older(@, ActivityHorizon)])
<1>1. Sound(NewEdge)
  BY DEF Sound, NewEdge
<1>2. ASSUME NEW r \in EdgeRecord, NEW n \in BatchSize, NEW failed \in Failed, Sound(r)
      PROVE  Sound(Charged(r, n, failed))
  <2>1. n \in Nat /\ r.pending \in Nat /\ r.pendingErrors \in Nat /\ r.pendingErrors <= r.pending
    BY <1>2, CountsSaturate, InputAssumption DEF EdgeRecord, Sound
  <2>2. /\ UpTo(MaxPending, r.pendingErrors + n) <= UpTo(MaxPending, r.pending + n)
        /\ r.pendingErrors <= UpTo(MaxPending, r.pending + n)
    BY <2>1, CountsSaturate, InputAssumption DEF EdgeRecord
  <2>3. /\ Charged(r, n, failed).pending = UpTo(MaxPending, r.pending + n)
        /\ Charged(r, n, failed).pendingErrors =
               IF failed THEN UpTo(MaxPending, r.pendingErrors + n) ELSE r.pendingErrors
        /\ Charged(r, n, failed).total = r.total
        /\ Charged(r, n, failed).totalErrors = r.totalErrors
    BY DEF Charged, EdgeRecord
  <2> QED
    BY <1>2, <2>2, <2>3 DEF Sound
<1>3. ASSUME NEW r \in EdgeRecord, Sound(r)
      PROVE  /\ Sound(Flushed(r))
             /\ Sound(SweptEdge(r))
             /\ Sound([r EXCEPT !.activityAge = Older(@, ActivityHorizon)])
  <2>1. UpTo(MaxTotal, r.totalErrors + r.pendingErrors) <= UpTo(MaxTotal, r.total + r.pending)
    <3>1. /\ r.total + r.pending \in Nat /\ r.totalErrors + r.pendingErrors \in Nat
          /\ r.totalErrors + r.pendingErrors <= r.total + r.pending
      BY <1>3, CountsSaturate DEF EdgeRecord, Sound
    <3> QED
      BY <3>1, CountsSaturate, InputAssumption
  <2>2. Sound(Flushed(r))
    BY <2>1 DEF Flushed, EdgeRecord, Sound
  <2> QED
    BY <1>3, <2>2 DEF Sound, SweptEdge, EdgeRecord
<1> QED
  BY <1>1, <1>2, <1>3

\* No edge ever publishes more errors than requests, in whatever order
\* reports and flushes come.
THEOREM ErrorsAreRequests == Spec => []ErrorsWithinRequests
<1>1. Init => ErrorsWithinRequests
  BY DEF Init, ErrorsWithinRequests
<1>2. TypeOK /\ ErrorsWithinRequests /\ [Next]_storeVars => ErrorsWithinRequests'
  <2> SUFFICES ASSUME TypeOK, ErrorsWithinRequests, [Next]_storeVars
               PROVE  ErrorsWithinRequests'
    OBVIOUS
  <2> USE DEF ErrorsWithinRequests
  <2>1. \A e \in DOMAIN edges : edges[e] \in EdgeRecord
    BY DEF TypeOK
  <2>2. ASSUME NEW id \in ServiceId, NEW d \in Description, RegisterService(id, d)
        PROVE  ErrorsWithinRequests'
    BY <2>2 DEF RegisterService
  <2>3. ASSUME NEW id \in ServiceId, UnregisterService(id)
        PROVE  ErrorsWithinRequests'
    BY <2>3 DEF UnregisterService, Restrict
  <2>4. ASSUME NEW id \in ServiceId, NEW h \in Health \cup {Absent}, RecordHeartbeat(id, h)
        PROVE  ErrorsWithinRequests'
    BY <2>4 DEF RecordHeartbeat
  <2>5. ASSUME NEW id \in ServiceId, NEW t \in Target, NEW n \in BatchSize,
               NEW failed \in Failed, RecordActivity(id, t, n, failed)
        PROVE  ErrorsWithinRequests'
    <3>1. EdgeBefore(<<id, t>>) \in EdgeRecord /\ Sound(EdgeBefore(<<id, t>>))
      BY <2>1, EdgeStepType, StepSound DEF EdgeBefore
    <3> QED
      BY <2>5, <3>1, StepSound DEF RecordActivity, Put
  <2>6. CASE FlushActivity
    BY <2>6, <2>1, StepSound DEF FlushActivity
  <2>7. CASE Sweep
    BY <2>7, <2>1, StepSound DEF Sweep
  <2>8. CASE Tick
    BY <2>8, <2>1, StepSound DEF Tick
  <2>9. CASE UNCHANGED storeVars
    BY <2>9 DEF storeVars
  <2> QED
    BY <2>2, <2>3, <2>4, <2>5, <2>6, <2>7, <2>8, <2>9 DEF Next
<1> QED
  BY <1>1, <1>2, StoreTyped, PTL DEF Spec

(***************************************************************************)
(* No step forgets a request.                                              *)
(***************************************************************************)
\* What one step may do to the counts of an edge, and what a step that is no
\* report may do.
Kept(r, q) ==
    /\ q.total >= r.total
    /\ q.totalErrors >= r.totalErrors
    /\ Counted(q) >= Counted(r)

Unchanged(r, q) == Kept(r, q) /\ Counted(q) = Counted(r)

\* Counting, flushing, sweeping and ageing an edge keep its requests, and all
\* but the first add none.
LEMMA StepKeepsRequests ==
    ASSUME NEW r \in EdgeRecord
    PROVE  /\ Unchanged(r, r)
           /\ \A n \in BatchSize, failed \in Failed : Kept(r, Charged(r, n, failed))
           /\ Unchanged(r, Flushed(r))
           /\ Unchanged(r, SweptEdge(r))
           /\ Unchanged(r, [r EXCEPT !.activityAge = Older(@, ActivityHorizon)])
<1>1. /\ r.total \in Nat /\ r.totalErrors \in Nat /\ r.pending \in Nat /\ r.pendingErrors \in Nat
      /\ r.total \in TotalCount /\ r.totalErrors \in TotalCount /\ r.pending \in PendingCount
  BY CountsSaturate DEF EdgeRecord
<1>2. Unchanged(r, r)
  BY <1>1, InputAssumption DEF Unchanged, Kept, Counted, UpTo
<1>3. ASSUME NEW n \in BatchSize, NEW failed \in Failed
      PROVE  Kept(r, Charged(r, n, failed))
  <2>1. /\ Charged(r, n, failed).total = r.total
        /\ Charged(r, n, failed).totalErrors = r.totalErrors
        /\ Charged(r, n, failed).pending = UpTo(MaxPending, r.pending + n)
    BY DEF Charged, EdgeRecord
  <2>2. r.pending <= UpTo(MaxPending, r.pending + n) /\ UpTo(MaxPending, r.pending + n) \in Nat
    BY <1>1, CountsSaturate, InputAssumption
  <2> QED
    BY <1>1, <2>1, <2>2, InputAssumption DEF Kept, Counted, UpTo
<1>4. Unchanged(r, Flushed(r))
  <2>1. /\ Flushed(r).total = UpTo(MaxTotal, r.total + r.pending)
        /\ Flushed(r).totalErrors = UpTo(MaxTotal, r.totalErrors + r.pendingErrors)
        /\ Flushed(r).pending = 0
    BY DEF Flushed, EdgeRecord
  <2> QED
    BY <1>1, <2>1, InputAssumption DEF Unchanged, Kept, Counted, UpTo, TotalCount
<1>5. /\ Unchanged(r, SweptEdge(r))
      /\ Unchanged(r, [r EXCEPT !.activityAge = Older(@, ActivityHorizon)])
  BY <1>2 DEF Unchanged, Kept, Counted, SweptEdge, EdgeRecord
<1> QED
  BY <1>2, <1>3, <1>4, <1>5

\* Published totals never fall, what leaves the pending count of an edge
\* arrives in its total, once, and only reports add to the two, whatever
\* operations come in between.
THEOREM RequestsKept == Spec => NoRequestForgotten
<1> DEFINE Accounted(e) ==
             /\ Kept(edges[e], edges'[e])
             /\ Counted(edges'[e]) = Counted(edges[e]) \/ ActivityOn(e)
           AllKept == \A e \in DOMAIN edges \cap DOMAIN edges' : Accounted(e)
<1>1. TypeOK /\ [Next]_storeVars => [AllKept]_storeVars
  <2> SUFFICES ASSUME TypeOK, Next
               PROVE  AllKept
    OBVIOUS
  <2>1. \A e \in DOMAIN edges : edges[e] \in EdgeRecord
    BY DEF TypeOK
  <2>2. ASSUME \A e \in DOMAIN edges \cap DOMAIN edges' : Unchanged(edges[e], edges'[e])
        PROVE  AllKept
    BY <2>2 DEF Unchanged
  <2>3. ASSUME UNCHANGED edges
        PROVE  AllKept
    BY <2>1, <2>2, <2>3, StepKeepsRequests
  <2>4. ASSUME NEW id \in ServiceId, UnregisterService(id)
        PROVE  AllKept
    <3>1. \A e \in DOMAIN edges \cap DOMAIN edges' : edges'[e] = edges[e]
      BY <2>4 DEF UnregisterService, Restrict
    <3> QED
      BY <2>1, <2>2, <3>1, StepKeepsRequests
  <2>5. ASSUME NEW id \in ServiceId, NEW t \in Target, NEW n \in BatchSize,
               NEW failed \in Failed, RecordActivity(id, t, n, failed)
        PROVE  AllKept
    <3> SUFFICES ASSUME NEW e \in DOMAIN edges \cap DOMAIN edges'
                 PROVE  Accounted(e)
      OBVIOUS
    <3>1. edges' = Put(edges, <<id, t>>, Charged(EdgeBefore(<<id, t>>), n, failed))
      BY <2>5 DEF RecordActivity
    <3>2. CASE e = <<id, t>>
      <4>1. edges'[e] = Charged(edges[e], n, failed)
        BY <3>1, <3>2 DEF Put, EdgeBefore
      <4>2. ActivityOn(e)
        BY <2>5, <3>2 DEF ActivityOn
      <4>3. Kept(edges[e], edges'[e])
        BY <2>1, <4>1, StepKeepsRequests
      <4> QED
        BY <4>2, <4>3
    <3>3. CASE e # <<id, t>>
      <4>1. edges'[e] = edges[e]
        BY <3>1, <3>3 DEF Put
      <4>2. Unchanged(edges[e], edges'[e])
        BY <2>1, <4>1, StepKeepsRequests
      <4> QED
        BY <4>2 DEF Unchanged
    <3> QED
      BY <3>2, <3>3
  <2>6. ASSUME FlushActivity
        PROVE  AllKept
    <3>1. \A e \in DOMAIN edges : edges'[e] = edges[e] \/ edges'[e] = Flushed(edges[e])
      BY <2>6 DEF FlushActivity
    <3> QED
      BY <2>1, <2>2, <3>1, StepKeepsRequests
  <2>7. ASSUME Sweep
        PROVE  AllKept
    <3>1. \A e \in DOMAIN edges' : edges'[e] = SweptEdge(edges[e])
      BY <2>7 DEF Sweep
    <3> QED
      BY <2>1, <2>2, <3>1, StepKeepsRequests
  <2>8. ASSUME Tick
        PROVE  AllKept
    <3>1. \A e \in DOMAIN edges :
             edges'[e] = [edges[e] EXCEPT !.activityAge = Older(@, ActivityHorizon)]
      BY <2>8 DEF Tick
    <3> QED
      BY <2>1, <2>2, <3>1, StepKeepsRequests
  <2> HIDE DEF AllKept
  <2> QED
    BY <2>3, <2>4, <2>5, <2>6, <2>7, <2>8 DEF Next, RegisterService, RecordHeartbeat
<1>2. [AllKept]_storeVars =>
        [\A e \in DOMAIN edges \cap DOMAIN edges' :
           /\ edges'[e].total >= edges[e].total
           /\ edges'[e].totalErrors >= edges[e].totalErrors
           /\ Counted(edges'[e]) >= Counted(edges[e])
           /\ Counted(edges'[e]) = Counted(edges[e]) \/ ActivityOn(e)]_storeVars
  BY DEF Kept
<1> QED
  BY <1>1, <1>2, StoreTyped, PTL DEF Spec, NoRequestForgotten
=============================================================================
