--------------------------- MODULE TopologyStore ---------------------------
(***************************************************************************)
(* The in-memory topology of apps/topology/src/topology-store.ts: the      *)
(* registered services, the edges their activity reports draw between      *)
(* them, and the heartbeat, activity, flush and sweep operations that move *)
(* both through their life cycle.                                          *)
(*                                                                         *)
(* Time.  The store keeps timestamps and only ever compares their distance *)
(* to "now" with a timeout.  The model keeps the distance itself, an age   *)
(* in ticks that Tick advances and that saturates once it is beyond every  *)
(* timeout it is compared with, so that behaviours of any length have      *)
(* finitely many states.                                                   *)
(***************************************************************************)
EXTENDS Integers, FiniteSets, Functions

CONSTANTS
    ServiceId,           \* what generateId can return
    Description,         \* what a service says of itself when it registers
    Target,              \* values of ReportActivityRequest.targetService
    Health,              \* values of HealthState
    UnknownHealth,       \* HEALTH_STATE_UNKNOWN
    Absent,              \* an optional field that is missing or blank
    BatchSize,           \* values of max(1, batchSize)
    Failed,              \* outcomes of a report: TRUE for an error
    HeartbeatInterval,   \* heartbeatIntervalMs, in ticks
    TimeoutMultiplier,
    IdleTimeout,
    UnknownEdgeTimeout,
    NodeUpdateThrottle,
    MaxPending,          \* bound: where the count of pending requests saturates
    MaxTotal,            \* bound: where the published total saturates
    MaxEdges             \* bound: edges at any one time

ASSUME TimingAssumption ==
    /\ HeartbeatInterval \in Nat
    /\ TimeoutMultiplier \in Nat
    /\ IdleTimeout \in Nat
    /\ UnknownEdgeTimeout \in Nat
    /\ NodeUpdateThrottle \in Nat

ASSUME InputAssumption ==
    /\ UnknownHealth \in Health
    /\ Absent \notin Health
    /\ BatchSize \subseteq Nat \ {0}
    /\ Failed \subseteq BOOLEAN
    /\ MaxPending \in Nat \ {0}
    /\ MaxTotal \in Nat
    /\ MaxEdges \in Nat

VARIABLES
    services,   \* the services map: id -> ServiceRecord
    edges,      \* the edges map: <<source id, target>> -> EdgeRecord
    issued      \* ids generateId has returned so far

storeVars == <<services, edges, issued>>

NodeState == {"REGISTERED", "IDLE", "ACTIVE", "STALE"}
EdgeState == {"IDLE", "ACTIVE"}

StaleAge == 2 * HeartbeatInterval
DeadAge == HeartbeatInterval * TimeoutMultiplier

Larger(a, b) == IF a > b THEN a ELSE b
HeartbeatHorizon == Larger(StaleAge, DeadAge) + 1
ActivityHorizon == Larger(IdleTimeout, UnknownEdgeTimeout) + 1
UpdateHorizon == NodeUpdateThrottle

HeartbeatAge == 0 .. HeartbeatHorizon
ActivityAge == 0 .. ActivityHorizon
UpdateAge == 0 .. UpdateHorizon

\* Counts of requests saturate, like ages, so that requests may go on for ever.
UpTo(bound, n) == IF n > bound THEN bound ELSE n

PendingCount == 0 .. MaxPending
TotalCount == 0 .. MaxTotal

ServiceRecord ==
    [desc : Description, state : NodeState, health : Health, wasActive : BOOLEAN,
     heartbeatAge : HeartbeatAge, activityAge : ActivityAge, updateAge : UpdateAge]

EdgeRecord ==
    [state : EdgeState, activityAge : ActivityAge,
     pending : PendingCount, pendingErrors : PendingCount,
     total : TotalCount, totalErrors : TotalCount]

(***************************************************************************)
(* The names a service answers to when it is the target of an edge.        *)
(***************************************************************************)
ServiceKey(d) ==
    IF d.iface = Absent THEN d.name
    ELSE IF d.role = Absent THEN d.iface ELSE <<d.iface, d.role>>

ServiceKeys(d) ==
    {d.name, ServiceKey(d)} \cup
    (IF d.address = Absent THEN {} ELSE {d.address, <<ServiceKey(d), d.address>>})

KnownTargets == UNION {ServiceKeys(services[id].desc) : id \in DOMAIN services}

(***************************************************************************)
(* The updates an operation hands to the broadcaster: the public part of a *)
(* node or an edge, under its key.  The times of the last heartbeat and    *)
(* activity are part of it, and are ages like all times of the model       *)
(* (wasActive tells an activity from none, whose time is 0).               *)
(***************************************************************************)
NodeView(s) ==
    [desc |-> s.desc, state |-> s.state, health |-> s.health, wasActive |-> s.wasActive,
     heartbeatAge |-> s.heartbeatAge, activityAge |-> s.activityAge]

EdgeView(e) ==
    [state |-> e.state, activityAge |-> e.activityAge,
     total |-> e.total, totalErrors |-> e.totalErrors]

NodeUpdate(type, id, s) == [type |-> type, key |-> id, value |-> NodeView(s)]
EdgeUpdate(type, e, r) == [type |-> type, key |-> e, value |-> EdgeView(r)]

Put(f, k, v) == [x \in DOMAIN f \cup {k} |-> IF x = k THEN v ELSE f[x]]

(***************************************************************************)
(* Mutated operations: plausible mistakes that the properties must catch.  *)
(* Each stands in for the definition of the same shape below.              *)
(***************************************************************************)
\* NewService that leaves the health unset.
NewServiceNoHealth(d) ==
    [desc |-> d, state |-> "REGISTERED", health |-> Absent, wasActive |-> FALSE,
     heartbeatAge |-> 0, activityAge |-> 0, updateAge |-> 0]

\* UnregisterService that leaves the edges to expire.
UnregisterServiceKeepsEdges(id) ==
    /\ id \in DOMAIN services
    /\ services' = Restrict(services, DOMAIN services \ {id})
    /\ UNCHANGED <<edges, issued>>

\* HeartbeatForces that broadcasts a recovery only when the throttle allows.
HeartbeatForcesHealthOnly(s, h) == h # Absent /\ h # s.health

\* AfterHeartbeat that takes every recovered service for one that was active.
AfterHeartbeatIdle(s, h) ==
    [s EXCEPT !.heartbeatAge = 0,
              !.state = IF @ = "STALE" THEN "IDLE" ELSE @,
              !.health = IF h = Absent THEN @ ELSE h]

\* AfterActivity that notes the time only when the service turns active.
AfterActivityOnChange(s) ==
    IF s.state = "ACTIVE" THEN s
    ELSE [s EXCEPT !.activityAge = 0, !.wasActive = TRUE, !.state = "ACTIVE", !.updateAge = 0]

\* Flushed that overwrites the totals.
FlushedOverwrites(r) ==
    [r EXCEPT !.total = UpTo(MaxTotal, r.pending),
              !.totalErrors = UpTo(MaxTotal, r.pendingErrors),
              !.pending = 0, !.pendingErrors = 0]

\* Unresolved that passes over edges already marked idle.
UnresolvedWhileActive ==
    {e \in DOMAIN edges :
        /\ UnknownEdgeTimeout > 0
        /\ edges[e].state = "ACTIVE" /\ edges[e].activityAge > UnknownEdgeTimeout
        /\ e[2] \notin KnownTargets}

(***************************************************************************)
(* Operations.                                                             *)
(***************************************************************************)
Init ==
    /\ services = [id \in {} |-> {}]
    /\ edges = [e \in {} |-> {}]
    /\ issued = {}

NewService(d) ==
    [desc |-> d, state |-> "REGISTERED", health |-> UnknownHealth, wasActive |-> FALSE,
     heartbeatAge |-> 0, activityAge |-> 0, updateAge |-> 0]

RegisterService(id, d) ==
    /\ id \notin issued
    /\ issued' = issued \cup {id}
    /\ services' = Put(services, id, NewService(d))
    /\ UNCHANGED edges

RegisterUpdates(id) == {NodeUpdate("NODE_ADDED", id, services'[id])}

\* The edges removeService deletes along with the services in gone.
EdgesOf(gone) ==
    {e \in DOMAIN edges :
        \/ e[1] \in gone
        \/ \E id \in gone : e[2] \in ServiceKeys(services[id].desc)}

UnregisterService(id) ==
    /\ id \in DOMAIN services
    /\ services' = Restrict(services, DOMAIN services \ {id})
    /\ edges' = Restrict(edges, DOMAIN edges \ EdgesOf({id}))
    /\ UNCHANGED issued

RemovalUpdates(gone, lost) ==
    {NodeUpdate("NODE_REMOVED", id, services[id]) : id \in gone} \cup
    {EdgeUpdate("EDGE_REMOVED", e, edges[e]) : e \in lost}

UnregisterUpdates(id) == RemovalUpdates({id}, EdgesOf({id}))

DueForUpdate(s) == s.updateAge >= NodeUpdateThrottle

\* recordHeartbeat: a stale service recovers, a changed health is taken over,
\* and either forces a broadcast; otherwise broadcasts are throttled.
HeartbeatForces(s, h) == s.state = "STALE" \/ (h # Absent /\ h # s.health)

AfterHeartbeat(s, h) ==
    [s EXCEPT
        !.heartbeatAge = 0,
        !.state = IF @ # "STALE" THEN @ ELSE IF s.wasActive THEN "IDLE" ELSE "REGISTERED",
        !.health = IF h = Absent THEN @ ELSE h,
        !.updateAge = IF HeartbeatForces(s, h) \/ DueForUpdate(s) THEN 0 ELSE @]

RecordHeartbeat(id, h) ==
    /\ id \in DOMAIN services
    /\ services' = [services EXCEPT ![id] = AfterHeartbeat(@, h)]
    /\ UNCHANGED <<edges, issued>>

HeartbeatUpdates(id, h) ==
    IF HeartbeatForces(services[id], h) \/ DueForUpdate(services[id])
    THEN {NodeUpdate("NODE_UPDATED", id, services'[id])} ELSE {}

\* recordActivity: the reporting service becomes active, its edge to the
\* target is created if needed, and the requests are left pending for a flush.
ActivityForces(s) == s.state # "ACTIVE"

AfterActivity(s) ==
    [s EXCEPT
        !.activityAge = 0, !.wasActive = TRUE, !.state = "ACTIVE",
        !.updateAge = IF ActivityForces(s) \/ DueForUpdate(s) THEN 0 ELSE @]

NewEdge ==
    [state |-> "ACTIVE", activityAge |-> 0, pending |-> 0, pendingErrors |-> 0,
     total |-> 0, totalErrors |-> 0]

Charged(r, size, failed) ==
    [r EXCEPT
        !.state = "ACTIVE", !.activityAge = 0,
        !.pending = UpTo(MaxPending, @ + size),
        !.pendingErrors = IF failed THEN UpTo(MaxPending, @ + size) ELSE @]

EdgeBefore(e) == IF e \in DOMAIN edges THEN edges[e] ELSE NewEdge

RecordActivity(id, target, size, failed) ==
    LET e == <<id, target>>
    IN  /\ id \in DOMAIN services
        /\ Cardinality(DOMAIN edges \cup {e}) <= MaxEdges
        /\ services' = [services EXCEPT ![id] = AfterActivity(@)]
        /\ edges' = Put(edges, e, Charged(EdgeBefore(e), size, failed))
        /\ UNCHANGED issued

ActivityUpdates(id, target) ==
    (IF ActivityForces(services[id]) \/ DueForUpdate(services[id])
     THEN {NodeUpdate("NODE_UPDATED", id, services'[id])} ELSE {}) \cup
    (IF <<id, target>> \in DOMAIN edges
     THEN {} ELSE {EdgeUpdate("EDGE_ADDED", <<id, target>>, NewEdge)})

\* flushActivity: pending requests move into the totals the edge publishes.
Flushed(r) ==
    [r EXCEPT !.total = UpTo(MaxTotal, @ + r.pending),
              !.totalErrors = UpTo(MaxTotal, @ + r.pendingErrors),
              !.pending = 0, !.pendingErrors = 0]

FlushActivity ==
    /\ edges' = [e \in DOMAIN edges |->
                    IF edges[e].pending = 0 THEN edges[e] ELSE Flushed(edges[e])]
    /\ UNCHANGED <<services, issued>>

FlushUpdates ==
    {EdgeUpdate("EDGE_UPDATED", e, edges'[e]) : e \in {x \in DOMAIN edges : edges[x].pending > 0}}

\* sweep: silent services are removed, late ones go stale, idle ones and idle
\* edges are marked, and idle edges to a target nobody provided are removed.
Dead == {id \in DOMAIN services : services[id].heartbeatAge > DeadAge}

SweptState(s) ==
    IF s.heartbeatAge > StaleAge THEN "STALE"
    ELSE IF s.state = "ACTIVE" /\ s.wasActive /\ s.activityAge > IdleTimeout THEN "IDLE"
    ELSE s.state

Swept(s) ==
    [s EXCEPT !.state = SweptState(s),
              !.updateAge = IF SweptState(s) = s.state THEN @ ELSE 0]

Unresolved ==
    {e \in DOMAIN edges :
        /\ UnknownEdgeTimeout > 0
        /\ edges[e].activityAge > UnknownEdgeTimeout
        /\ e[2] \notin KnownTargets}

SweptEdge(r) ==
    IF r.state = "ACTIVE" /\ r.activityAge > IdleTimeout THEN [r EXCEPT !.state = "IDLE"] ELSE r

Lost == EdgesOf(Dead) \cup Unresolved

Sweep ==
    /\ services' = [id \in DOMAIN services \ Dead |-> Swept(services[id])]
    /\ edges' = [e \in DOMAIN edges \ Lost |-> SweptEdge(edges[e])]
    /\ UNCHANGED issued

\* SweepUpdates that keeps the removals to itself (a mutated form).
SweepUpdatesNoRemoval ==
    {NodeUpdate("NODE_UPDATED", id, services'[id]) :
        id \in {i \in DOMAIN services \ Dead : SweptState(services[i]) # services[i].state}}

SweepUpdates ==
    RemovalUpdates(Dead, Lost) \cup
    {NodeUpdate("NODE_UPDATED", id, services'[id]) :
        id \in {i \in DOMAIN services \ Dead : SweptState(services[i]) # services[i].state}} \cup
    {EdgeUpdate("EDGE_UPDATED", e, edges'[e]) :
        e \in {x \in DOMAIN edges \ Lost : SweptEdge(edges[x]) # edges[x]}}

(***************************************************************************)
(* The passing of time.                                                    *)
(***************************************************************************)
Older(age, horizon) == IF age < horizon THEN age + 1 ELSE age

\* The age of an activity that never was stays 0, as its timestamp does.
Aged(s) ==
    [s EXCEPT !.heartbeatAge = Older(@, HeartbeatHorizon),
              !.activityAge = IF s.wasActive THEN Older(@, ActivityHorizon) ELSE @,
              !.updateAge = Older(@, UpdateHorizon)]

Tick ==
    /\ services' = [id \in DOMAIN services |-> Aged(services[id])]
    /\ edges' = [e \in DOMAIN edges |->
                    [edges[e] EXCEPT !.activityAge = Older(@, ActivityHorizon)]]
    /\ UNCHANGED issued

Next ==
    \/ \E id \in ServiceId, d \in Description : RegisterService(id, d)
    \/ \E id \in ServiceId : UnregisterService(id)
    \/ \E id \in ServiceId, h \in Health \cup {Absent} : RecordHeartbeat(id, h)
    \/ \E id \in ServiceId, t \in Target, n \in BatchSize, failed \in Failed :
          RecordActivity(id, t, n, failed)
    \/ FlushActivity
    \/ Sweep
    \/ Tick

Spec == Init /\ [][Next]_storeVars

\* The clock goes on, and the service's two interval timers fire for ever.
Fairness == WF_storeVars(Tick) /\ WF_storeVars(Sweep) /\ WF_storeVars(FlushActivity)

FairSpec == Spec /\ Fairness

(***************************************************************************)
(* Properties.                                                             *)
(***************************************************************************)

\* Every service and edge record is well formed, every service has an id that
\* was handed out, and every edge leaves a service with an id of its own.
TypeOK ==
    /\ issued \subseteq ServiceId
    /\ DOMAIN services \subseteq issued
    /\ \A id \in DOMAIN services : services[id] \in ServiceRecord
    /\ DOMAIN edges \subseteq ServiceId \X Target
    /\ \A e \in DOMAIN edges : edges[e] \in EdgeRecord

\* Removing a service, by request or by the sweep, takes all its edges along,
\* and a report that arrives after the removal draws none: the source of
\* every edge is a registered service.
EdgeSourceRegistered == \A e \in DOMAIN edges : e[1] \in DOMAIN services

Explained(s) ==
    /\ s.state = "REGISTERED" => ~s.wasActive
    /\ s.state \in {"IDLE", "ACTIVE"} => s.wasActive
    /\ s.state = "STALE" => s.heartbeatAge > StaleAge

\* The published state agrees with the history it is derived from, whatever
\* order heartbeats, reports and sweeps came in: a service is REGISTERED only
\* before its first activity and IDLE or ACTIVE only after it, and one that is
\* STALE has missed two heartbeat intervals, unless it spoke since.
StateExplained == \A id \in DOMAIN services : Explained(services[id])

\* A service is at least as recently active as each of its edges: the two
\* clocks that decide when a node and when an edge turn idle never disagree
\* about which is older.
EdgeNotFresherThanSource ==
    \A e \in DOMAIN edges :
        /\ services[e[1]].wasActive
        /\ services[e[1]].activityAge <= edges[e].activityAge

Sound(r) == r.pendingErrors <= r.pending /\ r.totalErrors <= r.total

\* Accounting of errors survives any interleaving of reports and flushes: no
\* edge publishes more errors than requests.
ErrorsWithinRequests ==
    \A e \in DOMAIN edges : Sound(edges[e])

ActivityOn(e) ==
    \E n \in BatchSize, failed \in Failed : RecordActivity(e[1], e[2], n, failed)

Counted(r) == UpTo(MaxTotal, r.total + r.pending)

\* No step forgets a request of an edge that survives it, and none is counted
\* twice: published totals never fall, what leaves the pending count arrives
\* in the total, and only a report adds to the two.
NoRequestForgotten ==
    [][\A e \in DOMAIN edges \cap DOMAIN edges' :
          /\ edges'[e].total >= edges[e].total
          /\ edges'[e].totalErrors >= edges[e].totalErrors
          /\ Counted(edges'[e]) >= Counted(edges[e])
          /\ Counted(edges'[e]) = Counted(edges[e]) \/ ActivityOn(e)
      ]_storeVars

HeartbeatFrom(id) == \E h \in Health \cup {Absent} : RecordHeartbeat(id, h)

\* An edge to a target that no registered service answers to is eventually
\* removed, unless requests keep coming or a provider keeps registering.
UnresolvedEdgeExpires ==
    \A e \in ServiceId \X Target :
        \/ []<>(e \notin DOMAIN edges \/ e[2] \in KnownTargets)
        \/ []<><<ActivityOn(e)>>_storeVars
=============================================================================
