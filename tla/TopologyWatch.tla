--------------------------- MODULE TopologyWatch ---------------------------
(***************************************************************************)
(* From the store to the screen.  The topology service                     *)
(* (apps/topology/src/topology-service.ts) runs one store operation per    *)
(* handler and timer and broadcasts the updates it returns.  Its one watch *)
(* client is the SSE proxy (topology-proxy.ts), which passes each update   *)
(* on to every browser that listens, and fetches a snapshot for each       *)
(* browser that comes.  The browser                                        *)
(* (apps/dashboard/src/hooks/useTopologyStream.ts) folds what it receives, *)
(* in the order in which it comes, into the picture it draws.              *)
(*                                                                         *)
(* A handler is one step: Node.js runs it to the end before the next.      *)
(* Here the proxy has one watch at a time, and a fetch is answered in the  *)
(* end; how it keeps to one watch, and what it does when a fetch fails, is *)
(* in TopologyProxy.                                                       *)
(***************************************************************************)
EXTENDS TopologyStore, SequencesExt

CONSTANTS
    Browser,        \* pages that show the dashboard
    MaxInFlight     \* bound: batches under way to the proxy

ASSUME WatchAssumption == MaxInFlight \in Nat \ {0}

VARIABLES
    watching,   \* whether the proxy's watch call is among the service's watchers
    stream,     \* what was written to that call and has not arrived: one set of
                \* updates for each operation, in the order of the operations
    request,    \* each browser's request for /events
    fetched,    \* the snapshot on its way to it, when it has been answered
    older,      \* how many sets under way are older than that snapshot
    view,       \* the picture each browser draws
    overtaken   \* parts with an update that reached the browser before an
                \* older snapshot did

browserVars == <<request, fetched, older, view, overtaken>>
watchVars == <<watching, stream, request, fetched, older, view, overtaken>>
vars == <<services, edges, issued, watching, stream, request, fetched, older, view, overtaken>>

\* The parts of a topology.
Part == ({"node"} \X ServiceId) \cup ({"edge"} \X (ServiceId \X Target))

(***************************************************************************)
(* What the store publishes, and how a browser applies it.                 *)
(***************************************************************************)
snapshot ==
    [nodes |-> [id \in DOMAIN services |-> NodeView(services[id])],
     edges |-> [e \in DOMAIN edges |-> EdgeView(edges[e])]]

SnapshotUpdate == [type |-> "SNAPSHOT", key |-> "all", value |-> snapshot]

initialSnapshot == [nodes |-> [id \in {} |-> {}], edges |-> [e \in {} |-> {}]]

Without(f, S) == Restrict(f, DOMAIN f \ S)

\* removeNode drops the node and every edge from it or to its name.
EdgesAt(links, u) == {e \in DOMAIN links : e[1] = u.key \/ e[2] = u.value.desc.name}

applyUpdate(v, u) ==
    CASE u.type = "SNAPSHOT" -> u.value
      [] u.type = "NODE_REMOVED" ->
            [nodes |-> Without(v.nodes, {u.key}),
             edges |-> Without(v.edges, EdgesAt(v.edges, u))]
      [] u.type \in {"NODE_ADDED", "NODE_UPDATED"} ->
            [nodes |-> Put(v.nodes, u.key, u.value), edges |-> v.edges]
      [] u.type = "EDGE_REMOVED" ->
            [nodes |-> v.nodes, edges |-> Without(v.edges, {u.key})]
      [] u.type \in {"EDGE_ADDED", "EDGE_UPDATED"} ->
            [nodes |-> v.nodes, edges |-> Put(v.edges, u.key, u.value)]

\* The parts an update decides about.
Touches(u, p) ==
    CASE u.type = "SNAPSHOT" -> TRUE
      [] u.type = "NODE_REMOVED" ->
            \/ p = <<"node", u.key>>
            \/ p[1] = "edge" /\ (p[2][1] = u.key \/ p[2][2] = u.value.desc.name)
      [] u.type \in {"NODE_ADDED", "NODE_UPDATED"} -> p = <<"node", u.key>>
      [] u.type \in {"EDGE_ADDED", "EDGE_UPDATED", "EDGE_REMOVED"} -> p = <<"edge", u.key>>

(***************************************************************************)
(* The service: handlers and timers.                                       *)
(***************************************************************************)
Broadcast(updates) ==
    /\ watching => Len(stream) < MaxInFlight
    /\ stream' = IF watching /\ updates # {} THEN Append(stream, updates) ELSE stream
    /\ UNCHANGED watching
    /\ UNCHANGED browserVars

HandleRegister(id, d) == RegisterService(id, d) /\ Broadcast(RegisterUpdates(id))

HandleUnregister(id) == UnregisterService(id) /\ Broadcast(UnregisterUpdates(id))

HandleHeartbeat(id, h) == RecordHeartbeat(id, h) /\ Broadcast(HeartbeatUpdates(id, h))

HandleActivity(id, target, size, failed) ==
    RecordActivity(id, target, size, failed) /\ Broadcast(ActivityUpdates(id, target))

FlushTimer == FlushActivity /\ Broadcast(FlushUpdates)

SweepTimer == Sweep /\ Broadcast(SweepUpdates)

\* watchTopology: the proxy's call joins the watchers and is sent a snapshot.
WatchTopology ==
    /\ ~watching /\ stream = <<>>
    /\ watching' = TRUE
    /\ stream' = <<{SnapshotUpdate}>>
    /\ UNCHANGED <<services, edges, issued>>
    /\ UNCHANGED browserVars

\* The watch call is cancelled, fails or closes: what was under way may be
\* lost from some point on.
StreamLost ==
    /\ watching \/ stream # <<>>
    /\ watching' = FALSE
    /\ \E n \in 0 .. Len(stream) :
          /\ stream' = SubSeq(stream, 1, n)
          /\ older' = [b \in Browser |-> IF older[b] < n THEN older[b] ELSE n]
    /\ UNCHANGED <<services, edges, issued, request, fetched, view, overtaken>>

(***************************************************************************)
(* The proxy and its browsers.                                             *)
(***************************************************************************)
Touched(u) == {p \in Part : Touches(u, p)}

\* The next update, one of the oldest set, arrives: the proxy writes it to
\* every listener, whether its snapshot is there or not.  (Any order within
\* the set is allowed, of which the code's is one.)
StreamData ==
    /\ stream # <<>>
    /\ \E u \in Head(stream) :
          LET isLast == Head(stream) = {u} IN
          /\ stream' = IF isLast THEN Tail(stream) ELSE [stream EXCEPT ![1] = @ \ {u}]
          /\ older' = [b \in Browser |->
                          IF isLast /\ older[b] > 0 THEN older[b] - 1 ELSE older[b]]
          /\ view' = [b \in Browser |->
                         IF request[b] = "new" THEN view[b] ELSE applyUpdate(view[b], u)]
          /\ overtaken' = [b \in Browser |->
                              IF request[b] = "answered" /\ older[b] = 0
                              THEN overtaken[b] \cup Touched(u)
                              ELSE overtaken[b] \ Touched(u)]
    /\ UNCHANGED <<services, edges, issued, watching, request, fetched>>

\* A browser asks for /events: it is a listener from now on.
HandleSse(b) ==
    /\ request[b] = "new"
    /\ request' = [request EXCEPT ![b] = "fetching"]
    /\ UNCHANGED <<services, edges, issued, watching, stream, fetched, older, view, overtaken>>

\* getTopology: the service takes a snapshot and answers the proxy.
GetTopology(b) ==
    /\ request[b] = "fetching"
    /\ request' = [request EXCEPT ![b] = "answered"]
    /\ fetched' = [fetched EXCEPT ![b] = snapshot]
    /\ older' = [older EXCEPT ![b] = Len(stream)]
    /\ UNCHANGED <<services, edges, issued, watching, stream, view, overtaken>>

\* The answer arrives, and takes the place of whatever the browser shows.
SnapshotFetched(b) ==
    /\ request[b] = "answered"
    /\ request' = [request EXCEPT ![b] = "joined"]
    /\ view' = [view EXCEPT ![b] = fetched[b]]
    /\ fetched' = [fetched EXCEPT ![b] = initialSnapshot]
    /\ older' = [older EXCEPT ![b] = 0]
    /\ UNCHANGED <<services, edges, issued, watching, stream, overtaken>>

\* The browser's connection breaks, or the page is closed or loaded again: it
\* shows nothing, and what the proxy still fetches for it reaches nobody.
BrowserLeaves(b) ==
    /\ request[b] # "new"
    /\ request' = [request EXCEPT ![b] = "new"]
    /\ view' = [view EXCEPT ![b] = initialSnapshot]
    /\ fetched' = [fetched EXCEPT ![b] = initialSnapshot]
    /\ older' = [older EXCEPT ![b] = 0]
    /\ overtaken' = [overtaken EXCEPT ![b] = {}]
    /\ UNCHANGED <<services, edges, issued, watching, stream>>

(***************************************************************************)
(* The passing of time: every copy of a time grows older with it.          *)
(***************************************************************************)
AgedNode(n) ==
    [desc |-> n.desc, state |-> n.state, health |-> n.health, wasActive |-> n.wasActive,
     heartbeatAge |-> Older(n.heartbeatAge, HeartbeatHorizon),
     activityAge |-> IF n.wasActive THEN Older(n.activityAge, ActivityHorizon)
                                    ELSE n.activityAge]

AgedEdge(r) ==
    [state |-> r.state, activityAge |-> Older(r.activityAge, ActivityHorizon),
     total |-> r.total, totalErrors |-> r.totalErrors]

AgedPicture(v) ==
    [nodes |-> [id \in DOMAIN v.nodes |-> AgedNode(v.nodes[id])],
     edges |-> [e \in DOMAIN v.edges |-> AgedEdge(v.edges[e])]]

AgedUpdate(u) ==
    [type |-> u.type, key |-> u.key,
     value |-> CASE u.type = "SNAPSHOT" -> AgedPicture(u.value)
                 [] u.type \in {"NODE_ADDED", "NODE_UPDATED", "NODE_REMOVED"}
                        -> AgedNode(u.value)
                 [] u.type \in {"EDGE_ADDED", "EDGE_UPDATED", "EDGE_REMOVED"}
                        -> AgedEdge(u.value)]

Clock ==
    /\ Tick
    /\ stream' = [n \in DOMAIN stream |-> {AgedUpdate(u) : u \in stream[n]}]
    /\ fetched' = [b \in Browser |-> AgedPicture(fetched[b])]
    /\ view' = [b \in Browser |-> AgedPicture(view[b])]
    /\ UNCHANGED <<watching, request, older, overtaken>>

WatchInit ==
    /\ Init
    /\ watching = FALSE
    /\ stream = <<>>
    /\ request = [b \in Browser |-> "new"]
    /\ fetched = [b \in Browser |-> initialSnapshot]
    /\ older = [b \in Browser |-> 0]
    /\ view = [b \in Browser |-> initialSnapshot]
    /\ overtaken = [b \in Browser |-> {}]

WatchNext ==
    \/ \E id \in ServiceId, d \in Description : HandleRegister(id, d)
    \/ \E id \in ServiceId : HandleUnregister(id)
    \/ \E id \in ServiceId, h \in Health \cup {Absent} : HandleHeartbeat(id, h)
    \/ \E id \in ServiceId, t \in Target, n \in BatchSize, failed \in Failed :
          HandleActivity(id, t, n, failed)
    \/ FlushTimer
    \/ SweepTimer
    \/ Clock
    \/ WatchTopology \/ StreamLost \/ StreamData
    \/ \E b \in Browser :
          HandleSse(b) \/ GetTopology(b) \/ SnapshotFetched(b) \/ BrowserLeaves(b)

WatchSpec == WatchInit /\ [][WatchNext]_vars

\* The clock goes on, the sweep timer fires, a stream delivers or breaks, and
\* the proxy watches again a second after a loss.  The timer is strongly fair
\* because only the bound MaxInFlight, which the code does not have, ever holds
\* it up; nothing depends on the flush timer.
WatchFairness ==
    /\ WF_vars(Clock) /\ SF_vars(SweepTimer)
    /\ WF_vars(StreamData) /\ WF_vars(WatchTopology)

FairWatchSpec == WatchSpec /\ WatchFairness

(***************************************************************************)
(* Properties.                                                             *)
(***************************************************************************)
\* The service was heard from at this age, after its last update and too soon
\* for another one.
HeardSince(age, s) ==
    /\ s.updateAge - age < NodeUpdateThrottle
    /\ age <= s.updateAge \/ s.updateAge = UpdateHorizon

TimeShown(shown, age, s) == shown = age \/ (shown > age /\ HeardSince(age, s))

NodeShown(n, s) ==
    /\ n.desc = s.desc /\ n.state = s.state /\ n.health = s.health
    /\ n.wasActive = s.wasActive
    /\ TimeShown(n.heartbeatAge, s.heartbeatAge, s)
    /\ TimeShown(n.activityAge, s.activityAge, s)

EdgeShown(n, r) ==
    /\ n.total = r.total /\ n.totalErrors = r.totalErrors
    /\ \/ n.state = r.state /\ n.activityAge = r.activityAge
       \/ r.state = "ACTIVE" /\ r.pending > 0 /\ n.activityAge >= r.activityAge

Right(v, p) ==
    IF p[1] = "node"
    THEN /\ p[2] \in DOMAIN v.nodes <=> p[2] \in DOMAIN services
         /\ p[2] \in DOMAIN services => NodeShown(v.nodes[p[2]], services[p[2]])
    ELSE /\ p[2] \in DOMAIN v.edges <=> p[2] \in DOMAIN edges
         /\ p[2] \in DOMAIN edges => EdgeShown(v.edges[p[2]], edges[p[2]])

\* A browser that has received everything draws every node and every edge of
\* the store and no other, each as the store has it, except for three delays
\* the code intends or accepts: a node's times lag behind calls that came
\* within a throttle interval of its last update; an edge's time, and the
\* state of one that turned active again, lag until the flush of the requests
\* that woke it; and a part whose update overtook the browser's snapshot is
\* whatever that snapshot made it.
MirrorsStore ==
    \A b \in Browser :
        watching /\ stream = <<>> /\ request[b] = "joined"
            => \A p \in Part \ overtaken[b] : Right(view[b], p)

\* When the proxy's watch no longer breaks, a service that stops sending
\* heartbeats disappears from every browser that stays, unless the removal of
\* its node overtook the browser's snapshot: store, broadcast, proxy and
\* browser together.
SilentServiceLeavesView ==
    \A id \in ServiceId, b \in Browser :
        (/\ <>[][~HeartbeatFrom(id)]_storeVars
         /\ <>[][~StreamLost]_vars
         /\ <>[](request[b] = "joined"))
            => <>[](id \notin DOMAIN view[b].nodes \/ <<"node", id>> \in overtaken[b])
=============================================================================
