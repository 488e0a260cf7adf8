------------------------ MODULE TopologyWatchProofs ------------------------
(***************************************************************************)
(* Proofs about TopologyWatch: whatever requests, timers, watch calls and  *)
(* browsers come and go, and however many batches are under way, a browser *)
(* that has received everything draws what the store holds, but for the    *)
(* delays MirrorsStore names.                                              *)
(*                                                                         *)
(* The argument follows one part of the topology at a time.  Whoever tells *)
(* of a part last is right about it: the last batch under way that touches *)
(* it, or, when none does, the picture the browser draws or the snapshot   *)
(* on its way to it.  So each operation must either say something right of *)
(* a part, or leave it so that everything that was right stays right.      *)
(***************************************************************************)
EXTENDS TopologyWatch, TopologyStoreProofs, SequenceTheorems

(***************************************************************************)
(* What is right about a part, given the services S and the edges E.       *)
(***************************************************************************)
NodeNews == {"NODE_ADDED", "NODE_UPDATED"}
EdgeNews == {"EDGE_ADDED", "EDGE_UPDATED"}
UpdateType == {"SNAPSHOT", "NODE_REMOVED", "EDGE_REMOVED"} \cup NodeNews \cup EdgeNews

NodeGood(n, s) ==
    /\ NodeShown(n, s)
    /\ n.heartbeatAge \in HeartbeatAge
    /\ n.activityAge \in ActivityAge
    /\ ~s.wasActive => n.activityAge = s.activityAge

EdgeGood(n, r) == EdgeShown(n, r) /\ n.activityAge \in ActivityAge

Exact(v, p, S, E) ==
    /\ p[1] = "node" =>
          /\ p[2] \in DOMAIN v.nodes <=> p[2] \in DOMAIN S
          /\ p[2] \in DOMAIN S => NodeGood(v.nodes[p[2]], S[p[2]])
    /\ p[1] = "edge" =>
          /\ p[2] \in DOMAIN v.edges <=> p[2] \in DOMAIN E
          /\ p[2] \in DOMAIN E => EdgeGood(v.edges[p[2]], E[p[2]])

\* What an update says of a part it touches.
Says(u, p, S, E) ==
    /\ u.type = "SNAPSHOT" => Exact(u.value, p, S, E)
    /\ u.type = "NODE_REMOVED" =>
          (p[1] = "node" => p[2] \notin DOMAIN S) /\ (p[1] = "edge" => p[2] \notin DOMAIN E)
    /\ u.type = "EDGE_REMOVED" => p[2] \notin DOMAIN E
    /\ u.type \in NodeNews => p[2] \in DOMAIN S /\ NodeGood(u.value, S[p[2]])
    /\ u.type \in EdgeNews => p[2] \in DOMAIN E /\ EdgeGood(u.value, E[p[2]])

\* What was right of the part under S and E is right under T and F.
Still(p, S, E, T, F) ==
    /\ p[1] = "node" =>
          /\ p[2] \in DOMAIN S <=> p[2] \in DOMAIN T
          /\ p[2] \in DOMAIN S => \A n : NodeGood(n, S[p[2]]) => NodeGood(n, T[p[2]])
    /\ p[1] = "edge" =>
          /\ p[2] \in DOMAIN E <=> p[2] \in DOMAIN F
          /\ p[2] \in DOMAIN E => \A n : EdgeGood(n, E[p[2]]) => EdgeGood(n, F[p[2]])

\* A batch tells how the store went from S and E to T and F.
Tells(batch, S, E, T, F) ==
    /\ \A u \in batch : u.type \in UpdateType
    /\ \A p \in Part, u \in batch : Touches(u, p) => Says(u, p, T, F)
    /\ \A p \in Part : (\A u \in batch : ~Touches(u, p)) => Still(p, S, E, T, F)

\* A part is a node or an edge, under its key.
LEMMA PartIs ==
    ASSUME NEW p \in Part
    PROVE  \/ p[1] = "node" /\ p = <<"node", p[2]>> /\ p[2] \in ServiceId
           \/ p[1] = "edge" /\ p = <<"edge", p[2]>> /\ p[2] \in ServiceId \X Target
BY DEF Part

\* Which parts an update touches, type by type.
LEMMA TouchesWhen ==
    ASSUME NEW u, NEW p \in Part
    PROVE  /\ u.type = "SNAPSHOT" => Touches(u, p)
           /\ u.type = "NODE_REMOVED" =>
                 (Touches(u, p) <=>
                    \/ p[1] = "node" /\ p[2] = u.key
                    \/ p[1] = "edge" /\ (p[2][1] = u.key \/ p[2][2] = u.value.desc.name))
           /\ u.type \in NodeNews => (Touches(u, p) <=> p[1] = "node" /\ p[2] = u.key)
           /\ u.type = "EDGE_REMOVED" => (Touches(u, p) <=> p[1] = "edge" /\ p[2] = u.key)
           /\ u.type \in EdgeNews => (Touches(u, p) <=> p[1] = "edge" /\ p[2] = u.key)
<1>1. \/ p[1] = "node" /\ p = <<"node", p[2]>>
      \/ p[1] = "edge" /\ p = <<"edge", p[2]>>
  BY PartIs
<1>2. \A k : /\ p = <<"node", k>> <=> p[1] = "node" /\ p[2] = k
             /\ p = <<"edge", k>> <=> p[1] = "edge" /\ p[2] = k
  BY <1>1
<1> QED
  BY <1>2 DEF Touches, NodeNews, EdgeNews

\* What each type of update does to a picture.
LEMMA NodeDropped ==
    ASSUME NEW v, NEW u, NEW w, w = applyUpdate(v, u), u.type = "NODE_REMOVED"
    PROVE  /\ DOMAIN w.nodes = DOMAIN v.nodes \ {u.key}
           /\ \A y \in DOMAIN w.nodes : w.nodes[y] = v.nodes[y]
           /\ DOMAIN w.edges = DOMAIN v.edges \ EdgesAt(v.edges, u)
           /\ \A y \in DOMAIN w.edges : w.edges[y] = v.edges[y]
<1>1. w.nodes = Without(v.nodes, {u.key}) /\ w.edges = Without(v.edges, EdgesAt(v.edges, u))
  BY DEF applyUpdate
<1>2. /\ DOMAIN w.nodes = DOMAIN v.nodes \ {u.key}
      /\ \A y \in DOMAIN v.nodes \ {u.key} : w.nodes[y] = v.nodes[y]
  BY <1>1 DEF Without, Restrict
<1>3. /\ DOMAIN w.edges = DOMAIN v.edges \ EdgesAt(v.edges, u)
      /\ \A y \in DOMAIN v.edges \ EdgesAt(v.edges, u) : w.edges[y] = v.edges[y]
  BY <1>1 DEF Without, Restrict
<1> QED
  BY <1>2, <1>3

LEMMA EdgeDropped ==
    ASSUME NEW v, NEW u, NEW w, w = applyUpdate(v, u), u.type = "EDGE_REMOVED"
    PROVE  /\ w.nodes = v.nodes
           /\ DOMAIN w.edges = DOMAIN v.edges \ {u.key}
           /\ \A y \in DOMAIN w.edges : w.edges[y] = v.edges[y]
<1>1. w.nodes = v.nodes /\ w.edges = Without(v.edges, {u.key})
  BY DEF applyUpdate
<1>2. /\ DOMAIN w.edges = DOMAIN v.edges \ {u.key}
      /\ \A y \in DOMAIN v.edges \ {u.key} : w.edges[y] = v.edges[y]
  BY <1>1 DEF Without, Restrict
<1> QED
  BY <1>1, <1>2

LEMMA NodePut ==
    ASSUME NEW v, NEW u, NEW w, w = applyUpdate(v, u), u.type \in NodeNews
    PROVE  /\ w.edges = v.edges
           /\ DOMAIN w.nodes = DOMAIN v.nodes \cup {u.key}
           /\ w.nodes[u.key] = u.value
           /\ \A y \in DOMAIN v.nodes \ {u.key} : w.nodes[y] = v.nodes[y]
<1>1. w.nodes = Put(v.nodes, u.key, u.value) /\ w.edges = v.edges
  BY DEF applyUpdate, NodeNews
<1>2. /\ DOMAIN w.nodes = DOMAIN v.nodes \cup {u.key}
      /\ w.nodes[u.key] = u.value
      /\ \A y \in DOMAIN v.nodes \ {u.key} : w.nodes[y] = v.nodes[y]
  BY <1>1 DEF Put
<1> QED
  BY <1>1, <1>2

LEMMA EdgePut ==
    ASSUME NEW v, NEW u, NEW w, w = applyUpdate(v, u), u.type \in EdgeNews
    PROVE  /\ w.nodes = v.nodes
           /\ DOMAIN w.edges = DOMAIN v.edges \cup {u.key}
           /\ w.edges[u.key] = u.value
           /\ \A y \in DOMAIN v.edges \ {u.key} : w.edges[y] = v.edges[y]
<1>1. w.edges = Put(v.edges, u.key, u.value) /\ w.nodes = v.nodes
  BY DEF applyUpdate, EdgeNews
<1>2. /\ DOMAIN w.edges = DOMAIN v.edges \cup {u.key}
      /\ w.edges[u.key] = u.value
      /\ \A y \in DOMAIN v.edges \ {u.key} : w.edges[y] = v.edges[y]
  BY <1>1 DEF Put
<1> QED
  BY <1>1, <1>2

\* An update that is right about a part makes the picture right about it.
LEMMA ToldIsExact ==
    ASSUME NEW v, NEW u, NEW p \in Part, NEW S, NEW E,
           u.type \in UpdateType, Touches(u, p), Says(u, p, S, E)
    PROVE  Exact(applyUpdate(v, u), p, S, E)
<1> DEFINE w == applyUpdate(v, u)
<1>0. w = applyUpdate(v, u)
  OBVIOUS
<1> HIDE DEF w
<1> SUFFICES Exact(w, p, S, E)
  BY <1>0
<1>1. CASE u.type = "SNAPSHOT"
  <2>1. w = u.value
    BY <1>0, <1>1 DEF applyUpdate
  <2> QED
    BY <1>1, <2>1 DEF Says
<1>2. CASE u.type = "NODE_REMOVED"
  <2>1. /\ p[1] = "node" => p[2] = u.key /\ p[2] \notin DOMAIN S
        /\ p[1] = "edge" => /\ p[2][1] = u.key \/ p[2][2] = u.value.desc.name
                            /\ p[2] \notin DOMAIN E
    BY <1>2, TouchesWhen DEF Says
  <2>2. /\ p[1] = "node" => p[2] \notin DOMAIN w.nodes
        /\ p[1] = "edge" => p[2] \notin DOMAIN w.edges
    BY <1>0, <1>2, <2>1, NodeDropped DEF EdgesAt
  <2> QED
    BY <2>1, <2>2 DEF Exact
<1>3. CASE u.type = "EDGE_REMOVED"
  <2>1. p[1] = "edge" /\ p[2] = u.key /\ p[2] \notin DOMAIN E
    BY <1>3, TouchesWhen DEF Says
  <2>2. p[2] \notin DOMAIN w.edges
    BY <1>0, <1>3, <2>1, EdgeDropped
  <2> QED
    BY <2>1, <2>2 DEF Exact
<1>4. CASE u.type \in NodeNews
  <2>1. p[1] = "node" /\ p[2] = u.key /\ p[2] \in DOMAIN S /\ NodeGood(u.value, S[p[2]])
    BY <1>4, TouchesWhen DEF Says
  <2>2. p[2] \in DOMAIN w.nodes /\ w.nodes[p[2]] = u.value
    BY <1>0, <1>4, <2>1, NodePut
  <2> QED
    BY <2>1, <2>2 DEF Exact
<1>5. CASE u.type \in EdgeNews
  <2>1. p[1] = "edge" /\ p[2] = u.key /\ p[2] \in DOMAIN E /\ EdgeGood(u.value, E[p[2]])
    BY <1>5, TouchesWhen DEF Says
  <2>2. p[2] \in DOMAIN w.edges /\ w.edges[p[2]] = u.value
    BY <1>0, <1>5, <2>1, EdgePut
  <2> QED
    BY <2>1, <2>2 DEF Exact
<1> QED
  BY <1>1, <1>2, <1>3, <1>4, <1>5 DEF UpdateType

\* One that says nothing of a part leaves it alone.
LEMMA UntouchedStaysExact ==
    ASSUME NEW v, NEW u, NEW p \in Part, NEW S, NEW E,
           u.type \in UpdateType, ~Touches(u, p), Exact(v, p, S, E)
    PROVE  Exact(applyUpdate(v, u), p, S, E)
<1> DEFINE w == applyUpdate(v, u)
<1>0. w = applyUpdate(v, u)
  OBVIOUS
<1> HIDE DEF w
<1>1. /\ p[1] = "node" => /\ p[2] \in DOMAIN w.nodes <=> p[2] \in DOMAIN v.nodes
                          /\ p[2] \in DOMAIN v.nodes => w.nodes[p[2]] = v.nodes[p[2]]
      /\ p[1] = "edge" => /\ p[2] \in DOMAIN w.edges <=> p[2] \in DOMAIN v.edges
                          /\ p[2] \in DOMAIN v.edges => w.edges[p[2]] = v.edges[p[2]]
  <2>1. CASE u.type = "SNAPSHOT"
    BY <2>1, TouchesWhen
  <2>2. CASE u.type = "NODE_REMOVED"
    <3>1. /\ p[1] = "node" => p[2] # u.key
          /\ p[1] = "edge" => p[2] \notin EdgesAt(v.edges, u)
      BY <2>2, TouchesWhen DEF EdgesAt
    <3>2. /\ DOMAIN w.nodes = DOMAIN v.nodes \ {u.key}
          /\ \A y \in DOMAIN w.nodes : w.nodes[y] = v.nodes[y]
          /\ DOMAIN w.edges = DOMAIN v.edges \ EdgesAt(v.edges, u)
          /\ \A y \in DOMAIN w.edges : w.edges[y] = v.edges[y]
      BY <1>0, <2>2, NodeDropped
    <3> QED
      BY <3>1, <3>2
  <2>3. CASE u.type = "EDGE_REMOVED"
    <3>1. p[1] = "edge" => p[2] # u.key
      BY <2>3, TouchesWhen
    <3>2. /\ w.nodes = v.nodes
          /\ DOMAIN w.edges = DOMAIN v.edges \ {u.key}
          /\ \A y \in DOMAIN w.edges : w.edges[y] = v.edges[y]
      BY <1>0, <2>3, EdgeDropped
    <3> QED
      BY <3>1, <3>2
  <2>4. CASE u.type \in NodeNews
    <3>1. p[1] = "node" => p[2] # u.key
      BY <2>4, TouchesWhen
    <3>2. /\ w.edges = v.edges
          /\ DOMAIN w.nodes = DOMAIN v.nodes \cup {u.key}
          /\ \A y \in DOMAIN v.nodes \ {u.key} : w.nodes[y] = v.nodes[y]
      BY <1>0, <2>4, NodePut
    <3> QED
      BY <3>1, <3>2
  <2>5. CASE u.type \in EdgeNews
    <3>1. p[1] = "edge" => p[2] # u.key
      BY <2>5, TouchesWhen
    <3>2. /\ w.nodes = v.nodes
          /\ DOMAIN w.edges = DOMAIN v.edges \cup {u.key}
          /\ \A y \in DOMAIN v.edges \ {u.key} : w.edges[y] = v.edges[y]
      BY <1>0, <2>5, EdgePut
    <3> QED
      BY <3>1, <3>2
  <2> QED
    BY <2>1, <2>2, <2>3, <2>4, <2>5 DEF UpdateType
<1>2. Exact(w, p, S, E)
  BY <1>1 DEF Exact
<1> QED
  BY <1>0, <1>2

\* What stays right of a part stays so in a picture and in an update.
LEMMA StillExact ==
    ASSUME NEW v, NEW p, NEW S, NEW E, NEW T, NEW F,
           Still(p, S, E, T, F), Exact(v, p, S, E)
    PROVE  Exact(v, p, T, F)
BY DEF Still, Exact

LEMMA StillSays ==
    ASSUME NEW u, NEW p \in Part, NEW S, NEW E, NEW T, NEW F,
           u.type \in UpdateType, Touches(u, p), Still(p, S, E, T, F), Says(u, p, S, E)
    PROVE  Says(u, p, T, F)
<1>1. CASE u.type = "SNAPSHOT"
  BY <1>1, StillExact DEF Says, NodeNews, EdgeNews
<1>2. CASE u.type = "NODE_REMOVED"
  BY <1>2 DEF Says, Still, NodeNews, EdgeNews
<1>3. CASE u.type = "EDGE_REMOVED"
  BY <1>3, TouchesWhen DEF Says, Still, NodeNews, EdgeNews
<1>4. CASE u.type \in NodeNews
  BY <1>4, TouchesWhen DEF Says, Still, NodeNews, EdgeNews
<1>5. CASE u.type \in EdgeNews
  BY <1>5, TouchesWhen DEF Says, Still, NodeNews, EdgeNews
<1> QED
  BY <1>1, <1>2, <1>3, <1>4, <1>5 DEF UpdateType

\* A part the operation did not change.
LEMMA SameIsStill ==
    ASSUME NEW p, NEW S, NEW E, NEW T, NEW F,
           p[1] = "node" => /\ p[2] \in DOMAIN S <=> p[2] \in DOMAIN T
                            /\ p[2] \in DOMAIN S => T[p[2]] = S[p[2]],
           p[1] = "edge" => /\ p[2] \in DOMAIN E <=> p[2] \in DOMAIN F
                            /\ p[2] \in DOMAIN E => F[p[2]] = E[p[2]]
    PROVE  Still(p, S, E, T, F)
BY DEF Still

\* What the store publishes of a service or an edge is right about it.
LEMMA ViewsGood ==
    /\ \A s \in ServiceRecord : NodeGood(NodeView(s), s)
    /\ \A r \in EdgeRecord : EdgeGood(EdgeView(r), r)
BY DEF NodeGood, NodeShown, TimeShown, NodeView, ServiceRecord, EdgeGood, EdgeShown, EdgeView,
       EdgeRecord

(***************************************************************************)
(* Each operation of the store tells what it did.                          *)
(***************************************************************************)
\* What the two kinds of update carry.
LEMMA UpdateFields ==
    ASSUME NEW type, NEW key, NEW s
    PROVE  /\ NodeUpdate(type, key, s).type = type
           /\ NodeUpdate(type, key, s).key = key
           /\ NodeUpdate(type, key, s).value = NodeView(s)
           /\ EdgeUpdate(type, key, s).type = type
           /\ EdgeUpdate(type, key, s).key = key
           /\ EdgeUpdate(type, key, s).value = EdgeView(s)
BY DEF NodeUpdate, EdgeUpdate

\* News of a node or an edge says of it what the store publishes.
LEMMA NewsSays ==
    ASSUME NEW u, NEW p \in Part, NEW S, NEW E,
           \/ /\ u.type \in NodeNews /\ u.key \in DOMAIN S
              /\ S[u.key] \in ServiceRecord /\ u.value = NodeView(S[u.key])
           \/ /\ u.type \in EdgeNews /\ u.key \in DOMAIN E
              /\ E[u.key] \in EdgeRecord /\ EdgeGood(u.value, E[u.key]),
           Touches(u, p)
    PROVE  Says(u, p, S, E)
BY TouchesWhen, ViewsGood DEF Says, NodeNews, EdgeNews

\* A removal says that the node is gone, with every edge at it.
LEMMA RemovalSays ==
    ASSUME NEW u, NEW p \in Part, NEW S, NEW E,
           \/ /\ u.type = "NODE_REMOVED" /\ u.key \notin DOMAIN S
              /\ \A e \in DOMAIN E : e[1] # u.key /\ e[2] # u.value.desc.name
           \/ u.type = "EDGE_REMOVED" /\ u.key \notin DOMAIN E,
           Touches(u, p)
    PROVE  Says(u, p, S, E)
<1>1. CASE u.type = "NODE_REMOVED"
  <2>1. \/ p[1] = "node" /\ p[2] = u.key
        \/ p[1] = "edge" /\ (p[2][1] = u.key \/ p[2][2] = u.value.desc.name)
    BY <1>1, TouchesWhen
  <2> QED
    BY <1>1, <2>1 DEF Says, NodeNews, EdgeNews
<1>2. CASE u.type = "EDGE_REMOVED"
  BY <1>2, TouchesWhen DEF Says, NodeNews, EdgeNews
<1> QED
  BY <1>1, <1>2

\* A new service is told of by its NODE_ADDED.
LEMMA RegisterTells ==
    ASSUME TypeOK, TypeOK', NEW id \in ServiceId, NEW d \in Description, RegisterService(id, d)
    PROVE  Tells(RegisterUpdates(id), services, edges, services', edges')
<1> DEFINE told == NodeUpdate("NODE_ADDED", id, services'[id])
           batch == {told}
<1>1. told.type = "NODE_ADDED" /\ told.key = id /\ told.value = NodeView(services'[id])
  BY UpdateFields
<1>2. /\ DOMAIN services' = DOMAIN services \cup {id}
      /\ \A i \in DOMAIN services : services'[i] = services[i]
      /\ edges' = edges
  BY DEF RegisterService, Put, TypeOK
<1>3. services'[id] \in ServiceRecord
  BY <1>2 DEF TypeOK
<1>4. batch = RegisterUpdates(id)
  BY DEF RegisterUpdates
<1> HIDE DEF told
<1>5. ASSUME NEW p \in Part, Touches(told, p)
      PROVE  Says(told, p, services', edges')
  BY <1>1, <1>2, <1>3, <1>5, NewsSays DEF NodeNews
<1>6. ASSUME NEW p \in Part, ~Touches(told, p)
      PROVE  Still(p, services, edges, services', edges')
  <2>1. p[1] = "node" => p[2] # id
    BY <1>1, <1>6, TouchesWhen DEF NodeNews
  <2> QED
    BY <1>2, <2>1, SameIsStill
<1> QED
  BY <1>1, <1>4, <1>5, <1>6 DEF Tells, UpdateType, NodeNews

\* Removals say of every service and edge that they are gone, and nothing else.
LEMMA RemovalTells ==
    ASSUME NEW gone, NEW lost, NEW u \in RemovalUpdates(gone, lost)
    PROVE  \/ /\ u.type = "NODE_REMOVED" /\ u.key \in gone
              /\ u.value.desc = services[u.key].desc
           \/ u.type = "EDGE_REMOVED" /\ u.key \in lost
BY DEF RemovalUpdates, NodeUpdate, EdgeUpdate, NodeView

\* Whatever is gone is touched by its removal.
LEMMA RemovalTouches ==
    ASSUME NEW gone, NEW lost, NEW p \in Part,
           \/ p[1] = "node" /\ p[2] \in gone
           \/ p[1] = "edge" /\ p[2] \in lost
    PROVE  \E u \in RemovalUpdates(gone, lost) : Touches(u, p)
<1>1. CASE p[1] = "node" /\ p[2] \in gone
  <2>1. NodeUpdate("NODE_REMOVED", p[2], services[p[2]]) \in RemovalUpdates(gone, lost)
    BY <1>1 DEF RemovalUpdates
  <2>2. Touches(NodeUpdate("NODE_REMOVED", p[2], services[p[2]]), p)
    BY <1>1, TouchesWhen, UpdateFields
  <2> QED
    BY <2>1, <2>2
<1>2. CASE p[1] = "edge" /\ p[2] \in lost
  <2>1. EdgeUpdate("EDGE_REMOVED", p[2], edges[p[2]]) \in RemovalUpdates(gone, lost)
    BY <1>2 DEF RemovalUpdates
  <2>2. Touches(EdgeUpdate("EDGE_REMOVED", p[2], edges[p[2]]), p)
    BY <1>2, TouchesWhen, UpdateFields
  <2> QED
    BY <2>1, <2>2
<1> QED
  BY <1>1, <1>2

\* A service that unregisters is told of with all the edges it takes along:
\* the browser, which drops the arrows to its name, drops none too many.
LEMMA UnregisterTells ==
    ASSUME TypeOK, NEW id \in ServiceId, UnregisterService(id)
    PROVE  Tells(UnregisterUpdates(id), services, edges, services', edges')
<1> DEFINE lost == EdgesOf({id})
           batch == RemovalUpdates({id}, lost)
<1>1. \A u \in batch :
         \/ u.type = "NODE_REMOVED" /\ u.key = id /\ u.value.desc = services[id].desc
         \/ u.type = "EDGE_REMOVED" /\ u.key \in lost
  BY RemovalTells
<1>2. ASSUME NEW p \in Part,
             \/ p[1] = "node" /\ p[2] = id
             \/ p[1] = "edge" /\ p[2] \in lost
      PROVE  \E u \in batch : Touches(u, p)
  BY <1>2, RemovalTouches
<1>3. /\ DOMAIN services' = DOMAIN services \ {id}
      /\ \A i \in DOMAIN services' : services'[i] = services[i]
      /\ DOMAIN edges' = DOMAIN edges \ lost
      /\ \A e \in DOMAIN edges' : edges'[e] = edges[e]
  BY DEF UnregisterService, Restrict
<1>4. \A e \in DOMAIN edges' : e[1] # id /\ e[2] # services[id].desc.name
  BY <1>3 DEF EdgesOf, ServiceKeys
<1>5. batch = UnregisterUpdates(id)
  BY DEF UnregisterUpdates
<1> HIDE DEF batch, lost
<1>6. ASSUME NEW p \in Part, NEW u \in batch, Touches(u, p)
      PROVE  Says(u, p, services', edges')
  BY <1>1, <1>3, <1>4, <1>6, RemovalSays
<1>7. ASSUME NEW p \in Part, \A u \in batch : ~Touches(u, p)
      PROVE  Still(p, services, edges, services', edges')
  <2>1. /\ p[1] = "node" => p[2] # id
        /\ p[1] = "edge" => p[2] \notin lost
    BY <1>2, <1>7, Zenon
  <2> QED
    BY <1>3, <2>1, SameIsStill
<1> QED
  BY <1>1, <1>5, <1>6, <1>7 DEF Tells, UpdateType

\* A heartbeat that is not told of leaves what was right of the service right:
\* it only moved a time, too soon after the last update for another.
LEMMA QuietHeartbeat ==
    ASSUME NEW s \in ServiceRecord, NEW h \in Health \cup {Absent}, NEW n, NodeGood(n, s),
           ~HeartbeatForces(s, h), ~DueForUpdate(s)
    PROVE  NodeGood(n, AfterHeartbeat(s, h))
<1> DEFINE t == AfterHeartbeat(s, h)
<1>1. /\ t.desc = s.desc /\ t.state = s.state /\ t.health = s.health
      /\ t.wasActive = s.wasActive /\ t.activityAge = s.activityAge
      /\ t.updateAge = s.updateAge /\ t.heartbeatAge = 0
  BY DEF AfterHeartbeat, HeartbeatForces, ServiceRecord
<1>2. /\ s.updateAge \in Nat /\ s.updateAge < NodeUpdateThrottle /\ NodeUpdateThrottle \in Nat
  BY TimingAssumption DEF ServiceRecord, UpdateAge, UpdateHorizon, DueForUpdate
<1>3. n.heartbeatAge \in Nat
  BY DEF NodeGood, HeartbeatAge
<1> HIDE DEF t
<1>4. TimeShown(n.heartbeatAge, t.heartbeatAge, t)
  BY <1>1, <1>2, <1>3 DEF TimeShown, HeardSince
<1>5. TimeShown(n.activityAge, t.activityAge, t)
  BY <1>1 DEF NodeGood, NodeShown, TimeShown, HeardSince
<1>6. NodeGood(n, t)
  BY <1>1, <1>4, <1>5 DEF NodeGood, NodeShown
<1> QED
  BY <1>6 DEF t

\* Likewise a report of a service that is active already.
LEMMA QuietActivity ==
    ASSUME NEW s \in ServiceRecord, Explained(s), NEW n, NodeGood(n, s),
           ~ActivityForces(s), ~DueForUpdate(s)
    PROVE  NodeGood(n, AfterActivity(s))
<1> DEFINE t == AfterActivity(s)
<1>1. /\ t.desc = s.desc /\ t.state = s.state /\ t.health = s.health
      /\ t.wasActive = s.wasActive /\ t.heartbeatAge = s.heartbeatAge
      /\ t.updateAge = s.updateAge /\ t.activityAge = 0 /\ t.wasActive
  BY DEF AfterActivity, ActivityForces, ServiceRecord, Explained
<1>2. /\ s.updateAge \in Nat /\ s.updateAge < NodeUpdateThrottle /\ NodeUpdateThrottle \in Nat
  BY TimingAssumption DEF ServiceRecord, UpdateAge, UpdateHorizon, DueForUpdate
<1>3. n.activityAge \in Nat
  BY DEF NodeGood, ActivityAge
<1> HIDE DEF t
<1>4. TimeShown(n.activityAge, t.activityAge, t)
  BY <1>1, <1>2, <1>3 DEF TimeShown, HeardSince
<1>5. TimeShown(n.heartbeatAge, t.heartbeatAge, t)
  BY <1>1 DEF NodeGood, NodeShown, TimeShown, HeardSince
<1>6. NodeGood(n, t)
  BY <1>1, <1>4, <1>5 DEF NodeGood, NodeShown
<1> QED
  BY <1>6 DEF t

\* A report wakes the edge, which a browser sees at the next flush.
LEMMA ChargedShown ==
    ASSUME NEW r \in EdgeRecord, NEW size \in BatchSize, NEW failed \in Failed,
           NEW n, EdgeGood(n, r)
    PROVE  EdgeGood(n, Charged(r, size, failed))
<1>1. UpTo(MaxPending, r.pending + size) > 0
  BY InputAssumption DEF EdgeRecord, PendingCount, UpTo
<1>2. /\ Charged(r, size, failed).state = "ACTIVE"
      /\ Charged(r, size, failed).activityAge = 0
      /\ Charged(r, size, failed).pending > 0
      /\ Charged(r, size, failed).total = r.total
      /\ Charged(r, size, failed).totalErrors = r.totalErrors
  BY <1>1 DEF Charged, EdgeRecord
<1> QED
  BY <1>2 DEF EdgeGood, EdgeShown, ActivityAge

LEMMA HeartbeatTells ==
    ASSUME TypeOK, TypeOK', NEW id \in ServiceId, NEW h \in Health \cup {Absent},
           RecordHeartbeat(id, h)
    PROVE  Tells(HeartbeatUpdates(id, h), services, edges, services', edges')
<1> DEFINE batch == HeartbeatUpdates(id, h)
           told == NodeUpdate("NODE_UPDATED", id, services'[id])
<1>1. /\ id \in DOMAIN services /\ services[id] \in ServiceRecord
      /\ DOMAIN services' = DOMAIN services
      /\ \A i \in DOMAIN services \ {id} : services'[i] = services[i]
      /\ services'[id] = AfterHeartbeat(services[id], h)
      /\ edges' = edges
  BY DEF RecordHeartbeat, TypeOK
<1>2. services'[id] \in ServiceRecord
  BY <1>1 DEF TypeOK
<1>3. told.type = "NODE_UPDATED" /\ told.key = id /\ told.value = NodeView(services'[id])
  BY UpdateFields
<1>4. \/ batch = {told}
      \/ batch = {} /\ ~HeartbeatForces(services[id], h) /\ ~DueForUpdate(services[id])
  BY DEF HeartbeatUpdates
<1> HIDE DEF told
<1>5. ASSUME NEW p \in Part, Touches(told, p)
      PROVE  Says(told, p, services', edges')
  BY <1>1, <1>2, <1>3, <1>5, NewsSays DEF NodeNews
<1>6. ASSUME NEW p \in Part, p[1] = "node" => p[2] # id
      PROVE  Still(p, services, edges, services', edges')
  BY <1>1, <1>6, SameIsStill
<1>7. CASE batch = {told}
  <2>1. ASSUME NEW p \in Part, ~Touches(told, p)
        PROVE  p[1] = "node" => p[2] # id
    BY <1>3, <2>1, TouchesWhen DEF NodeNews
  <2> HIDE DEF batch
  <2> QED
    BY <1>3, <1>5, <1>6, <1>7, <2>1 DEF Tells, UpdateType, NodeNews, batch
<1>8. CASE batch = {} /\ ~HeartbeatForces(services[id], h) /\ ~DueForUpdate(services[id])
  <2>1. \A n : NodeGood(n, services[id]) => NodeGood(n, services'[id])
    BY <1>1, <1>8, QuietHeartbeat
  <2>2. ASSUME NEW p \in Part, p[1] = "node", p[2] = id
        PROVE  Still(p, services, edges, services', edges')
    BY <1>1, <2>1, <2>2 DEF Still
  <2>3. \A p \in Part : Still(p, services, edges, services', edges')
    BY <1>6, <2>2
  <2> HIDE DEF batch
  <2> QED
    BY <1>8, <2>3 DEF Tells, batch
<1> QED
  BY <1>4, <1>7, <1>8

\* A report wakes its service, which forces a broadcast, and its edge, which
\* is told of only when it is new.
LEMMA ActivityTells ==
    ASSUME TypeOK, TypeOK', StateExplained, NEW id \in ServiceId, NEW t \in Target,
           NEW size \in BatchSize, NEW failed \in Failed, RecordActivity(id, t, size, failed)
    PROVE  Tells(ActivityUpdates(id, t), services, edges, services', edges')
<1> DEFINE e == <<id, t>>
           batch == ActivityUpdates(id, t)
           node == NodeUpdate("NODE_UPDATED", id, services'[id])
           edge == EdgeUpdate("EDGE_ADDED", e, NewEdge)
<1>1. /\ id \in DOMAIN services /\ services[id] \in ServiceRecord
      /\ Explained(services[id])
      /\ DOMAIN services' = DOMAIN services
      /\ \A i \in DOMAIN services \ {id} : services'[i] = services[i]
      /\ services'[id] = AfterActivity(services[id])
  BY DEF RecordActivity, TypeOK, StateExplained
<1>2. /\ DOMAIN edges' = DOMAIN edges \cup {e}
      /\ \A x \in DOMAIN edges \ {e} : edges'[x] = edges[x]
      /\ edges'[e] = Charged(EdgeBefore(e), size, failed)
  BY DEF RecordActivity, Put
<1>3. services'[id] \in ServiceRecord /\ edges'[e] \in EdgeRecord
  BY <1>1, <1>2 DEF TypeOK
<1>4. /\ node.type = "NODE_UPDATED" /\ node.key = id
      /\ node.value = NodeView(services'[id])
      /\ edge.type = "EDGE_ADDED" /\ edge.key = e /\ edge.value = EdgeView(NewEdge)
  BY UpdateFields
<1>5. /\ node \in batch \/ (~ActivityForces(services[id]) /\ ~DueForUpdate(services[id]))
      /\ edge \in batch <=> e \notin DOMAIN edges
      /\ \A u \in batch : u = node \/ (u = edge /\ e \notin DOMAIN edges)
  <2>1. batch = (IF ActivityForces(services[id]) \/ DueForUpdate(services[id])
                 THEN {node} ELSE {}) \cup (IF e \in DOMAIN edges THEN {} ELSE {edge})
    BY DEF ActivityUpdates
  <2>2. node # edge
    BY <1>4
  <2> HIDE DEF batch, node, edge, e
  <2> QED
    BY <2>1, <2>2
<1>6. \A n : EdgeGood(n, EdgeBefore(e)) => EdgeGood(n, edges'[e])
  <2>1. EdgeBefore(e) \in EdgeRecord
    BY EdgeStepType DEF EdgeBefore, TypeOK
  <2> QED
    BY <1>2, <2>1, ChargedShown
<1>7. e \notin DOMAIN edges => EdgeGood(edge.value, edges'[e])
  BY <1>4, <1>6, EdgeStepType, ViewsGood DEF EdgeBefore
<1>8. e \in DOMAIN edges => \A n : EdgeGood(n, edges[e]) => EdgeGood(n, edges'[e])
  BY <1>6 DEF EdgeBefore
<1> HIDE DEF batch, node, edge, e
<1>9. ASSUME NEW p \in Part, NEW u \in batch, Touches(u, p)
      PROVE  Says(u, p, services', edges')
  <2>1. CASE u = node
    BY <1>1, <1>3, <1>4, <1>9, <2>1, NewsSays DEF NodeNews
  <2>2. CASE u = edge /\ e \notin DOMAIN edges
    BY <1>2, <1>3, <1>4, <1>7, <1>9, <2>2, NewsSays DEF EdgeNews
  <2> QED
    BY <1>5, <2>1, <2>2
<1>10. ASSUME NEW p \in Part, \A u \in batch : ~Touches(u, p)
       PROVE  Still(p, services, edges, services', edges')
  <2>1. CASE p[1] = "node"
    <3>1. p[2] = id => node \notin batch
      BY <1>4, <1>10, <2>1, TouchesWhen DEF NodeNews
    <3>2. CASE p[2] = id
      <4>1. \A n : NodeGood(n, services[id]) => NodeGood(n, services'[id])
        BY <1>1, <1>5, <3>1, <3>2, QuietActivity
      <4> QED
        BY <1>1, <2>1, <3>2, <4>1 DEF Still
    <3>3. CASE p[2] # id
      BY <1>1, <2>1, <3>3, SameIsStill
    <3> QED
      BY <3>2, <3>3
  <2>2. CASE p[1] = "edge"
    <3>1. p[2] = e => edge \notin batch
      BY <1>4, <1>10, <2>2, TouchesWhen DEF EdgeNews
    <3>2. CASE p[2] = e
      BY <1>2, <1>5, <1>8, <2>2, <3>1, <3>2 DEF Still
    <3>3. CASE p[2] # e
      BY <1>2, <2>2, <3>3, SameIsStill
    <3> QED
      BY <3>2, <3>3
  <2> QED
    BY <2>1, <2>2, PartIs
<1>11. \A u \in batch : u.type \in UpdateType
  BY <1>4, <1>5 DEF UpdateType, NodeNews, EdgeNews
<1> QED
  BY <1>9, <1>10, <1>11 DEF Tells, batch

\* A flush tells of every edge that had requests pending.
LEMMA FlushTells ==
    ASSUME TypeOK, TypeOK', FlushActivity
    PROVE  Tells(FlushUpdates, services, edges, services', edges')
<1>1. /\ services' = services
      /\ DOMAIN edges' = DOMAIN edges
      /\ \A e \in DOMAIN edges : edges[e].pending = 0 => edges'[e] = edges[e]
      /\ \A e \in DOMAIN edges : edges[e].pending \in Nat /\ edges'[e] \in EdgeRecord
  BY CountsSaturate DEF FlushActivity, TypeOK, EdgeRecord
<1>2. ASSUME NEW u \in FlushUpdates
      PROVE  /\ u.type = "EDGE_UPDATED" /\ u.key \in DOMAIN edges
             /\ u.value = EdgeView(edges'[u.key])
  BY UpdateFields DEF FlushUpdates
<1>3. ASSUME NEW e \in DOMAIN edges, edges[e].pending > 0
      PROVE  \E u \in FlushUpdates : u.type = "EDGE_UPDATED" /\ u.key = e
  <2>1. EdgeUpdate("EDGE_UPDATED", e, edges'[e]) \in FlushUpdates
    BY <1>3 DEF FlushUpdates
  <2> QED
    BY <2>1, UpdateFields
<1>4. ASSUME NEW p \in Part, NEW u \in FlushUpdates, Touches(u, p)
      PROVE  Says(u, p, services', edges')
  BY <1>1, <1>2, <1>4, NewsSays, ViewsGood DEF EdgeNews
<1>5. ASSUME NEW p \in Part, \A u \in FlushUpdates : ~Touches(u, p)
      PROVE  Still(p, services, edges, services', edges')
  <2>1. p[1] = "edge" /\ p[2] \in DOMAIN edges => edges[p[2]].pending = 0
    <3>1. ASSUME p[1] = "edge", p[2] \in DOMAIN edges, edges[p[2]].pending > 0
          PROVE  FALSE
      <4>1. PICK u \in FlushUpdates : u.type = "EDGE_UPDATED" /\ u.key = p[2]
        BY <1>3, <3>1
      <4>2. Touches(u, p)
        BY <3>1, <4>1, TouchesWhen DEF EdgeNews
      <4> QED
        BY <1>5, <4>2
    <3> QED
      BY <1>1, <3>1
  <2> QED
    BY <1>1, <2>1, SameIsStill
<1> QED
  BY <1>2, <1>4, <1>5 DEF Tells, UpdateType, EdgeNews

\* A sweep tells of every service and edge it removes or marks.
LEMMA SweepTells ==
    ASSUME TypeOK, TypeOK', Sweep
    PROVE  Tells(SweepUpdates, services, edges, services', edges')
<1> DEFINE batch == SweepUpdates
           marked == {i \in DOMAIN services \ Dead :
                         SweptState(services[i]) # services[i].state}
           slept == {x \in DOMAIN edges \ Lost : SweptEdge(edges[x]) # edges[x]}
<1>1. /\ DOMAIN services' = DOMAIN services \ Dead
      /\ \A i \in DOMAIN services' : services'[i] = Swept(services[i])
      /\ DOMAIN edges' = DOMAIN edges \ Lost
      /\ \A e \in DOMAIN edges' : edges'[e] = SweptEdge(edges[e])
  BY DEF Sweep
<1>2. batch = RemovalUpdates(Dead, Lost)
              \cup {NodeUpdate("NODE_UPDATED", i, services'[i]) : i \in marked}
              \cup {EdgeUpdate("EDGE_UPDATED", x, edges'[x]) : x \in slept}
  BY DEF SweepUpdates
<1>3. ASSUME NEW u \in batch
      PROVE  \/ /\ u.type = "NODE_REMOVED" /\ u.key \in Dead
                /\ u.value.desc = services[u.key].desc
             \/ u.type = "EDGE_REMOVED" /\ u.key \in Lost
             \/ /\ u.type = "NODE_UPDATED" /\ u.key \in DOMAIN services'
                /\ u.value = NodeView(services'[u.key])
             \/ /\ u.type = "EDGE_UPDATED" /\ u.key \in DOMAIN edges'
                /\ u.value = EdgeView(edges'[u.key])
  <2>1. CASE u \in RemovalUpdates(Dead, Lost)
    BY <2>1, RemovalTells
  <2>2. CASE u \in {NodeUpdate("NODE_UPDATED", i, services'[i]) : i \in marked}
    BY <1>1, <2>2, UpdateFields
  <2>3. CASE u \in {EdgeUpdate("EDGE_UPDATED", x, edges'[x]) : x \in slept}
    BY <1>1, <2>3, UpdateFields
  <2> HIDE DEF batch, marked, slept
  <2> QED
    BY <1>2, <2>1, <2>2, <2>3
<1>4. ASSUME NEW p \in Part,
             \/ p[1] = "node" /\ p[2] \in Dead
             \/ p[1] = "edge" /\ p[2] \in Lost
      PROVE  \E u \in batch : Touches(u, p)
  <2>1. RemovalUpdates(Dead, Lost) \subseteq batch
    BY <1>2
  <2>2. \E u \in RemovalUpdates(Dead, Lost) : Touches(u, p)
    BY <1>4, RemovalTouches
  <2> HIDE DEF batch
  <2> QED
    BY <2>1, <2>2
<1>5. ASSUME NEW p \in Part, p[1] = "node", p[2] \in marked
      PROVE  \E u \in batch : Touches(u, p)
  <2>1. NodeUpdate("NODE_UPDATED", p[2], services'[p[2]]) \in batch
    BY <1>2, <1>5
  <2>2. Touches(NodeUpdate("NODE_UPDATED", p[2], services'[p[2]]), p)
    BY <1>5, TouchesWhen, UpdateFields DEF NodeNews
  <2> HIDE DEF batch
  <2> QED
    BY <2>1, <2>2
<1>6. ASSUME NEW p \in Part, p[1] = "edge", p[2] \in slept
      PROVE  \E u \in batch : Touches(u, p)
  <2>1. EdgeUpdate("EDGE_UPDATED", p[2], edges'[p[2]]) \in batch
    BY <1>2, <1>6
  <2>2. Touches(EdgeUpdate("EDGE_UPDATED", p[2], edges'[p[2]]), p)
    BY <1>6, TouchesWhen, UpdateFields DEF EdgeNews
  <2> HIDE DEF batch
  <2> QED
    BY <2>1, <2>2
<1>7. ASSUME NEW i \in DOMAIN services' \ marked
      PROVE  services'[i] = services[i]
  <2>1. services[i] \in ServiceRecord /\ SweptState(services[i]) = services[i].state
    BY <1>1 DEF TypeOK
  <2>2. Swept(services[i]) = services[i]
    BY <2>1 DEF Swept, ServiceRecord
  <2> QED
    BY <1>1, <2>2
<1>8. \A e \in DOMAIN edges' \ slept : edges'[e] = edges[e]
  BY <1>1
<1>9. ASSUME NEW u \in batch, u.type = "NODE_REMOVED", NEW e \in DOMAIN edges'
      PROVE  e[1] # u.key /\ e[2] # u.value.desc.name
  <2>1. u.key \in Dead /\ u.value.desc = services[u.key].desc
    BY <1>3, <1>9
  <2>2. e \in DOMAIN edges /\ e \notin EdgesOf(Dead)
    BY <1>1 DEF Lost
  <2>3. services[u.key].desc.name \in ServiceKeys(services[u.key].desc)
    BY DEF ServiceKeys
  <2> QED
    BY <2>1, <2>2, <2>3 DEF EdgesOf
<1>10. /\ \A i \in DOMAIN services' : services'[i] \in ServiceRecord
       /\ \A e \in DOMAIN edges' : edges'[e] \in EdgeRecord
  BY DEF TypeOK
<1> HIDE DEF batch, marked, slept
<1>11. ASSUME NEW p \in Part, NEW u \in batch, Touches(u, p)
       PROVE  Says(u, p, services', edges')
  <2>1. CASE u.type = "NODE_REMOVED"
    <3>1. u.key \notin DOMAIN services'
      BY <1>1, <1>3, <2>1
    <3> QED
      BY <1>9, <1>11, <2>1, <3>1, RemovalSays
  <2>2. CASE u.type = "EDGE_REMOVED"
    <3>1. u.key \notin DOMAIN edges'
      BY <1>1, <1>3, <2>2
    <3> QED
      BY <1>11, <2>2, <3>1, RemovalSays
  <2>3. CASE u.type = "NODE_UPDATED"
    <3>1. u.key \in DOMAIN services' /\ u.value = NodeView(services'[u.key])
      BY <1>3, <2>3
    <3> QED
      BY <1>10, <1>11, <2>3, <3>1, NewsSays DEF NodeNews
  <2>4. CASE u.type = "EDGE_UPDATED"
    <3>1. u.key \in DOMAIN edges' /\ u.value = EdgeView(edges'[u.key])
      BY <1>3, <2>4
    <3> QED
      BY <1>10, <1>11, <2>4, <3>1, NewsSays, ViewsGood DEF EdgeNews
  <2> QED
    BY <1>3, <2>1, <2>2, <2>3, <2>4
<1>12. ASSUME NEW p \in Part, \A u \in batch : ~Touches(u, p)
       PROVE  Still(p, services, edges, services', edges')
  <2>1. /\ p[1] = "node" => p[2] \notin Dead /\ p[2] \notin marked
        /\ p[1] = "edge" => p[2] \notin Lost /\ p[2] \notin slept
    BY <1>4, <1>5, <1>6, <1>12
  <2> QED
    BY <1>1, <1>7, <1>8, <2>1, SameIsStill
<1> QED
  BY <1>3, <1>11, <1>12 DEF Tells, UpdateType, NodeNews, EdgeNews, batch

(***************************************************************************)
(* The batches under way.                                                  *)
(***************************************************************************)
IsSequence(s) == s \in Seq(Range(s))

LEMMA SequencesStay ==
    ASSUME NEW s, IsSequence(s)
    PROVE  /\ Len(s) \in Nat
           /\ \A b : /\ IsSequence(Append(s, b))
                     /\ Len(Append(s, b)) = Len(s) + 1
                     /\ \A n \in 1 .. Len(s) : Append(s, b)[n] = s[n]
                     /\ Append(s, b)[Len(s) + 1] = b
           /\ s # <<>> => /\ IsSequence(Tail(s))
                          /\ Len(Tail(s)) = Len(s) - 1
                          /\ Len(s) > 0 /\ Head(s) = s[1]
                          /\ \A n \in 1 .. Len(s) - 1 : Tail(s)[n] = s[n + 1]
           /\ \A k \in 0 .. Len(s) : /\ IsSequence(SubSeq(s, 1, k))
                                     /\ Len(SubSeq(s, 1, k)) = k
                                     /\ \A n \in 1 .. k : SubSeq(s, 1, k)[n] = s[n]
<1>1. Len(s) \in Nat /\ DOMAIN s = 1 .. Len(s)
  BY DEF IsSequence
<1>2. ASSUME NEW b
      PROVE  /\ IsSequence(Append(s, b))
             /\ Len(Append(s, b)) = Len(s) + 1
             /\ \A n \in 1 .. Len(s) : Append(s, b)[n] = s[n]
             /\ Append(s, b)[Len(s) + 1] = b
  <2> DEFINE S == Range(s) \cup {b}
             t == Append(s, b)
  <2>1. s \in Seq(S) /\ b \in S
    BY DEF IsSequence
  <2>2. /\ t \in Seq(S) /\ Len(t) = Len(s) + 1
        /\ \A n \in 1 .. Len(s) : t[n] = s[n]
        /\ t[Len(s) + 1] = b
    <3> HIDE DEF S
    <3> QED
      BY <2>1
  <2> HIDE DEF t, S
  <2>3. t \in Seq(Range(t))
    BY <2>2 DEF Range
  <2> QED
    BY <2>2, <2>3 DEF t, IsSequence
<1>3. ASSUME s # <<>>
      PROVE  /\ IsSequence(Tail(s))
             /\ Len(Tail(s)) = Len(s) - 1
             /\ Len(s) > 0 /\ Head(s) = s[1]
             /\ \A n \in 1 .. Len(s) - 1 : Tail(s)[n] = s[n + 1]
  <2> DEFINE S == Range(s)
             t == Tail(s)
  <2>1. /\ t \in Seq(S) /\ Len(t) = Len(s) - 1
        /\ Len(s) > 0 /\ Head(s) = s[1]
        /\ \A n \in 1 .. Len(s) - 1 : t[n] = s[n + 1]
    <3>1. s \in Seq(S)
      BY DEF IsSequence
    <3> HIDE DEF S
    <3> QED
      BY <1>3, <3>1
  <2> HIDE DEF t, S
  <2>2. t \in Seq(Range(t))
    BY <2>1 DEF Range
  <2> QED
    BY <2>1, <2>2 DEF t, IsSequence
<1>4. ASSUME NEW k \in 0 .. Len(s)
      PROVE  /\ IsSequence(SubSeq(s, 1, k))
             /\ Len(SubSeq(s, 1, k)) = k
             /\ \A n \in 1 .. k : SubSeq(s, 1, k)[n] = s[n]
  <2> DEFINE S == Range(s)
             t == SubSeq(s, 1, k)
  <2>1. t \in Seq(S) /\ Len(t) = k /\ \A n \in 1 .. k : t[n] = s[n]
    <3>1. s \in Seq(S)
      BY DEF IsSequence
    <3> HIDE DEF S
    <3> QED
      BY <1>1, <3>1
  <2> HIDE DEF t, S
  <2>2. t \in Seq(Range(t))
    BY <2>1 DEF Range
  <2> QED
    BY <2>1, <2>2 DEF t, IsSequence
<1> QED
  BY <1>1, <1>2, <1>3, <1>4

\* Nothing under way after the batch n touches the part.
Quiet(s, n, p) == \A m \in (n + 1) .. Len(s) : \A u \in s[m] : ~Touches(u, p)

WatchTyped ==
    /\ IsSequence(stream)
    /\ \A n \in 1 .. Len(stream) : \A u \in stream[n] : u.type \in UpdateType
    /\ request \in [Browser -> {"new", "fetching", "answered", "joined"}]
    /\ older \in [Browser -> Nat]
    /\ DOMAIN view = Browser /\ DOMAIN fetched = Browser /\ DOMAIN overtaken = Browser
    /\ \A b \in Browser :
          /\ older[b] <= Len(stream)
          /\ request[b] \in {"new", "fetching"} \/ older[b] > 0 => overtaken[b] = {}

\* The last batch under way that touches a part is right about it ...
StreamRight ==
    \A p \in Part, n \in 1 .. Len(stream) : \A u \in stream[n] :
        watching /\ Quiet(stream, n, p) /\ Touches(u, p) => Says(u, p, services, edges)

\* ... and when there is none, so is the picture, unless its snapshot was
\* overtaken ...
ViewRight ==
    \A b \in Browser, p \in Part :
        /\ watching /\ request[b] = "joined"
        /\ p \notin overtaken[b]
        /\ Quiet(stream, 0, p)
        => Exact(view[b], p, services, edges)

\* ... or the snapshot, when no update that is newer is under way either.
FetchedRight ==
    \A b \in Browser, p \in Part :
        /\ watching /\ request[b] = "answered"
        /\ p \notin overtaken[b]
        /\ Quiet(stream, older[b], p)
        => Exact(fetched[b], p, services, edges)

WatchInv == WatchTyped /\ StreamRight /\ ViewRight /\ FetchedRight

LEMMA InitWatched == WatchInit => WatchInv
<1> SUFFICES ASSUME WatchInit PROVE WatchInv
  OBVIOUS
<1>1. IsSequence(<<>>) /\ Len(<<>>) = 0
  BY DEF IsSequence
<1> QED
  BY <1>1 DEF WatchInit, WatchInv, WatchTyped, StreamRight, ViewRight, FetchedRight

\* A handler or timer that tells what it did to the store.
LEMMA BroadcastKeeps ==
    ASSUME WatchInv, NEW batch, Tells(batch, services, edges, services', edges'),
           Broadcast(batch)
    PROVE  WatchInv'
<1> USE DEF WatchInv
<1>1. /\ watching' = watching /\ request' = request /\ fetched' = fetched
      /\ older' = older /\ view' = view /\ overtaken' = overtaken
      /\ \/ stream' = stream /\ (watching => batch = {})
         \/ stream' = Append(stream, batch)
  BY DEF Broadcast, browserVars
<1>2. IsSequence(stream) /\ Len(stream) \in Nat
  BY SequencesStay DEF WatchTyped
<1>3. /\ IsSequence(stream') /\ Len(stream') \in Nat /\ Len(stream) <= Len(stream')
      /\ \A n \in 1 .. Len(stream) : stream'[n] = stream[n]
      /\ \A n \in 1 .. Len(stream') : n \notin 1 .. Len(stream) => stream'[n] = batch
      /\ Len(stream') <= Len(stream) + 1
  <2>1. CASE stream' = stream
    BY <1>2, <2>1
  <2>2. CASE stream' = Append(stream, batch)
    BY <1>2, <2>2, SequencesStay
  <2> QED
    BY <1>1, <2>1, <2>2
<1>4. WatchTyped'
  <2>1. \A n \in 1 .. Len(stream') : \A u \in stream'[n] : u.type \in UpdateType
    BY <1>3 DEF Tells, WatchTyped
  <2>2. \A b \in Browser : older[b] <= Len(stream')
    BY <1>2, <1>3 DEF WatchTyped
  <2> QED
    BY <1>1, <1>3, <2>1, <2>2 DEF WatchTyped
\* A part nobody touches any more after batch n is one the operation left.
<1>5. ASSUME NEW p \in Part, NEW n \in 0 .. Len(stream), watching, Quiet(stream', n, p)
      PROVE  Quiet(stream, n, p) /\ Still(p, services, edges, services', edges')
  <2>1. Quiet(stream, n, p)
    BY <1>2, <1>3, <1>5 DEF Quiet
  <2>2. \A u \in batch : ~Touches(u, p)
    <3>1. CASE stream' = stream
      BY <1>1, <1>5, <3>1
    <3>2. CASE stream' = Append(stream, batch)
      <4>1. /\ Len(stream) + 1 \in (n + 1) .. Len(stream')
            /\ stream'[Len(stream) + 1] = batch
        BY <1>2, <3>2, SequencesStay
      <4> QED
        BY <1>5, <4>1 DEF Quiet
    <3> QED
      BY <1>1, <3>1, <3>2
  <2> QED
    BY <2>1, <2>2 DEF Tells
<1>6. StreamRight'
  <2> SUFFICES ASSUME NEW p \in Part, NEW n \in 1 .. Len(stream'), NEW u \in stream'[n],
                      watching', Quiet(stream', n, p), Touches(u, p)
               PROVE  Says(u, p, services', edges')
    BY DEF StreamRight
  <2>1. CASE n \in 1 .. Len(stream)
    <3>1. n \in 0 .. Len(stream)
      BY <1>2, <2>1
    <3>2. Quiet(stream, n, p) /\ Still(p, services, edges, services', edges')
      BY <1>1, <1>5, <3>1
    <3>3. u \in stream[n] /\ u.type \in UpdateType
      BY <1>3, <2>1 DEF WatchTyped
    <3>4. Says(u, p, services, edges)
      BY <1>1, <2>1, <3>2, <3>3 DEF StreamRight
    <3> QED
      BY <3>2, <3>3, <3>4, StillSays
  <2>2. CASE n \notin 1 .. Len(stream)
    <3>1. u \in batch
      BY <1>3, <2>2
    <3> QED
      BY <3>1 DEF Tells
  <2> QED
    BY <2>1, <2>2
<1>7. ViewRight'
  <2> SUFFICES ASSUME NEW b \in Browser, NEW p \in Part, watching, request[b] = "joined",
                      p \notin overtaken[b], Quiet(stream', 0, p)
               PROVE  Exact(view[b], p, services', edges')
    BY <1>1 DEF ViewRight
  <2>1. 0 \in 0 .. Len(stream)
    BY <1>2
  <2>2. Quiet(stream, 0, p) /\ Still(p, services, edges, services', edges')
    BY <1>5, <2>1
  <2>3. Exact(view[b], p, services, edges)
    BY <2>2 DEF ViewRight
  <2> QED
    BY <2>2, <2>3, StillExact
<1>8. FetchedRight'
  <2> SUFFICES ASSUME NEW b \in Browser, NEW p \in Part, watching, request[b] = "answered",
                      p \notin overtaken[b], Quiet(stream', older[b], p)
               PROVE  Exact(fetched[b], p, services', edges')
    BY <1>1 DEF FetchedRight
  <2>1. older[b] \in 0 .. Len(stream)
    BY <1>2 DEF WatchTyped
  <2>2. Quiet(stream, older[b], p) /\ Still(p, services, edges, services', edges')
    BY <1>5, <2>1
  <2>3. Exact(fetched[b], p, services, edges)
    BY <2>2 DEF FetchedRight
  <2> QED
    BY <2>2, <2>3, StillExact
<1> QED
  BY <1>4, <1>6, <1>7, <1>8

\* A snapshot is right about everything.
LEMMA SnapshotExact ==
    ASSUME TypeOK, NEW p \in Part
    PROVE  Exact(snapshot, p, services, edges)
<1>1. /\ DOMAIN snapshot.nodes = DOMAIN services
      /\ \A i \in DOMAIN services : snapshot.nodes[i] = NodeView(services[i])
      /\ DOMAIN snapshot.edges = DOMAIN edges
      /\ \A e \in DOMAIN edges : snapshot.edges[e] = EdgeView(edges[e])
  BY DEF snapshot
<1>2. /\ \A i \in DOMAIN services : services[i] \in ServiceRecord
      /\ \A e \in DOMAIN edges : edges[e] \in EdgeRecord
  BY DEF TypeOK
<1> QED
  BY <1>1, <1>2, ViewsGood DEF Exact

\* The watch starts with a snapshot, which touches everything.
LEMMA WatchKeeps ==
    ASSUME TypeOK, WatchInv, WatchTopology
    PROVE  WatchInv'
<1> USE DEF WatchInv
<1> DEFINE s == <<{SnapshotUpdate}>>
<1>1. /\ stream = <<>> /\ stream' = s
      /\ services' = services /\ edges' = edges
      /\ request' = request /\ fetched' = fetched
      /\ older' = older /\ view' = view /\ overtaken' = overtaken
  BY DEF WatchTopology, browserVars
<1>2. IsSequence(s) /\ Len(s) = 1 /\ s[1] = {SnapshotUpdate}
  BY DEF IsSequence, Range
<1>3. SnapshotUpdate.type = "SNAPSHOT" /\ SnapshotUpdate.value = snapshot
  BY DEF SnapshotUpdate
<1> HIDE DEF s
<1>4. \A b \in Browser : older[b] = 0
  BY <1>1 DEF WatchTyped
<1>5. ASSUME NEW p \in Part
      PROVE  /\ Touches(SnapshotUpdate, p) /\ ~Quiet(s, 0, p)
             /\ Says(SnapshotUpdate, p, services, edges)
  <2>1. Touches(SnapshotUpdate, p)
    BY <1>3, TouchesWhen
  <2>2. ~Quiet(s, 0, p)
    BY <1>2, <2>1 DEF Quiet
  <2>3. Says(SnapshotUpdate, p, services, edges)
    BY <1>3, SnapshotExact DEF Says, NodeNews, EdgeNews
  <2> QED
    BY <2>1, <2>2, <2>3
<1>6. WatchTyped'
  BY <1>1, <1>2, <1>3, <1>4 DEF WatchTyped, UpdateType
<1>7. StreamRight'
  BY <1>1, <1>2, <1>5 DEF StreamRight
<1>8. ViewRight'
  BY <1>1, <1>5 DEF ViewRight
<1>9. FetchedRight'
  BY <1>1, <1>4, <1>5 DEF FetchedRight
<1> QED
  BY <1>6, <1>7, <1>8, <1>9

\* A watch that is lost claims nothing.
LEMMA LossKeeps ==
    ASSUME WatchInv, StreamLost
    PROVE  WatchInv'
<1> USE DEF WatchInv
<1>1. PICK k \in 0 .. Len(stream) :
         /\ stream' = SubSeq(stream, 1, k)
         /\ older' = [b \in Browser |-> IF older[b] < k THEN older[b] ELSE k]
  BY DEF StreamLost
<1>2. ~watching' /\ request' = request /\ fetched' = fetched
      /\ view' = view /\ overtaken' = overtaken
  BY DEF StreamLost
<1>3. /\ IsSequence(stream') /\ Len(stream') = k /\ k \in Nat
      /\ \A n \in 1 .. k : stream'[n] = stream[n] /\ n \in 1 .. Len(stream)
  BY <1>1, SequencesStay DEF WatchTyped
<1>4. \A b \in Browser : /\ older'[b] \in Nat /\ older'[b] <= k
                         /\ older'[b] > 0 => older[b] > 0
  BY <1>1, <1>3 DEF WatchTyped
<1>5. older' \in [Browser -> Nat]
  BY <1>1, <1>4
<1>6. WatchTyped'
  BY <1>2, <1>3, <1>4, <1>5 DEF WatchTyped
<1> QED
  BY <1>2, <1>6 DEF StreamRight, ViewRight, FetchedRight

\* The first batch loses an update, and goes when that was its last.
LEMMA BatchShrinks ==
    ASSUME NEW s, IsSequence(s), s # <<>>, NEW u \in s[1], NEW t,
           \/ Head(s) = {u} /\ t = Tail(s)
           \/ Head(s) # {u} /\ t = [s EXCEPT ![1] = @ \ {u}]
    PROVE  LET gone == IF Head(s) = {u} THEN 1 ELSE 0
           IN  /\ IsSequence(t) /\ Len(s) \in Nat /\ Len(s) > 0 /\ Len(t) = Len(s) - gone
               /\ \A n \in 1 .. Len(t) : \/ t[n] = s[n + gone] /\ n + gone \in 1 .. Len(s)
                                         \/ n = 1 /\ gone = 0 /\ t[1] = s[1] \ {u}
               /\ \A n \in 2 .. Len(s) : t[n - gone] = s[n] /\ n - gone \in 1 .. Len(t)
<1>1. /\ Len(s) \in Nat /\ Len(s) > 0 /\ Head(s) = s[1] /\ DOMAIN s = 1 .. Len(s)
      /\ IsSequence(Tail(s)) /\ Len(Tail(s)) = Len(s) - 1
      /\ \A n \in 1 .. Len(s) - 1 : Tail(s)[n] = s[n + 1]
  BY SequencesStay DEF IsSequence
<1>2. CASE Head(s) = {u} /\ t = Tail(s)
  <2>1. /\ IsSequence(t) /\ Len(t) = Len(s) - 1
        /\ \A n \in 1 .. Len(s) - 1 : t[n] = s[n + 1]
    BY <1>1, <1>2
  <2>2. \A n \in 1 .. Len(t) : t[n] = s[n + 1] /\ n + 1 \in 1 .. Len(s)
    BY <1>1, <2>1
  <2>3. ASSUME NEW n \in 2 .. Len(s)
        PROVE  t[n - 1] = s[n] /\ n - 1 \in 1 .. Len(t)
    <3>1. n - 1 \in 1 .. Len(s) - 1 /\ (n - 1) + 1 = n
      BY <1>1
    <3> QED
      BY <2>1, <3>1
  <2> QED
    BY <1>1, <1>2, <2>1, <2>2, <2>3
<1>3. CASE Head(s) # {u} /\ t = [s EXCEPT ![1] = s[1] \ {u}]
  <2> DEFINE R == Range(s) \cup {s[1] \ {u}}
  <2>1. s \in Seq(R) /\ 1 \in 1 .. Len(s) /\ s[1] \ {u} \in R
    BY <1>1 DEF IsSequence
  <2> HIDE DEF R
  <2>2. /\ t \in Seq(R) /\ Len(t) = Len(s)
        /\ \A n \in 1 .. Len(s) : t[n] = IF n = 1 THEN s[1] \ {u} ELSE s[n]
    BY <1>3, <2>1, ExceptSeq
  <2>3. IsSequence(t)
    BY <2>2 DEF IsSequence, Range
  <2>4. /\ \A n \in 1 .. Len(t) : \/ t[n] = s[n + 0] /\ n + 0 \in 1 .. Len(s)
                                  \/ n = 1 /\ t[1] = s[1] \ {u}
        /\ \A n \in 2 .. Len(s) : t[n - 0] = s[n] /\ n - 0 \in 1 .. Len(t)
    BY <1>1, <2>2
  <2>5. Len(t) = Len(s) - 0
    BY <1>1, <2>2
  <2> QED
    BY <1>1, <1>3, <2>3, <2>4, <2>5
<1> QED
  BY <1>2, <1>3

\* An update arrives, and what it says is right wherever nothing newer of the
\* part is under way.
LEMMA DataKeeps ==
    ASSUME WatchInv, StreamData
    PROVE  WatchInv'
<1> USE DEF WatchInv
<1>1. IsSequence(stream) /\ stream # <<>> /\ Head(stream) = stream[1]
  BY SequencesStay DEF WatchTyped, StreamData
<1>2. PICK u \in Head(stream) :
         LET isLast == Head(stream) = {u} IN
         /\ stream' = IF isLast THEN Tail(stream) ELSE [stream EXCEPT ![1] = @ \ {u}]
         /\ older' = [b \in Browser |->
                         IF isLast /\ older[b] > 0 THEN older[b] - 1 ELSE older[b]]
         /\ view' = [b \in Browser |->
                        IF request[b] = "new" THEN view[b] ELSE applyUpdate(view[b], u)]
         /\ overtaken' = [b \in Browser |->
                             IF request[b] = "answered" /\ older[b] = 0
                             THEN overtaken[b] \cup Touched(u)
                             ELSE overtaken[b] \ Touched(u)]
  BY Zenon DEF StreamData
<1>0. u \in stream[1]
  BY <1>1, <1>2
<1>3. /\ watching' = watching /\ request' = request /\ fetched' = fetched
      /\ services' = services /\ edges' = edges
  BY DEF StreamData
<1> DEFINE gone == IF Head(stream) = {u} THEN 1 ELSE 0
<1>4. /\ IsSequence(stream') /\ Len(stream) \in Nat /\ Len(stream) > 0
      /\ Len(stream') = Len(stream) - gone
      /\ \A n \in 1 .. Len(stream') :
            \/ stream'[n] = stream[n + gone] /\ n + gone \in 1 .. Len(stream)
            \/ n = 1 /\ gone = 0 /\ stream'[1] = stream[1] \ {u}
      /\ \A n \in 2 .. Len(stream) :
            stream'[n - gone] = stream[n] /\ n - gone \in 1 .. Len(stream')
  <2>1. \/ Head(stream) = {u} /\ stream' = Tail(stream)
        \/ Head(stream) # {u} /\ stream' = [stream EXCEPT ![1] = @ \ {u}]
    BY <1>2
  <2> HIDE DEF WatchInv
  <2> QED
    BY <1>0, <1>1, <2>1, BatchShrinks
<1>5. gone \in {0, 1} /\ (gone = 1 <=> Head(stream) = {u})
  OBVIOUS
<1> HIDE DEF gone
<1>6. u.type \in UpdateType
  BY <1>0, <1>4 DEF WatchTyped
\* What is quiet afterwards was quiet before, but for the update itself.
<1>7. ASSUME NEW p \in Part, NEW n \in Nat, n >= 1, Quiet(stream', n - gone, p)
      PROVE  Quiet(stream, n, p)
  <2> SUFFICES ASSUME NEW m \in (n + 1) .. Len(stream), NEW x \in stream[m]
               PROVE  ~Touches(x, p)
    BY DEF Quiet
  <2>1. m \in 2 .. Len(stream)
    BY <1>7
  <2>2. stream'[m - gone] = stream[m] /\ m - gone \in 1 .. Len(stream')
    BY <1>4, <2>1
  <2>3. m - gone \in (n - gone + 1) .. Len(stream')
    BY <1>4, <1>5, <1>7, <2>2
  <2> QED
    BY <1>7, <2>2, <2>3 DEF Quiet
<1>8. ASSUME NEW p \in Part, Quiet(stream', 0, p)
      PROVE  Quiet(stream, 1, p) /\ (~Touches(u, p) => Quiet(stream, 0, p))
  <2>1. Quiet(stream', 1 - gone, p)
    BY <1>4, <1>5, <1>8 DEF Quiet
  <2>2. Quiet(stream, 1, p)
    BY <1>7, <2>1
  <2>3. ASSUME ~Touches(u, p), NEW x \in stream[1]
        PROVE  ~Touches(x, p)
    <3>1. CASE x = u
      BY <2>3, <3>1
    <3>2. CASE x # u
      <4>1. gone = 0
        BY <1>1, <1>5, <2>3, <3>2
      <4>2. 1 \in 1 .. Len(stream')
        BY <1>4, <4>1
      <4>3. x \in stream'[1]
        BY <1>4, <2>3, <3>2, <4>1, <4>2
      <4> QED
        BY <1>8, <4>2, <4>3 DEF Quiet
    <3> QED
      BY <3>1, <3>2
  <2>4. ASSUME ~Touches(u, p), NEW m \in 1 .. Len(stream), NEW x \in stream[m]
        PROVE  ~Touches(x, p)
    <3>1. m = 1 \/ m \in (1 + 1) .. Len(stream)
      BY <1>4
    <3> QED
      BY <2>2, <2>3, <2>4, <3>1 DEF Quiet
  <2> QED
    BY <2>2, <2>4 DEF Quiet
<1>9. WatchTyped'
  <2>1. \A n \in 1 .. Len(stream') : \A x \in stream'[n] : x.type \in UpdateType
    <3> SUFFICES ASSUME NEW n \in 1 .. Len(stream'), NEW x \in stream'[n]
                 PROVE  x.type \in UpdateType
      OBVIOUS
    <3>1. \E m \in 1 .. Len(stream) : x \in stream[m]
      BY <1>4
    <3> QED
      BY <3>1 DEF WatchTyped
  <2>2. ASSUME NEW b \in Browser
        PROVE  /\ older'[b] \in Nat /\ older'[b] <= Len(stream')
               /\ older'[b] > 0 => older[b] > 0
               /\ request[b] \in {"new", "fetching"} \/ older'[b] > 0 => overtaken'[b] = {}
    <3>1. older[b] \in Nat /\ older[b] <= Len(stream)
          /\ (request[b] \in {"new", "fetching"} \/ older[b] > 0 => overtaken[b] = {})
      BY DEF WatchTyped
    <3>2. older'[b] = IF gone = 1 /\ older[b] > 0 THEN older[b] - 1 ELSE older[b]
      BY <1>2, <1>5
    <3>3. overtaken'[b] = IF request[b] = "answered" /\ older[b] = 0
                          THEN overtaken[b] \cup Touched(u) ELSE overtaken[b] \ Touched(u)
      BY <1>2
    <3>4. older'[b] \in Nat /\ older'[b] <= Len(stream') /\ (older'[b] > 0 => older[b] > 0)
      BY <1>4, <1>5, <3>1, <3>2
    <3>5. request[b] \in {"new", "fetching"} \/ older'[b] > 0 => overtaken'[b] = {}
      BY <3>1, <3>3, <3>4
    <3> QED
      BY <3>4, <3>5
  <2>3. older' \in [Browser -> Nat]
    BY <1>2, <2>2
  <2> QED
    BY <1>2, <1>3, <1>4, <2>1, <2>2, <2>3 DEF WatchTyped
<1>10. StreamRight'
  <2> SUFFICES ASSUME NEW p \in Part, NEW n \in 1 .. Len(stream'), NEW x \in stream'[n],
                      watching, Quiet(stream', n, p), Touches(x, p)
               PROVE  Says(x, p, services, edges)
    BY <1>3 DEF StreamRight
  <2>1. n + gone \in 1 .. Len(stream) /\ x \in stream[n + gone]
    BY <1>4, <1>5
  <2>2. n + gone \in Nat /\ n + gone >= 1 /\ (n + gone) - gone = n
    BY <1>5
  <2>3. Quiet(stream, n + gone, p)
    BY <1>7, <2>2
  <2> QED
    BY <2>1, <2>3 DEF StreamRight
<1>11. ViewRight'
  <2> SUFFICES ASSUME NEW b \in Browser, NEW p \in Part, watching, request[b] = "joined",
                      p \notin overtaken'[b], Quiet(stream', 0, p)
               PROVE  Exact(view'[b], p, services, edges)
    BY <1>3 DEF ViewRight
  <2>1. /\ view'[b] = applyUpdate(view[b], u)
        /\ overtaken'[b] = overtaken[b] \ Touched(u)
    BY <1>2
  <2>2. Quiet(stream, 1, p) /\ (~Touches(u, p) => Quiet(stream, 0, p))
    BY <1>8
  <2>3. CASE Touches(u, p)
    <3>1. 1 \in 1 .. Len(stream)
      BY <1>4
    <3>2. Says(u, p, services, edges)
      BY <1>0, <2>2, <2>3, <3>1 DEF StreamRight
    <3> QED
      BY <1>6, <2>1, <2>3, <3>2, ToldIsExact
  <2>4. CASE ~Touches(u, p)
    <3>1. p \notin overtaken[b]
      BY <2>1, <2>4 DEF Touched
    <3>2. Exact(view[b], p, services, edges)
      BY <2>2, <2>4, <3>1 DEF ViewRight
    <3> QED
      BY <1>6, <2>1, <2>4, <3>2, UntouchedStaysExact
  <2> QED
    BY <2>3, <2>4
<1>12. FetchedRight'
  <2> SUFFICES ASSUME NEW b \in Browser, NEW p \in Part, watching, request[b] = "answered",
                      p \notin overtaken'[b], Quiet(stream', older'[b], p)
               PROVE  Exact(fetched[b], p, services, edges)
    BY <1>3 DEF FetchedRight
  <2>1. /\ older'[b] = IF gone = 1 /\ older[b] > 0 THEN older[b] - 1 ELSE older[b]
        /\ overtaken'[b] = IF older[b] = 0 THEN overtaken[b] \cup Touched(u)
                                           ELSE overtaken[b] \ Touched(u)
    BY <1>2, <1>5
  <2>2. older[b] \in Nat /\ (older[b] > 0 => overtaken[b] = {})
    BY DEF WatchTyped
  <2>3. CASE older[b] = 0
    <3>1. ~Touches(u, p) /\ p \notin overtaken[b] /\ older'[b] = 0
      BY <2>1, <2>3 DEF Touched
    <3>2. Quiet(stream, older[b], p)
      BY <1>8, <2>3, <3>1
    <3> QED
      BY <3>1, <3>2 DEF FetchedRight
  <2>4. CASE older[b] > 0
    <3>1. p \notin overtaken[b] /\ older[b] >= 1 /\ older'[b] = older[b] - gone
      BY <1>5, <2>1, <2>2, <2>4
    <3>2. Quiet(stream, older[b], p)
      BY <1>7, <2>2, <3>1
    <3> QED
      BY <3>1, <3>2 DEF FetchedRight
  <2> QED
    BY <2>2, <2>3, <2>4
<1> QED
  BY <1>9, <1>10, <1>11, <1>12

\* A browser that comes, or goes, has no picture to be right or wrong.
LEMMA ComingKeeps ==
    ASSUME WatchInv, NEW b \in Browser, HandleSse(b) \/ BrowserLeaves(b)
    PROVE  WatchInv'
<1> USE DEF WatchInv
<1>1. /\ stream' = stream /\ watching' = watching /\ services' = services /\ edges' = edges
      /\ request' = [request EXCEPT ![b] = request'[b]]
      /\ request'[b] \in {"new", "fetching"}
      /\ DOMAIN fetched' = Browser /\ DOMAIN view' = Browser /\ DOMAIN overtaken' = Browser
      /\ older' \in [Browser -> Nat] /\ older'[b] <= Len(stream)
      /\ overtaken'[b] = {}
  <2>1. Len(stream) \in Nat
    BY SequencesStay DEF WatchTyped
  <2>2. CASE HandleSse(b)
    BY <2>1, <2>2 DEF HandleSse, WatchTyped
  <2>3. CASE BrowserLeaves(b)
    BY <2>1, <2>3 DEF BrowserLeaves, WatchTyped
  <2> QED
    BY <2>2, <2>3
<1>2. \A c \in Browser \ {b} :
         /\ request'[c] = request[c] /\ fetched'[c] = fetched[c] /\ older'[c] = older[c]
         /\ view'[c] = view[c] /\ overtaken'[c] = overtaken[c]
  BY DEF HandleSse, BrowserLeaves, WatchTyped
<1>3. WatchTyped'
  BY <1>1, <1>2 DEF WatchTyped
<1>4. StreamRight'
  BY <1>1 DEF StreamRight
<1>5. ViewRight'
  BY <1>1, <1>2 DEF ViewRight
<1>6. FetchedRight'
  BY <1>1, <1>2 DEF FetchedRight
<1> QED
  BY <1>3, <1>4, <1>5, <1>6

\* The service answers with a snapshot, which is right about everything.
LEMMA AnswerKeeps ==
    ASSUME TypeOK, WatchInv, NEW b \in Browser, GetTopology(b)
    PROVE  WatchInv'
<1> USE DEF WatchInv
<1>1. /\ stream' = stream /\ watching' = watching /\ services' = services /\ edges' = edges
      /\ request[b] = "fetching" /\ request' = [request EXCEPT ![b] = "answered"]
      /\ fetched' = [fetched EXCEPT ![b] = snapshot]
      /\ older' = [older EXCEPT ![b] = Len(stream)]
      /\ view' = view /\ overtaken' = overtaken
      /\ Len(stream) \in Nat
  BY SequencesStay DEF GetTopology, WatchTyped
<1>2. /\ request'[b] = "answered" /\ fetched'[b] = snapshot /\ older'[b] = Len(stream)
      /\ overtaken[b] = {}
      /\ \A c \in Browser \ {b} :
            request'[c] = request[c] /\ fetched'[c] = fetched[c] /\ older'[c] = older[c]
  BY <1>1 DEF WatchTyped
<1>3. WatchTyped'
  BY <1>1, <1>2 DEF WatchTyped
<1>4. StreamRight'
  BY <1>1 DEF StreamRight
<1>5. ViewRight'
  BY <1>1, <1>2 DEF ViewRight
<1>6. FetchedRight'
  <2>1. \A p \in Part : Exact(snapshot, p, services, edges)
    BY SnapshotExact
  <2> QED
    BY <1>1, <1>2, <2>1 DEF FetchedRight
<1> QED
  BY <1>3, <1>4, <1>5, <1>6

\* The snapshot arrives: what was said of it now holds of the picture.
LEMMA ArrivalKeeps ==
    ASSUME WatchInv, NEW b \in Browser, SnapshotFetched(b)
    PROVE  WatchInv'
<1> USE DEF WatchInv
<1>1. /\ stream' = stream /\ watching' = watching /\ services' = services /\ edges' = edges
      /\ request[b] = "answered" /\ request' = [request EXCEPT ![b] = "joined"]
      /\ view' = [view EXCEPT ![b] = fetched[b]]
      /\ fetched' = [fetched EXCEPT ![b] = initialSnapshot]
      /\ older' = [older EXCEPT ![b] = 0]
      /\ overtaken' = overtaken
      /\ Len(stream) \in Nat
  BY SequencesStay DEF SnapshotFetched, WatchTyped
<1>2. /\ request'[b] = "joined" /\ view'[b] = fetched[b] /\ older'[b] = 0
      /\ \A c \in Browser \ {b} :
            /\ request'[c] = request[c] /\ view'[c] = view[c]
            /\ fetched'[c] = fetched[c] /\ older'[c] = older[c]
  BY <1>1 DEF WatchTyped
<1>3. WatchTyped'
  BY <1>1, <1>2 DEF WatchTyped
<1>4. StreamRight'
  BY <1>1 DEF StreamRight
<1>5. ASSUME NEW p \in Part, watching, p \notin overtaken[b], Quiet(stream, 0, p)
      PROVE  Exact(fetched[b], p, services, edges)
  <2>1. older[b] \in Nat
    BY DEF WatchTyped
  <2>2. Quiet(stream, older[b], p)
    BY <1>1, <1>5, <2>1 DEF Quiet
  <2> QED
    BY <1>1, <1>5, <2>2 DEF FetchedRight
<1>6. ViewRight'
  BY <1>1, <1>2, <1>5 DEF ViewRight
<1>7. FetchedRight'
  BY <1>1, <1>2 DEF FetchedRight
<1> QED
  BY <1>3, <1>4, <1>6, <1>7

(***************************************************************************)
(* The clock: every copy of a time ages as the store's own does.           *)
(***************************************************************************)
AgedEdgeRecord(r) == [r EXCEPT !.activityAge = Older(@, ActivityHorizon)]

\* Two ages grow alike: a shown one that is larger was heard since.
LEMMA TimeGrows ==
    ASSUME NEW s \in ServiceRecord, NEW H \in Nat, NEW a \in 0 .. H, NEW x \in 0 .. H,
           TimeShown(x, a, s)
    PROVE  TimeShown(Older(x, H), Older(a, H), Aged(s))
<1>1. /\ s.updateAge \in 0 .. UpdateHorizon /\ UpdateHorizon \in Nat
      /\ UpdateHorizon = NodeUpdateThrottle
      /\ Aged(s).updateAge = Older(s.updateAge, UpdateHorizon)
  BY HorizonsAreNaturals DEF ServiceRecord, UpdateAge, UpdateHorizon, Aged
<1>2. CASE x = a
  BY <1>2 DEF TimeShown
<1>3. CASE x > a /\ HeardSince(a, s)
  <2>1. Older(a, H) = a + 1
    BY <1>3 DEF Older
  <2>2. Older(x, H) = a + 1 \/ Older(x, H) > a + 1
    BY <1>3 DEF Older
  <2>3. HeardSince(a + 1, Aged(s))
    BY <1>1, <1>3 DEF HeardSince, Older
  <2> QED
    BY <2>1, <2>2, <2>3 DEF TimeShown
<1> QED
  BY <1>2, <1>3 DEF TimeShown

LEMMA NodeAges ==
    ASSUME NEW s \in ServiceRecord, NEW n, NodeGood(n, s)
    PROVE  NodeGood(AgedNode(n), Aged(s))
<1> DEFINE t == Aged(s)
           m == AgedNode(n)
<1>1. /\ t.desc = s.desc /\ t.state = s.state /\ t.health = s.health
      /\ t.wasActive = s.wasActive
      /\ t.heartbeatAge = Older(s.heartbeatAge, HeartbeatHorizon)
      /\ t.activityAge = IF s.wasActive THEN Older(s.activityAge, ActivityHorizon)
                                        ELSE s.activityAge
  BY DEF Aged, ServiceRecord
<1>2. /\ m.desc = n.desc /\ m.state = n.state /\ m.health = n.health
      /\ m.wasActive = n.wasActive
      /\ m.heartbeatAge = Older(n.heartbeatAge, HeartbeatHorizon)
      /\ m.activityAge = IF n.wasActive THEN Older(n.activityAge, ActivityHorizon)
                                        ELSE n.activityAge
  BY DEF AgedNode
<1>3. /\ n.heartbeatAge \in 0 .. HeartbeatHorizon /\ n.activityAge \in 0 .. ActivityHorizon
      /\ s.heartbeatAge \in 0 .. HeartbeatHorizon /\ s.activityAge \in 0 .. ActivityHorizon
      /\ HeartbeatHorizon \in Nat /\ ActivityHorizon \in Nat
      /\ NodeShown(n, s) /\ (~s.wasActive => n.activityAge = s.activityAge)
  BY HorizonsAreNaturals DEF NodeGood, HeartbeatAge, ActivityAge, ServiceRecord
<1> HIDE DEF m
<1>4. TimeShown(m.heartbeatAge, t.heartbeatAge, t)
  <2>1. TimeShown(n.heartbeatAge, s.heartbeatAge, s)
    BY <1>3 DEF NodeShown
  <2>2. TimeShown(Older(n.heartbeatAge, HeartbeatHorizon),
                  Older(s.heartbeatAge, HeartbeatHorizon), Aged(s))
    BY <1>3, <2>1, TimeGrows
  <2> QED
    BY <1>1, <1>2, <2>2
<1>5. TimeShown(m.activityAge, t.activityAge, t)
  <2>1. TimeShown(n.activityAge, s.activityAge, s) /\ n.wasActive = s.wasActive
    BY <1>3 DEF NodeShown
  <2>2. CASE s.wasActive
    <3>1. TimeShown(Older(n.activityAge, ActivityHorizon),
                    Older(s.activityAge, ActivityHorizon), Aged(s))
      BY <1>3, <2>1, TimeGrows
    <3> QED
      BY <1>1, <1>2, <2>1, <2>2, <3>1
  <2>3. CASE ~s.wasActive
    BY <1>1, <1>2, <1>3, <2>1, <2>3 DEF TimeShown
  <2> QED
    BY <2>2, <2>3
<1>6. m.heartbeatAge \in HeartbeatAge /\ m.activityAge \in ActivityAge
  BY <1>2, <1>3, AgesGrow DEF HeartbeatAge, ActivityAge
<1>7. ~t.wasActive => m.activityAge = t.activityAge
  BY <1>1, <1>2, <1>3 DEF NodeShown
<1> HIDE DEF t
<1>8. NodeGood(m, t)
  BY <1>1, <1>2, <1>3, <1>4, <1>5, <1>6, <1>7 DEF NodeGood, NodeShown
<1> QED
  BY <1>8 DEF m, t

LEMMA EdgeAges ==
    ASSUME NEW r \in EdgeRecord, NEW n, EdgeGood(n, r)
    PROVE  EdgeGood(AgedEdge(n), AgedEdgeRecord(r))
<1> DEFINE t == AgedEdgeRecord(r)
           m == AgedEdge(n)
<1>1. /\ t.state = r.state /\ t.total = r.total /\ t.totalErrors = r.totalErrors
      /\ t.pending = r.pending /\ t.activityAge = Older(r.activityAge, ActivityHorizon)
  BY DEF AgedEdgeRecord, EdgeRecord
<1>2. /\ m.state = n.state /\ m.total = n.total /\ m.totalErrors = n.totalErrors
      /\ m.activityAge = Older(n.activityAge, ActivityHorizon)
  BY DEF AgedEdge
<1>3. /\ n.activityAge \in 0 .. ActivityHorizon /\ r.activityAge \in 0 .. ActivityHorizon
      /\ ActivityHorizon \in Nat
  BY HorizonsAreNaturals DEF EdgeGood, ActivityAge, EdgeRecord
<1>4. n.activityAge >= r.activityAge => m.activityAge >= t.activityAge
  BY <1>1, <1>2, <1>3 DEF Older
<1>5. m.activityAge \in ActivityAge
  BY <1>2, <1>3, AgesGrow DEF ActivityAge
<1> HIDE DEF m, t
<1>6. EdgeGood(m, t)
  BY <1>1, <1>2, <1>4, <1>5 DEF EdgeGood, EdgeShown
<1> QED
  BY <1>6 DEF m, t

\* What was right of a part is right of it a tick later.
LEMMA PictureAges ==
    ASSUME NEW v, NEW p, NEW S, NEW E, NEW T, NEW F, Exact(v, p, S, E),
           \A i \in DOMAIN S : S[i] \in ServiceRecord,
           \A e \in DOMAIN E : E[e] \in EdgeRecord,
           T = [i \in DOMAIN S |-> Aged(S[i])],
           F = [e \in DOMAIN E |-> AgedEdgeRecord(E[e])]
    PROVE  Exact(AgedPicture(v), p, T, F)
<1>1. /\ DOMAIN AgedPicture(v).nodes = DOMAIN v.nodes
      /\ \A i \in DOMAIN v.nodes : AgedPicture(v).nodes[i] = AgedNode(v.nodes[i])
      /\ DOMAIN AgedPicture(v).edges = DOMAIN v.edges
      /\ \A e \in DOMAIN v.edges : AgedPicture(v).edges[e] = AgedEdge(v.edges[e])
  BY DEF AgedPicture
<1>2. /\ DOMAIN T = DOMAIN S /\ \A i \in DOMAIN S : T[i] = Aged(S[i])
      /\ DOMAIN F = DOMAIN E /\ \A e \in DOMAIN E : F[e] = AgedEdgeRecord(E[e])
  OBVIOUS
<1>3. p[1] = "node" /\ p[2] \in DOMAIN S
         => NodeGood(AgedPicture(v).nodes[p[2]], T[p[2]])
  BY <1>1, <1>2, NodeAges DEF Exact
<1>4. p[1] = "edge" /\ p[2] \in DOMAIN E
         => EdgeGood(AgedPicture(v).edges[p[2]], F[p[2]])
  BY <1>1, <1>2, EdgeAges DEF Exact
<1> QED
  BY <1>1, <1>2, <1>3, <1>4 DEF Exact

\* An update stays an update of the same parts.
LEMMA UpdateAges ==
    ASSUME NEW u, u.type \in UpdateType
    PROVE  /\ AgedUpdate(u).type = u.type
           /\ AgedUpdate(u).key = u.key
           /\ u.type = "SNAPSHOT" => AgedUpdate(u).value = AgedPicture(u.value)
           /\ u.type \in NodeNews => AgedUpdate(u).value = AgedNode(u.value)
           /\ u.type \in EdgeNews => AgedUpdate(u).value = AgedEdge(u.value)
           /\ \A p \in Part : Touches(AgedUpdate(u), p) <=> Touches(u, p)
<1>1. AgedUpdate(u).type = u.type /\ AgedUpdate(u).key = u.key
  BY DEF AgedUpdate
<1>2. /\ u.type = "SNAPSHOT" => AgedUpdate(u).value = AgedPicture(u.value)
      /\ u.type \in NodeNews => AgedUpdate(u).value = AgedNode(u.value)
      /\ u.type \in EdgeNews => AgedUpdate(u).value = AgedEdge(u.value)
      /\ u.type = "NODE_REMOVED" => AgedUpdate(u).value = AgedNode(u.value)
  BY DEF AgedUpdate, NodeNews, EdgeNews
<1>3. u.type = "NODE_REMOVED" => AgedUpdate(u).value.desc = u.value.desc
  BY <1>2 DEF AgedNode
<1>4. ASSUME NEW p \in Part
      PROVE  Touches(AgedUpdate(u), p) <=> Touches(u, p)
  <2> DEFINE x == AgedUpdate(u)
  <2> HIDE DEF x
  <2>1. /\ x.type = u.type /\ x.key = u.key
        /\ u.type = "NODE_REMOVED" => x.value.desc = u.value.desc
    BY <1>1, <1>3 DEF x
  <2>2. Touches(x, p) <=> Touches(u, p)
    BY <2>1, TouchesWhen DEF UpdateType
  <2> QED
    BY <2>2 DEF x
<1> QED
  BY <1>1, <1>2, <1>4

LEMMA SayingAges ==
    ASSUME NEW u, NEW p \in Part, NEW S, NEW E, NEW T, NEW F,
           u.type \in UpdateType, Touches(u, p), Says(u, p, S, E),
           \A i \in DOMAIN S : S[i] \in ServiceRecord,
           \A e \in DOMAIN E : E[e] \in EdgeRecord,
           T = [i \in DOMAIN S |-> Aged(S[i])],
           F = [e \in DOMAIN E |-> AgedEdgeRecord(E[e])]
    PROVE  Says(AgedUpdate(u), p, T, F)
<1> DEFINE x == AgedUpdate(u)
<1> HIDE DEF x
<1>1. /\ x.type = u.type /\ x.key = u.key
      /\ u.type = "SNAPSHOT" => x.value = AgedPicture(u.value)
      /\ u.type \in NodeNews => x.value = AgedNode(u.value)
      /\ u.type \in EdgeNews => x.value = AgedEdge(u.value)
  BY UpdateAges DEF x
<1>2. /\ DOMAIN T = DOMAIN S /\ \A i \in DOMAIN S : T[i] = Aged(S[i])
      /\ DOMAIN F = DOMAIN E /\ \A e \in DOMAIN E : F[e] = AgedEdgeRecord(E[e])
  OBVIOUS
<1>3. u.type = "SNAPSHOT" => Exact(x.value, p, T, F)
  BY <1>1, PictureAges DEF Says
<1>4. u.type \in NodeNews => p[2] \in DOMAIN T /\ NodeGood(x.value, T[p[2]])
  BY <1>1, <1>2, NodeAges DEF Says
<1>5. u.type \in EdgeNews => p[2] \in DOMAIN F /\ EdgeGood(x.value, F[p[2]])
  BY <1>1, <1>2, EdgeAges DEF Says
<1>6. /\ u.type = "NODE_REMOVED" =>
            (p[1] = "node" => p[2] \notin DOMAIN T) /\ (p[1] = "edge" => p[2] \notin DOMAIN F)
      /\ u.type = "EDGE_REMOVED" => p[2] \notin DOMAIN F
  BY <1>2 DEF Says
<1>7. Says(x, p, T, F)
  BY <1>1, <1>3, <1>4, <1>5, <1>6 DEF Says
<1> QED
  BY <1>7 DEF x

LEMMA ClockKeeps ==
    ASSUME TypeOK, WatchInv, Clock
    PROVE  WatchInv'
<1> USE DEF WatchInv
<1> DEFINE aged(n) == {AgedUpdate(u) : u \in stream[n]}
<1>1. /\ watching' = watching /\ request' = request /\ older' = older
      /\ overtaken' = overtaken
      /\ stream' = [n \in DOMAIN stream |-> aged(n)]
      /\ fetched' = [b \in Browser |-> AgedPicture(fetched[b])]
      /\ view' = [b \in Browser |-> AgedPicture(view[b])]
  BY DEF Clock
<1>2. /\ services' = [i \in DOMAIN services |-> Aged(services[i])]
      /\ edges' = [e \in DOMAIN edges |-> AgedEdgeRecord(edges[e])]
  BY DEF Clock, Tick, AgedEdgeRecord
<1>3. /\ \A i \in DOMAIN services : services[i] \in ServiceRecord
      /\ \A e \in DOMAIN edges : edges[e] \in EdgeRecord
  BY DEF TypeOK
<1>4. /\ DOMAIN stream = 1 .. Len(stream) /\ Len(stream) \in Nat
      /\ DOMAIN stream' = 1 .. Len(stream)
      /\ \A n \in 1 .. Len(stream) : stream'[n] = {AgedUpdate(u) : u \in stream[n]}
  BY <1>1, SequencesStay DEF WatchTyped, IsSequence
<1>5. IsSequence(stream') /\ Len(stream') = Len(stream)
  <2> DEFINE R == Range(stream')
  <2>1. \A n \in 1 .. Len(stream) : stream'[n] \in R
    BY <1>4 DEF Range
  <2>2. stream' = [n \in 1 .. Len(stream) |-> stream'[n]]
    <3> HIDE DEF aged
    <3> QED
      BY <1>1, <1>4
  <2> HIDE DEF R
  <2>3. stream' \in [1 .. Len(stream) -> R]
    BY <2>1, <2>2
  <2>4. stream' \in Seq(R)
    BY <1>4, <2>3
  <2>5. Len(stream') = Len(stream)
    BY <1>4, <2>4, LenProperties
  <2> QED
    BY <2>4, <2>5 DEF IsSequence, R
<1> HIDE DEF aged
\* Each update is aged in place, and decides about the same parts.
<1>6. ASSUME NEW n \in 1 .. Len(stream), NEW x \in stream'[n]
      PROVE  \E u \in stream[n] : x = AgedUpdate(u) /\ u.type \in UpdateType
  BY <1>4, <1>6 DEF WatchTyped
<1>7. ASSUME NEW n \in Nat, NEW p \in Part, Quiet(stream', n, p)
      PROVE  Quiet(stream, n, p)
  <2> SUFFICES ASSUME NEW m \in (n + 1) .. Len(stream), NEW u \in stream[m]
               PROVE  ~Touches(u, p)
    BY DEF Quiet
  <2>1. m \in 1 .. Len(stream) /\ m \in (n + 1) .. Len(stream')
    BY <1>4, <1>5
  <2>2. AgedUpdate(u) \in stream'[m] /\ u.type \in UpdateType
    BY <1>4, <2>1 DEF WatchTyped
  <2>3. ~Touches(AgedUpdate(u), p)
    BY <1>7, <2>1, <2>2 DEF Quiet
  <2> QED
    BY <2>2, <2>3, UpdateAges
<1>8. WatchTyped'
  <2>1. \A n \in 1 .. Len(stream') : \A x \in stream'[n] : x.type \in UpdateType
    <3> SUFFICES ASSUME NEW n \in 1 .. Len(stream), NEW x \in stream'[n]
                 PROVE  x.type \in UpdateType
      BY <1>5
    <3>1. PICK u \in stream[n] : x = AgedUpdate(u) /\ u.type \in UpdateType
      BY <1>6
    <3> QED
      BY <3>1, UpdateAges
  <2> QED
    BY <1>1, <1>5, <2>1 DEF WatchTyped
<1>9. StreamRight'
  <2> SUFFICES ASSUME NEW p \in Part, NEW n \in 1 .. Len(stream), NEW x \in stream'[n],
                      watching, Quiet(stream', n, p), Touches(x, p)
               PROVE  Says(x, p, services', edges')
    BY <1>1, <1>5 DEF StreamRight
  <2>1. PICK u \in stream[n] : x = AgedUpdate(u) /\ u.type \in UpdateType
    BY <1>6
  <2>2. Touches(u, p) /\ Quiet(stream, n, p)
    BY <1>7, <2>1, UpdateAges
  <2>3. Says(u, p, services, edges)
    BY <2>2 DEF StreamRight
  <2> QED
    BY <1>2, <1>3, <2>1, <2>2, <2>3, SayingAges
<1>10. ViewRight'
  <2> SUFFICES ASSUME NEW b \in Browser, NEW p \in Part, watching, request[b] = "joined",
                      p \notin overtaken[b], Quiet(stream', 0, p)
               PROVE  Exact(view'[b], p, services', edges')
    BY <1>1 DEF ViewRight
  <2>1. Exact(view[b], p, services, edges)
    BY <1>7 DEF ViewRight
  <2>2. Exact(AgedPicture(view[b]), p, services', edges')
    BY <1>2, <1>3, <2>1, PictureAges
  <2> QED
    BY <1>1, <2>2
<1>11. FetchedRight'
  <2> SUFFICES ASSUME NEW b \in Browser, NEW p \in Part, watching, request[b] = "answered",
                      p \notin overtaken[b], Quiet(stream', older[b], p)
               PROVE  Exact(fetched'[b], p, services', edges')
    BY <1>1 DEF FetchedRight
  <2>1. Exact(fetched[b], p, services, edges)
    BY <1>7 DEF FetchedRight, WatchTyped
  <2>2. Exact(AgedPicture(fetched[b]), p, services', edges')
    BY <1>2, <1>3, <2>1, PictureAges
  <2> QED
    BY <1>1, <2>2
<1> QED
  BY <1>8, <1>9, <1>10, <1>11

(***************************************************************************)
(* Theorems.                                                               *)
(***************************************************************************)
StoreInv == TypeOK /\ StateExplained

LEMMA StepWatched ==
    StoreInv /\ StoreInv' /\ WatchInv /\ [WatchNext]_vars => WatchInv'
<1> SUFFICES ASSUME StoreInv, StoreInv', WatchInv, [WatchNext]_vars
             PROVE  WatchInv'
  OBVIOUS
<1> USE DEF StoreInv
<1>1. ASSUME NEW id \in ServiceId, NEW d \in Description, HandleRegister(id, d)
      PROVE  WatchInv'
  BY <1>1, RegisterTells, BroadcastKeeps DEF HandleRegister
<1>2. ASSUME NEW id \in ServiceId, HandleUnregister(id)
      PROVE  WatchInv'
  BY <1>2, UnregisterTells, BroadcastKeeps DEF HandleUnregister
<1>3. ASSUME NEW id \in ServiceId, NEW h \in Health \cup {Absent}, HandleHeartbeat(id, h)
      PROVE  WatchInv'
  BY <1>3, HeartbeatTells, BroadcastKeeps DEF HandleHeartbeat
<1>4. ASSUME NEW id \in ServiceId, NEW t \in Target, NEW n \in BatchSize,
             NEW failed \in Failed, HandleActivity(id, t, n, failed)
      PROVE  WatchInv'
  BY <1>4, ActivityTells, BroadcastKeeps DEF HandleActivity
<1>5. CASE FlushTimer
  BY <1>5, FlushTells, BroadcastKeeps DEF FlushTimer
<1>6. CASE SweepTimer
  BY <1>6, SweepTells, BroadcastKeeps DEF SweepTimer
<1>7. CASE Clock
  BY <1>7, ClockKeeps
<1>8. CASE WatchTopology \/ StreamLost \/ StreamData
  BY <1>8, WatchKeeps, LossKeeps, DataKeeps
<1>9. ASSUME NEW b \in Browser,
             HandleSse(b) \/ GetTopology(b) \/ SnapshotFetched(b) \/ BrowserLeaves(b)
      PROVE  WatchInv'
  BY <1>9, ComingKeeps, AnswerKeeps, ArrivalKeeps
<1>10. CASE UNCHANGED vars
  <2>1. UNCHANGED <<services, edges, watching, stream, request, fetched, older, view, overtaken>>
    BY <1>10 DEF vars
  <2> QED
    BY <2>1 DEF WatchInv, WatchTyped, StreamRight, ViewRight, FetchedRight
<1> QED
  BY <1>1, <1>2, <1>3, <1>4, <1>5, <1>6, <1>7, <1>8, <1>9, <1>10 DEF WatchNext

\* Behind the handlers and timers of the service, and however its watcher and
\* the browsers behind it come and go, the store runs as TopologyStore
\* specifies it: what is proved of the store holds in the service.
THEOREM ServiceRunsStore == WatchSpec => Spec
<1>1. WatchInit => Init
  BY DEF WatchInit
<1>2. [WatchNext]_vars => [Next]_storeVars
  <2> SUFFICES ASSUME [WatchNext]_vars
               PROVE  [Next]_storeVars
    OBVIOUS
  <2>1. CASE UNCHANGED vars
    BY <2>1 DEF vars, storeVars
  <2>2. CASE WatchTopology \/ StreamLost \/ StreamData
    BY <2>2 DEF WatchTopology, StreamLost, StreamData, storeVars
  <2>3. ASSUME NEW b \in Browser,
               HandleSse(b) \/ GetTopology(b) \/ SnapshotFetched(b) \/ BrowserLeaves(b)
        PROVE  UNCHANGED storeVars
    BY <2>3 DEF HandleSse, GetTopology, SnapshotFetched, BrowserLeaves, storeVars
  <2>4. CASE WatchNext
    BY <2>2, <2>3, <2>4 DEF WatchNext, Next, HandleRegister, HandleUnregister,
       HandleHeartbeat, HandleActivity, FlushTimer, SweepTimer, Clock
  <2> QED
    BY <2>1, <2>4
<1> QED
  BY <1>1, <1>2, PTL DEF WatchSpec, Spec

LEMMA Watched == WatchSpec => []WatchInv
<1>1. TypeOK /\ StateExplained => StoreInv
  BY DEF StoreInv
<1>2. WatchSpec => []StoreInv
  BY ServiceRunsStore, StoreTyped, StatesExplained, <1>1, PTL
<1> QED
  BY <1>2, InitWatched, StepWatched, PTL DEF WatchSpec

\* Whatever operations are broadcast, however many are under way, and whoever
\* comes, leaves or loses its stream: a browser that has received everything
\* draws the nodes and the edges the store has, but for the delays and the
\* overtaken snapshots that MirrorsStore names.
THEOREM UpdatesMirrorStore == WatchSpec => []MirrorsStore
<1>1. WatchInv => MirrorsStore
  <2> SUFFICES ASSUME WatchInv, NEW b \in Browser, watching, stream = <<>>,
                      request[b] = "joined", NEW p \in Part \ overtaken[b]
               PROVE  Right(view[b], p)
    BY DEF MirrorsStore
  <2>1. Quiet(stream, 0, p)
    BY DEF Quiet
  <2>2. Exact(view[b], p, services, edges)
    BY <2>1 DEF WatchInv, ViewRight
  <2> QED
    BY <2>2, PartIs DEF Exact, Right, NodeGood, EdgeGood
<1> QED
  BY Watched, <1>1, PTL
=============================================================================
