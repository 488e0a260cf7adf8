--------------------------- MODULE TopologyProxy ---------------------------
(***************************************************************************)
(* The SSE proxy between the topology service and the browsers             *)
(* (apps/topology/src/topology-proxy.ts): one gRPC watch stream, whose     *)
(* updates go to every browser that listens, and a snapshot fetched for    *)
(* each browser that comes.                                                *)
(*                                                                         *)
(* The topology is abstract: each part of it (a node, an edge) has a       *)
(* version, an update carries the version of one part and a snapshot those *)
(* of all (TopologyWatch has the details).  What is written to a browser   *)
(* counts as shown.  Node.js handles the 'error' and 'end' of a stream and *)
(* the failure of a call, which come together, before any timer.           *)
(***************************************************************************)
EXTENDS Integers, Sequences, FiniteSets, SequencesExt

CONSTANTS
    Part,           \* of the topology
    Browser,        \* requests for /events: a browser that reloads is a new one
    MaxVersion,     \* bound: changes of a part
    MaxInFlight,    \* bound: updates under way in the watch stream
    MaxLosses,      \* bound: times the connection to the service is lost
    Nothing

ASSUME ProxyAssumption ==
    /\ \A p \in Part : Part # {p}
    /\ Nothing \notin Nat
    /\ MaxVersion \in Nat /\ MaxInFlight \in Nat \ {0} /\ MaxLosses \in Nat

VARIABLES
    topology,       \* the service's version of every part
    watching,       \* watch calls the service serves, with what is under way
    watchStream,    \* the proxy's current call, or Nothing
    opened,         \* the number of watch calls the proxy has made
    events,         \* 'error' and 'end' events to be handled
    timers,         \* restarts that wait for their second
    lastSnapshot,
    listeners,
    request,        \* the state of each request for /events
    fetched,        \* the snapshot on its way to the request
    shown,          \* what each browser shows
    overtaken,      \* parts whose update reached a browser before its snapshot
    isStopping,
    losses

vars == <<topology, watching, watchStream, opened, events, timers, lastSnapshot, listeners,
          request, fetched, shown, overtaken, isStopping, losses>>
watchVars == <<watching, watchStream, opened, events, timers>>
browserVars == <<listeners, request, fetched, shown, overtaken>>

Blank == [p \in Part |-> 0]
Call == 1 .. 1 + 2 * MaxLosses

\* A snapshot is an update of every part.
Updated(picture, update) == [p \in Part |-> IF p \in DOMAIN update THEN update[p] ELSE picture[p]]
IsSnapshot(update) == DOMAIN update = Part

(***************************************************************************)
(* The watch stream.                                                       *)
(***************************************************************************)
\* A mutated StartWatch: it does not look whether a stream is there.
StartWatchAlways ==
    IF isStopping
    THEN UNCHANGED <<watching, watchStream, opened>>
    ELSE /\ opened' = opened + 1
         /\ watchStream' = opened'
         /\ watching' = [c \in DOMAIN watching \cup {opened'} |->
                            IF c = opened' THEN <<topology>> ELSE watching[c]]

\* startWatchStream; the service answers a watch with a snapshot.
StartWatch ==
    IF watchStream # Nothing \/ isStopping
    THEN UNCHANGED <<watching, watchStream, opened>>
    ELSE /\ opened' = opened + 1
         /\ watchStream' = opened'
         /\ watching' = [c \in DOMAIN watching \cup {opened'} |->
                            IF c = opened' THEN <<topology>> ELSE watching[c]]

\* A mutated Restarts: the old stream is still taken for the current one.
RestartsKeepStream == timers' = timers + 1 /\ UNCHANGED watchStream

Restarts == timers' = timers + 1 /\ watchStream' = Nothing

\* handleStreamError and handleStreamEnd: each clears watchStream, whatever it
\* holds by now, and starts a watch one second later.
StreamEvent(c, e) ==
    /\ <<c, e>> \in events
    /\ events' = events \ {<<c, e>>}
    /\ IF isStopping THEN UNCHANGED <<timers, watchStream>> ELSE Restarts
    /\ UNCHANGED <<topology, watching, opened, lastSnapshot, isStopping, losses>>
    /\ UNCHANGED browserVars

Settled == events = {} /\ \A b \in Browser : request[b] # "failed"

SecondPasses ==
    /\ timers > 0 /\ Settled
    /\ timers' = timers - 1
    /\ StartWatch
    /\ UNCHANGED <<topology, events, lastSnapshot, isStopping, losses>>
    /\ UNCHANGED browserVars

\* A mutated Broadcast: a request whose snapshot is not there is left out.
BroadcastToJoined(update) ==
    /\ shown' = [b \in Browser |-> IF b \in listeners /\ request[b] = "joined"
                                   THEN Updated(shown[b], update) ELSE shown[b]]
    /\ overtaken' = [b \in Browser |-> IF b \in listeners THEN overtaken[b] \ DOMAIN update
                                       ELSE overtaken[b]]
    /\ lastSnapshot' = IF IsSnapshot(update) THEN update ELSE lastSnapshot

\* broadcast: every listener is written to, whether its snapshot is there yet.
Broadcast(update) ==
    /\ shown' = [b \in Browser |-> IF b \in listeners THEN Updated(shown[b], update)
                                   ELSE shown[b]]
    /\ overtaken' = [b \in Browser |-> IF b \in listeners THEN overtaken[b] \ DOMAIN update
                                       ELSE overtaken[b]]
    /\ lastSnapshot' = IF IsSnapshot(update) THEN update ELSE lastSnapshot

StreamData(c) ==
    /\ c \in DOMAIN watching /\ watching[c] # <<>>
    /\ Broadcast(Head(watching[c]))
    /\ watching' = [watching EXCEPT ![c] = Tail(@)]
    /\ UNCHANGED <<topology, watchStream, opened, events, timers, listeners, request, fetched,
                   isStopping, losses>>

(***************************************************************************)
(* Requests for /events.                                                   *)
(***************************************************************************)
HandleSse(b) ==
    /\ request[b] = "new" /\ ~isStopping
    /\ request' = [request EXCEPT ![b] = "fetching"]
    /\ listeners' = listeners \cup {b}
    /\ UNCHANGED <<fetched, shown, overtaken, topology, lastSnapshot, isStopping, losses>>
    /\ UNCHANGED watchVars

\* The service takes the snapshot; its answer arrives some time later.
GetTopology(b) ==
    /\ request[b] = "fetching" /\ fetched[b] = Nothing
    /\ fetched' = [fetched EXCEPT ![b] = topology]
    /\ UNCHANGED <<listeners, request, shown, overtaken, topology, lastSnapshot, isStopping,
                   losses>>
    /\ UNCHANGED watchVars

\* The snapshot is written, and from now on a close is noticed.  It may be
\* older than updates that were broadcast while it was on its way.
SnapshotFetched(b) ==
    /\ request[b] \in {"fetching", "left"} /\ fetched[b] # Nothing
    /\ lastSnapshot' = fetched[b]
    /\ overtaken' = [overtaken EXCEPT ![b] = {p \in Part : shown[b][p] > fetched[b][p]}]
    /\ shown' = [shown EXCEPT ![b] = fetched[b]]
    /\ fetched' = [fetched EXCEPT ![b] = Nothing]
    /\ request' = [request EXCEPT ![b] = IF @ = "fetching" THEN "joined" ELSE @]
    /\ UNCHANGED <<listeners, topology, isStopping, losses>>
    /\ UNCHANGED watchVars

\* The fetch failed: the last snapshot the proxy has seen stands in for it.
SnapshotMissed(b) ==
    /\ request[b] = "failed"
    /\ shown' = [shown EXCEPT ![b] = IF lastSnapshot = Nothing THEN @ ELSE lastSnapshot]
    /\ request' = [request EXCEPT ![b] = "joined"]
    /\ UNCHANGED <<listeners, fetched, overtaken, topology, lastSnapshot, isStopping, losses>>
    /\ UNCHANGED watchVars

\* The browser goes.  While its snapshot is fetched nobody notices, and it
\* stays among the listeners for good.
BrowserLeaves(b) ==
    /\ request[b] \in {"fetching", "joined"}
    /\ request' = [request EXCEPT ![b] = "left"]
    /\ listeners' = IF request[b] = "joined" THEN listeners \ {b} ELSE listeners
    /\ UNCHANGED <<fetched, shown, overtaken, topology, lastSnapshot, isStopping, losses>>
    /\ UNCHANGED watchVars

(***************************************************************************)
(* The service and the connection to it.                                   *)
(***************************************************************************)
Change(p) ==
    /\ topology[p] < MaxVersion
    /\ \A c \in DOMAIN watching : Len(watching[c]) < MaxInFlight
    /\ topology' = [topology EXCEPT ![p] = @ + 1]
    /\ watching' = [c \in DOMAIN watching |->
                       Append(watching[c], [q \in {p} |-> topology[p] + 1])]
    /\ UNCHANGED <<watchStream, opened, events, timers, lastSnapshot, isStopping, losses>>
    /\ UNCHANGED browserVars

\* Streams and calls share one connection and fail together.
ConnectionLost ==
    /\ losses < MaxLosses /\ losses' = losses + 1
    /\ events' = events \cup ((DOMAIN watching) \X {"error", "end"})
    /\ watching' = [c \in {} |-> <<>>]
    /\ request' = [b \in Browser |-> IF request[b] = "fetching" THEN "failed" ELSE request[b]]
    /\ fetched' = [b \in Browser |-> Nothing]
    /\ UNCHANGED <<topology, watchStream, opened, timers, lastSnapshot, listeners, shown,
                   overtaken, isStopping>>

\* A call fails while the connection is down.
CallFails(b) ==
    /\ request[b] = "fetching" /\ fetched[b] = Nothing
    /\ watching = [c \in {} |-> <<>>] /\ ~isStopping
    /\ request' = [request EXCEPT ![b] = "failed"]
    /\ UNCHANGED <<listeners, fetched, shown, overtaken, topology, lastSnapshot, isStopping,
                   losses>>
    /\ UNCHANGED watchVars

(***************************************************************************)
(* stop: the current watch is cancelled and every listener ended.          *)
(***************************************************************************)
Stop ==
    /\ ~isStopping /\ isStopping' = TRUE
    /\ watching' = [c \in DOMAIN watching \ {watchStream} |-> watching[c]]
    /\ watchStream' = Nothing
    /\ listeners' = {}
    /\ request' = [b \in Browser |-> IF b \in listeners THEN "left" ELSE request[b]]
    /\ UNCHANGED <<topology, opened, events, timers, lastSnapshot, fetched, shown, overtaken,
                   losses>>

Init ==
    /\ topology = Blank
    /\ watching = [c \in {1} |-> <<topology>>]
    /\ watchStream = 1 /\ opened = 1
    /\ events = {} /\ timers = 0
    /\ lastSnapshot = Nothing
    /\ listeners = {}
    /\ request = [b \in Browser |-> "new"]
    /\ fetched = [b \in Browser |-> Nothing]
    /\ shown = [b \in Browser |-> Blank]
    /\ overtaken = [b \in Browser |-> {}]
    /\ isStopping = FALSE
    /\ losses = 0

Deliver == \E c \in DOMAIN watching : StreamData(c)
Handle == \E c \in Call, e \in {"error", "end"} : StreamEvent(c, e)
Join(b) == GetTopology(b) \/ SnapshotFetched(b) \/ SnapshotMissed(b)

Next ==
    \/ Deliver \/ Handle \/ SecondPasses
    \/ \E b \in Browser : HandleSse(b) \/ Join(b) \/ CallFails(b) \/ BrowserLeaves(b)
    \/ \E p \in Part : Change(p)
    \/ ConnectionLost
    \/ Stop

Spec == Init /\ [][Next]_vars

\* Node.js delivers data, events and timers, and the service answers.
Fairness ==
    /\ WF_vars(Deliver) /\ WF_vars(Handle) /\ WF_vars(SecondPasses)
    /\ \A b \in Browser : WF_vars(Join(b))

FairSpec == Spec /\ Fairness

(***************************************************************************)
(* Properties.                                                             *)
(***************************************************************************)
\* Although a lost stream is reported twice and each report restarts the
\* watch, the service never serves the proxy more than the stream it holds,
\* and none once it is stopping.
OneWatch == DOMAIN watching \subseteq {watchStream}

\* What a browser shows of p once everything under way has arrived: what the
\* last update of p says, if one is under way.
WillShow(b, c, p) ==
    LET updates == {n \in DOMAIN watching[c] : p \in DOMAIN watching[c][n]}
    IN  IF updates = {} THEN shown[b][p] ELSE watching[c][Max(updates)][p]

\* A browser that has joined, however its snapshot and the updates crossed,
\* will show the service's state of every part, unless that part's update
\* overtook the snapshot.
PictureExact ==
    \A b \in Browser, c \in DOMAIN watching, p \in Part :
        b \in listeners /\ request[b] = "joined" /\ p \notin overtaken[b]
            => WillShow(b, c, p) = topology[p]

\* When the service changes no more, a browser that stays shows its state,
\* through lost connections, double restarts and failed fetches.
BrowserCatchesUp ==
    \A b \in Browser :
        <>[](request[b] = "joined")
            => <>[](\A p \in Part : shown[b][p] = topology[p] \/ p \in overtaken[b])
=============================================================================
