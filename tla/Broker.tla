------------------------------- MODULE Broker -------------------------------
(***************************************************************************)
(* The broker (packages/broker/src/broker.ts), which tells clients where a *)
(* service is provided, and the connections the TypeScript programs keep   *)
(* to it (ClientManager of packages/common/src/index.ts, with connected of *)
(* BrokerClientManager.ts).                                                *)
(*                                                                         *)
(* All providers offer the same interface and role, so that an entry is    *)
(* known by its provider.  Calls on one connection reach the broker in the *)
(* order they were made.  The broker keeps everything in memory: a crash   *)
(* empties it and breaks every connection and call; each program hears of  *)
(* that when it handles the end of its stream and the change of the        *)
(* channel's state, in either order and before its reconnect timer fires.  *)
(***************************************************************************)
EXTENDS Integers, Sequences, SequencesExt

CONSTANTS
    Provider,
    Program,    \* programs with a BrokerClientManager
    NoProvider, \* null
    MaxCrashes  \* bound: crashes of the broker

ASSUME BrokerAssumption == NoProvider \notin Provider /\ MaxCrashes \in Nat

VARIABLES
    services,   \* the broker's entries, in order
    listeners,  \* programs whose stream it writes to
    changes,    \* notifications on their way to each program
    up,         \* the broker is running
    link,       \* the fields of each program's ClientManager
    requests,   \* calls of each program the broker has not handled
    crashes     \* of the broker

brokerVars == <<services, listeners, changes, up, link, requests, crashes>>
registryVars == <<services, listeners, changes>>

(***************************************************************************)
(* The registry.                                                           *)
(***************************************************************************)
Listed(p) == p \in ToSet(services)
First == IF services = <<>> THEN NoProvider ELSE Head(services)

Notified == [c \in Program |-> IF c \in listeners THEN changes[c] + 1 ELSE changes[c]]

\* A mutated RegisterService: an entry with the name is replaced.
RegisterServiceReplaces(p) ==
    /\ services' = <<p>>
    /\ changes' = Notified
    /\ UNCHANGED listeners

RegisterService(p) ==
    /\ services' = Append(services, p)
    /\ changes' = Notified
    /\ UNCHANGED listeners

\* A mutated UnregisterService: every entry with the name goes.
UnregisterServiceAll ==
    /\ services' = <<>>
    /\ changes' = Notified
    /\ UNCHANGED listeners

\* The first entry with the name goes, whoever asks; without one there is
\* neither a change nor an answer.
UnregisterService ==
    /\ services # <<>>
    /\ services' = Tail(services)
    /\ changes' = Notified
    /\ UNCHANGED listeners

NotifyServiceChanges(c) ==
    /\ listeners' = listeners \cup {c}
    /\ UNCHANGED <<services, changes>>

Unlistened(c) ==
    /\ listeners' = listeners \ {c}
    /\ changes' = [changes EXCEPT ![c] = 0]

(***************************************************************************)
(* ClientManager.                                                          *)
(***************************************************************************)
NewLink == [client |-> "null", timer |-> FALSE, lost |-> {}]
Connecting(l) == IF l.client = "null" THEN [l EXCEPT !.client = "connecting"] ELSE l

\* scheduleReconnect, which leaves a timer that runs alone.
Scheduled(l) == IF l.client = "null" THEN [l EXCEPT !.timer = TRUE] ELSE l

\* The program has handled one of the events of its lost connection.
Cleared(l, event) == [l EXCEPT !.client = "null", !.lost = @ \ {event}]

\* waitForReady succeeds; calls is what the program asks for in connected and
\* onConnected.
Ready(c, calls) ==
    /\ up /\ link[c].client = "connecting"
    /\ link' = [link EXCEPT ![c] = [@ EXCEPT !.client = "ready", !.timer = FALSE]]
    /\ requests' = [requests EXCEPT ![c] = @ \o calls]
    /\ UNCHANGED registryVars /\ UNCHANGED <<up, crashes>>

\* Its deadline passes first; a broker that is back in time is reached.
NotReady(c) ==
    /\ ~up /\ link[c].client = "connecting"
    /\ link' = [link EXCEPT ![c] = Scheduled([@ EXCEPT !.client = "null"])]
    /\ UNCHANGED registryVars /\ UNCHANGED <<up, requests, crashes>>

ReconnectTimer(c) ==
    /\ link[c].timer /\ link[c].lost = {}
    /\ link' = [link EXCEPT ![c] = Connecting([@ EXCEPT !.timer = FALSE])]
    /\ UNCHANGED registryVars /\ UNCHANGED <<up, requests, crashes>>

\* The error or the end of the stream.
StreamEnds(c) ==
    /\ "stream" \in link[c].lost
    /\ link' = [link EXCEPT ![c] = Cleared(@, "stream")]
    /\ UNCHANGED registryVars /\ UNCHANGED <<up, requests, crashes>>

\* A mutated WatchFires: it trusts whoever cleared client to reconnect.
WatchFiresOnce(c) ==
    /\ "watch" \in link[c].lost
    /\ link' = [link EXCEPT ![c] = IF @.client = "null" THEN Cleared(@, "watch")
                                   ELSE Scheduled(Cleared(@, "watch"))]
    /\ UNCHANGED registryVars /\ UNCHANGED <<up, requests, crashes>>

\* watchConnectivityState reports that the channel is no longer ready.
WatchFires(c) ==
    /\ "watch" \in link[c].lost
    /\ link' = [link EXCEPT ![c] = Scheduled(Cleared(@, "watch"))]
    /\ UNCHANGED registryVars /\ UNCHANGED <<up, requests, crashes>>

(***************************************************************************)
(* The life of the broker.                                                 *)
(***************************************************************************)
BrokerInit ==
    /\ services = <<>> /\ listeners = {} /\ up = FALSE /\ crashes = 0
    /\ changes = [c \in Program |-> 0]
    /\ requests = [c \in Program |-> <<>>]

StartBrokerServer ==
    /\ ~up
    /\ up' = TRUE
    /\ UNCHANGED registryVars /\ UNCHANGED <<link, requests, crashes>>

Crash ==
    /\ up /\ crashes < MaxCrashes
    /\ up' = FALSE /\ crashes' = crashes + 1
    /\ services' = <<>> /\ listeners' = {}
    /\ changes' = [c \in Program |-> 0]
    /\ requests' = [c \in Program |-> <<>>]
    /\ link' = [c \in Program |->
                   IF link[c].client = "ready"
                   THEN [link[c] EXCEPT !.lost = {"stream", "watch"}] ELSE link[c]]

BrokerTypeOK ==
    /\ services \in Seq(Provider) /\ listeners \subseteq Program
    /\ changes \in [Program -> Nat]
    /\ up \in BOOLEAN /\ crashes \in 0 .. MaxCrashes
    /\ link \in [Program -> [client : {"null", "connecting", "ready"}, timer : BOOLEAN,
                             lost : SUBSET {"stream", "watch"}]]
    /\ requests \in [Program -> Seq({"listen", "list", "register", "unregister"})]
=============================================================================
