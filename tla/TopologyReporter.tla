------------------------- MODULE TopologyReporter --------------------------
(***************************************************************************)
(* The reporter a program embeds to appear in the topology                 *)
(* (packages/topology-reporter/src/topology-reporter.ts): it registers,    *)
(* keeps a heartbeat and an activity stream open, reconnects when they     *)
(* break and unregisters on shutdown; and, of the topology service, what   *)
(* its reporters can tell: the registrations it holds and when it drops    *)
(* them (TopologyStore has the details).                                   *)
(*                                                                         *)
(* A continuation runs from one await to the next in one step.  A call is  *)
(* answered, or fails by its deadline; streams break alone or with their   *)
(* connection, and the events that say so may be handled late.  A stream   *)
(* is known by the registration it was opened for.                         *)
(***************************************************************************)
EXTENDS Integers, Sequences, FiniteSets

CONSTANTS
    Reporter,
    ActivityEnabled,    \* the reporters whose options enable activity
    MaxIssued,  \* bound: registrations the service makes
    MaxFaults   \* bound: crashes, broken connections, failed calls, late beats

ASSUME ReporterAssumption ==
    ActivityEnabled \subseteq Reporter /\ MaxIssued \in Nat /\ MaxFaults \in Nat

VARIABLES
    reporter,   \* the fields of each TopologyReporter
    call,       \* its RegisterService call
    leaving,    \* the id in its UnregisterService call, or NoId
    broken,     \* streams that broke, until their reporter has reacted to it
    issued,     \* the reporter behind each id the service has given out
    registered, \* the ids in the service's store
    overslept,  \* ids dropped although their reporter beats
    up,         \* the service is running
    faults

serviceVars == <<issued, registered, overslept, up, faults>>
reporterVars == <<reporter, call, leaving, broken, issued, registered, overslept, up, faults>>

NoId == 0
Id == 1 .. MaxIssued
Kind == {"heartbeat", "activity"}

TopologyReporterFields ==
    [serviceId : Id \cup {NoId}, heartbeatStream : Id \cup {NoId},
     activityStream : Id \cup {NoId}, autoReconnect : BOOLEAN, isShuttingDown : BOOLEAN,
     connecting : {"no", "register", "delay"}]

RegisterCall == [state : {"none", "sent", "answered", "failed"}, id : Id \cup {NoId}]

NewReporter ==
    [serviceId |-> NoId, heartbeatStream |-> NoId, activityStream |-> NoId,
     autoReconnect |-> FALSE, isShuttingDown |-> FALSE, connecting |-> "no"]

NoCall == [state |-> "none", id |-> NoId]
Sent == [state |-> "sent", id |-> NoId]
Failed == [state |-> "failed", id |-> NoId]

(***************************************************************************)
(* What the methods make of the fields.                                    *)
(***************************************************************************)
\* A mutated Disconnected: the heartbeat stream is left in place.
DisconnectedKeepsHeartbeat(f) ==
    [f EXCEPT !.serviceId = NoId, !.activityStream = NoId]

\* stopHeartbeat, endActivityStream and the fields of the registration.
Disconnected(f) ==
    [f EXCEPT !.serviceId = NoId, !.heartbeatStream = NoId, !.activityStream = NoId]

\* startHeartbeat and startActivityStream open a stream only where none is.
Opened(stream, id) == IF stream = NoId THEN id ELSE stream

Connected(f, id, enableActivity) ==
    [f EXCEPT !.serviceId = id, !.connecting = "no",
              !.heartbeatStream = Opened(@, id),
              !.activityStream = IF enableActivity THEN Opened(@, id) ELSE @]

\* reconnectPromise: one connectWithRetry at a time.
Triggered(f) == IF f.connecting = "no" THEN [f EXCEPT !.connecting = "register"] ELSE f

\* register reuses a call that is under way.
Called(r) == IF call[r].state = "none" THEN Sent ELSE call[r]

OpenStreams(r) ==
    {<<r, "heartbeat", id>> : id \in {reporter[r].heartbeatStream} \ {NoId}} \cup
    {<<r, "activity", id>> : id \in {reporter[r].activityStream} \ {NoId}}

\* A reporter whose heartbeats for id arrive.
Beating(id) ==
    \E r \in Reporter :
        LET f == reporter[r]
        IN  /\ f.serviceId = id
            /\ f.heartbeatStream # NoId
            /\ <<r, "heartbeat", f.heartbeatStream>> \notin broken

Closed(r) == reporter[r].isShuttingDown /\ leaving[r] = NoId

(***************************************************************************)
(* The reporter.                                                           *)
(***************************************************************************)
Start(r) ==
    /\ ~reporter[r].autoReconnect /\ ~reporter[r].isShuttingDown
    /\ reporter' = [reporter EXCEPT ![r] = Triggered([@ EXCEPT !.autoReconnect = TRUE])]
    /\ call' = [call EXCEPT ![r] = Called(r)]
    /\ UNCHANGED <<leaving, broken>> /\ UNCHANGED serviceVars

\* A mutated RegisterAnswered: it does not look whether a shutdown has begun.
RegisterAnsweredAlways(r) ==
    /\ call[r].state = "answered"
    /\ call' = [call EXCEPT ![r] = NoCall]
    /\ reporter' = [reporter EXCEPT ![r] = Connected(@, call[r].id, r \in ActivityEnabled)]
    /\ UNCHANGED <<leaving, broken>> /\ UNCHANGED serviceVars

\* performRegister goes on; during a shutdown it throws and the service keeps
\* a registration that nobody cancels.
RegisterAnswered(r) ==
    /\ call[r].state = "answered"
    /\ call' = [call EXCEPT ![r] = NoCall]
    /\ reporter' = [reporter EXCEPT ![r] =
                       IF @.isShuttingDown THEN [@ EXCEPT !.connecting = "no"]
                       ELSE Connected(@, call[r].id, r \in ActivityEnabled)]
    /\ UNCHANGED <<leaving, broken>> /\ UNCHANGED serviceVars

\* A mutated RegisterFailed: connectWithRetry gives up.
RegisterFailedForGood(r) ==
    /\ call[r].state = "failed"
    /\ call' = [call EXCEPT ![r] = NoCall]
    /\ reporter' = [reporter EXCEPT ![r].connecting = "no"]
    /\ UNCHANGED <<leaving, broken>> /\ UNCHANGED serviceVars

\* The catch of connectWithRetry, where there is one: a wait of up to 15 s.
RegisterFailed(r) ==
    /\ call[r].state = "failed"
    /\ call' = [call EXCEPT ![r] = NoCall]
    /\ reporter' = [reporter EXCEPT ![r].connecting =
                       IF @ = "register" /\ reporter[r].autoReconnect THEN "delay" ELSE "no"]
    /\ UNCHANGED <<leaving, broken>> /\ UNCHANGED serviceVars

RetryDelayEnds(r) ==
    /\ reporter[r].connecting = "delay"
    /\ IF reporter[r].autoReconnect
       THEN /\ reporter' = [reporter EXCEPT ![r].connecting = "register"]
            /\ call' = [call EXCEPT ![r] = Called(r)]
       ELSE /\ reporter' = [reporter EXCEPT ![r].connecting = "no"]
            /\ UNCHANGED call
    /\ UNCHANGED <<leaving, broken>> /\ UNCHANGED serviceVars

\* handleStreamError and handleStreamEnd.  Neither looks which stream it is
\* about; without autoReconnect both only log, and the stream stays broken.
StreamBroken(r, kind, id) ==
    /\ <<r, kind, id>> \in broken
    /\ reporter[r].autoReconnect
    /\ broken' = broken \ {<<r, kind, id>>}
    /\ reporter' = [reporter EXCEPT ![r] = Triggered(Disconnected(@))]
    /\ call' = [call EXCEPT ![r] = IF reporter[r].connecting = "no" THEN Called(r) ELSE @]
    /\ UNCHANGED leaving /\ UNCHANGED serviceVars

Shutdown(r) ==
    /\ ~reporter[r].isShuttingDown
    /\ reporter' = [reporter EXCEPT ![r] =
                       [Disconnected(@) EXCEPT !.isShuttingDown = TRUE,
                                               !.autoReconnect = FALSE]]
    /\ leaving' = [leaving EXCEPT ![r] = reporter[r].serviceId]
    /\ UNCHANGED <<call, broken>> /\ UNCHANGED serviceVars

(***************************************************************************)
(* The service and the network.                                            *)
(***************************************************************************)
Fault == faults < MaxFaults /\ faults' = faults + 1

ServeRegister(r) ==
    /\ up /\ call[r].state = "sent" /\ Len(issued) < MaxIssued
    /\ issued' = Append(issued, r)
    /\ registered' = registered \cup {Len(issued')}
    /\ call' = [call EXCEPT ![r] = [state |-> "answered", id |-> Len(issued')]]
    /\ UNCHANGED <<reporter, leaving, broken, overslept, up, faults>>

\* The deadline of five seconds passes before the answer is there.
RegisterTimeout(r) ==
    /\ call[r].state \in {"sent", "answered"}
    /\ call' = [call EXCEPT ![r] = Failed]
    /\ IF up THEN Fault ELSE UNCHANGED faults
    /\ UNCHANGED <<reporter, leaving, broken, issued, registered, overslept, up>>

ServeUnregister(r) ==
    /\ up /\ leaving[r] # NoId
    /\ registered' = registered \ {leaving[r]}
    /\ leaving' = [leaving EXCEPT ![r] = NoId]
    /\ UNCHANGED <<reporter, call, broken, issued, overslept, up, faults>>

\* The deadline of the unregister call: shutdown logs it and goes on.
UnregisterTimeout(r) ==
    /\ leaving[r] # NoId
    /\ leaving' = [leaving EXCEPT ![r] = NoId]
    /\ UNCHANGED <<reporter, call, broken>> /\ UNCHANGED serviceVars

\* The sweep drops whoever is silent for three intervals, which is longer than
\* the deadline of a call: not before the answer to its registration has come
\* or failed.  A heartbeat may come too late; it is acknowledged all the same,
\* so that its sender never learns of it.
Sweep(id) ==
    /\ id \in registered
    /\ \A r \in Reporter : call[r].id # id
    /\ registered' = registered \ {id}
    /\ IF Beating(id) THEN Fault /\ overslept' = overslept \cup {id}
                      ELSE UNCHANGED <<overslept, faults>>
    /\ UNCHANGED <<reporter, call, leaving, broken, issued, up>>

StreamsBreak(r) ==
    /\ \E some \in SUBSET OpenStreams(r) \ {{}} : broken' = broken \cup some
    /\ Fault
    /\ UNCHANGED <<reporter, call, leaving, issued, registered, overslept, up>>

\* A process dies, and these reporters in it: whatever they did goes unheard.
Die(inside) ==
    /\ reporter' = [r \in Reporter |-> IF r \in inside THEN NewReporter ELSE reporter[r]]
    /\ call' = [r \in Reporter |-> IF r \in inside THEN NoCall ELSE call[r]]
    /\ leaving' = [r \in Reporter |-> IF r \in inside THEN NoId ELSE leaving[r]]
    /\ broken' = {b \in broken : b[1] \notin inside}
    /\ UNCHANGED <<issued, registered, overslept, up>>

\* The service's process dies, and these reporters in it.  The store lives in
\* memory; the streams and calls of the others end with the connection.
Crash(inside) ==
    /\ up /\ up' = FALSE
    /\ registered' = {}
    /\ reporter' = [r \in Reporter |-> IF r \in inside THEN NewReporter ELSE reporter[r]]
    /\ call' = [r \in Reporter |->
                   IF r \in inside \/ call[r].state = "none" THEN NoCall ELSE Failed]
    /\ leaving' = [r \in Reporter |-> NoId]
    /\ broken' = {b \in broken \cup UNION {OpenStreams(r) : r \in Reporter} : b[1] \notin inside}
    /\ UNCHANGED <<issued, overslept>>

\* Somebody starts the service again; its supervisor does not, by the policy
\* configured for it (apps/supervisor/config.yaml, 28).
Restart ==
    /\ ~up /\ up' = TRUE
    /\ UNCHANGED <<reporter, call, leaving, broken, issued, registered, overslept, faults>>

ReporterInit ==
    /\ reporter = [r \in Reporter |-> NewReporter]
    /\ call = [r \in Reporter |-> NoCall]
    /\ leaving = [r \in Reporter |-> NoId]
    /\ broken = {}
    /\ issued = <<>>
    /\ registered = {} /\ overslept = {}
    /\ up = TRUE
    /\ faults = 0

(***************************************************************************)
(* Properties.                                                             *)
(***************************************************************************)
ReporterTypeOK ==
    /\ reporter \in [Reporter -> TopologyReporterFields]
    /\ call \in [Reporter -> RegisterCall]
    /\ leaving \in [Reporter -> Id \cup {NoId}]
    /\ broken \subseteq Reporter \X Kind \X Id
    /\ issued \in Seq(Reporter) /\ Len(issued) <= MaxIssued
    /\ registered \subseteq 1 .. Len(issued) /\ overslept \subseteq 1 .. Len(issued)
    /\ up \in BOOLEAN
    /\ faults \in 0 .. MaxFaults

\* Whatever broke, was answered late or was handled late: a reporter's streams
\* are those of the registration it holds, so that it never beats into a
\* stream of an earlier registration, and holds none while it has no stream.
StreamsMatchRegistration ==
    \A r \in Reporter :
        LET f == reporter[r]
        IN  /\ f.heartbeatStream = f.serviceId
            /\ f.activityStream = IF r \in ActivityEnabled THEN f.serviceId ELSE NoId

\* If the service is up, or up again, for good and the faults are over, a
\* program that has started its reporter, and not shut it down, is in the
\* topology, under the id it beats for; the one exception is a reporter the
\* service dropped in spite of its heartbeats, which never registers again.
StaysReported ==
    \A r \in Reporter :
        <>[]up => <>[](reporter[r].autoReconnect =>
                          reporter[r].serviceId \in registered \cup overslept)

\* In the end the topology lists of a program at most the registration it
\* holds, and none once its reporter was shut down: not what it unregistered,
\* not what a reconnect or its death left behind, and not the registration
\* whose answer came after the shutdown had begun.
NothingLeftBehind ==
    \A r \in Reporter :
        <>[](\A id \in registered :
                issued[id] = r => id = reporter[r].serviceId /\ ~reporter[r].isShuttingDown)
=============================================================================
