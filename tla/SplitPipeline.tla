--------------------------- MODULE SplitPipeline ---------------------------
(***************************************************************************)
(* The split event pipeline (apps/demo-domain): five services, each a      *)
(* process of its own, and the orchestrator that calls each of them once   *)
(* and pipes the responses of one stream into the requests of the next,    *)
(* event by event or in batches.                                           *)
(*                                                                         *)
(* Events are the positions of their lines in the input; a message is the  *)
(* sequence of events it carries, of length one without batching.  gRPC    *)
(* delivers the messages of a stream in order and its end after them.      *)
(***************************************************************************)
EXTENDS Integers, SequencesExt

CONSTANTS
    Line,       \* lines of an events file
    Missing,    \* a field that is absent or not of its type
    WorkItem,   \* a line of the work-items workload
    MaxEvents,  \* the values of --max-events, 0 for all
    BatchSize,  \* config.batchSize, used by the ingest service as well
    HighWater,  \* responses the ingest stream buffers before it waits for drain
    MaxLines,   \* bound: length of the input
    MaxCrashes  \* bound: services that crash during the run

ASSUME SplitAssumption ==
    /\ MaxEvents \subseteq Nat
    /\ BatchSize \in Nat \ {0} /\ HighWater \in Nat \ {0}
    /\ MaxLines \in Nat /\ MaxCrashes \in Nat
    /\ WorkItem \notin Line

Service == {"ingest", "parse", "rules", "aggregate", "sink"}

\* The orchestrator feeds what a stream delivers into the next one; what the
\* first three stages deliver are events.
Stage == {"ingest", "parse", "rules"}
Feeds == [ingest |-> "parse", parse |-> "rules", rules |-> "aggregate", aggregate |-> "sink"]

VARIABLES
    input, batching, maxEvents,     \* the run: its input and two options
    sequence, batch, sending,       \* ingest: lines read, lines collected, whether it sends them
    requests, requestsEnded,        \* messages on their way to each service; half-closed streams
    responses, responsesEnded,      \* messages on their way back; ended streams
    pending,                        \* the orchestrator's batch behind each stream
    stats, order, workItemResults,  \* aggregate: totals per type, types in Map order, work items
    output,                         \* lines in the output file
    alive,                          \* services that have not crashed
    sinkFailed,                     \* the orchestrator has logged a sink error
    outcome                         \* how the orchestrator ended

run == <<input, batching, maxEvents>>
ingest == <<sequence, batch, sending>>
streams == <<requests, requestsEnded, responses, responsesEnded>>
aggregator == <<stats, order, workItemResults>>
ending == <<alive, sinkFailed, outcome>>
vars == <<input, batching, maxEvents, sequence, batch, sending, requests, requestsEnded,
          responses, responsesEnded, pending, stats, order, workItemResults, output,
          alive, sinkFailed, outcome>>

(***************************************************************************)
(* What the services make of one event.                                    *)
(***************************************************************************)
Parses(l) ==
    \/ l = WorkItem
    \/ /\ l.ts # Missing /\ l.user # Missing /\ l.value # Missing
       /\ l.type \in {"click", "view", "purchase"}

PassesRules(l) == l.value >= 10 /\ l.type # "view"

\* A work item, whose value is 0, is exempt from the rules only in applyRules,
\* not in applyRulesBatch.
Keeps(s, l) ==
    IF s = "parse" THEN Parses(l)
    ELSE IF l = WorkItem THEN ~batching ELSE PassesRules(l)

Counts(l) == l # WorkItem /\ Parses(l) /\ PassesRules(l)
Key(l) == l.type
Value(l) == l.value

\* The value of a parsed event is an int64.
ASSUME ValueAssumption == \A l \in Line : Parses(l) => Value(l) \in Int

\* The elements of a sequence that lie in a set.
Only(seq, set) ==
    LET only[n \in 0 .. Len(seq)] ==
            IF n = 0 THEN <<>>
            ELSE IF seq[n] \in set THEN Append(only[n - 1], seq[n]) ELSE only[n - 1]
    IN  only[Len(seq)]

IsWork == WorkItem \in ToSet(input)
Wanted == IF maxEvents = 0 \/ Len(input) < maxEvents THEN Len(input) ELSE maxEvents

\* Work items are generated until there are maxEvents of them; without that
\* limit for ever, and the input is what the bound leaves of them.
Endless == IsWork /\ maxEvents = 0

Init ==
    /\ input \in SeqOf(Line, MaxLines) \cup SeqOf({WorkItem}, MaxLines)
    /\ batching \in BOOLEAN
    /\ maxEvents \in MaxEvents
    /\ IsWork => Len(input) >= maxEvents
    /\ sequence = 0 /\ batch = <<>> /\ sending = FALSE
    /\ requests = [s \in Service |-> <<>>] /\ requestsEnded = {}
    /\ responses = [s \in Service |-> <<>>] /\ responsesEnded = {}
    /\ pending = [s \in Stage |-> <<>>]
    /\ stats = [k \in {} |-> 0] /\ order = <<>> /\ workItemResults = <<>>
    /\ output = <<>>
    /\ alive = Service /\ sinkFailed = FALSE /\ outcome = "running"

Works(s) == s \in alive /\ outcome = "running"

(***************************************************************************)
(* Mutated operations, each in place of the definition of the same shape.  *)
(***************************************************************************)
\* EndIngest that forgets the batch begun last.
EndIngestAtOnce ==
    /\ Works("ingest") /\ ~sending /\ sequence = Wanted /\ ~Endless
    /\ "ingest" \notin responsesEnded
    /\ responsesEnded' = responsesEnded \cup {"ingest"}
    /\ UNCHANGED <<run, ingest, requests, requestsEnded, responses, pending, aggregator,
                   output, ending>>

\* NewKeys that puts a new type in front, as the C++ map does.
NewKeysInFront(msg) ==
    FoldLeft(LAMBDA keys, i : IF input[i] = WorkItem \/ Key(input[i]) \in ToSet(keys) THEN keys
                              ELSE <<Key(input[i])>> \o keys,
             order, msg)

\* Collected that puts what arrives before what is waiting.
CollectedInFront(s) == Head(responses[s]) \o pending[s]

\* Full one event late.
FullLate(events) == ~batching \/ Len(events) > BatchSize

\* Flushed that drops the batch.
FlushedNothing(s) == requests

\* Ended that returns early when there is no batch to flush.
EndedWithRest(s) ==
    /\ outcome = "running"
    /\ responses[s] = <<>> /\ s \in responsesEnded /\ Feeds[s] \notin requestsEnded
    /\ s \in Stage => pending[s] # <<>>

(***************************************************************************)
(* ingest-service: streamEvents.                                           *)
(***************************************************************************)
\* A batch is due when it is full or older than ten milliseconds; without
\* batching, and for work items, each line is sent at once.
ReadLine ==
    /\ Works("ingest") /\ ~sending /\ sequence < Wanted
    /\ sequence' = sequence + 1
    /\ batch' = Append(batch, sequence + 1)
    /\ \E late \in BOOLEAN :
          sending' = (~batching \/ IsWork \/ Len(batch') >= BatchSize \/ late)
    /\ UNCHANGED <<run, streams, pending, aggregator, output, ending>>

\* writeWithBackpressure
SendEvent ==
    /\ Works("ingest") /\ sending
    /\ Len(responses["ingest"]) < HighWater
    /\ responses' = [responses EXCEPT !["ingest"] = Append(@, <<Head(batch)>>)]
    /\ batch' = Tail(batch)
    /\ sending' = (Len(batch) > 1)
    /\ UNCHANGED <<run, sequence, requests, requestsEnded, responsesEnded, pending,
                   aggregator, output, ending>>

\* After the last line: what is left of the batch is sent, then the call ends.
EndIngest ==
    /\ Works("ingest") /\ ~sending /\ sequence = Wanted /\ ~Endless
    /\ "ingest" \notin responsesEnded
    /\ IF batch = <<>>
       THEN responsesEnded' = responsesEnded \cup {"ingest"} /\ UNCHANGED sending
       ELSE sending' = TRUE /\ UNCHANGED responsesEnded
    /\ UNCHANGED <<run, sequence, batch, requests, requestsEnded, responses, pending,
                   aggregator, output, ending>>

(***************************************************************************)
(* parse-service, rules-service and aggregate-service.                     *)
(***************************************************************************)
Filter(s) ==
    /\ Works(s) /\ requests[s] # <<>>
    /\ requests' = [requests EXCEPT ![s] = Tail(@)]
    /\ LET kept == Only(Head(requests[s]), {i \in DOMAIN input : Keeps(s, input[i])})
       IN  responses' = IF kept = <<>> THEN responses
                        ELSE [responses EXCEPT ![s] = Append(@, kept)]
    /\ UNCHANGED <<run, ingest, requestsEnded, responsesEnded, pending, aggregator,
                   output, ending>>

RequestsDone(s) ==
    Works(s) /\ requests[s] = <<>> /\ s \in requestsEnded /\ s \notin responsesEnded

EndFilter(s) ==
    /\ RequestsDone(s)
    /\ responsesEnded' = responsesEnded \cup {s}
    /\ UNCHANGED <<run, ingest, requests, requestsEnded, responses, pending, aggregator,
                   output, ending>>

Total(k) == IF k \in DOMAIN stats THEN stats[k] ELSE [count |-> 0, sum |-> 0]

\* The totals after the events of a message have been added.
Added(msg) ==
    LET new == {i \in ToSet(msg) : input[i] # WorkItem}
        of(k) == {i \in new : Key(input[i]) = k}
    IN  [k \in DOMAIN stats \cup {Key(input[i]) : i \in new} |->
            [count |-> Total(k).count + Cardinality(of(k)),
             sum |-> FoldSet(LAMBDA i, sum : sum + Value(input[i]), Total(k).sum, of(k))]]

\* The types in Map order, after the first n events of a message for every n.
NewKeys(msg) ==
    LET keys[n \in 0 .. Len(msg)] ==
            IF n = 0 THEN order
            ELSE IF \/ input[msg[n]] = WorkItem
                    \/ Key(input[msg[n]]) \in ToSet(keys[n - 1]) THEN keys[n - 1]
            ELSE Append(keys[n - 1], Key(input[msg[n]]))
    IN  keys[Len(msg)]

Aggregate ==
    /\ Works("aggregate") /\ requests["aggregate"] # <<>>
    /\ LET msg == Head(requests["aggregate"])
       IN  /\ stats' = Added(msg)
           /\ order' = NewKeys(msg)
           /\ workItemResults' =
                  workItemResults \o Only(msg, {i \in DOMAIN input : input[i] = WorkItem})
    /\ requests' = [requests EXCEPT !["aggregate"] = Tail(@)]
    /\ UNCHANGED <<run, ingest, requestsEnded, responses, responsesEnded, pending,
                   output, ending>>

\* Totals in Map order, then one result per work item; its position in the
\* input stands for the id a work item result has for a key.
Results ==
    [n \in DOMAIN order |->
        [key |-> order[n], count |-> stats[order[n]].count, sum |-> stats[order[n]].sum]] \o
    [n \in DOMAIN workItemResults |-> [key |-> workItemResults[n], count |-> 0, sum |-> 0]]

EndAggregate ==
    /\ RequestsDone("aggregate")
    /\ responses' = [responses EXCEPT
          !["aggregate"] = IF batching THEN <<Results>> ELSE [n \in DOMAIN Results |-> <<Results[n]>>]]
    /\ responsesEnded' = responsesEnded \cup {"aggregate"}
    /\ UNCHANGED <<run, ingest, requests, requestsEnded, pending, aggregator, output, ending>>

(***************************************************************************)
(* pipeline-orchestrator: the data and end handlers of each stream.        *)
(***************************************************************************)
Collected(s) == pending[s] \o Head(responses[s])

Full(events) == ~batching \/ Len(events) >= BatchSize

\* A batch goes on when it is full.
RelayEvents(s) ==
    /\ outcome = "running" /\ responses[s] # <<>>
    /\ IF Full(Collected(s))
       THEN /\ pending' = [pending EXCEPT ![s] = <<>>]
            /\ requests' = [requests EXCEPT ![Feeds[s]] = Append(@, Collected(s))]
       ELSE pending' = [pending EXCEPT ![s] = Collected(s)] /\ UNCHANGED requests
    /\ responses' = [responses EXCEPT ![s] = Tail(@)]
    /\ UNCHANGED <<run, ingest, requestsEnded, responsesEnded, aggregator, output, ending>>

Ended(s) ==
    /\ outcome = "running"
    /\ responses[s] = <<>> /\ s \in responsesEnded /\ Feeds[s] \notin requestsEnded

Flushed(s) ==
    IF pending[s] = <<>> THEN requests
    ELSE [requests EXCEPT ![Feeds[s]] = Append(@, pending[s])]

\* At the end of a stream the rest goes on, and the next stream is half-closed.
RelayEnd(s) ==
    /\ Ended(s)
    /\ requests' = Flushed(s)
    /\ pending' = [pending EXCEPT ![s] = <<>>]
    /\ requestsEnded' = requestsEnded \cup {Feeds[s]}
    /\ UNCHANGED <<run, ingest, responses, responsesEnded, aggregator, output, ending>>

RelayResults ==
    /\ outcome = "running" /\ responses["aggregate"] # <<>>
    /\ LET results == Head(responses["aggregate"])
       IN  requests' = [requests EXCEPT !["sink"] = @ \o [n \in DOMAIN results |-> <<results[n]>>]]
    /\ responses' = [responses EXCEPT !["aggregate"] = Tail(@)]
    /\ UNCHANGED <<run, ingest, requestsEnded, responsesEnded, pending, aggregator,
                   output, ending>>

EndResults ==
    /\ Ended("aggregate")
    /\ requestsEnded' = requestsEnded \cup {"sink"}
    /\ UNCHANGED <<run, ingest, requests, responses, responsesEnded, pending, aggregator,
                   output, ending>>

(***************************************************************************)
(* sink-service: writeResults, and the callback of the orchestrator.       *)
(***************************************************************************)
WriteResult ==
    /\ Works("sink") /\ requests["sink"] # <<>>
    /\ output' = output \o Head(requests["sink"])
    /\ requests' = [requests EXCEPT !["sink"] = Tail(@)]
    /\ UNCHANGED <<run, ingest, requestsEnded, responses, responsesEnded, pending,
                   aggregator, ending>>

CloseOutput ==
    /\ RequestsDone("sink")
    /\ responsesEnded' = responsesEnded \cup {"sink"}
    /\ UNCHANGED <<run, ingest, requests, requestsEnded, responses, pending, aggregator,
                   output, ending>>

Complete ==
    /\ outcome = "running" /\ ~sinkFailed /\ "sink" \in responsesEnded
    /\ outcome' = "complete"
    /\ UNCHANGED <<run, ingest, streams, pending, aggregator, output, alive, sinkFailed>>

(***************************************************************************)
(* Failures.                                                               *)
(***************************************************************************)
\* A service dies: killed, or by an exception nobody catches, as when a file
\* cannot be opened.
Crash(s) ==
    /\ Works(s)
    /\ Cardinality(Service \ alive) < MaxCrashes
    /\ alive' = alive \ {s}
    /\ UNCHANGED <<run, ingest, streams, pending, aggregator, output, sinkFailed, outcome>>

\* The call to a dead service fails unless its end was seen before; what the
\* service had sent may be lost.  An error of the sink's is only logged.
StreamError(s) ==
    /\ outcome = "running" /\ s \notin alive
    /\ IF s = "sink" THEN ~sinkFailed ELSE Feeds[s] \notin requestsEnded
    /\ IF s = "sink" THEN sinkFailed' = TRUE /\ UNCHANGED outcome
       ELSE outcome' = "failed" /\ UNCHANGED sinkFailed
    /\ UNCHANGED <<run, ingest, streams, pending, aggregator, output, alive>>

\* After a sink error and the end of every other stream nothing keeps the
\* orchestrator's event loop alive.
Abandon ==
    /\ outcome = "running" /\ sinkFailed /\ "sink" \in requestsEnded
    /\ outcome' = "abandoned"
    /\ UNCHANGED <<run, ingest, streams, pending, aggregator, output, alive, sinkFailed>>

Next ==
    \/ ReadLine \/ SendEvent \/ EndIngest
    \/ \E s \in {"parse", "rules"} : Filter(s) \/ EndFilter(s)
    \/ Aggregate \/ EndAggregate
    \/ \E s \in Stage : RelayEvents(s) \/ RelayEnd(s)
    \/ RelayResults \/ EndResults
    \/ WriteResult \/ CloseOutput \/ Complete
    \/ \E s \in Service : Crash(s) \/ StreamError(s)
    \/ Abandon

Spec == Init /\ [][Next]_vars

\* Live processes go on, the network delivers, and a broken connection is
\* noticed.  Nothing makes a service crash.
Fairness ==
    /\ WF_vars(ReadLine) /\ WF_vars(SendEvent) /\ WF_vars(EndIngest)
    /\ \A s \in {"parse", "rules"} : WF_vars(Filter(s)) /\ WF_vars(EndFilter(s))
    /\ WF_vars(Aggregate) /\ WF_vars(EndAggregate)
    /\ \A s \in Stage : WF_vars(RelayEvents(s)) /\ WF_vars(RelayEnd(s))
    /\ WF_vars(RelayResults) /\ WF_vars(EndResults)
    /\ WF_vars(WriteResult) /\ WF_vars(CloseOutput) /\ WF_vars(Complete)
    /\ \A s \in Service : WF_vars(StreamError(s))
    /\ WF_vars(Abandon)

FairSpec == Spec /\ Fairness

(***************************************************************************)
(* Properties.                                                             *)
(***************************************************************************)
\* What lies between the input and the aggregator, furthest first.
InFlight ==
    FlattenSeq(requests["aggregate"]) \o pending["rules"] \o FlattenSeq(responses["rules"]) \o
    FlattenSeq(requests["rules"]) \o pending["parse"] \o FlattenSeq(responses["parse"]) \o
    FlattenSeq(requests["parse"]) \o pending["ingest"] \o FlattenSeq(responses["ingest"]) \o
    batch

Job == INSTANCE AggregateJob WITH
    Line <- Line \cup {WorkItem},
    input <- SubSeq(input, 1, Wanted),
    writable <- TRUE,
    todo <- (sequence + 1 .. Wanted) \cup ToSet(InFlight),
    totals <- stats,
    published <- IF outcome = "complete" THEN {{r \in ToSet(output) : r.count > 0}} ELSE {}

\* Messages carry events of the input, and no batch the orchestrator holds is
\* full, or is held at all without batching.
TypeOK ==
    /\ sequence \in 0 .. Wanted
    /\ sending => batch # <<>>
    /\ ToSet(InFlight) \subseteq 1 .. sequence
    /\ \A s \in Stage : Len(pending[s]) < (IF batching THEN BatchSize ELSE 1)
    /\ requestsEnded \subseteq Service /\ responsesEnded \subseteq Service
    /\ DOMAIN stats = ToSet(order)
    /\ alive \subseteq Service /\ sinkFailed \in BOOLEAN
    /\ outcome \in {"running", "complete", "failed", "abandoned"}

\* Through batches that fill, filter and flush at different times, the events
\* keep their order and each is in one place at most.
OrderKept == \A m, n \in DOMAIN InFlight : m < n => InFlight[m] < InFlight[n]

\* The streams are closed from the front to the back, each only when nothing
\* can follow: the end of the input never overtakes a last batch.
EndIsLast ==
    /\ "ingest" \in responsesEnded => sequence = Wanted /\ batch = <<>>
    /\ \A s \in Stage :
          Feeds[s] \in requestsEnded =>
              s \in responsesEnded /\ responses[s] = <<>> /\ pending[s] = <<>>
    /\ "sink" \in requestsEnded =>
          "aggregate" \in responsesEnded /\ responses["aggregate"] = <<>>
    /\ \A s \in {"parse", "rules", "aggregate", "sink"} :
          s \in responsesEnded => s \in requestsEnded /\ requests[s] = <<>>

\* Batched or not, the pipeline does the same job as the monolith; "Pipeline
\* complete" is printed only over an output that accounts for every event.
JobImplemented == Job!JobSpec

\* The output file depends on the input alone, not on batches or timing: its
\* groups come in the order in which they first passed the rules.
FirstOf(k) ==
    CHOOSE i \in DOMAIN input :
        /\ Counts(input[i]) /\ Key(input[i]) = k
        /\ \A j \in 1 .. i - 1 : ~(Counts(input[j]) /\ Key(input[j]) = k)

OutputOrderFixed ==
    LET groups == Only(output, {r \in ToSet(output) : r.count > 0})
    IN  \A m, n \in DOMAIN groups : m < n => FirstOf(groups[m].key) < FirstOf(groups[n].key)

\* Every run ends, whichever service dies, and with none dead it completes; the
\* one exception is a run over work items without a limit, to which the ingest
\* service generates more for ever.
RunEnds ==
    Endless \/
        /\ <>(outcome # "running")
        /\ [](alive = Service) => <>(outcome = "complete")

\* What the demo scenarios say of the work-items workload: it writes an entry
\* for each item (README.md:102), and batching has minimal impact on it
\* (RESULTS.md:106).
WorkItemsWritten ==
    outcome = "complete" /\ IsWork => {r.key : r \in ToSet(output)} = 1 .. Wanted
=============================================================================
