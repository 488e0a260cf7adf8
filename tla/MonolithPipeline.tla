-------------------------- MODULE MonolithPipeline --------------------------
(***************************************************************************)
(* The C++ event pipeline (apps/demo-domain/event-pipeline-monolith/src):  *)
(* a reader, several parsers, a rules thread, an aggregator and a writer,  *)
(* connected by four blocking queues and joined by the coordinator.        *)
(*                                                                         *)
(* Events are the positions of their lines in the input: what a stage      *)
(* knows of an event is a function of its line.  A step is one queue call  *)
(* with the local work that follows it; the counters of Metrics are only   *)
(* read after the join, so counting is part of the step.                   *)
(***************************************************************************)
EXTENDS BlockingQueue, SequencesExt

CONSTANTS
    Parser,     \* the parser threads
    Line,       \* lines of the input file
    Missing,    \* a field that cannot be extracted
    MaxLines    \* bound: length of the input

ASSUME PipelineAssumption ==
    /\ Queue = {"raw", "parsed", "enriched", "result"}
    /\ IsFiniteSet(Parser) /\ Parser # {}
    /\ Parser \cap {"reader", "rules", "aggregator", "writer"} = {}
    /\ MaxLines \in Nat

VARIABLES
    input,          \* the lines of the input file
    inputOpens,     \* whether the input file can be opened
    outputOpens,    \* whether the output file can be opened
    pc,             \* what each thread does next
    held,           \* the event a thread has in hand
    sequence,       \* lines the reader has pushed
    active_parsers,
    stats,          \* the aggregator's totals per type
    order,          \* the iteration order of stats
    output,         \* results written
    metrics,
    finished        \* run() has returned

localVars == <<pc, held, sequence, active_parsers, stats, order, output, metrics, finished>>
files == <<input, inputOpens, outputOpens>>
vars == <<items, closed, emptyWait, fullWait, input, inputOpens, outputOpens,
          pc, held, sequence, active_parsers, stats, order, output, metrics, finished>>

Thread == Parser \cup {"reader", "rules", "aggregator", "writer"}

(***************************************************************************)
(* What the stages make of one line.                                       *)
(***************************************************************************)
SupportedType == {"click", "view", "purchase"}

\* The parser drops a line without ts, a known type, user or value; a ts it
\* cannot read becomes 0 and is no reason to drop the line.
ParseOK(l) ==
    /\ l.ts # Missing
    /\ l.type \in SupportedType
    /\ l.user # Missing
    /\ l.value # Missing

PassesRules(l) == l.value >= 10 /\ l.type # "view"

Counts(l) == ParseOK(l) /\ PassesRules(l)
Key(l) == l.type
Value(l) == l.value

ASSUME ValueAssumption == \A l \in Line : ParseOK(l) => Value(l) \in Int

(***************************************************************************)
(* The job this pipeline does, as AggregateJob states it.                  *)
(***************************************************************************)
HeldIndices == {held[t] : t \in {u \in Parser \cup {"rules"} : pc[u] = "give"}}

Unaccounted ==
    IF ~inputOpens THEN {}
    ELSE (sequence + 1 .. Len(input)) \cup HeldIndices \cup
         UNION {ToSet(items[q]) : q \in {"raw", "parsed", "enriched"}}

Job == INSTANCE AggregateJob WITH
    input <- IF inputOpens THEN input ELSE <<>>,
    writable <- outputOpens,
    todo <- Unaccounted,
    totals <- stats,
    published <- IF finished THEN {ToSet(output)} ELSE {}

(***************************************************************************)
(* The threads.                                                            *)
(***************************************************************************)
Init ==
    /\ QueueInit
    /\ input \in SeqOf(Line, MaxLines)
    /\ inputOpens \in BOOLEAN
    /\ outputOpens \in BOOLEAN
    /\ pc = [t \in Thread |-> IF t = "reader" THEN "give" ELSE "take"]
    /\ held = [t \in Thread |-> 0]
    /\ sequence = 0
    /\ active_parsers = Cardinality(Parser)
    /\ stats = [k \in {} |-> 0]
    /\ order = <<>>
    /\ output = <<>>
    /\ metrics = [read |-> 0, parsed |-> 0, invalid |-> 0, filtered |-> 0, aggregated |-> 0]
    /\ finished = FALSE

Goto(t, label) == pc' = [pc EXCEPT ![t] = label]
Count(counter) == metrics' = [metrics EXCEPT ![counter] = @ + 1]
Waits(call) == call /\ UNCHANGED localVars

\* readerThread
ReaderPushes ==
    /\ pc["reader"] = "give" /\ inputOpens /\ sequence < Len(input)
    /\ \/ /\ Push("raw", "reader", sequence + 1)
          /\ sequence' = sequence + 1
          /\ Count("read")
          /\ UNCHANGED <<pc, held, active_parsers, stats, order, output, finished>>
       \/ Waits(PushWait("raw", "reader"))
       \/ /\ PushRefused("raw", "reader")
          /\ Goto("reader", "close")
          /\ UNCHANGED <<held, sequence, active_parsers, stats, order, output, metrics, finished>>
    /\ UNCHANGED files

ReaderEnds ==
    /\ \/ pc["reader"] = "give" /\ (inputOpens => sequence = Len(input))
       \/ pc["reader"] = "close"
    /\ Close("raw")
    /\ Goto("reader", "done")
    /\ UNCHANGED <<held, sequence, active_parsers, stats, order, output, metrics, finished>>
    /\ UNCHANGED files

\* parserThread
ParserTakes(p) ==
    /\ pc[p] = "take"
    /\ \/ LET i == Head(items["raw"])
          IN  /\ Pop("raw", p)
              /\ \/ /\ ParseOK(input[i])
                    /\ held' = [held EXCEPT ![p] = i]
                    /\ Goto(p, "give")
                    /\ Count("parsed")
                 \/ /\ ~ParseOK(input[i])
                    /\ Count("invalid")
                    /\ UNCHANGED <<held, pc>>
              /\ UNCHANGED <<sequence, active_parsers, stats, order, output, finished>>
       \/ Waits(PopWait("raw", p))
       \/ /\ PopEnd("raw", p)
          /\ Goto(p, "leave")
          /\ UNCHANGED <<held, sequence, active_parsers, stats, order, output, metrics, finished>>
    /\ UNCHANGED files

ParserGives(p) ==
    /\ pc[p] = "give"
    /\ \/ Push("parsed", p, held[p]) /\ Goto(p, "take")
       \/ PushWait("parsed", p) /\ UNCHANGED pc
       \/ PushRefused("parsed", p) /\ Goto(p, "leave")
    /\ UNCHANGED <<held, sequence, active_parsers, stats, order, output, metrics, finished>>
    /\ UNCHANGED files

\* A mutated ParserLeaves: every parser closes the queue as it leaves.
ParserLeavesAndCloses(p) ==
    /\ pc[p] = "leave"
    /\ active_parsers' = active_parsers - 1
    /\ Goto(p, "close")
    /\ UNCHANGED <<queueVars, held, sequence, stats, order, output, metrics, finished>>
    /\ UNCHANGED files

\* A mutated ParserLeaves: it tests the count after the decrement, so that
\* the last but one closes the queue.
ParserLeavesOffByOne(p) ==
    /\ pc[p] = "leave"
    /\ active_parsers' = active_parsers - 1
    /\ Goto(p, IF active_parsers' = 1 THEN "close" ELSE "done")
    /\ UNCHANGED <<queueVars, held, sequence, stats, order, output, metrics, finished>>
    /\ UNCHANGED files

ParserLeaves(p) ==
    /\ pc[p] = "leave"
    /\ active_parsers' = active_parsers - 1
    /\ Goto(p, IF active_parsers = 1 THEN "close" ELSE "done")
    /\ UNCHANGED <<queueVars, held, sequence, stats, order, output, metrics, finished>>
    /\ UNCHANGED files

ParserCloses(p) ==
    /\ pc[p] = "close"
    /\ Close("parsed")
    /\ Goto(p, "done")
    /\ UNCHANGED <<held, sequence, active_parsers, stats, order, output, metrics, finished>>
    /\ UNCHANGED files

\* rulesThread
RulesTakes ==
    /\ pc["rules"] = "take"
    /\ \/ LET i == Head(items["parsed"])
          IN  /\ Pop("parsed", "rules")
              /\ \/ /\ PassesRules(input[i])
                    /\ held' = [held EXCEPT !["rules"] = i]
                    /\ Goto("rules", "give")
                    /\ UNCHANGED metrics
                 \/ /\ ~PassesRules(input[i])
                    /\ Count("filtered")
                    /\ UNCHANGED <<held, pc>>
              /\ UNCHANGED <<sequence, active_parsers, stats, order, output, finished>>
       \/ Waits(PopWait("parsed", "rules"))
       \/ /\ PopEnd("parsed", "rules")
          /\ Goto("rules", "close")
          /\ UNCHANGED <<held, sequence, active_parsers, stats, order, output, metrics, finished>>
    /\ UNCHANGED files

RulesGives ==
    /\ pc["rules"] = "give"
    /\ \/ Push("enriched", "rules", held["rules"]) /\ Goto("rules", "take")
       \/ PushWait("enriched", "rules") /\ UNCHANGED pc
       \/ PushRefused("enriched", "rules") /\ Goto("rules", "close")
    /\ UNCHANGED <<held, sequence, active_parsers, stats, order, output, metrics, finished>>
    /\ UNCHANGED files

RulesCloses ==
    /\ pc["rules"] = "close"
    /\ Close("enriched")
    /\ Goto("rules", "done")
    /\ UNCHANGED <<held, sequence, active_parsers, stats, order, output, metrics, finished>>
    /\ UNCHANGED files

\* aggregatorThread.  A new key goes to the front of stats' iteration order,
\* where libstdc++'s unordered_map links a node whose bucket is empty.
AggregatorTakes ==
    /\ pc["aggregator"] = "take"
    /\ \/ LET l == input[Head(items["enriched"])]
          IN  /\ Pop("enriched", "aggregator")
              /\ stats' = Job!Add(stats, l)
              /\ order' = IF Key(l) \in DOMAIN stats THEN order ELSE <<Key(l)>> \o order
              /\ Count("aggregated")
              /\ UNCHANGED <<pc, held, sequence, active_parsers, output, finished>>
       \/ Waits(PopWait("enriched", "aggregator"))
       \/ /\ PopEnd("enriched", "aggregator")
          /\ Goto("aggregator", "give")
          /\ held' = [held EXCEPT !["aggregator"] = 1]
          /\ UNCHANGED <<sequence, active_parsers, stats, order, output, metrics, finished>>
    /\ UNCHANGED files

ResultOf(k) == [key |-> k, count |-> stats[k].count, sum |-> stats[k].sum]

AggregatorGives ==
    LET n == held["aggregator"]
    IN  /\ pc["aggregator"] = "give" /\ n <= Len(order)
        /\ \/ /\ Push("result", "aggregator", ResultOf(order[n]))
              /\ held' = [held EXCEPT !["aggregator"] = n + 1]
              /\ UNCHANGED pc
           \/ PushWait("result", "aggregator") /\ UNCHANGED <<held, pc>>
           \/ /\ PushRefused("result", "aggregator")
              /\ Goto("aggregator", "close")
              /\ UNCHANGED held
        /\ UNCHANGED <<sequence, active_parsers, stats, order, output, metrics, finished>>
        /\ UNCHANGED files

AggregatorCloses ==
    /\ \/ pc["aggregator"] = "give" /\ held["aggregator"] > Len(order)
       \/ pc["aggregator"] = "close"
    /\ Close("result")
    /\ Goto("aggregator", "done")
    /\ UNCHANGED <<held, sequence, active_parsers, stats, order, output, metrics, finished>>
    /\ UNCHANGED files

\* writerThread: a writer that cannot open its file returns at once, and
\* neither drains nor closes the result queue.
WriterTakes ==
    /\ pc["writer"] = "take" /\ outputOpens
    /\ \/ /\ Pop("result", "writer")
          /\ output' = Append(output, Head(items["result"]))
          /\ UNCHANGED <<pc, held, sequence, active_parsers, stats, order, metrics, finished>>
       \/ Waits(PopWait("result", "writer"))
       \/ /\ PopEnd("result", "writer")
          /\ Goto("writer", "done")
          /\ UNCHANGED <<held, sequence, active_parsers, stats, order, output, metrics, finished>>
    /\ UNCHANGED files

WriterFails ==
    /\ pc["writer"] = "take" /\ ~outputOpens
    /\ Goto("writer", "done")
    /\ UNCHANGED <<queueVars, held, sequence, active_parsers, stats, order, output, metrics,
                   finished>>
    /\ UNCHANGED files

\* The coordinator has joined every thread.
Finish ==
    /\ ~finished
    /\ \A t \in Thread : pc[t] = "done"
    /\ finished' = TRUE
    /\ UNCHANGED <<queueVars, pc, held, sequence, active_parsers, stats, order, output, metrics>>
    /\ UNCHANGED files

ParserStep(p) == ParserTakes(p) \/ ParserGives(p) \/ ParserLeaves(p) \/ ParserCloses(p)
ReaderStep == ReaderPushes \/ ReaderEnds
RulesStep == RulesTakes \/ RulesGives \/ RulesCloses
AggregatorStep == AggregatorTakes \/ AggregatorGives \/ AggregatorCloses
WriterStep == WriterTakes \/ WriterFails

Next ==
    \/ ReaderStep \/ RulesStep \/ AggregatorStep \/ WriterStep \/ Finish
    \/ \E p \in Parser : ParserStep(p)

Spec == Init /\ [][Next]_vars

\* The operating system runs every thread that can run.
Fairness ==
    /\ WF_vars(ReaderStep) /\ WF_vars(RulesStep) /\ WF_vars(AggregatorStep)
    /\ WF_vars(WriterStep) /\ WF_vars(Finish)
    /\ \A p \in Parser : WF_vars(ParserStep(p))

FairSpec == Spec /\ Fairness

(***************************************************************************)
(* Properties.                                                             *)
(***************************************************************************)
Counters == {"read", "parsed", "invalid", "filtered", "aggregated"}

Producers ==
    [raw |-> {"reader"}, parsed |-> Parser, enriched |-> {"rules"}, result |-> {"aggregator"}]
Consumers ==
    [raw |-> Parser, parsed |-> {"rules"}, enriched |-> {"aggregator"}, result |-> {"writer"}]

\* The threads about to call push, or pop, on a queue.
Pushing(q) == {t \in Producers[q] : pc[t] = "give"}
Popping(q) == {t \in Consumers[q] : pc[t] = "take"}

\* Type invariant; a queue never holds more than its capacity, and only its
\* own producers and consumers wait on it.
TypeOK ==
    /\ \A q \in Queue :
        /\ \A n \in DOMAIN items[q] : q # "result" => items[q][n] \in 1 .. sequence
        /\ Capacity # 0 => Len(items[q]) <= Capacity
        /\ emptyWait[q] \subseteq Popping(q)
        /\ fullWait[q] \subseteq Pushing(q)
    /\ closed \in [Queue -> BOOLEAN]
    /\ pc \in [Thread -> {"take", "give", "leave", "close", "done"}]
    /\ sequence \in 0 .. Len(input)
    /\ active_parsers \in 0 .. Cardinality(Parser)
    /\ metrics \in [Counters -> 0 .. Len(input)]
    /\ DOMAIN stats = ToSet(order)

\* The events downstream of a stage are the ones its counters say it passed
\* on: whatever is neither counted as invalid, filtered or aggregated is in
\* exactly one queue or in one thread's hand.  No event is lost or doubled,
\* and the summary main prints adds up.
Conserved ==
    /\ metrics.read = sequence
    /\ sequence = Len(items["raw"]) + metrics.parsed + metrics.invalid
    /\ metrics.parsed = Cardinality(Pushing("parsed")) + Len(items["parsed"])
                        + metrics.filtered + Cardinality(Pushing("enriched"))
                        + Len(items["enriched"]) + metrics.aggregated

\* A queue is closed only when none of its producers will push again, so
\* push never drops an event: for the parsed queue this rests on the count
\* of active parsers.
ClosedAfterLastPush ==
    \A q \in Queue : closed[q] =>
        \A t \in Producers[q] : pc[t] \notin {"take", "give", "leave"}

\* notify_one suffices: where threads wait for an item, there are as many
\* others about to take one as there are items; the same for room; and no
\* thread waits on a closed queue.
NoLostWakeup ==
    \A q \in Queue :
        /\ emptyWait[q] # {} => Cardinality(Popping(q) \ emptyWait[q]) >= Len(items[q])
        /\ fullWait[q] # {} =>
            Cardinality(Pushing(q) \ fullWait[q]) >= Capacity - Len(items[q])
        /\ closed[q] => emptyWait[q] = {} /\ fullWait[q] = {}

\* The threads together do the aggregation job: each line is accounted for
\* once, and when run() returns the file holds every group's count and sum.
JobImplemented == Job!JobSpec

\* run() returns, unless the output file cannot be opened and there are
\* more results than the result queue holds: nobody drains it then.
ResultKeys == {Key(input[i]) : i \in {j \in DOMAIN input : Counts(input[j])}}

RunReturns ==
    outputOpens \/ Capacity = 0 \/ Cardinality(ResultKeys) <= Capacity => <>finished

\* What the verify mode of the demo script demands (run-monolith.mjs throws
\* on a checksum mismatch): the output file depends on the input alone, as
\* it does with one parser, where the type that passed last for the first
\* time comes first.
FirstOf(k) ==
    CHOOSE i \in DOMAIN input :
        /\ Counts(input[i]) /\ Key(input[i]) = k
        /\ \A j \in 1 .. i - 1 : ~(Counts(input[j]) /\ Key(input[j]) = k)

OutputOrderFixed ==
    \A m, n \in DOMAIN output : m < n => FirstOf(output[m].key) > FirstOf(output[n].key)
=============================================================================
