------------------------ MODULE SplitPipelineProofs ------------------------
(***************************************************************************)
(* For every input, batch size and number of crashes of the split          *)
(* pipeline: types are kept, the end of a stream never overtakes what is   *)
(* still to be sent on it, the events keep their order through batches     *)
(* and filters, the groups in the output file come in the order in which   *)
(* the input opens them, and the pipeline implements AggregateJob.         *)
(*                                                                         *)
(* IInv is about the ends of the streams.  PInv cuts what is under way     *)
(* into the ten pieces it comes in, from the aggregator back to the        *)
(* ingest service: every step but the reading of a line moves events from  *)
(* the head of one piece to the end of the next, or drops them.  RInv is   *)
(* about what has been delivered of the results, and JInv adds that the    *)
(* totals are positive counts and integer sums: what the job adds line by  *)
(* line, in an order it does not say, is what the aggregator adds message  *)
(* by message.                                                             *)
(*                                                                         *)
(* The induction theorems of the library take an operator as a parameter;  *)
(* here an induction looks at the least counterexample instead.            *)
(***************************************************************************)
EXTENDS SplitPipeline, FiniteSetTheorems, SequenceTheorems, NaturalsInduction,
        WellFoundedInduction, TLAPS

(***************************************************************************)
(* The ends of the streams.                                                *)
(***************************************************************************)
\* What is sent or received is held in functions over the services.
StreamTypes ==
    /\ sequence \in Nat
    /\ batch \in Seq(Nat)
    /\ requests = [s \in Service |-> requests[s]]
    /\ responses = [s \in Service |-> responses[s]]
    /\ pending = [s \in Stage |-> pending[s]]

\* A loop that sends a batch runs only while there is something to send.
SendsSomething == sending => batch # <<>>

IInv == StreamTypes /\ SendsSomething /\ EndIsLast

LEMMA InitIInv == Init => IInv
  BY DEF Init, IInv, StreamTypes, SendsSomething, EndIsLast, Service, Stage, Feeds

\* The rest of a batch that held more than one event is not empty.
LEMMA TailOfMore ==
    ASSUME NEW s \in Seq(Nat), s # <<>>
    PROVE  Tail(s) \in Seq(Nat) /\ (Len(s) > 1 => Tail(s) # <<>>)
<1>1. Tail(s) \in Seq(Nat) /\ Len(Tail(s)) = Len(s) - 1
  BY HeadTailProperties, Zenon
<1>2. Tail(s) = <<>> => Len(Tail(s)) = 0
  BY EmptySeq, Zenon
<1>3. Len(s) > 1 => Len(s) - 1 # 0
  <2>1. Len(s) \in Nat
    BY LenProperties, Zenon
  <2> DEFINE n == Len(s)
  <2> HIDE DEF n
  <2>2. n \in Nat /\ n > 1 => n - 1 # 0
    OBVIOUS
  <2> QED  BY <2>1, <2>2, Zenon DEF n
<1> QED  BY <1>1, <1>2, <1>3, Zenon

LEMMA IngestStep ==
    ASSUME IInv, ReadLine \/ SendEvent \/ EndIngest
    PROVE  IInv'
<1> USE DEF IInv, StreamTypes, SendsSomething, EndIsLast, Service, Stage, Feeds, Wanted,
            run, streams, aggregator, ending
<1>1. CASE ReadLine
  <2>1. batch' \in Seq(Nat) /\ batch' # <<>>
    BY <1>1 DEF ReadLine
  <2> QED  BY <1>1, <2>1 DEF ReadLine
<1>2. CASE SendEvent
  <2>1. batch # <<>> /\ "ingest" \notin responsesEnded
    BY <1>2 DEF SendEvent
  <2>2. batch' \in Seq(Nat) /\ (sending' => batch' # <<>>)
    BY <1>2, <2>1, TailOfMore DEF SendEvent
  <2> QED  BY <1>2, <2>1, <2>2 DEF SendEvent
<1>3. CASE EndIngest
  BY <1>3 DEF EndIngest
<1> QED  BY <1>1, <1>2, <1>3

LEMMA FilterStep ==
    ASSUME IInv, NEW s \in {"parse", "rules"}, Filter(s) \/ EndFilter(s)
    PROVE  IInv'
<1> USE DEF IInv, StreamTypes, SendsSomething, EndIsLast, Service, Stage, Feeds, Wanted,
            run, ingest, aggregator, ending
<1>1. CASE Filter(s)
  <2>1. s \notin responsesEnded
    BY <1>1 DEF Filter
  <2>2. \E new : responses' = [responses EXCEPT ![s] = new]
    <3> DEFINE kept == Only(Head(requests[s]), {i \in DOMAIN input : Keeps(s, input[i])})
    <3>1. responses' = IF kept = <<>> THEN responses
                       ELSE [responses EXCEPT ![s] = Append(@, kept)]
      BY <1>1, Zenon DEF Filter
    <3> HIDE DEF kept
    <3>2. responses = [responses EXCEPT ![s] = responses[s]]
      OBVIOUS
    <3> QED  BY <3>1, <3>2
  <2> QED  BY <1>1, <2>1, <2>2 DEF Filter
<1>2. CASE EndFilter(s)
  BY <1>2 DEF EndFilter, RequestsDone
<1> QED  BY <1>1, <1>2

LEMMA AggregateStep ==
    ASSUME IInv, Aggregate \/ EndAggregate
    PROVE  IInv'
<1> USE DEF IInv, StreamTypes, SendsSomething, EndIsLast, Service, Stage, Feeds, Wanted,
            run, ingest, aggregator, ending
<1>1. CASE Aggregate
  BY <1>1 DEF Aggregate
<1>2. CASE EndAggregate
  <2>1. \E new : responses' = [responses EXCEPT !["aggregate"] = new]
    BY <1>2 DEF EndAggregate
  <2> QED  BY <1>2, <2>1 DEF EndAggregate, RequestsDone
<1> QED  BY <1>1, <1>2

\* Leaving a stream alone is writing what it already holds.
LEMMA RequestsKept ==
    ASSUME IInv, NEW s \in Stage
    PROVE  requests = [requests EXCEPT ![Feeds[s]] = requests[Feeds[s]]]
  BY DEF IInv, StreamTypes, Stage, Feeds, Service

\* The orchestrator writes to a stream only before it half-closes it.
LEMMA RelayStep ==
    ASSUME IInv, NEW s \in Stage, RelayEvents(s) \/ RelayEnd(s)
    PROVE  IInv'
<1> USE DEF IInv, StreamTypes, SendsSomething, EndIsLast, Service, Stage, Feeds, Wanted,
            run, ingest, aggregator, ending
<1>1. CASE RelayEvents(s)
  <2>1. Feeds[s] \notin requestsEnded /\ Feeds[s] \notin responsesEnded
    BY <1>1 DEF RelayEvents
  <2>2. \E new : requests' = [requests EXCEPT ![Feeds[s]] = new]
    BY <1>1, RequestsKept, Zenon DEF RelayEvents
  <2>3. \E new : pending' = [pending EXCEPT ![s] = new]
    BY <1>1 DEF RelayEvents
  <2> QED  BY <1>1, <2>1, <2>2, <2>3 DEF RelayEvents
<1>2. CASE RelayEnd(s)
  <2>1. Feeds[s] \notin responsesEnded
    BY <1>2 DEF RelayEnd, Ended
  <2>2. \E new : requests' = [requests EXCEPT ![Feeds[s]] = new]
    BY <1>2, RequestsKept, Zenon DEF RelayEnd, Flushed
  <2>3. /\ responses[s] = <<>> /\ s \in responsesEnded
        /\ pending' = [pending EXCEPT ![s] = <<>>]
        /\ requestsEnded' = requestsEnded \cup {Feeds[s]}
        /\ UNCHANGED <<run, ingest, responses, responsesEnded>>
    BY <1>2 DEF RelayEnd, Ended
  <2>4. StreamTypes' /\ SendsSomething'
    BY <2>2, <2>3
  <2>5. EndIsLast'
    BY <2>1, <2>2, <2>3
  <2> QED  BY <2>4, <2>5
<1> QED  BY <1>1, <1>2

LEMMA ResultsStep ==
    ASSUME IInv, RelayResults \/ EndResults \/ WriteResult \/ CloseOutput
    PROVE  IInv'
<1> USE DEF IInv, StreamTypes, SendsSomething, EndIsLast, Service, Stage, Feeds, Wanted,
            run, ingest, aggregator, ending
<1>1. CASE RelayResults
  <2>1. "sink" \notin requestsEnded /\ "sink" \notin responsesEnded
    BY <1>1 DEF RelayResults
  <2>2. \E new : requests' = [requests EXCEPT !["sink"] = new]
    BY <1>1 DEF RelayResults
  <2> QED  BY <1>1, <2>1, <2>2 DEF RelayResults
<1>2. CASE EndResults
  BY <1>2 DEF EndResults, Ended
<1>3. CASE WriteResult
  BY <1>3 DEF WriteResult
<1>4. CASE CloseOutput
  BY <1>4 DEF CloseOutput, RequestsDone
<1> QED  BY <1>1, <1>2, <1>3, <1>4

\* Crashes and the end of the run leave the streams as they are.
LEMMA EndingStep ==
    ASSUME IInv, Complete \/ Abandon \/ (\E s \in Service : Crash(s) \/ StreamError(s))
    PROVE  IInv'
<1>1. UNCHANGED <<run, ingest, streams, pending>>
  BY DEF Complete, Abandon, Crash, StreamError
<1> QED
  BY <1>1 DEF IInv, StreamTypes, SendsSomething, EndIsLast, Wanted, run, ingest, streams

LEMMA IInvStep == IInv /\ [Next]_vars => IInv'
<1> SUFFICES ASSUME IInv, [Next]_vars PROVE IInv'
  OBVIOUS
<1>1. CASE UNCHANGED vars
  BY <1>1 DEF IInv, StreamTypes, SendsSomething, EndIsLast, Wanted, vars
<1>2. CASE Next
  BY <1>2, IngestStep, FilterStep, AggregateStep, RelayStep, ResultsStep, EndingStep DEF Next
<1> QED  BY <1>1, <1>2

\* The end of the input never overtakes a last batch, in any of the streams,
\* whatever the batch size, the timing and the crashes.
THEOREM EndComesLast == Spec => []EndIsLast
<1>1. IInv => EndIsLast
  BY DEF IInv
<1> QED  BY InitIInv, IInvStep, <1>1, PTL DEF Spec

(***************************************************************************)
(* Messages, put together, and what is left of them.                       *)
(***************************************************************************)
\* A nonempty set of natural numbers has a least element: induction, in the
\* form that needs no operator as a parameter.
LEMMA LeastNatural ==
    ASSUME NEW T \in SUBSET Nat, T # {}
    PROVE  \E x \in T : \A y \in T : x <= y
<1> DEFINE R == {ss \in Nat \X Nat : ss[1] < ss[2]}
<1>1. IsWellFoundedOn(R, Nat)
  BY NatLessThanWellFounded, Zenon DEF OpToRel
<1>2. \A x, y \in Nat : <<x, y>> \in R <=> x < y
  OBVIOUS
<1> HIDE DEF R
<1>3. PICK x \in T : \A y \in T : ~(<<y, x>> \in R)
  BY <1>1, WFMin, Zenon
<1>4. \A y \in T : ~(y < x)
  BY <1>2, <1>3
<1> QED
  BY <1>3, <1>4

\* What FlattenSeq does.  f holds the first n messages of q, put together.
Joins(f, q, n) ==
    f = [i \in 1 .. n |-> IF i = 1 THEN q[i] ELSE f[i - 1] \o q[i]]

LEMMA JoinsOnce ==
    ASSUME NEW q, NEW r, NEW k \in Nat, NEW m \in Nat, k <= m, NEW f, NEW g,
           Joins(f, q, k), Joins(g, r, m), \A i \in 1 .. k : q[i] = r[i]
    PROVE  \A i \in 1 .. k : f[i] = g[i]
<1> DEFINE T == {i \in 1 .. k : f[i] # g[i]}
<1>1. SUFFICES ASSUME T # {} PROVE FALSE
  OBVIOUS
<1>2. T \in SUBSET Nat
  OBVIOUS
<1>3. PICK i \in T : \A j \in T : i <= j
  <2> HIDE DEF T
  <2> QED
    BY <1>1, <1>2, LeastNatural
<1>4. i # 1
  BY <1>3 DEF Joins
<1>5. i - 1 \in 1 .. k /\ i - 1 \notin T
  BY <1>3, <1>4
<1>6. f[i - 1] = g[i - 1]
  BY <1>5
<1>7. f[i] = f[i - 1] \o q[i]
  BY <1>3, <1>4 DEF Joins
<1>8. g[i] = g[i - 1] \o r[i]
  <2>1. i \in 1 .. m
    BY <1>3
  <2> QED
    BY <1>4, <2>1 DEF Joins
<1> QED
  BY <1>3, <1>6, <1>7, <1>8

LEMMA JoinsExists ==
    ASSUME NEW q, NEW n \in Nat
    PROVE  \E f : Joins(f, q, n)
<1> DEFINE T == {k \in Nat : ~ \E f : Joins(f, q, k)}
<1>1. SUFFICES ASSUME T # {} PROVE FALSE
  OBVIOUS
<1>2. T \in SUBSET Nat
  OBVIOUS
<1>3. PICK k \in T : \A j \in T : k <= j
  <2> HIDE DEF T
  <2> QED
    BY <1>1, <1>2, LeastNatural
<1>4. k # 0
  <2>1. Joins([i \in 1 .. 0 |-> q[i]], q, 0)
    BY DEF Joins
  <2> QED
    BY <1>3, <2>1
<1>5. k - 1 \in Nat /\ k - 1 \notin T
  BY <1>3, <1>4
<1>6. PICK f : Joins(f, q, k - 1)
  BY <1>5
<1> DEFINE g == [i \in 1 .. k |-> IF i < k THEN f[i] ELSE IF i = 1 THEN q[i] ELSE f[i - 1] \o q[i]]
<1>7. ASSUME NEW i \in 1 .. k
      PROVE  g[i] = IF i = 1 THEN q[i] ELSE g[i - 1] \o q[i]
  <2>1. CASE i < k
    <3>1. i \in 1 .. k - 1
      BY <2>1
    <3>2. f[i] = IF i = 1 THEN q[i] ELSE f[i - 1] \o q[i]
      BY <1>6, <3>1 DEF Joins
    <3> QED
      BY <2>1, <3>2
  <2>2. CASE i = k
    BY <2>2
  <2> QED
    BY <2>1, <2>2
<1>8. Joins(g, q, k)
  <2>1. g = [i \in 1 .. k |-> g[i]]
    OBVIOUS
  <2> HIDE DEF g
  <2> QED
    BY <1>7, <2>1 DEF Joins
<1> QED
  BY <1>3, <1>8

\* FlattenSeq is the last of them.
LEMMA FlattenJoins ==
    ASSUME NEW q, Len(q) \in Nat, Len(q) # 0, NEW f, Joins(f, q, Len(q))
    PROVE  FlattenSeq(q) = f[Len(q)]
<1> DEFINE c == CHOOSE g : g = [i \in 1 .. Len(q) |-> IF i = 1 THEN q[i] ELSE g[i - 1] \o q[i]]
<1>1. FlattenSeq(q) = c[Len(q)]
  BY DEF FlattenSeq
<1>2. Joins(c, q, Len(q))
  <2>1. \E g : g = [i \in 1 .. Len(q) |-> IF i = 1 THEN q[i] ELSE g[i - 1] \o q[i]]
    BY JoinsExists DEF Joins
  <2> QED
    BY <2>1 DEF Joins
<1> HIDE DEF c
<1>3. \A i \in 1 .. Len(q) : c[i] = f[i]
  BY <1>2, JoinsOnce
<1> QED
  BY <1>1, <1>3

LEMMA FlattenNone == FlattenSeq(<<>>) = <<>>
BY DEF FlattenSeq

\* A message sent last comes last,
LEMMA FlattenAppend ==
    ASSUME NEW S, NEW q \in Seq(Seq(S)), NEW msg \in Seq(S)
    PROVE  FlattenSeq(Append(q, msg)) = FlattenSeq(q) \o msg
<1> DEFINE n == Len(q)
           more == Append(q, msg)
<1>1. /\ n \in Nat /\ n + 1 \in Nat /\ n = Len(q) /\ Len(more) = n + 1
      /\ \A i \in 1 .. n : more[i] = q[i]
      /\ more[n + 1] = msg
  BY AppendProperties, LenProperties
<1> HIDE DEF more, n
<1>2. PICK g : Joins(g, more, n + 1)
  BY <1>1, JoinsExists
<1>3. FlattenSeq(more) = g[n + 1]
  BY <1>1, <1>2, FlattenJoins
<1>4. CASE n = 0
  <2>1. q = <<>>
    BY <1>1, <1>4, EmptySeq
  <2>2. g[n + 1] = msg
    BY <1>1, <1>2, <1>4 DEF Joins
  <2>3. <<>> \o msg = msg
    BY ConcatEmptySeq
  <2> QED
    BY <1>3, <2>1, <2>2, <2>3, FlattenNone DEF more
<1>5. CASE n # 0
  <2> DEFINE f == [i \in 1 .. n |-> g[i]]
  <2>1. Joins(f, q, n)
    <3>1. ASSUME NEW i \in 1 .. n
          PROVE  f[i] = IF i = 1 THEN q[i] ELSE f[i - 1] \o q[i]
      <4>1. i \in 1 .. n + 1 /\ more[i] = q[i] /\ f[i] = g[i] /\ (i # 1 => f[i - 1] = g[i - 1])
        BY <1>1
      <4> QED
        BY <1>2, <4>1 DEF Joins
    <3>2. f = [i \in 1 .. n |-> f[i]]
      OBVIOUS
    <3> HIDE DEF f
    <3> QED
      BY <3>1, <3>2 DEF Joins
  <2>3. f[n] = g[n]
    BY <1>1, <1>5
  <2> HIDE DEF f
  <2>2. FlattenSeq(q) = f[n]
    BY <1>1, <1>5, <2>1, FlattenJoins
  <2>4. g[n + 1] = g[n] \o msg
    <3>1. n + 1 \in 1 .. n + 1 /\ n + 1 # 1 /\ (n + 1) - 1 = n
      BY <1>1, <1>5
    <3> QED
      BY <1>1, <1>2, <3>1 DEF Joins
  <2> QED
    BY <1>3, <2>2, <2>3, <2>4 DEF more
<1> QED
  BY <1>4, <1>5

LEMMA FlattenType ==
    ASSUME NEW S, NEW q \in Seq(Seq(S))
    PROVE  FlattenSeq(q) \in Seq(S)
<1> DEFINE n == Len(q)
<1>1. n \in Nat /\ \A i \in 1 .. n : q[i] \in Seq(S)
  BY LenProperties, ElementOfSeq
<1>2. CASE n = 0
  BY <1>2, EmptySeq, FlattenNone
<1>3. CASE n # 0
  <2>1. PICK f : Joins(f, q, n)
    BY <1>1, JoinsExists
  <2> DEFINE T == {i \in 1 .. n : f[i] \notin Seq(S)}
  <2>2. T = {}
    <3> SUFFICES ASSUME T # {} PROVE FALSE
      OBVIOUS
    <3>1. T \in SUBSET Nat
      BY <1>1
    <3>2. PICK i \in T : \A j \in T : i <= j
      <4> HIDE DEF T
      <4> QED
        BY <3>1, LeastNatural
    <3>3. i # 1
      BY <1>1, <2>1, <3>2 DEF Joins
    <3>4. i - 1 \in 1 .. n /\ i - 1 \notin T
      BY <1>1, <3>2, <3>3
    <3>5. f[i - 1] \in Seq(S) /\ q[i] \in Seq(S)
      BY <1>1, <3>2, <3>4
    <3>6. f[i] = f[i - 1] \o q[i]
      BY <2>1, <3>2, <3>3 DEF Joins
    <3>7. f[i - 1] \o q[i] \in Seq(S)
      BY <3>5, ConcatProperties, ZenonT(60)
    <3> QED
      BY <3>2, <3>6, <3>7
  <2>3. n \in 1 .. n
    BY <1>1, <1>3
  <2>4. f[n] \in Seq(S)
    BY <2>2, <2>3
  <2> QED
    BY <1>1, <1>3, <2>1, <2>4, FlattenJoins
<1> QED
  BY <1>2, <1>3

\* and the first message comes first.
LEMMA FlattenHead ==
    ASSUME NEW S, NEW q \in Seq(Seq(S)), q # <<>>
    PROVE  FlattenSeq(q) = Head(q) \o FlattenSeq(Tail(q))
<1> DEFINE n == Len(q)
           rest == Tail(q)
<1>1. /\ n \in Nat \ {0} /\ Head(q) = q[1]
      /\ rest \in Seq(Seq(S)) /\ Len(rest) = n - 1
      /\ \A i \in 1 .. n - 1 : rest[i] = q[i + 1]
      /\ \A i \in 1 .. n : q[i] \in Seq(S)
      /\ n = Len(q)
  <2>1. n \in Nat \ {0} /\ \A i \in 1 .. n : q[i] \in Seq(S)
    BY EmptySeq, LenProperties, ElementOfSeq
  <2>2. rest \in Seq(Seq(S)) /\ Len(rest) = n - 1 /\ \A i \in 1 .. Len(rest) : rest[i] = q[i + 1]
    BY HeadTailProperties
  <2> QED
    BY <2>1, <2>2
<1> HIDE DEF rest, n
<1>2. PICK f : Joins(f, q, n)
  BY <1>1, JoinsExists
<1>3. FlattenSeq(q) = f[n]
  BY <1>1, <1>2, FlattenJoins
<1>4. f[1] = q[1] /\ q[1] \in Seq(S)
  BY <1>1, <1>2 DEF Joins
<1>5. CASE n = 1
  <2>1. rest = <<>>
    BY <1>1, <1>5, EmptySeq
  <2>2. q[1] \o <<>> = q[1]
    BY <1>4, ConcatEmptySeq
  <2> QED
    BY <1>1, <1>3, <1>4, <1>5, <2>1, <2>2, FlattenNone DEF rest
<1>6. CASE n # 1
  <2>1. n - 1 \in Nat \ {0}
    BY <1>1, <1>6
  <2>2. PICK g : Joins(g, rest, n - 1)
    BY <2>1, JoinsExists
  <2>3. FlattenSeq(rest) = g[n - 1]
    BY <1>1, <2>1, <2>2, FlattenJoins
  <2> DEFINE T == {i \in 1 .. n - 1 : ~(g[i] \in Seq(S) /\ f[i + 1] = q[1] \o g[i])}
  <2>4. T = {}
    <3> SUFFICES ASSUME T # {} PROVE FALSE
      OBVIOUS
    <3>1. T \in SUBSET Nat
      <4>1. 1 .. n - 1 \subseteq Nat
        BY <1>1
      <4> QED
        BY <4>1
    <3>2. PICK i \in T : \A j \in T : i <= j
      <4> HIDE DEF T
      <4> QED
        BY <3>1, LeastNatural
    <3>3. i \in 1 .. n - 1 /\ i + 1 \in 1 .. n /\ i + 1 # 1 /\ (i + 1) - 1 = i
      BY <1>1, <3>2
    <3>4. f[i + 1] = f[i] \o q[i + 1] /\ rest[i] = q[i + 1] /\ q[i + 1] \in Seq(S)
      BY <1>1, <1>2, <3>3 DEF Joins
    <3>5. CASE i = 1
      <4>1. g[i] = q[i + 1]
        BY <2>2, <3>3, <3>4, <3>5 DEF Joins
      <4> QED
        BY <1>4, <3>2, <3>4, <3>5, <4>1
    <3>6. CASE i # 1
      <4>1. i - 1 \in 1 .. n - 1 /\ i - 1 \notin T /\ (i - 1) + 1 = i
        <5>1. i - 1 \in 1 .. n - 1 /\ ~(i <= i - 1) /\ (i - 1) + 1 = i
          BY <1>1, <3>3, <3>6
        <5> QED
          BY <3>2, <5>1
      <4>2. g[i - 1] \in Seq(S) /\ f[i] = q[1] \o g[i - 1]
        BY <4>1
      <4>3. g[i] = g[i - 1] \o q[i + 1]
        BY <2>2, <3>3, <3>4, <3>6 DEF Joins
      <4>4. g[i] \in Seq(S)
        BY <3>4, <4>2, <4>3, ConcatProperties
      <4>5. (q[1] \o g[i - 1]) \o q[i + 1] = q[1] \o (g[i - 1] \o q[i + 1])
        <5> DEFINE u == q[1]
                   v == g[i - 1]
                   w == q[i + 1]
        <5>1. u \in Seq(S) /\ v \in Seq(S) /\ w \in Seq(S)
          BY <1>4, <3>4, <4>2
        <5> HIDE DEF u, v, w
        <5>2. (u \o v) \o w = u \o (v \o w)
          BY <5>1, ConcatAssociative, SMTT(60)
        <5> QED
          BY <5>2 DEF u, v, w
      <4> QED
        BY <3>2, <3>4, <4>2, <4>3, <4>4, <4>5
    <3> QED
      BY <3>5, <3>6
  <2>5. n - 1 \in 1 .. n - 1 /\ (n - 1) + 1 = n
    BY <1>1, <2>1
  <2>6. f[n] = q[1] \o g[n - 1]
    BY <2>4, <2>5
  <2> QED
    BY <1>1, <1>3, <2>3, <2>6 DEF rest
<1> QED
  BY <1>5, <1>6

\* What Only does.  f holds what is left of the first n elements of q.
Leaves(f, q, set, n) ==
    f = [i \in 0 .. n |-> IF i = 0 THEN <<>>
                          ELSE IF q[i] \in set THEN Append(f[i - 1], q[i]) ELSE f[i - 1]]

LEMMA LeavesExists ==
    ASSUME NEW q, NEW set, NEW n \in Nat
    PROVE  \E f : Leaves(f, q, set, n)
<1> DEFINE T == {k \in Nat : ~ \E f : Leaves(f, q, set, k)}
<1>1. SUFFICES ASSUME T # {} PROVE FALSE
  OBVIOUS
<1>2. T \in SUBSET Nat
  OBVIOUS
<1>3. PICK k \in T : \A j \in T : k <= j
  <2> HIDE DEF T
  <2> QED
    BY <1>1, <1>2, LeastNatural
<1>4. k # 0
  <2>1. Leaves([i \in 0 .. 0 |-> <<>>], q, set, 0)
    BY DEF Leaves
  <2> QED
    BY <1>3, <2>1
<1>5. k - 1 \in Nat /\ k - 1 \notin T
  BY <1>3, <1>4
<1>6. PICK f : Leaves(f, q, set, k - 1)
  BY <1>5
<1> DEFINE g == [i \in 0 .. k |-> IF i < k THEN f[i]
                                  ELSE IF q[i] \in set THEN Append(f[i - 1], q[i]) ELSE f[i - 1]]
<1>7. ASSUME NEW i \in 0 .. k
      PROVE  g[i] = IF i = 0 THEN <<>>
                    ELSE IF q[i] \in set THEN Append(g[i - 1], q[i]) ELSE g[i - 1]
  <2>1. CASE i < k
    <3>1. i \in 0 .. k - 1
      BY <2>1
    <3>2. f[i] = IF i = 0 THEN <<>>
                 ELSE IF q[i] \in set THEN Append(f[i - 1], q[i]) ELSE f[i - 1]
      BY <1>6, <3>1 DEF Leaves
    <3> QED
      BY <2>1, <3>2
  <2>2. CASE i = k
    BY <1>4, <2>2
  <2> QED
    BY <2>1, <2>2
<1>8. Leaves(g, q, set, k)
  <2>1. g = [i \in 0 .. k |-> g[i]]
    OBVIOUS
  <2> HIDE DEF g
  <2> QED
    BY <1>7, <2>1 DEF Leaves
<1> QED
  BY <1>3, <1>8

LEMMA OnlyLeaves ==
    ASSUME NEW q, NEW set, Len(q) \in Nat
    PROVE  \E f : Leaves(f, q, set, Len(q)) /\ Only(q, set) = f[Len(q)]
<1> DEFINE c == CHOOSE g : g = [i \in 0 .. Len(q) |->
                    IF i = 0 THEN <<>>
                    ELSE IF q[i] \in set THEN Append(g[i - 1], q[i]) ELSE g[i - 1]]
<1>1. Only(q, set) = c[Len(q)]
  BY DEF Only
<1>2. Leaves(c, q, set, Len(q))
  <2>1. \E g : g = [i \in 0 .. Len(q) |->
                    IF i = 0 THEN <<>>
                    ELSE IF q[i] \in set THEN Append(g[i - 1], q[i]) ELSE g[i - 1]]
    <3>1. PICK f : Leaves(f, q, set, Len(q))
      BY LeavesExists
    <3> QED
      BY <3>1 DEF Leaves
  <2> QED
    BY <2>1 DEF Leaves
<1> QED
  BY <1>1, <1>2

\* h tells the positions in q, among the first n, of the elements of r.
Picks(h, r, q, set, n) ==
    /\ h \in [1 .. Len(r) -> 1 .. n]
    /\ \A i \in 1 .. Len(r) : r[i] = q[h[i]] /\ q[h[i]] \in set
    /\ \A i, j \in 1 .. Len(r) : i < j => h[i] < h[j]
    /\ \A i \in 1 .. n : q[i] \in set => \E j \in 1 .. Len(r) : h[j] = i

LEMMA PicksNext ==
    ASSUME NEW S, NEW q \in Seq(S), NEW set, NEW k \in 1 .. Len(q), NEW r \in Seq(S), NEW h,
           Picks(h, r, q, set, k - 1)
    PROVE  /\ q[k] \notin set => Picks(h, r, q, set, k)
           /\ q[k] \in set => \E g : Picks(g, Append(r, q[k]), q, set, k)
<1>1. CASE q[k] \notin set
  <2>1. h \in [1 .. Len(r) -> 1 .. k]
    BY DEF Picks
  <2>2. \A i \in 1 .. k : q[i] \in set => i \in 1 .. k - 1
    BY <1>1
  <2> QED
    BY <1>1, <2>1, <2>2 DEF Picks
<1>2. CASE q[k] \in set
  <2> DEFINE m == Len(r)
             s == Append(r, q[k])
             g == [i \in 1 .. m + 1 |-> IF i = m + 1 THEN k ELSE h[i]]
  <2>1. q[k] \in S /\ m \in Nat
    OBVIOUS
  <2>2. Len(s) = m + 1 /\ (\A i \in 1 .. m : s[i] = r[i]) /\ s[m + 1] = q[k]
    BY <2>1
  <2>3. \A i \in 1 .. m : g[i] = h[i] /\ h[i] \in 1 .. k - 1
    BY <2>1 DEF Picks
  <2>4. g[m + 1] = k /\ m + 1 \in 1 .. m + 1
    BY <2>1
  <2>5. \A i \in 1 .. m + 1 : i = m + 1 \/ i \in 1 .. m
    BY <2>1
  <2>6. g \in [1 .. m + 1 -> 1 .. k]
    <3>1. g = [i \in 1 .. m + 1 |-> g[i]]
      OBVIOUS
    <3> HIDE DEF g, m
    <3>2. \A i \in 1 .. m : g[i] \in 1 .. k - 1
      BY <2>3
    <3>3. k \in 1 .. k /\ 1 .. k - 1 \subseteq 1 .. k
      OBVIOUS
    <3>4. \A i \in 1 .. m + 1 : g[i] \in 1 .. k
      BY <2>4, <2>5, <3>2, <3>3
    <3> QED
      BY <3>1, <3>4
  <2> HIDE DEF g, s, m
  <2>7. \A i \in 1 .. m + 1 : s[i] = q[g[i]] /\ q[g[i]] \in set
    BY <1>2, <2>2, <2>3, <2>4, <2>5 DEF Picks, m
  <2>8. ASSUME NEW i \in 1 .. m + 1, NEW j \in 1 .. m + 1, i < j
        PROVE  g[i] < g[j]
    <3>1. i \in 1 .. m
      BY <2>1, <2>8
    <3>2. CASE j = m + 1
      BY <2>3, <2>4, <3>1, <3>2
    <3>3. CASE j \in 1 .. m
      BY <2>3, <2>8, <3>1, <3>3 DEF Picks, m
    <3> QED
      BY <2>5, <3>2, <3>3
  <2>9. ASSUME NEW i \in 1 .. k, q[i] \in set
        PROVE  \E j \in 1 .. m + 1 : g[j] = i
    <3>1. CASE i = k
      BY <2>4, <3>1
    <3>2. CASE i # k
      <4>1. i \in 1 .. k - 1
        BY <3>2
      <4>2. PICK j \in 1 .. m : h[j] = i
        BY <2>9, <4>1 DEF Picks, m
      <4>3. j \in 1 .. m + 1
        BY <2>1
      <4> QED
        BY <2>3, <4>2, <4>3
    <3> QED
      BY <3>1, <3>2
  <2>10. Picks(g, s, q, set, k)
    BY <2>2, <2>6, <2>7, <2>8, <2>9 DEF Picks
  <2> QED
    BY <1>2, <2>10 DEF s
<1> QED
  BY <1>1, <1>2

\* Only keeps the elements of the set, in their order.
LEMMA OnlyPicks ==
    ASSUME NEW S, NEW q \in Seq(S), NEW set
    PROVE  /\ Only(q, set) \in Seq(S)
           /\ \E h : Picks(h, Only(q, set), q, set, Len(q))
<1>1. Len(q) \in Nat
  OBVIOUS
<1>2. PICK f : Leaves(f, q, set, Len(q)) /\ Only(q, set) = f[Len(q)]
  BY <1>1, OnlyLeaves
<1> DEFINE Good(k) == f[k] \in Seq(S) /\ \E h : Picks(h, f[k], q, set, k)
           T == {k \in 0 .. Len(q) : ~Good(k)}
<1>3. SUFFICES ASSUME T # {} PROVE FALSE
  BY <1>1, <1>2
<1>4. T \in SUBSET Nat
  <2>1. 0 .. Len(q) \subseteq Nat
    BY <1>1
  <2> QED
    BY <2>1
<1>5. PICK k \in T : \A j \in T : k <= j
  <2> HIDE DEF T
  <2> QED
    BY <1>3, <1>4, LeastNatural
<1>6. k # 0
  <2>1. f[0] = <<>> /\ 0 \in 0 .. Len(q)
    BY <1>1, <1>2 DEF Leaves
  <2>2. <<>> \in Seq(S) /\ Len(<<>>) = 0
    BY EmptySeq
  <2>3. Picks([i \in {} |-> 0], <<>>, q, set, 0)
    BY <2>2 DEF Picks
  <2> QED
    BY <1>5, <2>1, <2>2, <2>3
<1>7. k \in 1 .. Len(q) /\ k - 1 \in 0 .. Len(q) /\ ~(k <= k - 1)
  BY <1>1, <1>5, <1>6
<1>8. Good(k - 1)
  BY <1>5, <1>7
<1>9. f[k] = IF q[k] \in set THEN Append(f[k - 1], q[k]) ELSE f[k - 1]
  BY <1>2, <1>6, <1>7 DEF Leaves
<1>10. PICK h : Picks(h, f[k - 1], q, set, k - 1)
  BY <1>8
<1> DEFINE r == f[k - 1]
<1>11. r \in Seq(S) /\ Picks(h, r, q, set, k - 1)
  BY <1>8, <1>10
<1> HIDE DEF r
<1>12. /\ q[k] \notin set => Picks(h, r, q, set, k)
       /\ q[k] \in set => \E g : Picks(g, Append(r, q[k]), q, set, k)
  BY <1>7, <1>11, PicksNext
<1>13. q[k] \in S
  BY <1>7
<1>14. Good(k)
  <2>1. CASE q[k] \in set
    BY <1>9, <1>11, <1>12, <1>13, <2>1 DEF r
  <2>2. CASE q[k] \notin set
    BY <1>9, <1>11, <1>12, <2>2 DEF r
  <2> QED
    BY <2>1, <2>2
<1> QED
  BY <1>5, <1>14

(***************************************************************************)
(* Increasing sequences, and the pieces the events under way come in.      *)
(***************************************************************************)
Increasing(q) == \A i, j \in DOMAIN q : i < j => q[i] < q[j]

LEMMA Parts ==
    ASSUME NEW S, NEW q \in Seq(S), NEW r \in Seq(S)
    PROVE  q \o r \in Seq(S) /\ ToSet(q \o r) = ToSet(q) \cup ToSet(r)
<1>1. /\ q \o r \in Seq(S) /\ Len(q \o r) = Len(q) + Len(r)
      /\ \A i \in 1 .. Len(q) + Len(r) :
            (q \o r)[i] = IF i <= Len(q) THEN q[i] ELSE r[i - Len(q)]
  BY ConcatProperties
<1>2. /\ DOMAIN (q \o r) = 1 .. Len(q) + Len(r) /\ DOMAIN q = 1 .. Len(q)
      /\ DOMAIN r = 1 .. Len(r) /\ Len(q) \in Nat /\ Len(r) \in Nat
  BY <1>1, LenProperties
<1> DEFINE c == q \o r
           m == Len(q)
           n == Len(r)
<1> HIDE DEF c, m, n
<1>3. /\ DOMAIN c = 1 .. m + n /\ DOMAIN q = 1 .. m /\ DOMAIN r = 1 .. n
      /\ m \in Nat /\ n \in Nat
      /\ \A i \in 1 .. m + n : c[i] = IF i <= m THEN q[i] ELSE r[i - m]
  BY <1>1, <1>2 DEF c, m, n
<1>4. ASSUME NEW x \in ToSet(c)
      PROVE  x \in ToSet(q) \cup ToSet(r)
  <2>1. PICK i \in 1 .. m + n : x = c[i]
    BY <1>3 DEF ToSet
  <2>2. CASE i <= m
    BY <1>3, <2>1, <2>2 DEF ToSet
  <2>3. CASE ~(i <= m)
    <3>1. i - m \in 1 .. n
      BY <1>3, <2>1, <2>3
    <3> QED
      BY <1>3, <2>1, <2>3, <3>1 DEF ToSet
  <2> QED
    BY <2>2, <2>3
<1>5. ASSUME NEW i \in 1 .. m
      PROVE  q[i] \in ToSet(c)
  <2>1. i \in 1 .. m + n /\ i <= m
    BY <1>3
  <2> QED
    BY <1>3, <2>1 DEF ToSet
<1>6. ASSUME NEW i \in 1 .. n
      PROVE  r[i] \in ToSet(c)
  <2>1. i + m \in 1 .. m + n /\ ~(i + m <= m) /\ (i + m) - m = i
    BY <1>3
  <2> QED
    BY <1>3, <2>1 DEF ToSet
<1>7. ToSet(c) = ToSet(q) \cup ToSet(r)
  BY <1>3, <1>4, <1>5, <1>6 DEF ToSet
<1> QED
  BY <1>1, <1>7 DEF c

LEMMA IncreasingParts ==
    ASSUME NEW q \in Seq(Nat), NEW r \in Seq(Nat)
    PROVE  Increasing(q \o r) <=>
             /\ Increasing(q) /\ Increasing(r)
             /\ \A x \in ToSet(q), y \in ToSet(r) : x < y
<1>1. /\ q \o r \in Seq(Nat) /\ Len(q \o r) = Len(q) + Len(r)
      /\ \A i \in 1 .. Len(q) + Len(r) :
            (q \o r)[i] = IF i <= Len(q) THEN q[i] ELSE r[i - Len(q)]
  BY ConcatProperties
<1>2. /\ DOMAIN (q \o r) = 1 .. Len(q) + Len(r) /\ DOMAIN q = 1 .. Len(q)
      /\ DOMAIN r = 1 .. Len(r) /\ Len(q) \in Nat /\ Len(r) \in Nat
  BY <1>1, LenProperties
<1> DEFINE c == q \o r
           m == Len(q)
           n == Len(r)
<1> HIDE DEF c, m, n
<1>3. /\ DOMAIN c = 1 .. m + n /\ DOMAIN q = 1 .. m /\ DOMAIN r = 1 .. n
      /\ m \in Nat /\ n \in Nat
      /\ \A i \in 1 .. m + n : c[i] = IF i <= m THEN q[i] ELSE r[i - m]
  BY <1>1, <1>2 DEF c, m, n
<1>4. \A i \in 1 .. m : i \in 1 .. m + n /\ c[i] = q[i]
  BY <1>3
<1>5. \A i \in 1 .. n : i + m \in 1 .. m + n /\ c[i + m] = r[i]
  <2> SUFFICES ASSUME NEW i \in 1 .. n
               PROVE  i + m \in 1 .. m + n /\ c[i + m] = r[i]
    OBVIOUS
  <2>1. i + m \in 1 .. m + n /\ ~(i + m <= m) /\ (i + m) - m = i
    BY <1>3
  <2> QED
    BY <1>3, <2>1
<1>6. ASSUME Increasing(c)
      PROVE  /\ Increasing(q) /\ Increasing(r)
             /\ \A x \in ToSet(q), y \in ToSet(r) : x < y
  <2>1. \A i, j \in 1 .. m + n : i < j => c[i] < c[j]
    BY <1>3, <1>6 DEF Increasing
  <2>2. Increasing(q)
    BY <1>3, <1>4, <2>1 DEF Increasing
  <2>3. Increasing(r)
    <3> SUFFICES ASSUME NEW i \in 1 .. n, NEW j \in 1 .. n, i < j
                 PROVE  r[i] < r[j]
      BY <1>3 DEF Increasing
    <3>1. i + m < j + m
      BY <1>3
    <3> QED
      BY <1>5, <2>1, <3>1
  <2>4. ASSUME NEW i \in 1 .. m, NEW j \in 1 .. n
        PROVE  q[i] < r[j]
    <3>1. i < j + m
      BY <1>3
    <3> QED
      BY <1>4, <1>5, <2>1, <3>1
  <2> QED
    BY <1>3, <2>2, <2>3, <2>4 DEF ToSet
<1>7. ASSUME Increasing(q), Increasing(r), \A x \in ToSet(q), y \in ToSet(r) : x < y
      PROVE  Increasing(c)
  <2> SUFFICES ASSUME NEW i \in 1 .. m + n, NEW j \in 1 .. m + n, i < j
               PROVE  c[i] < c[j]
    BY <1>3 DEF Increasing
  <2>1. \A a, b \in 1 .. m : a < b => q[a] < q[b]
    BY <1>3, <1>7 DEF Increasing
  <2>2. \A a, b \in 1 .. n : a < b => r[a] < r[b]
    BY <1>3, <1>7 DEF Increasing
  <2>3. \A a \in 1 .. m, b \in 1 .. n : q[a] < r[b]
    BY <1>3, <1>7 DEF ToSet
  <2>4. CASE j <= m
    <3>1. i \in 1 .. m /\ j \in 1 .. m
      BY <1>3, <2>4
    <3> QED
      BY <1>4, <2>1, <3>1
  <2>5. CASE i <= m /\ ~(j <= m)
    <3>1. i \in 1 .. m /\ j - m \in 1 .. n
      BY <1>3, <2>5
    <3> QED
      BY <1>3, <1>4, <2>3, <2>5, <3>1
  <2>6. CASE ~(i <= m) /\ ~(j <= m)
    <3>1. i - m \in 1 .. n /\ j - m \in 1 .. n /\ i - m < j - m
      BY <1>3, <2>6
    <3> QED
      BY <1>3, <2>2, <2>6, <3>1
  <2>7. j <= m \/ (i <= m /\ ~(j <= m)) \/ (~(i <= m) /\ ~(j <= m))
    BY <1>3
  <2> QED
    BY <2>4, <2>5, <2>6, <2>7
<1> QED
  BY <1>6, <1>7 DEF c

\* What Only keeps of an increasing sequence.
LEMMA OnlyKeeps ==
    ASSUME NEW q \in Seq(Nat), NEW set
    PROVE  /\ Only(q, set) \in Seq(Nat)
           /\ ToSet(Only(q, set)) = ToSet(q) \cap set
           /\ Increasing(q) => Increasing(Only(q, set))
<1> DEFINE r == Only(q, set)
<1>1. r \in Seq(Nat)
  BY OnlyPicks
<1>2. PICK h : Picks(h, r, q, set, Len(q))
  BY OnlyPicks
<1> HIDE DEF r
<1>3. DOMAIN r = 1 .. Len(r) /\ DOMAIN q = 1 .. Len(q)
  BY <1>1, LenProperties
<1>4. ToSet(r) = ToSet(q) \cap set
  <2>1. ASSUME NEW x \in ToSet(r)
        PROVE  x \in ToSet(q) /\ x \in set
    <3>1. PICK m \in 1 .. Len(r) : x = r[m]
      BY <1>3, <2>1 DEF ToSet
    <3>2. h[m] \in 1 .. Len(q) /\ r[m] = q[h[m]] /\ r[m] \in set
      BY <1>2, <3>1 DEF Picks
    <3> QED
      BY <1>3, <3>1, <3>2 DEF ToSet
  <2>2. ASSUME NEW x \in ToSet(q), x \in set
        PROVE  x \in ToSet(r)
    <3>1. PICK i \in 1 .. Len(q) : x = q[i]
      BY <1>3, <2>2 DEF ToSet
    <3>2. PICK m \in 1 .. Len(r) : h[m] = i
      BY <1>2, <2>2, <3>1 DEF Picks
    <3>3. r[m] = x
      BY <1>2, <3>1, <3>2 DEF Picks
    <3> QED
      BY <1>3, <3>3 DEF ToSet
  <2> QED
    BY <2>1, <2>2
<1>5. Increasing(q) => Increasing(r)
  BY <1>2, <1>3 DEF Increasing, Picks
<1> QED
  BY <1>1, <1>4, <1>5 DEF r

\* The events under way, in the ten pieces they come in, furthest first.
PieceNo == 1 .. 10

Ordered(t) ==
    /\ \A k \in PieceNo : Increasing(t[k])
    /\ \A k, l \in PieceNo : k < l => \A x \in ToSet(t[k]), y \in ToSet(t[l]) : x < y

AllOf(t) == UNION {ToSet(t[k]) : k \in PieceNo}

LEMMA PieceNumbers ==
    /\ 1 \in PieceNo /\ 10 \in PieceNo
    /\ \A k \in 1 .. 9 : k \in PieceNo /\ k + 1 \in PieceNo /\ k # k + 1 /\ k < k + 1
    /\ \A i \in PieceNo : i # 1 => 1 < i
    /\ \A i, j \in PieceNo : i < j => i # 10
    /\ \A i, j, k \in PieceNo : i < j /\ j < k => i < k
    /\ \A i, j \in PieceNo : i < j => i # j /\ ~(j < i)
  BY DEF PieceNo

\* A part of one piece, or what is left of it, moves to the end of the next.
LEMMA MoveOn ==
    ASSUME NEW s \in [PieceNo -> Seq(Nat)], NEW t \in [PieceNo -> Seq(Nat)],
           NEW k \in 1 .. 9, NEW x \in Seq(Nat), NEW y \in Seq(Nat),
           Increasing(x) => Increasing(y), ToSet(y) \subseteq ToSet(x),
           s[k + 1] = x \o t[k + 1], t[k] = s[k] \o y,
           \A i \in PieceNo : i \notin {k, k + 1} => t[i] = s[i]
    PROVE  /\ Ordered(s) => Ordered(t)
           /\ AllOf(t) \subseteq AllOf(s)
<1>1. k \in PieceNo /\ k + 1 \in PieceNo /\ k # k + 1 /\ k < k + 1
  BY PieceNumbers
<1>2. ToSet(s[k + 1]) = ToSet(x) \cup ToSet(t[k + 1])
  BY <1>1, Parts
<1>3. ToSet(t[k]) = ToSet(s[k]) \cup ToSet(y)
  BY <1>1, Parts
<1>4. \A i \in PieceNo : ToSet(t[i]) \subseteq AllOf(s)
  BY <1>1, <1>2, <1>3 DEF AllOf
<1>5. ASSUME Ordered(s)
      PROVE  Ordered(t)
  <2>1. Increasing(x) /\ Increasing(t[k + 1])
    <3>1. t[k + 1] \in Seq(Nat) /\ Increasing(x \o t[k + 1])
      BY <1>1, <1>5 DEF Ordered
    <3> QED
      BY <3>1, IncreasingParts
  <2>2. \A a \in ToSet(x), b \in ToSet(t[k + 1]) : a < b
    BY <1>1, <1>5, IncreasingParts DEF Ordered
  <2>3. \A a \in ToSet(s[k]), b \in ToSet(s[k + 1]) : a < b
    BY <1>1, <1>5 DEF Ordered
  <2>4. Increasing(t[k])
    <3>1. Increasing(s[k]) /\ Increasing(y)
      BY <1>1, <1>5, <2>1 DEF Ordered
    <3>2. \A a \in ToSet(s[k]), b \in ToSet(y) : a < b
      BY <1>2, <2>3
    <3>3. s[k] \in Seq(Nat)
      BY <1>1
    <3> QED
      BY <3>1, <3>2, <3>3, IncreasingParts
  <2>5. \A i \in PieceNo : Increasing(t[i])
    BY <1>5, <2>1, <2>4 DEF Ordered
  <2>6. ASSUME NEW i \in PieceNo, NEW j \in PieceNo, i < j,
               NEW a \in ToSet(t[i]), NEW b \in ToSet(t[j])
        PROVE  a < b
    <3>1. CASE i \notin {k, k + 1} /\ j \notin {k, k + 1}
      BY <1>5, <2>6, <3>1 DEF Ordered
    <3>2. CASE i = k /\ j = k + 1
      BY <1>2, <1>3, <2>2, <2>3, <2>6, <3>2
    <3>3. CASE i = k /\ j # k + 1
      <4>1. j \notin {k, k + 1} /\ k < j /\ k + 1 < j
        BY <2>6, <3>3 DEF PieceNo
      <4>2. b \in ToSet(s[j])
        BY <2>6, <4>1
      <4>3. a \in ToSet(s[k]) \/ a \in ToSet(s[k + 1])
        BY <1>2, <1>3, <2>6, <3>3
      <4> QED
        BY <1>1, <1>5, <4>1, <4>2, <4>3 DEF Ordered
    <3>4. CASE i = k + 1
      <4>1. j \notin {k, k + 1}
        BY <2>6, <3>4 DEF PieceNo
      <4>2. a \in ToSet(s[k + 1]) /\ b \in ToSet(s[j])
        BY <1>2, <2>6, <3>4, <4>1
      <4> QED
        BY <1>1, <1>5, <2>6, <3>4, <4>2 DEF Ordered
    <3>5. CASE i \notin {k, k + 1} /\ j = k
      <4>1. i < k /\ i < k + 1
        BY <2>6, <3>5 DEF PieceNo
      <4>2. a \in ToSet(s[i])
        BY <2>6, <3>5
      <4>3. b \in ToSet(s[k]) \/ b \in ToSet(s[k + 1])
        BY <1>2, <1>3, <2>6, <3>5
      <4> QED
        BY <1>1, <1>5, <4>1, <4>2, <4>3 DEF Ordered
    <3>6. CASE i \notin {k, k + 1} /\ j = k + 1
      <4>1. a \in ToSet(s[i]) /\ b \in ToSet(s[k + 1])
        BY <1>2, <2>6, <3>6
      <4> QED
        BY <1>1, <1>5, <2>6, <3>6, <4>1 DEF Ordered
    <3>7. j = k /\ i = k + 1 => FALSE
      BY <2>6
    <3> QED
      BY <2>6, <3>1, <3>2, <3>3, <3>4, <3>5, <3>6
  <2> QED
    BY <2>5, <2>6 DEF Ordered
<1> QED
  BY <1>4, <1>5 DEF AllOf

\* The head of the first piece leaves.
LEMMA HeadLeaves ==
    ASSUME NEW s \in [PieceNo -> Seq(Nat)], NEW t \in [PieceNo -> Seq(Nat)],
           NEW x \in Seq(Nat), s[1] = x \o t[1],
           \A i \in PieceNo : i # 1 => t[i] = s[i]
    PROVE  /\ Ordered(s) => Ordered(t)
           /\ AllOf(t) \subseteq AllOf(s)
           /\ Ordered(s) => \A a \in ToSet(x), b \in AllOf(t) : a < b
           /\ ToSet(x) \subseteq AllOf(s)
<1>1. 1 \in PieceNo
  BY DEF PieceNo
<1>2. ToSet(s[1]) = ToSet(x) \cup ToSet(t[1])
  BY <1>1, Parts
<1>3. \A i \in PieceNo : ToSet(t[i]) \subseteq ToSet(s[i])
  BY <1>2
<1>4. Ordered(s) => Increasing(t[1]) /\ \A a \in ToSet(x), b \in ToSet(t[1]) : a < b
  BY <1>1, IncreasingParts DEF Ordered
<1>5. Ordered(s) => \A i \in PieceNo : Increasing(t[i])
  BY <1>4 DEF Ordered
<1>6. Ordered(s) => \A i, j \in PieceNo : i < j => \A a \in ToSet(t[i]), b \in ToSet(t[j]) : a < b
  BY <1>3 DEF Ordered
<1>7. \A i \in PieceNo : i # 1 => 1 < i
  BY DEF PieceNo
<1>8. ASSUME Ordered(s), NEW a \in ToSet(x), NEW i \in PieceNo, NEW b \in ToSet(t[i])
      PROVE  a < b
  BY <1>1, <1>2, <1>3, <1>4, <1>7, <1>8 DEF Ordered
<1> QED
  <2>1. AllOf(t) \subseteq AllOf(s) /\ ToSet(x) \subseteq AllOf(s)
    <3>1. \A i \in PieceNo : ToSet(s[i]) \subseteq AllOf(s)
      BY DEF AllOf
    <3>2. ToSet(x) \subseteq AllOf(s)
      BY <1>1, <1>2, <3>1
    <3>3. \A i \in PieceNo : \A b \in ToSet(t[i]) : b \in AllOf(s)
      BY <1>3, <3>1
    <3>4. \A b \in AllOf(t) : b \in AllOf(s)
      BY <3>3, Zenon DEF AllOf
    <3> QED
      BY <3>2, <3>4
  <2>2. ASSUME Ordered(s), NEW a \in ToSet(x), NEW b \in AllOf(t)
        PROVE  a < b
    BY <1>8, <2>2 DEF AllOf
  <2> QED
    BY <1>5, <1>6, <2>1, <2>2 DEF Ordered

\* A new event, greater than all of them, joins the last piece.
LEMMA EventJoins ==
    ASSUME NEW s \in [PieceNo -> Seq(Nat)], NEW t \in [PieceNo -> Seq(Nat)],
           NEW n \in Nat, AllOf(s) \subseteq 1 .. n,
           t[10] = Append(s[10], n + 1),
           \A i \in PieceNo : i # 10 => t[i] = s[i]
    PROVE  /\ Ordered(s) => Ordered(t)
           /\ AllOf(t) \subseteq 1 .. n + 1
<1> DEFINE e == <<n + 1>>
<1>1. 10 \in PieceNo
  BY DEF PieceNo
<1>2. e \in Seq(Nat) /\ ToSet(e) = {n + 1} /\ Increasing(e)
  BY DEF ToSet, Increasing
<1>3. t[10] = s[10] \o e
  <2>1. s[10] \in Seq(Nat)
    BY <1>1
  <2> QED
    BY <2>1, AppendIsConcat
<1> HIDE DEF e
<1>4. ToSet(t[10]) = ToSet(s[10]) \cup {n + 1}
  <2>1. s[10] \in Seq(Nat)
    BY <1>1
  <2> QED
    <3>1. ToSet(s[10] \o e) = ToSet(s[10]) \cup ToSet(e)
      BY <1>2, <2>1, Parts
    <3> QED
      BY <1>2, <1>3, <3>1
<1>5. \A i \in PieceNo : \A x \in ToSet(s[i]) : x \in 1 .. n
  BY DEF AllOf
<1>6. \A i \in PieceNo : \A x \in ToSet(s[i]) : x < n + 1 /\ x \in 1 .. n + 1
  BY <1>5
<1>7. Ordered(s) => Increasing(t[10])
  <2>1. s[10] \in Seq(Nat)
    BY <1>1
  <2>2. \A x \in ToSet(s[10]), y \in ToSet(e) : x < y
    BY <1>1, <1>2, <1>6
  <2> QED
    BY <1>1, <1>2, <1>3, <2>1, <2>2, IncreasingParts DEF Ordered
<1>8. \A i, j \in PieceNo : i < j => i # 10
  BY PieceNumbers
<1>9. ASSUME Ordered(s), NEW i \in PieceNo, NEW j \in PieceNo, i < j,
             NEW a \in ToSet(t[i]), NEW b \in ToSet(t[j])
      PROVE  a < b
  <2>1. i # 10 /\ a \in ToSet(s[i])
    BY <1>8, <1>9
  <2>2. CASE j = 10
    <3>1. b \in ToSet(s[10]) \/ b = n + 1
      BY <1>4, <1>9, <2>2
    <3> QED
      BY <1>1, <1>6, <1>9, <2>1, <2>2, <3>1 DEF Ordered
  <2>3. CASE j # 10
    BY <1>9, <2>1, <2>3 DEF Ordered
  <2> QED
    BY <2>2, <2>3
<1>10. n + 1 \in 1 .. n + 1
  OBVIOUS
<1>11. \A i \in PieceNo : ToSet(t[i]) \subseteq 1 .. n + 1
  BY <1>4, <1>6, <1>10
<1> QED
  BY <1>7, <1>9, <1>11 DEF Ordered, AllOf

\* The first k pieces, put together.
Together(s, k, c) ==
    /\ c \in Seq(Nat)
    /\ Ordered(s) => Increasing(c)
    /\ \A x : x \in ToSet(c) <=> \E i \in 1 .. k : x \in ToSet(s[i])

LEMMA AddPiece ==
    ASSUME NEW s \in [PieceNo -> Seq(Nat)], NEW k \in 1 .. 9, NEW c, Together(s, k, c)
    PROVE  Together(s, k + 1, c \o s[k + 1])
<1>1. k + 1 \in PieceNo /\ s[k + 1] \in Seq(Nat) /\ c \in Seq(Nat)
  BY PieceNumbers DEF Together
<1>2. /\ c \o s[k + 1] \in Seq(Nat)
      /\ ToSet(c \o s[k + 1]) = ToSet(c) \cup ToSet(s[k + 1])
  BY <1>1, Parts
<1>3. 1 .. k + 1 = (1 .. k) \cup {k + 1}
  OBVIOUS
<1>4. \A i \in 1 .. k : i \in PieceNo /\ i < k + 1
  BY SMTT(30) DEF PieceNo
<1>5. ASSUME Ordered(s)
      PROVE  Increasing(c \o s[k + 1])
  <2>1. ASSUME NEW x \in ToSet(c), NEW y \in ToSet(s[k + 1])
        PROVE  x < y
    <3>1. PICK i \in 1 .. k : x \in ToSet(s[i])
      BY <2>1 DEF Together
    <3> QED
      BY <1>1, <1>4, <1>5, <2>1, <3>1 DEF Ordered
  <2>2. Increasing(c) /\ Increasing(s[k + 1])
    BY <1>1, <1>5 DEF Ordered, Together
  <2> QED
    BY <1>1, <2>1, <2>2, IncreasingParts
<1>6. ASSUME NEW x
      PROVE  x \in ToSet(c \o s[k + 1]) <=> \E i \in 1 .. k + 1 : x \in ToSet(s[i])
  <2>1. x \in ToSet(c) <=> \E i \in 1 .. k : x \in ToSet(s[i])
    BY DEF Together
  <2> QED
    BY <1>2, <1>3, <2>1
<1> QED
  BY <1>2, <1>5, <1>6 DEF Together

LEMMA AllTogether ==
    ASSUME NEW s \in [PieceNo -> Seq(Nat)], NEW c,
           c = s[1] \o s[2] \o s[3] \o s[4] \o s[5] \o s[6] \o s[7] \o s[8] \o s[9] \o s[10]
    PROVE  c \in Seq(Nat) /\ ToSet(c) = AllOf(s) /\ (Ordered(s) => Increasing(c))
<1>1. Together(s, 1, s[1])
  <2>1. 1 .. 1 = {1} /\ 1 \in PieceNo
    BY DEF PieceNo
  <2> QED
    BY <2>1 DEF Together, Ordered
<1>2. \A d : /\ Together(s, 1, d) => Together(s, 2, d \o s[2])
             /\ Together(s, 2, d) => Together(s, 3, d \o s[3])
             /\ Together(s, 3, d) => Together(s, 4, d \o s[4])
             /\ Together(s, 4, d) => Together(s, 5, d \o s[5])
             /\ Together(s, 5, d) => Together(s, 6, d \o s[6])
             /\ Together(s, 6, d) => Together(s, 7, d \o s[7])
             /\ Together(s, 7, d) => Together(s, 8, d \o s[8])
             /\ Together(s, 8, d) => Together(s, 9, d \o s[9])
             /\ Together(s, 9, d) => Together(s, 10, d \o s[10])
  <2>1. ASSUME NEW d, NEW k \in 1 .. 9, Together(s, k, d)
        PROVE  Together(s, k + 1, d \o s[k + 1])
    BY <2>1, AddPiece
  <2>2. /\ 1 + 1 = 2 /\ 2 + 1 = 3 /\ 3 + 1 = 4 /\ 4 + 1 = 5 /\ 5 + 1 = 6
        /\ 6 + 1 = 7 /\ 7 + 1 = 8 /\ 8 + 1 = 9 /\ 9 + 1 = 10
        /\ \A k \in {1, 2, 3, 4, 5, 6, 7, 8, 9} : k \in 1 .. 9
    OBVIOUS
  <2> TAKE d
  <2> QED
    BY <2>1, <2>2
<1>3. Together(s, 10, c)
  BY <1>1, <1>2, Zenon
<1> QED
  <2>1. \A x : x \in ToSet(c) <=> x \in AllOf(s)
    BY <1>3, Zenon DEF Together, AllOf, PieceNo
  <2> QED
    BY <1>3, <2>1 DEF Together

(***************************************************************************)
(* The pieces in a state of the pipeline, and what a step moves.           *)
(***************************************************************************)
\* The services that receive events, and the pieces their requests are.
Receiver == {"parse", "rules", "aggregate"}

PiecesOf(req, pend, resp, b) ==
    <<FlattenSeq(req["aggregate"]), pend["rules"], FlattenSeq(resp["rules"]),
      FlattenSeq(req["rules"]), pend["parse"], FlattenSeq(resp["parse"]),
      FlattenSeq(req["parse"]), pend["ingest"], FlattenSeq(resp["ingest"]), b>>

Pieces == PiecesOf(requests, pending, responses, batch)

MessageTypes ==
    /\ input \in Seq(Line \cup {WorkItem}) /\ batching \in BOOLEAN /\ maxEvents \in Nat
    /\ sequence \in 0 .. Wanted
    /\ batch \in Seq(Nat)
    /\ requests = [s \in Service |-> requests[s]]
    /\ \A s \in Receiver : requests[s] \in Seq(Seq(Nat))
    /\ responses = [s \in Service |-> responses[s]]
    /\ \A s \in Stage : responses[s] \in Seq(Seq(Nat))
    /\ pending \in [Stage -> Seq(Nat)]

LEMMA TenPieces ==
    ASSUME NEW req, \A s \in Receiver : req[s] \in Seq(Seq(Nat)),
           NEW pend \in [Stage -> Seq(Nat)],
           NEW resp, \A s \in Stage : resp[s] \in Seq(Seq(Nat)),
           NEW b \in Seq(Nat)
    PROVE  PiecesOf(req, pend, resp, b) \in [PieceNo -> Seq(Nat)]
<1>1. \A s \in Receiver : FlattenSeq(req[s]) \in Seq(Nat)
  BY FlattenType
<1>2. \A s \in Stage : FlattenSeq(resp[s]) \in Seq(Nat)
  BY FlattenType
<1> DEFINE t == PiecesOf(req, pend, resp, b)
<1>3. t \in Seq(Seq(Nat)) /\ Len(t) = 10
  BY <1>1, <1>2 DEF PiecesOf, Receiver, Stage
<1> HIDE DEF t
<1>4. DOMAIN t = 1 .. 10 /\ \A i \in 1 .. 10 : t[i] \in Seq(Nat)
  BY <1>3, LenProperties, ElementOfSeq
<1>5. t = [i \in DOMAIN t |-> t[i]]
  BY <1>3
<1>6. t \in [PieceNo -> Seq(Nat)]
  BY <1>4, <1>5 DEF PieceNo
<1> QED
  BY <1>6 DEF t

LEMMA PiecesType == MessageTypes => Pieces \in [PieceNo -> Seq(Nat)]
  BY TenPieces DEF MessageTypes, Pieces

LEMMA PiecesTypeNext == MessageTypes' => Pieces' \in [PieceNo -> Seq(Nat)]
  BY TenPieces DEF MessageTypes, Pieces

LEMMA InFlightIs ==
    ASSUME MessageTypes
    PROVE  ToSet(InFlight) = AllOf(Pieces) /\ (Ordered(Pieces) => OrderKept)
<1>1. InFlight = Pieces[1] \o Pieces[2] \o Pieces[3] \o Pieces[4] \o Pieces[5] \o
                 Pieces[6] \o Pieces[7] \o Pieces[8] \o Pieces[9] \o Pieces[10]
  BY DEF InFlight, Pieces, PiecesOf
<1>2. /\ InFlight \in Seq(Nat) /\ ToSet(InFlight) = AllOf(Pieces)
      /\ Ordered(Pieces) => Increasing(InFlight)
  <2>1. Pieces \in [PieceNo -> Seq(Nat)]
    BY PiecesType
  <2> QED
    BY <1>1, <2>1, AllTogether
<1> QED
  BY <1>2 DEF OrderKept, Increasing

LEMMA InitMessages ==
    Init => MessageTypes /\ Ordered(Pieces) /\ AllOf(Pieces) \subseteq 1 .. sequence
<1> SUFFICES ASSUME Init
             PROVE  MessageTypes /\ Ordered(Pieces) /\ AllOf(Pieces) \subseteq 1 .. sequence
  OBVIOUS
<1>1. input \in Seq(Line \cup {WorkItem})
  BY DEF Init, SeqOf
<1>2. MessageTypes
  <2>1. Wanted \in Nat
    BY <1>1, SplitAssumption DEF Init, Wanted
  <2>2. <<>> \in Seq(Nat) /\ <<>> \in Seq(Seq(Nat))
    OBVIOUS
  <2> QED
    BY <1>1, <2>1, <2>2, SplitAssumption DEF Init, MessageTypes, Service, Stage, Receiver
<1>3. Pieces = <<<<>>, <<>>, <<>>, <<>>, <<>>, <<>>, <<>>, <<>>, <<>>, <<>>>>
  BY FlattenNone DEF Pieces, PiecesOf, Init, Service, Stage
<1>4. \A k \in PieceNo : Pieces[k] = <<>>
  BY <1>3 DEF PieceNo
<1>5. ToSet(<<>>) = {} /\ Increasing(<<>>)
  BY DEF ToSet, Increasing
<1>6. Ordered(Pieces) /\ AllOf(Pieces) \subseteq 1 .. sequence
  BY <1>4, <1>5 DEF Ordered, AllOf
<1> QED
  BY <1>2, <1>6

\* An element of a sequence as a message of its own.
LEMMA Single ==
    ASSUME NEW q \in Seq(Nat), q # <<>>
    PROVE  /\ <<Head(q)>> \in Seq(Nat) /\ Tail(q) \in Seq(Nat)
           /\ q = <<Head(q)>> \o Tail(q)
           /\ Head(q) \in Nat
           /\ Len(q) > 1 => Tail(q) # <<>>
<1>1. Head(q) \in Nat /\ Tail(q) \in Seq(Nat) /\ Len(Tail(q)) = Len(q) - 1
  BY HeadTailProperties
<1>2. q = <<Head(q)>> \o Tail(q)
  <2>1. Len(q) \in Nat /\ Len(q) # 0
    BY EmptySeq
  <2>2. /\ Len(<<Head(q)>> \o Tail(q)) = Len(q)
        /\ \A i \in 1 .. Len(q) : (<<Head(q)>> \o Tail(q))[i] = q[i]
    BY <1>1, <2>1
  <2>3. <<Head(q)>> \o Tail(q) \in Seq(Nat)
    BY <1>1
  <2> DEFINE r == <<Head(q)>> \o Tail(q)
  <2>4. r \in Seq(Nat) /\ Len(r) = Len(q) /\ \A i \in 1 .. Len(q) : r[i] = q[i]
    BY <2>2, <2>3
  <2> HIDE DEF r
  <2>5. r = q
    BY <2>4, SeqEqual
  <2> QED
    BY <2>5 DEF r
<1>3. Len(q) > 1 => Tail(q) # <<>>
  BY TailOfMore
<1> QED
  BY <1>1, <1>2, <1>3

\* Events at the head of a piece go on to the end of the next, or some of them.
Moves(s, t, k, x, y) ==
    /\ s \in [PieceNo -> Seq(Nat)] /\ t \in [PieceNo -> Seq(Nat)]
    /\ k \in 1 .. 9 /\ x \in Seq(Nat) /\ y \in Seq(Nat)
    /\ Increasing(x) => Increasing(y)
    /\ ToSet(y) \subseteq ToSet(x)
    /\ s[k + 1] = x \o t[k + 1] /\ t[k] = s[k] \o y
    /\ \A i \in PieceNo : i \notin {k, k + 1} => t[i] = s[i]

LEMMA MovesOrdered ==
    ASSUME NEW s, NEW t, NEW k, NEW x, NEW y, Moves(s, t, k, x, y)
    PROVE  /\ Ordered(s) => Ordered(t)
           /\ AllOf(t) \subseteq AllOf(s)
  BY MoveOn DEF Moves

\* What a step leaves as it is.
LEMMA RunKept ==
    ASSUME MessageTypes, UNCHANGED run, sequence' = sequence
    PROVE  /\ input' \in Seq(Line \cup {WorkItem}) /\ batching' \in BOOLEAN
           /\ maxEvents' \in Nat /\ sequence' \in 0 .. Wanted'
  BY DEF MessageTypes, run, Wanted

LEMMA ReadLineTypes ==
    ASSUME MessageTypes, ReadLine
    PROVE  /\ MessageTypes'
           /\ sequence' = sequence + 1 /\ sequence \in Nat
           /\ Pieces'[10] = Append(Pieces[10], sequence + 1)
           /\ \A i \in PieceNo : i # 10 => Pieces'[i] = Pieces[i]
<1>1. /\ sequence' = sequence + 1 /\ batch' = Append(batch, sequence + 1)
      /\ UNCHANGED <<run, streams, pending>> /\ sequence < Wanted
  BY DEF ReadLine
<1>2. Wanted \in Nat /\ sequence \in 0 .. Wanted
  BY DEF MessageTypes, Wanted
<1>3. sequence \in Nat /\ sequence + 1 \in 0 .. Wanted
  BY <1>1, <1>2
<1>4. MessageTypes'
  BY <1>1, <1>3 DEF MessageTypes, run, streams, Wanted
<1>5. /\ Pieces[10] = batch /\ Pieces'[10] = batch'
      /\ \A i \in PieceNo : i # 10 => Pieces'[i] = Pieces[i]
  BY <1>1 DEF Pieces, PiecesOf, PieceNo, streams
<1> QED
  BY <1>1, <1>3, <1>4, <1>5

LEMMA SendEventMoves ==
    ASSUME MessageTypes, SendsSomething, SendEvent
    PROVE  /\ MessageTypes'
           /\ \E x : Moves(Pieces, Pieces', 9, x, x)
<1>1. /\ batch # <<>> /\ batch' = Tail(batch)
      /\ responses' = [responses EXCEPT !["ingest"] = Append(@, <<Head(batch)>>)]
      /\ UNCHANGED <<run, sequence, requests, pending>>
  BY DEF SendEvent, SendsSomething
<1>2. batch \in Seq(Nat) /\ <<Head(batch)>> \in Seq(Nat)
      /\ batch = <<Head(batch)>> \o Tail(batch) /\ Tail(batch) \in Seq(Nat)
  BY <1>1, Single DEF MessageTypes
<1> DEFINE e == <<Head(batch)>>
<1> HIDE DEF e
<1>3. /\ responses' = [responses EXCEPT !["ingest"] = Append(@, e)]
      /\ e \in Seq(Nat) /\ batch = e \o batch' /\ batch' \in Seq(Nat)
  BY <1>1, <1>2 DEF e
<1>4. responses["ingest"] \in Seq(Seq(Nat))
  BY DEF MessageTypes, Stage
<1>5. /\ responses'["ingest"] = Append(responses["ingest"], e)
      /\ \A s \in Service : s # "ingest" => responses'[s] = responses[s]
      /\ responses' = [s \in Service |-> responses'[s]]
  BY <1>3 DEF MessageTypes, Service
<1>6. MessageTypes'
  <2>1. responses'["ingest"] \in Seq(Seq(Nat))
    BY <1>3, <1>4, <1>5
  <2>2. \A s \in Stage : responses'[s] \in Seq(Seq(Nat))
    BY <1>5, <2>1 DEF MessageTypes, Stage, Service
  <2> QED
    BY <1>1, <1>3, <1>5, <2>2, RunKept DEF MessageTypes
<1>7. FlattenSeq(responses'["ingest"]) = FlattenSeq(responses["ingest"]) \o e
  BY <1>3, <1>4, <1>5, FlattenAppend
<1>8. /\ Pieces[10] = batch /\ Pieces'[10] = batch'
      /\ Pieces[9] = FlattenSeq(responses["ingest"])
      /\ Pieces'[9] = FlattenSeq(responses'["ingest"])
      /\ \A i \in PieceNo : i \notin {9, 10} => Pieces'[i] = Pieces[i]
  BY <1>1, <1>5 DEF Pieces, PiecesOf, PieceNo, Service
<1>9. Pieces \in [PieceNo -> Seq(Nat)] /\ Pieces' \in [PieceNo -> Seq(Nat)]
  BY <1>6, PiecesType, PiecesTypeNext
<1> HIDE DEF Pieces
<1>10. 9 \in 1 .. 9 /\ 9 + 1 = 10
  OBVIOUS
<1>11. Moves(Pieces, Pieces', 9, e, e)
  BY <1>3, <1>7, <1>8, <1>9, <1>10 DEF Moves
<1> QED
  BY <1>6, <1>11

Passing(s) == {i \in DOMAIN input : Keeps(s, input[i])}

\* Where the requests of the two filters are among the pieces; what they
\* answer is the piece before.
FilterAt == [parse |-> 6, rules |-> 3]

LEMMA FilterMoves ==
    ASSUME MessageTypes, NEW s \in {"parse", "rules"}, Filter(s)
    PROVE  /\ MessageTypes'
           /\ \E x : Moves(Pieces, Pieces', FilterAt[s], x, Only(x, Passing(s)))
<1> DEFINE x == Head(requests[s])
           y == Only(x, Passing(s))
<1>1. /\ requests[s] # <<>> /\ requests' = [requests EXCEPT ![s] = Tail(@)]
      /\ responses' = IF y = <<>> THEN responses ELSE [responses EXCEPT ![s] = Append(@, y)]
      /\ UNCHANGED <<run, ingest, pending>>
  BY DEF Filter, Passing
<1>2. requests[s] \in Seq(Seq(Nat)) /\ responses[s] \in Seq(Seq(Nat))
  BY DEF MessageTypes, Receiver, Stage
<1>3. x \in Seq(Nat) /\ Tail(requests[s]) \in Seq(Seq(Nat))
  BY <1>1, <1>2
<1>4. /\ y \in Seq(Nat) /\ ToSet(y) \subseteq ToSet(x)
      /\ Increasing(x) => Increasing(y)
  <2> HIDE DEF x
  <2> QED
    BY <1>3, OnlyKeeps
<1>5. FlattenSeq(requests[s]) = x \o FlattenSeq(Tail(requests[s]))
  BY <1>1, <1>2, FlattenHead
<1> HIDE DEF x, y
<1>6. /\ requests'[s] = Tail(requests[s])
      /\ \A r \in Service : r # s => requests'[r] = requests[r]
      /\ requests' = [r \in Service |-> requests'[r]]
  BY <1>1 DEF MessageTypes, Service
<1>7. /\ responses'[s] = IF y = <<>> THEN responses[s] ELSE Append(responses[s], y)
      /\ \A r \in Service : r # s => responses'[r] = responses[r]
      /\ responses' = [r \in Service |-> responses'[r]]
  BY <1>1 DEF MessageTypes, Service
<1>8. responses'[s] \in Seq(Seq(Nat))
  BY <1>2, <1>4, <1>7
<1>9. MessageTypes'
  <2>1. \A r \in Receiver : requests'[r] \in Seq(Seq(Nat))
    BY <1>3, <1>6 DEF MessageTypes, Receiver, Service
  <2>2. \A r \in Stage : responses'[r] \in Seq(Seq(Nat))
    BY <1>7, <1>8 DEF MessageTypes, Stage, Service
  <2> QED
    BY <1>1, <1>6, <1>7, <2>1, <2>2, RunKept DEF MessageTypes, ingest
<1>10. FlattenSeq(responses'[s]) = FlattenSeq(responses[s]) \o y
  <2>1. CASE y = <<>>
    <3>1. FlattenSeq(responses[s]) \in Seq(Nat)
      BY <1>2, FlattenType
    <3> QED
      BY <1>7, <2>1, <3>1
  <2>2. CASE y # <<>>
    BY <1>2, <1>4, <1>7, <2>2, FlattenAppend
  <2> QED
    BY <2>1, <2>2
<1>11. Pieces \in [PieceNo -> Seq(Nat)] /\ Pieces' \in [PieceNo -> Seq(Nat)]
  BY <1>9, PiecesType, PiecesTypeNext
<1> DEFINE k == FilterAt[s]
<1>12. /\ k \in 1 .. 9
       /\ Pieces[k] = FlattenSeq(responses[s]) /\ Pieces'[k] = FlattenSeq(responses'[s])
       /\ Pieces[k + 1] = FlattenSeq(requests[s]) /\ Pieces'[k + 1] = FlattenSeq(requests'[s])
       /\ \A i \in PieceNo : i \notin {k, k + 1} => Pieces'[i] = Pieces[i]
  <2>1. CASE s = "parse"
    BY <1>1, <1>6, <1>7, <2>1 DEF Pieces, PiecesOf, PieceNo, Service, ingest, FilterAt
  <2>2. CASE s = "rules"
    BY <1>1, <1>6, <1>7, <2>2 DEF Pieces, PiecesOf, PieceNo, Service, ingest, FilterAt
  <2> QED
    BY <2>1, <2>2
<1> HIDE DEF Pieces, k
<1>13. Moves(Pieces, Pieces', k, x, y)
  BY <1>3, <1>4, <1>5, <1>6, <1>10, <1>11, <1>12 DEF Moves
<1> QED
  BY <1>9, <1>13 DEF k, y

\* The head of the first piece is what the aggregator has accounted for.
Left(s, t, x) ==
    /\ s \in [PieceNo -> Seq(Nat)] /\ t \in [PieceNo -> Seq(Nat)] /\ x \in Seq(Nat)
    /\ s[1] = x \o t[1]
    /\ \A i \in PieceNo : i # 1 => t[i] = s[i]

LEMMA AggregateLeaves ==
    ASSUME MessageTypes, Aggregate
    PROVE  /\ MessageTypes'
           /\ Left(Pieces, Pieces', Head(requests["aggregate"]))
<1> DEFINE s == "aggregate"
           x == Head(requests[s])
<1>1. /\ requests[s] # <<>> /\ requests' = [requests EXCEPT ![s] = Tail(@)]
      /\ UNCHANGED <<run, ingest, responses, pending>>
  BY DEF Aggregate
<1>2. requests[s] \in Seq(Seq(Nat))
  BY DEF MessageTypes, Receiver
<1>3. x \in Seq(Nat) /\ Tail(requests[s]) \in Seq(Seq(Nat))
  BY <1>1, <1>2
<1>5. FlattenSeq(requests[s]) = x \o FlattenSeq(Tail(requests[s]))
  BY <1>1, <1>2, FlattenHead
<1> HIDE DEF x
<1>6. /\ requests'[s] = Tail(requests[s])
      /\ \A r \in Service : r # s => requests'[r] = requests[r]
      /\ requests' = [r \in Service |-> requests'[r]]
  BY <1>1 DEF MessageTypes, Service
<1>9. MessageTypes'
  <2>1. \A r \in Receiver : requests'[r] \in Seq(Seq(Nat))
    BY <1>3, <1>6 DEF MessageTypes, Receiver, Service
  <2> QED
    BY <1>1, <1>6, <2>1, RunKept DEF MessageTypes, ingest
<1>11. Pieces \in [PieceNo -> Seq(Nat)] /\ Pieces' \in [PieceNo -> Seq(Nat)]
  BY <1>9, PiecesType, PiecesTypeNext
<1>12. /\ Pieces[1] = FlattenSeq(requests[s]) /\ Pieces'[1] = FlattenSeq(requests'[s])
       /\ \A i \in PieceNo : i # 1 => Pieces'[i] = Pieces[i]
  BY <1>1, <1>6 DEF Pieces, PiecesOf, PieceNo, Service, ingest
<1> HIDE DEF Pieces
<1>13. Left(Pieces, Pieces', x)
  BY <1>3, <1>5, <1>6, <1>11, <1>12 DEF Left
<1> QED
  BY <1>9, <1>13 DEF x

\* Where the responses of a stage are among the pieces: the orchestrator's
\* batch behind them is the piece before, the next requests the one before it.
RelayAt == [ingest |-> 9, parse |-> 6, rules |-> 3]

LEMMA RelayNumbers ==
    ASSUME NEW a \in {9, 6, 3}
    PROVE  /\ a \in PieceNo /\ a - 1 \in PieceNo /\ a - 2 \in PieceNo
           /\ a - 1 \in {8, 5, 2} /\ a - 2 \in {7, 4, 1} /\ a # a - 1 /\ a # a - 2 /\ a - 1 # a - 2
           /\ (a - 1) + 1 = a /\ (a - 2) + 1 = a - 1
           /\ a - 1 \in 1 .. 9 /\ a - 2 \in 1 .. 9
  BY DEF PieceNo

\* The orchestrator moves events on unfiltered.
Relays(s, t) == \E k \in {1, 2, 4, 5, 7, 8} : \E x : Moves(s, t, k, x, x)

LEMMA RelayPieces ==
    ASSUME MessageTypes, MessageTypes', UNCHANGED ingest, NEW s \in Stage,
           \A r \in Service : r # Feeds[s] => requests'[r] = requests[r],
           \A r \in Service : r # s => responses'[r] = responses[r],
           \A r \in Stage : r # s => pending'[r] = pending[r],
           NEW a, a = RelayAt[s]
    PROVE  /\ Pieces \in [PieceNo -> Seq(Nat)] /\ Pieces' \in [PieceNo -> Seq(Nat)]
           /\ a \in {9, 6, 3}
           /\ Pieces[a] = FlattenSeq(responses[s]) /\ Pieces'[a] = FlattenSeq(responses'[s])
           /\ Pieces[a - 1] = pending[s] /\ Pieces'[a - 1] = pending'[s]
           /\ Pieces[a - 2] = FlattenSeq(requests[Feeds[s]])
           /\ Pieces'[a - 2] = FlattenSeq(requests'[Feeds[s]])
           /\ \A i \in PieceNo : i \notin {a, a - 1, a - 2} => Pieces'[i] = Pieces[i]
<1>1. Pieces \in [PieceNo -> Seq(Nat)] /\ Pieces' \in [PieceNo -> Seq(Nat)]
  BY PiecesType, PiecesTypeNext
<1>2. CASE s = "ingest"
  BY <1>1, <1>2 DEF Pieces, PiecesOf, PieceNo, Service, Stage, ingest, RelayAt, Feeds
<1>3. CASE s = "parse"
  BY <1>1, <1>3 DEF Pieces, PiecesOf, PieceNo, Service, Stage, ingest, RelayAt, Feeds
<1>4. CASE s = "rules"
  BY <1>1, <1>4 DEF Pieces, PiecesOf, PieceNo, Service, Stage, ingest, RelayAt, Feeds
<1> QED
  BY <1>2, <1>3, <1>4 DEF Stage

\* What changes hands at a relay, message by message.
LEMMA RelayTypes ==
    ASSUME MessageTypes, NEW s \in Stage, UNCHANGED <<run, ingest>>,
           NEW req \in Seq(Seq(Nat)), NEW resp \in Seq(Seq(Nat)), NEW p \in Seq(Nat),
           requests' = [requests EXCEPT ![Feeds[s]] = req],
           responses' = [responses EXCEPT ![s] = resp],
           pending' = [pending EXCEPT ![s] = p]
    PROVE  /\ MessageTypes'
           /\ requests'[Feeds[s]] = req /\ responses'[s] = resp /\ pending'[s] = p
           /\ \A r \in Service : r # Feeds[s] => requests'[r] = requests[r]
           /\ \A r \in Service : r # s => responses'[r] = responses[r]
           /\ \A r \in Stage : r # s => pending'[r] = pending[r]
<1>1. s \in Service /\ Feeds[s] \in Service /\ Feeds[s] \in Receiver
  BY DEF Stage, Service, Feeds, Receiver
<1>2. /\ requests'[Feeds[s]] = req /\ \A r \in Service : r # Feeds[s] => requests'[r] = requests[r]
      /\ requests' = [r \in Service |-> requests'[r]]
  BY <1>1 DEF MessageTypes
<1>3. /\ responses'[s] = resp /\ \A r \in Service : r # s => responses'[r] = responses[r]
      /\ responses' = [r \in Service |-> responses'[r]]
  BY <1>1 DEF MessageTypes
<1>4. /\ pending'[s] = p /\ \A r \in Stage : r # s => pending'[r] = pending[r]
      /\ pending' \in [Stage -> Seq(Nat)]
  BY DEF MessageTypes
<1>5. \A r \in Receiver : requests'[r] \in Seq(Seq(Nat))
  BY <1>2 DEF MessageTypes, Receiver, Service
<1>6. \A r \in Stage : responses'[r] \in Seq(Seq(Nat))
  BY <1>3 DEF MessageTypes, Stage, Service
<1>7. MessageTypes'
  BY <1>2, <1>3, <1>4, <1>5, <1>6, RunKept DEF MessageTypes, ingest
<1> QED
  BY <1>2, <1>3, <1>4, <1>7

LEMMA RelayEventsMoves ==
    ASSUME MessageTypes, NEW s \in Stage, RelayEvents(s)
    PROVE  /\ MessageTypes'
           /\ \E u : Relays(Pieces, u) /\ (u = Pieces' \/ Relays(u, Pieces'))
           /\ Len(pending'[s]) < (IF batching THEN BatchSize ELSE 1)
           /\ \A r \in Stage : r # s => pending'[r] = pending[r]
<1> DEFINE h == Head(responses[s])
           p == pending[s]
           c == p \o h
           f == Feeds[s]
           full == Full(c)
           resp == Tail(responses[s])
           req == IF full THEN Append(requests[f], c) ELSE requests[f]
           rest == IF full THEN <<>> ELSE c
<1>1. /\ responses[s] # <<>> /\ UNCHANGED <<run, ingest>>
      /\ responses' = [responses EXCEPT ![s] = resp]
  BY DEF RelayEvents
<1>2. /\ full => /\ pending' = [pending EXCEPT ![s] = <<>>]
                 /\ requests' = [requests EXCEPT ![f] = Append(@, c)]
      /\ ~full => pending' = [pending EXCEPT ![s] = c] /\ UNCHANGED requests
  BY DEF RelayEvents, Collected
<1>3. s \in Service /\ f \in Service /\ f \in Receiver
  BY DEF Stage, Service, Feeds, Receiver
<1>4. /\ responses[s] \in Seq(Seq(Nat)) /\ requests[f] \in Seq(Seq(Nat)) /\ p \in Seq(Nat)
  BY <1>3 DEF MessageTypes
<1>5. h \in Seq(Nat) /\ resp \in Seq(Seq(Nat)) /\ c \in Seq(Nat)
  BY <1>1, <1>4
<1>6. FlattenSeq(responses[s]) = h \o FlattenSeq(resp)
  BY <1>1, <1>4, FlattenHead
<1>7. Len(rest) < (IF batching THEN BatchSize ELSE 1)
  BY <1>4, <1>5, SplitAssumption, SMTT(30) DEF Full, MessageTypes
<1>8. req \in Seq(Seq(Nat)) /\ rest \in Seq(Nat)
  BY <1>4, <1>5
<1>9. /\ requests' = [requests EXCEPT ![f] = req]
      /\ pending' = [pending EXCEPT ![s] = rest]
  <2>1. requests[f] = req \/ full
    OBVIOUS
  <2>2. requests = [requests EXCEPT ![f] = requests[f]]
    BY <1>3 DEF MessageTypes
  <2> QED
    BY <1>2, <2>1, <2>2
<1> DEFINE a == RelayAt[s]
<1> HIDE DEF h, p, c, f, full, resp, req, rest, a
<1>10. /\ MessageTypes'
       /\ requests'[f] = req /\ responses'[s] = resp /\ pending'[s] = rest
       /\ \A r \in Service : r # f => requests'[r] = requests[r]
       /\ \A r \in Service : r # s => responses'[r] = responses[r]
       /\ \A r \in Stage : r # s => pending'[r] = pending[r]
  BY <1>1, <1>5, <1>8, <1>9, RelayTypes DEF f
<1>11. /\ Pieces \in [PieceNo -> Seq(Nat)] /\ Pieces' \in [PieceNo -> Seq(Nat)]
       /\ a \in {9, 6, 3}
       /\ Pieces[a] = FlattenSeq(responses[s]) /\ Pieces'[a] = FlattenSeq(resp)
       /\ Pieces[a - 1] = p /\ Pieces'[a - 1] = rest
       /\ Pieces[a - 2] = FlattenSeq(requests[f])
       /\ Pieces'[a - 2] = FlattenSeq(req)
       /\ \A i \in PieceNo : i \notin {a, a - 1, a - 2} => Pieces'[i] = Pieces[i]
  BY <1>1, <1>10, RelayPieces DEF a, f, p
<1> DEFINE S == Pieces
           T == Pieces'
           u == [i \in PieceNo |-> IF i = a THEN FlattenSeq(resp) ELSE IF i = a - 1 THEN c ELSE S[i]]
<1>12. FlattenSeq(resp) \in Seq(Nat)
  BY <1>5, FlattenType
<1> HIDE DEF S, T
<1>13. u \in [PieceNo -> Seq(Nat)]
  BY <1>5, <1>11, <1>12 DEF S
<1>14. /\ a \in PieceNo /\ a - 1 \in PieceNo /\ a - 2 \in PieceNo
       /\ a - 1 \in {8, 5, 2} /\ a - 2 \in {7, 4, 1} /\ a # a - 1 /\ a # a - 2 /\ a - 1 # a - 2
       /\ (a - 1) + 1 = a /\ (a - 2) + 1 = a - 1
       /\ a - 1 \in 1 .. 9 /\ a - 2 \in 1 .. 9
  BY <1>11, RelayNumbers
<1>15. /\ u[a] = FlattenSeq(resp) /\ u[a - 1] = c
       /\ \A i \in PieceNo : i \notin {a - 1, a} => u[i] = S[i]
  BY <1>14
<1> HIDE DEF u
<1>16. Moves(S, u, a - 1, h, h)
  <2>1. S[a] = h \o u[a] /\ u[a - 1] = S[a - 1] \o h
    BY <1>6, <1>11, <1>15 DEF S, c
  <2> QED
    BY <1>5, <1>11, <1>13, <1>14, <1>15, <2>1 DEF Moves, S
<1>17. Relays(S, u)
  BY <1>14, <1>16 DEF Relays
<1>18. CASE ~full
  <2>1. rest = c /\ req = requests[f]
    BY <1>18 DEF rest, req
  <2>2. \A i \in PieceNo : T[i] = u[i]
    BY <1>11, <1>14, <1>15, <2>1 DEF S, T
  <2>3. T = u
    BY <1>11, <1>13, <2>2 DEF T
  <2> QED
    BY <1>7, <1>10, <1>17, <2>3 DEF S, T
<1>19. CASE full
  <2>1. rest = <<>> /\ req = Append(requests[f], c)
    BY <1>19 DEF rest, req
  <2>2. FlattenSeq(req) = FlattenSeq(requests[f]) \o c
    <3>1. requests[f] \in Seq(Seq(Nat))
      BY <1>4
    <3> QED
      BY <1>5, <2>1, <3>1, FlattenAppend
  <2>3. u[a - 1] = c \o T[a - 1] /\ T[a - 2] = u[a - 2] \o c
    <3>1. u[a - 1] = c \o <<>> /\ T[a - 1] = <<>>
      BY <1>5, <1>11, <1>15, <2>1 DEF T
    <3>2. u[a - 2] = FlattenSeq(requests[f]) /\ T[a - 2] = FlattenSeq(req)
      BY <1>11, <1>14, <1>15 DEF S, T
    <3> QED
      BY <2>2, <3>1, <3>2
  <2>4. \A i \in PieceNo : i \notin {a - 2, a - 1} => T[i] = u[i]
    BY <1>11, <1>14, <1>15 DEF S, T
  <2>5. Moves(u, T, a - 2, c, c)
    BY <1>5, <1>11, <1>13, <1>14, <2>3, <2>4 DEF Moves, T
  <2>6. Relays(u, T)
    BY <1>14, <2>5 DEF Relays
  <2> QED
    BY <1>7, <1>10, <1>17, <2>6 DEF S, T
<1> QED
  BY <1>18, <1>19

LEMMA RelayEndMoves ==
    ASSUME MessageTypes, NEW s \in Stage, RelayEnd(s)
    PROVE  /\ MessageTypes'
           /\ Relays(Pieces, Pieces')
           /\ Len(pending'[s]) = 0
           /\ \A r \in Stage : r # s => pending'[r] = pending[r]
<1> DEFINE p == pending[s]
           f == Feeds[s]
           req == IF p = <<>> THEN requests[f] ELSE Append(requests[f], p)
           resp == responses[s]
           none == <<>>
<1>1. /\ UNCHANGED <<run, ingest>> /\ UNCHANGED ingest /\ UNCHANGED responses
      /\ requests' = IF p = <<>> THEN requests ELSE [requests EXCEPT ![f] = Append(@, p)]
      /\ pending' = [pending EXCEPT ![s] = none]
  BY DEF RelayEnd, Flushed
<1>3. s \in Service /\ f \in Service /\ f \in Receiver
  BY DEF Stage, Service, Feeds, Receiver
<1>4. /\ resp \in Seq(Seq(Nat)) /\ requests[f] \in Seq(Seq(Nat)) /\ p \in Seq(Nat)
  BY <1>3 DEF MessageTypes
<1>5. none \in Seq(Nat) /\ Len(none) = 0
  OBVIOUS
<1>8. req \in Seq(Seq(Nat))
  BY <1>4
<1>9. /\ requests' = [requests EXCEPT ![f] = req]
      /\ responses' = [responses EXCEPT ![s] = resp]
  <2>1. requests = [requests EXCEPT ![f] = requests[f]]
    BY <1>3 DEF MessageTypes
  <2>2. responses = [responses EXCEPT ![s] = responses[s]]
    BY <1>3 DEF MessageTypes
  <2> QED
    BY <1>1, <2>1, <2>2
<1>7. pending' = [pending EXCEPT ![s] = none] /\ UNCHANGED <<run, ingest>> /\ UNCHANGED ingest
  BY <1>1
<1> DEFINE a == RelayAt[s]
<1> HIDE DEF p, f, resp, req, a, none
<1>10. /\ MessageTypes'
       /\ requests'[f] = req /\ responses'[s] = resp /\ pending'[s] = none
       /\ \A r \in Service : r # f => requests'[r] = requests[r]
       /\ \A r \in Service : r # s => responses'[r] = responses[r]
       /\ \A r \in Stage : r # s => pending'[r] = pending[r]
  BY <1>4, <1>5, <1>7, <1>8, <1>9, RelayTypes DEF f
<1>11. /\ Pieces \in [PieceNo -> Seq(Nat)] /\ Pieces' \in [PieceNo -> Seq(Nat)]
       /\ a \in {9, 6, 3}
       /\ Pieces[a] = FlattenSeq(resp) /\ Pieces'[a] = FlattenSeq(resp)
       /\ Pieces[a - 1] = p /\ Pieces'[a - 1] = none
       /\ Pieces[a - 2] = FlattenSeq(requests[f])
       /\ Pieces'[a - 2] = FlattenSeq(req)
       /\ \A i \in PieceNo : i \notin {a, a - 1, a - 2} => Pieces'[i] = Pieces[i]
  BY <1>7, <1>10, RelayPieces DEF a, f, p, resp
<1> DEFINE S == Pieces
           T == Pieces'
<1> HIDE DEF S, T
<1>14. /\ a \in PieceNo /\ a - 1 \in PieceNo /\ a - 2 \in PieceNo
       /\ a - 2 \in {7, 4, 1} /\ (a - 2) + 1 = a - 1 /\ a - 2 \in 1 .. 9
  BY <1>11, RelayNumbers
<1>15. FlattenSeq(req) = FlattenSeq(requests[f]) \o p
  <2>1. CASE p = <<>>
    <3>1. FlattenSeq(requests[f]) \in Seq(Nat)
      BY <1>4, FlattenType
    <3> QED
      BY <2>1, <3>1 DEF req
  <2>2. CASE p # <<>>
    <3>1. requests[f] \in Seq(Seq(Nat)) /\ req = Append(requests[f], p)
      BY <1>4, <2>2 DEF req
    <3> QED
      BY <1>4, <3>1, FlattenAppend
  <2> QED
    BY <2>1, <2>2
<1>16. S[a - 1] = p \o T[a - 1] /\ T[a - 2] = S[a - 2] \o p
  <2>1. p = p \o none
    BY <1>4 DEF none
  <2> QED
    BY <1>11, <1>15, <2>1 DEF S, T
<1>17. \A i \in PieceNo : i \notin {a - 2, a - 1} => T[i] = S[i]
  BY <1>11 DEF S, T
<1>18. Moves(S, T, a - 2, p, p)
  BY <1>4, <1>11, <1>14, <1>16, <1>17 DEF Moves, S, T
<1>19. Relays(S, T)
  BY <1>14, <1>18 DEF Relays
<1> QED
  BY <1>5, <1>10, <1>19 DEF S, T

(***************************************************************************)
(* The groups of the aggregator.                                           *)
(***************************************************************************)
\* What NewKeys does.  f holds the types in Map order after the first n events.
NextKeys(keys, i) ==
    IF input[i] = WorkItem \/ Key(input[i]) \in ToSet(keys) THEN keys
    ELSE Append(keys, Key(input[i]))

Grows(f, msg, n) ==
    f = [i \in 0 .. n |-> IF i = 0 THEN order ELSE NextKeys(f[i - 1], msg[i])]

LEMMA GrowsExists ==
    ASSUME NEW msg, NEW n \in Nat
    PROVE  \E f : Grows(f, msg, n)
<1> DEFINE T == {k \in Nat : ~ \E f : Grows(f, msg, k)}
<1>1. SUFFICES ASSUME T # {} PROVE FALSE
  OBVIOUS
<1>2. T \in SUBSET Nat
  OBVIOUS
<1>3. PICK k \in T : \A j \in T : k <= j
  <2> HIDE DEF T
  <2> QED
    BY <1>1, <1>2, LeastNatural
<1>4. k # 0
  <2>1. Grows([i \in 0 .. 0 |-> order], msg, 0)
    BY DEF Grows
  <2> QED
    BY <1>3, <2>1
<1>5. k - 1 \in Nat /\ k - 1 \notin T
  BY <1>3, <1>4
<1>6. PICK f : Grows(f, msg, k - 1)
  BY <1>5
<1> DEFINE g == [i \in 0 .. k |-> IF i < k THEN f[i] ELSE NextKeys(f[i - 1], msg[i])]
<1>7. ASSUME NEW i \in 0 .. k
      PROVE  g[i] = IF i = 0 THEN order ELSE NextKeys(g[i - 1], msg[i])
  <2>1. CASE i < k
    <3>1. i \in 0 .. k - 1
      BY <2>1
    <3>2. f[i] = IF i = 0 THEN order ELSE NextKeys(f[i - 1], msg[i])
      BY <1>6, <3>1 DEF Grows
    <3> QED
      BY <2>1, <3>2
  <2>2. CASE i = k
    BY <1>4, <2>2
  <2> QED
    BY <2>1, <2>2
<1>8. Grows(g, msg, k)
  <2>1. g = [i \in 0 .. k |-> g[i]]
    OBVIOUS
  <2> HIDE DEF g
  <2> QED
    BY <1>7, <2>1 DEF Grows
<1> QED
  BY <1>3, <1>8

LEMMA NewKeysGrows ==
    ASSUME NEW msg, Len(msg) \in Nat
    PROVE  \E f : Grows(f, msg, Len(msg)) /\ NewKeys(msg) = f[Len(msg)]
<1> DEFINE n == Len(msg)
           c == CHOOSE g : g = [i \in 0 .. n |->
                    IF i = 0 THEN order
                    ELSE IF \/ input[msg[i]] = WorkItem
                            \/ Key(input[msg[i]]) \in ToSet(g[i - 1]) THEN g[i - 1]
                    ELSE Append(g[i - 1], Key(input[msg[i]]))]
<1>1. NewKeys(msg) = c[n]
  BY DEF NewKeys
<1>2. Grows(c, msg, n)
  <2>1. \E g : g = [i \in 0 .. n |->
                    IF i = 0 THEN order
                    ELSE IF \/ input[msg[i]] = WorkItem
                            \/ Key(input[msg[i]]) \in ToSet(g[i - 1]) THEN g[i - 1]
                    ELSE Append(g[i - 1], Key(input[msg[i]]))]
    <3>1. PICK f : Grows(f, msg, n)
      BY GrowsExists
    <3> QED
      BY <3>1 DEF Grows, NextKeys
  <2> QED
    BY <2>1 DEF Grows, NextKeys
<1> QED
  BY <1>1, <1>2

\* The line that opens the group of k.
First(k, i) ==
    /\ i \in DOMAIN input /\ Counts(input[i]) /\ Key(input[i]) = k
    /\ \A j \in 1 .. i - 1 : ~(Counts(input[j]) /\ Key(input[j]) = k)

Types == {Key(l) : l \in Line}

\* Of the first n lines those in todo are still under way; the groups of the
\* others are in keys, in the order in which the input opens them, before every
\* line that is still under way.
Groups(keys, n, todo) ==
    /\ keys \in Seq(Types)
    /\ \A m \in 1 .. Len(keys) : \E i \in 1 .. n : First(keys[m], i) /\ \A j \in todo : i < j
    /\ \A m1, m2 \in 1 .. Len(keys) : m1 < m2 =>
          \A i, j \in Nat : First(keys[m1], i) /\ First(keys[m2], j) => i < j
    /\ \A j \in 1 .. n : j \notin todo /\ Counts(input[j]) => Key(input[j]) \in ToSet(keys)

LEMMA FirstOnce ==
    ASSUME NEW k, NEW i \in Nat, NEW j \in Nat, First(k, i), First(k, j), input \in Seq(Line \cup {WorkItem})
    PROVE  i = j
<1>1. i \in 1 .. Len(input) /\ j \in 1 .. Len(input)
  BY LenProperties DEF First
<1>2. i < j => i \in 1 .. j - 1
  BY <1>1
<1>3. j < i => j \in 1 .. i - 1
  BY <1>1
<1>4. ~(i < j) /\ ~(j < i)
  BY <1>2, <1>3 DEF First
<1> QED
  BY <1>4

\* Fewer events are under way, and those that no longer are do not count.
LEMMA GroupsFewer ==
    ASSUME NEW keys, NEW n, NEW A, NEW B, Groups(keys, n, A), B \subseteq A,
           \A e \in A : e \notin B => ~Counts(input[e])
    PROVE  Groups(keys, n, B)
  BY DEF Groups

\* One more line is under way.
LEMMA GroupsMore ==
    ASSUME NEW keys, NEW n \in Nat, NEW A, NEW B, Groups(keys, n, A), B = A \cup {n + 1}
    PROVE  Groups(keys, n + 1, B)
<1>1. 1 .. n + 1 = (1 .. n) \cup {n + 1}
  OBVIOUS
<1>2. \A i \in 1 .. n : i < n + 1
  OBVIOUS
<1>3. ASSUME NEW m \in 1 .. Len(keys)
      PROVE  \E i \in 1 .. n + 1 : First(keys[m], i) /\ \A j \in B : i < j
  <2>1. PICK i \in 1 .. n : First(keys[m], i) /\ \A j \in A : i < j
    BY DEF Groups
  <2> QED
    BY <1>1, <1>2, <2>1
<1>4. \A j \in 1 .. n + 1 : j \notin B => j \in 1 .. n /\ j \notin A
  BY <1>1
<1> QED
  BY <1>3, <1>4 DEF Groups

\* The aggregator accounts for the first of the events under way.
LEMMA GroupsNext ==
    ASSUME NEW keys, NEW n \in Nat, NEW A, NEW e \in A, Groups(keys, n, A),
           input \in Seq(Line \cup {WorkItem}), n <= Len(input), WorkItem \notin Line,
           A \subseteq 1 .. n, \A j \in A : j # e => e < j,
           input[e] = WorkItem \/ Counts(input[e])
    PROVE  /\ Groups(NextKeys(keys, e), n, A \ {e})
           /\ ToSet(NextKeys(keys, e)) =
                 ToSet(keys) \cup (IF input[e] = WorkItem THEN {} ELSE {Key(input[e])})
<1> DEFINE k == Key(input[e])
           B == A \ {e}
<1>1. e \in 1 .. n /\ e \in DOMAIN input /\ Len(input) \in Nat
  BY LenProperties
<1>2. keys \in Seq(Types)
  BY DEF Groups
<1>3. CASE input[e] = WorkItem \/ k \in ToSet(keys)
  <2>1. NextKeys(keys, e) = keys
    BY <1>3 DEF NextKeys
  <2>2. Counts(input[e]) => k \in ToSet(keys)
    BY <1>3 DEF Counts
  <2>3. Groups(keys, n, B)
    <3>1. \A m \in 1 .. Len(keys) : \E i \in 1 .. n : First(keys[m], i) /\ \A j \in B : i < j
      BY DEF Groups
    <3>2. \A j \in 1 .. n : j \notin B /\ Counts(input[j]) => Key(input[j]) \in ToSet(keys)
      BY <2>2 DEF Groups
    <3> QED
      BY <3>1, <3>2 DEF Groups
  <2> QED
    BY <1>3, <2>1, <2>3
<1>4. CASE ~(input[e] = WorkItem \/ k \in ToSet(keys))
  <2> DEFINE new == Append(keys, k)
             len == Len(keys)
  <2>1. NextKeys(keys, e) = new
    BY <1>4 DEF NextKeys
  <2>2. input[e] \in Line
    BY <1>1, <1>4
  <2>3. k \in Types
    BY <2>2 DEF Types
  <2>4. /\ new \in Seq(Types) /\ Len(new) = len + 1 /\ len \in Nat /\ new[len + 1] = k
        /\ \A m \in 1 .. len : new[m] = keys[m]
    BY <1>2, <2>3, AppendProperties
  <2>5. ToSet(new) = ToSet(keys) \cup {k}
    <3>1. new = keys \o <<k>>
      BY <1>2, <2>3, AppendIsConcat
    <3> DEFINE one == <<k>>
    <3>2. ToSet(one) = {k} /\ one \in Seq(Types) /\ new = keys \o one
      BY <2>3, <3>1 DEF ToSet
    <3> HIDE DEF one
    <3> QED
      BY <1>2, <3>2, Parts
  <2> HIDE DEF new, len, k
  <2>6. First(k, e)
    <3>1. ASSUME NEW j \in 1 .. e - 1, Counts(input[j]), Key(input[j]) = k
          PROVE  FALSE
      <4>1. j \in 1 .. n /\ j < e /\ ~(e < j) /\ j # e
        BY <1>1, <3>1
      <4>2. j \notin A
        BY <4>1
      <4>3. k \in ToSet(keys)
        BY <3>1, <4>1, <4>2 DEF Groups
      <4> QED
        BY <1>4, <4>3
    <3> QED
      BY <1>1, <1>4, <3>1 DEF First, k
  <2>7. ASSUME NEW m \in 1 .. len
        PROVE  \E i \in 1 .. n : First(keys[m], i) /\ \A j \in A : i < j
    BY <2>7 DEF Groups, len
  <2>8. ASSUME NEW m \in 1 .. len + 1
        PROVE  \E i \in 1 .. n : First(new[m], i) /\ \A j \in B : i < j
    <3>1. CASE m \in 1 .. len
      BY <2>4, <2>7, <3>1
    <3>2. CASE m = len + 1
      BY <1>1, <2>4, <2>6, <3>2
    <3> QED
      BY <2>4, <3>1, <3>2
  <2>9. ASSUME NEW m1 \in 1 .. len + 1, NEW m2 \in 1 .. len + 1, m1 < m2,
               NEW i \in Nat, NEW j \in Nat, First(new[m1], i), First(new[m2], j)
        PROVE  i < j
    <3>1. m1 \in 1 .. len
      BY <2>4, <2>9
    <3>2. CASE m2 \in 1 .. len
      BY <2>4, <2>9, <3>1, <3>2 DEF Groups, len
    <3>3. CASE m2 = len + 1
      <4>1. j = e
        <5>1. First(k, j) /\ First(k, e) /\ e \in Nat
          BY <1>1, <2>4, <2>6, <2>9, <3>3
        <5> QED
          BY <5>1, FirstOnce
      <4>2. PICK f \in 1 .. n : First(keys[m1], f) /\ f < e
        BY <2>7, <3>1
      <4>3. f = i
        <5>1. First(keys[m1], i) /\ f \in Nat
          BY <2>4, <2>9, <3>1
        <5> QED
          BY <4>2, <5>1, FirstOnce
      <4> QED
        BY <4>1, <4>2, <4>3
    <3> QED
      BY <2>4, <3>2, <3>3
  <2>10. \A j \in 1 .. n : j \notin B /\ Counts(input[j]) => Key(input[j]) \in ToSet(new)
    BY <2>5 DEF Groups, k
  <2>11. Groups(new, n, B)
    BY <2>4, <2>8, <2>9, <2>10 DEF Groups
  <2> QED
    BY <1>4, <2>1, <2>5, <2>11 DEF k
<1> QED
  BY <1>3, <1>4

LEMMA NewKeysGroups ==
    ASSUME NEW msg \in Seq(Nat), NEW rest, NEW n \in Nat, Groups(order, n, ToSet(msg) \cup rest),
           input \in Seq(Line \cup {WorkItem}), n <= Len(input), WorkItem \notin Line,
           Increasing(msg), \A a \in ToSet(msg), b \in rest : a < b,
           ToSet(msg) \cup rest \subseteq 1 .. n,
           \A e \in ToSet(msg) : input[e] = WorkItem \/ Counts(input[e])
    PROVE  /\ Groups(NewKeys(msg), n, rest)
           /\ \A k : k \in ToSet(NewKeys(msg)) <=>
                 \/ k \in ToSet(order)
                 \/ \E e \in ToSet(msg) : input[e] # WorkItem /\ Key(input[e]) = k
<1>1. Len(msg) \in Nat /\ DOMAIN msg = 1 .. Len(msg)
  BY LenProperties
<1>2. PICK f : Grows(f, msg, Len(msg)) /\ NewKeys(msg) = f[Len(msg)]
  BY <1>1, NewKeysGrows
<1> DEFINE len == Len(msg)
           Later(k) == {msg[i] : i \in k + 1 .. len} \cup rest
           Good(k) == /\ Groups(f[k], n, Later(k))
                      /\ \A x : x \in ToSet(f[k]) <=>
                            \/ x \in ToSet(order)
                            \/ \E i \in 1 .. k : input[msg[i]] # WorkItem /\ Key(input[msg[i]]) = x
           T == {k \in 0 .. len : ~Good(k)}
<1>3. Good(len) => /\ Groups(NewKeys(msg), n, rest)
                   /\ \A k : k \in ToSet(NewKeys(msg)) <=>
                         \/ k \in ToSet(order)
                         \/ \E e \in ToSet(msg) : input[e] # WorkItem /\ Key(input[e]) = k
  <2>1. len + 1 .. len = {} /\ Later(len) = rest
    BY <1>1
  <2>2. ToSet(msg) = {msg[i] : i \in 1 .. len}
    BY <1>1 DEF ToSet
  <2> QED
    BY <1>2, <2>1, <2>2
<1> HIDE DEF len
<1>4. len \in Nat /\ DOMAIN msg = 1 .. len /\ Grows(f, msg, len)
  BY <1>1, <1>2 DEF len
<1>5. SUFFICES ASSUME T # {} PROVE FALSE
  <2>1. len \in 0 .. len
    BY <1>4
  <2>2. T = {} => Good(len)
    <3> HIDE DEF Good
    <3> QED
      BY <2>1
  <2> HIDE DEF T, Good
  <2> QED
    BY <1>3, <2>2
<1>6. T \in SUBSET Nat
  <2>1. 0 .. len \subseteq Nat
    BY <1>4
  <2> QED
    BY <2>1
<1>7. PICK k \in T : \A j \in T : k <= j
  <2> HIDE DEF T
  <2> QED
    BY <1>5, <1>6, LeastNatural
<1>8. ToSet(msg) = {msg[i] : i \in 1 .. len}
  BY <1>4 DEF ToSet
<1>9. k # 0
  <2>1. f[0] = order
    BY <1>4 DEF Grows
  <2>2. Later(0) = ToSet(msg) \cup rest
    BY <1>8
  <2>3. Groups(f[0], n, Later(0))
    <3> HIDE DEF Later
    <3> QED
      BY <2>1, <2>2
  <2>4. 1 .. 0 = {}
    OBVIOUS
  <2>5. Good(0)
    <3> HIDE DEF Later
    <3> QED
      BY <2>1, <2>3, <2>4
  <2> QED
    BY <1>7, <2>5
<1>10. k \in 1 .. len /\ k - 1 \in 0 .. len /\ ~(k <= k - 1) /\ (k - 1) + 1 = k
  BY <1>4, <1>7, <1>9
<1>11. Good(k - 1)
  BY <1>7, <1>10
<1> DEFINE e == msg[k]
<1>12. f[k] = NextKeys(f[k - 1], e)
  BY <1>4, <1>9, <1>10 DEF Grows
<1>13. e \in ToSet(msg) /\ e \in Nat
  BY <1>4, <1>8, <1>10
<1>14. \A x \in Later(k) : e < x
  <2>1. \A i \in k + 1 .. len : i \in 1 .. len /\ k < i
    BY <1>4, <1>10
  <2>2. \A i \in k + 1 .. len : e < msg[i]
    BY <1>4, <1>10, <2>1 DEF Increasing
  <2>3. \A x \in rest : e < x
    BY <1>13
  <2> QED
    BY <2>2, <2>3
<1>15. Later(k - 1) = Later(k) \cup {e}
  <2>1. (k - 1) + 1 .. len = (k + 1 .. len) \cup {k}
    BY <1>4, <1>10
  <2> QED
    BY <2>1
<1>16. e \notin Later(k)
  <2>1. ~(e < e)
    BY <1>13
  <2> QED
    BY <1>14, <2>1
<1>17. Later(k - 1) \subseteq 1 .. n
  <2>1. \A i \in (k - 1) + 1 .. len : msg[i] \in ToSet(msg)
    BY <1>4, <1>8, <1>10
  <2> QED
    BY <2>1
<1>18. \A i \in 1 .. k : i \in 1 .. k - 1 \/ i = k
  BY <1>10
<1>19. \A i \in 1 .. k - 1 : i \in 1 .. k
  BY <1>10
<1> DEFINE A == Later(k - 1)
           B == Later(k)
           keys == f[k - 1]
<1>20. /\ Groups(keys, n, A) /\ A = B \cup {e} /\ e \notin B /\ A \subseteq 1 .. n
       /\ \A x \in B : e < x
  BY <1>11, <1>14, <1>15, <1>16, <1>17
<1>21. input[e] = WorkItem \/ Counts(input[e])
  BY <1>13
<1> HIDE DEF A, B, keys, e
<1>22. /\ Groups(NextKeys(keys, e), n, A \ {e})
       /\ ToSet(NextKeys(keys, e)) =
             ToSet(keys) \cup (IF input[e] = WorkItem THEN {} ELSE {Key(input[e])})
  <2>1. e \in A /\ \A j \in A : j # e => e < j
    BY <1>20
  <2> QED
    BY <1>20, <1>21, <2>1, GroupsNext
<1>23. A \ {e} = B
  BY <1>20
<1>24. Groups(f[k], n, Later(k))
  BY <1>12, <1>22, <1>23 DEF keys, B
<1>25. \A x : x \in ToSet(f[k]) <=>
          x \in ToSet(keys) \/ (input[e] # WorkItem /\ Key(input[e]) = x)
  BY <1>12, <1>22 DEF keys
<1>26. k \in 1 .. k
  BY <1>10
<1>27. ASSUME NEW x
       PROVE  x \in ToSet(f[k]) <=>
                 \/ x \in ToSet(order)
                 \/ \E i \in 1 .. k : input[msg[i]] # WorkItem /\ Key(input[msg[i]]) = x
  <2>1. x \in ToSet(keys) <=>
           \/ x \in ToSet(order)
           \/ \E i \in 1 .. k - 1 : input[msg[i]] # WorkItem /\ Key(input[msg[i]]) = x
    BY <1>11 DEF keys
  <2> QED
    BY <1>18, <1>19, <1>25, <1>26, <2>1 DEF e
<1>28. Good(k)
  BY <1>24, <1>27
<1> QED
  BY <1>7, <1>28

LEMMA MovesParts ==
    ASSUME NEW s, NEW t, NEW k, NEW x, NEW y, Moves(s, t, k, x, y)
    PROVE  /\ k \in PieceNo /\ k + 1 \in PieceNo /\ k # k + 1
           /\ ToSet(t[k]) = ToSet(s[k]) \cup ToSet(y)
           /\ ToSet(s[k + 1]) = ToSet(x) \cup ToSet(t[k + 1])
           /\ \A i \in PieceNo : i # k => ToSet(t[i]) \subseteq ToSet(s[i])
           /\ \A e \in AllOf(s) : e \notin AllOf(t) => e \in ToSet(x) /\ e \notin ToSet(y)
<1>1. /\ k \in PieceNo /\ k + 1 \in PieceNo /\ k # k + 1
      /\ x \in Seq(Nat) /\ y \in Seq(Nat)
      /\ s[k + 1] = x \o t[k + 1] /\ t[k] = s[k] \o y
      /\ \A i \in PieceNo : i \notin {k, k + 1} => t[i] = s[i]
      /\ s \in [PieceNo -> Seq(Nat)] /\ t \in [PieceNo -> Seq(Nat)]
  BY PieceNumbers DEF Moves
<1>2. s[k] \in Seq(Nat) /\ t[k + 1] \in Seq(Nat)
  BY <1>1
<1>3. ToSet(t[k]) = ToSet(s[k]) \cup ToSet(y)
  BY <1>1, <1>2, Parts
<1>4. ToSet(s[k + 1]) = ToSet(x) \cup ToSet(t[k + 1])
  BY <1>1, <1>2, Parts
<1>5. \A i \in PieceNo : i # k => ToSet(t[i]) \subseteq ToSet(s[i])
  BY <1>1, <1>4
<1>6. \A i \in PieceNo : ToSet(t[i]) \subseteq AllOf(t)
  BY DEF AllOf
<1>7. ASSUME NEW e \in AllOf(s), e \notin AllOf(t)
      PROVE  e \in ToSet(x) /\ e \notin ToSet(y)
  <2>1. PICK i \in PieceNo : e \in ToSet(s[i])
    BY <1>7 DEF AllOf
  <2>2. e \notin ToSet(t[i]) /\ e \notin ToSet(t[k]) /\ e \notin ToSet(t[k + 1])
    BY <1>1, <1>6, <1>7
  <2>3. i = k + 1
    BY <1>1, <1>3, <2>1, <2>2
  <2> QED
    BY <1>3, <1>4, <2>1, <2>2, <2>3
<1> QED
  BY <1>1, <1>3, <1>4, <1>5, <1>7

\* What is behind the parser is valid, what is behind the rules passes them.
Passed(t) ==
    /\ \A k \in 1 .. 6 : \A e \in ToSet(t[k]) : Parses(input[e])
    /\ \A k \in 1 .. 3 : \A e \in ToSet(t[k]) : input[e] = WorkItem \/ PassesRules(input[e])

Flow(t, keys, n) ==
    /\ Ordered(t) /\ AllOf(t) \subseteq 1 .. n
    /\ Passed(t) /\ Groups(keys, n, AllOf(t))

LEMMA Behind ==
    /\ \A k \in 1 .. 6 : k \in PieceNo /\ k # 10 /\ k # 9
    /\ \A k \in 1 .. 3 : k \in PieceNo /\ k # 9
    /\ \A k \in {1, 2, 4, 5, 7, 8} : /\ k \in 1 .. 6 => k + 1 \in 1 .. 6
                                     /\ k \in 1 .. 3 => k + 1 \in 1 .. 3
    /\ 6 \notin 1 .. 3 /\ 3 \in 1 .. 6 /\ 3 + 1 \in 1 .. 6
  BY DEF PieceNo

LEMMA FlowRelays ==
    ASSUME NEW s, NEW t, NEW keys, NEW n, Flow(s, keys, n), Relays(s, t)
    PROVE  Flow(t, keys, n)
<1>1. PICK k \in {1, 2, 4, 5, 7, 8} : \E x : Moves(s, t, k, x, x)
  BY DEF Relays
<1>2. PICK x : Moves(s, t, k, x, x)
  BY <1>1
<1>3. /\ k \in PieceNo /\ k + 1 \in PieceNo /\ k # k + 1
      /\ ToSet(t[k]) = ToSet(s[k]) \cup ToSet(x)
      /\ ToSet(s[k + 1]) = ToSet(x) \cup ToSet(t[k + 1])
      /\ \A i \in PieceNo : i # k => ToSet(t[i]) \subseteq ToSet(s[i])
      /\ \A e \in AllOf(s) : e \in AllOf(t)
  BY <1>2, MovesParts
<1>4. Ordered(t) /\ AllOf(t) \subseteq AllOf(s)
  BY <1>2, MovesOrdered DEF Flow
<1>5. Passed(t)
  <2>1. ASSUME NEW i \in 1 .. 6, NEW e \in ToSet(t[i])
        PROVE  Parses(input[e])
    <3>1. CASE i = k
      <4>1. e \in ToSet(s[k]) \/ e \in ToSet(s[k + 1])
        BY <1>3, <2>1, <3>1
      <4>2. k \in 1 .. 6 /\ k + 1 \in 1 .. 6
        BY <2>1, <3>1, Behind
      <4> QED
        BY <4>1, <4>2 DEF Flow, Passed
    <3>2. CASE i # k
      BY <1>3, <2>1, <3>2, Behind DEF Flow, Passed
    <3> QED
      BY <3>1, <3>2
  <2>2. ASSUME NEW i \in 1 .. 3, NEW e \in ToSet(t[i])
        PROVE  input[e] = WorkItem \/ PassesRules(input[e])
    <3>1. CASE i = k
      <4>1. e \in ToSet(s[k]) \/ e \in ToSet(s[k + 1])
        BY <1>3, <2>2, <3>1
      <4>2. k \in 1 .. 3 /\ k + 1 \in 1 .. 3
        BY <2>2, <3>1, Behind
      <4> QED
        BY <4>1, <4>2 DEF Flow, Passed
    <3>2. CASE i # k
      BY <1>3, <2>2, <3>2, Behind DEF Flow, Passed
    <3> QED
      BY <3>1, <3>2
  <2> QED
    BY <2>1, <2>2 DEF Passed
<1>6. Groups(keys, n, AllOf(t))
  BY <1>3, <1>4, GroupsFewer DEF Flow
<1> QED
  BY <1>4, <1>5, <1>6 DEF Flow

\* The same for what the ingest service sends.
LEMMA FlowSent ==
    ASSUME NEW s, NEW t, NEW keys, NEW n, Flow(s, keys, n), \E x : Moves(s, t, 9, x, x)
    PROVE  Flow(t, keys, n)
<1>1. PICK x : Moves(s, t, 9, x, x)
  OBVIOUS
<1>2. /\ \A i \in PieceNo : i # 9 => ToSet(t[i]) \subseteq ToSet(s[i])
      /\ \A e \in AllOf(s) : e \in AllOf(t)
  BY <1>1, MovesParts
<1>3. Ordered(t) /\ AllOf(t) \subseteq AllOf(s)
  BY <1>1, MovesOrdered DEF Flow
<1>4. Passed(t)
  BY <1>2, Behind DEF Flow, Passed
<1>5. Groups(keys, n, AllOf(t))
  BY <1>2, <1>3, GroupsFewer DEF Flow
<1> QED
  BY <1>3, <1>4, <1>5 DEF Flow

LEMMA FlowFilter ==
    ASSUME NEW s, NEW t, NEW keys, NEW n, Flow(s, keys, n), NEW f \in {"parse", "rules"},
           NEW x, Moves(s, t, FilterAt[f], x, Only(x, Passing(f))),
           n \in Nat, input \in Seq(Line \cup {WorkItem}), n <= Len(input)
    PROVE  Flow(t, keys, n)
<1> DEFINE k == FilterAt[f]
           y == Only(x, Passing(f))
<1>1. ToSet(y) = ToSet(x) \cap Passing(f)
  <2>1. x \in Seq(Nat)
    BY DEF Moves
  <2> QED
    BY <2>1, OnlyKeeps
<1> HIDE DEF y
<1>2. Moves(s, t, k, x, y)
  BY DEF y
<1>3. (f = "parse" /\ k = 6) \/ (f = "rules" /\ k = 3)
  BY DEF FilterAt
<1> HIDE DEF k
<1>4. /\ k \in PieceNo /\ k + 1 \in PieceNo /\ k # k + 1
      /\ ToSet(t[k]) = ToSet(s[k]) \cup ToSet(y)
      /\ ToSet(s[k + 1]) = ToSet(x) \cup ToSet(t[k + 1])
      /\ \A i \in PieceNo : i # k => ToSet(t[i]) \subseteq ToSet(s[i])
      /\ \A e \in AllOf(s) : e \notin AllOf(t) => e \in ToSet(x) /\ e \notin ToSet(y)
  BY <1>2, MovesParts
<1>5. Ordered(t) /\ AllOf(t) \subseteq AllOf(s)
  BY <1>2, MovesOrdered DEF Flow
<1>6. \A e \in ToSet(y) : Keeps(f, input[e])
  BY <1>1 DEF Passing
<1>7. Passed(t)
  <2>1. ASSUME NEW i \in 1 .. 6, NEW e \in ToSet(t[i])
        PROVE  Parses(input[e])
    <3>1. CASE i = k
      <4>1. CASE e \in ToSet(s[k])
        BY <2>1, <3>1, <4>1 DEF Flow, Passed
      <4>2. CASE e \in ToSet(y) /\ f = "parse"
        BY <1>6, <4>2 DEF Keeps
      <4>3. CASE e \in ToSet(y) /\ f = "rules"
        <5>1. e \in ToSet(s[k + 1]) /\ k = 3
          BY <1>1, <1>3, <1>4, <4>3
        <5> QED
          BY <5>1, Behind DEF Flow, Passed
      <4> QED
        BY <1>4, <2>1, <3>1, <4>1, <4>2, <4>3
    <3>2. CASE i # k
      BY <1>4, <2>1, <3>2, Behind DEF Flow, Passed
    <3> QED
      BY <3>1, <3>2
  <2>2. ASSUME NEW i \in 1 .. 3, NEW e \in ToSet(t[i])
        PROVE  input[e] = WorkItem \/ PassesRules(input[e])
    <3>1. CASE i = k
      <4>1. f = "rules"
        BY <1>3, <2>2, <3>1, Behind
      <4>2. CASE e \in ToSet(s[k])
        BY <2>2, <3>1, <4>2 DEF Flow, Passed
      <4>3. CASE e \in ToSet(y)
        BY <1>6, <4>1, <4>3 DEF Keeps
      <4> QED
        BY <1>4, <2>2, <3>1, <4>2, <4>3
    <3>2. CASE i # k
      BY <1>4, <2>2, <3>2, Behind DEF Flow, Passed
    <3> QED
      BY <3>1, <3>2
  <2> QED
    BY <2>1, <2>2 DEF Passed
<1>8. ASSUME NEW e \in AllOf(s), e \notin AllOf(t)
      PROVE  ~Counts(input[e])
  <2>1. e \in 1 .. n /\ e \in ToSet(x) /\ e \notin ToSet(y)
    BY <1>4, <1>8 DEF Flow
  <2>2. e \in DOMAIN input
    <3>1. DOMAIN input = 1 .. Len(input) /\ Len(input) \in Nat
      BY LenProperties
    <3> QED
      BY <2>1, <3>1
  <2>3. ~Keeps(f, input[e])
    BY <1>1, <2>1, <2>2 DEF Passing
  <2> QED
    BY <2>3 DEF Keeps, Counts
<1>9. Groups(keys, n, AllOf(t))
  BY <1>5, <1>8, GroupsFewer DEF Flow
<1> QED
  BY <1>5, <1>7, <1>9 DEF Flow

LEMMA FlowAggregate ==
    ASSUME NEW s, NEW t, NEW n \in Nat, Flow(s, order, n), NEW x, Left(s, t, x),
           input \in Seq(Line \cup {WorkItem}), n <= Len(input)
    PROVE  /\ Flow(t, NewKeys(x), n)
           /\ \A k : k \in ToSet(NewKeys(x)) <=>
                 \/ k \in ToSet(order)
                 \/ \E e \in ToSet(x) : input[e] # WorkItem /\ Key(input[e]) = k
<1>1. /\ s \in [PieceNo -> Seq(Nat)] /\ t \in [PieceNo -> Seq(Nat)] /\ x \in Seq(Nat)
      /\ s[1] = x \o t[1]
      /\ \A i \in PieceNo : i # 1 => t[i] = s[i]
      /\ Ordered(s) /\ AllOf(s) \subseteq 1 .. n /\ 1 \in PieceNo
  BY PieceNumbers DEF Left, Flow
<1>2. /\ Ordered(t) /\ AllOf(t) \subseteq AllOf(s) /\ ToSet(x) \subseteq AllOf(s)
      /\ \A a \in ToSet(x), b \in AllOf(t) : a < b
  BY <1>1, HeadLeaves
<1>3. ToSet(s[1]) = ToSet(x) \cup ToSet(t[1])
  BY <1>1, Parts
<1>4. \A i \in PieceNo : ToSet(t[i]) \subseteq ToSet(s[i])
  BY <1>1, <1>3
<1>5. Increasing(x)
  <2>1. Increasing(x \o t[1]) /\ t[1] \in Seq(Nat)
    BY <1>1 DEF Ordered
  <2> QED
    BY <1>1, <2>1, IncreasingParts
<1>6. Passed(t)
  BY <1>4, Behind DEF Flow, Passed
<1>7. AllOf(s) = ToSet(x) \cup AllOf(t)
  <2>1. \A i \in PieceNo : ToSet(t[i]) \subseteq AllOf(t)
    BY DEF AllOf
  <2>2. ASSUME NEW e \in AllOf(s)
        PROVE  e \in ToSet(x) \/ e \in AllOf(t)
    <3>1. PICK i \in PieceNo : e \in ToSet(s[i])
      BY <2>2 DEF AllOf
    <3>2. CASE i = 1
      BY <1>3, <2>1, <3>1, <3>2
    <3>3. CASE i # 1
      BY <1>1, <2>1, <3>1, <3>3
    <3> QED
      BY <3>2, <3>3
  <2> QED
    BY <1>2, <2>2
<1>8. \A e \in ToSet(x) : input[e] = WorkItem \/ Counts(input[e])
  <2>1. ASSUME NEW e \in ToSet(x)
        PROVE  input[e] = WorkItem \/ Counts(input[e])
    <3>1. 1 \in 1 .. 6 /\ 1 \in 1 .. 3 /\ e \in ToSet(s[1])
      BY <1>3
    <3>2. Parses(input[e]) /\ (input[e] = WorkItem \/ PassesRules(input[e]))
      BY <3>1 DEF Flow, Passed
    <3> QED
      BY <3>2 DEF Counts
  <2> QED
    BY <2>1
<1>9. Groups(order, n, ToSet(x) \cup AllOf(t)) /\ ToSet(x) \cup AllOf(t) \subseteq 1 .. n
  BY <1>1, <1>7 DEF Flow
<1>10. /\ Groups(NewKeys(x), n, AllOf(t))
       /\ \A k : k \in ToSet(NewKeys(x)) <=>
                 \/ k \in ToSet(order)
                 \/ \E e \in ToSet(x) : input[e] # WorkItem /\ Key(input[e]) = k
  BY <1>1, <1>2, <1>5, <1>8, <1>9, SplitAssumption, NewKeysGroups
<1> QED
  BY <1>1, <1>2, <1>6, <1>10 DEF Flow

LEMMA FlowReadLine ==
    ASSUME NEW s \in [PieceNo -> Seq(Nat)], NEW t \in [PieceNo -> Seq(Nat)],
           NEW keys, NEW n \in Nat, Flow(s, keys, n), t[10] = Append(s[10], n + 1),
           \A i \in PieceNo : i # 10 => t[i] = s[i]
    PROVE  Flow(t, keys, n + 1)
<1>1. Ordered(t) /\ AllOf(t) \subseteq 1 .. n + 1
  BY EventJoins DEF Flow
<1>2. \A k \in 1 .. 6 : t[k] = s[k]
  BY Behind
<1>3. Passed(t)
  <2>1. \A k \in 1 .. 3 : k \in 1 .. 6
    OBVIOUS
  <2> QED
    BY <1>2, <2>1 DEF Flow, Passed
<1>4. AllOf(t) = AllOf(s) \cup {n + 1}
  <2> DEFINE e == <<n + 1>>
  <2>1. e \in Seq(Nat) /\ ToSet(e) = {n + 1}
    BY DEF ToSet
  <2>2. 10 \in PieceNo
    BY PieceNumbers
  <2>3. s[10] \in Seq(Nat)
    BY <2>2
  <2>4. t[10] = s[10] \o e
    BY <2>3, AppendIsConcat
  <2> HIDE DEF e
  <2>5. ToSet(t[10]) = ToSet(s[10]) \cup {n + 1}
    <3>1. ToSet(s[10] \o e) = ToSet(s[10]) \cup ToSet(e)
      BY <2>1, <2>3, Parts
    <3> QED
      BY <2>1, <2>4, <3>1
  <2>6. \A x : (\E i \in PieceNo : x \in ToSet(t[i])) <=>
               (\E i \in PieceNo : x \in ToSet(s[i])) \/ x = n + 1
    BY <2>2, <2>5
  <2>7. \A x : x \in AllOf(t) <=> x \in AllOf(s) \/ x = n + 1
    BY <2>6, Zenon DEF AllOf
  <2> QED
    BY <2>7
<1>5. Groups(keys, n + 1, AllOf(t))
  BY <1>4, GroupsMore DEF Flow
<1> QED
  BY <1>1, <1>3, <1>5 DEF Flow

(***************************************************************************)
(* The invariant about the events.                                         *)
(***************************************************************************)
BatchesSmall == \A s \in Stage : Len(pending[s]) < (IF batching THEN BatchSize ELSE 1)

\* Everything but the message queues.
Rest ==
    /\ requestsEnded \subseteq Service /\ responsesEnded \subseteq Service
    /\ alive \subseteq Service /\ sinkFailed \in BOOLEAN
    /\ outcome \in {"running", "complete", "failed", "abandoned"}

EventsInOrder == Flow(Pieces, order, sequence)

StatsMatch == DOMAIN stats = ToSet(order)

PInv == MessageTypes /\ EventsInOrder /\ StatsMatch /\ BatchesSmall /\ Rest

LEMMA FlowNext ==
    ASSUME input' = input, Flow(Pieces', order', sequence')
    PROVE  EventsInOrder'
  BY DEF EventsInOrder, Flow, Passed, Groups, First

LEMMA SequenceBounds ==
    ASSUME MessageTypes
    PROVE  sequence \in Nat /\ sequence <= Len(input) /\ input \in Seq(Line \cup {WorkItem})
<1>1. Len(input) \in Nat /\ Wanted \in Nat /\ Wanted <= Len(input)
  BY DEF MessageTypes, Wanted
<1> QED
  BY <1>1 DEF MessageTypes

LEMMA InitPInv == Init => PInv
<1> SUFFICES ASSUME Init PROVE PInv
  OBVIOUS
<1>1. MessageTypes /\ Ordered(Pieces) /\ AllOf(Pieces) \subseteq 1 .. sequence
  BY InitMessages
<1>2. \A k \in PieceNo : Pieces[k] = <<>>
  <2>1. Pieces = <<<<>>, <<>>, <<>>, <<>>, <<>>, <<>>, <<>>, <<>>, <<>>, <<>>>>
    BY FlattenNone DEF Pieces, PiecesOf, Init, Service, Stage
  <2> QED
    BY <2>1 DEF PieceNo
<1>3. ToSet(<<>>) = {} /\ Len(<<>>) = 0
  BY DEF ToSet
<1>4. Passed(Pieces)
  BY <1>2, <1>3, Behind DEF Passed
<1>5. order = <<>> /\ sequence = 0 /\ 1 .. 0 = {} /\ DOMAIN stats = {}
  BY DEF Init
<1>6. Groups(order, sequence, AllOf(Pieces))
  <2>1. <<>> \in Seq(Types) /\ Len(<<>>) = 0
    OBVIOUS
  <2> QED
    BY <1>5, <2>1 DEF Groups
<1>7. EventsInOrder
  BY <1>1, <1>4, <1>6 DEF EventsInOrder, Flow
<1>8. StatsMatch
  BY <1>3, <1>5 DEF StatsMatch
<1>9. BatchesSmall
  BY <1>3, SplitAssumption DEF Init, BatchesSmall
<1>10. Rest
  BY DEF Init, Rest
<1> QED
  BY <1>1, <1>7, <1>8, <1>9, <1>10 DEF PInv

\* Steps that leave the events alone.
LEMMA SameEvents ==
    ASSUME PInv, UNCHANGED run, UNCHANGED <<sequence, batch>>, UNCHANGED pending,
           UNCHANGED <<order, stats>>,
           requests' = [s \in Service |-> requests'[s]],
           \A s \in Receiver : requests'[s] = requests[s],
           responses' = [s \in Service |-> responses'[s]],
           \A s \in Stage : responses'[s] = responses[s]
    PROVE  MessageTypes' /\ EventsInOrder' /\ StatsMatch' /\ BatchesSmall'
<1>1. MessageTypes'
  BY RunKept DEF PInv, MessageTypes
<1>2. Pieces' = Pieces
  BY DEF Pieces, PiecesOf, Receiver, Stage
<1>3. order' = order /\ sequence' = sequence /\ input' = input
  BY DEF run
<1>4. EventsInOrder'
  <2>1. Flow(Pieces', order', sequence')
    BY <1>2, <1>3 DEF PInv, EventsInOrder
  <2> QED
    BY <1>3, <2>1, FlowNext
<1>5. StatsMatch' /\ BatchesSmall'
  BY DEF PInv, StatsMatch, BatchesSmall, run
<1> QED
  BY <1>1, <1>4, <1>5

LEMMA SameKept ==
    ASSUME PInv, UNCHANGED run, UNCHANGED <<sequence, batch>>, UNCHANGED pending,
           UNCHANGED <<order, stats>>, UNCHANGED <<requests, responses>>
    PROVE  MessageTypes' /\ EventsInOrder' /\ StatsMatch' /\ BatchesSmall'
  BY SameEvents DEF PInv, MessageTypes

LEMMA RestNext == PInv /\ Next => Rest'
<1> SUFFICES ASSUME PInv, Next PROVE Rest'
  OBVIOUS
<1> USE DEF PInv, Rest, Service, Stage, Feeds, run, ingest, streams, aggregator, ending
<1>1. CASE ReadLine
  BY <1>1 DEF ReadLine
<1>2. CASE SendEvent
  BY <1>2 DEF SendEvent
<1>3. CASE EndIngest
  BY <1>3 DEF EndIngest
<1>4. ASSUME NEW s \in {"parse", "rules"}, Filter(s) \/ EndFilter(s)
      PROVE  Rest'
  BY <1>4 DEF Filter, EndFilter
<1>5. CASE Aggregate
  BY <1>5 DEF Aggregate
<1>6. CASE EndAggregate
  BY <1>6 DEF EndAggregate
<1>7. ASSUME NEW s \in Stage, RelayEvents(s) \/ RelayEnd(s)
      PROVE  Rest'
  <2>1. Feeds[s] \in Service
    OBVIOUS
  <2>2. CASE RelayEvents(s)
    BY <2>2 DEF RelayEvents
  <2>3. CASE RelayEnd(s)
    <3>1. /\ requestsEnded' = requestsEnded \cup {Feeds[s]}
          /\ UNCHANGED <<responsesEnded, alive, sinkFailed, outcome>>
      BY <2>3 DEF RelayEnd
    <3> HIDE DEF Service, Feeds
    <3> QED
      BY <2>1, <3>1
  <2> QED
    BY <1>7, <2>2, <2>3
<1>8. CASE RelayResults \/ EndResults \/ WriteResult \/ CloseOutput
  BY <1>8 DEF RelayResults, EndResults, WriteResult, CloseOutput
<1>9. CASE Complete \/ Abandon
  BY <1>9 DEF Complete, Abandon
<1>10. ASSUME NEW s \in Service, Crash(s) \/ StreamError(s)
       PROVE  Rest'
  BY <1>10 DEF Crash, StreamError
<1> QED
  BY <1>1, <1>2, <1>3, <1>4, <1>5, <1>6, <1>7, <1>8, <1>9, <1>10 DEF Next

LEMMA PInvIngest ==
    ASSUME PInv, SendsSomething, ReadLine \/ SendEvent \/ EndIngest
    PROVE  MessageTypes' /\ EventsInOrder' /\ StatsMatch' /\ BatchesSmall'
<1>1. /\ MessageTypes /\ EventsInOrder /\ StatsMatch /\ BatchesSmall
      /\ Pieces \in [PieceNo -> Seq(Nat)]
  BY PiecesType DEF PInv
<1>2. MessageTypes' => Pieces' \in [PieceNo -> Seq(Nat)]
  BY PiecesTypeNext
<1>3. CASE ReadLine
  <2>1. /\ input' = input /\ batching' = batching /\ order' = order /\ stats' = stats
        /\ pending' = pending
    BY <1>3 DEF ReadLine, run, aggregator
  <2>2. /\ MessageTypes' /\ sequence' = sequence + 1 /\ sequence \in Nat
        /\ Pieces'[10] = Append(Pieces[10], sequence + 1)
        /\ \A i \in PieceNo : i # 10 => Pieces'[i] = Pieces[i]
    BY <1>1, <1>3, ReadLineTypes
  <2> DEFINE S == Pieces
             T == Pieces'
             n == sequence
  <2>3. Flow(T, order, n + 1)
    <3>1. /\ S \in [PieceNo -> Seq(Nat)] /\ T \in [PieceNo -> Seq(Nat)] /\ n \in Nat
          /\ Flow(S, order, n) /\ T[10] = Append(S[10], n + 1)
          /\ \A i \in PieceNo : i # 10 => T[i] = S[i]
      BY <1>1, <1>2, <2>2 DEF EventsInOrder
    <3> HIDE DEF S, T, n
    <3> QED
      BY <3>1, FlowReadLine
  <2>4. EventsInOrder'
    BY <2>1, <2>2, <2>3, FlowNext
  <2> QED
    BY <1>1, <2>1, <2>2, <2>4 DEF StatsMatch, BatchesSmall
<1>4. CASE SendEvent
  <2>1. /\ input' = input /\ batching' = batching /\ order' = order /\ stats' = stats
        /\ pending' = pending /\ sequence' = sequence
    BY <1>4 DEF SendEvent, run, aggregator
  <2>2. MessageTypes' /\ \E x : Moves(Pieces, Pieces', 9, x, x)
    BY <1>1, <1>4, SendEventMoves
  <2>3. Flow(Pieces', order, sequence)
    <3> DEFINE T == Pieces'
    <3>1. \E x : Moves(Pieces, T, 9, x, x)
      BY <2>2
    <3> HIDE DEF T
    <3>2. Flow(T, order, sequence)
      BY <1>1, <3>1, FlowSent DEF EventsInOrder
    <3> QED
      BY <3>2 DEF T
  <2>4. EventsInOrder'
    BY <2>1, <2>3, FlowNext
  <2> QED
    BY <1>1, <2>1, <2>2, <2>4 DEF StatsMatch, BatchesSmall
<1>5. CASE EndIngest
  BY <1>5, SameKept DEF EndIngest, aggregator
<1> QED
  BY <1>3, <1>4, <1>5

LEMMA PInvFilter ==
    ASSUME PInv, NEW s \in {"parse", "rules"}, Filter(s) \/ EndFilter(s)
    PROVE  MessageTypes' /\ EventsInOrder' /\ StatsMatch' /\ BatchesSmall'
<1>1. MessageTypes /\ EventsInOrder /\ StatsMatch /\ BatchesSmall
  BY DEF PInv
<1>2. CASE Filter(s)
  <2>1. /\ input' = input /\ batching' = batching /\ order' = order /\ stats' = stats
        /\ pending' = pending /\ sequence' = sequence
    BY <1>2 DEF Filter, run, aggregator, ingest
  <2>2. MessageTypes' /\ \E x : Moves(Pieces, Pieces', FilterAt[s], x, Only(x, Passing(s)))
    BY <1>1, <1>2, FilterMoves
  <2> DEFINE T == Pieces'
  <2>3. PICK x : Moves(Pieces, T, FilterAt[s], x, Only(x, Passing(s)))
    BY <2>2
  <2> HIDE DEF T
  <2>4. Flow(T, order, sequence)
    BY <1>1, <2>3, SequenceBounds, FlowFilter DEF EventsInOrder
  <2>5. EventsInOrder'
    BY <2>1, <2>4, FlowNext DEF T
  <2> QED
    BY <1>1, <2>1, <2>2, <2>5 DEF StatsMatch, BatchesSmall
<1>3. CASE EndFilter(s)
  BY <1>3, SameKept DEF EndFilter, aggregator, ingest
<1> QED
  BY <1>2, <1>3

LEMMA AddedDomain ==
    ASSUME NEW msg
    PROVE  \A k : k \in DOMAIN Added(msg) <=>
              \/ k \in DOMAIN stats
              \/ \E e \in ToSet(msg) : input[e] # WorkItem /\ Key(input[e]) = k
<1>1. DOMAIN Added(msg) =
         DOMAIN stats \cup {Key(input[i]) : i \in {i \in ToSet(msg) : input[i] # WorkItem}}
  BY DEF Added
<1> QED
  BY <1>1

LEMMA PInvAggregate ==
    ASSUME PInv, Aggregate
    PROVE  MessageTypes' /\ EventsInOrder' /\ StatsMatch' /\ BatchesSmall'
<1> DEFINE x == Head(requests["aggregate"])
<1>1. MessageTypes /\ EventsInOrder /\ StatsMatch /\ BatchesSmall
  BY DEF PInv
<1>2. /\ input' = input /\ batching' = batching /\ pending' = pending
      /\ sequence' = sequence /\ order' = NewKeys(x) /\ stats' = Added(x)
  BY DEF Aggregate, run, ingest
<1> DEFINE T == Pieces'
<1>3. MessageTypes' /\ Left(Pieces, T, x)
  BY <1>1, AggregateLeaves
<1> HIDE DEF T, x
<1>4. /\ Flow(T, NewKeys(x), sequence)
      /\ \A k : k \in ToSet(NewKeys(x)) <=>
                 \/ k \in ToSet(order)
                 \/ \E e \in ToSet(x) : input[e] # WorkItem /\ Key(input[e]) = k
  BY <1>1, <1>3, SequenceBounds, FlowAggregate, ZenonT(60) DEF EventsInOrder
<1>5. EventsInOrder'
  BY <1>2, <1>4, FlowNext DEF T
<1>6. \A k : k \in DOMAIN Added(x) <=>
          \/ k \in ToSet(order)
          \/ \E e \in ToSet(x) : input[e] # WorkItem /\ Key(input[e]) = k
  BY <1>1, AddedDomain DEF StatsMatch
<1>7. DOMAIN Added(x) = ToSet(NewKeys(x))
  BY <1>4, <1>6
<1> QED
  BY <1>1, <1>2, <1>3, <1>5, <1>7 DEF StatsMatch, BatchesSmall

LEMMA PInvRelay ==
    ASSUME PInv, NEW s \in Stage, RelayEvents(s) \/ RelayEnd(s)
    PROVE  MessageTypes' /\ EventsInOrder' /\ StatsMatch' /\ BatchesSmall'
<1>1. MessageTypes /\ EventsInOrder /\ StatsMatch /\ BatchesSmall
  BY DEF PInv
<1>2. /\ input' = input /\ batching' = batching /\ order' = order /\ stats' = stats
      /\ sequence' = sequence
  BY DEF RelayEvents, RelayEnd, run, ingest, aggregator
<1> DEFINE T == Pieces'
           limit == IF batching THEN BatchSize ELSE 1
<1>3. 0 < limit
  BY <1>1, SplitAssumption DEF MessageTypes
<1>4. /\ MessageTypes'
      /\ \E u : (u = Pieces \/ Relays(Pieces, u)) /\ (u = T \/ Relays(u, T))
      /\ Len(pending'[s]) < limit
      /\ \A r \in Stage : r # s => pending'[r] = pending[r]
  <2>1. CASE RelayEvents(s)
    BY <1>1, <2>1, RelayEventsMoves
  <2>2. CASE RelayEnd(s)
    BY <1>1, <1>3, <2>2, RelayEndMoves
  <2> QED
    BY <2>1, <2>2
<1> HIDE DEF T
<1>5. PICK u : (u = Pieces \/ Relays(Pieces, u)) /\ (u = T \/ Relays(u, T))
  BY <1>4
<1>6. Flow(u, order, sequence)
  BY <1>1, <1>5, FlowRelays DEF EventsInOrder
<1>7. Flow(T, order, sequence)
  BY <1>5, <1>6, FlowRelays
<1>8. EventsInOrder'
  BY <1>2, <1>7, FlowNext DEF T
<1>9. \A r \in Stage : Len(pending'[r]) < limit
  BY <1>1, <1>4 DEF BatchesSmall
<1> QED
  BY <1>1, <1>2, <1>4, <1>8, <1>9 DEF StatsMatch, BatchesSmall

\* What the aggregator answers and the sink receives are no events.
LEMMA PInvResults ==
    ASSUME PInv, EndAggregate \/ RelayResults \/ EndResults \/ WriteResult \/ CloseOutput
    PROVE  MessageTypes' /\ EventsInOrder' /\ StatsMatch' /\ BatchesSmall'
<1>1. /\ requests = [s \in Service |-> requests[s]]
      /\ responses = [s \in Service |-> responses[s]]
  BY DEF PInv, MessageTypes
<1>2. /\ UNCHANGED run /\ UNCHANGED <<sequence, batch>> /\ UNCHANGED pending
      /\ UNCHANGED <<order, stats>>
  BY DEF EndAggregate, RelayResults, EndResults, WriteResult, CloseOutput, ingest, aggregator
<1>3. /\ requests' = [s \in Service |-> requests'[s]]
      /\ \A s \in Receiver : requests'[s] = requests[s]
  <2>1. requests' = requests \/ \E new : requests' = [requests EXCEPT !["sink"] = new]
    BY DEF EndAggregate, RelayResults, EndResults, WriteResult, CloseOutput
  <2> QED
    BY <1>1, <2>1 DEF Receiver, Service
<1>4. /\ responses' = [s \in Service |-> responses'[s]]
      /\ \A s \in Stage : responses'[s] = responses[s]
  <2>1. responses' = responses \/ \E new : responses' = [responses EXCEPT !["aggregate"] = new]
    BY DEF EndAggregate, RelayResults, EndResults, WriteResult, CloseOutput
  <2> QED
    BY <1>1, <2>1 DEF Stage, Service
<1> QED
  BY <1>2, <1>3, <1>4, SameEvents

LEMMA PInvStep == IInv /\ PInv /\ [Next]_vars => PInv'
<1> SUFFICES ASSUME IInv, PInv, [Next]_vars
             PROVE  PInv'
  OBVIOUS
<1>1. CASE Next
  <2>1. MessageTypes' /\ EventsInOrder' /\ StatsMatch' /\ BatchesSmall'
    <3>1. CASE ReadLine \/ SendEvent \/ EndIngest
      BY <3>1, PInvIngest DEF IInv
    <3>2. CASE \E s \in {"parse", "rules"} : Filter(s) \/ EndFilter(s)
      BY <3>2, PInvFilter
    <3>3. CASE Aggregate
      BY <3>3, PInvAggregate
    <3>4. CASE \E s \in Stage : RelayEvents(s) \/ RelayEnd(s)
      BY <3>4, PInvRelay
    <3>5. CASE EndAggregate \/ RelayResults \/ EndResults \/ WriteResult \/ CloseOutput
      BY <3>5, PInvResults
    <3>6. CASE Complete \/ Abandon \/ \E s \in Service : Crash(s) \/ StreamError(s)
      BY <3>6, SameKept DEF Complete, Abandon, Crash, StreamError, ingest, streams, aggregator
    <3> QED
      BY <1>1, <3>1, <3>2, <3>3, <3>4, <3>5, <3>6 DEF Next
  <2>2. Rest'
    BY <1>1, RestNext
  <2> QED
    BY <2>1, <2>2 DEF PInv
<1>2. CASE UNCHANGED vars
  <2>1. MessageTypes' /\ EventsInOrder' /\ StatsMatch' /\ BatchesSmall'
    BY <1>2, SameKept DEF vars, run
  <2>2. Rest'
    BY <1>2 DEF vars, Rest, PInv
  <2> QED
    BY <2>1, <2>2 DEF PInv
<1> QED
  BY <1>1, <1>2

LEMMA PInvHolds == Spec => [](IInv /\ PInv)
  BY InitIInv, InitPInv, IInvStep, PInvStep, PTL DEF Spec

\* The types are kept: messages carry lines that have been read, no batch the
\* orchestrator holds is full, and the aggregator has totals for exactly the
\* types it lists.
THEOREM TypesKept == Spec => []TypeOK
<1>1. IInv /\ PInv => TypeOK
  <2> SUFFICES ASSUME IInv, PInv PROVE TypeOK
    OBVIOUS
  <2>1. ToSet(InFlight) \subseteq 1 .. sequence
    BY InFlightIs DEF PInv, EventsInOrder, Flow
  <2> QED
    BY <2>1 DEF TypeOK, PInv, IInv, MessageTypes, SendsSomething, BatchesSmall, Rest, StatsMatch
<1> QED
  BY <1>1, PInvHolds, PTL

\* Through batches that fill, filter and flush at different times, the events
\* keep the order of the input, and each is in one place at most.
THEOREM EventsKeepOrder == Spec => []OrderKept
<1>1. PInv => OrderKept
  BY InFlightIs DEF PInv, EventsInOrder, Flow
<1> QED
  BY <1>1, PInvHolds, PTL

(***************************************************************************)
(* The results on their way to the file.                                   *)
(***************************************************************************)
\* Every element in a message of its own.
LEMMA FlattenSingles ==
    ASSUME NEW S, NEW q \in Seq(S)
    PROVE  /\ [n \in DOMAIN q |-> <<q[n]>>] \in Seq(Seq(S))
           /\ FlattenSeq([n \in DOMAIN q |-> <<q[n]>>]) = q
<1> DEFINE n == Len(q)
           one == [i \in DOMAIN q |-> <<q[i]>>]
<1>1. DOMAIN q = 1 .. n /\ n \in Nat /\ \A i \in 1 .. n : q[i] \in S
  BY LenProperties, ElementOfSeq
<1> HIDE DEF n
<1>2. one \in Seq(Seq(S)) /\ Len(one) = n /\ \A i \in 1 .. n : one[i] = <<q[i]>>
  BY <1>1
<1> HIDE DEF one
<1>3. CASE n = 0
  <2>1. q = <<>> /\ one = <<>>
    BY <1>2, <1>3, EmptySeq DEF n
  <2> QED
    BY <1>2, <2>1, FlattenNone DEF one
<1>4. CASE n # 0
  <2> DEFINE f == [i \in 1 .. n |-> SubSeq(q, 1, i)]
  <2>1. ASSUME NEW i \in 1 .. n
        PROVE  SubSeq(q, 1, i) = IF i = 1 THEN one[i] ELSE SubSeq(q, 1, i - 1) \o one[i]
    <3>1. SubSeq(q, 1, i) = SubSeq(q, 1, i - 1) \o one[i] /\ one[i] \in Seq(S)
      <4>1. 1 \in 1 .. Len(q) /\ i \in 1 .. Len(q)
        BY <1>1, <2>1 DEF n
      <4>2. SubSeq(q, 1, i) = SubSeq(q, 1, i - 1) \o <<q[i]>>
        BY <4>1, SubSeqRecursiveSecond
      <4>3. one[i] = <<q[i]>> /\ <<q[i]>> \in Seq(S)
        BY <1>1, <1>2, <2>1
      <4> QED
        BY <4>2, <4>3
    <3>2. CASE i = 1
      <4>1. SubSeq(q, 1, i - 1) = <<>>
        BY <3>2, SubSeqEmpty
      <4> QED
        BY <3>1, <3>2, <4>1, ConcatEmptySeq
    <3> QED
      BY <3>1, <3>2
  <2>2. Joins(f, one, n)
    <3>1. ASSUME NEW i \in 1 .. n
          PROVE  f[i] = IF i = 1 THEN one[i] ELSE f[i - 1] \o one[i]
      <4>1. i # 1 => i - 1 \in 1 .. n
        BY <1>1
      <4> QED
        BY <2>1, <4>1
    <3>2. f = [i \in 1 .. n |-> f[i]]
      OBVIOUS
    <3> HIDE DEF f
    <3> QED
      BY <3>1, <3>2 DEF Joins
  <2>3. n \in 1 .. n
    BY <1>1, <1>4
  <2>4. FlattenSeq(one) = f[n]
    <3> HIDE DEF f
    <3> QED
      BY <1>1, <1>2, <1>4, <2>2, FlattenJoins
  <2>5. f[n] = q
    <3>1. SubSeq(q, 1, Len(q)) = q
      BY SubSeqFull
    <3> QED
      BY <2>3, <3>1 DEF n
  <2> QED
    BY <1>2, <2>4, <2>5 DEF one
<1> QED
  BY <1>3, <1>4

LEMMA FrontLast ==
    ASSUME NEW S, NEW q \in Seq(S), q # <<>>
    PROVE  \E c \in Seq(S), e \in S : q = Append(c, e) /\ Len(q) = Len(c) + 1
<1> DEFINE n == Len(q)
           c == SubSeq(q, 1, n - 1)
<1>1. n \in Nat /\ n # 0 /\ \A i \in 1 .. n : q[i] \in S
  BY EmptySeq, ElementOfSeq, LenProperties
<1>2. c \in Seq(S) /\ Len(c) = n - 1
  <2> HIDE DEF n
  <2>1. /\ 1 \in Int /\ n - 1 \in Int /\ \A i \in 1 .. n - 1 : q[i] \in S
        /\ (IF 1 <= n - 1 THEN (n - 1) - 1 + 1 ELSE 0) = n - 1
    BY <1>1
  <2> QED
    BY <2>1, SubSeqProperties
<1>3. q[n] \in S /\ 1 \in 1 .. Len(q) /\ n \in 1 .. Len(q)
  BY <1>1
<1>4. SubSeq(q, 1, n) = c \o <<q[n]>>
  BY <1>3, SubSeqRecursiveSecond
<1>5. SubSeq(q, 1, n) = q
  BY SubSeqFull
<1> HIDE DEF c
<1>6. Append(c, q[n]) = c \o <<q[n]>>
  BY <1>2, <1>3, AppendIsConcat
<1>7. q = Append(c, q[n]) /\ Len(q) = Len(c) + 1
  BY <1>1, <1>2, <1>4, <1>5, <1>6
<1> QED
  BY <1>2, <1>3, <1>7

LEMMA AppendLater ==
    ASSUME NEW S, NEW a \in Seq(S), NEW c \in Seq(S), NEW e \in S
    PROVE  a \o Append(c, e) = Append(a \o c, e)
<1> DEFINE one == <<e>>
<1>1. one \in Seq(S) /\ a \o c \in Seq(S)
  OBVIOUS
<1>2. Append(c, e) = c \o one /\ Append(a \o c, e) = (a \o c) \o one
  BY <1>1, AppendIsConcat
<1> HIDE DEF one
<1>3. (a \o c) \o one = a \o (c \o one)
  BY <1>1, ConcatAssociative, SMTT(60)
<1> QED
  BY <1>2, <1>3

LEMMA FlattenConcatNext ==
    ASSUME NEW S, NEW a \in Seq(Seq(S)), NEW c \in Seq(Seq(S)), NEW e \in Seq(S),
           FlattenSeq(a \o c) = FlattenSeq(a) \o FlattenSeq(c)
    PROVE  FlattenSeq(a \o Append(c, e)) = FlattenSeq(a) \o FlattenSeq(Append(c, e))
<1> DEFINE x == FlattenSeq(a)
           y == FlattenSeq(c)
           l == FlattenSeq(a \o Append(c, e))
           r == FlattenSeq(Append(c, e))
<1>1. x \in Seq(S) /\ y \in Seq(S) /\ a \o c \in Seq(Seq(S))
  BY FlattenType
<1>2. a \o Append(c, e) = Append(a \o c, e)
  BY AppendLater
<1>3. l = FlattenSeq(a \o c) \o e
  BY <1>1, <1>2, FlattenAppend
<1>4. r = y \o e
  BY FlattenAppend
<1>5. FlattenSeq(a \o c) = x \o y
  OBVIOUS
<1> HIDE DEF x, y, l, r
<1>6. (x \o y) \o e = x \o (y \o e)
  BY <1>1, ConcatAssociative, SMTT(60)
<1>7. l = x \o r
  BY <1>3, <1>4, <1>5, <1>6
<1> QED
  BY <1>7 DEF l, x, r

LEMMA FlattenConcat ==
    ASSUME NEW S, NEW a \in Seq(Seq(S)), NEW b \in Seq(Seq(S))
    PROVE  FlattenSeq(a \o b) = FlattenSeq(a) \o FlattenSeq(b)
<1> DEFINE Good(q) == FlattenSeq(a \o q) = FlattenSeq(a) \o FlattenSeq(q)
           T == {Len(q) : q \in {q \in Seq(Seq(S)) : ~Good(q)}}
<1>1. T = {} => Good(b)
  OBVIOUS
<1> HIDE DEF Good
<1>2. SUFFICES ASSUME T # {} PROVE FALSE
  BY <1>1 DEF Good
<1>3. T \in SUBSET Nat
  <2>1. \A q \in Seq(Seq(S)) : Len(q) \in Nat
    BY LenProperties
  <2> QED
    BY <2>1
<1>4. PICK k \in T : \A j \in T : k <= j
  <2> HIDE DEF T
  <2> QED
    BY <1>2, <1>3, LeastNatural
<1>5. PICK q \in Seq(Seq(S)) : ~Good(q) /\ Len(q) = k
  BY <1>4
<1>6. q # <<>>
  <2>1. FlattenSeq(a) \in Seq(S)
    BY FlattenType
  <2>2. Good(<<>>)
    BY <2>1, FlattenNone DEF Good
  <2> QED
    BY <1>5, <2>2
<1>7. PICK c \in Seq(Seq(S)), e \in Seq(S) : q = Append(c, e) /\ Len(q) = Len(c) + 1
  BY <1>6, FrontLast
<1>8. Len(c) \notin T
  <2>1. Len(c) \in Nat
    BY LenProperties
  <2>2. ~(k <= Len(c))
    BY <1>5, <1>7, <2>1
  <2> QED
    BY <1>4, <2>2
<1>9. Good(c)
  BY <1>8
<1>10. Good(q)
  BY <1>7, <1>9, FlattenConcatNext DEF Good
<1> QED
  BY <1>5, <1>10

\* What the aggregator has delivered, nearest to the file first.
Delivered(out, req, resp) == (out \o FlattenSeq(req["sink"])) \o FlattenSeq(resp["aggregate"])

ResultTypes(S) ==
    /\ output \in Seq(S) /\ requests["sink"] \in Seq(Seq(S))
    /\ responses["aggregate"] \in Seq(Seq(S))

AllDelivered ==
    IF "aggregate" \in responsesEnded THEN Delivered(output, requests, responses) = Results
    ELSE output = <<>> /\ requests["sink"] = <<>> /\ responses["aggregate"] = <<>>

RInv == workItemResults \in Seq(Nat) /\ (\E S : ResultTypes(S)) /\ AllDelivered

LEMMA InitRInv == Init => RInv
<1> SUFFICES ASSUME Init PROVE RInv
  OBVIOUS
<1>1. /\ output = <<>> /\ requests["sink"] = <<>> /\ responses["aggregate"] = <<>>
      /\ workItemResults = <<>> /\ responsesEnded = {}
  BY DEF Init, Service
<1>2. <<>> \in Seq(Nat) /\ <<>> \in Seq(Seq(Nat))
  OBVIOUS
<1>3. ResultTypes(Nat)
  BY <1>1, <1>2 DEF ResultTypes
<1> QED
  BY <1>1, <1>2, <1>3 DEF RInv, AllDelivered

\* Steps that have nothing to do with the results.
LEMMA SameResults ==
    ASSUME RInv, UNCHANGED <<output, workItemResults, order, stats>>,
           requests'["sink"] = requests["sink"],
           responses'["aggregate"] = responses["aggregate"],
           "aggregate" \in responsesEnded' <=> "aggregate" \in responsesEnded
    PROVE  RInv'
<1>1. PICK S : ResultTypes(S)
  BY DEF RInv
<1>2. ResultTypes(S)'
  BY <1>1 DEF ResultTypes
<1>3. Results' = Results
  BY DEF Results
<1>4. AllDelivered'
  BY <1>3 DEF RInv, AllDelivered, Delivered
<1> QED
  BY <1>2, <1>4 DEF RInv

LEMMA AggregateResults ==
    ASSUME RInv, IInv, MessageTypes, Aggregate
    PROVE  RInv'
<1> DEFINE msg == Head(requests["aggregate"])
           new == Only(msg, {i \in DOMAIN input : input[i] = WorkItem})
<1>1. /\ requests["aggregate"] # <<>> /\ workItemResults' = workItemResults \o new
      /\ requests' = [requests EXCEPT !["aggregate"] = Tail(@)]
      /\ UNCHANGED <<responses, responsesEnded, output>>
  BY DEF Aggregate
<1>2. "aggregate" \notin responsesEnded
  BY <1>1 DEF IInv, EndIsLast
<1>3. msg \in Seq(Nat)
  BY <1>1 DEF MessageTypes, Receiver
<1>4. new \in Seq(Nat)
  <2> HIDE DEF msg
  <2> QED
    BY <1>3, OnlyKeeps
<1> HIDE DEF new
<1>5. workItemResults' \in Seq(Nat)
  BY <1>1, <1>4, ConcatProperties DEF RInv
<1>6. requests'["sink"] = requests["sink"]
  BY <1>1 DEF MessageTypes, Service
<1>7. PICK S : ResultTypes(S)
  BY DEF RInv
<1>8. ResultTypes(S)'
  BY <1>1, <1>6, <1>7 DEF ResultTypes
<1>9. AllDelivered'
  BY <1>1, <1>2, <1>6 DEF RInv, AllDelivered
<1> QED
  BY <1>5, <1>8, <1>9 DEF RInv

\* The results are a sequence: totals in Map order, then work items.
LEMMA ResultsParts ==
    ASSUME workItemResults \in Seq(Nat), order \in Seq(Types)
    PROVE  \E S : /\ Results \in Seq(S)
                  /\ Len(Results) = Len(order) + Len(workItemResults)
                  /\ \A i \in 1 .. Len(Results) :
                        Results[i] = IF i <= Len(order)
                                     THEN [key |-> order[i], count |-> stats[order[i]].count,
                                           sum |-> stats[order[i]].sum]
                                     ELSE [key |-> workItemResults[i - Len(order)],
                                           count |-> 0, sum |-> 0]
<1> DEFINE a == [n \in DOMAIN order |->
                    [key |-> order[n], count |-> stats[order[n]].count,
                     sum |-> stats[order[n]].sum]]
           b == [n \in DOMAIN workItemResults |->
                    [key |-> workItemResults[n], count |-> 0, sum |-> 0]]
           S == {a[i] : i \in 1 .. Len(order)} \cup {b[i] : i \in 1 .. Len(workItemResults)}
<1>1. /\ Len(order) \in Nat /\ DOMAIN order = 1 .. Len(order)
      /\ Len(workItemResults) \in Nat /\ DOMAIN workItemResults = 1 .. Len(workItemResults)
  BY LenProperties
<1>2. /\ a \in Seq(S) /\ Len(a) = Len(order)
      /\ \A i \in 1 .. Len(order) :
            a[i] = [key |-> order[i], count |-> stats[order[i]].count,
                    sum |-> stats[order[i]].sum]
  <2>1. \A i \in 1 .. Len(order) : a[i] \in S
    OBVIOUS
  <2>2. DOMAIN a = 1 .. Len(order)
    BY <1>1
  <2>3. a = [i \in 1 .. Len(order) |-> a[i]]
    BY <1>1
  <2>4. a \in [1 .. Len(order) -> S]
    <3> HIDE DEF a, S
    <3> QED
      BY <2>1, <2>3
  <2>5. a \in Seq(S) /\ Len(a) = Len(order)
    <3> HIDE DEF a, S
    <3> QED
      BY <1>1, <2>4
  <2> QED
    BY <1>1, <2>5
<1>3. /\ b \in Seq(S) /\ Len(b) = Len(workItemResults)
      /\ \A i \in 1 .. Len(workItemResults) :
            b[i] = [key |-> workItemResults[i], count |-> 0, sum |-> 0]
  <2>1. \A i \in 1 .. Len(workItemResults) : b[i] \in S
    OBVIOUS
  <2>3. b = [i \in 1 .. Len(workItemResults) |-> b[i]]
    BY <1>1
  <2>4. b \in [1 .. Len(workItemResults) -> S]
    <3> HIDE DEF b, S
    <3> QED
      BY <2>1, <2>3
  <2>5. b \in Seq(S) /\ Len(b) = Len(workItemResults)
    <3> HIDE DEF b, S
    <3> QED
      BY <1>1, <2>4
  <2> QED
    BY <1>1, <2>5
<1>4. Results = a \o b
  BY DEF Results
<1> HIDE DEF a, b, S
<1>5. /\ a \o b \in Seq(S) /\ Len(a \o b) = Len(order) + Len(workItemResults)
      /\ \A i \in 1 .. Len(order) + Len(workItemResults) :
            (a \o b)[i] = IF i <= Len(order) THEN a[i] ELSE b[i - Len(order)]
  <2>1. /\ a \o b \in Seq(S) /\ Len(a \o b) = Len(a) + Len(b)
        /\ \A i \in 1 .. Len(a) + Len(b) :
              (a \o b)[i] = IF i <= Len(a) THEN a[i] ELSE b[i - Len(a)]
    <3>1. a \in Seq(S) /\ b \in Seq(S)
      BY <1>2, <1>3
    <3> QED
      BY <3>1, ConcatProperties
  <2> QED
    BY <1>2, <1>3, <2>1
<1>6. \A i \in 1 .. Len(order) + Len(workItemResults) :
         /\ i <= Len(order) => i \in 1 .. Len(order)
         /\ ~(i <= Len(order)) => i - Len(order) \in 1 .. Len(workItemResults)
  BY <1>1
<1> QED
  BY <1>2, <1>3, <1>4, <1>5, <1>6

LEMMA EndAggregateResults ==
    ASSUME RInv, MessageTypes, order \in Seq(Types), EndAggregate
    PROVE  RInv'
<1>1. /\ "aggregate" \notin responsesEnded /\ "aggregate" \in responsesEnded'
      /\ responses' = [responses EXCEPT !["aggregate"] =
            IF batching THEN <<Results>> ELSE [n \in DOMAIN Results |-> <<Results[n]>>]]
      /\ UNCHANGED <<requests, output, workItemResults, order, stats>>
  BY DEF EndAggregate, RequestsDone, aggregator
<1>2. PICK S : Results \in Seq(S)
  BY ResultsParts DEF RInv
<1> DEFINE q == IF batching THEN <<Results>> ELSE [n \in DOMAIN Results |-> <<Results[n]>>]
<1>3. q \in Seq(Seq(S)) /\ FlattenSeq(q) = Results
  <2> DEFINE r == Results
  <2>1. r \in Seq(S)
    BY <1>2
  <2> HIDE DEF r
  <2>2. /\ [n \in DOMAIN r |-> <<r[n]>>] \in Seq(Seq(S))
        /\ FlattenSeq([n \in DOMAIN r |-> <<r[n]>>]) = r
    BY <2>1, FlattenSingles
  <2>3. <<r>> \in Seq(Seq(S)) /\ FlattenSeq(<<r>>) = r
    <3>1. <<>> \in Seq(Seq(S)) /\ Append(<<>>, r) = <<r>> /\ <<>> \o r = r
      BY <2>1
    <3>2. FlattenSeq(Append(<<>>, r)) = FlattenSeq(<<>>) \o r
      BY <2>1, <3>1, FlattenAppend
    <3> QED
      BY <2>1, <3>1, <3>2, FlattenNone
  <2> QED
    BY <2>2, <2>3 DEF r
<1>4. responses'["aggregate"] = q
  BY <1>1 DEF MessageTypes, Service
<1> HIDE DEF q
<1>5. /\ output' = <<>> /\ requests'["sink"] = <<>> /\ Results' = Results
  BY <1>1 DEF RInv, AllDelivered, Results
<1>6. ResultTypes(S)'
  <2>1. <<>> \in Seq(S) /\ <<>> \in Seq(Seq(S))
    OBVIOUS
  <2> QED
    BY <1>3, <1>4, <1>5, <2>1 DEF ResultTypes
<1>7. Delivered(output', requests', responses') = Results
  <2>1. (<<>> \o <<>>) \o FlattenSeq(q) = FlattenSeq(q)
    BY <1>2, <1>3
  <2> QED
    BY <1>3, <1>4, <1>5, <2>1, FlattenNone DEF Delivered
<1> QED
  BY <1>1, <1>5, <1>6, <1>7 DEF RInv, AllDelivered

LEMMA RelayedResults ==
    ASSUME RInv, MessageTypes, RelayResults
    PROVE  RInv'
<1> DEFINE h == Head(responses["aggregate"])
           rest == Tail(responses["aggregate"])
           req == requests["sink"]
           one == [n \in DOMAIN h |-> <<h[n]>>]
<1>1. /\ responses["aggregate"] # <<>>
      /\ requests' = [requests EXCEPT !["sink"] = @ \o one]
      /\ responses' = [responses EXCEPT !["aggregate"] = rest]
      /\ UNCHANGED <<output, workItemResults, order, stats, responsesEnded>>
  BY DEF RelayResults, aggregator
<1>2. PICK S : ResultTypes(S)
  BY DEF RInv
<1>3. /\ output \in Seq(S) /\ req \in Seq(Seq(S)) /\ h \in Seq(S) /\ rest \in Seq(Seq(S))
      /\ FlattenSeq(responses["aggregate"]) = h \o FlattenSeq(rest)
  <2>1. responses["aggregate"] \in Seq(Seq(S))
    BY <1>2 DEF ResultTypes
  <2>2. h \in Seq(S) /\ rest \in Seq(Seq(S))
    BY <1>1, <2>1
  <2>3. FlattenSeq(responses["aggregate"]) = h \o FlattenSeq(rest)
    <3> DEFINE m == responses["aggregate"]
    <3>1. m \in Seq(Seq(S)) /\ m # <<>>
      BY <1>1, <2>1
    <3> HIDE DEF m
    <3>2. FlattenSeq(m) = Head(m) \o FlattenSeq(Tail(m))
      BY <3>1, FlattenHead
    <3> QED
      BY <3>2 DEF m
  <2> QED
    BY <1>2, <2>2, <2>3 DEF ResultTypes
<1>4. one \in Seq(Seq(S)) /\ FlattenSeq(one) = h
  <2> HIDE DEF h
  <2> QED
    BY <1>3, FlattenSingles
<1>5. requests'["sink"] = req \o one /\ responses'["aggregate"] = rest
  BY <1>1 DEF MessageTypes, Service
<1> HIDE DEF h, rest, one
<1>6. req \o one \in Seq(Seq(S))
  BY <1>3, <1>4
<1>7. FlattenSeq(req \o one) = FlattenSeq(req) \o h
  BY <1>3, <1>4, FlattenConcat
<1>8. ResultTypes(S)'
  BY <1>1, <1>3, <1>5, <1>6 DEF ResultTypes
<1> DEFINE o == output
           x == FlattenSeq(req)
           y == FlattenSeq(rest)
<1>9. o \in Seq(S) /\ x \in Seq(S) /\ y \in Seq(S) /\ h \in Seq(S)
  BY <1>3, FlattenType
<1> HIDE DEF o, x, y, req
<1>10. (o \o (x \o h)) \o y = (o \o x) \o (h \o y)
  <2>1. o \o x \in Seq(S)
    BY <1>9, ConcatProperties
  <2>2. (o \o x) \o h = o \o (x \o h)
    BY <1>9, ConcatAssociative, SMTT(60)
  <2>3. ((o \o x) \o h) \o y = (o \o x) \o (h \o y)
    BY <1>9, <2>1, ConcatAssociative, SMTT(60)
  <2> QED
    BY <2>2, <2>3, Zenon
<1>11. "aggregate" \in responsesEnded
  BY <1>1 DEF RInv, AllDelivered
<1>12. Delivered(output', requests', responses') = Delivered(output, requests, responses)
  BY <1>1, <1>3, <1>5, <1>7, <1>10 DEF Delivered, o, x, y, req
<1>13. Results' = Results
  BY <1>1 DEF Results
<1> QED
  BY <1>1, <1>8, <1>11, <1>12, <1>13 DEF RInv, AllDelivered

LEMMA WrittenResults ==
    ASSUME RInv, MessageTypes, WriteResult
    PROVE  RInv'
<1> DEFINE h == Head(requests["sink"])
           rest == Tail(requests["sink"])
<1>1. /\ requests["sink"] # <<>> /\ output' = output \o h
      /\ requests' = [requests EXCEPT !["sink"] = rest]
      /\ UNCHANGED <<responses, workItemResults, order, stats, responsesEnded>>
  BY DEF WriteResult, aggregator
<1>2. PICK S : ResultTypes(S)
  BY DEF RInv
<1>3. /\ output \in Seq(S) /\ h \in Seq(S) /\ rest \in Seq(Seq(S))
      /\ FlattenSeq(requests["sink"]) = h \o FlattenSeq(rest)
      /\ responses["aggregate"] \in Seq(Seq(S))
  <2>1. requests["sink"] \in Seq(Seq(S))
    BY <1>2 DEF ResultTypes
  <2>2. h \in Seq(S) /\ rest \in Seq(Seq(S))
    BY <1>1, <2>1
  <2>3. FlattenSeq(requests["sink"]) = h \o FlattenSeq(rest)
    <3> DEFINE m == requests["sink"]
    <3>1. m \in Seq(Seq(S)) /\ m # <<>>
      BY <1>1, <2>1
    <3> HIDE DEF m
    <3>2. FlattenSeq(m) = Head(m) \o FlattenSeq(Tail(m))
      BY <3>1, FlattenHead
    <3> QED
      BY <3>2 DEF m
  <2> QED
    BY <1>2, <2>2, <2>3 DEF ResultTypes
<1>5. requests'["sink"] = rest
  BY <1>1 DEF MessageTypes, Service
<1> HIDE DEF h, rest
<1>8. ResultTypes(S)'
  BY <1>1, <1>3, <1>5, ConcatProperties DEF ResultTypes
<1> DEFINE o == output
           y == FlattenSeq(rest)
<1>9. o \in Seq(S) /\ y \in Seq(S) /\ h \in Seq(S)
  BY <1>3, FlattenType
<1> HIDE DEF o, y
<1>10. o \o (h \o y) = (o \o h) \o y
  BY <1>9, ConcatAssociative, SMTT(60)
<1>11. "aggregate" \in responsesEnded
  BY <1>1 DEF RInv, AllDelivered
<1>12. Delivered(output', requests', responses') = Delivered(output, requests, responses)
  BY <1>1, <1>3, <1>5, <1>10 DEF Delivered, o, y
<1>13. Results' = Results
  BY <1>1 DEF Results
<1> QED
  BY <1>1, <1>8, <1>11, <1>12, <1>13 DEF RInv, AllDelivered

LEMMA RInvStep == RInv /\ IInv /\ PInv /\ [Next]_vars => RInv'
<1> SUFFICES ASSUME RInv, IInv, PInv, [Next]_vars
             PROVE  RInv'
  OBVIOUS
<1>1. /\ requests = [s \in Service |-> requests[s]] /\ responses = [s \in Service |-> responses[s]]
      /\ MessageTypes
  BY DEF PInv, MessageTypes
<1>2. CASE ReadLine \/ EndIngest
  BY <1>2, SameResults DEF ReadLine, EndIngest, streams, aggregator
<1>3. CASE SendEvent
  <2>1. responses'["aggregate"] = responses["aggregate"]
    BY <1>1, <1>3 DEF SendEvent, Service
  <2> QED
    BY <1>3, <2>1, SameResults DEF SendEvent, aggregator
<1>4. ASSUME NEW s \in {"parse", "rules"}, Filter(s) \/ EndFilter(s)
      PROVE  RInv'
  <2>1. CASE Filter(s)
    <3>1. responses'["aggregate"] = responses["aggregate"]
      BY <1>1, <2>1 DEF Filter, Service
    <3>2. requests'["sink"] = requests["sink"]
      BY <1>1, <2>1 DEF Filter, Service
    <3> QED
      BY <2>1, <3>1, <3>2, SameResults DEF Filter, aggregator
  <2>2. CASE EndFilter(s)
    BY <2>2, SameResults DEF EndFilter, aggregator
  <2> QED
    BY <1>4, <2>1, <2>2
<1>5. CASE Aggregate
  BY <1>1, <1>5, AggregateResults
<1>6. CASE EndAggregate
  BY <1>1, <1>6, EndAggregateResults DEF PInv, EventsInOrder, Flow, Groups
<1>7. ASSUME NEW s \in Stage, RelayEvents(s) \/ RelayEnd(s)
      PROVE  RInv'
  <2>1. /\ requests' = requests \/ \E new : requests' = [requests EXCEPT ![Feeds[s]] = new]
        /\ responses' = responses \/ \E new : responses' = [responses EXCEPT ![s] = new]
        /\ UNCHANGED <<output, workItemResults, order, stats, responsesEnded>>
    <3>1. CASE RelayEvents(s)
      BY <3>1 DEF RelayEvents, aggregator
    <3>2. CASE RelayEnd(s)
      BY <3>2 DEF RelayEnd, Flushed, aggregator
    <3> QED
      BY <1>7, <3>1, <3>2
  <2>2. Feeds[s] # "sink" /\ s # "aggregate"
    BY DEF Stage, Feeds
  <2>3. requests'["sink"] = requests["sink"]
    BY <1>1, <2>1, <2>2 DEF Service
  <2>4. responses'["aggregate"] = responses["aggregate"]
    BY <1>1, <2>1, <2>2 DEF Service
  <2> QED
    BY <2>1, <2>3, <2>4, SameResults
<1>8. CASE RelayResults
  BY <1>1, <1>8, RelayedResults
<1>9. CASE WriteResult
  BY <1>1, <1>9, WrittenResults
<1>10. CASE EndResults \/ CloseOutput
  BY <1>10, SameResults DEF EndResults, CloseOutput, aggregator
<1>11. CASE Complete \/ Abandon \/ \E s \in Service : Crash(s) \/ StreamError(s)
  BY <1>11, SameResults DEF Complete, Abandon, Crash, StreamError, streams, aggregator
<1>12. CASE UNCHANGED vars
  BY <1>12, SameResults DEF vars
<1> QED
  BY <1>2, <1>3, <1>4, <1>5, <1>6, <1>7, <1>8, <1>9, <1>10, <1>11, <1>12 DEF Next

\* The file is a prefix of what the aggregator makes of the events.
LEMMA OutputPrefix ==
    ASSUME RInv, NEW i \in 1 .. Len(output)
    PROVE  i \in 1 .. Len(Results) /\ output[i] = Results[i]
<1>1. PICK S : ResultTypes(S)
  BY DEF RInv
<1> DEFINE o == output
           x == FlattenSeq(requests["sink"])
           y == FlattenSeq(responses["aggregate"])
<1>2. o \in Seq(S) /\ x \in Seq(S) /\ y \in Seq(S)
  <2>1. o \in Seq(S) /\ requests["sink"] \in Seq(Seq(S)) /\ responses["aggregate"] \in Seq(Seq(S))
    BY <1>1 DEF ResultTypes
  <2> QED
    BY <2>1, FlattenType
<1>3. "aggregate" \in responsesEnded
  <2>1. output # <<>>
    OBVIOUS
  <2> QED
    BY <2>1 DEF RInv, AllDelivered
<1>4. Results = (o \o x) \o y
  BY <1>3 DEF RInv, AllDelivered, Delivered
<1>5. i \in 1 .. Len(o)
  OBVIOUS
<1> HIDE DEF o, x, y
<1>6. /\ o \o x \in Seq(S) /\ Len(o \o x) = Len(o) + Len(x)
      /\ \A j \in 1 .. Len(o) + Len(x) : (o \o x)[j] = IF j <= Len(o) THEN o[j] ELSE x[j - Len(o)]
  BY <1>2, ConcatProperties
<1>7. Len(o) \in Nat /\ Len(x) \in Nat /\ Len(y) \in Nat
  BY <1>2, LenProperties
<1> DEFINE c == o \o x
           d == c \o y
<1>8. c \in Seq(S) /\ Len(c) = Len(o) + Len(x) /\ i \in 1 .. Len(c) /\ c[i] = o[i]
  BY <1>5, <1>6, <1>7
<1> HIDE DEF c
<1>9. /\ Len(d) = Len(c) + Len(y)
      /\ \A j \in 1 .. Len(c) + Len(y) : d[j] = IF j <= Len(c) THEN c[j] ELSE y[j - Len(c)]
  <2>1. c \in Seq(S) /\ y \in Seq(S)
    BY <1>2, <1>8
  <2> QED
    BY <2>1, ConcatProperties
<1> HIDE DEF d
<1>10. i \in 1 .. Len(d) /\ d[i] = o[i]
  BY <1>7, <1>8, <1>9
<1> QED
  BY <1>4, <1>10 DEF c, d, o

LEMMA FirstOfIs ==
    ASSUME NEW k, NEW i \in Nat, First(k, i), input \in Seq(Line \cup {WorkItem})
    PROVE  FirstOf(k) = i
<1>1. FirstOf(k) = CHOOSE j \in DOMAIN input : First(k, j)
  BY DEF FirstOf, First
<1>2. \E j \in DOMAIN input : First(k, j)
  BY DEF First
<1>3. FirstOf(k) \in DOMAIN input /\ First(k, FirstOf(k))
  BY <1>1, <1>2
<1>4. FirstOf(k) \in Nat
  BY <1>3, LenProperties
<1> HIDE DEF First
<1> QED
  BY <1>3, <1>4, FirstOnce

LEMMA GroupsSorted ==
    ASSUME PInv, RInv
    PROVE  OutputOrderFixed
<1> DEFINE set == {r \in ToSet(output) : r.count > 0}
           groups == Only(output, set)
           lim == Len(order)
<1>1. PICK S : ResultTypes(S)
  BY DEF RInv
<1>2. output \in Seq(S)
  BY <1>1 DEF ResultTypes
<1>3. groups \in Seq(S) /\ \E h : Picks(h, groups, output, set, Len(output))
  <2> HIDE DEF set
  <2> QED
    BY <1>2, OnlyPicks
<1>4. PICK h : Picks(h, groups, output, set, Len(output))
  BY <1>3
<1>5. /\ MessageTypes /\ Groups(order, sequence, AllOf(Pieces)) /\ order \in Seq(Types)
      /\ workItemResults \in Seq(Nat) /\ input \in Seq(Line \cup {WorkItem})
  BY DEF PInv, RInv, EventsInOrder, Flow, Groups, MessageTypes
<1>6. DOMAIN groups = 1 .. Len(groups)
  BY <1>3, LenProperties
<1>7. \A r \in set : r.count > 0
  OBVIOUS
<1> HIDE DEF set, groups
<1>8. ASSUME NEW i \in 1 .. Len(output), output[i].count > 0
      PROVE  i \in 1 .. lim /\ output[i].key = order[i]
  <2>1. i \in 1 .. Len(Results) /\ output[i] = Results[i]
    BY OutputPrefix
  <2>2. Results[i] = IF i <= lim
                     THEN [key |-> order[i], count |-> stats[order[i]].count,
                           sum |-> stats[order[i]].sum]
                     ELSE [key |-> workItemResults[i - lim], count |-> 0, sum |-> 0]
    BY <1>5, <2>1, ResultsParts
  <2>3. CASE i <= lim
    <3>1. output[i].key = order[i]
      BY <2>1, <2>2, <2>3
    <3>2. lim \in Nat
      BY <1>5, LenProperties
    <3>3. i \in 1 .. lim
      BY <2>3, <3>2
    <3> QED
      BY <3>1, <3>3
  <2>4. CASE ~(i <= lim)
    <3>1. output[i].count = 0
      BY <2>1, <2>2, <2>4
    <3> QED
      BY <1>8, <3>1
  <2> QED
    BY <2>3, <2>4
<1>9. ASSUME NEW m \in 1 .. Len(groups)
      PROVE  h[m] \in 1 .. lim /\ groups[m].key = order[h[m]]
  <2>1. h[m] \in 1 .. Len(output) /\ groups[m] = output[h[m]] /\ groups[m] \in set
    BY <1>4, <1>9 DEF Picks
  <2> QED
    BY <1>7, <1>8, <2>1
<1>10. ASSUME NEW m \in 1 .. lim
       PROVE  \E i \in Nat : First(order[m], i) /\ FirstOf(order[m]) = i
  <2>1. PICK i \in 1 .. sequence : First(order[m], i)
    BY <1>5, <1>10 DEF Groups
  <2>2. i \in Nat
    OBVIOUS
  <2> QED
    BY <1>5, <2>1, <2>2, FirstOfIs
<1>11. ASSUME NEW m \in 1 .. Len(groups), NEW n \in 1 .. Len(groups), m < n
       PROVE  FirstOf(groups[m].key) < FirstOf(groups[n].key)
  <2>1. h[m] < h[n]
    BY <1>4, <1>11 DEF Picks
  <2>2. PICK i \in Nat : First(order[h[m]], i) /\ FirstOf(order[h[m]]) = i
    BY <1>9, <1>10
  <2>3. PICK j \in Nat : First(order[h[n]], j) /\ FirstOf(order[h[n]]) = j
    BY <1>9, <1>10
  <2>4. h[m] \in 1 .. lim /\ h[n] \in 1 .. lim
    BY <1>9
  <2>5. i < j
    BY <1>5, <2>1, <2>2, <2>3, <2>4 DEF Groups
  <2> QED
    BY <1>9, <2>2, <2>3, <2>5
<1> QED
  BY <1>6, <1>11 DEF OutputOrderFixed, groups, set

LEMMA RInvHolds == Spec => [](IInv /\ PInv /\ RInv)
  BY PInvHolds, InitRInv, RInvStep, PTL DEF Spec

\* The groups in the output file come in the order in which the input opens
\* them, with or without batching, whatever the timing and the crashes.
THEOREM OutputInOrder == Spec => []OutputOrderFixed
  BY GroupsSorted, RInvHolds, PTL

(***************************************************************************)
(* Folds over finite sets, which take one element off after the other.     *)
(***************************************************************************)
Taken(s) == CHOOSE y \in s : TRUE

LEMMA TakenOff ==
    ASSUME NEW N, IsFiniteSet(N), NEW s \in SUBSET N
    PROVE  /\ IsFiniteSet(s) /\ Cardinality(s) \in Nat
           /\ Cardinality(s) = 0 <=> s = {}
           /\ \A x \in s : /\ s \ {x} \in SUBSET N
                           /\ Cardinality(s \ {x}) \in Nat
                           /\ Cardinality(s) = Cardinality(s \ {x}) + 1
           /\ s # {} => Taken(s) \in s
<1>1. IsFiniteSet(s)
  BY FS_Subset
<1>2. Cardinality(s) \in Nat /\ (Cardinality(s) = 0 <=> s = {})
  BY <1>1, FS_CardinalityType, FS_EmptySet
<1>3. ASSUME NEW x \in s
      PROVE  /\ s \ {x} \in SUBSET N
             /\ Cardinality(s \ {x}) \in Nat
             /\ Cardinality(s) = Cardinality(s \ {x}) + 1
  <2>1. IsFiniteSet(s \ {x}) /\ Cardinality(s \ {x}) = Cardinality(s) - 1
    BY <1>1, FS_RemoveElement
  <2>2. Cardinality(s \ {x}) \in Nat
    BY <2>1, FS_CardinalityType
  <2> QED
    BY <1>2, <2>1, <2>2
<1>4. s # {} => Taken(s) \in s
  BY DEF Taken
<1> QED
  BY <1>1, <1>2, <1>3, <1>4

\* Among subsets of a finite set there is a smallest.
LEMMA SmallestOf ==
    ASSUME NEW N, IsFiniteSet(N), NEW B \in SUBSET SUBSET N, B # {}
    PROVE  \E s \in B : \A t \in SUBSET N : Cardinality(t) < Cardinality(s) => t \notin B
<1> DEFINE T == {Cardinality(s) : s \in B}
<1>1. \A s \in B : Cardinality(s) \in Nat
  BY TakenOff
<1>2. T \in SUBSET Nat /\ T # {}
  BY <1>1
<1>3. \A s \in B : Cardinality(s) \in T
  OBVIOUS
<1>4. \A n \in T : \E s \in B : n = Cardinality(s)
  OBVIOUS
<1> HIDE DEF T
<1>5. PICK n \in T : \A m \in T : n <= m
  BY <1>2, LeastNatural
<1>6. PICK s \in B : n = Cardinality(s)
  BY <1>4
<1>7. \A t \in B : Cardinality(s) <= Cardinality(t)
  BY <1>3, <1>5, <1>6
<1>8. \A t \in B : ~(Cardinality(t) < Cardinality(s))
  BY <1>1, <1>7
<1> QED
  BY <1>8

\* Two folds that agree wherever they agreed one element before are the same.
Alike(f, g, N) ==
    /\ f[{}] = g[{}]
    /\ \A s \in SUBSET N : s # {} /\ f[s \ {Taken(s)}] = g[s \ {Taken(s)}] => f[s] = g[s]

LEMMA SameFold ==
    ASSUME NEW N, IsFiniteSet(N), NEW f, NEW g, Alike(f, g, N)
    PROVE  \A s \in SUBSET N : f[s] = g[s]
<1> DEFINE B == {s \in SUBSET N : f[s] # g[s]}
<1>0. SUFFICES ASSUME B # {} PROVE FALSE
  OBVIOUS
<1>1. B \in SUBSET SUBSET N
  OBVIOUS
<1>2. PICK s \in B : \A t \in SUBSET N : Cardinality(t) < Cardinality(s) => t \notin B
  <2> HIDE DEF B
  <2> QED
    BY <1>0, <1>1, SmallestOf
<1>3. s \in SUBSET N /\ f[s] # g[s] /\ s # {}
  BY <1>2 DEF Alike
<1>4. /\ s \ {Taken(s)} \in SUBSET N /\ Cardinality(s \ {Taken(s)}) \in Nat
      /\ Cardinality(s) = Cardinality(s \ {Taken(s)}) + 1
  BY <1>3, TakenOff
<1>5. Cardinality(s \ {Taken(s)}) < Cardinality(s)
  BY <1>4
<1>6. f[s \ {Taken(s)}] = g[s \ {Taken(s)}]
  BY <1>2, <1>4, <1>5
<1> QED
  BY <1>3, <1>6 DEF Alike

\* The sum of v over the subsets of N that have up to n elements.
Adds(g, v, b, N, n) ==
    g = [s \in {t \in SUBSET N : Cardinality(t) <= n} |->
            IF s = {} THEN b ELSE g[s \ {Taken(s)}] + v[Taken(s)]]

LEMMA AddsMore ==
    ASSUME NEW N, IsFiniteSet(N), NEW v, NEW b, NEW n \in Nat, NEW f, Adds(f, v, b, N, n)
    PROVE  \E g : Adds(g, v, b, N, n + 1)
<1> DEFINE D(m) == {t \in SUBSET N : Cardinality(t) <= m}
           g == [s \in D(n + 1) |-> IF s = {} THEN b ELSE f[s \ {Taken(s)}] + v[Taken(s)]]
<1>1. \A s \in D(n) : f[s] = IF s = {} THEN b ELSE f[s \ {Taken(s)}] + v[Taken(s)]
  BY Zenon DEF Adds
<1>2. \A s \in D(n) : s \in D(n + 1)
  BY TakenOff
<1>3. \A s \in D(n) : g[s] = f[s]
  BY <1>1, <1>2
<1>4. \A s \in D(n + 1) : s # {} => s \ {Taken(s)} \in D(n)
  <2> TAKE s \in D(n + 1)
  <2>1. s \in SUBSET N /\ Cardinality(s) <= n + 1
    OBVIOUS
  <2>2. s # {} => /\ s \ {Taken(s)} \in SUBSET N /\ Cardinality(s \ {Taken(s)}) \in Nat
                  /\ Cardinality(s) = Cardinality(s \ {Taken(s)}) + 1
    BY <2>1, TakenOff
  <2>3. s # {} => Cardinality(s \ {Taken(s)}) <= n
    BY <2>1, <2>2
  <2> QED
    BY <2>2, <2>3
<1>5. \A s \in D(n + 1) : s # {} => g[s \ {Taken(s)}] = f[s \ {Taken(s)}]
  BY <1>3, <1>4
<1>6. g = [s \in D(n + 1) |-> IF s = {} THEN b ELSE f[s \ {Taken(s)}] + v[Taken(s)]]
  OBVIOUS
<1> HIDE DEF g
<1>7. g = [s \in D(n + 1) |-> IF s = {} THEN b ELSE g[s \ {Taken(s)}] + v[Taken(s)]]
  <2> HIDE DEF D
  <2> QED
    BY <1>5, <1>6
<1>8. Adds(g, v, b, N, n + 1)
  BY <1>7, Zenon DEF Adds
<1> QED
  BY <1>8

LEMMA AddsExists ==
    ASSUME NEW N, IsFiniteSet(N), NEW v, NEW b, NEW n \in Nat
    PROVE  \E g : Adds(g, v, b, N, n)
<1> DEFINE T == {m \in Nat : ~ \E g : Adds(g, v, b, N, m)}
<1>1. SUFFICES T = {}
  OBVIOUS
<1>2. SUFFICES ASSUME T # {} PROVE FALSE
  OBVIOUS
<1>3. T \in SUBSET Nat
  OBVIOUS
<1>4. PICK m \in T : \A k \in T : m <= k
  <2> HIDE DEF T
  <2> QED
    BY <1>2, <1>3, LeastNatural
<1>5. m \in Nat /\ ~ \E g : Adds(g, v, b, N, m)
  BY <1>4
<1>6. CASE m = 0
  <2> DEFINE D == {t \in SUBSET N : Cardinality(t) <= 0}
             g == [s \in D |-> b]
  <2>1. \A s \in D : s = {}
    <3> TAKE s \in D
    <3>1. Cardinality(s) \in Nat /\ Cardinality(s) <= 0 /\ (Cardinality(s) = 0 <=> s = {})
      BY TakenOff
    <3> QED
      BY <3>1
  <2>2. g = [s \in D |-> IF s = {} THEN b ELSE g[s \ {Taken(s)}] + v[Taken(s)]]
    <3> HIDE DEF D
    <3> QED
      BY <2>1
  <2>3. Adds(g, v, b, N, 0)
    <3> HIDE DEF g
    <3> QED
      BY <2>2, Zenon DEF Adds
  <2> QED
    BY <1>5, <1>6, <2>3
<1>7. CASE m # 0
  <2>1. m - 1 \in Nat /\ (m - 1) + 1 = m /\ ~(m <= m - 1)
    BY <1>5, <1>7
  <2>2. m - 1 \notin T
    BY <1>4, <2>1
  <2>3. PICK f : Adds(f, v, b, N, m - 1)
    BY <2>1, <2>2
  <2>4. \E g : Adds(g, v, b, N, (m - 1) + 1)
    BY <2>1, <2>3, AddsMore
  <2> QED
    BY <1>5, <2>1, <2>4
<1> QED
  BY <1>6, <1>7

\* g is the sum of b and of v over each subset of N.
Sums(g, v, b, N) ==
    /\ g[{}] = b
    /\ \A s \in SUBSET N : s # {} => g[s] = g[s \ {Taken(s)}] + v[Taken(s)]

LEMMA SumsExist ==
    ASSUME NEW N, IsFiniteSet(N), NEW v, NEW b
    PROVE  \E g : Sums(g, v, b, N)
<1> DEFINE n == Cardinality(N)
           D == {t \in SUBSET N : Cardinality(t) <= n}
<1>1. n \in Nat
  BY FS_CardinalityType
<1>2. PICK g : Adds(g, v, b, N, n)
  BY <1>1, AddsExists
<1>3. \A s \in D : g[s] = IF s = {} THEN b ELSE g[s \ {Taken(s)}] + v[Taken(s)]
  BY <1>2, Zenon DEF Adds
<1>4. \A s \in SUBSET N : s \in D
  BY FS_Subset
<1>5. {} \in SUBSET N
  OBVIOUS
<1> HIDE DEF D
<1>6. Sums(g, v, b, N)
  BY <1>3, <1>4, <1>5 DEF Sums
<1> QED
  BY <1>6

LEMMA SumsInt ==
    ASSUME NEW N, IsFiniteSet(N), NEW v, \A x \in N : v[x] \in Int, NEW b \in Int,
           NEW g, Sums(g, v, b, N)
    PROVE  \A s \in SUBSET N : g[s] \in Int
<1> DEFINE B == {s \in SUBSET N : g[s] \notin Int}
<1>0. SUFFICES ASSUME B # {} PROVE FALSE
  OBVIOUS
<1>1. B \in SUBSET SUBSET N
  OBVIOUS
<1>2. PICK s \in B : \A t \in SUBSET N : Cardinality(t) < Cardinality(s) => t \notin B
  <2> HIDE DEF B
  <2> QED
    BY <1>0, <1>1, SmallestOf
<1>3. s \in SUBSET N /\ g[s] \notin Int /\ s # {}
  BY <1>2 DEF Sums
<1>4. /\ s \ {Taken(s)} \in SUBSET N /\ Cardinality(s \ {Taken(s)}) \in Nat
      /\ Cardinality(s) = Cardinality(s \ {Taken(s)}) + 1 /\ Taken(s) \in N
  BY <1>3, TakenOff
<1>5. Cardinality(s \ {Taken(s)}) < Cardinality(s)
  BY <1>4
<1>6. g[s \ {Taken(s)}] \in Int
  BY <1>2, <1>4, <1>5
<1>7. g[s] = g[s \ {Taken(s)}] + v[Taken(s)]
  BY <1>3 DEF Sums
<1> QED
  BY <1>3, <1>4, <1>6, <1>7

LEMMA SwapTerms ==
    ASSUME NEW a \in Int, NEW b \in Int, NEW c \in Int
    PROVE  (a + b) + c = (a + c) + b
  OBVIOUS

\* It does not matter which element is taken off first.
AnyOrder(g, v, N) == \A s \in SUBSET N : \A x \in s : g[s] = g[s \ {x}] + v[x]

LEMMA SumsAnyOrder ==
    ASSUME NEW N, IsFiniteSet(N), NEW v, \A x \in N : v[x] \in Int, NEW b \in Int,
           NEW g, Sums(g, v, b, N)
    PROVE  AnyOrder(g, v, N)
<1> DEFINE B == {s \in SUBSET N : \E x \in s : g[s] # g[s \ {x}] + v[x]}
<1>0. SUFFICES ASSUME B # {} PROVE FALSE
  BY DEF AnyOrder
<1>1. B \in SUBSET SUBSET N
  OBVIOUS
<1>2. PICK s \in B : \A t \in SUBSET N : Cardinality(t) < Cardinality(s) => t \notin B
  <2> HIDE DEF B
  <2> QED
    BY <1>0, <1>1, SmallestOf
<1>3. s \in SUBSET N /\ \E x \in s : g[s] # g[s \ {x}] + v[x]
  BY <1>2
<1>4. PICK x \in s : g[s] # g[s \ {x}] + v[x]
  BY <1>3
<1> DEFINE y == Taken(s)
<1>5. /\ y \in s /\ s # {}
      /\ \A z \in s : /\ s \ {z} \in SUBSET N /\ Cardinality(s \ {z}) \in Nat
                      /\ Cardinality(s) = Cardinality(s \ {z}) + 1
  BY <1>3, <1>4, TakenOff
<1>6. g[s] = g[s \ {y}] + v[y]
  BY <1>3, <1>5 DEF Sums
<1> HIDE DEF y
<1>7. \A z \in s : s \ {z} \in SUBSET N /\ Cardinality(s \ {z}) < Cardinality(s)
  BY <1>5
<1>8. \A z \in s : \A w \in s \ {z} : g[s \ {z}] = g[(s \ {z}) \ {w}] + v[w]
  BY <1>2, <1>7
<1>9. x # y
  BY <1>4, <1>6
<1>10. x \in s \ {y} /\ y \in s \ {x}
  BY <1>4, <1>5, <1>9
<1> DEFINE t == (s \ {y}) \ {x}
<1>11. (s \ {x}) \ {y} = t
  OBVIOUS
<1>12. t \in SUBSET N
  BY <1>3
<1> HIDE DEF t
<1>13. g[t] \in Int /\ v[x] \in Int /\ v[y] \in Int
  BY <1>3, <1>4, <1>5, <1>12, SumsInt
<1>14. g[s \ {y}] = g[t] + v[x]
  BY <1>5, <1>8, <1>10 DEF t
<1>15. g[s \ {x}] = g[t] + v[y]
  BY <1>4, <1>8, <1>10, <1>11
<1>16. (g[t] + v[x]) + v[y] = (g[t] + v[y]) + v[x]
  BY <1>13, SwapTerms
<1> QED
  BY <1>4, <1>6, <1>14, <1>15, <1>16

\* The sum over a set of lines, as the aggregator builds it.
SumOf(b, T) == FoldSet(LAMBDA i, sum : sum + Value(input[i]), b, T)

LEMMA FoldIsSum ==
    ASSUME NEW N, IsFiniteSet(N), NEW v, \A i \in N : v[i] = Value(input[i]), NEW b,
           NEW g, Sums(g, v, b, N), NEW T \in SUBSET N
    PROVE  SumOf(b, T) = g[T]
<1> DEFINE Body(f) == [s \in SUBSET T |->
                          IF s = {} THEN b
                          ELSE LET x == CHOOSE y \in s : TRUE
                               IN  f[s \ {x}] + Value(input[x])]
           iter == CHOOSE f : f = Body(f)
           h == [s \in SUBSET T |-> g[s]]
<1>1. \A s \in SUBSET T : s # {} => /\ g[s] = g[s \ {Taken(s)}] + v[Taken(s)]
                                    /\ s \ {Taken(s)} \in SUBSET T /\ Taken(s) \in N
  BY DEF Sums, Taken
<1>2. g[{}] = b
  BY DEF Sums
<1>3. \A s \in SUBSET T : h[s] = g[s]
  OBVIOUS
<1>4. h = [s \in SUBSET T |-> IF s = {} THEN b ELSE h[s \ {Taken(s)}] + Value(input[Taken(s)])]
  <2>1. h = [s \in SUBSET T |-> g[s]]
    OBVIOUS
  <2> HIDE DEF h
  <2>2. ASSUME NEW s \in SUBSET T
        PROVE  g[s] = IF s = {} THEN b ELSE h[s \ {Taken(s)}] + Value(input[Taken(s)])
    <3>1. CASE s = {}
      BY <1>2, <3>1
    <3>2. CASE s # {}
      <4>1. h[s \ {Taken(s)}] = g[s \ {Taken(s)}] /\ v[Taken(s)] = Value(input[Taken(s)])
        BY <1>1, <1>3, <3>2
      <4> QED
        BY <1>1, <3>2, <4>1
    <3> QED
      BY <3>1, <3>2
  <2> QED
    BY <2>1, <2>2
<1> HIDE DEF h
<1>5. h = Body(h)
  BY <1>4, Zenon DEF Taken
<1>6. iter = Body(iter)
  <2> HIDE DEF Body
  <2> QED
    BY <1>5
<1>7. SumOf(b, T) = iter[T]
  BY DEF SumOf, FoldSet, MapThenFoldSet
<1> HIDE DEF iter
<1>8. \A s \in SUBSET T : iter[s] = IF s = {} THEN b
                                    ELSE iter[s \ {Taken(s)}] + Value(input[Taken(s)])
  BY <1>6, Zenon DEF Taken
<1> HIDE DEF Body
<1>9. Alike(iter, h, T)
  <2>1. iter[{}] = b /\ h[{}] = b
    BY <1>2, <1>3, <1>8
  <2>2. \A s \in SUBSET T : s # {} =>
            /\ iter[s] = iter[s \ {Taken(s)}] + Value(input[Taken(s)])
            /\ h[s] = h[s \ {Taken(s)}] + Value(input[Taken(s)])
    BY <1>4, <1>8
  <2> QED
    BY <2>1, <2>2 DEF Alike
<1>10. IsFiniteSet(T)
  BY FS_Subset
<1>11. \A s \in SUBSET T : iter[s] = h[s]
  BY <1>9, <1>10, SameFold
<1> QED
  BY <1>3, <1>7, <1>11

LEMMA SumSteps ==
    ASSUME NEW N, IsFiniteSet(N), \A i \in N : Value(input[i]) \in Int, NEW b \in Int
    PROVE  /\ SumOf(b, {}) = b
           /\ \A T \in SUBSET N : SumOf(b, T) \in Int
           /\ \A T \in SUBSET N : \A x \in T : SumOf(b, T) = SumOf(b, T \ {x}) + Value(input[x])
<1> DEFINE v == [i \in N |-> Value(input[i])]
<1>1. \A i \in N : v[i] = Value(input[i]) /\ v[i] \in Int
  OBVIOUS
<1> HIDE DEF v
<1>2. PICK g : Sums(g, v, b, N)
  BY SumsExist
<1>3. \A T \in SUBSET N : SumOf(b, T) = g[T]
  BY <1>1, <1>2, FoldIsSum
<1>4. g[{}] = b /\ {} \in SUBSET N
  BY <1>2 DEF Sums
<1>5. \A T \in SUBSET N : g[T] \in Int
  BY <1>1, <1>2, SumsInt
<1>6. AnyOrder(g, v, N)
  BY <1>1, <1>2, SumsAnyOrder
<1>7. \A T \in SUBSET N : \A x \in T : x \in N /\ T \ {x} \in SUBSET N
  OBVIOUS
<1>8. \A T \in SUBSET N : \A x \in T : SumOf(b, T) = SumOf(b, T \ {x}) + Value(input[x])
  BY <1>1, <1>3, <1>6, <1>7 DEF AnyOrder
<1> QED
  BY <1>3, <1>4, <1>5, <1>8

(***************************************************************************)
(* The totals after a set of lines.                                        *)
(***************************************************************************)
StatsTyped ==
    /\ stats = [k \in DOMAIN stats |-> stats[k]]
    /\ \A k \in DOMAIN stats : stats[k] \in [count : Nat \ {0}, sum : Int]

OfKey(N, k) == {i \in N : Key(input[i]) = k}

GroupOf(N, k) == [count |-> Total(k).count + Cardinality(OfKey(N, k)),
                  sum |-> SumOf(Total(k).sum, OfKey(N, k))]

TotalsOf(N) == [k \in DOMAIN stats \cup {Key(input[i]) : i \in N} |-> GroupOf(N, k)]

LEMMA TotalTyped ==
    ASSUME StatsTyped, NEW k
    PROVE  /\ Total(k).count \in Nat /\ Total(k).sum \in Int
           /\ Total(k) = [count |-> Total(k).count, sum |-> Total(k).sum]
           /\ k \in DOMAIN stats => Total(k) = stats[k]
           /\ k \notin DOMAIN stats => Total(k) = [count |-> 0, sum |-> 0]
           /\ k \in DOMAIN stats => Total(k).count # 0
<1>1. CASE k \in DOMAIN stats
  BY <1>1 DEF StatsTyped, Total
<1>2. CASE k \notin DOMAIN stats
  BY <1>2 DEF Total
<1> QED
  BY <1>1, <1>2

LEMMA NoneCounted ==
    ASSUME StatsTyped, NEW N, NEW k, OfKey(N, k) = {}
    PROVE  GroupOf(N, k) = Total(k)
<1>1. Cardinality({}) = 0 /\ IsFiniteSet({})
  BY FS_EmptySet
<1>2. SumOf(Total(k).sum, {}) = Total(k).sum
  <2> DEFINE b == Total(k).sum
  <2>1. b \in Int
    BY TotalTyped
  <2> HIDE DEF b
  <2>2. \A i \in {} : Value(input[i]) \in Int
    OBVIOUS
  <2>3. SumOf(b, {}) = b
    BY <1>1, <2>1, <2>2, SumSteps
  <2> QED
    BY <2>3 DEF b
<1>3. Total(k).count + 0 = Total(k).count
  BY TotalTyped
<1>4. GroupOf(N, k) = [count |-> Total(k).count + Cardinality({}), sum |-> SumOf(Total(k).sum, {})]
  BY DEF GroupOf
<1>5. GroupOf(N, k) = [count |-> Total(k).count, sum |-> Total(k).sum]
  BY <1>1, <1>2, <1>3, <1>4, Zenon
<1> QED
  BY <1>5, TotalTyped, Zenon

LEMMA NoneAdded ==
    ASSUME StatsTyped
    PROVE  TotalsOf({}) = stats
<1>1. \A k \in DOMAIN stats : GroupOf({}, k) = stats[k]
  <2> TAKE k \in DOMAIN stats
  <2>1. OfKey({}, k) = {}
    BY DEF OfKey
  <2> QED
    BY <2>1, NoneCounted, TotalTyped
<1>2. DOMAIN stats \cup {Key(input[i]) : i \in {}} = DOMAIN stats
  OBVIOUS
<1>3. TotalsOf({}) = [k \in DOMAIN stats |-> GroupOf({}, k)]
  BY <1>2 DEF TotalsOf
<1>4. TotalsOf({}) = [k \in DOMAIN stats |-> stats[k]]
  BY <1>1, <1>3
<1> QED
  BY <1>4 DEF StatsTyped

\* One line more is what the job adds for it.
LEMMA OneAdded ==
    ASSUME StatsTyped, NEW N, IsFiniteSet(N), \A i \in N : Value(input[i]) \in Int,
           NEW s \in SUBSET N, NEW x \in s
    PROVE  TotalsOf(s) = Job!Add(TotalsOf(s \ {x}), input[x])
<1> DEFINE r == s \ {x}
           key == Key(input[x])
           t == TotalsOf(r)
           old == IF key \in DOMAIN t THEN t[key] ELSE [count |-> 0, sum |-> 0]
           D(m) == DOMAIN stats \cup {Key(input[i]) : i \in m}
<1>1. D(s) = D(r) \cup {key}
  OBVIOUS
<1>2. DOMAIN t = D(r) /\ \A k \in D(r) : t[k] = GroupOf(r, k)
  BY DEF TotalsOf
<1>3. \A k : k # key => OfKey(s, k) = OfKey(r, k)
  BY DEF OfKey
<1>4. \A k : k # key => GroupOf(s, k) = GroupOf(r, k)
  BY <1>3 DEF GroupOf
<1>5. old = GroupOf(r, key)
  <2>1. CASE key \in DOMAIN t
    BY <1>2, <2>1
  <2>2. CASE key \notin DOMAIN t
    <3>1. key \notin DOMAIN stats /\ OfKey(r, key) = {}
      BY <1>2, <2>2 DEF OfKey
    <3>2. GroupOf(r, key) = [count |-> 0, sum |-> 0]
      BY <3>1, NoneCounted, TotalTyped
    <3> QED
      BY <2>2, <3>2
  <2> QED
    BY <2>1, <2>2
<1>6. /\ x \in OfKey(s, key) /\ OfKey(s, key) \ {x} = OfKey(r, key)
      /\ OfKey(s, key) \in SUBSET N
  BY DEF OfKey
<1>7. /\ Cardinality(OfKey(r, key)) \in Nat
      /\ Cardinality(OfKey(s, key)) = Cardinality(OfKey(r, key)) + 1
  <2> HIDE DEF r, key
  <2>1. /\ Cardinality(OfKey(s, key) \ {x}) \in Nat
        /\ Cardinality(OfKey(s, key)) = Cardinality(OfKey(s, key) \ {x}) + 1
    BY <1>6, TakenOff
  <2> QED
    BY <1>6, <2>1
<1> DEFINE b == Total(key).sum
           c == Total(key).count
<1>8. b \in Int /\ c \in Nat
  BY TotalTyped
<1> HIDE DEF b, c, r, key, old, t, D
<1>9. SumOf(b, OfKey(s, key)) = SumOf(b, OfKey(r, key)) + Value(input[x])
  <2> DEFINE T == OfKey(s, key)
             U == OfKey(r, key)
  <2>1. T \in SUBSET N /\ x \in T /\ T \ {x} = U
    BY <1>6
  <2> HIDE DEF T, U
  <2>2. SumOf(b, T) = SumOf(b, T \ {x}) + Value(input[x])
    BY <1>8, <2>1, SumSteps
  <2> QED
    BY <2>1, <2>2 DEF T, U
<1>10. c + Cardinality(OfKey(s, key)) = (c + Cardinality(OfKey(r, key))) + 1
  BY <1>7, <1>8
<1>11. GroupOf(s, key) = [count |-> (c + Cardinality(OfKey(r, key))) + 1,
                          sum |-> SumOf(b, OfKey(r, key)) + Value(input[x])]
  BY <1>9, <1>10 DEF GroupOf, b, c
<1>12. old.count = c + Cardinality(OfKey(r, key)) /\ old.sum = SumOf(b, OfKey(r, key))
  BY <1>5 DEF GroupOf, b, c
<1>13. GroupOf(s, key) = [count |-> old.count + 1, sum |-> old.sum + Value(input[x])]
  BY <1>11, <1>12
<1>14. Job!Add(t, input[x]) =
          [k \in DOMAIN t \cup {key} |->
              IF k = key THEN [count |-> old.count + 1, sum |-> old.sum + Value(input[x])]
              ELSE t[k]]
  BY DEF Job!Add, old, key
<1>15. \A k \in D(s) : GroupOf(s, k) =
            IF k = key THEN [count |-> old.count + 1, sum |-> old.sum + Value(input[x])]
            ELSE t[k]
  BY <1>1, <1>2, <1>4, <1>13
<1>16. TotalsOf(s) = [k \in D(s) |-> GroupOf(s, k)]
  BY DEF TotalsOf, D
<1>17. TotalsOf(s) = Job!Add(t, input[x])
  BY <1>1, <1>2, <1>14, <1>15, <1>16
<1> QED
  BY <1>17 DEF t, r

\* The totals as the job adds up the lines of J.
Folded(J, N) == Job!FoldSet(LAMBDA i, t : Job!Add(t, J[i]), stats, N)

\* The job's own fold arrives at the same totals.
LEMMA FoldIsTotals ==
    ASSUME StatsTyped, NEW N, IsFiniteSet(N), \A i \in N : Value(input[i]) \in Int,
           NEW J, \A i \in N : J[i] = input[i]
    PROVE  Folded(J, N) = TotalsOf(N)
<1> DEFINE Body(f) == [s \in SUBSET N |->
                          IF s = {} THEN stats
                          ELSE LET x == CHOOSE y \in s : TRUE IN Job!Add(f[s \ {x}], J[x])]
           iter == CHOOSE f : f = Body(f)
           h == [s \in SUBSET N |-> TotalsOf(s)]
<1>1. ASSUME NEW s \in SUBSET N, s # {}
      PROVE  h[s] = Job!Add(h[s \ {Taken(s)}], J[Taken(s)])
  <2>1. Taken(s) \in s /\ s \ {Taken(s)} \in SUBSET N /\ J[Taken(s)] = input[Taken(s)]
    BY <1>1, TakenOff
  <2>2. TotalsOf(s) = Job!Add(TotalsOf(s \ {Taken(s)}), input[Taken(s)])
    BY <2>1, OneAdded
  <2>3. h[s] = TotalsOf(s) /\ h[s \ {Taken(s)}] = TotalsOf(s \ {Taken(s)})
    BY <2>1
  <2> QED
    BY <2>1, <2>2, <2>3
<1>2. h[{}] = stats
  BY NoneAdded
<1>3. h = [s \in SUBSET N |-> h[s]]
  OBVIOUS
<1> HIDE DEF h
<1>4. h = [s \in SUBSET N |-> IF s = {} THEN stats ELSE Job!Add(h[s \ {Taken(s)}], J[Taken(s)])]
  BY <1>1, <1>2, <1>3
<1>5. h = Body(h)
  BY <1>4, Zenon DEF Taken
<1>6. iter = Body(iter)
  <2> HIDE DEF Body
  <2> QED
    BY <1>5
<1>7. Folded(J, N) = iter[N]
  BY DEF Folded, Job!FoldSet, Job!MapThenFoldSet
<1> HIDE DEF iter
<1>8. \A s \in SUBSET N : iter[s] = IF s = {} THEN stats
                                    ELSE Job!Add(iter[s \ {Taken(s)}], J[Taken(s)])
  BY <1>6, Zenon DEF Taken
<1> HIDE DEF Body
<1>9. Alike(iter, h, N)
  BY <1>1, <1>2, <1>8 DEF Alike
<1>10. \A s \in SUBSET N : iter[s] = h[s]
  BY <1>9, SameFold
<1>11. h[N] = TotalsOf(N)
  BY DEF h
<1>12. iter[N] = h[N]
  BY <1>10
<1> QED
  BY <1>7, <1>11, <1>12, Zenon

LEMMA TotalsTyped ==
    ASSUME StatsTyped, NEW N, IsFiniteSet(N), \A i \in N : Value(input[i]) \in Int,
           stats' = TotalsOf(N)
    PROVE  StatsTyped'
<1> DEFINE t == TotalsOf(N)
<1>1. t = [k \in DOMAIN t |-> t[k]] /\ \A k \in DOMAIN t : t[k] = GroupOf(N, k)
  BY DEF TotalsOf
<1>2. \A k \in DOMAIN t : k \in DOMAIN stats \/ \E i \in N : k = Key(input[i])
  BY DEF TotalsOf
<1>3. ASSUME NEW k \in DOMAIN t
      PROVE  GroupOf(N, k) \in [count : Nat \ {0}, sum : Int]
  <2> DEFINE T == OfKey(N, k)
             b == Total(k).sum
             c == Total(k).count
  <2>1. T \in SUBSET N
    BY DEF OfKey
  <2>2. b \in Int /\ c \in Nat /\ (k \in DOMAIN stats => c # 0)
    BY TotalTyped
  <2>3. k \notin DOMAIN stats => T # {}
    BY <1>2, <1>3 DEF OfKey
  <2>4. GroupOf(N, k) = [count |-> c + Cardinality(T), sum |-> SumOf(b, T)]
    BY DEF GroupOf
  <2> HIDE DEF T, b, c
  <2>5. Cardinality(T) \in Nat /\ (Cardinality(T) = 0 <=> T = {})
    BY <2>1, TakenOff
  <2>6. SumOf(b, T) \in Int
    BY <2>1, <2>2, SumSteps
  <2>7. c + Cardinality(T) \in Nat \ {0}
    BY <2>2, <2>3, <2>5
  <2> QED
    BY <2>4, <2>6, <2>7
<1> HIDE DEF t
<1>4. stats' = t
  BY DEF t
<1> QED
  BY <1>1, <1>3, <1>4 DEF StatsTyped

(***************************************************************************)
(* What the steps do to the set of events under way.                       *)
(***************************************************************************)
LEMMA AllMoves ==
    ASSUME NEW s, NEW t, NEW k, NEW x, NEW y, Moves(s, t, k, x, y)
    PROVE  /\ AllOf(s) = AllOf(t) \cup ToSet(x)
           /\ Ordered(s) => AllOf(t) = AllOf(s) \ (ToSet(x) \ ToSet(y))
           /\ ToSet(y) \subseteq AllOf(t)
<1>1. /\ k \in PieceNo /\ k + 1 \in PieceNo /\ k # k + 1
      /\ ToSet(t[k]) = ToSet(s[k]) \cup ToSet(y)
      /\ ToSet(s[k + 1]) = ToSet(x) \cup ToSet(t[k + 1])
      /\ \A e \in AllOf(s) : e \notin AllOf(t) => e \in ToSet(x) /\ e \notin ToSet(y)
  BY MovesParts
<1>2. /\ x \in Seq(Nat) /\ s \in [PieceNo -> Seq(Nat)] /\ t \in [PieceNo -> Seq(Nat)]
      /\ s[k + 1] = x \o t[k + 1] /\ k < k + 1
      /\ \A i \in PieceNo : i \notin {k, k + 1} => t[i] = s[i]
  BY DEF Moves
<1>3. AllOf(t) \subseteq AllOf(s)
  BY MovesOrdered
<1>4. ToSet(x) \subseteq AllOf(s)
  BY <1>1 DEF AllOf
<1>5. ToSet(y) \subseteq AllOf(t)
  BY <1>1 DEF AllOf
<1>6. \A e \in ToSet(x) : e \in Nat
  <2>1. \A i \in 1 .. Len(x) : x[i] \in Nat
    BY <1>2, ElementOfSeq
  <2>2. DOMAIN x = 1 .. Len(x)
    BY <1>2, LenProperties
  <2> QED
    BY <2>1, <2>2 DEF ToSet
<1>7. ASSUME Ordered(s), NEW e \in ToSet(x), e \notin ToSet(y)
      PROVE  e \notin AllOf(t)
  <2>0. SUFFICES ASSUME NEW i \in PieceNo, e \in ToSet(t[i]) PROVE FALSE
    BY DEF AllOf
  <2>1. e \in ToSet(s[k + 1]) /\ e \in Nat /\ ~(e < e)
    BY <1>1, <1>6, <1>7
  <2>2. CASE i = k
    <3>1. e \in ToSet(s[k])
      BY <1>1, <1>7, <2>0, <2>2
    <3> QED
      BY <1>1, <1>2, <1>7, <2>1, <3>1 DEF Ordered
  <2>3. CASE i = k + 1
    <3>1. t[k + 1] \in Seq(Nat) /\ Increasing(x \o t[k + 1])
      BY <1>1, <1>2, <1>7 DEF Ordered
    <3>2. \A a \in ToSet(x), b \in ToSet(t[k + 1]) : a < b
      BY <1>2, <3>1, IncreasingParts
    <3> QED
      BY <1>7, <2>0, <2>1, <2>3, <3>2
  <2>4. CASE i \notin {k, k + 1}
    <3>1. e \in ToSet(s[i])
      BY <1>2, <2>0, <2>4
    <3>2. k + 1 < i \/ i < k + 1
      BY <1>1, <2>4 DEF PieceNo
    <3> QED
      BY <1>1, <1>7, <2>1, <3>1, <3>2 DEF Ordered
  <2> QED
    BY <2>2, <2>3, <2>4
<1>8. AllOf(s) = AllOf(t) \cup ToSet(x)
  BY <1>1, <1>3, <1>4
<1>9. Ordered(s) => AllOf(t) = AllOf(s) \ (ToSet(x) \ ToSet(y))
  BY <1>1, <1>3, <1>7
<1> QED
  BY <1>5, <1>8, <1>9

LEMMA AllMoved ==
    ASSUME NEW s, NEW t, NEW k, NEW x, Moves(s, t, k, x, x)
    PROVE  AllOf(t) = AllOf(s)
  BY AllMoves

LEMMA AllRelayed ==
    ASSUME NEW s, NEW t, Relays(s, t)
    PROVE  AllOf(t) = AllOf(s)
  BY AllMoved DEF Relays

LEMMA AllLeft ==
    ASSUME NEW s, NEW t, NEW x, Left(s, t, x), Ordered(s)
    PROVE  /\ AllOf(t) = AllOf(s) \ ToSet(x)
           /\ ToSet(x) \subseteq ToSet(s[1]) /\ ToSet(x) \subseteq AllOf(s)
<1>1. /\ s \in [PieceNo -> Seq(Nat)] /\ t \in [PieceNo -> Seq(Nat)] /\ x \in Seq(Nat)
      /\ s[1] = x \o t[1] /\ \A i \in PieceNo : i # 1 => t[i] = s[i]
      /\ 1 \in PieceNo
  BY DEF Left, PieceNo
<1>2. /\ AllOf(t) \subseteq AllOf(s) /\ ToSet(x) \subseteq AllOf(s)
      /\ \A a \in ToSet(x), b \in AllOf(t) : a < b
  BY <1>1, HeadLeaves
<1>3. ToSet(s[1]) = ToSet(x) \cup ToSet(t[1])
  BY <1>1, Parts
<1>4. \A i \in PieceNo : \A e \in ToSet(s[i]) : e \in ToSet(x) \/ e \in ToSet(t[i])
  BY <1>1, <1>3
<1>5. \A e \in AllOf(s) : e \in ToSet(x) \/ e \in AllOf(t)
  BY <1>4 DEF AllOf
<1>6. \A e \in ToSet(x) : ~(e < e)
  <2>1. \A i \in 1 .. Len(x) : x[i] \in Nat
    BY <1>1, ElementOfSeq
  <2>2. DOMAIN x = 1 .. Len(x)
    BY <1>1, LenProperties
  <2>3. \A e \in ToSet(x) : e \in Nat
    BY <2>1, <2>2 DEF ToSet
  <2> QED
    BY <2>3
<1> QED
  BY <1>2, <1>3, <1>5, <1>6

LEMMA AllJoined ==
    ASSUME NEW s \in [PieceNo -> Seq(Nat)], NEW t, NEW n \in Nat,
           t[10] = Append(s[10], n), \A i \in PieceNo : i # 10 => t[i] = s[i]
    PROVE  AllOf(t) = AllOf(s) \cup {n}
<1>1. 10 \in PieceNo /\ s[10] \in Seq(Nat)
  BY DEF PieceNo
<1>2. ToSet(t[10]) = ToSet(s[10]) \cup {n}
  <2> DEFINE e == <<n>>
             q == s[10]
  <2>1. Append(q, n) = q \o e /\ e \in Seq(Nat) /\ ToSet(e) = {n} /\ q \in Seq(Nat)
    BY <1>1, AppendIsConcat DEF ToSet
  <2> HIDE DEF e, q
  <2>2. ToSet(q \o e) = ToSet(q) \cup ToSet(e)
    BY <2>1, Parts
  <2>3. t[10] = Append(q, n)
    BY DEF q
  <2> QED
    BY <2>1, <2>2, <2>3 DEF q
<1>3. \A e : (\E i \in PieceNo : e \in ToSet(t[i])) <=> (\E i \in PieceNo : e \in ToSet(s[i])) \/ e = n
  BY <1>1, <1>2
<1>4. \A e : e \in AllOf(t) <=> e \in AllOf(s) \/ e = n
  BY <1>3, Zenon DEF AllOf
<1> QED
  BY <1>4

(***************************************************************************)
(* The job's variables.                                                    *)
(***************************************************************************)
Lines == SubSeq(input, 1, Wanted)
Todo == (sequence + 1 .. Wanted) \cup ToSet(InFlight)
FileGroups == {r \in ToSet(output) : r.count > 0}
Published == IF outcome = "complete" THEN {FileGroups} ELSE {}

LEMMA JobVars == Job!jobVars = <<Lines, TRUE, Todo, stats, Published>>
  BY DEF Job!jobVars, Lines, Todo, FileGroups, Published

LEMMA InFlightNext == MessageTypes' => ToSet(InFlight') = AllOf(Pieces')
<1> SUFFICES ASSUME MessageTypes' PROVE ToSet(InFlight') = AllOf(Pieces')
  OBVIOUS
<1> DEFINE t == Pieces'
<1>1. InFlight' = t[1] \o t[2] \o t[3] \o t[4] \o t[5] \o t[6] \o t[7] \o t[8] \o t[9] \o t[10]
  BY DEF InFlight, Pieces, PiecesOf
<1>2. t \in [PieceNo -> Seq(Nat)]
  BY PiecesTypeNext
<1> HIDE DEF t
<1>3. ToSet(InFlight') = AllOf(t)
  BY <1>1, <1>2, AllTogether
<1> QED
  BY <1>3 DEF t

\* What is still to be accounted for is unread or in one of the pieces.
LEMMA TodoPieces ==
    /\ MessageTypes => Todo = (sequence + 1 .. Wanted) \cup AllOf(Pieces)
    /\ MessageTypes' => Todo' = (sequence' + 1 .. Wanted') \cup AllOf(Pieces')
<1>1. MessageTypes => Todo = (sequence + 1 .. Wanted) \cup AllOf(Pieces)
  BY InFlightIs DEF Todo
<1>2. MessageTypes' => Todo' = (sequence' + 1 .. Wanted') \cup AllOf(Pieces')
  BY InFlightNext DEF Todo
<1> QED
  BY <1>1, <1>2

LEMMA LinesAre ==
    ASSUME MessageTypes
    PROVE  /\ Wanted \in Nat /\ Wanted <= Len(input) /\ Len(input) \in Nat
           /\ Lines \in Seq(Line \cup {WorkItem}) /\ Len(Lines) = Wanted
           /\ \A i \in 1 .. Wanted : i \in DOMAIN input /\ Lines[i] = input[i]
<1>1. input \in Seq(Line \cup {WorkItem}) /\ maxEvents \in Nat
  BY DEF MessageTypes
<1>2. Wanted \in Nat /\ Wanted <= Len(input) /\ Len(input) \in Nat
  BY <1>1 DEF Wanted
<1> DEFINE q == input
           n == Wanted
           S == Line \cup {WorkItem}
<1>3. q \in Seq(S) /\ n \in Nat /\ n <= Len(q)
  BY <1>1, <1>2
<1> HIDE DEF q, n, S
<1>4. /\ SubSeq(q, 1, n) \in Seq(S) /\ Len(SubSeq(q, 1, n)) = n
      /\ \A i \in 1 .. n : i \in DOMAIN q /\ SubSeq(q, 1, n)[i] = q[i]
  BY <1>3
<1> QED
  BY <1>2, <1>4 DEF Lines, q, n, S

\* The totals hold positive counts and integer sums.
JInv == IInv /\ PInv /\ RInv /\ StatsTyped

LEMMA InitStats == Init => StatsTyped
  BY DEF Init, StatsTyped

\* Nothing happens after the end, and only Complete completes.
LEMMA OnlyComplete ==
    ASSUME Next
    PROVE  outcome = "running" /\ (Complete \/ outcome' # "complete")
<1> USE DEF Works, RequestsDone, Ended, ending
<1>1. CASE ReadLine \/ SendEvent \/ EndIngest
  BY <1>1 DEF ReadLine, SendEvent, EndIngest
<1>2. ASSUME NEW s \in {"parse", "rules"}, Filter(s) \/ EndFilter(s)
      PROVE  outcome = "running" /\ outcome' = outcome
  BY <1>2 DEF Filter, EndFilter
<1>3. CASE Aggregate \/ EndAggregate
  BY <1>3 DEF Aggregate, EndAggregate
<1>4. ASSUME NEW s \in Stage, RelayEvents(s) \/ RelayEnd(s)
      PROVE  outcome = "running" /\ outcome' = outcome
  BY <1>4 DEF RelayEvents, RelayEnd
<1>5. CASE RelayResults \/ EndResults \/ WriteResult \/ CloseOutput \/ Complete \/ Abandon
  BY <1>5 DEF RelayResults, EndResults, WriteResult, CloseOutput, Complete, Abandon
<1>6. ASSUME NEW s \in Service, Crash(s) \/ StreamError(s)
      PROVE  outcome = "running" /\ outcome' # "complete"
  BY <1>6 DEF Crash, StreamError
<1> QED
  BY <1>1, <1>2, <1>3, <1>4, <1>5, <1>6 DEF Next

LEMMA RunFixed == [Next]_vars => UNCHANGED run
<1>1. CASE ReadLine \/ SendEvent \/ EndIngest
  BY <1>1 DEF ReadLine, SendEvent, EndIngest
<1>2. ASSUME NEW s \in {"parse", "rules"}, Filter(s) \/ EndFilter(s)
      PROVE  UNCHANGED run
  BY <1>2 DEF Filter, EndFilter
<1>3. CASE Aggregate \/ EndAggregate
  BY <1>3 DEF Aggregate, EndAggregate
<1>4. ASSUME NEW s \in Stage, RelayEvents(s) \/ RelayEnd(s)
      PROVE  UNCHANGED run
  BY <1>4 DEF RelayEvents, RelayEnd
<1>5. CASE RelayResults \/ EndResults \/ WriteResult \/ CloseOutput \/ Complete \/ Abandon
  BY <1>5 DEF RelayResults, EndResults, WriteResult, CloseOutput, Complete, Abandon
<1>6. ASSUME NEW s \in Service, Crash(s) \/ StreamError(s)
      PROVE  UNCHANGED run
  BY <1>6 DEF Crash, StreamError
<1>7. CASE UNCHANGED vars
  BY <1>7 DEF vars, run
<1> QED
  BY <1>1, <1>2, <1>3, <1>4, <1>5, <1>6, <1>7 DEF Next

\* A step that is none of the job's.
LEMMA JobWaits ==
    ASSUME UNCHANGED run, Todo' = Todo, stats' = stats, Published' = Published
    PROVE  UNCHANGED Job!jobVars
<1>1. Lines' = Lines
  BY DEF run, Lines, Wanted
<1>2. Job!jobVars' = <<Lines', TRUE, Todo', stats', Published'>>
  BY DEF Job!jobVars, Lines, Todo, FileGroups, Published
<1> QED
  BY <1>1, <1>2, JobVars

\* A step that accounts for some lines.
LEMMA JobAccounts ==
    ASSUME UNCHANGED run, Published' = Published, NEW some \in SUBSET Todo,
           some # {} \/ stats' = stats, Todo' = Todo \ some,
           NEW N, N = {i \in some : Counts(Lines[i])},
           stats' = Folded(Lines, N)
    PROVE  [Job!JobNext]_(Job!jobVars)
<1>1. CASE some = {}
  <2>1. Todo' = Todo /\ stats' = stats
    BY <1>1
  <2> QED
    BY <2>1, JobWaits
<1>2. CASE some # {}
  <2>1. Lines' = Lines
    BY DEF run, Lines, Wanted
  <2>2. Job!Account(some)
    BY <1>2, <2>1, Zenon DEF Job!Account, Folded, Lines, Todo, Published, FileGroups
  <2> QED
    BY <2>2, Zenon DEF Job!JobNext, Todo
<1> QED
  BY <1>1, <1>2

\* Steps that neither drop nor count an event.
LEMMA EventsStay ==
    ASSUME MessageTypes, MessageTypes', UNCHANGED run, UNCHANGED stats,
           Published' = Published,
           \/ sequence' = sequence /\ AllOf(Pieces') = AllOf(Pieces)
           \/ /\ sequence' = sequence + 1 /\ sequence < Wanted
              /\ AllOf(Pieces') = AllOf(Pieces) \cup {sequence + 1}
    PROVE  UNCHANGED Job!jobVars
<1>1. Wanted' = Wanted /\ Wanted \in Nat /\ sequence \in 0 .. Wanted
  BY LinesAre DEF run, Wanted, MessageTypes
<1>2. /\ Todo = (sequence + 1 .. Wanted) \cup AllOf(Pieces)
      /\ Todo' = (sequence' + 1 .. Wanted') \cup AllOf(Pieces')
  BY TodoPieces
<1> DEFINE S == AllOf(Pieces)
           T == AllOf(Pieces')
           n == sequence
           w == Wanted
<1>3. w \in Nat /\ n \in 0 .. w
  BY <1>1
<1>4. Todo' = Todo
  <2>1. CASE sequence' = n /\ T = S
    BY <1>1, <1>2, <2>1
  <2>2. CASE sequence' = n + 1 /\ n < w /\ T = S \cup {n + 1}
    <3>1. Todo' = ((n + 1) + 1 .. w) \cup (S \cup {n + 1}) /\ Todo = (n + 1 .. w) \cup S
      BY <1>1, <1>2, <2>2
    <3> HIDE DEF S, T, n, w
    <3>2. n + 1 .. w = ((n + 1) + 1 .. w) \cup {n + 1}
      BY <1>3, <2>2
    <3> QED
      BY <3>1, <3>2
  <2> QED
    BY <2>1, <2>2
<1> QED
  BY <1>4, JobWaits

LEMMA FilterAccounts ==
    ASSUME JInv, NEW f \in {"parse", "rules"}, Filter(f), MessageTypes'
    PROVE  [Job!JobNext]_(Job!jobVars)
<1>1. /\ MessageTypes /\ Ordered(Pieces) /\ AllOf(Pieces) \subseteq 1 .. sequence
      /\ StatsTyped /\ sequence \in 0 .. Wanted
  BY DEF JInv, PInv, EventsInOrder, Flow, MessageTypes
<1>2. /\ UNCHANGED run /\ sequence' = sequence /\ stats' = stats
      /\ Published' = Published
  BY DEF Filter, ingest, aggregator, ending, Published, FileGroups
<1>3. \E x : Moves(Pieces, Pieces', FilterAt[f], x, Only(x, Passing(f)))
  BY <1>1, FilterMoves
<1> DEFINE T == Pieces'
<1>4. PICK x : Moves(Pieces, T, FilterAt[f], x, Only(x, Passing(f)))
  BY <1>3
<1> DEFINE y == Only(x, Passing(f))
           some == ToSet(x) \ ToSet(y)
<1>5. ToSet(y) = ToSet(x) \cap Passing(f)
  <2>1. x \in Seq(Nat)
    BY <1>4 DEF Moves
  <2> QED
    BY <2>1, OnlyKeeps
<1> HIDE DEF T
<1>6. AllOf(Pieces) = AllOf(T) \cup ToSet(x) /\ AllOf(T) = AllOf(Pieces) \ some
  BY <1>1, <1>4, AllMoves
<1> HIDE DEF y
<1>7. Wanted' = Wanted /\ Wanted \in Nat
  BY <1>1, <1>2, LinesAre DEF run, Wanted
<1>8. /\ Todo = (sequence + 1 .. Wanted) \cup AllOf(Pieces)
      /\ Todo' = (sequence + 1 .. Wanted) \cup AllOf(T)
  BY <1>1, <1>2, <1>7, TodoPieces DEF T
<1>9. \A e \in some : e \in AllOf(Pieces) /\ e \in 1 .. Wanted /\ e \notin sequence + 1 .. Wanted
  BY <1>1, <1>6, <1>7
<1>10. some \in SUBSET Todo /\ Todo' = Todo \ some
  BY <1>6, <1>8, <1>9
<1>11. \A e \in some : ~Counts(Lines[e])
  <2> TAKE e \in some
  <2>1. e \in DOMAIN input /\ Lines[e] = input[e]
    BY <1>1, <1>9, LinesAre
  <2>2. ~Keeps(f, input[e])
    BY <1>5, <2>1 DEF Passing
  <2> QED
    BY <2>1, <2>2 DEF Keeps, Counts
<1>12. {e \in some : Counts(Lines[e])} = {}
  BY <1>11
<1>13. Folded(Lines, {}) = TotalsOf({})
  <2>1. IsFiniteSet({}) /\ (\A i \in {} : Value(input[i]) \in Int)
        /\ (\A i \in {} : Lines[i] = input[i])
    BY FS_EmptySet
  <2> QED
    BY <1>1, <2>1, FoldIsTotals, Zenon
<1>14. stats' = Folded(Lines, {})
  BY <1>1, <1>2, <1>13, NoneAdded, Zenon
<1> HIDE DEF some
<1> QED
  BY <1>2, <1>10, <1>12, <1>14, JobAccounts, Zenon

LEMMA AggregateAccounts ==
    ASSUME JInv, Aggregate, MessageTypes'
    PROVE  [Job!JobNext]_(Job!jobVars) /\ StatsTyped'
<1> DEFINE x == Head(requests["aggregate"])
           some == ToSet(x)
           N == {i \in some : input[i] # WorkItem}
<1>1. /\ MessageTypes /\ Ordered(Pieces) /\ AllOf(Pieces) \subseteq 1 .. sequence
      /\ Passed(Pieces) /\ StatsTyped /\ sequence \in 0 .. Wanted
  BY DEF JInv, PInv, EventsInOrder, Flow, MessageTypes
<1>2. /\ UNCHANGED run /\ sequence' = sequence /\ stats' = Added(x)
      /\ Published' = Published
  BY DEF Aggregate, ingest, ending, Published, FileGroups
<1>3. Left(Pieces, Pieces', x)
  BY <1>1, AggregateLeaves
<1> DEFINE T == Pieces'
<1>4. Left(Pieces, T, x)
  BY <1>3
<1> HIDE DEF x, T
<1>5. AllOf(T) = AllOf(Pieces) \ some /\ some \subseteq ToSet(Pieces[1]) /\ some \subseteq AllOf(Pieces)
  BY <1>1, <1>4, AllLeft
<1>6. Wanted' = Wanted /\ Wanted \in Nat
  BY <1>1, <1>2, LinesAre DEF run, Wanted
<1>7. /\ Todo = (sequence + 1 .. Wanted) \cup AllOf(Pieces)
      /\ Todo' = (sequence + 1 .. Wanted) \cup AllOf(T)
  BY <1>1, <1>2, <1>6, TodoPieces DEF T
<1>8. \A e \in some : e \in 1 .. Wanted /\ e \notin sequence + 1 .. Wanted
  BY <1>1, <1>5, <1>6
<1>9. some \in SUBSET Todo /\ Todo' = Todo \ some
  BY <1>5, <1>7, <1>8
<1>10. \A e \in some : /\ e \in DOMAIN input /\ Lines[e] = input[e]
                       /\ Parses(input[e]) /\ (input[e] = WorkItem \/ PassesRules(input[e]))
  <2>1. 1 \in 1 .. 6 /\ 1 \in 1 .. 3
    OBVIOUS
  <2> QED
    BY <1>1, <1>5, <1>8, <2>1, LinesAre DEF Passed
<1>11. \A e \in some : Counts(Lines[e]) <=> input[e] # WorkItem
  BY <1>10 DEF Counts
<1>12. N = {e \in some : Counts(Lines[e])}
  BY <1>11
<1>13. \A i \in N : Value(input[i]) \in Int
  <2> TAKE i \in N
  <2>1. input[i] \in Line \cup {WorkItem} /\ input[i] # WorkItem /\ Parses(input[i])
    BY <1>1, <1>10 DEF MessageTypes
  <2> QED
    BY <2>1, ValueAssumption
<1>14. IsFiniteSet(N)
  <2>1. IsFiniteSet(1 .. Wanted)
    BY <1>6, FS_Interval
  <2>2. N \in SUBSET (1 .. Wanted)
    BY <1>8
  <2> QED
    BY <2>1, <2>2, FS_Subset
<1>15. Added(x) = TotalsOf(N)
  BY DEF Added, TotalsOf, GroupOf, OfKey, SumOf
<1>16. \A i \in N : Lines[i] = input[i]
  BY <1>10
<1> HIDE DEF N, some
<1>17. Folded(Lines, N) = TotalsOf(N)
  BY <1>1, <1>13, <1>14, <1>16, FoldIsTotals, Zenon
<1>18. stats' = Folded(Lines, N)
  BY <1>2, <1>15, <1>17, Zenon
<1>19. some # {} \/ stats' = stats
  <2>1. some = {} => N = {}
    BY <1>12
  <2> QED
    BY <1>1, <1>2, <1>15, <2>1, NoneAdded
<1>20. [Job!JobNext]_(Job!jobVars)
  BY <1>2, <1>9, <1>12, <1>18, <1>19, JobAccounts, Zenon
<1>21. StatsTyped'
  BY <1>1, <1>2, <1>13, <1>14, <1>15, TotalsTyped
<1> QED
  BY <1>20, <1>21

(***************************************************************************)
(* The end of the job.                                                     *)
(***************************************************************************)
\* The streams have ended one after the other, from the front to the back.
LEMMA AllEnded ==
    ASSUME IInv, "sink" \in responsesEnded
    PROVE  /\ requests["sink"] = <<>> /\ responses["aggregate"] = <<>>
           /\ "aggregate" \in responsesEnded
           /\ \A s \in Receiver : requests[s] = <<>>
           /\ \A s \in Stage : responses[s] = <<>> /\ pending[s] = <<>>
           /\ batch = <<>> /\ sequence = Wanted
<1>1. requests["sink"] = <<>> /\ "sink" \in requestsEnded
  BY DEF IInv, EndIsLast
<1>2. "aggregate" \in responsesEnded /\ responses["aggregate"] = <<>>
  BY <1>1 DEF IInv, EndIsLast
<1>3. requests["aggregate"] = <<>> /\ "aggregate" \in requestsEnded
  BY <1>2 DEF IInv, EndIsLast
<1>4. "rules" \in responsesEnded /\ responses["rules"] = <<>> /\ pending["rules"] = <<>>
  BY <1>3 DEF IInv, EndIsLast, Stage, Feeds
<1>5. requests["rules"] = <<>> /\ "rules" \in requestsEnded
  BY <1>4 DEF IInv, EndIsLast
<1>6. "parse" \in responsesEnded /\ responses["parse"] = <<>> /\ pending["parse"] = <<>>
  BY <1>5 DEF IInv, EndIsLast, Stage, Feeds
<1>7. requests["parse"] = <<>> /\ "parse" \in requestsEnded
  BY <1>6 DEF IInv, EndIsLast
<1>8. "ingest" \in responsesEnded /\ responses["ingest"] = <<>> /\ pending["ingest"] = <<>>
  BY <1>7 DEF IInv, EndIsLast, Stage, Feeds
<1>9. sequence = Wanted /\ batch = <<>>
  BY <1>8 DEF IInv, EndIsLast
<1> QED
  BY <1>1, <1>2, <1>3, <1>4, <1>5, <1>6, <1>7, <1>8, <1>9 DEF Receiver, Stage

LEMMA NothingLeft ==
    ASSUME IInv, MessageTypes, "sink" \in responsesEnded
    PROVE  Todo = {}
<1>1. /\ \A s \in Receiver : FlattenSeq(requests[s]) = <<>>
      /\ \A s \in Stage : FlattenSeq(responses[s]) = <<>> /\ pending[s] = <<>>
      /\ batch = <<>> /\ sequence = Wanted
  BY AllEnded, FlattenNone
<1>2. \A i \in PieceNo : Pieces[i] = <<>>
  BY <1>1 DEF Pieces, PiecesOf, PieceNo, Receiver, Stage
<1>3. ToSet(<<>>) = {}
  BY DEF ToSet
<1>4. AllOf(Pieces) = {}
  BY <1>2, <1>3 DEF AllOf
<1>5. sequence + 1 .. Wanted = {}
  BY <1>1, LinesAre
<1> QED
  BY <1>4, <1>5, TodoPieces

\* The groups in the file are the totals, once everything is in it.
LEMMA FileIsTotals ==
    ASSUME JInv, "sink" \in responsesEnded
    PROVE  FileGroups = Job!Results(stats)
<1>1. /\ IInv /\ workItemResults \in Seq(Nat) /\ AllDelivered /\ \E S : ResultTypes(S)
      /\ order \in Seq(Types) /\ DOMAIN stats = ToSet(order) /\ StatsTyped
  BY DEF JInv, PInv, RInv, EventsInOrder, Flow, Groups, StatsMatch
<1>2. /\ requests["sink"] = <<>> /\ responses["aggregate"] = <<>>
      /\ "aggregate" \in responsesEnded
  BY <1>1, AllEnded
<1>3. (output \o FlattenSeq(<<>>)) \o FlattenSeq(<<>>) = Results
  BY <1>1, <1>2 DEF AllDelivered, Delivered
<1>4. PICK S : output \in Seq(S)
  BY <1>1 DEF ResultTypes
<1>5. output \o <<>> = output
  BY <1>4, ConcatEmptySeq
<1>6. output = Results
  BY <1>3, <1>5, FlattenNone
<1> DEFINE m == Len(order)
           n == Len(workItemResults)
           group(k) == [key |-> k, count |-> stats[k].count, sum |-> stats[k].sum]
<1>7. PICK T : /\ Results \in Seq(T) /\ Len(Results) = m + n
               /\ \A i \in 1 .. Len(Results) :
                     Results[i] = IF i <= m THEN group(order[i])
                                  ELSE [key |-> workItemResults[i - m], count |-> 0, sum |-> 0]
  BY <1>1, ResultsParts
<1>8. m \in Nat /\ n \in Nat /\ DOMAIN order = 1 .. m
  BY <1>1, LenProperties
<1>9. DOMAIN output = 1 .. m + n
  BY <1>6, <1>7, LenProperties
<1>10. \A k \in DOMAIN stats : stats[k].count \in Nat \ {0}
  BY <1>1 DEF StatsTyped
<1>11. \A i \in 1 .. m + n : /\ i <= m => output[i] = group(order[i])
                             /\ ~(i <= m) => output[i].count = 0
  <2> TAKE i \in 1 .. m + n
  <2>1. output[i] = IF i <= m THEN group(order[i])
                    ELSE [key |-> workItemResults[i - m], count |-> 0, sum |-> 0]
    BY <1>6, <1>7
  <2>2. CASE i <= m
    BY <2>1, <2>2
  <2>3. CASE ~(i <= m)
    BY <2>1, <2>3
  <2> QED
    BY <2>2, <2>3
<1>12. \A k : k \in DOMAIN stats <=> \E i \in 1 .. m : order[i] = k
  BY <1>1, <1>8 DEF ToSet
<1> HIDE DEF m, n
<1>13. ASSUME NEW r \in FileGroups
       PROVE  r \in Job!Results(stats)
  <2>1. PICK i \in 1 .. m + n : r = output[i]
    BY <1>9 DEF FileGroups, ToSet
  <2>2. r.count > 0
    BY DEF FileGroups
  <2>3. i <= m
    <3> SUFFICES ASSUME ~(i <= m) PROVE FALSE
      OBVIOUS
    <3>1. r.count = 0
      BY <1>11, <2>1
    <3> QED
      BY <2>2, <3>1
  <2>4. r = group(order[i]) /\ order[i] \in DOMAIN stats
    <3>1. i \in 1 .. m
      BY <1>8, <2>1, <2>3
    <3> QED
      BY <1>11, <1>12, <2>1, <2>3, <3>1
  <2> QED
    BY <2>4 DEF Job!Results
<1>14. ASSUME NEW r \in Job!Results(stats)
       PROVE  r \in FileGroups
  <2>1. PICK k \in DOMAIN stats : r = group(k)
    BY DEF Job!Results
  <2>2. PICK i \in 1 .. m : order[i] = k
    BY <1>12
  <2>3. i \in 1 .. m + n /\ i <= m
    BY <1>8
  <2>4. output[i] = r
    BY <1>11, <2>1, <2>2, <2>3
  <2>5. r.count > 0
    BY <1>10, <2>1
  <2> QED
    BY <1>9, <2>3, <2>4, <2>5 DEF FileGroups, ToSet
<1> QED
  BY <1>13, <1>14

LEMMA JobPublishes ==
    ASSUME JInv, Complete
    PROVE  Job!Publish /\ UNCHANGED stats
<1>1. /\ outcome = "running" /\ "sink" \in responsesEnded /\ outcome' = "complete"
      /\ UNCHANGED <<run, ingest, streams, pending, aggregator, output>>
  BY DEF Complete
<1>2. Todo = {} /\ FileGroups = Job!Results(stats)
  BY <1>1, NothingLeft, FileIsTotals DEF JInv, PInv
<1>3. Lines' = Lines /\ Todo' = Todo /\ stats' = stats
  BY <1>1 DEF Lines, Todo, Wanted, InFlight, run, ingest, streams, aggregator
<1>4. Published = {} /\ Published' = {FileGroups}
  BY <1>1 DEF Published, FileGroups
<1> QED
  BY <1>2, <1>3, <1>4 DEF Job!Publish, Lines, Todo, Published, FileGroups

(***************************************************************************)
(* Every step is one of the job's, or none.                                *)
(***************************************************************************)
LEMMA NothingPublished ==
    ASSUME Next, ~Complete
    PROVE  Published' = Published
  BY OnlyComplete DEF Published

\* The messages to and from the sink are none of the events under way.
LEMMA SameWork ==
    ASSUME MessageTypes, MessageTypes', UNCHANGED <<run, sequence, batch, pending, stats>>,
           \A s \in Receiver : requests'[s] = requests[s],
           \A s \in Stage : responses'[s] = responses[s],
           Published' = Published
    PROVE  UNCHANGED Job!jobVars
<1>1. Pieces' = Pieces
  BY DEF Pieces, PiecesOf, Receiver, Stage
<1>2. AllOf(Pieces') = AllOf(Pieces)
  BY <1>1
<1> QED
  BY <1>2, EventsStay

LEMMA SameStats ==
    ASSUME StatsTyped, UNCHANGED stats
    PROVE  StatsTyped'
  BY DEF StatsTyped

LEMMA IngestJob ==
    ASSUME JInv, MessageTypes', ReadLine \/ SendEvent \/ EndIngest, Published' = Published
    PROVE  UNCHANGED Job!jobVars /\ StatsTyped'
<1>1. MessageTypes /\ SendsSomething /\ StatsTyped
  BY DEF JInv, PInv, IInv
<1>2. UNCHANGED run /\ UNCHANGED stats
  BY DEF ReadLine, SendEvent, EndIngest, aggregator
<1>3. CASE ReadLine
  <2> DEFINE T == Pieces'
             S == Pieces
             n == sequence + 1
  <2>1. /\ sequence' = n /\ sequence < Wanted /\ n \in Nat
        /\ T[10] = Append(S[10], n) /\ \A i \in PieceNo : i # 10 => T[i] = S[i]
        /\ S \in [PieceNo -> Seq(Nat)]
    BY <1>1, <1>3, ReadLineTypes, PiecesType DEF ReadLine
  <2> HIDE DEF T, S, n
  <2>2. AllOf(T) = AllOf(S) \cup {n}
    BY <2>1, AllJoined
  <2>3. UNCHANGED Job!jobVars
    BY <1>1, <1>2, <2>1, <2>2, EventsStay DEF T, S, n
  <2> QED
    BY <1>1, <1>2, <2>3, SameStats
<1>4. CASE SendEvent
  <2> DEFINE T == Pieces'
  <2>1. \E x : Moves(Pieces, T, 9, x, x)
    BY <1>1, <1>4, SendEventMoves
  <2> HIDE DEF T
  <2>2. AllOf(T) = AllOf(Pieces)
    BY <2>1, AllMoved
  <2>3. sequence' = sequence
    BY <1>4 DEF SendEvent
  <2>4. UNCHANGED Job!jobVars
    BY <1>1, <1>2, <2>2, <2>3, EventsStay DEF T
  <2> QED
    BY <1>1, <1>2, <2>4, SameStats
<1>5. CASE EndIngest
  <2>1. UNCHANGED <<run, sequence, batch, pending, stats>> /\ UNCHANGED <<requests, responses>>
    BY <1>5 DEF EndIngest, aggregator
  <2>2. UNCHANGED Job!jobVars
    BY <1>1, <2>1, SameWork
  <2> QED
    BY <1>1, <1>2, <2>2, SameStats
<1> QED
  BY <1>3, <1>4, <1>5

LEMMA RelayJob ==
    ASSUME JInv, MessageTypes', NEW s \in Stage, RelayEvents(s) \/ RelayEnd(s),
           Published' = Published
    PROVE  UNCHANGED Job!jobVars /\ StatsTyped'
<1>1. MessageTypes /\ StatsTyped
  BY DEF JInv, PInv
<1>2. UNCHANGED run /\ UNCHANGED stats /\ sequence' = sequence
  BY DEF RelayEvents, RelayEnd, aggregator, ingest
<1> DEFINE T == Pieces'
<1>3. AllOf(T) = AllOf(Pieces)
  <2>1. CASE RelayEvents(s)
    <3>1. \E u : Relays(Pieces, u) /\ (u = T \/ Relays(u, T))
      BY <1>1, <2>1, RelayEventsMoves
    <3> HIDE DEF T
    <3>2. PICK u : Relays(Pieces, u) /\ (u = T \/ Relays(u, T))
      BY <3>1
    <3>3. AllOf(u) = AllOf(Pieces)
      BY <3>2, AllRelayed
    <3>4. AllOf(T) = AllOf(u)
      BY <3>2, AllRelayed
    <3> QED
      BY <3>3, <3>4
  <2>2. CASE RelayEnd(s)
    <3>1. Relays(Pieces, T)
      BY <1>1, <2>2, RelayEndMoves
    <3> HIDE DEF T
    <3> QED
      BY <3>1, AllRelayed
  <2> QED
    BY <2>1, <2>2
<1> HIDE DEF T
<1>4. UNCHANGED Job!jobVars
  BY <1>1, <1>2, <1>3, EventsStay DEF T
<1> QED
  BY <1>1, <1>2, <1>4, SameStats

LEMMA OtherJob ==
    ASSUME JInv, MessageTypes',
           \/ \E s \in {"parse", "rules"} : EndFilter(s)
           \/ EndAggregate \/ RelayResults \/ EndResults \/ WriteResult \/ CloseOutput
           \/ \E s \in Service : Crash(s) \/ StreamError(s)
           \/ Abandon,
           Published' = Published
    PROVE  UNCHANGED Job!jobVars /\ StatsTyped'
<1>1. MessageTypes /\ StatsTyped
  BY DEF JInv, PInv
<1>2. UNCHANGED <<run, sequence, batch, pending, stats>>
  BY DEF EndFilter, EndAggregate, RelayResults, EndResults, WriteResult, CloseOutput,
         Crash, StreamError, Abandon, ingest, aggregator
<1>3. /\ \A s \in Receiver : requests'[s] = requests[s]
      /\ \A s \in Stage : responses'[s] = responses[s]
  <2>1. /\ \A s \in Receiver : s \in Service /\ s # "sink"
        /\ \A s \in Stage : s \in Service /\ s # "aggregate"
        /\ requests = [s \in Service |-> requests[s]]
        /\ responses = [s \in Service |-> responses[s]]
    BY <1>1 DEF MessageTypes, Receiver, Stage, Service
  <2>2. CASE EndAggregate
    BY <2>1, <2>2 DEF EndAggregate
  <2>3. CASE RelayResults
    BY <2>1, <2>3 DEF RelayResults
  <2>4. CASE WriteResult
    BY <2>1, <2>4 DEF WriteResult
  <2>5. CASE \/ \E s \in {"parse", "rules"} : EndFilter(s)
             \/ EndResults \/ CloseOutput \/ Abandon
             \/ \E s \in Service : Crash(s) \/ StreamError(s)
    BY <2>5 DEF EndFilter, EndResults, CloseOutput, Abandon, Crash, StreamError, streams
  <2> QED
    BY <2>2, <2>3, <2>4, <2>5
<1>4. UNCHANGED Job!jobVars
  BY <1>1, <1>2, <1>3, SameWork
<1> QED
  BY <1>1, <1>2, <1>4, SameStats

LEMMA StepJob ==
    ASSUME JInv, [Next]_vars, MessageTypes'
    PROVE  [Job!JobNext]_(Job!jobVars) /\ StatsTyped'
<1>1. MessageTypes /\ StatsTyped
  BY DEF JInv, PInv
<1>2. CASE UNCHANGED vars
  <2>1. UNCHANGED <<run, sequence, batch, pending, stats>> /\ UNCHANGED <<requests, responses>>
    BY <1>2 DEF vars, run
  <2>2. Published' = Published
    BY <1>2 DEF vars, Published, FileGroups
  <2>3. UNCHANGED Job!jobVars
    BY <1>1, <2>1, <2>2, SameWork
  <2> QED
    BY <1>1, <2>1, <2>3, SameStats
<1>3. CASE Complete
  BY <1>1, <1>3, JobPublishes, SameStats DEF Job!JobNext
<1>4. ASSUME Next, ~Complete
      PROVE  [Job!JobNext]_(Job!jobVars) /\ StatsTyped'
  <2>1. Published' = Published
    BY <1>4, NothingPublished
  <2>2. CASE ReadLine \/ SendEvent \/ EndIngest
    BY <2>1, <2>2, IngestJob
  <2>3. ASSUME NEW s \in {"parse", "rules"}, Filter(s)
        PROVE  [Job!JobNext]_(Job!jobVars) /\ StatsTyped'
    <3>1. UNCHANGED stats
      BY <2>3 DEF Filter, aggregator
    <3> QED
      BY <1>1, <2>3, <3>1, FilterAccounts, SameStats
  <2>4. CASE Aggregate
    BY <2>4, AggregateAccounts
  <2>5. ASSUME NEW s \in Stage, RelayEvents(s) \/ RelayEnd(s)
        PROVE  [Job!JobNext]_(Job!jobVars) /\ StatsTyped'
    BY <2>1, <2>5, RelayJob
  <2>6. CASE \/ \E s \in {"parse", "rules"} : EndFilter(s)
             \/ EndAggregate \/ RelayResults \/ EndResults \/ WriteResult \/ CloseOutput
             \/ \E s \in Service : Crash(s) \/ StreamError(s)
             \/ Abandon
    BY <2>1, <2>6, OtherJob
  <2> QED
    BY <1>4, <2>2, <2>3, <2>4, <2>5, <2>6 DEF Next
<1> QED
  BY <1>2, <1>3, <1>4

LEMMA InitJob == Init => Job!JobInit
<1> SUFFICES ASSUME Init PROVE Job!JobInit
  OBVIOUS
<1>1. MessageTypes /\ AllOf(Pieces) \subseteq 1 .. sequence
  BY InitMessages
<1>2. /\ sequence = 0 /\ outcome = "running" /\ stats = [k \in {} |-> 0]
  BY DEF Init
<1>3. /\ Lines \in Seq(Line \cup {WorkItem}) /\ Len(Lines) = Wanted /\ Wanted \in Nat
  BY <1>1, LinesAre
<1>4. AllOf(Pieces) = {}
  BY <1>1, <1>2
<1>5. Todo = 1 .. Len(Lines)
  BY <1>1, <1>2, <1>3, <1>4, TodoPieces
<1>6. Published = {}
  BY <1>2 DEF Published
<1> QED
  BY <1>2, <1>3, <1>5, <1>6 DEF Job!JobInit, Lines, Todo, Published, FileGroups

LEMMA JInvHolds == Spec => []JInv
<1>1. Init => StatsTyped
  BY InitStats
<1>2. JInv /\ MessageTypes' /\ [Next]_vars => StatsTyped'
  BY StepJob
<1>3. PInv => MessageTypes
  BY DEF PInv
<1>4. IInv /\ PInv /\ RInv /\ StatsTyped <=> JInv
  BY DEF JInv
<1> QED
  BY RInvHolds, <1>1, <1>2, <1>3, <1>4, PTL DEF Spec

\* Batched or not, with whatever timing and crashes, the pipeline does the job
\* of the monolith: each line is accounted for once, and what a pipeline that
\* completes has written is the whole account.
THEOREM DoesTheJob == Spec => JobImplemented
<1>1. JInv /\ MessageTypes' /\ [Next]_vars => [Job!JobNext]_(Job!jobVars)
  BY StepJob
<1>2. JInv => MessageTypes
  BY DEF JInv, PInv
<1> QED
  BY InitJob, JInvHolds, <1>1, <1>2, PTL DEF Spec, JobImplemented, Job!JobSpec
=============================================================================
