----------------------- MODULE MonolithPipelineProofs -----------------------
(***************************************************************************)
(* Theorems about the threads of the monolith, for any number of parsers,  *)
(* any input and any queue capacity: no queue is closed while one of its   *)
(* producers may still push, no notification is lost, no event is lost or  *)
(* counted twice, the types are kept, and the pipeline implements          *)
(* AggregateJob.                                                           *)
(***************************************************************************)
EXTENDS MonolithPipeline, FiniteSetTheorems, TLAPS

Label == {"take", "give", "leave", "close", "done"}
Working == {"take", "give", "leave"}

\* The parsers that have not yet left.
Active == {p \in Parser : pc[p] \in Working}

\* active_parsers counts the parsers that have not left, a parser closes the
\* queue only when there are none, and the other producers are done when
\* theirs is closed.
Inv ==
    /\ pc \in [Thread -> Label] /\ closed \in [Queue -> BOOLEAN]
    /\ active_parsers = Cardinality(Active)
    /\ \A p \in Parser : pc[p] = "close" => Active = {}
    /\ closed["parsed"] => Active = {}
    /\ closed["raw"] => pc["reader"] = "done"
    /\ closed["enriched"] => pc["rules"] = "done"
    /\ closed["result"] => pc["aggregator"] = "done"

LEMMA Threads ==
    /\ {"reader", "rules", "aggregator", "writer"} \subseteq Thread /\ Parser \subseteq Thread
    /\ \A p \in Parser : p \notin {"reader", "rules", "aggregator", "writer"}
BY PipelineAssumption DEF Thread

LEMMA InitInv == Init => Inv
<1> SUFFICES ASSUME Init
             PROVE  Inv
  OBVIOUS
<1>1. pc = [t \in Thread |-> IF t = "reader" THEN "give" ELSE "take"]
  BY DEF Init
<1>2. Active = Parser
  BY <1>1, Threads DEF Active, Working
<1>3. pc \in [Thread -> Label]
  BY <1>1 DEF Label
<1>4. \A p \in Parser : pc[p] = "take"
  BY <1>1, Threads
<1>5. \A q \in Queue : closed[q] = FALSE
  BY DEF Init, QueueInit
<1>6. closed \in [Queue -> BOOLEAN]
  BY DEF Init, QueueInit
<1>7. active_parsers = Cardinality(Parser)
  BY DEF Init
<1> QED
  BY <1>2, <1>3, <1>4, <1>5, <1>6, <1>7, PipelineAssumption DEF Inv

-----------------------------------------------------------------------------
\* Queue calls other than close leave closed alone.
LEMMA CallsLeaveOpen ==
    ASSUME NEW q, NEW t, NEW x,
           \/ Push(q, t, x) \/ PushWait(q, t) \/ PushRefused(q, t)
           \/ Pop(q, t) \/ PopWait(q, t) \/ PopEnd(q, t)
    PROVE  closed' = closed
BY DEF Push, PushWait, PushRefused, Pop, PopWait, PopEnd, queueVars

\* A thread goes on within its work, or ends it: the parsers that have not
\* left remain, and nothing is closed.
LEMMA WorkInv ==
    ASSUME Inv, closed' = closed, active_parsers' = active_parsers, NEW t \in Thread,
           NEW label \in Label,
           \/ pc' = pc
           \/ /\ pc' = [pc EXCEPT ![t] = label] /\ pc[t] # "done"
              /\ t \in Parser => pc[t] \in Working /\ label \in Working
    PROVE  Inv'
<1>1. pc' \in [Thread -> Label]
  BY DEF Inv
<1>2. Active' = Active
  BY Threads DEF Inv, Active
<1>3. \A p \in Parser : pc'[p] = "close" => pc[p] = "close"
  BY Threads DEF Inv, Working
<1>4. \A u \in Thread : pc[u] = "done" => pc'[u] = "done"
  BY DEF Inv
<1> QED
  BY <1>1, <1>2, <1>3, <1>4, Threads DEF Inv

\* A thread that is no parser closes its queue and is done.
LEMMA CloseInv ==
    ASSUME Inv, active_parsers' = active_parsers, NEW t \in Thread, NEW q \in Queue,
           <<t, q>> \in {<<"reader", "raw">>, <<"rules", "enriched">>, <<"aggregator", "result">>},
           Close(q), Goto(t, "done")
    PROVE  Inv'
<1>1. pc' = [pc EXCEPT ![t] = "done"] /\ closed' = [closed EXCEPT ![q] = TRUE]
  BY DEF Close, Goto
<1>2. pc' \in [Thread -> Label] /\ closed' \in [Queue -> BOOLEAN]
  BY <1>1 DEF Inv, Label
<1>3. \A p \in Parser : pc'[p] = pc[p]
  BY <1>1, Threads DEF Inv
<1>4. Active' = Active
  BY <1>3 DEF Active
<1>5. \A u \in Thread : pc[u] = "done" => pc'[u] = "done"
  BY <1>1 DEF Inv
<1>6. pc'[t] = "done"
  BY <1>1 DEF Inv
<1>7. \A o \in Queue : o # q => closed'[o] = closed[o]
  BY <1>1 DEF Inv
<1> QED
  BY <1>2, <1>3, <1>4, <1>5, <1>6, <1>7, PipelineAssumption, Threads DEF Inv

LEMMA ParserLeavesInv ==
    ASSUME Inv, NEW p \in Parser, ParserLeaves(p)
    PROVE  Inv'
<1>1. /\ pc[p] = "leave" /\ active_parsers' = active_parsers - 1 /\ closed' = closed
      /\ pc' = [pc EXCEPT ![p] = IF active_parsers = 1 THEN "close" ELSE "done"]
  BY DEF ParserLeaves, Goto, queueVars
<1>2. pc' \in [Thread -> Label] /\ p \in Thread
  BY <1>1, Threads DEF Inv, Label
<1>3. Active' = Active \ {p} /\ p \in Active
  BY <1>1, <1>2, Threads DEF Inv, Active, Working
<1>4. IsFiniteSet(Active) /\ Cardinality(Active) \in Nat
  BY PipelineAssumption, FS_Subset, FS_CardinalityType DEF Active
<1>5. Cardinality(Active') = Cardinality(Active) - 1
  BY <1>3, <1>4, FS_RemoveElement
<1>6. active_parsers = 1 => Active' = {}
  <2>1. IsFiniteSet(Active')
    BY <1>3, <1>4, FS_RemoveElement
  <2> QED
    BY <1>5, <2>1, FS_EmptySet DEF Inv
<1>7. \A o \in Parser : pc'[o] = "close" => Active' = {}
  <2>1. ASSUME NEW o \in Parser, pc'[o] = "close"
        PROVE  Active' = {}
    <3>1. CASE o = p
      BY <1>1, <1>2, <1>6, <2>1, <3>1 DEF Inv
    <3>2. CASE o # p
      BY <1>1, <1>3, <2>1, <3>2, Threads DEF Inv
    <3> QED
      BY <3>1, <3>2
  <2> QED
    BY <2>1
<1>8. \A t \in {"reader", "rules", "aggregator"} : pc'[t] = pc[t]
  BY <1>1, Threads DEF Inv
<1>9. closed["parsed"] => Active' = {}
  BY <1>3 DEF Inv
<1> QED
  BY <1>1, <1>2, <1>5, <1>7, <1>8, <1>9 DEF Inv

LEMMA ParserClosesInv ==
    ASSUME Inv, NEW p \in Parser, ParserCloses(p)
    PROVE  Inv'
<1>1. /\ pc[p] = "close" /\ active_parsers' = active_parsers
      /\ pc' = [pc EXCEPT ![p] = "done"] /\ closed' = [closed EXCEPT !["parsed"] = TRUE]
  BY DEF ParserCloses, Close, Goto
<1>2. Active = {} /\ p \in Thread
  BY <1>1, Threads DEF Inv
<1>3. pc' \in [Thread -> Label] /\ closed' \in [Queue -> BOOLEAN]
  BY <1>1 DEF Inv, Label
<1>4. Active' = {}
  BY <1>1, <1>2, Threads DEF Inv, Active, Working
<1>5. \A t \in {"reader", "rules", "aggregator"} : pc'[t] = pc[t]
  BY <1>1, Threads DEF Inv
<1>6. \A o \in Queue : o # "parsed" => closed'[o] = closed[o]
  BY <1>1 DEF Inv
<1> QED
  BY <1>1, <1>2, <1>3, <1>4, <1>5, <1>6, PipelineAssumption DEF Inv

-----------------------------------------------------------------------------
LEMMA StepInv == Inv /\ [Next]_vars => Inv'
<1> SUFFICES ASSUME Inv, [Next]_vars
             PROVE  Inv'
  OBVIOUS
<1>1. CASE ReaderPushes
  <2>1. closed' = closed /\ active_parsers' = active_parsers /\ pc["reader"] = "give"
    BY <1>1, CallsLeaveOpen DEF ReaderPushes, Waits, localVars
  <2>2. pc' = pc \/ pc' = [pc EXCEPT !["reader"] = "close"]
    BY <1>1 DEF ReaderPushes, Waits, localVars, Goto
  <2> QED
    BY <2>1, <2>2, WorkInv, Threads DEF Label
<1>2. CASE ReaderEnds
  BY <1>2, CloseInv, PipelineAssumption, Threads DEF ReaderEnds
<1>3. ASSUME NEW p \in Parser, ParserTakes(p)
      PROVE  Inv'
  <2>1. closed' = closed /\ active_parsers' = active_parsers /\ pc[p] = "take"
    BY <1>3, CallsLeaveOpen DEF ParserTakes, Waits, localVars
  <2>2. pc' = pc \/ \E label \in {"give", "leave"} : pc' = [pc EXCEPT ![p] = label]
    BY <1>3 DEF ParserTakes, Waits, localVars, Goto
  <2> QED
    BY <2>1, <2>2, WorkInv, Threads DEF Label, Working
<1>4. ASSUME NEW p \in Parser, ParserGives(p)
      PROVE  Inv'
  <2>1. closed' = closed /\ active_parsers' = active_parsers /\ pc[p] = "give"
    BY <1>4, CallsLeaveOpen DEF ParserGives
  <2>2. pc' = pc \/ \E label \in {"take", "leave"} : pc' = [pc EXCEPT ![p] = label]
    BY <1>4 DEF ParserGives, Goto
  <2> QED
    BY <2>1, <2>2, WorkInv, Threads DEF Label, Working
<1>5. CASE RulesTakes \/ RulesGives
  <2>1. /\ closed' = closed /\ active_parsers' = active_parsers /\ pc["rules"] # "done"
    BY <1>5, CallsLeaveOpen DEF RulesTakes, RulesGives, Waits, localVars
  <2>2. pc' = pc \/ \E label \in {"take", "give", "close"} : pc' = [pc EXCEPT !["rules"] = label]
    BY <1>5 DEF RulesTakes, RulesGives, Waits, localVars, Goto
  <2> QED
    BY <2>1, <2>2, WorkInv, Threads DEF Label
<1>6. CASE RulesCloses
  BY <1>6, CloseInv, PipelineAssumption, Threads DEF RulesCloses
<1>7. CASE AggregatorTakes \/ AggregatorGives
  <2>1. /\ closed' = closed /\ active_parsers' = active_parsers /\ pc["aggregator"] # "done"
    BY <1>7, CallsLeaveOpen DEF AggregatorTakes, AggregatorGives, Waits, localVars
  <2>2. \/ pc' = pc
        \/ \E label \in {"give", "close"} : pc' = [pc EXCEPT !["aggregator"] = label]
    BY <1>7 DEF AggregatorTakes, AggregatorGives, Waits, localVars, Goto
  <2> QED
    BY <2>1, <2>2, WorkInv, Threads DEF Label
<1>8. CASE AggregatorCloses
  BY <1>8, CloseInv, PipelineAssumption, Threads DEF AggregatorCloses
<1>9. CASE WriterTakes \/ WriterFails
  <2>1. /\ closed' = closed /\ active_parsers' = active_parsers /\ pc["writer"] = "take"
    BY <1>9, CallsLeaveOpen DEF WriterTakes, WriterFails, Waits, localVars, queueVars
  <2>2. pc' = pc \/ pc' = [pc EXCEPT !["writer"] = "done"]
    BY <1>9 DEF WriterTakes, WriterFails, Waits, localVars, Goto
  <2> QED
    BY <2>1, <2>2, WorkInv, Threads DEF Label
<1>10. CASE Finish \/ UNCHANGED vars
  <2>1. pc' = pc /\ closed' = closed /\ active_parsers' = active_parsers
    BY <1>10 DEF Finish, vars, queueVars
  <2> QED
    BY <2>1, WorkInv, Threads DEF Label
<1>11. ASSUME NEW p \in Parser, ParserStep(p)
       PROVE  Inv'
  BY <1>3, <1>4, <1>11, ParserLeavesInv, ParserClosesInv DEF ParserStep
<1> QED
  BY <1>1, <1>2, <1>5, <1>6, <1>7, <1>8, <1>9, <1>10, <1>11
     DEF Next, ReaderStep, RulesStep, AggregatorStep, WriterStep

\* No queue is closed before the last push to it, so that no push drops an
\* event: for the queue the parsers share this rests on active_parsers.
THEOREM ClosedLast == Spec => []ClosedAfterLastPush
<1>1. Inv => ClosedAfterLastPush
  <2> SUFFICES ASSUME Inv, NEW q \in Queue, closed[q], NEW t \in Producers[q]
               PROVE  pc[t] \notin {"take", "give", "leave"}
    BY DEF ClosedAfterLastPush
  <2>1. CASE q = "parsed"
    BY <2>1 DEF Inv, Producers, Active, Working
  <2>2. CASE q # "parsed"
    BY <2>2, PipelineAssumption DEF Inv, Producers
  <2> QED
    BY <2>1, <2>2
<1> QED
  BY <1>1, InitInv, StepInv, PTL DEF Spec

-----------------------------------------------------------------------------
\* Notifications.

\* Among the threads of P that are about to call, those in W sleep, and there
\* is one awake for each of n items, or places.
Woken(P, W, n) == W \subseteq P /\ IsFiniteSet(P) /\ (W # {} => Cardinality(P \ W) >= n)

\* One item more, and one sleeper is notified.
LEMMA NotifiedWoken ==
    ASSUME NEW P, NEW W, NEW n \in Int, Woken(P, W, n), NEW Q, IsFiniteSet(Q), P \subseteq Q,
           NEW V, (W = {} /\ V = {}) \/ (\E t \in W : V = W \ {t})
    PROVE  Woken(Q, V, n + 1)
<1>1. CASE V = {}
  BY <1>1 DEF Woken
<1>2. CASE V # {}
  <2>1. PICK t \in W : V = W \ {t}
    BY <1>2
  <2>2. IsFiniteSet(P \ W) /\ Cardinality(P \ W) \in Nat /\ Cardinality(P \ W) >= n
    BY <2>1, FS_Difference, FS_CardinalityType DEF Woken
  <2>3. /\ IsFiniteSet((P \ W) \cup {t})
        /\ Cardinality((P \ W) \cup {t}) = Cardinality(P \ W) + 1
    BY <2>1, <2>2, FS_AddElement
  <2>4. (P \ W) \cup {t} \in SUBSET (Q \ V)
    BY <2>1 DEF Woken
  <2>5. IsFiniteSet(Q \ V) /\ Cardinality(Q \ V) \in Nat
    BY FS_Difference, FS_CardinalityType
  <2>6. Cardinality((P \ W) \cup {t}) <= Cardinality(Q \ V)
    BY <2>4, <2>5, FS_Subset
  <2> QED
    BY <2>2, <2>3, <2>5, <2>6, <2>1 DEF Woken
<1> QED
  BY <1>1, <1>2

\* One item fewer, and the one that took it may have gone.
LEMMA TakenWoken ==
    ASSUME NEW P, NEW W, NEW n \in Int, Woken(P, W, n), NEW Q, IsFiniteSet(Q),
           NEW t \in P \ W, P \ {t} \subseteq Q
    PROVE  Woken(Q, W, n - 1)
<1>1. IsFiniteSet(P \ W) /\ Cardinality(P \ W) \in Nat
  BY FS_Difference, FS_CardinalityType DEF Woken
<1>2. Cardinality((P \ W) \ {t}) = Cardinality(P \ W) - 1
  BY <1>1, FS_RemoveElement
<1>3. (P \ W) \ {t} \in SUBSET (Q \ W)
  OBVIOUS
<1>4. IsFiniteSet(Q \ W) /\ Cardinality(Q \ W) \in Nat
  BY FS_Difference, FS_CardinalityType
<1>5. Cardinality((P \ W) \ {t}) <= Cardinality(Q \ W)
  BY <1>3, <1>4, FS_Subset
<1>6. W \subseteq Q
  BY DEF Woken
<1> QED
  BY <1>1, <1>2, <1>4, <1>5, <1>6 DEF Woken

\* Nobody has to be awake for no item.
LEMMA NothingWoken ==
    ASSUME NEW P, IsFiniteSet(P), NEW W \in SUBSET P, NEW n \in Int, n <= 0 \/ W = {}
    PROVE  Woken(P, W, n)
<1>1. IsFiniteSet(P \ W) /\ Cardinality(P \ W) \in Nat
  BY FS_Difference, FS_CardinalityType
<1> QED
  BY <1>1 DEF Woken

\* More threads are about to call.
LEMMA MoreWoken ==
    ASSUME NEW P, NEW W, NEW n \in Int, Woken(P, W, n), NEW Q, IsFiniteSet(Q), P \subseteq Q
    PROVE  Woken(Q, W, n)
<1>1. /\ IsFiniteSet(P \ W) /\ Cardinality(P \ W) \in Nat
      /\ IsFiniteSet(Q \ W) /\ Cardinality(Q \ W) \in Nat
  BY FS_Difference, FS_CardinalityType DEF Woken
<1>2. P \ W \in SUBSET (Q \ W)
  OBVIOUS
<1>3. Cardinality(P \ W) <= Cardinality(Q \ W)
  BY <1>1, <1>2, FS_Subset
<1> QED
  BY <1>1, <1>3 DEF Woken

-----------------------------------------------------------------------------
\* Sequences.

Distinct(s) == \A m, n \in DOMAIN s : m # n => s[m] # s[n]

LEMMA AppendItem ==
    ASSUME NEW S, NEW s \in Seq(S), NEW x \in S
    PROVE  /\ Append(s, x) \in Seq(S) /\ Len(Append(s, x)) = Len(s) + 1
           /\ ToSet(Append(s, x)) = ToSet(s) \cup {x}
           /\ Distinct(s) /\ x \notin ToSet(s) => Distinct(Append(s, x))
<1>1. Append(s, x) \in Seq(S) /\ Len(Append(s, x)) = Len(s) + 1 /\ Len(s) \in Nat
  OBVIOUS
<1>2. DOMAIN s = 1 .. Len(s) /\ DOMAIN Append(s, x) = 1 .. Len(s) + 1
  BY <1>1
<1>3. /\ \A n \in 1 .. Len(s) : Append(s, x)[n] = s[n]
      /\ Append(s, x)[Len(s) + 1] = x
  BY <1>1
<1>4. ToSet(Append(s, x)) = ToSet(s) \cup {x}
  BY <1>1, <1>2, <1>3 DEF ToSet
<1>5. Distinct(s) /\ x \notin ToSet(s) => Distinct(Append(s, x))
  BY <1>1, <1>2, <1>3 DEF Distinct, ToSet
<1> QED
  BY <1>1, <1>4, <1>5

LEMMA TailItem ==
    ASSUME NEW S, NEW s \in Seq(S), s # <<>>
    PROVE  /\ Tail(s) \in Seq(S) /\ Len(s) > 0 /\ Len(Tail(s)) = Len(s) - 1
           /\ Head(s) \in S /\ Head(s) \in ToSet(s)
           /\ ToSet(s) = ToSet(Tail(s)) \cup {Head(s)}
           /\ Distinct(s) => Distinct(Tail(s)) /\ Head(s) \notin ToSet(Tail(s))
<1>1. /\ Len(s) \in Nat /\ Len(s) > 0 /\ Tail(s) \in Seq(S)
      /\ Len(Tail(s)) = Len(s) - 1 /\ Head(s) = s[1]
  OBVIOUS
<1>2. DOMAIN s = 1 .. Len(s) /\ DOMAIN Tail(s) = 1 .. Len(s) - 1
  BY <1>1
<1>3. \A n \in 1 .. Len(s) - 1 : Tail(s)[n] = s[n + 1]
  BY <1>1
<1>4. Head(s) \in S /\ Head(s) \in ToSet(s)
  BY <1>1, <1>2 DEF ToSet
<1>5. \A n \in 2 .. Len(s) : n - 1 \in 1 .. Len(s) - 1 /\ s[n] = Tail(s)[n - 1]
  BY <1>1, <1>3
<1>6. ToSet(s) = ToSet(Tail(s)) \cup {Head(s)}
  <2>1. ToSet(s) \subseteq ToSet(Tail(s)) \cup {Head(s)}
    <3> SUFFICES ASSUME NEW n \in 1 .. Len(s)
                 PROVE  s[n] \in ToSet(Tail(s)) \cup {Head(s)}
      BY <1>2 DEF ToSet
    <3>1. CASE n = 1
      BY <3>1, <1>1
    <3>2. CASE n \in 2 .. Len(s)
      BY <3>2, <1>2, <1>5 DEF ToSet
    <3> QED
      BY <3>1, <3>2, <1>1
  <2>2. ToSet(Tail(s)) \subseteq ToSet(s)
    BY <1>1, <1>2, <1>3 DEF ToSet
  <2> QED
    BY <2>1, <2>2, <1>4
<1>7. ASSUME Distinct(s)
      PROVE  Distinct(Tail(s)) /\ Head(s) \notin ToSet(Tail(s))
  BY <1>1, <1>2, <1>3, <1>7 DEF Distinct, ToSet
<1> QED
  BY <1>1, <1>4, <1>6, <1>7

-----------------------------------------------------------------------------
\* Types.

Result == [key : SupportedType, count : Nat, sum : Int]
Item == Nat \cup Result

\* What a queue may hold: positions of lines, further down those of lines
\* that pass validation and then the rules, and results at the end.
Events ==
    [raw |-> 1 .. sequence,
     parsed |-> {i \in 1 .. sequence : ParseOK(input[i])},
     enriched |-> {i \in 1 .. sequence : Counts(input[i])},
     result |-> Result]

QueuesTyped ==
    /\ items \in [Queue -> Seq(Item)]
    /\ emptyWait \in [Queue -> SUBSET Thread] /\ fullWait \in [Queue -> SUBSET Thread]
    /\ \A q \in Queue : ToSet(items[q]) \subseteq Events[q]
    /\ \A q \in Queue : Capacity # 0 => Len(items[q]) <= Capacity

LocalsTyped ==
    /\ input \in Seq(Line) /\ inputOpens \in BOOLEAN /\ outputOpens \in BOOLEAN
    /\ held \in [Thread -> Nat] /\ sequence \in 0 .. Len(input)
    /\ \A p \in Parser : pc[p] = "give" => held[p] \in Events["parsed"]
    /\ pc["rules"] = "give" => held["rules"] \in Events["enriched"]
    /\ pc["aggregator"] = "give" => held["aggregator"] \in 1 .. Len(order) + 1
    /\ order \in Seq(SupportedType) /\ stats \in [ToSet(order) -> [count : Nat, sum : Int]]
    /\ output \in Seq(Item) /\ metrics \in [Counters -> Nat]

Typed == QueuesTyped /\ LocalsTyped

LEMMA InitTyped == Init => Typed
<1> SUFFICES ASSUME Init
             PROVE  Typed
  OBVIOUS
<1>1. QueuesTyped
  <2>1. /\ items = [q \in Queue |-> <<>>]
        /\ emptyWait = [q \in Queue |-> {}] /\ fullWait = [q \in Queue |-> {}]
    BY DEF Init, QueueInit
  <2>2. <<>> \in Seq(Item) /\ Len(<<>>) = 0 /\ ToSet(<<>>) = {}
    BY DEF ToSet
  <2> QED
    BY <2>1, <2>2, CapacityAssumption DEF QueuesTyped
<1>2. input \in Seq(Line) /\ Len(input) \in Nat
  <2>1. PICK m \in 0 .. MaxLines : input \in [1 .. m -> Line]
    BY DEF Init, SeqOf
  <2> QED
    BY <2>1, PipelineAssumption
<1>3. /\ \A p \in Parser : pc[p] = "take"
      /\ pc["rules"] = "take" /\ pc["aggregator"] = "take"
  BY Threads DEF Init
<1>4. held \in [Thread -> Nat] /\ sequence \in 0 .. Len(input)
  BY <1>2 DEF Init
<1>5. /\ order \in Seq(SupportedType) /\ stats \in [ToSet(order) -> [count : Nat, sum : Int]]
      /\ output \in Seq(Item)
  BY DEF Init, ToSet
<1>6. metrics \in [Counters -> Nat]
  BY DEF Init, Counters
<1>7. inputOpens \in BOOLEAN /\ outputOpens \in BOOLEAN
  BY DEF Init
<1> QED
  BY <1>1, <1>2, <1>3, <1>4, <1>5, <1>6, <1>7 DEF Typed, LocalsTyped

\* What a push and a pop do to their queue; the others keep what they have.
LEMMA PushFacts ==
    ASSUME QueuesTyped, NEW q \in Queue, NEW t, NEW x \in Item, Push(q, t, x)
    PROVE  /\ items' \in [Queue -> Seq(Item)] /\ emptyWait' \in [Queue -> SUBSET Thread]
           /\ fullWait' = fullWait /\ closed' = closed
           /\ items'[q] = Append(items[q], x) /\ Len(items'[q]) = Len(items[q]) + 1
           /\ \/ emptyWait[q] = {} /\ emptyWait'[q] = {}
              \/ \E u \in emptyWait[q] : emptyWait'[q] = emptyWait[q] \ {u}
           /\ \A o \in Queue \ {q} : items'[o] = items[o] /\ emptyWait'[o] = emptyWait[o]
           /\ ~closed[q] /\ (Capacity = 0 \/ Len(items[q]) < Capacity)
           /\ t \notin emptyWait[q] \cup fullWait[q]
<1>1. items' = [items EXCEPT ![q] = Append(@, x)] /\ items[q] \in Seq(Item)
  BY DEF Push, QueuesTyped
<1>2. items' \in [Queue -> Seq(Item)] /\ items'[q] = Append(items[q], x)
  BY <1>1, AppendItem DEF QueuesTyped
<1>3. \A o \in Queue \ {q} : items'[o] = items[o]
  BY <1>1 DEF QueuesTyped
<1>4. \/ emptyWait[q] = {} /\ emptyWait' = emptyWait
      \/ \E u \in emptyWait[q] : emptyWait' = [emptyWait EXCEPT ![q] = @ \ {u}]
  BY DEF Push, NotifyOne
<1>5. /\ emptyWait' \in [Queue -> SUBSET Thread]
      /\ \/ emptyWait[q] = {} /\ emptyWait'[q] = {}
         \/ \E u \in emptyWait[q] : emptyWait'[q] = emptyWait[q] \ {u}
      /\ \A o \in Queue \ {q} : emptyWait'[o] = emptyWait[o]
  <2>1. CASE emptyWait[q] = {} /\ emptyWait' = emptyWait
    BY <2>1 DEF QueuesTyped
  <2>2. ASSUME NEW u \in emptyWait[q], emptyWait' = [emptyWait EXCEPT ![q] = @ \ {u}]
        PROVE  /\ emptyWait' \in [Queue -> SUBSET Thread]
               /\ emptyWait'[q] = emptyWait[q] \ {u}
               /\ \A o \in Queue \ {q} : emptyWait'[o] = emptyWait[o]
    BY <2>2 DEF QueuesTyped
  <2> QED
    BY <1>4, <2>1, <2>2
<1>6. Len(items'[q]) = Len(items[q]) + 1
  BY <1>1, <1>2, AppendItem
<1> QED
  BY <1>2, <1>3, <1>5, <1>6 DEF Push, HasRoom, Awake

LEMMA PopFacts ==
    ASSUME QueuesTyped, NEW q \in Queue, NEW t, Pop(q, t)
    PROVE  /\ items' \in [Queue -> Seq(Item)] /\ fullWait' \in [Queue -> SUBSET Thread]
           /\ emptyWait' = emptyWait /\ closed' = closed
           /\ items[q] \in Seq(Item) /\ items[q] # <<>>
           /\ items'[q] = Tail(items[q]) /\ Len(items'[q]) = Len(items[q]) - 1
           /\ Head(items[q]) \in Events[q]
           /\ \/ fullWait[q] = {} /\ fullWait'[q] = {}
              \/ \E u \in fullWait[q] : fullWait'[q] = fullWait[q] \ {u}
           /\ \A o \in Queue \ {q} : items'[o] = items[o] /\ fullWait'[o] = fullWait[o]
           /\ t \notin emptyWait[q] \cup fullWait[q]
<1>1. /\ items' = [items EXCEPT ![q] = Tail(@)]
      /\ items[q] \in Seq(Item) /\ items[q] # <<>>
  BY DEF Pop, QueuesTyped
<1>2. /\ items' \in [Queue -> Seq(Item)] /\ items'[q] = Tail(items[q])
      /\ Len(items'[q]) = Len(items[q]) - 1
  BY <1>1, TailItem DEF QueuesTyped
<1>3. \A o \in Queue \ {q} : items'[o] = items[o]
  BY <1>1 DEF QueuesTyped
<1>4. \/ fullWait[q] = {} /\ fullWait' = fullWait
      \/ \E u \in fullWait[q] : fullWait' = [fullWait EXCEPT ![q] = @ \ {u}]
  BY DEF Pop, NotifyOne
<1>5. /\ fullWait' \in [Queue -> SUBSET Thread]
      /\ \/ fullWait[q] = {} /\ fullWait'[q] = {}
         \/ \E u \in fullWait[q] : fullWait'[q] = fullWait[q] \ {u}
      /\ \A o \in Queue \ {q} : fullWait'[o] = fullWait[o]
  <2>1. CASE fullWait[q] = {} /\ fullWait' = fullWait
    BY <2>1 DEF QueuesTyped
  <2>2. ASSUME NEW u \in fullWait[q], fullWait' = [fullWait EXCEPT ![q] = @ \ {u}]
        PROVE  /\ fullWait' \in [Queue -> SUBSET Thread]
               /\ fullWait'[q] = fullWait[q] \ {u}
               /\ \A o \in Queue \ {q} : fullWait'[o] = fullWait[o]
    BY <2>2 DEF QueuesTyped
  <2> QED
    BY <1>4, <2>1, <2>2
<1>6. Head(items[q]) \in Events[q]
  BY <1>1, TailItem DEF QueuesTyped
<1> QED
  BY <1>1, <1>2, <1>3, <1>5, <1>6 DEF Pop, Awake

\* No event goes the wrong way: the queues stay typed under every call.
LEMMA PushTyped ==
    ASSUME QueuesTyped, NEW q \in Queue, NEW t, NEW x \in Item, Push(q, t, x),
           x \in Events'[q], \A o \in Queue : Events[o] \subseteq Events'[o]
    PROVE  QueuesTyped'
<1>1. ToSet(items'[q]) = ToSet(items[q]) \cup {x}
  <2>1. items[q] \in Seq(Item) /\ items'[q] = Append(items[q], x)
    BY PushFacts DEF QueuesTyped
  <2> QED
    BY <2>1, AppendItem
<1>2. \A o \in Queue : ToSet(items'[o]) \subseteq Events'[o]
  BY <1>1, PushFacts DEF QueuesTyped
<1>3. ASSUME NEW o \in Queue, Capacity # 0
      PROVE  Len(items'[o]) <= Capacity
  <2>1. CASE o = q
    <3>1. Len(items[q]) \in Nat
      BY DEF QueuesTyped
    <3> QED
      BY <1>3, <2>1, <3>1, PushFacts, CapacityAssumption
  <2>2. CASE o # q
    BY <1>3, <2>2, PushFacts DEF QueuesTyped
  <2> QED
    BY <2>1, <2>2
<1> QED
  BY <1>2, <1>3, PushFacts DEF QueuesTyped

LEMMA PopTyped ==
    ASSUME QueuesTyped, NEW q \in Queue, NEW t, Pop(q, t), Events' = Events
    PROVE  QueuesTyped'
<1>1. ToSet(items[q]) = ToSet(items'[q]) \cup {Head(items[q])}
  BY PopFacts, TailItem
<1>2. \A o \in Queue : ToSet(items'[o]) \subseteq Events'[o]
  BY <1>1, PopFacts DEF QueuesTyped
<1>3. ASSUME NEW o \in Queue, Capacity # 0
      PROVE  Len(items'[o]) <= Capacity
  <2>1. CASE o = q
    <3>1. Len(items[q]) \in Nat
      BY DEF QueuesTyped
    <3> QED
      BY <1>3, <2>1, <3>1, PopFacts, CapacityAssumption DEF QueuesTyped
  <2>2. CASE o # q
    BY <1>3, <2>2, PopFacts DEF QueuesTyped
  <2> QED
    BY <2>1, <2>2
<1> QED
  BY <1>2, <1>3, PopFacts DEF QueuesTyped

LEMMA OtherCallTyped ==
    ASSUME QueuesTyped, NEW q \in Queue, NEW t \in Thread, Events' = Events,
           \/ PushWait(q, t) \/ PushRefused(q, t) \/ PopWait(q, t) \/ PopEnd(q, t)
           \/ Close(q) \/ UNCHANGED queueVars
    PROVE  QueuesTyped'
<1>1. items' = items
  BY DEF PushWait, PushRefused, PopWait, PopEnd, Close, queueVars
<1>2. emptyWait' \in [Queue -> SUBSET Thread] /\ fullWait' \in [Queue -> SUBSET Thread]
  BY DEF PushWait, PushRefused, PopWait, PopEnd, Close, queueVars, QueuesTyped
<1> QED
  BY <1>1, <1>2 DEF QueuesTyped

LEMMA EventsKept ==
    ASSUME sequence' = sequence, UNCHANGED files
    PROVE  Events' = Events
BY DEF Events, files

\* The steps that give no thread an event or result to push.
LEMMA LocalsKept ==
    ASSUME LocalsTyped, pc \in [Thread -> Label], NEW t \in Thread, NEW label \in Label \ {"give"},
           pc' = pc \/ pc' = [pc EXCEPT ![t] = label],
           UNCHANGED <<held, order, stats>>, UNCHANGED files,
           sequence' \in sequence .. Len(input), output' \in Seq(Item),
           metrics' \in [Counters -> Nat]
    PROVE  LocalsTyped'
<1>1. \A u \in Thread : pc'[u] = "give" => pc[u] = "give"
  OBVIOUS
<1>2. input' = input /\ inputOpens' = inputOpens /\ outputOpens' = outputOpens
  BY DEF files
<1>3. Events["parsed"] \subseteq Events'["parsed"] /\ Events["enriched"] \subseteq Events'["enriched"]
  BY <1>2 DEF Events, LocalsTyped
<1>4. sequence' \in 0 .. Len(input)
  BY DEF LocalsTyped
<1> QED
  BY <1>1, <1>2, <1>3, <1>4, Threads DEF LocalsTyped

LEMMA Counted ==
    ASSUME LocalsTyped, NEW c \in Counters, Count(c)
    PROVE  /\ metrics' \in [Counters -> Nat] /\ metrics'[c] = metrics[c] + 1
           /\ \A d \in Counters \ {c} : metrics'[d] = metrics[d]
BY DEF LocalsTyped, Count

LEMMA EventsAreItems ==
    ASSUME LocalsTyped, NEW q \in Queue
    PROVE  Events[q] \subseteq Item
BY PipelineAssumption DEF LocalsTyped, Events, Item

\* What the aggregator makes of a line that counts.
LEMMA AddTyped ==
    ASSUME LocalsTyped, NEW i \in Events["enriched"]
    PROVE  /\ Key(input[i]) \in SupportedType
           /\ Job!Add(stats, input[i]) \in
                [ToSet(order) \cup {Key(input[i])} -> [count : Nat, sum : Int]]
<1>1. i \in DOMAIN input /\ input[i] \in Line /\ Counts(input[i])
  BY DEF Events, LocalsTyped
<1>2. Key(input[i]) \in SupportedType /\ Value(input[i]) \in Int
  BY <1>1, ValueAssumption DEF Counts, ParseOK, Key
<1>3. DOMAIN stats = ToSet(order)
  BY DEF LocalsTyped
<1> DEFINE k == Key(input[i])
           old == IF k \in DOMAIN stats THEN stats[k] ELSE [count |-> 0, sum |-> 0]
<1>4. old \in [count : Nat, sum : Int]
  BY <1>3 DEF LocalsTyped
<1>5. [count |-> old.count + 1, sum |-> old.sum + Value(input[i])] \in [count : Nat, sum : Int]
  BY <1>2, <1>4
<1>6. Job!Add(stats, input[i]) =
        [j \in DOMAIN stats \cup {k} |->
            IF j = k THEN [count |-> old.count + 1, sum |-> old.sum + Value(input[i])]
            ELSE stats[j]]
  BY DEF Job!Add
<1> QED
  BY <1>2, <1>3, <1>5, <1>6 DEF LocalsTyped

LEMMA NewKeyFirst ==
    ASSUME NEW S, NEW s \in Seq(S), NEW k \in S
    PROVE  <<k>> \o s \in Seq(S) /\ ToSet(<<k>> \o s) = ToSet(s) \cup {k}
<1>1. <<k>> \o s \in Seq(S) /\ Len(<<k>> \o s) = Len(s) + 1 /\ Len(s) \in Nat
  OBVIOUS
<1>2. (<<k>> \o s)[1] = k /\ \A n \in 1 .. Len(s) : (<<k>> \o s)[n + 1] = s[n]
  BY <1>1
<1>3. DOMAIN s = 1 .. Len(s) /\ DOMAIN (<<k>> \o s) = 1 .. Len(s) + 1
  BY <1>1
<1>4. \A n \in 2 .. Len(s) + 1 : n - 1 \in 1 .. Len(s) /\ (<<k>> \o s)[n] = s[n - 1]
  BY <1>1, <1>2
<1>5. ToSet(<<k>> \o s) \subseteq ToSet(s) \cup {k}
  <2> SUFFICES ASSUME NEW n \in 1 .. Len(s) + 1
               PROVE  (<<k>> \o s)[n] \in ToSet(s) \cup {k}
    BY <1>3 DEF ToSet
  <2>1. n = 1 \/ n \in 2 .. Len(s) + 1
    BY <1>1
  <2> QED
    BY <1>2, <1>3, <1>4, <2>1 DEF ToSet
<1>6. ToSet(s) \cup {k} \subseteq ToSet(<<k>> \o s)
  <2>1. \A n \in 1 .. Len(s) : n + 1 \in DOMAIN (<<k>> \o s)
    BY <1>1, <1>3
  <2>2. k \in ToSet(<<k>> \o s)
    BY <1>1, <1>2, <1>3 DEF ToSet
  <2>3. ASSUME NEW n \in 1 .. Len(s)
        PROVE  s[n] \in ToSet(<<k>> \o s)
    BY <1>2, <2>1 DEF ToSet
  <2> QED
    BY <1>3, <2>2, <2>3 DEF ToSet
<1> QED
  BY <1>1, <1>5, <1>6

\* A thread about to push holds what may be pushed.
LEMMA StepTyped == Inv /\ Typed /\ [Next]_vars => Typed'
<1> SUFFICES ASSUME Inv, Typed, [Next]_vars
             PROVE  Typed'
  OBVIOUS
<1> USE DEF Typed
<1>0. /\ pc \in [Thread -> Label] /\ output \in Seq(Item) /\ metrics \in [Counters -> Nat]
      /\ sequence \in Nat /\ Len(input) \in Nat /\ sequence \in sequence .. Len(input)
      /\ LocalsTyped /\ {"take", "close", "done"} \subseteq Label \ {"give"}
  BY DEF Inv, LocalsTyped, Label
<1>1. CASE ReaderPushes
  <2>1. CASE Push("raw", "reader", sequence + 1) /\ sequence' = sequence + 1
    <3>1. UNCHANGED files /\ sequence < Len(input)
      BY <1>1 DEF ReaderPushes
    <3>2. \A o \in Queue : Events[o] \subseteq Events'[o]
      BY <1>0, <2>1, <3>1, PipelineAssumption DEF Events, files
    <3>3. sequence + 1 \in Events'["raw"] /\ sequence + 1 \in Item
      BY <1>0, <2>1, <3>1 DEF Events, Item
    <3>4. QueuesTyped'
      BY <2>1, <3>2, <3>3, PushTyped, PipelineAssumption
    <3>5. /\ UNCHANGED <<held, order, stats, output, pc>>
          /\ Count("read") \/ metrics' = metrics
      BY <1>1, <2>1 DEF ReaderPushes, Waits, localVars, Push, PushWait, PushRefused
    <3>6. metrics' \in [Counters -> Nat]
      BY <1>0, <3>5, Counted DEF Counters
    <3>7. sequence' \in sequence .. Len(input)
      BY <1>0, <2>1, <3>1
    <3> QED
      BY <1>0, <3>1, <3>4, <3>5, <3>6, <3>7, LocalsKept, Threads
  <2>2. CASE \/ Waits(PushWait("raw", "reader"))
             \/ /\ PushRefused("raw", "reader") /\ Goto("reader", "close")
                /\ UNCHANGED <<held, sequence, stats, order, output, metrics>>
    <3>1. /\ UNCHANGED files /\ UNCHANGED <<held, sequence, stats, order, output, metrics>>
          /\ pc' = pc \/ pc' = [pc EXCEPT !["reader"] = "close"]
      BY <1>1, <2>2 DEF ReaderPushes, Waits, localVars, Goto
    <3>2. QueuesTyped'
      BY <2>2, <3>1, EventsKept, OtherCallTyped, PipelineAssumption, Threads DEF Waits
    <3> QED
      BY <1>0, <3>1, <3>2, LocalsKept, Threads
  <2> QED
    BY <1>1, <2>1, <2>2 DEF ReaderPushes
<1>2. ASSUME NEW t \in Thread, NEW q \in Queue, NEW label \in Label \ {"give"},
             UNCHANGED files, UNCHANGED <<held, sequence, stats, order, output, metrics>>,
             pc' = pc \/ pc' = [pc EXCEPT ![t] = label],
             \/ PushWait(q, t) \/ PushRefused(q, t) \/ PopWait(q, t) \/ PopEnd(q, t)
             \/ Close(q) \/ UNCHANGED queueVars
      PROVE  Typed'
  BY <1>0, <1>2, EventsKept, OtherCallTyped, LocalsKept
<1>3. ASSUME NEW t \in Thread, NEW q \in Queue, NEW label \in Label \ {"give"}, NEW x \in Item,
             UNCHANGED files, UNCHANGED <<held, sequence, stats, order, output, metrics>>,
             pc' = pc \/ pc' = [pc EXCEPT ![t] = label], Push(q, t, x), x \in Events[q]
      PROVE  Typed'
  BY <1>0, <1>3, EventsKept, PushTyped, LocalsKept
<1>4. CASE ReaderEnds
  <2>1. /\ UNCHANGED files /\ UNCHANGED <<held, sequence, stats, order, output, metrics>>
        /\ pc' = [pc EXCEPT !["reader"] = "done"] /\ Close("raw")
    BY <1>4 DEF ReaderEnds, Goto
  <2> QED
    BY <1>2, <2>1, Threads, PipelineAssumption DEF Label
<1>5. ASSUME NEW p \in Parser, ParserTakes(p)
      PROVE  Typed'
  <2>1. CASE Pop("raw", p)
    <3> DEFINE i == Head(items["raw"])
    <3>1. /\ UNCHANGED <<sequence, stats, order, output>> /\ UNCHANGED files
          /\ \/ /\ ParseOK(input[i]) /\ held' = [held EXCEPT ![p] = i]
                /\ pc' = [pc EXCEPT ![p] = "give"] /\ Count("parsed")
             \/ Count("invalid") /\ UNCHANGED <<held, pc>>
      BY <1>5, <2>1 DEF ParserTakes, Waits, PopWait, PopEnd, Pop, Goto
    <3>2. QueuesTyped'
      BY <2>1, <3>1, PopTyped, EventsKept, PipelineAssumption
    <3>3. metrics' \in [Counters -> Nat]
      BY <3>1, Counted DEF Counters
    <3>4. i \in Events["raw"]
      BY <2>1, PopFacts, PipelineAssumption
    <3>5. CASE UNCHANGED <<held, pc>>
      BY <1>0, <3>1, <3>2, <3>3, <3>5, LocalsKept, Threads
    <3>6. CASE /\ ParseOK(input[i]) /\ held' = [held EXCEPT ![p] = i]
               /\ pc' = [pc EXCEPT ![p] = "give"]
      <4>1. i \in Events["parsed"] /\ i \in Nat /\ Events' = Events
        BY <3>1, <3>4, <3>6, EventsKept DEF Events
      <4>2. /\ \A o \in Parser : pc'[o] = "give" => held'[o] \in Events'["parsed"]
            /\ held' \in [Thread -> Nat]
            /\ pc'["rules"] = pc["rules"] /\ held'["rules"] = held["rules"]
            /\ pc'["aggregator"] = pc["aggregator"] /\ held'["aggregator"] = held["aggregator"]
        BY <1>0, <3>6, <4>1, Threads DEF LocalsTyped
      <4> QED
        BY <3>1, <3>2, <3>3, <4>1, <4>2 DEF LocalsTyped, files
    <3> QED
      BY <3>1, <3>5, <3>6
  <2>2. CASE \/ Waits(PopWait("raw", p))
             \/ /\ PopEnd("raw", p) /\ Goto(p, "leave")
                /\ UNCHANGED <<held, sequence, stats, order, output, metrics>>
    <3>1. /\ UNCHANGED files /\ UNCHANGED <<held, sequence, stats, order, output, metrics>>
          /\ pc' = pc \/ pc' = [pc EXCEPT ![p] = "leave"]
      BY <1>5, <2>2 DEF ParserTakes, Waits, localVars, Goto
    <3> QED
      BY <1>2, <2>2, <3>1, Threads, PipelineAssumption DEF Label, Waits
  <2> QED
    BY <1>5, <2>1, <2>2 DEF ParserTakes
<1>6. ASSUME NEW p \in Parser, ParserGives(p)
      PROVE  Typed'
  <2>1. /\ UNCHANGED files /\ UNCHANGED <<held, sequence, stats, order, output, metrics>>
        /\ pc[p] = "give"
    BY <1>6 DEF ParserGives
  <2>2. held[p] \in Events["parsed"] /\ held[p] \in Item /\ p \in Thread /\ "parsed" \in Queue
    BY <2>1, Threads, EventsAreItems, PipelineAssumption DEF LocalsTyped
  <2>3. CASE Push("parsed", p, held[p]) /\ Goto(p, "take")
    BY <1>3, <2>1, <2>2, <2>3 DEF Label, Goto
  <2>4. CASE \/ PushWait("parsed", p) /\ UNCHANGED pc
             \/ PushRefused("parsed", p) /\ Goto(p, "leave")
    BY <1>2, <2>1, <2>2, <2>4 DEF Label, Goto
  <2> QED
    BY <1>6, <2>3, <2>4 DEF ParserGives
<1>7. ASSUME NEW p \in Parser, ParserLeaves(p) \/ ParserCloses(p)
      PROVE  Typed'
  <2>1. /\ UNCHANGED files /\ UNCHANGED <<held, sequence, stats, order, output, metrics>>
        /\ \E label \in {"close", "done"} : pc' = [pc EXCEPT ![p] = label]
        /\ Close("parsed") \/ UNCHANGED queueVars
    BY <1>7 DEF ParserLeaves, ParserCloses, Goto
  <2> QED
    BY <1>2, <2>1, Threads, PipelineAssumption DEF Label
<1>8. CASE RulesTakes
  <2>1. CASE Pop("parsed", "rules")
    <3> DEFINE i == Head(items["parsed"])
    <3>1. /\ UNCHANGED <<sequence, stats, order, output>> /\ UNCHANGED files
          /\ \/ /\ PassesRules(input[i]) /\ held' = [held EXCEPT !["rules"] = i]
                /\ pc' = [pc EXCEPT !["rules"] = "give"] /\ metrics' = metrics
             \/ Count("filtered") /\ UNCHANGED <<held, pc>>
      BY <1>8, <2>1 DEF RulesTakes, Waits, PopWait, PopEnd, Pop, Goto
    <3>2. QueuesTyped'
      BY <2>1, <3>1, PopTyped, EventsKept, PipelineAssumption
    <3>3. metrics' \in [Counters -> Nat]
      BY <1>0, <3>1, Counted DEF Counters
    <3>4. i \in Events["parsed"]
      BY <2>1, PopFacts, PipelineAssumption
    <3>5. CASE UNCHANGED <<held, pc>>
      BY <1>0, <3>1, <3>2, <3>3, <3>5, LocalsKept, Threads
    <3>6. CASE /\ PassesRules(input[i]) /\ held' = [held EXCEPT !["rules"] = i]
               /\ pc' = [pc EXCEPT !["rules"] = "give"]
      <4>1. i \in Events["enriched"] /\ i \in Nat /\ Events' = Events
        BY <3>1, <3>4, <3>6, EventsKept DEF Events, Counts
      <4>2. /\ \A o \in Parser : pc'[o] = pc[o] /\ held'[o] = held[o]
            /\ held' \in [Thread -> Nat]
            /\ held'["rules"] = i
            /\ pc'["aggregator"] = pc["aggregator"] /\ held'["aggregator"] = held["aggregator"]
        BY <1>0, <3>6, <4>1, Threads DEF LocalsTyped
      <4> QED
        BY <3>1, <3>2, <3>3, <4>1, <4>2 DEF LocalsTyped, files
    <3> QED
      BY <3>1, <3>5, <3>6
  <2>2. CASE \/ Waits(PopWait("parsed", "rules"))
             \/ /\ PopEnd("parsed", "rules") /\ Goto("rules", "close")
                /\ UNCHANGED <<held, sequence, stats, order, output, metrics>>
    <3>1. /\ UNCHANGED files /\ UNCHANGED <<held, sequence, stats, order, output, metrics>>
          /\ pc' = pc \/ pc' = [pc EXCEPT !["rules"] = "close"]
      BY <1>8, <2>2 DEF RulesTakes, Waits, localVars, Goto
    <3> QED
      BY <1>2, <2>2, <3>1, Threads, PipelineAssumption DEF Label, Waits
  <2> QED
    BY <1>8, <2>1, <2>2 DEF RulesTakes
<1>9. CASE RulesGives
  <2>1. /\ UNCHANGED files /\ UNCHANGED <<held, sequence, stats, order, output, metrics>>
        /\ pc["rules"] = "give"
    BY <1>9 DEF RulesGives
  <2>2. held["rules"] \in Events["enriched"] /\ held["rules"] \in Item /\ "enriched" \in Queue
    BY <2>1, Threads, EventsAreItems, PipelineAssumption DEF LocalsTyped
  <2>3. CASE Push("enriched", "rules", held["rules"]) /\ Goto("rules", "take")
    BY <1>3, <2>1, <2>2, <2>3, Threads DEF Label, Goto
  <2>4. CASE \/ PushWait("enriched", "rules") /\ UNCHANGED pc
             \/ PushRefused("enriched", "rules") /\ Goto("rules", "close")
    BY <1>2, <2>1, <2>2, <2>4, Threads DEF Label, Goto
  <2> QED
    BY <1>9, <2>3, <2>4 DEF RulesGives
<1>10. CASE RulesCloses
  <2>1. /\ UNCHANGED files /\ UNCHANGED <<held, sequence, stats, order, output, metrics>>
        /\ pc' = [pc EXCEPT !["rules"] = "done"] /\ Close("enriched")
    BY <1>10 DEF RulesCloses, Goto
  <2> QED
    BY <1>2, <2>1, Threads, PipelineAssumption DEF Label
<1>11. CASE AggregatorTakes
  <2>1. CASE Pop("enriched", "aggregator")
    <3> DEFINE i == Head(items["enriched"])
               k == Key(input[i])
    <3>1. /\ UNCHANGED <<pc, held, sequence, output>> /\ UNCHANGED files
          /\ stats' = Job!Add(stats, input[i])
          /\ order' = IF k \in DOMAIN stats THEN order ELSE <<k>> \o order
          /\ Count("aggregated") /\ pc["aggregator"] = "take"
      BY <1>11, <2>1 DEF AggregatorTakes, Waits, PopWait, PopEnd, Pop
    <3>2. QueuesTyped'
      BY <2>1, <3>1, PopTyped, EventsKept, PipelineAssumption
    <3>3. metrics' \in [Counters -> Nat]
      BY <3>1, Counted DEF Counters
    <3>4. i \in Events["enriched"]
      BY <2>1, PopFacts, PipelineAssumption
    <3>5. k \in SupportedType /\ DOMAIN stats = ToSet(order) /\ order \in Seq(SupportedType)
      BY <3>4, AddTyped DEF LocalsTyped
    <3>6. order' \in Seq(SupportedType) /\ ToSet(order') = ToSet(order) \cup {k}
      <4> HIDE DEF k
      <4>1. CASE k \in DOMAIN stats
        BY <3>1, <3>5, <4>1
      <4>2. CASE k \notin DOMAIN stats
        BY <3>1, <3>5, <4>2, NewKeyFirst
      <4> QED
        BY <4>1, <4>2
    <3>7. stats' \in [ToSet(order') -> [count : Nat, sum : Int]]
      BY <3>1, <3>4, <3>6, AddTyped
    <3>8. Events' = Events
      BY <3>1, EventsKept
    <3> QED
      BY <3>1, <3>2, <3>3, <3>6, <3>7, <3>8 DEF LocalsTyped, files
  <2>2. CASE Waits(PopWait("enriched", "aggregator"))
    <3>1. UNCHANGED files /\ UNCHANGED <<held, sequence, stats, order, output, metrics, pc>>
      BY <1>11, <2>2 DEF AggregatorTakes, Waits, localVars
    <3> QED
      BY <1>2, <2>2, <3>1, Threads, PipelineAssumption DEF Label, Waits
  <2>3. CASE /\ PopEnd("enriched", "aggregator") /\ Goto("aggregator", "give")
             /\ held' = [held EXCEPT !["aggregator"] = 1]
             /\ UNCHANGED <<sequence, active_parsers, stats, order, output, metrics, finished>>
    <3>1. UNCHANGED files /\ Events' = Events
      BY <1>11, <2>3, EventsKept DEF AggregatorTakes
    <3>2. QueuesTyped'
      BY <2>3, <3>1, OtherCallTyped, Threads, PipelineAssumption
    <3>3. /\ \A t \in Thread \ {"aggregator"} : pc'[t] = pc[t] /\ held'[t] = held[t]
          /\ held'["aggregator"] = 1 /\ held' \in [Thread -> Nat]
      BY <1>0, <2>3, Threads DEF Goto, LocalsTyped
    <3>4. 1 \in 1 .. Len(order) + 1
      BY DEF LocalsTyped
    <3>5. "rules" \in Thread \ {"aggregator"} /\ Parser \subseteq Thread \ {"aggregator"}
      BY Threads
    <3> QED
      BY <2>3, <3>1, <3>2, <3>3, <3>4, <3>5 DEF LocalsTyped, files
  <2> QED
    BY <1>11, <2>1, <2>2, <2>3 DEF AggregatorTakes
<1>12. CASE AggregatorGives
  <2> DEFINE n == held["aggregator"]
  <2>1. /\ UNCHANGED files /\ UNCHANGED <<sequence, stats, order, output, metrics>>
        /\ pc["aggregator"] = "give" /\ n <= Len(order) /\ n \in Nat /\ n >= 1
        /\ n \in 1 .. Len(order) /\ Events' = Events
    BY <1>12, EventsKept, Threads DEF AggregatorGives, LocalsTyped
  <2>2. CASE Push("result", "aggregator", ResultOf(order[n])) /\ UNCHANGED pc
             /\ held' = [held EXCEPT !["aggregator"] = n + 1]
    <3>1. order[n] \in SupportedType /\ order[n] \in ToSet(order)
      BY <2>1 DEF LocalsTyped, ToSet
    <3>2. ResultOf(order[n]) \in Result
      BY <3>1 DEF LocalsTyped, ResultOf, Result
    <3>3. ResultOf(order[n]) \in Events'["result"] /\ ResultOf(order[n]) \in Item
      BY <2>1, <3>2 DEF Events, Item
    <3>4. QueuesTyped'
      BY <2>1, <2>2, <3>3, PushTyped, PipelineAssumption
    <3>5. /\ \A t \in Thread \ {"aggregator"} : held'[t] = held[t]
          /\ held'["aggregator"] = n + 1 /\ held' \in [Thread -> Nat]
      BY <2>1, <2>2, Threads DEF LocalsTyped
    <3>6. n + 1 \in 1 .. Len(order) + 1
      BY <2>1
    <3>7. "rules" \in Thread \ {"aggregator"} /\ Parser \subseteq Thread \ {"aggregator"}
      BY Threads
    <3> QED
      BY <2>1, <2>2, <3>4, <3>5, <3>6, <3>7 DEF LocalsTyped, files
  <2>3. CASE /\ UNCHANGED held
             /\ \/ PushWait("result", "aggregator") /\ UNCHANGED pc
                \/ PushRefused("result", "aggregator") /\ Goto("aggregator", "close")
    BY <1>2, <2>1, <2>3, Threads, PipelineAssumption DEF Label, Goto
  <2> QED
    BY <1>12, <2>2, <2>3 DEF AggregatorGives
<1>13. CASE AggregatorCloses
  <2>1. /\ UNCHANGED files /\ UNCHANGED <<held, sequence, stats, order, output, metrics>>
        /\ pc' = [pc EXCEPT !["aggregator"] = "done"] /\ Close("result")
    BY <1>13 DEF AggregatorCloses, Goto
  <2> QED
    BY <1>2, <2>1, Threads, PipelineAssumption DEF Label
<1>14. CASE WriterTakes
  <2>1. CASE Pop("result", "writer")
    <3>1. /\ UNCHANGED <<pc, held, sequence, stats, order, metrics>> /\ UNCHANGED files
          /\ output' = Append(output, Head(items["result"]))
      BY <1>14, <2>1 DEF WriterTakes, Waits, PopWait, PopEnd, Pop
    <3>2. QueuesTyped'
      BY <2>1, <3>1, PopTyped, EventsKept, PipelineAssumption
    <3>3. Head(items["result"]) \in Item
      BY <2>1, PopFacts, EventsAreItems, PipelineAssumption
    <3>4. output' \in Seq(Item)
      BY <1>0, <3>1, <3>3, AppendItem
    <3> QED
      BY <1>0, <3>1, <3>2, <3>4, LocalsKept, Threads
  <2>2. CASE \/ Waits(PopWait("result", "writer"))
             \/ /\ PopEnd("result", "writer") /\ Goto("writer", "done")
                /\ UNCHANGED <<held, sequence, stats, order, output, metrics>>
    <3>1. /\ UNCHANGED files /\ UNCHANGED <<held, sequence, stats, order, output, metrics>>
          /\ pc' = pc \/ pc' = [pc EXCEPT !["writer"] = "done"]
      BY <1>14, <2>2 DEF WriterTakes, Waits, localVars, Goto
    <3> QED
      BY <1>2, <2>2, <3>1, Threads, PipelineAssumption DEF Label, Waits
  <2> QED
    BY <1>14, <2>1, <2>2 DEF WriterTakes
<1>15. CASE WriterFails \/ Finish \/ UNCHANGED vars
  <2>1. /\ UNCHANGED files /\ UNCHANGED <<held, sequence, stats, order, output, metrics>>
        /\ UNCHANGED queueVars
        /\ pc' = pc \/ pc' = [pc EXCEPT !["writer"] = "done"]
    BY <1>15 DEF WriterFails, Finish, vars, queueVars, Goto, files
  <2> QED
    BY <1>2, <2>1, Threads, PipelineAssumption DEF Label
<1> QED
  BY <1>1, <1>4, <1>5, <1>6, <1>7, <1>8, <1>9, <1>10, <1>11, <1>12, <1>13, <1>14, <1>15
     DEF Next, ReaderStep, RulesStep, AggregatorStep, WriterStep, ParserStep

-----------------------------------------------------------------------------
\* Waiting and waking.

\* P and G are the threads about to pop and to push, E and F those of them
\* that wait, n the items in the queue, and c tells whether it is closed.
Served(P, E, G, F, n, c) ==
    Woken(P, E, n) /\ Woken(G, F, Capacity - n) /\ (c => E = {} /\ F = {})

\* NoLostWakeup, and that nobody waits for results of a pipeline whose
\* writer is about to give up.
AllServed ==
    /\ \A q \in Queue :
        Served(Popping(q), emptyWait[q], Pushing(q), fullWait[q], Len(items[q]), closed[q])
    /\ ~outputOpens => emptyWait["result"] = {}

LEMMA Roles ==
    ASSUME NEW q \in Queue
    PROVE  /\ Producers[q] \subseteq Thread /\ Consumers[q] \subseteq Thread
           /\ IsFiniteSet(Producers[q]) /\ IsFiniteSet(Consumers[q])
           /\ \A o \in Queue \ {q} :
                Producers[q] \cap Producers[o] = {} /\ Consumers[q] \cap Consumers[o] = {}
<1>1. /\ IsFiniteSet(Parser) /\ IsFiniteSet({"reader"}) /\ IsFiniteSet({"rules"})
      /\ IsFiniteSet({"aggregator"}) /\ IsFiniteSet({"writer"})
  BY PipelineAssumption, FS_Singleton
<1>2. /\ q \in {"raw", "parsed", "enriched", "result"}
      /\ Queue = {"raw", "parsed", "enriched", "result"}
  BY PipelineAssumption
<1>3. IsFiniteSet(Producers[q]) /\ IsFiniteSet(Consumers[q])
  BY <1>1, <1>2 DEF Producers, Consumers
<1>4. Producers[q] \subseteq Thread /\ Consumers[q] \subseteq Thread
  BY <1>2, Threads DEF Producers, Consumers
<1>5. \A o \in Queue \ {q} : Producers[q] \cap Producers[o] = {}
  BY <1>2, Threads DEF Producers
<1>6. \A o \in Queue \ {q} : Consumers[q] \cap Consumers[o] = {}
  BY <1>2, Threads DEF Consumers
<1> QED
  BY <1>3, <1>4, <1>5, <1>6

LEMMA RolesFinite ==
    ASSUME NEW q \in Queue
    PROVE  /\ IsFiniteSet(Pushing(q)) /\ IsFiniteSet(Popping(q))
           /\ IsFiniteSet(Pushing(q)') /\ IsFiniteSet(Popping(q)')
<1>1. /\ Pushing(q) \subseteq Producers[q] /\ Pushing(q)' \subseteq Producers[q]
      /\ Popping(q) \subseteq Consumers[q] /\ Popping(q)' \subseteq Consumers[q]
  BY DEF Pushing, Popping, Producers, Consumers
<1> QED
  BY <1>1, Roles, FS_Subset

\* Only the thread that steps leaves a role.
LEMMA Movement ==
    ASSUME pc \in [Thread -> Label], NEW t \in Thread, NEW label \in Label,
           pc' = pc \/ pc' = [pc EXCEPT ![t] = label], NEW q \in Queue
    PROVE  /\ Pushing(q) \ {t} \subseteq Pushing(q)' /\ Popping(q) \ {t} \subseteq Popping(q)'
           /\ pc' = pc => Pushing(q)' = Pushing(q) /\ Popping(q)' = Popping(q)
<1>1. \A u \in Thread \ {t} : pc'[u] = pc[u]
  OBVIOUS
<1>2. Producers[q] \subseteq Thread /\ Consumers[q] \subseteq Thread
  BY Roles
<1> QED
  BY <1>1, <1>2 DEF Pushing, Popping, Producers, Consumers

LEMMA PushingOne ==
    ASSUME NEW q \in Queue, NEW t \in Producers[q], pc[t] = "give"
    PROVE  /\ t \in Pushing(q) /\ t \notin Popping(q)
           /\ \A o \in Queue \ {q} : t \notin Pushing(o) /\ t \notin Popping(o)
BY Roles DEF Pushing, Popping

LEMMA PoppingOne ==
    ASSUME NEW q \in Queue, NEW t \in Consumers[q], pc[t] = "take"
    PROVE  /\ t \in Popping(q) /\ t \notin Pushing(q)
           /\ \A o \in Queue \ {q} : t \notin Pushing(o) /\ t \notin Popping(o)
BY Roles DEF Pushing, Popping

\* A queue the step leaves alone, except that threads come to it.
LEMMA OthersServed ==
    ASSUME NEW q \in Queue, items[q] \in Seq(Item),
           Served(Popping(q), emptyWait[q], Pushing(q), fullWait[q], Len(items[q]), closed[q]),
           items'[q] = items[q], closed'[q] = closed[q],
           emptyWait'[q] = emptyWait[q], fullWait'[q] = fullWait[q],
           Pushing(q) \subseteq Pushing(q)', Popping(q) \subseteq Popping(q)'
    PROVE  Served(Popping(q), emptyWait[q], Pushing(q), fullWait[q], Len(items[q]), closed[q])'
<1>1. Len(items[q]) \in Int /\ Capacity - Len(items[q]) \in Int
  BY CapacityAssumption
<1>2. Woken(Popping(q)', emptyWait[q], Len(items[q]))
  BY <1>1, MoreWoken, RolesFinite DEF Served
<1>3. Woken(Pushing(q)', fullWait[q], Capacity - Len(items[q]))
  BY <1>1, MoreWoken, RolesFinite DEF Served
<1> QED
  BY <1>2, <1>3 DEF Served

\* A thread about to push takes its step.
LEMMA GiveServed ==
    ASSUME Inv, QueuesTyped, AllServed, outputOpens' = outputOpens,
           NEW q \in Queue, NEW t \in Producers[q], pc[t] = "give", NEW label \in Label,
           NEW x \in Item,
           \/ Push(q, t, x) /\ (pc' = pc \/ pc' = [pc EXCEPT ![t] = label])
           \/ PushWait(q, t) /\ pc' = pc
           \/ PushRefused(q, t) /\ pc' = [pc EXCEPT ![t] = label]
           \/ Close(q) /\ pc' = [pc EXCEPT ![t] = label]
    PROVE  AllServed'
<1>1. t \in Thread /\ pc \in [Thread -> Label] /\ closed \in [Queue -> BOOLEAN]
  BY Roles DEF Inv
<1>2. pc' = pc \/ pc' = [pc EXCEPT ![t] = label]
  OBVIOUS
<1>3. /\ Popping(q) \subseteq Popping(q)' /\ Pushing(q) \ {t} \subseteq Pushing(q)'
      /\ t \in Pushing(q)
      /\ \A o \in Queue \ {q} : Popping(o) \subseteq Popping(o)' /\ Pushing(o) \subseteq Pushing(o)'
  BY <1>1, <1>2, Movement, PushingOne
<1>4. /\ items[q] \in Seq(Item) /\ Len(items[q]) \in Int /\ Capacity - Len(items[q]) \in Int
      /\ \A o \in Queue : items[o] \in Seq(Item)
      /\ emptyWait \in [Queue -> SUBSET Thread] /\ fullWait \in [Queue -> SUBSET Thread]
  BY CapacityAssumption DEF QueuesTyped
<1>5. /\ Woken(Popping(q), emptyWait[q], Len(items[q]))
      /\ Woken(Pushing(q), fullWait[q], Capacity - Len(items[q]))
      /\ closed[q] => emptyWait[q] = {} /\ fullWait[q] = {}
  BY DEF AllServed, Served
<1>6. /\ IsFiniteSet(Popping(q)') /\ IsFiniteSet(Pushing(q)')
      /\ IsFiniteSet(Popping(q)) /\ IsFiniteSet(Pushing(q))
  BY RolesFinite
<1>7. \A o \in Queue \ {q} :
        /\ items'[o] = items[o] /\ closed'[o] = closed[o]
        /\ emptyWait'[o] = emptyWait[o] /\ fullWait'[o] = fullWait[o]
  <2>1. CASE Push(q, t, x)
    BY <2>1, PushFacts
  <2>2. CASE PushWait(q, t) \/ PushRefused(q, t)
    BY <1>4, <2>2 DEF PushWait, PushRefused, queueVars
  <2>3. CASE Close(q)
    BY <1>1, <1>4, <2>3 DEF Close
  <2> QED
    BY <2>1, <2>2, <2>3
<1>8. \A o \in Queue \ {q} :
        Served(Popping(o), emptyWait[o], Pushing(o), fullWait[o], Len(items[o]), closed[o])'
  BY <1>3, <1>4, <1>7, OthersServed DEF AllServed
<1>9. Served(Popping(q), emptyWait[q], Pushing(q), fullWait[q], Len(items[q]), closed[q])'
  <2>1. CASE Push(q, t, x)
    <3>1. Woken(Popping(q)', emptyWait'[q], Len(items[q]) + 1)
      BY <1>3, <1>4, <1>5, <1>6, <2>1, PushFacts, NotifiedWoken
    <3>2. t \in Pushing(q) \ fullWait[q]
      BY <1>3, <2>1, PushFacts
    <3>3. Woken(Pushing(q)', fullWait[q], Capacity - Len(items[q]) - 1)
      BY <1>3, <1>4, <1>5, <1>6, <3>2, TakenWoken
    <3>4. /\ fullWait' = fullWait /\ closed' = closed /\ ~closed[q]
          /\ Len(items'[q]) = Len(items[q]) + 1
      BY <2>1, PushFacts
    <3>5. Capacity - Len(items[q]) - 1 = Capacity - Len(items'[q])
      BY <1>4, <3>4, CapacityAssumption
    <3> QED
      BY <3>1, <3>3, <3>4, <3>5 DEF Served
  <2>2. CASE PushWait(q, t) /\ pc' = pc
    <3>1. /\ items' = items /\ closed' = closed /\ emptyWait' = emptyWait /\ ~closed[q]
          /\ fullWait'[q] = fullWait[q] \cup {t} /\ Len(items[q]) >= Capacity
      BY <1>4, <2>2, CapacityAssumption DEF PushWait, HasRoom
    <3>2. Pushing(q)' = Pushing(q) /\ Popping(q)' = Popping(q)
      BY <1>1, <1>2, <2>2, Movement
    <3>3. fullWait'[q] \in SUBSET Pushing(q) /\ Capacity - Len(items[q]) <= 0
      BY <1>3, <1>4, <1>5, <3>1, CapacityAssumption DEF Woken
    <3>4. Woken(Pushing(q), fullWait'[q], Capacity - Len(items[q]))
      BY <1>4, <1>6, <3>3, NothingWoken
    <3> QED
      BY <1>5, <3>1, <3>2, <3>4 DEF Served
  <2>3. CASE PushRefused(q, t) \/ Close(q)
    <3>1. items' = items /\ emptyWait'[q] = {} /\ fullWait'[q] = {}
      BY <1>4, <1>5, <2>3 DEF PushRefused, Close, queueVars
    <3>2. {} \in SUBSET (Popping(q)') /\ {} \in SUBSET (Pushing(q)')
      OBVIOUS
    <3>3. Woken(Popping(q)', {}, Len(items[q])) /\ Woken(Pushing(q)', {}, Capacity - Len(items[q]))
      BY <1>4, <1>6, <3>2, NothingWoken
    <3> QED
      BY <3>1, <3>3 DEF Served
  <2> QED
    BY <2>1, <2>2, <2>3
<1>10. ~outputOpens => emptyWait'["result"] = {}
  <2>1. emptyWait[q] = {} => emptyWait'[q] = {}
    <3>1. CASE Push(q, t, x)
      BY <3>1, PushFacts
    <3>2. CASE PushWait(q, t) \/ PushRefused(q, t) \/ Close(q)
      BY <1>4, <3>2 DEF PushWait, PushRefused, Close, queueVars
    <3> QED
      BY <3>1, <3>2
  <2> QED
    BY <1>7, <2>1, PipelineAssumption DEF AllServed
<1> QED
  BY <1>8, <1>9, <1>10 DEF AllServed

\* A thread about to pop takes its step.
LEMMA TakeServed ==
    ASSUME Inv, QueuesTyped, AllServed, outputOpens' = outputOpens,
           NEW q \in Queue, NEW t \in Consumers[q], pc[t] = "take", NEW label \in Label,
           q = "result" => outputOpens,
           \/ Pop(q, t) /\ (pc' = pc \/ pc' = [pc EXCEPT ![t] = label])
           \/ PopWait(q, t) /\ pc' = pc
           \/ PopEnd(q, t) /\ pc' = [pc EXCEPT ![t] = label]
    PROVE  AllServed'
<1>1. t \in Thread /\ pc \in [Thread -> Label] /\ closed \in [Queue -> BOOLEAN]
  BY Roles DEF Inv
<1>2. pc' = pc \/ pc' = [pc EXCEPT ![t] = label]
  OBVIOUS
<1>3. /\ Pushing(q) \subseteq Pushing(q)' /\ Popping(q) \ {t} \subseteq Popping(q)'
      /\ t \in Popping(q)
      /\ \A o \in Queue \ {q} : Popping(o) \subseteq Popping(o)' /\ Pushing(o) \subseteq Pushing(o)'
  BY <1>1, <1>2, Movement, PoppingOne
<1>4. /\ items[q] \in Seq(Item) /\ Len(items[q]) \in Int /\ Capacity - Len(items[q]) \in Int
      /\ \A o \in Queue : items[o] \in Seq(Item)
      /\ emptyWait \in [Queue -> SUBSET Thread] /\ fullWait \in [Queue -> SUBSET Thread]
  BY CapacityAssumption DEF QueuesTyped
<1>5. /\ Woken(Popping(q), emptyWait[q], Len(items[q]))
      /\ Woken(Pushing(q), fullWait[q], Capacity - Len(items[q]))
      /\ closed[q] => emptyWait[q] = {} /\ fullWait[q] = {}
  BY DEF AllServed, Served
<1>6. /\ IsFiniteSet(Popping(q)') /\ IsFiniteSet(Pushing(q)')
      /\ IsFiniteSet(Popping(q)) /\ IsFiniteSet(Pushing(q))
  BY RolesFinite
<1>7. \A o \in Queue \ {q} :
        /\ items'[o] = items[o] /\ closed'[o] = closed[o]
        /\ emptyWait'[o] = emptyWait[o] /\ fullWait'[o] = fullWait[o]
  <2>1. CASE Pop(q, t)
    BY <2>1, PopFacts
  <2>2. CASE PopWait(q, t) \/ PopEnd(q, t)
    BY <1>4, <2>2 DEF PopWait, PopEnd, queueVars
  <2> QED
    BY <2>1, <2>2
<1>8. \A o \in Queue \ {q} :
        Served(Popping(o), emptyWait[o], Pushing(o), fullWait[o], Len(items[o]), closed[o])'
  BY <1>3, <1>4, <1>7, OthersServed DEF AllServed
<1>9. Served(Popping(q), emptyWait[q], Pushing(q), fullWait[q], Len(items[q]), closed[q])'
  <2>1. CASE Pop(q, t)
    <3>1. Woken(Pushing(q)', fullWait'[q], Capacity - Len(items[q]) + 1)
      BY <1>3, <1>4, <1>5, <1>6, <2>1, PopFacts, NotifiedWoken
    <3>2. t \in Popping(q) \ emptyWait[q]
      BY <1>3, <2>1, PopFacts
    <3>3. Woken(Popping(q)', emptyWait[q], Len(items[q]) - 1)
      BY <1>3, <1>4, <1>5, <1>6, <3>2, TakenWoken
    <3>4. /\ emptyWait' = emptyWait /\ closed' = closed
          /\ Len(items'[q]) = Len(items[q]) - 1 /\ (fullWait[q] = {} => fullWait'[q] = {})
      BY <2>1, PopFacts
    <3>5. Capacity - Len(items[q]) + 1 = Capacity - Len(items'[q])
      BY <1>4, <3>4, CapacityAssumption
    <3> QED
      BY <1>5, <3>1, <3>3, <3>4, <3>5 DEF Served
  <2>2. CASE PopWait(q, t) /\ pc' = pc
    <3>1. /\ items' = items /\ closed' = closed /\ fullWait' = fullWait /\ ~closed[q]
          /\ emptyWait'[q] = emptyWait[q] \cup {t} /\ Len(items[q]) = 0
      BY <1>4, <2>2 DEF PopWait
    <3>2. Pushing(q)' = Pushing(q) /\ Popping(q)' = Popping(q)
      BY <1>1, <1>2, <2>2, Movement
    <3>3. emptyWait'[q] \in SUBSET Popping(q) /\ Len(items[q]) <= 0
      BY <1>3, <1>5, <3>1 DEF Woken
    <3>4. Woken(Popping(q), emptyWait'[q], Len(items[q]))
      BY <1>4, <1>6, <3>3, NothingWoken
    <3> QED
      BY <1>5, <3>1, <3>2, <3>4 DEF Served
  <2>3. CASE PopEnd(q, t)
    <3>1. items' = items /\ emptyWait'[q] = {} /\ fullWait'[q] = {}
      BY <1>4, <1>5, <2>3 DEF PopEnd, queueVars
    <3>2. {} \in SUBSET (Popping(q)') /\ {} \in SUBSET (Pushing(q)')
      OBVIOUS
    <3>3. Woken(Popping(q)', {}, Len(items[q])) /\ Woken(Pushing(q)', {}, Capacity - Len(items[q]))
      BY <1>4, <1>6, <3>2, NothingWoken
    <3> QED
      BY <3>1, <3>3 DEF Served
  <2> QED
    BY <2>1, <2>2, <2>3
<1>10. ~outputOpens => emptyWait'["result"] = {}
  BY <1>7, PipelineAssumption DEF AllServed
<1> QED
  BY <1>8, <1>9, <1>10 DEF AllServed

\* A thread that is about to do neither takes its step.
LEMMA IdleServed ==
    ASSUME Inv, QueuesTyped, AllServed, outputOpens' = outputOpens,
           NEW t \in Thread, NEW q \in Queue, NEW label \in Label, pc[t] \notin {"take", "give"},
           pc' = pc \/ pc' = [pc EXCEPT ![t] = label], Close(q) \/ UNCHANGED queueVars
    PROVE  AllServed'
<1>1. pc \in [Thread -> Label] /\ closed \in [Queue -> BOOLEAN]
  BY DEF Inv
<1>2. \A o \in Queue : t \notin Popping(o) /\ t \notin Pushing(o)
  BY DEF Popping, Pushing
<1>3. \A o \in Queue : Popping(o) \subseteq Popping(o)' /\ Pushing(o) \subseteq Pushing(o)'
  BY <1>1, <1>2, Movement
<1>4. /\ \A o \in Queue : items[o] \in Seq(Item)
      /\ emptyWait \in [Queue -> SUBSET Thread] /\ fullWait \in [Queue -> SUBSET Thread]
  BY DEF QueuesTyped
<1>5. CASE UNCHANGED queueVars
  BY <1>3, <1>4, <1>5, OthersServed DEF AllServed, queueVars
<1>6. CASE Close(q)
  <2>1. \A o \in Queue \ {q} :
          Served(Popping(o), emptyWait[o], Pushing(o), fullWait[o], Len(items[o]), closed[o])'
    BY <1>1, <1>3, <1>4, <1>6, OthersServed DEF AllServed, Close
  <2>2. items' = items /\ emptyWait'[q] = {} /\ fullWait'[q] = {}
    BY <1>4, <1>6 DEF Close
  <2>3. Woken(Popping(q)', {}, Len(items[q])) /\ Woken(Pushing(q)', {}, Capacity - Len(items[q]))
    <3>1. Len(items[q]) \in Int /\ Capacity - Len(items[q]) \in Int
      BY <1>4, CapacityAssumption
    <3>2. {} \in SUBSET (Popping(q)') /\ {} \in SUBSET (Pushing(q)')
      OBVIOUS
    <3> QED
      BY <3>1, <3>2, RolesFinite, NothingWoken
  <2>4. Served(Popping(q), emptyWait[q], Pushing(q), fullWait[q], Len(items[q]), closed[q])'
    BY <2>2, <2>3 DEF Served
  <2>5. ~outputOpens => emptyWait'["result"] = {}
    BY <1>4, <1>6, PipelineAssumption DEF AllServed, Close
  <2> QED
    BY <2>1, <2>4, <2>5 DEF AllServed
<1> QED
  BY <1>5, <1>6

LEMMA InitServed == Init => AllServed
<1> SUFFICES ASSUME Init
             PROVE  AllServed
  OBVIOUS
<1>1. \A q \in Queue :
        items[q] = <<>> /\ emptyWait[q] = {} /\ fullWait[q] = {} /\ closed[q] = FALSE
  BY DEF Init, QueueInit
<1>2. ASSUME NEW q \in Queue
      PROVE  Woken(Popping(q), {}, 0) /\ Woken(Pushing(q), {}, Capacity)
  <2>1. {} \in SUBSET Popping(q) /\ {} \in SUBSET Pushing(q)
    OBVIOUS
  <2> QED
    BY <2>1, RolesFinite, NothingWoken, CapacityAssumption
<1>3. Len(<<>>) = 0 /\ Capacity - 0 = Capacity
  BY CapacityAssumption
<1> QED
  BY <1>1, <1>2, <1>3, PipelineAssumption DEF AllServed, Served

LEMMA StepServed == Inv /\ Typed /\ AllServed /\ [Next]_vars => AllServed'
<1> SUFFICES ASSUME Inv, Typed, AllServed, [Next]_vars
             PROVE  AllServed'
  OBVIOUS
<1> USE DEF Typed
<1>0. /\ Label = {"take", "give", "leave", "close", "done"}
      /\ Queue = {"raw", "parsed", "enriched", "result"}
      /\ "reader" \in Producers["raw"] /\ Producers["parsed"] = Parser
      /\ "rules" \in Producers["enriched"] /\ "aggregator" \in Producers["result"]
      /\ Consumers["raw"] = Parser /\ "rules" \in Consumers["parsed"]
      /\ "aggregator" \in Consumers["enriched"] /\ "writer" \in Consumers["result"]
      /\ 0 \in Item
  BY PipelineAssumption DEF Label, Producers, Consumers, Item
<1>1. CASE ReaderPushes
  <2>1. sequence + 1 \in Item
    BY DEF LocalsTyped, Item
  <2>2. /\ outputOpens' = outputOpens /\ pc["reader"] = "give"
        /\ \/ Push("raw", "reader", sequence + 1) /\ pc' = pc
           \/ PushWait("raw", "reader") /\ pc' = pc
           \/ PushRefused("raw", "reader") /\ pc' = [pc EXCEPT !["reader"] = "close"]
    BY <1>1 DEF ReaderPushes, Waits, localVars, Goto, files
  <2> QED
    BY <1>0, <2>1, <2>2, GiveServed
<1>2. CASE ReaderEnds
  <2>1. /\ outputOpens' = outputOpens /\ Close("raw")
        /\ pc["reader"] \in {"give", "close"} /\ pc' = [pc EXCEPT !["reader"] = "done"]
    BY <1>2 DEF ReaderEnds, Goto, files
  <2>2. CASE pc["reader"] = "give"
    BY <1>0, <2>1, <2>2, GiveServed
  <2>3. CASE pc["reader"] = "close"
    BY <1>0, <2>1, <2>3, IdleServed, Threads
  <2> QED
    BY <2>1, <2>2, <2>3
<1>3. ASSUME NEW p \in Parser, ParserTakes(p)
      PROVE  AllServed'
  <2>1. /\ outputOpens' = outputOpens /\ pc[p] = "take"
        /\ \/ Pop("raw", p) /\ (pc' = pc \/ pc' = [pc EXCEPT ![p] = "give"])
           \/ PopWait("raw", p) /\ pc' = pc
           \/ PopEnd("raw", p) /\ pc' = [pc EXCEPT ![p] = "leave"]
    BY <1>3 DEF ParserTakes, Waits, localVars, Goto, files
  <2> QED
    BY <1>0, <2>1, TakeServed
<1>4. ASSUME NEW p \in Parser, ParserGives(p)
      PROVE  AllServed'
  <2>1. /\ outputOpens' = outputOpens /\ pc[p] = "give"
        /\ \/ Push("parsed", p, held[p]) /\ pc' = [pc EXCEPT ![p] = "take"]
           \/ PushWait("parsed", p) /\ pc' = pc
           \/ PushRefused("parsed", p) /\ pc' = [pc EXCEPT ![p] = "leave"]
    BY <1>4 DEF ParserGives, Goto, files
  <2>2. held[p] \in Item
    BY <2>1, Threads DEF LocalsTyped, Item
  <2> QED
    BY <1>0, <2>1, <2>2, GiveServed
<1>5. ASSUME NEW p \in Parser, ParserLeaves(p) \/ ParserCloses(p)
      PROVE  AllServed'
  <2>1. /\ outputOpens' = outputOpens /\ pc[p] \in {"leave", "close"}
        /\ \E label \in {"close", "done"} : pc' = [pc EXCEPT ![p] = label]
        /\ Close("parsed") \/ UNCHANGED queueVars
    BY <1>5 DEF ParserLeaves, ParserCloses, Goto, files
  <2> QED
    BY <1>0, <2>1, IdleServed, Threads
<1>6. CASE RulesTakes
  <2>1. /\ outputOpens' = outputOpens /\ pc["rules"] = "take"
        /\ \/ Pop("parsed", "rules") /\ (pc' = pc \/ pc' = [pc EXCEPT !["rules"] = "give"])
           \/ PopWait("parsed", "rules") /\ pc' = pc
           \/ PopEnd("parsed", "rules") /\ pc' = [pc EXCEPT !["rules"] = "close"]
    BY <1>6 DEF RulesTakes, Waits, localVars, Goto, files
  <2> QED
    BY <1>0, <2>1, TakeServed
<1>7. CASE RulesGives
  <2>1. /\ outputOpens' = outputOpens /\ pc["rules"] = "give"
        /\ \/ Push("enriched", "rules", held["rules"]) /\ pc' = [pc EXCEPT !["rules"] = "take"]
           \/ PushWait("enriched", "rules") /\ pc' = pc
           \/ PushRefused("enriched", "rules") /\ pc' = [pc EXCEPT !["rules"] = "close"]
    BY <1>7 DEF RulesGives, Goto, files
  <2>2. held["rules"] \in Item
    BY Threads DEF LocalsTyped, Item
  <2> QED
    BY <1>0, <2>1, <2>2, GiveServed
<1>8. CASE RulesCloses
  <2>1. /\ outputOpens' = outputOpens /\ Close("enriched")
        /\ pc["rules"] = "close" /\ pc' = [pc EXCEPT !["rules"] = "done"]
    BY <1>8 DEF RulesCloses, Goto, files
  <2> QED
    BY <1>0, <2>1, IdleServed, Threads
<1>9. CASE AggregatorTakes
  <2>1. /\ outputOpens' = outputOpens /\ pc["aggregator"] = "take"
        /\ \/ Pop("enriched", "aggregator") /\ pc' = pc
           \/ PopWait("enriched", "aggregator") /\ pc' = pc
           \/ PopEnd("enriched", "aggregator") /\ pc' = [pc EXCEPT !["aggregator"] = "give"]
    BY <1>9 DEF AggregatorTakes, Waits, localVars, Goto, files
  <2> QED
    BY <1>0, <2>1, TakeServed
<1>10. CASE AggregatorGives
  <2> DEFINE n == held["aggregator"]
  <2>1. /\ outputOpens' = outputOpens /\ pc["aggregator"] = "give" /\ n <= Len(order)
        /\ \/ Push("result", "aggregator", ResultOf(order[n])) /\ pc' = pc
           \/ PushWait("result", "aggregator") /\ pc' = pc
           \/ PushRefused("result", "aggregator") /\ pc' = [pc EXCEPT !["aggregator"] = "close"]
    BY <1>10 DEF AggregatorGives, Goto, files
  <2>2. n \in 1 .. Len(order)
    BY <2>1 DEF LocalsTyped
  <2>3. order[n] \in SupportedType /\ order[n] \in ToSet(order)
    BY <2>2 DEF LocalsTyped, ToSet
  <2>4. ResultOf(order[n]) \in Item
    BY <2>3 DEF LocalsTyped, ResultOf, Result, Item
  <2> QED
    BY <1>0, <2>1, <2>4, GiveServed
<1>11. CASE AggregatorCloses
  <2>1. /\ outputOpens' = outputOpens /\ Close("result")
        /\ pc["aggregator"] \in {"give", "close"} /\ pc' = [pc EXCEPT !["aggregator"] = "done"]
    BY <1>11 DEF AggregatorCloses, Goto, files
  <2>2. CASE pc["aggregator"] = "give"
    BY <1>0, <2>1, <2>2, GiveServed
  <2>3. CASE pc["aggregator"] = "close"
    BY <1>0, <2>1, <2>3, IdleServed, Threads
  <2> QED
    BY <2>1, <2>2, <2>3
<1>12. CASE WriterTakes
  <2>1. /\ outputOpens' = outputOpens /\ pc["writer"] = "take" /\ outputOpens
        /\ \/ Pop("result", "writer") /\ pc' = pc
           \/ PopWait("result", "writer") /\ pc' = pc
           \/ PopEnd("result", "writer") /\ pc' = [pc EXCEPT !["writer"] = "done"]
    BY <1>12 DEF WriterTakes, Waits, localVars, Goto, files
  <2> QED
    BY <1>0, <2>1, TakeServed
<1>13. CASE WriterFails
  <2>1. /\ outputOpens' = outputOpens /\ pc["writer"] = "take" /\ ~outputOpens
        /\ UNCHANGED queueVars /\ pc' = [pc EXCEPT !["writer"] = "done"]
    BY <1>13 DEF WriterFails, Goto, files
  <2>2. emptyWait["result"] = {}
    BY <2>1 DEF AllServed
  <2>3. /\ pc \in [Thread -> Label] /\ "writer" \in Thread
        /\ \A o \in Queue : items[o] \in Seq(Item)
    BY Threads DEF Inv, QueuesTyped
  <2>4. \A o \in Queue : /\ Pushing(o) \subseteq Pushing(o)'
                         /\ o # "result" => Popping(o) \subseteq Popping(o)'
    <3>1. \A o \in Queue : /\ "writer" \notin Pushing(o)
                           /\ o # "result" => "writer" \notin Popping(o)
      BY <1>0, <2>1, PoppingOne
    <3>2. \A o \in Queue : /\ Pushing(o) \ {"writer"} \subseteq Pushing(o)'
                           /\ Popping(o) \ {"writer"} \subseteq Popping(o)'
      BY <1>0, <2>1, <2>3, Movement
    <3> QED
      BY <3>1, <3>2
  <2>5. \A o \in Queue \ {"result"} :
          Served(Popping(o), emptyWait[o], Pushing(o), fullWait[o], Len(items[o]), closed[o])'
    BY <2>1, <2>3, <2>4, OthersServed DEF AllServed, queueVars
  <2>6. Served(Popping("result"), emptyWait["result"], Pushing("result"), fullWait["result"],
               Len(items["result"]), closed["result"])'
    <3> DEFINE n == Len(items["result"])
    <3>1. /\ Woken(Pushing("result"), fullWait["result"], Capacity - n) /\ n \in Int
          /\ (closed["result"] => fullWait["result"] = {}) /\ Capacity - n \in Int
      BY <1>0, <2>3, CapacityAssumption DEF AllServed, Served
    <3>2. {} \in SUBSET (Popping("result")')
      OBVIOUS
    <3>3. IsFiniteSet(Popping("result")') /\ IsFiniteSet(Pushing("result")')
      BY <1>0, RolesFinite
    <3>4. Woken(Popping("result")', {}, n)
      BY <3>1, <3>2, <3>3, NothingWoken
    <3>5. Woken(Pushing("result")', fullWait["result"], Capacity - n)
      BY <1>0, <2>4, <3>1, <3>3, MoreWoken
    <3> QED
      BY <2>1, <2>2, <3>1, <3>4, <3>5 DEF Served, queueVars
  <2> QED
    BY <2>1, <2>2, <2>5, <2>6 DEF AllServed, queueVars
<1>14. CASE Finish \/ UNCHANGED vars
  <2>1. UNCHANGED queueVars /\ pc' = pc /\ outputOpens' = outputOpens
    BY <1>14 DEF Finish, vars, queueVars, files
  <2>2. /\ pc \in [Thread -> Label] /\ "writer" \in Thread
        /\ \A o \in Queue : items[o] \in Seq(Item)
    BY Threads DEF Inv, QueuesTyped
  <2>3. \A o \in Queue : Pushing(o)' = Pushing(o) /\ Popping(o)' = Popping(o)
    BY <1>0, <2>1, <2>2, Movement
  <2> QED
    BY <2>1, <2>2, <2>3, OthersServed DEF AllServed, queueVars
<1> QED
  BY <1>1, <1>2, <1>3, <1>4, <1>5, <1>6, <1>7, <1>8, <1>9, <1>10, <1>11, <1>12, <1>13, <1>14
     DEF Next, ReaderStep, RulesStep, AggregatorStep, WriterStep, ParserStep

\* One notification per item and per place is enough: as long as threads wait
\* for items there are as many awake ones about to take as there are items,
\* and the same for places; nobody waits on a closed queue.
THEOREM WaitersServed == Spec => []NoLostWakeup
<1>1. AllServed => NoLostWakeup
  BY DEF AllServed, Served, Woken, NoLostWakeup
<1> QED
  BY <1>1, InitInv, InitTyped, InitServed, StepInv, StepTyped, StepServed, PTL DEF Spec

-----------------------------------------------------------------------------
\* No event is lost.

\* A thread takes an event in hand, or hands it on.
LEMMA HandsFull ==
    ASSUME pc \in [Thread -> Label], NEW t \in Thread, NEW label \in Label,
           pc' = [pc EXCEPT ![t] = label], NEW q \in Queue
    PROVE  /\ Cardinality(Pushing(q)) \in Nat
           /\ t \notin Producers[q] \/ (pc[t] = "give" <=> label = "give") =>
                Pushing(q)' = Pushing(q)
           /\ t \in Producers[q] /\ pc[t] # "give" /\ label = "give" =>
                Cardinality(Pushing(q)') = Cardinality(Pushing(q)) + 1
           /\ t \in Producers[q] /\ pc[t] = "give" /\ label # "give" =>
                Cardinality(Pushing(q)') = Cardinality(Pushing(q)) - 1
<1>1. IsFiniteSet(Pushing(q)) /\ Cardinality(Pushing(q)) \in Nat
  BY RolesFinite, FS_CardinalityType
<1>2. Producers[q] \subseteq Thread
  BY Roles
<1>3. t \notin Producers[q] \/ (pc[t] = "give" <=> label = "give") => Pushing(q)' = Pushing(q)
  BY <1>2 DEF Pushing, Producers
<1>4. ASSUME t \in Producers[q], pc[t] # "give", label = "give"
      PROVE  Cardinality(Pushing(q)') = Cardinality(Pushing(q)) + 1
  <2>1. Pushing(q)' = Pushing(q) \cup {t} /\ t \notin Pushing(q)
    BY <1>2, <1>4 DEF Pushing, Producers
  <2> QED
    BY <1>1, <2>1, FS_AddElement
<1>5. ASSUME t \in Producers[q], pc[t] = "give", label # "give"
      PROVE  Cardinality(Pushing(q)') = Cardinality(Pushing(q)) - 1
  <2>1. Pushing(q)' = Pushing(q) \ {t} /\ t \in Pushing(q)
    BY <1>2, <1>5 DEF Pushing, Producers
  <2> QED
    BY <1>1, <2>1, FS_RemoveElement
<1> QED
  BY <1>1, <1>3, <1>4, <1>5

\* A step that hands no event on keeps the account.
LEMMA ConservedKept ==
    ASSUME Inv, Conserved, NEW t \in Thread, NEW label \in Label,
           \/ pc' = pc
           \/ /\ pc' = [pc EXCEPT ![t] = label]
              /\ t \notin Parser \cup {"rules"} \/ (pc[t] # "give" /\ label # "give"),
           UNCHANGED <<sequence, metrics>>,
           \A q \in {"raw", "parsed", "enriched"} : items'[q] = items[q]
    PROVE  Conserved'
<1>1. Pushing("parsed")' = Pushing("parsed") /\ Pushing("enriched")' = Pushing("enriched")
  BY Threads DEF Inv, Pushing, Producers
<1> QED
  BY <1>1 DEF Conserved

LEMMA InitConserved == Init => Conserved
<1> SUFFICES ASSUME Init
             PROVE  Conserved
  OBVIOUS
<1>1. /\ Pushing("parsed") = {} /\ Pushing("enriched") = {}
  BY Threads DEF Init, Pushing, Producers
<1>2. /\ items["raw"] = <<>> /\ items["parsed"] = <<>> /\ items["enriched"] = <<>>
      /\ Len(<<>>) = 0 /\ Cardinality({}) = 0
  BY PipelineAssumption, FS_EmptySet DEF Init, QueueInit
<1>3. /\ sequence = 0 /\ metrics.read = 0 /\ metrics.parsed = 0 /\ metrics.invalid = 0
      /\ metrics.filtered = 0 /\ metrics.aggregated = 0
  BY DEF Init
<1>4. Len(items["raw"]) = 0 /\ Len(items["parsed"]) = 0 /\ Len(items["enriched"]) = 0
  BY <1>2
<1>5. Cardinality(Pushing("parsed")) = 0 /\ Cardinality(Pushing("enriched")) = 0
  BY <1>1, <1>2
<1>6. metrics.read = sequence /\ sequence = Len(items["raw"]) + metrics.parsed + metrics.invalid
  BY <1>3, <1>4
<1>7. metrics.parsed = Cardinality(Pushing("parsed")) + Len(items["parsed"])
                        + metrics.filtered + Cardinality(Pushing("enriched"))
                        + Len(items["enriched"]) + metrics.aggregated
  BY <1>3, <1>4, <1>5
<1> QED
  BY <1>6, <1>7 DEF Conserved

\* No push is refused.
LEMMA NeverRefused ==
    ASSUME Inv, NEW q \in Queue, NEW t \in Producers[q], pc[t] = "give"
    PROVE  ~PushRefused(q, t)
<1>1. ~closed[q]
  BY PipelineAssumption DEF Inv, Producers, Active, Working
<1> QED
  BY <1>1 DEF PushRefused

\* The numbers of the account are natural.
LEMMA AccountNatural ==
    ASSUME QueuesTyped, LocalsTyped
    PROVE  /\ sequence \in Nat /\ metrics.read \in Nat /\ metrics.parsed \in Nat
           /\ metrics.invalid \in Nat /\ metrics.filtered \in Nat /\ metrics.aggregated \in Nat
           /\ Len(items["raw"]) \in Nat /\ Len(items["parsed"]) \in Nat
           /\ Len(items["enriched"]) \in Nat
           /\ Cardinality(Pushing("parsed")) \in Nat /\ Cardinality(Pushing("enriched")) \in Nat
<1>1. sequence \in Nat /\ \A c \in Counters : metrics[c] \in Nat
  BY DEF LocalsTyped
<1>2. "raw" \in Queue /\ "parsed" \in Queue /\ "enriched" \in Queue
  BY PipelineAssumption
<1>3. \A q \in Queue : Len(items[q]) \in Nat
  BY DEF QueuesTyped
<1>4. Cardinality(Pushing("parsed")) \in Nat /\ Cardinality(Pushing("enriched")) \in Nat
  BY <1>2, RolesFinite, FS_CardinalityType
<1> QED
  BY <1>1, <1>2, <1>3, <1>4 DEF Counters

\* The account in two sums.
Sum3(n, a, b, c) == n = a + b + c
Sum6(n, a, b, c, d, e, f) == n = a + b + c + d + e + f

LEMMA Sum3Steps ==
    ASSUME NEW n \in Nat, NEW a \in Nat, NEW b \in Nat, NEW c \in Nat, Sum3(n, a, b, c)
    PROVE  /\ Sum3(n + 1, a + 1, b, c)
           /\ Sum3(n, a - 1, b + 1, c) /\ Sum3(n, a - 1, b, c + 1)
           /\ b <= n /\ c <= n
BY DEF Sum3

LEMMA Sum6Steps ==
    ASSUME NEW n \in Nat, NEW a \in Nat, NEW b \in Nat, NEW c \in Nat, NEW d \in Nat,
           NEW e \in Nat, NEW f \in Nat, Sum6(n, a, b, c, d, e, f)
    PROVE  /\ Sum6(n + 1, a + 1, b, c, d, e, f)
           /\ Sum6(n, a - 1, b + 1, c, d, e, f)
           /\ Sum6(n, a, b - 1, c + 1, d, e, f) /\ Sum6(n, a, b - 1, c, d + 1, e, f)
           /\ Sum6(n, a, b, c, d - 1, e + 1, f) /\ Sum6(n, a, b, c, d, e - 1, f + 1)
           /\ c <= n /\ f <= n
BY DEF Sum6

LEMMA Account ==
    Conserved <=>
        /\ metrics.read = sequence
        /\ Sum3(sequence, Len(items["raw"]), metrics.parsed, metrics.invalid)
        /\ Sum6(metrics.parsed, Cardinality(Pushing("parsed")), Len(items["parsed"]),
                metrics.filtered, Cardinality(Pushing("enriched")), Len(items["enriched"]),
                metrics.aggregated)
BY DEF Conserved, Sum3, Sum6

\* And after a step.
LEMMA AccountNext ==
    Conserved' <=>
        /\ metrics'.read = sequence'
        /\ Sum3(sequence', Len(items'["raw"]), metrics'.parsed, metrics'.invalid)
        /\ Sum6(metrics'.parsed, Cardinality(Pushing("parsed")'), Len(items'["parsed"]),
                metrics'.filtered, Cardinality(Pushing("enriched")'), Len(items'["enriched"]),
                metrics'.aggregated)
BY DEF Conserved, Sum3, Sum6

LEMMA StepConserved == Inv /\ Typed /\ Conserved /\ [Next]_vars => Conserved'
<1> SUFFICES ASSUME Inv, Typed, Conserved, [Next]_vars
             PROVE  Conserved'
  OBVIOUS
<1> USE DEF Typed
<1> DEFINE m == metrics
           g == Cardinality(Pushing("parsed"))
           h == Cardinality(Pushing("enriched"))
           q == Len(items["parsed"])
           e == Len(items["enriched"])
<1>0. /\ pc \in [Thread -> Label] /\ Label = {"take", "give", "leave", "close", "done"}
      /\ Queue = {"raw", "parsed", "enriched", "result"}
      /\ metrics \in [Counters -> Nat] /\ sequence \in Nat
      /\ "reader" \in Producers["raw"] /\ Producers["parsed"] = Parser
      /\ Producers["enriched"] = {"rules"} /\ "aggregator" \in Producers["result"]
  BY PipelineAssumption DEF Inv, Label, LocalsTyped, Producers
<1>1. ASSUME NEW t \in Thread, NEW o \in Queue, NEW label \in Label,
             \/ pc' = pc
             \/ /\ pc' = [pc EXCEPT ![t] = label]
                /\ t \notin Parser \cup {"rules"} \/ (pc[t] # "give" /\ label # "give"),
             UNCHANGED <<sequence, metrics>>,
             \/ PushWait(o, t) \/ PushRefused(o, t) \/ PopWait(o, t) \/ PopEnd(o, t)
             \/ Close(o) \/ UNCHANGED queueVars
      PROVE  Conserved'
  <2>1. items' = items
    BY <1>1 DEF PushWait, PushRefused, PopWait, PopEnd, Close, queueVars
  <2> QED
    BY <1>1, <2>1, ConservedKept
<1>2. CASE ReaderPushes
  <2>1. CASE Push("raw", "reader", sequence + 1) /\ sequence' = sequence + 1
             /\ Count("read") /\ UNCHANGED pc
    <3>1. /\ Len(items'["raw"]) = Len(items["raw"]) + 1
          /\ items'["parsed"] = items["parsed"] /\ items'["enriched"] = items["enriched"]
      BY <1>0, <2>1, PushFacts DEF Item
    <3>2. /\ metrics'.read = metrics.read + 1 /\ metrics'.parsed = metrics.parsed
          /\ metrics'.invalid = metrics.invalid /\ metrics'.filtered = metrics.filtered
          /\ metrics'.aggregated = metrics.aggregated
      BY <1>0, <2>1 DEF Count, Counters
    <3>3. Pushing("parsed")' = Pushing("parsed") /\ Pushing("enriched")' = Pushing("enriched")
      BY <2>1 DEF Pushing, Producers
    <3>8. Sum3(sequence', Len(items'["raw"]), metrics'.parsed, metrics'.invalid)
      BY <2>1, <3>1, <3>2, <3>3, AccountNatural, Account, Sum3Steps, SMTT(30)
    <3>9. Sum6(m.parsed, g, q, m.filtered, h, e, m.aggregated)
      BY AccountNatural, Account, Sum6Steps
    <3>10. Sum6(metrics'.parsed, Cardinality(Pushing("parsed")'), Len(items'["parsed"]),
               metrics'.filtered, Cardinality(Pushing("enriched")'), Len(items'["enriched"]),
               metrics'.aggregated)
      BY <2>1, <3>1, <3>2, <3>3, <3>9
    <3> QED
      BY <2>1, <3>1, <3>2, <3>3, <3>8, <3>10, Account, AccountNext
  <2>2. CASE \/ Waits(PushWait("raw", "reader"))
             \/ /\ PushRefused("raw", "reader") /\ Goto("reader", "close")
                /\ UNCHANGED <<sequence, metrics>>
    BY <1>0, <1>1, <2>2, Threads DEF Waits, localVars, Goto
  <2> QED
    BY <1>2, <2>1, <2>2 DEF ReaderPushes
<1>3. CASE ReaderEnds
  BY <1>0, <1>1, <1>3, Threads DEF ReaderEnds, Goto
<1>4. ASSUME NEW p \in Parser, ParserTakes(p)
      PROVE  Conserved'
  <2>1. CASE Pop("raw", p)
    <3>1. /\ Len(items'["raw"]) = Len(items["raw"]) - 1
          /\ items'["parsed"] = items["parsed"] /\ items'["enriched"] = items["enriched"]
      BY <1>0, <2>1, PopFacts
    <3>2. /\ sequence' = sequence /\ pc[p] = "take"
          /\ \/ pc' = [pc EXCEPT ![p] = "give"] /\ Count("parsed")
             \/ Count("invalid") /\ UNCHANGED pc
      BY <1>4, <2>1 DEF ParserTakes, Waits, PopWait, PopEnd, Pop, Goto
        <3>4. CASE Count("invalid") /\ UNCHANGED pc
      <4>1. /\ metrics'.invalid = metrics.invalid + 1 /\ metrics'.parsed = metrics.parsed
            /\ metrics'.read = metrics.read /\ metrics'.filtered = metrics.filtered
            /\ metrics'.aggregated = metrics.aggregated
        BY <1>0, <3>4 DEF Count, Counters
      <4>2. Pushing("parsed")' = Pushing("parsed") /\ Pushing("enriched")' = Pushing("enriched")
        BY <3>4 DEF Pushing, Producers
      <4>8. Sum3(sequence', Len(items'["raw"]), metrics'.parsed, metrics'.invalid)
        BY <3>1, <3>2, <4>1, <4>2, AccountNatural, Account, Sum3Steps
      <4>9. Sum6(m.parsed, g, q, m.filtered, h, e, m.aggregated)
        BY AccountNatural, Account, Sum6Steps
      <4>10. Sum6(metrics'.parsed, Cardinality(Pushing("parsed")'), Len(items'["parsed"]),
                 metrics'.filtered, Cardinality(Pushing("enriched")'), Len(items'["enriched"]),
                 metrics'.aggregated)
        BY <3>1, <3>2, <4>1, <4>2, <4>9
      <4> QED
        BY <3>1, <3>2, <4>1, <4>2, <4>8, <4>10, Account, AccountNext
    <3>5. CASE pc' = [pc EXCEPT ![p] = "give"] /\ Count("parsed")
      <4>1. /\ metrics'.parsed = metrics.parsed + 1 /\ metrics'.invalid = metrics.invalid
            /\ metrics'.read = metrics.read /\ metrics'.filtered = metrics.filtered
            /\ metrics'.aggregated = metrics.aggregated
        BY <1>0, <3>5 DEF Count, Counters
      <4>2. /\ Cardinality(Pushing("parsed")') = Cardinality(Pushing("parsed")) + 1
            /\ Pushing("enriched")' = Pushing("enriched")
        BY <1>0, <3>2, <3>5, HandsFull, Threads
      <4>8. Sum3(sequence', Len(items'["raw"]), metrics'.parsed, metrics'.invalid)
        BY <3>1, <3>2, <4>1, <4>2, AccountNatural, Account, Sum3Steps, SMTT(30)
      <4>9. Sum6(m.parsed + 1, g + 1, q, m.filtered, h, e, m.aggregated)
        BY AccountNatural, Account, Sum6Steps
      <4>10. Sum6(metrics'.parsed, Cardinality(Pushing("parsed")'), Len(items'["parsed"]),
                 metrics'.filtered, Cardinality(Pushing("enriched")'), Len(items'["enriched"]),
                 metrics'.aggregated)
        BY <3>1, <3>2, <4>1, <4>2, <4>9
      <4> QED
        BY <3>1, <3>2, <4>1, <4>2, <4>8, <4>10, Account, AccountNext
    <3> QED
      BY <3>2, <3>4, <3>5
  <2>2. CASE \/ Waits(PopWait("raw", p))
             \/ /\ PopEnd("raw", p) /\ Goto(p, "leave")
                /\ UNCHANGED <<sequence, metrics>>
    <3>1. pc[p] = "take" /\ p \in Thread
      BY <1>4, Threads DEF ParserTakes
    <3> QED
      BY <1>0, <1>1, <2>2, <3>1 DEF Waits, localVars, Goto
  <2> QED
    BY <1>4, <2>1, <2>2 DEF ParserTakes
<1>5. ASSUME NEW p \in Parser, ParserGives(p)
      PROVE  Conserved'
  <2>1. UNCHANGED <<sequence, metrics>> /\ pc[p] = "give" /\ p \in Thread
    BY <1>5, Threads DEF ParserGives
  <2>2. CASE Push("parsed", p, held[p]) /\ Goto(p, "take")
    <3>1. held[p] \in Item
      BY <2>1 DEF LocalsTyped, Item
    <3>2. /\ Len(items'["parsed"]) = Len(items["parsed"]) + 1
          /\ items'["raw"] = items["raw"] /\ items'["enriched"] = items["enriched"]
      BY <1>0, <2>2, <3>1, PushFacts
    <3>3. /\ Cardinality(Pushing("parsed")') = Cardinality(Pushing("parsed")) - 1
          /\ Pushing("enriched")' = Pushing("enriched")
      BY <1>0, <2>1, <2>2, HandsFull, Threads DEF Goto
    <3>8. Sum3(sequence', Len(items'["raw"]), metrics'.parsed, metrics'.invalid)
      BY <2>1, <3>2, <3>3, AccountNatural, Account, Sum3Steps
    <3>9. Sum6(m.parsed, g - 1, q + 1, m.filtered, h, e, m.aggregated)
      BY AccountNatural, Account, Sum6Steps
    <3>10. Sum6(metrics'.parsed, Cardinality(Pushing("parsed")'), Len(items'["parsed"]),
               metrics'.filtered, Cardinality(Pushing("enriched")'), Len(items'["enriched"]),
               metrics'.aggregated)
      BY <2>1, <3>2, <3>3, <3>9
    <3> QED
      BY <2>1, <3>2, <3>3, <3>8, <3>10, Account, AccountNext
  <2>3. CASE PushWait("parsed", p) /\ UNCHANGED pc
    BY <1>0, <1>1, <2>1, <2>3
  <2> QED
    BY <1>0, <1>5, <2>1, <2>2, <2>3, NeverRefused DEF ParserGives
<1>6. ASSUME NEW p \in Parser, ParserLeaves(p) \/ ParserCloses(p)
      PROVE  Conserved'
  <2>1. /\ UNCHANGED <<sequence, metrics>> /\ pc[p] # "give" /\ p \in Thread
        /\ \E label \in {"close", "done"} : pc' = [pc EXCEPT ![p] = label]
        /\ Close("parsed") \/ UNCHANGED queueVars
    BY <1>6, Threads DEF ParserLeaves, ParserCloses, Goto
  <2> QED
    BY <1>0, <1>1, <2>1
<1>7. CASE RulesTakes
  <2>1. CASE Pop("parsed", "rules")
    <3>1. /\ Len(items'["parsed"]) = Len(items["parsed"]) - 1
          /\ items'["raw"] = items["raw"] /\ items'["enriched"] = items["enriched"]
      BY <1>0, <2>1, PopFacts
    <3>2. /\ sequence' = sequence /\ pc["rules"] = "take"
          /\ \/ pc' = [pc EXCEPT !["rules"] = "give"] /\ metrics' = metrics
             \/ Count("filtered") /\ UNCHANGED pc
      BY <1>7, <2>1 DEF RulesTakes, Waits, PopWait, PopEnd, Pop, Goto
        <3>4. CASE Count("filtered") /\ UNCHANGED pc
      <4>1. /\ metrics'.filtered = metrics.filtered + 1 /\ metrics'.parsed = metrics.parsed
            /\ metrics'.read = metrics.read /\ metrics'.invalid = metrics.invalid
            /\ metrics'.aggregated = metrics.aggregated
        BY <1>0, <3>4 DEF Count, Counters
      <4>2. Pushing("parsed")' = Pushing("parsed") /\ Pushing("enriched")' = Pushing("enriched")
        BY <3>4 DEF Pushing, Producers
      <4>8. Sum3(sequence', Len(items'["raw"]), metrics'.parsed, metrics'.invalid)
        BY <3>1, <3>2, <4>1, <4>2, AccountNatural, Account, Sum3Steps
      <4>9. Sum6(m.parsed, g, q - 1, m.filtered + 1, h, e, m.aggregated)
        BY AccountNatural, Account, Sum6Steps
      <4>10. Sum6(metrics'.parsed, Cardinality(Pushing("parsed")'), Len(items'["parsed"]),
                 metrics'.filtered, Cardinality(Pushing("enriched")'), Len(items'["enriched"]),
                 metrics'.aggregated)
        BY <3>1, <3>2, <4>1, <4>2, <4>9
      <4> QED
        BY <3>1, <3>2, <4>1, <4>2, <4>8, <4>10, Account, AccountNext
    <3>5. CASE pc' = [pc EXCEPT !["rules"] = "give"] /\ metrics' = metrics
      <4>1. /\ Cardinality(Pushing("enriched")') = Cardinality(Pushing("enriched")) + 1
            /\ Pushing("parsed")' = Pushing("parsed")
        BY <1>0, <3>2, <3>5, HandsFull, Threads
      <4>8. Sum3(sequence', Len(items'["raw"]), metrics'.parsed, metrics'.invalid)
        BY <3>1, <3>2, <3>5, <4>1, AccountNatural, Account, Sum3Steps
      <4>9. Sum6(m.parsed, g, q - 1, m.filtered, h + 1, e, m.aggregated)
        BY AccountNatural, Account, Sum6Steps
      <4>10. Sum6(metrics'.parsed, Cardinality(Pushing("parsed")'), Len(items'["parsed"]),
                 metrics'.filtered, Cardinality(Pushing("enriched")'), Len(items'["enriched"]),
                 metrics'.aggregated)
        BY <3>1, <3>2, <3>5, <4>1, <4>9
      <4> QED
        BY <3>1, <3>2, <3>5, <4>1, <4>8, <4>10, Account, AccountNext
    <3> QED
      BY <3>2, <3>4, <3>5
  <2>2. CASE \/ Waits(PopWait("parsed", "rules"))
             \/ /\ PopEnd("parsed", "rules") /\ Goto("rules", "close")
                /\ UNCHANGED <<sequence, metrics>>
    <3>1. pc["rules"] = "take" /\ "rules" \in Thread
      BY <1>7, Threads DEF RulesTakes
    <3> QED
      BY <1>0, <1>1, <2>2, <3>1 DEF Waits, localVars, Goto
  <2> QED
    BY <1>7, <2>1, <2>2 DEF RulesTakes
<1>8. CASE RulesGives
  <2>1. UNCHANGED <<sequence, metrics>> /\ pc["rules"] = "give" /\ "rules" \in Thread
    BY <1>8, Threads DEF RulesGives
  <2>2. CASE Push("enriched", "rules", held["rules"]) /\ Goto("rules", "take")
    <3>1. held["rules"] \in Item
      BY <2>1 DEF LocalsTyped, Item
    <3>2. /\ Len(items'["enriched"]) = Len(items["enriched"]) + 1
          /\ items'["raw"] = items["raw"] /\ items'["parsed"] = items["parsed"]
      BY <1>0, <2>2, <3>1, PushFacts
    <3>3. /\ Cardinality(Pushing("enriched")') = Cardinality(Pushing("enriched")) - 1
          /\ Pushing("parsed")' = Pushing("parsed")
      BY <1>0, <2>1, <2>2, HandsFull, Threads DEF Goto
    <3>8. Sum3(sequence', Len(items'["raw"]), metrics'.parsed, metrics'.invalid)
      BY <2>1, <3>2, <3>3, AccountNatural, Account, Sum3Steps
    <3>9. Sum6(m.parsed, g, q, m.filtered, h - 1, e + 1, m.aggregated)
      BY AccountNatural, Account, Sum6Steps
    <3>10. Sum6(metrics'.parsed, Cardinality(Pushing("parsed")'), Len(items'["parsed"]),
               metrics'.filtered, Cardinality(Pushing("enriched")'), Len(items'["enriched"]),
               metrics'.aggregated)
      BY <2>1, <3>2, <3>3, <3>9
    <3> QED
      BY <2>1, <3>2, <3>3, <3>8, <3>10, Account, AccountNext
  <2>3. CASE PushWait("enriched", "rules") /\ UNCHANGED pc
    BY <1>0, <1>1, <2>1, <2>3
  <2> QED
    BY <1>0, <1>8, <2>1, <2>2, <2>3, NeverRefused DEF RulesGives
<1>9. CASE RulesCloses
  <2>1. /\ UNCHANGED <<sequence, metrics>> /\ pc["rules"] = "close" /\ "rules" \in Thread
        /\ pc' = [pc EXCEPT !["rules"] = "done"] /\ Close("enriched")
    BY <1>9, Threads DEF RulesCloses, Goto
  <2> QED
    BY <1>0, <1>1, <2>1
<1>10. CASE AggregatorTakes
  <2>1. CASE Pop("enriched", "aggregator")
    <3>1. /\ Len(items'["enriched"]) = Len(items["enriched"]) - 1
          /\ items'["raw"] = items["raw"] /\ items'["parsed"] = items["parsed"]
      BY <1>0, <2>1, PopFacts
    <3>2. UNCHANGED <<sequence, pc>> /\ Count("aggregated")
      BY <1>10, <2>1 DEF AggregatorTakes, Waits, PopWait, PopEnd, Pop, Goto
        <3>4. /\ metrics'.aggregated = metrics.aggregated + 1 /\ metrics'.parsed = metrics.parsed
          /\ metrics'.read = metrics.read /\ metrics'.invalid = metrics.invalid
          /\ metrics'.filtered = metrics.filtered
      BY <1>0, <3>2 DEF Count, Counters
    <3>5. Pushing("parsed")' = Pushing("parsed") /\ Pushing("enriched")' = Pushing("enriched")
      BY <3>2 DEF Pushing, Producers
    <3>8. Sum3(sequence', Len(items'["raw"]), metrics'.parsed, metrics'.invalid)
      BY <3>1, <3>2, <3>4, <3>5, AccountNatural, Account, Sum3Steps
    <3>9. Sum6(m.parsed, g, q, m.filtered, h, e - 1, m.aggregated + 1)
      BY AccountNatural, Account, Sum6Steps
    <3>10. Sum6(metrics'.parsed, Cardinality(Pushing("parsed")'), Len(items'["parsed"]),
               metrics'.filtered, Cardinality(Pushing("enriched")'), Len(items'["enriched"]),
               metrics'.aggregated)
      BY <3>1, <3>2, <3>4, <3>5, <3>9
    <3> QED
      BY <3>1, <3>2, <3>4, <3>5, <3>8, <3>10, Account, AccountNext
  <2>2. CASE \/ Waits(PopWait("enriched", "aggregator"))
             \/ /\ PopEnd("enriched", "aggregator") /\ Goto("aggregator", "give")
                /\ UNCHANGED <<sequence, metrics>>
    <3>1. "aggregator" \in Thread /\ "aggregator" \notin Parser \cup {"rules"}
      BY Threads
    <3> QED
      BY <1>0, <1>1, <2>2, <3>1 DEF Waits, localVars, Goto
  <2> QED
    BY <1>10, <2>1, <2>2 DEF AggregatorTakes
<1>11. CASE AggregatorGives \/ AggregatorCloses
  <2>1. /\ UNCHANGED <<sequence, metrics>>
        /\ "aggregator" \in Thread /\ "aggregator" \notin Parser \cup {"rules"}
        /\ pc' = pc \/ \E label \in {"close", "done"} : pc' = [pc EXCEPT !["aggregator"] = label]
    BY <1>11, Threads DEF AggregatorGives, AggregatorCloses, Goto
  <2>2. \A o \in {"raw", "parsed", "enriched"} : items'[o] = items[o]
    BY <1>0, <1>11
       DEF AggregatorGives, AggregatorCloses, Push, PushWait, PushRefused, Close, queueVars,
           QueuesTyped
  <2> QED
    BY <1>0, <2>1, <2>2, ConservedKept
<1>12. CASE WriterTakes \/ WriterFails \/ Finish \/ UNCHANGED vars
  <2>1. /\ UNCHANGED <<sequence, metrics>>
        /\ "writer" \in Thread /\ "writer" \notin Parser \cup {"rules"}
        /\ pc' = pc \/ pc' = [pc EXCEPT !["writer"] = "done"]
    BY <1>0, <1>12, Threads DEF WriterTakes, WriterFails, Finish, vars, Waits, localVars, Goto
  <2>2. \A o \in {"raw", "parsed", "enriched"} : items'[o] = items[o]
    BY <1>0, <1>12
       DEF WriterTakes, WriterFails, Finish, vars, Waits, Pop, PopWait, PopEnd, queueVars,
           QueuesTyped
  <2> QED
    BY <1>0, <2>1, <2>2, ConservedKept
<1> QED
  BY <1>2, <1>3, <1>4, <1>5, <1>6, <1>7, <1>8, <1>9, <1>10, <1>11, <1>12
     DEF Next, ReaderStep, RulesStep, AggregatorStep, WriterStep, ParserStep

\* No event is lost or doubled, whatever the interleaving: the counters add
\* up to the lines read.
THEOREM EventsConserved == Spec => []Conserved
BY InitInv, InitTyped, InitConserved, StepInv, StepTyped, StepConserved, PTL DEF Spec

\* Queues keep to their capacity, only their own threads wait on them, and
\* no counter exceeds the lines of the input.
THEOREM TypesCorrect == Spec => []TypeOK
<1>1. Inv /\ Typed /\ AllServed /\ Conserved => TypeOK
  <2> SUFFICES ASSUME Inv, Typed, AllServed, Conserved
               PROVE  TypeOK
    OBVIOUS
  <2> USE DEF Typed
  <2>1. ASSUME NEW q \in Queue, q # "result", NEW n \in DOMAIN items[q]
        PROVE  items[q][n] \in 1 .. sequence
    <3>1. items[q][n] \in Events[q]
      BY DEF QueuesTyped, ToSet
    <3>2. q \in {"raw", "parsed", "enriched"}
      BY <2>1, PipelineAssumption
    <3>3. Events[q] \subseteq 1 .. sequence
      <4>1. CASE q = "raw"
        BY <4>1 DEF Events
      <4>2. CASE q = "parsed"
        BY <4>2 DEF Events
      <4>3. CASE q = "enriched"
        BY <4>3 DEF Events
      <4> QED
        BY <3>2, <4>1, <4>2, <4>3
    <3> QED
      BY <3>1, <3>3
  <2>2. \A q \in Queue : /\ Capacity # 0 => Len(items[q]) <= Capacity
                         /\ emptyWait[q] \subseteq Popping(q) /\ fullWait[q] \subseteq Pushing(q)
    BY DEF AllServed, Served, Woken, QueuesTyped
  <2>3. active_parsers \in 0 .. Cardinality(Parser)
    <3>1. Active \in SUBSET Parser
      BY DEF Active
    <3> QED
      BY <3>1, PipelineAssumption, FS_Subset, FS_CardinalityType DEF Inv
  <2>4. metrics \in [Counters -> 0 .. Len(input)]
    <3>1. /\ \A q \in Queue : Cardinality(Pushing(q)) \in Nat /\ Len(items[q]) \in Nat
          /\ Queue = {"raw", "parsed", "enriched", "result"}
      BY RolesFinite, FS_CardinalityType, PipelineAssumption, SMTT(30) DEF QueuesTyped
    <3>2. \A c \in Counters : metrics[c] \in Nat
      BY DEF LocalsTyped
    <3>3. sequence \in Nat /\ sequence <= Len(input) /\ Len(input) \in Nat
      BY DEF LocalsTyped
    <3>4. metrics.parsed <= sequence /\ metrics.invalid <= sequence /\ metrics.read = sequence
      BY AccountNatural, Account, Sum3Steps
    <3>5. metrics.filtered <= metrics.parsed /\ metrics.aggregated <= metrics.parsed
      BY AccountNatural, Account, Sum6Steps
    <3>6. \A c \in Counters : metrics[c] \in 0 .. Len(input)
      BY <3>2, <3>3, <3>4, <3>5 DEF Counters
    <3> QED
      BY <3>6 DEF LocalsTyped
  <2>5. DOMAIN stats = ToSet(order) /\ sequence \in 0 .. Len(input)
    BY DEF LocalsTyped
  <2> QED
    BY <2>1, <2>2, <2>3, <2>4, <2>5 DEF TypeOK, Inv, Label
<1> QED
  BY <1>1, InitInv, InitTyped, InitServed, InitConserved, StepInv, StepTyped, StepServed,
     StepConserved, PTL DEF Spec

-----------------------------------------------------------------------------
\* Where the events are.

Apart(f) == \A l, m \in DOMAIN f : l # m => f[l] \cap f[m] = {}
InPlaces(f) == UNION {f[l] : l \in DOMAIN f}

LEMMA MovedApart ==
    ASSUME NEW f, NEW g, DOMAIN g = DOMAIN f, Apart(f),
           NEW a \in DOMAIN f, NEW b \in DOMAIN f, a # b, NEW i \in f[a],
           g[a] = f[a] \ {i}, g[b] = f[b] \cup {i}, \A l \in DOMAIN f \ {a, b} : g[l] = f[l]
    PROVE  Apart(g) /\ InPlaces(g) = InPlaces(f)
<1>1. \A l \in DOMAIN f \ {a, b} : i \notin f[l]
  BY DEF Apart
<1>2. Apart(g)
  BY <1>1 DEF Apart
<1>3. InPlaces(g) \subseteq InPlaces(f)
  BY DEF InPlaces
<1>4. InPlaces(f) \subseteq InPlaces(g)
  <2> SUFFICES ASSUME NEW l \in DOMAIN f, NEW j \in f[l]
               PROVE  \E m \in DOMAIN g : j \in g[m]
    BY DEF InPlaces
  <2>1. CASE j = i
    BY <2>1
  <2>2. CASE j # i
    BY <2>2
  <2> QED
    BY <2>1, <2>2
<1> QED
  BY <1>2, <1>3, <1>4

LEMMA GoneApart ==
    ASSUME NEW f, NEW g, DOMAIN g = DOMAIN f, Apart(f), NEW a \in DOMAIN f, NEW i \in f[a],
           g[a] = f[a] \ {i}, \A l \in DOMAIN f \ {a} : g[l] = f[l]
    PROVE  Apart(g) /\ InPlaces(g) = InPlaces(f) \ {i} /\ i \in InPlaces(f)
<1>1. \A l \in DOMAIN f \ {a} : i \notin f[l]
  BY DEF Apart
<1>2. Apart(g)
  BY DEF Apart
<1>3. InPlaces(g) \subseteq InPlaces(f) \ {i}
  BY <1>1 DEF InPlaces
<1>4. InPlaces(f) \ {i} \subseteq InPlaces(g)
  BY DEF InPlaces
<1> QED
  BY <1>2, <1>3, <1>4 DEF InPlaces

LEMMA FreshApart ==
    ASSUME NEW f, NEW g, DOMAIN g = DOMAIN f, Apart(f), NEW a \in DOMAIN f, NEW i,
           i \notin InPlaces(f), g[a] = f[a] \cup {i}, \A l \in DOMAIN f \ {a} : g[l] = f[l]
    PROVE  Apart(g) /\ InPlaces(g) = InPlaces(f) \cup {i}
<1>1. \A l \in DOMAIN f : i \notin f[l]
  BY DEF InPlaces
<1>2. Apart(g)
  BY <1>1 DEF Apart
<1> QED
  BY <1>2 DEF InPlaces

Stage == {"raw", "parsed", "enriched"}
Worker == Parser \cup {"rules"}
Place == ({"queue"} \X Stage) \cup ({"hand"} \X Worker)

\* The events in each queue, and in each hand.
where ==
    [l \in Place |->
        IF l[1] = "queue" THEN ToSet(items[l[2]])
        ELSE IF pc[l[2]] = "give" THEN {held[l[2]]} ELSE {}]

\* Every event is in one place, and there once.
OnePlace == Apart(where) /\ \A q \in Stage : Distinct(items[q])

LEMMA Places ==
    /\ DOMAIN where = Place /\ DOMAIN where' = Place
    /\ \A q \in Stage : /\ <<"queue", q>> \in Place
                        /\ where[<<"queue", q>>] = ToSet(items[q])
                        /\ where'[<<"queue", q>>] = ToSet(items'[q])
    /\ \A t \in Worker :
        /\ <<"hand", t>> \in Place
        /\ where[<<"hand", t>>] = IF pc[t] = "give" THEN {held[t]} ELSE {}
        /\ where'[<<"hand", t>>] = IF pc'[t] = "give" THEN {held'[t]} ELSE {}
    /\ \A l \in Place : \/ \E q \in Stage : l = <<"queue", q>>
                        \/ \E t \in Worker : l = <<"hand", t>>
    /\ \A q \in Stage, t \in Worker : <<"queue", q>> # <<"hand", t>>
    /\ Stage \subseteq Queue /\ Worker \subseteq Thread
<1>1. DOMAIN where = Place /\ DOMAIN where' = Place
  BY DEF where
<1>2. \A q \in Stage : <<"queue", q>> \in Place
  BY DEF Place
<1>3. \A t \in Worker : <<"hand", t>> \in Place
  BY DEF Place
<1>4. ASSUME NEW q \in Stage
      PROVE  /\ where[<<"queue", q>>] = ToSet(items[q])
             /\ where'[<<"queue", q>>] = ToSet(items'[q])
  BY <1>2 DEF where
<1>5. ASSUME NEW t \in Worker
      PROVE  /\ where[<<"hand", t>>] = IF pc[t] = "give" THEN {held[t]} ELSE {}
             /\ where'[<<"hand", t>>] = IF pc'[t] = "give" THEN {held'[t]} ELSE {}
  BY <1>3 DEF where
<1>6. \A l \in Place : \/ \E q \in Stage : l = <<"queue", q>>
                       \/ \E t \in Worker : l = <<"hand", t>>
  BY DEF Place
<1>7. Stage \subseteq Queue /\ Worker \subseteq Thread
  BY Threads, PipelineAssumption DEF Stage, Worker
<1> QED
  BY <1>1, <1>2, <1>3, <1>4, <1>5, <1>6, <1>7

\* A worker pushes the event in its hand.
LEMMA GivenOnce ==
    ASSUME Inv, Typed, OnePlace, held' = held, NEW q \in Stage, NEW t \in Worker,
           pc[t] = "give", Push(q, t, held[t]), pc' = [pc EXCEPT ![t] = "take"]
    PROVE  OnePlace' /\ InPlaces(where') = InPlaces(where)
<1> DEFINE a == <<"hand", t>>
           b == <<"queue", q>>
<1>1. held[t] \in Item /\ q \in Queue /\ t \in Thread /\ QueuesTyped /\ pc \in [Thread -> Label]
  BY Places DEF Typed, LocalsTyped, Item, Inv
<1>2. items[q] \in Seq(Item)
  BY <1>1 DEF QueuesTyped
<1>3. /\ items'[q] = Append(items[q], held[t])
      /\ \A o \in Stage \ {q} : items'[o] = items[o]
  BY <1>1, PushFacts, Places
<1>4. a \in DOMAIN where /\ b \in DOMAIN where /\ a # b /\ DOMAIN where' = DOMAIN where
  BY Places
<1>5. where[a] = {held[t]} /\ where'[a] = {} /\ where[b] = ToSet(items[q])
  BY <1>1, Places
<1>6. held[t] \notin ToSet(items[q])
  BY <1>4, <1>5 DEF OnePlace, Apart
<1>7. ToSet(items'[q]) = ToSet(items[q]) \cup {held[t]} /\ Distinct(items'[q])
  BY <1>1, <1>2, <1>3, <1>6, AppendItem DEF OnePlace
<1>8. where'[b] = where[b] \cup {held[t]}
  BY <1>5, <1>7, Places
<1>9. ASSUME NEW l \in DOMAIN where \ {a, b}
      PROVE  where'[l] = where[l]
  <2>1. CASE \E o \in Stage : l = <<"queue", o>>
    BY <1>3, <2>1, Places
  <2>2. CASE \E u \in Worker : l = <<"hand", u>>
    <3>1. PICK u \in Worker : l = <<"hand", u>>
      BY <2>2
    <3>2. u # t /\ pc'[u] = pc[u]
      BY <1>1, <3>1, Places
    <3> QED
      BY <3>1, <3>2, Places
  <2> QED
    BY <2>1, <2>2, Places
<1>10. where'[a] = where[a] \ {held[t]} /\ held[t] \in where[a]
  BY <1>5
<1>11. Apart(where') /\ InPlaces(where') = InPlaces(where)
  <2> HIDE DEF a, b
  <2> QED
    BY <1>4, <1>8, <1>9, <1>10, MovedApart DEF OnePlace
<1>12. \A o \in Stage : Distinct(items'[o])
  BY <1>3, <1>7 DEF OnePlace
<1> QED
  BY <1>11, <1>12 DEF OnePlace

\* A worker takes an event in hand.
LEMMA TakenOnce ==
    ASSUME Inv, Typed, OnePlace, NEW q \in Stage, NEW t \in Worker, pc[t] = "take", Pop(q, t),
           held' = [held EXCEPT ![t] = Head(items[q])], pc' = [pc EXCEPT ![t] = "give"]
    PROVE  OnePlace' /\ InPlaces(where') = InPlaces(where)
<1> DEFINE a == <<"queue", q>>
           b == <<"hand", t>>
           i == Head(items[q])
<1>1. /\ q \in Queue /\ t \in Thread /\ QueuesTyped /\ pc \in [Thread -> Label]
      /\ held \in [Thread -> Nat]
  BY Places DEF Typed, LocalsTyped, Inv
<1>2. items[q] \in Seq(Item) /\ items[q] # <<>> /\ items'[q] = Tail(items[q])
  BY <1>1, PopFacts
<1>3. \A o \in Stage \ {q} : items'[o] = items[o]
  BY <1>1, PopFacts, Places
<1>4. a \in DOMAIN where /\ b \in DOMAIN where /\ a # b /\ DOMAIN where' = DOMAIN where
  BY Places
<1>5. where[b] = {} /\ where'[b] = {i} /\ where[a] = ToSet(items[q])
  BY <1>1, Places
<1>6. /\ ToSet(items[q]) = ToSet(items'[q]) \cup {i} /\ i \notin ToSet(items'[q])
      /\ Distinct(items'[q])
  BY <1>2, TailItem DEF OnePlace
<1>7. where'[a] = where[a] \ {i} /\ i \in where[a]
  BY <1>5, <1>6, Places
<1>8. where'[b] = where[b] \cup {i}
  BY <1>5
<1>9. ASSUME NEW l \in DOMAIN where \ {a, b}
      PROVE  where'[l] = where[l]
  <2>1. CASE \E o \in Stage : l = <<"queue", o>>
    BY <1>3, <2>1, Places
  <2>2. CASE \E u \in Worker : l = <<"hand", u>>
    <3>1. PICK u \in Worker : l = <<"hand", u>>
      BY <2>2
    <3>2. u # t /\ pc'[u] = pc[u] /\ held'[u] = held[u]
      BY <1>1, <3>1, Places
    <3> QED
      BY <3>1, <3>2, Places
  <2> QED
    BY <2>1, <2>2, Places
<1>10. Apart(where') /\ InPlaces(where') = InPlaces(where)
  <2> HIDE DEF a, b, i
  <2> QED
    BY <1>4, <1>7, <1>8, <1>9, MovedApart DEF OnePlace
<1>11. \A o \in Stage : Distinct(items'[o])
  BY <1>3, <1>6 DEF OnePlace
<1> QED
  BY <1>10, <1>11 DEF OnePlace

\* An event is taken and accounted for at once.
LEMMA DroppedOnce ==
    ASSUME Inv, Typed, OnePlace, NEW q \in Stage, NEW t, Pop(q, t), held' = held, pc' = pc
    PROVE  /\ OnePlace' /\ InPlaces(where') = InPlaces(where) \ {Head(items[q])}
           /\ Head(items[q]) \in InPlaces(where)
<1> DEFINE a == <<"queue", q>>
           i == Head(items[q])
<1>1. q \in Queue /\ QueuesTyped
  BY Places DEF Typed
<1>2. items[q] \in Seq(Item) /\ items[q] # <<>> /\ items'[q] = Tail(items[q])
  BY <1>1, PopFacts
<1>3. \A o \in Stage \ {q} : items'[o] = items[o]
  BY <1>1, PopFacts, Places
<1>4. a \in DOMAIN where /\ DOMAIN where' = DOMAIN where
  BY Places
<1>5. /\ ToSet(items[q]) = ToSet(items'[q]) \cup {i} /\ i \notin ToSet(items'[q])
      /\ Distinct(items'[q])
  BY <1>2, TailItem DEF OnePlace
<1>6. where'[a] = where[a] \ {i} /\ i \in where[a]
  BY <1>5, Places
<1>7. ASSUME NEW l \in DOMAIN where \ {a}
      PROVE  where'[l] = where[l]
  <2>1. CASE \E o \in Stage : l = <<"queue", o>>
    BY <1>3, <2>1, Places
  <2>2. CASE \E u \in Worker : l = <<"hand", u>>
    BY <2>2, Places
  <2> QED
    BY <2>1, <2>2, Places
<1>8. Apart(where') /\ InPlaces(where') = InPlaces(where) \ {i} /\ i \in InPlaces(where)
  <2> HIDE DEF a, i
  <2> QED
    BY <1>4, <1>6, <1>7, GoneApart DEF OnePlace
<1>9. \A o \in Stage : Distinct(items'[o])
  BY <1>3, <1>5 DEF OnePlace
<1> QED
  BY <1>8, <1>9 DEF OnePlace

\* The events in flight have been read.
LEMMA PlacesRead ==
    ASSUME Typed
    PROVE  InPlaces(where) \subseteq 1 .. sequence
<1>1. ASSUME NEW q \in Stage
      PROVE  where[<<"queue", q>>] \subseteq 1 .. sequence
  <2>1. ToSet(items[q]) \subseteq Events[q]
    BY Places DEF Typed, QueuesTyped
  <2>2. Events[q] \subseteq 1 .. sequence
    <3>1. q = "raw" \/ q = "parsed" \/ q = "enriched"
      BY DEF Stage
    <3>2. Events["raw"] \subseteq 1 .. sequence
      BY DEF Events
    <3>3. Events["parsed"] \subseteq 1 .. sequence
      BY DEF Events
    <3>4. Events["enriched"] \subseteq 1 .. sequence
      BY DEF Events
    <3> QED
      BY <3>1, <3>2, <3>3, <3>4
  <2> QED
    BY <2>1, <2>2, Places
<1>2. ASSUME NEW t \in Worker
      PROVE  where[<<"hand", t>>] \subseteq 1 .. sequence
  <2>1. Events["parsed"] \subseteq 1 .. sequence /\ Events["enriched"] \subseteq 1 .. sequence
    BY DEF Events
  <2>2. pc[t] = "give" => held[t] \in 1 .. sequence
    BY <2>1 DEF Typed, LocalsTyped, Worker
  <2> QED
    BY <2>2, Places
<1>3. \A l \in Place : where[l] \subseteq 1 .. sequence
  BY <1>1, <1>2, Places
<1> QED
  BY <1>3, Places DEF InPlaces

\* The reader pushes an event nobody has seen.
LEMMA ReadOnce ==
    ASSUME Inv, Typed, OnePlace, Push("raw", "reader", sequence + 1), held' = held, pc' = pc
    PROVE  OnePlace' /\ InPlaces(where') = InPlaces(where) \cup {sequence + 1}
<1> DEFINE a == <<"queue", "raw">>
           i == sequence + 1
<1>1. i \in Item /\ "raw" \in Queue /\ "raw" \in Stage /\ QueuesTyped /\ sequence \in Nat
  BY PipelineAssumption DEF Typed, LocalsTyped, Item, Stage
<1>2. items["raw"] \in Seq(Item)
  BY <1>1 DEF QueuesTyped
<1>3. /\ items'["raw"] = Append(items["raw"], i)
      /\ \A o \in Stage \ {"raw"} : items'[o] = items[o]
  BY <1>1, PushFacts, Places
<1>4. a \in DOMAIN where /\ DOMAIN where' = DOMAIN where
  BY <1>1, Places
<1>5. i \notin InPlaces(where)
  BY <1>1, PlacesRead
<1>6. i \notin ToSet(items["raw"])
  BY <1>1, <1>4, <1>5, Places DEF InPlaces
<1>7. ToSet(items'["raw"]) = ToSet(items["raw"]) \cup {i} /\ Distinct(items'["raw"])
  BY <1>1, <1>2, <1>3, <1>6, AppendItem DEF OnePlace
<1>8. where'[a] = where[a] \cup {i}
  BY <1>1, <1>7, Places
<1>9. ASSUME NEW l \in DOMAIN where \ {a}
      PROVE  where'[l] = where[l]
  <2>1. CASE \E o \in Stage : l = <<"queue", o>>
    BY <1>3, <2>1, Places
  <2>2. CASE \E u \in Worker : l = <<"hand", u>>
    BY <2>2, Places
  <2> QED
    BY <2>1, <2>2, Places
<1>10. Apart(where') /\ InPlaces(where') = InPlaces(where) \cup {i}
  <2> HIDE DEF a, i
  <2> QED
    BY <1>4, <1>5, <1>8, <1>9, FreshApart DEF OnePlace
<1>11. \A o \in Stage : Distinct(items'[o])
  BY <1>3, <1>7 DEF OnePlace
<1> QED
  BY <1>10, <1>11 DEF OnePlace

\* The other steps move no event.
LEMMA StillThere ==
    ASSUME OnePlace, \A q \in Stage : items'[q] = items[q],
           \A t \in Worker : (pc'[t] = "give" <=> pc[t] = "give") /\ held'[t] = held[t]
    PROVE  OnePlace' /\ InPlaces(where') = InPlaces(where)
<1>1. ASSUME NEW l \in Place
      PROVE  where'[l] = where[l]
  <2>1. CASE \E q \in Stage : l = <<"queue", q>>
    BY <2>1, Places
  <2>2. CASE \E t \in Worker : l = <<"hand", t>>
    <3>1. PICK t \in Worker : l = <<"hand", t>>
      BY <2>2
    <3>2. where[l] = IF pc[t] = "give" THEN {held[t]} ELSE {}
      BY <3>1, Places
    <3>3. where'[l] = IF pc'[t] = "give" THEN {held'[t]} ELSE {}
      BY <3>1, Places
    <3>4. CASE pc[t] = "give"
      BY <3>2, <3>3, <3>4
    <3>5. CASE pc[t] # "give"
      BY <3>2, <3>3, <3>5
    <3> QED
      BY <3>4, <3>5
  <2> QED
    BY <2>1, <2>2, Places
<1>2. where' = where
  BY <1>1, Places DEF where
<1> QED
  BY <1>2 DEF OnePlace

LEMMA InitPlaces == Init => OnePlace /\ InPlaces(where) = {}
<1> SUFFICES ASSUME Init
             PROVE  OnePlace /\ InPlaces(where) = {}
  OBVIOUS
<1>1. \A q \in Stage : items[q] = <<>>
  BY Places DEF Init, QueueInit
<1>2. \A t \in Worker : pc[t] = "take"
  BY Threads, Places DEF Init, Worker
<1>3. ToSet(<<>>) = {} /\ Distinct(<<>>)
  BY DEF ToSet, Distinct
<1>4. ASSUME NEW l \in Place
      PROVE  where[l] = {}
  <2>1. CASE \E q \in Stage : l = <<"queue", q>>
    BY <1>1, <1>3, <2>1, Places
  <2>2. CASE \E t \in Worker : l = <<"hand", t>>
    BY <1>2, <2>2, Places
  <2> QED
    BY <2>1, <2>2, Places
<1> QED
  BY <1>1, <1>3, <1>4, Places DEF OnePlace, Apart, InPlaces

\* What a step does to the job: nothing, or it reads a line, or it accounts
\* for one, adding it to the totals if it counts.
Idles == InPlaces(where') = InPlaces(where) /\ sequence' = sequence /\ stats' = stats

Reads ==
    /\ inputOpens /\ sequence < Len(input) /\ sequence' = sequence + 1 /\ stats' = stats
    /\ InPlaces(where') = InPlaces(where) \cup {sequence + 1}

Accounts(i) ==
    /\ InPlaces(where') = InPlaces(where) \ {i} /\ sequence' = sequence
    /\ stats' = IF Counts(input[i]) THEN Job!Add(stats, input[i]) ELSE stats

JobStep == OnePlace' /\ (Idles \/ Reads \/ \E i \in InPlaces(where) : Accounts(i))

LEMMA CallsKeepItems ==
    ASSUME NEW q, NEW t,
           \/ PushWait(q, t) \/ PushRefused(q, t) \/ PopWait(q, t) \/ PopEnd(q, t)
           \/ Close(q) \/ UNCHANGED queueVars
    PROVE  items' = items
BY DEF PushWait, PushRefused, PopWait, PopEnd, Close, queueVars

LEMMA StepPlaces == Inv /\ Typed /\ OnePlace /\ [Next]_vars => JobStep
<1> SUFFICES ASSUME Inv, Typed, OnePlace, [Next]_vars
             PROVE  JobStep
  OBVIOUS
<1>0. /\ pc \in [Thread -> Label] /\ QueuesTyped /\ Worker \subseteq Thread /\ held \in [Thread -> Nat]
      /\ "reader" \notin Worker /\ "aggregator" \notin Worker /\ "writer" \notin Worker
      /\ {"reader", "aggregator", "writer", "rules"} \subseteq Thread
      /\ Stage = {"raw", "parsed", "enriched"} /\ Queue = {"raw", "parsed", "enriched", "result"}
  BY Threads, PipelineAssumption DEF Inv, Typed, LocalsTyped, Worker, Stage
\* Steps that move no event.
<1>1. ASSUME \A q \in Stage : items'[q] = items[q], NEW t \in Thread, NEW label \in Label,
             pc' = pc \/ pc' = [pc EXCEPT ![t] = label],
             t \in Worker => pc' = pc \/ (pc[t] # "give" /\ label # "give"),
             \A u \in Worker : held'[u] = held[u], UNCHANGED <<sequence, stats>>
      PROVE  JobStep
  <2>1. \A u \in Worker : pc'[u] = "give" <=> pc[u] = "give"
    BY <1>0, <1>1
  <2> QED
    BY <1>1, <2>1, StillThere DEF JobStep, Idles
<1>2. CASE ReaderPushes
  <2>1. CASE Push("raw", "reader", sequence + 1) /\ UNCHANGED <<pc, held, stats>>
             /\ sequence' = sequence + 1
    BY <1>2, <2>1, ReadOnce DEF ReaderPushes, JobStep, Reads
  <2>2. CASE \/ Waits(PushWait("raw", "reader"))
             \/ /\ PushRefused("raw", "reader") /\ Goto("reader", "close")
                /\ UNCHANGED <<held, sequence, stats>>
    <3>1. /\ items' = items /\ UNCHANGED <<held, sequence, stats>>
          /\ pc' = pc \/ pc' = [pc EXCEPT !["reader"] = "close"]
      BY <2>2, CallsKeepItems DEF Waits, localVars, Goto
    <3> QED
      BY <1>0, <1>1, <3>1 DEF Label
  <2> QED
    BY <1>2, <2>1, <2>2 DEF ReaderPushes
<1>3. CASE ReaderEnds
  <2>1. /\ items' = items /\ UNCHANGED <<held, sequence, stats>>
        /\ pc' = [pc EXCEPT !["reader"] = "done"]
    BY <1>3, CallsKeepItems DEF ReaderEnds, Goto
  <2> QED
    BY <1>0, <1>1, <2>1 DEF Label
<1>4. ASSUME NEW p \in Parser, ParserTakes(p)
      PROVE  JobStep
  <2> DEFINE i == Head(items["raw"])
  <2>1. pc[p] = "take" /\ p \in Worker /\ "raw" \in Stage
    BY <1>0, <1>4 DEF ParserTakes, Worker
  <2>2. CASE Pop("raw", p) /\ UNCHANGED <<sequence, stats>>
             /\ held' = [held EXCEPT ![p] = i] /\ pc' = [pc EXCEPT ![p] = "give"]
    BY <2>1, <2>2, TakenOnce DEF JobStep, Idles
  <2>3. CASE Pop("raw", p) /\ UNCHANGED <<sequence, stats, held, pc>> /\ ~ParseOK(input[i])
    BY <2>1, <2>3, DroppedOnce DEF JobStep, Accounts, Counts
  <2>4. CASE \/ Waits(PopWait("raw", p))
             \/ PopEnd("raw", p) /\ Goto(p, "leave") /\ UNCHANGED <<held, sequence, stats>>
    <3>1. /\ items' = items /\ UNCHANGED <<held, sequence, stats>>
          /\ pc' = pc \/ pc' = [pc EXCEPT ![p] = "leave"]
      BY <2>4, CallsKeepItems DEF Waits, localVars, Goto
    <3> QED
      BY <1>0, <1>1, <2>1, <3>1 DEF Label
  <2> QED
    BY <1>4, <2>2, <2>3, <2>4 DEF ParserTakes, Goto
<1>5. ASSUME NEW p \in Parser, ParserGives(p)
      PROVE  JobStep
  <2>1. /\ pc[p] = "give" /\ p \in Worker /\ "parsed" \in Stage /\ p \in Producers["parsed"]
        /\ UNCHANGED <<held, sequence, stats>>
    BY <1>0, <1>5 DEF ParserGives, Worker, Producers
  <2>2. CASE Push("parsed", p, held[p]) /\ Goto(p, "take")
    BY <2>1, <2>2, GivenOnce DEF JobStep, Idles, Goto
  <2>3. CASE PushWait("parsed", p) /\ UNCHANGED pc
    BY <1>0, <1>1, <2>1, <2>3, CallsKeepItems DEF Label
  <2> QED
    BY <1>0, <1>5, <2>1, <2>2, <2>3, NeverRefused DEF ParserGives
<1>6. ASSUME NEW p \in Parser, ParserLeaves(p) \/ ParserCloses(p)
      PROVE  JobStep
  <2>1. /\ items' = items /\ UNCHANGED <<held, sequence, stats>> /\ pc[p] # "give"
        /\ \E label \in {"close", "done"} : pc' = [pc EXCEPT ![p] = label]
    BY <1>6, CallsKeepItems DEF ParserLeaves, ParserCloses, Goto, queueVars
  <2>2. p \in Thread
    BY Threads
  <2> QED
    BY <1>0, <1>1, <2>1, <2>2 DEF Label
<1>7. CASE RulesTakes
  <2> DEFINE i == Head(items["parsed"])
  <2>1. pc["rules"] = "take" /\ "rules" \in Worker /\ "parsed" \in Stage
    BY <1>0, <1>7 DEF RulesTakes, Worker
  <2>2. CASE Pop("parsed", "rules") /\ UNCHANGED <<sequence, stats>>
             /\ held' = [held EXCEPT !["rules"] = i] /\ pc' = [pc EXCEPT !["rules"] = "give"]
    BY <2>1, <2>2, TakenOnce DEF JobStep, Idles
  <2>3. CASE Pop("parsed", "rules") /\ UNCHANGED <<sequence, stats, held, pc>>
             /\ ~PassesRules(input[i])
    BY <2>1, <2>3, DroppedOnce DEF JobStep, Accounts, Counts
  <2>4. CASE \/ Waits(PopWait("parsed", "rules"))
             \/ /\ PopEnd("parsed", "rules") /\ Goto("rules", "close")
                /\ UNCHANGED <<held, sequence, stats>>
    <3>1. /\ items' = items /\ UNCHANGED <<held, sequence, stats>>
          /\ pc' = pc \/ pc' = [pc EXCEPT !["rules"] = "close"]
      BY <2>4, CallsKeepItems DEF Waits, localVars, Goto
    <3> QED
      BY <1>0, <1>1, <2>1, <3>1 DEF Label
  <2> QED
    BY <1>7, <2>2, <2>3, <2>4 DEF RulesTakes, Goto
<1>8. CASE RulesGives
  <2>1. /\ pc["rules"] = "give" /\ "rules" \in Worker /\ "enriched" \in Stage
        /\ "rules" \in Producers["enriched"] /\ UNCHANGED <<held, sequence, stats>>
    BY <1>0, <1>8 DEF RulesGives, Worker, Producers
  <2>2. CASE Push("enriched", "rules", held["rules"]) /\ Goto("rules", "take")
    BY <2>1, <2>2, GivenOnce DEF JobStep, Idles, Goto
  <2>3. CASE PushWait("enriched", "rules") /\ UNCHANGED pc
    BY <1>0, <1>1, <2>1, <2>3, CallsKeepItems DEF Label
  <2> QED
    BY <1>0, <1>8, <2>1, <2>2, <2>3, NeverRefused DEF RulesGives
<1>9. CASE RulesCloses
  <2>1. /\ items' = items /\ UNCHANGED <<held, sequence, stats>> /\ pc["rules"] = "close"
        /\ pc' = [pc EXCEPT !["rules"] = "done"]
    BY <1>9, CallsKeepItems DEF RulesCloses, Goto
  <2> QED
    BY <1>0, <1>1, <2>1 DEF Label
<1>10. CASE AggregatorTakes
  <2> DEFINE i == Head(items["enriched"])
  <2>1. CASE Pop("enriched", "aggregator") /\ UNCHANGED <<sequence, pc, held>>
             /\ stats' = Job!Add(stats, input[i])
    <3>1. "enriched" \in Stage /\ "enriched" \in Queue
      BY <1>0
    <3>2. i \in Events["enriched"]
      BY <1>0, <2>1, <3>1, PopFacts
    <3>3. Counts(input[i])
      BY <3>2 DEF Events
    <3> QED
      BY <2>1, <3>1, <3>3, DroppedOnce DEF JobStep, Accounts
  <2>2. CASE \/ Waits(PopWait("enriched", "aggregator"))
             \/ /\ PopEnd("enriched", "aggregator") /\ Goto("aggregator", "give")
                /\ held' = [held EXCEPT !["aggregator"] = 1] /\ UNCHANGED <<sequence, stats>>
    <3>1. /\ items' = items /\ UNCHANGED <<sequence, stats>>
          /\ pc' = pc \/ pc' = [pc EXCEPT !["aggregator"] = "give"]
          /\ held' = held \/ held' = [held EXCEPT !["aggregator"] = 1]
      BY <2>2, CallsKeepItems DEF Waits, localVars, Goto
    <3>2. \A u \in Worker : held'[u] = held[u]
      BY <1>0, <3>1
    <3> QED
      BY <1>0, <1>1, <3>1, <3>2 DEF Label
  <2> QED
    BY <1>10, <2>1, <2>2 DEF AggregatorTakes
<1>11. CASE AggregatorGives \/ AggregatorCloses
  <2>1. /\ UNCHANGED <<sequence, stats>>
        /\ pc' = pc \/ \E label \in {"close", "done"} : pc' = [pc EXCEPT !["aggregator"] = label]
        /\ \/ held' = held
           \/ \E n : held' = [held EXCEPT !["aggregator"] = n]
    BY <1>11 DEF AggregatorGives, AggregatorCloses, Goto
  <2>2. \A q \in Stage : items'[q] = items[q]
    BY <1>0, <1>11
       DEF AggregatorGives, AggregatorCloses, Push, PushWait, PushRefused, Close, queueVars,
           QueuesTyped
  <2>3. \A u \in Worker : held'[u] = held[u]
    BY <1>0, <2>1
  <2> QED
    BY <1>0, <1>1, <2>1, <2>2, <2>3 DEF Label
<1>12. CASE WriterTakes \/ WriterFails \/ Finish \/ UNCHANGED vars
  <2>1. /\ UNCHANGED <<sequence, stats, held>>
        /\ pc' = pc \/ pc' = [pc EXCEPT !["writer"] = "done"]
    BY <1>12 DEF WriterTakes, WriterFails, Finish, vars, Waits, localVars, Goto
  <2>2. \A q \in Stage : items'[q] = items[q]
    BY <1>0, <1>12
       DEF WriterTakes, WriterFails, Finish, vars, Waits, Pop, PopWait, PopEnd, queueVars,
           QueuesTyped
  <2> QED
    BY <1>0, <1>1, <2>1, <2>2 DEF Label
<1> QED
  BY <1>2, <1>3, <1>4, <1>5, <1>6, <1>7, <1>8, <1>9, <1>10, <1>11, <1>12
     DEF Next, ReaderStep, RulesStep, AggregatorStep, WriterStep, ParserStep

-----------------------------------------------------------------------------
\* What the stages leave behind.

Drained(q) == closed[q] /\ items[q] = <<>>

\* A thread takes nothing more from its queue.
Stopped(t) == pc[t] # "take" /\ (t \in Worker => pc[t] # "give")

\* Who stopped has drained its queue, but for a writer that gave up; the
\* reader stopped at the end of the input; and run() returns at the end.
Flow ==
    /\ \A q \in Queue : \A t \in Consumers[q] :
        (q = "result" => outputOpens) /\ Stopped(t) => Drained(q)
    /\ pc["reader"] \in {"give", "done"}
    /\ pc["reader"] = "done" /\ inputOpens => sequence = Len(input)
    /\ ~inputOpens => sequence = 0
    /\ finished => \A t \in Thread : pc[t] = "done"

LEMMA DrainedStays ==
    ASSUME Inv, QueuesTyped, NEW o \in Queue, NEW t, NEW x \in Item,
           \/ Push(o, t, x) \/ PushWait(o, t) \/ PushRefused(o, t)
           \/ Pop(o, t) \/ PopWait(o, t) \/ PopEnd(o, t) \/ Close(o) \/ UNCHANGED queueVars,
           NEW q \in Queue, Drained(q)
    PROVE  Drained(q)'
<1>1. CASE Push(o, t, x)
  BY <1>1, PushFacts DEF Drained
<1>2. CASE Pop(o, t)
  BY <1>2, PopFacts DEF Drained
<1>3. CASE \/ PushWait(o, t) \/ PushRefused(o, t) \/ PopWait(o, t) \/ PopEnd(o, t)
           \/ Close(o) \/ UNCHANGED queueVars
  <2>1. items' = items /\ (closed' = closed \/ closed' = [closed EXCEPT ![o] = TRUE])
    BY <1>3 DEF PushWait, PushRefused, PopWait, PopEnd, Close, queueVars
  <2> QED
    BY <2>1 DEF Drained, Inv
<1> QED
  BY <1>1, <1>2, <1>3

\* Steps of a thread that has more to take, or stopped before, or stops now
\* because its queue is closed and empty.
LEMMA FlowKept ==
    ASSUME Inv, Flow, UNCHANGED files, NEW t \in Thread, NEW label \in Label,
           pc' = pc \/ pc' = [pc EXCEPT ![t] = label],
           pc' = pc \/ pc[t] # "done",
           \A q \in Queue : Drained(q) => Drained(q)',
           \A q \in Queue : t \in Consumers[q] =>
                \/ pc' = pc \/ Stopped(t) \/ Drained(q) \/ label = "take"
                \/ (t \in Worker /\ label = "give") \/ (q = "result" /\ ~outputOpens),
           \/ sequence' = sequence
           \/ inputOpens /\ pc["reader"] = "give" /\ sequence' \in Nat /\ pc' = pc,
           t = "reader" => pc' = pc \/ (label = "done" /\ (inputOpens => sequence = Len(input))),
           finished' = finished
    PROVE  Flow'
<1>1. input' = input /\ inputOpens' = inputOpens /\ outputOpens' = outputOpens
  BY DEF files
<1>2. pc \in [Thread -> Label] /\ "reader" \in Thread
  BY Threads DEF Inv
<1>3. ASSUME NEW q \in Queue, NEW u \in Consumers[q], q = "result" => outputOpens, Stopped(u)'
      PROVE  Drained(q)'
  <2>1. u \in Thread
    BY Roles
  <2>2. CASE Stopped(u)
    BY <1>3, <2>2 DEF Flow
  <2>3. CASE ~Stopped(u)
    <3>1. u = t /\ pc' = [pc EXCEPT ![t] = label] /\ pc' # pc
      BY <1>2, <1>3, <2>1, <2>3 DEF Stopped
    <3>2. label # "take" /\ ~(t \in Worker /\ label = "give")
      BY <1>2, <1>3, <3>1 DEF Stopped, Worker
    <3> QED
      BY <1>3, <2>3, <3>1, <3>2
  <2> QED
    BY <2>2, <2>3
<1>4. pc'["reader"] \in {"give", "done"}
  BY <1>2 DEF Flow
<1>5. pc'["reader"] = "done" /\ inputOpens => sequence' = Len(input)
  BY <1>2 DEF Flow
<1>6. ~inputOpens => sequence' = 0
  BY DEF Flow
<1>7. ASSUME finished
      PROVE  \A u \in Thread : pc'[u] = "done"
  BY <1>2, <1>7 DEF Flow
<1> QED
  BY <1>1, <1>3, <1>4, <1>5, <1>6, <1>7 DEF Flow

LEMMA InitFlow == Init => Flow
<1> SUFFICES ASSUME Init
             PROVE  Flow
  OBVIOUS
<1>1. \A t \in Thread \ {"reader"} : pc[t] = "take"
  BY DEF Init
<1>2. pc["reader"] = "give" /\ sequence = 0 /\ ~finished
  BY Threads DEF Init
<1>3. ASSUME NEW q \in Queue, NEW t \in Consumers[q]
      PROVE  ~Stopped(t)
  <2>1. t \in Thread \ {"reader"}
    BY Threads, PipelineAssumption DEF Consumers
  <2> QED
    BY <1>1, <2>1 DEF Stopped
<1> QED
  BY <1>2, <1>3 DEF Flow

LEMMA StepFlow == Inv /\ Typed /\ Flow /\ [Next]_vars => Flow'
<1> SUFFICES ASSUME Inv, Typed, Flow, [Next]_vars
             PROVE  Flow'
  OBVIOUS
<1>0. /\ pc \in [Thread -> Label] /\ QueuesTyped /\ LocalsTyped /\ 0 \in Item
      /\ "reader" \notin Worker /\ "aggregator" \notin Worker /\ "writer" \notin Worker
      /\ "rules" \in Worker /\ Parser \subseteq Worker
      /\ {"reader", "aggregator", "writer", "rules"} \subseteq Thread /\ Parser \subseteq Thread
      /\ Queue = {"raw", "parsed", "enriched", "result"}
      /\ Label = {"take", "give", "leave", "close", "done"}
  BY Threads, PipelineAssumption DEF Inv, Typed, Worker, Label, Item
<1>1. ASSUME NEW q \in Queue, NEW t
      PROVE  /\ t = "reader" => t \notin Consumers[q]
             /\ t \in Parser /\ t \in Consumers[q] => q = "raw"
             /\ t = "rules" /\ t \in Consumers[q] => q = "parsed"
             /\ t = "aggregator" /\ t \in Consumers[q] => q = "enriched"
             /\ t = "writer" /\ t \in Consumers[q] => q = "result"
  BY <1>0, Threads DEF Consumers
<1>2. CASE ReaderPushes
  <2>1. /\ UNCHANGED files /\ UNCHANGED finished /\ pc["reader"] = "give" /\ inputOpens
        /\ sequence + 1 \in Item /\ sequence + 1 \in Nat /\ "reader" \in Producers["raw"]
        /\ \/ Push("raw", "reader", sequence + 1) /\ sequence' = sequence + 1 /\ pc' = pc
           \/ PushWait("raw", "reader") /\ sequence' = sequence /\ pc' = pc
           \/ PushRefused("raw", "reader")
    BY <1>0, <1>2 DEF ReaderPushes, Waits, localVars, LocalsTyped, Item, Producers
  <2>2. pc' = pc /\ (sequence' = sequence \/ sequence' \in Nat)
    BY <1>0, <2>1, NeverRefused
  <2>3. \A q \in Queue : Drained(q) => Drained(q)'
    BY <1>0, <2>1, DrainedStays
  <2> QED
    BY <1>0, <1>1, <2>1, <2>2, <2>3, FlowKept
<1>3. CASE ReaderEnds
  <2>1. /\ UNCHANGED files /\ UNCHANGED <<finished, sequence>> /\ pc["reader"] \in {"give", "close"}
        /\ pc' = [pc EXCEPT !["reader"] = "done"] /\ Close("raw")
        /\ pc["reader"] = "give" => (inputOpens => sequence = Len(input))
    BY <1>3 DEF ReaderEnds, Goto
  <2>2. pc["reader"] = "give"
    BY <2>1 DEF Flow
  <2>3. \A q \in Queue : Drained(q) => Drained(q)'
    BY <1>0, <2>1, DrainedStays
  <2> QED
    BY <1>0, <1>1, <2>1, <2>2, <2>3, FlowKept
<1>4. ASSUME NEW p \in Parser, ParserTakes(p)
      PROVE  Flow'
  <2>1. /\ UNCHANGED files /\ UNCHANGED <<finished, sequence>> /\ pc[p] = "take"
        /\ \/ Pop("raw", p) /\ (pc' = pc \/ pc' = [pc EXCEPT ![p] = "give"])
           \/ PopWait("raw", p) /\ pc' = pc
           \/ PopEnd("raw", p) /\ pc' = [pc EXCEPT ![p] = "leave"]
    BY <1>4 DEF ParserTakes, Waits, localVars, Goto
  <2>2. \A q \in Queue : Drained(q) => Drained(q)'
    BY <1>0, <2>1, DrainedStays
  <2>3. PopEnd("raw", p) => Drained("raw")
    BY DEF PopEnd, Drained
  <2>4. p # "reader" /\ p \in Thread /\ p \in Worker
    BY <1>0, Threads
  <2>5. CASE pc' = pc \/ pc' = [pc EXCEPT ![p] = "give"]
    BY <1>0, <2>1, <2>2, <2>4, <2>5, FlowKept
  <2>6. CASE PopEnd("raw", p) /\ pc' = [pc EXCEPT ![p] = "leave"]
    <3>1. \A o \in Queue : p \in Consumers[o] => Drained(o)
      BY <1>0, <1>1, <2>3, <2>6
    <3> QED
      BY <3>1, <1>0, <1>1, <2>1, <2>2, <2>3, <2>4, <2>6, FlowKept
  <2> QED
    BY <2>1, <2>5, <2>6
<1>5. ASSUME NEW p \in Parser, ParserGives(p)
      PROVE  Flow'
  <2>1. /\ UNCHANGED files /\ UNCHANGED <<finished, sequence>> /\ pc[p] = "give"
        /\ \/ Push("parsed", p, held[p]) /\ pc' = [pc EXCEPT ![p] = "take"]
           \/ PushWait("parsed", p) /\ pc' = pc
           \/ PushRefused("parsed", p)
        /\ p \in Producers["parsed"] /\ held[p] \in Item
    BY <1>0, <1>5 DEF ParserGives, Goto, Producers, LocalsTyped, Item
  <2>2. pc' = pc \/ pc' = [pc EXCEPT ![p] = "take"]
    BY <1>0, <2>1, NeverRefused
  <2>3. \A q \in Queue : Drained(q) => Drained(q)'
    BY <1>0, <2>1, DrainedStays
  <2>4. p # "reader" /\ p \in Thread
    BY <1>0, Threads
  <2> QED
    BY <1>0, <2>1, <2>2, <2>3, <2>4, FlowKept
<1>6. ASSUME NEW p \in Parser, ParserLeaves(p) \/ ParserCloses(p)
      PROVE  Flow'
  <2>1. /\ UNCHANGED files /\ UNCHANGED <<finished, sequence>> /\ pc[p] \in {"leave", "close"}
        /\ \E label \in {"close", "done"} : pc' = [pc EXCEPT ![p] = label]
        /\ Close("parsed") \/ UNCHANGED queueVars
    BY <1>6 DEF ParserLeaves, ParserCloses, Goto
  <2>2. \A q \in Queue : Drained(q) => Drained(q)'
    BY <1>0, <2>1, DrainedStays
  <2>3. p # "reader" /\ p \in Thread /\ Stopped(p) /\ pc[p] # "done"
    BY <1>0, <2>1, Threads DEF Stopped
  <2> QED
    BY <1>0, <2>1, <2>2, <2>3, FlowKept
<1>7. CASE RulesTakes
  <2>1. /\ UNCHANGED files /\ UNCHANGED <<finished, sequence>> /\ pc["rules"] = "take"
        /\ \/ Pop("parsed", "rules") /\ (pc' = pc \/ pc' = [pc EXCEPT !["rules"] = "give"])
           \/ PopWait("parsed", "rules") /\ pc' = pc
           \/ PopEnd("parsed", "rules") /\ pc' = [pc EXCEPT !["rules"] = "close"]
    BY <1>7 DEF RulesTakes, Waits, localVars, Goto
  <2>2. \A q \in Queue : Drained(q) => Drained(q)'
    BY <1>0, <2>1, DrainedStays
  <2>3. PopEnd("parsed", "rules") => Drained("parsed")
    BY DEF PopEnd, Drained
  <2>4. CASE pc' = pc \/ pc' = [pc EXCEPT !["rules"] = "give"]
    BY <1>0, <2>1, <2>2, <2>4, FlowKept
  <2>5. CASE PopEnd("parsed", "rules") /\ pc' = [pc EXCEPT !["rules"] = "close"]
    <3>1. \A o \in Queue : "rules" \in Consumers[o] => Drained(o)
      BY <1>0, <1>1, <2>3, <2>5
    <3> QED
      BY <3>1, <1>0, <1>1, <2>1, <2>2, <2>3, <2>5, FlowKept
  <2> QED
    BY <2>1, <2>4, <2>5
<1>8. CASE RulesGives
  <2>1. /\ UNCHANGED files /\ UNCHANGED <<finished, sequence>> /\ pc["rules"] = "give"
        /\ \/ Push("enriched", "rules", held["rules"]) /\ pc' = [pc EXCEPT !["rules"] = "take"]
           \/ PushWait("enriched", "rules") /\ pc' = pc
           \/ PushRefused("enriched", "rules")
        /\ "rules" \in Producers["enriched"] /\ held["rules"] \in Item
    BY <1>0, <1>8 DEF RulesGives, Goto, Producers, LocalsTyped, Item
  <2>2. pc' = pc \/ pc' = [pc EXCEPT !["rules"] = "take"]
    BY <1>0, <2>1, NeverRefused
  <2>3. \A q \in Queue : Drained(q) => Drained(q)'
    BY <1>0, <2>1, DrainedStays
  <2> QED
    BY <1>0, <2>1, <2>2, <2>3, FlowKept
<1>9. CASE RulesCloses
  <2>1. /\ UNCHANGED files /\ UNCHANGED <<finished, sequence>> /\ pc["rules"] = "close"
        /\ pc' = [pc EXCEPT !["rules"] = "done"] /\ Close("enriched")
    BY <1>9 DEF RulesCloses, Goto
  <2>2. (\A q \in Queue : Drained(q) => Drained(q)') /\ Stopped("rules")
    BY <1>0, <2>1, DrainedStays DEF Stopped
  <2> QED
    BY <1>0, <2>1, <2>2, FlowKept
<1>10. CASE AggregatorTakes
  <2>1. /\ UNCHANGED files /\ UNCHANGED <<finished, sequence>> /\ pc["aggregator"] = "take"
        /\ \/ Pop("enriched", "aggregator") /\ pc' = pc
           \/ PopWait("enriched", "aggregator") /\ pc' = pc
           \/ PopEnd("enriched", "aggregator") /\ pc' = [pc EXCEPT !["aggregator"] = "give"]
    BY <1>10 DEF AggregatorTakes, Waits, localVars, Goto
  <2>2. \A q \in Queue : Drained(q) => Drained(q)'
    BY <1>0, <2>1, DrainedStays
  <2>3. PopEnd("enriched", "aggregator") => Drained("enriched")
    BY DEF PopEnd, Drained
  <2>4. CASE pc' = pc
    BY <1>0, <2>1, <2>2, <2>4, FlowKept
  <2>5. CASE PopEnd("enriched", "aggregator") /\ pc' = [pc EXCEPT !["aggregator"] = "give"]
    <3>1. \A o \in Queue : "aggregator" \in Consumers[o] => Drained(o)
      BY <1>0, <1>1, <2>3, <2>5
    <3> QED
      BY <3>1, <1>0, <1>1, <2>1, <2>2, <2>3, <2>5, FlowKept
  <2> QED
    BY <2>1, <2>4, <2>5
<1>11. CASE AggregatorGives
  <2> DEFINE n == held["aggregator"]
  <2>1. /\ UNCHANGED files /\ UNCHANGED <<finished, sequence>> /\ pc["aggregator"] = "give"
        /\ pc' = pc \/ pc' = [pc EXCEPT !["aggregator"] = "close"]
        /\ \/ Push("result", "aggregator", ResultOf(order[n]))
           \/ PushWait("result", "aggregator") \/ PushRefused("result", "aggregator")
        /\ n <= Len(order)
    BY <1>11 DEF AggregatorGives, Goto
  <2>2. ResultOf(order[n]) \in Item
    <3>1. n \in 1 .. Len(order)
      BY <1>0, <2>1 DEF LocalsTyped
    <3>2. order[n] \in SupportedType /\ order[n] \in ToSet(order)
      BY <1>0, <3>1 DEF LocalsTyped, ToSet
    <3> QED
      BY <1>0, <3>2 DEF LocalsTyped, ResultOf, Result, Item
  <2>3. (\A q \in Queue : Drained(q) => Drained(q)') /\ Stopped("aggregator")
    BY <1>0, <2>1, <2>2, DrainedStays DEF Stopped
  <2> QED
    BY <1>0, <2>1, <2>3, FlowKept
<1>12. CASE AggregatorCloses
  <2>1. /\ UNCHANGED files /\ UNCHANGED <<finished, sequence>>
        /\ pc["aggregator"] \in {"give", "close"}
        /\ pc' = [pc EXCEPT !["aggregator"] = "done"] /\ Close("result")
    BY <1>12 DEF AggregatorCloses, Goto
  <2>2. (\A q \in Queue : Drained(q) => Drained(q)') /\ Stopped("aggregator")
    BY <1>0, <2>1, DrainedStays DEF Stopped
  <2> QED
    BY <1>0, <2>1, <2>2, FlowKept
<1>13. CASE WriterTakes
  <2>1. /\ UNCHANGED files /\ UNCHANGED <<finished, sequence>> /\ pc["writer"] = "take"
        /\ \/ Pop("result", "writer") /\ pc' = pc
           \/ PopWait("result", "writer") /\ pc' = pc
           \/ PopEnd("result", "writer") /\ pc' = [pc EXCEPT !["writer"] = "done"]
    BY <1>13 DEF WriterTakes, Waits, localVars, Goto
  <2>2. \A q \in Queue : Drained(q) => Drained(q)'
    BY <1>0, <2>1, DrainedStays
  <2>3. PopEnd("result", "writer") => Drained("result")
    BY DEF PopEnd, Drained
  <2>4. CASE pc' = pc
    BY <1>0, <2>1, <2>2, <2>4, FlowKept
  <2>5. CASE PopEnd("result", "writer") /\ pc' = [pc EXCEPT !["writer"] = "done"]
    <3>1. \A o \in Queue : "writer" \in Consumers[o] => Drained(o)
      BY <1>0, <1>1, <2>3, <2>5
    <3> QED
      BY <3>1, <1>0, <1>1, <2>1, <2>2, <2>3, <2>5, FlowKept
  <2> QED
    BY <2>1, <2>4, <2>5
<1>14. CASE WriterFails
  <2>1. /\ UNCHANGED files /\ UNCHANGED <<finished, sequence>> /\ pc["writer"] = "take"
        /\ pc' = [pc EXCEPT !["writer"] = "done"] /\ UNCHANGED queueVars /\ ~outputOpens
    BY <1>14 DEF WriterFails, Goto
  <2>2. \A q \in Queue : Drained(q) => Drained(q)'
    BY <1>0, <2>1, DrainedStays
  <2> QED
    BY <1>0, <1>1, <2>1, <2>2, FlowKept
<1>15. CASE Finish
  BY <1>15 DEF Finish, Flow, files, queueVars, Drained, Stopped
<1>16. CASE UNCHANGED vars
  BY <1>16 DEF vars, Flow, Drained, Stopped
<1> QED
  BY <1>2, <1>3, <1>4, <1>5, <1>6, <1>7, <1>8, <1>9, <1>10, <1>11, <1>12, <1>13, <1>14, <1>15,
     <1>16 DEF Next, ReaderStep, RulesStep, AggregatorStep, WriterStep, ParserStep

\* The results of the groups up to the aggregator's position are in the
\* file or on their way to it.
Published ==
    /\ pc["aggregator"] \in {"take", "give", "done"}
    /\ pc["aggregator"] = "take" => output = <<>> /\ items["result"] = <<>>
    /\ pc["aggregator"] # "take" =>
        ToSet(output) \cup ToSet(items["result"]) =
            {ResultOf(order[n]) : n \in 1 .. held["aggregator"] - 1}
    /\ pc["aggregator"] = "done" => held["aggregator"] = Len(order) + 1
    /\ ~outputOpens => output = <<>>

LEMMA PublishedKept ==
    ASSUME Published, UNCHANGED <<output, stats, order, outputOpens>>,
           pc'["aggregator"] = pc["aggregator"], held'["aggregator"] = held["aggregator"],
           items'["result"] = items["result"]
    PROVE  Published'
BY DEF Published, ResultOf

LEMMA InitPublished == Init => Published
<1> SUFFICES ASSUME Init
             PROVE  Published
  OBVIOUS
<1>1. pc["aggregator"] = "take" /\ output = <<>> /\ items["result"] = <<>>
  BY Threads, PipelineAssumption DEF Init, QueueInit
<1> QED
  BY <1>1 DEF Published

LEMMA StepPublished == Inv /\ Typed /\ Published /\ [Next]_vars => Published'
<1> SUFFICES ASSUME Inv, Typed, Published, [Next]_vars
             PROVE  Published'
  OBVIOUS
<1>0. /\ pc \in [Thread -> Label] /\ QueuesTyped /\ LocalsTyped /\ held \in [Thread -> Nat]
      /\ "aggregator" \in Thread /\ "aggregator" \notin Parser /\ 0 \in Item
      /\ items \in [Queue -> Seq(Item)]
      /\ Queue = {"raw", "parsed", "enriched", "result"}
  BY Threads, PipelineAssumption DEF Inv, Typed, LocalsTyped, QueuesTyped, Item
<1>1. ASSUME NEW q \in Queue \ {"result"}, NEW t, NEW x,
             \/ Push(q, t, x) \/ PushWait(q, t) \/ PushRefused(q, t) \/ Pop(q, t)
             \/ PopWait(q, t) \/ PopEnd(q, t) \/ Close(q) \/ UNCHANGED queueVars
      PROVE  items'["result"] = items["result"]
  BY <1>0, <1>1
     DEF Push, PushWait, PushRefused, Pop, PopWait, PopEnd, Close, queueVars
<1>2. CASE ReaderStep
  <2>1. /\ UNCHANGED <<output, stats, order, outputOpens, held>>
        /\ pc' = pc \/ \E label : pc' = [pc EXCEPT !["reader"] = label]
    BY <1>2 DEF ReaderStep, ReaderPushes, ReaderEnds, Waits, localVars, files, Goto
  <2>2. items'["result"] = items["result"]
    BY <1>0, <1>1, <1>2 DEF ReaderStep, ReaderPushes, ReaderEnds, Waits
  <2> QED
    BY <1>0, <2>1, <2>2, PublishedKept
<1>3. ASSUME NEW p \in Parser, ParserStep(p)
      PROVE  Published'
  <2>1. /\ UNCHANGED <<output, stats, order, outputOpens>>
        /\ pc' = pc \/ \E label : pc' = [pc EXCEPT ![p] = label]
        /\ held' = held \/ \E n : held' = [held EXCEPT ![p] = n]
    BY <1>3 DEF ParserStep, ParserTakes, ParserGives, ParserLeaves, ParserCloses, Waits,
                localVars, files, Goto
  <2>2. items'["result"] = items["result"]
    <3>1. CASE ParserTakes(p)
      BY <1>0, <1>1, <3>1 DEF ParserTakes, Waits
    <3>2. CASE ParserGives(p)
      BY <1>0, <1>1, <3>2 DEF ParserGives
    <3>3. CASE ParserLeaves(p)
      BY <3>3 DEF ParserLeaves, queueVars
    <3>4. CASE ParserCloses(p)
      BY <3>4 DEF ParserCloses, Close
    <3> QED
      BY <1>3, <3>1, <3>2, <3>3, <3>4 DEF ParserStep
  <2> QED
    BY <1>0, <2>1, <2>2, PublishedKept
<1>4. CASE RulesStep
  <2>1. /\ UNCHANGED <<output, stats, order, outputOpens>>
        /\ pc' = pc \/ \E label : pc' = [pc EXCEPT !["rules"] = label]
        /\ held' = held \/ \E n : held' = [held EXCEPT !["rules"] = n]
    BY <1>4 DEF RulesStep, RulesTakes, RulesGives, RulesCloses, Waits, localVars, files, Goto
  <2>2. items'["result"] = items["result"]
    BY <1>0, <1>1, <1>4 DEF RulesStep, RulesTakes, RulesGives, RulesCloses, Waits
  <2> QED
    BY <1>0, <2>1, <2>2, PublishedKept
<1>5. CASE AggregatorTakes
  <2>1. UNCHANGED <<output, outputOpens>> /\ pc["aggregator"] = "take"
    BY <1>5 DEF AggregatorTakes, Waits, localVars, files
  <2>2. items'["result"] = items["result"]
    BY <1>0, <1>1, <1>5 DEF AggregatorTakes, Waits
  <2>3. \/ pc' = pc
        \/ pc' = [pc EXCEPT !["aggregator"] = "give"] /\ held' = [held EXCEPT !["aggregator"] = 1]
    BY <1>5 DEF AggregatorTakes, Waits, localVars, Goto
  <2>4. CASE pc' = pc
    BY <2>1, <2>2, <2>4 DEF Published
  <2>5. CASE pc' = [pc EXCEPT !["aggregator"] = "give"] /\ held' = [held EXCEPT !["aggregator"] = 1]
    <3>1. pc'["aggregator"] = "give" /\ held'["aggregator"] = 1
      BY <1>0, <2>5
    <3>2. ToSet(output') \cup ToSet(items'["result"]) = {}
      BY <2>1, <2>2 DEF Published, ToSet
    <3>3. 1 .. held'["aggregator"] - 1 = {}
      BY <3>1
    <3>4. {ResultOf(order[n])' : n \in 1 .. held'["aggregator"] - 1} = {}
      BY <3>3
    <3> QED
      BY <2>1, <3>1, <3>2, <3>4 DEF Published
  <2> QED
    BY <2>3, <2>4, <2>5
<1>6. CASE AggregatorGives
  <2> DEFINE n == held["aggregator"]
  <2>1. /\ UNCHANGED <<output, stats, order, outputOpens>> /\ pc["aggregator"] = "give"
        /\ n <= Len(order) /\ n \in 1 .. Len(order) + 1 /\ Len(order) \in Nat
    BY <1>0, <1>6 DEF AggregatorGives, files, LocalsTyped
  <2>2. CASE Push("result", "aggregator", ResultOf(order[n])) /\ UNCHANGED pc
             /\ held' = [held EXCEPT !["aggregator"] = n + 1]
    <3>1. order[n] \in SupportedType /\ order[n] \in ToSet(order) /\ n \in 1 .. Len(order)
      BY <1>0, <2>1 DEF LocalsTyped, ToSet
    <3>2. ResultOf(order[n]) \in Item
      BY <1>0, <3>1 DEF LocalsTyped, ResultOf, Result, Item
    <3>3. items'["result"] = Append(items["result"], ResultOf(order[n]))
      BY <1>0, <2>2, <3>2, PushFacts
    <3>4. ToSet(items'["result"]) = ToSet(items["result"]) \cup {ResultOf(order[n])}
      BY <1>0, <3>2, <3>3, AppendItem
    <3>5. held'["aggregator"] = n + 1 /\ 1 .. n + 1 - 1 = (1 .. n - 1) \cup {n}
      BY <1>0, <2>2, <3>1
    <3>6. ToSet(output) \cup ToSet(items["result"]) = {ResultOf(order[m]) : m \in 1 .. n - 1}
      BY <2>1 DEF Published
    <3>7. ToSet(output) \cup ToSet(items'["result"]) =
            {ResultOf(order[m]) : m \in 1 .. held'["aggregator"] - 1}
      BY <3>4, <3>5, <3>6
    <3>8. \A m : ResultOf(order[m])' = ResultOf(order[m])
      BY <2>1 DEF ResultOf
    <3> QED
      BY <2>1, <2>2, <3>7, <3>8 DEF Published
  <2>3. CASE PushWait("result", "aggregator") /\ UNCHANGED <<held, pc>>
    BY <2>1, <2>3, CallsKeepItems, PublishedKept
  <2>4. ~PushRefused("result", "aggregator")
    BY <1>0, <2>1, NeverRefused DEF Producers
  <2> QED
    BY <1>6, <2>2, <2>3, <2>4 DEF AggregatorGives
<1>7. CASE AggregatorCloses
  <2>1. /\ UNCHANGED <<output, stats, order, outputOpens, held>>
        /\ pc["aggregator"] = "give" /\ held["aggregator"] > Len(order)
        /\ pc' = [pc EXCEPT !["aggregator"] = "done"] /\ items' = items
    BY <1>7, CallsKeepItems DEF AggregatorCloses, files, Goto, Published
  <2>2. pc'["aggregator"] = "done" /\ held["aggregator"] \in 1 .. Len(order) + 1
    BY <1>0, <2>1 DEF LocalsTyped
  <2>3. held["aggregator"] = Len(order) + 1
    BY <1>0, <2>1, <2>2 DEF LocalsTyped
  <2>4. \A m : ResultOf(order[m])' = ResultOf(order[m])
    BY <2>1 DEF ResultOf
  <2> QED
    BY <2>1, <2>2, <2>3, <2>4 DEF Published
<1>8. CASE WriterTakes
  <2>1. /\ UNCHANGED <<stats, order, outputOpens, held>> /\ outputOpens
        /\ pc'["aggregator"] = pc["aggregator"]
    BY <1>0, <1>8 DEF WriterTakes, Waits, localVars, files, Goto
  <2>2. CASE Pop("result", "writer") /\ output' = Append(output, Head(items["result"]))
    <3>1. /\ items["result"] \in Seq(Item) /\ items["result"] # <<>>
          /\ items'["result"] = Tail(items["result"])
      BY <1>0, <2>2, PopFacts
    <3>2. /\ ToSet(items["result"]) = ToSet(items'["result"]) \cup {Head(items["result"])}
          /\ Head(items["result"]) \in Item
      BY <3>1, TailItem
    <3>3. ToSet(output') = ToSet(output) \cup {Head(items["result"])}
      BY <1>0, <2>2, <3>2, AppendItem DEF LocalsTyped
    <3>4. ToSet(output') \cup ToSet(items'["result"]) = ToSet(output) \cup ToSet(items["result"])
      BY <3>2, <3>3
    <3>5. pc["aggregator"] # "take"
      BY <3>1 DEF Published
    <3>6. \A m : ResultOf(order[m])' = ResultOf(order[m])
      BY <2>1 DEF ResultOf
    <3> QED
      BY <2>1, <3>4, <3>5, <3>6 DEF Published
  <2>3. CASE \/ Waits(PopWait("result", "writer"))
             \/ PopEnd("result", "writer") /\ UNCHANGED output
    <3>1. items' = items /\ output' = output
      BY <2>3, CallsKeepItems DEF Waits, localVars
    <3> QED
      BY <2>1, <3>1, PublishedKept
  <2> QED
    BY <1>8, <2>2, <2>3 DEF WriterTakes
<1>9. CASE WriterFails \/ Finish \/ UNCHANGED vars
  <2>1. /\ UNCHANGED <<output, stats, order, outputOpens, held, items>>
        /\ pc'["aggregator"] = pc["aggregator"]
    BY <1>0, <1>9 DEF WriterFails, Finish, vars, queueVars, files, Goto
  <2> QED
    BY <2>1, PublishedKept
<1> QED
  BY <1>2, <1>3, <1>4, <1>5, <1>6, <1>7, <1>8, <1>9 DEF Next, AggregatorStep, WriterStep

-----------------------------------------------------------------------------
\* The job.

\* Accounting for one event is a step of the job.
LEMMA AccountOne ==
    ASSUME NEW i,
           UNCHANGED <<IF inputOpens THEN input ELSE <<>>, outputOpens,
                       IF finished THEN {ToSet(output)} ELSE {}>>,
           Unaccounted' = Unaccounted \ {i},
           NEW l, l = (IF inputOpens THEN input ELSE <<>>)[i],
           stats' = IF Counts(l) THEN Job!Add(stats, l) ELSE stats
    PROVE  Job!Account({i})
<1> DEFINE J == IF inputOpens THEN input ELSE <<>>
           S == {j \in {i} : Counts(J[j])}
           Body(f) == [s \in SUBSET S |->
                          IF s = {} THEN stats
                          ELSE LET x == CHOOSE y \in s : TRUE IN Job!Add(f[s \ {x}], J[x])]
           iter == CHOOSE f : f = Body(f)
           g == [s \in SUBSET S |-> IF s = {} THEN stats ELSE Job!Add(stats, l)]
<1>1. S \subseteq {i} /\ \A s \in SUBSET S : s = {} \/ (s = {i} /\ S = {i})
  OBVIOUS
<1>2. (CHOOSE y \in {i} : TRUE) = i /\ {i} \ {i} = {} /\ {i} # {}
  OBVIOUS
<1>3. J[i] = l
  OBVIOUS
<1> HIDE DEF J, S
<1>4. g = Body(g)
  <2>1. g[{}] = stats
    OBVIOUS
  <2>2. g = [s \in SUBSET S |-> IF s = {} THEN stats ELSE Job!Add(stats, l)]
    OBVIOUS
  <2> HIDE DEF g
  <2>3. ASSUME NEW s \in SUBSET S, s # {}
        PROVE  (LET x == CHOOSE y \in s : TRUE IN Job!Add(g[s \ {x}], J[x])) = Job!Add(stats, l)
    <3>1. s = {i}
      BY <1>1, <2>3
    <3> QED
      BY <1>2, <1>3, <2>1, <3>1
  <2>4. [s \in SUBSET S |-> IF s = {} THEN stats ELSE Job!Add(stats, l)] = Body(g)
    BY <2>3
  <2> QED
    BY <2>2, <2>4
<1>5. iter = Body(iter)
  <2> HIDE DEF Body, g
  <2> QED
    BY <1>4
<1>6. Body(iter)[{}] = stats
  <2> HIDE DEF iter
  <2> QED
    OBVIOUS
<1>7. S = {i} => Body(iter)[S] = Job!Add(iter[{}], l)
  <2> HIDE DEF iter
  <2> QED
    BY <1>2, <1>3
<1>8. S = IF Counts(l) THEN {i} ELSE {}
  BY <1>3 DEF S
<1>9. stats' = iter[S]
  <2> HIDE DEF iter, Body
  <2>1. CASE Counts(l)
    <3>1. S = {i}
      BY <1>8, <2>1
    <3>2. iter[S] = Job!Add(iter[{}], l)
      BY <1>5, <1>7, <3>1
    <3> QED
      BY <1>5, <1>6, <2>1, <3>2
  <2>2. CASE ~Counts(l)
    BY <1>5, <1>6, <1>8, <2>2
  <2> QED
    BY <2>1, <2>2
<1>10. stats' = Job!FoldSet(LAMBDA j, t : Job!Add(t, J[j]), stats, S)
  BY <1>9 DEF Job!FoldSet, Job!MapThenFoldSet
<1>11. Unaccounted' = Unaccounted \ {i} /\ {i} # {}
  OBVIOUS
<1>12. UNCHANGED <<IF inputOpens THEN input ELSE <<>>, outputOpens,
                       IF finished THEN {ToSet(output)} ELSE {}>>
  OBVIOUS
<1> QED
  BY <1>10, <1>11, <1>12, Zenon DEF Job!Account, J, S

\* What is not accounted for is unread or in one of the places.
LEMMA UnaccountedPlaces ==
    /\ Unaccounted =
        IF ~inputOpens THEN {} ELSE (sequence + 1 .. Len(input)) \cup InPlaces(where)
    /\ Unaccounted' =
        IF ~inputOpens' THEN {} ELSE (sequence' + 1 .. Len(input')) \cup InPlaces(where')
<1>1. HeldIndices \cup UNION {ToSet(items[q]) : q \in Stage} = InPlaces(where)
  <2>1. HeldIndices \cup UNION {ToSet(items[q]) : q \in Stage} \subseteq InPlaces(where)
    <3>1. HeldIndices \subseteq InPlaces(where)
      <4> SUFFICES ASSUME NEW t \in Worker, pc[t] = "give"
                   PROVE  held[t] \in InPlaces(where)
        BY DEF HeldIndices, Worker
      <4>1. <<"hand", t>> \in DOMAIN where /\ where[<<"hand", t>>] = {held[t]}
        BY Places
      <4> QED
        BY <4>1 DEF InPlaces
    <3>2. \A q \in Stage : ToSet(items[q]) \subseteq InPlaces(where)
      BY Places DEF InPlaces
    <3> QED
      BY <3>1, <3>2
  <2>2. ASSUME NEW l \in Place
        PROVE  where[l] \subseteq HeldIndices \cup UNION {ToSet(items[q]) : q \in Stage}
    <3>1. CASE \E q \in Stage : l = <<"queue", q>>
      BY <3>1, Places
    <3>2. CASE \E t \in Worker : l = <<"hand", t>>
      <4>1. PICK t \in Worker : l = <<"hand", t>>
        BY <3>2
      <4>2. where[l] = IF pc[t] = "give" THEN {held[t]} ELSE {}
        BY <4>1, Places
      <4>3. pc[t] = "give" => held[t] \in HeldIndices
        BY DEF HeldIndices, Worker
      <4> QED
        BY <4>2, <4>3
    <3> QED
      BY <3>1, <3>2, Places
  <2>3. InPlaces(where) \subseteq HeldIndices \cup UNION {ToSet(items[q]) : q \in Stage}
    BY <2>2, Places DEF InPlaces
  <2> QED
    BY <2>1, <2>3
<1>2. HeldIndices' \cup UNION {ToSet(items'[q]) : q \in Stage} = InPlaces(where')
  <2>1. HeldIndices' \cup UNION {ToSet(items'[q]) : q \in Stage} \subseteq InPlaces(where')
    <3>1. HeldIndices' \subseteq InPlaces(where')
      <4> SUFFICES ASSUME NEW t \in Worker, pc'[t] = "give"
                   PROVE  held'[t] \in InPlaces(where')
        BY DEF HeldIndices, Worker
      <4>1. <<"hand", t>> \in DOMAIN where' /\ where'[<<"hand", t>>] = {held'[t]}
        BY Places
      <4> QED
        BY <4>1 DEF InPlaces
    <3>2. \A q \in Stage : ToSet(items'[q]) \subseteq InPlaces(where')
      BY Places DEF InPlaces
    <3> QED
      BY <3>1, <3>2
  <2>2. ASSUME NEW l \in Place
        PROVE  where'[l] \subseteq HeldIndices' \cup UNION {ToSet(items'[q]) : q \in Stage}
    <3>1. CASE \E q \in Stage : l = <<"queue", q>>
      BY <3>1, Places
    <3>2. CASE \E t \in Worker : l = <<"hand", t>>
      <4>1. PICK t \in Worker : l = <<"hand", t>>
        BY <3>2
      <4>2. where'[l] = IF pc'[t] = "give" THEN {held'[t]} ELSE {}
        BY <4>1, Places
      <4>3. pc'[t] = "give" => held'[t] \in HeldIndices'
        BY DEF HeldIndices, Worker
      <4> QED
        BY <4>2, <4>3
    <3> QED
      BY <3>1, <3>2, Places
  <2>3. InPlaces(where') \subseteq HeldIndices' \cup UNION {ToSet(items'[q]) : q \in Stage}
    BY <2>2, Places DEF InPlaces
  <2> QED
    BY <2>1, <2>3
<1> QED
  BY <1>1, <1>2 DEF Unaccounted, Stage

LEMMA InitJob == Init => Job!JobInit
<1> SUFFICES ASSUME Init
             PROVE  Job!JobInit
  OBVIOUS
<1>1. input \in Seq(Line) /\ inputOpens \in BOOLEAN /\ outputOpens \in BOOLEAN
  BY InitTyped DEF Typed, LocalsTyped
<1>2. (IF inputOpens THEN input ELSE <<>>) \in Seq(Line)
  BY <1>1
<1>3. Unaccounted = 1 .. Len(IF inputOpens THEN input ELSE <<>>)
  <2>1. sequence = 0 /\ InPlaces(where) = {}
    BY InitPlaces DEF Init
  <2>2. CASE inputOpens
    BY <2>1, <2>2, UnaccountedPlaces
  <2>3. CASE ~inputOpens
    BY <2>3, UnaccountedPlaces
  <2> QED
    BY <2>2, <2>3
<1>4. stats = [k \in {} |-> 0] /\ (IF finished THEN {ToSet(output)} ELSE {}) = {}
  BY DEF Init
<1> QED
  BY <1>1, <1>2, <1>3, <1>4 DEF Job!JobInit

\* After run() has returned nothing happens.
LEMMA NothingAfter == Inv /\ Flow /\ finished /\ [Next]_vars => UNCHANGED vars
<1> SUFFICES ASSUME Inv, Flow, finished, Next
             PROVE  FALSE
  OBVIOUS
<1>1. /\ pc["reader"] = "done" /\ pc["rules"] = "done" /\ pc["aggregator"] = "done"
      /\ pc["writer"] = "done" /\ \A p \in Parser : pc[p] = "done"
  BY Threads DEF Flow
<1>2. ~ReaderStep
  BY <1>1 DEF ReaderStep, ReaderPushes, ReaderEnds
<1>3. ~RulesStep
  BY <1>1 DEF RulesStep, RulesTakes, RulesGives, RulesCloses
<1>4. ~AggregatorStep
  BY <1>1 DEF AggregatorStep, AggregatorTakes, AggregatorGives, AggregatorCloses
<1>5. ~WriterStep /\ ~Finish
  BY <1>1 DEF WriterStep, WriterTakes, WriterFails, Finish
<1>6. \A p \in Parser : ~ParserStep(p)
  BY <1>1 DEF ParserStep, ParserTakes, ParserGives, ParserLeaves, ParserCloses
<1> QED
  BY <1>2, <1>3, <1>4, <1>5, <1>6 DEF Next

LEMMA FilesKept == [Next]_vars => UNCHANGED files
<1>1. ReaderStep => UNCHANGED files
  BY DEF ReaderStep, ReaderPushes, ReaderEnds
<1>2. RulesStep => UNCHANGED files
  BY DEF RulesStep, RulesTakes, RulesGives, RulesCloses
<1>3. AggregatorStep => UNCHANGED files
  BY DEF AggregatorStep, AggregatorTakes, AggregatorGives, AggregatorCloses
<1>4. WriterStep \/ Finish => UNCHANGED files
  BY DEF WriterStep, WriterTakes, WriterFails, Finish
<1>5. \A p \in Parser : ParserStep(p) => UNCHANGED files
  BY DEF ParserStep, ParserTakes, ParserGives, ParserLeaves, ParserCloses
<1>6. UNCHANGED vars => UNCHANGED files
  BY DEF vars, files
<1> QED
  BY <1>1, <1>2, <1>3, <1>4, <1>5, <1>6 DEF Next

LEMMA OnlyFinishFinishes == [Next]_vars => Finish \/ finished' = finished
<1>1. ReaderStep => finished' = finished
  BY DEF ReaderStep, ReaderPushes, ReaderEnds, Waits, localVars
<1>2. RulesStep => finished' = finished
  BY DEF RulesStep, RulesTakes, RulesGives, RulesCloses, Waits, localVars
<1>3. AggregatorStep => finished' = finished
  BY DEF AggregatorStep, AggregatorTakes, AggregatorGives, AggregatorCloses, Waits, localVars
<1>4. WriterStep => finished' = finished
  BY DEF WriterStep, WriterTakes, WriterFails, Waits, localVars
<1>5. \A p \in Parser : ParserStep(p) => finished' = finished
  BY DEF ParserStep, ParserTakes, ParserGives, ParserLeaves, ParserCloses, Waits, localVars
<1>6. UNCHANGED vars => finished' = finished
  BY DEF vars
<1> QED
  BY <1>1, <1>2, <1>3, <1>4, <1>5, <1>6 DEF Next

\* Every step does a step of the job or leaves it alone: a line's accounting
\* is the step that drops it or adds it to the totals, the publication the
\* end of the join.
LEMMA StepJob ==
    ASSUME Inv, Typed, Flow, Published, OnePlace, [Next]_vars
    PROVE  [Job!JobNext]_(Job!jobVars)
<1> DEFINE J == IF inputOpens THEN input ELSE <<>>
           P == IF finished THEN {ToSet(output)} ELSE {}
<1>0. /\ input \in Seq(Line) /\ sequence \in 0 .. Len(input) /\ Len(input) \in Nat
      /\ inputOpens \in BOOLEAN
  BY DEF Typed, LocalsTyped
<1>1. input' = input /\ inputOpens' = inputOpens /\ outputOpens' = outputOpens /\ J' = J
  BY FilesKept DEF files
<1>2. CASE finished
  <2>1. UNCHANGED vars
    BY <1>2, NothingAfter
  <2>2. Unaccounted' = Unaccounted
    BY <2>1 DEF vars, Unaccounted, HeldIndices
  <2> QED
    BY <2>1, <2>2 DEF vars, Job!jobVars
<1>3. CASE ~finished /\ ~Finish
  <2>1. P' = P
    BY <1>3, OnlyFinishFinishes
  <2>2. JobStep
    BY StepPlaces
  <2>3. CASE Idles
    <3>1. Unaccounted' = Unaccounted
      BY <1>1, <2>3, UnaccountedPlaces DEF Idles
    <3> QED
      BY <1>1, <2>1, <2>3, <3>1 DEF Idles, Job!jobVars
  <2>4. CASE Reads
    <3>1. (sequence' + 1 .. Len(input)) \cup {sequence + 1} = sequence + 1 .. Len(input)
      BY <1>0, <2>4 DEF Reads
    <3>2. Unaccounted' = Unaccounted
      BY <1>1, <2>4, <3>1, UnaccountedPlaces DEF Reads
    <3> QED
      BY <1>1, <2>1, <2>4, <3>2 DEF Reads, Job!jobVars
  <2>5. CASE \E i \in InPlaces(where) : Accounts(i)
    <3>1. PICK i \in InPlaces(where) : Accounts(i)
      BY <2>5
    <3>2. i \in 1 .. sequence
      BY PlacesRead
    <3>3. inputOpens
      BY <1>0, <3>2 DEF Flow
    <3>4. i \in Unaccounted /\ Unaccounted' = Unaccounted \ {i}
      BY <1>0, <1>1, <3>1, <3>2, <3>3, UnaccountedPlaces DEF Accounts
    <3>5. stats' = IF Counts(input[i]) THEN Job!Add(stats, input[i]) ELSE stats
      BY <3>1 DEF Accounts
    <3>6. input[i] = J[i]
      BY <3>3
    <3>7. Job!Account({i})
      BY <1>1, <2>1, <3>4, <3>5, <3>6, AccountOne
    <3>8. {i} \in SUBSET Unaccounted
      BY <3>4
    <3> QED
      BY <3>7, <3>8 DEF Job!JobNext
  <2> QED
    BY <2>2, <2>3, <2>4, <2>5 DEF JobStep
<1>4. CASE ~finished /\ Finish
  <2>1. /\ \A t \in Thread : pc[t] = "done"
        /\ finished' = TRUE /\ items' = items
        /\ UNCHANGED <<pc, held, sequence, stats, output>>
    BY <1>4 DEF Finish, queueVars
  <2>2. pc["reader"] = "done" /\ pc["aggregator"] = "done" /\ pc["writer"] = "done"
    BY <2>1, Threads
  <2>3. \A t \in Worker : pc[t] = "done" /\ where[<<"hand", t>>] = {}
    BY <2>1, Places
  <2>4. ASSUME NEW q \in Stage
        PROVE  where[<<"queue", q>>] = {}
    <3>1. \E t \in Consumers[q] : t \in Thread
      BY Threads, PipelineAssumption DEF Consumers, Stage
    <3>2. q # "result" /\ q \in Queue
      BY Places DEF Stage
    <3>3. Drained(q)
      BY <2>1, <3>1, <3>2 DEF Flow, Stopped
    <3> QED
      BY <3>3, Places DEF Drained, ToSet
  <2>5. InPlaces(where) = {}
    BY <2>3, <2>4, Places DEF InPlaces
  <2>6. Unaccounted = {} /\ Unaccounted' = Unaccounted
    <3>1. Unaccounted = {}
      <4>1. CASE inputOpens
        <5>1. sequence + 1 .. Len(input) = {}
          BY <1>0, <2>2, <4>1 DEF Flow
        <5> QED
          BY <2>5, <5>1, UnaccountedPlaces
      <4>2. CASE ~inputOpens
        BY <4>2, UnaccountedPlaces
      <4> QED
        BY <4>1, <4>2
    <3>2. Unaccounted' = Unaccounted
      BY <1>1, <2>1 DEF Unaccounted, HeldIndices
    <3> QED
      BY <3>1, <3>2
  <2>7. ToSet(output) = IF outputOpens THEN Job!Results(stats) ELSE {}
    <3>1. CASE outputOpens
      <4>1. "writer" \in Consumers["result"] /\ "result" \in Queue
        BY PipelineAssumption DEF Consumers
      <4>2. Stopped("writer")
        BY <2>2, Threads DEF Stopped, Worker
      <4>3. Drained("result")
        BY <3>1, <4>1, <4>2 DEF Flow
      <4>. DEFINE given == {ResultOf(order[n]) : n \in 1 .. held["aggregator"] - 1}
      <4>0. ToSet(items["result"]) = {}
        BY <4>3 DEF Drained, ToSet
      <4>4. given = ToSet(output) /\ held["aggregator"] = Len(order) + 1
        BY <2>2, <4>0, <4>3 DEF Published
      <4>5. order \in Seq(SupportedType) /\ DOMAIN stats = ToSet(order)
        BY DEF Typed, LocalsTyped
      <4>6. 1 .. held["aggregator"] - 1 = DOMAIN order
        BY <4>4, <4>5
      <4>7. ToSet(output) = {ResultOf(k) : k \in ToSet(order)}
        BY <4>4, <4>6 DEF ToSet
      <4> QED
        BY <3>1, <4>5, <4>7 DEF Job!Results, ResultOf
    <3>2. CASE ~outputOpens
      BY <3>2 DEF Published, ToSet
    <3> QED
      BY <3>1, <3>2
  <2>8. P = {} /\ P' = {IF outputOpens THEN Job!Results(stats) ELSE {}}
    BY <1>4, <2>1, <2>7 DEF ToSet
  <2>9. Job!Publish
    BY <1>1, <2>1, <2>6, <2>8 DEF Job!Publish
  <2> QED
    BY <2>9 DEF Job!JobNext
<1> QED
  BY <1>2, <1>3, <1>4

\* The threads of the monolith do the aggregation job, for any number of
\* parsers, any input and any capacity: each line is accounted for once, and
\* what is in the file when run() returns is the complete account.
THEOREM DoesTheJob == Spec => JobImplemented
<1> DEFINE Everything == Inv /\ Typed /\ Flow /\ Published /\ OnePlace
<1>1. Init => Everything
  BY InitInv, InitTyped, InitFlow, InitPublished, InitPlaces
<1>2. Everything /\ [Next]_vars => Everything'
  BY StepInv, StepTyped, StepFlow, StepPublished, StepPlaces DEF JobStep
<1>3. Everything /\ [Next]_vars => [Job!JobNext]_(Job!jobVars)
  BY StepJob
<1> HIDE DEF Everything
<1> QED
  BY <1>1, <1>2, <1>3, InitJob, PTL DEF Spec, JobImplemented, Job!JobSpec
=============================================================================
