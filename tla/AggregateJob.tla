--------------------------- MODULE AggregateJob ----------------------------
(***************************************************************************)
(* What the event pipelines promise, however they divide the work: every   *)
(* line of the input is accounted for exactly once, in any order; lines    *)
(* that pass validation and the rules are counted and summed under their   *)
(* type; and what is published, once, is the complete account, or nothing  *)
(* when the output cannot be written.                                      *)
(***************************************************************************)
EXTENDS Integers, Sequences, FiniteSetsExt

CONSTANTS
    Line,           \* lines of an input file
    Counts(_),      \* does a line pass validation and the rules
    Key(_),         \* the group of a line that does
    Value(_)        \* and its value

VARIABLES
    input,      \* the lines
    writable,   \* whether the output can be written
    todo,       \* positions of lines not yet accounted for
    totals,     \* count and sum per group
    published   \* the set of accounts published: none, or one

jobVars == <<input, writable, todo, totals, published>>

Add(t, l) ==
    LET old == IF Key(l) \in DOMAIN t THEN t[Key(l)] ELSE [count |-> 0, sum |-> 0]
    IN  [k \in DOMAIN t \cup {Key(l)} |->
            IF k = Key(l) THEN [count |-> old.count + 1, sum |-> old.sum + Value(l)]
            ELSE t[k]]

JobInit ==
    /\ input \in Seq(Line)
    /\ writable \in BOOLEAN
    /\ todo = 1 .. Len(input)
    /\ totals = [k \in {} |-> 0]
    /\ published = {}

\* A step may account for a whole batch of lines.
Account(some) ==
    /\ some # {}
    /\ todo' = todo \ some
    /\ totals' = FoldSet(LAMBDA i, t : Add(t, input[i]), totals, {i \in some : Counts(input[i])})
    /\ UNCHANGED <<input, writable, published>>

Results(t) == {[key |-> k, count |-> t[k].count, sum |-> t[k].sum] : k \in DOMAIN t}

Publish ==
    /\ todo = {} /\ published = {}
    /\ published' = {IF writable THEN Results(totals) ELSE {}}
    /\ UNCHANGED <<input, writable, todo, totals>>

JobNext == (\E some \in SUBSET todo : Account(some)) \/ Publish

JobSpec == JobInit /\ [][JobNext]_jobVars
=============================================================================
