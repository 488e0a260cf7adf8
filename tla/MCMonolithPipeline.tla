------------------------ MODULE MCMonolithPipeline -------------------------
(***************************************************************************)
(* Instances of MonolithPipeline: all inputs of up to MaxLines lines drawn *)
(* from a click and a purchase that pass the rules, a view that does not,  *)
(* and a line without a user.                                              *)
(***************************************************************************)
EXTENDS MonolithPipeline

MCQueue == {"raw", "parsed", "enriched", "result"}

TypedLine(type, value) == [ts |-> "t", type |-> type, user |-> "u", value |-> value]

MCLine ==
    {TypedLine("click", 10), TypedLine("purchase", 20), TypedLine("view", 30),
     [TypedLine("click", 10) EXCEPT !.user = Missing]}
=============================================================================
