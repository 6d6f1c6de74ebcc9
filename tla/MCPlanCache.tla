--------------------------- MODULE MCPlanCache ---------------------------
(***************************************************************************)
(* Model-checking instance of PlanCache.  The plans are those the test     *)
(* suite and the query builder hand to executeQuery(): one shape with two  *)
(* different literals and with a missing value, the same shape on another *)
(* field, and two traversals that differ only in direction.               *)
(***************************************************************************)
EXTENDS PlanCache

CONSTANTS allOnes, name, price, worksOn

MCNames == {name, price, worksOn}

FindStep(f, v) == [op |-> "find", field |-> f, value |-> v, direction |-> "none"]
TraverseStep(d, r) == [op |-> "traverse", field |-> r, value |-> "none", direction |-> d]

MCPlans ==
    { <<FindStep(name, "scalar")>>,
      <<FindStep(name, "range")>>,
      <<FindStep(name, "undefined")>>,
      <<FindStep(price, "scalar")>>,
      <<FindStep(name, "scalar"), TraverseStep("out", worksOn)>>,
      <<FindStep(name, "scalar"), TraverseStep("in", worksOn)>> }
===========================================================================
