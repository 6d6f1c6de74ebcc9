--------------------------- MODULE QueryBuilder ---------------------------
(***************************************************************************)
(* StaxQueryBuilder (src/stax_js/index.js): the fluent builder behind      *)
(* graph.query(), composed with the graph's executeQuery() and plan cache  *)
(* (module PlanCache).  find / filter / union / traverse append steps to   *)
(* this._plan through _processCriterion; execute() hands the whole plan,   *)
(* which the builder keeps, to executeQuery().  graph.query() starts a new *)
(* builder with an empty plan; the old one is dropped.                     *)
(*                                                                         *)
(* A criterion is one field of a criteria object with the kind of value   *)
(* the caller gave it; a mapping is a sequence of criteria in             *)
(* Object.keys order.  Kinds: a scalar; a range object (gte/lte/gt/lt);   *)
(* {near, radius}; {lat, lon}; any other object; undefined; and           *)
(* {near: null, radius}, on which _processCriterion throws a TypeError    *)
(* when it destructures `near`.                                            *)
(***************************************************************************)
EXTENDS Integers, Sequences, SequencesExt

CONSTANTS
    Names, AllOnes32, MaxCompileCalls, MaxExecutions,
    Relationships,   \* relationship types passed to traverse()
    Mappings,        \* criteria objects passed to find / filter / union
    FindArgs,        \* arguments of find(): [isArray, groups]
    MaxPlanLen       \* bound on the length of a builder's plan

VARIABLES
    planCache, nextId, compileCalls, compiled, executed,
    plan,       \* this._plan of the current builder
    firstCall   \* the first method called on the current builder

PC == INSTANCE PlanCache WITH Plans <- {}

vars == <<planCache, nextId, compileCalls, compiled, executed, plan, firstCall>>
cacheVars == <<planCache, nextId, compileCalls, compiled, executed>>

InputKinds == {"scalar", "range", "near", "point", "object", "undefined", "badNear"}
Criterion == [field : Names, kind : InputKinds]

---------------------------------------------------------------------------

\* The value _processCriterion pushes for a criterion of a given kind: a
\* {gte: gte ?? gt, lte: lte ?? lt} range; a {gte, lte} pair of geohashes
\* for {near, radius} and for {lat, lon}; otherwise the value itself.
ProcessedValue(kind) ==
    CASE kind = "range"            -> "range"
      [] kind \in {"near", "point"} -> "georange"
      [] kind = "object"           -> "object"
      [] kind = "undefined"        -> "undefined"
      [] OTHER                     -> "scalar"

\* _processCriterion(opType, field, value): the step it pushes.
ProcessCriterion(opType, c) ==
    [op |-> opType, field |-> c.field, value |-> ProcessedValue(c.kind),
     direction |-> "none"]

\* The calls of _processCriterion a builder method makes, in order, as
\* <<opType, criterion>> pairs.  In one group the first field gets `op` and
\* the others "intersect" (processGroup, and the object branch of find).
GroupCalls(op, m) ==
    [k \in DOMAIN m |-> <<IF k = 1 THEN op ELSE "intersect", m[k]>>]

\* find(): an array makes its first group "find" and the others "union";
\* an object is one "find" group; an empty array or object adds nothing.
FindCalls(arg) ==
    IF arg.isArray
    THEN FlattenSeq([g \in DOMAIN arg.groups |->
                       GroupCalls(IF g = 1 THEN "find" ELSE "union",
                                  arg.groups[g])])
    ELSE GroupCalls("find", arg.groups[1])

\* filter() and union(): one call per entry, all with the same opType.
EntryCalls(op, m) == [k \in DOMAIN m |-> <<op, m[k]>>]

\* Running the calls in order: the steps pushed before the first criterion
\* that throws (all of them if none does).  Earlier pushes stay in the plan.
ThrowsAt(calls) == SelectInSeq(calls, LAMBDA c : c[2].kind = "badNear")

Pushed(calls) ==
    LET done == IF ThrowsAt(calls) = 0 THEN calls
                ELSE SubSeq(calls, 1, ThrowsAt(calls) - 1)
    IN  [k \in DOMAIN done |-> ProcessCriterion(done[k][1], done[k][2])]

\* A builder method that runs `calls` through _processCriterion.
Run(method, calls) ==
    /\ Len(plan) + Len(Pushed(calls)) <= MaxPlanLen
    /\ plan' = plan \o Pushed(calls)
    /\ firstCall' = IF firstCall = "none" THEN method ELSE firstCall
    /\ UNCHANGED cacheVars

---------------------------------------------------------------------------
(* The builder's methods.                                                  *)

\* find(criteria) with an object or an array of objects.  (Any other
\* argument throws a TypeError before touching the plan.)
Find(arg) == Run("find", FindCalls(arg))

\* filter(properties) and union(properties) with an object.  (null or a
\* non-object throws a TypeError before touching the plan.)
Filter(m) == Run("filter", EntryCalls("intersect", m))

Union(m) == Run("union", EntryCalls("union", m))

TraverseNoCheck(direction, rel) ==
    /\ Len(plan) < MaxPlanLen
    /\ plan' = Append(plan, [op |-> "traverse", field |-> rel,
                             value |-> "none", direction |-> direction])
    /\ firstCall' = IF firstCall = "none" THEN "traverse" ELSE firstCall
    /\ UNCHANGED cacheVars

\* traverse(direction, relationshipType, filterProperties): a direction other
\* than 'in' or 'out' throws before anything is pushed; otherwise one
\* traverse step (its filter is not part of the step's structure).
Traverse(direction, rel) ==
    \/ /\ direction \notin {"in", "out"}
       /\ UNCHANGED vars
    \/ /\ direction \in {"in", "out"}
       /\ Len(plan) < MaxPlanLen
       /\ plan' = Append(plan, [op |-> "traverse", field |-> rel,
                                value |-> "none", direction |-> direction])
       /\ firstCall' = IF firstCall = "none" THEN "traverse" ELSE firstCall
       /\ UNCHANGED cacheVars

\* execute(): this._graph.executeQuery(this._plan); the plan is kept.
Execute ==
    /\ PC!ExecuteQuery(plan)
    /\ UNCHANGED <<plan, firstCall>>

\* graph.query(): a new builder.
NewQuery ==
    /\ plan' = <<>>
    /\ firstCall' = "none"
    /\ UNCHANGED cacheVars

---------------------------------------------------------------------------

Init ==
    /\ PC!Init
    /\ plan = <<>>
    /\ firstCall = "none"

Next ==
    \/ \E arg \in FindArgs : Find(arg)
    \/ \E m \in Mappings : Filter(m) \/ Union(m)
    \/ \E d \in {"in", "out", "sideways"}, r \in Relationships : Traverse(d, r)
    \/ Execute
    \/ NewQuery

Spec == Init /\ [][Next]_vars

---------------------------------------------------------------------------
(* Properties                                                              *)

TypeOK ==
    /\ PC!TypeOK
    /\ plan \in Seq(PC!Step)
    /\ Len(plan) <= MaxPlanLen
    /\ firstCall \in {"none", "find", "filter", "union", "traverse"}

\* Spec section 3: a plan's first step is never Intersect or Union.  A
\* caller who starts a builder with find() gets a plan that starts with a
\* Find step.
FindFirstStartsWithFind ==
    (firstCall = "find" /\ plan # <<>>) => plan[1].op = "find"
===========================================================================
