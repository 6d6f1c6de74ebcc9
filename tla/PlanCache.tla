---------------------------- MODULE PlanCache ----------------------------
(***************************************************************************)
(* StaxGraph.executeQuery (src/stax_js/index.js) and its plan-signature    *)
(* cache: a plan is reduced to its signature (every step without its      *)
(* `value` and `filter`), the signature is looked up in this._planCache,  *)
(* the native compileQuery() runs only on a miss, and the native          *)
(* executeQuery() then runs with the cached or new plan id.               *)
(*                                                                         *)
(* A plan is a sequence of step records.  Literal values are abstracted   *)
(* to what the engine tells apart: a value that is present (a scalar or a *)
(* range, whatever its literals) or absent ("undefined"); a traverse step *)
(* carries no value ("none").                                              *)
(*                                                                         *)
(* The engine (spec_modelled; it is native code): compileQuery() accepts a *)
(* plan whose value-carrying steps all have a value and returns a fresh   *)
(* id, and rejects any other plan with one of the two invalid-id values   *)
(* (spec section 4.4, test.js testErrorHandling).  A compiled id stands   *)
(* for the plan's structure: operator, field and direction of each step.  *)
(***************************************************************************)
EXTENDS Integers, Sequences, FiniteSets, Functions

CONSTANTS
    Names,            \* field names and relationship types
    Plans,            \* the plans callers hand to executeQuery()
    AllOnes32,        \* the native sentinel 4294967295 (0xFFFFFFFF)
    MaxCompileCalls,  \* bound on native compileQuery() calls
    MaxExecutions     \* bound on native executeQuery() calls

\* The two ids the code treats as "failed to compile" (index.js line 287).
\* 4294967295 exceeds TLC's integers, so it is a model value here.
InvalidPlanIds == {-1, AllOnes32}

\* What a step can be, with literal values abstracted to their kind.
Ops == {"find", "intersect", "union", "traverse"}
ValueKinds == {"scalar", "range", "georange", "object", "undefined", "none"}
Directions == {"in", "out", "none"}
Step == [op : Ops, field : Names, value : ValueKinds, direction : Directions]

VARIABLES
    planCache,     \* this._planCache: signature -> plan id
    nextId,        \* the next id the engine hands out
    compileCalls,  \* native compileQuery() calls so far
    compiled,      \* engine history: <<id, structure>> of each accepted compile
    executed       \* native executeQuery() calls: <<id, plan>>, in order

vars == <<planCache, nextId, compileCalls, compiled, executed>>

---------------------------------------------------------------------------

\* The engine's view of a compiled plan: what each step does, to which field
\* or relationship type, in which direction (spec section 3, PlanSignature).
Structure(plan) ==
    [k \in DOMAIN plan |-> [op |-> plan[k].op, field |-> plan[k].field,
                            direction |-> plan[k].direction]]

\* The native compileQuery(): a fresh id for a plan whose find, intersect and
\* union steps all carry a value; an invalid id otherwise.
EngineAccepts(plan) ==
    \A k \in DOMAIN plan : plan[k].op # "traverse" => plan[k].value # "undefined"

EngineCompile(plan) ==
    IF EngineAccepts(plan) THEN {nextId} ELSE InvalidPlanIds

\* What one native compileQuery() call does on the engine side.
EngineCompileStep(plan, id) ==
    /\ compileCalls' = compileCalls + 1
    /\ nextId' = IF EngineAccepts(plan) THEN nextId + 1 ELSE nextId
    /\ compiled' = IF EngineAccepts(plan)
                      THEN compiled \cup {<<id, Structure(plan)>>}
                      ELSE compiled

---------------------------------------------------------------------------

SignatureOpsOnly(plan) ==
    [k \in DOMAIN plan |-> [op |-> plan[k].op, field |-> "any",
                            direction |-> plan[k].direction]]

SignatureNoDirection(plan) ==
    [k \in DOMAIN plan |-> [op |-> plan[k].op, field |-> plan[k].field,
                            direction |-> "none"]]

\* JSON.stringify(plan.map(({value, filter, ...sigStep}) => sigStep)): the
\* steps with their value and filter removed.  JSON.stringify is injective
\* on these records (fixed key order), so the string is the record sequence.
Signature(plan) ==
    [k \in DOMAIN plan |-> [op |-> plan[k].op, field |-> plan[k].field,
                            direction |-> plan[k].direction]]

\* The code's test for a failed compile.
IsInvalidIdMinusOneOnly(id) == id = -1

IsInvalidId(id) == id \in InvalidPlanIds

\* executeQuery(plan): look the signature up; on a miss compile, throw on an
\* invalid id, otherwise remember the id; then execute natively.  (A null
\* native result handle makes the StaxResultSet constructor throw after the
\* native call; it changes no state this module keeps.)
ExecuteQueryNoCache(plan) ==
    LET sig == Signature(plan) IN
    /\ Len(executed) < MaxExecutions
    /\ \/ /\ sig \in DOMAIN planCache
          /\ executed' = Append(executed, <<planCache[sig], plan>>)
          /\ UNCHANGED <<planCache, nextId, compileCalls, compiled>>
       \/ /\ sig \notin DOMAIN planCache
          /\ compileCalls < MaxCompileCalls
          /\ \E id \in EngineCompile(plan) :
               /\ EngineCompileStep(plan, id)
               /\ \/ /\ IsInvalidId(id)
                     /\ UNCHANGED <<planCache, executed>>
                  \/ /\ ~IsInvalidId(id)
                     /\ executed' = Append(executed, <<id, plan>>)
                     /\ UNCHANGED planCache

\* executeQuery(plan): look the signature up; on a miss compile, throw on an
\* invalid id, otherwise remember the id; then execute natively.  (A null
\* native result handle makes the StaxResultSet constructor throw after the
\* native call; it changes no state this module keeps.)
ExecuteQuery(plan) ==
    LET sig == Signature(plan) IN
    /\ Len(executed) < MaxExecutions
    /\ \/ /\ sig \in DOMAIN planCache
          /\ executed' = Append(executed, <<planCache[sig], plan>>)
          /\ UNCHANGED <<planCache, nextId, compileCalls, compiled>>
       \/ /\ sig \notin DOMAIN planCache
          /\ compileCalls < MaxCompileCalls
          /\ \E id \in EngineCompile(plan) :
               /\ EngineCompileStep(plan, id)
               /\ \/ /\ IsInvalidId(id)
                     /\ UNCHANGED <<planCache, executed>>
                  \/ /\ ~IsInvalidId(id)
                     /\ planCache' = [s \in DOMAIN planCache \cup {sig} |->
                                        IF s = sig THEN id ELSE planCache[s]]
                     /\ executed' = Append(executed, <<id, plan>>)

---------------------------------------------------------------------------

Init ==
    /\ planCache = [s \in {} |-> 0]
    /\ nextId = 0
    /\ compileCalls = 0
    /\ compiled = {}
    /\ executed = <<>>

Next == \E p \in Plans : ExecuteQuery(p)

Spec == Init /\ [][Next]_vars

---------------------------------------------------------------------------
(* Properties                                                              *)

TypeOK ==
    /\ planCache \in [DOMAIN planCache -> Nat]
    /\ nextId \in Nat
    /\ compileCalls \in 0..MaxCompileCalls
    /\ \A e \in Range(executed) : e[1] \in Nat /\ e[2] \in Seq(Step)

\* The cache only ever holds, under a signature, an id the engine handed out
\* when it compiled a plan of exactly that structure: no rejected compile
\* and no plan of another shape stands behind a cache entry.
CacheCoherent ==
    \A s \in DOMAIN planCache : <<planCache[s], s>> \in compiled

\* Every native execution runs under an id the engine compiled for a plan of
\* the same structure as the plan it is given: a cache hit never pairs a
\* plan with another shape's compiled plan.
ExecutedWithOwnShape ==
    \A k \in DOMAIN executed :
        <<executed[k][1], Structure(executed[k][2])>> \in compiled

\* Spec section 8: plans of one shape, whatever their literals, are compiled
\* successfully once between them.
CompileOncePerShape ==
    \A c, d \in compiled : c[2] = d[2] => c[1] = d[1]

\* Spec sections 3 and 7: a malformed plan is a usage error and is never
\* sent to the engine for execution; the engine's compile rejects it.
ExecutedPlansAccepted ==
    \A k \in DOMAIN executed : EngineAccepts(executed[k][2])
===========================================================================
