-------------------------- MODULE MCQueryBuilder --------------------------
(***************************************************************************)
(* Model-checking instance of QueryBuilder: two fields, one relationship  *)
(* type, and criteria covering every branch of _processCriterion.          *)
(***************************************************************************)
EXTENDS QueryBuilder

CONSTANTS allOnes, a, b, r

MCNames == {a, b, r}

Crit(f, k) == [field |-> f, kind |-> k]
Obj(m) == [isArray |-> FALSE, groups |-> <<m>>]
Arr(gs) == [isArray |-> TRUE, groups |-> gs]

\* {a: 1}; {a: {gte, lte}}; {a: undefined}; {b: {near, radius}};
\* {a: 1, b: {near: null, radius}}; {b: {lat, lon}, a: {...}}.
MA    == <<Crit(a, "scalar")>>
MAR   == <<Crit(a, "range")>>
MAU   == <<Crit(a, "undefined")>>
MBN   == <<Crit(b, "near")>>
MABAD == <<Crit(a, "scalar"), Crit(b, "badNear")>>
MBP   == <<Crit(b, "point"), Crit(a, "object")>>

MCMappings == {MA, MBN}

MCFindArgs ==
    { Obj(MA), Obj(MAU), Obj(MABAD), Obj(<<>>), Obj(MBP),
      Arr(<<>>), Arr(<<MAR, MBN>>), Arr(<<<<>>, MBN>>) }
===========================================================================
