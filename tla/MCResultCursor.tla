-------------------------- MODULE MCResultCursor --------------------------
(***************************************************************************)
(* Model-checking instance of ResultCursor: two consumers over one cursor, *)
(* result sets on both sides of the 50-record page boundary.               *)
(***************************************************************************)
EXTENDS ResultCursor

CONSTANTS it1, it2, undef

MCIterators == {it1, it2}

\* Empty, one record, exactly one page, one past a page, and three pages
\* whose last holds a single record.
MCResultSizes == {0, 1, 50, 51, 101}
===========================================================================
