-------------------------- MODULE MCProfileBench --------------------------
(***************************************************************************)
(* Model-checking instance of ProfileBench: two worker threads, as         *)
(* NUM_THREADS is on any machine with more than one CPU.                   *)
(***************************************************************************)
EXTENDS ProfileBench

CONSTANTS w1, w2

MCWorkers == {w1, w2}
===========================================================================
