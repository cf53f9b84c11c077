-------------------------- MODULE MCHeartTimeline --------------------------
(* An instance of HeartTimeline for TLC.                                   *)
EXTENDS HeartTimeline

CONSTANTS t1, t2

Interchangeable == Permutations({t1, t2})
=============================================================================
