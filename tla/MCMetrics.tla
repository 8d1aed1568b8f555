----------------------------- MODULE MCMetrics -----------------------------
(* Instances of Metrics for TLC.                                           *)
EXTENDS Metrics, TLC

Interchangeable == Permutations(Timer)
=============================================================================
