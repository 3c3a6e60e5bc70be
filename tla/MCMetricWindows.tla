-------------------------- MODULE MCMetricWindows --------------------------
(* MetricWindows with an error window of two buckets of two units each, a     *)
(* growth window of five units and a ring of two days of two units each, so   *)
(* that buckets and slots are reused and gaps exceed every window.            *)
EXTENDS MetricWindows

MCErrors == {0, 1}
=============================================================================
