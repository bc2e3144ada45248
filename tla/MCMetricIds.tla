------------------------------ MODULE MCMetricIds ------------------------------
(* MetricIds for TLC: names are model values and interchangeable. *)
EXTENDS MetricIds, TLC

Symmetry == Permutations(Names)

================================================================================
