-------------------------------- MODULE MCCBP --------------------------------
(* The controllers, TPB with small sets of workloads. *)
EXTENDS CBP

Gap(a, b) == IF a > b THEN a - b ELSE b - a

\* Steady workloads: throughput falls off by one percent per rung around a peak,
\* by a tenth of a percent (less than the margin), or not at all.
Hill(peak, slope) == [lc \in Chances |-> {1000 - slope * Gap(lc, peak)}]
Hills == {Hill(peak, slope) : peak \in Chances, slope \in {0, 1, 10}}

\* A noisy workload: any window may be slow, normal, fast or in another phase.
Noisy == {[lc \in Chances |-> {50, 96, 98, 100, 105}]}

Busiest == Hills \cup Noisy
=============================================================================
