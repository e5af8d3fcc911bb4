---------------------------- MODULE MCResidentSet ----------------------------
(* ResidentSet with collisions at the end of the array: the pages 1 and 2 hash  *)
(* to the last slot, page 3 to the first.                                       *)
EXTENDS ResidentSet

Colliding == [p \in Pids |-> IF p = 3 THEN 0 ELSE Count - 1]
==============================================================================
