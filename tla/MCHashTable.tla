----------------------------- MODULE MCHashTable -----------------------------
(* HashTable on small instances. *)
EXTENDS HashTable, TLC

Symmetry == Permutations(Threads) \cup Permutations(Pids) \cup Permutations(Heap)
=============================================================================
