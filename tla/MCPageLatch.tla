---------------------------- MODULE MCPageLatch ------------------------------
(* PageLatch, with its inductive invariant, on a small instance. *)
EXTENDS PageLatchInv, TLC

Symmetry == Permutations(Threads)
==============================================================================
