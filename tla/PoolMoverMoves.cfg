\* The page in the way of a promotion is evicted and comes back elsewhere.
CONSTANTS
  Pids = {0, 1, 2, 3}
  Frames = {1, 2, 3}
  Threads = {t1, t2}
  Setups <- Pairs
  Nowhere = Nowhere
  QueueCap = 1
  MaxShared = 2
SYMMETRY Symmetry
SPECIFICATION Spec
INVARIANT MoverIsInSlot
