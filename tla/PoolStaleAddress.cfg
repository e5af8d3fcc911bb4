\* Prediction with optimistic readers: the address of a guard outlives a move of its page.
CONSTANTS
  Pids = {0, 1, 2}
  Frames = {1, 2, 3}
  Threads = {t1, t2}
  Setups <- Predicting
  Nowhere = Nowhere
  QueueCap = 1
  MaxShared = 2
SYMMETRY Symmetry
SPECIFICATION Spec
INVARIANT ReadsOwnPage
