\* A promotion whose home frame is taken, the page in it hashed to another bucket.
CONSTANTS
  Pids = {0, 1, 2}
  Frames = {1, 2, 3}
  Threads = {t1, t2}
  Setups <- OtherBucket
  Nowhere = Nowhere
  QueueCap = 1
  MaxShared = 2
SYMMETRY Symmetry
SPECIFICATION Spec
PROPERTY PromotionDisplaces
