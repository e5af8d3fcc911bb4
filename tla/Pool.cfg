\* The buffer manager in four setups (MCBufferPool.tla says which).
CONSTANTS
  Pids = {0, 1, 2}
  Frames = {1, 2, 3}
  Threads = {t1, t2}
  Setups <- AllSetups
  Nowhere = Nowhere
  QueueCap = 1
  MaxShared = 2
SYMMETRY Symmetry
SPECIFICATION Spec
INVARIANTS
  TypeOK
  FrameOwnership
  NoLostUpdate
  FrameAccounting
  ResidentIsTracked
  PredictionHolds
  ReadsOwnPage
