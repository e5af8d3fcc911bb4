\* Two threads and enough versions to load, update, evict, load and update again.
CONSTANTS
  Threads = {t1, t2}
  MaxShared = 2
  NParts = 2
  None = None
  Garbage = {7}
  MaxVersion = 3
SPECIFICATION FairSpec
INVARIANTS
  LatchHeld
  ReadIsWhole
  CleanIsOnDisk
  IInv
PROPERTIES
  ImplementsAtomicPage
  HoldersLetGo
