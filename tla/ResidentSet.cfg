\* Three pages, two threads and four slots, visited three at a time.
CONSTANTS
  Pids = {1, 2, 3}
  Threads = {t1, t2}
  Count = 4
  Hash <- Colliding
  Batch = 3
  Empty = Empty
  Tombstone = Tombstone
SPECIFICATION FairSpec
INVARIANTS
  IInv
  RemovesFind
  EvenClock
PROPERTIES
  ImplementsSet
  RemovesReturn
