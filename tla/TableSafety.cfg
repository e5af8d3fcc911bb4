CONSTANTS
  Threads = {t1, t2}
  Pids = {p, q, r}
  Head = Head
  Heap = {e1, e2}
  Null = Null
  NoPid = NoPid
  MaxVersion = 4
  MaxWord = 3
  MaxShared = 1
SYMMETRY Symmetry
SPECIFICATION Spec
INVARIANTS NoDuplicates HeldIsFound EntryAccounting HitIsOwn
PROPERTY ImplementsPageTable
