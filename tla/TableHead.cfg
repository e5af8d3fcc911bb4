CONSTANTS
  Threads = {t1}
  Pids = {p, q}
  Head = Head
  Heap = {e1}
  Null = Null
  NoPid = NoPid
  MaxVersion = 4
  MaxWord = 2
  MaxShared = 1
SPECIFICATION FairSpec
PROPERTY FillsHead
