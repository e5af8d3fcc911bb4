SPECIFICATION Spec
CONSTANTS
  Keys <- SomeKeys
  PageSize = 18
  SlotSize = 1
  ValueLen = 1
  PidLen = 3
  HeadLen = 1
  HintCount = 1
  Many = 4
  Byte = 2
  MaxPages = 8
  MaxRemovals = 2
CHECK_DEADLOCK FALSE
INVARIANTS
  LowerBoundRight
  SpaceAccounting
  KeysKept
