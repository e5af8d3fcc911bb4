SPECIFICATION Spec
CONSTANTS
  t1 = t1
  t2 = t2
  t3 = t3
  Threads = {t1, t2, t3}
  Keys = {1, 2, 3, 4, 5, 6, 7, 8, 9, 10}
  Plans <- TwoOrThree
  Trees <- Both
  LeafCap = 3
  InnerCap = 3
  MaxPages = 9
CHECK_DEADLOCK FALSE
SYMMETRY Symmetry
INVARIANTS
  TypeOK
  LeavesChained
  ScansComplete
  CyclesMerge
PROPERTIES
  ImplementsKeySet
  AnswersAtomic
