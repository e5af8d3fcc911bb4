SPECIFICATION CBPSpec
CONSTANTS
  MinLog = 1
  MaxLog = 14
  Start = 1
  ProbeEvery = 8
  PhaseTol = 15
  Loads <- Busiest
  Workers = {w1, w2}
  ArmStarts = {13, 14}
  DecisionEpochs = 2
  Window3 = 2
  Warmup = 1
  WarmupMod = 3
  MaxFlushes = 5
  MaxSamples = 6
CHECK_DEADLOCK FALSE
INVARIANTS
  SandwichShape
  BaseNearStart
  ChanceOnLadder
  ArmsTogether
  SamplesConserved
PROPERTIES
  DecisionsSpaced
  AdoptsWhatItMeasured
  TPBSettles
