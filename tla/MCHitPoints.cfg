CONSTANTS
  Full = 5
  Hard <- MCHard
  Soft <- MCSoft
SPECIFICATION FairSpec
INVARIANTS
  IInv
PROPERTIES
  VerdictIsFinal
  ImplementsBout
