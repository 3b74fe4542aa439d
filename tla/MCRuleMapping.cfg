SPECIFICATION Spec
CONSTANTS
  Targets <- MCTargets
  Values <- MCValues
  Facts <- MCFacts
  Literals <- MCLiterals
  Texts <- MCTexts
  None = None
CHECK_DEADLOCK FALSE
INVARIANTS
  TypeOK
  NothingDisappears
  NeverNarrower
  NullExactly
