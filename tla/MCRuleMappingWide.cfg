SPECIFICATION Spec
CONSTANTS
  Targets <- WideTargets
  Values <- MCValues
  Facts <- MCFacts
  Literals <- MCLiterals
  Texts <- MCTexts
  None = None
CHECK_DEADLOCK FALSE
INVARIANTS
  NoRuleDropped
