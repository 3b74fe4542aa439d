SPECIFICATION Spec
CONSTANTS
  Inputs <- MCInputs
  None = None
CHECK_DEADLOCK FALSE
INVARIANTS
  TypeOK
  InputAdmitted
  PresenceAsNeeded
  InfersAsDeclared
  HintWorks
