SPECIFICATION Spec
CONSTANTS
  Inputs <- MCInputs
  None = None
CHECK_DEADLOCK FALSE
INVARIANT
  InputValidates
