SPECIFICATION Spec
CONSTANTS
  Type <- MCType
  Method <- MCMethod
  Service <- MCService
  Name <- MCName
  Id <- MCId
  ReportTypes = {"Report"}
  Google = {"L", "Stamp"}
  WellKnown = {"Stamp"}
  Runs <- MCRuns
  MaxDepth = 3
  None = None
CHECK_DEADLOCK FALSE
INVARIANTS
  TypeOK
  NothingRestricted
  NoDanglingRef
  NeverTwice
  OperationPerBinding
  SinceOfOwner
  BoundOnce
  SensitivityTravels
