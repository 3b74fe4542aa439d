SPECIFICATION Spec
CONSTANTS
  None = None
  T = T
  U = U
  FmtRuns <- MCFmtRuns
  Content <- MCContent
  Torn = "torn"
  BuildRuns <- MCBuildRuns
  Tree <- MCTree
  Imports <- MCImports
  Broken = {"D/bad.proto"}
  Bundled = {"annotations.proto"}
  Standard = {"any.proto"}
  DocRuns <- MCDocRuns
  External <- MCExternal
  PathOf <- MCPathOf
  Reaches <- MCReaches
  LastVersion = 2
  QueryRuns <- MCQueryRuns
  Fields <- MCFields
  Nodes <- MCNodes
  Bodies <- MCBodies
  AnyType = "Any"
  Iterate = Iterate
  Dynamic = Dynamic
CHECK_DEADLOCK FALSE
INVARIANTS
  CommandTypeOK
  NothingLost
  ImageFaithful
  DecodesAsDeclared
  RowsBound
  StrictHonest
