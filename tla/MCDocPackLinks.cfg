SPECIFICATION Spec
CONSTANTS
  Id <- MCId
  Key <- MCKey
  Locale = {"en", "de"}
  SourceLocale = "en"
  Fragment <- MCFragment
  Person <- MCPerson
  Content <- MCContent
  BodyOf <- MCBodyOf
  Inputs <- MCInputs
  None = None
CHECK_DEADLOCK FALSE
INVARIANT
  LinksKeepAudience
