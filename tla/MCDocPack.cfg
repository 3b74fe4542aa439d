SPECIFICATION FairSpec
CONSTANTS
  Id <- MCId
  Key <- MCKey
  Locale = {"en", "de"}
  SourceLocale = "en"
  Fragment <- MCFragment
  Person <- MCPerson
  Content <- MCContent
  BodyOf <- MCBodyOf
  Inputs <- MCInputs
  None = None
CHECK_DEADLOCK FALSE
INVARIANTS
  TypeOK
  PackIffNoErrors
  ChainsEnd
  AnchorsLand
  RedirectsResolved
  AnchorsKeepAudience
  LinksLand
  ReleasedApproved
  ReleaseCovers
  StatusTrue
PROPERTY
  Terminates
