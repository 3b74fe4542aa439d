SPECIFICATION Spec
CONSTANTS
  Type <- MCType
  Name <- MCName
  ExternalFile <- MCExternalFile
  DocumentFile <- MCDocumentFile
  FileOf <- MCFileOf
  NameOf <- MCNameOf
  Enclosing <- MCEnclosing
  Binds <- MCBinds
  Messages <- MCMessages
  Shape <- MCShape
  Importable <- MCImportable
  Requests <- MCClosedRequests
  None = None
CHECK_DEADLOCK FALSE
INVARIANT
  DisagreementRejected
