\* An Admin request, two imports, an edit and a power failure.
SPECIFICATION Spec
CONSTANTS
  Admins = {a1}
  Importers = {i1, i2}
  Ops <- MCOps
  Imports <- MCImports
  Edits <- MCEdits
  Firsts <- MCFirsts
  MaxEdits = 1
  MaxCrashes = 1
  ChangeWhileStarting = FALSE
INVARIANT RecordIsTrue
PROPERTIES NoLostEdit AnswerIsTrue FileIsServed
CHECK_DEADLOCK FALSE
