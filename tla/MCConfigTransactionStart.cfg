\* The file changes between the load at startup and the controller's digest.
SPECIFICATION Spec
CONSTANTS
  Admins = {}
  Importers = {}
  Ops <- MCOps
  Imports <- MCImports
  Edits <- StartEdits
  Firsts <- StartFirsts
  MaxEdits = 1
  MaxCrashes = 0
  ChangeWhileStarting = TRUE
PROPERTY FileIsServed
CHECK_DEADLOCK FALSE
