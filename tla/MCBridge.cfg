\* Three lists, pages of one tool, local requests, a notification channel of one
\* slot and one listing that fails.
SPECIFICATION Spec
CONSTANTS
  HubLists <- MCHubLists
  PageSize = 1
  Requests = {l1}
  Capacity = 1
  MaxFailures = 1
INVARIANT ExitIsExplained
PROPERTIES ListsMoveForward BridgeSettles
CHECK_DEADLOCK FALSE
