\* Three requests of any kind for one session and one slot, one generation
\* and the end of the process.
SPECIFICATION Spec
CONSTANTS
  MaxReqs = 3
  Queries <- MCQueries
  TokenSets <- MCTokenSets
  PublicMode = TRUE
  AllowedHosts = {"hub"}
  TrustedProxies = {"proxy"}
  MaxSessions = 1
  MaxConcurrency = 1
  MaxRecent = 1
  MaxGens = 1
INVARIANTS LimitsHold AnswerIsHonest DrainBeforeCancel
PROPERTY EverythingEnds
CHECK_DEADLOCK FALSE
