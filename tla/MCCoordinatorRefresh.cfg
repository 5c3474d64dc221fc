SPECIFICATION FairSpec
CONSTANTS
    Tools = {"a", "b"}
    Conns = {"c1", "c2"}
    Timeouts = {1, 2}
    Configs <- SwitchConfigs
    Lists = {{"a"}}
    Gens = {g1}
    NoGen = NoGen
    Refreshers = {r1}
    NoReq = NoReq
    MaxRevision = 2
PROPERTIES
    RefreshAnswered
CHECK_DEADLOCK FALSE
