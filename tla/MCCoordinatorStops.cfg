SPECIFICATION FairSpec
CONSTANTS
    Tools = {"a", "b"}
    Conns = {"c1", "c2"}
    Timeouts = {1, 2}
    Configs <- ColdConfigs
    Lists = {{"a"}}
    Gens = {g1}
    NoGen = NoGen
    Refreshers = {}
    NoReq = NoReq
    MaxRevision = 2
PROPERTIES
    Reconciles
    StopFinishes
CHECK_DEADLOCK FALSE
