SPECIFICATION Spec
CONSTANTS
    Tools = {"a", "b"}
    Conns = {"c1", "c2"}
    Timeouts = {1, 2}
    Configs <- SafetyConfigs
    Lists = {{}, {"a", "b"}}
    Gens = {g1, g2}
    NoGen = NoGen
    Refreshers = {}
    NoReq = NoReq
    MaxRevision = 2
SYMMETRY Slots
INVARIANTS
    TypeOK
    CommitIsCurrent
    ReadyServesDesired
    OneInstance
    SessionKeepsItsContext
    DisabledIsGone
    StopClosesAdmission
    NothingLeaks
    PublishedMatchesDesired
    NoMissedChange
PROPERTY NoPublishAfterStop
CHECK_DEADLOCK FALSE
