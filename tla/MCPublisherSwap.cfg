SPECIFICATION Spec
CONSTANTS
    small = small
    large = large
    bad = bad
    Servers <- MCServers
    Originals <- MCOriginals
    DirectValid <- MCDirectValid
    Hash <- MCHash
    Defs <- MCDefs
    ValidDefs <- MCValidDefs
    Size <- MCSize
    Lists <- SwapLists
    DisabledSets <- SwapDisabled
    MaxToolsPerServer = 2
    MaxTotalTools = 3
    MaxCatalogBytes = 5
    MaxRevision = 4
INVARIANT RouteIsCurrent
CHECK_DEADLOCK FALSE
