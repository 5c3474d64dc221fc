SPECIFICATION Spec
CONSTANTS
    small = small
    large = large
    bad = bad
    Servers <- MCServers
    Originals <- MCOriginals
    DirectValid <- MCDirectValid
    Hash <- MCHash
    Defs <- MCDefs
    ValidDefs <- MCValidDefs
    Size <- MCSize
    Lists <- MCLists
    DisabledSets <- MCDisabled
    MaxToolsPerServer = 2
    MaxTotalTools = 2
    MaxCatalogBytes = 3
    MaxRevision = 4
INVARIANTS
    RegistryFollows
    StaysRegistered
    RouteIsCurrent
    EveryToolAccounted
    CapacityKept
    DirectNamesFirst
PROPERTY ImplementsCatalog
CHECK_DEADLOCK FALSE
