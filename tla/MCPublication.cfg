CONSTANTS
    Objects <- MCObjects
    FieldKeys <- MCFieldKeys
    Metadata <- MCMetadata
    Schemas <- PBSchemas
    Aliases = {"s", "p"}
    ResultAliases = {"total", "other"}
    Trees <- PBTrees
    Depth <- MCDepth
    OnTrees <- PBOnTrees
    SelectTrees <- PBSelectTrees
    GroupTrees <- PBGroupTrees
    FilterTrees <- PBFilterTrees
    OrderTrees <- PBOrderTrees
    Limits <- PBLimits
    MaximumJoins = 1
    MaximumColumns = 2
    MaximumLimit = 10
    DefaultLimit = 5
    MaxSources = 2
    MaxTerms = 1
SPECIFICATION PublicationSpec
CHECK_DEADLOCK FALSE
INVARIANTS
    PublicationTypeOK
    CanonicalRecompiles
    CanonicalPlanUnchanged
    DiscoveryAgrees
