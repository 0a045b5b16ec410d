CONSTANTS
    Objects <- MCObjects
    FieldKeys <- MCFieldKeys
    Metadata <- MCMetadata
    Schemas <- MCSchemas
    Aliases = {"s", "p", "q"}
    ResultAliases = {"total", "other"}
    Trees <- MCTrees
    Depth <- MCDepth
    OnTrees <- MCOnTrees
    SelectTrees <- MCSelectTrees
    GroupTrees <- MCGroupTrees
    FilterTrees <- MCFilterTrees
    OrderTrees <- MCOrderTrees
    Limits <- MCLimits
    MaximumJoins = 1
    MaximumColumns = 2
    MaximumLimit = 10
    DefaultLimit = 5
    MaxSources = 3
    MaxTerms = 1
SPECIFICATION Spec
CHECK_DEADLOCK FALSE
INVARIANTS
    TypeOK
    SourcesDeliverReferences
    DeclarationsHold
    ResultsKeepScale
    UngroupedOrderIsTotal
PROPERTIES
    ImplementsJoinPlan
