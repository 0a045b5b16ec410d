CONSTANTS
    Objects <- MCObjects
    FieldKeys <- MCFieldKeys
    Metadata <- MCMetadata
    Schemas <- MCSchemas
    Aliases = {"s", "p", "q"}
    ResultAliases = {"total", "other"}
    Trees <- MCTrees
    Depth <- MCDepth
    OnTrees <- MCOnTrees
    SelectTrees <- MCSelectTrees
    GroupTrees <- MCBuckets
    FilterTrees <- MCFilterTrees
    OrderTrees <- MCOrderTrees
    Limits <- MCLimits
    MaximumJoins = 1
    MaximumColumns = 1
    MaximumLimit = 10
    DefaultLimit = 5
    MaxSources = 3
    MaxTerms = 2
SPECIFICATION Spec
CHECK_DEADLOCK FALSE
INVARIANTS
    GroupedOrderIsTotal
