CONSTANTS
    Objects <- MCObjects
    FieldKeys <- MCFieldKeys
    Metadata <- MCMetadata
    Schemas <- CTSchemas
    Aliases = {"s", "p"}
    ResultAliases = {"total"}
    Trees <- CTTrees
    Depth <- MCDepth
    OnTrees <- CTOnTrees
    SelectTrees <- CTSelectTrees
    GroupTrees <- CTGroupTrees
    FilterTrees = {}
    OrderTrees <- CTOrderTrees
    Limits <- CTLimits
    MaximumJoins = 1
    MaximumColumns = 1
    MaximumLimit = 10
    DefaultLimit = 5
    MaxSources = 2
    MaxTerms = 1
    RowIds <- CTRowIds
    Content <- CTContent
    NullRow = 0
    MaxRows = 4
    PageSize = 2
SPECIFICATION TraversalSpec
CHECK_DEADLOCK FALSE
INVARIANTS
    TraversalTypeOK
PROPERTIES
    ImplementsResultReader
    TraversalCompletes
