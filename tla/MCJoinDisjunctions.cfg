CONSTANTS
    a = a
    b = b
    c = c
    Null = Null
    Objects <- MCObjects
    FieldKeys <- MCFieldKeys
    Metadata <- MCMetadata
    Aliases <- MCAliases
    OnExpressions <- MCOn
    Projections <- MCProjections
    Rows <- MCRows
    Values = {1, 2}
    Databases <- MCDatabases
    Forms = {"or"}
    MaxEqualities = 2
    MaxSources = 2
    MaxMeasures = 0
SYMMETRY MCSymmetry
SPECIFICATION ExecSpec
CHECK_DEADLOCK FALSE
INVARIANTS
    CardinalityProven
