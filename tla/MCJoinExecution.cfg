CONSTANTS
    a = a
    b = b
    c = c
    Null = Null
    Objects <- MCObjects
    FieldKeys <- MCFieldKeys
    Metadata <- MCMetadata
    Aliases <- MCAliases
    OnExpressions <- MCOn
    Projections <- MCProjections
    Rows <- MCRows
    Values = {1, 2}
    Databases <- MCDatabases
    Forms = {"and"}
    MaxEqualities = 1
    MaxSources = 3
    MaxMeasures = 1
SYMMETRY MCSymmetry
SPECIFICATION ExecSpec
CHECK_DEADLOCK FALSE
INVARIANTS
    ExecTypeOK
    PlanInv
    PrefixDetermines
    MeasureGrain
    CountGrain
