CONSTANTS
    Objects <- MCObjects
    FieldKeys <- MCFieldKeys
    Metadata <- MCMetadata
    Context <- MCContext
    Leaves <- MCLeaves
    Operators <- MCOperators
    Fields = {"amount", "yen", "quantity", "rate", "share", "price"}
    OperatorNames = {"binary", "floor", "coalesce", "nullif", "round", "unary", "comparison", "case", "sum", "count"}
    MaxNodes = 6
    MaxStack = 3
SPECIFICATION Spec
CHECK_DEADLOCK FALSE
INVARIANTS
    TypeOK
    MoneyKeepsItsUnit
    IntegersAreWholeUnits
