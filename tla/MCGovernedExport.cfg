CONSTANTS
    Texts <- MCTexts
    IntegerText <- MCIntegerText
    DecimalText <- MCDecimalText
    InstantText <- MCInstantText
    DateTexts <- MCDateTexts
    FloatText <- MCFloatText
    MaxInt = 127
    Nanos = 10
    MinimumTTL = 2
    DefaultTTL = 3
    Definitions <- MCDefinitions
    KeyType <- MCKeyType
    Requests <- MCRequests
SPECIFICATION Spec
INVARIANTS
    TypeOK
    PreparedValuesSurvive
    StoredValuesBind
    LifetimeAsAuthored
    LifetimeRepresentable
