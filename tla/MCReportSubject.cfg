CONSTANTS
    base = base
    first = first
    second = second
    Holders = {base, first, second}
    Principals = {"worker"}
    Grants <- MCGrants
    Entries <- MCEntries
    Trim <- MCTrim
    Wildcards = {"*.read"}
    ProcessLists <- MCProcessLists
    DerivedLists <- MCDerivedLists
    MaxArrays = 3
SPECIFICATION Spec
SYMMETRY MCSymmetry
CHECK_DEADLOCK FALSE
INVARIANTS
    TypeOK
    CapabilitiesExact
    ExternalSubjectsGainNothing
PROPERTIES
    ArraysUntouched
