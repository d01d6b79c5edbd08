SPECIFICATION Spec
CONSTANTS
    Sessions = {a, b}
    Principals = {p, q}
    MaxRequests = 3
    MaxAttempts = 2
SYMMETRY Symmetry
INVARIANTS
    OwnerOnly
    InputsOnce
    EveryBatchOnce
PROPERTIES
    EndedIsFinal
CHECK_DEADLOCK FALSE
