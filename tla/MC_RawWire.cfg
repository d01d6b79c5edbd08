SPECIFICATION FairSpec
CONSTANTS
    RefusedKinds = {"unary"}
    Outcomes = {"data", "last", "finish", "raise"}
    MaxCalls = 4
    MaxTurns = 3
INVARIANT
    RepliesBelongToCall
PROPERTY
    CallsEnd
