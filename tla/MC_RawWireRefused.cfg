SPECIFICATION FairSpec
CONSTANTS
    RefusedKinds = {"unary", "stream", "header"}
    Outcomes = {"data", "last", "finish", "raise"}
    MaxCalls = 4
    MaxTurns = 3
INVARIANT
    RepliesBelongToCall
