SPECIFICATION FairSpec
CONSTANTS
    Workers = {w1, w2}
    Sweepers = {sw}
    Closers = {cl}
    Sessions = {s1}
    Principals = {alice, bob}
    NoSession = NoSession
    NoThread = NoThread
    NoOne = NoOne
INVARIANTS
    HookAtMostOnce
    HookExcludesHandlers
    DispatchSerialized
    ResolvedIsOwnAndOpen
PROPERTIES
    RemovedIsClosed
    ExpiredIsClosed
