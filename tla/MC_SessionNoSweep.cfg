SPECIFICATION FairSpec
CONSTANTS
    Workers = {w1, w2}
    Sweepers = {}
    Closers = {}
    Sessions = {s1}
    Principals = {alice}
    NoSession = NoSession
    NoThread = NoThread
    NoOne = NoOne
PROPERTY
    ExpiredIsClosed
