SPECIFICATION Spec
CONSTANTS
    ConnectTimeout = 2
    Grace = 1
    Addresses = 2
    PipeRoom = 1
    Closers = {c1, c2}
INVARIANTS
    OpensOrReleases
    CloseComplete
PROPERTIES
    OpenAndCloseEnd
