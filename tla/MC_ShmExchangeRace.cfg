SPECIFICATION ExchangeSpec
CONSTANTS
    HeaderSize = 1
    SegmentSize = 3
    MaxAllocs = 2
    MaxCalls = 1
    Streams <- BothWays
INVARIANT NothingLeaked
CHECK_DEADLOCK FALSE
