SPECIFICATION FairExchange
CONSTANTS
    HeaderSize = 1
    SegmentSize = 3
    MaxAllocs = 2
    MaxCalls = 2
    Streams <- OneWay
INVARIANTS
    HeaderExclusive
    NothingLeaked
PROPERTIES
    CallsEnd
    ImplementsAllocator
CHECK_DEADLOCK FALSE
