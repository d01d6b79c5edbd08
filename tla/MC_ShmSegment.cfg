SPECIFICATION Spec
CONSTANTS
    HeaderSize = 2
    SegmentSize = 8
    MaxAllocs = 3
INVARIANTS
    TableSorted
    TableMatchesPointers
    HeldDisjoint
