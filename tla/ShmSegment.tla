----------------------------- MODULE ShmSegment -----------------------------
(***************************************************************************)
(* The allocator of a shared-memory segment (src/src/shm.cpp).             *)
(*                                                                         *)
(* The first HeaderSize bytes hold a count and a table of the occupied     *)
(* regions, sorted by offset; the data region follows.  allocate() takes   *)
(* the first gap that is large enough, free_alloc() closes the table up    *)
(* over an entry, and free space is never recorded.  Here the operations   *)
(* are atomic, as they are for one process; ShmExchange lets the two       *)
(* processes that share a segment run them a step at a time.               *)
(***************************************************************************)
EXTENDS Integers

CONSTANTS
    HeaderSize,   \* kShmHeaderSize: first offset of the data region
    SegmentSize,  \* size_, header included
    MaxAllocs     \* kShmMaxAllocs: slots of the table

ASSUME ShmAssumption ==
    /\ HeaderSize \in Nat /\ SegmentSize \in Nat
    /\ HeaderSize < SegmentSize
    /\ MaxAllocs \in Nat \ {0}

Slots   == 1..MaxAllocs
Regions == [offset : Nat, length : Nat]
NoRegion == [offset |-> 0, length |-> 0]

VARIABLES
    count,  \* num_allocs
    table,  \* the slots; what lies beyond count is stale
    held    \* the live pointers: handed out, and neither freed nor reset; [offset, length] as written

vars == <<count, table, held>>

End(r) == r.offset + r.length

TypeOK ==
    /\ count \in 0..MaxAllocs
    /\ table \in [Slots -> Regions]
    /\ held \subseteq Regions

(* create(): an empty table. *)
Init ==
    /\ count = 0
    /\ table = [i \in Slots |-> NoRegion]
    /\ held = {}

-----------------------------------------------------------------------------
(* Where the scan of allocate() stands when it looks at entry i of n. *)
PrevEnd(t, i) == IF i = 1 THEN HeaderSize ELSE End(t[i - 1])

(* The gap taken as one byte larger than it is. *)
Bug_FitsOneByteMore(t, n, i, size) ==
    IF i <= n
      THEN t[i].offset >= PrevEnd(t, i) /\ t[i].offset - PrevEnd(t, i) >= size - 1
      ELSE SegmentSize > PrevEnd(t, i) /\ SegmentSize - PrevEnd(t, i) >= size - 1

(* The gap before entry i, or after the last one, holds `size' bytes. *)
Fits(t, n, i, size) ==
    IF i <= n
      THEN t[i].offset >= PrevEnd(t, i) /\ t[i].offset - PrevEnd(t, i) >= size
      ELSE SegmentSize > PrevEnd(t, i) /\ SegmentSize - PrevEnd(t, i) >= size

(* The first gap that fits, of the n + 1 there are. *)
FirstFit(t, n, size, i) ==
    /\ i \in 1..(n + 1)
    /\ Fits(t, n, i, size)
    /\ \A j \in 1..(i - 1) : ~Fits(t, n, j, size)

(* allocate() returns an offset and not nullopt. *)
CanAllocate(t, n, size) ==
    /\ size > 0
    /\ n < MaxAllocs
    /\ \E i \in 1..(n + 1) : Fits(t, n, i, size)

(* insert_at(): memmove the tail up by one and store the new entry. *)
InsertAt(t, n, i, r) ==
    [j \in Slots |-> IF j < i \/ j > n + 1 THEN t[j] ELSE IF j = i THEN r ELSE t[j - 1]]

(* free_alloc(): memmove the tail down over entry i. *)
RemoveAt(t, n, i) ==
    [j \in Slots |-> IF j < i \/ j >= n THEN t[j] ELSE t[j + 1]]

(* The entry free_alloc() finds: the first one with that offset. *)
FindOffset(t, n, offset, i) ==
    /\ i \in 1..n
    /\ t[i].offset = offset
    /\ \A j \in 1..(i - 1) : t[j].offset # offset

-----------------------------------------------------------------------------
(* A sink without a bound: the batch runs past its reservation. *)
Bug_WritePastReservation(estimate, written) ==
    /\ CanAllocate(table, count, estimate)
    /\ \E i \in 1..(count + 1) :
         /\ FirstFit(table, count, estimate, i)
         /\ table' = InsertAt(table, count, i,
                        [offset |-> PrevEnd(table, i), length |-> estimate])
         /\ held' = held \cup {[offset |-> PrevEnd(table, i), length |-> written]}
    /\ count' = count + 1

(* allocate_and_write(): reserve an estimate, write `written' bytes. *)
AllocateAndWrite(estimate, written) ==
    /\ CanAllocate(table, count, estimate)
    /\ written <= estimate
    /\ \E i \in 1..(count + 1) :
         /\ FirstFit(table, count, estimate, i)
         /\ table' = InsertAt(table, count, i,
                        [offset |-> PrevEnd(table, i), length |-> estimate])
         /\ held' = held \cup {[offset |-> PrevEnd(table, i), length |-> written]}
    /\ count' = count + 1

(* The refused write leaves its reservation behind. *)
Bug_ReservationKept(estimate, written) ==
    /\ CanAllocate(table, count, estimate)
    /\ written > estimate
    /\ \E i \in 1..(count + 1) :
         /\ FirstFit(table, count, estimate, i)
         /\ table' = InsertAt(table, count, i,
                        [offset |-> PrevEnd(table, i), length |-> estimate])
    /\ count' = count + 1
    /\ UNCHANGED held

(* The estimate came up short: ShmSink refuses the write that would run    *)
(* past the reservation, and the region is released again.  The table's    *)
(* slots keep what the insertion and the removal left in them.             *)
ReservationTooSmall(estimate, written) ==
    /\ CanAllocate(table, count, estimate)
    /\ written > estimate
    /\ \E i \in 1..(count + 1) :
         /\ FirstFit(table, count, estimate, i)
         /\ table' = RemoveAt(InsertAt(table, count, i,
                                [offset |-> PrevEnd(table, i), length |-> estimate]),
                              count + 1, i)
    /\ UNCHANGED <<count, held>>

(* free_alloc() by a peer that resolved the pointer. *)
Free(r) ==
    /\ \E i \in 1..count :
         /\ FindOffset(table, count, r.offset, i)
         /\ table' = RemoveAt(table, count, i)
         /\ count' = count - 1
    /\ held' = held \ {r}

(* reset(): the count is 0, and the slots keep what they had.  Whoever has *)
(* a pointer keeps it and is told nothing, but none of them is live any    *)
(* more.  A pointer that is dead is left out of the model: free_alloc() of *)
(* it finds no entry or, after a new allocation at its offset, somebody    *)
(* else's.  No code of the library calls reset(), only its unit test does. *)
Reset ==
    /\ count > 0
    /\ count' = 0
    /\ held' = {}
    /\ UNCHANGED table

(* read(): the bounds check a resolved pointer has to pass. *)
Readable(offset, length) ==
    /\ offset >= HeaderSize
    /\ length >= 0
    /\ offset + length <= SegmentSize

Next ==
    \/ \E e \in 0..(SegmentSize - HeaderSize), w \in 1..(SegmentSize - HeaderSize) :
          AllocateAndWrite(e, w) \/ ReservationTooSmall(e, w)
    \/ \E r \in held : Free(r)
    \/ Reset

Spec == Init /\ [][Next]_vars

-----------------------------------------------------------------------------
(* Properties. *)

(* The table stays sorted, its regions disjoint and inside the data        *)
(* region: the scan of allocate() relies on it, whatever order regions are *)
(* allocated and freed in.                                                 *)
TableSorted ==
    /\ \A i \in 1..count : HeaderSize <= table[i].offset /\ End(table[i]) <= SegmentSize
    /\ \A i, j \in 1..count : i < j => End(table[i]) <= table[j].offset
    /\ \A i \in 1..count : table[i].length > 0

(* The table and the pointers in the hands of the two peers agree: what a  *)
(* pointer names is readable and inside one reserved region, and there is  *)
(* no reserved region that nobody can free.                                *)
TableMatchesPointers ==
    /\ \A r \in held : Readable(r.offset, r.length)
    /\ \A r \in held : \E i \in 1..count :
          table[i].offset = r.offset /\ r.length <= table[i].length
    /\ \A i \in 1..count : \E r \in held : r.offset = table[i].offset

(* The bytes two pointers name never overlap: no peer's batch is written   *)
(* over one that is still to be read.                                      *)
HeldDisjoint ==
    \A r, s \in held : r # s => End(r) <= s.offset \/ End(s) <= r.offset

=============================================================================
