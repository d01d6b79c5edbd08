-------------------------- MODULE ShmExchangeProofs --------------------------
(***************************************************************************)
(* Two processes that share a segment without a lock stay out of each      *)
(* other's way, leave nothing behind and implement the atomic allocator,   *)
(* for every segment and every set of streams in which large batches never *)
(* go both ways at once (OneDirection).                                    *)
(*                                                                         *)
(* The proof is about the lockstep: where the server can be, and what can  *)
(* be on the pipe, for each thing the client does (Lockstep).  It follows  *)
(* that one region at most is in use, and who has the pointer to it        *)
(* (HeldInv), and so what an operation on the header finds (OpInv).        *)
(***************************************************************************)
EXTENDS ShmExchange, TLAPS

-----------------------------------------------------------------------------
(* The allocator on its own (ShmSegment), for every segment size and every *)
(* table size.  TableSorted is inductive as it stands: an insertion at the *)
(* first gap that fits, and a removal, keep the table sorted and disjoint  *)
(* (InsertSorted, RemoveSorted).  What the pointers name rests on it.      *)

(* TableSorted, of any table. *)
Sorted(t, n) ==
    /\ \A i \in 1..n : HeaderSize <= t[i].offset /\ End(t[i]) <= SegmentSize
    /\ \A i, j \in 1..n : i < j => End(t[i]) <= t[j].offset
    /\ \A i \in 1..n : t[i].length > 0

(* No two pointers share an offset, so that a pointer determines its entry. *)
PointersDistinct == \A r, s \in held : r.offset = s.offset => r = s

AllocatorInv == TypeOK /\ TableSorted /\ TableMatchesPointers /\ PointersDistinct

(* The offset allocate() returns leaves room for the region before the     *)
(* next entry, and follows every earlier one.                              *)
LEMMA FirstFitBounds ==
    ASSUME NEW t \in [Slots -> Regions], NEW n \in 0..MaxAllocs, NEW size \in Nat,
           NEW i \in 1..(n + 1), Sorted(t, n), Fits(t, n, i, size), size > 0
    PROVE  /\ PrevEnd(t, i) \in Nat
           /\ HeaderSize <= PrevEnd(t, i)
           /\ PrevEnd(t, i) + size <= SegmentSize
           /\ \A j \in 1..n : j < i => End(t[j]) <= PrevEnd(t, i)
           /\ \A j \in 1..n : j >= i => PrevEnd(t, i) + size <= t[j].offset
<1> USE ShmAssumption
<1>1. \A j \in 1..n : t[j].offset \in Nat /\ t[j].length \in Nat /\ End(t[j]) \in Nat
  BY DEF Slots, Regions, End
<1>2. PrevEnd(t, i) \in Nat /\ HeaderSize <= PrevEnd(t, i)
  BY <1>1 DEF PrevEnd, Sorted, End
<1>3. \A j \in 1..n : j < i => End(t[j]) <= PrevEnd(t, i)
  BY <1>1 DEF PrevEnd, Sorted, End
<1>4. \A j \in 1..n : j >= i => PrevEnd(t, i) + size <= t[j].offset
  BY <1>1, <1>2 DEF Fits, Sorted, End
<1>5. PrevEnd(t, i) + size <= SegmentSize
  <2>1. CASE i <= n
    BY <2>1, <1>1, <1>2, <1>4 DEF Sorted, End
  <2>2. CASE i = n + 1
    BY <2>2, <1>2 DEF Fits
  <2> QED  BY <2>1, <2>2
<1> QED  BY <1>2, <1>3, <1>4, <1>5

LEMMA InsertSorted ==
    ASSUME NEW t \in [Slots -> Regions], NEW n \in 0..MaxAllocs, n < MaxAllocs,
           NEW size \in Nat, size > 0, NEW i \in 1..(n + 1),
           Sorted(t, n), Fits(t, n, i, size)
    PROVE  LET u == InsertAt(t, n, i, [offset |-> PrevEnd(t, i), length |-> size])
           IN  u \in [Slots -> Regions] /\ Sorted(u, n + 1)
<1> USE ShmAssumption
<1> DEFINE r == [offset |-> PrevEnd(t, i), length |-> size]
           u == InsertAt(t, n, i, r)
<1>1. r \in Regions /\ End(r) = PrevEnd(t, i) + size
  BY FirstFitBounds DEF Regions, End
<1>2. \A j \in 1..(n + 1) :
        /\ j < i => j \in 1..n /\ u[j] = t[j]
        /\ j = i => u[j] = r
        /\ j > i => j - 1 \in 1..n /\ u[j] = t[j - 1]
  BY DEF InsertAt, Slots
<1>3. u \in [Slots -> Regions]
  BY <1>1 DEF InsertAt, Slots
<1>4. \A j \in 1..n : t[j].offset \in Nat /\ t[j].length \in Nat /\ End(t[j]) = t[j].offset + t[j].length
  BY DEF Slots, Regions, End
<1> HIDE DEF u, r
<1>5. r.offset = PrevEnd(t, i) /\ r.length = size
  BY DEF r
<1>6. \A j \in 1..(n + 1) : HeaderSize <= u[j].offset /\ End(u[j]) <= SegmentSize /\ u[j].length > 0
  <2> TAKE j \in 1..(n + 1)
  <2>1. CASE j < i
    BY <2>1, <1>2 DEF Sorted
  <2>2. CASE j = i
    BY <2>2, <1>1, <1>2, <1>5, FirstFitBounds
  <2>3. CASE j > i
    BY <2>3, <1>2 DEF Sorted
  <2> QED  BY <2>1, <2>2, <2>3
<1>7. \A j, k \in 1..(n + 1) : j < k => End(u[j]) <= u[k].offset
  <2> TAKE j, k \in 1..(n + 1)
  <2> HAVE j < k
  <2>1. CASE k < i
    BY <2>1, <1>2 DEF Sorted
  <2>2. CASE k = i
    BY <2>2, <1>2, <1>5, FirstFitBounds
  <2>3. CASE j = i
    BY <2>3, <1>1, <1>2, <1>5, FirstFitBounds
  <2>4. CASE j < i /\ i < k
    <3>1. j \in 1..n /\ u[j] = t[j] /\ k - 1 \in 1..n /\ u[k] = t[k - 1] /\ j < k - 1
      BY <2>4, <1>2
    <3> QED  BY <3>1 DEF Sorted
  <2>5. CASE i < j
    <3>1. j - 1 \in 1..n /\ u[j] = t[j - 1] /\ k - 1 \in 1..n /\ u[k] = t[k - 1] /\ j - 1 < k - 1
      BY <2>5, <1>2
    <3> QED  BY <3>1 DEF Sorted
  <2> QED  BY <2>1, <2>2, <2>3, <2>4, <2>5
<1> QED  BY <1>3, <1>6, <1>7 DEF Sorted, u, r

LEMMA RemoveSorted ==
    ASSUME NEW t \in [Slots -> Regions], NEW n \in 1..MaxAllocs, NEW i \in 1..n,
           Sorted(t, n)
    PROVE  /\ RemoveAt(t, n, i) \in [Slots -> Regions]
           /\ Sorted(RemoveAt(t, n, i), n - 1)
<1> USE ShmAssumption
<1> DEFINE u == RemoveAt(t, n, i)
<1>1. u \in [Slots -> Regions]
  BY DEF RemoveAt, Slots
<1>2. \A j \in 1..(n - 1) :
        /\ j < i => j \in 1..n /\ u[j] = t[j]
        /\ j >= i => j + 1 \in 1..n /\ u[j] = t[j + 1]
  BY DEF RemoveAt, Slots
<1> HIDE DEF u
<1>3. \A j \in 1..(n - 1) : HeaderSize <= u[j].offset /\ End(u[j]) <= SegmentSize /\ u[j].length > 0
  BY <1>2 DEF Sorted
<1>4. \A j, k \in 1..(n - 1) : j < k => End(u[j]) <= u[k].offset
  <2> TAKE j, k \in 1..(n - 1)
  <2> HAVE j < k
  <2>1. CASE k < i
    BY <2>1, <1>2 DEF Sorted
  <2>2. CASE j < i /\ i <= k
    <3>1. j \in 1..n /\ u[j] = t[j] /\ k + 1 \in 1..n /\ u[k] = t[k + 1] /\ j < k + 1
      BY <2>2, <1>2
    <3> QED  BY <3>1 DEF Sorted
  <2>3. CASE i <= j
    <3>1. j + 1 \in 1..n /\ u[j] = t[j + 1] /\ k + 1 \in 1..n /\ u[k] = t[k + 1] /\ j + 1 < k + 1
      BY <2>3, <1>2
    <3> QED  BY <3>1 DEF Sorted
  <2> QED  BY <2>1, <2>2, <2>3
<1> QED  BY <1>1, <1>3, <1>4 DEF Sorted, u

-----------------------------------------------------------------------------
LEMMA AllocatorInit == Init => AllocatorInv
BY ShmAssumption DEF Init, AllocatorInv, TypeOK, TableSorted, TableMatchesPointers,
   PointersDistinct, Slots, Regions, NoRegion, End

(* The reservation: a region that starts where no pointer starts.          *)
LEMMA AllocateAndWriteKeeps ==
    ASSUME AllocatorInv, NEW e \in Nat, NEW w \in Nat, AllocateAndWrite(e, w)
    PROVE  AllocatorInv'
<1> USE ShmAssumption
<1>1. /\ count \in 0..MaxAllocs /\ count < MaxAllocs /\ e > 0 /\ w <= e
      /\ table \in [Slots -> Regions] /\ held \subseteq Regions /\ Sorted(table, count)
  BY DEF AllocatorInv, TypeOK, TableSorted, Sorted, AllocateAndWrite, CanAllocate
<1>2. PICK i \in 1..(count + 1) :
        /\ FirstFit(table, count, e, i)
        /\ table' = InsertAt(table, count, i, [offset |-> PrevEnd(table, i), length |-> e])
        /\ held' = held \cup {[offset |-> PrevEnd(table, i), length |-> w]}
  BY DEF AllocateAndWrite
<1> DEFINE at == PrevEnd(table, i)
           p == [offset |-> at, length |-> w]
<1>3. count' = count + 1 /\ count' \in 1..MaxAllocs
  BY <1>1 DEF AllocateAndWrite
<1>4. Fits(table, count, i, e)
  BY <1>2 DEF FirstFit
<1>5. /\ at \in Nat /\ HeaderSize <= at /\ at + e <= SegmentSize
      /\ \A j \in 1..count : j < i => End(table[j]) <= at
      /\ \A j \in 1..count : j >= i => at + e <= table[j].offset
  BY <1>1, <1>4, FirstFitBounds
<1>6. table' \in [Slots -> Regions] /\ Sorted(table', count')
  BY <1>1, <1>2, <1>3, <1>4, InsertSorted
<1>7. /\ i \in 1..count' /\ table'[i] = [offset |-> at, length |-> e]
      /\ \A j \in 1..count : j < i => j \in 1..count' /\ table'[j] = table[j]
      /\ \A j \in 1..count : j >= i => j + 1 \in 1..count' /\ table'[j + 1] = table[j]
      /\ \A j \in 1..count' : \/ j = i
                              \/ j < i /\ j \in 1..count /\ table'[j] = table[j]
                              \/ j > i /\ j - 1 \in 1..count /\ table'[j] = table[j - 1]
  BY <1>1, <1>2, <1>3 DEF InsertAt, Slots
<1>8. p \in Regions /\ p.offset = at /\ p.length = w /\ held' = held \cup {p}
  BY <1>2, <1>5 DEF Regions
<1>9. TypeOK'
  BY <1>1, <1>3, <1>6, <1>8 DEF TypeOK
<1>10. TableSorted'
  BY <1>6 DEF TableSorted, Sorted, End
<1> HIDE DEF at, p
<1>11. \A j \in 1..count : table[j].offset # at
  <2> TAKE j \in 1..count
  <2>1. table[j].offset \in Nat /\ table[j].length \in Nat
    BY <1>1 DEF Slots, Regions
  <2>2. table[j].length > 0
    BY <1>1 DEF Sorted
  <2>3. CASE j < i
    BY <2>1, <2>2, <2>3, <1>5 DEF End
  <2>4. CASE j >= i
    BY <2>1, <2>4, <1>1, <1>5
  <2> QED  BY <2>3, <2>4, <1>1
<1>12. \A r \in held : Readable(r.offset, r.length) /\ r.offset # at
  <2> TAKE r \in held
  <2>1. PICK j \in 1..count : table[j].offset = r.offset
    BY DEF AllocatorInv, TableMatchesPointers
  <2> QED  BY <2>1, <1>11 DEF AllocatorInv, TableMatchesPointers
<1>13. \A r \in held' : Readable(r.offset, r.length)
  <2>1. Readable(p.offset, p.length)
    BY <1>1, <1>5, <1>8 DEF Readable
  <2> QED  BY <2>1, <1>8, <1>12
<1>14. \A r \in held' : \E j \in 1..count' :
          table'[j].offset = r.offset /\ r.length <= table'[j].length
  <2> TAKE r \in held'
  <2>1. CASE r = p
    BY <2>1, <1>1, <1>7, <1>8
  <2>2. CASE r \in held
    <3>1. PICK j \in 1..count : table[j].offset = r.offset /\ r.length <= table[j].length
      BY <2>2 DEF AllocatorInv, TableMatchesPointers
    <3>2. CASE j < i
      BY <3>1, <3>2, <1>7
    <3>3. CASE j >= i
      BY <3>1, <3>3, <1>7
    <3> QED  BY <3>2, <3>3
  <2> QED  BY <2>1, <2>2, <1>8
<1>15. \A j \in 1..count' : \E r \in held' : r.offset = table'[j].offset
  <2> TAKE j \in 1..count'
  <2>1. CASE j = i
    <3>1. p \in held' /\ p.offset = table'[j].offset
      BY <2>1, <1>7, <1>8
    <3> QED  BY <3>1
  <2>2. CASE j < i
    <3>1. j \in 1..count /\ table'[j] = table[j]
      BY <2>2, <1>7
    <3>2. PICK r \in held : r.offset = table[j].offset
      BY <3>1 DEF AllocatorInv, TableMatchesPointers
    <3> QED  BY <3>1, <3>2, <1>8
  <2>3. CASE j > i
    <3>1. j - 1 \in 1..count /\ table'[j] = table[j - 1]
      BY <2>3, <1>7
    <3>2. PICK r \in held : r.offset = table[j - 1].offset
      BY <3>1 DEF AllocatorInv, TableMatchesPointers
    <3> QED  BY <3>1, <3>2, <1>8
  <2> QED  BY <2>1, <2>2, <2>3
<1>16. TableMatchesPointers'
  BY <1>13, <1>14, <1>15 DEF TableMatchesPointers, Readable
<1>17. PointersDistinct'
  BY <1>8, <1>12 DEF AllocatorInv, PointersDistinct
<1> QED  BY <1>9, <1>10, <1>16, <1>17 DEF AllocatorInv

(* An insertion undone: the slots in use are what they were.               *)
LEMMA ReservationTooSmallKeeps ==
    ASSUME AllocatorInv, NEW e \in Nat, NEW w \in Nat, ReservationTooSmall(e, w)
    PROVE  AllocatorInv'
<1> USE ShmAssumption
<1>1. /\ count \in 0..MaxAllocs /\ count < MaxAllocs /\ e > 0
      /\ table \in [Slots -> Regions] /\ held \subseteq Regions /\ Sorted(table, count)
  BY DEF AllocatorInv, TypeOK, TableSorted, Sorted, ReservationTooSmall, CanAllocate
<1>2. PICK i \in 1..(count + 1) :
        /\ FirstFit(table, count, e, i)
        /\ table' = RemoveAt(InsertAt(table, count, i,
                               [offset |-> PrevEnd(table, i), length |-> e]), count + 1, i)
  BY DEF ReservationTooSmall
<1>3. UNCHANGED <<count, held>>
  BY DEF ReservationTooSmall
<1> DEFINE u == InsertAt(table, count, i, [offset |-> PrevEnd(table, i), length |-> e])
<1>4. u \in [Slots -> Regions] /\ Sorted(u, count + 1)
  BY <1>1, <1>2, InsertSorted DEF FirstFit
<1>5. table' \in [Slots -> Regions]
  BY <1>1, <1>2, <1>4, RemoveSorted
<1>6. \A j \in 1..count : table'[j] = table[j]
  BY <1>1, <1>2 DEF InsertAt, RemoveAt, Slots
<1>7. TypeOK'
  BY <1>1, <1>3, <1>5 DEF TypeOK
<1>8. TableSorted'
  BY <1>1, <1>3, <1>6 DEF TableSorted, Sorted, End
<1>9. TableMatchesPointers'
  BY <1>1, <1>3, <1>6 DEF AllocatorInv, TableMatchesPointers, Readable
<1> QED  BY <1>3, <1>7, <1>8, <1>9 DEF AllocatorInv, PointersDistinct

LEMMA FreeKeeps ==
    ASSUME AllocatorInv, NEW r \in held, Free(r)
    PROVE  AllocatorInv'
<1> USE ShmAssumption
<1>1. PICK i \in 1..count :
        /\ table[i].offset = r.offset
        /\ table' = RemoveAt(table, count, i)
        /\ count' = count - 1
  BY DEF Free, FindOffset
<1>2. held' = held \ {r}
  BY DEF Free
<1>3. /\ count \in 1..MaxAllocs /\ table \in [Slots -> Regions] /\ held \subseteq Regions
      /\ Sorted(table, count)
  BY <1>1 DEF AllocatorInv, TypeOK, TableSorted, Sorted
<1>4. table' \in [Slots -> Regions] /\ Sorted(table', count')
  BY <1>1, <1>3, RemoveSorted
<1>5. /\ \A j \in 1..count : j < i => j \in 1..count' /\ table'[j] = table[j]
      /\ \A j \in 1..count : j > i => j - 1 \in 1..count' /\ table'[j - 1] = table[j]
      /\ \A j \in 1..count' : \/ j < i /\ j \in 1..count /\ table'[j] = table[j]
                              \/ j >= i /\ j + 1 \in 1..count /\ table'[j] = table[j + 1]
  BY <1>1, <1>3 DEF RemoveAt, Slots
<1>6. \A j \in 1..count : j # i => table[j].offset # r.offset
  <2>1. \A j \in 1..count : table[j].offset \in Nat /\ table[j].length \in Nat
    BY <1>3 DEF Slots, Regions
  <2> QED  BY <2>1, <1>1, <1>3 DEF Sorted, End
<1>7. TypeOK'
  BY <1>1, <1>2, <1>3, <1>4 DEF TypeOK
<1>8. TableSorted'
  BY <1>4 DEF TableSorted, Sorted, End
<1>9. \A s \in held' : s \in held /\ s.offset # r.offset
  BY <1>2 DEF AllocatorInv, PointersDistinct
<1>10. \A s \in held' : \E j \in 1..count' :
          table'[j].offset = s.offset /\ s.length <= table'[j].length
  <2> TAKE s \in held'
  <2>1. PICK j \in 1..count : table[j].offset = s.offset /\ s.length <= table[j].length
    BY <1>9 DEF AllocatorInv, TableMatchesPointers
  <2>2. j # i
    BY <2>1, <1>1, <1>9
  <2>3. CASE j < i
    BY <2>1, <2>3, <1>5
  <2>4. CASE j > i
    BY <2>1, <2>4, <1>5
  <2> QED  BY <2>2, <2>3, <2>4
<1>11. \A j \in 1..count' : \E s \in held' : s.offset = table'[j].offset
  <2> TAKE j \in 1..count'
  <2>1. PICK k \in 1..count : k # i /\ table'[j] = table[k]
    BY <1>5
  <2>2. PICK s \in held : s.offset = table[k].offset
    BY DEF AllocatorInv, TableMatchesPointers
  <2>3. s # r
    BY <2>1, <2>2, <1>6
  <2> QED  BY <2>1, <2>2, <2>3, <1>2
<1>12. TableMatchesPointers'
  BY <1>9, <1>10, <1>11 DEF AllocatorInv, TableMatchesPointers, Readable
<1>13. PointersDistinct'
  BY <1>9 DEF AllocatorInv, PointersDistinct
<1> QED  BY <1>7, <1>8, <1>12, <1>13 DEF AllocatorInv

LEMMA ResetKeeps == AllocatorInv /\ Reset => AllocatorInv'
BY ShmAssumption DEF Reset, AllocatorInv, TypeOK, TableSorted, TableMatchesPointers,
   PointersDistinct

LEMMA AllocatorInvariant == Spec => []AllocatorInv
<1>1. AllocatorInv /\ [Next]_vars => AllocatorInv'
  <2> SUFFICES ASSUME AllocatorInv, [Next]_vars PROVE AllocatorInv'
    OBVIOUS
  <2>1. ASSUME NEW e \in 0..(SegmentSize - HeaderSize), NEW w \in 1..(SegmentSize - HeaderSize),
               AllocateAndWrite(e, w) \/ ReservationTooSmall(e, w)
        PROVE  AllocatorInv'
    <3>1. e \in Nat /\ w \in Nat
      BY ShmAssumption
    <3> QED  BY <2>1, <3>1, AllocateAndWriteKeeps, ReservationTooSmallKeeps
  <2>2. ASSUME NEW r \in held, Free(r) PROVE AllocatorInv'
    BY <2>2, FreeKeeps
  <2>3. CASE Reset
    BY <2>3, ResetKeeps
  <2>4. CASE UNCHANGED vars
    BY <2>4 DEF vars, AllocatorInv, TypeOK, TableSorted, TableMatchesPointers, PointersDistinct,
       Readable, End
  <2> QED  BY <2>1, <2>2, <2>3, <2>4 DEF Next
<1> QED  BY <1>1, AllocatorInit, PTL DEF Spec

-----------------------------------------------------------------------------
(* The table never overruns its slots, whatever is allocated and freed.    *)
THEOREM AllocatorTypes == Spec => []TypeOK
<1>1. AllocatorInv => TypeOK
  BY DEF AllocatorInv
<1> QED  BY <1>1, AllocatorInvariant, PTL

(* allocate() and free_alloc() keep the table sorted and disjoint inside   *)
(* the data region, for every segment size and every number of slots.      *)
THEOREM SortedAlways == Spec => []TableSorted
<1>1. AllocatorInv => TableSorted
  BY DEF AllocatorInv
<1> QED  BY <1>1, AllocatorInvariant, PTL

(* Every pointer handed out is readable and reserved, and every reserved   *)
(* region has a pointer that can free it: a process on its own leaks none. *)
THEOREM TableAgreement == Spec => []TableMatchesPointers
<1>1. AllocatorInv => TableMatchesPointers
  BY DEF AllocatorInv
<1> QED  BY <1>1, AllocatorInvariant, PTL

(* No batch is ever written over one that a pointer still names.           *)
THEOREM Disjointness == Spec => []HeldDisjoint
<1>1. AllocatorInv => HeldDisjoint
  <2> SUFFICES ASSUME AllocatorInv, NEW r \in held, NEW s \in held, r # s
               PROVE  End(r) <= s.offset \/ End(s) <= r.offset
    BY DEF HeldDisjoint
  <2>1. PICK i \in 1..count : table[i].offset = r.offset /\ r.length <= table[i].length
    BY DEF AllocatorInv, TableMatchesPointers
  <2>2. PICK j \in 1..count : table[j].offset = s.offset /\ s.length <= table[j].length
    BY DEF AllocatorInv, TableMatchesPointers
  <2>3. r.offset # s.offset
    BY DEF AllocatorInv, PointersDistinct
  <2>4. i # j
    BY <2>1, <2>2, <2>3
  <2>5. /\ count \in 0..MaxAllocs
        /\ r.offset \in Nat /\ r.length \in Nat /\ s.offset \in Nat /\ s.length \in Nat
        /\ table[i].length \in Nat /\ table[j].length \in Nat
    BY ShmAssumption DEF AllocatorInv, TypeOK, Slots, Regions
  <2>6. \/ table[i].offset + table[i].length <= table[j].offset
        \/ table[j].offset + table[j].length <= table[i].offset
    BY <2>4, <2>5 DEF AllocatorInv, TableSorted, End
  <2> QED  BY <2>1, <2>2, <2>5, <2>6 DEF End
<1> QED  BY <1>1, AllocatorInvariant, PTL

-----------------------------------------------------------------------------
(* The exchange: the inductive invariant. *)

(* A region as it goes over the pipe: no region has offset 0. *)
Pointers == {NoRegion} \cup {r \in Regions : r.offset # 0}

Messages == [kind : {"request", "batch", "cancel", "eos"}, ptr : Pointers]

Ops == [kind : {"none", "alloc", "free"}, pc : {"count", "scan", "move", "store", "done"},
        n : Nat, i : Nat, at : Nat, size : Nat, old : [Slots -> Regions]]

Clients ==
    [pc : {"idle", "ready", "allocating", "wait", "freeing", "finished", "draining", "cancelling"},
     plan : Streams \cup {<<>>}, turn : Nat]

Servers ==
    [pc : {"idle", "read", "process", "allocating", "flushed", "freeing", "closing", "draining"},
     turn : Nat, input : Pointers, then : {"go", "finish", "ended"}]

WellTyped ==
    /\ TypeOK
    /\ op \in [Procs -> Ops]
    /\ client \in Clients /\ server \in Servers
    /\ c2s \in Seq(Messages) /\ s2c \in Seq(Messages)
    /\ client.pc # "idle" => client.plan \in Streams
    /\ client.pc \in {"allocating", "wait", "freeing"} => client.turn \in 1..Len(client.plan)
    /\ client.pc = "ready" => client.turn >= 1
    /\ client.pc = "allocating" => Turn.in > 0
    /\ client.pc = "freeing" => Turn.out > 0

(* The server has nothing more to write for turn t. *)
Answered(t) ==
    /\ server.turn = t
    /\ IF t = 0 THEN server.pc = "read" /\ server.then = "go"
                ELSE t \in 1..Len(client.plan) /\ server.then = client.plan[t].then
    /\ \/ server.pc = "read" /\ server.then = "go" /\ server.input = NoRegion
       \/ server.pc \in {"closing", "draining"} /\ server.then = "finish" /\ server.input = NoRegion
       \/ server.pc = "flushed" /\ (server.input # NoRegion => client.plan[t].in > 0)
       \/ server.pc = "freeing" /\ server.input # NoRegion /\ client.plan[t].in > 0

(* The answers of the call, and behind them the end of the output. *)
Output(n) ==
    IF server.pc = "draining" THEN Len(s2c) = n + 1 /\ s2c[n + 1] = Batch("eos", NoRegion)
    ELSE Len(s2c) = n

(* What the client has put on the pipe and goes on to wait for. *)
Sent(m) ==
    \/ /\ client.pc = "wait" /\ m.kind = "batch"
       /\ m.ptr # NoRegion => Turn.in > 0
    \/ client.pc = "draining" /\ m = Batch("eos", NoRegion)
    \/ client.pc = "cancelling" /\ m = Batch("cancel", NoRegion)

(* The messages of its latest call that the client has written before it   *)
(* was answered anything.                                                  *)
Written ==
    IF client.pc = "idle" THEN 0 ELSE IF client.pc \in {"ready", "allocating"} THEN 1 ELSE 2

(* The server has not yet read the request: it is idle, or reads the n     *)
(* messages that are left of the call before.                              *)
Behind ==
    /\ client.pc \in {"idle", "ready", "allocating", "wait", "draining", "cancelling"}
    /\ client.pc # "idle" => client.turn = 1
    /\ server.input = NoRegion
    /\ Len(s2c) = 0
    /\ \E n \in 0..2 :
          /\ IF n = 0 THEN server.pc = "idle"
             ELSE server.pc = "draining" /\ c2s[n] = Batch("eos", NoRegion)
          /\ n = 2 => c2s[1] \in {Batch("batch", NoRegion), Batch("cancel", NoRegion)}
          /\ Len(c2s) = n + Written
          /\ Written > 0 => c2s[n + 1] = Batch("request", NoRegion)
          /\ Written > 1 => Sent(c2s[n + 2])

(* The server has not yet read the input of the turn. *)
Upcoming ==
    /\ client.pc \in {"ready", "allocating", "wait", "draining", "cancelling"}
    /\ client.turn >= 1 /\ Answered(client.turn - 1)
    /\ Len(c2s) = Written - 1
    /\ Written > 1 => Sent(c2s[1])
    /\ Output(0)

(* The server is in the turn. *)
Serving ==
    /\ client.pc = "wait" /\ server.turn = client.turn
    /\ Len(c2s) = 0 /\ Len(s2c) = 0
    /\ \/ /\ server.pc = "process" /\ server.then = "go"
          /\ server.input # NoRegion => Turn.in > 0
       \/ /\ server.pc = "allocating" /\ server.then = Turn.then
          /\ Turn.out > 0 /\ server.input = NoRegion

(* The answer is on the pipe, or the client is about to free its region. *)
Answering ==
    /\ Answered(client.turn)
    /\ Len(c2s) = 0
    /\ \/ /\ client.pc = "wait" /\ Output(1)
          /\ s2c[1].kind = "batch"
          /\ s2c[1].ptr # NoRegion => Turn.out > 0
       \/ client.pc = "freeing" /\ Output(0)

(* The output is ended, unasked or because the client ended its input. *)
Ending ==
    /\ server.input = NoRegion
    /\ \/ /\ client.pc \in {"wait", "cancelling"} /\ server.pc \in {"closing", "draining"}
          /\ server.then # "ended"
          /\ Len(c2s) = 0 /\ Output(0)
       \/ /\ client.pc = "finished" /\ server.pc = "draining"
          /\ Len(c2s) = 0 \/ (Len(c2s) = 1 /\ c2s[1] = Batch("batch", NoRegion))
          /\ Len(s2c) = 0
       \/ /\ client.pc = "draining" /\ Len(c2s) = 0
          /\ \/ server.pc = "closing" /\ server.then = "ended" /\ Len(s2c) = 0
             \/ server.pc = "idle" /\ Len(s2c) = 1 /\ s2c[1] = Batch("eos", NoRegion)

Lockstep == Behind \/ Upcoming \/ Serving \/ Answering \/ Ending

(* What a header operation has found and done so far. *)
Region(o) == [offset |-> o.at, length |-> o.size]

OpOK(p, o) ==
    /\ o.kind = "none" => o.pc = "done"
    /\ o.kind = "alloc" =>
         /\ o.size > 0
         /\ IF p = "client" THEN client.pc = "allocating" ELSE server.pc = "allocating"
         /\ o.pc \in {"count", "scan"} => o.at = 0
         /\ o.pc \in {"move", "store"} =>
               o.n = 0 /\ o.i = 1 /\ o.at = HeaderSize /\ o.size <= SegmentSize - HeaderSize
         /\ o.pc = "scan" => o.n = count
         /\ o.pc = "store" => table = InsertAt(o.old, 0, 1, Region(o)) /\ count = 0
    /\ o.kind = "free" =>
         /\ o.at # 0
         /\ IF p = "client" THEN client.pc = "freeing" ELSE server.pc = "freeing"
         /\ o.pc = "scan" => o.n = count
         /\ o.pc \in {"move", "store"} => o.n = 1 /\ o.i = 1
         /\ o.pc = "store" => table = RemoveAt(o.old, 1, 1) /\ count = 1

OpInv == \A p \in Procs : OpOK(p, op[p])

(* A message on the pipe has a pointer to the region. *)
Carries(ch, r) == \E i \in 1..Len(ch) : ch[i].ptr = r

(* An operation has reserved the region, or has still to give it back. *)
Holding(o, r) ==
    /\ r = Region(o)
    /\ \/ o.kind = "alloc" /\ o.pc = "done"
       \/ o.kind = "free" /\ o.pc # "done"

(* Somebody else has a pointer to it. *)
Elsewhere(r) ==
    \/ Carries(c2s, r) \/ Carries(s2c, r)
    \/ server.input = r /\ server.pc # "freeing"

(* A region is in use while somebody can still give it back. *)
Live(r) == r.offset # 0 /\ (Elsewhere(r) \/ \E p \in Procs : Holding(op[p], r))

HeldInv == \A r \in Regions : r \in held <=> Live(r)

(* One region at most is in use, at the start of the data region. *)
SegmentInv ==
    \/ count = 0 /\ held = {}
    \/ /\ count = 1
       /\ \E r \in Regions :
             /\ held = {r} /\ CommittedTable[1] = r
             /\ r.offset = HeaderSize /\ r.length \in 1..(SegmentSize - HeaderSize)

IndInv == WellTyped /\ Lockstep /\ OpInv /\ HeldInv /\ SegmentInv

(* What the atomic allocator sees of a step that stores no count. *)
Invisible == UNCHANGED <<count, CommittedTable, held>>

-----------------------------------------------------------------------------
(* Facts about turns, messages and the table. *)

(* What the turns of a stream are, and what OneDirection says of them. *)
LEMMA TurnFacts ==
    ASSUME OneDirection, NEW s \in Streams
    PROVE  /\ s \in Seq(Turns) /\ Len(s) \in Nat /\ Len(s) > 0
           /\ \A i \in 1..Len(s) :
                 /\ s[i].in \in Nat /\ s[i].out \in Nat /\ s[i].then \in {"go", "finish", "raise"}
                 /\ s[i].in > 0 => s[i].out = 0 /\ s[i].then = "go"
                 /\ s[i].then = "finish" => \A j \in 1..Len(s) : s[j].in = 0
           /\ \A i \in 1..Len(s) : i < Len(s) /\ s[i].in > 0 => s[i + 1].in = 0
<1>1. s \in Seq(Turns) /\ Len(s) > 0
  BY ExchangeAssumption
<1>2. \A i \in 1..Len(s) : s[i] \in Turns
  BY <1>1
<1>3. \A i \in 1..Len(s) : s[i].in \in Nat /\ s[i].out \in Nat /\ s[i].then \in {"go", "finish", "raise"}
  BY <1>2, ShmAssumption DEF Turns
<1>4. \A i \in 1..Len(s) : s[i].then = "finish" => \A j \in 1..Len(s) : s[j].in = 0
  BY <1>3, ExchangeAssumption
<1> QED  BY <1>1, <1>3, <1>4 DEF OneDirection

(* A message without a pointer. *)
LEMMA PlainMessage ==
    ASSUME NEW k \in {"request", "batch", "cancel", "eos"}
    PROVE  /\ Batch(k, NoRegion) \in Messages
           /\ Batch(k, NoRegion).kind = k /\ Batch(k, NoRegion).ptr = NoRegion
           /\ NoRegion.offset = 0 /\ NoRegion \in Pointers
BY DEF Batch, Messages, Pointers, NoRegion

(* A message is its kind and its pointer. *)
LEMMA MessageIs ==
    ASSUME NEW m \in Messages
    PROVE  m = Batch(m.kind, m.ptr) /\ m.ptr \in Pointers
BY DEF Messages, Batch

(* Sending adds a message and its pointer. *)
LEMMA AppendCarries ==
    ASSUME NEW ch \in Seq(Messages), NEW m \in Messages
    PROVE  /\ Append(ch, m) \in Seq(Messages) /\ Len(Append(ch, m)) = Len(ch) + 1
           /\ Append(ch, m)[Len(ch) + 1] = m
           /\ \A i \in 1..Len(ch) : Append(ch, m)[i] = ch[i]
           /\ \A r : Carries(Append(ch, m), r) <=> Carries(ch, r) \/ m.ptr = r
<1>1. /\ Append(ch, m) \in Seq(Messages) /\ Len(Append(ch, m)) = Len(ch) + 1
      /\ Append(ch, m)[Len(ch) + 1] = m /\ Len(ch) \in Nat
      /\ \A i \in 1..Len(ch) : Append(ch, m)[i] = ch[i]
  OBVIOUS
<1>2. \A i \in 1..Len(Append(ch, m)) : i \in 1..Len(ch) \/ i = Len(ch) + 1
  BY <1>1
<1>3. \A r : Carries(Append(ch, m), r) <=> Carries(ch, r) \/ m.ptr = r
  <2> TAKE r
  <2>1. Carries(Append(ch, m), r) => Carries(ch, r) \/ m.ptr = r
    BY <1>1, <1>2 DEF Carries
  <2>2. Carries(ch, r) => Carries(Append(ch, m), r)
    BY <1>1 DEF Carries
  <2>3. m.ptr = r => Carries(Append(ch, m), r)
    BY <1>1 DEF Carries
  <2> QED  BY <2>1, <2>2, <2>3
<1> QED  BY <1>1, <1>3

(* Reading takes the first message and its pointer. *)
LEMMA TailCarries ==
    ASSUME NEW ch \in Seq(Messages), ch # <<>>
    PROVE  /\ Tail(ch) \in Seq(Messages) /\ Len(Tail(ch)) = Len(ch) - 1 /\ Len(ch) > 0
           /\ Head(ch) = ch[1] /\ ch[1] \in Messages
           /\ \A i \in 1..(Len(ch) - 1) : Tail(ch)[i] = ch[i + 1]
           /\ \A r : Carries(ch, r) <=> Carries(Tail(ch), r) \/ ch[1].ptr = r
<1>1. /\ Tail(ch) \in Seq(Messages) /\ Len(Tail(ch)) = Len(ch) - 1 /\ Len(ch) > 0 /\ Len(ch) \in Nat
      /\ Head(ch) = ch[1] /\ ch[1] \in Messages
      /\ \A i \in 1..(Len(ch) - 1) : Tail(ch)[i] = ch[i + 1]
  OBVIOUS
<1>2. \A r : Carries(ch, r) <=> Carries(Tail(ch), r) \/ ch[1].ptr = r
  <2> TAKE r
  <2>1. ASSUME NEW i \in 1..Len(ch), ch[i].ptr = r
        PROVE  Carries(Tail(ch), r) \/ ch[1].ptr = r
    <3>1. i = 1 \/ (i - 1 \in 1..(Len(ch) - 1) /\ (i - 1) + 1 = i)
      BY <1>1
    <3> QED  BY <3>1, <2>1, <1>1 DEF Carries
  <2>2. ASSUME NEW i \in 1..(Len(ch) - 1), Tail(ch)[i].ptr = r
        PROVE  Carries(ch, r)
    <3>1. i + 1 \in 1..Len(ch)
      BY <1>1
    <3> QED  BY <3>1, <2>2, <1>1 DEF Carries
  <2>3. ch[1].ptr = r => Carries(ch, r)
    BY <1>1 DEF Carries
  <2> QED  BY <2>1, <2>2, <2>3, <1>1 DEF Carries
<1> QED  BY <1>1, <1>2

(* The committed table, where one operation at most is about to store. *)
LEMMA Committed ==
    ASSUME NEW O, NEW T, NEW p \in Procs, \A q \in Procs : q # p => O[q].pc # "store"
    PROVE  (IF \E q \in Procs : O[q].pc = "store"
              THEN (CHOOSE o \in {O[q] : q \in Procs} : o.pc = "store").old ELSE T)
           = IF O[p].pc = "store" THEN O[p].old ELSE T
<1>1. CASE O[p].pc = "store"
  <2>1. \A o \in {O[q] : q \in Procs} : o.pc = "store" => o = O[p]
    OBVIOUS
  <2>2. (CHOOSE o \in {O[q] : q \in Procs} : o.pc = "store") = O[p]
    BY <1>1, <2>1
  <2> QED  BY <1>1, <2>2
<1>2. CASE O[p].pc # "store"
  BY <1>2
<1> QED  BY <1>1, <1>2

-----------------------------------------------------------------------------
(* What the lockstep says about the header. *)

(* The two processes are never both at a point where they use the header. *)
LEMMA Exclusive ==
    ASSUME OneDirection, WellTyped, Lockstep,
           client.pc \in {"allocating", "freeing"}, server.pc \in {"allocating", "freeing"}
    PROVE  FALSE
<1>1. client.plan \in Streams /\ client.turn \in 1..Len(client.plan)
  BY DEF WellTyped
<1>2. PICK s \in Streams : s = client.plan
  BY <1>1
<1>3. PICK t \in 1..Len(s) : t = client.turn
  BY <1>1, <1>2
<1>4. /\ client.pc = "allocating" => s[t].in > 0
      /\ client.pc = "freeing" => s[t].out > 0
  BY <1>2, <1>3 DEF WellTyped, Turn
<1>5. CASE Upcoming
  <2>1. client.pc = "allocating" /\ Answered(t - 1)
    BY <1>3, <1>5 DEF Upcoming
  <2>2. t - 1 \in 1..Len(s) /\ s[t - 1].in > 0 /\ t - 1 < Len(s) /\ (t - 1) + 1 = t
    BY <1>2, <1>3, <2>1, TurnFacts DEF Answered
  <2> QED  BY <1>4, <2>1, <2>2, TurnFacts
<1>6. CASE Answering
  <2>1. client.pc = "freeing" /\ s[t].in > 0
    BY <1>2, <1>3, <1>6 DEF Answering, Answered
  <2> QED  BY <1>4, <2>1, TurnFacts
<1> QED  BY <1>5, <1>6 DEF Lockstep, Behind, Serving, Ending

(* While one process has an operation to do the other has none. *)
LEMMA OneOperation ==
    ASSUME OneDirection, IndInv, NEW p \in Procs, op[p].kind # "none", NEW q \in Procs, q # p
    PROVE  op[q].kind = "none" /\ op[q].pc = "done"
<1>1. \A a \in Procs : op[a] \in Ops /\ OpOK(a, op[a])
  BY DEF IndInv, WellTyped, OpInv
<1>2. op[q].kind \in {"none", "alloc", "free"} /\ op[p].kind \in {"none", "alloc", "free"}
  BY <1>1 DEF Ops
<1>3. CASE op[q].kind # "none"
  <2>1. client.pc \in {"allocating", "freeing"} /\ server.pc \in {"allocating", "freeing"}
    BY <1>1, <1>2, <1>3 DEF OpOK, Procs
  <2> QED  BY <2>1, Exclusive DEF IndInv
<1> QED  BY <1>1, <1>3 DEF OpOK

(* The committed table is the one before the move, if there was one. *)
LEMMA CommittedIs ==
    ASSUME OneDirection, IndInv, NEW p \in Procs, op[p].kind # "none"
    PROVE  CommittedTable = IF op[p].pc = "store" THEN op[p].old ELSE table
<1>1. \A q \in Procs : q # p => op[q].pc # "store"
  BY OneOperation
<1> QED  BY <1>1, Committed DEF CommittedTable

(* While a process has an operation to do nobody else has a pointer. *)
LEMMA NoneElsewhere ==
    ASSUME OneDirection, IndInv, NEW p \in Procs, op[p].kind # "none", NEW r \in Regions, r.offset # 0
    PROVE  ~Elsewhere(r)
<1>1. r # NoRegion
  BY DEF NoRegion
<1>2. op[p].kind \in {"alloc", "free"} /\ OpOK(p, op[p])
  BY DEF IndInv, WellTyped, OpInv, Ops
<1>3. PICK s \in Streams \cup {<<>>} : s = client.plan
  BY DEF IndInv, WellTyped, Clients
<1>4. PICK t \in Nat : t = client.turn
  BY DEF IndInv, WellTyped, Clients
<1>5. /\ client.pc # "idle" => s \in Streams
      /\ client.pc \in {"allocating", "wait", "freeing"} => t \in 1..Len(s) /\ Turn = s[t]
      /\ client.pc = "allocating" => s[t].in > 0
      /\ client.pc = "freeing" => s[t].out > 0
  BY <1>3, <1>4 DEF IndInv, WellTyped, Turn
<1>6. CASE p = "client"
  <2>1. client.pc \in {"allocating", "freeing"} /\ s \in Streams /\ t \in 1..Len(s)
    BY <1>2, <1>5, <1>6 DEF OpOK
  <2>2. CASE Behind
    <3>1. /\ ~Carries(s2c, r) /\ server.input = NoRegion
          /\ \A i \in 1..Len(c2s) : c2s[i].ptr = NoRegion
      BY <2>1, <2>2, PlainMessage DEF Behind, Carries, Written
    <3> QED  BY <1>1, <3>1 DEF Carries, Elsewhere
  <2>3. CASE Upcoming
    <3>1. client.pc = "allocating"
      BY <2>1, <2>3 DEF Upcoming
    <3>2. server.input = NoRegion
      <4>1. Answered(t - 1)
        BY <1>4, <2>3 DEF Upcoming
      <4>2. server.input # NoRegion =>
              t - 1 \in 1..Len(s) /\ s[t - 1].in > 0 /\ t - 1 < Len(s) /\ (t - 1) + 1 = t
        BY <1>3, <2>1, <4>1, TurnFacts DEF Answered
      <4> QED  BY <1>5, <2>1, <3>1, <4>2, TurnFacts
    <3>3. ~Carries(c2s, r)
      BY <2>3, <3>1 DEF Upcoming, Written, Carries
    <3>4. ~Carries(s2c, r)
      BY <1>1, <2>3, PlainMessage DEF Upcoming, Output, Carries
    <3> QED  BY <1>1, <3>2, <3>3, <3>4 DEF Elsewhere
  <2>4. CASE Answering
    <3>1. client.pc = "freeing" /\ Answered(t) /\ Len(c2s) = 0 /\ Output(0)
      BY <1>4, <2>1, <2>4 DEF Answering
    <3>2. server.input = NoRegion
      <4>1. server.input # NoRegion => s[t].in > 0
        BY <1>3, <2>1, <3>1 DEF Answered
      <4> QED  BY <1>5, <2>1, <3>1, <4>1, TurnFacts
    <3>3. ~Carries(c2s, r) /\ ~Carries(s2c, r)
      BY <1>1, <3>1, PlainMessage DEF Output, Carries
    <3> QED  BY <1>1, <3>2, <3>3 DEF Elsewhere
  <2> QED  BY <2>1, <2>2, <2>3, <2>4 DEF IndInv, Lockstep, Serving, Ending
<1>7. CASE p = "server"
  <2>1. server.pc \in {"allocating", "freeing"}
    BY <1>2, <1>7 DEF OpOK
  <2>2. CASE Serving
    <3>1. server.input = NoRegion /\ Len(c2s) = 0 /\ Len(s2c) = 0
      BY <2>1, <2>2 DEF Serving
    <3> QED  BY <1>1, <3>1 DEF Carries, Elsewhere
  <2>3. CASE Upcoming
    <3>1. server.pc = "freeing" /\ Answered(t - 1) /\ Len(s2c) = 0
      BY <1>4, <2>1, <2>3 DEF Upcoming, Answered, Output
    <3>2. s \in Streams /\ t - 1 \in 1..Len(s) /\ s[t - 1].in > 0
      BY <1>3, <1>5, <2>3, <3>1 DEF Upcoming, Answered
    <3>3. ASSUME NEW i \in 1..Len(c2s)  PROVE c2s[i].ptr = NoRegion
      <4>1. i = 1 /\ Sent(c2s[1])
        BY <2>3 DEF Upcoming, Written
      <4>2. CASE client.pc = "wait"
        <5>1. t \in 1..Len(s) /\ c2s[1].ptr # NoRegion => s[t].in > 0
          BY <1>5, <4>1, <4>2 DEF Sent
        <5>2. t \in 1..Len(s) /\ t - 1 < Len(s) /\ (t - 1) + 1 = t
          BY <1>5, <3>2, <4>2
        <5> QED  BY <3>2, <4>1, <5>1, <5>2, TurnFacts
      <4> QED  BY <4>1, <4>2, PlainMessage DEF Sent
    <3> QED  BY <1>1, <3>1, <3>3 DEF Carries, Elsewhere
  <2>4. CASE Answering
    <3>1. server.pc = "freeing" /\ Answered(t) /\ Len(c2s) = 0 /\ client.pc \in {"wait", "freeing"}
      BY <1>4, <2>1, <2>4 DEF Answering, Answered
    <3>2. s \in Streams /\ t \in 1..Len(s) /\ s[t].in > 0
      BY <1>3, <1>5, <3>1 DEF Answered
    <3>3. s[t].out = 0
      BY <3>2, TurnFacts
    <3>4. client.pc = "wait" /\ Len(s2c) = 1 /\ s2c[1].ptr = NoRegion
      BY <1>5, <2>4, <3>1, <3>3 DEF Answering, Output
    <3> QED  BY <1>1, <3>1, <3>4 DEF Carries, Elsewhere
  <2> QED  BY <2>1, <2>2, <2>3, <2>4 DEF IndInv, Lockstep, Behind, Ending
<1> QED  BY <1>6, <1>7 DEF Procs

(* A region is reserved only while no other is in use. *)
LEMMA AllocatesAlone ==
    ASSUME OneDirection, IndInv, NEW p \in Procs, op[p].kind = "alloc", op[p].pc # "done"
    PROVE  held = {} /\ count = 0
<1>1. \A q \in Procs : q # p => op[q].kind = "none"
  BY OneOperation
<1>2. ASSUME NEW r \in Regions  PROVE ~Live(r)
  <2>1. ~\E q \in Procs : Holding(op[q], r)
    BY <1>1 DEF Holding
  <2> QED  BY <2>1, NoneElsewhere DEF Live
<1>3. held \subseteq Regions
  BY DEF IndInv, WellTyped, TypeOK
<1>4. held = {}
  BY <1>2, <1>3 DEF IndInv, HeldInv
<1> QED  BY <1>4 DEF IndInv, SegmentInv

(* The region that is freed is the one in use, and its entry is the first. *)
LEMMA FreesTheOne ==
    ASSUME OneDirection, IndInv, NEW p \in Procs, op[p].kind = "free", op[p].pc # "done"
    PROVE  /\ count = 1 /\ held = {Region(op[p])} /\ CommittedTable[1] = Region(op[p])
           /\ op[p].at = HeaderSize /\ op[p].size \in Nat
<1>1. op[p] \in Ops /\ op[p].at # 0
  BY DEF IndInv, WellTyped, OpInv, OpOK
<1>2. Region(op[p]) \in Regions /\ Region(op[p]).offset = op[p].at
  BY <1>1 DEF Region, Regions, Ops
<1>3. Region(op[p]) \in held
  BY <1>1, <1>2 DEF IndInv, HeldInv, Live, Holding
<1> QED  BY <1>1, <1>2, <1>3 DEF IndInv, SegmentInv, Ops

-----------------------------------------------------------------------------
(* The operations on the header. *)

(* A step of an operation is no step of the protocol. *)
LEMMA HeaderMoves ==
    ASSUME OneDirection, IndInv, NEW p \in Procs, op[p].kind # "none", NEW o \in Ops,
           op' = [op EXCEPT ![p] = o], o.kind = op[p].kind,
           UNCHANGED <<client, server, c2s, s2c>>, TypeOK', OpOK(p, o)', HeldInv', SegmentInv'
    PROVE  IndInv'
<1>1. WellTyped'
  BY DEF IndInv, WellTyped, Turn
<1>2. Lockstep'
  BY DEF IndInv, Lockstep, Behind, Upcoming, Serving, Answering, Ending, Answered, Output, Sent,
         Written, Turn
<1>3. OpInv'
  <2>1. op'[p] = o /\ \A q \in Procs : q # p => op'[q] = op[q]
    BY DEF IndInv, WellTyped
  <2>2. \A q \in Procs : q # p => op[q].kind = "none" /\ op[q].pc = "done"
    BY OneOperation
  <2>3. ASSUME NEW q \in Procs, q # p  PROVE OpOK(q, op[q])'
    BY <2>1, <2>2, <2>3 DEF OpOK
  <2> QED  BY <2>1, <2>3 DEF OpInv
<1> QED  BY <1>1, <1>2, <1>3 DEF IndInv

(* The same region is held by the operation before and after. *)
LEMMA HeaderHolds ==
    ASSUME OneDirection, IndInv, NEW p \in Procs, NEW o \in Ops, op' = [op EXCEPT ![p] = o],
           UNCHANGED <<server, c2s, s2c, held>>,
           \A r \in Regions : r.offset # 0 => (Holding(o, r) <=> Holding(op[p], r))
    PROVE  HeldInv'
<1>1. op'[p] = o /\ \A q \in Procs : q # p => op'[q] = op[q]
  BY DEF IndInv, WellTyped
<1>2. ASSUME NEW r \in Regions  PROVE Live(r)' <=> Live(r)
  <2>1. r.offset # 0 => ((\E q \in Procs : Holding(op'[q], r)) <=> (\E q \in Procs : Holding(op[q], r)))
    BY <1>1
  <2>2. (\E q \in Procs : Holding(op[q], r))' <=> (\E q \in Procs : Holding(op'[q], r))
    BY DEF Holding, Region
  <2> QED  BY <2>1, <2>2 DEF Live, Elsewhere, Carries
<1> QED  BY <1>2 DEF IndInv, HeldInv

(* The committed table after a step of one operation. *)
LEMMA CommittedNext ==
    ASSUME OneDirection, IndInv, NEW p \in Procs, op[p].kind # "none", NEW o \in Ops,
           op' = [op EXCEPT ![p] = o]
    PROVE  CommittedTable' = IF o.pc = "store" THEN o.old ELSE table'
<1>1. op'[p] = o /\ \A q \in Procs : q # p => op'[q] = op[q]
  BY DEF IndInv, WellTyped
<1>2. \A q \in Procs : q # p => op'[q].pc # "store"
  BY <1>1, OneOperation
<1>3. PICK O : O = op'
  OBVIOUS
<1>4. PICK T : T = table'
  OBVIOUS
<1>5. (IF \E q \in Procs : O[q].pc = "store"
         THEN (CHOOSE x \in {O[q] : q \in Procs} : x.pc = "store").old ELSE T)
      = IF O[p].pc = "store" THEN O[p].old ELSE T
  BY <1>2, <1>3, Committed
<1> QED  BY <1>1, <1>3, <1>4, <1>5 DEF CommittedTable

(* num_allocs(). *)
LEMMA ReadCountKeeps ==
    ASSUME OneDirection, IndInv, NEW p \in Procs, ReadCount(p)
    PROVE  IndInv' /\ Invisible
<1>1. /\ op[p].kind # "none" /\ op[p].pc = "count"
      /\ op' = [op EXCEPT ![p].n = count, ![p].pc = "scan"]
      /\ UNCHANGED <<count, table, held, client, server, c2s, s2c>>
  BY DEF ReadCount, wire
<1>2. op[p] \in Ops /\ op \in [Procs -> Ops] /\ count \in Nat /\ OpOK(p, op[p]) /\ TypeOK /\ SegmentInv
  BY ShmAssumption DEF IndInv, WellTyped, TypeOK, OpInv
<1>3. PICK o : o = [[op[p] EXCEPT !.n = count] EXCEPT !.pc = "scan"]
  OBVIOUS
<1>4. /\ o \in Ops /\ o.kind = op[p].kind /\ o.pc = "scan" /\ o.n = count /\ o.at = op[p].at
      /\ o.size = op[p].size
  BY <1>2, <1>3 DEF Ops
<1>5. op' = [op EXCEPT ![p] = o]
  BY <1>1, <1>2, <1>3
<1>6. OpOK(p, o)'
  BY <1>1, <1>2, <1>4 DEF OpOK
<1>7. HeldInv'
  <2>1. \A r \in Regions : r.offset # 0 => (Holding(o, r) <=> Holding(op[p], r))
    BY <1>1, <1>4 DEF Holding, Region
  <2> QED  BY <1>1, <1>4, <1>5, <2>1, HeaderHolds
<1>8. SegmentInv' /\ Invisible
  <2>1. CommittedTable' = CommittedTable
    BY <1>1, <1>4, <1>5, CommittedIs, CommittedNext
  <2> QED  BY <1>1, <1>2, <2>1 DEF SegmentInv, Invisible
<1>9. TypeOK'
  BY <1>1, <1>2 DEF TypeOK
<1> QED  BY <1>1, <1>4, <1>5, <1>6, <1>7, <1>8, <1>9, HeaderMoves

(* The scan of allocate() finds the whole data region free, or too small. *)
LEMMA ScanForGapKeeps ==
    ASSUME OneDirection, IndInv, NEW p \in Procs, ScanForGap(p)
    PROVE  IndInv' /\ Invisible
<1>1. /\ op[p].kind = "alloc" /\ op[p].pc = "scan"
      /\ UNCHANGED <<count, table, held, client, server, c2s, s2c>>
  BY DEF ScanForGap, wire
<1>2. /\ op[p] \in Ops /\ op \in [Procs -> Ops] /\ count = 0 /\ OpOK(p, op[p]) /\ TypeOK /\ SegmentInv
      /\ op[p].n = 0 /\ op[p].at = 0 /\ op[p].size > 0 /\ op[p].size \in Nat
  BY <1>1, AllocatesAlone DEF IndInv, WellTyped, OpInv, OpOK, Ops
<1>3. \/ /\ op' = [op EXCEPT ![p].i = 1, ![p].at = HeaderSize, ![p].pc = "move"]
         /\ op[p].size <= SegmentSize - HeaderSize
      \/ op' = [op EXCEPT ![p].pc = "done"]
  <2>1. CASE CanAllocate(table, op[p].n, op[p].size)
    <3>1. PICK i \in 1..(op[p].n + 1) :
            /\ FirstFit(table, op[p].n, op[p].size, i)
            /\ op' = [op EXCEPT ![p].i = i, ![p].at = PrevEnd(table, i), ![p].pc = "move"]
      BY <2>1 DEF ScanForGap
    <3>2. i = 1
      BY <1>2
    <3>3. op[p].size <= SegmentSize - HeaderSize
      BY <1>2, <3>1, <3>2, ShmAssumption DEF FirstFit, Fits, PrevEnd
    <3> QED  BY <3>1, <3>2, <3>3 DEF PrevEnd
  <2>2. CASE ~CanAllocate(table, op[p].n, op[p].size)
    BY <2>2 DEF ScanForGap
  <2> QED  BY <2>1, <2>2
<1>4. \E o \in Ops :
         /\ op' = [op EXCEPT ![p] = o] /\ o.kind = "alloc" /\ o.size = op[p].size /\ o.n = 0
         /\ \/ /\ o.pc = "move" /\ o.i = 1 /\ o.at = HeaderSize
               /\ o.size <= SegmentSize - HeaderSize
            \/ o.pc = "done" /\ o.at = 0
  <2>1. CASE op' = [op EXCEPT ![p].pc = "done"]
    <3>1. PICK o : o = [op[p] EXCEPT !.pc = "done"]
      OBVIOUS
    <3>2. o \in Ops /\ o.kind = "alloc" /\ o.size = op[p].size /\ o.n = 0 /\ o.pc = "done" /\ o.at = 0
      BY <1>1, <1>2, <3>1 DEF Ops
    <3> QED  BY <1>2, <2>1, <3>1, <3>2
  <2>2. CASE /\ op' = [op EXCEPT ![p].i = 1, ![p].at = HeaderSize, ![p].pc = "move"]
             /\ op[p].size <= SegmentSize - HeaderSize
    <3>1. PICK o : o = [[[op[p] EXCEPT !.i = 1] EXCEPT !.at = HeaderSize] EXCEPT !.pc = "move"]
      OBVIOUS
    <3>2. /\ o \in Ops /\ o.kind = "alloc" /\ o.size = op[p].size /\ o.n = 0
          /\ o.pc = "move" /\ o.i = 1 /\ o.at = HeaderSize
      BY <1>1, <1>2, <3>1, ShmAssumption DEF Ops
    <3>3. op' = [op EXCEPT ![p] = o]
      BY <1>2, <2>2, <3>1
    <3> QED  BY <2>2, <3>2, <3>3
  <2> QED  BY <1>3, <2>1, <2>2
<1>5. PICK o \in Ops :
         /\ op' = [op EXCEPT ![p] = o] /\ o.kind = "alloc" /\ o.size = op[p].size /\ o.n = 0
         /\ \/ /\ o.pc = "move" /\ o.i = 1 /\ o.at = HeaderSize
               /\ o.size <= SegmentSize - HeaderSize
            \/ o.pc = "done" /\ o.at = 0
  BY <1>4
<1>6. OpOK(p, o)'
  BY <1>1, <1>2, <1>5 DEF OpOK
<1>7. HeldInv'
  <2>1. \A r \in Regions : r.offset # 0 => (Holding(o, r) <=> Holding(op[p], r))
    BY <1>1, <1>2, <1>5 DEF Holding, Region
  <2> QED  BY <1>1, <1>5, <2>1, HeaderHolds
<1>8. SegmentInv' /\ Invisible
  <2>1. CommittedTable' = CommittedTable
    BY <1>1, <1>5, CommittedIs, CommittedNext
  <2> QED  BY <1>1, <1>2, <2>1 DEF SegmentInv, Invisible
<1>9. TypeOK'
  BY <1>1, <1>2 DEF TypeOK
<1> QED  BY <1>1, <1>5, <1>6, <1>7, <1>8, <1>9, HeaderMoves

(* The scan of free_alloc() finds the one entry there is. *)
LEMMA ScanForOffsetKeeps ==
    ASSUME OneDirection, IndInv, NEW p \in Procs, ScanForOffset(p)
    PROVE  IndInv' /\ Invisible
<1>1. /\ op[p].kind = "free" /\ op[p].pc = "scan"
      /\ UNCHANGED <<count, table, held, client, server, c2s, s2c>>
  BY DEF ScanForOffset, wire
<1>2. /\ op[p] \in Ops /\ op \in [Procs -> Ops] /\ OpOK(p, op[p]) /\ TypeOK /\ SegmentInv
      /\ op[p].n = 1 /\ op[p].at = HeaderSize
  BY <1>1, FreesTheOne DEF IndInv, WellTyped, OpInv, OpOK
<1>3. table[1].offset = op[p].at
  <2>1. CommittedTable = table
    BY <1>1, CommittedIs
  <2>2. CommittedTable[1] = Region(op[p])
    BY <1>1, FreesTheOne
  <2> QED  BY <2>1, <2>2 DEF Region
<1>4. op' = [op EXCEPT ![p].i = 1, ![p].pc = "move"]
  <2>1. \E i \in 1..op[p].n : table[i].offset = op[p].at
    BY <1>2, <1>3
  <2>2. PICK i \in 1..op[p].n : op' = [op EXCEPT ![p].i = i, ![p].pc = "move"]
    BY <2>1 DEF ScanForOffset
  <2>3. i = 1
    BY <1>2
  <2> QED  BY <2>2, <2>3
<1>5. PICK o : o = [[op[p] EXCEPT !.i = 1] EXCEPT !.pc = "move"]
  OBVIOUS
<1>6. /\ o \in Ops /\ o.kind = "free" /\ o.pc = "move" /\ o.n = 1 /\ o.i = 1 /\ o.at = op[p].at
      /\ o.size = op[p].size
  BY <1>1, <1>2, <1>5 DEF Ops
<1>7. op' = [op EXCEPT ![p] = o]
  BY <1>2, <1>4, <1>5
<1>8. OpOK(p, o)'
  BY <1>1, <1>2, <1>6 DEF OpOK
<1>9. HeldInv'
  <2>1. \A r \in Regions : r.offset # 0 => (Holding(o, r) <=> Holding(op[p], r))
    BY <1>1, <1>6 DEF Holding, Region
  <2> QED  BY <1>1, <1>6, <1>7, <2>1, HeaderHolds
<1>10. SegmentInv' /\ Invisible
  <2>1. CommittedTable' = CommittedTable
    BY <1>1, <1>6, <1>7, CommittedIs, CommittedNext
  <2> QED  BY <1>1, <1>2, <2>1 DEF SegmentInv, Invisible
<1>11. TypeOK'
  BY <1>1, <1>2 DEF TypeOK
<1> QED  BY <1>1, <1>6, <1>7, <1>8, <1>9, <1>10, <1>11, HeaderMoves

(* memmove and the new entry: not committed before the count is stored. *)
LEMMA MoveTableKeeps ==
    ASSUME OneDirection, IndInv, NEW p \in Procs, MoveTable(p)
    PROVE  IndInv' /\ Invisible
<1>1. /\ op[p].pc = "move" /\ op' = [op EXCEPT ![p].old = table, ![p].pc = "store"]
      /\ table' = IF op[p].kind = "alloc"
                    THEN InsertAt(table, op[p].n, op[p].i, [offset |-> op[p].at, length |-> op[p].size])
                    ELSE RemoveAt(table, op[p].n, op[p].i)
      /\ UNCHANGED <<count, held, client, server, c2s, s2c>>
  BY DEF MoveTable, wire
<1>2. /\ op[p] \in Ops /\ op \in [Procs -> Ops] /\ OpOK(p, op[p]) /\ TypeOK /\ SegmentInv
      /\ op[p].kind \in {"alloc", "free"} /\ table \in [Slots -> Regions]
  BY <1>1 DEF IndInv, WellTyped, OpInv, OpOK, Ops, TypeOK
<1>3. PICK o : o = [[op[p] EXCEPT !.old = table] EXCEPT !.pc = "store"]
  OBVIOUS
<1>4. /\ o \in Ops /\ o.kind = op[p].kind /\ o.pc = "store" /\ o.n = op[p].n /\ o.i = op[p].i
      /\ o.at = op[p].at /\ o.size = op[p].size /\ o.old = table
  BY <1>2, <1>3 DEF Ops
<1>5. op' = [op EXCEPT ![p] = o]
  BY <1>1, <1>2, <1>3
<1>6. /\ o.kind = "alloc" => count = 0 /\ table' = InsertAt(table, 0, 1, Region(o))
      /\ o.kind = "free" => count = 1 /\ table' = RemoveAt(table, 1, 1)
  BY <1>1, <1>2, <1>4, AllocatesAlone, FreesTheOne DEF OpOK, Region
<1>7. OpOK(p, o)'
  BY <1>1, <1>2, <1>4, <1>6 DEF OpOK, Region
<1>8. HeldInv'
  <2>1. \A r \in Regions : r.offset # 0 => (Holding(o, r) <=> Holding(op[p], r))
    BY <1>1, <1>2, <1>4 DEF Holding, Region
  <2> QED  BY <1>1, <1>4, <1>5, <2>1, HeaderHolds
<1>9. SegmentInv' /\ Invisible
  <2>1. CommittedTable' = CommittedTable
    BY <1>1, <1>2, <1>4, <1>5, CommittedIs, CommittedNext
  <2> QED  BY <1>1, <1>2, <2>1 DEF SegmentInv, Invisible
<1>10. TypeOK'
  <2>1. Region(o) \in Regions
    BY <1>4 DEF Region, Regions, Ops
  <2>2. table' \in [Slots -> Regions]
    <3>1. CASE o.kind = "alloc"
      <4>1. table' = [j \in Slots |-> IF j < 1 \/ j > 0 + 1 THEN table[j]
                                      ELSE IF j = 1 THEN Region(o) ELSE table[j - 1]]
        BY <1>6, <3>1 DEF InsertAt
      <4>2. \A j \in Slots : j < 1 \/ j > 0 + 1 \/ j = 1
        BY ShmAssumption DEF Slots
      <4> QED  BY <1>2, <2>1, <4>1, <4>2
    <3>2. CASE o.kind = "free"
      <4>1. table' = [j \in Slots |-> IF j < 1 \/ j >= 1 THEN table[j] ELSE table[j + 1]]
        BY <1>6, <3>2 DEF RemoveAt
      <4>2. \A j \in Slots : j < 1 \/ j >= 1
        BY ShmAssumption DEF Slots
      <4> QED  BY <1>2, <4>1, <4>2
    <3> QED  BY <1>2, <1>4, <3>1, <3>2
  <2> QED  BY <1>1, <1>2, <2>2 DEF TypeOK
<1> QED  BY <1>1, <1>2, <1>4, <1>5, <1>7, <1>8, <1>9, <1>10, HeaderMoves

(* What set_num_allocs() commits: the only region, or that there is none. *)
LEMMA StoreCountCommits ==
    ASSUME OneDirection, IndInv, NEW p \in Procs, StoreCount(p)
    PROVE  /\ op[p].kind \in {"alloc", "free"} /\ op[p].pc = "store"
           /\ \E o \in Ops : /\ op' = [op EXCEPT ![p] = o] /\ o.pc = "done" /\ o.kind = op[p].kind
                             /\ o.at = op[p].at /\ o.size = op[p].size
           /\ op[p].kind = "alloc" =>
                 /\ count = 0 /\ held = {} /\ count' = 1 /\ held' = {Region(op[p])}
                 /\ table' = InsertAt(op[p].old, 0, 1, Region(op[p]))
                 /\ op[p].at = HeaderSize /\ op[p].size \in 1..(SegmentSize - HeaderSize)
           /\ op[p].kind = "free" =>
                 /\ count = 1 /\ held = {Region(op[p])} /\ count' = 0 /\ held' = {}
                 /\ table' = RemoveAt(op[p].old, 1, 1)
                 /\ op[p].old[1] = Region(op[p])
           /\ op[p].old \in [Slots -> Regions]
           /\ UNCHANGED <<table, client, server, c2s, s2c>>
<1>1. /\ op[p].pc = "store" /\ op' = [op EXCEPT ![p].pc = "done"]
      /\ count' = IF op[p].kind = "alloc" THEN op[p].n + 1 ELSE op[p].n - 1
      /\ held' = IF op[p].kind = "alloc" THEN held \cup {Region(op[p])} ELSE held \ {Region(op[p])}
      /\ UNCHANGED <<table, client, server, c2s, s2c>>
  BY DEF StoreCount, wire, Region
<1>2. /\ op[p] \in Ops /\ op \in [Procs -> Ops] /\ OpOK(p, op[p])
      /\ op[p].kind \in {"alloc", "free"} /\ op[p].old \in [Slots -> Regions] /\ op[p].size \in Nat
  BY <1>1 DEF IndInv, WellTyped, OpInv, OpOK, Ops
<1>3. PICK o : o = [op[p] EXCEPT !.pc = "done"]
  OBVIOUS
<1>4. /\ o \in Ops /\ o.pc = "done" /\ o.kind = op[p].kind /\ o.at = op[p].at /\ o.size = op[p].size
      /\ op' = [op EXCEPT ![p] = o]
  BY <1>1, <1>2, <1>3 DEF Ops
<1>5. ASSUME op[p].kind = "alloc"
      PROVE  /\ count = 0 /\ held = {} /\ count' = 1 /\ held' = {Region(op[p])}
             /\ table' = InsertAt(op[p].old, 0, 1, Region(op[p]))
             /\ op[p].at = HeaderSize /\ op[p].size \in 1..(SegmentSize - HeaderSize)
  <2>1. count = 0 /\ held = {}
    BY <1>1, <1>5, AllocatesAlone
  <2>2. /\ op[p].n = 0 /\ op[p].at = HeaderSize /\ op[p].size > 0
        /\ op[p].size <= SegmentSize - HeaderSize
        /\ table = InsertAt(op[p].old, 0, 1, Region(op[p]))
    BY <1>1, <1>2, <1>5 DEF OpOK
  <2>3. op[p].size \in 1..(SegmentSize - HeaderSize)
    BY <1>2, <2>2, ShmAssumption
  <2> QED  BY <1>1, <1>5, <2>1, <2>2, <2>3
<1>6. ASSUME op[p].kind = "free"
      PROVE  /\ count = 1 /\ held = {Region(op[p])} /\ count' = 0 /\ held' = {}
             /\ table' = RemoveAt(op[p].old, 1, 1)
             /\ op[p].old[1] = Region(op[p])
  <2>1. count = 1 /\ held = {Region(op[p])} /\ CommittedTable[1] = Region(op[p])
    BY <1>1, <1>6, FreesTheOne
  <2>2. CommittedTable = op[p].old
    BY <1>1, <1>6, CommittedIs
  <2>3. op[p].n = 1 /\ table = RemoveAt(op[p].old, 1, 1)
    BY <1>1, <1>2, <1>6 DEF OpOK
  <2> QED  BY <1>1, <1>6, <2>1, <2>2, <2>3
<1> QED  BY <1>1, <1>2, <1>4, <1>5, <1>6

(* set_num_allocs(). *)
LEMMA StoreCountKeeps ==
    ASSUME OneDirection, IndInv, NEW p \in Procs, StoreCount(p)
    PROVE  IndInv'
<1>1. PICK o \in Ops : /\ op' = [op EXCEPT ![p] = o] /\ o.pc = "done" /\ o.kind = op[p].kind
                       /\ o.at = op[p].at /\ o.size = op[p].size
  BY StoreCountCommits
<1>2. /\ op[p].kind \in {"alloc", "free"} /\ op[p].pc = "store"
      /\ UNCHANGED <<table, client, server, c2s, s2c>>
      /\ op[p].kind = "alloc" =>
            /\ count = 0 /\ held = {} /\ count' = 1 /\ held' = {Region(op[p])}
            /\ table' = InsertAt(op[p].old, 0, 1, Region(op[p]))
            /\ op[p].at = HeaderSize /\ op[p].size \in 1..(SegmentSize - HeaderSize)
      /\ op[p].kind = "free" => count = 1 /\ held = {Region(op[p])} /\ count' = 0 /\ held' = {}
  BY StoreCountCommits
<1>3. /\ op \in [Procs -> Ops] /\ op[p] \in Ops /\ OpOK(p, op[p]) /\ TypeOK
      /\ Region(op[p]) \in Regions /\ Region(op[p]).offset = op[p].at /\ Region(op[p]).length = op[p].size
  BY DEF IndInv, WellTyped, OpInv, Region, Regions, Ops
<1>4. TypeOK'
  BY <1>2, <1>3, ShmAssumption DEF TypeOK
<1>5. OpOK(p, o)'
  BY <1>1, <1>2, <1>3 DEF OpOK
<1>6. SegmentInv'
  <2>1. CASE op[p].kind = "alloc"
    <3>1. CommittedTable' = table'
      BY <1>1, <1>2, CommittedNext
    <3>2. table'[1] = Region(op[p])
      BY <1>2, <2>1, ShmAssumption DEF InsertAt, Slots
    <3> QED  BY <1>2, <1>3, <2>1, <3>1, <3>2 DEF SegmentInv
  <2>2. CASE op[p].kind = "free"
    BY <1>2, <2>2 DEF SegmentInv
  <2> QED  BY <1>2, <2>1, <2>2
<1>7. HeldInv'
  <2>1. op'[p] = o /\ \A q \in Procs : q # p => op'[q] = op[q]
    BY <1>1, <1>3
  <2>2. \A q \in Procs : q # p => op[q].kind = "none"
    BY <1>2, OneOperation
  <2>3. op[p].at # 0
    BY <1>2, <1>3, ExchangeAssumption DEF OpOK
  <2>4. Region(o) = Region(op[p])
    BY <1>1 DEF Region
  <2>5. ASSUME NEW r \in Regions  PROVE r \in held' <=> Live(r)'
    <3>1. r.offset # 0 => ~Elsewhere(r)
      BY <1>2, NoneElsewhere
    <3>2. Live(r)' <=> r.offset # 0 /\ Holding(o, r)
      <4>1. (\E q \in Procs : Holding(op[q], r))' <=> Holding(o, r)
        BY <2>1, <2>2 DEF Holding, Region
      <4>2. Elsewhere(r)' <=> Elsewhere(r)
        BY <1>2 DEF Elsewhere, Carries
      <4> QED  BY <3>1, <4>1, <4>2 DEF Live
    <3>3. CASE op[p].kind = "alloc"
      <4>1. Holding(o, r) <=> r = Region(op[p])
        BY <1>1, <2>4, <3>3 DEF Holding
      <4> QED  BY <1>2, <1>3, <2>3, <3>2, <3>3, <4>1
    <3>4. CASE op[p].kind = "free"
      <4>1. ~Holding(o, r)
        BY <1>1, <3>4 DEF Holding
      <4> QED  BY <1>2, <3>2, <3>4, <4>1
    <3> QED  BY <1>2, <3>3, <3>4
  <2> QED  BY <2>5 DEF HeldInv
<1> QED  BY <1>1, <1>2, <1>4, <1>5, <1>6, <1>7, HeaderMoves

-----------------------------------------------------------------------------
(* Steps of the protocol: they touch no table, and move pointers between   *)
(* an operation, the pipe and the server's input.                          *)

(* The idle operation, and the operations as they begin. *)
LEMMA Operations ==
    /\ NoOp \in Ops /\ NoOp.kind = "none" /\ NoOp.pc = "done"
    /\ \A z \in Nat :
          LET o == [NoOp EXCEPT !.kind = "alloc", !.pc = "count", !.size = z] IN
            o \in Ops /\ o.kind = "alloc" /\ o.pc = "count" /\ o.at = 0 /\ o.size = z
    /\ \A r \in Regions :
          LET o == [NoOp EXCEPT !.kind = "free", !.pc = "count", !.at = r.offset, !.size = r.length] IN
            o \in Ops /\ o.kind = "free" /\ o.pc = "count" /\ o.at = r.offset /\ Region(o) = r
<1>1. NoOp \in Ops /\ NoOp.kind = "none" /\ NoOp.pc = "done" /\ NoOp.at = 0
  BY DEF NoOp, Ops, NoRegion, Regions
<1>2. ASSUME NEW z \in Nat
      PROVE  LET o == [NoOp EXCEPT !.kind = "alloc", !.pc = "count", !.size = z] IN
               o \in Ops /\ o.kind = "alloc" /\ o.pc = "count" /\ o.at = 0 /\ o.size = z
  BY <1>1 DEF Ops
<1>3. ASSUME NEW r \in Regions
      PROVE  LET o == [NoOp EXCEPT !.kind = "free", !.pc = "count", !.at = r.offset, !.size = r.length] IN
               o \in Ops /\ o.kind = "free" /\ o.pc = "count" /\ o.at = r.offset /\ Region(o) = r
  <2>1. r.offset \in Nat /\ r.length \in Nat /\ r = [offset |-> r.offset, length |-> r.length]
    BY DEF Regions
  <2> QED  BY <1>1, <2>1 DEF Ops, Region
<1> QED  BY <1>1, <1>2, <1>3

(* An operation that begins or is over leaves the committed table alone. *)
LEMMA OperationMoves ==
    ASSUME WellTyped, NEW p \in Procs, NEW o \in Ops, op' = [op EXCEPT ![p] = o],
           op[p].pc # "store", o.pc # "store", table' = table
    PROVE  CommittedTable' = CommittedTable
<1>1. op'[p] = o /\ \A q \in Procs : q # p => op'[q] = op[q]
  BY DEF WellTyped
<1>2. PICK w \in Procs : \A q \in Procs : q # w => q = p
  BY DEF Procs
<1>3. PICK O : O = op'
  OBVIOUS
<1>4. \A q \in Procs : q # w => op[q].pc # "store" /\ O[q].pc # "store"
  BY <1>1, <1>2, <1>3
<1>5. (IF \E q \in Procs : O[q].pc = "store"
         THEN (CHOOSE x \in {O[q] : q \in Procs} : x.pc = "store").old ELSE table)
      = IF O[w].pc = "store" THEN O[w].old ELSE table
  BY <1>4, Committed
<1>6. (IF \E q \in Procs : op[q].pc = "store"
         THEN (CHOOSE x \in {op[q] : q \in Procs} : x.pc = "store").old ELSE table)
      = IF op[w].pc = "store" THEN op[w].old ELSE table
  BY <1>4, Committed
<1>7. (IF O[w].pc = "store" THEN O[w].old ELSE table) = IF op[w].pc = "store" THEN op[w].old ELSE table
  BY <1>1, <1>3
<1> QED  BY <1>3, <1>5, <1>6, <1>7 DEF CommittedTable

(* What a step of the protocol has to keep. *)
LEMMA ProtocolKeeps ==
    ASSUME IndInv, WellTyped', Lockstep', OpInv', UNCHANGED <<count, table, held>>,
           CommittedTable' = CommittedTable, \A r \in Regions : Live(r)' <=> Live(r)
    PROVE  IndInv' /\ Invisible
<1>1. HeldInv'
  BY DEF IndInv, HeldInv
<1>2. SegmentInv'
  BY DEF IndInv, SegmentInv
<1> QED  BY <1>1, <1>2 DEF IndInv, Invisible

(* A step of the client leaves the server's operation alone. *)
LEMMA ClientOperation ==
    ASSUME IndInv, UNCHANGED <<count, table, server>>, op'["server"] = op["server"],
           OpOK("client", op["client"])'
    PROVE  OpInv'
<1>1. OpOK("server", op["server"])
  BY DEF IndInv, OpInv, Procs
<1>2. OpOK("server", op["server"])'
  BY <1>1 DEF OpOK, Region
<1> QED  BY <1>2 DEF OpInv, Procs

(* The same for a step of the server. *)
LEMMA ServerOperation ==
    ASSUME IndInv, UNCHANGED <<count, table, client>>, op'["client"] = op["client"],
           OpOK("server", op["server"])'
    PROVE  OpInv'
<1>1. OpOK("client", op["client"])
  BY DEF IndInv, OpInv, Procs
<1>2. OpOK("client", op["client"])'
  BY <1>1 DEF OpOK, Region
<1> QED  BY <1>2 DEF OpInv, Procs

(* A process that is not at a header operation has none. *)
LEMMA NoOperation ==
    ASSUME IndInv
    PROVE  /\ client.pc \notin {"allocating", "freeing"} => op["client"].kind = "none" /\ op["client"].pc = "done"
           /\ server.pc \notin {"allocating", "freeing"} => op["server"].kind = "none" /\ op["server"].pc = "done"
<1>1. op["client"] \in Ops /\ op["server"] \in Ops /\ OpOK("client", op["client"]) /\ OpOK("server", op["server"])
  BY DEF IndInv, WellTyped, OpInv, Procs
<1> QED  BY <1>1 DEF OpOK, Ops

-----------------------------------------------------------------------------
(* The client. *)

(* A message without a pointer changes nothing about the regions in use. *)
LEMMA PlainSent ==
    ASSUME WellTyped, NEW m \in Messages, m.ptr = NoRegion,
           \/ c2s' = Append(c2s, m) /\ s2c' = s2c
           \/ s2c' = Append(s2c, m) /\ c2s' = c2s,
           NEW r \in Regions, r.offset # 0
    PROVE  (Carries(c2s, r) \/ Carries(s2c, r))' <=> (Carries(c2s, r) \/ Carries(s2c, r))
<1>1. c2s \in Seq(Messages) /\ s2c \in Seq(Messages) /\ m.ptr # r
  BY DEF WellTyped, NoRegion
<1>2. Carries(c2s, r)' <=> Carries(c2s', r)
  BY DEF Carries
<1>3. Carries(s2c, r)' <=> Carries(s2c', r)
  BY DEF Carries
<1>4. CASE c2s' = Append(c2s, m) /\ s2c' = s2c
  BY <1>1, <1>2, <1>3, <1>4, AppendCarries
<1>5. CASE s2c' = Append(s2c, m) /\ c2s' = c2s
  BY <1>1, <1>2, <1>3, <1>5, AppendCarries
<1> QED  BY <1>4, <1>5

(* The client sends the input of a turn, or ends the call instead. *)
LEMMA ClientSends ==
    ASSUME IndInv, client.pc \in {"ready", "allocating"}, NEW m \in Messages,
           c2s' = Append(c2s, m), UNCHANGED <<server, s2c>>,
           client'.plan = client.plan, client'.turn = client.turn,
           client'.pc \in {"wait", "draining", "cancelling"}, Sent(m)'
    PROVE  Lockstep'
<1>1. c2s \in Seq(Messages) /\ Written = 1 /\ Written' = 2
  BY DEF IndInv, WellTyped, Written
<1>2. /\ Len(c2s') = Len(c2s) + 1 /\ c2s'[Len(c2s) + 1] = m /\ Len(c2s) \in Nat
      /\ \A i \in 1..Len(c2s) : c2s'[i] = c2s[i]
  BY <1>1, AppendCarries
<1>3. CASE Behind
  <2>1. PICK n \in 0..2 :
          /\ IF n = 0 THEN server.pc = "idle"
             ELSE server.pc = "draining" /\ c2s[n] = Batch("eos", NoRegion)
          /\ n = 2 => c2s[1] \in {Batch("batch", NoRegion), Batch("cancel", NoRegion)}
          /\ Len(c2s) = n + 1
          /\ c2s[n + 1] = Batch("request", NoRegion)
    BY <1>1, <1>3 DEF Behind
  <2>2. /\ IF n = 0 THEN server'.pc = "idle"
           ELSE server'.pc = "draining" /\ c2s'[n] = Batch("eos", NoRegion)
        /\ n = 2 => c2s'[1] \in {Batch("batch", NoRegion), Batch("cancel", NoRegion)}
        /\ Len(c2s') = n + 2
        /\ c2s'[n + 1] = Batch("request", NoRegion)
        /\ c2s'[n + 2] = m
    BY <1>2, <2>1
  <2>3. /\ client.turn = 1 /\ server.input = NoRegion /\ Len(s2c) = 0
    BY <1>3 DEF Behind
  <2>4. Sent(c2s[n + 2])'
    BY <2>2 DEF Sent, Turn
  <2>5. Behind'
    BY <1>1, <2>2, <2>3, <2>4 DEF Behind, Batch
  <2> QED  BY <2>5 DEF Lockstep
<1>4. CASE Upcoming
  <2>1. /\ client.turn >= 1 /\ Answered(client.turn - 1) /\ Len(c2s) = 0 /\ Output(0)
    BY <1>1, <1>4 DEF Upcoming
  <2>2. Answered(client.turn - 1)' /\ Output(0)'
    BY <2>1 DEF Answered, Output, Batch
  <2>3. Len(c2s') = 1 /\ Sent(c2s[1])'
    BY <1>2, <2>1 DEF Sent, Turn
  <2>4. Upcoming'
    BY <1>1, <2>1, <2>2, <2>3 DEF Upcoming
  <2> QED  BY <2>4 DEF Lockstep
<1> QED  BY <1>3, <1>4 DEF IndInv, Lockstep, Serving, Answering, Ending

(* open_exchange(). *)
LEMMA OpenKeeps ==
    ASSUME IndInv, NEW plan \in Streams, Open(plan)
    PROVE  IndInv' /\ Invisible
<1>1. /\ client.pc = "idle" /\ client' = [pc |-> "ready", plan |-> plan, turn |-> 1]
      /\ c2s' = Append(c2s, Batch("request", NoRegion))
      /\ UNCHANGED <<count, table, held, op, server, s2c>>
  BY DEF Open
<1>2. PICK m \in Messages : m = Batch("request", NoRegion) /\ m.ptr = NoRegion
  BY PlainMessage
<1>3. c2s \in Seq(Messages) /\ TypeOK /\ Written = 0 /\ Written' = 1
  BY <1>1 DEF IndInv, WellTyped, Written
<1>4. /\ Len(c2s') = Len(c2s) + 1 /\ c2s'[Len(c2s) + 1] = m /\ Len(c2s) \in Nat
      /\ \A i \in 1..Len(c2s) : c2s'[i] = c2s[i]
      /\ c2s' \in Seq(Messages)
  BY <1>1, <1>2, <1>3, AppendCarries
<1>5. client' \in Clients
  BY <1>1 DEF Clients
<1>6. WellTyped'
  BY <1>1, <1>4, <1>5 DEF IndInv, WellTyped, TypeOK
<1>7. Lockstep'
  <2>1. Behind
    BY <1>1 DEF IndInv, Lockstep, Upcoming, Serving, Answering, Ending
  <2>2. PICK n \in 0..2 :
          /\ IF n = 0 THEN server.pc = "idle"
             ELSE server.pc = "draining" /\ c2s[n] = Batch("eos", NoRegion)
          /\ n = 2 => c2s[1] \in {Batch("batch", NoRegion), Batch("cancel", NoRegion)}
          /\ Len(c2s) = n + 0
    BY <1>3, <2>1 DEF Behind
  <2>3. /\ IF n = 0 THEN server'.pc = "idle"
           ELSE server'.pc = "draining" /\ c2s'[n] = Batch("eos", NoRegion)
        /\ n = 2 => c2s'[1] \in {Batch("batch", NoRegion), Batch("cancel", NoRegion)}
        /\ Len(c2s') = n + 1 /\ c2s'[n + 1] = m
    BY <1>1, <1>4, <2>2
  <2>4. server.input = NoRegion /\ Len(s2c) = 0
    BY <2>1 DEF Behind
  <2>5. Behind'
    BY <1>1, <1>2, <1>3, <2>3, <2>4 DEF Behind, Batch
  <2> QED  BY <2>5 DEF Lockstep
<1>8. OpInv'
  <2>1. op["client"].kind = "none" /\ op["client"].pc = "done"
    BY <1>1, NoOperation
  <2>2. OpOK("client", op["client"])'
    BY <1>1, <2>1 DEF OpOK
  <2> QED  BY <1>1, <2>2, ClientOperation
<1>9. ASSUME NEW r \in Regions  PROVE Live(r)' <=> Live(r)
  <2>1. r.offset # 0 => ((Carries(c2s, r) \/ Carries(s2c, r))' <=> (Carries(c2s, r) \/ Carries(s2c, r)))
    BY <1>1, <1>2, PlainSent DEF IndInv
  <2> QED  BY <1>1, <2>1 DEF Live, Elsewhere, Holding, Region
<1>10. CommittedTable' = CommittedTable
  BY <1>1 DEF CommittedTable
<1> QED  BY <1>1, <1>6, <1>7, <1>8, <1>9, <1>10, ProtocolKeeps

(* A small input, close() and cancel() send a message without a pointer. *)
LEMMA ClientSendsPlain ==
    ASSUME IndInv, client.pc = "ready", NEW m \in Messages, m.ptr = NoRegion,
           NEW pc \in {"wait", "draining", "cancelling"},
           c2s' = Append(c2s, m), client' = [client EXCEPT !.pc = pc], Sent(m)',
           pc = "wait" => client.turn <= Len(client.plan),
           UNCHANGED <<count, table, held, op, server, s2c>>
    PROVE  IndInv' /\ Invisible
<1>1. client \in Clients /\ client.plan \in Streams /\ client.turn >= 1
  BY DEF IndInv, WellTyped
<1>2. client' \in Clients /\ client'.pc = pc /\ client'.plan = client.plan /\ client'.turn = client.turn
  BY <1>1 DEF Clients
<1>3. c2s' \in Seq(Messages)
  BY AppendCarries DEF IndInv, WellTyped
<1>4. pc = "wait" => client.turn \in 1..Len(client.plan)
  <2>1. client.turn \in Nat /\ Len(client.plan) \in Nat
    BY <1>1, ExchangeAssumption DEF Clients
  <2> QED  BY <1>1, <2>1
<1>5. WellTyped'
  BY <1>1, <1>2, <1>3, <1>4 DEF IndInv, WellTyped, TypeOK
<1>6. Lockstep'
  BY <1>2, ClientSends
<1>7. OpInv'
  <2>1. op["client"].kind = "none" /\ op["client"].pc = "done"
    BY NoOperation
  <2>2. OpOK("client", op["client"])'
    BY <2>1 DEF OpOK
  <2> QED  BY <2>2, ClientOperation
<1>8. ASSUME NEW r \in Regions  PROVE Live(r)' <=> Live(r)
  <2>1. r.offset # 0 => ((Carries(c2s, r) \/ Carries(s2c, r))' <=> (Carries(c2s, r) \/ Carries(s2c, r)))
    BY PlainSent DEF IndInv
  <2> QED  BY <2>1 DEF Live, Elsewhere, Holding, Region
<1>9. CommittedTable' = CommittedTable
  BY DEF CommittedTable
<1> QED  BY <1>5, <1>6, <1>7, <1>8, <1>9, ProtocolKeeps

(* exchange() and tick() with a small input. *)
LEMMA SendInlineKeeps ==
    ASSUME IndInv, SendInline
    PROVE  IndInv' /\ Invisible
<1>1. /\ client.pc = "ready" /\ client.turn <= Len(client.plan)
      /\ c2s' = Append(c2s, Batch("batch", NoRegion)) /\ client' = [client EXCEPT !.pc = "wait"]
      /\ UNCHANGED <<count, table, held, op, server, s2c>>
  BY DEF SendInline
<1>2. PICK m \in Messages : m = Batch("batch", NoRegion) /\ m.ptr = NoRegion /\ m.kind = "batch"
  BY PlainMessage
<1>3. Sent(m)'
  BY <1>1, <1>2 DEF Sent, IndInv, WellTyped, Clients
<1> QED  BY <1>1, <1>2, <1>3, ClientSendsPlain

(* cancel(). *)
LEMMA CancelKeeps ==
    ASSUME IndInv, Cancel
    PROVE  IndInv' /\ Invisible
<1>1. /\ client.pc = "ready"
      /\ c2s' = Append(c2s, Batch("cancel", NoRegion)) /\ client' = [client EXCEPT !.pc = "cancelling"]
      /\ UNCHANGED <<count, table, held, op, server, s2c>>
  BY DEF Cancel
<1>2. PICK m \in Messages : m = Batch("cancel", NoRegion) /\ m.ptr = NoRegion
  BY PlainMessage
<1>3. Sent(m)'
  BY <1>1, <1>2 DEF Sent, IndInv, WellTyped, Clients, Batch
<1> QED  BY <1>1, <1>2, <1>3, ClientSendsPlain

(* close(), on a call that runs and on one that has ended. *)
LEMMA CloseKeeps ==
    ASSUME IndInv, Close
    PROVE  IndInv' /\ Invisible
<1>1. /\ client.pc \in {"ready", "finished"}
      /\ c2s' = Append(c2s, Batch("eos", NoRegion))
      /\ UNCHANGED <<count, table, held, op, server, s2c>>
      /\ client.pc = "ready" => client' = [client EXCEPT !.pc = "draining"]
      /\ client.pc = "finished" => client' = [client EXCEPT !.pc = "idle"]
  BY DEF Close
<1>2. PICK m \in Messages : m = Batch("eos", NoRegion) /\ m.ptr = NoRegion
  BY PlainMessage
<1>3. CASE client.pc = "ready"
  <2>1. Sent(m)'
    BY <1>1, <1>2, <1>3 DEF Sent, IndInv, WellTyped, Clients, Batch
  <2> QED  BY <1>1, <1>2, <1>3, <2>1, ClientSendsPlain
<1>4. CASE client.pc = "finished"
  <2>1. client' \in Clients /\ client'.pc = "idle" /\ c2s \in Seq(Messages) /\ Written' = 0
    BY <1>1, <1>4 DEF IndInv, WellTyped, Clients, Written
  <2>2. /\ Len(c2s') = Len(c2s) + 1 /\ c2s'[Len(c2s) + 1] = m /\ Len(c2s) \in Nat
        /\ \A i \in 1..Len(c2s) : c2s'[i] = c2s[i]
        /\ c2s' \in Seq(Messages)
    BY <1>1, <1>2, <2>1, AppendCarries
  <2>3. WellTyped'
    BY <1>1, <2>1, <2>2 DEF IndInv, WellTyped, TypeOK
  <2>4. Lockstep'
    <3>1. /\ server.input = NoRegion /\ server.pc = "draining" /\ Len(s2c) = 0
          /\ Len(c2s) = 0 \/ (Len(c2s) = 1 /\ c2s[1] = Batch("batch", NoRegion))
      BY <1>4 DEF IndInv, Lockstep, Behind, Upcoming, Serving, Answering, Ending
    <3>2. PICK n \in 1..2 : n = Len(c2s) + 1
      <4>1. Len(c2s) + 1 \in 1..2
        BY <2>2, <3>1
      <4> QED  BY <4>1
    <3>3. /\ Len(c2s') = n + 0 /\ c2s'[n] = Batch("eos", NoRegion)
          /\ n = 2 => c2s'[1] \in {Batch("batch", NoRegion), Batch("cancel", NoRegion)}
      BY <1>2, <2>2, <3>1, <3>2
    <3>4. Behind'
      BY <1>1, <2>1, <3>1, <3>3 DEF Behind, Batch
    <3> QED  BY <3>4 DEF Lockstep
  <2>5. OpInv'
    <3>1. op["client"].kind = "none" /\ op["client"].pc = "done"
      BY <1>4, NoOperation
    <3>2. OpOK("client", op["client"])'
      BY <1>1, <3>1 DEF OpOK
    <3> QED  BY <1>1, <3>2, ClientOperation
  <2>6. ASSUME NEW r \in Regions  PROVE Live(r)' <=> Live(r)
    <3>1. r.offset # 0 => ((Carries(c2s, r) \/ Carries(s2c, r))' <=> (Carries(c2s, r) \/ Carries(s2c, r)))
      BY <1>1, <1>2, PlainSent DEF IndInv
    <3> QED  BY <1>1, <3>1 DEF Live, Elsewhere, Holding, Region
  <2>7. CommittedTable' = CommittedTable
    BY <1>1 DEF CommittedTable
  <2> QED  BY <1>1, <2>3, <2>4, <2>5, <2>6, <2>7, ProtocolKeeps
<1> QED  BY <1>1, <1>3, <1>4

(* A large input reserves its region first. *)
LEMMA ReserveInputKeeps ==
    ASSUME OneDirection, IndInv, ReserveInput
    PROVE  IndInv' /\ Invisible
<1>1. /\ client.pc = "ready" /\ client.turn <= Len(client.plan) /\ Turn.in > 0
      /\ op' = [op EXCEPT !["client"] = [NoOp EXCEPT !.kind = "alloc", !.pc = "count", !.size = Turn.in]]
      /\ client' = [client EXCEPT !.pc = "allocating"]
      /\ UNCHANGED <<count, table, held, server, c2s, s2c>>
  BY DEF ReserveInput, BeginAlloc, wire
<1>2. client \in Clients /\ client.plan \in Streams /\ client.turn \in 1..Len(client.plan)
  <2>1. client \in Clients /\ client.plan \in Streams /\ client.turn >= 1 /\ client.turn \in Nat
    BY <1>1 DEF IndInv, WellTyped, Clients
  <2>2. Len(client.plan) \in Nat
    BY <2>1, ExchangeAssumption
  <2> QED  BY <1>1, <2>1, <2>2
<1>3. Turn.in \in Nat
  BY <1>2, TurnFacts DEF Turn
<1>4. PICK o \in Ops : /\ o.kind = "alloc" /\ o.pc = "count" /\ o.at = 0 /\ o.size = Turn.in
                       /\ op' = [op EXCEPT !["client"] = o]
  BY <1>1, <1>3, Operations
<1>5. client' \in Clients /\ client'.pc = "allocating" /\ client'.plan = client.plan /\ client'.turn = client.turn
  BY <1>1, <1>2 DEF Clients
<1>6. op' \in [Procs -> Ops] /\ op'["client"] = o /\ op'["server"] = op["server"]
  BY <1>4 DEF IndInv, WellTyped, Procs
<1>7. WellTyped'
  BY <1>1, <1>2, <1>5, <1>6 DEF IndInv, WellTyped, TypeOK, Turn
<1>8. Lockstep'
  <2>1. Written' = Written
    BY <1>1, <1>5 DEF Written
  <2>2. CASE Behind
    BY <1>1, <1>5, <2>1, <2>2 DEF Lockstep, Behind, Sent, Written, Batch
  <2>3. CASE Upcoming
    <3>1. client.turn >= 1 /\ Answered(client.turn - 1) /\ Len(c2s) = Written - 1 /\ Output(0) /\ Written = 1
      BY <1>1, <2>3 DEF Upcoming, Written
    <3>2. Answered(client.turn - 1)' /\ Output(0)'
      BY <1>1, <1>5, <3>1 DEF Answered, Output, Batch
    <3> QED  BY <1>1, <1>5, <2>1, <3>1, <3>2 DEF Lockstep, Upcoming
  <2> QED  BY <1>1, <2>2, <2>3 DEF IndInv, Lockstep, Serving, Answering, Ending
<1>9. OpInv'
  <2>1. OpOK("client", op["client"])'
    BY <1>1, <1>4, <1>5, <1>6 DEF OpOK
  <2> QED  BY <1>1, <1>6, <2>1, ClientOperation
<1>10. op["client"].kind = "none" /\ op["client"].pc = "done"
  BY <1>1, NoOperation
<1>11. ASSUME NEW r \in Regions  PROVE Live(r)' <=> Live(r)
  <2>1. (\E p \in Procs : Holding(op[p], r))' <=> \E p \in Procs : Holding(op[p], r)
    BY <1>4, <1>6, <1>10 DEF Holding, Region, Procs
  <2> QED  BY <1>1, <2>1 DEF Live, Elsewhere, Carries
<1>12. CommittedTable' = CommittedTable
  BY <1>1, <1>4, <1>10, OperationMoves DEF IndInv, Procs
<1> QED  BY <1>1, <1>7, <1>8, <1>9, <1>11, <1>12, ProtocolKeeps

(* The input goes out in the region it got, or inline when there was none. *)
LEMMA SendReservedKeeps ==
    ASSUME OneDirection, IndInv, SendReserved
    PROVE  IndInv' /\ Invisible
<1>1. /\ client.pc = "allocating" /\ op["client"].kind # "none" /\ op["client"].pc = "done"
      /\ c2s' = Append(c2s, Batch("batch", IF op["client"].at = 0 THEN NoRegion ELSE Region(op["client"])))
      /\ op' = [op EXCEPT !["client"] = NoOp]
      /\ client' = [client EXCEPT !.pc = "wait"]
      /\ UNCHANGED <<count, table, held, server, s2c>>
  BY DEF SendReserved, WriteBatch, Done, Region
<1>2. /\ op["client"] \in Ops /\ op["client"].kind = "alloc" /\ c2s \in Seq(Messages)
      /\ client \in Clients /\ client.plan \in Streams /\ client.turn \in 1..Len(client.plan)
      /\ Turn.in > 0
  BY <1>1 DEF IndInv, WellTyped, OpInv, OpOK, Procs, Ops
<1>3. PICK m : m = Batch("batch", IF op["client"].at = 0 THEN NoRegion ELSE Region(op["client"]))
  OBVIOUS
<1>4. m \in Messages /\ m.kind = "batch" /\ m.ptr = IF op["client"].at = 0 THEN NoRegion ELSE Region(op["client"])
  <2>1. Region(op["client"]) \in Regions /\ Region(op["client"]).offset = op["client"].at
    BY <1>2 DEF Ops, Region, Regions
  <2>2. (IF op["client"].at = 0 THEN NoRegion ELSE Region(op["client"])) \in Pointers
    BY <2>1 DEF Pointers
  <2> QED  BY <1>3, <2>2 DEF Batch, Messages
<1>5. client' \in Clients /\ client'.pc = "wait" /\ client'.plan = client.plan /\ client'.turn = client.turn
  BY <1>1, <1>2 DEF Clients
<1>6. op' \in [Procs -> Ops] /\ op'["client"] = NoOp /\ op'["server"] = op["server"]
  BY <1>1, Operations DEF IndInv, WellTyped, Procs
<1>7. c2s' \in Seq(Messages)
  BY <1>1, <1>2, <1>3, <1>4, AppendCarries
<1>8. WellTyped'
  BY <1>1, <1>2, <1>5, <1>6, <1>7 DEF IndInv, WellTyped, TypeOK
<1>9. Lockstep'
  <2>1. Sent(m)'
    BY <1>2, <1>4, <1>5 DEF Sent, Turn
  <2> QED  BY <1>1, <1>3, <1>4, <1>5, <2>1, ClientSends
<1>10. OpInv'
  <2>1. OpOK("client", op["client"])'
    BY <1>6, Operations DEF OpOK
  <2> QED  BY <1>1, <1>6, <2>1, ClientOperation
<1>11. ASSUME NEW r \in Regions  PROVE Live(r)' <=> Live(r)
  <2>1. Carries(c2s, r)' <=> Carries(c2s, r) \/ m.ptr = r
    <3>1. Carries(Append(c2s, m), r) <=> Carries(c2s, r) \/ m.ptr = r
      BY <1>2, <1>4, AppendCarries
    <3> QED  BY <1>1, <1>3, <3>1 DEF Carries
  <2>2. r.offset # 0 => (m.ptr = r <=> Holding(op["client"], r))
    BY <1>1, <1>2, <1>4 DEF Holding, Region, NoRegion
  <2>3. ~Holding(op["client"], r)'
    BY <1>6, Operations DEF Holding
  <2>4. Holding(op["server"], r)' <=> Holding(op["server"], r)
    BY <1>6 DEF Holding, Region
  <2> QED  BY <1>1, <2>1, <2>2, <2>3, <2>4 DEF Live, Elsewhere, Carries, Procs
<1>12. CommittedTable' = CommittedTable
  BY <1>1, Operations, OperationMoves DEF IndInv, Procs
<1> QED  BY <1>1, <1>8, <1>9, <1>10, <1>11, <1>12, ProtocolKeeps

(* read_next_data(): an answer with a pointer is about to be freed. *)
LEMMA ReceivePointerKeeps ==
    ASSUME OneDirection, IndInv, Receive, Head(s2c).kind = "batch", Head(s2c).ptr # NoRegion
    PROVE  IndInv' /\ Invisible
<1>1. /\ client.pc = "wait" /\ s2c # <<>> /\ s2c' = Tail(s2c)
      /\ BeginFree("client", Head(s2c).ptr)
      /\ client' = [client EXCEPT !.pc = "freeing"]
      /\ UNCHANGED <<count, table, held, server, c2s>>
  BY DEF Receive
<1>2. /\ client \in Clients /\ client.plan \in Streams /\ client.turn \in 1..Len(client.plan)
      /\ s2c \in Seq(Messages)
  BY <1>1 DEF IndInv, WellTyped
<1>3. /\ s2c' \in Seq(Messages) /\ Len(s2c') = Len(s2c) - 1 /\ Len(s2c) > 0
      /\ Head(s2c) = s2c[1] /\ s2c[1] \in Messages
      /\ \A i \in 1..(Len(s2c) - 1) : s2c'[i] = s2c[i + 1]
  BY <1>1, <1>2, TailCarries
<1>4. PICK x \in Regions : x = s2c[1].ptr /\ x.offset # 0
  BY <1>3 DEF Messages, Pointers
<1>5. PICK o \in Ops : /\ o.kind = "free" /\ o.pc = "count" /\ o.at = x.offset /\ Region(o) = x
                       /\ op' = [op EXCEPT !["client"] = o]
  <2>1. PICK o : o = [NoOp EXCEPT !.kind = "free", !.pc = "count", !.at = x.offset, !.size = x.length]
    OBVIOUS
  <2>2. o \in Ops /\ o.kind = "free" /\ o.pc = "count" /\ o.at = x.offset /\ Region(o) = x
    BY <2>1, Operations
  <2>3. op' = [op EXCEPT !["client"] = o]
    BY <1>1, <1>3, <1>4, <2>1 DEF BeginFree
  <2> QED  BY <2>2, <2>3
<1>6. client' \in Clients /\ client'.pc = "freeing" /\ client'.plan = client.plan /\ client'.turn = client.turn
  BY <1>1, <1>2 DEF Clients
<1>7. op' \in [Procs -> Ops] /\ op'["client"] = o /\ op'["server"] = op["server"]
  BY <1>5 DEF IndInv, WellTyped, Procs
<1>8. Answering
  BY <1>1, <1>3, PlainMessage
     DEF IndInv, Lockstep, Behind, Upcoming, Serving, Ending, Output
<1>9. Answered(client.turn) /\ Len(c2s) = 0 /\ Output(1) /\ Turn.out > 0
  BY <1>1, <1>3, <1>8 DEF Answering
<1>10. WellTyped'
  BY <1>1, <1>2, <1>3, <1>6, <1>7, <1>9 DEF IndInv, WellTyped, TypeOK, Turn
<1>11. Lockstep'
  <2>1. Answered(client.turn)'
    BY <1>1, <1>6, <1>9 DEF Answered
  <2>2. Output(0)'
    BY <1>1, <1>3, <1>9 DEF Output, Batch
  <2> QED  BY <1>1, <1>6, <1>9, <2>1, <2>2 DEF Lockstep, Answering
<1>12. OpInv'
  <2>1. OpOK("client", op["client"])'
    BY <1>4, <1>5, <1>6, <1>7 DEF OpOK
  <2> QED  BY <1>1, <1>7, <2>1, ClientOperation
<1>13. op["client"].kind = "none" /\ op["client"].pc = "done"
  BY <1>1, NoOperation
<1>14. ASSUME NEW r \in Regions  PROVE Live(r)' <=> Live(r)
  <2>1. Carries(s2c, r) <=> Carries(s2c, r)' \/ r = x
    <3>1. Carries(s2c, r) <=> Carries(Tail(s2c), r) \/ s2c[1].ptr = r
      BY <1>1, <1>2, TailCarries
    <3> QED  BY <1>1, <1>4, <3>1 DEF Carries
  <2>2. Holding(op["client"], r)' <=> r = x
    BY <1>5, <1>7 DEF Holding, Region
  <2>3. ~Holding(op["client"], r)
    BY <1>13 DEF Holding
  <2>4. Holding(op["server"], r)' <=> Holding(op["server"], r)
    BY <1>7 DEF Holding, Region
  <2> QED  BY <1>1, <2>1, <2>2, <2>3, <2>4 DEF Live, Elsewhere, Carries, Procs
<1>15. CommittedTable' = CommittedTable
  BY <1>1, <1>5, <1>13, OperationMoves DEF IndInv, Procs
<1> QED  BY <1>1, <1>10, <1>11, <1>12, <1>14, <1>15, ProtocolKeeps

(* Reading a message without a pointer changes nothing about the regions   *)
(* in use.                                                                 *)
LEMMA PlainRead ==
    ASSUME WellTyped,
           \/ c2s # <<>> /\ c2s[1].ptr = NoRegion /\ c2s' = Tail(c2s) /\ s2c' = s2c
           \/ s2c # <<>> /\ s2c[1].ptr = NoRegion /\ s2c' = Tail(s2c) /\ c2s' = c2s,
           NEW r \in Regions, r.offset # 0
    PROVE  (Carries(c2s, r) \/ Carries(s2c, r))' <=> (Carries(c2s, r) \/ Carries(s2c, r))
<1>1. c2s \in Seq(Messages) /\ s2c \in Seq(Messages) /\ NoRegion # r
  BY DEF WellTyped, NoRegion
<1>2. Carries(c2s, r)' <=> Carries(c2s', r)
  BY DEF Carries
<1>3. Carries(s2c, r)' <=> Carries(s2c', r)
  BY DEF Carries
<1>4. CASE c2s # <<>> /\ c2s[1].ptr = NoRegion /\ c2s' = Tail(c2s) /\ s2c' = s2c
  BY <1>1, <1>2, <1>3, <1>4, TailCarries
<1>5. CASE s2c # <<>> /\ s2c[1].ptr = NoRegion /\ s2c' = Tail(s2c) /\ c2s' = c2s
  BY <1>1, <1>2, <1>3, <1>5, TailCarries
<1> QED  BY <1>4, <1>5

(* The client reads a message without a pointer. *)
LEMMA ClientReadsPlain ==
    ASSUME IndInv, client.pc \notin {"allocating", "freeing"}, s2c # <<>>, s2c[1].ptr = NoRegion,
           s2c' = Tail(s2c), WellTyped', Lockstep', client'.pc \notin {"allocating", "freeing"},
           UNCHANGED <<count, table, held, op, server, c2s>>
    PROVE  IndInv' /\ Invisible
<1>1. op["client"].kind = "none" /\ op["client"].pc = "done"
  BY NoOperation
<1>2. OpInv'
  <2>1. OpOK("client", op["client"])'
    BY <1>1 DEF OpOK
  <2> QED  BY <2>1, ClientOperation
<1>3. ASSUME NEW r \in Regions  PROVE Live(r)' <=> Live(r)
  <2>1. r.offset # 0 => ((Carries(c2s, r) \/ Carries(s2c, r))' <=> (Carries(c2s, r) \/ Carries(s2c, r)))
    BY PlainRead DEF IndInv
  <2> QED  BY <2>1 DEF Live, Elsewhere, Holding, Region
<1>4. CommittedTable' = CommittedTable
  BY DEF CommittedTable
<1> QED  BY <1>2, <1>3, <1>4, ProtocolKeeps

(* The client goes on to its next turn. *)
LEMMA TurnOver ==
    ASSUME NEW c \in Clients, NEW d, d = [c EXCEPT !.pc = "ready", !.turn = c.turn + 1]
    PROVE  /\ d \in Clients /\ d.pc = "ready" /\ d.plan = c.plan
           /\ d.turn = c.turn + 1 /\ d.turn >= 1 /\ d.turn - 1 = c.turn
<1>1. c.turn + 1 \in Nat /\ c.turn + 1 >= 1 /\ (c.turn + 1) - 1 = c.turn
  BY DEF Clients
<1>2. PICK n \in Nat : n = c.turn + 1
  BY <1>1
<1>3. d \in Clients /\ d.pc = "ready" /\ d.plan = c.plan /\ d.turn = n
  BY <1>2 DEF Clients
<1> QED  BY <1>1, <1>2, <1>3

(* An inline answer ends the turn, and the end of the output the call. *)
LEMMA ReceiveKeeps ==
    ASSUME OneDirection, IndInv, Receive
    PROVE  IndInv' /\ Invisible
<1>1. /\ client.pc = "wait" /\ s2c # <<>> /\ s2c' = Tail(s2c)
      /\ UNCHANGED <<count, table, held, server, c2s>>
  BY DEF Receive
<1>2. /\ client \in Clients /\ client.plan \in Streams /\ client.turn \in 1..Len(client.plan)
      /\ s2c \in Seq(Messages) /\ c2s \in Seq(Messages) /\ Written = 2 /\ client.turn \in Nat
  BY <1>1 DEF IndInv, WellTyped, Written, Clients
<1>3. /\ s2c' \in Seq(Messages) /\ Len(s2c') = Len(s2c) - 1 /\ Len(s2c) > 0
      /\ Head(s2c) = s2c[1] /\ s2c[1] \in Messages /\ Len(s2c) \in Nat
      /\ \A i \in 1..(Len(s2c) - 1) : s2c'[i] = s2c[i + 1]
  BY <1>1, <1>2, TailCarries
<1>4. CASE Answering
  <2>1. Answered(client.turn) /\ Len(c2s) = 0 /\ Output(1) /\ s2c[1].kind = "batch"
    BY <1>1, <1>4 DEF Answering
  <2>2. CASE s2c[1].ptr # NoRegion
    BY <1>3, <2>1, <2>2, ReceivePointerKeeps
  <2>3. CASE s2c[1].ptr = NoRegion
    <3>1. client' = [client EXCEPT !.pc = "ready", !.turn = client.turn + 1] /\ op' = op
      BY <1>3, <2>1, <2>3 DEF Receive
    <3>2. /\ client' \in Clients /\ client'.pc = "ready" /\ client'.plan = client.plan
          /\ client'.turn = client.turn + 1 /\ client'.turn >= 1 /\ client'.turn - 1 = client.turn
      BY <1>2, <3>1, TurnOver
    <3>3. WellTyped'
      BY <1>1, <1>2, <1>3, <3>1, <3>2 DEF IndInv, WellTyped, TypeOK
    <3>4. Answered(client.turn - 1)'
      <4>1. PICK t \in Nat : t = client.turn
        BY <1>2
      <4>2. Answered(t) /\ client'.turn - 1 = t
        BY <2>1, <3>2, <4>1
      <4>3. Answered(t)'
        BY <1>1, <3>2, <4>2 DEF Answered
      <4> QED  BY <4>2, <4>3 DEF Answered
    <3>5. Output(0)'
      BY <1>1, <1>3, <2>1 DEF Output, Batch
    <3>6. Lockstep'
      <4>1. Written' = 1
        BY <3>2 DEF Written
      <4> QED  BY <1>1, <2>1, <3>2, <3>4, <3>5, <4>1 DEF Lockstep, Upcoming
    <3> QED  BY <1>1, <2>3, <3>1, <3>2, <3>3, <3>6, ClientReadsPlain
  <2> QED  BY <2>2, <2>3
<1>5. CASE ~Answering
  <2>1. /\ s2c[1] = Batch("eos", NoRegion) /\ Len(s2c) = 1 /\ server.pc = "draining" /\ server.input = NoRegion
        /\ Len(c2s) = 0 \/ (Len(c2s) = 1 /\ c2s[1] = Batch("batch", NoRegion))
    <3>1. CASE Ending
      <4>1. /\ server.input = NoRegion /\ Len(c2s) = 0 /\ Output(0)
        BY <1>1, <3>1 DEF Ending
      <4>2. Len(s2c) # 0
        BY <1>3
      <4> QED  BY <4>1, <4>2 DEF Output
    <3>2. CASE Upcoming
      <4>1. /\ Answered(client.turn - 1) /\ Len(c2s) = 1 /\ Sent(c2s[1])
            /\ server.pc = "draining" /\ Len(s2c) = 1 /\ s2c[1] = Batch("eos", NoRegion)
        BY <1>1, <1>2, <1>3, <3>2 DEF Upcoming, Output
      <4>2. server.input = NoRegion /\ server.then = "finish"
        BY <4>1 DEF Answered
      <4>3. client.turn - 1 \in 1..Len(client.plan) /\ client.plan[client.turn - 1].then = "finish"
        BY <1>2, <4>1, <4>2 DEF Answered
      <4>4. ~(Turn.in > 0)
        BY <1>2, <4>3, TurnFacts DEF Turn
      <4>5. c2s[1].kind = "batch" /\ c2s[1].ptr = NoRegion /\ c2s[1] \in Messages
        BY <1>1, <1>2, <4>1, <4>4 DEF Sent
      <4> QED  BY <4>1, <4>2, <4>5, MessageIs
    <3> QED  BY <1>1, <1>3, <1>5, <3>1, <3>2 DEF IndInv, Lockstep, Behind, Serving
  <2>2. s2c[1].kind = "eos" /\ s2c[1].ptr = NoRegion
    BY <2>1, PlainMessage
  <2>3. client' = [client EXCEPT !.pc = "finished"] /\ op' = op
    BY <1>3, <2>2 DEF Receive
  <2>4. client' \in Clients /\ client'.pc = "finished" /\ client'.plan = client.plan
    BY <1>2, <2>3 DEF Clients
  <2>5. WellTyped'
    BY <1>1, <1>2, <1>3, <2>3, <2>4 DEF IndInv, WellTyped, TypeOK
  <2>6. Lockstep'
    BY <1>1, <1>3, <2>1, <2>4 DEF Lockstep, Ending, Batch
  <2> QED  BY <1>1, <2>2, <2>3, <2>4, <2>5, <2>6, ClientReadsPlain
<1> QED  BY <1>4, <1>5

(* The region of an answer is freed before the caller gets the batch. *)
LEMMA FreedKeeps ==
    ASSUME OneDirection, IndInv, Freed
    PROVE  IndInv' /\ Invisible
<1>1. /\ client.pc = "freeing" /\ op["client"].kind # "none" /\ op["client"].pc = "done"
      /\ op' = [op EXCEPT !["client"] = NoOp]
      /\ client' = [client EXCEPT !.pc = "ready", !.turn = client.turn + 1]
      /\ UNCHANGED <<count, table, held, server, c2s, s2c>>
  BY DEF Freed, Done, wire
<1>2. /\ op["client"] \in Ops /\ op["client"].kind = "free"
      /\ client \in Clients /\ client.plan \in Streams /\ client.turn \in Nat
  <2>1. op["client"] \in Ops /\ OpOK("client", op["client"])
    BY DEF IndInv, WellTyped, OpInv, Procs
  <2>2. op["client"].kind = "free"
    BY <1>1, <2>1 DEF OpOK, Ops
  <2>3. client \in Clients /\ client.plan \in Streams
    BY <1>1 DEF IndInv, WellTyped
  <2> QED  BY <2>1, <2>2, <2>3 DEF Clients
<1>3. /\ client' \in Clients /\ client'.pc = "ready" /\ client'.plan = client.plan
      /\ client'.turn = client.turn + 1 /\ client'.turn >= 1 /\ client'.turn - 1 = client.turn
  BY <1>1, <1>2, TurnOver
<1>4. op' \in [Procs -> Ops] /\ op'["client"] = NoOp /\ op'["server"] = op["server"]
  BY <1>1, Operations DEF IndInv, WellTyped, Procs
<1>5. WellTyped'
  BY <1>1, <1>2, <1>3, <1>4 DEF IndInv, WellTyped, TypeOK
<1>6. Lockstep'
  <2>1. Answered(client.turn) /\ Len(c2s) = 0 /\ Output(0)
    BY <1>1 DEF IndInv, Lockstep, Behind, Upcoming, Serving, Answering, Ending
  <2>2. Answered(client.turn - 1)'
    <3>1. PICK t \in Nat : t = client.turn
      BY <1>2
    <3>2. Answered(t) /\ client'.turn - 1 = t
      BY <1>3, <2>1, <3>1
    <3>3. Answered(t)'
      BY <1>1, <1>3, <3>2 DEF Answered
    <3> QED  BY <3>2, <3>3 DEF Answered
  <2>3. Output(0)' /\ Written' = 1
    BY <1>1, <1>3, <2>1 DEF Output, Batch, Written
  <2> QED  BY <1>1, <1>3, <2>1, <2>2, <2>3 DEF Lockstep, Upcoming
<1>7. OpInv'
  <2>1. OpOK("client", op["client"])'
    BY <1>4, Operations DEF OpOK
  <2> QED  BY <1>1, <1>4, <2>1, ClientOperation
<1>8. ASSUME NEW r \in Regions  PROVE Live(r)' <=> Live(r)
  <2>1. ~Holding(op["client"], r) /\ ~Holding(op["client"], r)'
    BY <1>1, <1>2, <1>4, Operations DEF Holding
  <2>2. Holding(op["server"], r)' <=> Holding(op["server"], r)
    BY <1>4 DEF Holding, Region
  <2> QED  BY <1>1, <2>1, <2>2 DEF Live, Elsewhere, Carries, Procs
<1>9. CommittedTable' = CommittedTable
  BY <1>1, Operations, OperationMoves DEF IndInv, Procs
<1> QED  BY <1>1, <1>5, <1>6, <1>7, <1>8, <1>9, ProtocolKeeps

(* drain_output(), up to the end of the output. *)
LEMMA DrainKeeps ==
    ASSUME IndInv, Drain
    PROVE  IndInv' /\ Invisible
<1>1. /\ client.pc \in {"draining", "cancelling"} /\ s2c # <<>> /\ s2c' = Tail(s2c)
      /\ client.pc = "cancelling" => c2s' = Append(c2s, Batch("eos", NoRegion))
      /\ client.pc = "draining" => c2s' = c2s
      /\ client' = [client EXCEPT !.pc = "idle"]
      /\ UNCHANGED <<count, table, held, op, server>>
  BY DEF Drain
<1>2. client \in Clients /\ client.plan \in Streams /\ s2c \in Seq(Messages) /\ c2s \in Seq(Messages) /\ Written = 2
  BY <1>1 DEF IndInv, WellTyped, Written
<1>3. /\ s2c' \in Seq(Messages) /\ Len(s2c') = Len(s2c) - 1 /\ Len(s2c) > 0
      /\ \A r : Carries(s2c, r) <=> Carries(s2c', r) \/ s2c[1].ptr = r
  BY <1>1, <1>2, TailCarries
<1>4. PICK m \in Messages : m = Batch("eos", NoRegion) /\ m.ptr = NoRegion
  BY PlainMessage
<1>5. ASSUME client.pc = "cancelling"
      PROVE  /\ c2s' \in Seq(Messages) /\ Len(c2s') = Len(c2s) + 1 /\ c2s'[Len(c2s) + 1] = m
             /\ \A i \in 1..Len(c2s) : c2s'[i] = c2s[i]
             /\ \A r : Carries(c2s', r) <=> Carries(c2s, r) \/ m.ptr = r
  <2>1. c2s' = Append(c2s, m)
    BY <1>1, <1>4, <1>5
  <2> QED  BY <1>2, <2>1, AppendCarries
<1>6. client' \in Clients /\ client'.pc = "idle" /\ Written' = 0
  BY <1>1, <1>2 DEF Clients, Written
<1>7. WellTyped'
  BY <1>1, <1>2, <1>3, <1>5, <1>6 DEF IndInv, WellTyped, TypeOK
<1>8. /\ Len(s2c) = 1 /\ s2c[1] = Batch("eos", NoRegion) /\ server.input = NoRegion
      /\ \/ server.pc = "draining" /\ Len(c2s) = 1 /\ client.pc = "draining" /\ c2s[1] = Batch("eos", NoRegion)
         \/ server.pc = "draining" /\ Len(c2s) = 1 /\ client.pc = "cancelling" /\ c2s[1] = Batch("cancel", NoRegion)
         \/ server.pc = "draining" /\ Len(c2s) = 0 /\ client.pc = "cancelling"
         \/ server.pc = "idle" /\ Len(c2s) = 0 /\ client.pc = "draining"
  <2>1. CASE Upcoming
    <3>1. Answered(client.turn - 1) /\ Len(c2s) = 1 /\ Sent(c2s[1]) /\ Output(0)
      BY <1>2, <2>1 DEF Upcoming
    <3>2. server.pc = "draining" /\ Len(s2c) = 1 /\ s2c[1] = Batch("eos", NoRegion)
      BY <1>3, <3>1 DEF Output
    <3>3. server.input = NoRegion
      BY <3>1, <3>2 DEF Answered
    <3> QED  BY <1>1, <3>1, <3>2, <3>3 DEF Sent
  <2>2. CASE Ending
    BY <1>1, <1>3, <2>2 DEF Ending, Output
  <2> QED  BY <1>1, <1>3, <2>1, <2>2 DEF IndInv, Lockstep, Behind, Serving, Answering
<1>9. Lockstep'
  <2>1. PICK n \in 0..2 :
          /\ Len(c2s') = n + 0
          /\ IF n = 0 THEN server.pc = "idle"
             ELSE server.pc = "draining" /\ c2s'[n] = Batch("eos", NoRegion)
          /\ n = 2 => c2s'[1] = Batch("cancel", NoRegion)
    <3>1. CASE Len(c2s) = 1 /\ client.pc = "cancelling"
      BY <1>4, <1>5, <1>8, <3>1
    <3>2. CASE Len(c2s) = 0 /\ client.pc = "cancelling"
      BY <1>4, <1>5, <1>8, <3>2
    <3>3. CASE client.pc = "draining"
      BY <1>1, <1>8, <3>3
    <3> QED  BY <1>8, <3>1, <3>2, <3>3
  <2>2. Behind'
    BY <1>1, <1>3, <1>6, <1>8, <2>1 DEF Behind, Batch
  <2> QED  BY <2>2 DEF Lockstep
<1>10. OpInv'
  <2>1. op["client"].kind = "none" /\ op["client"].pc = "done"
    BY <1>1, NoOperation
  <2>2. OpOK("client", op["client"])'
    BY <1>1, <2>1 DEF OpOK
  <2> QED  BY <1>1, <2>2, ClientOperation
<1>11. ASSUME NEW r \in Regions  PROVE Live(r)' <=> Live(r)
  <2>1. r.offset # 0 => s2c[1].ptr # r /\ m.ptr # r
    BY <1>4, <1>8, PlainMessage
  <2>2. r.offset # 0 => (Carries(s2c', r) <=> Carries(s2c, r))
    BY <1>3, <2>1
  <2>3. r.offset # 0 => (Carries(c2s', r) <=> Carries(c2s, r))
    BY <1>1, <1>5, <2>1
  <2>4. (Carries(s2c, r)' <=> Carries(s2c', r)) /\ (Carries(c2s, r)' <=> Carries(c2s', r))
    BY DEF Carries
  <2> QED  BY <1>1, <2>2, <2>3, <2>4 DEF Live, Elsewhere, Holding, Region
<1>12. CommittedTable' = CommittedTable
  BY <1>1 DEF CommittedTable
<1> QED  BY <1>1, <1>7, <1>9, <1>10, <1>11, <1>12, ProtocolKeeps

-----------------------------------------------------------------------------
(* The server. *)

(* A step of the server that is none on the header. *)
LEMMA ServerSteps ==
    ASSUME IndInv, WellTyped', Lockstep', UNCHANGED <<count, table, held, op, client>>,
           server.pc \notin {"allocating", "freeing"}, server'.pc \notin {"allocating", "freeing"},
           \A r \in Regions : r.offset # 0 => (Elsewhere(r)' <=> Elsewhere(r))
    PROVE  IndInv' /\ Invisible
<1>1. op["server"].kind = "none" /\ op["server"].pc = "done"
  BY NoOperation
<1>2. OpInv'
  <2>1. OpOK("server", op["server"])'
    BY <1>1 DEF OpOK
  <2> QED  BY <2>1, ServerOperation
<1>3. ASSUME NEW r \in Regions  PROVE Live(r)' <=> Live(r)
  BY DEF Live, Holding, Region
<1>4. CommittedTable' = CommittedTable
  BY DEF CommittedTable
<1> QED  BY <1>2, <1>3, <1>4, ProtocolKeeps

(* The request is read. *)
LEMMA ServeRequestKeeps ==
    ASSUME IndInv, ServeRequest
    PROVE  IndInv' /\ Invisible
<1>1. /\ server.pc = "idle" /\ c2s # <<>> /\ c2s' = Tail(c2s)
      /\ server' = [pc |-> "read", turn |-> 0, input |-> NoRegion, then |-> "go"]
      /\ UNCHANGED <<count, table, held, op, client, s2c>>
  BY DEF ServeRequest
<1>2. c2s \in Seq(Messages) /\ client \in Clients
  BY DEF IndInv, WellTyped
<1>3. /\ c2s' \in Seq(Messages) /\ Len(c2s') = Len(c2s) - 1 /\ Len(c2s) > 0
      /\ \A i \in 1..(Len(c2s) - 1) : c2s'[i] = c2s[i + 1]
  BY <1>1, <1>2, TailCarries
<1>4. server' \in Servers
  BY <1>1 DEF Servers, Pointers
<1>5. WellTyped'
  BY <1>1, <1>3, <1>4 DEF IndInv, WellTyped, TypeOK, Turn
<1>6. Behind
  BY <1>1, <1>3 DEF IndInv, Lockstep, Upcoming, Serving, Answering, Ending, Answered
<1>7. /\ Len(c2s) = Written /\ c2s[1] = Batch("request", NoRegion)
      /\ Written > 1 => Sent(c2s[2])
      /\ Written \in 1..2 /\ client.turn = 1 /\ server.input = NoRegion /\ Len(s2c) = 0
      /\ client.pc \in {"ready", "allocating", "wait", "draining", "cancelling"}
  <2>1. Len(c2s) = Written /\ (Written > 0 => c2s[1] = Batch("request", NoRegion)) /\ (Written > 1 => Sent(c2s[2]))
    <3>1. PICK n \in 0..2 :
            /\ n # 0 => server.pc = "draining"
            /\ Len(c2s) = n + Written
            /\ Written > 0 => c2s[n + 1] = Batch("request", NoRegion)
            /\ Written > 1 => Sent(c2s[n + 2])
      BY <1>6 DEF Behind
    <3>2. n = 0 /\ Written \in Nat
      BY <1>1, <3>1 DEF Written
    <3> QED  BY <3>1, <3>2
  <2>2. Written \in 1..2
    BY <1>3, <2>1 DEF Written
  <2> QED  BY <1>6, <2>1, <2>2 DEF Behind, Written
<1>8. Lockstep'
  <2>1. Answered(0)' /\ Output(0)'
    BY <1>1, <1>7 DEF Answered, Output
  <2>2. Written' = Written
    BY <1>1 DEF Written
  <2>3. Written > 1 => Sent(c2s[1])'
    BY <1>1, <1>3, <1>7 DEF Sent, Turn
  <2>4. client'.turn - 1 = 0 /\ Answered(client.turn - 1)'
    BY <1>1, <1>7, <2>1 DEF Answered
  <2> QED  BY <1>1, <1>3, <1>7, <2>1, <2>2, <2>3, <2>4 DEF Lockstep, Upcoming
<1>9. ASSUME NEW r \in Regions, r.offset # 0  PROVE Elsewhere(r)' <=> Elsewhere(r)
  <2>1. (Carries(c2s, r) \/ Carries(s2c, r))' <=> (Carries(c2s, r) \/ Carries(s2c, r))
    BY <1>1, <1>7, <1>9, PlainRead, PlainMessage DEF IndInv
  <2> QED  BY <1>1, <1>7, <2>1 DEF Elsewhere
<1> QED  BY <1>1, <1>5, <1>8, <1>9, ServerSteps

(* ReadNext: the input of the turn, or the end of the input. *)
LEMMA ReadInputKeeps ==
    ASSUME IndInv, ReadInput
    PROVE  IndInv' /\ Invisible
<1>1. /\ server.pc = "read" /\ c2s # <<>> /\ c2s' = Tail(c2s)
      /\ server' = IF Head(c2s).kind = "batch"
                     THEN [server EXCEPT !.pc = "process", !.turn = @ + 1, !.input = Head(c2s).ptr]
                   ELSE IF Head(c2s).kind = "eos" THEN [server EXCEPT !.pc = "closing", !.then = "ended"]
                   ELSE [server EXCEPT !.pc = "closing"]
      /\ UNCHANGED <<count, table, held, op, client, s2c>>
  BY DEF ReadInput
<1>2. c2s \in Seq(Messages) /\ client \in Clients /\ server \in Servers
  BY DEF IndInv, WellTyped
<1>3. /\ c2s' \in Seq(Messages) /\ Len(c2s') = Len(c2s) - 1 /\ Len(c2s) > 0
      /\ Head(c2s) = c2s[1] /\ c2s[1] \in Messages /\ Len(c2s) \in Nat
      /\ \A r : Carries(c2s, r) <=> Carries(c2s', r) \/ c2s[1].ptr = r
  BY <1>1, <1>2, TailCarries
<1>4. Upcoming
  BY <1>1, <1>3 DEF IndInv, Lockstep, Behind, Serving, Answering, Ending
<1>5. /\ Answered(client.turn - 1) /\ Len(c2s) = 1 /\ Sent(c2s[1]) /\ Len(s2c) = 0
      /\ client.turn \in Nat /\ client.turn >= 1
      /\ server.input = NoRegion /\ server.then = "go" /\ server.turn = client.turn - 1
  <2>1. /\ Answered(client.turn - 1) /\ Len(c2s) = Written - 1 /\ (Written > 1 => Sent(c2s[1])) /\ Output(0)
        /\ client.turn >= 1
    BY <1>4 DEF Upcoming
  <2>2. Written = 2
    BY <1>3, <2>1 DEF Written
  <2> QED  BY <1>1, <1>2, <2>1, <2>2 DEF Output, Answered, Clients
<1>6. PICK x \in Pointers : x = c2s[1].ptr
  BY <1>3 DEF Messages
<1>7. CASE c2s[1].kind = "batch"
  <2>1. client.pc = "wait" /\ (x # NoRegion => Turn.in > 0)
    BY <1>5, <1>6, <1>7, PlainMessage DEF Sent
  <2>2. PICK n \in Nat : n = server.turn + 1
    BY <1>2 DEF Servers
  <2>3. server' = [[[server EXCEPT !.pc = "process"] EXCEPT !.turn = n] EXCEPT !.input = x]
    BY <1>1, <1>2, <1>3, <1>6, <1>7, <2>2 DEF Servers
  <2>4. /\ server' \in Servers /\ server'.pc = "process" /\ server'.turn = n /\ server'.input = x
        /\ server'.then = "go"
    BY <1>2, <1>5, <2>3 DEF Servers
  <2>5. n = client.turn
    BY <1>5, <2>2
  <2>6. WellTyped'
    BY <1>1, <1>3, <2>4 DEF IndInv, WellTyped, TypeOK, Turn
  <2>7. Lockstep'
    BY <1>1, <1>3, <1>5, <2>1, <2>4, <2>5 DEF Lockstep, Serving, Turn
  <2>8. ASSUME NEW r \in Regions, r.offset # 0  PROVE Elsewhere(r)' <=> Elsewhere(r)
    <3>1. r # NoRegion
      BY <2>8 DEF NoRegion
    <3>2. Carries(c2s, r) <=> Carries(c2s, r)' \/ x = r
      BY <1>3, <1>6 DEF Carries
    <3> QED  BY <1>1, <1>5, <2>4, <3>1, <3>2 DEF Elsewhere, Carries
  <2> QED  BY <1>1, <2>4, <2>6, <2>7, <2>8, ServerSteps
<1>8. CASE c2s[1].kind # "batch"
  <2>1. /\ c2s[1].ptr = NoRegion
        /\ \/ client.pc = "draining" /\ c2s[1].kind = "eos"
           \/ client.pc = "cancelling" /\ c2s[1].kind = "cancel"
    BY <1>5, <1>8, PlainMessage DEF Sent
  <2>2. /\ server' \in Servers /\ server'.pc = "closing" /\ server'.input = NoRegion
        /\ server'.then = IF client.pc = "draining" THEN "ended" ELSE "go"
    <3>1. CASE client.pc = "draining"
      <4>1. server' = [[server EXCEPT !.pc = "closing"] EXCEPT !.then = "ended"]
        BY <1>1, <1>2, <1>3, <2>1, <3>1 DEF Servers
      <4> QED  BY <1>2, <1>5, <3>1, <4>1 DEF Servers
    <3>2. CASE client.pc = "cancelling"
      <4>1. server' = [server EXCEPT !.pc = "closing"]
        BY <1>1, <1>3, <2>1, <3>2
      <4> QED  BY <1>2, <1>5, <3>2, <4>1 DEF Servers
    <3> QED  BY <2>1, <3>1, <3>2
  <2>3. WellTyped'
    BY <1>1, <1>3, <2>2 DEF IndInv, WellTyped, TypeOK, Turn
  <2>4. Lockstep'
    BY <1>1, <1>3, <1>5, <2>1, <2>2 DEF Lockstep, Ending, Output
  <2>5. ASSUME NEW r \in Regions, r.offset # 0  PROVE Elsewhere(r)' <=> Elsewhere(r)
    <3>1. (Carries(c2s, r) \/ Carries(s2c, r))' <=> (Carries(c2s, r) \/ Carries(s2c, r))
      BY <1>1, <2>1, <2>5, PlainRead DEF IndInv
    <3> QED  BY <1>1, <1>5, <2>2, <3>1 DEF Elsewhere
  <2> QED  BY <1>1, <2>2, <2>3, <2>4, <2>5, ServerSteps
<1> QED  BY <1>7, <1>8

(* Where the server is while it works on a turn. *)
LEMMA InTurn ==
    ASSUME OneDirection, IndInv, server.pc \in {"process", "allocating"}
    PROVE  /\ Serving /\ Served = Turn /\ client.plan \in Streams /\ client.turn \in 1..Len(client.plan)
           /\ Turn.in \in Nat /\ Turn.out \in Nat /\ Turn.then \in {"go", "finish", "raise"}
           /\ Turn.in > 0 => Turn.out = 0 /\ Turn.then = "go"
<1>1. Serving
  BY DEF IndInv, Lockstep, Behind, Upcoming, Answering, Ending, Answered
<1>2. client.plan \in Streams /\ client.turn \in 1..Len(client.plan) /\ Served = Turn
  BY <1>1 DEF Serving, Served, Turn, IndInv, WellTyped
<1> QED  BY <1>1, <1>2, TurnFacts DEF Turn

(* process() or the coercion before it raised. *)
LEMMA ProcessRaisesKeeps ==
    ASSUME OneDirection, IndInv, ProcessRaises
    PROVE  IndInv' /\ Invisible
<1>1. /\ server.pc = "process" /\ Served.then = "raise"
      /\ server' = [server EXCEPT !.pc = "closing", !.input = NoRegion]
      /\ UNCHANGED <<count, table, held, op, client, c2s, s2c>>
  BY DEF ProcessRaises, wire
<1>2. Serving /\ Turn.then = "raise" /\ ~(Turn.in > 0)
  BY <1>1, InTurn
<1>3. /\ client.pc = "wait" /\ Len(c2s) = 0 /\ Len(s2c) = 0 /\ server.input = NoRegion /\ server.then = "go"
  BY <1>1, <1>2 DEF Serving
<1>4. /\ server' \in Servers /\ server'.pc = "closing" /\ server'.input = NoRegion /\ server'.then = "go"
  <2>1. server' = [[server EXCEPT !.pc = "closing"] EXCEPT !.input = NoRegion]
    BY <1>1 DEF IndInv, WellTyped, Servers
  <2> QED  BY <1>3, <2>1 DEF IndInv, WellTyped, Servers, Pointers
<1>5. WellTyped'
  BY <1>1, <1>4 DEF IndInv, WellTyped, TypeOK, Turn
<1>6. Lockstep'
  BY <1>1, <1>3, <1>4 DEF Lockstep, Ending, Output
<1>7. ASSUME NEW r \in Regions, r.offset # 0  PROVE Elsewhere(r)' <=> Elsewhere(r)
  BY <1>1, <1>3, <1>4 DEF Elsewhere, Carries
<1> QED  BY <1>1, <1>4, <1>5, <1>6, <1>7, ServerSteps

(* process() returned: a small answer is written at once, a large one      *)
(* reserves its region first.                                              *)
LEMMA ProcessKeeps ==
    ASSUME OneDirection, IndInv, Process
    PROVE  IndInv' /\ Invisible
<1>1. /\ server.pc = "process" /\ Served.then # "raise"
      /\ UNCHANGED <<count, table, held, client, c2s>>
  BY DEF Process
<1>2. /\ Serving /\ Served = Turn /\ client.plan \in Streams /\ client.turn \in 1..Len(client.plan)
      /\ Turn.out \in Nat /\ Turn.then \in {"go", "finish"}
      /\ Turn.in > 0 => Turn.out = 0
  BY <1>1, InTurn
<1>3. /\ client.pc = "wait" /\ server.turn = client.turn /\ Len(c2s) = 0 /\ Len(s2c) = 0
      /\ server.input # NoRegion => Turn.in > 0
  BY <1>1, <1>2 DEF Serving
<1>4. server \in Servers /\ s2c \in Seq(Messages)
  BY DEF IndInv, WellTyped
<1>5. PICK e \in {"go", "finish"} : e = Turn.then
  BY <1>2
<1>6. CASE Turn.out = 0
  <2>1. /\ s2c' = Append(s2c, Batch("batch", NoRegion)) /\ op' = op
        /\ server' = [server EXCEPT !.pc = "flushed", !.then = e]
    BY <1>2, <1>5, <1>6 DEF Process
  <2>2. PICK m \in Messages : m = Batch("batch", NoRegion) /\ m.ptr = NoRegion /\ m.kind = "batch"
    BY PlainMessage
  <2>3. s2c' \in Seq(Messages) /\ Len(s2c') = 1 /\ s2c'[1] = m
    BY <1>3, <1>4, <2>1, <2>2, AppendCarries
  <2>4. /\ server' \in Servers /\ server'.pc = "flushed" /\ server'.input = server.input
        /\ server'.then = e /\ server'.turn = server.turn
    <3>1. server' = [[server EXCEPT !.pc = "flushed"] EXCEPT !.then = e]
      BY <1>4, <2>1 DEF Servers
    <3> QED  BY <1>4, <3>1 DEF Servers
  <2>5. WellTyped'
    BY <1>1, <2>1, <2>3, <2>4 DEF IndInv, WellTyped, TypeOK, Turn
  <2>6. Lockstep'
    <3>1. Answered(client.turn)'
      BY <1>1, <1>2, <1>3, <1>5, <2>4 DEF Answered, Turn
    <3>2. Output(1)'
      BY <2>3, <2>4 DEF Output
    <3> QED  BY <1>1, <1>3, <2>2, <2>3, <3>1, <3>2 DEF Lockstep, Answering
  <2>7. ASSUME NEW r \in Regions, r.offset # 0  PROVE Elsewhere(r)' <=> Elsewhere(r)
    <3>1. (Carries(c2s, r) \/ Carries(s2c, r))' <=> (Carries(c2s, r) \/ Carries(s2c, r))
      BY <1>1, <2>1, <2>2, <2>7, PlainSent DEF IndInv
    <3> QED  BY <1>1, <2>4, <3>1 DEF Elsewhere
  <2> QED  BY <1>1, <2>1, <2>4, <2>5, <2>6, <2>7, ServerSteps
<1>7. CASE Turn.out # 0
  <2>1. /\ BeginAlloc("server", Turn.out) /\ s2c' = s2c
        /\ server' = [server EXCEPT !.pc = "allocating", !.then = e]
    BY <1>2, <1>5, <1>7 DEF Process
  <2>2. Turn.out > 0 /\ server.input = NoRegion
    BY <1>2, <1>3, <1>7
  <2>3. PICK o \in Ops : /\ o.kind = "alloc" /\ o.pc = "count" /\ o.at = 0 /\ o.size = Turn.out
                         /\ op' = [op EXCEPT !["server"] = o]
    BY <1>2, <2>1, Operations DEF BeginAlloc
  <2>4. op' \in [Procs -> Ops] /\ op'["server"] = o /\ op'["client"] = op["client"]
    BY <2>3 DEF IndInv, WellTyped, Procs
  <2>5. /\ server' \in Servers /\ server'.pc = "allocating" /\ server'.input = NoRegion
        /\ server'.then = e /\ server'.turn = server.turn
    <3>1. server' = [[server EXCEPT !.pc = "allocating"] EXCEPT !.then = e]
      BY <1>4, <2>1 DEF Servers
    <3> QED  BY <1>4, <2>2, <3>1 DEF Servers
  <2>6. WellTyped'
    BY <1>1, <2>1, <2>4, <2>5 DEF IndInv, WellTyped, TypeOK, Turn
  <2>7. Lockstep'
    BY <1>1, <1>3, <1>5, <2>1, <2>2, <2>5 DEF Lockstep, Serving, Turn
  <2>8. OpInv'
    <3>1. OpOK("server", op["server"])'
      BY <2>2, <2>3, <2>4, <2>5 DEF OpOK
    <3> QED  BY <1>1, <2>4, <3>1, ServerOperation
  <2>9. op["server"].kind = "none" /\ op["server"].pc = "done"
    BY <1>1, NoOperation
  <2>10. ASSUME NEW r \in Regions  PROVE Live(r)' <=> Live(r)
    <3>1. ~Holding(op["server"], r) /\ ~Holding(op["server"], r)'
      BY <2>3, <2>4, <2>9 DEF Holding
    <3>2. Holding(op["client"], r)' <=> Holding(op["client"], r)
      BY <2>4 DEF Holding, Region
    <3>3. r.offset # 0 => (Elsewhere(r)' <=> Elsewhere(r))
      BY <1>1, <2>1, <2>2, <2>5, PlainMessage DEF Elsewhere, Carries
    <3> QED  BY <3>1, <3>2, <3>3 DEF Live, Procs
  <2>11. CommittedTable' = CommittedTable
    BY <1>1, <2>3, <2>9, OperationMoves DEF IndInv, Procs
  <2> QED  BY <1>1, <2>6, <2>7, <2>8, <2>10, <2>11, ProtocolKeeps
<1> QED  BY <1>6, <1>7

(* The answer goes out in the region it got, or inline. *)
LEMMA FlushKeeps ==
    ASSUME OneDirection, IndInv, Flush
    PROVE  IndInv' /\ Invisible
<1>1. /\ server.pc = "allocating" /\ op["server"].kind # "none" /\ op["server"].pc = "done"
      /\ s2c' = Append(s2c, Batch("batch", IF op["server"].at = 0 THEN NoRegion ELSE Region(op["server"])))
      /\ op' = [op EXCEPT !["server"] = NoOp]
      /\ server' = [server EXCEPT !.pc = "flushed"]
      /\ UNCHANGED <<count, table, held, client, c2s>>
  BY DEF Flush, WriteBatch, Done, Region
<1>2. op["server"] \in Ops /\ op["server"].kind = "alloc" /\ s2c \in Seq(Messages) /\ server \in Servers
  <2>1. op["server"] \in Ops /\ OpOK("server", op["server"])
    BY DEF IndInv, WellTyped, OpInv, Procs
  <2>2. op["server"].kind = "alloc"
    BY <1>1, <2>1 DEF OpOK, Ops
  <2> QED  BY <2>1, <2>2 DEF IndInv, WellTyped
<1>3. PICK m : m = Batch("batch", IF op["server"].at = 0 THEN NoRegion ELSE Region(op["server"]))
  OBVIOUS
<1>4. m \in Messages /\ m.kind = "batch" /\ m.ptr = IF op["server"].at = 0 THEN NoRegion ELSE Region(op["server"])
  <2>1. Region(op["server"]) \in Regions /\ Region(op["server"]).offset = op["server"].at
    BY <1>2 DEF Ops, Region, Regions
  <2>2. (IF op["server"].at = 0 THEN NoRegion ELSE Region(op["server"])) \in Pointers
    BY <2>1 DEF Pointers
  <2> QED  BY <1>3, <2>2 DEF Batch, Messages
<1>5. /\ client.pc = "wait" /\ server.turn = client.turn /\ Len(c2s) = 0 /\ Len(s2c) = 0
      /\ server.then = Turn.then /\ Turn.out > 0 /\ server.input = NoRegion
      /\ client.turn \in 1..Len(client.plan)
  <2>1. Serving /\ client.turn \in 1..Len(client.plan)
    BY <1>1, InTurn
  <2> QED  BY <1>1, <2>1 DEF Serving
<1>6. /\ server' \in Servers /\ server'.pc = "flushed" /\ server'.input = NoRegion
      /\ server'.then = server.then /\ server'.turn = server.turn
  BY <1>1, <1>2, <1>5 DEF Servers
<1>7. op' \in [Procs -> Ops] /\ op'["server"] = NoOp /\ op'["client"] = op["client"]
  BY <1>1, Operations DEF IndInv, WellTyped, Procs
<1>8. s2c' \in Seq(Messages) /\ Len(s2c') = 1 /\ s2c'[1] = m
  BY <1>1, <1>2, <1>3, <1>4, <1>5, AppendCarries
<1>9. WellTyped'
  BY <1>1, <1>6, <1>7, <1>8 DEF IndInv, WellTyped, TypeOK, Turn
<1>10. Lockstep'
  <2>1. Answered(client.turn)'
    BY <1>1, <1>5, <1>6 DEF Answered, Turn
  <2>2. Output(1)'
    BY <1>6, <1>8 DEF Output
  <2> QED  BY <1>1, <1>4, <1>5, <1>8, <2>1, <2>2 DEF Lockstep, Answering, Turn
<1>11. OpInv'
  <2>1. OpOK("server", op["server"])'
    BY <1>7, Operations DEF OpOK
  <2> QED  BY <1>1, <1>7, <2>1, ServerOperation
<1>12. ASSUME NEW r \in Regions  PROVE Live(r)' <=> Live(r)
  <2>1. Carries(s2c, r)' <=> Carries(s2c, r) \/ m.ptr = r
    <3>1. Carries(Append(s2c, m), r) <=> Carries(s2c, r) \/ m.ptr = r
      BY <1>2, <1>4, AppendCarries
    <3> QED  BY <1>1, <1>3, <3>1 DEF Carries
  <2>2. r.offset # 0 => (m.ptr = r <=> Holding(op["server"], r))
    BY <1>1, <1>2, <1>4 DEF Holding, Region, NoRegion
  <2>3. ~Holding(op["server"], r)'
    BY <1>7, Operations DEF Holding
  <2>4. Holding(op["client"], r)' <=> Holding(op["client"], r)
    BY <1>7 DEF Holding, Region
  <2>5. r.offset # 0 => r # NoRegion
    BY DEF NoRegion
  <2> QED  BY <1>1, <1>5, <1>6, <2>1, <2>2, <2>3, <2>4, <2>5 DEF Live, Elsewhere, Carries, Procs
<1>13. CommittedTable' = CommittedTable
  BY <1>1, Operations, OperationMoves DEF IndInv, Procs
<1> QED  BY <1>1, <1>9, <1>10, <1>11, <1>12, <1>13, ProtocolKeeps

(* The server goes on after its answer; the client is where it was. *)
LEMMA StaysAnswered ==
    ASSUME IndInv, server.pc \in {"flushed", "freeing"} \/ (server.pc = "closing" /\ ~Ending),
           UNCHANGED <<client, c2s>>,
           \A t \in Nat : Answered(t) => Answered(t)',
           \A n \in 0..1 : Output(n) => Output(n)',
           Len(s2c) > 0 => s2c'[1] = s2c[1]
    PROVE  Lockstep'
<1>1. client.turn \in Nat
  BY DEF IndInv, WellTyped, Clients
<1>2. Upcoming \/ Answering
  BY DEF IndInv, Lockstep, Behind, Serving, Ending
<1>3. CASE Upcoming
  <2>1. client.turn >= 1 /\ Answered(client.turn - 1) /\ Output(0)
    BY <1>3 DEF Upcoming
  <2>2. PICK t \in Nat : t = client.turn - 1
    BY <1>1, <2>1
  <2>3. Answered(t)' /\ Output(0)'
    BY <2>1, <2>2
  <2>4. Answered(client.turn - 1)'
    BY <2>2, <2>3 DEF Answered
  <2>5. Upcoming'
    BY <1>3, <2>3, <2>4 DEF Upcoming, Written, Sent, Turn
  <2> QED  BY <2>5 DEF Lockstep
<1>4. CASE Answering
  <2>1. Answered(client.turn) /\ Len(c2s) = 0
    BY <1>4 DEF Answering
  <2>2. PICK t \in Nat : t = client.turn
    BY <1>1
  <2>3. Answered(t)'
    BY <2>1, <2>2
  <2>4. Answered(client.turn)'
    BY <2>2, <2>3 DEF Answered
  <2>5. CASE client.pc = "wait"
    <3>1. Output(1) /\ s2c[1].kind = "batch" /\ (s2c[1].ptr # NoRegion => Turn.out > 0)
      BY <1>4, <2>5 DEF Answering
    <3>2. Len(s2c) > 0
      BY <3>1 DEF Output
    <3>3. Output(1)' /\ s2c'[1] = s2c[1]
      BY <3>1, <3>2
    <3> QED  BY <2>1, <2>4, <2>5, <3>1, <3>3 DEF Lockstep, Answering, Turn
  <2>6. CASE client.pc = "freeing"
    <3>1. Output(0)
      BY <1>4, <2>6 DEF Answering
    <3>2. Output(0)'
      BY <3>1
    <3> QED  BY <2>1, <2>4, <2>6, <3>2 DEF Lockstep, Answering
  <2> QED  BY <1>4, <2>5, <2>6 DEF Answering
<1> QED  BY <1>2, <1>3, <1>4

(* Only when the answer is out is the region of the input freed. *)
LEMMA FreeInputKeeps ==
    ASSUME OneDirection, IndInv, FreeInput
    PROVE  IndInv' /\ Invisible
<1>1. server.pc = "flushed" /\ UNCHANGED <<count, table, held, client, c2s, s2c>>
  BY DEF FreeInput, wire
<1>2. server \in Servers /\ op["server"].kind = "none" /\ op["server"].pc = "done"
  BY <1>1, NoOperation DEF IndInv, WellTyped
<1>3. CASE server.input # NoRegion
  <2>1. BeginFree("server", server.input) /\ server' = [server EXCEPT !.pc = "freeing"]
    BY <1>3 DEF FreeInput
  <2>2. PICK x \in Regions : x = server.input /\ x.offset # 0
    BY <1>2, <1>3 DEF Servers, Pointers
  <2>3. PICK o \in Ops : /\ o.kind = "free" /\ o.pc = "count" /\ o.at = x.offset /\ Region(o) = x
                         /\ op' = [op EXCEPT !["server"] = o]
    <3>1. PICK o : o = [NoOp EXCEPT !.kind = "free", !.pc = "count", !.at = x.offset, !.size = x.length]
      OBVIOUS
    <3>2. o \in Ops /\ o.kind = "free" /\ o.pc = "count" /\ o.at = x.offset /\ Region(o) = x
      BY <3>1, Operations
    <3>3. op' = [op EXCEPT !["server"] = o]
      BY <2>1, <2>2, <3>1 DEF BeginFree
    <3> QED  BY <3>2, <3>3
  <2>4. op' \in [Procs -> Ops] /\ op'["server"] = o /\ op'["client"] = op["client"]
    BY <2>3 DEF IndInv, WellTyped, Procs
  <2>5. /\ server' \in Servers /\ server'.pc = "freeing" /\ server'.input = server.input
        /\ server'.then = server.then /\ server'.turn = server.turn
    BY <1>2, <2>1 DEF Servers
  <2>6. WellTyped'
    BY <1>1, <2>4, <2>5 DEF IndInv, WellTyped, TypeOK, Turn
  <2>7. Lockstep'
    <3>1. ASSUME NEW t \in Nat, Answered(t)  PROVE Answered(t)'
      BY <1>1, <1>3, <2>5, <3>1 DEF Answered
    <3>2. ASSUME NEW n \in 0..1, Output(n)  PROVE Output(n)'
      BY <1>1, <2>5, <3>2 DEF Output
    <3> QED  BY <1>1, <3>1, <3>2, StaysAnswered
  <2>8. OpInv'
    <3>1. OpOK("server", op["server"])'
      BY <2>2, <2>3, <2>4, <2>5 DEF OpOK
    <3> QED  BY <1>1, <2>4, <3>1, ServerOperation
  <2>9. ASSUME NEW r \in Regions  PROVE Live(r)' <=> Live(r)
    <3>1. ~Holding(op["server"], r) /\ (Holding(op["server"], r)' <=> r = x)
      BY <1>2, <2>3, <2>4 DEF Holding, Region
    <3>2. Holding(op["client"], r)' <=> Holding(op["client"], r)
      BY <2>4 DEF Holding, Region
    <3>3. Elsewhere(r) <=> Elsewhere(r)' \/ r = x
      BY <1>1, <2>2, <2>5 DEF Elsewhere, Carries
    <3> QED  BY <3>1, <3>2, <3>3 DEF Live, Procs
  <2>10. CommittedTable' = CommittedTable
    BY <1>1, <1>2, <2>3, OperationMoves DEF IndInv, Procs
  <2> QED  BY <1>1, <2>6, <2>7, <2>8, <2>9, <2>10, ProtocolKeeps
<1>4. CASE server.input = NoRegion
  <2>1. server' = [server EXCEPT !.pc = NextTurn] /\ op' = op
    BY <1>4 DEF FreeInput
  <2>2. NextTurn = IF server.then = "finish" THEN "closing" ELSE "read"
    BY DEF NextTurn
  <2>3. /\ server' \in Servers /\ server'.pc = NextTurn /\ server'.input = NoRegion
        /\ server'.then = server.then /\ server'.turn = server.turn
    BY <1>2, <1>4, <2>1, <2>2 DEF Servers
  <2>4. WellTyped'
    BY <1>1, <2>1, <2>3 DEF IndInv, WellTyped, TypeOK, Turn
  <2>5. Lockstep'
    <3>1. ASSUME NEW t \in Nat, Answered(t)  PROVE Answered(t)'
      <4>1. /\ server.turn = t /\ t # 0 /\ t \in 1..Len(client.plan)
            /\ server.then = client.plan[t].then
        BY <1>1, <3>1 DEF Answered
      <4>2. client.plan \in Streams
        <5>1. client.pc # "idle"
          BY <1>1 DEF IndInv, Lockstep, Behind, Upcoming, Serving, Answering, Ending
        <5> QED  BY <5>1 DEF IndInv, WellTyped
      <4>3. server.then \in {"go", "finish"}
        BY <1>2, <4>1, <4>2, TurnFacts DEF Servers
      <4> QED  BY <1>1, <2>2, <2>3, <4>1, <4>3 DEF Answered
    <3>2. ASSUME NEW n \in 0..1, Output(n)  PROVE Output(n)'
      BY <1>1, <2>2, <2>3, <3>2 DEF Output
    <3> QED  BY <1>1, <3>1, <3>2, StaysAnswered
  <2>6. ASSUME NEW r \in Regions, r.offset # 0  PROVE Elsewhere(r)' <=> Elsewhere(r)
    BY <1>1, <1>4, <2>3, <2>6, PlainMessage DEF Elsewhere, Carries
  <2> QED  BY <1>1, <2>1, <2>2, <2>3, <2>4, <2>5, <2>6, ServerSteps
<1> QED  BY <1>3, <1>4

(* The region is freed and the next input is read. *)
LEMMA InputFreedKeeps ==
    ASSUME OneDirection, IndInv, InputFreed
    PROVE  IndInv' /\ Invisible
<1>1. /\ server.pc = "freeing" /\ op["server"].kind # "none" /\ op["server"].pc = "done"
      /\ op' = [op EXCEPT !["server"] = NoOp]
      /\ server' = [server EXCEPT !.pc = NextTurn, !.input = NoRegion]
      /\ UNCHANGED <<count, table, held, client, c2s, s2c>>
  BY DEF InputFreed, Done, wire
<1>2. op["server"] \in Ops /\ op["server"].kind = "free" /\ server \in Servers
  <2>1. op["server"] \in Ops /\ OpOK("server", op["server"])
    BY DEF IndInv, WellTyped, OpInv, Procs
  <2>2. op["server"].kind = "free"
    BY <1>1, <2>1 DEF OpOK, Ops
  <2> QED  BY <2>1, <2>2 DEF IndInv, WellTyped
<1>3. NextTurn = IF server.then = "finish" THEN "closing" ELSE "read"
  BY DEF NextTurn
<1>4. /\ server' \in Servers /\ server'.pc = NextTurn /\ server'.input = NoRegion
      /\ server'.then = server.then /\ server'.turn = server.turn
  <2>1. server' = [[server EXCEPT !.pc = NextTurn] EXCEPT !.input = NoRegion]
    BY <1>1, <1>2 DEF Servers
  <2> QED  BY <1>2, <1>3, <2>1 DEF Servers, Pointers
<1>5. op' \in [Procs -> Ops] /\ op'["server"] = NoOp /\ op'["client"] = op["client"]
  BY <1>1, Operations DEF IndInv, WellTyped, Procs
<1>6. WellTyped'
  BY <1>1, <1>4, <1>5 DEF IndInv, WellTyped, TypeOK, Turn
<1>7. Lockstep'
  <2>1. ASSUME NEW t \in Nat, Answered(t)  PROVE Answered(t)'
    <3>1. /\ server.turn = t /\ t # 0 /\ t \in 1..Len(client.plan)
          /\ server.then = client.plan[t].then /\ client.plan[t].in > 0
      BY <1>1, <2>1 DEF Answered
    <3>2. client.plan \in Streams
      <4>1. client.pc # "idle"
        BY <1>1 DEF IndInv, Lockstep, Behind, Upcoming, Serving, Answering, Ending
      <4> QED  BY <4>1 DEF IndInv, WellTyped
    <3>3. server.then = "go"
      BY <3>1, <3>2, TurnFacts
    <3> QED  BY <1>1, <1>3, <1>4, <3>1, <3>3 DEF Answered
  <2>2. ASSUME NEW n \in 0..1, Output(n)  PROVE Output(n)'
    BY <1>1, <1>3, <1>4, <2>2 DEF Output
  <2> QED  BY <1>1, <2>1, <2>2, StaysAnswered
<1>8. OpInv'
  <2>1. OpOK("server", op["server"])'
    BY <1>5, Operations DEF OpOK
  <2> QED  BY <1>1, <1>5, <2>1, ServerOperation
<1>9. ASSUME NEW r \in Regions  PROVE Live(r)' <=> Live(r)
  <2>1. ~Holding(op["server"], r) /\ ~Holding(op["server"], r)'
    BY <1>1, <1>2, <1>5, Operations DEF Holding
  <2>2. Holding(op["client"], r)' <=> Holding(op["client"], r)
    BY <1>5 DEF Holding, Region
  <2>3. r.offset # 0 => (Elsewhere(r)' <=> Elsewhere(r))
    BY <1>1, <1>4, PlainMessage DEF Elsewhere, Carries
  <2> QED  BY <2>1, <2>2, <2>3 DEF Live, Procs
<1>10. CommittedTable' = CommittedTable
  BY <1>1, Operations, OperationMoves DEF IndInv, Procs
<1> QED  BY <1>1, <1>6, <1>7, <1>8, <1>9, <1>10, ProtocolKeeps

(* The output is closed: the call has finished, failed, or was ended. *)
LEMMA CloseOutputKeeps ==
    ASSUME IndInv, CloseOutput
    PROVE  IndInv' /\ Invisible
<1>1. /\ server.pc = "closing" /\ s2c' = Append(s2c, Batch("eos", NoRegion))
      /\ server' = [server EXCEPT !.pc = IF server.then = "ended" THEN "idle" ELSE "draining"]
      /\ UNCHANGED <<count, table, held, op, client, c2s>>
  BY DEF CloseOutput
<1>2. server \in Servers /\ s2c \in Seq(Messages)
  BY DEF IndInv, WellTyped
<1>3. PICK m \in Messages : m = Batch("eos", NoRegion) /\ m.ptr = NoRegion
  BY PlainMessage
<1>4. /\ s2c' \in Seq(Messages) /\ Len(s2c') = Len(s2c) + 1 /\ s2c'[Len(s2c) + 1] = Batch("eos", NoRegion)
      /\ \A i \in 1..Len(s2c) : s2c'[i] = s2c[i]
      /\ Len(s2c) \in Nat
  BY <1>1, <1>2, <1>3, AppendCarries
<1>5. /\ server' \in Servers /\ server'.input = server.input
      /\ server'.then = server.then /\ server'.turn = server.turn
      /\ server'.pc = IF server.then = "ended" THEN "idle" ELSE "draining"
  BY <1>1, <1>2 DEF Servers
<1>6. WellTyped'
  BY <1>1, <1>4, <1>5 DEF IndInv, WellTyped, TypeOK, Turn
<1>7. Lockstep'
  <2>1. CASE Ending
    <3>1. /\ server.input = NoRegion /\ Len(c2s) = 0 /\ Len(s2c) = 0
          /\ \/ client.pc \in {"wait", "cancelling"} /\ server.then # "ended"
             \/ client.pc = "draining" /\ server.then = "ended"
      BY <1>1, <2>1 DEF Ending, Output
    <3>2. CASE client.pc \in {"wait", "cancelling"} /\ server.then # "ended"
      BY <1>1, <1>4, <1>5, <3>1, <3>2 DEF Lockstep, Ending, Output, Batch
    <3>3. CASE client.pc = "draining" /\ server.then = "ended"
      BY <1>1, <1>4, <1>5, <3>1, <3>3 DEF Lockstep, Ending, Batch
    <3> QED  BY <3>1, <3>2, <3>3
  <2>2. CASE ~Ending
    <3>1. ASSUME NEW t \in Nat, Answered(t)  PROVE Answered(t)'
      BY <1>1, <1>5, <3>1 DEF Answered
    <3>2. server.then # "ended"
      BY <1>1, <2>2 DEF IndInv, Lockstep, Behind, Upcoming, Serving, Answering, Answered
    <3>3. ASSUME NEW n \in 0..1, Output(n)  PROVE Output(n)'
      BY <1>1, <1>4, <1>5, <3>2, <3>3 DEF Output, Batch
    <3>4. Len(s2c) > 0 => s2c'[1] = s2c[1]
      BY <1>4
    <3> QED  BY <1>1, <2>2, <3>1, <3>3, <3>4, StaysAnswered
  <2> QED  BY <2>1, <2>2
<1>8. ASSUME NEW r \in Regions, r.offset # 0  PROVE Elsewhere(r)' <=> Elsewhere(r)
  <2>1. (Carries(c2s, r) \/ Carries(s2c, r))' <=> (Carries(c2s, r) \/ Carries(s2c, r))
    BY <1>1, <1>3, <1>8, PlainSent DEF IndInv
  <2> QED  BY <1>1, <1>5, <2>1 DEF Elsewhere
<1> QED  BY <1>1, <1>5, <1>6, <1>7, <1>8, ServerSteps

(* What is left of the input is read and thrown away, without its region:  *)
(* there is none.                                                          *)
LEMMA DrainInputKeeps ==
    ASSUME OneDirection, IndInv, DrainInput
    PROVE  IndInv' /\ Invisible
<1>1. /\ server.pc = "draining" /\ c2s # <<>> /\ c2s' = Tail(c2s)
      /\ server' = [server EXCEPT !.pc = IF Head(c2s).kind = "eos" THEN "idle" ELSE "draining"]
      /\ UNCHANGED <<count, table, held, op, client, s2c>>
  BY DEF DrainInput
<1>2. server \in Servers /\ c2s \in Seq(Messages) /\ client \in Clients
  BY DEF IndInv, WellTyped
<1>3. /\ c2s' \in Seq(Messages) /\ Len(c2s') = Len(c2s) - 1 /\ Len(c2s) > 0 /\ Len(c2s) \in Nat
      /\ Head(c2s) = c2s[1] /\ c2s[1] \in Messages
      /\ \A i \in 1..(Len(c2s) - 1) : c2s'[i] = c2s[i + 1]
  BY <1>1, <1>2, TailCarries
<1>4. /\ server' \in Servers /\ server'.input = server.input
      /\ server'.then = server.then /\ server'.turn = server.turn
      /\ server'.pc = IF c2s[1].kind = "eos" THEN "idle" ELSE "draining"
  BY <1>1, <1>2, <1>3 DEF Servers
<1>5. WellTyped'
  BY <1>1, <1>3, <1>4 DEF IndInv, WellTyped, TypeOK, Turn
<1>6. c2s[1].ptr = NoRegion /\ Lockstep'
  <2>1. CASE Behind
    <3>1. PICK n \in 0..2 :
            /\ IF n = 0 THEN server.pc = "idle"
               ELSE server.pc = "draining" /\ c2s[n] = Batch("eos", NoRegion)
            /\ n = 2 => c2s[1] \in {Batch("batch", NoRegion), Batch("cancel", NoRegion)}
            /\ Len(c2s) = n + Written
            /\ Written > 0 => c2s[n + 1] = Batch("request", NoRegion)
            /\ Written > 1 => Sent(c2s[n + 2])
      BY <2>1 DEF Behind
    <3>2. n \in 1..2 /\ Written \in 0..2 /\ Written' = Written
      BY <1>1, <3>1 DEF Written
    <3>3. c2s[1].ptr = NoRegion /\ (c2s[1].kind = "eos" <=> n = 1)
      BY <3>1, <3>2, PlainMessage
    <3>4. PICK k \in 0..1 : k = n - 1
      BY <3>2
    <3>5. /\ Len(c2s') = k + Written
          /\ k = 0 => server'.pc = "idle"
          /\ k = 1 => server'.pc = "draining" /\ c2s'[k] = Batch("eos", NoRegion)
          /\ Written > 0 => c2s'[k + 1] = Batch("request", NoRegion)
          /\ Written > 1 => c2s'[k + 2] = c2s[n + 2]
      <4>1. Len(c2s') = k + Written
        BY <1>3, <3>1, <3>2, <3>4
      <4>2. \A i \in 0..2 : n + i >= 2 /\ n + i <= Len(c2s) => c2s'[k + i] = c2s[n + i]
        <5> SUFFICES ASSUME NEW i \in 0..2, n + i >= 2, n + i <= Len(c2s)
                     PROVE  c2s'[k + i] = c2s[n + i]
          OBVIOUS
        <5>1. k + i \in 1..(Len(c2s) - 1) /\ (k + i) + 1 = n + i
          BY <1>3, <3>2, <3>4
        <5> QED  BY <1>3, <5>1
      <4>3. k = 0 => n = 1 /\ server'.pc = "idle"
        BY <1>4, <3>2, <3>3, <3>4
      <4>4. k = 1 => n = 2 /\ server'.pc = "draining"
        BY <1>4, <3>2, <3>3, <3>4
      <4>5. k = 1 => c2s'[k] = c2s[n]
        BY <1>3, <3>1, <3>2, <4>2, <4>4
      <4>6. Written > 0 => c2s'[k + 1] = c2s[n + 1]
        BY <1>3, <3>1, <3>2, <4>2
      <4>7. Written > 1 => c2s'[k + 2] = c2s[n + 2]
        BY <1>3, <3>1, <3>2, <4>2
      <4> QED  BY <3>1, <3>2, <4>1, <4>3, <4>4, <4>5, <4>6, <4>7
    <3>6. ASSUME Written > 1  PROVE Sent(c2s[k + 2])'
      <4>1. PICK m : m = c2s[n + 2]
        OBVIOUS
      <4>2. Sent(m) /\ c2s'[k + 2] = m
        BY <3>1, <3>5, <3>6, <4>1
      <4>3. Sent(m)'
        BY <1>1, <4>2 DEF Sent, Turn
      <4> QED  BY <4>2, <4>3 DEF Sent, Turn
    <3>7. /\ client.pc \in {"idle", "ready", "allocating", "wait", "draining", "cancelling"}
          /\ client.pc # "idle" => client.turn = 1
          /\ server.input = NoRegion /\ Len(s2c) = 0
      BY <2>1 DEF Behind
    <3>8. Behind'
      <4>1. (\E i \in 0..2 :
               /\ IF i = 0 THEN server.pc = "idle"
                  ELSE server.pc = "draining" /\ c2s[i] = Batch("eos", NoRegion)
               /\ i = 2 => c2s[1] \in {Batch("batch", NoRegion), Batch("cancel", NoRegion)}
               /\ Len(c2s) = i + Written
               /\ Written > 0 => c2s[i + 1] = Batch("request", NoRegion)
               /\ Written > 1 => Sent(c2s[i + 2]))'
        <5>1. k \in 0..2 /\ k # 2
          BY <3>4
        <5>2. /\ IF k = 0 THEN server'.pc = "idle"
                 ELSE server'.pc = "draining" /\ c2s'[k] = Batch("eos", NoRegion)
              /\ Len(c2s') = k + Written'
              /\ Written' > 0 => c2s'[k + 1] = Batch("request", NoRegion)
          BY <3>2, <3>4, <3>5
        <5>3. Written' > 1 => Sent(c2s[k + 2])'
          BY <3>2, <3>6
        <5> QED  BY <5>1, <5>2, <5>3 DEF Batch
      <4> QED  BY <1>1, <1>4, <3>7, <4>1 DEF Behind
    <3> QED  BY <3>3, <3>8 DEF Lockstep
  <2>2. CASE Upcoming
    <3>1. Answered(client.turn - 1) /\ Len(c2s) = 1 /\ Sent(c2s[1]) /\ Output(0)
      <4>1. Len(c2s) = Written - 1
        BY <2>2 DEF Upcoming
      <4>2. Written = 2
        BY <1>3, <4>1 DEF Written
      <4> QED  BY <2>2, <4>1, <4>2 DEF Upcoming
    <3>2. server.input = NoRegion /\ server.then = "finish" /\ Len(s2c) = 1 /\ s2c[1] = Batch("eos", NoRegion)
      BY <1>1, <3>1 DEF Answered, Output
    <3>3. CASE client.pc = "wait"
      <4>1. client.plan \in Streams /\ client.turn \in 1..Len(client.plan)
        BY <3>3 DEF IndInv, WellTyped
      <4>2. client.turn - 1 \in 1..Len(client.plan) /\ client.plan[client.turn - 1].then = "finish"
        BY <3>1, <3>2, <4>1 DEF Answered
      <4>3. ~(Turn.in > 0)
        BY <4>1, <4>2, TurnFacts DEF Turn
      <4>4. c2s[1].kind = "batch" /\ c2s[1].ptr = NoRegion
        BY <3>1, <3>3, <4>3 DEF Sent
      <4> QED  BY <1>1, <1>3, <1>4, <3>1, <3>2, <3>3, <4>4 DEF Lockstep, Ending, Output, Batch
    <3>4. CASE client.pc = "draining"
      <4>1. c2s[1].kind = "eos" /\ c2s[1].ptr = NoRegion
        BY <3>1, <3>4, PlainMessage DEF Sent
      <4> QED  BY <1>1, <1>3, <1>4, <3>1, <3>2, <3>4, <4>1 DEF Lockstep, Ending, Batch
    <3>5. CASE client.pc = "cancelling"
      <4>1. c2s[1].kind = "cancel" /\ c2s[1].ptr = NoRegion
        BY <3>1, <3>5, PlainMessage DEF Sent
      <4> QED  BY <1>1, <1>3, <1>4, <3>1, <3>2, <3>5, <4>1 DEF Lockstep, Ending, Output, Batch
    <3> QED  BY <3>1, <3>3, <3>4, <3>5 DEF Sent
  <2>3. CASE Ending
    <3>1. /\ client.pc = "finished" /\ Len(c2s) = 1 /\ c2s[1] = Batch("batch", NoRegion)
          /\ Len(s2c) = 0 /\ server.input = NoRegion
      BY <1>3, <2>3 DEF Ending
    <3>2. c2s[1].kind = "batch" /\ c2s[1].ptr = NoRegion
      BY <3>1, PlainMessage
    <3> QED  BY <1>1, <1>3, <1>4, <3>1, <3>2 DEF Lockstep, Ending, Batch
  <2> QED  BY <1>1, <1>3, <2>1, <2>2, <2>3 DEF IndInv, Lockstep, Serving, Answering
<1>7. ASSUME NEW r \in Regions, r.offset # 0  PROVE Elsewhere(r)' <=> Elsewhere(r)
  <2>1. (Carries(c2s, r) \/ Carries(s2c, r))' <=> (Carries(c2s, r) \/ Carries(s2c, r))
    BY <1>1, <1>6, <1>7, PlainRead DEF IndInv
  <2>2. server'.pc # "freeing"
    BY <1>4
  <2> QED  BY <1>1, <1>4, <2>1, <2>2 DEF Elsewhere
<1> QED  BY <1>1, <1>4, <1>5, <1>6, <1>7, ServerSteps

-----------------------------------------------------------------------------
(* The invariance of IndInv. *)

(* An empty segment, and nothing on the pipe. *)
LEMMA InitHolds == ExchangeInit => IndInv
<1> SUFFICES ASSUME ExchangeInit  PROVE IndInv
  OBVIOUS
<1>1. /\ count = 0 /\ table = [i \in Slots |-> NoRegion] /\ held = {}
      /\ op = [p \in Procs |-> NoOp]
      /\ client = [pc |-> "idle", plan |-> <<>>, turn |-> 0]
      /\ server = [pc |-> "idle", turn |-> 0, input |-> NoRegion, then |-> "go"]
      /\ c2s = <<>> /\ s2c = <<>>
  BY DEF ExchangeInit, Init
<1>2. NoRegion \in Regions
  BY DEF NoRegion, Regions
<1>3. WellTyped
  <2>1. TypeOK
    BY <1>1, <1>2, ShmAssumption DEF TypeOK
  <2>2. op \in [Procs -> Ops]
    BY <1>1, Operations
  <2>3. client \in Clients /\ server \in Servers
    BY <1>1 DEF Clients, Servers, Pointers
  <2> QED  BY <1>1, <2>1, <2>2, <2>3 DEF WellTyped
<1>4. Lockstep
  BY <1>1 DEF Lockstep, Behind, Written
<1>5. OpInv
  BY <1>1, Operations DEF OpInv, OpOK
<1>6. HeldInv
  <2>1. ASSUME NEW r \in Regions, r.offset # 0  PROVE ~Elsewhere(r)
    BY <1>1, <2>1, PlainMessage DEF Elsewhere, Carries
  <2>2. \A r \in Regions, p \in Procs : ~Holding(op[p], r)
    BY <1>1, Operations DEF Holding
  <2> QED  BY <1>1, <2>1, <2>2 DEF HeldInv, Live
<1>7. SegmentInv
  BY <1>1 DEF SegmentInv
<1> QED  BY <1>3, <1>4, <1>5, <1>6, <1>7 DEF IndInv

(* A header operation keeps the invariant, whoever runs it, and takes      *)
(* effect in its last step.                                                *)
LEMMA HeaderStepKeeps ==
    ASSUME OneDirection, IndInv, NEW p \in Procs, HeaderStep(p)
    PROVE  IndInv' /\ (Invisible \/ StoreCount(p))
BY ReadCountKeeps, ScanForGapKeeps, ScanForOffsetKeeps, MoveTableKeeps, StoreCountKeeps DEF HeaderStep

(* Every step keeps the invariant, and all but set_num_allocs() are        *)
(* invisible to the allocator.                                             *)
LEMMA NextKeeps ==
    ASSUME OneDirection, IndInv, [ExchangeNext]_exvars
    PROVE  IndInv' /\ (Invisible \/ \E p \in Procs : StoreCount(p))
<1>1. CASE UNCHANGED exvars
  <2>1. UNCHANGED <<count, table, held, op, client, server, c2s, s2c>>
    BY <1>1 DEF exvars
  <2>2. WellTyped'
    BY <2>1 DEF IndInv, WellTyped, TypeOK, Turn
  <2>3. Lockstep'
    BY <2>1 DEF IndInv, Lockstep, Behind, Upcoming, Serving, Answering, Ending, Answered, Output, Sent,
                Written, Turn
  <2>4. OpInv'
    BY <2>1 DEF IndInv, OpInv, OpOK, Region
  <2>5. \A r \in Regions : Live(r)' <=> Live(r)
    BY <2>1 DEF Live, Elsewhere, Carries, Holding, Region
  <2>6. CommittedTable' = CommittedTable
    BY <2>1 DEF CommittedTable
  <2> QED  BY <2>1, <2>2, <2>3, <2>4, <2>5, <2>6, ProtocolKeeps
<1>2. ASSUME NEW plan \in Streams, Open(plan)  PROVE IndInv' /\ Invisible
  BY <1>2, OpenKeeps
<1>3. CASE ClientStep
  <2>1. "client" \in Procs
    BY DEF Procs
  <2> QED  BY <1>3, <2>1, SendInlineKeeps, ReserveInputKeeps, SendReservedKeeps, ReceiveKeeps, FreedKeeps,
              DrainKeeps, CloseKeeps, CancelKeeps, HeaderStepKeeps DEF ClientStep
<1>4. CASE ServerStep
  <2>1. "server" \in Procs
    BY DEF Procs
  <2> QED  BY <1>4, <2>1, ServeRequestKeeps, ReadInputKeeps, ProcessKeeps, ProcessRaisesKeeps, FlushKeeps,
              FreeInputKeeps, InputFreedKeeps, CloseOutputKeeps, DrainInputKeeps, HeaderStepKeeps
           DEF ServerStep
<1> QED  BY <1>1, <1>2, <1>3, <1>4 DEF ExchangeNext

(* The lockstep and all that follows from it hold in every state of the    *)
(* two processes.                                                          *)
THEOREM Invariance ==
    ASSUME OneDirection
    PROVE  ExchangeSpec => []IndInv
<1>1. ExchangeInit => IndInv
  BY InitHolds
<1>2. IndInv /\ [ExchangeNext]_exvars => IndInv'
  BY NextKeeps
<1> QED  BY <1>1, <1>2, PTL DEF ExchangeSpec

(* maybe_write_to_shm() and resolve_data() of the two processes never      *)
(* touch the header of the segment at the same time, although nothing      *)
(* locks it, whatever is sent through the segment in one direction at a    *)
(* time.                                                                   *)
THEOREM HeaderExclusiveOneDirection ==
    ASSUME OneDirection
    PROVE  ExchangeSpec => []HeaderExclusive
<1>1. IndInv => HeaderExclusive
  <2> SUFFICES ASSUME IndInv, op["client"].kind # "none"  PROVE op["server"].kind = "none"
    BY DEF HeaderExclusive
  <2>1. "client" \in Procs /\ "server" \in Procs /\ "server" # "client"
    BY DEF Procs
  <2> QED  BY <2>1, OneOperation
<1> QED  BY <1>1, Invariance, PTL

(* When a call is over every region it reserved has been freed again by    *)
(* the side that read it, and the count in the header is 0: for workloads  *)
(* with OneDirection, and not beyond them.  A turn that is large both      *)
(* ways, two turns with large inputs in a row, and a turn that raises on a *)
(* large input are what the hypothesis rules out; serve_stream() frees an  *)
(* input after its answer is out, or not at all, and there the code leaks  *)
(* (MC_ShmExchangeRace.cfg).                                               *)
THEOREM NothingLeakedOneDirection ==
    ASSUME OneDirection
    PROVE  ExchangeSpec => []NothingLeaked
<1>1. IndInv => NothingLeaked
  <2> SUFFICES ASSUME IndInv, client.pc = "idle"  PROVE count = 0
    BY DEF NothingLeaked
  <2>1. Behind
    BY DEF IndInv, Lockstep, Upcoming, Serving, Answering, Ending
  <2>2. /\ Len(s2c) = 0 /\ server.input = NoRegion /\ server.pc \in {"idle", "draining"}
        /\ \A i \in 1..Len(c2s) : c2s[i].ptr = NoRegion
    BY <2>1, PlainMessage DEF Behind, Written
  <2>3. op["client"].kind = "none" /\ op["server"].kind = "none"
    BY <2>2, NoOperation
  <2>4. ASSUME NEW r \in Regions, r.offset # 0  PROVE ~Elsewhere(r)
    BY <2>2, <2>4, PlainMessage DEF Elsewhere, Carries
  <2>5. \A r \in Regions : ~Live(r)
    BY <2>3, <2>4 DEF Live, Holding, Procs
  <2> QED  BY <2>5 DEF IndInv, SegmentInv, HeldInv
<1> QED  BY <1>1, Invariance, PTL

(* The unlocked operations, run in four steps by two processes, implement  *)
(* the atomic allocator of ShmSegment, as long as large batches go one way *)
(* at a time (OneDirection, which the code does not enforce): an           *)
(* allocation or a free takes effect when the count is stored, and every   *)
(* other step is invisible.                                                *)
THEOREM ImplementsAllocatorOneDirection ==
    ASSUME OneDirection
    PROVE  ExchangeSpec => ImplementsAllocator
<1>1. ExchangeInit => Atomic!Init
  <2> SUFFICES ASSUME ExchangeInit  PROVE Atomic!Init
    OBVIOUS
  <2>1. CommittedTable = table
    BY Operations DEF ExchangeInit, CommittedTable
  <2> QED  BY <2>1 DEF ExchangeInit, Init, Atomic!Init, Atomic!Slots, Atomic!NoRegion, Slots, NoRegion
<1>2. ASSUME IndInv, NEW p \in Procs, StoreCount(p)  PROVE Atomic!Next
  <2>1. PICK o \in Ops : /\ op' = [op EXCEPT ![p] = o] /\ o.pc = "done"
    BY <1>2, StoreCountCommits
  <2>2. /\ op[p].kind \in {"alloc", "free"} /\ op[p].pc = "store"
        /\ op[p].kind = "alloc" =>
              /\ count = 0 /\ held = {} /\ count' = 1 /\ held' = {Region(op[p])}
              /\ table' = InsertAt(op[p].old, 0, 1, Region(op[p]))
              /\ op[p].at = HeaderSize /\ op[p].size \in 1..(SegmentSize - HeaderSize)
        /\ op[p].kind = "free" =>
              /\ count = 1 /\ held = {Region(op[p])} /\ count' = 0 /\ held' = {}
              /\ table' = RemoveAt(op[p].old, 1, 1)
              /\ op[p].old[1] = Region(op[p])
    BY <1>2, StoreCountCommits
  <2>3. CommittedTable = op[p].old
    BY <1>2, <2>2, CommittedIs
  <2>4. CommittedTable' = table'
    BY <1>2, <2>1, <2>2, CommittedNext
  <2>5. CASE op[p].kind = "alloc"
    <3>1. PICK z \in 1..(SegmentSize - HeaderSize) : z = op[p].size
      BY <2>2, <2>5
    <3>2. z \in 0..(SegmentSize - HeaderSize) /\ z <= z /\ z > 0
      BY ShmAssumption
    <3>3. Region(op[p]) = [offset |-> HeaderSize, length |-> z]
      BY <2>2, <2>5, <3>1 DEF Region
    <3>4. Atomic!PrevEnd(CommittedTable, 1) = HeaderSize
      BY DEF Atomic!PrevEnd
    <3>5. Atomic!Fits(CommittedTable, count, 1, z)
      BY <2>2, <2>5, <3>4, ShmAssumption DEF Atomic!Fits
    <3>6. Atomic!CanAllocate(CommittedTable, count, z)
      BY <2>2, <2>5, <3>2, <3>5, ShmAssumption DEF Atomic!CanAllocate
    <3>7. Atomic!FirstFit(CommittedTable, count, z, 1)
      BY <2>2, <2>5, <3>5 DEF Atomic!FirstFit
    <3>8. CommittedTable' = Atomic!InsertAt(CommittedTable, count, 1,
                              [offset |-> Atomic!PrevEnd(CommittedTable, 1), length |-> z])
      BY <2>2, <2>3, <2>4, <2>5, <3>3, <3>4 DEF InsertAt, Atomic!InsertAt, Slots, Atomic!Slots
    <3>9. /\ held' = held \cup {[offset |-> Atomic!PrevEnd(CommittedTable, 1), length |-> z]}
          /\ count' = count + 1 /\ 1 \in 1..(count + 1)
      BY <2>2, <2>5, <3>3, <3>4
    <3>10. Atomic!AllocateAndWrite(z, z)
      BY <3>2, <3>6, <3>7, <3>8, <3>9 DEF Atomic!AllocateAndWrite
    <3> QED  BY <3>2, <3>10 DEF Atomic!Next
  <2>6. CASE op[p].kind = "free"
    <3>1. Region(op[p]) \in held /\ held' = held \ {Region(op[p])}
      BY <2>2, <2>6
    <3>2. Atomic!FindOffset(CommittedTable, count, Region(op[p]).offset, 1)
      BY <2>2, <2>3, <2>6 DEF Atomic!FindOffset
    <3>3. CommittedTable' = Atomic!RemoveAt(CommittedTable, count, 1)
      BY <2>2, <2>3, <2>4, <2>6 DEF RemoveAt, Atomic!RemoveAt, Slots, Atomic!Slots
    <3>4. count' = count - 1 /\ 1 \in 1..count
      BY <2>2, <2>6
    <3>5. Atomic!Free(Region(op[p]))
      BY <3>1, <3>2, <3>3, <3>4 DEF Atomic!Free
    <3> QED  BY <3>1, <3>5 DEF Atomic!Next
  <2> QED  BY <2>2, <2>5, <2>6
<1>3. IndInv /\ [ExchangeNext]_exvars => [Atomic!Next]_Atomic!vars
  BY <1>2, NextKeeps DEF Invisible, Atomic!vars
<1> QED  BY <1>1, <1>3, Invariance, PTL DEF ExchangeSpec, ImplementsAllocator, Atomic!Spec
=============================================================================
