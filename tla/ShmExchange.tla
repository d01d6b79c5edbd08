----------------------------- MODULE ShmExchange -----------------------------
(***************************************************************************)
(* Two processes on one segment: the raw client (client.cpp: exchange,     *)
(* tick, call_unary, resolve_data) and the server's stream loop            *)
(* (pipe_transport.cpp: serve_stream, serve_unary_impl).  Neither takes a  *)
(* lock: the header is read and written with plain loads and stores, and   *)
(* only the turns of the lockstep protocol keep the two apart.  So the     *)
(* operations of ShmSegment run here in their four steps: read the count,  *)
(* scan the table, move the table, store the count.                        *)
(*                                                                         *)
(* The protocol around the batches (schemas, refusals, errors before the   *)
(* first turn) is RawWire's; here a call is opened and its turns are run.  *)
(***************************************************************************)
EXTENDS ShmSegment, Sequences

CONSTANTS
    Streams,   \* what a call does: a non-empty sequence of turns
    MaxCalls   \* bound: calls made on the connection

(* A turn: bytes of the input and of the output batch that go through the  *)
(* segment (0: under shm_min_batch_bytes, sent inline), and what process() *)
(* does after it: go on, finish, or raise.                                 *)
Turns == [in : 0..SegmentSize, out : 0..SegmentSize, then : {"go", "finish", "raise"}]

ASSUME ExchangeAssumption ==
    /\ HeaderSize > 0
    /\ MaxCalls \in Nat
    /\ \A s \in Streams : s \in Seq(Turns) /\ Len(s) > 0
    \* OutputCollector::finish() throws on a stream that takes input
    /\ \A s \in Streams : (\E i \in 1..Len(s) : s[i].in > 0) =>
                           \A i \in 1..Len(s) : s[i].then # "finish"

Procs == {"client", "server"}

VARIABLES
    op,      \* the header operation each process is in the middle of
    client,  \* [pc, plan, turn]
    server,  \* [pc, turn, input, then]: input is input_free_offset, or NoRegion
    c2s, s2c,\* the two directions of the pipe
    calls    \* counter: calls opened

wire == <<c2s, s2c>>
exvars == <<count, table, held, op, client, server, c2s, s2c, calls>>

NoOp == [kind |-> "none", pc |-> "done", n |-> 0, i |-> 0, at |-> 0, size |-> 0,
         old |-> [i \in Slots |-> NoRegion]]
Batch(kind, ptr) == [kind |-> kind, ptr |-> ptr]

(* The state is well formed: a process is in a header operation only where *)
(* it runs one, and the lockstep bounds what is on its way: what a         *)
(* finished call left unread, its end, and the next request and batch; an  *)
(* answer and an end.                                                      *)
ExchangeTypeOK ==
    /\ TypeOK
    /\ client.pc \in {"idle", "ready", "allocating", "wait", "freeing", "finished", "draining",
                      "cancelling"}
    /\ server.pc \in {"idle", "read", "process", "allocating", "flushed", "freeing", "closing",
                      "draining"}
    /\ op["client"].kind # "none" => client.pc \in {"allocating", "freeing"}
    /\ op["server"].kind # "none" => server.pc \in {"allocating", "freeing"}
    /\ Len(c2s) <= 4 /\ Len(s2c) <= 2

ExchangeInit ==
    /\ Init
    /\ op = [p \in Procs |-> NoOp]
    /\ client = [pc |-> "idle", plan |-> <<>>, turn |-> 0]
    /\ server = [pc |-> "idle", turn |-> 0, input |-> NoRegion, then |-> "go"]
    /\ c2s = <<>> /\ s2c = <<>>
    /\ calls = 0

-----------------------------------------------------------------------------
(* The header operations, a step at a time. *)
BeginAlloc(p, size) == op' = [op EXCEPT ![p] = [NoOp EXCEPT !.kind = "alloc", !.pc = "count", !.size = size]]
BeginFree(p, r) == op' = [op EXCEPT ![p] = [NoOp EXCEPT !.kind = "free", !.pc = "count",
                                             !.at = r.offset, !.size = r.length]]
Done(p) == op[p].kind # "none" /\ op[p].pc = "done"

(* num_allocs() *)
ReadCount(p) ==
    /\ op[p].kind # "none" /\ op[p].pc = "count"
    /\ op' = [op EXCEPT ![p].n = count, ![p].pc = "scan"]
    /\ UNCHANGED <<count, table, held, client, server, wire, calls>>

(* The first gap that fits; none is nullopt, offset 0. *)
ScanForGap(p) ==
    /\ op[p].kind = "alloc" /\ op[p].pc = "scan"
    /\ LET o == op[p] IN
         IF CanAllocate(table, o.n, o.size)
           THEN \E i \in 1..(o.n + 1) :
                  /\ FirstFit(table, o.n, o.size, i)
                  /\ op' = [op EXCEPT ![p].i = i, ![p].at = PrevEnd(table, i), ![p].pc = "move"]
           ELSE op' = [op EXCEPT ![p].pc = "done"]
    /\ UNCHANGED <<count, table, held, client, server, wire, calls>>

(* The entry to remove; none is not an error. *)
ScanForOffset(p) ==
    /\ op[p].kind = "free" /\ op[p].pc = "scan"
    /\ LET o == op[p] IN
         IF \E i \in 1..o.n : table[i].offset = o.at
           THEN \E i \in 1..o.n :
                  /\ FindOffset(table, o.n, o.at, i)
                  /\ op' = [op EXCEPT ![p].i = i, ![p].pc = "move"]
           ELSE op' = [op EXCEPT ![p].pc = "done"]
    /\ UNCHANGED <<count, table, held, client, server, wire, calls>>

(* memmove, and the new entry; the table is moved as one step. *)
MoveTable(p) ==
    /\ op[p].pc = "move"
    /\ LET o == op[p] IN
         /\ table' = IF o.kind = "alloc"
                       THEN InsertAt(table, o.n, o.i, [offset |-> o.at, length |-> o.size])
                       ELSE RemoveAt(table, o.n, o.i)
         /\ op' = [op EXCEPT ![p].old = table, ![p].pc = "store"]
    /\ UNCHANGED <<count, held, client, server, wire, calls>>

(* The count is not stored: the table is moved, and num_allocs stays. *)
Bug_StoresOldCount(p) ==
    /\ op[p].pc = "store"
    /\ LET o == op[p]
           r == [offset |-> o.at, length |-> o.size]
       IN  held' = IF o.kind = "alloc" THEN held \cup {r} ELSE held \ {r}
    /\ op' = [op EXCEPT ![p].pc = "done"]
    /\ UNCHANGED <<count, table, client, server, wire, calls>>

(* set_num_allocs().  A reservation becomes a pointer here, or ends to be  *)
(* one: nobody else can name the region in between.                        *)
StoreCount(p) ==
    /\ op[p].pc = "store"
    /\ LET o == op[p]
           r == [offset |-> o.at, length |-> o.size]
       IN  /\ count' = IF o.kind = "alloc" THEN o.n + 1 ELSE o.n - 1
           /\ held' = IF o.kind = "alloc" THEN held \cup {r} ELSE held \ {r}
    /\ op' = [op EXCEPT ![p].pc = "done"]
    /\ UNCHANGED <<table, client, server, wire, calls>>

HeaderStep(p) == ReadCount(p) \/ ScanForGap(p) \/ ScanForOffset(p) \/ MoveTable(p) \/ StoreCount(p)

(* maybe_write_to_shm() after its allocation: the batch in the region, or  *)
(* inline when there was no gap.                                           *)
WriteBatch(p, channel, kind) ==
    LET o == op[p]
        r == [offset |-> o.at, length |-> o.size]
    IN  channel' = Append(channel, Batch(kind, IF o.at = 0 THEN NoRegion ELSE r))

-----------------------------------------------------------------------------
(* The client. *)
Turn == client.plan[client.turn]

(* open_exchange() and its request. *)
Open(plan) ==
    /\ client.pc = "idle" /\ calls < MaxCalls
    /\ client' = [pc |-> "ready", plan |-> plan, turn |-> 1]
    /\ c2s' = Append(c2s, Batch("request", NoRegion))
    /\ calls' = calls + 1
    /\ UNCHANGED <<count, table, held, op, server, s2c>>

(* exchange()/tick(): a small input goes inline, a large one reserves. *)
SendInline ==
    /\ client.pc = "ready" /\ client.turn <= Len(client.plan) /\ Turn.in = 0
    /\ c2s' = Append(c2s, Batch("batch", NoRegion))
    /\ client' = [client EXCEPT !.pc = "wait"]
    /\ UNCHANGED <<count, table, held, op, server, s2c, calls>>

ReserveInput ==
    /\ client.pc = "ready" /\ client.turn <= Len(client.plan) /\ Turn.in > 0
    /\ BeginAlloc("client", Turn.in)
    /\ client' = [client EXCEPT !.pc = "allocating"]
    /\ UNCHANGED <<count, table, held, server, wire, calls>>

SendReserved ==
    /\ client.pc = "allocating" /\ Done("client")
    /\ WriteBatch("client", c2s, "batch")
    /\ op' = [op EXCEPT !["client"] = NoOp]
    /\ client' = [client EXCEPT !.pc = "wait"]
    /\ UNCHANGED <<count, table, held, server, s2c, calls>>

(* The next turn is sent before the region of this one is freed. *)
Bug_FreesAfterNextTurn ==
    /\ client.pc = "wait" /\ s2c # <<>>
    /\ LET m == Head(s2c) IN
         CASE m.kind = "batch" /\ m.ptr # NoRegion ->
                /\ BeginFree("client", m.ptr)
                /\ client' = [client EXCEPT !.pc = IF client.turn < Len(client.plan)
                                                     THEN "wait" ELSE "freeing",
                                            !.turn = client.turn + 1]
                /\ c2s' = IF client.turn < Len(client.plan)
                            THEN Append(c2s, Batch("batch", NoRegion)) ELSE c2s
           [] m.kind = "batch" /\ m.ptr = NoRegion ->
                /\ client' = [client EXCEPT !.pc = "ready", !.turn = client.turn + 1]
                /\ UNCHANGED <<op, c2s>>
           [] OTHER -> client' = [client EXCEPT !.pc = "finished"] /\ UNCHANGED <<op, c2s>>
    /\ s2c' = Tail(s2c)
    /\ UNCHANGED <<count, table, held, server, calls>>

(* read_next_data() and resolve_data(): a pointer is copied out of the     *)
(* segment and its region freed before the caller gets the batch.  An      *)
(* error batch is read and the output drained up to its end.               *)
Receive ==
    /\ client.pc = "wait" /\ s2c # <<>>
    /\ LET m == Head(s2c) IN
         CASE m.kind = "batch" /\ m.ptr # NoRegion ->
                /\ BeginFree("client", m.ptr)
                /\ client' = [client EXCEPT !.pc = "freeing"]
           [] m.kind = "batch" /\ m.ptr = NoRegion ->
                /\ client' = [client EXCEPT !.pc = "ready", !.turn = client.turn + 1]
                /\ UNCHANGED op
           [] m.kind = "eos" -> client' = [client EXCEPT !.pc = "finished"] /\ UNCHANGED op
    /\ s2c' = Tail(s2c)
    /\ UNCHANGED <<count, table, held, server, c2s, calls>>

Freed ==
    /\ client.pc = "freeing" /\ Done("client")
    /\ op' = [op EXCEPT !["client"] = NoOp]
    /\ client' = [client EXCEPT !.pc = "ready", !.turn = client.turn + 1]
    /\ UNCHANGED <<count, table, held, server, wire, calls>>

(* close(): the input is ended, then the output drained up to its end.     *)
(* After the end there is nothing left to drain.                           *)
Close ==
    /\ client.pc \in {"ready", "finished"}
    /\ c2s' = Append(c2s, Batch("eos", NoRegion))
    /\ client' = [client EXCEPT !.pc = IF client.pc = "ready" THEN "draining" ELSE "idle"]
    /\ UNCHANGED <<count, table, held, op, server, s2c, calls>>

(* cancel(): a cancel batch first, and the input ended after the drain. *)
Cancel ==
    /\ client.pc = "ready"
    /\ c2s' = Append(c2s, Batch("cancel", NoRegion))
    /\ client' = [client EXCEPT !.pc = "cancelling"]
    /\ UNCHANGED <<count, table, held, op, server, s2c, calls>>

(* drain_output().  The server answers a turn or ends: a value is never    *)
(* still on its way when the caller closes, so only the end is met here.   *)
Drain ==
    /\ client.pc \in {"draining", "cancelling"} /\ s2c # <<>>
    /\ Head(s2c).kind = "eos"
    /\ s2c' = Tail(s2c)
    /\ c2s' = IF client.pc = "cancelling" THEN Append(c2s, Batch("eos", NoRegion)) ELSE c2s
    /\ client' = [client EXCEPT !.pc = "idle"]
    /\ UNCHANGED <<count, table, held, op, server, calls>>

-----------------------------------------------------------------------------
(* The server. *)
ServeRequest ==
    /\ server.pc = "idle" /\ c2s # <<>>
    /\ c2s' = Tail(c2s)
    /\ server' = [pc |-> "read", turn |-> 0, input |-> NoRegion, then |-> "go"]
    /\ UNCHANGED <<count, table, held, op, client, s2c, calls>>

(* ReadNext and resolve_shm_batch(): the input is copied out; its region   *)
(* stays reserved until the answer has been flushed.                       *)
ReadInput ==
    /\ server.pc = "read" /\ c2s # <<>>
    /\ LET m == Head(c2s) IN
         server' = IF m.kind = "batch" THEN [server EXCEPT !.pc = "process", !.turn = @ + 1, !.input = m.ptr]
                   ELSE IF m.kind = "eos" THEN [server EXCEPT !.pc = "closing", !.then = "ended"]
                   ELSE [server EXCEPT !.pc = "closing"]
    /\ c2s' = Tail(c2s)
    /\ UNCHANGED <<count, table, held, op, client, s2c, calls>>

(* What the method does in the turn it is asked for. *)
Served == client.plan[server.turn]

(* process() returned. *)
Process ==
    /\ server.pc = "process" /\ Served.then # "raise"
    /\ IF Served.out = 0
         THEN /\ s2c' = Append(s2c, Batch("batch", NoRegion))
              /\ server' = [server EXCEPT !.pc = "flushed", !.then = Served.then]
              /\ UNCHANGED op
         ELSE /\ BeginAlloc("server", Served.out)
              /\ server' = [server EXCEPT !.pc = "allocating", !.then = Served.then]
              /\ UNCHANGED s2c
    /\ UNCHANGED <<count, table, held, client, c2s, calls>>

(* process() or the coercion before it threw: an error batch, which here   *)
(* is one with the end of the output that follows it.  The region of the   *)
(* input is not released.                                                  *)
ProcessRaises ==
    /\ server.pc = "process" /\ Served.then = "raise"
    /\ server' = [server EXCEPT !.pc = "closing", !.input = NoRegion]
    /\ UNCHANGED <<count, table, held, op, client, wire, calls>>

(* The answer is on the pipe: from here on the client runs too. *)
Flush ==
    /\ server.pc = "allocating" /\ Done("server")
    /\ WriteBatch("server", s2c, "batch")
    /\ op' = [op EXCEPT !["server"] = NoOp]
    /\ server' = [server EXCEPT !.pc = "flushed"]
    /\ UNCHANGED <<count, table, held, client, c2s, calls>>

NextTurn == IF server.then = "finish" THEN "closing" ELSE "read"

(* An inline answer, or a region that is never given back. *)
Bug_InputNotFreed ==
    /\ server.pc = "flushed"
    /\ server' = [server EXCEPT !.pc = NextTurn, !.input = NoRegion]
    /\ UNCHANGED <<count, table, held, op, client, wire, calls>>

(* Only now is the region of the input freed. *)
FreeInput ==
    /\ server.pc = "flushed"
    /\ IF server.input # NoRegion
         THEN BeginFree("server", server.input) /\ server' = [server EXCEPT !.pc = "freeing"]
         ELSE server' = [server EXCEPT !.pc = NextTurn] /\ UNCHANGED op
    /\ UNCHANGED <<count, table, held, client, wire, calls>>

InputFreed ==
    /\ server.pc = "freeing" /\ Done("server")
    /\ op' = [op EXCEPT !["server"] = NoOp]
    /\ server' = [server EXCEPT !.pc = NextTurn, !.input = NoRegion]
    /\ UNCHANGED <<count, table, held, client, wire, calls>>

(* The input drained without the output ended. *)
Bug_ClosesWithoutEnd ==
    /\ server.pc = "closing"
    /\ server' = [server EXCEPT !.pc = IF server.then = "ended" THEN "idle" ELSE "draining"]
    /\ UNCHANGED <<count, table, held, op, client, wire, calls>>

(* The output is closed, then the rest of the input is drained. *)
CloseOutput ==
    /\ server.pc = "closing"
    /\ s2c' = Append(s2c, Batch("eos", NoRegion))
    /\ server' = [server EXCEPT !.pc = IF server.then = "ended" THEN "idle" ELSE "draining"]
    /\ UNCHANGED <<count, table, held, op, client, c2s, calls>>

DrainInput ==
    /\ server.pc = "draining" /\ c2s # <<>>
    /\ c2s' = Tail(c2s)
    /\ server' = [server EXCEPT !.pc = IF Head(c2s).kind = "eos" THEN "idle" ELSE "draining"]
    /\ UNCHANGED <<count, table, held, op, client, s2c, calls>>

-----------------------------------------------------------------------------
ClientStep ==
    \/ SendInline \/ ReserveInput \/ SendReserved \/ Receive \/ Freed \/ Drain
    \/ Close \/ Cancel
    \/ HeaderStep("client")

ServerStep ==
    \/ ServeRequest \/ ReadInput \/ Process \/ ProcessRaises \/ Flush \/ FreeInput
    \/ InputFreed \/ CloseOutput \/ DrainInput \/ HeaderStep("server")

ExchangeNext == (\E plan \in Streams : Open(plan)) \/ ClientStep \/ ServerStep

ExchangeSpec == ExchangeInit /\ [][ExchangeNext]_exvars
(* Each process keeps running the call it is in. *)
FairExchange == ExchangeSpec /\ WF_exvars(ClientStep) /\ WF_exvars(ServerStep)

-----------------------------------------------------------------------------
(* A workload that uses the segment in one direction at a time: a turn     *)
(* with a large input is answered inline, does not raise and is not        *)
(* followed by another.  The server frees the input after its answer, when *)
(* the client is already on its way, and not at all when process() raises. *)
(* Nothing in the code keeps an application to it: the properties below    *)
(* are what the code does for workloads of this kind only.                 *)
OneDirection ==
    \A s \in Streams : \A i \in 1..Len(s) : s[i].in > 0 =>
       /\ s[i].out = 0 /\ s[i].then = "go"
       /\ i < Len(s) => s[i + 1].in = 0

-----------------------------------------------------------------------------
(* Properties. *)

(* The turns of the lockstep protocol keep the two processes out of the    *)
(* header at the same time, although nothing locks it.                     *)
HeaderExclusive == op["client"].kind = "none" \/ op["server"].kind = "none"

(* Once a call is over no allocation is left in the segment: both sides    *)
(* freed what they resolved (live_allocations() is 0 after close()).  It   *)
(* holds with OneDirection; a turn that is large both ways violates it.    *)
NothingLeaked == client.pc = "idle" => count = 0

(* Every call a client opens comes to its end. *)
CallsEnd == (client.pc # "idle") ~> (client.pc = "idle")

(* The table as it was before the operation that is about to commit. *)
CommittedTable ==
    IF \E p \in Procs : op[p].pc = "store"
      THEN (CHOOSE o \in {op[p] : p \in Procs} : o.pc = "store").old
      ELSE table

Atomic == INSTANCE ShmSegment WITH table <- CommittedTable

(* The unlocked, stepwise operations implement the atomic allocator of     *)
(* ShmSegment: allocations and frees take effect one at a time, as long as *)
(* the workload is one of OneDirection.                                    *)
ImplementsAllocator == Atomic!Spec

=============================================================================
