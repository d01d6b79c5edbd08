-------------------------- MODULE SocketPoolProofs --------------------------
(***************************************************************************)
(* The listener and its pool are correct for every configuration, every    *)
(* number of peers and of descriptors.  PermitsMatch and DescriptorsOwned  *)
(* rest on each other, and on where a descriptor can be: with the          *)
(* accepting thread, pending, or with one worker (PlacesInv); a connection *)
(* is open on one descriptor, and not before it is accepted (ConnInv).     *)
(* IdleExitIsIdle needs what may happen between the snapshot and the       *)
(* decision (IdleInv), SetupBounded that the worker's own clock never runs *)
(* ahead of the connection's (SetupInv).                                   *)
(***************************************************************************)
EXTENDS SocketPool, TLAPS, FiniteSetTheorems, SequenceTheorems

(* A worker that has a connection. *)
Busy(w) == worker[w].pc \notin {"wait", "exited"}

Pending(f) == \E i \in 1..Len(pool.pending) : pool.pending[i] = f

(* Where descriptors of connections are. *)
PlacesInv ==
    /\ \A w \in Workers : IF Busy(w) THEN worker[w].fd \in pool.active ELSE worker[w].fd = NoFd
    /\ \A f \in pool.active : \E w \in Workers : Busy(w) /\ worker[w].fd = f
    /\ \A v, w \in Workers : v # w /\ Busy(v) => worker[v].fd # worker[w].fd
    /\ \A i, j \in 1..Len(pool.pending) : i # j => pool.pending[i] # pool.pending[j]
    /\ IF main.pc = "submit" THEN main.fd \in Fds ELSE main.fd = NoFd
    /\ \A f \in Fds : f \in pool.active => ~Pending(f) /\ f # main.fd
    /\ \A f \in Fds : Pending(f) => f # main.fd
    /\ \A f \in Fds : owner[f] \in Conns <=> f \in pool.active \/ Pending(f) \/ f = main.fd

(* Which connections descriptors are of. *)
ConnInv ==
    /\ \A f, g \in Fds : f # g /\ owner[f] \in Conns => owner[f] # owner[g]
    /\ \A f \in Fds : owner[f] \in Conns => owner[f] <= Len(peer) /\ closes[owner[f]] = 0
    /\ \A i, j \in 1..Len(backlog) : i # j => backlog[i] # backlog[j]
    /\ \A i \in 1..Len(backlog) : /\ backlog[i] <= Len(peer) /\ closes[backlog[i]] = 0
                                  /\ \A f \in Fds : owner[f] # backlog[i]
    /\ \A c \in Conns : closes[c] <= 1 /\ (c > Len(peer) => closes[c] = 0)

CountInv ==
    /\ IsFiniteSet(pool.active)
    /\ pool.admitted = Len(pool.pending) + Cardinality(pool.active)
    /\ pool.admitted <= MaximumAdmitted

(* What stop() and the accepted options leave true ever after. *)
PhaseInv ==
    /\ pool.stopping <=> main.pc \in {"join", "returned"}
    /\ pool.stopping => pool.pending = <<>>
    /\ main.pc = "returned" => \A w \in Workers : worker[w].pc = "exited"
    /\ main.pc \in {"open", "failed"} => pool.admitted = 0
    /\ main.pc \notin {"open", "failed"} /\ Tcp => opts.setup > 0

(* Only releases may happen between a snapshot and the decision on it, and *)
(* none when it saw no permits out; the pool's clock is reset by the       *)
(* release that drains it.                                                 *)
IdleInv ==
    /\ ~pool.stopping /\ pool.ever_admitted /\ pool.admitted = 0 => quiet >= drained
    /\ main.pc = "decide" =>
          /\ ~Tcp /\ main.snap.admitted = 0 => pool.admitted = 0
          /\ ~Tcp /\ main.snap.ever_admitted = pool.ever_admitted
    /\ main.why = "idle" =>
          /\ ~Tcp /\ main.pc \in {"close", "stop", "join", "returned"}
          /\ pool.admitted = 0 /\ (pool.ever_admitted => quiet >= opts.idle)

Trusts(f) == TrustedSender(peer[owner[f]].address, opts.trusted)

(* What a worker may say of a connection at each point of its setup. *)
SetupOK(k) ==
    /\ k.first => k.held <= opts.setup
    /\ k.pc = "resolve" => k.first /\ k.held = 0
    /\ k.first /\ k.pc \in {"prefix", "rest", "identity", "request"} => k.held <= age[owner[k.fd]]
    /\ ~k.first => k.pc \in {"request", "reply", "ended"}
    /\ k.pc = "reply" => ~k.first
    /\ opts.v2 /\ (k.pc \in {"prefix", "rest", "identity", "request", "reply"} \/ ~k.first) =>
          Trusts(k.fd)
    /\ opts.v2 /\ (k.pc \in {"identity", "request", "reply"} \/ ~k.first) => k.asserted # "none"

SetupInv ==
    Tcp => /\ \A c \in Conns : age[c] >= 0
           /\ \A w \in Workers : IF Busy(w) THEN SetupOK(worker[w]) ELSE worker[w].first

IndInv == TypeOK /\ PlacesInv /\ ConnInv /\ CountInv /\ PhaseInv /\ IdleInv /\ SetupInv

-----------------------------------------------------------------------------
(* The earlier and the later of two moments. *)
LEMMA MinOfTwo ==
    ASSUME NEW a \in Int, NEW b \in Int
    PROVE  /\ Min({a, b}) = IF a <= b THEN a ELSE b
           /\ Max({a, b}) = IF a <= b THEN b ELSE a
<1>1. PICK x \in {a, b} : \A y \in {a, b} : x =< y
  OBVIOUS
<1>2. Min({a, b}) \in {a, b} /\ \A y \in {a, b} : Min({a, b}) =< y
  BY <1>1 DEF Min
<1>3. PICK z \in {a, b} : \A y \in {a, b} : z >= y
  OBVIOUS
<1>4. Max({a, b}) \in {a, b} /\ \A y \in {a, b} : Max({a, b}) >= y
  BY <1>3 DEF Max
<1>5. Min({a, b}) = IF a <= b THEN a ELSE b
  BY <1>2
<1>6. Max({a, b}) = IF a <= b THEN b ELSE a
  BY <1>4
<1> QED  BY <1>5, <1>6

(* The numbers of connections and descriptors stay clear of the marks. *)
LEMMA Numbers ==
    /\ Conns \subseteq Nat \ {0} /\ Free \notin Conns /\ Other \notin Conns
    /\ Fds \subseteq Nat \ {0} /\ NoFd \notin Fds
    /\ Workers \subseteq Nat
    /\ \A o \in Options : 1..o.conns \subseteq Conns
<1>1. \A o \in Options : o.conns \in Nat /\ o.active \in Nat
  BY PoolAssumption
<1>2. MaxFds \in Nat
  BY PoolAssumption
<1>3. Fds \subseteq Nat \ {0} /\ NoFd \notin Fds
  BY <1>2 DEF Fds, NoFd
<1>4. Conns \subseteq Nat \ {0} /\ Workers \subseteq Nat
  BY <1>1 DEF Conns, Workers
<1>5. Free \notin Conns /\ Other \notin Conns
  BY <1>4 DEF Free, Other
<1>6. \A o \in Options : 1..o.conns \subseteq Conns
  BY DEF Conns
<1> QED  BY <1>3, <1>4, <1>5, <1>6

(* close() of descriptors of connections: each connection is closed once,  *)
(* because it is open on one descriptor.                                   *)
LEMMA ClosingKeepsConns ==
    ASSUME TypeOK, ConnInv, NEW S \in SUBSET Fds, CloseAll(S), UNCHANGED <<peer, backlog>>,
           \A f \in S : owner[f] \in Conns
    PROVE  /\ owner' \in [Fds -> Conns \cup {Free, Other}] /\ closes' \in [Conns -> Nat]
           /\ ConnInv'
<1>1. \A f \in Fds : owner'[f] = IF f \in S THEN Free ELSE owner[f]
  BY DEF CloseAll
<1>2. ASSUME NEW c \in Conns
      PROVE  closes'[c] = IF \E f \in S : owner[f] = c THEN closes[c] + 1 ELSE closes[c]
  <2> DEFINE T == {f \in S : owner[f] = c}
  <2>1. closes'[c] = closes[c] + Cardinality(T) /\ closes[c] \in Nat
    BY DEF CloseAll, TypeOK
  <2>2. CASE \E f \in S : owner[f] = c
    <3>1. PICK f \in S : owner[f] = c
      BY <2>2
    <3>2. T = {f}
      BY <3>1 DEF ConnInv
    <3> QED  BY <3>2, <2>1, <2>2, FS_Singleton
  <2>3. CASE ~\E f \in S : owner[f] = c
    <3>1. T = {}
      BY <2>3
    <3> QED  BY <3>1, <2>1, <2>3, FS_EmptySet
  <2> QED  BY <2>2, <2>3
<1>3. owner' \in [Fds -> Conns \cup {Free, Other}]
  BY DEF CloseAll, TypeOK
<1>4. closes' \in [Conns -> Nat]
  <2>1. DOMAIN closes' = Conns /\ closes' = [c \in Conns |-> closes'[c]]
    BY DEF CloseAll
  <2>2. \A c \in Conns : closes[c] \in Nat
    BY DEF TypeOK
  <2>3. \A c \in Conns : closes'[c] \in Nat
    BY <1>2, <2>2
  <2> QED  BY <2>1, <2>3
<1>5. Free \notin Conns
  BY Numbers
<1>6. \A f, g \in Fds : f # g /\ owner'[f] \in Conns => owner'[f] # owner'[g]
  BY <1>1, <1>5 DEF ConnInv
<1>7. \A f \in Fds : owner'[f] \in Conns => owner'[f] <= Len(peer) /\ closes'[owner'[f]] = 0
  BY <1>1, <1>2, <1>5 DEF ConnInv
<1>8. \A i \in 1..Len(backlog) : backlog[i] \in Conns
  BY DEF TypeOK
<1>9. \A i \in 1..Len(backlog) : /\ backlog[i] <= Len(peer) /\ closes'[backlog[i]] = 0
                                 /\ \A f \in Fds : owner'[f] # backlog[i]
  BY <1>1, <1>2, <1>5, <1>8 DEF ConnInv
<1>10. \A c \in Conns : closes'[c] <= 1 /\ (c > Len(peer) => closes'[c] = 0)
  <2> SUFFICES ASSUME NEW c \in Conns
               PROVE  closes'[c] <= 1 /\ (c > Len(peer) => closes'[c] = 0)
    OBVIOUS
  <2>1. CASE \E f \in S : owner[f] = c
    <3>1. closes[c] = 0 /\ c <= Len(peer) /\ c \in Nat /\ Len(peer) \in Nat
      BY <2>1, Numbers DEF ConnInv, TypeOK
    <3> QED  BY <3>1, <2>1, <1>2
  <2>2. CASE ~\E f \in S : owner[f] = c
    BY <2>2, <1>2 DEF ConnInv
  <2> QED  BY <2>1, <2>2
<1> QED  BY <1>3, <1>4, <1>6, <1>7, <1>9, <1>10 DEF ConnInv

-----------------------------------------------------------------------------
(* What worker_loop() keeps of a connection. *)
WorkerRecords ==
    [pc : Setup \cup {"wait", "request", "reply", "ended", "exited"}, fd : Fds \cup {NoFd},
     first : BOOLEAN, asserted : {"none", "iroh", "address"}, wait : Int, held : Int]

(* A step of one worker within its connection. *)
LEMMA WorkerMoves ==
    ASSUME IndInv, NEW w \in Workers, NEW k \in WorkerRecords, Busy(w),
           worker' = [worker EXCEPT ![w] = k], WorkerOnly,
           k.fd = worker[w].fd, k.pc \notin {"wait", "exited"}, Tcp => SetupOK(k)
    PROVE  IndInv'
<1> USE DEF IndInv, WorkerOnly
<1>1. TypeOK'
  BY DEF TypeOK, WorkerRecords
<1>2. \A v \in Workers : /\ worker'[v] = IF v = w THEN k ELSE worker[v]
                        /\ worker'[v].fd = worker[v].fd
                        /\ worker'[v].pc \notin {"wait", "exited"} <=> Busy(v)
  BY DEF TypeOK, Busy
<1>3. PlacesInv'
  <2>1. \A v \in Workers : Busy(v)' <=> Busy(v)
    BY <1>2 DEF Busy
  <2>2. \A f : Pending(f)' <=> Pending(f)
    BY DEF Pending
  <2> QED  BY <2>1, <2>2, <1>2 DEF PlacesInv
<1>4. ConnInv' /\ CountInv' /\ IdleInv'
  BY DEF ConnInv, CountInv, IdleInv, MaximumAdmitted, Tcp
<1>5. PhaseInv'
  BY <1>2 DEF PhaseInv, Busy, Tcp
<1>6. SetupInv'
  <2>1. Tcp' <=> Tcp
    BY DEF Tcp
  <2>2. ASSUME Tcp, NEW v \in Workers
        PROVE  IF Busy(v)' THEN SetupOK(worker[v])' ELSE worker'[v].first
    <3>1. CASE v = w
      BY <3>1, <2>2, <1>2 DEF SetupOK, Busy, Trusts
    <3>2. CASE v # w
      BY <3>2, <2>2, <1>2 DEF SetupInv, SetupOK, Busy, Trusts
    <3> QED  BY <3>1, <3>2
  <2> QED  BY <2>1, <2>2 DEF SetupInv
<1> QED  BY <1>1, <1>3, <1>4, <1>5, <1>6

(* The accepting thread moves on, and leaves the pool alone. *)
LEMMA MainMoves ==
    ASSUME IndInv, TypeOK', UNCHANGED <<opts, peer, owner, closes, pool, drained, quiet, worker, age>>,
           backlog' = backlog \/ backlog' = <<>>,
           main.pc # "submit", main'.pc # "submit", main'.fd = main.fd, PhaseInv', IdleInv'
    PROVE  IndInv'
<1> USE DEF IndInv
<1>1. PlacesInv'
  <2>1. (\A f : Pending(f)' <=> Pending(f)) /\ (\A w : Busy(w)' <=> Busy(w))
    BY DEF Pending, Busy
  <2> QED  BY <2>1 DEF PlacesInv
<1>2. ConnInv'
  <2>1. CASE backlog' = backlog
    BY <2>1 DEF ConnInv
  <2>2. CASE backlog' = <<>>
    BY <2>2 DEF ConnInv
  <2> QED  BY <2>1, <2>2
<1>3. CountInv'
  BY DEF CountInv, MaximumAdmitted
<1>4. SetupInv'
  BY DEF SetupInv, SetupOK, Trusts, Busy, Tcp
<1> QED  BY <1>1, <1>2, <1>3, <1>4

-----------------------------------------------------------------------------
(* What accept_loop() keeps between its steps. *)
MainRecords ==
    [pc : {"open", "failed", "wait", "decide", "poll", "accept", "submit", "close", "stop", "join",
           "returned"},
     fd : Fds \cup {NoFd}, why : {"none", "idle", "error"},
     snap : [admitted : Int, ever_admitted : BOOLEAN]]

(* The steps of the accepting thread that leave the pool alone. *)
LEMMA MainStepsKeep ==
    ASSUME IndInv, Open \/ Snapshot \/ Decide \/ Poll \/ AcceptFails \/ CloseListener \/ Join
    PROVE  IndInv'
<1> USE DEF IndInv
<1> DEFINE Same == UNCHANGED <<opts, peer, owner, shut, closes, pool, drained, quiet, worker, age>>
<1> USE DEF MainRecords
<1>0. /\ main \in MainRecords
      /\ pool.admitted \in Int /\ pool.ever_admitted \in BOOLEAN
      /\ opts \in Options /\ drained \in Int /\ quiet \in Int
  BY DEF TypeOK
<1>1. ASSUME Open  PROVE IndInv'
  <2>1. /\ main.pc = "open" /\ Same /\ backlog' = backlog
        /\ \/ main' = [main EXCEPT !.pc = "wait"] /\ (Tcp => TcpOptionsAccepted(opts))
           \/ main' = [main EXCEPT !.pc = "failed"]
    BY <1>1 DEF Open
  <2>2. Tcp /\ main'.pc = "wait" => opts.setup > 0
    BY <2>1, <1>0 DEF TcpOptionsAccepted
  <2>3. TypeOK'
    BY <2>1 DEF TypeOK
  <2>4. PhaseInv'
    BY <2>1, <2>2, <1>0 DEF PhaseInv, Tcp
  <2>5. IdleInv'
    BY <2>1, <1>0 DEF IdleInv, Tcp
  <2>6. main'.pc # "submit" /\ main'.fd = main.fd
    BY <2>1, <1>0
  <2> QED  BY <2>1, <2>3, <2>4, <2>5, <2>6, MainMoves
<1>2. ASSUME Snapshot  PROVE IndInv'
  <2>1. /\ main.pc = "wait" /\ Same /\ backlog' = backlog
        /\ \/ main' = [main EXCEPT !.pc = "accept"]
           \/ /\ ~Tcp
              /\ main' = [main EXCEPT !.pc = "decide",
                           !.snap = [admitted |-> pool.admitted, ever_admitted |-> pool.ever_admitted]]
    BY <1>2 DEF Snapshot
  <2> DEFINE s == [admitted |-> pool.admitted, ever_admitted |-> pool.ever_admitted]
  <2>a. /\ s \in [admitted : Int, ever_admitted : BOOLEAN]
        /\ s.admitted = pool.admitted /\ s.ever_admitted = pool.ever_admitted
    BY <1>0
  <2>b. /\ main' = [main EXCEPT !.pc = "accept"] \/ main' = [main EXCEPT !.pc = "decide", !.snap = s]
        /\ ~Tcp \/ main' = [main EXCEPT !.pc = "accept"]
    BY <2>1
  <2> HIDE DEF s
  <2>2. TypeOK'
    <3>1. [main EXCEPT !.pc = "decide"] \in MainRecords /\ [main EXCEPT !.pc = "accept"] \in MainRecords
      BY <1>0 DEF MainRecords
    <3>2. PICK k \in MainRecords : k = [main EXCEPT !.pc = "decide"]
      BY <3>1
    <3>3. [k EXCEPT !.snap = s] \in MainRecords
      BY <2>a DEF MainRecords
    <3>4. [main EXCEPT !.pc = "decide", !.snap = s] = [k EXCEPT !.snap = s]
      BY <3>2
    <3>5. main' \in MainRecords
      BY <2>b, <3>1, <3>3, <3>4
    <3> QED  BY <2>1, <3>5 DEF TypeOK, MainRecords
  <2>c. /\ main'.pc \in {"accept", "decide"} /\ main'.fd = main.fd /\ main'.why = main.why
        /\ main'.pc = "decide" => ~Tcp /\ main'.snap = s
    BY <2>b, <1>0
  <2>3. /\ main'.pc \in {"accept", "decide"} /\ main'.fd = main.fd /\ main'.why = main.why
        /\ main'.pc = "decide" => /\ ~Tcp /\ main'.snap.admitted = pool.admitted
                                  /\ main'.snap.ever_admitted = pool.ever_admitted
    BY <2>a, <2>c
  <2>4. PhaseInv'
    BY <2>1, <2>3, <1>0 DEF PhaseInv, Tcp
  <2>5. IdleInv'
    BY <2>1, <2>3, <1>0 DEF IdleInv, Tcp
  <2> QED  BY <2>1, <2>2, <2>3, <2>4, <2>5, MainMoves
<1>3. ASSUME Decide  PROVE IndInv'
  <2>1. /\ main.pc = "decide" /\ Same /\ backlog' = backlog
        /\ \/ main' = [main EXCEPT !.pc = "close", !.why = "idle"] /\ Expired(main.snap)
           \/ main' = [main EXCEPT !.pc = "poll"]
    BY <1>3 DEF Decide
  <2>2. TypeOK'
    BY <2>1, <1>0 DEF TypeOK
  <2>3. /\ main'.pc \in {"close", "poll"} /\ main'.fd = main.fd /\ ~pool.stopping /\ ~Tcp
        /\ main'.why = "idle" => main'.pc = "close" /\ Expired(main.snap)
    BY <2>1, <1>0 DEF PhaseInv, IdleInv
  <2>4. PhaseInv'
    BY <2>1, <2>3, <1>0 DEF PhaseInv, Tcp
  <2>5. opts.idle \in Int
    BY <2>3, <1>0, PoolAssumption DEF Tcp
  <2>6. main'.why = "idle" => pool.admitted = 0 /\ (pool.ever_admitted => quiet >= opts.idle)
    BY <2>1, <2>3, <2>5, <1>0 DEF IdleInv, Expired
  <2>7. IdleInv'
    BY <2>1, <2>3, <2>6, <1>0 DEF IdleInv, Tcp
  <2> QED  BY <2>1, <2>2, <2>3, <2>4, <2>7, MainMoves
<1>4. ASSUME Poll \/ AcceptFails \/ CloseListener  PROVE IndInv'
  <2>1. /\ Same /\ (backlog' = backlog \/ backlog' = <<>>)
        /\ \/ main.pc = "poll" /\ \E p \in {"accept", "wait"} : main' = [main EXCEPT !.pc = p]
           \/ main.pc = "accept" /\ main' = [main EXCEPT !.pc = "close", !.why = "error"]
           \/ main.pc = "close" /\ main' = [main EXCEPT !.pc = "stop"]
    BY <1>4 DEF Poll, AcceptFails, CloseListener
  <2>a. backlog' \in Seq(Conns)
    <3>1. backlog \in Seq(Conns) /\ <<>> \in Seq(Conns)
      BY EmptySeq DEF TypeOK
    <3> QED  BY <3>1, <2>1
  <2>b. main' \in [pc : {"open", "failed", "wait", "decide", "poll", "accept", "submit", "close",
                         "stop", "join", "returned"},
                   fd : Fds \cup {NoFd}, why : {"none", "idle", "error"},
                   snap : [admitted : Int, ever_admitted : BOOLEAN]]
    <3>1. CASE main.pc = "poll"
      BY <3>1, <2>1, <1>0
    <3>2. CASE main.pc = "accept"
      BY <3>2, <2>1, <1>0
    <3>3. CASE main.pc = "close"
      BY <3>3, <2>1, <1>0
    <3> QED  BY <2>1, <3>1, <3>2, <3>3
  <2>2. TypeOK'
    BY <2>1, <2>a, <2>b DEF TypeOK
  <2>3. /\ main.pc \in {"poll", "accept", "close"} /\ main'.pc \in {"accept", "wait", "close", "stop"}
        /\ main'.fd = main.fd
        /\ main'.why = "idle" => main.why = "idle" /\ (main.pc = "close" => main'.pc = "stop")
    BY <2>1, <1>0
  <2>4. PhaseInv'
    BY <2>1, <2>3, <1>0 DEF PhaseInv, Tcp
  <2>5. IdleInv'
    BY <2>1, <2>3, <1>0 DEF IdleInv, Tcp
  <2> QED  BY <2>1, <2>2, <2>3, <2>4, <2>5, MainMoves
<1>5. ASSUME Join  PROVE IndInv'
  <2>1. /\ main.pc = "join" /\ main' = [main EXCEPT !.pc = "returned"] /\ Same /\ backlog' = backlog
        /\ \A w \in Workers : worker[w].pc = "exited"
    BY <1>5 DEF Join
  <2>2. TypeOK'
    BY <2>1, <1>0 DEF TypeOK
  <2>3. main'.pc = "returned" /\ main'.fd = main.fd /\ main'.why = main.why
    BY <2>1, <1>0
  <2>4. PhaseInv'
    BY <2>1, <2>3, <1>0 DEF PhaseInv, Tcp
  <2>5. IdleInv'
    BY <2>1, <2>3, <1>0 DEF IdleInv, Tcp
  <2> QED  BY <2>1, <2>2, <2>3, <2>4, <2>5, MainMoves
<1> QED  BY <1>1, <1>2, <1>3, <1>4, <1>5

(* Moving on leaves a worker one. *)
LEMMA PcTyped ==
    ASSUME NEW r \in WorkerRecords,
           NEW p \in {"ended", "request", "identity", "prefix", "rest", "reply"}
    PROVE  [r EXCEPT !.pc = p] \in WorkerRecords
BY DEF WorkerRecords, Setup

(* Moving on after a wait, likewise. *)
LEMMA MovedTyped ==
    ASSUME NEW r \in WorkerRecords,
           NEW p \in {"ended", "request", "identity", "prefix", "rest", "reply"}
    PROVE  [r EXCEPT !.pc = p, !.wait = 0] \in WorkerRecords
<1>1. PICK q \in WorkerRecords : q = [r EXCEPT !.pc = p]
  BY PcTyped
<1>2. [r EXCEPT !.pc = p, !.wait = 0] = [q EXCEPT !.wait = 0]
  BY <1>1
<1>3. [q EXCEPT !.wait = 0] \in WorkerRecords
  BY DEF WorkerRecords
<1> QED  BY <1>2, <1>3

(* The steps of a worker within its connection. *)
LEMMA WorkerStepsKeep ==
    ASSUME IndInv, NEW w \in Workers,
           \/ Resolve(w) \/ IdentityResolved(w) \/ DeadlineEnds(w) \/ ShutdownEnds(w)
           \/ PeerReads(w) \/ PeerEnds(w)
    PROVE  IndInv'
<1> DEFINE k == worker[w]
           Moved(p) == [worker[w] EXCEPT !.pc = p, !.wait = 0]
<1>0. k \in WorkerRecords /\ worker \in [Workers -> WorkerRecords]
  BY DEF IndInv, TypeOK, WorkerRecords
<1>1. Tcp /\ Busy(w) => SetupOK(k)
  BY DEF IndInv, SetupInv
<1>2. PICK p : /\ worker' = [worker EXCEPT ![w] = Moved(p)] /\ WorkerOnly
               /\ \/ k.pc \in {"prefix", "rest", "identity", "request", "reply"} /\ p = "ended"
                  \/ k.pc = "reply" /\ p \in {"request", "reply"}
                  \/ k.pc = "identity" /\ p = "request"
                  \/ k.pc = "resolve" /\ p = "ended"
                  \/ k.pc = "resolve" /\ p = "identity" /\ ~opts.v2
                  \/ k.pc = "resolve" /\ p = "prefix" /\ Trusts(k.fd)
  <2>1. \A q : Goto(w, q) => worker' = [worker EXCEPT ![w] = Moved(q)]
    BY <1>0 DEF Goto, WorkerRecords
  <2>2. CASE Resolve(w)
    BY <2>2, <2>1 DEF Resolve, Trusts
  <2>3. CASE IdentityResolved(w)
    BY <2>3, <2>1 DEF IdentityResolved
  <2>4. CASE DeadlineEnds(w)
    <3>1. k.pc \in {"prefix", "rest", "identity", "request", "reply"}
      BY <2>4 DEF DeadlineEnds, Overdue
    <3> QED  BY <3>1, <2>4, <2>1 DEF DeadlineEnds
  <2>5. CASE ShutdownEnds(w) \/ PeerEnds(w)
    BY <2>5, <2>1 DEF ShutdownEnds, PeerEnds, Reading
  <2>6. CASE PeerReads(w)
    BY <2>6, <2>1 DEF PeerReads
  <2> QED  BY <2>2, <2>3, <2>4, <2>5, <2>6
<1>3. p \in {"ended", "request", "identity", "prefix", "reply"} /\ Busy(w)
  BY <1>2 DEF Busy
<1>4. Moved(p) \in WorkerRecords
  BY <1>0, <1>3, MovedTyped
<1>5. /\ Moved(p).pc = p /\ Moved(p).fd = k.fd /\ Moved(p).first = k.first
      /\ Moved(p).held = k.held /\ Moved(p).asserted = k.asserted
  BY <1>0 DEF WorkerRecords
<1>6. ASSUME Tcp  PROVE SetupOK(Moved(p))
  <2>1. SetupOK(k)
    BY <1>6, <1>1, <1>3
  <2>2. k.pc = "resolve" => k.held = 0 /\ age[owner[k.fd]] >= 0
    <3>1. k.fd \in Fds /\ owner[k.fd] \in Conns
      BY <1>3, Numbers DEF IndInv, PlacesInv, TypeOK
    <3> QED  BY <3>1, <2>1, <1>6 DEF SetupOK, IndInv, SetupInv
  <2> HIDE DEF k, Moved
  <2> QED  BY <2>1, <2>2, <1>2, <1>5 DEF SetupOK
<1> HIDE DEF Moved
<1> QED  BY <1>2, <1>3, <1>4, <1>5, <1>6, WorkerMoves

(* The peer sends a part of a request, the rest of it, or the preamble. *)
LEMMA PeerSendsKeeps ==
    ASSUME IndInv, NEW w \in Workers, PeerSends(w)
    PROVE  IndInv'
<1> DEFINE k == worker[w]
           r == PreambleRead(w, peer[owner[k.fd]].preamble)
<1>0. k \in WorkerRecords /\ worker \in [Workers -> WorkerRecords]
  BY DEF IndInv, TypeOK, WorkerRecords
<1>1. Tcp /\ k.pc \in {"prefix", "rest", "request"} /\ Busy(w) /\ WorkerOnly
  BY DEF PeerSends, Reading, Busy
<1>2. SetupOK(k)
  BY <1>1 DEF IndInv, SetupInv
<1>4. \/ worker' = [worker EXCEPT ![w] = [k EXCEPT !.wait = 0]]
      \/ /\ k.pc = "request"
         /\ worker' = [worker EXCEPT ![w] = [k EXCEPT !.pc = "reply", !.wait = 0, !.first = FALSE]]
      \/ k.pc # "request" /\ worker' = [worker EXCEPT ![w] = r]
  BY <1>0 DEF PeerSends, WorkerRecords
<1>5. ASSUME worker' = [worker EXCEPT ![w] = [k EXCEPT !.wait = 0]]
      PROVE  IndInv'
  <2> DEFINE m == [k EXCEPT !.wait = 0]
  <2>1. m \in WorkerRecords
    BY <1>0 DEF WorkerRecords
  <2>2. /\ m.pc = k.pc /\ m.fd = k.fd /\ m.first = k.first /\ m.held = k.held
        /\ m.asserted = k.asserted
    BY <1>0 DEF WorkerRecords
  <2>3. SetupOK(m)
    <3> HIDE DEF m, k
    <3> QED  BY <1>2, <2>2 DEF SetupOK
  <2>4. m.pc \notin {"wait", "exited"}
    BY <2>2, <1>1
  <2>5. worker' = [worker EXCEPT ![w] = m]
    BY <1>5
  <2> HIDE DEF m
  <2> QED  BY <2>1, <2>2, <2>3, <2>4, <2>5, <1>1, WorkerMoves
<1>6. ASSUME k.pc = "request",
             worker' = [worker EXCEPT ![w] = [k EXCEPT !.pc = "reply", !.wait = 0, !.first = FALSE]]
      PROVE  IndInv'
  <2> DEFINE m == [k EXCEPT !.pc = "reply", !.wait = 0, !.first = FALSE]
  <2>1. m \in WorkerRecords
    <3>2. PICK b \in WorkerRecords : b = [k EXCEPT !.pc = "reply", !.wait = 0]
      BY <1>0, MovedTyped
    <3>3. [b EXCEPT !.first = FALSE] \in WorkerRecords
      BY DEF WorkerRecords
    <3>4. m = [b EXCEPT !.first = FALSE]
      BY <3>2
    <3> QED  BY <3>3, <3>4
  <2>2. /\ m.pc = "reply" /\ m.fd = k.fd /\ m.first = FALSE /\ m.held = k.held
        /\ m.asserted = k.asserted
    BY <1>0 DEF WorkerRecords
  <2>3. SetupOK(m)
    <3> HIDE DEF m, k
    <3> QED  BY <1>2, <1>6, <2>2 DEF SetupOK
  <2>5. worker' = [worker EXCEPT ![w] = m]
    BY <1>6
  <2> HIDE DEF m
  <2> QED  BY <2>1, <2>2, <2>3, <2>5, <1>1, WorkerMoves
<1>7. ASSUME k.pc # "request", worker' = [worker EXCEPT ![w] = r]
      PROVE  IndInv'
  <2> DEFINE said == Asserts(peer[owner[k.fd]].preamble, opts.maxPreamble, opts.iroh)
  <2>a. said \in {"error", "iroh", "address"}
    BY DEF Asserts
  <2>b. \/ r = [k EXCEPT !.pc = "ended"]
        \/ k.pc = "prefix" /\ r = [k EXCEPT !.pc = "rest"]
        \/ /\ k.pc = "rest" /\ said # "error"
           /\ r = [k EXCEPT !.pc = "identity", !.wait = 0, !.asserted = said]
    BY <1>1, <1>7 DEF PreambleRead
  <2> HIDE DEF r, said
  <2>1. /\ r.pc \in {"ended", "rest", "identity"}
        /\ r.pc # "identity" => r.asserted = k.asserted
        /\ r.pc = "rest" => k.pc = "prefix"
        /\ r.pc = "identity" => r.asserted # "none"
    BY <2>a, <2>b, <1>0 DEF WorkerRecords
  <2>2. r \in WorkerRecords
    <3>1. CASE r = [k EXCEPT !.pc = "ended"]
      BY <3>1, <1>0 DEF WorkerRecords
    <3>2. CASE r = [k EXCEPT !.pc = "rest"]
      BY <3>2, <1>0 DEF WorkerRecords, Setup
    <3>3. CASE said # "error" /\ r = [k EXCEPT !.pc = "identity", !.wait = 0, !.asserted = said]
      <4>2. PICK b \in WorkerRecords : b = [k EXCEPT !.pc = "identity", !.wait = 0]
        BY <1>0, MovedTyped
      <4>3. [b EXCEPT !.asserted = said] \in WorkerRecords
        BY <3>3, <2>a DEF WorkerRecords
      <4> QED  BY <3>3, <4>2, <4>3
    <3> QED  BY <2>b, <3>1, <3>2, <3>3
  <2>3. /\ r.fd = k.fd /\ r.first = k.first /\ r.held = k.held
    BY <2>b, <1>0 DEF WorkerRecords
  <2>4. SetupOK(r)
    <3> HIDE DEF k
    <3> QED  BY <1>1, <1>2, <1>7, <2>1, <2>3 DEF SetupOK
  <2> QED  BY <1>7, <2>1, <2>2, <2>3, <2>4, <1>1, WorkerMoves
<1> QED  BY <1>4, <1>5, <1>6, <1>7

-----------------------------------------------------------------------------
(* Peers, the clock and other files. *)
LEMMA ConnectKeeps ==
    ASSUME IndInv, Connect
    PROVE  IndInv'
<1> USE DEF IndInv
<1> DEFINE n == Len(peer) + 1
<1>1. PICK p \in Peers[opts.kind] : peer' = Append(peer, p)
  BY DEF Connect
<1>2. /\ Len(peer) < opts.conns /\ backlog' = Append(backlog, n)
      /\ UNCHANGED <<opts, owner, shut, closes, pool, drained, quiet, age, worker, main>>
  BY DEF Connect
<1>3. /\ peer \in Seq(Peers[opts.kind]) /\ backlog \in Seq(Conns) /\ opts \in Options
      /\ closes \in [Conns -> Nat] /\ owner \in [Fds -> Conns \cup {Free, Other}]
  BY DEF TypeOK
<1>4. n \in Conns /\ n \in Nat /\ Len(peer) \in Nat
  <2>1. opts.conns \in Nat /\ Len(peer) \in Nat
    BY <1>3, PoolAssumption
  <2>2. n \in 1..opts.conns
    BY <1>2, <2>1
  <2>3. 1..opts.conns \subseteq Conns
    BY <1>3, Numbers
  <2> QED  BY <2>1, <2>2, <2>3
<1>5. peer' \in Seq(Peers[opts.kind]) /\ Len(peer') = n /\ \A i \in 1..Len(peer) : peer'[i] = peer[i]
  BY <1>1, <1>3
<1>6. /\ backlog' \in Seq(Conns) /\ Len(backlog') = Len(backlog) + 1 /\ Len(backlog) \in Nat
      /\ backlog'[Len(backlog) + 1] = n
      /\ \A i \in 1..Len(backlog) : backlog'[i] = backlog[i] /\ backlog[i] \in Conns
  <2> HIDE DEF n
  <2> QED  BY <1>2, <1>3, <1>4
<1> HIDE DEF n
<1>7. TypeOK'
  BY <1>2, <1>5, <1>6 DEF TypeOK
<1>8. \A c \in Conns : c <= Len(peer) => c < n /\ c # n /\ c <= Len(peer')
  <2>1. Conns \subseteq Nat
    BY Numbers
  <2> QED  BY <2>1, <1>4, <1>5 DEF n
<1>9. \A c \in Conns : c > Len(peer') \/ c = n => c > Len(peer)
  <2>1. Conns \subseteq Nat
    BY Numbers
  <2> QED  BY <2>1, <1>4, <1>5 DEF n
<1>10. ConnInv'
  <2>1. \A f \in Fds : owner[f] \in Conns => owner[f] <= Len(peer') /\ closes[owner[f]] = 0
    BY <1>8 DEF ConnInv
  <2>2. \A f \in Fds : owner[f] # n
    BY <1>4, <1>8 DEF ConnInv
  <2>3. closes[n] = 0 /\ n <= Len(peer')
    BY <1>4, <1>5, <1>9 DEF ConnInv
  <2>4. \A i \in 1..Len(backlog) : backlog[i] # n /\ backlog[i] <= Len(peer')
    BY <1>6, <1>8 DEF ConnInv
  <2>5. \A i \in 1..Len(backlog') : i \in 1..Len(backlog) \/ i = Len(backlog) + 1
    BY <1>6
  <2>6. \A i, j \in 1..Len(backlog') : i # j => backlog'[i] # backlog'[j]
    BY <2>4, <2>5, <1>6 DEF ConnInv
  <2>7. \A i \in 1..Len(backlog') : /\ backlog'[i] <= Len(peer') /\ closes[backlog'[i]] = 0
                                    /\ \A f \in Fds : owner[f] # backlog'[i]
    BY <2>2, <2>3, <2>4, <2>5, <1>6 DEF ConnInv
  <2>8. \A c \in Conns : closes[c] <= 1 /\ (c > Len(peer') => closes[c] = 0)
    BY <1>9 DEF ConnInv
  <2> QED  BY <2>1, <2>6, <2>7, <2>8, <1>2 DEF ConnInv
<1>11. PlacesInv' /\ CountInv' /\ PhaseInv' /\ IdleInv'
  <2>1. (\A f : Pending(f)' <=> Pending(f)) /\ (\A w : Busy(w)' <=> Busy(w))
    BY <1>2 DEF Pending, Busy
  <2>2. PlacesInv'
    BY <2>1, <1>2 DEF PlacesInv
  <2> QED  BY <2>2, <1>2 DEF CountInv, PhaseInv, IdleInv, MaximumAdmitted, Tcp
<1>12. SetupInv'
  <2>1. ASSUME NEW w \in Workers, Busy(w)
        PROVE  Trusts(worker[w].fd)' <=> Trusts(worker[w].fd)
    <3>1. worker[w].fd \in Fds /\ owner[worker[w].fd] \in Conns
      BY <2>1 DEF PlacesInv, TypeOK
    <3>2. owner[worker[w].fd] \in 1..Len(peer)
      <4>1. owner[worker[w].fd] <= Len(peer)
        BY <3>1 DEF ConnInv
      <4>2. owner[worker[w].fd] \in Nat \ {0}
        BY <3>1, Numbers
      <4> QED  BY <4>1, <4>2, <1>4
    <3> QED  BY <3>2, <1>2, <1>5 DEF Trusts
  <2>2. ASSUME Tcp, NEW w \in Workers
        PROVE  IF Busy(w)' THEN SetupOK(worker[w])' ELSE worker'[w].first
    BY <2>1, <2>2, <1>2 DEF SetupInv, SetupOK, Busy
  <2> QED  BY <2>2, <1>2 DEF SetupInv, Tcp
<1> QED  BY <1>7, <1>10, <1>11, <1>12

(* The bounds of the clocks. *)
LEMMA ClockBounds ==
    ASSUME opts \in Options
    PROVE  /\ MaxIdle \in Int /\ MaxSetup \in Int /\ MaxWait \in Int
           /\ ~Tcp => opts.idle \in Int /\ opts.idle <= MaxIdle
           /\ Tcp => MaxSetup = opts.setup /\ opts.setup \in Int
<1>1. opts.kind \in {"unix", "tcp"}
  BY PoolAssumption
<1>2. CASE Tcp
  <2>1. \A t \in {opts.setup, opts.preamble, opts.identity, opts.idleRead, opts.write} : t \in Int
    BY <1>2, PoolAssumption DEF Tcp
  <2> DEFINE S == {opts.preamble, opts.identity, opts.idleRead, opts.write}
  <2>2. \E x \in S : \A y \in S : x >= y
    BY <2>1
  <2>3. Max(S) \in S
    BY <2>2 DEF Max
  <2>4. Max(S) \in Int
    BY <2>1, <2>3
  <2> QED  BY <1>2, <2>1, <2>4 DEF MaxIdle, MaxSetup, MaxWait
<1>3. CASE ~Tcp
  <2>1. opts.idle \in Int /\ opts.grace \in Int
    BY <1>1, <1>3, PoolAssumption DEF Tcp
  <2>2. Max({opts.idle, opts.grace}) \in Int /\ opts.idle <= Max({opts.idle, opts.grace})
    <3>1. Max({opts.idle, opts.grace}) = IF opts.idle <= opts.grace THEN opts.grace ELSE opts.idle
      BY <2>1, MinOfTwo
    <3> QED  BY <2>1, <3>1
  <2> QED  BY <1>3, <2>1, <2>2 DEF MaxIdle, MaxSetup, MaxWait
<1> QED  BY <1>2, <1>3

(* A descriptor of a connection is only open once the options are accepted. *)
LEMMA OwnedThenOpen ==
    ASSUME IndInv, NEW f \in Fds, owner[f] \in Conns
    PROVE  main.pc \notin {"open", "failed"}
<1> SUFFICES ASSUME main.pc \in {"open", "failed"}  PROVE FALSE
  OBVIOUS
<1>1. pool.admitted = 0 /\ pool.pending \in Seq(Fds) /\ Len(pool.pending) \in Nat
  BY DEF IndInv, PhaseInv, TypeOK
<1>2. Cardinality(pool.active) \in Nat
  BY FS_CardinalityType DEF IndInv, CountInv
<1>3. Len(pool.pending) = 0 /\ Cardinality(pool.active) = 0
  BY <1>1, <1>2 DEF IndInv, CountInv
<1>4. pool.active = {}
  BY <1>3, FS_EmptySet DEF IndInv, CountInv
<1>5. ~Pending(f)
  BY <1>3 DEF Pending
<1>6. main.fd = NoFd /\ NoFd \notin Fds
  BY Numbers DEF IndInv, PlacesInv
<1> QED  BY <1>4, <1>5, <1>6 DEF IndInv, PlacesInv

(* The clock ticks for every step that waits, up to the limit it waits for. *)
LEMMA TickKeeps ==
    ASSUME IndInv, Tick
    PROVE  IndInv'
<1> USE DEF IndInv
<1> DEFINE Still == {"wait", "resolve", "ended", "exited"}
           a(v) == Min({worker[v].wait + 1, MaxWait})
           h(v) == IF Tcp /\ worker[v].first THEN Min({worker[v].held + 1, MaxSetup + 1})
                   ELSE worker[v].held
<1>1. /\ UNCHANGED <<opts, peer, backlog, owner, shut, closes, pool, main>>
      /\ drained' = Min({drained + 1, MaxIdle}) /\ quiet' = Min({quiet + 1, MaxIdle})
      /\ age' = [c \in Conns |-> IF \E f \in Fds : owner[f] = c THEN Min({age[c] + 1, MaxSetup}) ELSE age[c]]
      /\ worker' = [v \in Workers |-> IF worker[v].pc \in Still THEN worker[v]
                                      ELSE [worker[v] EXCEPT !.wait = a(v), !.held = h(v)]]
  BY DEF Tick
<1>2. /\ opts \in Options /\ drained \in Int /\ quiet \in Int /\ age \in [Conns -> Int]
      /\ worker \in [Workers -> WorkerRecords]
  BY DEF TypeOK, WorkerRecords
<1>3. /\ MaxIdle \in Int /\ MaxSetup \in Int /\ MaxWait \in Int
      /\ ~Tcp => opts.idle \in Int /\ opts.idle <= MaxIdle
      /\ Tcp => MaxSetup = opts.setup /\ opts.setup \in Int
  BY <1>2, ClockBounds
<1>4. ASSUME NEW v \in Workers
      PROVE  /\ a(v) \in Int /\ h(v) \in Int /\ h(v) <= worker[v].held + 1
  <2>1. worker[v].wait + 1 \in Int /\ worker[v].held \in Int /\ worker[v].held + 1 \in Int
    BY <1>2 DEF WorkerRecords
  <2>2. a(v) \in Int
    BY <2>1, <1>3, MinOfTwo
  <2>3. MaxSetup + 1 \in Int
    BY <1>3
  <2>4. /\ Min({worker[v].held + 1, MaxSetup + 1}) \in Int
        /\ Min({worker[v].held + 1, MaxSetup + 1}) <= worker[v].held + 1
    BY <2>1, <2>3, MinOfTwo
  <2> QED  BY <2>1, <2>2, <2>4
<1> HIDE DEF a, h
<1>5. ASSUME NEW v \in Workers
      PROVE  /\ worker'[v] \in WorkerRecords
             /\ worker'[v].pc = worker[v].pc /\ worker'[v].fd = worker[v].fd
             /\ worker'[v].first = worker[v].first /\ worker'[v].asserted = worker[v].asserted
             /\ IF worker[v].pc \in Still THEN worker'[v].held = worker[v].held
                ELSE worker'[v].held <= worker[v].held + 1
  <2>1. worker[v] \in WorkerRecords
    BY <1>2
  <2>2. CASE worker[v].pc \in Still
    BY <2>2, <2>1, <1>1
  <2>3. CASE worker[v].pc \notin Still
    <3>1. worker'[v] = [worker[v] EXCEPT !.wait = a(v), !.held = h(v)]
      BY <2>3, <1>1
    <3>2. worker'[v] \in WorkerRecords
      BY <3>1, <2>1, <1>4 DEF WorkerRecords
    <3> QED  BY <3>1, <3>2, <2>1, <2>3, <1>4 DEF WorkerRecords
  <2> QED  BY <2>2, <2>3
<1>6. /\ drained' = IF drained + 1 <= MaxIdle THEN drained + 1 ELSE MaxIdle
      /\ quiet' = IF quiet + 1 <= MaxIdle THEN quiet + 1 ELSE MaxIdle
      /\ drained' \in Int /\ quiet' \in Int
  <2>1. drained + 1 \in Int /\ quiet + 1 \in Int
    BY <1>2
  <2>2. /\ Min({drained + 1, MaxIdle}) = IF drained + 1 <= MaxIdle THEN drained + 1 ELSE MaxIdle
        /\ Min({quiet + 1, MaxIdle}) = IF quiet + 1 <= MaxIdle THEN quiet + 1 ELSE MaxIdle
    BY <2>1, <1>3, MinOfTwo
  <2> QED  BY <2>1, <2>2, <1>1, <1>3
<1>7. ASSUME NEW c \in Conns
      PROVE  age'[c] \in Int
  <2>1. age[c] \in Int /\ age[c] + 1 \in Int
    BY <1>2
  <2> QED  BY <2>1, <1>1, <1>3, MinOfTwo
<1>8. TypeOK'
  <2>1. age' \in [Conns -> Int]
    BY <1>1, <1>7
  <2>2. worker' \in [Workers -> WorkerRecords]
    <3>1. worker' = [v \in Workers |-> worker'[v]]
      BY <1>1
    <3> QED  BY <3>1, <1>5
  <2> QED  BY <2>1, <2>2, <1>1, <1>6 DEF TypeOK, WorkerRecords
<1>9. PlacesInv' /\ ConnInv' /\ CountInv'
  <2>1. (\A f : Pending(f)' <=> Pending(f)) /\ (\A v \in Workers : Busy(v)' <=> Busy(v))
    BY <1>1, <1>5 DEF Pending, Busy
  <2>3. \A v \in Workers : worker'[v].fd = worker[v].fd
    BY <1>5
  <2>4. UNCHANGED <<owner, pool, main>>
    BY <1>1
  <2>2. PlacesInv'
    BY <2>1, <2>3, <2>4 DEF PlacesInv
  <2> QED  BY <2>2, <1>1 DEF ConnInv, CountInv, MaximumAdmitted
<1>10. PhaseInv'
  BY <1>1, <1>5 DEF PhaseInv, Tcp
<1>11. IdleInv'
  <2>1. quiet' >= drained' \/ ~(quiet >= drained)
    BY <1>2, <1>3, <1>6
  <2>2. ~Tcp /\ quiet >= opts.idle => quiet' >= opts.idle
    BY <1>2, <1>3, <1>6
  <2> QED  BY <2>1, <2>2, <1>1 DEF IdleInv, Tcp
<1>12. ASSUME Tcp, NEW f \in Fds, owner[f] \in Conns
       PROVE  /\ age[owner[f]] \in Int /\ opts.setup \in Int
              /\ age'[owner[f]] >= 0
              /\ age[owner[f]] < opts.setup => age'[owner[f]] = age[owner[f]] + 1
  <2>1. opts.setup > 0
    BY <1>12, OwnedThenOpen DEF PhaseInv
  <2>2. age[owner[f]] \in Int /\ age[owner[f]] + 1 \in Int /\ age[owner[f]] >= 0
    BY <1>2, <1>12 DEF SetupInv
  <2>3. age'[owner[f]] = Min({age[owner[f]] + 1, opts.setup})
    BY <1>1, <1>3, <1>12
  <2>4. age'[owner[f]] = IF age[owner[f]] + 1 <= opts.setup THEN age[owner[f]] + 1 ELSE opts.setup
    BY <2>2, <2>3, <1>3, <1>12, MinOfTwo
  <2> QED  BY <2>1, <2>2, <2>4, <1>3, <1>12
<1>13. SetupInv'
  <2> SUFFICES ASSUME Tcp
               PROVE  /\ \A c \in Conns : age'[c] >= 0
                      /\ \A w \in Workers : IF Busy(w)' THEN SetupOK(worker[w])' ELSE worker'[w].first
    BY <1>1 DEF SetupInv, Tcp
  <2>1. ASSUME NEW c \in Conns  PROVE age'[c] >= 0
    <3>1. CASE \E f \in Fds : owner[f] = c
      BY <3>1, <1>12
    <3>2. CASE ~\E f \in Fds : owner[f] = c
      BY <3>2, <1>1 DEF SetupInv
    <3> QED  BY <3>1, <3>2
  <2>2. ASSUME NEW w \in Workers, Busy(w)  PROVE SetupOK(worker[w])'
    <3>1. SetupOK(worker[w]) /\ worker[w].fd \in Fds /\ owner[worker[w].fd] \in Conns
      BY <2>2 DEF SetupInv, PlacesInv, TypeOK
    <3>2. Trusts(worker[w].fd)' <=> Trusts(worker[w].fd)
      BY <1>1, <1>5 DEF Trusts
    <3>3. worker[w].held \in Int /\ worker'[w].held \in Int
      BY <1>2, <1>5 DEF WorkerRecords
    <3>4. ASSUME worker[w].first, worker[w].pc \in {"prefix", "rest", "identity", "request"}
          PROVE  worker'[w].held <= age'[owner[worker[w].fd]] /\ worker'[w].held <= opts.setup
      <4>1. ~(age[owner[worker[w].fd]] >= opts.setup)
        <5>1. worker[w].fd # NoFd /\ ~Overdue(w)
          BY <3>1, Numbers DEF Tick
        <5> QED  BY <5>1, <3>4 DEF Overdue
      <4>2. worker'[w].held <= worker[w].held + 1 /\ worker[w].held <= age[owner[worker[w].fd]]
        BY <3>1, <3>4, <1>5 DEF SetupOK
      <4> QED  BY <4>1, <4>2, <3>1, <3>3, <1>12
    <3>5. CASE worker[w].pc \in Still
      BY <3>1, <3>2, <3>5, <1>1, <1>5 DEF SetupOK
    <3>6. CASE worker[w].pc \notin Still
      <4>1. worker[w].first => worker[w].pc \in {"prefix", "rest", "identity", "request"}
        <5>1. worker[w].pc \in Setup \cup {"wait", "request", "reply", "ended", "exited"}
          BY <1>2 DEF WorkerRecords
        <5> QED  BY <5>1, <3>1, <3>6 DEF SetupOK, Setup
      <4> QED  BY <4>1, <3>1, <3>2, <3>4, <3>6, <1>1, <1>5 DEF SetupOK
    <3> QED  BY <3>5, <3>6
  <2>3. ASSUME NEW w \in Workers, ~Busy(w)  PROVE worker'[w].first
    BY <2>3, <1>5 DEF SetupInv
  <2>4. \A w \in Workers : Busy(w)' <=> Busy(w)
    BY <1>5 DEF Busy
  <2> QED  BY <2>1, <2>2, <2>3, <2>4
<1> QED  BY <1>8, <1>9, <1>10, <1>11, <1>13

(* Other files of the process: their descriptors were free, and are not    *)
(* among those of connections.                                             *)
LEMMA OthersKeep ==
    ASSUME IndInv, NEW f \in Fds, OpenOther(f) \/ CloseOther(f)
    PROVE  IndInv'
<1> USE DEF IndInv
<1>1. /\ UNCHANGED <<opts, peer, backlog, closes, pool, drained, quiet, worker, main, age>>
      /\ shut' \in SUBSET Fds
      /\ owner[f] \in {Free, Other}
      /\ \E x \in {Free, Other} : owner' = [owner EXCEPT ![f] = x]
  BY DEF OpenOther, CloseOther, Lowest, TypeOK
<1>2. PICK x \in {Free, Other} : owner' = [owner EXCEPT ![f] = x]
  BY <1>1
<1>3. owner \in [Fds -> Conns \cup {Free, Other}]
  BY DEF TypeOK
<1>4. TypeOK'
  <2>1. owner' \in [Fds -> Conns \cup {Free, Other}]
    BY <1>2, <1>3
  <2> QED  BY <1>1, <2>1 DEF TypeOK
<1>5. /\ \A g \in Fds : owner'[g] = IF g = f THEN x ELSE owner[g]
      /\ x \notin Conns /\ owner[f] \notin Conns
  BY <1>1, <1>2, <1>3, Numbers
<1>6. \A g \in Fds : /\ owner'[g] \in Conns <=> owner[g] \in Conns
                     /\ owner[g] \in Conns => owner'[g] = owner[g]
  BY <1>5
<1>7. PlacesInv'
  <2>1. (\A g : Pending(g)' <=> Pending(g)) /\ (\A w : Busy(w)' <=> Busy(w))
    BY <1>1 DEF Pending, Busy
  <2>2. UNCHANGED <<pool, main, worker>>
    BY <1>1
  <2> QED  BY <2>1, <2>2, <1>6 DEF PlacesInv
<1>8. ConnInv'
  <2>1. \A i \in 1..Len(backlog) : backlog[i] \in Conns
    BY DEF TypeOK
  <2>2. UNCHANGED <<peer, backlog, closes>>
    BY <1>1
  <2> QED  BY <2>1, <2>2, <1>5, <1>6 DEF ConnInv
<1>9. CountInv' /\ PhaseInv' /\ IdleInv'
  BY <1>1 DEF CountInv, PhaseInv, IdleInv, MaximumAdmitted, Tcp
<1>10. SetupInv'
  <2>1. ASSUME NEW w \in Workers, Busy(w)
        PROVE  owner'[worker[w].fd] = owner[worker[w].fd]
    <3>1. worker[w].fd \in Fds /\ owner[worker[w].fd] \in Conns
      BY <2>1 DEF PlacesInv, TypeOK
    <3> QED  BY <3>1, <1>6
  <2> QED  BY <2>1, <1>1 DEF SetupInv, SetupOK, Trusts, Busy, Tcp
<1> QED  BY <1>4, <1>7, <1>8, <1>9, <1>10

-----------------------------------------------------------------------------
(* A step that opens or closes descriptors which no worker holds leaves    *)
(* the workers' connections alone.                                         *)
LEMMA SetupKept ==
    ASSUME IndInv, UNCHANGED <<opts, peer, worker, age>>,
           \A f \in pool.active : owner'[f] = owner[f]
    PROVE  SetupInv'
<1>1. \A w \in Workers : Busy(w) => owner'[worker[w].fd] = owner[worker[w].fd]
  BY DEF IndInv, PlacesInv
<1> QED  BY <1>1 DEF IndInv, SetupInv, SetupOK, Trusts, Busy, Tcp

(* accept() gives the first peer of the backlog a free descriptor. *)
LEMMA AcceptKeeps ==
    ASSUME IndInv, NEW f \in Fds, Accept(f)
    PROVE  IndInv'
<1> USE DEF IndInv
<1>1. /\ main.pc = "accept" /\ backlog # <<>> /\ owner[f] = Free
      /\ owner' = [owner EXCEPT ![f] = Head(backlog)] /\ backlog' = Tail(backlog)
      /\ main' = [main EXCEPT !.pc = "submit", !.fd = f]
      /\ UNCHANGED <<opts, peer, shut, closes, pool, drained, quiet, worker, age>>
  BY DEF Accept, Lowest
<1>2. /\ owner \in [Fds -> Conns \cup {Free, Other}] /\ backlog \in Seq(Conns)
      /\ main \in [pc : {"open", "failed", "wait", "decide", "poll", "accept", "submit", "close",
                        "stop", "join", "returned"},
                  fd : Fds \cup {NoFd}, why : {"none", "idle", "error"},
                  snap : [admitted : Int, ever_admitted : BOOLEAN]]
  BY DEF TypeOK
<1>3. /\ Head(backlog) = backlog[1] /\ Head(backlog) \in Conns /\ Tail(backlog) \in Seq(Conns)
      /\ Len(backlog) \in Nat \ {0} /\ Len(Tail(backlog)) = Len(backlog) - 1
      /\ \A i \in 1..Len(Tail(backlog)) : Tail(backlog)[i] = backlog[i + 1]
  BY <1>1, <1>2, HeadTailProperties, EmptySeq
<1>4. TypeOK'
  <2>1. owner' \in [Fds -> Conns \cup {Free, Other}]
    BY <1>1, <1>2, <1>3
  <2> QED  BY <2>1, <1>1, <1>2, <1>3 DEF TypeOK
<1>5. main'.pc = "submit" /\ main'.fd = f /\ main'.why = main.why
  BY <1>1, <1>2
<1>6. /\ \A g \in Fds : owner'[g] = IF g = f THEN Head(backlog) ELSE owner[g]
      /\ owner[f] \notin Conns
  BY <1>1, <1>2, Numbers
<1>7. PlacesInv'
  <2>1. (\A g : Pending(g)' <=> Pending(g)) /\ (\A w : Busy(w)' <=> Busy(w))
    BY <1>1 DEF Pending, Busy
  <2>2. UNCHANGED <<pool, worker>>
    BY <1>1
  <2>3. f \notin pool.active /\ ~Pending(f) /\ main.fd = NoFd /\ NoFd \notin Fds
    BY <1>1, <1>6, Numbers DEF PlacesInv
  <2>4. \A g \in Fds : owner'[g] \in Conns <=> g \in pool.active \/ Pending(g) \/ g = f
    BY <2>3, <1>3, <1>6 DEF PlacesInv
  <2> QED  BY <2>1, <2>2, <2>3, <2>4, <1>5 DEF PlacesInv
<1>8. ConnInv'
  <2>1. 1 \in 1..Len(backlog)
    BY <1>3
  <2>2. \A i \in 1..Len(backlog') : /\ backlog'[i] = backlog[i + 1] /\ i + 1 \in 1..Len(backlog)
                                    /\ backlog'[i] # backlog[1]
    BY <2>1, <1>1, <1>3 DEF ConnInv
  <2>3. \A g, e \in Fds : g # e /\ owner'[g] \in Conns => owner'[g] # owner'[e]
    BY <2>1, <1>3, <1>6 DEF ConnInv
  <2>4. \A g \in Fds : owner'[g] \in Conns => owner'[g] <= Len(peer) /\ closes[owner'[g]] = 0
    BY <2>1, <1>3, <1>6 DEF ConnInv
  <2>5. \A i, j \in 1..Len(backlog') : i # j => backlog'[i] # backlog'[j]
    <3> SUFFICES ASSUME NEW i \in 1..Len(backlog'), NEW j \in 1..Len(backlog'), i # j
                 PROVE  backlog'[i] # backlog'[j]
      OBVIOUS
    <3>1. i + 1 # j + 1
      OBVIOUS
    <3> QED  BY <3>1, <2>2 DEF ConnInv
  <2>6. \A i \in 1..Len(backlog') : /\ backlog'[i] <= Len(peer) /\ closes[backlog'[i]] = 0
                                    /\ \A g \in Fds : owner'[g] # backlog'[i]
    BY <2>2, <1>3, <1>6 DEF ConnInv
  <2>7. UNCHANGED <<peer, closes>>
    BY <1>1
  <2> QED  BY <2>3, <2>4, <2>5, <2>6, <2>7 DEF ConnInv
<1>9. CountInv' /\ PhaseInv' /\ IdleInv'
  BY <1>1, <1>5 DEF CountInv, PhaseInv, IdleInv, MaximumAdmitted, Tcp
<1>10. SetupInv'
  <2>1. \A g \in pool.active : g \in Fds /\ owner'[g] = owner[g]
    BY <1>6 DEF PlacesInv, TypeOK
  <2> QED  BY <2>1, <1>1, SetupKept
<1> QED  BY <1>4, <1>7, <1>8, <1>9, <1>10

-----------------------------------------------------------------------------
(* The pool after each of its critical sections. *)
PoolRecords == [pending : Seq(Fds), active : SUBSET Fds, admitted : Int,
                ever_admitted : BOOLEAN, stopping : BOOLEAN]

(* What submit() leaves of the pool. *)
LEMMA SubmitTyped ==
    ASSUME NEW p \in PoolRecords, NEW s \in Seq(Fds), NEW n \in Int,
           NEW q, q = [p EXCEPT !.admitted = n, !.ever_admitted = TRUE, !.pending = s]
    PROVE  q \in PoolRecords
<1>1. /\ q.pending = s /\ q.active = p.active /\ q.admitted = n
      /\ q.ever_admitted = TRUE /\ q.stopping = p.stopping
      /\ p.active \in SUBSET Fds /\ p.stopping \in BOOLEAN
  BY DEF PoolRecords
<1>2. q = [pending |-> s, active |-> p.active, admitted |-> n, ever_admitted |-> TRUE,
           stopping |-> p.stopping]
  BY DEF PoolRecords
<1> QED  BY <1>1, <1>2 DEF PoolRecords

(* What stop() leaves of the pool. *)
LEMMA StopTyped ==
    ASSUME NEW p \in PoolRecords, NEW n \in Int,
           NEW q, q = [p EXCEPT !.stopping = TRUE, !.pending = <<>>, !.admitted = n]
    PROVE  q \in PoolRecords
<1>1. /\ q.pending = <<>> /\ q.active = p.active /\ q.admitted = n
      /\ q.ever_admitted = p.ever_admitted /\ q.stopping = TRUE
      /\ p.active \in SUBSET Fds /\ p.ever_admitted \in BOOLEAN
  BY DEF PoolRecords
<1>3. q.pending \in Seq(Fds)
  BY <1>1, EmptySeq
<1>2. q = [pending |-> <<>>, active |-> p.active, admitted |-> n,
           ever_admitted |-> p.ever_admitted, stopping |-> TRUE]
  BY DEF PoolRecords
<1> QED  BY <1>1, <1>2, <1>3 DEF PoolRecords

(* What a worker that takes a connection leaves of the pool. *)
LEMMA TakeTyped ==
    ASSUME NEW p \in PoolRecords, NEW s \in Seq(Fds), NEW a \in SUBSET Fds
    PROVE  [p EXCEPT !.pending = s, !.active = a] \in PoolRecords
BY DEF PoolRecords

(* What a worker that is done with a connection leaves of the pool. *)
LEMMA ReleaseTyped ==
    ASSUME NEW p \in PoolRecords, NEW a \in SUBSET Fds, NEW n \in Int
    PROVE  [p EXCEPT !.active = a, !.admitted = n] \in PoolRecords
BY DEF PoolRecords

(* Permits are counted in natural numbers. *)
LEMMA PermitFacts ==
    ASSUME IndInv
    PROVE  /\ pool \in PoolRecords /\ Len(pool.pending) \in Nat /\ Cardinality(pool.active) \in Nat
           /\ pool.admitted \in Nat /\ pool.pending \in Seq(Fds) /\ pool.active \in SUBSET Fds
           /\ opts \in Options /\ MaximumAdmitted \in Nat
           /\ pool.admitted = Len(pool.pending) + Cardinality(pool.active)
           /\ \A f \in pool.active : pool.admitted >= 1
           /\ \A i \in 1..Len(pool.pending) : pool.pending[i] \in Fds /\ Pending(pool.pending[i])
<1>1. pool \in PoolRecords /\ pool.pending \in Seq(Fds) /\ pool.active \in SUBSET Fds /\ opts \in Options
  BY DEF IndInv, TypeOK, PoolRecords
<1>2. Len(pool.pending) \in Nat
  BY <1>1
<1>3. IsFiniteSet(pool.active) /\ pool.admitted = Len(pool.pending) + Cardinality(pool.active)
  BY DEF IndInv, CountInv
<1>4. Cardinality(pool.active) \in Nat
  BY <1>3, FS_CardinalityType
<1>5. ASSUME NEW f \in pool.active  PROVE pool.admitted >= 1
  <2>1. Cardinality(pool.active) # 0
    BY <1>3, <1>5, FS_EmptySet
  <2> QED  BY <2>1, <1>2, <1>3, <1>4
<1>6. MaximumAdmitted \in Nat
  BY <1>1, PoolAssumption DEF MaximumAdmitted
<1>7. \A i \in 1..Len(pool.pending) : pool.pending[i] \in Fds /\ Pending(pool.pending[i])
  BY <1>1 DEF Pending
<1> QED  BY <1>1, <1>2, <1>3, <1>4, <1>5, <1>6, <1>7

(* submit(): the permit is taken with the descriptor, or both are refused. *)
LEMMA SubmitKeeps ==
    ASSUME IndInv, Submit
    PROVE  IndInv'
<1> USE DEF IndInv
<1> DEFINE f == main.fd
<1>1. /\ main.pc = "submit" /\ main' = [main EXCEPT !.pc = "wait", !.fd = NoFd]
      /\ UNCHANGED <<opts, peer, backlog, shut, drained, worker, age>>
  BY DEF Submit
<1>2. /\ main \in [pc : {"open", "failed", "wait", "decide", "poll", "accept", "submit", "close",
                        "stop", "join", "returned"},
                  fd : Fds \cup {NoFd}, why : {"none", "idle", "error"},
                  snap : [admitted : Int, ever_admitted : BOOLEAN]]
      /\ owner \in [Fds -> Conns \cup {Free, Other}]
  BY DEF TypeOK
<1>3. /\ main'.pc = "wait" /\ main'.fd = NoFd /\ main'.why = main.why /\ main.why # "idle"
      /\ main' \in [pc : {"open", "failed", "wait", "decide", "poll", "accept", "submit", "close",
                        "stop", "join", "returned"},
                  fd : Fds \cup {NoFd}, why : {"none", "idle", "error"},
                  snap : [admitted : Int, ever_admitted : BOOLEAN]]
  BY <1>1, <1>2 DEF IdleInv
<1>4. f \in Fds /\ owner[f] \in Conns /\ f \notin pool.active /\ ~Pending(f) /\ NoFd \notin Fds
  BY <1>1, Numbers DEF PlacesInv
<1>5. /\ pool \in PoolRecords /\ pool.pending \in Seq(Fds) /\ Len(pool.pending) \in Nat
      /\ pool.admitted \in Nat /\ Cardinality(pool.active) \in Nat /\ MaximumAdmitted \in Nat
      /\ pool.active \in SUBSET Fds
      /\ pool.admitted = Len(pool.pending) + Cardinality(pool.active)
  BY PermitFacts
<1>6. CASE Admits
  <2>1. /\ pool' = [pool EXCEPT !.admitted = pool.admitted + 1, !.ever_admitted = TRUE,
                                !.pending = Append(pool.pending, f)]
        /\ quiet' = 0 /\ UNCHANGED <<owner, closes>>
    BY <1>6, <1>5 DEF Submit, PoolRecords
  <2>2. Append(pool.pending, f) \in Seq(Fds) /\ pool.admitted + 1 \in Int
    BY <1>4, <1>5
  <2>3. /\ pool' \in PoolRecords /\ pool'.pending = Append(pool.pending, f)
        /\ pool'.active = pool.active /\ pool'.admitted = pool.admitted + 1
        /\ pool'.ever_admitted = TRUE /\ pool'.stopping = pool.stopping
    <3> DEFINE s == Append(pool.pending, f)
               n == pool.admitted + 1
    <3>1. pool' = [pool EXCEPT !.admitted = n, !.ever_admitted = TRUE, !.pending = s]
      BY <2>1
    <3>2. s \in Seq(Fds) /\ n \in Int /\ pool \in PoolRecords
      BY <2>2, <1>5
    <3> HIDE DEF s, n
    <3>3. /\ pool' \in PoolRecords /\ pool'.pending = s
          /\ pool'.active = pool.active /\ pool'.admitted = n
          /\ pool'.ever_admitted = TRUE /\ pool'.stopping = pool.stopping
      <4>1. /\ pool'.pending = s /\ pool'.active = pool.active /\ pool'.admitted = n
            /\ pool'.ever_admitted = TRUE /\ pool'.stopping = pool.stopping
        BY <3>1, <3>2 DEF PoolRecords
      <4>2. pool' \in PoolRecords
        BY <3>1, <3>2, SubmitTyped, Zenon
      <4> QED  BY <4>1, <4>2
    <3> QED  BY <3>3 DEF s, n
  <2>4. /\ Len(pool'.pending) = Len(pool.pending) + 1
        /\ \A i \in 1..Len(pool.pending) : pool'.pending[i] = pool.pending[i]
        /\ pool'.pending[Len(pool.pending) + 1] = f
    BY <2>3, <1>4, <1>5
  <2> HIDE DEF f
  <2>5. \A i \in 1..Len(pool'.pending) : i \in 1..Len(pool.pending) \/ i = Len(pool.pending) + 1
    BY <2>4, <1>5
  <2>6. \A g : Pending(g)' <=> Pending(g) \/ g = f
    <3>1. ASSUME NEW g, Pending(g)'  PROVE Pending(g) \/ g = f
      BY <3>1, <2>4, <2>5 DEF Pending
    <3>2. ASSUME NEW g, Pending(g)  PROVE Pending(g)'
      <4>1. PICK i \in 1..Len(pool.pending) : pool.pending[i] = g
        BY <3>2 DEF Pending
      <4>2. i \in 1..Len(pool'.pending) /\ pool'.pending[i] = g
        BY <4>1, <2>4, <1>5
      <4> QED  BY <4>2 DEF Pending
    <3>3. ASSUME NEW g, g = f  PROVE Pending(g)'
      <4>1. Len(pool.pending) + 1 \in 1..Len(pool'.pending)
        BY <2>4, <1>5
      <4> QED  BY <4>1, <3>3, <2>4 DEF Pending
    <3> QED  BY <3>1, <3>2, <3>3
  <2>7. \A i, j \in 1..Len(pool'.pending) : i # j => pool'.pending[i] # pool'.pending[j]
    <3>1. \A i \in 1..Len(pool.pending) : pool.pending[i] # f
      BY <1>4 DEF Pending
    <3> QED  BY <3>1, <2>4, <2>5 DEF PlacesInv
  <2>8. TypeOK'
    BY <2>1, <2>3, <1>1, <1>3 DEF TypeOK, PoolRecords
  <2>9. PlacesInv'
    <3>1. \A w : Busy(w)' <=> Busy(w)
      BY <1>1 DEF Busy
    <3>2. UNCHANGED <<worker, owner>> /\ pool'.active = pool.active
      BY <1>1, <2>1, <2>3
    <3>3. \A g \in Fds : owner[g] \in Conns <=> g \in pool.active \/ Pending(g) \/ g = f
      BY DEF PlacesInv, f
    <3>4. \A g \in Fds : g # main'.fd
      BY <1>3, <1>4
    <3>5. \A g \in Fds : g \in pool'.active => ~Pending(g)' /\ g # main'.fd
      BY <3>2, <3>4, <2>6, <1>4 DEF PlacesInv
    <3>6. \A g \in Fds : owner'[g] \in Conns <=> g \in pool'.active \/ Pending(g)' \/ g = main'.fd
      BY <3>2, <3>3, <3>4, <2>6
    <3>7. main'.pc # "submit" /\ main'.fd = NoFd
      BY <1>3
    <3> QED  BY <3>1, <3>2, <3>4, <3>5, <3>6, <3>7, <2>7 DEF PlacesInv
  <2>10. ConnInv'
    BY <2>1, <1>1 DEF ConnInv
  <2>11. CountInv'
    <3>1. pool.admitted # MaximumAdmitted /\ pool.admitted <= MaximumAdmitted
      BY <1>6 DEF Admits, CountInv
    <3>2. MaximumAdmitted' = MaximumAdmitted
      BY <1>1 DEF MaximumAdmitted
    <3> QED  BY <3>1, <3>2, <2>3, <2>4, <1>5 DEF CountInv
  <2>12. PhaseInv'
    BY <2>3, <1>1, <1>3 DEF PhaseInv, Tcp
  <2>13. IdleInv'
    BY <2>3, <1>3, <1>5 DEF IdleInv
  <2>14. SetupInv'
    BY <2>1, <1>1, SetupKept
  <2> QED  BY <2>8, <2>9, <2>10, <2>11, <2>12, <2>13, <2>14
<1>7. CASE ~Admits
  <2>1. CloseAll({f}) /\ UNCHANGED <<pool, quiet>>
    BY <1>7 DEF Submit
  <2>2. /\ owner' \in [Fds -> Conns \cup {Free, Other}] /\ closes' \in [Conns -> Nat]
        /\ ConnInv'
    <3>1. {f} \in SUBSET Fds /\ \A g \in {f} : owner[g] \in Conns
      BY <1>4
    <3>2. UNCHANGED <<peer, backlog>>
      BY <1>1
    <3> HIDE DEF f
    <3> QED  BY <3>1, <3>2, <2>1, ClosingKeepsConns
  <2>3. \A g \in Fds : owner'[g] = IF g = f THEN Free ELSE owner[g]
    BY <2>1 DEF CloseAll
  <2>4. TypeOK'
    BY <2>1, <2>2, <1>1, <1>3 DEF TypeOK
  <2>5. PlacesInv'
    <3>1. (\A g : Pending(g)' <=> Pending(g)) /\ (\A w : Busy(w)' <=> Busy(w))
      BY <2>1, <1>1 DEF Pending, Busy
    <3>2. UNCHANGED <<pool, worker>>
      BY <1>1, <2>1
    <3>3. \A g \in Fds : g # main'.fd
      BY <1>3, <1>4
    <3>4. \A g \in Fds : owner'[g] \in Conns <=> g \in pool.active \/ Pending(g)
      BY <2>3, <1>4, Numbers DEF PlacesInv
    <3>5. main'.pc # "submit" /\ main'.fd = NoFd
      BY <1>3
    <3> QED  BY <3>1, <3>2, <3>3, <3>4, <3>5 DEF PlacesInv
  <2>6. CountInv' /\ PhaseInv' /\ IdleInv'
    BY <2>1, <1>1, <1>3 DEF CountInv, PhaseInv, IdleInv, MaximumAdmitted, Tcp
  <2>7. SetupInv'
    <3>1. \A g \in pool.active : owner'[g] = owner[g]
      BY <2>3, <1>4, <1>5
    <3> QED  BY <3>1, <1>1, SetupKept
  <2> QED  BY <2>2, <2>4, <2>5, <2>6, <2>7
<1> QED  BY <1>6, <1>7

(* stop(): the pending connections are closed, and their permits returned. *)
LEMMA StopKeeps ==
    ASSUME IndInv, Stop
    PROVE  IndInv'
<1> USE DEF IndInv
<1> DEFINE S == Range(pool.pending)
           n == pool.admitted - Len(pool.pending)
<1>1. /\ main.pc = "stop" /\ CloseAll(S) /\ shut' = shut \cup pool.active
      /\ pool' = [pool EXCEPT !.stopping = TRUE, !.pending = <<>>, !.admitted = n]
      /\ main' = [main EXCEPT !.pc = "join"]
      /\ UNCHANGED <<opts, peer, backlog, drained, quiet, worker, age>>
  <2>1. pool \in PoolRecords
    BY PermitFacts
  <2> QED  BY <2>1 DEF Stop, PoolRecords
<1>2. /\ pool \in PoolRecords /\ pool.pending \in Seq(Fds) /\ Len(pool.pending) \in Nat
      /\ pool.admitted \in Nat /\ Cardinality(pool.active) \in Nat /\ MaximumAdmitted \in Nat
      /\ pool.active \in SUBSET Fds
      /\ pool.admitted = Len(pool.pending) + Cardinality(pool.active)
  BY PermitFacts
<1>3. \A f : f \in S <=> Pending(f)
  BY <1>2 DEF Pending, Range
<1>4. S \in SUBSET Fds /\ \A f \in S : owner[f] \in Conns
  <2>1. S \in SUBSET Fds
    BY <1>2, <1>3 DEF Pending
  <2> QED  BY <2>1, <1>3 DEF PlacesInv
<1>5. n \in Int /\ n = Cardinality(pool.active) /\ n <= pool.admitted
  BY <1>2
<1> HIDE DEF S, n
<1>6. /\ pool' \in PoolRecords /\ pool'.pending = <<>> /\ pool'.active = pool.active
      /\ pool'.admitted = n /\ pool'.ever_admitted = pool.ever_admitted /\ pool'.stopping = TRUE
  <2>1. /\ pool'.pending = <<>> /\ pool'.active = pool.active /\ pool'.admitted = n
        /\ pool'.ever_admitted = pool.ever_admitted /\ pool'.stopping = TRUE
    BY <1>1, <1>2 DEF PoolRecords
  <2>2. pool' \in PoolRecords
    BY <1>1, <1>2, <1>5, StopTyped, Zenon
  <2> QED  BY <2>1, <2>2
<1>7. /\ main'.pc = "join" /\ main'.fd = main.fd /\ main'.why = main.why
      /\ main' \in [pc : {"open", "failed", "wait", "decide", "poll", "accept", "submit", "close",
                        "stop", "join", "returned"},
                  fd : Fds \cup {NoFd}, why : {"none", "idle", "error"},
                  snap : [admitted : Int, ever_admitted : BOOLEAN]]
  BY <1>1 DEF TypeOK
<1>8. /\ owner' \in [Fds -> Conns \cup {Free, Other}] /\ closes' \in [Conns -> Nat]
      /\ ConnInv'
  <2>1. UNCHANGED <<peer, backlog>>
    BY <1>1
  <2> QED  BY <2>1, <1>1, <1>4, ClosingKeepsConns
<1>9. \A g \in Fds : owner'[g] = IF g \in S THEN Free ELSE owner[g]
  BY <1>1 DEF CloseAll
<1>10. TypeOK'
  <2>1. shut' \subseteq Fds
    BY <1>1, <1>2 DEF TypeOK
  <2> QED  BY <2>1, <1>1, <1>6, <1>7, <1>8 DEF TypeOK, PoolRecords
<1>11. PlacesInv'
  <2>1. (\A g : ~Pending(g)') /\ (\A w : Busy(w)' <=> Busy(w)) /\ Len(pool'.pending) = 0
    BY <1>1, <1>6 DEF Pending, Busy
  <2>2. UNCHANGED worker /\ pool'.active = pool.active
    BY <1>1, <1>6
  <2>3. main.fd = NoFd /\ main'.fd = NoFd /\ main'.pc # "submit" /\ \A g \in Fds : g # NoFd
    BY <1>1, <1>7, Numbers DEF PlacesInv
  <2>4. \A g \in Fds : owner'[g] \in Conns <=> g \in pool.active
    BY <2>3, <1>3, <1>9, Numbers DEF PlacesInv
  <2> QED  BY <2>1, <2>2, <2>3, <2>4 DEF PlacesInv
<1>12. CountInv'
  <2>1. MaximumAdmitted' = MaximumAdmitted
    BY <1>1 DEF MaximumAdmitted
  <2>2. Len(pool'.pending) = 0 /\ pool.admitted <= MaximumAdmitted
    BY <1>6 DEF CountInv
  <2> QED  BY <2>1, <2>2, <1>2, <1>5, <1>6 DEF CountInv
<1>13. PhaseInv'
  BY <1>1, <1>6, <1>7 DEF PhaseInv, Tcp
<1>14. IdleInv'
  <2>1. pool.admitted = 0 => n = 0
    BY <1>2, <1>5
  <2> QED  BY <2>1, <1>1, <1>6, <1>7 DEF IdleInv, Tcp
<1>15. SetupInv'
  <2>1. \A g \in pool.active : owner'[g] = owner[g]
    BY <1>2, <1>3, <1>9 DEF PlacesInv
  <2> QED  BY <2>1, <1>1, SetupKept
<1> QED  BY <1>8, <1>10, <1>11, <1>12, <1>13, <1>14, <1>15

(* A worker that is given its first, or no, connection. *)
LEMMA IdleTyped ==
    /\ IdleWorker \in WorkerRecords
    /\ \A p \in {"resolve", "request", "exited"}, f \in Fds \cup {NoFd} :
          [IdleWorker EXCEPT !.pc = p, !.fd = f] \in WorkerRecords
    /\ [IdleWorker EXCEPT !.pc = "exited"] \in WorkerRecords
<1>1. IdleWorker \in WorkerRecords
  BY DEF IdleWorker, WorkerRecords, NoFd
<1>2. ASSUME NEW r \in WorkerRecords, NEW p \in {"resolve", "request", "exited"}
      PROVE  [r EXCEPT !.pc = p] \in WorkerRecords
  BY DEF WorkerRecords, Setup
<1>3. ASSUME NEW r \in WorkerRecords, NEW f \in Fds \cup {NoFd}
      PROVE  [r EXCEPT !.fd = f] \in WorkerRecords
  BY DEF WorkerRecords
<1>4. ASSUME NEW p \in {"resolve", "request", "exited"}, NEW f \in Fds \cup {NoFd}
      PROVE  [IdleWorker EXCEPT !.pc = p, !.fd = f] \in WorkerRecords
  <2>1. PICK r \in WorkerRecords : r = [IdleWorker EXCEPT !.pc = p]
    BY <1>1, <1>2
  <2>2. [IdleWorker EXCEPT !.pc = p, !.fd = f] = [r EXCEPT !.fd = f]
    BY <2>1 DEF IdleWorker
  <2> QED  BY <2>2, <1>3
<1> QED  BY <1>1, <1>2, <1>4

(* A worker exits only while it has no connection. *)
LEMMA ExitKeeps ==
    ASSUME IndInv, NEW w \in Workers, Exit(w)
    PROVE  IndInv'
<1> USE DEF IndInv
<1>1. /\ worker[w].pc = "wait" /\ worker' = [worker EXCEPT ![w].pc = "exited"]
      /\ UNCHANGED <<opts, peer, backlog, owner, shut, closes, pool, drained, quiet, main, age>>
  BY DEF Exit
<1>2. worker \in [Workers -> WorkerRecords]
  BY DEF TypeOK, WorkerRecords
<1>3. ASSUME NEW v \in Workers
      PROVE  /\ worker'[v].fd = worker[v].fd
             /\ worker'[v].first = worker[v].first
             /\ worker'[v].pc = IF v = w THEN "exited" ELSE worker[v].pc
             /\ v # w => worker'[v] = worker[v]
  <2>1. worker'[w] = [worker[w] EXCEPT !.pc = "exited"] /\ worker[w] \in WorkerRecords
    BY <1>1, <1>2
  <2>2. \A u \in Workers : u # w => worker'[u] = worker[u]
    BY <1>1, <1>2
  <2>3. /\ worker'[w].fd = worker[w].fd /\ worker'[w].first = worker[w].first
        /\ worker'[w].pc = "exited"
    BY <2>1 DEF WorkerRecords
  <2>4. CASE v = w
    BY <2>4, <2>3
  <2>5. CASE v # w
    BY <2>5, <2>2
  <2> QED  BY <2>4, <2>5
<1>4. TypeOK'
  <2>1. worker' \in [Workers -> WorkerRecords]
    BY <1>1, <1>2 DEF WorkerRecords
  <2> QED  BY <2>1, <1>1 DEF TypeOK, WorkerRecords
<1>5. (\A f : Pending(f)' <=> Pending(f)) /\ (\A v \in Workers : Busy(v)' <=> Busy(v)) /\ ~Busy(w)
  BY <1>1, <1>3 DEF Pending, Busy
<1>6. PlacesInv'
  <2>1. UNCHANGED <<owner, pool, main>>
    BY <1>1
  <2>2. \A v \in Workers : worker'[v].fd = worker[v].fd
    BY <1>3
  <2> QED  BY <2>1, <2>2, <1>5 DEF PlacesInv
<1>7. ConnInv' /\ CountInv' /\ IdleInv'
  BY <1>1 DEF ConnInv, CountInv, IdleInv, MaximumAdmitted, Tcp
<1>8. PhaseInv'
  BY <1>1, <1>3 DEF PhaseInv, Tcp
<1>9. SetupInv'
  <2>1. ASSUME Tcp, NEW v \in Workers
        PROVE  IF Busy(v)' THEN SetupOK(worker[v])' ELSE worker'[v].first
    <3>1. CASE v = w
      BY <3>1, <2>1, <1>3, <1>5 DEF SetupInv
    <3>2. CASE v # w
      BY <3>2, <2>1, <1>1, <1>3, <1>5 DEF SetupInv, SetupOK, Trusts
    <3> QED  BY <3>1, <3>2
  <2> QED  BY <2>1, <1>1 DEF SetupInv, Tcp
<1> QED  BY <1>4, <1>6, <1>7, <1>8, <1>9

(* A connection moves from pending to the worker with its permit. *)
LEMMA TakeKeeps ==
    ASSUME IndInv, NEW w \in Workers, Take(w)
    PROVE  IndInv'
<1> USE DEF IndInv
<1> DEFINE s == pool.pending
           f == Head(s)
           p == IF Tcp THEN "resolve" ELSE "request"
           k == [IdleWorker EXCEPT !.pc = p, !.fd = f]
<1>1. /\ worker[w].pc = "wait" /\ s # <<>>
      /\ pool' = [pool EXCEPT !.pending = Tail(s), !.active = pool.active \cup {f}]
      /\ worker' = [worker EXCEPT ![w] = k]
      /\ UNCHANGED <<opts, peer, backlog, owner, shut, closes, drained, quiet, main, age>>
  <2>1. pool \in PoolRecords
    BY PermitFacts
  <2> QED  BY <2>1 DEF Take, PoolRecords
<1>2. /\ pool \in PoolRecords /\ s \in Seq(Fds) /\ Len(s) \in Nat
      /\ pool.admitted \in Nat /\ Cardinality(pool.active) \in Nat
      /\ pool.active \in SUBSET Fds
      /\ pool.admitted = Len(s) + Cardinality(pool.active)
      /\ worker \in [Workers -> WorkerRecords]
  <2>1. worker \in [Workers -> WorkerRecords]
    BY DEF TypeOK, WorkerRecords
  <2> QED  BY <2>1, PermitFacts
<1>3. /\ f = s[1] /\ f \in Fds /\ Tail(s) \in Seq(Fds)
      /\ Len(s) \in Nat \ {0} /\ Len(Tail(s)) = Len(s) - 1
      /\ \A i \in 1..Len(Tail(s)) : Tail(s)[i] = s[i + 1]
  BY <1>1, <1>2, HeadTailProperties, EmptySeq
<1>4. /\ Pending(f) /\ f \notin pool.active /\ f # main.fd /\ owner[f] \in Conns
      /\ \A i \in 1..Len(Tail(s)) : i + 1 \in 1..Len(s) /\ Tail(s)[i] # f
  <2>1. 1 \in 1..Len(s)
    BY <1>3
  <2>2. Pending(f)
    BY <2>1, <1>3 DEF Pending
  <2>3. \A i \in 1..Len(Tail(s)) : i + 1 \in 1..Len(s) /\ Tail(s)[i] # f
    BY <2>1, <1>3 DEF PlacesInv
  <2> QED  BY <2>2, <2>3, <1>3 DEF PlacesInv
<1>5. /\ k \in WorkerRecords /\ k.pc = p /\ k.fd = f /\ k.first = TRUE /\ k.held = 0
  <2>1. p \in {"resolve", "request", "exited"}
    OBVIOUS
  <2> HIDE DEF p, f
  <2> QED  BY <2>1, <1>3, IdleTyped DEF IdleWorker
<1>6. /\ pool' \in PoolRecords /\ pool'.pending = Tail(s) /\ pool'.active = pool.active \cup {f}
      /\ pool'.admitted = pool.admitted /\ pool'.ever_admitted = pool.ever_admitted
      /\ pool'.stopping = pool.stopping
  <2> DEFINE t == Tail(s)
             a == pool.active \cup {f}
  <2>1. t \in Seq(Fds) /\ a \in SUBSET Fds /\ pool' = [pool EXCEPT !.pending = t, !.active = a]
    BY <1>1, <1>2, <1>3
  <2> HIDE DEF t, a
  <2>2. pool' \in PoolRecords
    BY <2>1, <1>2, TakeTyped
  <2>3. /\ pool'.pending = t /\ pool'.active = a
        /\ pool'.admitted = pool.admitted /\ pool'.ever_admitted = pool.ever_admitted
        /\ pool'.stopping = pool.stopping
    BY <2>1, <1>2 DEF PoolRecords
  <2> QED  BY <2>2, <2>3 DEF t, a
<1>7. p # "wait" /\ p # "exited" /\ (Tcp => p = "resolve")
  OBVIOUS
<1> HIDE DEF s, f, p, k
<1>8. \A v \in Workers : worker'[v] = IF v = w THEN k ELSE worker[v]
  BY <1>1, <1>2
<1>9. \A v \in Workers : /\ Busy(v)' <=> Busy(v) \/ v = w
                        /\ worker'[v].fd = IF v = w THEN f ELSE worker[v].fd
  BY <1>5, <1>7, <1>8 DEF Busy
<1>10. \A g : Pending(g) <=> Pending(g)' \/ g = f
  <2>1. ASSUME NEW g, Pending(g)'  PROVE Pending(g)
    BY <2>1, <1>3, <1>4, <1>6 DEF Pending, s
  <2>2. ASSUME NEW g, Pending(g), g # f  PROVE Pending(g)'
    <3>1. PICK i \in 1..Len(s) : s[i] = g
      BY <2>2 DEF Pending, s
    <3>2. i # 1
      BY <3>1, <2>2, <1>3
    <3>3. i - 1 \in 1..Len(Tail(s)) /\ (i - 1) + 1 = i
      BY <3>2, <1>3
    <3>4. Tail(s)[i - 1] = g
      BY <3>1, <3>3, <1>3
    <3> QED  BY <3>3, <3>4, <1>6 DEF Pending
  <2> QED  BY <2>1, <2>2, <1>4
<1>11. \A g : g = f => ~Pending(g)'
  BY <1>4, <1>6 DEF Pending
<1>12. TypeOK'
  <2>1. worker' \in [Workers -> WorkerRecords]
    BY <1>1, <1>2, <1>5
  <2> QED  BY <2>1, <1>1, <1>6 DEF TypeOK, PoolRecords, WorkerRecords
<1>13. PlacesInv'
  <2>0. UNCHANGED <<owner, main>> /\ pool'.active = pool.active \cup {f} /\ ~Busy(w)
    BY <1>1, <1>6 DEF Busy
  <2>1. \A v \in Workers : IF Busy(v)' THEN worker'[v].fd \in pool'.active ELSE worker'[v].fd = NoFd
    BY <2>0, <1>9 DEF PlacesInv
  <2>2. \A g \in pool'.active : \E v \in Workers : Busy(v)' /\ worker'[v].fd = g
    <3>1. ASSUME NEW g \in pool.active  PROVE \E v \in Workers : Busy(v)' /\ worker'[v].fd = g
      <4>1. PICK v \in Workers : Busy(v) /\ worker[v].fd = g
        BY DEF PlacesInv
      <4> QED  BY <4>1, <2>0, <1>9
    <3>2. Busy(w)' /\ worker'[w].fd = f
      BY <1>9
    <3> QED  BY <3>1, <3>2, <2>0
  <2>3. \A v \in Workers : worker[v].fd # f
    BY <1>3, <1>4, Numbers DEF PlacesInv
  <2>4. \A u, v \in Workers : u # v /\ Busy(u)' => worker'[u].fd # worker'[v].fd
    BY <2>3, <1>9 DEF PlacesInv
  <2>5. \A i, j \in 1..Len(pool'.pending) : i # j => pool'.pending[i] # pool'.pending[j]
    <3> SUFFICES ASSUME NEW i \in 1..Len(Tail(s)), NEW j \in 1..Len(Tail(s)), i # j
                 PROVE  Tail(s)[i] # Tail(s)[j]
      BY <1>6
    <3>1. i + 1 # j + 1
      OBVIOUS
    <3> QED  BY <3>1, <1>3, <1>4 DEF PlacesInv, s
  <2>6. \A g \in Fds : g \in pool'.active => ~Pending(g)' /\ g # main'.fd
    BY <2>0, <1>4, <1>10, <1>11 DEF PlacesInv
  <2>7. \A g \in Fds : Pending(g)' => g # main'.fd
    BY <2>0, <1>10 DEF PlacesInv
  <2>8. \A g \in Fds : owner'[g] \in Conns <=> g \in pool'.active \/ Pending(g)' \/ g = main'.fd
    BY <2>0, <1>10 DEF PlacesInv
  <2> QED  BY <2>0, <2>1, <2>2, <2>4, <2>5, <2>6, <2>7, <2>8 DEF PlacesInv
<1>14. ConnInv'
  BY <1>1 DEF ConnInv
<1>15. CountInv'
  <2>1. IsFiniteSet(pool.active) /\ pool.admitted <= MaximumAdmitted /\ MaximumAdmitted' = MaximumAdmitted
    BY <1>1 DEF CountInv, MaximumAdmitted
  <2>2. /\ IsFiniteSet(pool.active \cup {f})
        /\ Cardinality(pool.active \cup {f}) = Cardinality(pool.active) + 1
    BY <2>1, <1>4, FS_AddElement
  <2> QED  BY <2>1, <2>2, <1>2, <1>3, <1>6 DEF CountInv
<1>16. PhaseInv'
  <2>1. ~pool.stopping
    BY <1>1 DEF PhaseInv, s
  <2> QED  BY <2>1, <1>1, <1>6 DEF PhaseInv, Tcp
<1>17. IdleInv'
  BY <1>1, <1>6 DEF IdleInv, Tcp
<1>18. SetupInv'
  <2>1. ASSUME Tcp, NEW v \in Workers
        PROVE  IF Busy(v)' THEN SetupOK(worker[v])' ELSE worker'[v].first
    <3>1. CASE v = w
      <4>1. opts.setup > 0 /\ opts.setup \in Int
        <5>1. opts.setup > 0
          BY <2>1, <1>3, <1>4, OwnedThenOpen DEF PhaseInv
        <5>2. opts \in Options
          BY DEF TypeOK
        <5> QED  BY <5>1, <5>2, <2>1, ClockBounds
      <4> QED  BY <4>1, <3>1, <2>1, <1>1, <1>5, <1>7, <1>8 DEF SetupOK, Busy
    <3>2. CASE v # w
      BY <3>2, <2>1, <1>1, <1>8, <1>9 DEF SetupInv, SetupOK, Trusts
    <3> QED  BY <3>1, <3>2
  <2> QED  BY <2>1, <1>1 DEF SetupInv, Tcp
<1> QED  BY <1>12, <1>13, <1>14, <1>15, <1>16, <1>17, <1>18

(* The end of a connection: its descriptor, its place and its permit go at *)
(* once.                                                                   *)
LEMMA ReleaseKeeps ==
    ASSUME IndInv, NEW w \in Workers, Release(w)
    PROVE  IndInv'
<1> USE DEF IndInv
<1> DEFINE f == worker[w].fd
           n == pool.admitted - 1
           a == pool.active \ {f}
<1>1. /\ worker[w].pc = "ended" /\ CloseAll({f}) /\ shut' = shut \ {f}
      /\ pool' = [pool EXCEPT !.active = a, !.admitted = n]
      /\ drained' = (IF pool.admitted = 1 THEN 0 ELSE drained)
      /\ quiet' = 0 /\ worker' = [worker EXCEPT ![w] = IdleWorker]
      /\ UNCHANGED <<opts, peer, backlog, main, age>>
  <2>1. pool \in PoolRecords
    BY PermitFacts
  <2> QED  BY <2>1 DEF Release, PoolRecords
<1>2. /\ pool \in PoolRecords /\ Len(pool.pending) \in Nat
      /\ pool.admitted \in Nat /\ Cardinality(pool.active) \in Nat
      /\ pool.active \in SUBSET Fds /\ MaximumAdmitted \in Nat
      /\ pool.admitted = Len(pool.pending) + Cardinality(pool.active)
      /\ worker \in [Workers -> WorkerRecords]
  <2>1. worker \in [Workers -> WorkerRecords]
    BY DEF TypeOK, WorkerRecords
  <2> QED  BY <2>1, PermitFacts
<1>3. /\ Busy(w) /\ f \in pool.active /\ f \in Fds /\ owner[f] \in Conns /\ ~Pending(f) /\ f # main.fd
  <2>1. Busy(w)
    BY <1>1 DEF Busy
  <2>2. f \in pool.active
    BY <2>1 DEF PlacesInv
  <2> QED  BY <2>1, <2>2, <1>2 DEF PlacesInv
<1>4. pool.admitted >= 1 /\ n \in Int /\ n = pool.admitted - 1 /\ a \in SUBSET Fds
  BY <1>2, <1>3, PermitFacts
<1>5. /\ IdleWorker \in WorkerRecords /\ IdleWorker.pc = "wait" /\ IdleWorker.fd = NoFd
      /\ IdleWorker.first = TRUE
  BY IdleTyped DEF IdleWorker
<1>6. \A g : g \in a <=> g \in pool.active /\ g # f
  OBVIOUS
<1>7. /\ \A v \in Workers : worker'[v] = IF v = w THEN IdleWorker ELSE worker[v]
      /\ \A v \in Workers : v # w /\ Busy(v) => worker[v].fd # f
  BY <1>1, <1>2, <1>3 DEF PlacesInv
<1>8. /\ owner' \in [Fds -> Conns \cup {Free, Other}] /\ closes' \in [Conns -> Nat]
      /\ ConnInv'
  <2>1. UNCHANGED <<peer, backlog>>
    BY <1>1
  <2>2. {f} \in SUBSET Fds /\ \A g \in {f} : owner[g] \in Conns
    BY <1>3
  <2> HIDE DEF f
  <2> QED  BY <2>1, <2>2, <1>1, ClosingKeepsConns
<1>9. \A g \in Fds : owner'[g] = IF g = f THEN Free ELSE owner[g]
  BY <1>1 DEF CloseAll
<1>10. IsFiniteSet(pool.active) /\ IsFiniteSet(a) /\ Cardinality(a) = Cardinality(pool.active) - 1
  <2>1. IsFiniteSet(pool.active)
    BY DEF CountInv
  <2> QED  BY <2>1, <1>3, FS_RemoveElement
<1> HIDE DEF f, n, a
<1>11. /\ pool' \in PoolRecords /\ pool'.pending = pool.pending /\ pool'.active = a
       /\ pool'.admitted = n /\ pool'.ever_admitted = pool.ever_admitted
       /\ pool'.stopping = pool.stopping
  <2>1. pool' \in PoolRecords
    BY <1>1, <1>2, <1>4, ReleaseTyped
  <2>2. /\ pool'.pending = pool.pending /\ pool'.active = a
        /\ pool'.admitted = n /\ pool'.ever_admitted = pool.ever_admitted
        /\ pool'.stopping = pool.stopping
    BY <1>1, <1>2 DEF PoolRecords
  <2> QED  BY <2>1, <2>2
<1>12. /\ \A v \in Workers : Busy(v)' <=> Busy(v) /\ v # w
       /\ \A v \in Workers : worker'[v].fd = IF v = w THEN NoFd ELSE worker[v].fd
       /\ \A g : Pending(g)' <=> Pending(g)
  BY <1>5, <1>7, <1>11 DEF Busy, Pending
<1>13. TypeOK'
  <2>1. worker' \in [Workers -> WorkerRecords]
    BY <1>1, <1>2, <1>5
  <2>2. shut' \subseteq Fds
    BY <1>1 DEF TypeOK
  <2>3. drained' \in Int /\ quiet' \in Int
    BY <1>1 DEF TypeOK
  <2> QED  BY <2>1, <2>2, <2>3, <1>1, <1>8, <1>11 DEF TypeOK, PoolRecords, WorkerRecords
<1>14. PlacesInv'
  <2>0. UNCHANGED main /\ pool'.active = a /\ pool'.pending = pool.pending
    BY <1>1, <1>11
  <2>1. \A v \in Workers : IF Busy(v)' THEN worker'[v].fd \in pool'.active ELSE worker'[v].fd = NoFd
    BY <2>0, <1>6, <1>7, <1>12 DEF PlacesInv
  <2>2. \A g \in pool'.active : \E v \in Workers : Busy(v)' /\ worker'[v].fd = g
    <3> SUFFICES ASSUME NEW g \in pool.active, g # f
                 PROVE  \E v \in Workers : Busy(v)' /\ worker'[v].fd = g
      BY <2>0, <1>6
    <3>1. PICK v \in Workers : Busy(v) /\ worker[v].fd = g
      BY DEF PlacesInv
    <3>2. v # w
      BY <3>1 DEF f
    <3> QED  BY <3>1, <3>2, <1>12
  <2>3. \A u, v \in Workers : u # v /\ Busy(u)' => worker'[u].fd # worker'[v].fd
    <3> SUFFICES ASSUME NEW u \in Workers, NEW v \in Workers, u # v, Busy(u), u # w
                 PROVE  worker[u].fd # worker'[v].fd
      BY <1>12
    <3>1. worker[u].fd \in Fds
      BY <1>2 DEF PlacesInv
    <3> QED  BY <3>1, <1>12, Numbers DEF PlacesInv
  <2>4. \A g \in Fds : g \in pool'.active => ~Pending(g)' /\ g # main'.fd
    BY <2>0, <1>6, <1>12 DEF PlacesInv
  <2>5. \A g \in Fds : owner'[g] \in Conns <=> g \in pool'.active \/ Pending(g)' \/ g = main'.fd
    <3>1. ASSUME NEW g \in Fds, g # f
          PROVE  owner'[g] \in Conns <=> g \in pool'.active \/ Pending(g)' \/ g = main'.fd
      BY <3>1, <2>0, <1>6, <1>9, <1>12 DEF PlacesInv
    <3>2. owner'[f] \notin Conns /\ f \notin pool'.active
      BY <2>0, <1>3, <1>6, <1>9, Numbers
    <3>3. \A g \in Fds : g = f => ~Pending(g)' /\ g # main'.fd
      BY <2>0, <1>3, <1>12
    <3> QED  BY <3>1, <3>2, <3>3
  <2> QED  BY <2>0, <2>1, <2>2, <2>3, <2>4, <2>5, <1>12 DEF PlacesInv
<1>15. CountInv'
  <2>1. pool.admitted <= MaximumAdmitted /\ MaximumAdmitted' = MaximumAdmitted
    BY <1>1 DEF CountInv, MaximumAdmitted
  <2> QED  BY <2>1, <1>2, <1>4, <1>10, <1>11 DEF CountInv
<1>16. PhaseInv'
  <2>1. main.pc # "returned" /\ main.pc \notin {"open", "failed"}
    <3>1. main.pc # "returned"
      BY <1>1 DEF PhaseInv
    <3> QED  BY <3>1, <1>3, OwnedThenOpen
  <2> QED  BY <2>1, <1>1, <1>11 DEF PhaseInv, Tcp
<1>17. IdleInv'
  <2>1. main.why # "idle" /\ (main.pc = "decide" => main.snap.admitted # 0)
    BY <1>2, <1>4 DEF IdleInv
  <2>2. n = 0 => quiet' = 0 /\ drained' = 0
    BY <1>1, <1>2, <1>4
  <2> QED  BY <2>1, <2>2, <1>1, <1>11 DEF IdleInv, Tcp
<1>18. SetupInv'
  <2>1. ASSUME Tcp, NEW v \in Workers
        PROVE  IF Busy(v)' THEN SetupOK(worker[v])' ELSE worker'[v].first
    <3>1. CASE v = w
      BY <3>1, <1>5, <1>7, <1>12
    <3>2. CASE v # w /\ Busy(v)
      <4>1. worker[v].fd \in Fds /\ worker[v].fd # f
        BY <3>2, <1>2, <1>7 DEF PlacesInv
      <4>2. worker'[v] = worker[v] /\ owner'[worker[v].fd] = owner[worker[v].fd]
        BY <4>1, <3>2, <1>7, <1>9
      <4>3. SetupOK(worker[v])
        BY <3>2, <2>1 DEF SetupInv
      <4> QED  BY <4>2, <4>3, <3>2, <1>1, <1>12 DEF SetupOK, Trusts
    <3>3. CASE v # w /\ ~Busy(v)
      BY <3>3, <2>1, <1>7, <1>12 DEF SetupInv
    <3> QED  BY <3>1, <3>2, <3>3
  <2> QED  BY <2>1, <1>1 DEF SetupInv, Tcp
<1> QED  BY <1>8, <1>13, <1>14, <1>15, <1>16, <1>17, <1>18

-----------------------------------------------------------------------------
(* Before the first connection no permit and no descriptor is taken. *)
LEMMA InitHolds == Init => IndInv
<1> SUFFICES ASSUME Init  PROVE IndInv
  OBVIOUS
<1>1. opts \in Options /\ peer = <<>> /\ backlog = <<>> /\ Len(peer) = 0 /\ Len(backlog) = 0
  BY DEF Init
<1>2. pool = [pending |-> <<>>, active |-> {}, admitted |-> 0, ever_admitted |-> FALSE, stopping |-> FALSE]
  BY DEF Init
<1>3. /\ pool.pending = <<>> /\ pool.active = {} /\ pool.admitted = 0 /\ pool.ever_admitted = FALSE
      /\ pool.stopping = FALSE /\ Len(pool.pending) = 0
  BY <1>2
<1>4. main.pc = "open" /\ main.fd = NoFd /\ main.why = "none"
  BY DEF Init
<1>5. /\ worker \in [Workers -> WorkerRecords]
      /\ \A w \in Workers : /\ worker[w].pc \in {"wait", "exited"} /\ worker[w].fd = NoFd
                             /\ worker[w].first = TRUE
  <2>1. worker = [w \in Workers |-> IF w <= opts.active THEN IdleWorker
                                    ELSE [IdleWorker EXCEPT !.pc = "exited"]]
    BY DEF Init
  <2>2. IdleWorker \in WorkerRecords /\ [IdleWorker EXCEPT !.pc = "exited"] \in WorkerRecords
    BY IdleTyped
  <2>3. worker \in [Workers -> WorkerRecords]
    BY <2>1, <2>2
  <2>4. \A w \in Workers : worker[w] = IdleWorker \/ worker[w] = [IdleWorker EXCEPT !.pc = "exited"]
    BY <2>1
  <2> QED  BY <2>3, <2>4 DEF IdleWorker
<1>6. TypeOK
  <2>1. /\ <<>> \in Seq(Peers[opts.kind]) /\ <<>> \in Seq(Conns) /\ <<>> \in Seq(Fds)
    BY EmptySeq
  <2>2. pool \in [pending : Seq(Fds), active : SUBSET Fds, admitted : Int,
                 ever_admitted : BOOLEAN, stopping : BOOLEAN]
    BY <2>1, <1>2
  <2>3. main \in [pc : {"open", "failed", "wait", "decide", "poll", "accept", "submit", "close",
                       "stop", "join", "returned"},
                 fd : Fds \cup {NoFd}, why : {"none", "idle", "error"},
                 snap : [admitted : Int, ever_admitted : BOOLEAN]]
    BY DEF Init
  <2>4. owner \in [Fds -> Conns \cup {Free, Other}] /\ shut \subseteq Fds
    BY DEF Init
  <2>5. closes \in [Conns -> Nat] /\ age \in [Conns -> Int] /\ drained \in Int /\ quiet \in Int
    BY DEF Init
  <2> QED  BY <2>1, <2>2, <2>3, <2>4, <2>5, <1>1, <1>5 DEF TypeOK, WorkerRecords
<1>7. PlacesInv
  <2>1. (\A w \in Workers : ~Busy(w)) /\ (\A f : ~Pending(f))
    BY <1>3, <1>5 DEF Busy, Pending
  <2>2. \A f \in Fds : owner[f] \notin Conns /\ f # NoFd
    BY Numbers DEF Init
  <2> QED  BY <2>1, <2>2, <1>3, <1>4, <1>5 DEF PlacesInv
<1>8. ConnInv
  <2>1. \A f \in Fds : owner[f] \notin Conns
    BY Numbers DEF Init
  <2>2. \A c \in Conns : closes[c] = 0
    BY DEF Init
  <2> QED  BY <2>1, <2>2, <1>1 DEF ConnInv
<1>9. CountInv
  <2>1. MaximumAdmitted \in Nat
    BY <1>1, PoolAssumption DEF MaximumAdmitted
  <2> QED  BY <2>1, <1>3, FS_EmptySet DEF CountInv
<1>10. PhaseInv /\ IdleInv
  BY <1>3, <1>4 DEF PhaseInv, IdleInv
<1>11. SetupInv
  <2>1. \A c \in Conns : age[c] >= 0
    BY DEF Init
  <2> QED  BY <2>1, <1>5 DEF SetupInv, Busy
<1> QED  BY <1>6, <1>7, <1>8, <1>9, <1>10, <1>11 DEF IndInv

(* A step of the listener, of a worker, of a peer, of the clock or of the  *)
(* rest of the process keeps the invariant.                                *)
LEMMA NextKeeps == IndInv /\ [Next]_vars => IndInv'
<1> SUFFICES ASSUME IndInv, [Next]_vars  PROVE IndInv'
  OBVIOUS
<1>1. CASE Connect
  BY <1>1, ConnectKeeps
<1>2. CASE Tick
  BY <1>2, TickKeeps
<1>3. ASSUME NEW f \in Fds, OpenOther(f) \/ CloseOther(f)  PROVE IndInv'
  BY <1>3, OthersKeep
<1>4. CASE MainStep
  BY <1>4, MainStepsKeep, AcceptKeeps, SubmitKeeps, StopKeeps DEF MainStep
<1>5. ASSUME NEW w \in Workers, WorkerStep(w) \/ PeerSends(w) \/ PeerReads(w) \/ PeerEnds(w)
      PROVE  IndInv'
  BY <1>5, WorkerStepsKeep, PeerSendsKeeps, TakeKeeps, ExitKeeps, ReleaseKeeps DEF WorkerStep
<1>6. CASE UNCHANGED vars
  <2>1. \A f : Pending(f)' <=> Pending(f)
    BY <1>6 DEF vars, Pending
  <2>2. \A w : Busy(w)' <=> Busy(w)
    BY <1>6 DEF vars, Busy
  <2>3. TypeOK' /\ ConnInv' /\ CountInv' /\ PhaseInv' /\ IdleInv'
    BY <1>6 DEF vars, IndInv, TypeOK, ConnInv, CountInv, PhaseInv, IdleInv, MaximumAdmitted, Tcp
  <2>4. PlacesInv'
    BY <1>6, <2>1, <2>2 DEF vars, IndInv, PlacesInv
  <2>5. SetupInv'
    BY <1>6, SetupKept DEF vars
  <2> QED  BY <2>3, <2>4, <2>5 DEF IndInv
<1> QED  BY <1>1, <1>2, <1>3, <1>4, <1>5, <1>6 DEF Next

(* The invariant holds in every state of the listener. *)
THEOREM Invariance == Spec => []IndInv
BY InitHolds, NextKeeps, PTL DEF Spec

(* The permits that are out are the connections in the pool, never more    *)
(* than configured: submit(), worker_loop() and stop() never lose one.     *)
THEOREM PermitsMatchAlways == Spec => []PermitsMatch
<1>1. IndInv => PermitsMatch
  <2> SUFFICES ASSUME IndInv  PROVE PermitsMatch
    OBVIOUS
  <2>1. pool.active = {worker[w].fd : w \in {v \in Workers : worker[v].pc \notin {"wait", "exited"}}}
    BY DEF IndInv, PlacesInv, Busy
  <2> QED  BY <2>1 DEF IndInv, CountInv, PermitsMatch
<1> QED  BY <1>1, Invariance, PTL

(* What the pool and its workers hold are open descriptors of connections, *)
(* each in one place; a connection is closed at most once, and is closed   *)
(* when the serve call returns.                                            *)
THEOREM DescriptorsOwnedAlways == Spec => []DescriptorsOwned
<1>1. IndInv => DescriptorsOwned
  <2> SUFFICES ASSUME IndInv  PROVE DescriptorsOwned
    OBVIOUS
  <2> USE DEF IndInv
  <2>1. pool.active \in SUBSET Fds /\ pool.pending \in Seq(Fds)
    BY PermitFacts
  <2>2. \A f : f \in Range(pool.pending) <=> Pending(f)
    BY <2>1 DEF Pending, Range
  <2>3. \A f : Pending(f) => f \in Fds
    BY <2>1 DEF Pending
  <2>4. \A f \in pool.active \cup Range(pool.pending) : owner[f] \in Conns
    BY <2>1, <2>2, <2>3 DEF PlacesInv
  <2>5. \A w \in Workers : worker[w].fd # NoFd => Busy(w) /\ owner[worker[w].fd] \in Conns
    BY <2>1 DEF PlacesInv
  <2>6. pool.active \cap Range(pool.pending) = {}
    BY <2>1, <2>2 DEF PlacesInv
  <2>7. \A v, w \in Workers : v # w /\ worker[v].fd # NoFd => worker[v].fd # worker[w].fd
    BY <2>5 DEF PlacesInv
  <2>8. main.pc = "returned" => \A f \in Fds : owner[f] \notin Conns
    <3> SUFFICES ASSUME main.pc = "returned", NEW f \in Fds  PROVE owner[f] \notin Conns
      OBVIOUS
    <3>1. \A w \in Workers : ~Busy(w)
      BY DEF PhaseInv, Busy
    <3>2. ~Pending(f)
      BY DEF PhaseInv, Pending
    <3>3. f \notin pool.active
      BY <3>1 DEF PlacesInv
    <3> QED  BY <3>2, <3>3, Numbers DEF PlacesInv
  <2> QED  BY <2>4, <2>5, <2>6, <2>7, <2>8 DEF DescriptorsOwned, PlacesInv, ConnInv
<1> QED  BY <1>1, Invariance, PTL

(* wait_for_connection_or_idle() only ends the accept loop when no         *)
(* connection is admitted, and none was for idle_timeout.                  *)
THEOREM IdleExitIsIdleAlways == Spec => []IdleExitIsIdle
<1>1. IndInv => IdleExitIsIdle
  BY DEF IndInv, IdleInv, IdleExitIsIdle
<1> QED  BY <1>1, Invariance, PTL

(* serve_tcp(): nobody is waited for longer than the setup timeout for a   *)
(* first request, and behind a required preamble only what a configured    *)
(* proxy asserted is served.                                               *)
THEOREM SetupBoundedAlways == Spec => []SetupBounded
<1>1. IndInv => SetupBounded
  <2> SUFFICES ASSUME IndInv, Tcp, NEW w \in Workers
               PROVE  /\ worker[w].fd # NoFd /\ worker[w].first => worker[w].held <= opts.setup
                      /\ opts.v2 /\ ~worker[w].first =>
                            /\ worker[w].asserted # "none"
                            /\ \E i \in DOMAIN opts.trusted :
                                  NormalizeIp(opts.trusted[i]) = NormalizeIp(peer[owner[worker[w].fd]].address)
    BY DEF SetupBounded
  <2>1. CASE Busy(w)
    BY <2>1 DEF IndInv, SetupInv, SetupOK, Trusts, TrustedSender
  <2>2. CASE ~Busy(w)
    BY <2>2 DEF IndInv, SetupInv, PlacesInv
  <2> QED  BY <2>1, <2>2
<1> QED  BY <1>1, Invariance, PTL
=============================================================================
