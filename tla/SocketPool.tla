----------------------------- MODULE SocketPool -----------------------------
(***************************************************************************)
(* The listener of the Unix and TCP transports (socket_transport.cpp:      *)
(* serve_unix, serve_tcp, accept_loop, wait_for_connection_or_idle), its   *)
(* bounded pool (socket_transport_internal.h: SocketConnectionPool,        *)
(* idle_deadline) and the life of a connection in a worker: on TCP the     *)
(* PROXY preamble, the peer's identity and the deadlines of the streams.   *)
(*                                                                         *)
(* One thread accepts, the workers serve; every access to the pool's state *)
(* is under its mutex, so each critical section is one action.  File       *)
(* descriptors are reused as soon as they are closed, by the next accept   *)
(* or by anything else in the process that opens a file.                   *)
(*                                                                         *)
(* Time is kept as what the code compares: how long ago the pool drained,  *)
(* a connection was accepted, a read or write began.  A poll() returns at  *)
(* its deadline: time does not pass a deadline that somebody waits for.    *)
(***************************************************************************)
EXTENDS Integers, ProxyProtocol, Functions, FiniteSetsExt

CONSTANTS
    Options,       \* what serve_unix() or serve_tcp() is called with, and two
                   \* bounds: how many peers connect then (conns), and how many
                   \* other files the process opens meanwhile (others)
    Peers,         \* kind -> who connects: address and preamble
    MaxFds         \* bound: descriptors available to connections

ASSUME PoolAssumption ==
    /\ \A o \in Options :
          /\ o.kind \in {"unix", "tcp"} /\ o.conns \in Nat /\ o.others \in Nat
          /\ o.active \in Nat /\ o.pending \in Nat
          /\ o.kind = "unix" => /\ o.active > 0 /\ o.pending > 0
                               /\ o.idle \in Int /\ o.grace \in Int
          /\ o.kind = "tcp" => \A t \in {o.setup, o.preamble, o.identity, o.idleRead, o.write} : t \in Int
    /\ MaxFds \in Nat

(* Peers are numbered in the order they connect. *)
Conns == UNION {1..o.conns : o \in Options}
Fds == 1..MaxFds
Free == 0      \* a descriptor that is closed
Other == -1    \* one that another part of the process has open

Workers == UNION {1..o.active : o \in Options}
NoFd == 0

VARIABLES
    opts,      \* the options of this listener
    peer,      \* who is behind each connection
    backlog,   \* connections the kernel holds for accept()
    owner,     \* what each descriptor is open for
    shut,      \* descriptors that shutdown() was called on
    closes,    \* how often each accepted connection was closed
    pool,      \* [pending, active, admitted, ever_admitted, stopping]
    drained,   \* time since drained_at_, or since the start before the first client
    quiet,     \* time since a connection was last admitted or ended
    age,       \* time since each connection was accepted
    worker,    \* what each worker does
    main       \* the accepting thread: [pc, fd, snap, why]

vars == <<opts, peer, backlog, owner, shut, closes, pool, drained, quiet, age, worker, main>>

Tcp == opts.kind = "tcp"
MaximumAdmitted == opts.active + opts.pending

(* Ages past these compare like them: the clocks stop there. *)
MaxIdle == IF Tcp THEN 0 ELSE Max({opts.idle, opts.grace})
MaxSetup == IF Tcp THEN opts.setup ELSE 0
MaxWait == IF Tcp THEN Max({opts.preamble, opts.identity, opts.idleRead, opts.write}) ELSE 0

(* A worker that waits; asserted is what a preamble said, held is the time  *)
(* the worker waited for the first request.                                 *)
IdleWorker == [pc |-> "wait", fd |-> NoFd, first |-> TRUE, asserted |-> "none",
               wait |-> 0, held |-> 0]

Reading == {"prefix", "rest", "request"}
Setup == {"resolve", "prefix", "rest", "identity"}

TypeOK ==
    /\ opts \in Options
    /\ peer \in Seq(Peers[opts.kind]) /\ backlog \in Seq(Conns)
    /\ owner \in [Fds -> Conns \cup {Free, Other}]
    /\ shut \subseteq Fds
    /\ closes \in [Conns -> Nat] /\ age \in [Conns -> Int]
    /\ pool \in [pending : Seq(Fds), active : SUBSET Fds, admitted : Int,
                ever_admitted : BOOLEAN, stopping : BOOLEAN]
    /\ drained \in Int /\ quiet \in Int
    /\ worker \in [Workers ->
          [pc : Setup \cup {"wait", "request", "reply", "ended", "exited"}, fd : Fds \cup {NoFd},
           first : BOOLEAN, asserted : {"none", "iroh", "address"},
           wait : Int, held : Int]]
    /\ main \in [pc : {"open", "failed", "wait", "decide", "poll", "accept", "submit", "close",
                      "stop", "join", "returned"},
                fd : Fds \cup {NoFd}, why : {"none", "idle", "error"},
                snap : [admitted : Int, ever_admitted : BOOLEAN]]

Init ==
    /\ opts \in Options
    /\ peer = <<>>
    /\ backlog = <<>>
    /\ owner = [f \in Fds |-> Free]
    /\ shut = {}
    /\ closes = [c \in Conns |-> 0]
    /\ pool = [pending |-> <<>>, active |-> {}, admitted |-> 0, ever_admitted |-> FALSE,
               stopping |-> FALSE]
    /\ drained = 0 /\ quiet = 0
    /\ age = [c \in Conns |-> 0]
    /\ worker = [w \in Workers |-> IF w <= opts.active THEN IdleWorker
                                  ELSE [IdleWorker EXCEPT !.pc = "exited"]]
    /\ main = [pc |-> "open", fd |-> NoFd, why |-> "none",
               snap |-> [admitted |-> 0, ever_admitted |-> FALSE]]

Listening == main.pc \notin {"open", "failed", "stop", "join", "returned"}

-----------------------------------------------------------------------------
(* The environment: peers, the clock, and other files of the process. *)
Connect ==
    /\ Len(peer) < opts.conns /\ Listening
    /\ \E p \in Peers[opts.kind] : peer' = Append(peer, p)
    /\ backlog' = Append(backlog, Len(peer) + 1)
    /\ UNCHANGED <<opts, owner, shut, closes, pool, drained, quiet, age, worker, main>>

(* The preamble and the identity timed from their own start only. *)
Bug_StepsTimedAlone(w) ==
    LET k == worker[w] IN
    /\ Tcp /\ k.fd # NoFd
    /\ CASE k.pc \in {"prefix", "rest"} -> k.wait >= opts.preamble
         [] k.pc = "identity" -> k.wait >= opts.identity
         [] k.pc = "request" -> IF k.first THEN age[owner[k.fd]] >= opts.setup ELSE k.wait >= opts.idleRead
         [] k.pc = "reply" -> k.wait >= opts.write
         [] OTHER -> FALSE

(* A worker reads, writes or resolves against a deadline that has passed.  *)
(* The deadlines of serve_tcp(): the whole setup, the first request        *)
(* included, has one that runs from accept(); the preamble and the         *)
(* identity have their own within it; later reads and writes have one      *)
(* each.  serve_unix() has none.                                           *)
Overdue(w) ==
    LET k == worker[w]
        budget == age[owner[k.fd]] >= opts.setup
    IN  /\ Tcp /\ k.fd # NoFd
        /\ CASE k.pc \in {"prefix", "rest"} -> budget \/ k.wait >= opts.preamble
             [] k.pc = "identity" -> budget \/ k.wait >= opts.identity
             [] k.pc = "request" -> IF k.first THEN budget ELSE k.wait >= opts.idleRead
             [] k.pc = "reply" -> k.wait >= opts.write
             [] OTHER -> FALSE

Tick ==
    /\ \A w \in Workers : ~Overdue(w)
    /\ drained' = Min({drained + 1, MaxIdle})
    /\ quiet' = Min({quiet + 1, MaxIdle})
    /\ age' = [c \in Conns |-> IF \E f \in Fds : owner[f] = c THEN Min({age[c] + 1, MaxSetup}) ELSE age[c]]
    /\ worker' = [w \in Workers |->
                    IF worker[w].pc \in {"wait", "resolve", "ended", "exited"} THEN worker[w]
                    ELSE [worker[w] EXCEPT !.wait = Min({@ + 1, MaxWait}),
                            !.held = IF Tcp /\ worker[w].first THEN Min({@ + 1, MaxSetup + 1}) ELSE @]]
    /\ UNCHANGED <<opts, peer, backlog, owner, shut, closes, pool, main>>

(* The kernel hands out the lowest descriptor that is free. *)
Lowest(f) == owner[f] = Free /\ \A g \in Fds : g < f => owner[g] # Free

OpenOther(f) ==
    /\ Lowest(f) /\ Cardinality({g \in Fds : owner[g] = Other}) < opts.others
    /\ owner' = [owner EXCEPT ![f] = Other]
    /\ UNCHANGED <<opts, peer, backlog, shut, closes, pool, drained, quiet, worker, main, age>>

CloseOther(f) ==
    /\ owner[f] = Other
    /\ owner' = [owner EXCEPT ![f] = Free]
    /\ shut' = shut \ {f}
    /\ UNCHANGED <<opts, peer, backlog, closes, pool, drained, quiet, worker, main, age>>

(* ::close(fd) of a set of descriptors. *)
CloseAll(S) ==
    /\ closes' = [c \in Conns |-> closes[c] + Cardinality({f \in S : owner[f] = c})]
    /\ owner' = [f \in Fds |-> IF f \in S THEN Free ELSE owner[f]]

-----------------------------------------------------------------------------
(* The accepting thread. *)

(* serve_unix() and serve_tcp(): bad options, a socket that cannot be      *)
(* bound or a start hook that throws end the call; the descriptor and the  *)
(* path are given back.                                                    *)
Open ==
    /\ main.pc = "open"
    /\ \/ /\ IF Tcp THEN TcpOptionsAccepted(opts) ELSE UnixOptionsAccepted(opts)
          /\ main' = [main EXCEPT !.pc = "wait"]
       \/ main' = [main EXCEPT !.pc = "failed"]
    /\ UNCHANGED <<opts, peer, backlog, owner, shut, closes, pool, drained, quiet, worker, age>>

(* idle_snapshot(), under the lock.  Without an idle timeout the wait is   *)
(* skipped.                                                                *)
Snapshot ==
    /\ main.pc = "wait"
    /\ main' = IF Tcp \/ opts.idle = 0 THEN [main EXCEPT !.pc = "accept"]
               ELSE [main EXCEPT !.pc = "decide",
                       !.snap = [admitted |-> pool.admitted, ever_admitted |-> pool.ever_admitted]]
    /\ UNCHANGED <<opts, peer, backlog, owner, shut, closes, pool, drained, quiet, worker, age>>

(* idle_deadline() has passed. *)
Expired(snap) ==
    /\ snap.admitted = 0
    /\ drained >= IF snap.ever_admitted THEN opts.idle ELSE opts.grace

Decide ==
    /\ main.pc = "decide"
    /\ main' = IF Expired(main.snap) THEN [main EXCEPT !.pc = "close", !.why = "idle"]
               ELSE [main EXCEPT !.pc = "poll"]
    /\ UNCHANGED <<opts, peer, backlog, owner, shut, closes, pool, drained, quiet, worker, age>>

(* poll(), bounded by the deadline or by kBusyRecheck. *)
Poll ==
    /\ main.pc = "poll"
    /\ main' = [main EXCEPT !.pc = IF backlog # <<>> THEN "accept" ELSE "wait"]
    /\ UNCHANGED <<opts, peer, backlog, owner, shut, closes, pool, drained, quiet, worker, age>>

Accept(f) ==
    /\ main.pc = "accept" /\ backlog # <<>> /\ Lowest(f)
    /\ owner' = [owner EXCEPT ![f] = Head(backlog)]
    /\ backlog' = Tail(backlog)
    /\ main' = [main EXCEPT !.pc = "submit", !.fd = f]
    /\ UNCHANGED <<opts, peer, shut, closes, pool, drained, quiet, worker, age>>

(* accept() returns an error other than EINTR: the loop ends. *)
AcceptFails ==
    /\ main.pc = "accept" /\ backlog # <<>>
    /\ main' = [main EXCEPT !.pc = "close", !.why = "error"]
    /\ UNCHANGED <<opts, peer, backlog, owner, shut, closes, pool, drained, quiet, worker, age>>

Admits == ~pool.stopping /\ pool.admitted # MaximumAdmitted

(* submit(); at saturation the descriptor is closed here and the loop      *)
(* keeps accepting.                                                        *)
Submit ==
    /\ main.pc = "submit"
    /\ IF Admits
         THEN /\ pool' = [pool EXCEPT !.admitted = @ + 1, !.ever_admitted = TRUE,
                                      !.pending = Append(@, main.fd)]
              /\ quiet' = 0
              /\ UNCHANGED <<owner, closes>>
         ELSE CloseAll({main.fd}) /\ UNCHANGED <<pool, quiet>>
    /\ main' = [main EXCEPT !.pc = "wait", !.fd = NoFd]
    /\ UNCHANGED <<opts, peer, backlog, shut, drained, worker, age>>

(* close(listen_fd): what the kernel still held is reset. *)
CloseListener ==
    /\ main.pc = "close"
    /\ backlog' = <<>>
    /\ main' = [main EXCEPT !.pc = "stop"]
    /\ UNCHANGED <<opts, peer, owner, shut, closes, pool, drained, quiet, worker, age>>

(* The active connections left to end on their own. *)
Bug_StopWithoutShutdown ==
    /\ main.pc = "stop"
    /\ CloseAll(Range(pool.pending))
    /\ pool' = [pool EXCEPT !.stopping = TRUE, !.pending = <<>>,
                            !.admitted = @ - Len(pool.pending)]
    /\ main' = [main EXCEPT !.pc = "join"]
    /\ UNCHANGED <<opts, peer, backlog, shut, drained, quiet, worker, age>>

(* stop(), the locked part: pending connections are closed, active ones    *)
(* only shut down, for their workers to close.                             *)
Stop ==
    /\ main.pc = "stop"
    /\ CloseAll(Range(pool.pending))
    /\ pool' = [pool EXCEPT !.stopping = TRUE, !.pending = <<>>,
                            !.admitted = @ - Len(pool.pending)]
    /\ shut' = shut \cup pool.active
    /\ main' = [main EXCEPT !.pc = "join"]
    /\ UNCHANGED <<opts, peer, backlog, drained, quiet, worker, age>>

Join ==
    /\ main.pc = "join"
    /\ \A w \in Workers : worker[w].pc = "exited"
    /\ main' = [main EXCEPT !.pc = "returned"]
    /\ UNCHANGED <<opts, peer, backlog, owner, shut, closes, pool, drained, quiet, worker, age>>

-----------------------------------------------------------------------------
(* A worker. *)
Take(w) ==
    /\ worker[w].pc = "wait" /\ pool.pending # <<>>
    /\ pool' = [pool EXCEPT !.pending = Tail(@), !.active = @ \cup {Head(pool.pending)}]
    /\ worker' = [worker EXCEPT ![w] = [IdleWorker EXCEPT
                                     !.pc = IF Tcp THEN "resolve" ELSE "request",
                                     !.fd = Head(pool.pending)]]
    /\ UNCHANGED <<opts, peer, backlog, owner, shut, closes, drained, quiet, main, age>>

Exit(w) ==
    /\ worker[w].pc = "wait" /\ pool.stopping /\ pool.pending = <<>>
    /\ worker' = [worker EXCEPT ![w].pc = "exited"]
    /\ UNCHANGED <<opts, peer, backlog, owner, shut, closes, pool, drained, quiet, main, age>>

Goto(w, pc) == worker' = [worker EXCEPT ![w].pc = pc, ![w].wait = 0]

WorkerOnly == UNCHANGED <<opts, peer, backlog, owner, shut, closes, pool, drained, quiet, main, age>>

(* resolve_tcp_identity(): where a preamble is required, only a configured  *)
(* proxy is listened to.                                                    *)
Resolve(w) ==
    /\ worker[w].pc = "resolve"
    /\ Goto(w, IF ~opts.v2 THEN "identity"
               ELSE IF TrustedSender(peer[owner[worker[w].fd]].address, opts.trusted) THEN "prefix"
               ELSE "ended")
    /\ WorkerOnly

(* read_proxy_protocol_v2(): the fixed part gives the size of the whole,    *)
(* both are read against one deadline.                                      *)
PreambleRead(w, p) ==
    LET said == Asserts(p, opts.maxPreamble, opts.iroh) IN
    IF worker[w].pc = "prefix"
    THEN [worker[w] EXCEPT !.pc = IF SizeAccepted(p, opts.maxPreamble) THEN "rest" ELSE "ended"]
    ELSE IF said = "error" THEN [worker[w] EXCEPT !.pc = "ended"]
    ELSE [worker[w] EXCEPT !.pc = "identity", !.wait = 0, !.asserted = said]

(* The peer sends the rest of what is being read, or a part of it.  A part *)
(* ends the current Read() of a later request, and the next one has a      *)
(* deadline of its own: there is no end to what a peer may send.  A part   *)
(* of the preamble or of the first request moves no deadline.  Without     *)
(* deadlines what is sent is of no consequence here.                       *)
PeerSends(w) ==
    LET k == worker[w] IN
    /\ Tcp /\ k.pc \in Reading /\ k.fd \notin shut /\ ~Overdue(w)
    /\ \/ /\ k.pc = "request" /\ ~k.first
          /\ worker' = [worker EXCEPT ![w].wait = 0]
       \/ /\ k.pc = "request"
          /\ worker' = [worker EXCEPT ![w].pc = "reply", ![w].wait = 0, ![w].first = FALSE]
       \/ /\ k.pc # "request"
          /\ worker' = [worker EXCEPT ![w] = PreambleRead(w, peer[owner[k.fd]].preamble)]
    /\ WorkerOnly

(* The end of resolve_tcp_identity(): the hooks of the application and the *)
(* policy, which may refuse.  The hooks are given a deadline and keep it.  *)
IdentityResolved(w) ==
    /\ worker[w].pc = "identity"
    /\ Goto(w, "request") \/ Goto(w, "ended")
    /\ WorkerOnly

(* The peer takes the reply, or one Write() of it: the next has a deadline *)
(* of its own.                                                             *)
PeerReads(w) ==
    /\ worker[w].pc = "reply" /\ worker[w].fd \notin shut
    /\ Goto(w, "request") \/ Goto(w, "reply")
    /\ WorkerOnly

(* A read or write gives up at its deadline, the identity at its own. *)
DeadlineEnds(w) ==
    /\ Overdue(w)
    /\ Goto(w, "ended")
    /\ WorkerOnly

(* The peer closes or breaks the framing ... *)
PeerEnds(w) ==
    /\ worker[w].pc \in Reading \cup {"reply"} /\ worker[w].fd \notin shut
    /\ Goto(w, "ended")
    /\ WorkerOnly

(* ... or reads and writes were woken by shutdown(). *)
ShutdownEnds(w) ==
    /\ worker[w].pc \in Reading \cup {"reply"} /\ worker[w].fd \in shut
    /\ Goto(w, "ended")
    /\ WorkerOnly

(* The drain time kept from an earlier drain. *)
Bug_ReleaseKeepsDrainTime(w) ==
    LET f == worker[w].fd IN
    /\ worker[w].pc = "ended"
    /\ CloseAll({f})
    /\ shut' = shut \ {f}
    /\ pool' = [pool EXCEPT !.active = @ \ {f}, !.admitted = @ - 1]
    /\ UNCHANGED drained
    /\ quiet' = 0
    /\ worker' = [worker EXCEPT ![w] = IdleWorker]
    /\ UNCHANGED <<opts, peer, backlog, main, age>>

(* The descriptor closed before the lock is taken: it stays in active_. *)
Bug_ClosesBeforeLock(w) ==
    LET f == worker[w].fd IN
    /\ worker[w].pc = "ended"
    /\ IF owner[f] \in Conns
         THEN CloseAll({f}) /\ shut' = shut \ {f} /\ UNCHANGED <<pool, drained, quiet, worker>>
         ELSE /\ pool' = [pool EXCEPT !.active = @ \ {f}, !.admitted = @ - 1]
              /\ worker' = [worker EXCEPT ![w] = IdleWorker]
              /\ quiet' = 0 /\ drained' = IF pool.admitted = 1 THEN 0 ELSE drained
              /\ UNCHANGED <<owner, closes, shut>>
    /\ UNCHANGED <<opts, peer, backlog, main, age>>

(* The permit of a connection that ended is not given back. *)
Bug_ReleaseKeepsPermit(w) ==
    LET f == worker[w].fd IN
    /\ worker[w].pc = "ended"
    /\ CloseAll({f})
    /\ shut' = shut \ {f}
    /\ pool' = [pool EXCEPT !.active = @ \ {f}]
    /\ quiet' = 0
    /\ worker' = [worker EXCEPT ![w] = IdleWorker]
    /\ UNCHANGED <<opts, peer, backlog, drained, main, age>>

(* The exception of a failed connection ends its worker. *)
Bug_ReleaseEndsWorker(w) ==
    LET f == worker[w].fd IN
    /\ worker[w].pc = "ended"
    /\ CloseAll({f})
    /\ shut' = shut \ {f}
    /\ pool' = [pool EXCEPT !.active = @ \ {f}, !.admitted = @ - 1]
    /\ drained' = IF pool.admitted = 1 THEN 0 ELSE drained
    /\ quiet' = 0
    /\ worker' = [worker EXCEPT ![w] = [IdleWorker EXCEPT !.pc = "exited"]]
    /\ UNCHANGED <<opts, peer, backlog, main, age>>

(* The end of worker_loop(), under the lock. *)
Release(w) ==
    LET f == worker[w].fd IN
    /\ worker[w].pc = "ended"
    /\ CloseAll({f})
    /\ shut' = shut \ {f}
    /\ pool' = [pool EXCEPT !.active = @ \ {f}, !.admitted = @ - 1]
    /\ drained' = IF pool.admitted = 1 THEN 0 ELSE drained
    /\ quiet' = 0
    /\ worker' = [worker EXCEPT ![w] = IdleWorker]
    /\ UNCHANGED <<opts, peer, backlog, main, age>>

MainStep == Open \/ Snapshot \/ Decide \/ Poll \/ (\E f \in Fds : Accept(f)) \/ AcceptFails \/ Submit
            \/ CloseListener \/ Stop \/ Join
WorkerStep(w) == Take(w) \/ Exit(w) \/ Resolve(w) \/ IdentityResolved(w) \/ DeadlineEnds(w)
                 \/ ShutdownEnds(w) \/ Release(w)

Next ==
    \/ Connect
    \/ Tick
    \/ \E f \in Fds : OpenOther(f) \/ CloseOther(f)
    \/ MainStep
    \/ \E w \in Workers : WorkerStep(w) \/ PeerSends(w) \/ PeerReads(w) \/ PeerEnds(w)

Spec == Init /\ [][Next]_vars
(* Threads are scheduled, time passes, other files do not hold every       *)
(* descriptor for ever, and a peer that has not connected may never do so. *)
FairSpec ==
    /\ Spec
    /\ WF_vars(MainStep) /\ WF_vars(Tick)
    /\ \A f \in Fds : WF_vars(CloseOther(f))
    /\ \A w \in Workers : WF_vars(WorkerStep(w))

-----------------------------------------------------------------------------
(* Properties. *)

(* The permits that are out are the connections in the pool: none is lost  *)
(* when a connection ends, is refused or is dropped by stop(), and no more *)
(* connections are held than were configured.                              *)
PermitsMatch ==
    /\ pool.admitted = Len(pool.pending) + Cardinality(pool.active)
    /\ pool.admitted <= MaximumAdmitted
    /\ pool.active = {worker[w].fd : w \in {v \in Workers : worker[v].pc \notin {"wait", "exited"}}}

(* What the pool holds are open descriptors of connections, each in one    *)
(* place: stop() never shuts down, and nobody ever closes, a descriptor    *)
(* that has been reused in the meantime.  An accepted connection is closed *)
(* at most once, and exactly once by the time the serve call returns.      *)
DescriptorsOwned ==
    /\ \A f \in pool.active \cup Range(pool.pending) : owner[f] \in Conns
    /\ \A w \in Workers : worker[w].fd # NoFd => owner[worker[w].fd] \in Conns
    /\ pool.active \cap Range(pool.pending) = {}
    /\ \A i, j \in 1..Len(pool.pending) : i # j => pool.pending[i] # pool.pending[j]
    /\ \A v, w \in Workers : v # w /\ worker[v].fd # NoFd => worker[v].fd # worker[w].fd
    /\ \A c \in Conns : closes[c] <= 1
    /\ main.pc = "returned" => \A f \in Fds : owner[f] \notin Conns

(* The listener only gives up for idleness when no connection is admitted  *)
(* and none was for idle_timeout: the snapshot it decides on is not stale. *)
IdleExitIsIdle ==
    main.why = "idle" =>
       /\ pool.admitted = 0
       /\ pool.ever_admitted => quiet >= opts.idle

\* A worker does not stay longer with a peer that has not sent a request than
\* connection_setup_timeout, however slowly the preamble and the request come in;
\* and where a preamble is required, only what a configured proxy asserted is
\* served.
SetupBounded ==
    Tcp => \A w \in Workers :
              /\ worker[w].fd # NoFd /\ worker[w].first => worker[w].held <= opts.setup
              /\ opts.v2 /\ ~worker[w].first =>
                    /\ worker[w].asserted # "none"
                    /\ \E i \in DOMAIN opts.trusted :
                          NormalizeIp(opts.trusted[i]) = NormalizeIp(peer[owner[worker[w].fd]].address)

PeersHangUp == \A w \in Workers : []<>(worker[w].pc \notin Reading \cup {"reply"})

(* From some time on no peer sends or takes anything; none need hang up. *)
PeersFallSilent == <>[][\A w \in Workers : ~(PeerSends(w) \/ PeerReads(w))]_vars

(* An admitted connection is served to its end and closed if the peers     *)
(* before it and its own hang up in the end; on TCP it is enough that they *)
(* fall silent, the deadlines do the rest.  That much is needed of them:   *)
(* idle_read_timeout and write_timeout start afresh with every Read() and  *)
(* Write(), so a peer that goes on sending keeps its worker, and those     *)
(* pending behind it, for ever.                                            *)
AdmittedIsClosed ==
    (PeersHangUp \/ (Tcp /\ PeersFallSilent)) =>
        \A f \in Fds : (f \in Range(pool.pending)) ~> (f \notin Range(pool.pending) \cup pool.active)

(* The serve call returns.  stop() does whatever the peers do, because     *)
(* shutdown() wakes every worker it has to join; and a launched worker     *)
(* goes away when its clients do.                                          *)
ServerReturns ==
    /\ (main.pc = "stop") ~> (main.pc = "returned")
    /\ ~Tcp /\ PeersHangUp => <>(main.pc \in {"returned", "failed"})

=============================================================================
