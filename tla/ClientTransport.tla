-------------------------- MODULE ClientTransport --------------------------
(***************************************************************************)
(* The byte transports of the client (src/src/client_transport.cpp): how a *)
(* transport is opened - a spawned worker, a Unix or TCP socket, a TCP     *)
(* target behind a SOCKS5h proxy, a Windows named pipe, a stream of the    *)
(* Iroh library (src/src/iroh_client.cpp, src/src/iroh_cabi_transport.cpp) *)
(* - and how it is torn down by threads that may call close() together.    *)
(*                                                                         *)
(* The model keeps what the process owns (descriptors, the child), the     *)
(* state of the socket (non-blocking flag, I/O timeouts) and the time one  *)
(* connect has used; host names, ports and URIs are one class of argument  *)
(* each.  Both builds, POSIX and Windows, are modelled: they differ in     *)
(* what they check first, what they clean up and how they end a child.     *)
(***************************************************************************)
EXTENDS Naturals, FiniteSets

CONSTANTS
    ConnectTimeout, \* options.connect_timeout, in ticks
    Grace,          \* close_grace and terminate_grace, in ticks
    Addresses,      \* how many addresses getaddrinfo() returns at most
    PipeRoom,       \* writes the pipe of the child's stdout takes
    Closers         \* threads that call close(); the destructor is one

ASSUME TransportAssumption ==
    /\ {ConnectTimeout, Addresses, PipeRoom} \subseteq Nat \ {0}
    /\ Grace \in Nat

VARIABLES
    call,      \* what the caller asked for
    pc,        \* step of the thread that opens the transport
    stage,     \* step inside a SOCKS5h handshake or a spawn
    addr,      \* address of the list that is tried
    spent,     \* ticks since the deadline of the connect was computed
    ready,     \* the socket has what the opener polls for
    held,      \* descriptors and handles this process owns
    cloexec,   \* those another spawn cannot inherit
    inherited, \* those a concurrently spawned process did inherit
    sock,      \* [nonblocking, io]: state of the socket
    faulted,   \* a socket flag could not be changed
    child,     \* state of the spawned worker
    flush,     \* writes the worker has left, room in its stdout pipe
    term,      \* signals the worker got: "none", "term", "kill"
    native,    \* NativeState: finished, cancelled; spoilt when no end of the
               \* output could be sent before the stream was cancelled
    reader,    \* the thread in IrohInputStream::Read()
    waited,    \* ticks of the current grace period
    closed,    \* Impl::closed
    lock,      \* holder of Impl::mutex
    closer     \* step of each thread in close()

opening == <<pc, stage, addr, spent, ready, sock, faulted>>
iroh    == <<native, reader>>
worker  == <<child, flush, term, iroh>>
owned   == <<held, cloexec, inherited>>
closing == <<waited, closed, lock, closer>>
vars    == <<call, opening, owned, worker, closing>>

Nobody == "nobody"

ASSUME NobodyAssumption == Nobody \notin Closers

Kinds == {"spawn", "unix", "tcp", "socks5h", "pipe", "iroh"}
Calls == [kind : Kinds, platform : {"posix", "windows"}, timed : BOOLEAN,
          discard : BOOLEAN, cancellable : BOOLEAN,
          args : {"ok", "host", "port", "connect_timeout", "io_timeout", "proxy", "utf8"}]

\* Classes of argument that mean something for the kind of transport.
Sensible(c) ==
    /\ c.kind = "spawn" => ~c.timed /\ c.args \in {"ok", "host", "connect_timeout", "utf8"}
    /\ c.kind # "spawn" => ~c.discard /\ c.args # "utf8"
    /\ c.kind \in {"unix", "pipe"} => c.args \notin {"port", "proxy"}
    /\ c.kind = "tcp" => c.args # "proxy"
    /\ c.kind = "iroh" => ~c.timed /\ c.platform = "posix"
                           /\ c.args \notin {"port", "io_timeout"}
    /\ c.kind # "iroh" => ~c.cancellable
    /\ c.args = "connect_timeout" => c.kind \in {"spawn", "iroh"} \/ c.timed

Posix == call.platform = "posix"

Init ==
    /\ call \in {c \in Calls : Sensible(c)}
    /\ pc = "args" /\ stage = 0 /\ addr = 1 /\ spent = 0 /\ ready = FALSE
    /\ held = {} /\ cloexec = {} /\ inherited = {}
    /\ sock = [nonblocking |-> FALSE, io |-> "default"]
    /\ faulted = FALSE
    /\ child = "none" /\ flush \in [left : 0 .. PipeRoom + 1, room : {PipeRoom}]
    /\ native = [finished |-> FALSE, cancelled |-> FALSE, spoilt |-> FALSE]
    /\ reader = "idle"
    /\ term = "none" /\ waited = 0 /\ closed = FALSE /\ lock = Nobody
    /\ closer = [c \in Closers |-> "idle"]

----------------------------------------------------------------------------
(* Failing and giving up.                                                  *)

\* The deadline has passed: remaining_timeout() throws, poll() returns 0.
Expired == call.timed /\ spent >= ConnectTimeout

\* Mutant: the handler forgets the writer of the child's stdin.
Bug_LeaksStdin ==
    /\ pc' = "failed" /\ held' = held \cap {"stdin_w"} /\ cloexec' = {}
    /\ UNCHANGED <<stage, addr, spent, ready, sock, faulted>>

\* A throw whose handlers close what was opened so far.
Abandon ==
    /\ pc' = "failed" /\ held' = {} /\ cloexec' = {}
    /\ UNCHANGED <<stage, addr, spent, ready, sock, faulted>>

\* remaining_timeout_win() is the same test in the Windows build.
ExpiredWin == call.timed /\ spent >= ConnectTimeout

\* A target that is empty, holds a control character or is no DNS A-label.
TargetRefused == call.args = "host"

\* Anything but socks5h://host:port, credentials included.
ProxyUriRefused == call.kind = "socks5h" /\ call.args = "proxy"

ProxyUriRefusedWin == call.kind = "socks5h" /\ call.args = "proxy"

\* A timeout of zero or less, on the two options set on a socket.
IoTimeoutRefused == call.args = "io_timeout"

IoTimeoutRefusedWin == call.args = "io_timeout"

\* connect_socks5h_fd() and connect_tcp_fd() check before they open anything.
RejectedPosix ==
    \/ call.kind = "pipe"
    \/ TargetRefused
    \/ call.kind \in {"tcp", "socks5h"} /\ call.args = "connect_timeout"
    \/ call.kind = "socks5h" /\ call.args = "port"
    \/ ProxyUriRefused

\* The Windows build refuses port 0 for a direct connect too.
RejectedWin ==
    \/ TargetRefused
    \/ call.kind \in {"tcp", "socks5h"} /\ call.args \in {"port", "connect_timeout"}
    \/ ProxyUriRefusedWin

\* spawn() refuses an empty argv and negative grace periods.  That argv is
\* UTF-8 ("utf8": it is not) is not looked at here.
RejectedSpawn == call.args \in {"host", "connect_timeout"}

\* IrohEndpoint::parse(): a scheme, 64 hexadecimal digits and a clean path.
EndpointRefused == call.args = "host"

\* connect_iroh_transport() and open_native(): the endpoint, contradicting or
\* malformed relays and addresses, timeouts that are not positive.
RejectedIroh == EndpointRefused \/ call.args \in {"proxy", "connect_timeout"}

CheckArguments ==
    /\ pc = "args"
    /\ LET rejected == CASE call.kind = "spawn" -> RejectedSpawn
                         [] call.kind = "iroh" -> RejectedIroh
                         [] OTHER -> IF Posix THEN RejectedPosix ELSE RejectedWin
       IN IF rejected THEN pc' = "failed"
          ELSE pc' = CASE call.kind = "spawn" -> "spawn"
                       [] call.kind = "unix"  -> "attempt"
                       [] call.kind = "pipe"  -> "pipe"
                       [] call.kind = "iroh"  -> "endpoint"
                       [] OTHER               -> "resolve"
    /\ UNCHANGED <<stage, addr, spent, ready, sock, faulted, owned>>

----------------------------------------------------------------------------
(* Connecting a socket.                                                    *)

\* getaddrinfo() on the host, for SOCKS5h on the proxy and never on the
\* target.  It answers in its own time, which the deadline does not bound.
Resolve ==
    /\ pc = "resolve"
    /\ \/ pc' = "attempt"
       \/ pc' = "failed"
    /\ UNCHANGED <<stage, addr, spent, ready, sock, faulted, owned>>

\* The list has another address, or the last error is thrown.
NextAddress ==
    /\ IF addr < Addresses /\ call.kind # "unix"
       THEN pc' = "attempt" /\ addr' = addr + 1
       ELSE pc' = "failed" /\ UNCHANGED addr

\* One pass of connect_tcp_fd()'s loop up to socket().
AttemptTcp ==
    /\ pc = "attempt" /\ Posix /\ call.kind # "unix"
    /\ \/ /\ Expired /\ pc' = "failed"
          /\ UNCHANGED <<addr, held>>
       \/ /\ ~Expired /\ NextAddress
          /\ UNCHANGED held
       \/ /\ ~Expired /\ pc' = "connecting" /\ held' = held \cup {"sock"}
          /\ UNCHANGED addr
    /\ sock' = [nonblocking |-> FALSE, io |-> "default"]
    /\ UNCHANGED <<stage, spent, ready, faulted, cloexec, inherited>>

AttemptTcpWin ==
    /\ pc = "attempt" /\ ~Posix /\ call.kind # "unix"
    /\ \/ /\ ExpiredWin /\ pc' = "failed"
          /\ UNCHANGED <<addr, held>>
       \/ /\ ~ExpiredWin /\ NextAddress
          /\ UNCHANGED held
       \/ /\ ~ExpiredWin /\ pc' = "connecting" /\ held' = held \cup {"sock"}
          /\ UNCHANGED addr
    /\ sock' = [nonblocking |-> FALSE, io |-> "default"]
    /\ UNCHANGED <<stage, spent, ready, faulted, cloexec, inherited>>

\* connect_unix_fd() marks the socket close-on-exec before it connects.
AttemptUnix ==
    /\ pc = "attempt" /\ Posix /\ call.kind = "unix"
    /\ \/ pc' = "failed" /\ UNCHANGED <<held, cloexec>>
       \/ pc' = "connecting" /\ held' = {"sock"} /\ cloexec' = {"sock"}
    /\ UNCHANGED <<stage, addr, spent, ready, sock, faulted, inherited>>

AttemptUnixWin ==
    /\ pc = "attempt" /\ ~Posix /\ call.kind = "unix"
    /\ \/ pc' = "failed" /\ UNCHANGED held
       \/ pc' = "connecting" /\ held' = {"sock"}
    /\ UNCHANGED <<stage, addr, spent, ready, sock, faulted, cloexec, inherited>>

\* The caller of connect_with_timeout() sees false: it closes the socket.
AttemptFailed ==
    /\ NextAddress
    /\ held' = held \ {"sock"} /\ cloexec' = cloexec \ {"sock"}
    /\ sock' = [sock EXCEPT !.nonblocking = FALSE]
    /\ UNCHANGED <<stage, spent, ready, faulted, inherited>>

\* connect_with_timeout() throws because a flag of the socket cannot be
\* changed.  Only connect_tcp_fd() has no handler around the call.
FlagFault ==
    /\ pc' = "failed" /\ faulted' = TRUE
    /\ IF Posix /\ call.kind # "unix" THEN UNCHANGED <<held, cloexec>>
       ELSE held' = {} /\ cloexec' = {}
    /\ UNCHANGED <<stage, addr, spent, ready, sock, inherited>>

Connected ==
    /\ pc' = "configure"
    /\ sock' = [sock EXCEPT !.nonblocking = FALSE]
    /\ ready' = FALSE
    /\ UNCHANGED <<stage, addr, spent, faulted, owned>>

\* The socket is non-blocking and connect() said EINPROGRESS.
Polling ==
    /\ pc' = "polling" /\ ready' = FALSE
    /\ sock' = [sock EXCEPT !.nonblocking = TRUE]
    /\ UNCHANGED <<stage, addr, spent, faulted, owned>>

\* Up to connect(): blocking without a timeout, else to be polled.
StartConnect ==
    /\ pc = "connecting" /\ Posix
    /\ IF call.timed /\ call.args = "connect_timeout" THEN Abandon /\ UNCHANGED inherited
       ELSE AttemptFailed \/ Connected \/ (call.timed /\ (FlagFault \/ Polling))

StartConnectWin ==
    /\ pc = "connecting" /\ ~Posix
    /\ IF call.timed /\ call.args = "connect_timeout" THEN Abandon /\ UNCHANGED inherited
       ELSE AttemptFailed \/ Connected \/ (call.timed /\ (FlagFault \/ Polling))

\* poll() with the time that is left, then SO_ERROR, then the old flags.
PollConnect ==
    /\ pc = "polling" /\ Posix
    /\ \/ Expired /\ AttemptFailed
       \/ ready /\ ~Expired /\ (AttemptFailed \/ Connected \/ FlagFault)

PollConnectWin ==
    /\ pc = "polling" /\ ~Posix
    /\ \/ ExpiredWin /\ AttemptFailed
       \/ ready /\ ~ExpiredWin /\ (AttemptFailed \/ Connected \/ FlagFault)

\* SO_RCVTIMEO and SO_SNDTIMEO of the caller; both sides have a handler.
Configure ==
    /\ pc = "configure"
    /\ \/ Abandon
       \/ /\ ~(IF Posix THEN IoTimeoutRefused ELSE IoTimeoutRefusedWin)
          /\ sock' = [sock EXCEPT !.io = "configured"]
          /\ cloexec' = IF Posix THEN cloexec \cup {"sock"} ELSE cloexec
          /\ pc' = IF call.kind = "socks5h" THEN "socks" ELSE "open"
          /\ stage' = 0
          /\ UNCHANGED <<addr, spent, ready, faulted, held>>
    /\ UNCHANGED inherited

----------------------------------------------------------------------------
(* The SOCKS5h handshake: greeting, its answer, request, head and tail of  *)
(* the reply.  Every wait is bounded by the deadline of the whole connect. *)

SocksStages == 5

\* What the proxy may send back at a stage, "ok" being what the client needs.
ProxyAnswers ==
    [s \in 0 .. SocksStages - 1 |->
        CASE s = 1 -> {"ok", "auth_required", "truncated"}
          [] s = 3 -> {"ok", "malformed", "rejected", "unknown_address"}
          [] s = 4 -> {"ok", "truncated"}
          [] OTHER -> {"ok", "closed"}]

\* wait_socket() before each send and recv: ready in time, or it throws.
SocketReady == ready /\ ~Expired

\* send_all_win() and read_exact_win() bound each call by SO_SNDTIMEO and
\* SO_RCVTIMEO, set to the time that is left.
SocketReadyWin == ready /\ ~ExpiredWin

\* The next message, or the throw that an unexpected answer is.
Handshake(left) ==
    \E answer \in ProxyAnswers[stage] :
        IF answer # "ok" THEN Abandon
        ELSE /\ stage' = stage + 1 /\ ready' = FALSE /\ sock' = left
             /\ UNCHANGED <<pc, addr, spent, faulted, held, cloexec>>

\* One write_all() or read_exact() of connect_socks5h_fd(); the first one
\* finds the socket non-blocking.
SocksStep ==
    /\ pc = "socks" /\ Posix /\ stage < SocksStages
    /\ \/ Expired /\ Abandon
       \/ SocketReady /\ Handshake([sock EXCEPT !.nonblocking = TRUE])
    /\ UNCHANGED inherited

SocksStepWin ==
    /\ pc = "socks" /\ ~Posix /\ stage < SocksStages
    /\ \/ ExpiredWin /\ Abandon
       \/ SocketReadyWin /\ Handshake([sock EXCEPT !.io = "handshake"])
    /\ UNCHANGED inherited

\* Flags and timeouts of the caller are put back before the socket is used.
SocksDone ==
    /\ pc = "socks" /\ stage = SocksStages
    /\ \/ Abandon
       \/ /\ sock' = [nonblocking |-> FALSE, io |-> "configured"]
          /\ pc' = "open"
          /\ UNCHANGED <<stage, addr, spent, ready, faulted, held, cloexec>>
    /\ UNCHANGED inherited

----------------------------------------------------------------------------
(* The Windows named pipe.                                                 *)

\* CreateFile first, the deadline only when every instance is busy.
OpenPipe ==
    /\ pc = "pipe"
    /\ \/ pc' = "open" /\ held' = {"pipe"}
       \/ pc' = "failed" /\ UNCHANGED held
       \/ pc' = "pipe_wait" /\ ~ExpiredWin /\ UNCHANGED held
    /\ ready' = FALSE
    /\ UNCHANGED <<stage, addr, spent, sock, faulted, cloexec, inherited>>

\* WaitNamedPipe says an instance was free; another client may take it first.
WaitPipe ==
    /\ pc = "pipe_wait"
    /\ \/ ready /\ pc' = "pipe"
       \/ ExpiredWin /\ pc' = "failed"
    /\ UNCHANGED <<stage, addr, spent, ready, sock, faulted, owned>>

----------------------------------------------------------------------------
(* A stream of the Iroh library.                                           *)

\* EndpointPool::get(): the process-wide endpoint with this identity, these
\* relays and timeouts, created when there is none.  The pool keeps it for
\* the life of the process.
GetEndpoint ==
    /\ pc = "endpoint"
    /\ pc' \in {"stream", "failed"}
    /\ UNCHANGED <<stage, addr, spent, ready, sock, faulted, owned>>

\* open_native(): a stream that could not be opened leaves none behind; the
\* library asks the cancel callback meanwhile.
OpenStream ==
    /\ pc = "stream"
    /\ \/ pc' = "open" /\ held' = {"stream"}
       \/ pc' = "failed" /\ UNCHANGED held
    /\ UNCHANGED <<stage, addr, spent, ready, sock, faulted, cloexec, inherited>>

\* IrohInputStream::Read() by the thread that waits for a response.
Read ==
    /\ pc = "open" /\ call.kind = "iroh"
    /\ reader = "idle" /\ ~native.cancelled
    /\ reader' = "reading"
    /\ UNCHANGED <<call, opening, owned, child, flush, term, native, closing>>

\* Bytes, the end of the stream or an error of the library.
ReadReturns ==
    /\ reader = "reading"
    /\ reader' = "idle"
    /\ UNCHANGED <<call, opening, owned, child, flush, term, native, closing>>

\* NativeState::cancel(), under close_mutex.
CancelNative == [native EXCEPT !.cancelled = TRUE]

\* Every 50 ms the read asks the callback: yes, or a throw, cancels the stream.
ReadCancelled ==
    /\ reader = "reading" /\ call.cancellable
    /\ native' = [CancelNative EXCEPT !.spoilt = @ \/ ~native.finished]
    /\ reader' = "idle"
    /\ UNCHANGED <<call, opening, owned, child, flush, term, closing>>

----------------------------------------------------------------------------
(* Spawning a worker.                                                      *)

\* The POSIX steps in order, and what each opens.  A pipe is made first and
\* marked close-on-exec by a second call.
SpawnPosix ==
    <<{"stdin_r", "stdin_w"}, {}, {"stdout_r", "stdout_w"}, {}, {}, {"null"}, {}>>

\* The Windows steps: a pipe is made with two handles a child inherits and a
\* second call takes the parent's end out; stderr, the command line, the
\* process, the two descriptors.
SpawnWin ==
    <<{"stdin_r", "stdin_w"}, {}, {"stdout_r", "stdout_w"}, {}, {"null"}, {}, {"process"},
      {}, {}>>

SpawnSteps == IF Posix THEN SpawnPosix ELSE SpawnWin

\* After the child exists the parent drops the ends that belong to it.
ChildEnds == {"stdin_r", "stdout_w", "null"}

\* Parent ends that no later spawn inherits once the step has run.
Marked(s) ==
    IF Posix THEN CASE s = 2 -> {"stdin_r", "stdin_w"}
                    [] s = 4 -> {"stdout_r", "stdout_w"}
                    [] s = 6 -> {"null"}
                    [] OTHER -> {}
    ELSE CASE s = 2 -> {"stdin_w"} [] s = 4 -> {"stdout_r"} [] OTHER -> {}

\* posix_spawnp() and CreateProcessW() are the step at which the child runs.
ChildStep == 7

\* windows_command_line(), which utf8_to_wide() refuses an argument: the throw
\* passes no handler, and the handles opened so far are raw.
CommandLine == ~Posix /\ stage + 1 = 6

Unconvertible ==
    /\ pc' = "failed"
    /\ UNCHANGED <<stage, addr, spent, ready, sock, faulted, held, cloexec, child>>

SpawnStep ==
    LET s == stage + 1
        last == IF Posix THEN 7 ELSE 9
        opens == IF call.discard THEN SpawnSteps[s] ELSE SpawnSteps[s] \ {"null"}
    IN /\ pc = "spawn"
       /\ \/ \* A failed step closes everything; past CreateProcessW it also
             \* terminates the child it cannot talk to.
             /\ ~CommandLine /\ Abandon
             /\ child' = IF child = "none" THEN child ELSE "reaped"
          \/ CommandLine /\ call.args = "utf8" /\ Unconvertible
          \/ /\ ~(CommandLine /\ call.args = "utf8")
             /\ child' = IF s = ChildStep THEN "running" ELSE child
             /\ held' = IF s >= ChildStep THEN (held \cup opens) \ ChildEnds
                        ELSE held \cup opens
             /\ cloexec' = (cloexec \cup Marked(s)) \cap held'
             /\ stage' = s
             /\ pc' = IF s = last THEN "open" ELSE "spawn"
             /\ UNCHANGED <<addr, spent, ready, sock, faulted>>
       /\ UNCHANGED <<inherited, flush, term, iroh>>

\* Another thread of the process spawns something at this moment.
OtherSpawn ==
    /\ pc \notin {"failed", "open"} /\ inherited = {}
    /\ held \ cloexec # {}
    /\ inherited' = held \ cloexec
    /\ UNCHANGED <<call, opening, held, cloexec, worker, closing>>

----------------------------------------------------------------------------
(* The environment: the peer, the clock and the worker.                    *)

Waiting ==
    pc \in {"polling", "pipe_wait"} \/ (pc = "socks" /\ stage < SocksStages)

PeerReady ==
    /\ Waiting /\ ~ready
    /\ ready' = TRUE
    /\ UNCHANGED <<call, pc, stage, addr, spent, sock, faulted, owned, worker, closing>>

Tick ==
    \/ /\ Waiting \/ pc \in {"resolve", "pipe"}
       /\ call.timed /\ spent <= ConnectTimeout
       /\ spent' = spent + 1
       /\ UNCHANGED <<call, pc, stage, addr, ready, sock, faulted, owned, worker, closing>>
    \/ /\ \E c \in Closers : closer[c] \in {"grace", "terminate"}
       /\ waited <= Grace
       /\ waited' = waited + 1
       /\ UNCHANGED <<call, opening, owned, worker, closed, lock, closer>>

\* A worker writes what it still has to say while its pipe has room.
ChildWrite ==
    /\ child = "running" /\ flush.left > 0 /\ flush.room > 0
    /\ flush' = [left |-> flush.left - 1, room |-> flush.room - 1]
    /\ UNCHANGED <<call, opening, owned, child, term, iroh, closing>>

\* The client reads a response; nobody reads once close() has begun.
ClientRead ==
    /\ pc = "open" /\ ~closed /\ child # "none" /\ flush.room < PipeRoom
    /\ flush' = [flush EXCEPT !.room = @ + 1]
    /\ UNCHANGED <<call, opening, owned, child, term, iroh, closing>>

\* End of input reaches the worker when every writer of its stdin is gone.
EndOfInput == {"stdin_w"} \cap (held \cup inherited) = {}

ChildExit ==
    /\ child = "running"
    /\ \/ EndOfInput /\ flush.left = 0
       \/ term = "term"
       \/ term = "kill"
    /\ child' = "zombie"
    /\ UNCHANGED <<call, opening, owned, flush, term, iroh, closing>>

ChildCrash ==
    /\ child = "running" /\ pc = "open"
    /\ child' = "zombie"
    /\ UNCHANGED <<call, opening, owned, flush, term, iroh, closing>>

----------------------------------------------------------------------------
(* close(), by any number of threads.                                      *)

\* Mutant: closed is read before the mutex is taken.
Bug_ReadsClosedUnlocked(c) ==
    /\ pc = "open" /\ closer[c] = "idle" /\ (closed \/ lock = Nobody)
    /\ IF closed
       THEN closer' = [closer EXCEPT ![c] = "done"] /\ UNCHANGED <<closed, lock>>
       ELSE closer' = [closer EXCEPT ![c] = "begin"] /\ closed' = TRUE /\ lock' = c
    /\ UNCHANGED <<call, opening, owned, worker, waited>>

\* Impl::close(): the mutex is held until the teardown is over.
Close(c) ==
    /\ pc = "open" /\ closer[c] = "idle" /\ lock = Nobody
    /\ IF closed
       THEN closer' = [closer EXCEPT ![c] = "done"] /\ UNCHANGED <<closed, lock>>
       ELSE closer' = [closer EXCEPT ![c] = "begin"] /\ closed' = TRUE /\ lock' = c
    /\ UNCHANGED <<call, opening, owned, worker, waited>>

Release(c) ==
    /\ held' = {} /\ cloexec' = {}
    /\ closer' = [closer EXCEPT ![c] = "done"] /\ lock' = Nobody

\* close_fn of a socket or a pipe: shutdown and close.
CloseSocket(c) ==
    /\ closer[c] = "begin" /\ child = "none" /\ call.kind # "iroh"
    /\ Release(c)
    /\ UNCHANGED <<call, opening, inherited, worker, waited, closed>>

\* close_fn of streams, IrohOutputStream::Close(): the end of the output is
\* sent unless the stream was cancelled before, and may fail.
CloseOutput(c) ==
    /\ closer[c] = "begin" /\ call.kind = "iroh"
    /\ IF native.cancelled THEN UNCHANGED native
       ELSE \/ native' = [native EXCEPT !.finished = TRUE]
            \/ native' = [native EXCEPT !.spoilt = TRUE]
    /\ closer' = [closer EXCEPT ![c] = "input"]
    /\ UNCHANGED <<call, opening, owned, child, flush, term, reader, waited, closed, lock>>

\* IrohInputStream::Close(): cancels the stream; a failure of the other half
\* is thrown only now.
CloseInput(c) ==
    /\ closer[c] = "input"
    /\ native' = CancelNative
    /\ closer' = [closer EXCEPT ![c] = "done"] /\ lock' = Nobody
    /\ UNCHANGED <<call, opening, owned, child, flush, term, reader, waited, closed>>

\* ~NativeState(), when the last owner of the streams is gone.
FreeStream ==
    /\ held = {"stream"} /\ reader # "reading"
    /\ \A c \in Closers : closer[c] = "done"
    /\ held' = {}
    /\ UNCHANGED <<call, opening, cloexec, inherited, worker, closing>>

\* ChildState::close(): the worker's stdin is the request to stop.
CloseStdin(c) ==
    /\ closer[c] = "begin" /\ child # "none"
    /\ held' = held \ {"stdin_w"} /\ cloexec' = cloexec \ {"stdin_w"}
    /\ closer' = [closer EXCEPT ![c] = "grace"] /\ waited' = 0
    /\ UNCHANGED <<call, opening, inherited, worker, closed, lock>>

\* wait_until() finds the child gone, at once or after a signal.
Reap(c) ==
    /\ closer[c] \in {"grace", "terminate", "kill"} /\ child = "zombie"
    /\ child' = "reaped"
    /\ Release(c)
    /\ UNCHANGED <<call, opening, inherited, flush, term, iroh, waited, closed>>

\* Mutant: no SIGKILL, the second wait has no bound.
Bug_NeverKills(c) ==
    /\ Posix /\ closer[c] = "grace"
    /\ child = "running" /\ waited >= Grace
    /\ term' = "term"
    /\ closer' = [closer EXCEPT ![c] = "terminate"]
    /\ waited' = 0
    /\ UNCHANGED <<call, opening, owned, child, flush, iroh, closed, lock>>

\* The grace is over: SIGTERM, then SIGKILL and a wait without a bound.
Escalate(c) ==
    /\ Posix /\ closer[c] \in {"grace", "terminate"}
    /\ child = "running" /\ waited >= Grace
    /\ term' = IF closer[c] = "grace" THEN "term" ELSE "kill"
    /\ closer' = [closer EXCEPT ![c] = IF @ = "grace" THEN "terminate" ELSE "kill"]
    /\ waited' = 0
    /\ UNCHANGED <<call, opening, owned, child, flush, iroh, closed, lock>>

\* WindowsChildState::close(): TerminateProcess, a bounded wait, and the
\* handle is closed whether or not the process is gone.
EscalateWin(c) ==
    /\ ~Posix /\ closer[c] \in {"grace", "terminate"}
    /\ child = "running" /\ waited >= Grace
    /\ IF closer[c] = "grace"
       THEN /\ term' = "kill" /\ waited' = 0
            /\ closer' = [closer EXCEPT ![c] = "terminate"]
            /\ UNCHANGED <<owned, child, lock>>
       ELSE /\ child' = "reaped" /\ Release(c) /\ UNCHANGED <<term, waited, inherited>>
    /\ UNCHANGED <<call, opening, flush, iroh, closed>>

Open ==
    /\ \/ CheckArguments \/ Resolve \/ AttemptTcp \/ AttemptTcpWin \/ AttemptUnix
       \/ AttemptUnixWin \/ StartConnect \/ StartConnectWin \/ PollConnect
       \/ PollConnectWin \/ Configure \/ SocksStep \/ SocksStepWin \/ SocksDone
       \/ OpenPipe \/ WaitPipe \/ GetEndpoint \/ OpenStream
    /\ UNCHANGED <<call, worker, closing>>

Spawn == SpawnStep /\ UNCHANGED <<call, closing>>

CloseStep(c) ==
    \/ CloseSocket(c) \/ CloseOutput(c) \/ CloseInput(c)
    \/ CloseStdin(c) \/ Reap(c) \/ Escalate(c) \/ EscalateWin(c)

\* Nothing is left to do: the transport was never opened, or is closed.
Finished ==
    /\ pc = "failed" \/ \A c \in Closers : closer[c] = "done"
    /\ UNCHANGED vars

Next ==
    \/ Open \/ Spawn \/ OtherSpawn
    \/ PeerReady \/ Tick \/ ChildWrite \/ ClientRead \/ ChildExit \/ ChildCrash
    \/ Read \/ ReadReturns \/ ReadCancelled
    \/ \E c \in Closers : Close(c) \/ CloseStep(c)
    \/ FreeStream
    \/ Finished

\* Running threads and the clock make progress, a killed process dies, and the
\* library returns from the read of a stream that was cancelled.
\* Nothing is assumed of the peer, of the worker or of when close() is called.
Fairness ==
    /\ WF_vars(Open) /\ WF_vars(Spawn) /\ WF_vars(Tick)
    /\ \A c \in Closers : WF_vars(CloseStep(c))
    /\ WF_vars(term = "kill" /\ ChildExit)
    /\ WF_vars(native.cancelled /\ ReadReturns)

Spec == Init /\ [][Next]_vars /\ Fairness

----------------------------------------------------------------------------
(* Properties.                                                             *)

\* The two paths on which an open that fails leaves what it opened behind: a
\* TCP connect of the POSIX build whose socket flags cannot be changed, and a
\* spawn of the Windows build whose argv is not UTF-8.
Leaks ==
    \/ Posix /\ faulted /\ call.kind \in {"tcp", "socks5h"}
    \/ ~Posix /\ call.kind = "spawn" /\ call.args = "utf8"

\* A transport that could not be opened leaves no child behind, and no
\* descriptor or handle either unless it failed on one of two paths (Leaks)
\* where the code does leak: a socket, or the pipes and the NUL device of a
\* spawn.  Every other failed step releases everything.  A socket that is
\* handed to the caller blocks, has the caller's I/O timeouts and not those of
\* the handshake, cannot be inherited by later children, and was connected
\* within one deadline shared by every address and every SOCKS5h message.
OpensOrReleases ==
    /\ pc = "failed" => child \in {"none", "reaped"} /\ (held # {} => Leaks)
    /\ (pc = "open" /\ call.kind \in {"unix", "tcp", "socks5h"} /\ ~closed) =>
         /\ ~sock.nonblocking /\ sock.io = "configured"
         /\ Posix => held \subseteq cloexec
         /\ call.timed => spent <= ConnectTimeout

\* When close() has returned to any thread everything is released: a thread
\* that finds the transport closed already does not return while the first
\* one still waits for the worker.  An Iroh stream, which is freed with its
\* last owner, has been cancelled, and never before the peer was sent the end
\* of the output, unless that failed or a read had cancelled the stream.
CloseComplete ==
    \A c \in Closers :
        closer[c] = "done" =>
            /\ held \subseteq {"stream"} /\ child \in {"none", "reaped"}
            /\ call.kind = "iroh" => native.cancelled /\ (native.finished \/ native.spoilt)

\* Both ends of a transport's life return.  close() does, though the worker
\* never reads its end of input, has its stdin held open by a process another
\* thread spawned, is stuck on a full stdout or ignores the request to
\* terminate; a connect with a timeout does, though no peer ever answers.
\* close() also ends the read of an Iroh stream another thread is blocked in.
OpenAndCloseEnd ==
    /\ \A c \in Closers : (closer[c] = "begin") ~> (closer[c] = "done")
    /\ (call.timed /\ pc # "args") ~> (pc \in {"open", "failed"})
    /\ (closed /\ reader = "reading") ~> (reader # "reading")
============================================================================
