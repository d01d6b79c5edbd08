----------------------- MODULE ClientTransportProofs -----------------------
(***************************************************************************)
(* For every number of addresses, deadline, grace period and set of        *)
(* closing threads: a transport that could not be opened leaves nothing    *)
(* behind (but on the two paths Leaks names, where the code does leak),    *)
(* one that was opened is in the state its caller asked for, and whoever   *)
(* returns from close() finds everything released.                         *)
(*                                                                         *)
(* Neither property is inductive.  What the opener owns and how the socket *)
(* is set depend on its step (HeldInv, SocketInv), which steps there are   *)
(* depends on the kind of transport (KindInv), and a connect is in time    *)
(* only because every step that waits compares the deadline afterwards     *)
(* (TimeInv).  close() is right because the mutex is held from the test of *)
(* closed to the end of the teardown: LockInv says who may hold it,        *)
(* TeardownInv what the holder has done so far.                            *)
(***************************************************************************)
EXTENDS ClientTransport, TLAPS

Sockets == {"unix", "tcp", "socks5h"}
Busy == {"begin", "input", "grace", "terminate", "kill"}

Settings == [nonblocking : BOOLEAN, io : {"default", "configured", "handshake"}]

WellTyped ==
    /\ call \in Calls /\ Sensible(call)
    /\ spent \in Nat
    /\ sock \in Settings
    /\ child \in {"none", "running", "zombie", "reaped"}
    /\ native \in [finished : BOOLEAN, cancelled : BOOLEAN, spoilt : BOOLEAN]
    /\ closed \in BOOLEAN
    /\ lock \in Closers \cup {Nobody}
    /\ closer \in [Closers -> Busy \cup {"idle", "done"}]
    /\ pc \in {"args", "resolve", "attempt", "connecting", "polling", "configure", "socks",
               "pipe", "pipe_wait", "endpoint", "stream", "spawn", "open", "failed"}

\* Every kind of transport has its own steps; only a spawn has a child.
KindInv ==
    /\ pc \in {"attempt", "connecting", "polling", "configure"} => call.kind \in Sockets
    /\ pc = "resolve" => call.kind \in {"tcp", "socks5h"}
    /\ pc = "socks" => call.kind = "socks5h"
    /\ pc \in {"pipe", "pipe_wait"} => call.kind = "pipe"
    /\ pc \in {"endpoint", "stream"} => call.kind = "iroh"
    /\ pc = "spawn" => call.kind = "spawn"
    /\ call.kind # "spawn" \/ pc = "args" => child = "none"
    /\ pc = "failed" => child \in {"none", "reaped"}
    /\ pc = "args" => stage = 0
    /\ pc = "spawn" => stage \in Nat /\ (stage < ChildStep => child = "none")

\* What the process owns at each step.
HeldInv ==
    /\ pc \in {"args", "resolve", "attempt", "pipe", "pipe_wait", "endpoint", "stream"} =>
         held = {} /\ cloexec = {}
    /\ pc \in {"connecting", "polling", "configure", "socks"} =>
         held = {"sock"} /\ cloexec \subseteq {"sock"}
    /\ pc = "socks" /\ Posix => cloexec = {"sock"}
    /\ pc = "open" /\ call.kind \in Sockets /\ ~closed =>
         held = {"sock"} /\ (Posix => cloexec = {"sock"})
    /\ pc = "failed" /\ held # {} => Leaks
    /\ call.kind = "iroh" => held \subseteq {"stream"}

\* How the socket is set when connect() is over.
SocketInv ==
    /\ pc = "configure" => ~sock.nonblocking
    /\ pc = "open" /\ call.kind \in Sockets => ~sock.nonblocking /\ sock.io = "configured"

\* The deadline has not passed at a step that does not wait.
TimeInv ==
    /\ pc = "args" \/ (pc = "attempt" /\ call.kind = "unix") => spent = 0
    /\ /\ call.timed
       /\ \/ pc \in {"connecting", "configure"}
          \/ pc = "socks" /\ stage = SocksStages
          \/ pc = "open" /\ call.kind \in Sockets
       => spent <= ConnectTimeout

\* The first thread in close() has the mutex until it is done, and there is
\* no second one: the others come after it and find the transport closed.
LockInv ==
    /\ pc # "open" => ~closed
    /\ ~closed => lock = Nobody /\ \A c \in Closers : closer[c] = "idle"
    /\ \A c \in Closers : /\ closer[c] \in Busy => lock = c
                          /\ closer[c] = "done" => lock = Nobody

Released ==
    /\ held \subseteq {"stream"} /\ child \in {"none", "reaped"}
    /\ call.kind = "iroh" => native.cancelled /\ (native.finished \/ native.spoilt)

\* What has been torn down at each step of close().
TeardownInv ==
    /\ closed /\ lock = Nobody => Released
    /\ native.cancelled => native.finished \/ native.spoilt
    /\ \A c \in Closers :
         /\ closer[c] = "input" => call.kind = "iroh" /\ (native.finished \/ native.spoilt)
         /\ closer[c] \in {"grace", "terminate", "kill"} => call.kind = "spawn"

IndInv ==
    /\ WellTyped /\ KindInv /\ HeldInv /\ SocketInv
    /\ TimeInv /\ LockInv /\ TeardownInv

-----------------------------------------------------------------------------
(* The opener.                                                             *)

\* What a step of the opener has to keep.
OpenerInv == WellTyped /\ KindInv /\ HeldInv /\ SocketInv /\ TimeInv

(* Changing one setting of a socket leaves it one. *)
LEMMA SettingsTyped ==
    ASSUME NEW s \in Settings
    PROVE  /\ \A b \in BOOLEAN : [s EXCEPT !.nonblocking = b] \in Settings
           /\ \A i \in {"default", "configured", "handshake"} : [s EXCEPT !.io = i] \in Settings
BY DEF Settings

(* Nobody closes a transport that is not open yet. *)
LEMMA OpenerLeavesClose ==
    ASSUME IndInv, pc # "open", UNCHANGED <<call, native, closing>>
    PROVE  LockInv' /\ TeardownInv'
BY DEF IndInv, LockInv, TeardownInv, closing

(* The arguments are checked before anything is opened. *)
LEMMA CheckArgumentsOpens ==
    ASSUME IndInv, CheckArguments, UNCHANGED <<call, worker, closing>>
    PROVE  OpenerInv' /\ pc # "open"
<1> USE TransportAssumption DEF IndInv, CheckArguments, owned, RejectedSpawn, RejectedIroh,
        EndpointRefused, RejectedPosix, RejectedWin, TargetRefused, ProxyUriRefused,
        ProxyUriRefusedWin, Posix, Sockets
<1>1. pc # "open"  OBVIOUS
<1>2. WellTyped'  BY DEF WellTyped, worker, iroh, closing
<1>3. KindInv'  BY DEF WellTyped, KindInv, Calls, Kinds, worker
<1>4. HeldInv'  BY DEF WellTyped, KindInv, HeldInv, closing
<1>5. SocketInv'  BY DEF WellTyped, KindInv, SocketInv
<1>6. TimeInv'  BY DEF WellTyped, KindInv, TimeInv, Calls
<1> QED  BY <1>1, <1>2, <1>3, <1>4, <1>5, <1>6 DEF OpenerInv

(* getaddrinfo() opens nothing. *)
LEMMA ResolveOpens ==
    ASSUME IndInv, Resolve, UNCHANGED <<call, worker, closing>>
    PROVE  OpenerInv' /\ pc # "open"
<1> USE TransportAssumption DEF IndInv, Resolve, owned, Posix, Sockets
<1>1. pc # "open"  OBVIOUS
<1>2. WellTyped'  BY DEF WellTyped, worker, iroh, closing
<1>3. KindInv'  BY DEF WellTyped, KindInv, Calls, Kinds, worker
<1>4. HeldInv'  BY DEF WellTyped, KindInv, HeldInv, closing
<1>5. SocketInv'  BY DEF WellTyped, KindInv, SocketInv
<1>6. TimeInv'  BY DEF WellTyped, KindInv, TimeInv, Calls
<1> QED  BY <1>1, <1>2, <1>3, <1>4, <1>5, <1>6 DEF OpenerInv

(* A socket is opened only while there is time left. *)
LEMMA AttemptTcpOpens ==
    ASSUME IndInv, AttemptTcp, UNCHANGED <<call, worker, closing>>
    PROVE  OpenerInv' /\ pc # "open"
<1> USE TransportAssumption DEF IndInv, AttemptTcp, NextAddress, Expired, Posix, Sockets
<1>1. pc # "open"  OBVIOUS
<1>2. WellTyped'  BY DEF WellTyped, Settings, worker, iroh, closing
<1>3. KindInv'  BY DEF WellTyped, KindInv, Calls, Kinds, worker
<1>4. HeldInv'  BY DEF WellTyped, KindInv, HeldInv, closing
<1>5. SocketInv'  BY DEF WellTyped, Settings, KindInv, SocketInv
<1>6. TimeInv'  BY DEF WellTyped, KindInv, TimeInv, Calls
<1> QED  BY <1>1, <1>2, <1>3, <1>4, <1>5, <1>6 DEF OpenerInv

(* The same in the Windows build. *)
LEMMA AttemptTcpWinOpens ==
    ASSUME IndInv, AttemptTcpWin, UNCHANGED <<call, worker, closing>>
    PROVE  OpenerInv' /\ pc # "open"
<1> USE TransportAssumption DEF IndInv, AttemptTcpWin, NextAddress, ExpiredWin, Posix, Sockets
<1>1. pc # "open"  OBVIOUS
<1>2. WellTyped'  BY DEF WellTyped, Settings, worker, iroh, closing
<1>3. KindInv'  BY DEF WellTyped, KindInv, Calls, Kinds, worker
<1>4. HeldInv'  BY DEF WellTyped, KindInv, HeldInv, closing
<1>5. SocketInv'  BY DEF WellTyped, Settings, KindInv, SocketInv
<1>6. TimeInv'  BY DEF WellTyped, KindInv, TimeInv, Calls
<1> QED  BY <1>1, <1>2, <1>3, <1>4, <1>5, <1>6 DEF OpenerInv

(* A Unix socket is the first thing opened, before any wait. *)
LEMMA AttemptUnixOpens ==
    ASSUME IndInv, AttemptUnix, UNCHANGED <<call, worker, closing>>
    PROVE  OpenerInv' /\ pc # "open"
<1> USE TransportAssumption DEF IndInv, AttemptUnix, Posix, Sockets
<1>1. pc # "open"  OBVIOUS
<1>2. WellTyped'  BY DEF WellTyped, worker, iroh, closing
<1>3. KindInv'  BY DEF WellTyped, KindInv, Calls, Kinds, worker
<1>4. HeldInv'  BY DEF WellTyped, KindInv, HeldInv, closing
<1>5. SocketInv'  BY DEF WellTyped, KindInv, SocketInv
<1>6. TimeInv'  BY DEF WellTyped, KindInv, TimeInv, Calls
<1> QED  BY <1>1, <1>2, <1>3, <1>4, <1>5, <1>6 DEF OpenerInv

(* The same in the Windows build. *)
LEMMA AttemptUnixWinOpens ==
    ASSUME IndInv, AttemptUnixWin, UNCHANGED <<call, worker, closing>>
    PROVE  OpenerInv' /\ pc # "open"
<1> USE TransportAssumption DEF IndInv, AttemptUnixWin, Posix, Sockets
<1>1. pc # "open"  OBVIOUS
<1>2. WellTyped'  BY DEF WellTyped, worker, iroh, closing
<1>3. KindInv'  BY DEF WellTyped, KindInv, Calls, Kinds, worker
<1>4. HeldInv'  BY DEF WellTyped, KindInv, HeldInv, closing
<1>5. SocketInv'  BY DEF WellTyped, KindInv, SocketInv
<1>6. TimeInv'  BY DEF WellTyped, KindInv, TimeInv, Calls
<1> QED  BY <1>1, <1>2, <1>3, <1>4, <1>5, <1>6 DEF OpenerInv

(* connect() ends at once, fails, or is polled for. *)
LEMMA StartConnectOpens ==
    ASSUME IndInv, StartConnect, UNCHANGED <<call, worker, closing>>
    PROVE  OpenerInv' /\ pc # "open"
<1> USE TransportAssumption DEF IndInv, StartConnect, Abandon, AttemptFailed, Connected,
        FlagFault, Polling, NextAddress, owned, Posix, Sockets
<1>1. pc # "open"  OBVIOUS
<1>2. WellTyped'
  <2>1. sock' \in Settings  BY SettingsTyped DEF WellTyped
  <2> QED  BY <2>1 DEF WellTyped, worker, iroh, closing
<1>3. KindInv'  BY DEF WellTyped, KindInv, Calls, Kinds, worker
<1>4. HeldInv'  BY DEF WellTyped, KindInv, HeldInv, Leaks, Posix, closing
<1>5. SocketInv'  BY DEF WellTyped, Settings, KindInv, SocketInv
<1>6. TimeInv'  BY DEF WellTyped, KindInv, TimeInv, Calls
<1> QED  BY <1>1, <1>2, <1>3, <1>4, <1>5, <1>6 DEF OpenerInv

(* The same in the Windows build. *)
LEMMA StartConnectWinOpens ==
    ASSUME IndInv, StartConnectWin, UNCHANGED <<call, worker, closing>>
    PROVE  OpenerInv' /\ pc # "open"
<1> USE TransportAssumption DEF IndInv, StartConnectWin, Abandon, AttemptFailed, Connected,
        FlagFault, Polling, NextAddress, owned, Posix, Sockets
<1>1. pc # "open"  OBVIOUS
<1>2. WellTyped'
  <2>1. sock' \in Settings  BY SettingsTyped DEF WellTyped
  <2> QED  BY <2>1 DEF WellTyped, worker, iroh, closing
<1>3. KindInv'  BY DEF WellTyped, KindInv, Calls, Kinds, worker
<1>4. HeldInv'  BY DEF WellTyped, KindInv, HeldInv, closing
<1>5. SocketInv'  BY DEF WellTyped, Settings, KindInv, SocketInv
<1>6. TimeInv'  BY DEF WellTyped, KindInv, TimeInv, Calls
<1> QED  BY <1>1, <1>2, <1>3, <1>4, <1>5, <1>6 DEF OpenerInv

(* A socket that became writable in time is set blocking again. *)
LEMMA PollConnectOpens ==
    ASSUME IndInv, PollConnect, UNCHANGED <<call, worker, closing>>
    PROVE  OpenerInv' /\ pc # "open"
<1> USE TransportAssumption DEF IndInv, PollConnect, AttemptFailed, Connected, FlagFault,
        NextAddress, Expired, owned, Posix, Sockets
<1>1. pc # "open"  OBVIOUS
<1>2. WellTyped'
  <2>1. sock' \in Settings  BY SettingsTyped DEF WellTyped
  <2> QED  BY <2>1 DEF WellTyped, worker, iroh, closing
<1>3. KindInv'  BY DEF WellTyped, KindInv, Calls, Kinds, worker
<1>4. HeldInv'  BY DEF WellTyped, KindInv, HeldInv, Leaks, Posix, closing
<1>5. SocketInv'  BY DEF WellTyped, Settings, KindInv, SocketInv
<1>6. TimeInv'  BY DEF WellTyped, KindInv, TimeInv, Calls
<1> QED  BY <1>1, <1>2, <1>3, <1>4, <1>5, <1>6 DEF OpenerInv

(* The same in the Windows build. *)
LEMMA PollConnectWinOpens ==
    ASSUME IndInv, PollConnectWin, UNCHANGED <<call, worker, closing>>
    PROVE  OpenerInv' /\ pc # "open"
<1> USE TransportAssumption DEF IndInv, PollConnectWin, AttemptFailed, Connected, FlagFault,
        NextAddress, ExpiredWin, owned, Posix, Sockets
<1>1. pc # "open"  OBVIOUS
<1>2. WellTyped'
  <2>1. sock' \in Settings  BY SettingsTyped DEF WellTyped
  <2> QED  BY <2>1 DEF WellTyped, worker, iroh, closing
<1>3. KindInv'  BY DEF WellTyped, KindInv, Calls, Kinds, worker
<1>4. HeldInv'  BY DEF WellTyped, KindInv, HeldInv, closing
<1>5. SocketInv'  BY DEF WellTyped, Settings, KindInv, SocketInv
<1>6. TimeInv'  BY DEF WellTyped, KindInv, TimeInv, Calls
<1> QED  BY <1>1, <1>2, <1>3, <1>4, <1>5, <1>6 DEF OpenerInv

(* The caller's timeouts are set on a socket that blocks. *)
LEMMA ConfigureOpens ==
    ASSUME IndInv, Configure, UNCHANGED <<call, worker, closing>>
    PROVE  OpenerInv' /\ pc # "open"
<1> USE TransportAssumption DEF IndInv, Configure, Abandon, Posix, Sockets
<1>1. pc # "open"  OBVIOUS
<1>2. WellTyped'
  <2>1. sock' \in Settings  BY SettingsTyped DEF WellTyped
  <2> QED  BY <2>1 DEF WellTyped, worker, iroh, closing
<1>3. KindInv'  BY DEF WellTyped, KindInv, Calls, Kinds, worker
<1>4. HeldInv'  BY DEF WellTyped, KindInv, HeldInv, closing
<1>5. SocketInv'  BY DEF WellTyped, Settings, KindInv, SocketInv
<1>6. TimeInv'  BY DEF WellTyped, KindInv, TimeInv, Calls
<1> QED  BY <1>1, <1>2, <1>3, <1>4, <1>5, <1>6 DEF OpenerInv

(* A handshake step sees the deadline after it has waited. *)
LEMMA SocksStepOpens ==
    ASSUME IndInv, SocksStep, UNCHANGED <<call, worker, closing>>
    PROVE  OpenerInv' /\ pc # "open"
<1> USE TransportAssumption DEF IndInv, SocksStep, Abandon, Handshake, SocketReady, Expired,
        Posix, Sockets
<1>1. pc # "open"  OBVIOUS
<1>2. WellTyped'
  <2>1. sock' \in Settings  BY SettingsTyped DEF WellTyped
  <2> QED  BY <2>1 DEF WellTyped, worker, iroh, closing
<1>3. KindInv'  BY DEF WellTyped, KindInv, Calls, Kinds, worker
<1>4. HeldInv'  BY DEF WellTyped, KindInv, HeldInv, closing
<1>5. SocketInv'  BY DEF WellTyped, Settings, KindInv, SocketInv
<1>6. TimeInv'  BY DEF WellTyped, KindInv, TimeInv, Calls
<1> QED  BY <1>1, <1>2, <1>3, <1>4, <1>5, <1>6 DEF OpenerInv

(* The same in the Windows build. *)
LEMMA SocksStepWinOpens ==
    ASSUME IndInv, SocksStepWin, UNCHANGED <<call, worker, closing>>
    PROVE  OpenerInv' /\ pc # "open"
<1> USE TransportAssumption DEF IndInv, SocksStepWin, Abandon, Handshake, SocketReadyWin,
        ExpiredWin, Posix, Sockets
<1>1. pc # "open"  OBVIOUS
<1>2. WellTyped'
  <2>1. sock' \in Settings  BY SettingsTyped DEF WellTyped
  <2> QED  BY <2>1 DEF WellTyped, worker, iroh, closing
<1>3. KindInv'  BY DEF WellTyped, KindInv, Calls, Kinds, worker
<1>4. HeldInv'  BY DEF WellTyped, KindInv, HeldInv, closing
<1>5. SocketInv'  BY DEF WellTyped, Settings, KindInv, SocketInv
<1>6. TimeInv'  BY DEF WellTyped, KindInv, TimeInv, Calls
<1> QED  BY <1>1, <1>2, <1>3, <1>4, <1>5, <1>6 DEF OpenerInv

(* The handshake leaves the socket as the caller asked for it. *)
LEMMA SocksDoneOpens ==
    ASSUME IndInv, SocksDone, UNCHANGED <<call, worker, closing>>
    PROVE  OpenerInv' /\ pc # "open"
<1> USE TransportAssumption DEF IndInv, SocksDone, Abandon, Posix, Sockets
<1>1. pc # "open"  OBVIOUS
<1>2. WellTyped'
  <2>1. [nonblocking |-> FALSE, io |-> "configured"] \in Settings  BY DEF Settings
  <2>2. sock' \in Settings  BY <2>1 DEF WellTyped
  <2> QED  BY <2>2 DEF WellTyped, worker, iroh, closing
<1>3. KindInv'  BY DEF WellTyped, KindInv, Calls, Kinds, worker
<1>4. HeldInv'  BY DEF WellTyped, KindInv, HeldInv, closing
<1>5. SocketInv'  BY DEF WellTyped, Settings, KindInv, SocketInv
<1>6. TimeInv'  BY DEF WellTyped, KindInv, TimeInv, Calls
<1> QED  BY <1>1, <1>2, <1>3, <1>4, <1>5, <1>6 DEF OpenerInv

(* A named pipe is opened at once or waited for. *)
LEMMA OpenPipeOpens ==
    ASSUME IndInv, OpenPipe, UNCHANGED <<call, worker, closing>>
    PROVE  OpenerInv' /\ pc # "open"
<1> USE TransportAssumption DEF IndInv, OpenPipe, Posix, Sockets
<1>1. pc # "open"  OBVIOUS
<1>2. WellTyped'  BY DEF WellTyped, worker, iroh, closing
<1>3. KindInv'  BY DEF WellTyped, KindInv, Calls, Kinds, worker
<1>4. HeldInv'  BY DEF WellTyped, KindInv, HeldInv, closing
<1>5. SocketInv'  BY DEF WellTyped, KindInv, SocketInv
<1>6. TimeInv'  BY DEF WellTyped, KindInv, TimeInv, Calls
<1> QED  BY <1>1, <1>2, <1>3, <1>4, <1>5, <1>6 DEF OpenerInv

(* The wait for a pipe owns nothing. *)
LEMMA WaitPipeOpens ==
    ASSUME IndInv, WaitPipe, UNCHANGED <<call, worker, closing>>
    PROVE  OpenerInv' /\ pc # "open"
<1> USE TransportAssumption DEF IndInv, WaitPipe, owned, Posix, Sockets
<1>1. pc # "open"  OBVIOUS
<1>2. WellTyped'  BY DEF WellTyped, worker, iroh, closing
<1>3. KindInv'  BY DEF WellTyped, KindInv, Calls, Kinds, worker
<1>4. HeldInv'  BY DEF WellTyped, KindInv, HeldInv, closing
<1>5. SocketInv'  BY DEF WellTyped, KindInv, SocketInv
<1>6. TimeInv'  BY DEF WellTyped, KindInv, TimeInv, Calls
<1> QED  BY <1>1, <1>2, <1>3, <1>4, <1>5, <1>6 DEF OpenerInv

(* The endpoint belongs to the pool. *)
LEMMA GetEndpointOpens ==
    ASSUME IndInv, GetEndpoint, UNCHANGED <<call, worker, closing>>
    PROVE  OpenerInv' /\ pc # "open"
<1> USE TransportAssumption DEF IndInv, GetEndpoint, owned, Posix, Sockets
<1>1. pc # "open"  OBVIOUS
<1>2. WellTyped'  BY DEF WellTyped, worker, iroh, closing
<1>3. KindInv'  BY DEF WellTyped, KindInv, Calls, Kinds, worker
<1>4. HeldInv'  BY DEF WellTyped, KindInv, HeldInv, closing
<1>5. SocketInv'  BY DEF WellTyped, KindInv, SocketInv
<1>6. TimeInv'  BY DEF WellTyped, KindInv, TimeInv, Calls
<1> QED  BY <1>1, <1>2, <1>3, <1>4, <1>5, <1>6 DEF OpenerInv

(* A stream that could not be opened is none. *)
LEMMA OpenStreamOpens ==
    ASSUME IndInv, OpenStream, UNCHANGED <<call, worker, closing>>
    PROVE  OpenerInv' /\ pc # "open"
<1> USE TransportAssumption DEF IndInv, OpenStream, Posix, Sockets
<1>1. pc # "open"  OBVIOUS
<1>2. WellTyped'  BY DEF WellTyped, worker, iroh, closing
<1>3. KindInv'  BY DEF WellTyped, KindInv, Calls, Kinds, worker
<1>4. HeldInv'  BY DEF WellTyped, KindInv, HeldInv, closing
<1>5. SocketInv'  BY DEF WellTyped, KindInv, SocketInv
<1>6. TimeInv'  BY DEF WellTyped, KindInv, TimeInv, Calls
<1> QED  BY <1>1, <1>2, <1>3, <1>4, <1>5, <1>6 DEF OpenerInv

(* Every step of connect() keeps the invariant. *)
LEMMA OpenKeeps ==
    ASSUME IndInv, Open
    PROVE  IndInv'
<1>1. OpenerInv' /\ pc # "open"
    BY CheckArgumentsOpens, ResolveOpens, AttemptTcpOpens, AttemptTcpWinOpens,
     AttemptUnixOpens, AttemptUnixWinOpens, StartConnectOpens, StartConnectWinOpens,
     PollConnectOpens, PollConnectWinOpens, ConfigureOpens, SocksStepOpens, SocksStepWinOpens,
     SocksDoneOpens, OpenPipeOpens, WaitPipeOpens, GetEndpointOpens, OpenStreamOpens DEF Open
<1>2. UNCHANGED <<call, native, closing>>  BY DEF Open, worker, iroh
<1>3. LockInv' /\ TeardownInv'  BY <1>1, <1>2, OpenerLeavesClose
<1> QED  BY <1>1, <1>3 DEF OpenerInv, IndInv

(* A spawn that fails reaps the child it cannot talk to. *)
LEMMA SpawnKeeps ==
    ASSUME IndInv, Spawn
    PROVE  IndInv'
<1>1. /\ pc = "spawn" /\ pc' \in {"spawn", "open", "failed"}
      /\ child' \in {"running", "reaped", child}
      /\ UNCHANGED <<call, native, closing, spent, sock, faulted>>
  BY DEF Spawn, SpawnStep, Abandon, Unconvertible, iroh
<1>2. call.kind = "spawn" /\ stage \in Nat /\ (stage < ChildStep => child = "none")
  BY <1>1 DEF IndInv, KindInv
<1>3. WellTyped'  BY <1>1 DEF IndInv, WellTyped, closing
<1>8. /\ pc' = "failed" => child' \in {"none", "reaped"}
      /\ pc' = "failed" /\ held' # {} => ~Posix /\ call.args = "utf8"
      /\ pc' = "spawn" => stage' = stage + 1 /\ (stage' # ChildStep => child' = child)
  BY <1>1, <1>2 DEF Spawn, SpawnStep, Abandon, Unconvertible, CommandLine, ChildStep
<1>4. KindInv'  BY <1>1, <1>2, <1>8 DEF KindInv, ChildStep
<1>5. HeldInv'
  <2>1. (pc = "failed" /\ held # {} => Leaks)'  BY <1>1, <1>2, <1>8 DEF Leaks, Posix
  <2> QED  BY <1>1, <1>2, <2>1 DEF HeldInv, Sockets
<1>6. SocketInv' /\ TimeInv'  BY <1>1, <1>2 DEF SocketInv, TimeInv, Sockets
<1>7. LockInv' /\ TeardownInv'  BY <1>1, OpenerLeavesClose
<1> QED  BY <1>3, <1>4, <1>5, <1>6, <1>7 DEF IndInv

-----------------------------------------------------------------------------
(* The environment.                                                        *)

(* The clock does not tick at a step that has compared the deadline. *)
LEMMA TickKeeps ==
    ASSUME IndInv, Tick
    PROVE  IndInv'
<1>1. UNCHANGED <<call, pc, stage, sock, faulted, owned, worker, closed, lock, closer>>
  BY DEF Tick, opening, closing
<1>2. spent' \in {spent, spent + 1}  BY DEF Tick, opening
<1>3. spent' # spent => call.timed /\ (Waiting \/ pc \in {"resolve", "pipe"})
  BY DEF Tick, opening
<1>4. WellTyped' /\ KindInv' /\ HeldInv' /\ SocketInv' /\ LockInv' /\ TeardownInv'
  BY <1>1, <1>2 DEF IndInv, WellTyped, KindInv, HeldInv, SocketInv, LockInv, TeardownInv,
                    Released, Posix, Leaks, owned, worker, iroh
<1>5. TimeInv'  BY <1>1, <1>2, <1>3 DEF IndInv, TimeInv, Waiting, SocksStages
<1> QED  BY <1>4, <1>5 DEF IndInv

(* What the invariant does not speak of may change at any time. *)
LEMMA UnseenKeeps ==
    ASSUME IndInv,
           UNCHANGED <<call, pc, stage, spent, sock, faulted, held, cloexec, child, native,
                       closed, lock, closer>>
    PROVE  IndInv'
BY DEF IndInv, WellTyped, KindInv, HeldInv, SocketInv, TimeInv, LockInv, TeardownInv,
       Released, Posix, Leaks

(* A worker that exits by itself is left to be reaped; the opener has not  *)
(* failed and nobody has returned from close() while it ran.               *)
LEMMA ChildGoneKeeps ==
    ASSUME IndInv, child = "running", child' = "zombie",
           UNCHANGED <<call, opening, owned, native, closing>>
    PROVE  IndInv'
<1>1. call.kind = "spawn" /\ pc \notin {"args", "failed"} /\ ~(closed /\ lock = Nobody)
  BY DEF IndInv, KindInv, TeardownInv, Released
<1>2. WellTyped' /\ KindInv' /\ HeldInv' /\ SocketInv' /\ TimeInv' /\ LockInv'
  BY <1>1 DEF IndInv, WellTyped, KindInv, HeldInv, SocketInv, TimeInv, LockInv, Posix, Leaks,
              opening, owned, closing
<1>3. TeardownInv'  BY <1>1 DEF IndInv, TeardownInv, closing
<1> QED  BY <1>2, <1>3 DEF IndInv

(* A read that cancels the stream spoils an output that was not ended. *)
LEMMA ReadCancelledKeeps ==
    ASSUME IndInv, ReadCancelled
    PROVE  IndInv'
<1>1. UNCHANGED <<call, opening, owned, child, closing>>  BY DEF ReadCancelled
<1>2. PICK n \in [finished : BOOLEAN, cancelled : BOOLEAN, spoilt : BOOLEAN] : n = native
  BY DEF IndInv, WellTyped
<1>3. native' = [n EXCEPT !.cancelled = TRUE, !.spoilt = n.spoilt \/ ~n.finished]
  BY <1>2 DEF ReadCancelled, CancelNative
<1>4. /\ native'.cancelled /\ (native'.finished \/ native'.spoilt)
      /\ native' \in [finished : BOOLEAN, cancelled : BOOLEAN, spoilt : BOOLEAN]
  <2>1. /\ native' \in [finished : BOOLEAN, cancelled : BOOLEAN, spoilt : BOOLEAN]
        /\ native'.cancelled = TRUE /\ native'.finished = n.finished
        /\ native'.spoilt = (n.spoilt \/ ~n.finished)
    BY <1>3, Zenon
  <2> QED  BY <2>1
<1>5. WellTyped' /\ KindInv' /\ HeldInv' /\ SocketInv' /\ TimeInv' /\ LockInv'
  BY <1>1, <1>4 DEF IndInv, WellTyped, KindInv, HeldInv, SocketInv, TimeInv, LockInv, Posix, Leaks,
                    opening, owned, closing
<1>6. TeardownInv'  BY <1>1, <1>4 DEF IndInv, TeardownInv, Released, owned, closing
<1> QED  BY <1>5, <1>6 DEF IndInv

-----------------------------------------------------------------------------
(* close().                                                                *)

(* The opener's part does not change once the transport is open, but for   *)
(* what is given up.                                                       *)
LEMMA CloserLeavesOpener ==
    ASSUME IndInv, pc = "open", closed',
           UNCHANGED <<call, opening>>,
           held' \subseteq held, child' \in {child, "reaped"},
           call.kind # "spawn" => child' = child
    PROVE  KindInv' /\ HeldInv' /\ SocketInv' /\ TimeInv'
<1>1. KindInv'  BY DEF IndInv, KindInv, opening
<1>2. HeldInv'  BY DEF IndInv, HeldInv, opening
<1>3. SocketInv' /\ TimeInv'  BY DEF IndInv, SocketInv, TimeInv, opening
<1> QED  BY <1>1, <1>2, <1>3

(* The first thread takes the mutex and sets closed; a later one gets the  *)
(* mutex only when the first has released everything.                      *)
LEMMA CloseKeeps ==
    ASSUME IndInv, NEW c \in Closers, Close(c)
    PROVE  IndInv'
<1> USE NobodyAssumption
<1>1. /\ pc = "open" /\ closer[c] = "idle" /\ lock = Nobody
      /\ UNCHANGED <<call, opening, owned, worker>>
  BY DEF Close
<1>2. /\ closed' = TRUE
      /\ closed => closer' = [closer EXCEPT ![c] = "done"] /\ lock' = Nobody
      /\ ~closed => closer' = [closer EXCEPT ![c] = "begin"] /\ lock' = c
  BY <1>1 DEF Close, IndInv, WellTyped
<1>3. KindInv' /\ HeldInv' /\ SocketInv' /\ TimeInv'
  BY <1>1, <1>2, CloserLeavesOpener DEF owned, worker
<1>4. WellTyped'  BY <1>1, <1>2 DEF IndInv, WellTyped, Busy, opening, worker, iroh
<1>5. LockInv'  BY <1>1, <1>2 DEF IndInv, WellTyped, LockInv, Busy, opening
<1>6. TeardownInv'
  BY <1>1, <1>2 DEF IndInv, WellTyped, TeardownInv, Released, owned, worker, iroh
<1> QED  BY <1>3, <1>4, <1>5, <1>6 DEF IndInv

\* Thread c, which has the mutex, goes to another step of the teardown.
Advances(c, step) ==
    /\ closer' = [closer EXCEPT ![c] = step] /\ step \in Busy
    /\ UNCHANGED <<lock, closed>>

(* The thread that is in the teardown has the mutex to itself. *)
LEMMA HolderIsAlone ==
    ASSUME IndInv, NEW c \in Closers, closer[c] \in Busy
    PROVE  /\ lock = c /\ lock # Nobody /\ closed /\ pc = "open"
           /\ \A d \in Closers : d # c => closer[d] = "idle"
<1>1. lock = c /\ lock # Nobody  BY NobodyAssumption DEF IndInv, LockInv
<1>2. closed /\ pc = "open"  BY DEF IndInv, LockInv, WellTyped, Busy
<1>3. ASSUME NEW d \in Closers, d # c PROVE closer[d] = "idle"
  BY <1>1, <1>3 DEF IndInv, LockInv, WellTyped
<1> QED  BY <1>1, <1>2, <1>3

(* It advances. *)
LEMMA AdvanceKeeps ==
    ASSUME IndInv, NEW c \in Closers, closer[c] \in Busy, NEW step, Advances(c, step),
           UNCHANGED <<call, opening, child>>, held' \subseteq held,
           native' \in [finished : BOOLEAN, cancelled : BOOLEAN, spoilt : BOOLEAN],
           native'.cancelled => native'.finished \/ native'.spoilt,
           step = "input" => call.kind = "iroh" /\ (native'.finished \/ native'.spoilt),
           step \in {"grace", "terminate", "kill"} => call.kind = "spawn"
    PROVE  IndInv'
<1>1. /\ lock = c /\ lock # Nobody /\ closed /\ pc = "open"
      /\ \A d \in Closers : d # c => closer[d] = "idle"
  BY HolderIsAlone
<1>2. KindInv' /\ HeldInv' /\ SocketInv' /\ TimeInv'
  BY <1>1, CloserLeavesOpener DEF Advances
<1>3. WellTyped'  BY DEF IndInv, WellTyped, Advances, Busy, opening
<1>4. LockInv'  BY <1>1 DEF IndInv, WellTyped, LockInv, Advances, Busy, opening
<1>5. TeardownInv'  BY <1>1 DEF IndInv, WellTyped, TeardownInv, Advances
<1> QED  BY <1>2, <1>3, <1>4, <1>5 DEF IndInv

(* It is done: the mutex is given back with everything released. *)
LEMMA ReturnKeeps ==
    ASSUME IndInv, NEW c \in Closers, closer[c] \in Busy,
           closer' = [closer EXCEPT ![c] = "done"], lock' = Nobody,
           UNCHANGED <<call, opening, closed>>,
           held' \subseteq held, child' \in {child, "reaped"},
           call.kind # "spawn" => child' = child,
           native' \in [finished : BOOLEAN, cancelled : BOOLEAN, spoilt : BOOLEAN],
           native'.cancelled => native'.finished \/ native'.spoilt,
           Released'
    PROVE  IndInv'
<1>1. /\ lock = c /\ lock # Nobody /\ closed /\ pc = "open"
      /\ \A d \in Closers : d # c => closer[d] = "idle"
  BY HolderIsAlone
<1>2. KindInv' /\ HeldInv' /\ SocketInv' /\ TimeInv'  BY <1>1, CloserLeavesOpener
<1>3. WellTyped'  BY DEF IndInv, WellTyped, Busy, opening
<1>4. LockInv'  BY <1>1 DEF IndInv, WellTyped, LockInv, Busy, opening
<1>5. TeardownInv'  BY <1>1 DEF IndInv, WellTyped, TeardownInv
<1> QED  BY <1>2, <1>3, <1>4, <1>5 DEF IndInv

(* The teardown of each kind of transport. *)
LEMMA CloseStepKeeps ==
    ASSUME IndInv, NEW c \in Closers, CloseStep(c)
    PROVE  IndInv'
<1> DEFINE Natives == [finished : BOOLEAN, cancelled : BOOLEAN, spoilt : BOOLEAN]
<1>0. /\ native \in Natives /\ (native.cancelled => native.finished \/ native.spoilt)
      /\ call.kind # "spawn" => child = "none"
  BY DEF IndInv, WellTyped, TeardownInv, KindInv
<1>1. CASE CloseSocket(c)
  <2>1. /\ closer[c] \in Busy /\ closer' = [closer EXCEPT ![c] = "done"] /\ lock' = Nobody
        /\ UNCHANGED <<call, opening, closed, child, native>> /\ held' = {}
        /\ call.kind # "iroh" /\ child = "none"
    BY <1>1 DEF CloseSocket, Release, Busy, worker, iroh
  <2>2. Released'  BY <2>1 DEF Released
  <2> QED  BY <1>0, <2>1, <2>2, ReturnKeeps
<1>2. CASE CloseOutput(c)
  <2>1. /\ closer[c] \in Busy /\ Advances(c, "input") /\ call.kind = "iroh"
        /\ UNCHANGED <<call, opening, child, held>>
    BY <1>2 DEF CloseOutput, Busy, Advances, owned
  <2>2. PICK n \in Natives : n = native  BY <1>0
  <2>3. /\ native' \in Natives /\ (native'.finished \/ native'.spoilt)
    <3>1. \/ native' = n /\ n.cancelled
          \/ native' = [n EXCEPT !.finished = TRUE]
          \/ native' = [n EXCEPT !.spoilt = TRUE]
      BY <1>2, <2>2 DEF CloseOutput
    <3> QED  BY <1>0, <2>2, <3>1
  <2> HIDE DEF Natives
  <2> QED  BY <2>1, <2>3, AdvanceKeeps DEF Natives
<1>3. CASE CloseInput(c)
  <2>1. /\ closer[c] \in Busy /\ closer' = [closer EXCEPT ![c] = "done"] /\ lock' = Nobody
        /\ UNCHANGED <<call, opening, closed, child, held>>
    BY <1>3 DEF CloseInput, Busy, owned
  <2>2. call.kind = "iroh" /\ (native.finished \/ native.spoilt) /\ held \subseteq {"stream"}
    BY <1>3 DEF CloseInput, IndInv, TeardownInv, HeldInv
  <2>3. PICK n \in Natives : n = native  BY <1>0
  <2>4. /\ native' \in Natives /\ native'.cancelled = TRUE
        /\ native'.finished = n.finished /\ native'.spoilt = n.spoilt
    BY <1>3, <2>3 DEF CloseInput, CancelNative
  <2>5. Released'  BY <1>0, <2>1, <2>2, <2>3, <2>4 DEF Released
  <2> QED  BY <2>1, <2>2, <2>3, <2>4, <2>5, ReturnKeeps
<1>4. CASE CloseStdin(c)
  <2>1. /\ closer[c] \in Busy /\ Advances(c, "grace") /\ child # "none"
        /\ UNCHANGED <<call, opening, child, native>> /\ held' \subseteq held
    BY <1>4 DEF CloseStdin, Busy, Advances, worker, iroh
  <2> QED  BY <1>0, <2>1, AdvanceKeeps
<1>5. CASE Reap(c)
  <2>1. /\ closer[c] \in Busy /\ closer' = [closer EXCEPT ![c] = "done"] /\ lock' = Nobody
        /\ UNCHANGED <<call, opening, closed, native>> /\ held' = {} /\ child' = "reaped"
        /\ child # "none"
    BY <1>5 DEF Reap, Release, Busy, iroh
  <2>2. Released'  BY <1>0, <2>1 DEF Released
  <2> QED  BY <1>0, <2>1, <2>2, ReturnKeeps
<1>6. CASE Escalate(c)
  <2>1. closer[c] \in {"grace", "terminate"} /\ UNCHANGED <<call, opening, child, native, held>>
    BY <1>6 DEF Escalate, owned, iroh
  <2>2. call.kind = "spawn" /\ closer[c] \in Busy  BY <2>1 DEF IndInv, TeardownInv, Busy
  <2>3. PICK step \in {"terminate", "kill"} : Advances(c, step)
    BY <1>6, <2>1 DEF Escalate, Advances, Busy, IndInv, WellTyped
  <2> QED  BY <1>0, <2>1, <2>2, <2>3, AdvanceKeeps
<1>7. CASE EscalateWin(c)
  <2>1. /\ closer[c] \in {"grace", "terminate"} /\ child = "running"
        /\ UNCHANGED <<call, opening, native, closed>>
    BY <1>7 DEF EscalateWin, iroh
  <2>2. call.kind = "spawn" /\ closer[c] \in Busy  BY <2>1 DEF IndInv, TeardownInv, Busy
  <2>3. CASE closer[c] = "grace"
    <3>1. Advances(c, "terminate") /\ UNCHANGED <<child, held>>
      BY <1>7, <2>3 DEF EscalateWin, Advances, Busy, owned
    <3> QED  BY <1>0, <2>1, <2>2, <3>1, AdvanceKeeps
  <2>4. CASE closer[c] # "grace"
    <3>1. /\ closer' = [closer EXCEPT ![c] = "done"] /\ lock' = Nobody
          /\ held' = {} /\ child' = "reaped"
      BY <1>7, <2>4 DEF EscalateWin, Release
    <3>2. Released'  BY <2>1, <2>2, <3>1 DEF Released
    <3> QED  BY <1>0, <2>1, <2>2, <3>1, <3>2, ReturnKeeps
  <2> QED  BY <2>3, <2>4
<1> QED  BY <1>1, <1>2, <1>3, <1>4, <1>5, <1>6, <1>7 DEF CloseStep

(* The last owner of a closed stream frees it. *)
LEMMA FreeStreamKeeps ==
    ASSUME IndInv, FreeStream
    PROVE  IndInv'
<1>1. /\ held' = {} /\ held = {"stream"}
      /\ UNCHANGED <<call, opening, child, native, closed, lock, closer>>
  BY DEF FreeStream, worker, iroh, closing
<1>2. WellTyped' /\ KindInv' /\ SocketInv' /\ TimeInv' /\ LockInv'
  BY <1>1 DEF IndInv, WellTyped, KindInv, SocketInv, TimeInv, LockInv, opening
<1>3. HeldInv'  BY <1>1 DEF FreeStream, IndInv, HeldInv, opening, Posix
<1>4. TeardownInv'  BY <1>1 DEF IndInv, TeardownInv, Released
<1> QED  BY <1>2, <1>3, <1>4 DEF IndInv

-----------------------------------------------------------------------------
(* The theorems.                                                           *)

(* Before the call nothing is open and nobody closes. *)
LEMMA InitEstablishes == Init => IndInv
<1> SUFFICES ASSUME Init PROVE IndInv  OBVIOUS
<1> USE TransportAssumption DEF Init
<1>1. WellTyped  BY DEF WellTyped, Settings, Busy
<1>2. KindInv /\ HeldInv /\ SocketInv /\ TimeInv  BY DEF KindInv, HeldInv, SocketInv, TimeInv
<1>3. LockInv /\ TeardownInv  BY DEF LockInv, TeardownInv, Busy
<1> QED  BY <1>1, <1>2, <1>3 DEF IndInv

(* Every step of the opener, of a closing thread or of the environment. *)
LEMMA NextKeeps == IndInv /\ [Next]_vars => IndInv'
<1> SUFFICES ASSUME IndInv, [Next]_vars PROVE IndInv'  OBVIOUS
<1>1. CASE Open  BY <1>1, OpenKeeps
<1>2. CASE Spawn  BY <1>2, SpawnKeeps
<1>3. CASE OtherSpawn  BY <1>3, UnseenKeeps DEF OtherSpawn, opening, worker, iroh, closing
<1>4. CASE PeerReady  BY <1>4, UnseenKeeps DEF PeerReady, owned, worker, iroh, closing
<1>5. CASE Tick  BY <1>5, TickKeeps
<1>6. CASE ChildWrite \/ ClientRead
  BY <1>6, UnseenKeeps DEF ChildWrite, ClientRead, opening, owned, iroh, closing
<1>7. CASE ChildExit \/ ChildCrash
  BY <1>7, ChildGoneKeeps DEF ChildExit, ChildCrash, iroh
<1>8. CASE Read \/ ReadReturns
  BY <1>8, UnseenKeeps DEF Read, ReadReturns, opening, owned, closing
<1>9. CASE ReadCancelled  BY <1>9, ReadCancelledKeeps
<1>10. CASE \E c \in Closers : Close(c) \/ CloseStep(c)  BY <1>10, CloseKeeps, CloseStepKeeps
<1>11. CASE FreeStream  BY <1>11, FreeStreamKeeps
<1>12. CASE Finished \/ UNCHANGED vars
  BY <1>12, UnseenKeeps DEF Finished, vars, opening, owned, worker, iroh, closing
<1> QED
  BY <1>1, <1>2, <1>3, <1>4, <1>5, <1>6, <1>7, <1>8, <1>9, <1>10, <1>11, <1>12 DEF Next

(* The inductive invariant holds throughout. *)
THEOREM Invariance == Spec => []IndInv
BY InitEstablishes, NextKeeps, PTL DEF Spec

(* Whichever step of an open fails, nothing is left behind, but for the    *)
(* socket of a POSIX TCP connect whose flags cannot be changed and the     *)
(* handles of a Windows spawn whose argv is not UTF-8; a socket that is    *)
(* handed out blocks, has the caller's timeouts, is close-on-exec and was  *)
(* connected in time.                                                      *)
THEOREM OpensOrReleasesAlways == Spec => []OpensOrReleases
<1>1. IndInv => OpensOrReleases
  BY DEF IndInv, WellTyped, KindInv, HeldInv, SocketInv, TimeInv, OpensOrReleases, Sockets
<1> QED  BY <1>1, Invariance, PTL

(* Whoever has returned from close(), first or not, finds the descriptors  *)
(* and the child gone, or the Iroh stream ended and cancelled.             *)
THEOREM CloseCompleteAlways == Spec => []CloseComplete
<1>1. IndInv => CloseComplete
  BY DEF IndInv, WellTyped, LockInv, TeardownInv, Released, CloseComplete
<1> QED  BY <1>1, Invariance, PTL

=============================================================================
