# TLA+ verification of vgi-rpc-cpp

This project models the parts of the library in which several threads, two
processes, an unreliable network or several configured gates have to agree on
something, checks them with TLC on small instances, and proves the safety
properties of all nine state machines with TLAPS for every value of the constants.
Source paths below are relative to the repository root, so that `src/session.cpp` here
is `src/src/session.cpp` in `PROJECT.json`.

## The system

vgi-rpc-cpp is an Arrow-IPC RPC library. A *server* registers unary and stream
methods and serves them over pipes, Unix sockets, TCP and HTTP. A *client* calls
them over the same transports. On a raw transport (pipe or socket) one connection
carries one call at a time, in lockstep; over HTTP a call is a series of requests
tied together by tokens. Co-located peers may move large batches through a
shared-memory segment; over HTTP large batches may travel by reference through a
storage service.

| Component | State | Operations | Interacts with | What is hard |
|---|---|---|---|---|
| sticky session registry (`src/session.cpp`) | `entries_`, a dispatch mutex per entry, two expiries, drain flag | open, resolve, close, sweep, shutdown, drain | HTTP requests, method handlers through `CallContext` | five ways to remove an entry race for one close hook; two clocks |
| sticky requests (`src/http_transport.cpp`, `src/call_context.cpp`) | the request's `StickySlot` | begin, open_session, close_session, DELETE, end | the registry | locks that leave the function which took them; flags read early |
| raw client (`src/client.cpp`) | active call, lazily started writer and reader, finished flag | call_unary, open_stream, tick, exchange, close, cancel | the byte stream, shared memory | each exit path leaves an exact number of bytes unread |
| raw server loop (`src/pipe_transport.cpp`, `src/wire.cpp`) | position in the loop | serve_one, serve_unary, serve_stream | handlers, shared memory | the same, seen from the other end |
| shared-memory segment (`src/shm.cpp`) | allocation table in the header, data region | allocate_and_write, free_alloc, reset, read | both processes | no lock: atomic only because the peers take turns |
| socket listener and pool (`src/socket_transport*.{cpp,h}`, `src/proxy_protocol_v2.cpp`) | pending queue, active set, permits, idle clock, deadlines of each connection | accept, submit, take, preamble, identity, read, reply, release, stop | worker threads, the kernel, a proxy in front | descriptor reuse, saturation, idle exit on a snapshot, silent and dripping peers |
| HTTP streams, server (`src/http_transport.cpp`) | `streams_`, a mutex per stream | /init, /exchange, cancel | handlers, request threads | retried and concurrent turns |
| HTTP streams, client (`src/http_client.cpp`) | cursor, pending batch, flags | open, tick, exchange, resume, seek, cancel, close, retry | the network | lost answers, replays, stale tokens |
| HTTP calls, client (`src/http_client.cpp`) | learnt capabilities, the session token of a view, two mutexes | call, capabilities, post, 413/415 resend, detach, close | the server, external storage | a resend of what may have been done; a lock that travels with a response |
| client transports (`src/client_transport.cpp`, `src/iroh_client.cpp`, `src/iroh_cabi_transport.cpp`) | child process, descriptors, deadlines, the native stream, `closed` | spawn, connect (Unix, TCP, SOCKS5h, named pipe, Iroh), read, close | the OS, a proxy, the Iroh library | faults half-way, one deadline over many waits, teardown of a child |
| carriers of an HTTP request (`src/http_client.cpp`, `src/http_socks5h.cpp`, `src/iroh_cabi_transport.cpp`) | what has been received | send, receive header and body, classify a failure | httplib, libcurl, the Iroh library | three receivers that must bound and classify alike |
| HTTP request pipeline (`src/http_transport.cpp`) | start-hook flag, replay cache | POST: hook, limits, authentication, pointer, routing, gates, method, upload | everything below | the order of the early returns |
| identity (`src/identity.cpp`, `token_identity`, `grants`, `proxy_proof`, `spiffe_proxy_identity`, `tailscale_identity`) | nonces seen, keys | verify, resolve, mint | identity services | outages, replays, expiry, order of evidence |
| external storage (`src/external.cpp`, `src/client_external.cpp`) | none of its own | upload, fetch | storage service, DNS | redirects, names that change, replaced bodies |
| dispatch (`src/server.cpp`, `src/request_contract.h`) | protocol bindings | build, route, gate | all transports | the gates are written once per transport |

## Modules

State machines:

- `SessionRegistry`: the registry and the requests on it. A critical section
  under the registry mutex is one action; the wait for an entry's dispatch mutex
  is an action of its own (`Acquire`), so that what was read before it can be
  stale after it. `resolve`, `close`, `sweep` and `shutdown` share the actions
  `Find`, `Acquire`, `Erase`, `RecheckFails` and `HookReturns`; `op` says which
  one a thread is in. Time is two flags per session, one per clock the code
  reads. Tokens are opaque: `Unseals` says for whom and until when they open.
- `RawWire`: one client and one server connection with two FIFO streams of IPC
  messages (schema, batch, end of stream). Each message carries, as a ghost, the
  number of the call it was written for; the code has no such number, which is
  the point of `RepliesBelongToCall`. Either process may die. Log batches are
  left out, and the gates ahead of dispatch are one refusal (`ServeRefused`).
- `ShmSegment`: the allocator with atomic operations, the abstract specification
  of the segment. `held` is the set of live pointers: handed out, and neither freed
  nor made dead by `reset()`, which only the unit test of the segment calls.
- `ShmExchange`: extends `ShmSegment`. Two processes run the same operations in
  the steps the code makes (read the count, scan, move the table, store the
  count) between the turns of a stream call. It implements `ShmSegment`: the
  refinement mapping shows the table as it was before an uncommitted move.
- `SocketPool`: the accepting thread, the workers, the pool's mutex-protected
  state, descriptors with the kernel's reuse, the idle clock, and a connection's
  life in a worker: preamble, identity, first frame, further frames, replies,
  each against the deadline the code computes for it. It uses `ProxyProtocol`.
- `HttpStream`: the server's stream registry and its turn protocol, with client
  sessions that lose answers, retry, hand out and use resume tokens. A stream's
  application state is its position. A session's record keeps, as history, the
  attempts it gave up (`lost`) and the batches its caller had it discard (`dropped`).
- `HttpCall`: the threads of one client and one sticky view of it, against a
  server reduced to what the client can tell apart. `pc` follows `post()`,
  `capabilities()` and `post_inline()`; the two mutexes are `slock` and `clock`;
  a failure without an answer is worth another attempt or it is not, which
  `Transfer` derives from what the carrier saw. A request that its call gave up on
  (a deadline, a stop token, a lost connection) stays in `late`, and the server may
  dispatch it at any time after (`LateDispatch`), when the call has thrown and its
  locks are free.
- `ClientTransport`: one transport from `args` to `open` or `failed`, then
  `close()` by any number of threads. Descriptors, the child, the socket's flags
  and timeouts, the ticks a connect has used and the grace periods are kept; both
  builds are modelled. For Iroh, the state the two stream halves share
  (`NativeState`) and a thread blocked in a read; the library is external.
- `HttpRequest`: composes `Identity`, `External` and `Dispatch`: the handlers of
  an HTTP worker, step by step from the start hook to the answer and the fetch of
  the client. Every reading of the clock, every lookup and every transfer is a
  step. A *deployment* is a configuration together with the requests its clients
  send; it is chosen once, and configurations that the constructors refuse
  (`Starts`) are never run.

Modules without state, used by the machines above:

- `ProxyProtocol`: what `parse_proxy_protocol_v2` accepts and asserts, and the
  options `serve_tcp` and `serve_unix` start with.
- `Transfer`: one HTTP exchange over httplib, libcurl or Iroh: header blocks (an
  interim one too), pieces of a body and a way to end, folded through the
  callbacks that bound them, to the kind of failure the client reports. TLC
  evaluates `DeliveredIsBounded` over all transfers of the bounds: what is
  delivered is whole, from the right endpoint and within the limits, and an answer
  that came whole is never asked for again, whichever carrier refused it.
- `Identity`: proofs, peer evidence, policies, grants, the identity protocol.
  HMAC, AEAD and X.509 signatures are taken at their word.
- `External`: URLs, redirects, address policies, codings and digests. A fetch is
  a record that the operators take from step to step.
- `Dispatch`: what `ServerBuilder` accepts, how a path is routed, and the gates of
  HTTP and of the raw transports, one by one.

`MC_*` modules are instances for TLC (workloads, peers, deployments, symmetry).
`*Proofs` modules hold theorems. `PROJECT.json` maps each definition to its lines.
Operators named `Bug_...` are faulty variants that mutation checks put in place of
the definition after them; no specification uses them.

## Runs

| Run | Bounds | Shows |
|---|---|---|
| `session` | 2 request threads, 1 sweeper, 1 shutdown, 1 session, 2 principals | at most one hook per session; no hook under a handler; one handler per session, only for its owner; removed sessions are closed, expired ones too if somebody sweeps |
| `session_no_sweep` (violation) | no sweeper, no shutdown, as in the server | an expired session is never closed |
| `raw_wire` | 4 calls, 3 turns per stream; only unary calls refused ahead of dispatch; no silent turns | answers belong to their calls; calls end at both ends |
| `raw_wire_refused` (violation) | stream calls refused too | the ends get out of step |
| `shm_segment` | 2 header units, 6 data units, 3 table entries | table sorted, within bounds and equal to the pointers that are out; no overlap |
| `shm_exchange` | 2 data units, 2 entries, 2 calls of up to 3 turns, one direction at a time (`OneDirection`) | for such workloads: the peers never meet in the header; nothing is leaked; calls end; refinement of `ShmSegment` |
| `shm_exchange_race` (violation) | 1 call, 1 turn, both directions large | an allocation is leaked |
| `socket_pool` | Unix and TCP, with and without a proxy, up to 3 peers, 2 workers, 1 pending, 3 descriptors, no bound on what a peer sends; options that are refused | permits, descriptors closed once by their owner, idle exit, setup within one deadline, connections end if the peers hang up or (TCP) fall silent, and so does the serve call |
| `http_stream` | 2 sessions, 2 principals, 3 requests, 2 attempts, symmetry | ended streams are final; only the owner runs one; exchange inputs once; every batch once, but for those in answers to failed attempts and those the caller discards |
| `http_call` | 2 threads, 1 call each, 2 attempts, 2 tokens, 1 restart, 3 server profiles; transfers of up to 2 header blocks and 2 pieces, limits 2 | a call not declared idempotent runs at most once, and its outcome says whether; a request that is waited for carries the view's token; a detached session is left alone; a request dispatched late belongs to a call that reported no answer or may be repeated; no lock cycle |
| `client_transport` | 6 kinds of transport, 2 platforms, 2 addresses, connect timeout 2, grace 1, 2 closing threads | nothing is left after a failure, two paths excepted; an open socket is as configured; `close()` is complete for every caller; open and close return; an Iroh peer gets the end of the output before the stream is cancelled, and `close()` ends a blocked read |
| `http_request` | 2 handlers, 12 deployments with up to 3 requests each | who learns what, outages, replay window, grants, where fetches go, what references deliver, agreement of the transports, every request ends |

The bounds are the smallest that let the races happen: two threads that want the
same entry plus one that removes it; one call that fails, one after it and one
more to receive what the first left behind; a third peer for a pool that is full
with two; an `/init`, a turn, and a retry or a cancel that waits for it; a large
call that is refused, uploaded and sent again next to one that is decoded; two
addresses, so that the first may use up the timeout of the second. Clocks are cut
off where larger ages compare alike. Each deployment of `http_request` switches on
the parts whose interplay it is about (proofs and replay; grants; token
resolution; each peer provider and policy; storage with redirects; packing of
results; two protocols that share a method), since a request crosses only the
gates of its own deployment.

What the workloads leave out, because the code does not have the property there:
`shm_exchange` has no turn that raises on a large input and none that is large in
both directions; `raw_wire` has no refused stream calls and no silent turns
(`process()` returns without a batch and without `finish()`). The violation runs
and the hazards in `PROJECT.json` say so. Other properties name the cases in which
the code does less than one would ask, and hold outside them:

- `OpensOrReleases` excepts the two paths that leak (`Leaks`):
  `connect_with_timeout()` throwing inside the address loop of the POSIX TCP connect,
  and a Windows spawn whose argv is not UTF-8, which `utf8_to_wide()` refuses when
  the pipes and the NUL device are open as raw handles.
- `OutageIsNotRefusal` excepts one way to fail (`CutUnnoticed`): the Tailscale daemon
  answers without a length and hangs up in the body, which the code takes for its
  end, so that a good caller gets 401. A stall in the same body is a 503.
- `AdmittedIsClosed` needs the peers to hang up or, on TCP, to fall silent: the
  deadlines of later requests and of replies start afresh with every `Read()` and
  `Write()`, so that a peer which goes on sending keeps its worker, and whoever is
  pending behind it, for ever. `SetupBounded`, before the first request, needs nothing.
- `EveryBatchOnce` lets a batch be passed over in the answer to an attempt that its
  session gave up (the call threw, or the turn was declared idempotent and replayed).
- `InFlightTokenIsCurrent` and `DetachedIsForgotten` are about requests that are
  waited for; of those that were given up on they say that the call behind them
  reported no answer or may be repeated.
- `ReplayGap` says what the nonce cache promises as it is: a nonce passes again no
  sooner than the skew after it was accepted, while the cache has room. A time stamp
  ahead of the clock verifies for longer than that, where a comment in
  `src/proxy_proof.cpp` says a pruned nonce cannot. A worker may run without the
  cache; one deployment does.

Fairness. `SessionRegistry`: a thread that is not blocked runs, handlers end,
and a sweeper, where there is one, keeps sweeping. `RawWire`: both processes read
what is there, and a read from a dead peer fails; what the caller does next is
not fair. `ShmExchange`: each process goes on with the call it is in; opening a
call is not fair. `SocketPool`: threads run, time passes, and descriptors of
other files are given back; peers owe nothing, so the liveness properties that
need something of them say so: `PeersHangUp` or, on TCP, where deadlines end a silent
connection, `PeersFallSilent`.
`HttpCall`: threads run, and every request is answered, refused or lost (each
attempt has a timeout); a request that was given up on owes nothing. `ClientTransport`: the opening and closing threads run and
time passes; neither the peer nor the worker owes anything except that SIGKILL
ends a process and that the Iroh library returns from the read of a stream that
was cancelled. `HttpRequest`: handlers run, and a lookup or transfer comes to
some end. All are weak fairness, which any scheduler gives; where threads wait
for a mutex each of them makes finitely many calls, so that no strong fairness is
needed. `HttpStream` is checked for safety only.

Deadlock is not checked where the model may stop: calls, requests or peers are
used up, or the transport is closed for good.

## What the code does not do as documented

Three runs end in a violation and are recorded as findings: expired sessions are
never closed by the server; a stream call refused ahead of dispatch leaves its
input to be read as a request; and the input of an exchange is freed after the
answer is out, racing the client in the shared header. A fourth finding goes with
a run that passes: `docs/api/http-client.md` says that a resume token resumes after
its batch and that `seek_to_token()` repositions, but the cursor is drawn once per
stream and names no position, so that seeking back brings no batch again, which is
what `EveryBatchOnce` shows. One more divergence is
recorded among the hazards: upload URLs are vended
under the name of any protocol, ahead of the lookup that keeps reserved names to
the flat route, which is why `SameOnEveryTransport` speaks of application methods
only.

## Proofs

Every theorem is about `Spec` of its module (`Init` and the actions, no fairness)
and holds for all values of the constants that satisfy the module's named
assumption. None of the properties is inductive. Each `*Proofs` module states an
inductive invariant as a conjunction of named parts, which TLC was asked about
first; it is proved with one lemma per action or group of actions, and the theorems
follow from it. The assumptions are about sentinels and positive bounds; where one says
more, it is named below.

`SessionRegistryProofs`: `TypeOK`, `HookAtMostOnce`, `HookExcludesHandlers`,
`DispatchSerialized` and `ResolvedIsOwnAndOpen`, for any sets of threads, sessions
and principals (`ConstantsAssumption`: the sentinels are not members, the kinds of
thread are disjoint). The invariant adds who owns a dispatch mutex at which point
of an operation, that a thread in its hook has taken the entry out of `entries` or
is a shutdown that did, that an entry has at most one remover (the thread in the
hook, or a shutdown that still has it to visit) and its hook has then not run yet,
and that what is in `entries` has never had its hook.

`RawWireProofs`: `TypeOK` (`WireTypes`) and `RepliesBelongToCall`
(`AnswersBelongToTheirCall`), for any number of calls and turns, and any set of
kinds of call that the gates ahead of dispatch refuse, except that a stream without
a header is not among them. That hypothesis is exact: `raw_wire_refused` shows the
ends parting where it fails. Types already need an invariant, since the server looks
into a request before it takes it: `Framed` says that no end marker follows another
and that the request reader never starts in the middle of an input. For the answers,
`Lockstep` says, for each thing the client may be doing, where the server can be and
how much is left for it to read (`Where`: dead, has not read the request, has served
it, is discarding the rest of the input, is opening the stream, or is in its loop),
and that what the client has still to read is the rest of one substream of the
current call (`OneAnswer`). The server may be one call behind, by the end of an
input it discards, and no more; that is what the property needs and does not say.

`ShmExchangeProofs`, the atomic allocator: `TypeOK`, `TableSorted`,
`TableMatchesPointers` and `HeldDisjoint` of `ShmSegment` for every segment size,
header size and table size. The lemmas say what first-fit finds (`FirstFitBounds`)
and that an insertion at that place and a removal anywhere keep a table sorted
(`InsertSorted`, `RemoveSorted`).

`ShmExchangeProofs`, the exchange: `HeaderExclusive`, `NothingLeaked` and
`ImplementsAllocator` (the refinement of `ShmSegment`), for every segment, table and
number of calls, and every set of streams with `OneDirection`: a turn with a large input is
answered inline, does not raise, and is not followed by another such turn. The
theorems are named for it (`NothingLeakedOneDirection` and so on): it is an
assumption about the application that the code does not enforce, and outside it the
code leaks (`shm_exchange_race` shows a turn that is large both ways; a turn that
raises on a large input never frees it). The workload of `shm_exchange` satisfies
it, which TLC evaluates. `Lockstep` says, for each thing the client does, where the server
can be and what exactly is on the pipe: the server is behind by what is left of
the call before (`Behind`), has not read the input (`Upcoming`), is in the turn
(`Serving`), has answered (`Answering`), or the output is ended (`Ending`).
`HeldInv` says who has the pointer to a region in use: an operation, a message or
the server's input. With `OneDirection` it follows that at most one region is in
use (`SegmentInv`) and what each step of a header operation finds (`OpInv`).
`Invisible` says which steps the atomic allocator does not see: all but the store
of the count.

`HttpStreamProofs`: `OwnerOnly`, `InputsOnce`, `EveryBatchOnce` and the action
property `EndedIsFinal`, for any sessions, principals, requests and streams.
A request past the dispatch mutex holds the mutex of its stream and what it saw at
the second look still holds (`RequestInv`); a stream that has ended and is still in
`streams_` is in the hands of the request that ended it (`HeldInv`); a stream took
only turns sent to it under its owner's name (`StreamInv`); a cursor names a stream
of its bearer's kind (`KindInv`); no two exchange turns carry the same input
(`TurnInv`); positions are given out once (`PositionInv`); each batch in a
session's hands is one answer to a call of its own that it took (`CallInv`,
`BatchInv`); and each position of a stream is in the answer to a request that is
awaited, was given up, or whose batch its session holds or discarded (`LedgerInv`).

`SocketPoolProofs`: `PermitsMatch`, `DescriptorsOwned`, `IdleExitIsIdle` and
`SetupBounded`, for any peers, workers, descriptors, queue length and deadlines
(`PoolAssumption`). `PlacesInv` puts the descriptor of a connection in exactly one
place (the accepting thread, the queue, one worker), `ConnInv` lets a connection be
open on one descriptor and closed once, `CountInv` counts the permits by those
places with the theorems on finite sets, `PhaseInv` says what `stop()` leaves
behind, `IdleInv` what may happen between the snapshot and the decision on it, and
`SetupInv` that a worker's own clock never runs ahead of the connection's.

`HttpCallProofs`: `ExactlyOnceOutcome`, `InFlightTokenIsCurrent` and
`DetachedIsForgotten`, for any threads, batches, attempts, tokens, restarts and
server profiles (`HttpCallAssumption`). Per thread: which of the two mutexes it
has at each step (`LockOK`), what the request or the answer on its wire is worth
(`WireOK`), and how often its method has run at that step (`RunsOK`); `ViewInv`
says that a token which left the view, by `detach()` or `close()`, left a closed
view without one; and of a late request, what its call was told.

`ClientTransportProofs`: `OpensOrReleases` and `CloseComplete`, for any addresses,
timeouts, grace periods and closing threads (`TransportAssumption`,
`NobodyAssumption`). `HeldInv` and `KindInv` say what each step of each kind of
opening owns, `SocketInv` and `TimeInv` how the socket is set up and what has been
used of the timeout, `LockInv` who has the mutex of `close()`, and `TeardownInv` what is
released at each step of a teardown.

`HttpRequestProofs`: `OnlyAdmittedLearn`, `OutageIsNotRefusal`, `GrantsAreEarned`,
`FetchesWithinPolicy`, `ReferencesHold` and `SameOnEveryTransport`, and, under `[]CacheHasRoom`, `ReplayGap`; for any handlers,
deployments, requests, sites, names and payloads. Handlers share no more than the
start flag, the replay cache and the grants handed out, so the invariant is about
one handler's record (`HandlerOK`), and there is a lemma for each way a step may
replace it: what has not happened yet at a stage (`PhaseOK`), which digest goes
with which body (`ReferenceOK`), where the request on the wire goes (`FetchOK`), what
an identity is worth and what was checked before a grant is minted (`AuthOK`), and
that the verdict a handler keeps is that of its route and batch (`RouteOK`).
`SameVerdict` compares the gates of the two transports, which the code writes
twice. For the cache, `CacheInv` says that an acceptance is remembered, with its
time or that of a later one, or is past the skew; `PrunedKeepsTheYoung` is why.
`CacheHasRoom` is a hypothesis because an entry is also dropped when the cache is
full, however young it is, and holds in the deployments with proofs that
`http_request` runs. `RequestAssumption` and `SiteAssumption` say what a request, a
configuration, a site's answer and an address look like, and three things that are
not about form: who holds a token of the issuer is whom it names, the principal
header of the conformance fixture names who sends it and comes without another
credential, and the digest an application published is the one of its object. TLC
evaluates both.

Who is admitted has an invariant of its own (`AdmissionInv`): a handler past the
start hook runs after it has returned (`StartInv`), one past the proof came with one
where it is required (`Proven`), one past authentication is taken for its sender or
may be anonymous (`Named`), and one that was answered 401 had no sound credentials
(`AdmissionOK`). The weight is in the lemmas about `resolve_http_identity()`, for any
list of providers and any policy over them: evidence names nobody but whom the proxy
or the daemon vouches for (`EvidenceNames`); a fault of the daemon turns evidence
into "unavailable" and into nothing else, unless the daemon hung up unnoticed in an
answer without a length, which the theorem excepts as the property does
(`FaultyEvidence`); and a policy that accepts what it gets with everything up does
not refuse when some of it is unavailable, so that the outcome is an identity or a
503 (`PolicyOutage`), through the chain of bearers too (`OutageTold`). Requests carry
two labels that the code cannot see, the sender and whether the credentials are
sound. `SenderAssumption` says what they mean, in terms of the request and not of
what the worker concludes from it: a credential that is worth something (a token
under a key the worker or its services accept, a header of a trusted proxy that says
it verified what it names, the daemon's own answer) names the sender, and under the
policy "all" one of those asked for does; a sound request gets in when every service
is up. The policies with "all" are
the reason to ask only one to be truthful: they compare the subjects, and the proof
shows that the comparison is enough. TLC evaluates the assumption for the twelve
deployments.

Only model-checked: liveness everywhere (`RemovedIsClosed`, `ExpiredIsClosed`,
`CallsEnd`, `AdmittedIsClosed`, `ServerReturns`, `OpenAndCloseEnd`, `RequestsEnd`),
since fairness and ENABLED are out of the prover's reach; and `DeliveredIsBounded` of
`Transfer`, which is a fold over the blocks and pieces of a transfer and would need
induction over data. No other safety property of a run is without its theorem.

## Not modelled

- The Iroh library and libcurl themselves: what they report is nondeterministic.
  Of the bindings, the identity of the local endpoint and the options handed to
  libcurl.
- Reflection, descriptions, protocol hashes, type tokens: pure formatting.
- Logging, access log, errors, results, metadata: value types and output.
- Cryptography: modelled by what it promises where it is used.
- Formats of tokens and headers, compression of HTTP bodies, CORS, landing pages.
- The socket file of a Unix listener (two servers on one path).
- Conformance workers and drivers, examples, tests: programs that use the library.
