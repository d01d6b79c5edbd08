--------------------------- MODULE SessionRegistry ---------------------------
(***************************************************************************)
(* Sticky sessions: the per-worker SessionRegistry (src/src/session.cpp)   *)
(* and the requests of the HTTP transport that use it                      *)
(* (src/src/http_transport.cpp, src/src/call_context.cpp).                 *)
(*                                                                         *)
(* Two kinds of lock are at work.  The registry mutex guards `entries' and *)
(* is only ever held for one lookup or one erase, so a critical section    *)
(* under it is one step here.  Each entry has a recursive dispatch mutex,  *)
(* held from resolve() to the end of the request, and taken with the       *)
(* registry mutex released: what was read before the wait may be stale     *)
(* after it.  close(), sweep() and shutdown() compete for it as well.      *)
(*                                                                         *)
(* Time is abstracted to two flags per session, because the code reads two *)
(* clocks: the wall clock decides whether a token's sealed expires_at has  *)
(* passed, the steady clock whether an entry's expires_at has.  Either may *)
(* pass first.                                                             *)
(***************************************************************************)
EXTENDS Naturals, FiniteSets

CONSTANTS
    Workers,    \* HTTP threads: requests and DELETE /__session__
    Sweepers,   \* threads that call sweep()
    Closers,    \* threads that call shutdown()
    Sessions,   \* session ids; random 12 bytes in the code, never reused
    Principals, \* identities a request may authenticate as
    NoSession, NoThread, NoOne

Threads == Workers \cup Sweepers \cup Closers

ASSUME ConstantsAssumption ==
    /\ NoSession \notin Sessions
    /\ NoThread \notin Threads
    /\ NoOne \notin Principals
    /\ Workers \cap Sweepers = {}
    /\ Workers \cap Closers = {}
    /\ Sweepers \cap Closers = {}

VARIABLES
    entries,       \* ids in entries_
    sealedFor,     \* principal a session's token is sealed for; NoOne: not opened yet
    issued,        \* ids whose token has left the worker in a response
    wallExpired,   \* ids whose token is past its sealed wall-clock expiry
    steadyExpired, \* ids whose entry is past its steady-clock expiry
    draining,      \* draining_
    mutex,         \* owner of each entry's dispatch_mutex
    hooks,         \* times SessionState::close() has been called on a session
    pc,            \* where each thread stands
    op,            \* the registry operation it is in
    cur,           \* the entry that operation holds a shared_ptr to
    todo,          \* entries sweep() or shutdown() has yet to visit
    who,           \* principal of the thread's request
    resumed,       \* resumed_token of the request
    held,          \* session whose dispatch lock the request took with it
    resolved,      \* StickySlot::resolved
    minted,        \* StickySlot::minted_token
    closed,        \* StickySlot::closed
    mayOpen        \* StickySlot: client_accepts and not draining, as read at start

registryVars == <<entries, sealedFor, issued, hooks, mutex>>
clockVars    == <<wallExpired, steadyExpired, draining>>
threadVars   == <<pc, op, cur, todo>>
requestVars  == <<who, resumed, held, resolved, minted, closed, mayOpen>>
vars == <<registryVars, clockVars, threadVars, requestVars>>

Steps == {"idle", "find", "visit", "lock", "recheck", "hook", "handler"}
Ops   == {"none", "resolve", "closeSession", "delete", "sweep", "shutdown"}

TypeOK ==
    /\ entries \subseteq Sessions
    /\ sealedFor \in [Sessions -> Principals \cup {NoOne}]
    /\ issued \subseteq Sessions
    /\ wallExpired \subseteq Sessions
    /\ steadyExpired \subseteq Sessions
    /\ draining \in BOOLEAN
    /\ mutex \in [Sessions -> Threads \cup {NoThread}]
    /\ hooks \in [Sessions -> Nat]
    /\ pc \in [Threads -> Steps]
    /\ op \in [Threads -> Ops]
    /\ cur \in [Threads -> Sessions \cup {NoSession}]
    /\ todo \in [Threads -> SUBSET Sessions]
    /\ who \in [Threads -> Principals \cup {NoOne}]
    /\ resumed \in [Threads -> Sessions \cup {NoSession}]
    /\ held \in [Threads -> Sessions \cup {NoSession}]
    /\ resolved \in [Threads -> Sessions \cup {NoSession}]
    /\ minted \in [Threads -> Sessions \cup {NoSession}]
    /\ closed \in [Threads -> BOOLEAN]
    /\ mayOpen \in [Threads -> BOOLEAN]

Init ==
    /\ entries = {}
    /\ sealedFor = [s \in Sessions |-> NoOne]
    /\ issued = {}
    /\ wallExpired = {}
    /\ steadyExpired = {}
    /\ draining = FALSE
    /\ mutex = [s \in Sessions |-> NoThread]
    /\ hooks = [s \in Sessions |-> 0]
    /\ pc = [t \in Threads |-> "idle"]
    /\ op = [t \in Threads |-> "none"]
    /\ cur = [t \in Threads |-> NoSession]
    /\ todo = [t \in Threads |-> {}]
    /\ who = [t \in Threads |-> NoOne]
    /\ resumed = [t \in Threads |-> NoSession]
    /\ held = [t \in Threads |-> NoSession]
    /\ resolved = [t \in Threads |-> NoSession]
    /\ minted = [t \in Threads |-> NoSession]
    /\ closed = [t \in Threads |-> FALSE]
    /\ mayOpen = [t \in Threads |-> FALSE]

-----------------------------------------------------------------------------
(* Helpers. *)

(* A token opened without its associated data binding it to an identity.   *)
Bug_UnsealsForAnyone(token, principal) ==
    /\ token # NoSession
    /\ sealedFor[token] # NoOne
    /\ token \notin wallExpired

(* unseal(): the AEAD opens only under the principal the token was sealed  *)
(* for, and the sealed expiry is compared with the wall clock.  A token of *)
(* another worker fails the server_id comparison; like a garbled one it is *)
(* refused without touching the registry, so no such token is enumerated.  *)
Unseals(token, principal) ==
    /\ token # NoSession
    /\ sealedFor[token] = principal
    /\ token \notin wallExpired

(* An operation that ends drops its unique_lock.  The mutex is recursive:  *)
(* a close() nested in a request that holds the lock leaves it held.       *)
Unlock(t) ==
    mutex' = [mutex EXCEPT ![cur[t]] = IF held[t] = cur[t] THEN t ELSE NoThread]

(* Where a finished registry operation returns to.  CallContext's          *)
(* close_session ignores what close() returned, marks the slot closed and  *)
(* drops the resolved state; a failed resolve() ends the request with      *)
(* "session lost"; sweep() and shutdown() go on to their next entry.       *)
Return(t) ==
    /\ pc' = [pc EXCEPT ![t] = CASE op[t] = "closeSession" -> "handler"
                                 [] op[t] \in {"sweep", "shutdown"} -> "visit"
                                 [] OTHER -> "idle"]
    /\ op' = [op EXCEPT ![t] = IF @ \in {"sweep", "shutdown"} THEN @ ELSE "none"]
    /\ cur' = [cur EXCEPT ![t] = NoSession]
    /\ closed' = [closed EXCEPT ![t] = op[t] = "closeSession"]
    /\ resolved' = [resolved EXCEPT ![t] = NoSession]
    /\ who' = [who EXCEPT ![t] = IF op[t] = "closeSession" THEN @ ELSE NoOne]
    /\ resumed' = [resumed EXCEPT ![t] = IF op[t] = "closeSession" THEN @ ELSE NoSession]
    /\ mayOpen' = [mayOpen EXCEPT ![t] = IF op[t] = "closeSession" THEN @ ELSE FALSE]
    /\ UNCHANGED <<held, minted, todo>>

-----------------------------------------------------------------------------
(* Clocks and the drain flag. *)

WallClockMoves(s) ==
    /\ sealedFor[s] # NoOne
    /\ wallExpired' = IF s \in wallExpired THEN wallExpired \ {s} ELSE wallExpired \cup {s}
    /\ UNCHANGED <<registryVars, steadyExpired, draining, threadVars, requestVars>>

SteadyClockPasses(s) ==
    /\ sealedFor[s] # NoOne
    /\ s \notin steadyExpired
    /\ steadyExpired' = steadyExpired \cup {s}
    /\ UNCHANGED <<registryVars, wallExpired, draining, threadVars, requestVars>>

(* drain() and undrain(), as POST and DELETE /__test_drain__ call them. *)
SetDraining(flag) ==
    /\ draining # flag
    /\ draining' = flag
    /\ UNCHANGED <<registryVars, wallExpired, steadyExpired, threadVars, requestVars>>

-----------------------------------------------------------------------------
(* Entry points. *)

(* handle_rpc up to the handler: the drain flag is copied into the slot,   *)
(* then a presented token is unsealed.  A token that does not unseal       *)
(* answers "session lost" and changes nothing.                             *)
BeginRequest(t, principal, token, accepts) ==
    /\ pc[t] = "idle"
    /\ token \in issued \cup {NoSession}
    /\ token = NoSession \/ Unseals(token, principal)
    /\ who' = [who EXCEPT ![t] = principal]
    /\ resumed' = [resumed EXCEPT ![t] = token]
    /\ mayOpen' = [mayOpen EXCEPT ![t] = accepts /\ ~draining]
    /\ pc' = [pc EXCEPT ![t] = IF token = NoSession THEN "handler" ELSE "find"]
    /\ op' = [op EXCEPT ![t] = IF token = NoSession THEN "none" ELSE "resolve"]
    /\ cur' = [cur EXCEPT ![t] = token]
    /\ UNCHANGED <<registryVars, clockVars, todo, held, resolved, minted, closed>>

(* handle_session_delete: close(token, aad) outside any request. *)
BeginDelete(t, principal, token) ==
    /\ pc[t] = "idle"
    /\ token \in issued
    /\ Unseals(token, principal)
    /\ pc' = [pc EXCEPT ![t] = "find"]
    /\ op' = [op EXCEPT ![t] = "delete"]
    /\ cur' = [cur EXCEPT ![t] = token]
    /\ UNCHANGED <<registryVars, clockVars, todo, requestVars>>

(* sweep() collects its candidates under the registry mutex. *)
BeginSweep(t) ==
    /\ pc[t] = "idle"
    /\ entries \cap steadyExpired # {}
    /\ todo' = [todo EXCEPT ![t] = entries \cap steadyExpired]
    /\ pc' = [pc EXCEPT ![t] = "visit"]
    /\ op' = [op EXCEPT ![t] = "sweep"]
    /\ UNCHANGED <<registryVars, clockVars, cur, requestVars>>

(* shutdown() takes every entry out of the registry first. *)
BeginShutdown(t) ==
    /\ pc[t] = "idle"
    /\ entries # {}
    /\ todo' = [todo EXCEPT ![t] = entries]
    /\ entries' = {}
    /\ pc' = [pc EXCEPT ![t] = "visit"]
    /\ op' = [op EXCEPT ![t] = "shutdown"]
    /\ UNCHANGED <<sealedFor, issued, hooks, mutex, clockVars, cur, requestVars>>

-----------------------------------------------------------------------------
(* The body of resolve, close, sweep and shutdown. *)

(* The next entry of a sweep or a shutdown, in the map's arbitrary order. *)
Visit(t, s) ==
    /\ pc[t] = "visit"
    /\ s \in todo[t]
    /\ todo' = [todo EXCEPT ![t] = @ \ {s}]
    /\ cur' = [cur EXCEPT ![t] = s]
    /\ pc' = [pc EXCEPT ![t] = "lock"]
    /\ UNCHANGED <<registryVars, clockVars, op, requestVars>>

VisitDone(t) ==
    /\ pc[t] = "visit"
    /\ todo[t] = {}
    /\ pc' = [pc EXCEPT ![t] = "idle"]
    /\ op' = [op EXCEPT ![t] = "none"]
    /\ UNCHANGED <<registryVars, clockVars, cur, todo, requestVars>>

(* First look at entries_, under the registry mutex. *)
Find(t) ==
    /\ pc[t] = "find"
    /\ cur[t] \in entries
    /\ pc' = [pc EXCEPT ![t] = "lock"]
    /\ UNCHANGED <<registryVars, clockVars, op, cur, todo, requestVars>>

FindMissing(t) ==
    /\ pc[t] = "find"
    /\ cur[t] \notin entries
    /\ Return(t)
    /\ UNCHANGED <<registryVars, clockVars>>

(* shutdown() running the close hooks without the dispatch mutex. *)
Bug_ShutdownTakesNoLock(t) ==
    /\ pc[t] = "lock"
    /\ op[t] = "shutdown" \/ mutex[cur[t]] \in {NoThread, t}
    /\ mutex' = [mutex EXCEPT ![cur[t]] = IF op[t] = "shutdown" THEN @ ELSE t]
    /\ pc' = [pc EXCEPT ![t] = IF op[t] = "shutdown" THEN "hook" ELSE "recheck"]
    /\ UNCHANGED <<entries, sealedFor, issued, hooks, clockVars, op, cur, todo, requestVars>>

(* Waiting for, and taking, the entry's dispatch mutex. *)
Acquire(t) ==
    /\ pc[t] = "lock"
    /\ mutex[cur[t]] \in {NoThread, t}
    /\ mutex' = [mutex EXCEPT ![cur[t]] = t]
    /\ pc' = [pc EXCEPT ![t] = IF op[t] = "shutdown" THEN "hook" ELSE "recheck"]
    /\ UNCHANGED <<entries, sealedFor, issued, hooks, clockVars, op, cur, todo, requestVars>>

(* Second look, with the dispatch mutex held: does the operation still     *)
(* want this entry?                                                        *)
StillThere(t) == cur[t] \in entries

(* The entry is not looked up again after the wait for its mutex. *)
Bug_RemovesWithoutRecheck(t) ==
    op[t] \in {"resolve", "sweep"} => cur[t] \in steadyExpired

(* sweep() collects by the steady clock and rechecks by the wall clock. *)
Bug_RemovesByWallClock(t) ==
    /\ StillThere(t)
    /\ op[t] \in {"resolve", "sweep"} => cur[t] \in wallExpired

Removes(t) ==
    /\ StillThere(t)
    /\ op[t] \in {"resolve", "sweep"} => cur[t] \in steadyExpired

(* An evicted entry is dropped and its close hook forgotten. *)
Bug_EraseWithoutHook(t) ==
    /\ pc[t] = "recheck"
    /\ Removes(t)
    /\ entries' = entries \ {cur[t]}
    /\ Unlock(t)
    /\ Return(t)
    /\ UNCHANGED <<sealedFor, issued, hooks, clockVars>>

Erase(t) ==
    /\ pc[t] = "recheck"
    /\ Removes(t)
    /\ entries' = entries \ {cur[t]}
    /\ pc' = [pc EXCEPT ![t] = "hook"]
    /\ UNCHANGED <<sealedFor, issued, hooks, mutex, clockVars, op, cur, todo, requestVars>>

(* resolve() without moving its lock out to the caller. *)
Bug_ResolveDropsLock(t) ==
    /\ pc[t] = "recheck"
    /\ op[t] = "resolve"
    /\ StillThere(t) /\ ~Removes(t)
    /\ mutex' = [mutex EXCEPT ![cur[t]] = NoThread]
    /\ resolved' = [resolved EXCEPT ![t] = cur[t]]
    /\ pc' = [pc EXCEPT ![t] = "handler"]
    /\ op' = [op EXCEPT ![t] = "none"]
    /\ cur' = [cur EXCEPT ![t] = NoSession]
    /\ UNCHANGED <<entries, sealedFor, issued, hooks, clockVars, todo,
                   who, resumed, held, minted, closed, mayOpen>>

ResolveOK(t) ==
    /\ pc[t] = "recheck"
    /\ op[t] = "resolve"
    /\ StillThere(t) /\ ~Removes(t)
    /\ held' = [held EXCEPT ![t] = cur[t]]
    /\ resolved' = [resolved EXCEPT ![t] = cur[t]]
    /\ pc' = [pc EXCEPT ![t] = "handler"]
    /\ op' = [op EXCEPT ![t] = "none"]
    /\ cur' = [cur EXCEPT ![t] = NoSession]
    /\ UNCHANGED <<registryVars, clockVars, todo, who, resumed, minted, closed, mayOpen>>

RecheckFails(t) ==
    /\ pc[t] = "recheck"
    /\ ~Removes(t)
    /\ op[t] = "resolve" => ~StillThere(t)
    /\ Unlock(t)
    /\ Return(t)
    /\ UNCHANGED <<entries, sealedFor, issued, hooks, clockVars>>

(* SessionState::close() runs under the dispatch mutex and returns. *)
HookReturns(t) ==
    /\ pc[t] = "hook"
    /\ hooks' = [hooks EXCEPT ![cur[t]] = @ + 1]
    /\ Unlock(t)
    /\ Return(t)
    /\ UNCHANGED <<entries, sealedFor, issued, clockVars>>

-----------------------------------------------------------------------------
(* What a method handler may do with the sticky machinery. *)

(* CallContext::open_session; its refusals throw and change nothing. *)
HandlerOpen(t, s) ==
    /\ pc[t] = "handler"
    /\ mayOpen[t]
    /\ resolved[t] = NoSession /\ minted[t] = NoSession
    /\ sealedFor[s] = NoOne
    /\ entries' = entries \cup {s}
    /\ sealedFor' = [sealedFor EXCEPT ![s] = who[t]]
    /\ minted' = [minted EXCEPT ![t] = s]
    /\ UNCHANGED <<issued, hooks, mutex, clockVars, threadVars,
                   who, resumed, held, resolved, closed, mayOpen>>

(* CallContext::close_session: sticky.close() closes resumed_token, the    *)
(* token the request arrived with, whether or not one was minted since.    *)
HandlerClose(t) ==
    /\ pc[t] = "handler"
    /\ ~closed[t]
    /\ Unseals(resumed[t], who[t])
    /\ pc' = [pc EXCEPT ![t] = "find"]
    /\ op' = [op EXCEPT ![t] = "closeSession"]
    /\ cur' = [cur EXCEPT ![t] = resumed[t]]
    /\ UNCHANGED <<registryVars, clockVars, todo, requestVars>>

HandlerCloseRefused(t) ==
    /\ pc[t] = "handler"
    /\ ~closed[t]
    /\ ~Unseals(resumed[t], who[t])
    /\ closed' = [closed EXCEPT ![t] = TRUE]
    /\ resolved' = [resolved EXCEPT ![t] = NoSession]
    /\ UNCHANGED <<registryVars, clockVars, threadVars, who, resumed, held, minted, mayOpen>>

(* The response leaves: apply_sticky sends a minted token, and the         *)
(* request's dispatch lock goes out of scope.                              *)
EndRequest(t) ==
    /\ pc[t] = "handler"
    /\ issued' = issued \cup ({minted[t]} \ {NoSession})
    /\ mutex' = [s \in Sessions |-> IF held[t] = s THEN NoThread ELSE mutex[s]]
    /\ pc' = [pc EXCEPT ![t] = "idle"]
    /\ who' = [who EXCEPT ![t] = NoOne]
    /\ resumed' = [resumed EXCEPT ![t] = NoSession]
    /\ held' = [held EXCEPT ![t] = NoSession]
    /\ resolved' = [resolved EXCEPT ![t] = NoSession]
    /\ minted' = [minted EXCEPT ![t] = NoSession]
    /\ closed' = [closed EXCEPT ![t] = FALSE]
    /\ mayOpen' = [mayOpen EXCEPT ![t] = FALSE]
    /\ UNCHANGED <<entries, sealedFor, hooks, clockVars, op, cur, todo>>

-----------------------------------------------------------------------------
(* Steps a thread takes by itself once an operation has started. *)
Progress(t) ==
    \/ \E s \in Sessions : Visit(t, s)
    \/ VisitDone(t)
    \/ Find(t) \/ FindMissing(t)
    \/ Acquire(t)
    \/ Erase(t) \/ ResolveOK(t) \/ RecheckFails(t)
    \/ HookReturns(t)

WorkerStep(t) ==
    \/ \E p \in Principals, k \in Sessions \cup {NoSession}, a \in BOOLEAN :
          BeginRequest(t, p, k, a)
    \/ \E p \in Principals, k \in Sessions : BeginDelete(t, p, k)
    \/ \E s \in Sessions : HandlerOpen(t, s)
    \/ HandlerClose(t) \/ HandlerCloseRefused(t)
    \/ EndRequest(t)

Environment ==
    \/ \E s \in Sessions : WallClockMoves(s) \/ SteadyClockPasses(s)
    \/ \E flag \in BOOLEAN : SetDraining(flag)

Next ==
    \/ Environment
    \/ \E t \in Threads : Progress(t)
    \/ \E t \in Workers : WorkerStep(t)
    \/ \E t \in Sweepers : BeginSweep(t)
    \/ \E t \in Closers : BeginShutdown(t)

Spec == Init /\ [][Next]_vars

(* An unblocked thread runs, handlers and close hooks return, and a thread *)
(* that sweeps does so again and again.                                    *)
Fairness ==
    /\ \A t \in Threads : WF_vars(Progress(t))
    /\ \A t \in Workers : WF_vars(EndRequest(t))
    /\ \A t \in Sweepers : WF_vars(BeginSweep(t))

FairSpec == Spec /\ Fairness

-----------------------------------------------------------------------------
(* Properties. *)

(* However explicit close, TTL eviction, sweep and shutdown race, the      *)
(* close hook of a session's state runs at most once: the second look at   *)
(* entries_ under the dispatch mutex decides a single winner.              *)
HookAtMostOnce == \A s \in Sessions : hooks[s] <= 1

(* The close hook of a session never runs while another thread's handler   *)
(* is using the session's state.                                           *)
HookExcludesHandlers ==
    \A t, u \in Threads :
        pc[t] = "hook" /\ resolved[u] = cur[t] => u = t

(* Concurrent requests on one session are serialized.                      *)
DispatchSerialized ==
    \A t, u \in Threads :
        resolved[t] # NoSession /\ resolved[t] = resolved[u] => t = u

(* A handler is only ever given a session opened under its own identity,   *)
(* and one whose close hook has not been run by anybody.                   *)
ResolvedIsOwnAndOpen ==
    \A t \in Threads :
        resolved[t] # NoSession /\ pc[t] = "handler" =>
            /\ sealedFor[resolved[t]] = who[t]
            /\ hooks[resolved[t]] = 0

(* A session that has left the registry has its close hook run in the end, *)
(* even if the thread that removed it had to wait for a running handler.   *)
RemovedIsClosed ==
    \A s \in Sessions :
        (sealedFor[s] # NoOne /\ s \notin entries) ~> (hooks[s] = 1)

(* TTL eviction: an entry past its TTL is eventually removed and closed.   *)
ExpiredIsClosed ==
    \A s \in Sessions : (s \in steadyExpired) ~> (hooks[s] = 1)
=============================================================================
