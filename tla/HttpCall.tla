------------------------------ MODULE HttpCall ------------------------------
(***************************************************************************)
(* One HttpClient shared by several threads, and one sticky view of it     *)
(* (src/src/http_client.cpp), calling unary methods of a server that       *)
(* refuses, dispatches, restarts or goes silent.                           *)
(*                                                                         *)
(* The client has two locks, always taken in the order session, client:    *)
(* slock (HttpStickySessionState::mutex) orders the calls of the view and  *)
(* travels with the response until its token is committed; clock           *)
(* (HttpClientState::mutex) covers the connection and the capabilities     *)
(* learnt from the server.  post() wraps post_inline(), which may run      *)
(* three times for one call: for the method, for an upload URL, and again  *)
(* for the method with a pointer in place of its body.                     *)
(*                                                                         *)
(* The server is src/src/http_transport.cpp reduced to what the client can *)
(* tell apart: what is refused before dispatch, and what a dispatch does   *)
(* to the sticky session.                                                  *)
(***************************************************************************)
EXTENDS Naturals, Sequences, FiniteSets, Transfer

CONSTANTS
    Threads,       \* callers of the client
    Nobody,        \* the holder of a free lock
    MaxCalls,      \* bound: calls one thread makes
    MaxAttempts,   \* RetryPolicy::max_attempts
    MaxTokens,     \* bound: sessions the server opens
    MaxRestarts,   \* bound: restarts of the server with other limits
    Profiles,      \* limits the server is started with
    External,      \* external URLs are configured (external_http != nullptr)
    Calls          \* the calls each thread may make: idempotent or not, with a
                   \* body above the small limit or not, of the view or not

ASSUME HttpCallAssumption ==
    /\ Nobody \notin Threads
    /\ MaxCalls \in Nat /\ MaxTokens \in Nat /\ MaxRestarts \in Nat
    /\ MaxAttempts \in Nat \ {0}
    /\ External \in BOOLEAN 
    /\ Calls \in [Threads -> SUBSET [idem : BOOLEAN, big : BOOLEAN, sticky : BOOLEAN]]
    /\ Profiles \subseteq [small : BOOLEAN, zstd : BOOLEAN, uploads : BOOLEAN]

VARIABLES
    pc,      \* where each thread is in post(), capabilities() or post_inline()
    call,    \* the call each thread is making
    wire,    \* the exchange each thread waits on: request, answer or loss
    slock,   \* who holds the mutex of the view
    clock,   \* who holds the mutex of the client
    view,    \* the view: token and locally_closed
    caps,    \* capabilities learnt from the server
    srv,     \* the server: limits, live sessions, tokens minted, restarts
    made,    \* calls each thread has begun
    runs,    \* dispatches of the method of each thread's current call
    ended,   \* how each thread's last call ended
    closer,  \* HttpSessionView::close(): where it is, and the token it deletes
    given,   \* what detach() returned to the caller
    late     \* requests of methods that nobody waits for any more and that the
             \* server may still get

vars == <<pc, call, wire, slock, clock, view, caps, srv, made, runs,
          ended, closer, given, late>>

NoToken == 0
Tokens == 1..MaxTokens

\* The batches a unary answer of this server is made of.
Batches == {"log", "data", "exception", "location", "cursor", "shm", "state"}

\* decode_response() for a unary answer: batches are taken in order, logs are
\* handed to on_log, the first batch that may not appear decides, and exactly
\* one data batch is the result.  A location has been resolved before.
DecodeResponse(body, rpcError, status) ==
    LET bad == {i \in DOMAIN body : body[i] \notin {"log", "data"}}
        first == CHOOSE i \in bad : \A j \in bad : i <= j
        data == {i \in DOMAIN body : body[i] = "data"}
    IN  IF bad # {} THEN IF body[first] = "exception" THEN "remote" ELSE "malformed"
        ELSE IF rpcError \/ status # 200 \/ Cardinality(data) # 1 THEN "malformed"
        ELSE "result"

\* resolve_pointer(): the fetched stream replaces the pointer batch, or the
\* fetch fails and the answer is a protocol error.  Without external URLs a
\* pointer is refused.
Resolutions(body) ==
    IF \A i \in DOMAIN body : body[i] # "location" THEN {body}
    ELSE {body} \cup
         (IF External THEN {[i \in DOMAIN body |->
                               IF body[i] = "location" THEN "data" ELSE body[i]]}
          ELSE {})

\* What the server's configuration advertises on every answer: whether bodies
\* above the small limit are refused, zstd, and upload URLs.
Limits == [small : BOOLEAN, zstd : BOOLEAN, uploads : BOOLEAN]

Request == [kind : {"options", "method", "url"}, token : {NoToken} \cup Tokens,
            zstd : BOOLEAN, big : BOOLEAN]

\* Statuses: 200 with a body, 401, 413, 415, 503 and an Arrow-framed 400/404.
Answer == [kind : {"answer"}, status : {200, 401, 404, 413, 415, 503},
           body : Seq(Batches), token : {NoToken} \cup Tokens,
           closes : BOOLEAN, limits : Limits]

Idle == [kind |-> "idle"]

\* The two ways an exchange fails that the client tells apart.
Lost == [kind |-> "failed", again |-> TRUE]
Failed == [kind |-> "failed", again |-> FALSE]

\* The loop of send(): what a transfer that was not delivered asks of it.  A
\* call whose deadline has passed is not tried again.
Failures ==
    {IF Retryable(Outcome(x)) /\ ~x.late THEN Lost ELSE Failed :
       x \in {y \in Transfers : Outcome(y) # "delivered"}}

\* The status of an answer, 0 when there is none.
StatusOf(m) == IF m.kind = "answer" THEN m.status ELSE 0

\* contains_status(), and failures worth another attempt.
WorthRetrying(m) == IF m.kind = "answer" THEN m.status = 503 ELSE m.again

NoCall == [idem |-> FALSE, big |-> FALSE, sticky |-> FALSE, ret |-> "post",
           what |-> "method", pointer |-> FALSE, ext |-> FALSE,
           attempt |-> 1, zstd |-> FALSE]

TypeOK ==
    /\ pc \in [Threads -> {"idle", "caps", "capsClient", "options", "decide",
                           "ext", "session", "client", "wait", "returned", "put"}]
    /\ slock \in Threads \cup {Nobody} /\ clock \in Threads \cup {Nobody}
    /\ view.token \in {NoToken} \cup Tokens /\ view.closed \in BOOLEAN
    /\ srv.live \subseteq Tokens
    /\ runs \in [Threads -> 0..(2 * MaxAttempts)]
    /\ \A l \in late : l.by \in Threads /\ l.nth \in 1..made[l.by]

Init ==
    /\ pc = [t \in Threads |-> "idle"]
    /\ call = [t \in Threads |-> NoCall]
    /\ wire = [t \in Threads |-> Idle]
    /\ slock = Nobody /\ clock = Nobody
    /\ view = [token |-> NoToken, closed |-> FALSE]
    /\ caps = [fetched |-> FALSE, small |-> FALSE, zstd |-> TRUE, uploads |-> FALSE]
    /\ \E l \in Profiles : srv = [limits |-> l, live |-> {}, minted |-> 0, restarts |-> 0]
    /\ made = [t \in Threads |-> 0]
    /\ runs = [t \in Threads |-> 0]
    /\ ended = [t \in Threads |-> "none"]
    /\ closer = [at |-> "open", token |-> NoToken]
    /\ given = NoToken
    /\ late = {}
-----------------------------------------------------------------------------
\* The locks.  Without a deadline the session lock is taken blocking, with one
\* it is tried every 10 ms: either way the thread waits until it is free.
Release(t) ==
    /\ slock' = IF slock = t THEN Nobody ELSE slock
    /\ clock' = IF clock = t THEN Nobody ELSE clock

\* The call returns or throws: the locks it holds are released by their guards.
End(t, how) ==
    /\ pc' = [pc EXCEPT ![t] = "idle"]
    /\ wire' = [wire EXCEPT ![t] = Idle]
    /\ ended' = [ended EXCEPT ![t] = how]
    /\ call' = [call EXCEPT ![t] = [NoCall EXCEPT !.idem = call[t].idem]]
    /\ Release(t)
    /\ UNCHANGED <<runs, made>>

Goto(t, where) == pc' = [pc EXCEPT ![t] = where]

\* HttpClient::call(): the request is encoded and post() asks for the
\* capabilities before it looks at the size of the body.
Begin(t, c) ==
    /\ pc[t] = "idle" /\ made[t] < MaxCalls
    /\ Goto(t, "caps")
    /\ call' = [call EXCEPT ![t] = [NoCall EXCEPT !.idem = c.idem, !.big = c.big,
                                                  !.sticky = c.sticky]]
    /\ made' = [made EXCEPT ![t] = @ + 1]
    /\ runs' = [runs EXCEPT ![t] = 0]
    /\ ended' = [ended EXCEPT ![t] = "none"]
    /\ UNCHANGED <<wire, slock, clock, view, caps, srv, closer, given, late>>

\* capabilities(): the session lock first, and a closed view is refused.
CapsSession(t) ==
    /\ pc[t] = "caps"
    /\ IF ~call[t].sticky
       THEN Goto(t, "capsClient") /\ UNCHANGED <<wire, ended, made, slock, clock, call, runs>>
       ELSE /\ slock = Nobody
            /\ IF view.closed THEN End(t, "closed")
               ELSE /\ slock' = t
                    /\ Goto(t, "capsClient")
                    /\ UNCHANGED <<wire, ended, made, clock, call, runs>>
    /\ UNCHANGED <<view, caps, srv, closer, given, late>>

\* The request a thread puts on the wire; a call of the view carries its token.
RequestOf(t, kind) ==
    [kind |-> kind, token |-> IF call[t].sticky THEN view.token ELSE NoToken,
     zstd |-> kind # "options" /\ call[t].zstd,
     big |-> kind = "method" /\ call[t].big /\ ~call[t].pointer]

\* Where capabilities() returns to: post() decides how to send the body,
\* post_inline() goes on to its own locks.
AfterCaps(t) == IF call[t].ret = "post" THEN "decide" ELSE "session"

\* capabilities(), under both locks: the cached answer, or an OPTIONS request.
CapsClient(t) ==
    /\ pc[t] = "capsClient" /\ clock = Nobody
    /\ IF caps.fetched
       THEN Goto(t, AfterCaps(t)) /\ Release(t) /\ UNCHANGED <<wire, call>>
       ELSE /\ clock' = t
            /\ Goto(t, "options")
            /\ call' = [call EXCEPT ![t].attempt = 1]
            /\ wire' = [wire EXCEPT ![t] = RequestOf(t, "options")]
            /\ UNCHANGED slock
    /\ UNCHANGED <<view, caps, srv, made, runs, ended, closer, given, late>>

\* harvest_capabilities(): a header that is there replaces what was known.  A server
\* with neither a request limit nor storage sends none of the two, and what an
\* earlier one said stays; so does compression, once found unsupported.
Harvest(l) == [fetched |-> caps.fetched,
               small |-> IF l.small \/ l.uploads THEN l.small ELSE caps.small,
               zstd |-> caps.zstd /\ l.zstd,
               uploads |-> caps.uploads \/ l.uploads]

\* capabilities(): a loss or a retryable status is tried again whatever the
\* call's options; a 2xx answer fills the cache unless the view was closed.
CapsAnswer(t) ==
    /\ pc[t] = "options" /\ wire[t].kind \in {"answer", "failed"}
    /\ LET status == StatusOf(wire[t])
           ok == status = 200
           again == WorthRetrying(wire[t]) /\ call[t].attempt < MaxAttempts
       IN
       \/ /\ again
          /\ call' = [call EXCEPT ![t].attempt = @ + 1]
          /\ wire' = [wire EXCEPT ![t] = RequestOf(t, "options")]
          /\ UNCHANGED <<pc, slock, clock, caps, ended, made, runs>>
       \/ /\ ~ok /\ ~again
          /\ End(t, IF status = 0 THEN "transport" ELSE "refused")
          /\ UNCHANGED caps
       \/ /\ ok /\ call[t].sticky /\ view.closed
          /\ End(t, "closed")
          /\ UNCHANGED caps
       \/ /\ ok /\ ~(call[t].sticky /\ view.closed)
          /\ caps' = [Harvest(wire[t].limits) EXCEPT !.fetched = TRUE]
          /\ wire' = [wire EXCEPT ![t] = Idle]
          /\ Goto(t, AfterCaps(t))
          /\ Release(t)
          /\ UNCHANGED <<call, ended, made, runs>>
    /\ UNCHANGED <<view, srv, closer, given, late>>

\* post(): a body above the advertised limit is uploaded first if the server
\* gives upload URLs, otherwise it is sent as it is.
Decide(t) ==
    /\ pc[t] = "decide" /\ clock = Nobody
    /\ IF call[t].big /\ caps.small /\ External /\ caps.uploads
       THEN Goto(t, "ext") /\ UNCHANGED call
       ELSE Goto(t, "caps") /\ call' = [call EXCEPT ![t].ret = "inline"]
    /\ UNCHANGED <<wire, slock, clock, view, caps, srv, made, runs, ended,
                   closer, given, late>>

\* externalize_request() and request_upload_urls(): a control call of its own
\* through post_inline(), with the locks of an ordinary one.
Externalize(t) ==
    /\ pc[t] = "ext" /\ clock = Nobody
    /\ IF caps.uploads
       THEN /\ Goto(t, "caps")
            /\ call' = [call EXCEPT ![t].what = "url", ![t].ret = "inline",
                                    ![t].ext = TRUE]
            /\ UNCHANGED <<wire, ended, made, slock, clock, runs>>
       ELSE End(t, "refused")
    /\ UNCHANGED <<view, caps, srv, closer, given, late>>

\* post_inline(): the session lock; a closed view is refused.
InlineSession(t) ==
    /\ pc[t] = "session"
    /\ IF ~call[t].sticky
       THEN Goto(t, "client") /\ UNCHANGED <<wire, ended, made, slock, clock, call, runs>>
       ELSE /\ slock = Nobody
            /\ IF view.closed THEN End(t, "closed")
               ELSE /\ slock' = t
                    /\ Goto(t, "client")
                    /\ UNCHANGED <<wire, ended, made, clock, call, runs>>
    /\ UNCHANGED <<view, caps, srv, closer, given, late>>

\* post_inline(): the client lock, the limit known by now, the first send.
InlineClient(t) ==
    /\ pc[t] = "client" /\ clock = Nobody
    /\ IF call[t].what = "method" /\ call[t].big /\ ~call[t].pointer /\ caps.small
       THEN End(t, "refused")
       ELSE /\ clock' = t
            /\ Goto(t, "wait")
            /\ call' = [call EXCEPT ![t].attempt = 1, ![t].zstd = caps.zstd]
            /\ wire' = [wire EXCEPT ![t] =
                          [RequestOf(t, call[t].what) EXCEPT !.zstd = caps.zstd]]
            /\ UNCHANGED <<slock, made, runs, ended>>
    /\ UNCHANGED <<view, caps, srv, closer, given, late>>

\* Mutant: the retry loop forgets options.idempotent.
Bug_AlwaysRetries(t) == MaxAttempts

\* A send is repeated only for a call its caller declared idempotent.
Attempts(t) == IF call[t].idem THEN MaxAttempts ELSE 1

\* Mutant: the guard is still held when the upload URL is asked for.
Bug_LeavesGuard(t) == UNCHANGED slock

\* post(): the guard of the refused response is dropped before the control
\* call of externalize_request() takes the same lock.
DropGuard(t) == slock' = IF slock = t THEN Nobody ELSE slock

\* Mutant: post_inline() lets go of the session lock with the client lock.
Bug_DropsGuardEarly(t) ==
    /\ slock' = IF slock = t THEN Nobody ELSE slock
    /\ clock' = IF clock = t THEN Nobody ELSE clock

\* retain_session_lock(): the response leaves post_inline() with the session
\* lock, the client lock is released.
RetainGuard(t) ==
    /\ clock' = IF clock = t THEN Nobody ELSE clock
    /\ UNCHANGED slock

\* The two loops of post_inline() around send_once(): the next attempt, or the
\* first one without compression.
SendAgain(t, plain) ==
    LET next == IF plain THEN [call[t] EXCEPT !.attempt = 1, !.zstd = FALSE]
                ELSE [call[t] EXCEPT !.attempt = @ + 1]
    IN /\ call' = [call EXCEPT ![t] = next]
       /\ wire' = [wire EXCEPT ![t] = [RequestOf(t, next.what) EXCEPT !.zstd = next.zstd]]

\* post_inline(): what is done with an answer or a loss.
Receive(t) ==
    /\ pc[t] = "wait" /\ wire[t].kind \in {"answer", "failed"}
    /\ LET status == StatusOf(wire[t])
           answered == status # 0
           again == WorthRetrying(wire[t]) /\ call[t].attempt < Attempts(t)
           plain == status = 415 /\ call[t].zstd
       IN
       /\ caps' = IF answered
                  THEN [Harvest(wire[t].limits) EXCEPT
                          !.zstd = IF plain THEN FALSE ELSE @]
                  ELSE caps
       /\ \/ /\ again \/ plain
             /\ SendAgain(t, plain)
             /\ UNCHANGED <<pc, slock, clock, ended, made, runs>>
          \/ /\ ~again /\ ~plain /\ ~answered
             /\ End(t, "transport")
          \/ /\ ~again /\ ~plain /\ answered
             /\ status \in {401, 415, 503} \cup (IF External THEN {} ELSE {413})
             /\ End(t, "refused")
          \/ /\ ~again /\ ~plain /\ answered
             /\ status \in {200, 404} \cup (IF External THEN {413} ELSE {})
             /\ Goto(t, "returned")
             /\ RetainGuard(t)
             /\ UNCHANGED <<call, wire, ended, made, runs>>
    /\ UNCHANGED <<view, srv, closer, given, late>>

\* post(): a 413 is answered by uploading the body once.
TooLarge(t) ==
    /\ pc[t] = "returned" /\ wire[t].status = 413 /\ clock = Nobody
    /\ IF call[t].what = "method" /\ ~call[t].ext /\ caps.uploads
       THEN /\ DropGuard(t)
            /\ Goto(t, "ext")
            /\ wire' = [wire EXCEPT ![t] = Idle]
            /\ UNCHANGED <<clock, call, ended, made, runs>>
       ELSE End(t, "refused")
    /\ UNCHANGED <<view, caps, srv, closer, given, late>>

\* stage_sticky_response(): the token the view has once this answer commits.
Staged(t) == IF wire[t].token = NoToken THEN view.token ELSE wire[t].token

\* decode(): a view closed meanwhile commits nothing; a result or an exception
\* envelope commits the staged token; any other answer leaves it.
Decode(t) ==
    /\ pc[t] = "returned" /\ wire[t].status # 413
    /\ \E body \in Resolutions(wire[t].body) :
         LET how == DecodeResponse(body, FALSE, wire[t].status) IN
         \/ /\ call[t].sticky /\ view.closed
            /\ End(t, "closed")
            /\ UNCHANGED view
         \/ /\ ~(call[t].sticky /\ view.closed)
            /\ view' = IF call[t].sticky /\ how \in {"result", "remote"}
                       THEN [view EXCEPT !.token =
                               IF wire[t].closes THEN NoToken ELSE Staged(t)]
                       ELSE view
            /\ IF call[t].what = "url" /\ how = "result"
               THEN /\ Goto(t, "put")
                    /\ wire' = [wire EXCEPT ![t] = Idle]
                    /\ Release(t)
                    /\ UNCHANGED <<call, ended, made, runs>>
               ELSE End(t, IF call[t].what = "url" THEN "refused"
                           ELSE IF wire[t].status = 404 THEN "refused" ELSE how)
    /\ UNCHANGED <<caps, srv, closer, given, late>>

\* externalize_request(): the body goes to storage with no lock held, and the
\* method is called again with a pointer to it.
Put(t) ==
    /\ pc[t] = "put"
    /\ \/ /\ call' = [call EXCEPT ![t].what = "method", ![t].pointer = TRUE,
                                  ![t].ret = "inline"]
          /\ Goto(t, "caps")
          /\ UNCHANGED <<wire, ended, made, slock, clock, runs>>
       \/ End(t, "refused")
    /\ UNCHANGED <<view, caps, srv, closer, given, late>>

\* The client stops waiting for an exchange: a method's request is not called
\* back, it may be with the server or on its way.
Abandoned(t) ==
    IF wire[t].kind # "method" THEN {}
    ELSE {[req |-> wire[t], by |-> t, nth |-> made[t], attempt |-> call[t].attempt,
           idem |-> call[t].idem, sticky |-> call[t].sticky]}

\* A deadline or a stop token ends the wait for a lock or for an answer.
GiveUp(t) ==
    /\ pc[t] \in {"caps", "capsClient", "options", "session", "client", "wait"}
    /\ late' = late \cup Abandoned(t)
    /\ End(t, "transport")
    /\ UNCHANGED <<view, caps, srv, closer, given>>
-----------------------------------------------------------------------------
\* HttpSessionView::close() and detach().
CloseFlag ==
    /\ closer.at = "open" /\ ~view.closed
    /\ view' = [view EXCEPT !.closed = TRUE]
    /\ closer' = [closer EXCEPT !.at = "locking"]
    /\ UNCHANGED <<pc, call, wire, slock, clock, caps, srv, made, runs, ended, given, late>>

\* The lock came within 50 ms: the token is taken out of the view to be
\* deleted.  Otherwise the server's TTL is left to end the session.
CloseTake ==
    /\ closer.at = "locking"
    /\ \/ /\ slock = Nobody
          /\ closer' = [at |-> IF view.token = NoToken THEN "closed" ELSE "deleting",
                        token |-> view.token]
          /\ view' = [view EXCEPT !.token = NoToken]
       \/ /\ slock # Nobody
          /\ closer' = [closer EXCEPT !.at = "closed"]
          /\ UNCHANGED view
    /\ UNCHANGED <<pc, call, wire, slock, clock, caps, srv, made, runs, ended, given, late>>

\* delete_session_best_effort(): the DELETE reaches the server, or is lost, or
\* the client lock is not free within 50 ms.
CloseDelete ==
    /\ closer.at = "deleting"
    /\ closer' = [closer EXCEPT !.at = "closed"]
    /\ \/ clock = Nobody /\ srv' = [srv EXCEPT !.live = @ \ {closer.token}]
       \/ UNCHANGED srv
    /\ UNCHANGED <<pc, call, wire, slock, clock, view, caps, made, runs, ended, given, late>>

\* Mutant: detach() reads the token and leaves it in the view.
Bug_DetachCopies ==
    /\ slock = Nobody /\ given = NoToken /\ view.token # NoToken
    /\ given' = view.token
    /\ view' = [view EXCEPT !.closed = TRUE]
    /\ UNCHANGED <<pc, call, wire, slock, clock, caps, srv, made, runs, ended, closer, late>>

\* detach(): under the session lock the token is moved out and the view closed.
Detach ==
    /\ slock = Nobody /\ given = NoToken /\ view.token # NoToken
    /\ given' = view.token
    /\ view' = [token |-> NoToken, closed |-> TRUE]
    /\ UNCHANGED <<pc, call, wire, slock, clock, caps, srv, made, runs, ended, closer, late>>

-----------------------------------------------------------------------------
\* The server.
\* The answer of a status, stamped with the capabilities of this server.
AnswerOf(status, body, token, closes) ==
    [kind |-> "answer", status |-> status, body |-> body, token |-> token,
     closes |-> closes, limits |-> srv.limits]

\* The body is refused: an inline body above the limit, or an encoding this
\* server cannot read.  Nothing else is looked at.
MustRefuse(r) ==
    (IF r.big /\ srv.limits.small THEN {413} ELSE {})
    \cup (IF r.zstd /\ ~srv.limits.zstd THEN {415} ELSE {})

\* A request is refused before anything is dispatched.
Refuse(t) ==
    /\ wire[t].kind \in {"options", "method", "url"}
    /\ LET must == MustRefuse(wire[t])
           may == IF wire[t].kind = "options" THEN {503} ELSE {401, 404, 503}
       IN \E status \in IF must # {} THEN must ELSE may :
            wire' = [wire EXCEPT ![t] =
                       AnswerOf(status, IF status = 404 THEN <<"exception">> ELSE <<>>,
                                NoToken, FALSE)]
    /\ UNCHANGED <<pc, call, slock, clock, view, caps, srv, made, runs, ended,
                   closer, given, late>>

\* OPTIONS and __upload_url__ are answered without dispatching a method.
AnswerControl(t) ==
    /\ wire[t].kind \in {"options", "url"}
    /\ wire[t].kind = "url" => MustRefuse(wire[t]) = {}
    /\ wire[t].kind = "url" => srv.limits.uploads
    /\ wire' = [wire EXCEPT ![t] =
                  AnswerOf(200, IF wire[t].kind = "url" THEN <<"data">> ELSE <<>>,
                           NoToken, FALSE)]
    /\ UNCHANGED <<pc, call, slock, clock, view, caps, srv, made, runs, ended,
                   closer, given, late>>

\* A request with a session the server does not hold is answered
\* SessionLostError before dispatch.
SessionLost(t) ==
    /\ wire[t].kind = "method" /\ MustRefuse(wire[t]) = {}
    /\ wire[t].token # NoToken /\ wire[t].token \notin srv.live
    /\ wire' = [wire EXCEPT ![t] = AnswerOf(200, <<"exception">>, NoToken, FALSE)]
    /\ UNCHANGED <<pc, call, slock, clock, view, caps, srv, made, runs, ended,
                   closer, given, late>>

\* The answers a method of this server gives: logs, its result (a pointer when
\* it was externalized), or an exception.
MethodBodies == {<<"log", "data">>, <<"location">>, <<"log", "exception">>}

\* What a dispatched method may do to sticky sessions: nothing, open one, or
\* close the one it resumed.
Effects(r) ==
    {[live |-> srv.live, minted |-> srv.minted, token |-> NoToken, closes |-> FALSE]}
    \cup (IF srv.minted < MaxTokens
          THEN {[live |-> srv.live \cup {srv.minted + 1}, minted |-> srv.minted + 1,
                 token |-> srv.minted + 1, closes |-> FALSE]}
          ELSE {})
    \cup (IF r.token # NoToken
          THEN {[live |-> srv.live \ {r.token}, minted |-> srv.minted,
                 token |-> NoToken, closes |-> TRUE]}
          ELSE {})

\* A request for a method gets as far as the method.
Accepts(r) == MustRefuse(r) = {} /\ (r.token # NoToken => r.token \in srv.live)

\* The method is dispatched and its answer sent, or lost on the way.
Dispatch(t) ==
    /\ wire[t].kind = "method" /\ Accepts(wire[t])
    /\ \E e \in Effects(wire[t]) :
         /\ srv' = [srv EXCEPT !.live = e.live, !.minted = e.minted]
         /\ \E answer \in Failures \cup {AnswerOf(200, body, e.token, e.closes) :
                                            body \in MethodBodies} :
              wire' = [wire EXCEPT ![t] = answer]
    /\ runs' = [runs EXCEPT ![t] = @ + 1]
    /\ UNCHANGED <<pc, call, slock, clock, view, caps, made, ended, closer, given, late>>

\* The request does not arrive, or not before the client has failed, or its
\* answer (a refusal here) is one of the transfers that are not delivered.
Lose(t) ==
    /\ wire[t].kind \in {"options", "method", "url"}
    /\ \E failure \in Failures : wire' = [wire EXCEPT ![t] = failure]
    /\ late' = late \cup Abandoned(t)
    /\ UNCHANGED <<pc, call, slock, clock, view, caps, srv, made, runs, ended,
                   closer, given>>

\* The server dispatches a request its client no longer waits for; nobody reads
\* the answer.  One that never arrives, or is refused, stays where it is.
LateDispatch(l) ==
    /\ Accepts(l.req)
    /\ \E e \in Effects(l.req) : srv' = [srv EXCEPT !.live = e.live, !.minted = e.minted]
    /\ runs' = IF l.nth = made[l.by] THEN [runs EXCEPT ![l.by] = @ + 1] ELSE runs
    /\ late' = late \ {l}
    /\ UNCHANGED <<pc, call, wire, slock, clock, view, caps, made, ended, closer, given>>

\* A restart loses every session and may change what the server advertises.
Restart ==
    /\ srv.restarts < MaxRestarts
    /\ \E l \in Profiles : srv' = [srv EXCEPT !.limits = l, !.live = {}, !.restarts = @ + 1]
    /\ UNCHANGED <<pc, call, wire, slock, clock, view, caps, made, runs, ended,
                   closer, given, late>>
-----------------------------------------------------------------------------
Client(t) ==
    \/ CapsSession(t) \/ CapsClient(t) \/ CapsAnswer(t) \/ Decide(t) \/ Externalize(t)
    \/ InlineSession(t) \/ InlineClient(t) \/ Receive(t) \/ TooLarge(t) \/ Decode(t)
    \/ Put(t)

Server(t) == Refuse(t) \/ AnswerControl(t) \/ SessionLost(t) \/ Dispatch(t) \/ Lose(t)

Next ==
    \/ \E t \in Threads :
         \/ \E c \in Calls[t] : Begin(t, c)
         \/ Client(t) \/ Server(t) \/ GiveUp(t)
    \/ CloseFlag \/ CloseTake \/ CloseDelete \/ Detach
    \/ \E l \in late : LateDispatch(l)
    \/ Restart

Spec == Init /\ [][Next]_vars

\* A thread in a call keeps going, and a request is answered, lost or timed
\* out.  Each thread makes finitely many calls, so a lock is free in the end
\* however the mutex chooses among the threads that wait for it.
Fairness == \A t \in Threads : WF_vars(Client(t)) /\ WF_vars(Server(t))

FairSpec == Spec /\ Fairness
-----------------------------------------------------------------------------
(* Properties.                                                             *)

\* A call its caller did not declare idempotent runs at most once, whatever is
\* lost, delayed, refused, resent uncompressed, uploaded and sent again; it ran
\* if a result came back, and it did not run, and never will, if the client
\* reports a refusal (413, 415, 401, 404, 503 and the request limit), so a caller
\* may repeat it then.  An answer above the response limit is no refusal: the
\* method has run, and the call ends as one that got no answer.
ExactlyOnceOutcome ==
    \A t \in Threads :
      ~call[t].idem =>
        /\ runs[t] <= 1
        /\ pc[t] = "idle" /\ ended[t] = "result" => runs[t] = 1
        /\ pc[t] = "idle" /\ ended[t] = "refused" => runs[t] = 0

\* The call that sent a late request is its thread's last one and was not
\* declared idempotent.
LastCall(l) == ~l.idem /\ l.nth = made[l.by]

\* The caller was told that there was no answer, and so not whether the method
\* has run or will.
ToldNothing(t) == pc[t] = "idle" /\ ended[t] = "transport"

\* The request a call of the view waits on carries the token the view has now:
\* no other call, close() or detach() replaces it between the send and the
\* commit of the answer.  A request that was given up on may still reach a
\* session the view has left meanwhile; then its caller was told that there
\* was no answer, or had allowed it to be repeated.
InFlightTokenIsCurrent ==
    /\ \A t \in Threads :
         call[t].sticky /\ wire[t].kind = "method" => wire[t].token = view.token
    /\ \A l \in late :
         l.sticky /\ LastCall(l) /\ l.req.token # view.token => ToldNothing(l.by)

\* A session handed out by detach() is left alone by the view: a close() running
\* at the same time does not delete it, and no call that is waited for names
\* it.  A turn of it may still be under way only from a call that ended without
\* an answer or may be repeated.
DetachedIsForgotten ==
    given # NoToken =>
      /\ view.token # given
      /\ closer.token # given
      /\ \A t \in Threads : wire[t].kind = "method" => wire[t].token # given
      /\ \A l \in late : LastCall(l) /\ l.req.token = given => ToldNothing(l.by)

\* Every call ends: the two locks, the guard that travels with a response and
\* the calls made inside a call never wait on each other.
CallsEnd == \A t \in Threads : (pc[t] # "idle") ~> (pc[t] = "idle")
=============================================================================
