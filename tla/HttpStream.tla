----------------------------- MODULE HttpStream -----------------------------
(***************************************************************************)
(* Stream calls over HTTP.  The server (http_transport.cpp, the /init and  *)
(* /exchange halves of handle_rpc) keeps a live stream in streams_ between *)
(* the requests of one call, under the cursor it gave the client; requests *)
(* run on a thread each, and a dispatch mutex per stream orders them.  The *)
(* client (http_client.cpp: HttpStreamSession, HttpExchangeSession, post)  *)
(* echoes the cursor, may lose an answer after the server has acted on the *)
(* request, and may retry.                                                 *)
(*                                                                         *)
(* A stream's application state is its position: how many batches it has   *)
(* produced, or how many inputs it has taken.                              *)
(***************************************************************************)
EXTENDS Integers, Sequences, FiniteSets, Functions

CONSTANTS
    Sessions,      \* client session objects
    Principals,    \* identities a session may call under
    MaxRequests,   \* bound: HTTP requests sent
    MaxAttempts    \* retry_policy.max_attempts

ASSUME HttpStreamAssumption ==
    /\ MaxRequests \in Nat \ {0} /\ MaxAttempts \in Nat \ {0}
    /\ Principals # {} /\ Sessions # {}

(* A request is named by its number and a stream by the request that       *)
(* opened it, which stands for the 32 random digits of its cursor.         *)
Requests == 1..MaxRequests
NoCursor == 0

VARIABLES
    registry,  \* streams_: the cursors that resume something
    stream,    \* [kind, owner, pos, ended, inputs, cancels] of each stream opened
    lock,      \* dispatch_mutex: the request that holds it, or 0
    req,       \* the requests so far
    session    \* the client sessions

vars == <<registry, stream, lock, req, session>>

Idle == [pc |-> "new", kind |-> "producer", who |-> "nobody", cursor |-> NoCursor,
         pending |-> <<>>, finished |-> FALSE, closed |-> FALSE, got |-> <<>>,
         turn |-> 0, call |-> 0, tries |-> 0, tokens |-> {},
         lost |-> {},      \* history: the attempts given up before an answer was taken
         dropped |-> {}]   \* history: the batches the caller had the session discard
NoReply == [kind |-> "none", n |-> 0, cursor |-> NoCursor]
NewStream(kind, who, pos) ==
    [kind |-> kind, owner |-> who, pos |-> pos, ended |-> FALSE, inputs |-> {}, cancels |-> 0]

TypeOK ==
    /\ registry \subseteq DOMAIN stream
    /\ DOMAIN stream \subseteq Requests
    /\ \A s \in DOMAIN stream : /\ stream[s].kind \in {"producer", "exchange"}
                                /\ stream[s].owner \in Principals
                                /\ stream[s].pos \in 0..MaxRequests
                                /\ stream[s].cancels \in 0..1
    /\ lock \in [DOMAIN stream -> 0..MaxRequests]
    /\ Len(req) <= MaxRequests
    /\ \A r \in 1..Len(req) : req[r].pc \in {"sent", "found", "locked", "live", "acted", "replied", "dropped"}
    /\ \A c \in Sessions : session[c].pc \in {"new", "open", "calling"} /\ Len(session[c].pending) <= 1

Init ==
    /\ registry = {}
    /\ stream = <<>>
    /\ lock = <<>>
    /\ req = <<>>
    /\ session = [c \in Sessions |-> Idle]

-----------------------------------------------------------------------------
(* The server. *)
Reply(r, kind, n, cursor) ==
    req' = [req EXCEPT ![r].pc = "replied", ![r].reply = [kind |-> kind, n |-> n, cursor |-> cursor]]
(* fail(400): unknown or missing stream state token. *)
Refuse(r) == Reply(r, "gone", 0, NoCursor)
Extend(f, i, v) == [j \in DOMAIN f \cup {i} |-> IF j = i THEN v ELSE f[j]]

(* What process() did: a batch or nothing and more to come, a batch and    *)
(* the end, the end alone, or an error: it raised, or the answer turned    *)
(* out to be over the limits.  An exchange has no end of its own.          *)
ProducerOutcomes == {"batch", "silent", "last", "finish", "error"}
ExchangeOutcomes == {"batch", "silent", "error"}
Emits(outcome) == outcome \in {"batch", "last"}
Goes(outcome) == outcome \in {"batch", "silent"}

(* A stream is opened.  Nobody knows the cursor before the answer, so that *)
(* registering the stream, and erasing it when the answer turns out too    *)
(* large, are one step; a producer takes its first turn here.              *)
ServeInit(r) ==
    /\ req[r].pc = "sent" /\ req[r].op = "init"
    /\ \/ /\ Reply(r, "error", 0, NoCursor)      \* the factory raised
          /\ UNCHANGED <<registry, stream, lock>>
       \/ /\ req[r].kind = "exchange"
          /\ registry' = registry \cup {r}
          /\ stream' = Extend(stream, r, NewStream("exchange", req[r].who, 0))
          /\ lock' = Extend(lock, r, 0)
          /\ Reply(r, "data", 0, r)
       \/ /\ req[r].kind = "producer"
          /\ \E outcome \in ProducerOutcomes :
               LET n == IF Emits(outcome) THEN 1 ELSE 0 IN
               /\ registry' = IF Goes(outcome) THEN registry \cup {r} ELSE registry
               /\ stream' = Extend(stream, r, [NewStream("producer", req[r].who, n)
                                                 EXCEPT !.ended = ~Goes(outcome)])
               /\ lock' = Extend(lock, r, 0)
               /\ IF outcome = "error" THEN Reply(r, "error", 0, NoCursor)
                  ELSE Reply(r, "data", n, IF Goes(outcome) THEN r ELSE NoCursor)
    /\ UNCHANGED session

(* The continuation: streams_.find under the registry's lock ... *)
Lookup(r) ==
    /\ req[r].pc = "sent" /\ req[r].op # "init"
    /\ IF req[r].cursor \in registry
         THEN req' = [req EXCEPT ![r].pc = "found"]
         ELSE Refuse(r)
    /\ UNCHANGED <<registry, stream, lock, session>>

(* ... the dispatch mutex ... *)
Lock(r) ==
    /\ req[r].pc = "found" /\ lock[req[r].cursor] = 0
    /\ lock' = [lock EXCEPT ![req[r].cursor] = r]
    /\ req' = [req EXCEPT ![r].pc = "locked"]
    /\ UNCHANGED <<registry, stream, session>>

Unlock(r) == lock' = [lock EXCEPT ![req[r].cursor] = IF @ = r THEN 0 ELSE @]

(* The stream looked up before the wait is used after it. *)
Bug_NotRevalidated(r) ==
    /\ req[r].pc = "locked"
    /\ IF stream[req[r].cursor].owner = req[r].who
         THEN req' = [req EXCEPT ![r].pc = "live"] /\ UNCHANGED lock
         ELSE Refuse(r) /\ Unlock(r)
    /\ UNCHANGED <<registry, stream, session>>

(* The cursor alone resumes the stream. *)
Bug_AnyCallerResumes(r) ==
    /\ req[r].pc = "locked"
    /\ IF req[r].cursor \in registry
         THEN req' = [req EXCEPT ![r].pc = "live"] /\ UNCHANGED lock
         ELSE Refuse(r) /\ Unlock(r)
    /\ UNCHANGED <<registry, stream, session>>

(* ... the second look, and the identity the stream was opened under. *)
Revalidate(r) ==
    /\ req[r].pc = "locked"
    /\ IF req[r].cursor \in registry /\ stream[req[r].cursor].owner = req[r].who
         THEN req' = [req EXCEPT ![r].pc = "live"] /\ UNCHANGED lock
         ELSE Refuse(r) /\ Unlock(r)
    /\ UNCHANGED <<registry, stream, session>>

(* on_cancel(), or process(): the application's state has moved.  A turn   *)
(* that did not leave the stream running ends it.                          *)
Act(r) ==
    LET s == req[r].cursor IN
    /\ req[r].pc = "live"
    /\ IF req[r].op = "cancel"
         THEN /\ stream' = [stream EXCEPT ![s].cancels = @ + 1, ![s].ended = TRUE]
              /\ req' = [req EXCEPT ![r].pc = "acted", ![r].reply.kind = "end"]
         ELSE \E outcome \in IF stream[s].kind = "producer" THEN ProducerOutcomes ELSE ExchangeOutcomes :
              LET n == IF Emits(outcome) THEN stream[s].pos + 1 ELSE stream[s].pos IN
              /\ stream' = [stream EXCEPT ![s].pos = n, ![s].ended = ~Goes(outcome),
                                          ![s].inputs = @ \cup {<<r, req[r].input>>}]
              /\ req' = [req EXCEPT ![r].pc = "acted",
                           ![r].reply = [kind |-> IF outcome = "error" THEN "error" ELSE "data",
                                         n |-> IF Emits(outcome) THEN n ELSE 0,
                                         cursor |-> IF Goes(outcome) THEN s ELSE NoCursor]]
    /\ UNCHANGED <<registry, lock, session>>

(* The entry of an ended stream is erased before the answer goes out. *)
Conclude(r) ==
    /\ req[r].pc = "acted"
    /\ registry' = IF req[r].reply.cursor = NoCursor THEN registry \ {req[r].cursor} ELSE registry
    /\ req' = [req EXCEPT ![r].pc = "replied"]
    /\ Unlock(r)
    /\ UNCHANGED <<stream, session>>

-----------------------------------------------------------------------------
(* The client. *)
NextRequest == Len(req) + 1

Send(c, op, rec) ==
    /\ NextRequest <= MaxRequests
    /\ req' = Append(req, [pc |-> "sent", op |-> op, by |-> c, who |-> rec.who, kind |-> rec.kind,
                           cursor |-> rec.cursor, input |-> <<c, rec.turn>>, reply |-> NoReply])
    /\ session' = [session EXCEPT ![c] = [rec EXCEPT !.pc = "calling", !.call = NextRequest]]

(* open_producer(). *)
OpenProducer(c, who) ==
    /\ session[c].pc = "new"
    /\ Send(c, "init", [session[c] EXCEPT !.kind = "producer", !.who = who, !.tries = 1])
    /\ UNCHANGED <<registry, stream, lock>>

(* open_exchange(). *)
OpenExchange(c, who) ==
    /\ session[c].pc = "new"
    /\ Send(c, "init", [session[c] EXCEPT !.kind = "exchange", !.who = who, !.tries = 1])
    /\ UNCHANGED <<registry, stream, lock>>

(* resume_stream() of a token another session handed out. *)
Resume(c, who, cursor) ==
    /\ session[c].pc = "new"
    /\ session' = [session EXCEPT ![c].pc = "open", ![c].kind = "producer", ![c].who = who,
                                  ![c].cursor = cursor]
    /\ UNCHANGED <<registry, stream, lock, req>>

(* What is pending when the caller turns elsewhere is discarded. *)
Discard(s) == [s EXCEPT !.pending = <<>>, !.dropped = @ \cup Range(s.pending)]

(* seek_to_token(): a token holds the cursor of its stream, and the cursor *)
(* is the same at every position.                                          *)
Seek(c, cursor) ==
    /\ session[c].pc = "open" /\ session[c].kind = "producer" /\ ~session[c].closed
    /\ session' = [session EXCEPT ![c] = [Discard(session[c]) EXCEPT !.cursor = cursor, !.finished = FALSE]]
    /\ UNCHANGED <<registry, stream, lock, req>>

(* What was pending is returned and kept. *)
Bug_TickKeepsPending(c) ==
    LET s == session[c] IN
    /\ s.pc = "open" /\ s.kind = "producer" /\ ~s.closed /\ s.pending # <<>>
    /\ session' = [session EXCEPT ![c].got = Append(@, s.pending[1])]
    /\ UNCHANGED <<registry, stream, lock, req>>

(* tick(): what is pending first ...  next_with_token() adds the token.    *)
TickPending(c) ==
    LET s == session[c] IN
    /\ s.pc = "open" /\ s.kind = "producer" /\ ~s.closed /\ s.pending # <<>>
    /\ session' = [session EXCEPT ![c].pending = <<>>,
                     ![c].got = Append(@, s.pending[1]),
                     ![c].tokens = (@ \cup {s.cursor}) \ {NoCursor}]
    /\ UNCHANGED <<registry, stream, lock, req>>

(* ... then a continuation.  After a failed call the session is as usable  *)
(* as before it.                                                           *)
Tick(c) ==
    LET s == session[c] IN
    /\ s.pc = "open" /\ s.kind = "producer" /\ ~s.closed /\ s.pending = <<>>
    /\ ~s.finished /\ s.cursor # NoCursor
    /\ Send(c, "turn", [s EXCEPT !.turn = @ + 1, !.tries = 1])
    /\ UNCHANGED <<registry, stream, lock>>

(* exchange(): the session is closed until a complete answer reopens it.   *)
Exchange(c) ==
    LET s == session[c] IN
    /\ s.pc = "open" /\ s.kind = "exchange" /\ ~s.closed /\ ~s.finished
    /\ Send(c, "turn", [s EXCEPT !.turn = @ + 1, !.tries = 1, !.closed = TRUE])
    /\ UNCHANGED <<registry, stream, lock>>

(* HttpStreamSession::cancel() closes after its request, whatever came of  *)
(* it; without a cursor there is nothing to cancel.                        *)
Cancel(c) ==
    LET s == session[c] IN
    /\ s.pc = "open" /\ s.kind = "producer" /\ ~s.closed /\ ~s.finished /\ s.cursor # NoCursor
    /\ Send(c, "cancel", [Discard(s) EXCEPT !.closed = TRUE, !.tries = 1])
    /\ UNCHANGED <<registry, stream, lock>>

(* HttpExchangeSession::cancel() deactivates the session before its request. *)
CancelExchange(c) ==
    LET s == session[c] IN
    /\ s.pc = "open" /\ s.kind = "exchange" /\ ~s.closed /\ ~s.finished
    /\ Send(c, "cancel", [s EXCEPT !.closed = TRUE, !.tries = 1])
    /\ UNCHANGED <<registry, stream, lock>>

(* close(), and the destructor: local, nothing is sent. *)
Close(c) ==
    /\ session[c].pc = "open" /\ ~session[c].closed
    /\ session' = [session EXCEPT ![c] = [Discard(session[c]) EXCEPT !.closed = TRUE]]
    /\ UNCHANGED <<registry, stream, lock, req>>

(* The answer: data goes to pending, and no cursor means the end.  An      *)
(* error or a refusal is thrown to the caller.  An exchange turn answered  *)
(* without a batch leaves the session closed, whatever the cursor says.    *)
Receive(c) ==
    LET s == session[c]
        m == req[s.call].reply
        batch == IF m.n = 0 THEN <<>> ELSE <<[stream |-> IF req[s.call].op = "init" THEN s.call
                                                          ELSE req[s.call].cursor,
                                              n |-> m.n]>>
    IN
    /\ s.pc = "calling" /\ req[s.call].pc = "replied"
    /\ session' = [session EXCEPT ![c] =
         IF m.kind # "data" THEN [s EXCEPT !.pc = IF req[s.call].op = "init" THEN "new" ELSE "open"]
         ELSE IF s.kind = "producer"
           THEN [s EXCEPT !.pc = "open", !.pending = batch, !.cursor = m.cursor,
                          !.finished = m.cursor = NoCursor]
         ELSE IF req[s.call].op = "turn" /\ batch = <<>>
           THEN [s EXCEPT !.pc = "open", !.finished = TRUE]
           ELSE [s EXCEPT !.pc = "open", !.got = @ \o batch, !.cursor = m.cursor, !.closed = FALSE]]
    /\ UNCHANGED <<registry, stream, lock, req>>

(* An exchange turn is replayed like a producer's. *)
Bug_RetriesEverything(s) == s.tries < MaxAttempts

(* send(): only what is retryable and declared idempotent is replayed.     *)
(* The caller may declare an /init or a producer's turn so.                *)
MayRetry(s) ==
    /\ s.tries < MaxAttempts
    /\ req[s.call].op = "init" \/ (req[s.call].op = "turn" /\ s.kind = "producer")

(* The connection broke or the deadline passed, before the request reached *)
(* the server or after; the client does not know.                          *)
Fail(c) ==
    LET s == session[c] IN
    /\ s.pc = "calling"
    /\ \E dropped \in {TRUE, FALSE} :
         /\ dropped => req[s.call].pc = "sent"
         /\ LET reqs == IF dropped THEN [req EXCEPT ![s.call].pc = "dropped"] ELSE req IN
            \/ /\ MayRetry(s) /\ NextRequest <= MaxRequests
               /\ req' = Append(reqs, [req[s.call] EXCEPT !.pc = "sent", !.reply = NoReply])
               /\ session' = [session EXCEPT ![c].call = NextRequest, ![c].tries = @ + 1,
                                             ![c].lost = @ \cup {s.call}]
            \/ /\ req' = reqs
               /\ session' = [session EXCEPT ![c].pc = IF req[s.call].op = "init" THEN "new" ELSE "open",
                                             ![c].lost = @ \cup {s.call}]
    /\ UNCHANGED <<registry, stream, lock>>

-----------------------------------------------------------------------------
Serve(r) == ServeInit(r) \/ Lookup(r) \/ Lock(r) \/ Revalidate(r) \/ Act(r) \/ Conclude(r)

Tokens == UNION {session[c].tokens : c \in Sessions}

Next ==
    \/ \E r \in 1..Len(req) : Serve(r)
    \/ \E c \in Sessions :
          \/ \E who \in Principals : OpenProducer(c, who) \/ OpenExchange(c, who)
          \/ \E who \in Principals, t \in Tokens : Resume(c, who, t)
          \/ \E t \in session[c].tokens : Seek(c, t)
          \/ Tick(c) \/ TickPending(c) \/ Exchange(c) \/ Cancel(c) \/ CancelExchange(c) \/ Close(c) \/ Receive(c) \/ Fail(c)

Spec == Init /\ [][Next]_vars

-----------------------------------------------------------------------------
(* Properties. *)

(* A stream that ended (finished, failed, too large, cancelled) is never   *)
(* run again, not even by a request that was waiting for it.               *)
EndedIsFinal ==
    [][\A s \in DOMAIN stream : stream[s].ended => stream'[s] = stream[s]]_vars

(* Only requests of the principal that opened a stream run it, whoever     *)
(* holds its cursor.                                                       *)
OwnerOnly ==
    \A s \in DOMAIN stream : \A i \in stream[s].inputs : req[i[1]].who = stream[s].owner

(* An exchange input is processed at most once: whatever is lost, it is    *)
(* never sent again.                                                       *)
InputsOnce ==
    \A s \in DOMAIN stream : stream[s].kind = "exchange" =>
       \A i, j \in stream[s].inputs : i[2] = j[2] => i = j

(* The request whose answer carries batch n of stream s, and what has been *)
(* taken into the hands of a session.                                      *)
Source(r) == IF req[r].op = "init" THEN r ELSE req[r].cursor
Carries(r, s, n) == Source(r) = s /\ req[r].reply.n = n
Awaited(r) == session[req[r].by].pc = "calling" /\ session[req[r].by].call = r
Holds(s) == Range(s.got) \cup Range(s.pending) \cup s.dropped

(* No batch of a stream is handed to a caller twice. *)
NeverRepeated ==
    \A c, d \in Sessions : \A i \in 1..Len(session[c].got), j \in 1..Len(session[d].got) :
       session[c].got[i] = session[d].got[j] => c = d /\ i = j

(* A batch the application produced is with a session (handed out, pending *)
(* or discarded by the caller), or in an answer a session waits for, or in *)
(* the answer to an attempt its session gave up.                           *)
NothingVanishes ==
    \A s \in DOMAIN stream : \A n \in 1..stream[s].pos : \E r \in 1..Len(req) :
       /\ Carries(r, s, n)
       /\ \/ Awaited(r) \/ r \in session[req[r].by].lost
          \/ [stream |-> s, n |-> n] \in Holds(session[req[r].by])

(* Every batch is delivered once: losses, retries, two sessions on the     *)
(* same cursor and any use of tokens repeat none, and none is passed over  *)
(* except in the answer to an attempt that failed (its call threw, or the  *)
(* caller had declared the turn idempotent and it was replayed) or by the  *)
(* caller's own seek, cancel or close.  A token kept from an earlier turn  *)
(* therefore does not go back: the cursor names the live stream, and what  *)
(* comes next is what the stream had not produced yet.                     *)
EveryBatchOnce == NeverRepeated /\ NothingVanishes

=============================================================================
