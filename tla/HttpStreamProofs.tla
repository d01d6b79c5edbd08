-------------------------- MODULE HttpStreamProofs --------------------------
(***************************************************************************)
(* Safety of HttpStream for every number of sessions, principals, requests *)
(* and attempts.                                                           *)
(*                                                                         *)
(* The argument: a request past the dispatch mutex holds the mutex of its  *)
(* stream, so between the second look and the answer nobody else ends the  *)
(* stream, erases it or moves it.  An ended stream stays in streams_ only  *)
(* while the request that ended it is still between the two.  A stream's   *)
(* position only grows, so no two answers carry the same batch, and the    *)
(* client takes the answer to each of its calls at most once.  A request   *)
(* is awaited until its session gives it up or takes its answer, which is  *)
(* why no batch is mislaid.                                                *)
(***************************************************************************)
EXTENDS HttpStream, SequenceTheorems, TLAPS

Kinds == {"producer", "exchange"}
Steps == {"sent", "found", "locked", "live", "acted", "replied", "dropped"}
Batch == [stream : Nat, n : Nat]
ReplyRec == [kind : {"none", "data", "error", "gone", "end"}, n : Nat, cursor : Nat]
RequestRec ==
    [pc : Steps, op : {"init", "turn", "cancel"}, by : Sessions, who : Principals, kind : Kinds,
     cursor : Nat, input : Sessions \X Nat, reply : ReplyRec]
StreamRec ==
    [kind : Kinds, owner : Principals, pos : Nat, ended : BOOLEAN,
     inputs : SUBSET (Nat \X (Sessions \X Nat)), cancels : Nat]
SessionRec ==
    [pc : {"new", "open", "calling"}, kind : Kinds, who : Principals \cup {"nobody"}, cursor : Nat,
     pending : Seq(Batch), finished : BOOLEAN, closed : BOOLEAN, got : Seq(Batch),
     turn : Nat, call : Nat, tries : Nat, tokens : SUBSET Nat,
     lost : SUBSET Nat, dropped : SUBSET Batch]

WellTyped ==
    /\ req \in Seq(RequestRec)
    /\ session \in [Sessions -> SessionRec]
    /\ DOMAIN stream \subseteq 1..Len(req)
    /\ stream \in [DOMAIN stream -> StreamRec]
    /\ lock \in [DOMAIN stream -> Nat]
    /\ registry \subseteq DOMAIN stream

(* What a request has secured at each step of it. *)
RequestOK(r) ==
    LET s == req[r].cursor IN
    /\ req[r].pc \in {"sent", "found", "locked", "live"} => req[r].reply = NoReply
    /\ req[r].pc \in {"found", "locked", "live", "acted"} => req[r].op # "init" /\ s \in DOMAIN stream
    /\ req[r].pc \in {"locked", "live", "acted"} => lock[s] = r
    /\ req[r].pc = "live" => s \in registry /\ stream[s].owner = req[r].who /\ ~stream[s].ended
    /\ req[r].pc = "acted" => (stream[s].ended <=> req[r].reply.cursor = NoCursor)
RequestInv == \A r \in 1..Len(req) : RequestOK(r)

(* A stream exists once its /init was answered; what it took were turns    *)
(* sent to it under its owner's name.                                      *)
IsTurn(r, input, s) ==
    /\ req[r].op = "turn" /\ req[r].cursor = s
    /\ req[r].input = input /\ req[r].who = stream[s].owner
StreamOK(s) ==
    /\ req[s].op = "init" /\ req[s].pc = "replied"
    /\ \A i \in stream[s].inputs : i[1] \in 1..Len(req) /\ IsTurn(i[1], i[2], s)
StreamInv == \A s \in DOMAIN stream : StreamOK(s)

(* A stream that ended and is still in streams_ is in the hands of the     *)
(* request that ended it.                                                  *)
HeldOK(s) ==
    s \in registry /\ stream[s].ended =>
       lock[s] \in 1..Len(req) /\ req[lock[s]].pc = "acted" /\ req[lock[s]].cursor = s
HeldInv == \A s \in DOMAIN stream : HeldOK(s)

(* A cursor that goes around names a stream of its bearer's kind. *)
Names(cursor, kind) == cursor # NoCursor => cursor \in DOMAIN stream /\ stream[cursor].kind = kind
KindInv ==
    /\ \A r \in 1..Len(req) : Names(req[r].cursor, req[r].kind) /\ Names(req[r].reply.cursor, req[r].kind)
    /\ \A c \in Sessions : Names(session[c].cursor, session[c].kind)
    /\ \A c \in Sessions : \A t \in session[c].tokens : t # NoCursor /\ Names(t, "producer")

(* A session that has not opened its stream has sent no turn and has no    *)
(* cursor; a call in progress is the session's own.                        *)
CallOK(c) ==
    /\ session[c].pc # "new" => session[c].who \in Principals
    /\ session[c].pc = "calling" =>
          /\ session[c].call \in 1..Len(req)
          /\ req[session[c].call].by = c /\ req[session[c].call].kind = session[c].kind
    /\ session[c].pc = "new" \/ (session[c].pc = "calling" /\ req[session[c].call].op = "init") =>
          session[c].turn = 0 /\ session[c].cursor = NoCursor
CallInv == \A c \in Sessions : CallOK(c)

(* Each exchange turn carries an input of its own. *)
TurnOK(r) ==
    req[r].op = "turn" =>
       /\ req[r].kind = session[req[r].by].kind
       /\ req[r].input[1] = req[r].by /\ req[r].input[2] \in 1..session[req[r].by].turn
SameTurn(q, r) ==
    /\ req[q].op = "turn" /\ req[r].op = "turn" /\ req[r].kind = "exchange"
    /\ req[q].input = req[r].input
TurnInv ==
    /\ \A r \in 1..Len(req) : TurnOK(r)
    /\ \A q, r \in 1..Len(req) : SameTurn(q, r) => q = r

(* The batch in the answer to r; what session c has taken of the answers. *)
BatchOf(r) == [stream |-> Source(r), n |-> req[r].reply.n]
Taken(c, b) ==
    \E r \in 1..Len(req) :
        /\ req[r].by = c /\ req[r].pc = "replied" /\ req[r].reply.n # 0
        /\ b = BatchOf(r)
        /\ session[c].pc = "calling" => session[c].call # r

(* Positions are given out once. *)
PositionOK(r) ==
    req[r].reply.n # 0 =>
       /\ req[r].pc \in {"acted", "replied"}
       /\ Source(r) \in DOMAIN stream
       /\ req[r].reply.n <= stream[Source(r)].pos
SameBatch(q, r) ==
    req[q].reply.n # 0 /\ req[r].reply.n = req[q].reply.n /\ Source(q) = Source(r)
PositionInv ==
    /\ \A r \in 1..Len(req) : PositionOK(r)
    /\ \A q, r \in 1..Len(req) : SameBatch(q, r) => q = r

(* Each batch in a session's hands is one answer it took. *)
BatchOK(c) ==
    LET s == session[c] IN
    /\ Len(s.pending) <= 1
    /\ \A i \in 1..Len(s.got) : Taken(c, s.got[i])
    /\ \A i \in 1..Len(s.pending) : Taken(c, s.pending[i])
    /\ \A i \in 1..Len(s.got), j \in 1..Len(s.pending) : s.got[i] # s.pending[j]
    /\ \A i, j \in 1..Len(s.got) : s.got[i] = s.got[j] => i = j
BatchInv == \A c \in Sessions : BatchOK(c)

(* Nothing is mislaid: a request is awaited, was given up, or was answered *)
(* and its batch taken; every position was given out in an answer; and a   *)
(* session waits for an answer with nothing pending.                       *)
Accounted(r) ==
    \/ Awaited(r)
    \/ r \in session[req[r].by].lost
    \/ req[r].pc = "replied" /\ (req[r].reply.n # 0 => BatchOf(r) \in Holds(session[req[r].by]))
GivenOut(s, n) == \E r \in 1..Len(req) : Carries(r, s, n)
NothingPending(s) == s.pc # "open" \/ s.kind = "exchange" => s.pending = <<>>
LedgerInv ==
    /\ \A r \in 1..Len(req) : Accounted(r) /\ (req[r].reply.n # 0 => req[r].reply.kind = "data")
    /\ \A s \in DOMAIN stream : \A n \in 1..stream[s].pos : GivenOut(s, n)
    /\ \A c \in Sessions : NothingPending(session[c])

IndInv == WellTyped /\ RequestInv /\ HeldInv /\ StreamInv /\ KindInv /\ CallInv /\ TurnInv
          /\ PositionInv /\ BatchInv /\ LedgerInv

-----------------------------------------------------------------------------
(* Request r goes to step p with answer m and is otherwise what it was, as *)
(* are the other requests.                                                 *)
Moves(r, p, m) ==
    /\ req' \in Seq(RequestRec) /\ Len(req') = Len(req)
    /\ \A q \in 1..Len(req) :
          /\ req'[q].op = req[q].op /\ req'[q].by = req[q].by /\ req'[q].who = req[q].who
          /\ req'[q].kind = req[q].kind /\ req'[q].cursor = req[q].cursor /\ req'[q].input = req[q].input
          /\ q # r => req'[q].pc = req[q].pc /\ req'[q].reply = req[q].reply
    /\ req'[r].pc = p /\ req'[r].reply = m

(* An assignment to a request's step and answer changes nothing else. *)
LEMMA AssignmentMoves ==
    ASSUME WellTyped, NEW r \in 1..Len(req), NEW p \in Steps, NEW m \in ReplyRec,
           req' = [req EXCEPT ![r] = [req[r] EXCEPT !.pc = p, !.reply = m]]
    PROVE  Moves(r, p, m)
<1>1. req \in Seq(RequestRec) /\ req[r] \in RequestRec
  BY ElementOfSeq DEF WellTyped
<1>2. [req[r] EXCEPT !.pc = p, !.reply = m] \in RequestRec
  BY <1>1 DEF RequestRec
<1>3. /\ req' \in Seq(RequestRec) /\ Len(req') = Len(req)
      /\ \A q \in 1..Len(req) : req'[q] = IF q = r THEN [req[r] EXCEPT !.pc = p, !.reply = m] ELSE req[q]
  BY <1>1, <1>2, ExceptSeq
<1> QED  BY <1>1, <1>3 DEF Moves, RequestRec

(* A refusal is such an assignment, with an empty answer. *)
LEMMA RefuseMoves ==
    ASSUME WellTyped, NEW r \in 1..Len(req), Refuse(r)
    PROVE  \E m \in ReplyRec : Moves(r, "replied", m) /\ m.n = 0 /\ m.cursor = NoCursor
<1> DEFINE m == [kind |-> "gone", n |-> 0, cursor |-> NoCursor]
<1>1. req[r] \in RequestRec
  BY ElementOfSeq DEF WellTyped
<1>2. req' = [req EXCEPT ![r] = [req[r] EXCEPT !.pc = "replied", !.reply = m]]
  BY <1>1 DEF Refuse, Reply, RequestRec, WellTyped
<1>3. m \in ReplyRec
  BY DEF ReplyRec, NoCursor
<1> QED  BY <1>2, <1>3, AssignmentMoves DEF Steps

(* A step of the server leaves every request with its session: one not yet *)
(* answered is awaited or was given up, whatever its answer will carry.    *)
LEMMA ServerLedger ==
    ASSUME IndInv, NEW r \in 1..Len(req), NEW p, NEW m, Moves(r, p, m), UNCHANGED session,
           req[r].pc # "replied", m.n # 0 => m.kind = "data",
           req[r].reply.n # 0 => m.n = req[r].reply.n,
           \A s \in DOMAIN stream' : \A n \in 1..stream'[s].pos :
              (s \in DOMAIN stream /\ n \in 1..stream[s].pos) \/ (s = Source(r) /\ n = m.n)
    PROVE  LedgerInv'
<1>0. \A q \in 1..Len(req) : Source(q)' = Source(q)
  BY DEF Source, Moves
<1>1. ASSUME NEW q \in 1..Len(req)
      PROVE  Accounted(q)' /\ (req'[q].reply.n # 0 => req'[q].reply.kind = "data")
  <2>1. Accounted(q) /\ (req[q].reply.n # 0 => req[q].reply.kind = "data")
    BY DEF IndInv, LedgerInv
  <2>2. req'[q].by = req[q].by /\ session' = session /\ (Awaited(q) => Awaited(q)')
    BY DEF Moves, Awaited
  <2>3. CASE q = r
    BY <2>1, <2>2, <2>3 DEF Accounted, Moves
  <2>4. CASE q # r
    <3>1. req'[q].pc = req[q].pc /\ req'[q].reply = req[q].reply
      BY <2>4 DEF Moves
    <3>2. BatchOf(q)' = BatchOf(q)
      BY <1>0, <3>1 DEF BatchOf
    <3> QED  BY <2>1, <2>2, <3>1, <3>2 DEF Accounted
  <2> QED  BY <2>3, <2>4
<1>2. ASSUME NEW s \in DOMAIN stream', NEW n \in 1..stream'[s].pos PROVE GivenOut(s, n)'
  <2>1. Len(req') = Len(req) /\ req'[r].reply = m
    BY DEF Moves
  <2>2. CASE s \in DOMAIN stream /\ n \in 1..stream[s].pos
    <3>1. PICK q \in 1..Len(req) : Carries(q, s, n)
      BY <2>2 DEF IndInv, LedgerInv, GivenOut
    <3>2. Carries(q, s, n)'
      <4>1. CASE q = r
        <5>1. n # 0 /\ req[r].reply.n = n
          BY <2>2, <3>1, <4>1 DEF Carries
        <5> QED  BY <1>0, <2>1, <3>1, <4>1, <5>1 DEF Carries
      <4>2. CASE q # r
        BY <1>0, <3>1, <4>2 DEF Carries, Moves
      <4> QED  BY <4>1, <4>2
    <3> QED  BY <2>1, <3>2 DEF GivenOut
  <2>3. CASE s = Source(r) /\ n = m.n
    BY <1>0, <2>1, <2>3 DEF GivenOut, Carries
  <2> QED  BY <1>2, <2>2, <2>3
<1>3. Len(req') = Len(req)
  BY DEF Moves
<1> QED  BY <1>1, <1>2, <1>3 DEF IndInv, LedgerInv

(* Such a step that neither gives out a batch nor moves a stream keeps all *)
(* but what it may do to streams_ and the mutexes.                         *)
LEMMA QuietKeeps ==
    ASSUME IndInv, NEW r \in 1..Len(req), NEW p \in Steps, NEW m \in ReplyRec, Moves(r, p, m),
           m.n = req[r].reply.n, m.cursor \in {NoCursor, req[r].reply.cursor},
           req[r].pc # "replied", m.n # 0 => p \in {"acted", "replied"} /\ m.kind = req[r].reply.kind,
           UNCHANGED <<stream, session>>
    PROVE  StreamInv' /\ KindInv' /\ CallInv' /\ TurnInv' /\ PositionInv' /\ BatchInv' /\ LedgerInv'
<1> USE DEF IndInv
<1>0. StreamInv'
  <2> SUFFICES ASSUME NEW s \in DOMAIN stream PROVE StreamOK(s)'
    BY DEF StreamInv
  <2>1. StreamOK(s) /\ s \in 1..Len(req) /\ s # r
    BY DEF WellTyped, StreamInv, StreamOK
  <2>2. ASSUME NEW i \in stream[s].inputs PROVE (i[1] \in 1..Len(req) /\ IsTurn(i[1], i[2], s))'
    <3>1. i[1] \in 1..Len(req) /\ IsTurn(i[1], i[2], s)
      BY <2>1, <2>2 DEF StreamOK
    <3> QED  BY <3>1 DEF IsTurn, Moves
  <2> QED  BY <2>1, <2>2 DEF StreamOK, Moves
<1>1. KindInv'
  <2>1. ASSUME NEW q \in 1..Len(req)
        PROVE  Names(req[q].cursor, req[q].kind)' /\ Names(req[q].reply.cursor, req[q].kind)'
    BY DEF KindInv, Names, Moves
  <2> QED  BY <2>1 DEF KindInv, Names, Moves
<1>2. CallInv'
  <2>1. ASSUME NEW c \in Sessions PROVE CallOK(c)'
    BY DEF CallInv, CallOK, Moves
  <2> QED  BY <2>1 DEF CallInv
<1>3. TurnInv'
  <2>1. ASSUME NEW q \in 1..Len(req) PROVE TurnOK(q)'
    BY DEF TurnInv, TurnOK, Moves
  <2>2. ASSUME NEW q \in 1..Len(req), NEW t \in 1..Len(req), SameTurn(q, t)' PROVE q = t
    BY <2>2 DEF TurnInv, SameTurn, Moves
  <2> QED  BY <2>1, <2>2 DEF TurnInv, Moves
<1>4. PositionInv'
  <2>1. ASSUME NEW q \in 1..Len(req) PROVE PositionOK(q)'
    BY DEF PositionInv, PositionOK, Source, Moves
  <2>2. ASSUME NEW q \in 1..Len(req), NEW t \in 1..Len(req), SameBatch(q, t)' PROVE q = t
    BY <2>2 DEF PositionInv, SameBatch, Source, Moves
  <2> QED  BY <2>1, <2>2 DEF PositionInv, Moves
<1>5. \A c \in Sessions : \A b : Taken(c, b) => Taken(c, b)'
  BY DEF Taken, BatchOf, Source, Moves
<1>6. BatchInv'
  BY <1>5 DEF BatchInv, BatchOK
<1>7. LedgerInv'
  <2>1. m.n # 0 => m.kind = "data"
    BY DEF LedgerInv
  <2> QED  BY <2>1, ServerLedger
<1> QED  BY <1>0, <1>1, <1>2, <1>3, <1>4, <1>6, <1>7

(* A look at streams_ finds the stream or refuses the request. *)
LEMMA LookupKeeps ==
    ASSUME IndInv, NEW r \in 1..Len(req), Lookup(r)
    PROVE  IndInv'
<1> USE DEF IndInv
<1>1. PICK p \in Steps, m \in ReplyRec :
        /\ Moves(r, p, m)
        /\ m.n = 0 /\ m.cursor = NoCursor
        /\ p = "replied" \/ (p = "found" /\ req[r].cursor \in registry /\ m = NoReply)
  <2>1. req[r] \in RequestRec
    BY ElementOfSeq DEF WellTyped
  <2>2. CASE req[r].cursor \in registry
    <3>1. req[r].reply = NoReply
      BY DEF RequestInv, RequestOK, Lookup
    <3>2. req' = [req EXCEPT ![r] = [req[r] EXCEPT !.pc = "found", !.reply = NoReply]]
      BY <2>1, <2>2, <3>1 DEF Lookup, RequestRec, WellTyped
    <3>3. Moves(r, "found", NoReply)
      BY <3>2, AssignmentMoves DEF Steps, ReplyRec, NoReply, NoCursor
    <3> QED  BY <2>2, <3>3 DEF Steps, ReplyRec, NoReply, NoCursor
  <2>3. CASE req[r].cursor \notin registry
    <3>1. Refuse(r)
      BY <2>3 DEF Lookup
    <3> QED  BY <3>1, RefuseMoves DEF Steps
  <2> QED  BY <2>2, <2>3
<1>2. /\ req[r].pc = "sent" /\ req[r].op # "init" /\ req[r].reply = NoReply
      /\ UNCHANGED <<registry, stream, lock, session>>
  BY DEF Lookup, RequestInv, RequestOK
<1>3. WellTyped'
  BY <1>1, <1>2 DEF WellTyped, Moves
<1>4. RequestInv'
  <2>1. ASSUME NEW q \in 1..Len(req), q # r PROVE RequestOK(q)'
    BY <1>1, <1>2, <2>1 DEF RequestInv, RequestOK, Moves
  <2>2. RequestOK(r)'
    BY <1>1, <1>2 DEF WellTyped, RequestOK, Moves
  <2> QED  BY <1>1, <2>1, <2>2 DEF RequestInv, Moves
<1>5. HeldInv'
  BY <1>1, <1>2 DEF HeldInv, HeldOK, Moves
<1>6. StreamInv' /\ KindInv' /\ CallInv' /\ TurnInv' /\ PositionInv' /\ BatchInv' /\ LedgerInv'
  BY <1>1, <1>2, QuietKeeps DEF NoReply
<1> QED  BY <1>3, <1>4, <1>5, <1>6

(* The mutex was free, so no ended stream was still in anybody's hands. *)
LEMMA LockKeeps ==
    ASSUME IndInv, NEW r \in 1..Len(req), Lock(r)
    PROVE  IndInv'
<1> USE DEF IndInv
<1>1. /\ req[r].pc = "found" /\ req[r].op # "init" /\ req[r].reply = NoReply
      /\ req[r].cursor \in DOMAIN stream /\ lock[req[r].cursor] = 0
      /\ lock' = [lock EXCEPT ![req[r].cursor] = r]
      /\ UNCHANGED <<registry, stream, session>>
  BY DEF Lock, RequestInv, RequestOK
<1>2. Moves(r, "locked", NoReply)
  <2>1. req[r] \in RequestRec
    BY ElementOfSeq DEF WellTyped
  <2>2. req' = [req EXCEPT ![r] = [req[r] EXCEPT !.pc = "locked", !.reply = NoReply]]
    BY <1>1, <2>1 DEF Lock, RequestRec, WellTyped
  <2> QED  BY <2>2, AssignmentMoves DEF Steps, ReplyRec, NoReply, NoCursor
<1>3. WellTyped'
  BY <1>1, <1>2 DEF WellTyped, Moves
<1>4. RequestInv'
  <2>1. ASSUME NEW q \in 1..Len(req), q # r PROVE RequestOK(q)'
    <3>1. RequestOK(q) /\ (req[q].pc \in {"locked", "live", "acted"} => req[q].cursor # req[r].cursor)
      BY <1>1, <2>1 DEF WellTyped, RequestInv, RequestOK
    <3> QED  BY <1>1, <1>2, <2>1, <3>1 DEF WellTyped, RequestOK, Moves
  <2>2. RequestOK(r)'
    BY <1>1, <1>2 DEF WellTyped, RequestOK, Moves
  <2> QED  BY <1>2, <2>1, <2>2 DEF RequestInv, Moves
<1>5. HeldInv'
  <2>1. ASSUME NEW s \in DOMAIN stream PROVE HeldOK(s)'
    BY <1>1, <1>2 DEF WellTyped, HeldInv, HeldOK, Moves
  <2> QED  BY <1>1, <2>1 DEF HeldInv
<1>6. StreamInv' /\ KindInv' /\ CallInv' /\ TurnInv' /\ PositionInv' /\ BatchInv' /\ LedgerInv'
  BY <1>1, <1>2, QuietKeeps DEF NoReply, Steps, ReplyRec, NoCursor
<1> QED  BY <1>3, <1>4, <1>5, <1>6

(* Giving the mutex back. *)
LEMMA UnlockFrees ==
    ASSUME WellTyped, NEW r \in 1..Len(req), req[r].cursor \in DOMAIN stream,
           lock[req[r].cursor] = r, Unlock(r), UNCHANGED stream
    PROVE  /\ lock' \in [DOMAIN stream' -> Nat]
           /\ \A s \in DOMAIN stream : s # req[r].cursor => lock'[s] = lock[s]
BY DEF WellTyped, Unlock

(* The second look is made with the mutex held: the stream it finds is not *)
(* ended, and nobody can end it before this request has answered.          *)
LEMMA RevalidateKeeps ==
    ASSUME IndInv, NEW r \in 1..Len(req), Revalidate(r)
    PROVE  IndInv'
<1> USE DEF IndInv
<1>1. /\ req[r].pc = "locked" /\ req[r].op # "init" /\ req[r].reply = NoReply
      /\ req[r].cursor \in DOMAIN stream /\ lock[req[r].cursor] = r
      /\ UNCHANGED <<registry, stream, session>>
  BY DEF Revalidate, RequestInv, RequestOK
<1>2. CASE req[r].cursor \in registry /\ stream[req[r].cursor].owner = req[r].who
  <2>1. lock' = lock
    BY <1>2 DEF Revalidate
  <2>2. Moves(r, "live", NoReply)
    <3>1. req[r] \in RequestRec
      BY ElementOfSeq DEF WellTyped
    <3>2. req' = [req EXCEPT ![r] = [req[r] EXCEPT !.pc = "live", !.reply = NoReply]]
      BY <1>1, <1>2, <3>1 DEF Revalidate, RequestRec, WellTyped
    <3> QED  BY <3>2, AssignmentMoves DEF Steps, ReplyRec, NoReply, NoCursor
  <2>3. WellTyped'
    BY <1>1, <2>1, <2>2 DEF WellTyped, Moves
  <2>4. RequestInv'
    <3>1. ASSUME NEW q \in 1..Len(req), q # r PROVE RequestOK(q)'
      BY <1>1, <2>1, <2>2, <3>1 DEF RequestInv, RequestOK, Moves
    <3>2. ~stream[req[r].cursor].ended
      BY <1>1, <1>2 DEF HeldInv, HeldOK
    <3>3. RequestOK(r)'
      BY <1>1, <1>2, <2>1, <2>2, <3>2 DEF RequestOK, Moves
    <3> QED  BY <2>2, <3>1, <3>3 DEF RequestInv, Moves
  <2>5. HeldInv'
    BY <1>1, <2>1, <2>2 DEF HeldInv, HeldOK, Moves
  <2>6. StreamInv' /\ KindInv' /\ CallInv' /\ TurnInv' /\ PositionInv' /\ BatchInv' /\ LedgerInv'
    BY <1>1, <2>2, QuietKeeps DEF NoReply, Steps, ReplyRec, NoCursor
  <2> QED  BY <2>3, <2>4, <2>5, <2>6
<1>3. CASE ~(req[r].cursor \in registry /\ stream[req[r].cursor].owner = req[r].who)
  <2>1. Refuse(r) /\ Unlock(r)
    BY <1>3 DEF Revalidate
  <2>2. PICK m \in ReplyRec : Moves(r, "replied", m) /\ m.n = 0 /\ m.cursor = NoCursor
    BY <2>1, RefuseMoves
  <2>3. /\ lock' \in [DOMAIN stream' -> Nat]
        /\ \A s \in DOMAIN stream : s # req[r].cursor => lock'[s] = lock[s]
    BY <1>1, <2>1, UnlockFrees
  <2>4. WellTyped'
    BY <1>1, <2>2, <2>3 DEF WellTyped, Moves
  <2>5. RequestInv'
    <3>1. ASSUME NEW q \in 1..Len(req), q # r PROVE RequestOK(q)'
      <4>1. RequestOK(q) /\ (req[q].pc \in {"locked", "live", "acted"} => req[q].cursor # req[r].cursor)
        BY <1>1, <3>1 DEF RequestInv, RequestOK
      <4> QED  BY <1>1, <2>2, <2>3, <3>1, <4>1 DEF RequestOK, Moves
    <3>2. RequestOK(r)'
      BY <2>2 DEF RequestOK, Moves
    <3> QED  BY <2>2, <3>1, <3>2 DEF RequestInv, Moves
  <2>6. HeldInv'
    <3>1. ASSUME NEW s \in DOMAIN stream PROVE HeldOK(s)'
      BY <1>1, <2>2, <2>3 DEF HeldInv, HeldOK, Moves
    <3> QED  BY <1>1, <3>1 DEF HeldInv
  <2>7. StreamInv' /\ KindInv' /\ CallInv' /\ TurnInv' /\ PositionInv' /\ BatchInv' /\ LedgerInv'
    BY <1>1, <2>2, QuietKeeps DEF NoReply, Steps
  <2> QED  BY <2>4, <2>5, <2>6, <2>7
<1> QED  BY <1>2, <1>3

(* A stream is erased by the request that holds its mutex and ended it. *)
LEMMA ConcludeKeeps ==
    ASSUME IndInv, NEW r \in 1..Len(req), Conclude(r)
    PROVE  IndInv'
<1> USE DEF IndInv
<1> DEFINE m == req[r].reply
<1>1. /\ req[r].pc = "acted" /\ req[r].op # "init"
      /\ req[r].cursor \in DOMAIN stream /\ lock[req[r].cursor] = r
      /\ stream[req[r].cursor].ended <=> m.cursor = NoCursor
      /\ registry' = IF m.cursor = NoCursor THEN registry \ {req[r].cursor} ELSE registry
      /\ UNCHANGED <<stream, session>>
  BY DEF Conclude, RequestInv, RequestOK
<1>2. m \in ReplyRec /\ Moves(r, "replied", m)
  <2>1. req[r] \in RequestRec
    BY ElementOfSeq DEF WellTyped
  <2>2. req' = [req EXCEPT ![r] = [req[r] EXCEPT !.pc = "replied", !.reply = m]]
    BY <2>1 DEF Conclude, RequestRec, WellTyped
  <2>3. m \in ReplyRec
    BY <2>1 DEF RequestRec
  <2> QED  BY <2>2, <2>3, AssignmentMoves DEF Steps
<1>3. /\ lock' \in [DOMAIN stream' -> Nat]
      /\ \A s \in DOMAIN stream : s # req[r].cursor => lock'[s] = lock[s]
  BY <1>1, UnlockFrees DEF Conclude
<1>4. WellTyped'
  BY <1>1, <1>2, <1>3 DEF WellTyped, Moves
<1>5. RequestInv'
  <2>1. ASSUME NEW q \in 1..Len(req), q # r PROVE RequestOK(q)'
    <3>1. RequestOK(q) /\ (req[q].pc \in {"locked", "live", "acted"} => req[q].cursor # req[r].cursor)
      BY <1>1, <2>1 DEF RequestInv, RequestOK
    <3> QED  BY <1>1, <1>2, <1>3, <2>1, <3>1 DEF RequestOK, Moves
  <2>2. RequestOK(r)'
    BY <1>2 DEF RequestOK, Moves
  <2> QED  BY <1>2, <2>1, <2>2 DEF RequestInv, Moves
<1>6. HeldInv'
  <2>1. ASSUME NEW s \in DOMAIN stream PROVE HeldOK(s)'
    BY <1>1, <1>2, <1>3 DEF HeldInv, HeldOK, Moves
  <2> QED  BY <1>1, <2>1 DEF HeldInv
<1>7. StreamInv' /\ KindInv' /\ CallInv' /\ TurnInv' /\ PositionInv' /\ BatchInv' /\ LedgerInv'
  BY <1>1, <1>2, QuietKeeps DEF Steps
<1> QED  BY <1>4, <1>5, <1>6, <1>7

(* A turn, or a cancellation, of stream s: what it is afterwards and what  *)
(* the answer will say.                                                    *)
Turns(r, s, t, m) ==
    /\ stream' = [stream EXCEPT ![s] = t]
    /\ Moves(r, "acted", m)
    /\ t.kind = stream[s].kind /\ t.owner = stream[s].owner
    /\ t.pos \in {stream[s].pos, stream[s].pos + 1}
    /\ m.n # 0 => m.n = t.pos /\ t.pos = stream[s].pos + 1 /\ m.kind = "data"
    /\ t.pos # stream[s].pos => m.n = t.pos
    /\ m.cursor \in {NoCursor, s}
    /\ t.ended <=> m.cursor = NoCursor
    /\ t.inputs = stream[s].inputs \/ (req[r].op = "turn" /\ t.inputs = stream[s].inputs \cup {<<r, req[r].input>>})

(* What one turn under the mutex does to its stream and its answer. *)
LEMMA ActTurns ==
    ASSUME IndInv, NEW r \in 1..Len(req), Act(r)
    PROVE  \E t \in StreamRec, m \in ReplyRec : Turns(r, req[r].cursor, t, m)
<1> USE DEF IndInv
<1> DEFINE s == req[r].cursor
<1>0. req[r].pc = "live"
  BY DEF Act
<1>1. /\ req[r].op # "init" /\ req[r].reply = NoReply
      /\ s \in DOMAIN stream /\ stream[s] \in StreamRec /\ req[r] \in RequestRec
      /\ s # NoCursor
  BY <1>0, ElementOfSeq DEF RequestInv, RequestOK, WellTyped, NoCursor
<1>2. CASE req[r].op = "cancel"
  <2> DEFINE t == [stream[s] EXCEPT !.cancels = stream[s].cancels + 1, !.ended = TRUE]
             m == [kind |-> "end", n |-> 0, cursor |-> NoCursor]
  <2>1. stream' = [stream EXCEPT ![s] = t]
    BY <1>1, <1>2 DEF Act, StreamRec, WellTyped
  <2>2. t \in StreamRec /\ m \in ReplyRec
    <3>1. t \in StreamRec
      <4>1. stream[s].cancels + 1 \in Nat /\ TRUE \in BOOLEAN
        BY <1>1 DEF StreamRec
      <4> QED  BY <1>1, <4>1 DEF StreamRec
    <3>2. m \in ReplyRec
      BY DEF ReplyRec, NoCursor
    <3> QED  BY <3>1, <3>2
  <2>3. req' = [req EXCEPT ![r] = [req[r] EXCEPT !.pc = "acted", !.reply = m]]
    <3>1. req' = [req EXCEPT ![r].pc = "acted", ![r].reply.kind = "end"]
      BY <1>2 DEF Act
    <3>2. [req[r].reply EXCEPT !.kind = "end"] = m
      BY <1>1 DEF NoReply
    <3> QED  BY <1>1, <3>1, <3>2 DEF RequestRec, WellTyped
  <2>4. Moves(r, "acted", m)
    BY <2>2, <2>3, AssignmentMoves DEF Steps
  <2>5. /\ t.kind = stream[s].kind /\ t.owner = stream[s].owner /\ t.pos = stream[s].pos
        /\ t.ended /\ t.inputs = stream[s].inputs
    BY <1>1 DEF StreamRec
  <2>6. Turns(r, s, t, m)
    BY <1>1, <2>1, <2>4, <2>5 DEF Turns
  <2> QED  BY <2>2, <2>6
<1>3. CASE req[r].op # "cancel"
  <2>0. req[r].op = "turn"
    BY <1>1, <1>3 DEF RequestRec
  <2>1. PICK outcome \in IF stream[s].kind = "producer" THEN ProducerOutcomes ELSE ExchangeOutcomes :
          LET n == IF Emits(outcome) THEN stream[s].pos + 1 ELSE stream[s].pos IN
          /\ stream' = [stream EXCEPT ![s].pos = n, ![s].ended = ~Goes(outcome),
                                      ![s].inputs = @ \cup {<<r, req[r].input>>}]
          /\ req' = [req EXCEPT ![r].pc = "acted",
                       ![r].reply = [kind |-> IF outcome = "error" THEN "error" ELSE "data",
                                     n |-> IF Emits(outcome) THEN n ELSE 0,
                                     cursor |-> IF Goes(outcome) THEN s ELSE NoCursor]]
    BY <1>3 DEF Act
  <2> DEFINE n == IF Emits(outcome) THEN stream[s].pos + 1 ELSE stream[s].pos
             ended == ~Goes(outcome)
             t == [stream[s] EXCEPT !.pos = n, !.ended = ended,
                                    !.inputs = stream[s].inputs \cup {<<r, req[r].input>>}]
             m == [kind |-> IF outcome = "error" THEN "error" ELSE "data",
                   n |-> IF Emits(outcome) THEN n ELSE 0,
                   cursor |-> IF Goes(outcome) THEN s ELSE NoCursor]
  <2>2. stream' = [stream EXCEPT ![s] = t]
    BY <1>1, <2>1 DEF StreamRec, WellTyped
  <2>3. n \in {stream[s].pos, stream[s].pos + 1} /\ n \in Nat /\ ended \in BOOLEAN
    BY <1>1 DEF StreamRec, Goes
  <2>4. <<r, req[r].input>> \in Nat \X (Sessions \X Nat)
    BY <1>1 DEF RequestRec, WellTyped
  <2>5. t \in StreamRec
    BY <1>1, <2>3, <2>4 DEF StreamRec
  <2>6. m \in ReplyRec
    BY <1>1, <2>3 DEF ReplyRec, NoCursor, RequestRec
  <2>7. req' = [req EXCEPT ![r] = [req[r] EXCEPT !.pc = "acted", !.reply = m]]
    BY <1>1, <2>1 DEF RequestRec, WellTyped
  <2>8. Moves(r, "acted", m)
    BY <2>6, <2>7, AssignmentMoves DEF Steps
  <2>9. /\ t.kind = stream[s].kind /\ t.owner = stream[s].owner /\ t.pos = n
        /\ t.ended = ended /\ t.inputs = stream[s].inputs \cup {<<r, req[r].input>>}
    BY <1>1 DEF StreamRec
  <2>10. Turns(r, s, t, m)
    <3>1. Emits(outcome) => outcome # "error"
      BY DEF Emits
    <3> QED  BY <1>1, <2>0, <2>2, <2>3, <2>8, <2>9, <3>1 DEF Turns
  <2> QED  BY <2>5, <2>6, <2>10
<1> QED  BY <1>2, <1>3

(* The request holds the mutex: the others' streams are not this one, and  *)
(* the batch it answers with is at a position no earlier answer had.       *)
LEMMA ActKeeps ==
    ASSUME IndInv, NEW r \in 1..Len(req), Act(r)
    PROVE  IndInv'
<1> USE DEF IndInv
<1> DEFINE s == req[r].cursor
<1>0. req[r].pc = "live" /\ UNCHANGED <<registry, lock, session>>
  BY DEF Act
<1>1. /\ req[r].pc = "live" /\ req[r].op # "init" /\ req[r].reply = NoReply
      /\ s \in DOMAIN stream /\ lock[s] = r /\ s \in registry
      /\ stream[s].owner = req[r].who /\ ~stream[s].ended
      /\ stream[s] \in StreamRec /\ s # NoCursor
      /\ UNCHANGED <<registry, lock, session>>
  BY <1>0 DEF RequestInv, RequestOK, WellTyped, NoCursor
<1>2. PICK t \in StreamRec, m \in ReplyRec : Turns(r, s, t, m)
  BY ActTurns
<1>3. /\ DOMAIN stream' = DOMAIN stream /\ stream'[s] = t
      /\ \A u \in DOMAIN stream : u # s => stream'[u] = stream[u]
      /\ \A u \in DOMAIN stream : stream'[u].kind = stream[u].kind /\ stream'[u].owner = stream[u].owner
                                  /\ stream[u].pos \in Nat /\ stream'[u].pos \in Nat /\ stream[u].pos <= stream'[u].pos
  BY <1>1, <1>2 DEF Turns, WellTyped, StreamRec
<1>4. Moves(r, "acted", m)
  BY <1>2 DEF Turns
<1>5. WellTyped'
  BY <1>1, <1>2, <1>3, <1>4 DEF Turns, WellTyped, Moves
<1>6. RequestInv'
  <2>1. ASSUME NEW q \in 1..Len(req), q # r PROVE RequestOK(q)'
    <3>1. RequestOK(q) /\ (req[q].pc \in {"locked", "live", "acted"} => req[q].cursor # s)
      BY <1>1, <2>1 DEF RequestInv, RequestOK
    <3> QED  BY <1>1, <1>3, <1>4, <2>1, <3>1 DEF RequestOK, Moves
  <2>2. RequestOK(r)'
    BY <1>1, <1>2, <1>3, <1>4 DEF Turns, RequestOK, Moves
  <2> QED  BY <1>4, <2>1, <2>2 DEF RequestInv, Moves
<1>7. HeldInv'
  <2>1. ASSUME NEW u \in DOMAIN stream PROVE HeldOK(u)'
    BY <1>1, <1>3, <1>4, <2>1 DEF HeldInv, HeldOK, Moves
  <2> QED  BY <1>3, <2>1 DEF HeldInv
<1>8. StreamInv'
  <2> SUFFICES ASSUME NEW u \in DOMAIN stream PROVE StreamOK(u)'
    BY <1>3 DEF StreamInv
  <2>1. StreamOK(u) /\ u \in 1..Len(req) /\ u # r
    BY <1>1 DEF WellTyped, StreamInv, StreamOK
  <2>2. ASSUME NEW i, i \in stream[u].inputs PROVE (i[1] \in 1..Len(req) /\ IsTurn(i[1], i[2], u))'
    <3>1. i[1] \in 1..Len(req) /\ IsTurn(i[1], i[2], u)
      BY <2>1, <2>2 DEF StreamOK
    <3> QED  BY <1>3, <1>4, <3>1 DEF IsTurn, Moves
  <2>3. ASSUME NEW i, i = <<r, req[r].input>>, req[r].op = "turn", u = s
        PROVE  (i[1] \in 1..Len(req) /\ IsTurn(i[1], i[2], u))'
    <3>1. i[1] = r /\ i[2] = req[r].input
      BY <2>3
    <3> QED  BY <1>1, <1>3, <1>4, <2>3, <3>1 DEF IsTurn, Moves
  <2>4. ASSUME NEW i \in stream'[u].inputs PROVE (i[1] \in 1..Len(req) /\ IsTurn(i[1], i[2], u))'
    <3>1. CASE i \in stream[u].inputs
      BY <2>2, <3>1
    <3>2. CASE i \notin stream[u].inputs
      <4>1. u = s /\ req[r].op = "turn" /\ i = <<r, req[r].input>>
        BY <1>2, <1>3, <2>4, <3>2 DEF Turns
      <4> QED  BY <2>3, <4>1
    <3> QED  BY <3>1, <3>2
  <2> QED  BY <1>4, <2>1, <2>4 DEF StreamOK, Moves
<1>9. KindInv'
  <2>1. ASSUME NEW cursor, NEW kind, Names(cursor, kind) PROVE Names(cursor, kind)'
    BY <1>3, <2>1 DEF Names
  <2>2. ASSUME NEW q \in 1..Len(req)
        PROVE  Names(req[q].cursor, req[q].kind)' /\ Names(req[q].reply.cursor, req[q].kind)'
    BY <1>2, <1>3, <1>4 DEF Turns, KindInv, Names, Moves
  <2> QED  BY <1>1, <1>4, <2>1, <2>2 DEF KindInv, Moves
<1>10. CallInv'
  <2>1. ASSUME NEW c \in Sessions PROVE CallOK(c)'
    BY <1>1, <1>4 DEF CallInv, CallOK, Moves
  <2> QED  BY <2>1 DEF CallInv
<1>11. TurnInv'
  <2>1. ASSUME NEW q \in 1..Len(req) PROVE TurnOK(q)'
    BY <1>1, <1>4 DEF TurnInv, TurnOK, Moves
  <2>2. ASSUME NEW q \in 1..Len(req), NEW v \in 1..Len(req), SameTurn(q, v)' PROVE q = v
    BY <1>4, <2>2 DEF TurnInv, SameTurn, Moves
  <2> QED  BY <1>4, <2>1, <2>2 DEF TurnInv, Moves
<1>12. PositionInv'
  <2>0. \A q \in 1..Len(req) : Source(q)' = Source(q)
    BY <1>4 DEF Source, Moves
  <2>1. Source(r) = s /\ (m.n # 0 => m.n = stream'[s].pos /\ m.n = stream[s].pos + 1)
    BY <1>1, <1>2, <1>3 DEF Source, Turns
  <2>2. ASSUME NEW q \in 1..Len(req) PROVE req[q].reply.n \in Nat
    <3>1. req[q] \in RequestRec
      BY ElementOfSeq DEF WellTyped
    <3> QED  BY <3>1 DEF RequestRec, ReplyRec
  <2>3. ASSUME NEW q \in 1..Len(req) PROVE PositionOK(q)'
    <3>1. CASE q = r
      BY <1>1, <1>3, <1>4, <2>0, <2>1, <3>1 DEF PositionOK, Moves
    <3>2. CASE q # r
      <4>1. req'[q].reply = req[q].reply /\ req'[q].pc = req[q].pc
        BY <1>4, <3>2 DEF Moves
      <4>2. PositionOK(q)
        BY DEF PositionInv
      <4> QED  BY <1>3, <2>0, <2>2, <4>1, <4>2 DEF PositionOK
    <3> QED  BY <3>1, <3>2
  <2>4. ASSUME NEW q \in 1..Len(req), q # r PROVE ~SameBatch(q, r)' /\ ~SameBatch(r, q)'
    <3>1. /\ req'[q].reply = req[q].reply /\ req'[r].reply = m
          /\ Source(q)' = Source(q) /\ Source(r)' = s
      BY <1>4, <2>0, <2>1, <2>4 DEF Moves
    <3>2. PositionOK(q) /\ req[q].reply.n \in Nat
      BY <2>2 DEF PositionInv
    <3> QED  BY <1>3, <2>1, <3>1, <3>2 DEF PositionOK, SameBatch
  <2>5. ASSUME NEW q \in 1..Len(req), NEW v \in 1..Len(req), SameBatch(q, v)' PROVE q = v
    <3>1. CASE q # r /\ v # r
      BY <1>4, <2>0, <2>5, <3>1 DEF PositionInv, SameBatch, Moves
    <3> QED  BY <2>4, <2>5, <3>1
  <2> QED  BY <1>4, <2>3, <2>5 DEF PositionInv, Moves
<1>13. BatchInv'
  <2>1. \A c \in Sessions : \A b : Taken(c, b) => Taken(c, b)'
    BY <1>1, <1>4 DEF Taken, BatchOf, Source, Moves
  <2> QED  BY <1>1, <2>1 DEF BatchInv, BatchOK
<1>14. LedgerInv'
  <2>1. ASSUME NEW u \in DOMAIN stream', NEW n \in 1..stream'[u].pos
        PROVE  (u \in DOMAIN stream /\ n \in 1..stream[u].pos) \/ (u = Source(r) /\ n = m.n)
    <3>1. CASE u # s
      BY <1>3, <2>1, <3>1
    <3>2. CASE u = s
      <4>1. Source(r) = s /\ stream'[u].pos = t.pos /\ stream[u].pos \in Nat
        BY <1>1, <1>3, <3>2 DEF Source
      <4>2. t.pos \in {stream[s].pos, stream[s].pos + 1} /\ (t.pos # stream[s].pos => m.n = t.pos)
        BY <1>2 DEF Turns
      <4> QED  BY <1>3, <2>1, <3>2, <4>1, <4>2
    <3> QED  BY <3>1, <3>2
  <2>2. (m.n # 0 => m.kind = "data") /\ req[r].reply.n = 0
    BY <1>1, <1>2 DEF Turns, NoReply
  <2> QED  BY <1>1, <1>4, <2>1, <2>2, ServerLedger
<1> QED  BY <1>5, <1>6, <1>7, <1>8, <1>9, <1>10, <1>11, <1>12, <1>13, <1>14

(* Stream t is opened for request r, and the answer m goes out. *)
Opens(r, t, m) ==
    /\ stream' = Extend(stream, r, t) /\ lock' = Extend(lock, r, 0)
    /\ registry' = registry \/ (registry' = registry \cup {r} /\ ~t.ended)
    /\ Moves(r, "replied", m)
    /\ t.kind = req[r].kind /\ t.inputs = {}
    /\ t.pos \in 0..1 /\ m.n = t.pos /\ m.cursor \in {NoCursor, r}
    /\ m.n # 0 => m.kind = "data"

(* What /init answers and the stream it opens, case by case. *)
LEMMA ServeInitOpens ==
    ASSUME WellTyped, NEW r \in 1..Len(req), ServeInit(r)
    PROVE  \/ \E t \in StreamRec, m \in ReplyRec : Opens(r, t, m)
           \/ /\ \E m \in ReplyRec : Moves(r, "replied", m) /\ m.n = 0 /\ m.cursor = NoCursor
              /\ UNCHANGED <<registry, stream, lock>>
<1>1. req[r] \in RequestRec /\ r \in Nat
  BY ElementOfSeq DEF WellTyped
<1>2. ASSUME NEW kind \in {"none", "data", "error", "gone", "end"}, NEW n \in Nat, NEW cursor \in Nat,
             Reply(r, kind, n, cursor)
      PROVE  /\ [kind |-> kind, n |-> n, cursor |-> cursor] \in ReplyRec
             /\ Moves(r, "replied", [kind |-> kind, n |-> n, cursor |-> cursor])
  <2> DEFINE m == [kind |-> kind, n |-> n, cursor |-> cursor]
  <2>1. m \in ReplyRec
    BY <1>2 DEF ReplyRec
  <2>2. req' = [req EXCEPT ![r] = [req[r] EXCEPT !.pc = "replied", !.reply = m]]
    BY <1>1, <1>2 DEF Reply, RequestRec, WellTyped
  <2> QED  BY <2>1, <2>2, AssignmentMoves DEF Steps
<1>3. CASE Reply(r, "error", 0, NoCursor) /\ UNCHANGED <<registry, stream, lock>>
  <2> DEFINE m == [kind |-> "error", n |-> 0, cursor |-> NoCursor]
  <2>1. m \in ReplyRec /\ Moves(r, "replied", m)
    BY <1>2, <1>3 DEF NoCursor
  <2> QED  BY <1>3, <2>1
<1>4. CASE /\ req[r].kind = "exchange"
           /\ registry' = registry \cup {r}
           /\ stream' = Extend(stream, r, NewStream("exchange", req[r].who, 0))
           /\ lock' = Extend(lock, r, 0)
           /\ Reply(r, "data", 0, r)
  <2> DEFINE t == NewStream("exchange", req[r].who, 0)
             m == [kind |-> "data", n |-> 0, cursor |-> r]
  <2>1. m \in ReplyRec /\ Moves(r, "replied", m)
    BY <1>1, <1>2, <1>4
  <2>2. t \in StreamRec /\ ~t.ended /\ t.kind = "exchange" /\ t.inputs = {} /\ t.pos = 0
    BY <1>1 DEF NewStream, StreamRec, RequestRec, Kinds
  <2>3. Opens(r, t, m)
    BY <1>4, <2>1, <2>2 DEF Opens
  <2> QED  BY <2>1, <2>2, <2>3
<1>5. ASSUME req[r].kind = "producer", NEW outcome \in ProducerOutcomes,
             LET n == IF Emits(outcome) THEN 1 ELSE 0 IN
               /\ registry' = IF Goes(outcome) THEN registry \cup {r} ELSE registry
               /\ stream' = Extend(stream, r, [NewStream("producer", req[r].who, n)
                                                 EXCEPT !.ended = ~Goes(outcome)])
               /\ lock' = Extend(lock, r, 0)
               /\ IF outcome = "error" THEN Reply(r, "error", 0, NoCursor)
                  ELSE Reply(r, "data", n, IF Goes(outcome) THEN r ELSE NoCursor)
      PROVE  \E t \in StreamRec, m \in ReplyRec : Opens(r, t, m)
  <2> DEFINE n == IF Emits(outcome) THEN 1 ELSE 0
             ended == ~Goes(outcome)
             t == [NewStream("producer", req[r].who, n) EXCEPT !.ended = ended]
             cursor == IF outcome = "error" \/ ~Goes(outcome) THEN NoCursor ELSE r
             k == IF outcome = "error" THEN "error" ELSE "data"
             v == IF outcome = "error" THEN 0 ELSE n
             m == [kind |-> k, n |-> v, cursor |-> cursor]
  <2>1. n \in Nat /\ v \in Nat /\ v = n /\ cursor \in Nat /\ cursor \in {NoCursor, r}
        /\ ended \in BOOLEAN /\ k \in {"none", "data", "error", "gone", "end"} /\ (v # 0 => k = "data")
    BY <1>1 DEF NoCursor, Goes, Emits
  <2>2. Reply(r, k, v, cursor)
    BY <1>5
  <2>3. m \in ReplyRec /\ Moves(r, "replied", m)
    BY <1>2, <2>1, <2>2
  <2>4. CASE Goes(outcome)
    <3>1. ~Goes(outcome) = FALSE
      BY <2>4
    <3>2. t \in StreamRec /\ t.kind = "producer" /\ t.inputs = {} /\ t.pos = n
      BY <1>1, <2>1, <3>1 DEF NewStream, StreamRec, RequestRec, Kinds
    <3>3. ~t.ended
      <4>1. PICK x \in StreamRec : x = NewStream("producer", req[r].who, n)
        BY <1>1, <2>1 DEF NewStream, StreamRec, RequestRec, Kinds
      <4>2. [x EXCEPT !.ended = ended].ended = ended
        BY <2>1 DEF StreamRec
      <4> QED  BY <2>4, <4>1, <4>2
    <3>4. Opens(r, t, m)
      BY <1>5, <2>1, <2>3, <2>4, <3>2, <3>3 DEF Opens
    <3> QED  BY <2>3, <3>2, <3>4
  <2>5. CASE ~Goes(outcome)
    <3>1. ~Goes(outcome) = TRUE
      BY <2>5
    <3>2. t \in StreamRec /\ t.kind = "producer" /\ t.inputs = {} /\ t.pos = n
      BY <1>1, <2>1, <3>1 DEF NewStream, StreamRec, RequestRec, Kinds
    <3>3. Opens(r, t, m)
      BY <1>5, <2>1, <2>3, <2>5, <3>2 DEF Opens
    <3> QED  BY <2>3, <3>2, <3>3
  <2> QED  BY <2>4, <2>5
<1> QED  BY <1>3, <1>4, <1>5 DEF ServeInit

(* The request's number names no stream yet, so that nothing that was      *)
(* there is overwritten and no answer so far speaks of it.                 *)
LEMMA ServeInitKeeps ==
    ASSUME IndInv, NEW r \in 1..Len(req), ServeInit(r)
    PROVE  IndInv'
<1> USE DEF IndInv
<1>1. req[r].pc = "sent" /\ req[r].op = "init" /\ session' = session
  BY DEF ServeInit
<1>2. req[r].reply = NoReply /\ r \notin DOMAIN stream /\ r # NoCursor
  BY <1>1 DEF RequestInv, RequestOK, StreamInv, StreamOK, NoCursor, WellTyped
<1>3. ASSUME NEW m \in ReplyRec, Moves(r, "replied", m), m.n = 0, m.cursor = NoCursor,
             UNCHANGED <<registry, stream, lock>>
      PROVE  IndInv'
  <2>1. WellTyped'
    BY <1>1, <1>3 DEF WellTyped, Moves
  <2>2. RequestInv'
    <3>1. ASSUME NEW q \in 1..Len(req) PROVE RequestOK(q)'
      BY <1>3 DEF RequestInv, RequestOK, Moves
    <3> QED  BY <1>3, <3>1 DEF RequestInv, Moves
  <2>3. HeldInv'
    BY <1>1, <1>3 DEF HeldInv, HeldOK, Moves
  <2>4. StreamInv' /\ KindInv' /\ CallInv' /\ TurnInv' /\ PositionInv' /\ BatchInv' /\ LedgerInv'
    BY <1>1, <1>2, <1>3, QuietKeeps DEF NoReply, Steps
  <2> QED  BY <2>1, <2>2, <2>3, <2>4
<1>4. ASSUME NEW t \in StreamRec, NEW m \in ReplyRec, Opens(r, t, m)
      PROVE  IndInv'
  <2>1. /\ DOMAIN stream' = DOMAIN stream \cup {r} /\ stream'[r] = t
        /\ \A u \in DOMAIN stream : stream'[u] = stream[u] /\ lock'[u] = lock[u] /\ u # r
        /\ lock'[r] = 0
        /\ stream' \in [DOMAIN stream' -> StreamRec] /\ lock' \in [DOMAIN stream' -> Nat]
        /\ registry' \subseteq DOMAIN stream'
        /\ \A u \in registry' : u \in registry \/ (u = r /\ ~t.ended)
        /\ registry \subseteq registry'
    BY <1>2, <1>4 DEF Opens, Extend, WellTyped
  <2>2. Moves(r, "replied", m) /\ t.kind = req[r].kind /\ t.inputs = {} /\ m.n <= t.pos /\ m.n = t.pos
        /\ m.cursor \in {NoCursor, r}
    BY <1>4 DEF Opens, StreamRec
  <2>3. WellTyped'
    BY <1>1, <2>1, <2>2 DEF WellTyped, Moves
  <2>4. RequestInv'
    <3>1. ASSUME NEW q \in 1..Len(req), q # r PROVE RequestOK(q)'
      BY <2>1, <2>2, <3>1 DEF RequestInv, RequestOK, Moves
    <3>2. RequestOK(r)'
      BY <2>2 DEF RequestOK, Moves
    <3> QED  BY <2>2, <3>1, <3>2 DEF RequestInv, Moves
  <2>5. HeldInv'
    <3>1. ASSUME NEW u \in DOMAIN stream PROVE HeldOK(u)'
      BY <1>1, <2>1, <2>2 DEF HeldInv, HeldOK, Moves
    <3>2. HeldOK(r)'
      BY <1>2, <2>1, <2>2 DEF HeldOK, WellTyped
    <3> QED  BY <2>1, <3>1, <3>2 DEF HeldInv
  <2>6. StreamInv'
    <3>1. ASSUME NEW u \in DOMAIN stream PROVE StreamOK(u)'
      <4>1. StreamOK(u) /\ u \in 1..Len(req) /\ u # r
        BY <2>1 DEF WellTyped, StreamInv
      <4>2. ASSUME NEW i \in stream[u].inputs PROVE (i[1] \in 1..Len(req) /\ IsTurn(i[1], i[2], u))'
        <5>1. i[1] \in 1..Len(req) /\ IsTurn(i[1], i[2], u)
          BY <4>1, <4>2 DEF StreamOK
        <5> QED  BY <2>1, <2>2, <5>1 DEF IsTurn, Moves
      <4> QED  BY <2>1, <2>2, <4>1, <4>2 DEF StreamOK, Moves
    <3>2. StreamOK(r)'
      BY <1>1, <2>1, <2>2 DEF StreamOK, Moves
    <3> QED  BY <2>1, <3>1, <3>2 DEF StreamInv
  <2>7. KindInv'
    <3>1. ASSUME NEW cursor, NEW kind, Names(cursor, kind) PROVE Names(cursor, kind)'
      BY <2>1, <3>1 DEF Names
    <3>2. ASSUME NEW q \in 1..Len(req)
          PROVE  Names(req[q].cursor, req[q].kind)' /\ Names(req[q].reply.cursor, req[q].kind)'
      BY <2>1, <2>2 DEF KindInv, Names, Moves
    <3> QED  BY <1>1, <2>2, <3>1, <3>2 DEF KindInv, Moves
  <2>8. CallInv'
    <3>1. ASSUME NEW c \in Sessions PROVE CallOK(c)'
      BY <1>1, <2>2 DEF CallInv, CallOK, Moves
    <3> QED  BY <3>1 DEF CallInv
  <2>9. TurnInv'
    <3>1. ASSUME NEW q \in 1..Len(req) PROVE TurnOK(q)'
      BY <1>1, <2>2 DEF TurnInv, TurnOK, Moves
    <3>2. ASSUME NEW q \in 1..Len(req), NEW v \in 1..Len(req), SameTurn(q, v)' PROVE q = v
      BY <2>2, <3>2 DEF TurnInv, SameTurn, Moves
    <3> QED  BY <2>2, <3>1, <3>2 DEF TurnInv, Moves
  <2>10. PositionInv'
    <3>0. Source(r) = r /\ \A q \in 1..Len(req) : Source(q)' = Source(q)
      BY <1>1, <2>2 DEF Source, Moves
    <3>1. ASSUME NEW q \in 1..Len(req) PROVE PositionOK(q)'
      BY <2>1, <2>2, <3>0 DEF PositionInv, PositionOK, Moves
    <3>2. ASSUME NEW q \in 1..Len(req), q # r PROVE ~SameBatch(q, r)' /\ ~SameBatch(r, q)'
      BY <1>2, <2>2, <3>0, <3>2 DEF PositionInv, PositionOK, SameBatch, Moves
    <3>3. ASSUME NEW q \in 1..Len(req), NEW v \in 1..Len(req), SameBatch(q, v)' PROVE q = v
      <4>1. CASE q # r /\ v # r
        BY <2>2, <3>0, <3>3, <4>1 DEF PositionInv, SameBatch, Moves
      <4> QED  BY <3>2, <3>3, <4>1
    <3> QED  BY <2>2, <3>1, <3>3 DEF PositionInv, Moves
  <2>11. BatchInv'
    <3>1. \A c \in Sessions : \A b : Taken(c, b) => Taken(c, b)'
      BY <1>1, <2>2 DEF Taken, BatchOf, Source, Moves
    <3> QED  BY <1>1, <3>1 DEF BatchInv, BatchOK
  <2>12. LedgerInv'
    <3>1. \A u \in DOMAIN stream' : \A n \in 1..stream'[u].pos :
             (u \in DOMAIN stream /\ n \in 1..stream[u].pos) \/ (u = Source(r) /\ n = m.n)
      <4>1. Source(r) = r /\ t.pos \in 0..1
        BY <1>1, <1>4 DEF Source, Opens
      <4> QED  BY <2>1, <2>2, <4>1
    <3>2. (m.n # 0 => m.kind = "data") /\ req[r].reply.n = 0
      BY <1>2, <1>4 DEF Opens, NoReply
    <3> QED  BY <1>1, <2>2, <3>1, <3>2, ServerLedger
  <2> QED  BY <2>3, <2>4, <2>5, <2>6, <2>7, <2>8, <2>9, <2>10, <2>11, <2>12
<1> QED  BY <1>3, <1>4, ServeInitOpens

-----------------------------------------------------------------------------
(* The client.  A step of session c leaves the server's state alone, may   *)
(* lose a request that no server thread has taken up, and sends n requests. *)
Grows(c, n) ==
    /\ UNCHANGED <<registry, stream, lock>>
    /\ req' \in Seq(RequestRec) /\ Len(req') = Len(req) + n
    /\ \A q \in 1..Len(req) :
          /\ req'[q].op = req[q].op /\ req'[q].by = req[q].by /\ req'[q].who = req[q].who
          /\ req'[q].kind = req[q].kind /\ req'[q].cursor = req[q].cursor /\ req'[q].input = req[q].input
          /\ req'[q].reply = req[q].reply
          /\ req'[q].pc = req[q].pc \/ (req[q].pc = "sent" /\ req'[q].pc = "dropped")
    /\ n = 1 => LET x == req'[Len(req) + 1] IN
          x.pc = "sent" /\ x.reply = NoReply /\ x.by = c /\ Names(x.cursor, x.kind)

(* What the server knows of its streams and requests does not depend on    *)
(* what the clients send.                                                  *)
LEMMA GrowsKeeps ==
    ASSUME IndInv, NEW c \in Sessions, NEW n \in {0, 1}, Grows(c, n)
    PROVE  /\ RequestInv' /\ HeldInv' /\ StreamInv' /\ PositionInv'
           /\ \A q \in 1..Len(req') : Names(req[q].cursor, req[q].kind)' /\ Names(req[q].reply.cursor, req[q].kind)'
<1> USE DEF IndInv
<1>1. /\ Len(req) \in Nat /\ Len(req') \in Nat /\ DOMAIN stream' = DOMAIN stream /\ stream' = stream
      /\ registry' = registry /\ lock' = lock
  BY LenProperties DEF WellTyped, Grows
<1>2. \A q \in 1..Len(req') : q \in 1..Len(req) \/ (n = 1 /\ q = Len(req) + 1)
  BY <1>1 DEF Grows
<1>3. \A q \in 1..Len(req) : q \in 1..Len(req')
  BY <1>1 DEF Grows
<1>4. RequestInv'
  <2>1. ASSUME NEW q \in 1..Len(req) PROVE RequestOK(q)'
    BY <1>1 DEF RequestInv, RequestOK, Grows
  <2>2. ASSUME n = 1, NEW q, q = Len(req) + 1 PROVE RequestOK(q)'
    <3>1. req'[q].pc = "sent" /\ req'[q].reply = NoReply
      BY <2>2 DEF Grows
    <3> QED  BY <3>1 DEF RequestOK
  <2> QED  BY <1>2, <2>1, <2>2 DEF RequestInv
<1>5. HeldInv'
  <2>1. ASSUME NEW s \in DOMAIN stream PROVE HeldOK(s)'
    BY <1>1, <1>3 DEF HeldInv, HeldOK, Grows
  <2> QED  BY <1>1, <2>1 DEF HeldInv
<1>6. StreamInv'
  <2> SUFFICES ASSUME NEW s \in DOMAIN stream PROVE StreamOK(s)'
    BY <1>1 DEF StreamInv
  <2>1. StreamOK(s) /\ s \in 1..Len(req)
    BY DEF WellTyped, StreamInv
  <2>2. ASSUME NEW i \in stream[s].inputs PROVE (i[1] \in 1..Len(req) /\ IsTurn(i[1], i[2], s))'
    <3>1. i[1] \in 1..Len(req) /\ IsTurn(i[1], i[2], s)
      BY <2>1, <2>2 DEF StreamOK
    <3> QED  BY <1>1, <1>3, <3>1 DEF IsTurn, Grows
  <2> QED  BY <1>1, <2>1, <2>2 DEF StreamOK, Grows
<1>7. PositionInv'
  <2>0. \A q \in 1..Len(req) : Source(q)' = Source(q)
    BY DEF Source, Grows
  <2>1. ASSUME NEW q \in 1..Len(req) PROVE PositionOK(q)'
    BY <1>1, <2>0 DEF PositionInv, PositionOK, Grows
  <2>2. ASSUME n = 1 PROVE req'[Len(req) + 1].reply.n = 0
    BY <2>2 DEF Grows, NoReply
  <2>3. ASSUME NEW q \in 1..Len(req'), NEW v \in 1..Len(req'), SameBatch(q, v)' PROVE q = v
    <3>1. q \in 1..Len(req) /\ v \in 1..Len(req)
      BY <1>2, <2>2, <2>3 DEF SameBatch
    <3> QED  BY <2>0, <2>3, <3>1 DEF PositionInv, SameBatch, Grows
  <2>4. ASSUME NEW q \in 1..Len(req') PROVE PositionOK(q)'
    BY <1>2, <2>1, <2>2 DEF PositionOK
  <2> QED  BY <2>3, <2>4 DEF PositionInv
<1>8. ASSUME NEW q \in 1..Len(req')
      PROVE  Names(req[q].cursor, req[q].kind)' /\ Names(req[q].reply.cursor, req[q].kind)'
  <2>1. CASE q \in 1..Len(req)
    BY <1>1, <2>1 DEF KindInv, Names, Grows
  <2>2. CASE n = 1 /\ q = Len(req) + 1
    BY <1>1, <2>2 DEF Grows, Names, NoReply, NoCursor
  <2> QED  BY <1>2, <2>1, <2>2
<1> QED  BY <1>4, <1>5, <1>6, <1>7, <1>8

(* What a session took of an answer stays taken. *)
LEMMA TakenStays ==
    ASSUME IndInv, NEW c \in Sessions, NEW n \in {0, 1}, Grows(c, n), NEW rec \in SessionRec,
           session' = [session EXCEPT ![c] = rec],
           rec.pc = "calling" => rec.call = Len(req) + 1 \/ (session[c].pc = "calling" /\ rec.call = session[c].call)
    PROVE  \A d \in Sessions : \A b : Taken(d, b) => Taken(d, b)'
<1> SUFFICES ASSUME NEW d \in Sessions, NEW b, Taken(d, b) PROVE Taken(d, b)'
  OBVIOUS
<1>1. PICK r \in 1..Len(req) :
        /\ req[r].by = d /\ req[r].pc = "replied" /\ req[r].reply.n # 0 /\ b = BatchOf(r)
        /\ session[d].pc = "calling" => session[d].call # r
  BY DEF Taken
<1>2. Len(req) \in Nat /\ r \in 1..Len(req')
  BY LenProperties DEF IndInv, WellTyped, Grows
<1>3. req'[r].by = d /\ req'[r].pc = "replied" /\ req'[r].reply.n # 0 /\ BatchOf(r)' = BatchOf(r)
  BY <1>1 DEF BatchOf, Source, Grows
<1>4. session'[d].pc = "calling" => session'[d].call # r
  BY <1>1, <1>2 DEF IndInv, WellTyped
<1> QED  BY <1>1, <1>2, <1>3, <1>4 DEF Taken

(* What session c may do to its books in a step that leaves it rec: it     *)
(* forgets no attempt it gave up and no batch, and a call that is over was *)
(* given up or answered.                                                   *)
Books(c, rec) ==
    /\ session[c].lost \subseteq rec.lost /\ Holds(session[c]) \subseteq Holds(rec)
    /\ session[c].pc = "calling" =>
          \/ rec.pc = "calling" /\ rec.call = session[c].call
          \/ session[c].call \in rec.lost
          \/ /\ req[session[c].call].pc = "replied"
             /\ req[session[c].call].reply.n # 0 => BatchOf(session[c].call) \in Holds(rec)
    /\ NothingPending(rec)

(* Such a step mislays nothing. *)
LEMMA SessionLedger ==
    ASSUME IndInv, NEW c \in Sessions, NEW n \in {0, 1}, Grows(c, n), NEW rec \in SessionRec,
           session' = [session EXCEPT ![c] = rec], Books(c, rec),
           n = 1 => rec.pc = "calling" /\ rec.call = Len(req) + 1
    PROVE  LedgerInv'
<1>1. /\ Len(req) \in Nat /\ stream' = stream /\ Len(req') = Len(req) + n
      /\ \A d \in Sessions : d # c => session'[d] = session[d]
      /\ session'[c] = rec
  BY LenProperties DEF IndInv, WellTyped, Grows
<1>2. \A q \in 1..Len(req) :
         /\ q \in 1..Len(req') /\ req'[q].by = req[q].by /\ req'[q].reply = req[q].reply
         /\ Source(q)' = Source(q) /\ (req[q].pc = "replied" => req'[q].pc = "replied")
  BY <1>1 DEF Source, Grows
<1>3. ASSUME NEW q \in 1..Len(req)
      PROVE  Accounted(q)' /\ (req'[q].reply.n # 0 => req'[q].reply.kind = "data")
  <2>1. Accounted(q) /\ (req[q].reply.n # 0 => req[q].reply.kind = "data")
    BY DEF IndInv, LedgerInv
  <2>2. BatchOf(q)' = BatchOf(q)
    BY <1>2 DEF BatchOf
  <2>3. req[q].by \in Sessions
    <3>1. req[q] \in RequestRec
      BY ElementOfSeq DEF IndInv, WellTyped
    <3> QED  BY <3>1 DEF RequestRec
  <2>4. CASE req[q].by # c
    <3>1. session'[req[q].by] = session[req[q].by]
      BY <1>1, <2>3, <2>4
    <3> QED  BY <1>2, <2>1, <2>2, <3>1 DEF Accounted, Awaited
  <2>5. CASE req[q].by = c
    <3>1. CASE Awaited(q)
      BY <1>1, <1>2, <2>1, <2>2, <2>5, <3>1 DEF Accounted, Awaited, Books
    <3>2. CASE q \in session[c].lost
      BY <1>1, <1>2, <2>1, <2>5, <3>2 DEF Accounted, Books
    <3>3. CASE req[q].pc = "replied" /\ (req[q].reply.n # 0 => BatchOf(q) \in Holds(session[c]))
      BY <1>1, <1>2, <2>1, <2>2, <2>5, <3>3 DEF Accounted, Books
    <3> QED  BY <2>1, <2>5, <3>1, <3>2, <3>3 DEF Accounted
  <2> QED  BY <2>4, <2>5
<1>4. ASSUME n = 1, NEW q, q = Len(req) + 1
      PROVE  Accounted(q)' /\ (req'[q].reply.n # 0 => req'[q].reply.kind = "data")
  <2>1. req'[q].by = c /\ req'[q].reply = NoReply
    BY <1>4 DEF Grows
  <2> QED  BY <1>1, <1>4, <2>1 DEF Accounted, Awaited, NoReply
<1>5. \A q \in 1..Len(req') : q \in 1..Len(req) \/ (n = 1 /\ q = Len(req) + 1)
  BY <1>1
<1>6. ASSUME NEW s \in DOMAIN stream, NEW k \in 1..stream[s].pos PROVE GivenOut(s, k)'
  <2>1. PICK q \in 1..Len(req) : Carries(q, s, k)
    BY DEF IndInv, LedgerInv, GivenOut
  <2>2. Carries(q, s, k)' /\ q \in 1..Len(req')
    BY <1>2, <2>1 DEF Carries
  <2> QED  BY <2>2 DEF GivenOut
<1>7. \A d \in Sessions : NothingPending(session'[d])
  BY <1>1 DEF IndInv, LedgerInv, Books
<1> QED  BY <1>1, <1>3, <1>4, <1>5, <1>6, <1>7 DEF LedgerInv

(* What is left to show of a step of session c. *)
LEMMA SessionStepKeeps ==
    ASSUME IndInv, NEW c \in Sessions, NEW n \in {0, 1}, Grows(c, n), NEW rec \in SessionRec,
           session' = [session EXCEPT ![c] = rec],
           rec.pc = "calling" => rec.call = Len(req) + 1 \/ (session[c].pc = "calling" /\ rec.call = session[c].call),
           Names(rec.cursor, rec.kind), \A t \in rec.tokens : t # NoCursor /\ Names(t, "producer"),
           CallOK(c)', BatchOK(c)',
           rec.turn >= session[c].turn, rec.kind = session[c].kind \/ session[c].turn = 0,
           Books(c, rec), n = 1 => rec.pc = "calling" /\ rec.call = Len(req) + 1,
           NEW k, k = Len(req) + 1,
           n = 1 => /\ TurnOK(k)'
                    /\ req'[k].op = "turn" /\ req'[k].kind = "exchange" => req'[k].input[2] > session[c].turn
    PROVE  IndInv'
<1> USE DEF IndInv
<1>1. /\ Len(req) \in Nat /\ stream' = stream
      /\ \A d \in Sessions : d # c => session'[d] = session[d]
      /\ session'[c] = rec /\ session[c] \in SessionRec
  BY LenProperties DEF WellTyped, Grows
<1>0. session[c].turn \in Nat /\ rec.turn \in Nat
  BY <1>1 DEF SessionRec
<1>2. \A q \in 1..Len(req') : q \in 1..Len(req) \/ (n = 1 /\ q = Len(req) + 1)
  BY <1>1 DEF Grows
<1>3. \A q \in 1..Len(req) : q \in 1..Len(req')
  BY <1>1 DEF Grows
<1>4. WellTyped'
  BY <1>1, <1>3 DEF WellTyped, Grows
<1>5. /\ RequestInv' /\ HeldInv' /\ StreamInv' /\ PositionInv'
      /\ \A q \in 1..Len(req') : Names(req[q].cursor, req[q].kind)' /\ Names(req[q].reply.cursor, req[q].kind)'
  BY GrowsKeeps
<1>6. KindInv'
  <2>1. ASSUME NEW d \in Sessions
        PROVE  /\ Names(session[d].cursor, session[d].kind)'
               /\ \A t \in session'[d].tokens : t # NoCursor /\ Names(t, "producer")'
    BY <1>1 DEF KindInv, Names
  <2> QED  BY <1>5, <2>1 DEF KindInv
<1>7. CallInv'
  <2>1. ASSUME NEW d \in Sessions, d # c PROVE CallOK(d)'
    BY <1>1, <1>3, <2>1 DEF CallInv, CallOK, Grows
  <2> QED  BY <2>1 DEF CallInv
<1>8. TurnInv'
  <2>1. ASSUME NEW q \in 1..Len(req) PROVE TurnOK(q)' /\ (TurnOK(q) /\ req[q].by \in Sessions)
    <3>1. req[q] \in RequestRec /\ TurnOK(q)
      BY ElementOfSeq DEF WellTyped, TurnInv
    <3>2. req[q].by \in Sessions /\ session[req[q].by] \in SessionRec
      BY <3>1 DEF RequestRec, WellTyped
    <3>3. CASE req[q].by # c
      BY <1>1, <3>1, <3>2, <3>3 DEF TurnOK, Grows
    <3>4. CASE req[q].by = c
      <4>1. /\ req'[q].op = req[q].op /\ req'[q].by = req[q].by /\ req'[q].kind = req[q].kind
            /\ req'[q].input = req[q].input
        BY DEF Grows
      <4>2. req[q].op = "turn" =>
              /\ req[q].kind = session[c].kind /\ req[q].input[1] = c
              /\ req[q].input[2] \in 1..session[c].turn
        BY <3>1, <3>4 DEF TurnOK
      <4>3. req[q].op = "turn" => req[q].kind = rec.kind /\ req[q].input[2] \in 1..rec.turn
        BY <1>0, <4>2
      <4>4. TurnOK(q)'
        BY <1>1, <3>4, <4>1, <4>2, <4>3 DEF TurnOK
      <4> QED  BY <3>1, <3>2, <4>4
    <3> QED  BY <3>1, <3>2, <3>3, <3>4
  <2>2. ASSUME NEW q \in 1..Len(req') PROVE TurnOK(q)'
    BY <1>2, <2>1
  <2>3. ASSUME n = 1, NEW r \in 1..Len(req) PROVE ~SameTurn(k, r)' /\ ~SameTurn(r, k)'
    <3> DEFINE x == req'[k]
    <3>1. SUFFICES ASSUME x.op = "turn", req[r].op = "turn", x.kind = "exchange" \/ req[r].kind = "exchange",
                          x.input = req[r].input
                   PROVE  FALSE
      BY DEF SameTurn, Grows
    <3>2. x.by = c /\ x.kind = rec.kind /\ x.input[1] = c
      BY <1>1, <2>3, <3>1 DEF TurnOK, Grows
    <3>3. TurnOK(r) /\ TurnOK(r)'
      BY <2>1
    <3>4. req[r].by = c /\ req[r].kind = session[c].kind /\ req[r].input[2] \in 1..session[c].turn
      BY <3>1, <3>2, <3>3 DEF TurnOK
    <3>5. session[c].turn \in Nat /\ session[c].turn # 0
      BY <1>0, <3>4
    <3>6. x.kind = "exchange"
      BY <3>1, <3>2, <3>4, <3>5
    <3>7. x.input[2] > session[c].turn
      BY <2>3, <3>1, <3>6
    <3> QED  BY <3>1, <3>4, <3>5, <3>7
  <2>4. ASSUME NEW q \in 1..Len(req'), NEW r \in 1..Len(req'), SameTurn(q, r)' PROVE q = r
    <3>1. CASE q \in 1..Len(req) /\ r \in 1..Len(req)
      BY <2>4, <3>1 DEF TurnInv, SameTurn, Grows
    <3> QED  BY <1>2, <2>3, <2>4, <3>1
  <2> QED  BY <2>2, <2>4 DEF TurnInv
<1>9. BatchInv'
  <2>1. \A d \in Sessions : \A b : Taken(d, b) => Taken(d, b)'
    BY TakenStays
  <2>2. ASSUME NEW d \in Sessions, d # c PROVE BatchOK(d)'
    BY <1>1, <2>1, <2>2 DEF BatchInv, BatchOK
  <2> QED  BY <2>2 DEF BatchInv
<1>10. LedgerInv'
  BY SessionLedger
<1> QED  BY <1>4, <1>5, <1>6, <1>7, <1>8, <1>9, <1>10

(* A step that gives the session no batch. *)
LEMMA NothingTaken ==
    ASSUME IndInv, NEW c \in Sessions, NEW n \in {0, 1}, Grows(c, n), NEW rec \in SessionRec,
           session' = [session EXCEPT ![c] = rec],
           rec.pc = "calling" => rec.call = Len(req) + 1 \/ (session[c].pc = "calling" /\ rec.call = session[c].call),
           rec.got = session[c].got, rec.pending \in {session[c].pending, <<>>}
    PROVE  BatchOK(c)'
<1>1. \A b : Taken(c, b) => Taken(c, b)'
  BY TakenStays
<1>2. session'[c] = rec /\ BatchOK(c) /\ Len(<<>>) = 0
  BY DEF IndInv, WellTyped, BatchInv
<1>3. CASE rec.pending = session[c].pending
  BY <1>1, <1>2, <1>3 DEF BatchOK
<1>4. CASE rec.pending = <<>>
  BY <1>1, <1>2, <1>4 DEF BatchOK
<1> QED  BY <1>3, <1>4

(* A request is sent: the session's new number is past all earlier ones,   *)
(* and a turn's input past all earlier inputs.                             *)
LEMMA SendKeeps ==
    ASSUME IndInv, NEW c \in Sessions, NEW op \in {"init", "turn", "cancel"}, NEW rec \in SessionRec,
           Send(c, op, rec), UNCHANGED <<registry, stream, lock>>,
           rec.who \in Principals, rec.cursor = session[c].cursor, rec.got = session[c].got,
           rec.tokens = session[c].tokens, rec.pending = <<>>,
           rec.lost = session[c].lost, Holds(session[c]) \subseteq Holds(rec),
           op = "init" => session[c].pc = "new",
           op # "init" => session[c].pc = "open" /\ rec.kind = session[c].kind,
           rec.turn = IF op = "turn" THEN session[c].turn + 1 ELSE session[c].turn
    PROVE  IndInv'
<1> USE DEF IndInv
<1> DEFINE x == [pc |-> "sent", op |-> op, by |-> c, who |-> rec.who, kind |-> rec.kind,
                 cursor |-> rec.cursor, input |-> <<c, rec.turn>>, reply |-> NoReply]
           new == [rec EXCEPT !.pc = "calling", !.call = Len(req) + 1]
<1>1. Len(req) \in Nat /\ session[c] \in SessionRec
  BY LenProperties DEF WellTyped
<1>2. x \in RequestRec
  BY DEF RequestRec, SessionRec, Steps, ReplyRec, NoReply, NoCursor
<1>3. /\ req' \in Seq(RequestRec) /\ Len(req') = Len(req) + 1
      /\ \A q \in 1..Len(req) : req'[q] = req[q]
      /\ req'[Len(req) + 1] = x
  BY <1>1, <1>2, AppendProperties DEF Send, WellTyped
<1>4. /\ new \in SessionRec /\ new.pc = "calling" /\ new.call = Len(req) + 1 /\ new.kind = rec.kind
      /\ new.who = rec.who /\ new.cursor = rec.cursor /\ new.turn = rec.turn /\ new.got = rec.got
      /\ new.tokens = rec.tokens /\ new.pending = rec.pending /\ new.lost = rec.lost
      /\ new.dropped = rec.dropped
  <2>1. PICK k \in Nat : k = Len(req) + 1
    BY <1>1
  <2>2. [rec EXCEPT !.pc = "calling", !.call = k] \in SessionRec
    BY DEF SessionRec
  <2>3. new = [rec EXCEPT !.pc = "calling", !.call = k]
    BY <2>1
  <2> QED  BY <2>2, <2>3 DEF SessionRec
<1>5. session' = [session EXCEPT ![c] = new]
  BY DEF Send, NextRequest
<1>6. PICK s \in SessionRec : s = new
  BY <1>4
<1>7. session'[c] = s /\ session' = [session EXCEPT ![c] = s]
  BY <1>5, <1>6 DEF WellTyped
<1>8. PICK k \in Nat : k = Len(req) + 1
  BY <1>1
<1>9. op = "init" => session[c].turn = 0 /\ session[c].cursor = NoCursor
  BY DEF CallInv, CallOK
<1>10. Names(s.cursor, s.kind)
  BY <1>4, <1>6, <1>9 DEF KindInv, Names
<1>11. /\ req'[k].pc = "sent" /\ req'[k].op = op /\ req'[k].by = c /\ req'[k].kind = s.kind
       /\ req'[k].cursor = s.cursor /\ req'[k].reply = NoReply /\ req'[k].input = <<c, s.turn>>
       /\ s.pc = "calling" /\ s.call = k
  BY <1>3, <1>4, <1>6, <1>8
<1>12. Grows(c, 1)
  BY <1>3, <1>8, <1>10, <1>11 DEF Grows
<1>13. CallOK(c)'
  BY <1>1, <1>3, <1>4, <1>6, <1>7, <1>8, <1>9, <1>11 DEF CallOK
<1>14. BatchOK(c)'
  <2>1. s.got = session[c].got /\ s.pending = <<>>
    BY <1>4, <1>6
  <2>2. s.pc = "calling" => s.call = Len(req) + 1
    BY <1>8, <1>11
  <2> QED  BY <1>7, <1>12, <2>1, <2>2, NothingTaken
<1>15. /\ s.turn \in Nat /\ session[c].turn \in Nat /\ s.turn >= session[c].turn
       /\ op = "turn" => s.turn > session[c].turn
  <2>1. s.turn \in Nat /\ session[c].turn \in Nat
    BY <1>1 DEF SessionRec
  <2> QED  BY <1>4, <1>6, <2>1
<1>16. TurnOK(k)' /\ (op = "turn" => req'[k].input[2] > session[c].turn)
  <2>1. req'[k].input[1] = c /\ req'[k].input[2] = s.turn
    BY <1>11
  <2> QED  BY <1>7, <1>11, <1>15, <2>1 DEF TurnOK
<1>17. \A t \in s.tokens : t # NoCursor /\ Names(t, "producer")
  BY <1>4, <1>6 DEF KindInv
<1>18. s.kind = session[c].kind \/ session[c].turn = 0
  BY <1>4, <1>6, <1>9
<1>19. Books(c, s) /\ s.pc = "calling" /\ s.call = Len(req) + 1
  <2>1. Holds(s) = Holds(rec) /\ s.lost = session[c].lost /\ s.pending = <<>>
    BY <1>4, <1>6 DEF Holds
  <2>2. session[c].pc # "calling"
    OBVIOUS
  <2> QED  BY <1>4, <1>6, <2>1, <2>2 DEF Books, NothingPending
<1> QED  BY <1>7, <1>8, <1>10, <1>11, <1>12, <1>13, <1>14, <1>15, <1>16, <1>17, <1>18, <1>19, SessionStepKeeps

(* What a session discards is on its books. *)
LEMMA DiscardFacts ==
    ASSUME NEW s \in SessionRec
    PROVE  /\ Discard(s) \in SessionRec /\ Discard(s).pc = s.pc /\ Discard(s).kind = s.kind
           /\ Discard(s).who = s.who /\ Discard(s).cursor = s.cursor /\ Discard(s).got = s.got
           /\ Discard(s).turn = s.turn /\ Discard(s).tokens = s.tokens /\ Discard(s).lost = s.lost
           /\ Discard(s).pending = <<>> /\ Holds(s) \subseteq Holds(Discard(s))
<1>1. s.pending \in Seq(Batch) /\ s.dropped \subseteq Batch /\ <<>> \in Seq(Batch)
  BY EmptySeq DEF SessionRec
<1>2. Range(s.pending) \subseteq Batch
  BY <1>1, ElementOfSeq DEF Range
<1>3. PICK d \in SUBSET Batch : d = s.dropped \cup Range(s.pending)
  BY <1>1, <1>2
<1>4. Discard(s) = [s EXCEPT !.pending = <<>>, !.dropped = d]
  BY <1>3 DEF Discard, SessionRec
<1>5. [s EXCEPT !.pending = <<>>, !.dropped = d] \in SessionRec
  BY <1>1 DEF SessionRec
<1>6. /\ Discard(s).pc = s.pc /\ Discard(s).kind = s.kind
      /\ Discard(s).who = s.who /\ Discard(s).cursor = s.cursor /\ Discard(s).got = s.got
      /\ Discard(s).turn = s.turn /\ Discard(s).tokens = s.tokens /\ Discard(s).lost = s.lost
      /\ Discard(s).pending = <<>> /\ Discard(s).dropped = d
  BY <1>4 DEF SessionRec
<1> QED  BY <1>3, <1>4, <1>5, <1>6 DEF Holds

(* open_producer() sends /init and waits for its answer. *)
LEMMA OpenProducerKeeps ==
    ASSUME IndInv, NEW c \in Sessions, NEW who \in Principals, OpenProducer(c, who) PROVE IndInv'
<1> DEFINE rec == [session[c] EXCEPT !.kind = "producer", !.who = who, !.tries = 1]
<1>1. session[c] \in SessionRec /\ session[c].pending = <<>>
  BY DEF IndInv, WellTyped, LedgerInv, NothingPending, OpenProducer
<1>2. /\ rec \in SessionRec /\ rec.who \in Principals /\ rec.cursor = session[c].cursor
      /\ rec.got = session[c].got /\ rec.tokens = session[c].tokens /\ rec.pending = session[c].pending
      /\ rec.turn = session[c].turn /\ rec.lost = session[c].lost /\ rec.dropped = session[c].dropped
  BY <1>1 DEF SessionRec, Kinds
<1>3. Holds(rec) = Holds(session[c])
  BY <1>2 DEF Holds
<1> QED  BY <1>1, <1>2, <1>3, SendKeeps DEF OpenProducer

(* open_exchange() sends /init of an exchange. *)
LEMMA OpenExchangeKeeps ==
    ASSUME IndInv, NEW c \in Sessions, NEW who \in Principals, OpenExchange(c, who) PROVE IndInv'
<1> DEFINE rec == [session[c] EXCEPT !.kind = "exchange", !.who = who, !.tries = 1]
<1>1. session[c] \in SessionRec /\ session[c].pending = <<>>
  BY DEF IndInv, WellTyped, LedgerInv, NothingPending, OpenExchange
<1>2. /\ rec \in SessionRec /\ rec.who \in Principals /\ rec.cursor = session[c].cursor
      /\ rec.got = session[c].got /\ rec.tokens = session[c].tokens /\ rec.pending = session[c].pending
      /\ rec.turn = session[c].turn /\ rec.lost = session[c].lost /\ rec.dropped = session[c].dropped
  BY <1>1 DEF SessionRec, Kinds
<1>3. Holds(rec) = Holds(session[c])
  BY <1>2 DEF Holds
<1> QED  BY <1>1, <1>2, <1>3, SendKeeps DEF OpenExchange

(* tick() with nothing pending sends a continuation of its own cursor. *)
LEMMA TickKeeps ==
    ASSUME IndInv, NEW c \in Sessions, Tick(c) PROVE IndInv'
<1> DEFINE rec == [session[c] EXCEPT !.turn = session[c].turn + 1, !.tries = 1]
<1>1. /\ session[c] \in SessionRec /\ session[c].pc = "open" /\ session[c].who \in Principals
      /\ session[c].pending = <<>>
  BY DEF IndInv, WellTyped, CallInv, CallOK, LedgerInv, NothingPending, Tick
<1>2. /\ rec \in SessionRec /\ rec.who = session[c].who /\ rec.cursor = session[c].cursor
      /\ rec.got = session[c].got /\ rec.tokens = session[c].tokens /\ rec.pending = session[c].pending
      /\ rec.turn = session[c].turn + 1 /\ rec.kind = session[c].kind
      /\ rec.lost = session[c].lost /\ rec.dropped = session[c].dropped
  <2>1. session[c].turn + 1 \in Nat
    BY <1>1 DEF SessionRec
  <2> QED  BY <1>1, <2>1 DEF SessionRec
<1>3. Send(c, "turn", rec)
  BY DEF Tick
<1>4. Holds(rec) = Holds(session[c])
  BY <1>2 DEF Holds
<1> QED  BY <1>1, <1>2, <1>3, <1>4, SendKeeps DEF Tick

(* exchange() sends an input that no earlier request carried. *)
LEMMA ExchangeKeeps ==
    ASSUME IndInv, NEW c \in Sessions, Exchange(c) PROVE IndInv'
<1> DEFINE rec == [session[c] EXCEPT !.turn = session[c].turn + 1, !.tries = 1, !.closed = TRUE]
<1>1. /\ session[c] \in SessionRec /\ session[c].pc = "open" /\ session[c].who \in Principals
      /\ session[c].pending = <<>>
  BY DEF IndInv, WellTyped, CallInv, CallOK, LedgerInv, NothingPending, Exchange
<1>2. /\ rec \in SessionRec /\ rec.who = session[c].who /\ rec.cursor = session[c].cursor
      /\ rec.got = session[c].got /\ rec.tokens = session[c].tokens /\ rec.pending = session[c].pending
      /\ rec.turn = session[c].turn + 1 /\ rec.kind = session[c].kind
      /\ rec.lost = session[c].lost /\ rec.dropped = session[c].dropped
  <2>1. session[c].turn + 1 \in Nat
    BY <1>1 DEF SessionRec
  <2> QED  BY <1>1, <2>1 DEF SessionRec
<1>3. Send(c, "turn", rec)
  BY DEF Exchange
<1>4. Holds(rec) = Holds(session[c])
  BY <1>2 DEF Holds
<1> QED  BY <1>1, <1>2, <1>3, <1>4, SendKeeps DEF Exchange

(* cancel() of a producer sends the cursor it holds. *)
LEMMA CancelKeeps ==
    ASSUME IndInv, NEW c \in Sessions, Cancel(c) PROVE IndInv'
<1>1. session[c] \in SessionRec /\ session[c].pc = "open" /\ session[c].who \in Principals
  BY DEF IndInv, WellTyped, CallInv, CallOK, Cancel
<1>2. PICK d \in SessionRec : d = Discard(session[c])
  BY <1>1, DiscardFacts
<1> DEFINE rec == [d EXCEPT !.closed = TRUE, !.tries = 1]
<1>3. /\ rec \in SessionRec /\ rec.who = d.who /\ rec.cursor = d.cursor
      /\ rec.got = d.got /\ rec.tokens = d.tokens /\ rec.pending = d.pending
      /\ rec.turn = d.turn /\ rec.kind = d.kind /\ rec.lost = d.lost /\ rec.dropped = d.dropped
  BY DEF SessionRec
<1>4. Holds(rec) = Holds(d)
  BY <1>3 DEF Holds
<1>5. /\ d.kind = session[c].kind /\ d.who = session[c].who /\ d.cursor = session[c].cursor
      /\ d.got = session[c].got /\ d.turn = session[c].turn /\ d.tokens = session[c].tokens
      /\ d.lost = session[c].lost /\ d.pending = <<>> /\ Holds(session[c]) \subseteq Holds(d)
  BY <1>1, <1>2, DiscardFacts
<1>6. Send(c, "cancel", rec)
  BY <1>2 DEF Cancel
<1> HIDE DEF rec
<1> QED  BY <1>1, <1>3, <1>4, <1>5, <1>6, SendKeeps DEF Cancel

(* cancel() of an exchange, likewise. *)
LEMMA CancelExchangeKeeps ==
    ASSUME IndInv, NEW c \in Sessions, CancelExchange(c) PROVE IndInv'
<1> DEFINE rec == [session[c] EXCEPT !.closed = TRUE, !.tries = 1]
<1>1. /\ session[c] \in SessionRec /\ session[c].pc = "open" /\ session[c].who \in Principals
      /\ session[c].pending = <<>>
  BY DEF IndInv, WellTyped, CallInv, CallOK, LedgerInv, NothingPending, CancelExchange
<1>2. /\ rec \in SessionRec /\ rec.who = session[c].who /\ rec.cursor = session[c].cursor
      /\ rec.got = session[c].got /\ rec.tokens = session[c].tokens /\ rec.pending = session[c].pending
      /\ rec.turn = session[c].turn /\ rec.kind = session[c].kind
      /\ rec.lost = session[c].lost /\ rec.dropped = session[c].dropped
  BY <1>1 DEF SessionRec
<1>3. Send(c, "cancel", rec)
  BY DEF CancelExchange
<1>4. Holds(rec) = Holds(session[c])
  BY <1>2 DEF Holds
<1> QED  BY <1>1, <1>2, <1>3, <1>4, SendKeeps DEF CancelExchange

(* A step that sends nothing and leaves no call in progress. *)
LEMMA LocalKeeps ==
    ASSUME IndInv, NEW c \in Sessions, Grows(c, 0), NEW rec \in SessionRec,
           session' = [session EXCEPT ![c] = rec],
           rec.pc \in {"new", "open"}, rec.pc = "open" => rec.who \in Principals,
           rec.pc = "new" => rec.turn = 0 /\ rec.cursor = NoCursor,
           Names(rec.cursor, rec.kind), \A t \in rec.tokens : t # NoCursor /\ Names(t, "producer"),
           rec.turn = session[c].turn, rec.kind = session[c].kind \/ session[c].turn = 0,
           BatchOK(c)', Books(c, rec)
    PROVE  IndInv'
<1>1. session'[c] = rec /\ session[c] \in SessionRec /\ Len(req) \in Nat
  BY LenProperties DEF IndInv, WellTyped
<1>2. CallOK(c)'
  BY <1>1 DEF CallOK
<1>3. rec.turn >= session[c].turn
  BY <1>1 DEF SessionRec
<1>4. PICK k \in Nat : k = Len(req) + 1
  BY <1>1
<1>5. 0 \in {0, 1} /\ 0 # 1 /\ rec.pc # "calling"
  OBVIOUS
<1> QED  BY <1>2, <1>3, <1>4, <1>5, SessionStepKeeps

(* A step that adds no request extends the requests by none. *)
LEMMA StillGrows ==
    ASSUME IndInv, NEW c \in Sessions, UNCHANGED <<registry, stream, lock, req>> PROVE Grows(c, 0)
BY LenProperties DEF IndInv, WellTyped, Grows

(* resume() takes a cursor over and has received nothing yet. *)
LEMMA ResumeKeeps ==
    ASSUME IndInv, NEW c \in Sessions, NEW who \in Principals, NEW t \in Tokens, Resume(c, who, t) PROVE IndInv'
<1> DEFINE rec == [session[c] EXCEPT !.pc = "open", !.kind = "producer", !.who = who, !.cursor = t]
<1>1. session[c] \in SessionRec /\ session[c].pc = "new" /\ Grows(c, 0)
  BY StillGrows DEF IndInv, WellTyped, Resume
<1>2. t \in Nat /\ Names(t, "producer") /\ session[c].turn = 0
  <2>1. PICK d \in Sessions : t \in session[d].tokens
    BY DEF Tokens
  <2>2. session[d] \in SessionRec
    BY DEF IndInv, WellTyped
  <2> QED  BY <1>1, <2>1, <2>2 DEF IndInv, KindInv, CallInv, CallOK, SessionRec
<1>3. /\ rec \in SessionRec /\ rec.pc = "open" /\ rec.kind = "producer" /\ rec.who = who /\ rec.cursor = t
      /\ rec.got = session[c].got /\ rec.tokens = session[c].tokens /\ rec.pending = session[c].pending
      /\ rec.turn = session[c].turn /\ rec.lost = session[c].lost /\ rec.dropped = session[c].dropped
  BY <1>1, <1>2 DEF SessionRec, Kinds
<1>4. session' = [session EXCEPT ![c] = rec]
  BY <1>1 DEF Resume, SessionRec, IndInv, WellTyped
<1>5. BatchOK(c)'
  BY <1>1, <1>3, <1>4, NothingTaken
<1>6. \A u \in rec.tokens : u # NoCursor /\ Names(u, "producer")
  BY <1>3 DEF IndInv, KindInv
<1> HIDE DEF rec
<1>7. Books(c, rec)
  BY <1>1, <1>3 DEF Books, Holds, NothingPending
<1> QED  BY <1>1, <1>2, <1>3, <1>4, <1>5, <1>6, <1>7, LocalKeeps

(* seek() moves a session to another cursor without a request. *)
LEMMA SeekKeeps ==
    ASSUME IndInv, NEW c \in Sessions, NEW t \in session[c].tokens, Seek(c, t) PROVE IndInv'
<1>1. /\ session[c] \in SessionRec /\ session[c].pc = "open" /\ session[c].kind = "producer" /\ Grows(c, 0)
      /\ session[c].who \in Principals
  BY StillGrows DEF IndInv, WellTyped, CallInv, CallOK, Seek
<1>2. t \in Nat /\ Names(t, "producer")
  BY <1>1 DEF IndInv, KindInv, SessionRec
<1>3. PICK d \in SessionRec : d = Discard(session[c])
  BY <1>1, DiscardFacts
<1>4. /\ d.pc = "open" /\ d.kind = "producer" /\ d.who = session[c].who
      /\ d.got = session[c].got /\ d.turn = session[c].turn /\ d.tokens = session[c].tokens
      /\ d.lost = session[c].lost /\ d.pending = <<>> /\ Holds(session[c]) \subseteq Holds(d)
  BY <1>1, <1>3, DiscardFacts
<1> DEFINE rec == [d EXCEPT !.cursor = t, !.finished = FALSE]
<1>5. /\ rec \in SessionRec /\ rec.pc = d.pc /\ rec.kind = d.kind /\ rec.who = d.who /\ rec.cursor = t
      /\ rec.got = d.got /\ rec.tokens = d.tokens /\ rec.pending = d.pending
      /\ rec.turn = d.turn /\ rec.lost = d.lost /\ rec.dropped = d.dropped
  BY <1>2 DEF SessionRec
<1>6. session' = [session EXCEPT ![c] = rec]
  BY <1>3 DEF Seek
<1> HIDE DEF rec
<1>7. BatchOK(c)'
  BY <1>1, <1>4, <1>5, <1>6, NothingTaken
<1>8. \A u \in rec.tokens : u # NoCursor /\ Names(u, "producer")
  BY <1>4, <1>5 DEF IndInv, KindInv
<1>9. Books(c, rec)
  <2>1. Holds(rec) = Holds(d)
    BY <1>5 DEF Holds
  <2> QED  BY <1>1, <1>4, <1>5, <2>1 DEF Books, NothingPending
<1> QED  BY <1>1, <1>2, <1>4, <1>5, <1>6, <1>7, <1>8, <1>9, LocalKeeps

(* close() forgets the session's state without a request. *)
LEMMA CloseKeeps ==
    ASSUME IndInv, NEW c \in Sessions, Close(c) PROVE IndInv'
<1>1. /\ session[c] \in SessionRec /\ session[c].pc = "open" /\ Grows(c, 0)
      /\ session[c].who \in Principals
  BY StillGrows DEF IndInv, WellTyped, CallInv, CallOK, Close
<1>2. PICK d \in SessionRec : d = Discard(session[c])
  BY <1>1, DiscardFacts
<1>3. /\ d.pc = "open" /\ d.kind = session[c].kind /\ d.who = session[c].who /\ d.cursor = session[c].cursor
      /\ d.got = session[c].got /\ d.turn = session[c].turn /\ d.tokens = session[c].tokens
      /\ d.lost = session[c].lost /\ d.pending = <<>> /\ Holds(session[c]) \subseteq Holds(d)
  BY <1>1, <1>2, DiscardFacts
<1> DEFINE rec == [d EXCEPT !.closed = TRUE]
<1>4. /\ rec \in SessionRec /\ rec.pc = d.pc /\ rec.kind = d.kind /\ rec.who = d.who /\ rec.cursor = d.cursor
      /\ rec.got = d.got /\ rec.tokens = d.tokens /\ rec.pending = d.pending
      /\ rec.turn = d.turn /\ rec.lost = d.lost /\ rec.dropped = d.dropped
  BY DEF SessionRec
<1>5. session' = [session EXCEPT ![c] = rec]
  BY <1>2 DEF Close
<1> HIDE DEF rec
<1>6. BatchOK(c)'
  BY <1>1, <1>3, <1>4, <1>5, NothingTaken
<1>7. Names(rec.cursor, rec.kind) /\ \A u \in rec.tokens : u # NoCursor /\ Names(u, "producer")
  BY <1>3, <1>4 DEF IndInv, KindInv
<1>8. Books(c, rec)
  <2>1. Holds(rec) = Holds(d)
    BY <1>4 DEF Holds
  <2> QED  BY <1>1, <1>3, <1>4, <2>1 DEF Books, NothingPending
<1> QED  BY <1>1, <1>3, <1>4, <1>5, <1>6, <1>7, <1>8, LocalKeeps

(* What was pending is returned once: it leaves pending and joins got. *)
LEMMA TickPendingKeeps ==
    ASSUME IndInv, NEW c \in Sessions, TickPending(c) PROVE IndInv'
<1> DEFINE b == session[c].pending[1]
           tokens == (session[c].tokens \cup {session[c].cursor}) \ {NoCursor}
           rec == [session[c] EXCEPT !.pending = <<>>, !.got = Append(session[c].got, b), !.tokens = tokens]
<1>1. /\ session[c] \in SessionRec /\ session[c].pc = "open" /\ session[c].kind = "producer" /\ Grows(c, 0)
      /\ session[c].who \in Principals /\ session[c].pending # <<>>
  BY StillGrows DEF IndInv, WellTyped, CallInv, CallOK, TickPending
<1>2. /\ session[c].pending \in Seq(Batch) /\ session[c].got \in Seq(Batch)
      /\ session[c].tokens \subseteq Nat /\ session[c].cursor \in Nat
  BY <1>1 DEF SessionRec
<1>3. 1 \in 1..Len(session[c].pending) /\ b \in Batch /\ <<>> \in Seq(Batch)
  BY <1>1, <1>2, EmptySeq, ElementOfSeq
<1>4. /\ Append(session[c].got, b) \in Seq(Batch)
      /\ Len(Append(session[c].got, b)) = Len(session[c].got) + 1
      /\ \A i \in 1..Len(session[c].got) : Append(session[c].got, b)[i] = session[c].got[i]
      /\ Append(session[c].got, b)[Len(session[c].got) + 1] = b
      /\ Len(session[c].got) \in Nat /\ Len(<<>>) = 0
  BY <1>2, <1>3, AppendProperties, LenProperties
<1>5. tokens \in SUBSET Nat
  BY <1>2
<1>6. /\ rec \in SessionRec /\ rec.pc = "open" /\ rec.kind = session[c].kind /\ rec.who = session[c].who
      /\ rec.cursor = session[c].cursor
      /\ rec.got = Append(session[c].got, b) /\ rec.tokens = tokens /\ rec.pending = <<>>
      /\ rec.turn = session[c].turn /\ rec.lost = session[c].lost /\ rec.dropped = session[c].dropped
  <2> HIDE DEF tokens, b
  <2> QED  BY <1>1, <1>3, <1>4, <1>5 DEF SessionRec
<1>7. session' = [session EXCEPT ![c] = rec]
  <2>1. session' = [session EXCEPT ![c].pending = <<>>, ![c].got = Append(@, b),
                     ![c].tokens = (@ \cup {session[c].cursor}) \ {NoCursor}]
    BY DEF TickPending
  <2> QED  BY <1>1, <2>1 DEF SessionRec, IndInv, WellTyped
<1>8. BatchOK(c)'
  <2>1. \A d : Taken(c, d) => Taken(c, d)'
    BY <1>1, <1>6, <1>7, TakenStays
  <2>2. BatchOK(c) /\ session'[c] = rec
    BY <1>7 DEF IndInv, BatchInv, WellTyped
  <2>3. Taken(c, b) /\ \A i \in 1..Len(session[c].got) : session[c].got[i] # b
    BY <1>3, <2>2 DEF BatchOK
  <2> HIDE DEF rec, b
  <2>4. PICK got \in Seq(Batch) : got = Append(session[c].got, b)
    BY <1>4
  <2>5. PICK l \in Nat : l = Len(session[c].got)
    BY <1>4
  <2>6. Len(got) = l + 1 /\ \A i \in 1..Len(got) : i \in 1..l \/ i = l + 1
    BY <1>4, <2>4, <2>5
  <2>7. \A i \in 1..Len(got) : Taken(c, got[i])
    BY <1>4, <2>2, <2>3, <2>4, <2>5, <2>6 DEF BatchOK
  <2>8. \A i, j \in 1..Len(got) : got[i] = got[j] => i = j
    BY <1>4, <2>2, <2>3, <2>4, <2>5, <2>6 DEF BatchOK
  <2>9. session'[c].got = got /\ session'[c].pending = <<>>
    BY <1>6, <2>2, <2>4
  <2> QED  BY <1>4, <2>1, <2>7, <2>8, <2>9 DEF BatchOK
<1>9. Names(rec.cursor, rec.kind) /\ \A u \in rec.tokens : u # NoCursor /\ Names(u, "producer")
  BY <1>1, <1>6 DEF IndInv, KindInv
<1> HIDE DEF rec
<1>10. Books(c, rec)
  <2>1. Range(session[c].pending) = {b}
    <3>1. BatchOK(c)
      BY DEF IndInv, BatchInv
    <3>2. Len(session[c].pending) = 1
      <4>1. PICK l \in Nat : l = Len(session[c].pending)
        BY <1>2, LenProperties
      <4>2. l <= 1 /\ 1 \in 1..l
        BY <1>3, <3>1, <4>1 DEF BatchOK
      <4>3. l = 1
        BY <4>2
      <4> QED  BY <4>1, <4>3
    <3> QED  BY <1>2, <3>2, LenProperties DEF Range
  <2>2. PICK g \in Seq(Batch) : g = Append(session[c].got, b)
    BY <1>4
  <2>3. Range(session[c].got) \cup {b} \subseteq Range(g)
    <3>1. DOMAIN session[c].got = 1..Len(session[c].got) /\ DOMAIN g = 1..Len(g)
      BY <1>2, LenProperties
    <3>2. Len(session[c].got) + 1 \in DOMAIN g /\ \A i \in DOMAIN session[c].got : i \in DOMAIN g
      BY <1>4, <2>2, <3>1
    <3> HIDE DEF b
    <3>3. b \in Range(g)
      BY <1>4, <2>2, <3>2 DEF Range
    <3>4. \A i \in DOMAIN session[c].got : session[c].got[i] \in Range(g)
      BY <1>4, <2>2, <3>1, <3>2 DEF Range
    <3> QED  BY <3>3, <3>4 DEF Range
  <2> HIDE DEF b
  <2>4. Holds(session[c]) \subseteq Holds(rec)
    BY <1>6, <2>1, <2>2, <2>3 DEF Holds
  <2> QED  BY <1>1, <1>6, <2>4 DEF Books, NothingPending
<1> QED  BY <1>1, <1>6, <1>7, <1>8, <1>9, <1>10, LocalKeeps

(* The batch of the call in progress is none the session already has. *)
LEMMA AnswerIsFresh ==
    ASSUME IndInv, NEW c \in Sessions, session[c].pc = "calling", NEW r, r = session[c].call,
           req[r].reply.n # 0, NEW b, Taken(c, b)
    PROVE  b # BatchOf(r)
<1>1. r \in 1..Len(req)
  BY DEF IndInv, CallInv, CallOK
<1>2. PICK q \in 1..Len(req) : req[q].reply.n # 0 /\ b = BatchOf(q) /\ q # r
  BY DEF Taken
<1>3. b = BatchOf(r) => SameBatch(q, r)
  BY <1>2 DEF BatchOf, SameBatch
<1> QED  BY <1>1, <1>2, <1>3 DEF IndInv, PositionInv

(* The answer to the call is taken as the call ends. *)
LEMMA AnswerTaken ==
    ASSUME IndInv, NEW c \in Sessions, session[c].pc = "calling", NEW r, r = session[c].call,
           req[r].pc = "replied", req[r].reply.n # 0, UNCHANGED req, session'[c].pc # "calling",
           NEW b, b = BatchOf(r)
    PROVE  Taken(c, b)'
<1>1. r \in 1..Len(req) /\ req[r].by = c
  BY DEF IndInv, CallInv, CallOK
<1> QED  BY <1>1 DEF Taken, BatchOf, Source

(* An answer is taken at most once, and brings a batch nobody has yet. *)
LEMMA ReceiveKeeps ==
    ASSUME IndInv, NEW c \in Sessions, Receive(c) PROVE IndInv'
<1>0. /\ session[c].pc = "calling" /\ req[session[c].call].pc = "replied"
      /\ UNCHANGED <<registry, stream, lock, req>>
  BY DEF Receive
<1>1. PICK r \in 1..Len(req) : r = session[c].call
  BY <1>0 DEF IndInv, CallInv, CallOK
<1> DEFINE s == session[c]
           m == req[r].reply
<1>2. s \in SessionRec /\ req[r] \in RequestRec /\ Grows(c, 0) /\ s.who \in Principals
      /\ req[r].kind = s.kind /\ (req[r].op = "init" => s.turn = 0 /\ s.cursor = NoCursor)
  BY <1>0, <1>1, StillGrows, ElementOfSeq DEF IndInv, WellTyped, CallInv, CallOK
<1>3. m \in ReplyRec /\ s.got \in Seq(Batch) /\ s.pending \in Seq(Batch) /\ <<>> \in Seq(Batch)
  BY <1>2, EmptySeq DEF RequestRec, SessionRec
<1>4. PICK batch \in Seq(Batch) :
        batch = IF m.n = 0 THEN <<>> ELSE <<[stream |-> IF req[r].op = "init" THEN r ELSE req[r].cursor, n |-> m.n]>>
  <2>1. r \in Nat /\ req[r].cursor \in Nat /\ m.n \in Nat
    BY <1>2, <1>3 DEF RequestRec, ReplyRec
  <2>2. [stream |-> IF req[r].op = "init" THEN r ELSE req[r].cursor, n |-> m.n] \in Batch
    BY <2>1 DEF Batch
  <2>3. PICK b \in Batch : b = [stream |-> IF req[r].op = "init" THEN r ELSE req[r].cursor, n |-> m.n]
    BY <2>2
  <2>4. <<b>> \in Seq(Batch)
    OBVIOUS
  <2> QED  BY <1>3, <2>3, <2>4
<1>5. batch = <<>> \/ (m.n # 0 /\ batch = <<BatchOf(r)>>)
  BY <1>4 DEF BatchOf, Source
<1> DEFINE pc == IF req[r].op = "init" THEN "new" ELSE "open"
           finished == m.cursor = NoCursor
<1>6. /\ Names(s.cursor, s.kind) /\ Names(m.cursor, s.kind) /\ m.cursor \in Nat
      /\ \A u \in s.tokens : u # NoCursor /\ Names(u, "producer")
  BY <1>2, <1>3 DEF IndInv, KindInv, ReplyRec
<1>7. PICK rec : session' = [session EXCEPT ![c] = rec] /\ rec =
         IF m.kind # "data" THEN [s EXCEPT !.pc = pc]
         ELSE IF s.kind = "producer"
           THEN [s EXCEPT !.pc = "open", !.pending = batch, !.cursor = m.cursor, !.finished = finished]
         ELSE IF req[r].op = "turn" /\ batch = <<>>
           THEN [s EXCEPT !.pc = "open", !.finished = TRUE]
           ELSE [s EXCEPT !.pc = "open", !.got = s.got \o batch, !.cursor = m.cursor, !.closed = FALSE]
  BY <1>1, <1>4 DEF Receive
<1>8. session'[c] = rec /\ BatchOK(c)
  BY <1>7 DEF IndInv, WellTyped, BatchInv
<1>clear. (m.n # 0 => m.kind = "data") /\ s.pending = <<>>
  BY <1>0 DEF IndInv, LedgerInv, NothingPending
<1>9. CASE m.kind # "data"
  <2>1. /\ rec \in SessionRec /\ rec.pc = pc /\ rec.pc \in {"new", "open"} /\ rec.kind = s.kind /\ rec.who = s.who
        /\ rec.cursor = s.cursor /\ rec.got = s.got /\ rec.tokens = s.tokens /\ rec.pending = s.pending
        /\ rec.turn = s.turn /\ rec.lost = s.lost /\ rec.dropped = s.dropped
    BY <1>2, <1>7, <1>9 DEF SessionRec
  <2>2. BatchOK(c)'
    BY <1>2, <1>7, <2>1, NothingTaken
  <2>3. rec.pc = "new" => rec.turn = 0 /\ rec.cursor = NoCursor
    BY <1>2, <2>1
  <2> HIDE DEF pc
  <2>4. Books(c, rec)
    <3>1. Holds(rec) = Holds(s) /\ rec.lost = s.lost /\ NothingPending(rec)
      BY <1>clear, <2>1 DEF Holds, NothingPending
    <3> QED  BY <1>0, <1>1, <1>9, <1>clear, <3>1 DEF Books
  <2> QED  BY <1>2, <1>6, <1>7, <2>1, <2>2, <2>3, <2>4, LocalKeeps
<1>10. CASE m.kind = "data" /\ s.kind = "producer"
  <2>1. finished \in BOOLEAN
    OBVIOUS
  <2>2. /\ rec \in SessionRec /\ rec.pc = "open" /\ rec.kind = s.kind /\ rec.who = s.who
        /\ rec.cursor = m.cursor /\ rec.got = s.got /\ rec.tokens = s.tokens /\ rec.pending = batch
        /\ rec.turn = s.turn /\ rec.lost = s.lost /\ rec.dropped = s.dropped
    <3> HIDE DEF finished
    <3> QED  BY <1>2, <1>6, <1>7, <1>10, <2>1 DEF SessionRec
  <2>3. BatchOK(c)'
    <3>1. \A b : Taken(c, b) => Taken(c, b)'
      BY <1>2, <1>7, <2>2, TakenStays
    <3>2. CASE batch = <<>>
      BY <1>2, <1>7, <2>2, <3>2, NothingTaken
    <3>3. CASE m.n # 0 /\ batch = <<BatchOf(r)>>
      <4>1. PICK b : b = BatchOf(r)
        OBVIOUS
      <4>2. Taken(c, b)'
        BY <1>0, <1>1, <1>8, <2>2, <3>3, <4>1, AnswerTaken
      <4>3. \A i \in 1..Len(s.got) : s.got[i] # b
        BY <1>0, <1>1, <1>8, <3>3, <4>1, AnswerIsFresh DEF BatchOK
      <4>4. Len(batch) = 1 /\ batch[1] = b
        BY <3>3, <4>1
      <4>5. PICK g : g = s.got
        OBVIOUS
      <4>6. session'[c].got = g /\ session'[c].pending = batch
        BY <1>8, <2>2, <4>5
      <4>7. \A i \in 1..Len(batch) : batch[i] = b
        BY <4>4
      <4>8. \A i \in 1..Len(g) : Taken(c, g[i])' /\ g[i] # b
        BY <1>8, <3>1, <4>3, <4>5 DEF BatchOK
      <4>9. \A i, j \in 1..Len(g) : g[i] = g[j] => i = j
        BY <1>8, <4>5 DEF BatchOK
      <4>10. \A i \in 1..Len(batch) : Taken(c, batch[i])'
        BY <4>2, <4>7
      <4>11. Len(batch) <= 1 /\ \A i \in 1..Len(g), j \in 1..Len(batch) : g[i] # batch[j]
        BY <4>4, <4>7, <4>8
      <4> QED  BY <4>6, <4>8, <4>9, <4>10, <4>11 DEF BatchOK
    <3> QED  BY <1>5, <3>2, <3>3
  <2>4. Books(c, rec)
    <3>1. Range(s.pending) = {}
      BY <1>clear DEF Range
    <3>2. m.n # 0 => BatchOf(r) \in Range(batch)
      <4>1. m.n # 0 => batch = <<BatchOf(r)>>
        BY <1>4 DEF BatchOf, Source
      <4>2. \A b : b \in Range(<<b>>)
        BY DEF Range
      <4> QED  BY <4>1, <4>2
    <3>3. Holds(s) \subseteq Holds(rec) /\ (m.n # 0 => BatchOf(r) \in Holds(rec))
      BY <2>2, <3>1, <3>2 DEF Holds
    <3>4. NothingPending(rec) /\ rec.lost = s.lost
      BY <1>10, <2>2 DEF NothingPending
    <3> QED  BY <1>0, <1>1, <3>3, <3>4 DEF Books
  <2> QED  BY <1>2, <1>6, <1>7, <2>2, <2>3, <2>4, LocalKeeps
<1>11. CASE m.kind = "data" /\ s.kind # "producer" /\ req[r].op = "turn" /\ batch = <<>>
  <2>1. /\ rec \in SessionRec /\ rec.pc = "open" /\ rec.kind = s.kind /\ rec.who = s.who
        /\ rec.cursor = s.cursor /\ rec.got = s.got /\ rec.tokens = s.tokens /\ rec.pending = s.pending
        /\ rec.turn = s.turn /\ rec.lost = s.lost /\ rec.dropped = s.dropped
    BY <1>2, <1>7, <1>11 DEF SessionRec
  <2>2. BatchOK(c)'
    BY <1>2, <1>7, <2>1, NothingTaken
  <2>3. Books(c, rec)
    <3>1. m.n = 0
      BY <1>4, <1>11
    <3>2. Holds(rec) = Holds(s) /\ rec.lost = s.lost /\ NothingPending(rec)
      BY <1>clear, <2>1 DEF Holds, NothingPending
    <3> QED  BY <1>0, <1>1, <3>1, <3>2 DEF Books
  <2> QED  BY <1>2, <1>6, <1>7, <2>1, <2>2, <2>3, LocalKeeps
<1>12. CASE m.kind = "data" /\ s.kind # "producer" /\ ~(req[r].op = "turn" /\ batch = <<>>)
  <2>1. s.got \o batch \in Seq(Batch)
    BY <1>3, ConcatProperties
  <2>2. /\ rec \in SessionRec /\ rec.pc = "open" /\ rec.kind = s.kind /\ rec.who = s.who
        /\ rec.cursor = m.cursor /\ rec.got = s.got \o batch /\ rec.tokens = s.tokens /\ rec.pending = s.pending
        /\ rec.turn = s.turn /\ rec.lost = s.lost /\ rec.dropped = s.dropped
    BY <1>2, <1>6, <1>7, <1>12, <2>1 DEF SessionRec
  <2>3. BatchOK(c)'
    <3>1. \A b : Taken(c, b) => Taken(c, b)'
      BY <1>2, <1>7, <2>2, TakenStays
    <3>2. CASE batch = <<>>
      <4>1. s.got \o batch = s.got
        BY <1>3, <3>2, ConcatEmptySeq
      <4> QED  BY <1>2, <1>7, <2>2, <4>1, NothingTaken
    <3>3. CASE m.n # 0 /\ batch = <<BatchOf(r)>>
      <4>1. PICK b : b = BatchOf(r)
        OBVIOUS
      <4>2. Taken(c, b)'
        BY <1>0, <1>1, <1>8, <2>2, <3>3, <4>1, AnswerTaken
      <4>3. /\ \A i \in 1..Len(s.got) : s.got[i] # b
            /\ \A i \in 1..Len(s.pending) : s.pending[i] # b
        BY <1>0, <1>1, <1>8, <3>3, <4>1, AnswerIsFresh DEF BatchOK
      <4>4. Len(batch) = 1 /\ batch[1] = b /\ Len(s.got) \in Nat
        BY <1>3, <3>3, <4>1, LenProperties
      <4>5. PICK g \in Seq(Batch) : g = s.got \o batch
        BY <2>1
      <4>6. PICK l \in Nat : l = Len(s.got)
        BY <4>4
      <4>7. /\ Len(g) = l + 1 /\ \A i \in 1..l : g[i] = s.got[i]
            /\ g[l + 1] = b
        <5>1. /\ Len(g) = Len(s.got) + Len(batch)
              /\ \A i \in 1..(Len(s.got) + Len(batch)) : g[i] = IF i <= Len(s.got) THEN s.got[i] ELSE batch[i - Len(s.got)]
          BY <1>3, <4>5, ConcatProperties
        <5>2. Len(g) = l + 1 /\ \A i \in 1..(l + 1) : g[i] = IF i <= l THEN s.got[i] ELSE batch[i - l]
          BY <4>4, <4>6, <5>1
        <5>3. \A i \in 1..l : g[i] = s.got[i]
          BY <5>2
        <5>4. g[l + 1] = batch[(l + 1) - l] /\ (l + 1) - l = 1
          BY <5>2
        <5> QED  BY <4>4, <5>2, <5>3, <5>4
      <4>8. \A i \in 1..Len(g) : i \in 1..l \/ i = l + 1
        BY <4>7
      <4>9. \A i \in 1..Len(g) : Taken(c, g[i])'
        BY <1>8, <3>1, <4>2, <4>6, <4>7, <4>8 DEF BatchOK
      <4>10. \A i, j \in 1..Len(g) : g[i] = g[j] => i = j
        BY <1>8, <4>3, <4>6, <4>7, <4>8 DEF BatchOK
      <4>11. PICK p : p = s.pending
        OBVIOUS
      <4>12. \A i \in 1..Len(g), j \in 1..Len(p) : g[i] # p[j]
        <5>1. ASSUME NEW i \in 1..Len(g), NEW j \in 1..Len(p) PROVE g[i] # p[j]
          <6>1. CASE i \in 1..l
            BY <1>8, <4>6, <4>7, <4>11, <6>1 DEF BatchOK
          <6>2. CASE i = l + 1
            BY <4>3, <4>7, <4>11, <6>2
          <6> QED  BY <4>8, <6>1, <6>2
        <5> QED  BY <5>1
      <4>13. Len(p) <= 1 /\ \A i \in 1..Len(p) : Taken(c, p[i])'
        BY <1>8, <3>1, <4>11 DEF BatchOK
      <4>14. session'[c].got = g /\ session'[c].pending = p
        BY <1>8, <2>2, <4>5, <4>11
      <4> QED  BY <4>9, <4>10, <4>12, <4>13, <4>14 DEF BatchOK
    <3> QED  BY <1>5, <3>2, <3>3
  <2>4. Books(c, rec)
    <3>1. Range(s.got \o batch) = Range(s.got) \cup Range(batch)
      BY <1>3, RangeConcatenation
    <3>2. m.n # 0 => BatchOf(r) \in Range(batch)
      <4>1. m.n # 0 => batch = <<BatchOf(r)>>
        BY <1>4 DEF BatchOf, Source
      <4>2. \A b : b \in Range(<<b>>)
        BY DEF Range
      <4> QED  BY <4>1, <4>2
    <3>3. Holds(s) \subseteq Holds(rec) /\ (m.n # 0 => BatchOf(r) \in Holds(rec))
      BY <2>2, <3>1, <3>2 DEF Holds
    <3>4. NothingPending(rec) /\ rec.lost = s.lost
      BY <1>clear, <2>2 DEF NothingPending
    <3> QED  BY <1>0, <1>1, <3>3, <3>4 DEF Books
  <2> QED  BY <1>2, <1>6, <1>7, <2>2, <2>3, <2>4, LocalKeeps
<1> QED  BY <1>9, <1>10, <1>11, <1>12

(* A call is given up, or replayed when that is allowed; the request may   *)
(* have been lost or may be with the server.                               *)
LEMMA FailKeeps ==
    ASSUME IndInv, NEW c \in Sessions, Fail(c) PROVE IndInv'
<1> DEFINE s == session[c]
<1>0. s.pc = "calling" /\ UNCHANGED <<registry, stream, lock>>
  BY DEF Fail
<1>1. PICK r \in 1..Len(req) : r = session[c].call
  BY <1>0 DEF IndInv, CallInv, CallOK
<1>2. /\ s \in SessionRec /\ req[r] \in RequestRec /\ s.who \in Principals /\ Len(req) \in Nat
      /\ req[r].by = c /\ req[r].kind = s.kind /\ (req[r].op = "init" => s.turn = 0 /\ s.cursor = NoCursor)
  BY <1>0, <1>1, ElementOfSeq, LenProperties DEF IndInv, WellTyped, CallInv, CallOK
<1>3. PICK dropped \in {TRUE, FALSE} :
        /\ dropped => req[r].pc = "sent"
        /\ LET reqs == IF dropped THEN [req EXCEPT ![r].pc = "dropped"] ELSE req IN
           \/ /\ MayRetry(s) /\ NextRequest <= MaxRequests
              /\ req' = Append(reqs, [req[r] EXCEPT !.pc = "sent", !.reply = NoReply])
              /\ session' = [session EXCEPT ![c].call = NextRequest, ![c].tries = @ + 1, ![c].lost = @ \cup {r}]
           \/ /\ req' = reqs
              /\ session' = [session EXCEPT ![c].pc = IF req[r].op = "init" THEN "new" ELSE "open",
                                            ![c].lost = @ \cup {r}]
  BY <1>1 DEF Fail
<1> DEFINE reqs == IF dropped THEN [req EXCEPT ![r].pc = "dropped"] ELSE req
<1>4. /\ reqs \in Seq(RequestRec) /\ Len(reqs) = Len(req)
      /\ \A q \in 1..Len(req) :
           /\ reqs[q].op = req[q].op /\ reqs[q].by = req[q].by /\ reqs[q].who = req[q].who
           /\ reqs[q].kind = req[q].kind /\ reqs[q].cursor = req[q].cursor /\ reqs[q].input = req[q].input
           /\ reqs[q].reply = req[q].reply
           /\ reqs[q].pc = req[q].pc \/ (req[q].pc = "sent" /\ reqs[q].pc = "dropped")
  <2>1. CASE dropped
    <3> DEFINE x == [req[r] EXCEPT !.pc = "dropped"]
    <3>1. x \in RequestRec
      BY <1>2 DEF RequestRec, Steps
    <3>2. reqs = [req EXCEPT ![r] = x]
      BY <1>2, <2>1 DEF RequestRec, IndInv, WellTyped
    <3>3. /\ [req EXCEPT ![r] = x] \in Seq(RequestRec) /\ Len([req EXCEPT ![r] = x]) = Len(req)
          /\ \A q \in 1..Len(req) : [req EXCEPT ![r] = x][q] = IF q = r THEN x ELSE req[q]
      BY <3>1, ExceptSeq DEF IndInv, WellTyped
    <3>4. /\ x.op = req[r].op /\ x.by = req[r].by /\ x.who = req[r].who /\ x.kind = req[r].kind
          /\ x.cursor = req[r].cursor /\ x.input = req[r].input /\ x.reply = req[r].reply
          /\ req[r].pc = "sent" /\ x.pc = "dropped"
      BY <1>2, <1>3, <2>1 DEF RequestRec
    <3> HIDE DEF reqs, x
    <3> QED  BY <3>2, <3>3, <3>4
  <2>2. CASE ~dropped
    BY <2>2 DEF IndInv, WellTyped
  <2> QED  BY <2>1, <2>2
<1>5. CASE /\ MayRetry(s) /\ NextRequest <= MaxRequests
           /\ req' = Append(reqs, [req[r] EXCEPT !.pc = "sent", !.reply = NoReply])
           /\ session' = [session EXCEPT ![c].call = NextRequest, ![c].tries = @ + 1, ![c].lost = @ \cup {r}]
  <2> DEFINE x == [req[r] EXCEPT !.pc = "sent", !.reply = NoReply]
  <2>1. /\ x \in RequestRec /\ x.pc = "sent" /\ x.reply = NoReply /\ x.op = req[r].op /\ x.by = c
        /\ x.kind = s.kind /\ x.cursor = req[r].cursor /\ x.input = req[r].input
    BY <1>2 DEF RequestRec, Steps, ReplyRec, NoReply, NoCursor
  <2>2. PICK k \in Nat : k = Len(req) + 1
    BY <1>2
  <2>3. /\ req' \in Seq(RequestRec) /\ Len(req') = Len(req) + 1
        /\ \A q \in 1..Len(req) : req'[q] = reqs[q]
        /\ req'[k] = x
    <3> HIDE DEF reqs, x
    <3> QED  BY <1>4, <1>5, <2>1, <2>2, AppendProperties DEF x
  <2>4. Names(x.cursor, x.kind)
    BY <1>2, <2>1 DEF IndInv, KindInv
  <2>5. Grows(c, 1)
    <3> HIDE DEF reqs
    <3>1. \A q \in 1..Len(req) :
          /\ req'[q].op = req[q].op /\ req'[q].by = req[q].by /\ req'[q].who = req[q].who
          /\ req'[q].kind = req[q].kind /\ req'[q].cursor = req[q].cursor /\ req'[q].input = req[q].input
          /\ req'[q].reply = req[q].reply
          /\ req'[q].pc = req[q].pc \/ (req[q].pc = "sent" /\ req'[q].pc = "dropped")
      BY <1>4, <2>3
    <3>2. /\ req'[Len(req) + 1].pc = "sent" /\ req'[Len(req) + 1].reply = NoReply /\ req'[Len(req) + 1].by = c
          /\ Names(req'[Len(req) + 1].cursor, req'[Len(req) + 1].kind)
      BY <2>1, <2>2, <2>3, <2>4
    <3> QED  BY <1>0, <2>3, <3>1, <3>2 DEF Grows
  <2>6. PICK rec \in SessionRec :
          /\ session' = [session EXCEPT ![c] = rec]
          /\ rec.pc = "calling" /\ rec.call = k /\ rec.kind = s.kind /\ rec.who = s.who /\ rec.cursor = s.cursor
          /\ rec.got = s.got /\ rec.pending = s.pending /\ rec.turn = s.turn /\ rec.tokens = s.tokens
          /\ rec.lost = s.lost \cup {r} /\ rec.dropped = s.dropped
    <3> DEFINE rec == [s EXCEPT !.call = k, !.tries = s.tries + 1, !.lost = s.lost \cup {r}]
    <3>1. s.tries + 1 \in Nat /\ s.lost \cup {r} \in SUBSET Nat
      BY <1>2 DEF SessionRec
    <3>2. /\ rec \in SessionRec
          /\ rec.pc = "calling" /\ rec.call = k /\ rec.kind = s.kind /\ rec.who = s.who /\ rec.cursor = s.cursor
          /\ rec.got = s.got /\ rec.pending = s.pending /\ rec.turn = s.turn /\ rec.tokens = s.tokens
          /\ rec.lost = s.lost \cup {r} /\ rec.dropped = s.dropped
      BY <1>0, <1>2, <3>1 DEF SessionRec
    <3>3. session' = [session EXCEPT ![c] = rec]
      BY <1>2, <1>5, <2>2 DEF NextRequest, SessionRec, IndInv, WellTyped
    <3> QED  BY <3>2, <3>3
  <2>7. session'[c] = rec
    BY <2>6 DEF IndInv, WellTyped
  <2>8. CallOK(c)'
    <3>1. /\ k \in 1..Len(req') /\ req'[k].by = c /\ req'[k].kind = rec.kind /\ req'[k].op = req[r].op
          /\ rec.who \in Principals
      <4> HIDE DEF x, reqs
      <4> QED  BY <1>2, <2>1, <2>2, <2>3, <2>6
    <3> HIDE DEF x, reqs
    <3> QED  BY <1>2, <2>6, <2>7, <3>1 DEF CallOK
  <2>9. BatchOK(c)'
    BY <2>2, <2>5, <2>6, NothingTaken
  <2>10. TurnOK(r)
    BY DEF IndInv, TurnInv
  <2>11. TurnOK(k)'
    BY <1>2, <2>1, <2>3, <2>6, <2>7, <2>10 DEF TurnOK
  <2>12. ~(req'[k].op = "turn" /\ req'[k].kind = "exchange")
    BY <1>1, <1>5, <2>1, <2>3 DEF MayRetry
  <2>13. Names(rec.cursor, rec.kind) /\ \A t \in rec.tokens : t # NoCursor /\ Names(t, "producer")
    BY <2>6 DEF IndInv, KindInv
  <2>clear. s.pending = <<>>
    BY <1>0 DEF IndInv, LedgerInv, NothingPending
  <2>14. rec.turn >= s.turn
    BY <1>2, <2>6 DEF SessionRec
  <2>15. Books(c, rec) /\ rec.call = Len(req) + 1
    BY <1>0, <1>1, <2>2, <2>6, <2>clear DEF Books, Holds, NothingPending
  <2> QED  BY <2>2, <2>5, <2>6, <2>8, <2>9, <2>11, <2>12, <2>13, <2>14, <2>15, SessionStepKeeps
<1>6. CASE /\ req' = reqs
           /\ session' = [session EXCEPT ![c].pc = IF req[r].op = "init" THEN "new" ELSE "open",
                                         ![c].lost = @ \cup {r}]
  <2>1. Grows(c, 0)
    <3> HIDE DEF reqs
    <3> QED  BY <1>0, <1>2, <1>4, <1>6 DEF Grows
  <2>2. PICK p \in {"new", "open"} : p = IF req[r].op = "init" THEN "new" ELSE "open"
    OBVIOUS
  <2> DEFINE rec == [s EXCEPT !.pc = p, !.lost = s.lost \cup {r}]
  <2>3. /\ rec \in SessionRec /\ rec.pc = p /\ rec.kind = s.kind /\ rec.who = s.who /\ rec.cursor = s.cursor
        /\ rec.got = s.got /\ rec.pending = s.pending /\ rec.turn = s.turn /\ rec.tokens = s.tokens
        /\ rec.lost = s.lost \cup {r} /\ rec.dropped = s.dropped
    <3>1. s.lost \cup {r} \in SUBSET Nat
      BY <1>2 DEF SessionRec
    <3> QED  BY <1>2, <3>1 DEF SessionRec
  <2>4. session' = [session EXCEPT ![c] = rec]
    BY <1>2, <1>6, <2>2 DEF SessionRec, IndInv, WellTyped
  <2>5. BatchOK(c)'
    BY <2>1, <2>3, <2>4, NothingTaken
  <2>6. Names(rec.cursor, rec.kind) /\ \A t \in rec.tokens : t # NoCursor /\ Names(t, "producer")
    BY <2>3 DEF IndInv, KindInv
  <2>7. rec.pc = "new" => rec.turn = 0 /\ rec.cursor = NoCursor
    BY <1>2, <2>2, <2>3
  <2> HIDE DEF rec
  <2>8. Books(c, rec)
    <3>1. s.pending = <<>>
      BY <1>0 DEF IndInv, LedgerInv, NothingPending
    <3> QED  BY <1>0, <1>1, <2>3, <3>1 DEF Books, Holds, NothingPending
  <2> QED  BY <1>2, <2>1, <2>3, <2>4, <2>5, <2>6, <2>7, <2>8, LocalKeeps
<1> QED  BY <1>3, <1>5, <1>6

-----------------------------------------------------------------------------
(* Before the first call there is no request, no stream and no batch. *)
LEMMA InitEstablishes == Init => IndInv
<1> SUFFICES ASSUME Init PROVE IndInv
  OBVIOUS
<1>1. /\ req = <<>> /\ stream = <<>> /\ lock = <<>> /\ registry = {} /\ Len(req) = 0
      /\ DOMAIN stream = {} /\ DOMAIN lock = {}
  BY DEF Init
<1>2. Idle \in SessionRec
  BY DEF Idle, SessionRec, Kinds, NoCursor
<1>3. /\ session \in [Sessions -> SessionRec]
      /\ \A c \in Sessions : /\ session[c].pc = "new" /\ session[c].cursor = NoCursor /\ session[c].turn = 0
                             /\ session[c].got = <<>> /\ session[c].pending = <<>> /\ session[c].tokens = {}
  <2>1. \A c \in Sessions : session[c] = Idle
    BY DEF Init
  <2>2. /\ Idle.pc = "new" /\ Idle.cursor = NoCursor /\ Idle.turn = 0
        /\ Idle.got = <<>> /\ Idle.pending = <<>> /\ Idle.tokens = {}
    BY DEF Idle
  <2>3. session \in [Sessions -> SessionRec]
    BY <1>2 DEF Init
  <2> QED  BY <2>1, <2>2, <2>3
<1>4. WellTyped
  BY <1>1, <1>3 DEF WellTyped
<1>5. RequestInv /\ HeldInv /\ StreamInv /\ KindInv /\ TurnInv /\ PositionInv
  BY <1>1, <1>3 DEF RequestInv, HeldInv, StreamInv, KindInv, Names, TurnInv, PositionInv
<1>6. CallInv /\ BatchInv
  BY <1>3 DEF CallInv, CallOK, BatchInv, BatchOK
<1>7. LedgerInv
  BY <1>1, <1>3 DEF LedgerInv, NothingPending
<1> QED  BY <1>4, <1>5, <1>6, <1>7 DEF IndInv

(* Every step of a client, of the server or of the network keeps it. *)
LEMMA NextKeeps == IndInv /\ [Next]_vars => IndInv'
<1> SUFFICES ASSUME IndInv, [Next]_vars PROVE IndInv'
  OBVIOUS
<1>1. ASSUME NEW r \in 1..Len(req), Serve(r) PROVE IndInv'
  BY <1>1, ServeInitKeeps, LookupKeeps, LockKeeps, RevalidateKeeps, ActKeeps, ConcludeKeeps DEF Serve
<1>2. ASSUME NEW c \in Sessions, NEW who \in Principals, OpenProducer(c, who) \/ OpenExchange(c, who) PROVE IndInv'
  BY <1>2, OpenProducerKeeps, OpenExchangeKeeps
<1>3. ASSUME NEW c \in Sessions, NEW who \in Principals, NEW t \in Tokens, Resume(c, who, t) PROVE IndInv'
  BY <1>3, ResumeKeeps
<1>4. ASSUME NEW c \in Sessions, NEW t \in session[c].tokens, Seek(c, t) PROVE IndInv'
  BY <1>4, SeekKeeps
<1>5. ASSUME NEW c \in Sessions, Tick(c) \/ TickPending(c) \/ Exchange(c) \/ Cancel(c) \/ CancelExchange(c)
                                 \/ Close(c) \/ Receive(c) \/ Fail(c)
      PROVE  IndInv'
  BY <1>5, TickKeeps, TickPendingKeeps, ExchangeKeeps, CancelKeeps, CancelExchangeKeeps, CloseKeeps,
     ReceiveKeeps, FailKeeps
<1>6. CASE UNCHANGED vars
  <2> USE <1>6 DEF vars, IndInv
  <2>1. WellTyped' /\ RequestInv' /\ HeldInv'
    BY DEF WellTyped, RequestInv, RequestOK, HeldInv, HeldOK
  <2>2. StreamInv' /\ KindInv'
    BY DEF StreamInv, StreamOK, IsTurn, KindInv, Names
  <2>3. CallInv' /\ TurnInv'
    BY DEF CallInv, CallOK, TurnInv, TurnOK, SameTurn
  <2>4. PositionInv'
    BY DEF PositionInv, PositionOK, SameBatch, Source
  <2>5. BatchInv'
    BY DEF BatchInv, BatchOK, Taken, BatchOf, Source
  <2>6. LedgerInv'
    BY DEF LedgerInv, Accounted, Awaited, GivenOut, Carries, BatchOf, Source
  <2> QED  BY <2>1, <2>2, <2>3, <2>4, <2>5, <2>6
<1> QED  BY <1>1, <1>2, <1>3, <1>4, <1>5, <1>6 DEF Next

(* The inductive invariant holds throughout. *)
THEOREM Invariance == Spec => []IndInv
BY InitEstablishes, NextKeeps, PTL DEF Spec

(* Only requests of the principal that opened a stream run it, whoever     *)
(* else learned its cursor: the owner is compared after the mutex is held. *)
THEOREM OwnerOnlyAlways == Spec => []OwnerOnly
<1>1. IndInv => OwnerOnly
  BY DEF IndInv, OwnerOnly, StreamInv, StreamOK, IsTurn
<1> QED  BY <1>1, Invariance, PTL

(* An exchange input is processed at most once, whatever the network loses *)
(* and however the waiting requests are scheduled.                         *)
THEOREM InputsOnceAlways == Spec => []InputsOnce
<1>1. ASSUME IndInv PROVE InputsOnce
  <2> SUFFICES ASSUME NEW s \in DOMAIN stream, stream[s].kind = "exchange",
                      NEW i \in stream[s].inputs, NEW j \in stream[s].inputs, i[2] = j[2]
               PROVE  i = j
    BY DEF InputsOnce
  <2>1. /\ i[1] \in 1..Len(req) /\ IsTurn(i[1], i[2], s)
        /\ j[1] \in 1..Len(req) /\ IsTurn(j[1], j[2], s)
    BY <1>1 DEF IndInv, StreamInv, StreamOK
  <2>2. s # NoCursor /\ req[j[1]].kind = "exchange"
    BY <1>1, <2>1 DEF IndInv, WellTyped, KindInv, Names, IsTurn, NoCursor
  <2>3. SameTurn(i[1], j[1])
    BY <2>1, <2>2 DEF SameTurn, IsTurn
  <2>4. i[1] = j[1]
    BY <1>1, <2>1, <2>3 DEF IndInv, TurnInv
  <2>5. i \in Nat \X (Sessions \X Nat) /\ j \in Nat \X (Sessions \X Nat)
    BY <1>1 DEF IndInv, WellTyped, StreamRec
  <2> QED  BY <2>4, <2>5
<1> QED  BY <1>1, Invariance, PTL

(* No batch reaches a caller twice, in one session or in two that share a  *)
(* cursor.                                                                 *)
LEMMA OnceOnly ==
    ASSUME IndInv PROVE NeverRepeated
<1> SUFFICES ASSUME NEW c \in Sessions, NEW d \in Sessions,
                    NEW i \in 1..Len(session[c].got), NEW j \in 1..Len(session[d].got),
                    session[c].got[i] = session[d].got[j]
             PROVE  c = d /\ i = j
  BY DEF NeverRepeated
<1>1. Taken(c, session[c].got[i]) /\ Taken(d, session[d].got[j])
  BY DEF IndInv, BatchInv, BatchOK
<1>2. PICK q \in 1..Len(req) : req[q].by = c /\ req[q].reply.n # 0 /\ session[c].got[i] = BatchOf(q)
  BY <1>1 DEF Taken
<1>3. PICK r \in 1..Len(req) : req[r].by = d /\ req[r].reply.n # 0 /\ session[d].got[j] = BatchOf(r)
  BY <1>1 DEF Taken
<1>4. SameBatch(q, r)
  <2>1. BatchOf(q).stream = BatchOf(r).stream /\ BatchOf(q).n = BatchOf(r).n
    BY <1>2, <1>3
  <2>2. Source(q) = Source(r) /\ req[q].reply.n = req[r].reply.n
    BY <2>1 DEF BatchOf
  <2> QED  BY <1>2, <2>2 DEF SameBatch
<1>5. c = d
  BY <1>2, <1>3, <1>4 DEF IndInv, PositionInv
<1> QED  BY <1>5 DEF IndInv, BatchInv, BatchOK

(* Nothing the application produced is unaccounted for. *)
LEMMA NoneMislaid ==
    ASSUME IndInv PROVE NothingVanishes
<1> SUFFICES ASSUME NEW s \in DOMAIN stream, NEW n \in 1..stream[s].pos
             PROVE  \E r \in 1..Len(req) :
                      /\ Carries(r, s, n)
                      /\ \/ Awaited(r) \/ r \in session[req[r].by].lost
                         \/ [stream |-> s, n |-> n] \in Holds(session[req[r].by])
  BY DEF NothingVanishes
<1>1. PICK r \in 1..Len(req) : Carries(r, s, n)
  BY DEF IndInv, LedgerInv, GivenOut
<1>2. req[r].reply.n # 0 /\ BatchOf(r) = [stream |-> s, n |-> n]
  BY <1>1 DEF Carries, BatchOf
<1>3. Accounted(r)
  BY DEF IndInv, LedgerInv
<1> QED  BY <1>1, <1>2, <1>3 DEF Accounted

(* Every batch is delivered once: none twice, and none passed over but in  *)
(* the answer to an attempt that failed or by the caller's own seek,       *)
(* cancel or close.                                                        *)
THEOREM EveryBatchOnceAlways == Spec => []EveryBatchOnce
<1>1. IndInv => EveryBatchOnce
  BY OnceOnly, NoneMislaid DEF EveryBatchOnce
<1> QED  BY <1>1, Invariance, PTL

(* A stream that ended is never run again, not even by a request that was  *)
(* already waiting for its mutex.                                          *)
THEOREM EndedIsFinalAlways == Spec => EndedIsFinal
<1>1. ASSUME IndInv, [Next]_vars, NEW s \in DOMAIN stream, stream[s].ended
      PROVE  stream'[s] = stream[s]
  <2>1. ASSUME NEW r \in 1..Len(req), ServeInit(r) PROVE stream'[s] = stream[s]
    <3>1. s # r
      BY <1>1, <2>1 DEF IndInv, StreamInv, StreamOK, ServeInit
    <3>2. WellTyped
      BY <1>1 DEF IndInv
    <3>3. (\E t \in StreamRec, m \in ReplyRec : Opens(r, t, m)) \/ stream' = stream
      BY <2>1, <3>2, ServeInitOpens
    <3> QED  BY <1>1, <3>1, <3>3 DEF Opens, Extend
  <2>2. ASSUME NEW r \in 1..Len(req), Act(r) PROVE stream'[s] = stream[s]
    <3>1. s # req[r].cursor
      BY <1>1, <2>2 DEF IndInv, RequestInv, RequestOK, Act
    <3>2. PICK t \in StreamRec, m \in ReplyRec : Turns(r, req[r].cursor, t, m)
      BY <1>1, <2>2, ActTurns
    <3> QED  BY <1>1, <3>1, <3>2 DEF Turns
  <2>3. ASSUME NEW r \in 1..Len(req), Serve(r) PROVE stream'[s] = stream[s]
    BY <2>1, <2>2, <2>3 DEF Serve, Lookup, Lock, Revalidate, Conclude
  <2>4. ASSUME NEW c \in Sessions, NEW who \in Principals, OpenProducer(c, who) \/ OpenExchange(c, who)
        PROVE  stream'[s] = stream[s]
    BY <2>4 DEF OpenProducer, OpenExchange
  <2>5. ASSUME NEW c \in Sessions, NEW who \in Principals, NEW t \in Tokens, Resume(c, who, t)
        PROVE  stream'[s] = stream[s]
    BY <2>5 DEF Resume
  <2>6. ASSUME NEW c \in Sessions, NEW t \in session[c].tokens, Seek(c, t) PROVE stream'[s] = stream[s]
    BY <2>6 DEF Seek
  <2>7. ASSUME NEW c \in Sessions, Tick(c) \/ TickPending(c) \/ Exchange(c) \/ Cancel(c) \/ CancelExchange(c)
                                   \/ Close(c) \/ Receive(c) \/ Fail(c)
        PROVE  stream'[s] = stream[s]
    BY <2>7 DEF Tick, TickPending, Exchange, Cancel, CancelExchange, Close, Receive, Fail
  <2>8. CASE UNCHANGED vars
    BY <2>8 DEF vars
  <2> QED  BY <1>1, <2>3, <2>4, <2>5, <2>6, <2>7, <2>8 DEF Next
<1>2. IndInv /\ [Next]_vars => [\A s \in DOMAIN stream : stream[s].ended => stream'[s] = stream[s]]_vars
  BY <1>1
<1> QED  BY <1>2, Invariance, PTL DEF Spec, EndedIsFinal

=============================================================================
