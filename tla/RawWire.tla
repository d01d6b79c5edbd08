------------------------------ MODULE RawWire ------------------------------
(***************************************************************************)
(* The raw transport: one RpcClient (src/src/client.cpp) and one server    *)
(* connection (src/src/pipe_transport.cpp) joined by two byte streams.     *)
(*                                                                         *)
(* Every request and every answer is an Arrow IPC substream, a schema      *)
(* message, record batches and an end-of-stream marker, and nothing on the *)
(* wire says which call it belongs to: an answer is matched with its       *)
(* request by position alone.  So both ends have to agree, at every exit   *)
(* of every path, on how much of the other's stream is still to be read.   *)
(*                                                                         *)
(* A stream writer puts its schema on the wire with its first batch, or    *)
(* with its end-of-stream marker when there was no batch.  Log batches are *)
(* left out: a reader hands them to the log callback and reads on.         *)
(***************************************************************************)
EXTENDS Naturals, Sequences, SequencesExt

CONSTANTS
    RefusedKinds,  \* kinds of call the client may get refused before dispatch
    Outcomes,      \* what the process() of the served streams may do in a turn
    MaxCalls,      \* bound: calls made on the connection
    MaxTurns       \* bound: ticks or exchanges on one stream

(* "stream" opens a stream without, "header" one with a declared header. *)
Kinds == {"unary", "stream", "header"}

ASSUME WireAssumption ==
    /\ RefusedKinds \subseteq Kinds
    /\ Outcomes \subseteq {"data", "last", "finish", "raise", "silent"}
    /\ MaxCalls \in Nat /\ MaxTurns \in Nat

VARIABLES
    c2s, s2c,   \* the two byte streams, as sequences of IPC messages
    clientUp,   \* the client's transport is open
    cst,        \* what the client's one active call is doing
    call,       \* number of the client's latest call
    sent,       \* input_writer has put its schema on the wire
    opened,     \* output_reader has read its schema
    finished,   \* ClientStream::finished
    turns,      \* ticks or exchanges sent on the stream
    sst,        \* where the server's connection loop stands
    scall,      \* call the served stream belongs to
    outOpened,  \* the server's output_writer has put its schema on the wire
    crashed     \* the server's process has died

clientVars == <<clientUp, cst, call, sent, opened, finished, turns>>
serverVars == <<sst, scall, outOpened, crashed>>
vars == <<c2s, s2c, clientVars, serverVars>>

Awaiting == {"reply", "header", "turn", "closing", "cancelling"}
Payloads == Kinds \cup {"input", "cancel", "data", "exception"}

Message(k, what, refused, n) == [k |-> k, what |-> what, refused |-> refused, call |-> n]
Schema(n)      == Message("schema", "none", FALSE, n)
Eos(n)         == Message("eos", "none", FALSE, n)
Batch(what, n) == Message("batch", what, FALSE, n)

Messages ==
    [k : {"schema", "eos", "batch"}, what : Payloads \cup {"none"},
     refused : BOOLEAN, call : 0..MaxCalls]

TypeOK ==
    /\ c2s \in Seq(Messages) /\ s2c \in Seq(Messages)
    /\ clientUp \in BOOLEAN
    /\ cst \in Awaiting \cup {"idle", "open"}
    /\ call \in 0..MaxCalls /\ scall \in 0..MaxCalls
    /\ sent \in BOOLEAN /\ opened \in BOOLEAN /\ finished \in BOOLEAN
    /\ turns \in 0..MaxTurns
    /\ sst \in {"request", "discard", "open", "loop", "drain", "down"}
    /\ outOpened \in BOOLEAN /\ crashed \in BOOLEAN

Init ==
    /\ c2s = <<>> /\ s2c = <<>>
    /\ clientUp = TRUE
    /\ cst = "idle"
    /\ call = 0
    /\ sent = FALSE /\ opened = FALSE /\ finished = FALSE
    /\ turns = 0
    /\ sst = "request"
    /\ scall = 0
    /\ outOpened = FALSE
    /\ crashed = FALSE

-----------------------------------------------------------------------------
(* Reading whole substreams. *)

FirstEos(ch) == SelectInSeq(ch, LAMBDA m : m.k = "eos")
Complete(ch) == FirstEos(ch) > 0

(* read_ipc_stream() and drain_reader() take everything up to the marker. *)
Rest(ch) == SubSeq(ch, FirstEos(ch) + 1, Len(ch))

Has(ch, what) == \E i \in 1..FirstEos(ch) : ch[i].what = what

(* write_ipc_stream() of a single batch. *)
Substream(what, n) == <<Schema(n), Batch(what, n), Eos(n)>>

(* The schema message a lazily started writer still owes. *)
Owed(started, n) == IF started THEN <<>> ELSE <<Schema(n)>>

-----------------------------------------------------------------------------
(* The client. *)

(* abort_transport(): the connection is given up. *)
Abort ==
    /\ clientUp' = FALSE
    /\ cst' = "idle"

(* call_unary, call_reflection and open_stream: reserve the connection and *)
(* send the request.  Without a declared header the stream is handed to    *)
(* the caller before anything is read.  `refused' marks a request one of   *)
(* the gates ahead of dispatch will turn down.                             *)
Call(kind, refused) ==
    /\ cst = "idle" /\ clientUp
    /\ call < MaxCalls
    /\ refused => kind \in RefusedKinds
    /\ call' = call + 1
    /\ c2s' = c2s \o <<Schema(call'), Message("batch", kind, refused, call'), Eos(call')>>
    /\ cst' = CASE kind = "unary" -> "reply"
                [] kind = "header" -> "header"
                [] kind = "stream" -> "open"
    /\ sent' = FALSE /\ opened' = FALSE /\ finished' = FALSE
    /\ turns' = 0
    /\ UNCHANGED <<s2c, clientUp, serverVars>>

(* read_substream() of a unary answer. *)
UnaryReply ==
    /\ cst = "reply" /\ Complete(s2c)
    /\ s2c' = Rest(s2c)
    /\ IF Has(s2c, "data") \/ Has(s2c, "exception")
         THEN cst' = "idle" /\ UNCHANGED clientUp
         ELSE Abort
    /\ UNCHANGED <<c2s, call, sent, opened, finished, turns, serverVars>>

(* The input substream left unfinished after a factory error. *)
Bug_HeaderErrorLeavesInput ==
    /\ cst = "header" /\ Complete(s2c)
    /\ s2c' = Rest(s2c)
    /\ cst' = IF Has(s2c, "exception") THEN "idle" ELSE "open"
    /\ UNCHANGED <<c2s, clientUp, call, sent, opened, finished, turns, serverVars>>

(* The header substream.  An exception in its place leaves the server      *)
(* waiting for the input substream, which is completed empty.              *)
HeaderReply ==
    /\ cst = "header" /\ Complete(s2c)
    /\ s2c' = Rest(s2c)
    /\ IF Has(s2c, "exception")
         THEN c2s' = c2s \o <<Schema(call), Eos(call)>> /\ cst' = "idle"
         ELSE cst' = "open" /\ UNCHANGED c2s
    /\ UNCHANGED <<clientUp, call, sent, opened, finished, turns, serverVars>>

(* tick() and exchange(). *)
Turn ==
    /\ cst = "open" /\ ~finished
    /\ turns < MaxTurns
    /\ turns' = turns + 1
    /\ c2s' = c2s \o Owed(sent, call) \o <<Batch("input", call)>>
    /\ sent' = TRUE
    /\ cst' = "turn"
    /\ UNCHANGED <<s2c, clientUp, call, opened, finished, serverVars>>

(* read_next_data(): one batch, or the end of the output.  An exception is *)
(* followed by draining the output to its end.                             *)
TurnReply ==
    /\ cst = "turn"
    /\ LET i == IF opened THEN 1 ELSE 2 IN
         /\ Len(s2c) >= i
         /\ s2c[i].what = "exception" => Complete(s2c)
         /\ s2c' = IF s2c[i].what = "exception" THEN Rest(s2c)
                                                ELSE SubSeq(s2c, i + 1, Len(s2c))
         /\ finished' = (s2c[i].what # "data")
    /\ opened' = TRUE
    /\ cst' = "open"
    /\ UNCHANGED <<c2s, clientUp, call, sent, turns, serverVars>>

(* close(), and cancel() of a finished stream: end the input, then read    *)
(* what is left of the output.  A reader past its end reads nothing more.  *)
Close ==
    /\ cst = "open"
    /\ c2s' = c2s \o Owed(sent, call) \o <<Eos(call)>>
    /\ sent' = TRUE
    /\ cst' = IF finished THEN "idle" ELSE "closing"
    /\ UNCHANGED <<s2c, clientUp, call, opened, finished, turns, serverVars>>

(* drain_output() of close(): an exception met there is rethrown, and the  *)
(* connection aborted on the way out.                                      *)
CloseDrained ==
    /\ cst = "closing" /\ Complete(s2c)
    /\ s2c' = Rest(s2c)
    /\ IF Has(s2c, "exception") THEN Abort ELSE cst' = "idle" /\ UNCHANGED clientUp
    /\ finished' = TRUE
    /\ UNCHANGED <<c2s, call, sent, opened, turns, serverVars>>

(* cancel() of a live stream: the cancel batch, the drain, then the end of *)
(* the input.                                                              *)
Cancel ==
    /\ cst = "open" /\ ~finished
    /\ c2s' = c2s \o Owed(sent, call) \o <<Batch("cancel", call)>>
    /\ sent' = TRUE
    /\ cst' = "cancelling"
    /\ UNCHANGED <<s2c, clientUp, call, opened, finished, turns, serverVars>>

CancelDrained ==
    /\ cst = "cancelling" /\ Complete(s2c)
    /\ s2c' = Rest(s2c)
    /\ IF Has(s2c, "exception")
         THEN Abort /\ UNCHANGED c2s
         ELSE c2s' = Append(c2s, Eos(call)) /\ cst' = "idle" /\ UNCHANGED clientUp
    /\ finished' = TRUE
    /\ UNCHANGED <<call, sent, opened, turns, serverVars>>

(* ~ClientStream on a live stream, and RpcClient::close() between calls. *)
Abandon ==
    /\ cst \in {"open", "idle"} /\ clientUp
    /\ Abort
    /\ UNCHANGED <<c2s, s2c, call, sent, opened, finished, turns, serverVars>>

(* A read that fails or times out aborts the connection. *)
ReadFails ==
    /\ cst \in Awaiting
    /\ Abort
    /\ UNCHANGED <<c2s, s2c, call, sent, opened, finished, turns, serverVars>>

-----------------------------------------------------------------------------
(* The server. *)

Requests == Kinds
RequestHere == sst = "request" /\ Complete(c2s)

Reply(what) == s2c' = s2c \o Substream(what, c2s[2].call)

(* The gates of serve_one_with_state ahead of dispatch: version, routing   *)
(* key, protocol version, method lookup, shared-memory pointer, parameter  *)
(* contract; and the missing method name of a batch that is no request.    *)
(* Each answers with one error substream and goes on to the next request.  *)
ServeRefused ==
    /\ RequestHere /\ c2s[2].k = "batch"
    /\ c2s[2].refused \/ c2s[2].what \notin Requests
    /\ c2s' = Rest(c2s)
    /\ Reply("exception")
    /\ UNCHANGED <<serverVars, clientVars>>

(* serve_unary and serve_reflection: the result, or what was raised. *)
ServeUnary(answer) ==
    /\ RequestHere /\ c2s[2].what = "unary" /\ ~c2s[2].refused
    /\ c2s' = Rest(c2s)
    /\ Reply(answer)
    /\ UNCHANGED <<serverVars, clientVars>>

(* A factory error answered without reading the input that follows it. *)
Bug_FactoryErrorUndrained ==
    /\ RequestHere /\ c2s[2].what \in {"stream", "header"} /\ ~c2s[2].refused
    /\ c2s' = Rest(c2s)
    /\ Reply("exception")
    /\ UNCHANGED <<serverVars, clientVars>>

(* serve_stream with a factory that raises: handle_factory_error answers   *)
(* and then reads the input substream the client is still going to send.   *)
FactoryRaises ==
    /\ RequestHere /\ c2s[2].what \in {"stream", "header"} /\ ~c2s[2].refused
    /\ c2s' = Rest(c2s)
    /\ Reply("exception")
    /\ sst' = "discard"
    /\ UNCHANGED <<scall, outOpened, crashed, clientVars>>

Discarded ==
    /\ sst = "discard" /\ Complete(c2s)
    /\ c2s' = Rest(c2s)
    /\ sst' = "request"
    /\ UNCHANGED <<s2c, scall, outOpened, crashed, clientVars>>

FactoryReturns ==
    /\ RequestHere /\ c2s[2].what \in {"stream", "header"} /\ ~c2s[2].refused
    /\ c2s' = Rest(c2s)
    /\ IF c2s[2].what = "header" THEN Reply("data") ELSE UNCHANGED s2c
    /\ sst' = "open"
    /\ scall' = c2s[2].call
    /\ outOpened' = FALSE
    /\ UNCHANGED <<crashed, clientVars>>

(* Opening the input reader consumes the input's schema. *)
OpenInput ==
    /\ sst = "open" /\ c2s # <<>>
    /\ c2s' = Tail(c2s)
    /\ sst' = "loop"
    /\ UNCHANGED <<s2c, scall, outOpened, crashed, clientVars>>

(* What a turn puts on the wire, and whether the loop goes on. *)
TurnOutput(outcome) ==
    CASE outcome = "data"   -> <<Batch("data", scall)>>
      [] outcome = "last"   -> <<Batch("data", scall), Eos(scall)>>
      [] outcome = "finish" -> <<Eos(scall)>>
      [] outcome = "raise"  -> <<Batch("exception", scall), Eos(scall)>>

StreamTurn(outcome) ==
    /\ sst = "loop" /\ c2s # <<>> /\ Head(c2s).what = "input"
    /\ c2s' = Tail(c2s)
    /\ IF outcome = "silent"
         THEN UNCHANGED <<s2c, outOpened>>
         ELSE /\ s2c' = s2c \o Owed(outOpened, scall) \o TurnOutput(outcome)
              /\ outOpened' = TRUE
    /\ sst' = IF outcome \in {"data", "silent"} THEN "loop" ELSE "drain"
    /\ UNCHANGED <<scall, crashed, clientVars>>

(* The input's end or a cancel batch: close the output writer. *)
StreamEnds ==
    /\ sst = "loop" /\ c2s # <<>> /\ Head(c2s).what # "input"
    /\ c2s' = Tail(c2s)
    /\ s2c' = s2c \o Owed(outOpened, scall) \o <<Eos(scall)>>
    /\ outOpened' = TRUE
    /\ sst' = IF Head(c2s).k = "eos" THEN "request" ELSE "drain"
    /\ UNCHANGED <<scall, crashed, clientVars>>

(* drain_reader(input_reader). *)
StreamDrained ==
    /\ sst = "drain" /\ Complete(c2s)
    /\ c2s' = Rest(c2s)
    /\ sst' = "request"
    /\ UNCHANGED <<s2c, scall, outOpened, crashed, clientVars>>

(* The client hung up: a read at the end of the byte stream ends the       *)
(* connection loop, directly or through the next serve_one.  A substream   *)
(* without a batch in place of a request is taken for that end too.        *)
EndOfInput ==
    \/ RequestHere /\ c2s[2].k = "eos"
    \/ ~clientUp /\ IF sst \in {"open", "loop"} THEN c2s = <<>> ELSE ~Complete(c2s)

ServerEof ==
    /\ sst # "down"
    /\ EndOfInput
    /\ sst' = "down"
    /\ UNCHANGED <<c2s, s2c, scall, outOpened, crashed, clientVars>>

ServerDies ==
    /\ sst # "down"
    /\ sst' = "down"
    /\ crashed' = TRUE
    /\ UNCHANGED <<c2s, s2c, scall, outOpened, clientVars>>

-----------------------------------------------------------------------------
ClientReads ==
    UnaryReply \/ HeaderReply \/ TurnReply \/ CloseDrained \/ CancelDrained

ServerStep ==
    \/ ServeRefused
    \/ \E a \in {"data", "exception"} : ServeUnary(a)
    \/ FactoryRaises \/ Discarded \/ FactoryReturns \/ OpenInput
    \/ \E o \in Outcomes : StreamTurn(o)
    \/ StreamEnds \/ StreamDrained
    \/ ServerEof

Done == ~clientUp /\ sst = "down" /\ UNCHANGED vars

Next ==
    \/ \E k \in Kinds, r \in BOOLEAN : Call(k, r)
    \/ Turn \/ Close \/ Cancel \/ Abandon \/ ReadFails
    \/ ClientReads
    \/ ServerStep \/ ServerDies
    \/ Done

(* Both processes keep running, a read at the end of a dead peer's stream  *)
(* fails, and handlers return.  What the caller does next is left open.    *)
Fairness ==
    /\ WF_vars(ClientReads)
    /\ WF_vars(ServerStep)
    /\ WF_vars(sst = "down" /\ ReadFails)

Spec == Init /\ [][Next]_vars
FairSpec == Spec /\ Fairness

-----------------------------------------------------------------------------
(* Properties. *)

(* What the server has written and the client has not read belongs to the  *)
(* client's current call, and between calls there is nothing: no call can  *)
(* be given the answer to another (read_substream() has no other check).   *)
RepliesBelongToCall ==
    clientUp => /\ \A i \in 1..Len(s2c) : s2c[i].call = call
                /\ cst = "idle" => s2c = <<>>

(* No call hangs, at either end: every wait of the client for the server   *)
(* ends, and a stream the client has ended is also over for the server,    *)
(* which goes back to reading requests (or finds the connection gone).     *)
CallsEnd ==
    /\ cst \in Awaiting ~> cst \notin Awaiting
    /\ cst = "idle" ~> (sst \in {"request", "down"} \/ cst # "idle")

=============================================================================
