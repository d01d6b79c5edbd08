--------------------------- MODULE RawWireProofs ---------------------------
(***************************************************************************)
(* The raw transport keeps its two ends in step for any number of calls    *)
(* and turns.  Framing is enough for types: no marker follows a marker, so *)
(* that a whole substream in front of the request reader has a message to  *)
(* look at.  That an answer belongs to its call needs more: where the      *)
(* server stands and exactly how much it has still to read, for everything *)
(* the client may be doing (Where), and what the client has still to read  *)
(* (OneAnswer).  The server is at most one call behind, by the end of an   *)
(* input it is discarding.                                                 *)
(***************************************************************************)
EXTENDS RawWire, WellFoundedInduction, TLAPS

(* The client has started the input of its stream and not ended it. *)
InInput == cst \in {"open", "turn", "cancelling"} /\ sent

NoEmptySubstream(q) == \A i \in 2..Len(q) : q[i].k = "eos" => q[i - 1].k # "eos"

Framed ==
    /\ NoEmptySubstream(c2s)
    /\ (sst = "request" /\ c2s # <<>>) => c2s[1].k # "eos"
    /\ (InInput /\ c2s # <<>>) => c2s[Len(c2s)].k # "eos"
    /\ (InInput /\ sst = "request") => c2s # <<>>
    /\ cst = "header" => ~sent
    /\ cst \in {"turn", "closing", "cancelling"} => sent

(* What the client has still to read is the rest of one substream, and all *)
(* of it is of the current call.                                           *)
OneAnswer ==
    /\ \A i \in 1..Len(s2c) : s2c[i].call = call
    /\ \A i \in 1..Len(s2c) : s2c[i].k = "eos" => i = Len(s2c)
    /\ \A i \in 1..Len(s2c) :
         (opened \/ i > 1) =>
            \/ s2c[i].k = "eos" /\ s2c[i].what = "none"
            \/ s2c[i].k # "eos" /\ s2c[i].what \in {"data", "exception"}
    /\ (cst = "idle" \/ finished) => s2c = <<>>

(* The latest message of a client in state st, and its input after the     *)
(* first n messages of q while the server has read none of it.             *)
LastSent(m, st) ==
    /\ st = "turn" => m.k = "batch" /\ m.what = "input"
    /\ st = "closing" => m.k = "eos" /\ m.what = "none"
    /\ st = "cancelling" => m.k = "batch" /\ m.what = "cancel"

SentSince(q, n, st, started) ==
    IF st \in {"turn", "closing", "cancelling"}
      THEN started /\ Len(q) = n + 2 /\ q[n + 1].k # "eos" /\ LastSent(q[n + 2], st)
      ELSE ~started /\ Len(q) = n

(* The request of call c and what was sent after it. *)
Asked(q, st, started, c) ==
    /\ FirstEos(q) = 3
    /\ q[2].k = "batch" /\ q[2].call = c
    /\ q[2].what = IF st = "reply" THEN "unary"
                   ELSE IF st = "header" THEN "header" ELSE "stream"
    /\ q[2].refused => st \in {"reply", "header"}
    /\ SentSince(q, 3, st, started)

(* Nothing more will be answered: the server has ended, or is about to     *)
(* take the empty input of a refused call for the end of the connection.   *)
Gone ==
    \/ sst = "down"
    \/ sst = "request" /\ FirstEos(c2s) = 2 /\ c2s[2].k = "eos" /\ c2s[2].what = "none"

(* The request has not been read: the server waits for it, or still reads  *)
(* the end of the input of the call before.                                *)
Unserved ==
    /\ cst # "idle" /\ s2c = <<>> /\ ~opened /\ ~finished
    /\ \/ sst = "request" /\ Asked(c2s, cst, sent, call)
       \/ sst \in {"discard", "drain"} /\ Complete(c2s) /\ Asked(Rest(c2s), cst, sent, call)

HeaderAnswer(what) ==
    /\ FirstEos(s2c) = 3 /\ s2c[1].what = "none" /\ s2c[2].what = what
    /\ ~sent /\ ~opened /\ ~finished

(* The call is answered and read to its end. *)
Served ==
    /\ sst = "request" /\ c2s = <<>>
    /\ cst \in {"idle", "reply", "header", "closing"}
    /\ cst = "header" => HeaderAnswer("exception")

(* The call is answered, and its input is read to the end without looking. *)
Ending ==
    /\ sst \in {"discard", "drain"}
    /\ cst \in {"open", "turn", "cancelling"} => ~Complete(c2s)
    /\ cst \in {"closing", "idle"} => Complete(c2s) /\ Rest(c2s) = <<>>
    /\ cst = "header" => c2s = <<>> /\ HeaderAnswer("exception")
    /\ cst # "reply"

(* The stream is set up and its input not opened. *)
Opening ==
    /\ sst = "open" /\ scall = call /\ ~outOpened /\ ~opened /\ ~finished
    /\ cst \in {"header", "open", "turn", "closing", "cancelling"}
    /\ cst = "header" => HeaderAnswer("data")
    /\ cst # "header" => s2c = <<>>
    /\ SentSince(c2s, 0, cst, sent)

(* One turn's answer, which leaves the loop running. *)
TurnAnswered ==
    LET i == IF opened THEN 1 ELSE 2
    IN  /\ Len(s2c) = i /\ s2c[i].what = "data"
        /\ \A j \in 1..Len(s2c) : s2c[j].k # "eos"

(* The stream is served, turn by turn. *)
Looping ==
    /\ sst = "loop" /\ scall = call /\ ~finished /\ sent
    /\ s2c = <<>> => outOpened = opened
    /\ s2c # <<>> => outOpened /\ TurnAnswered /\ cst = "turn" /\ c2s = <<>>
    /\ cst \in {"open", "turn", "closing", "cancelling"}
    /\ \/ cst \in {"open", "turn"} /\ c2s = <<>>
       \/ cst # "open" /\ Len(c2s) = 1 /\ LastSent(c2s[1], cst)

Where == Gone \/ Unserved \/ Served \/ Ending \/ Opening \/ Looping

Lockstep == clientUp => OneAnswer /\ Where

-----------------------------------------------------------------------------
(* Sequences of messages. *)

LEMMA LastOfTwo ==
  ASSUME NEW n \in 1..2, NEW j \in 1..n, j # 1
  PROVE  j = n
  OBVIOUS

LEMMA LeastExists ==
  ASSUME NEW S \in SUBSET Nat, S # {}
  PROVE  \E i \in S : \A j \in S : i <= j
<1> DEFINE N == {i \in Nat : i \in S}
<1>1. PICK x \in N : \A y \in N : <<y, x>> \notin OpToRel(<, Nat)
  BY WFMin, NatLessThanWellFounded, Zenon
<1>2. \A y \in N : ~ (y < x)
  BY <1>1, Zenon DEF OpToRel
<1> QED
  BY <1>2

LEMMA FirstEosFacts ==
  ASSUME NEW q \in Seq(Messages)
  PROVE  /\ FirstEos(q) \in 0..Len(q)
         /\ FirstEos(q) > 0 => q[FirstEos(q)].k = "eos"
         /\ \A i \in 1..Len(q) : (i < FirstEos(q) \/ FirstEos(q) = 0) => q[i].k # "eos"
<1> DEFINE I == {i \in 1..Len(q) : q[i].k = "eos"}
<1>1. FirstEos(q) = IF I # {} THEN CHOOSE x \in I : \A y \in I : x <= y ELSE 0
  BY DEF FirstEos, SelectInSeq, Min
<1>2. I \in SUBSET Nat /\ I \subseteq 1..Len(q) /\ \A i \in 1..Len(q) : i \in I <=> q[i].k = "eos"
  OBVIOUS
<1> HIDE DEF I
<1>3. I # {} => \E x \in I : \A y \in I : x <= y
  BY <1>2, LeastExists
<1>4. CASE I = {}
  BY <1>1, <1>2, <1>4
<1>5. CASE I # {}
  <2> DEFINE m == CHOOSE x \in I : \A y \in I : x <= y
  <2>1. m \in I /\ \A y \in I : m <= y
    BY <1>3, <1>5, Zenon
  <2>2. FirstEos(q) = m
    BY <1>1, <1>5, Zenon
  <2> HIDE DEF m
  <2> QED  BY <2>1, <2>2, <1>2
<1> QED  BY <1>4, <1>5

LEMMA FirstEosIs ==
  ASSUME NEW q \in Seq(Messages), NEW n \in 1..Len(q), q[n].k = "eos",
         \A i \in 1..(n - 1) : q[i].k # "eos"
  PROVE  FirstEos(q) = n
BY FirstEosFacts

LEMMA NoEos ==
  ASSUME NEW q \in Seq(Messages), \A i \in 1..Len(q) : q[i].k # "eos"
  PROVE  FirstEos(q) = 0
BY FirstEosFacts

LEMMA RestFacts ==
  ASSUME NEW q \in Seq(Messages)
  PROVE  /\ Rest(q) \in Seq(Messages)
         /\ Len(Rest(q)) = Len(q) - FirstEos(q)
         /\ \A i \in 1..Len(Rest(q)) : Rest(q)[i] = q[FirstEos(q) + i]
BY FirstEosFacts DEF Rest

LEMMA AppendFacts ==
  ASSUME NEW q \in Seq(Messages), NEW w \in Seq(Messages)
  PROVE  /\ q \o w \in Seq(Messages)
         /\ Len(q \o w) = Len(q) + Len(w)
         /\ \A i \in 1..Len(q) : (q \o w)[i] = q[i]
         /\ \A i \in 1..Len(w) : (q \o w)[Len(q) + i] = w[i]
OBVIOUS

LEMMA SameSeq ==
  ASSUME NEW q \in Seq(Messages), NEW w \in Seq(Messages), Len(q) = Len(w),
         \A i \in 1..Len(q) : q[i] = w[i]
  PROVE  q = w
OBVIOUS

LEMMA CompleteAppend ==
  ASSUME NEW q \in Seq(Messages), NEW w \in Seq(Messages), Complete(q)
  PROVE  Complete(q \o w) /\ FirstEos(q \o w) = FirstEos(q) /\ Rest(q \o w) = Rest(q) \o w
<1> DEFINE n == FirstEos(q)
           d == q \o w
<1>1. n \in 1..Len(q) /\ q[n].k = "eos" /\ \A i \in 1..(n - 1) : q[i].k # "eos"
  <2>1. n \in 0..Len(q) /\ n > 0 /\ Len(q) \in Nat
    BY FirstEosFacts DEF Complete
  <2>2. q[n].k = "eos" /\ \A i \in 1..Len(q) : i < n => q[i].k # "eos"
    BY <2>1, FirstEosFacts
  <2> HIDE DEF n
  <2> QED  BY <2>1, <2>2
<1>2. d \in Seq(Messages) /\ n \in 1..Len(d) /\ d[n].k = "eos" /\ \A i \in 1..(n - 1) : d[i].k # "eos"
  BY <1>1, AppendFacts
<1>3. FirstEos(d) = n
  BY <1>2, FirstEosIs
<1>4. Rest(d) = Rest(q) \o w
  <2>1. Rest(d) \in Seq(Messages) /\ Rest(q) \in Seq(Messages) /\ Rest(q) \o w \in Seq(Messages)
    BY <1>2, RestFacts, AppendFacts
  <2>2. Len(Rest(d)) = Len(d) - n /\ Len(Rest(q)) = Len(q) - n /\ Len(Rest(q) \o w) = Len(Rest(q)) + Len(w)
    BY <1>2, <1>3, <2>1, RestFacts, AppendFacts
  <2>3. ASSUME NEW i \in 1..Len(Rest(d)) PROVE Rest(d)[i] = (Rest(q) \o w)[i]
    <3>1. Rest(d)[i] = d[n + i]
      BY <1>2, <1>3, RestFacts
    <3>2. CASE i <= Len(Rest(q))
      <4>1. (Rest(q) \o w)[i] = Rest(q)[i] /\ Rest(q)[i] = q[n + i]
        BY <3>2, <2>1, RestFacts, AppendFacts
      <4>2. n + i \in 1..Len(q)
        <5>1. Len(q) \in Nat /\ Len(Rest(d)) \in Nat
          BY <2>1
        <5> HIDE DEF d, n
        <5> QED  BY <1>1, <2>2, <3>2, <5>1, SMTT(30)
      <4> QED BY <3>1, <4>1, <4>2, AppendFacts
    <3>3. CASE i > Len(Rest(q))
      <4> DEFINE j == i - Len(Rest(q))
      <4>1. j \in 1..Len(w) /\ i = Len(Rest(q)) + j /\ n + i = Len(q) + j
        <5>1. Len(q) \in Nat /\ Len(w) \in Nat /\ Len(d) = Len(q) + Len(w) /\ n \in 1..Len(q)
          BY <1>1, AppendFacts
        <5> HIDE DEF d, n
        <5> QED  BY <5>1, <2>2, <3>3
      <4>2. (Rest(q) \o w)[Len(Rest(q)) + j] = w[j]
        BY <4>1, <2>1, AppendFacts
      <4>3. d[Len(q) + j] = w[j]
        BY <4>1, AppendFacts
      <4>4. (Rest(q) \o w)[i] = w[j] /\ d[n + i] = w[j]
        BY <4>1, <4>2, <4>3, Zenon
      <4> QED BY <3>1, <4>4, Zenon
    <3>4. Len(Rest(q)) \in Nat /\ Len(Rest(d)) \in Nat
      BY <2>1
    <3>5. i <= Len(Rest(q)) \/ i > Len(Rest(q))
      BY <3>4
    <3> QED BY <3>2, <3>3, <3>5, Zenon
  <2> HIDE DEF d, n
  <2>4. Len(Rest(d)) = Len(Rest(q) \o w)
    BY <2>2, AppendFacts, <1>1 DEF d
  <2> QED BY <2>1, <2>3, <2>4, SameSeq
<1> QED BY <1>1, <1>3, <1>4 DEF Complete
LEMMA SuffixFacts ==
  ASSUME NEW q \in Seq(Messages), NEW n \in 1..Len(q)
  PROVE  /\ SubSeq(q, n + 1, Len(q)) \in Seq(Messages)
         /\ Len(SubSeq(q, n + 1, Len(q))) = Len(q) - n
         /\ \A i \in 1..(Len(q) - n) : SubSeq(q, n + 1, Len(q))[i] = q[n + i]
OBVIOUS

LEMMA TailFacts ==
  ASSUME NEW q \in Seq(Messages), q # <<>>
  PROVE  /\ Tail(q) \in Seq(Messages) /\ Len(q) \in Nat \ {0}
         /\ Len(Tail(q)) = Len(q) - 1
         /\ \A i \in 1..(Len(q) - 1) : Tail(q)[i] = q[i + 1]
         /\ Head(q) = q[1] /\ q[1] \in Messages
OBVIOUS

LEMMA EmptyFacts ==
  ASSUME NEW q \in Seq(Messages)
  PROVE  q = <<>> <=> Len(q) = 0
OBVIOUS

LEMMA MessageFacts ==
  ASSUME NEW n \in 0..MaxCalls
  PROVE  /\ Schema(n) \in Messages
         /\ Schema(n).k = "schema" /\ Schema(n).what = "none" /\ Schema(n).call = n
         /\ Eos(n) \in Messages
         /\ Eos(n).k = "eos" /\ Eos(n).what = "none" /\ Eos(n).call = n
         /\ \A what \in Payloads, r \in BOOLEAN :
              /\ Message("batch", what, r, n) \in Messages
              /\ Message("batch", what, r, n).k = "batch"
              /\ Message("batch", what, r, n).what = what
              /\ Message("batch", what, r, n).call = n
              /\ Message("batch", what, r, n).refused = r
         /\ \A what \in Payloads :
              /\ Batch(what, n) \in Messages
              /\ Batch(what, n).k = "batch" /\ Batch(what, n).what = what
              /\ Batch(what, n).call = n
BY DEF Schema, Eos, Batch, Message, Messages

(* A request or an answer of one batch, written at once. *)
LEMMA ThreeFacts ==
  ASSUME NEW a \in Messages, NEW b \in Messages, NEW c \in Messages
  PROVE  /\ <<a, b, c>> \in Seq(Messages) /\ Len(<<a, b, c>>) = 3
         /\ <<a, b, c>>[1] = a /\ <<a, b, c>>[2] = b /\ <<a, b, c>>[3] = c
OBVIOUS

(* A message written behind the schema the writer may still owe. *)
LEMMA OwedFacts ==
  ASSUME NEW q \in Seq(Messages), NEW b \in BOOLEAN, NEW n \in 0..MaxCalls, NEW x \in Messages
  PROVE  LET w == Owed(b, n) \o <<x>> IN
         /\ w \in Seq(Messages)
         /\ Len(w) = IF b THEN 1 ELSE 2
         /\ w[Len(w)] = x
         /\ ~b => w[1] = Schema(n)
         /\ q \o Owed(b, n) \o <<x>> = q \o w
<1>1. Schema(n) \in Messages
  BY MessageFacts
<1>2. Owed(b, n) = IF b THEN <<>> ELSE <<Schema(n)>>
  BY DEF Owed
<1> HIDE DEF Schema
<1>3. CASE b
  <2>1. Owed(b, n) = <<>>
    BY <1>2, <1>3
  <2> QED  BY <2>1, <1>3
<1>4. CASE ~b
  <2>1. Owed(b, n) = <<Schema(n)>>
    BY <1>2, <1>4
  <2>2. Owed(b, n) \o <<x>> = <<Schema(n), x>>
    <3>1. ASSUME NEW s \in Messages PROVE <<s>> \o <<x>> = <<s, x>>
      <4>1. <<s>> \in Seq(Messages) /\ <<x>> \in Seq(Messages) /\ <<s, x>> \in Seq(Messages)
        OBVIOUS
      <4>2. <<s>> \o <<x>> \in Seq(Messages) /\ Len(<<s>> \o <<x>>) = 2
            /\ (<<s>> \o <<x>>)[1] = s /\ (<<s>> \o <<x>>)[2] = x
        BY <4>1, AppendFacts
      <4>3. Len(<<s, x>>) = 2 /\ <<s, x>>[1] = s /\ <<s, x>>[2] = x
        OBVIOUS
      <4>4. \A i \in 1..2 : i = 1 \/ i = 2
        OBVIOUS
      <4> QED  BY <4>1, <4>2, <4>3, <4>4, SameSeq
    <3> QED  BY <2>1, <1>1, <3>1
  <2>3. q \o Owed(b, n) \o <<x>> = q \o <<Schema(n), x>>
    BY <2>1, <1>1
  <2>4. ASSUME NEW s \in Messages
        PROVE  <<s, x>> \in Seq(Messages) /\ Len(<<s, x>>) = 2 /\ <<s, x>>[1] = s /\ <<s, x>>[2] = x
    OBVIOUS
  <2> QED  BY <2>2, <2>3, <2>4, <1>4, <1>1
<1> QED  BY <1>3, <1>4

-----------------------------------------------------------------------------
(* Framing. *)

LEMMA FramedAppend ==
  ASSUME NEW q \in Seq(Messages), NEW w \in Seq(Messages), w # <<>>,
         NoEmptySubstream(q), NoEmptySubstream(w),
         (q # <<>> /\ w[1].k = "eos") => q[Len(q)].k # "eos"
  PROVE  /\ NoEmptySubstream(q \o w) /\ q \o w # <<>>
         /\ (q \o w)[Len(q \o w)] = w[Len(w)]
         /\ (q \o w)[1] = IF q = <<>> THEN w[1] ELSE q[1]
<1> DEFINE d == q \o w
<1>1. /\ d \in Seq(Messages) /\ Len(d) = Len(q) + Len(w) /\ Len(q) \in Nat /\ Len(w) \in Nat \ {0}
      /\ \A i \in 1..Len(q) : d[i] = q[i]
      /\ \A i \in 1..Len(w) : d[Len(q) + i] = w[i]
  BY AppendFacts, EmptyFacts
<1>2. q # <<>> <=> Len(q) > 0
  BY EmptyFacts
<1> HIDE DEF d
<1>3. d[Len(d)] = w[Len(w)] /\ d # <<>> /\ d[1] = IF q = <<>> THEN w[1] ELSE q[1]
  <2>1. d[Len(d)] = w[Len(w)]
    BY <1>1
  <2>2. d # <<>>
    BY <1>1
  <2>3. CASE q = <<>>
    BY <2>3, <1>1, <1>2
  <2>4. CASE q # <<>>
    BY <2>4, <1>1, <1>2
  <2> QED  BY <2>1, <2>2, <2>3, <2>4
<1>4. ASSUME NEW i \in 2..Len(d), d[i].k = "eos" PROVE d[i - 1].k # "eos"
  <2>1. CASE i <= Len(q)
    <3>1. i \in 2..Len(q) /\ d[i] = q[i] /\ d[i - 1] = q[i - 1]
      BY <1>1, <2>1
    <3> QED  BY <3>1, <1>4 DEF NoEmptySubstream
  <2>2. CASE i = Len(q) + 1
    <3>1. d[i] = w[1] /\ d[i - 1] = q[Len(q)] /\ q # <<>>
      BY <1>1, <1>2, <2>2
    <3> QED  BY <3>1, <1>4
  <2>3. CASE i > Len(q) + 1
    <3> DEFINE j == i - Len(q)
    <3>1. j \in 2..Len(w) /\ i = Len(q) + j /\ i - 1 = Len(q) + (j - 1)
          /\ j \in 1..Len(w) /\ j - 1 \in 1..Len(w)
      BY <1>1, <2>3
    <3>2. d[Len(q) + j] = w[j] /\ d[Len(q) + (j - 1)] = w[j - 1]
      BY <1>1, <3>1, Zenon
    <3>3. d[i] = w[j] /\ d[i - 1] = w[j - 1]
      BY <3>1, <3>2, Zenon
    <3> QED  BY <3>1, <3>3, <1>4 DEF NoEmptySubstream
  <2> QED  BY <1>1, <2>1, <2>2, <2>3
<1> QED  BY <1>3, <1>4 DEF NoEmptySubstream, d

LEMMA FramedSuffix ==
  ASSUME NEW q \in Seq(Messages), NEW d \in Seq(Messages), NEW n \in Nat, n > 0,
         n <= Len(q), Len(d) = Len(q) - n, \A i \in 1..Len(d) : d[i] = q[n + i],
         NoEmptySubstream(q)
  PROVE  /\ NoEmptySubstream(d)
         /\ d # <<>> => d[Len(d)] = q[Len(q)]
         /\ (d # <<>> /\ q[n].k = "eos") => d[1].k # "eos"
<1>1. Len(q) \in Nat /\ Len(d) \in Nat /\ (d # <<>> <=> Len(d) > 0)
  BY EmptyFacts
<1>2. ASSUME NEW i \in 2..Len(d), d[i].k = "eos" PROVE d[i - 1].k # "eos"
  <2>1. /\ i \in 1..Len(d) /\ i - 1 \in 1..Len(d)
        /\ n + i \in 2..Len(q) /\ n + (i - 1) = (n + i) - 1
    BY <1>1
  <2>2. d[i] = q[n + i] /\ d[i - 1] = q[(n + i) - 1]
    BY <2>1, Zenon
  <2> QED  BY <2>1, <2>2, <1>2 DEF NoEmptySubstream
<1>3. d # <<>> => d[Len(d)] = q[Len(q)]
  BY <1>1
<1>4. (d # <<>> /\ q[n].k = "eos") => d[1].k # "eos"
  <2>1. d # <<>> => n + 1 \in 2..Len(q) /\ (n + 1) - 1 = n /\ d[1] = q[n + 1]
    BY <1>1
  <2> QED  BY <2>1 DEF NoEmptySubstream
<1> QED  BY <1>2, <1>3, <1>4 DEF NoEmptySubstream

(* A whole substream in front of the request reader has a first message    *)
(* besides its schema, if only the marker.                                 *)
LEMMA RequestFacts ==
  ASSUME TypeOK, Framed, RequestHere
  PROVE  FirstEos(c2s) >= 2 /\ 2 \in 1..Len(c2s) /\ c2s[2] \in Messages /\ c2s[2].call \in 0..MaxCalls
<1>1. c2s \in Seq(Messages) /\ FirstEos(c2s) \in 1..Len(c2s) /\ c2s[FirstEos(c2s)].k = "eos"
  BY FirstEosFacts DEF TypeOK, RequestHere, Complete
<1>2. c2s # <<>> /\ c2s[1].k # "eos"
  BY <1>1 DEF Framed, RequestHere
<1>3. FirstEos(c2s) >= 2 /\ 2 \in 1..Len(c2s)
  BY <1>1, <1>2
<1>4. c2s[2] \in Messages
  BY <1>1, <1>3
<1> QED  BY <1>3, <1>4 DEF Messages

LEMMA OutputFacts ==
  ASSUME NEW o \in Outcomes, o # "silent", scall \in 0..MaxCalls
  PROVE  /\ TurnOutput(o) \in Seq(Messages)
         /\ Len(TurnOutput(o)) \in 1..2
         /\ o = "data" => Len(TurnOutput(o)) = 1 /\ TurnOutput(o)[1] = Batch("data", scall)
         /\ o = "finish" => Len(TurnOutput(o)) = 1 /\ TurnOutput(o)[1] = Eos(scall)
         /\ o = "last" => /\ Len(TurnOutput(o)) = 2 /\ TurnOutput(o)[2] = Eos(scall)
                          /\ TurnOutput(o)[1] = Batch("data", scall)
         /\ o = "raise" => /\ Len(TurnOutput(o)) = 2 /\ TurnOutput(o)[2] = Eos(scall)
                           /\ TurnOutput(o)[1] = Batch("exception", scall)
<1>1. /\ Batch("data", scall) \in Messages /\ Batch("exception", scall) \in Messages
      /\ Eos(scall) \in Messages
  BY MessageFacts DEF Payloads
<1>2. o \in {"data", "last", "finish", "raise"}
  BY WireAssumption
<1>3. /\ o = "data" => TurnOutput(o) = <<Batch("data", scall)>>
      /\ o = "last" => TurnOutput(o) = <<Batch("data", scall), Eos(scall)>>
      /\ o = "finish" => TurnOutput(o) = <<Eos(scall)>>
      /\ o = "raise" => TurnOutput(o) = <<Batch("exception", scall), Eos(scall)>>
  BY DEF TurnOutput
<1>4. ASSUME NEW m \in Messages PROVE <<m>> \in Seq(Messages) /\ Len(<<m>>) = 1 /\ <<m>>[1] = m
  OBVIOUS
<1>5. ASSUME NEW m \in Messages, NEW e \in Messages
      PROVE  <<m, e>> \in Seq(Messages) /\ Len(<<m, e>>) = 2 /\ <<m, e>>[1] = m /\ <<m, e>>[2] = e
  OBVIOUS
<1>6. CASE o = "data"
  <2> DEFINE t == <<Batch("data", scall)>>
  <2>1. t \in Seq(Messages) /\ Len(t) = 1 /\ t[1] = Batch("data", scall)
    BY <1>1, <1>4
  <2>2. TurnOutput(o) = t
    BY <1>3, <1>6
  <2> HIDE DEF t
  <2> QED  BY <2>1, <2>2, <1>6
<1>7. CASE o = "last"
  <2> DEFINE t == <<Batch("data", scall), Eos(scall)>>
  <2>1. t \in Seq(Messages) /\ Len(t) = 2 /\ t[1] = Batch("data", scall) /\ t[2] = Eos(scall)
    BY <1>1, <1>5
  <2>2. TurnOutput(o) = t
    BY <1>3, <1>7
  <2> HIDE DEF t
  <2> QED  BY <2>1, <2>2, <1>7
<1>8. CASE o = "finish"
  <2> DEFINE t == <<Eos(scall)>>
  <2>1. t \in Seq(Messages) /\ Len(t) = 1 /\ t[1] = Eos(scall)
    BY <1>1, <1>4
  <2>2. TurnOutput(o) = t
    BY <1>3, <1>8
  <2> HIDE DEF t
  <2> QED  BY <2>1, <2>2, <1>8
<1>9. CASE o = "raise"
  <2> DEFINE t == <<Batch("exception", scall), Eos(scall)>>
  <2>1. t \in Seq(Messages) /\ Len(t) = 2 /\ t[1] = Batch("exception", scall) /\ t[2] = Eos(scall)
    BY <1>1, <1>5
  <2>2. TurnOutput(o) = t
    BY <1>3, <1>9
  <2> HIDE DEF t
  <2> QED  BY <2>1, <2>2, <1>9
<1> QED  BY <1>2, <1>6, <1>7, <1>8, <1>9

(* The steps that take whole substreams or single messages off the front   *)
(* of the request stream keep it framed.                                   *)
LEMMA FramedRest ==
  ASSUME TypeOK, Framed, Complete(c2s)
  PROVE  /\ Rest(c2s) \in Seq(Messages) /\ NoEmptySubstream(Rest(c2s))
         /\ Rest(c2s) # <<>> => Rest(c2s)[1].k # "eos" /\ Rest(c2s)[Len(Rest(c2s))] = c2s[Len(c2s)]
         /\ InInput => Rest(c2s) # <<>>
<1> DEFINE n == FirstEos(c2s)
<1>1. c2s \in Seq(Messages) /\ n \in 1..Len(c2s) /\ c2s[n].k = "eos"
  BY FirstEosFacts DEF TypeOK, Complete
<1>2. /\ Rest(c2s) \in Seq(Messages) /\ Len(Rest(c2s)) = Len(c2s) - n
      /\ \A i \in 1..Len(Rest(c2s)) : Rest(c2s)[i] = c2s[n + i]
  BY <1>1, RestFacts
<1> HIDE DEF n
<1>3. n \in Nat /\ n > 0 /\ n <= Len(c2s)
  BY <1>1
<1>4. /\ NoEmptySubstream(Rest(c2s))
      /\ Rest(c2s) # <<>> => Rest(c2s)[Len(Rest(c2s))] = c2s[Len(c2s)]
      /\ Rest(c2s) # <<>> => Rest(c2s)[1].k # "eos"
  BY <1>1, <1>2, <1>3, FramedSuffix DEF Framed
<1>5. ASSUME InInput, Rest(c2s) = <<>> PROVE FALSE
  <2>1. Len(c2s) = n /\ c2s # <<>>
    BY <1>1, <1>2, <1>3, <1>5
  <2> QED  BY <1>1, <1>5, <2>1 DEF Framed
<1> QED  BY <1>2, <1>4, <1>5

LEMMA FramedTail ==
  ASSUME TypeOK, Framed, c2s # <<>>
  PROVE  /\ Tail(c2s) \in Seq(Messages) /\ NoEmptySubstream(Tail(c2s))
         /\ Tail(c2s) # <<>> => Tail(c2s)[Len(Tail(c2s))] = c2s[Len(c2s)]
         /\ Head(c2s).k = "eos" => /\ Tail(c2s) # <<>> => Tail(c2s)[1].k # "eos"
                                   /\ InInput => Tail(c2s) # <<>>
<1>1. c2s \in Seq(Messages)
  BY DEF TypeOK
<1>2. /\ Tail(c2s) \in Seq(Messages) /\ Len(Tail(c2s)) = Len(c2s) - 1 /\ Len(c2s) \in Nat \ {0}
      /\ \A i \in 1..Len(Tail(c2s)) : Tail(c2s)[i] = c2s[1 + i]
      /\ Head(c2s) = c2s[1]
  BY <1>1, TailFacts
<1>3. /\ NoEmptySubstream(Tail(c2s))
      /\ Tail(c2s) # <<>> => Tail(c2s)[Len(Tail(c2s))] = c2s[Len(c2s)]
      /\ (Tail(c2s) # <<>> /\ c2s[1].k = "eos") => Tail(c2s)[1].k # "eos"
  <2>1. 1 \in Nat /\ 1 > 0 /\ 1 <= Len(c2s) /\ NoEmptySubstream(c2s)
    BY <1>2 DEF Framed
  <2> DEFINE t == Tail(c2s)
  <2> HIDE DEF t
  <2>2. /\ t \in Seq(Messages) /\ Len(t) = Len(c2s) - 1
        /\ \A i \in 1..Len(t) : t[i] = c2s[1 + i]
    BY <1>2 DEF t
  <2>3. /\ NoEmptySubstream(t)
        /\ t # <<>> => t[Len(t)] = c2s[Len(c2s)]
        /\ (t # <<>> /\ c2s[1].k = "eos") => t[1].k # "eos"
    BY <1>1, <2>1, <2>2, FramedSuffix
  <2> QED  BY <2>3 DEF t
<1>4. ASSUME InInput, Head(c2s).k = "eos", Tail(c2s) = <<>> PROVE FALSE
  <2>1. Len(c2s) = 1
    <3>1. Len(Tail(c2s)) = 0
      BY <1>2, <1>4, EmptyFacts
    <3> QED  BY <3>1, <1>2
  <2> QED  BY <1>2, <1>4, <2>1 DEF Framed
<1> QED  BY <1>2, <1>3, <1>4

(* So do the client's appends. *)
LEMMA FramedSend ==
  ASSUME TypeOK, Framed, cst \in {"open", "turn", "cancelling"}, NEW x \in Messages
  PROVE  LET d == c2s \o Owed(sent, call) \o <<x>> IN
         /\ d \in Seq(Messages) /\ NoEmptySubstream(d) /\ d # <<>> /\ d[Len(d)] = x
         /\ sst = "request" => d[1].k # "eos"
<1> DEFINE w == Owed(sent, call) \o <<x>>
           d == c2s \o Owed(sent, call) \o <<x>>
<1>1. c2s \in Seq(Messages) /\ sent \in BOOLEAN /\ call \in 0..MaxCalls
  BY DEF TypeOK
<1>2. /\ w \in Seq(Messages) /\ Len(w) = (IF sent THEN 1 ELSE 2) /\ w[Len(w)] = x
      /\ ~sent => w[1] = Schema(call)
      /\ d = c2s \o w
  BY <1>1, OwedFacts
<1>3. Schema(call).k # "eos"
  BY <1>1, MessageFacts
<1> HIDE DEF w, d
<1>4. w # <<>> /\ NoEmptySubstream(w) /\ (w[1].k = "eos" => sent)
  <2>1. w # <<>> /\ (w[1].k = "eos" => sent)
    BY <1>1, <1>2, <1>3
  <2>2. NoEmptySubstream(w)
    BY <1>1, <1>2, <1>3 DEF NoEmptySubstream
  <2> QED  BY <2>1, <2>2
<1>5. (c2s # <<>> /\ w[1].k = "eos") => c2s[Len(c2s)].k # "eos"
  BY <1>4 DEF Framed, InInput
<1>6. /\ NoEmptySubstream(d) /\ d # <<>> /\ d[Len(d)] = w[Len(w)]
      /\ d[1] = IF c2s = <<>> THEN w[1] ELSE c2s[1]
  BY <1>1, <1>2, <1>4, <1>5, FramedAppend DEF Framed
<1>7. d \in Seq(Messages)
  BY <1>1, <1>2, AppendFacts
<1>8. sst = "request" => d[1].k # "eos"
  <2>1. CASE c2s # <<>>
    BY <1>6, <2>1 DEF Framed
  <2>2. CASE c2s = <<>> /\ sst = "request"
    BY <1>4, <1>6, <2>2 DEF Framed, InInput
  <2> QED  BY <2>1, <2>2
<1> QED  BY <1>2, <1>6, <1>7, <1>8 DEF d

LEMMA InitFramed == Init => TypeOK /\ Framed
<1> SUFFICES ASSUME Init PROVE TypeOK /\ Framed
  OBVIOUS
<1>1. c2s = <<>> /\ s2c = <<>> /\ Len(c2s) = 0
  BY DEF Init
<1>2. TypeOK
  <2>1. <<>> \in Seq(Messages) /\ 0 \in 0..MaxCalls /\ 0 \in 0..MaxTurns
    BY WireAssumption
  <2> QED  BY <1>1, <2>1 DEF Init, TypeOK
<1>3. Framed
  BY <1>1 DEF Init, Framed, NoEmptySubstream, InInput
<1> QED  BY <1>2, <1>3

LEMMA FramedClientWrites ==
  ASSUME TypeOK, Framed,
         \/ \E k \in Kinds, r \in BOOLEAN : Call(k, r)
         \/ Turn \/ Close \/ Cancel
  PROVE  TypeOK' /\ Framed'
<1>1. /\ c2s \in Seq(Messages) /\ call \in 0..MaxCalls /\ call \in Nat /\ turns \in 0..MaxTurns
      /\ MaxCalls \in Nat /\ MaxTurns \in Nat
  BY WireAssumption DEF TypeOK
<1>2. ASSUME NEW k \in Kinds, NEW r \in BOOLEAN, Call(k, r) PROVE TypeOK' /\ Framed'
  <2> DEFINE w == <<Schema(call'), Message("batch", k, r, call'), Eos(call')>>
  <2>1. call' \in 0..MaxCalls
    BY <1>1, <1>2 DEF Call
  <2>2. /\ Schema(call') \in Messages /\ Schema(call').k = "schema"
        /\ Message("batch", k, r, call') \in Messages /\ Message("batch", k, r, call').k = "batch"
        /\ Eos(call') \in Messages
    BY <2>1, MessageFacts DEF Payloads
  <2>3. /\ w \in Seq(Messages) /\ Len(w) = 3 /\ w[1].k = "schema" /\ w[2].k = "batch" /\ w # <<>>
    BY <2>2, ThreeFacts, EmptyFacts
  <2>4. c2s' = c2s \o w
    BY <1>2 DEF Call
  <2> HIDE DEF w
  <2>5. NoEmptySubstream(w)
    <3>1. \A i \in 2..3 : i = 2 \/ i = 3
      OBVIOUS
    <3> QED  BY <2>3, <3>1 DEF NoEmptySubstream
  <2>6. /\ NoEmptySubstream(c2s') /\ c2s' # <<>>
        /\ c2s'[1] = IF c2s = <<>> THEN w[1] ELSE c2s[1]
    BY <1>1, <2>3, <2>4, <2>5, FramedAppend DEF Framed
  <2>7. c2s' \in Seq(Messages)
    BY <1>1, <2>3, <2>4, AppendFacts
  <2>8. /\ cst' \in Awaiting \cup {"idle", "open"} /\ cst' \in {"reply", "header", "open"}
        /\ sent' = FALSE /\ opened' = FALSE /\ finished' = FALSE /\ turns' = 0
        /\ UNCHANGED <<s2c, clientUp, sst, scall, outOpened, crashed>>
    BY <1>2 DEF Call, Kinds, Awaiting, serverVars
  <2>9. TypeOK'
    <3>1. 0 \in 0..MaxTurns
      BY <1>1
    <3> QED  BY <2>1, <2>7, <2>8, <3>1 DEF TypeOK
  <2>10. (sst' = "request" /\ c2s' # <<>>) => c2s'[1].k # "eos"
    BY <2>3, <2>6, <2>8 DEF Framed
  <2> QED  BY <2>6, <2>8, <2>9, <2>10 DEF Framed, InInput
<1>3. CASE Turn
  <2>1. Batch("input", call) \in Messages /\ Batch("input", call).k = "batch"
    BY <1>1, MessageFacts DEF Payloads
  <2>2. c2s' = c2s \o Owed(sent, call) \o <<Batch("input", call)>> /\ cst = "open"
    BY <1>3 DEF Turn
  <2>3. /\ c2s' \in Seq(Messages) /\ NoEmptySubstream(c2s') /\ c2s' # <<>>
        /\ c2s'[Len(c2s')] = Batch("input", call)
        /\ sst = "request" => c2s'[1].k # "eos"
    BY <2>1, <2>2, FramedSend
  <2>4. /\ cst' = "turn" /\ sent' = TRUE /\ turns' \in 0..MaxTurns
        /\ UNCHANGED <<s2c, clientUp, call, opened, finished, sst, scall, outOpened, crashed>>
    BY <1>1, <1>3 DEF Turn, serverVars
  <2>5. TypeOK'
    BY <2>3, <2>4 DEF TypeOK, Awaiting
  <2> QED  BY <2>1, <2>3, <2>4, <2>5 DEF Framed, InInput
<1>4. CASE Cancel
  <2>1. Batch("cancel", call) \in Messages /\ Batch("cancel", call).k = "batch"
    BY <1>1, MessageFacts DEF Payloads
  <2>2. c2s' = c2s \o Owed(sent, call) \o <<Batch("cancel", call)>> /\ cst = "open"
    BY <1>4 DEF Cancel
  <2>3. /\ c2s' \in Seq(Messages) /\ NoEmptySubstream(c2s') /\ c2s' # <<>>
        /\ c2s'[Len(c2s')] = Batch("cancel", call)
        /\ sst = "request" => c2s'[1].k # "eos"
    BY <2>1, <2>2, FramedSend
  <2>4. /\ cst' = "cancelling" /\ sent' = TRUE
        /\ UNCHANGED <<s2c, clientUp, call, opened, finished, turns, sst, scall, outOpened, crashed>>
    BY <1>4 DEF Cancel, serverVars
  <2>5. TypeOK'
    BY <2>3, <2>4 DEF TypeOK, Awaiting
  <2> QED  BY <2>1, <2>3, <2>4, <2>5 DEF Framed, InInput
<1>5. CASE Close
  <2>1. Eos(call) \in Messages
    BY <1>1, MessageFacts
  <2>2. c2s' = c2s \o Owed(sent, call) \o <<Eos(call)>> /\ cst = "open"
    BY <1>5 DEF Close
  <2>3. /\ c2s' \in Seq(Messages) /\ NoEmptySubstream(c2s') /\ c2s' # <<>>
        /\ sst = "request" => c2s'[1].k # "eos"
    BY <2>1, <2>2, FramedSend
  <2>4. /\ cst' \in {"idle", "closing"} /\ sent' = TRUE
        /\ UNCHANGED <<s2c, clientUp, call, opened, finished, turns, sst, scall, outOpened, crashed>>
    BY <1>5 DEF Close, serverVars
  <2>5. TypeOK'
    BY <2>3, <2>4 DEF TypeOK, Awaiting
  <2> QED  BY <2>3, <2>4, <2>5 DEF Framed, InInput
<1> QED  BY <1>2, <1>3, <1>4, <1>5

(* A read of the client leaves the rest of the answers, and writes at most *)
(* the end of its input.                                                   *)
LEMMA FramedClientReads ==
  ASSUME TypeOK, Framed, Abandon \/ ReadFails \/ ClientReads
  PROVE  TypeOK' /\ Framed'
<1>1. /\ c2s \in Seq(Messages) /\ s2c \in Seq(Messages) /\ call \in 0..MaxCalls
      /\ Rest(s2c) \in Seq(Messages)
  BY RestFacts DEF TypeOK
<1>2. ASSUME c2s' = c2s, sst' = sst, cst' = "idle" PROVE Framed'
  BY <1>2 DEF Framed, InInput
<1>3. CASE Abandon \/ ReadFails
  <2>1. /\ cst' = "idle" /\ clientUp' = FALSE
        /\ UNCHANGED <<c2s, s2c, call, sent, opened, finished, turns, sst, scall, outOpened, crashed>>
    BY <1>3 DEF Abandon, ReadFails, Abort, serverVars
  <2>2. TypeOK'
    BY <2>1 DEF TypeOK
  <2> QED  BY <1>2, <2>1, <2>2
<1>4. CASE UnaryReply
  <2>1. /\ cst' = "idle" /\ clientUp' \in BOOLEAN /\ s2c' \in Seq(Messages)
        /\ UNCHANGED <<c2s, call, sent, opened, finished, turns, sst, scall, outOpened, crashed>>
    BY <1>1, <1>4 DEF UnaryReply, Abort, serverVars, TypeOK
  <2>2. TypeOK'
    BY <2>1 DEF TypeOK
  <2> QED  BY <1>2, <2>1, <2>2
<1>5. CASE CloseDrained
  <2>1. /\ cst' = "idle" /\ clientUp' \in BOOLEAN /\ s2c' \in Seq(Messages) /\ finished' = TRUE
        /\ UNCHANGED <<c2s, call, sent, opened, turns, sst, scall, outOpened, crashed>>
    BY <1>1, <1>5 DEF CloseDrained, Abort, serverVars, TypeOK
  <2>2. TypeOK'
    BY <2>1 DEF TypeOK
  <2> QED  BY <1>2, <2>1, <2>2
<1>6. CASE TurnReply
  <2> DEFINE i == IF opened THEN 1 ELSE 2
  <2>1. i \in 1..Len(s2c)
    BY <1>1, <1>6 DEF TurnReply
  <2>2. SubSeq(s2c, i + 1, Len(s2c)) \in Seq(Messages)
    BY <1>1, <2>1, SuffixFacts
  <2>3. /\ s2c' \in Seq(Messages) /\ finished' \in BOOLEAN /\ opened' = TRUE /\ cst' = "open"
        /\ cst = "turn"
        /\ UNCHANGED <<c2s, clientUp, call, sent, turns, sst, scall, outOpened, crashed>>
    BY <1>1, <1>6, <2>2 DEF TurnReply, serverVars
  <2>4. TypeOK'
    BY <2>3 DEF TypeOK
  <2>5. Framed'
    BY <2>3 DEF Framed, InInput
  <2> QED  BY <2>4, <2>5
<1>7. CASE HeaderReply
  <2> DEFINE w == <<Schema(call), Eos(call)>>
  <2>1. /\ cst' \in {"idle", "open"} /\ s2c' \in Seq(Messages) /\ cst = "header"
        /\ c2s' = c2s \/ (c2s' = c2s \o w /\ cst' = "idle")
        /\ UNCHANGED <<clientUp, call, sent, opened, finished, turns, sst, scall, outOpened, crashed>>
    <3>1. c2s' = c2s \/ (c2s' = c2s \o w /\ cst' = "idle")
      BY <1>7, Zenon DEF HeaderReply
    <3> QED  BY <1>1, <1>7, <3>1 DEF HeaderReply, serverVars
  <2>2. /\ Schema(call) \in Messages /\ Schema(call).k = "schema" /\ Eos(call) \in Messages
    BY <1>1, MessageFacts
  <2>3. w \in Seq(Messages) /\ Len(w) = 2 /\ w # <<>> /\ w[1].k = "schema"
    BY <2>2
  <2>4. ~sent
    BY <2>1 DEF Framed
  <2> HIDE DEF w
  <2>5. CASE c2s' = c2s
    <3>1. TypeOK'
      BY <2>1, <2>5 DEF TypeOK
    <3> QED  BY <3>1, <2>1, <2>4, <2>5 DEF Framed, InInput
  <2>6. CASE c2s' = c2s \o w /\ cst' = "idle"
    <3>1. NoEmptySubstream(w)
      BY <2>3 DEF NoEmptySubstream
    <3>2. /\ NoEmptySubstream(c2s') /\ c2s' # <<>>
          /\ c2s'[1] = IF c2s = <<>> THEN w[1] ELSE c2s[1]
      BY <1>1, <2>3, <2>6, <3>1, FramedAppend DEF Framed
    <3>3. c2s' \in Seq(Messages)
      BY <1>1, <2>3, <2>6, AppendFacts
    <3>4. TypeOK'
      BY <2>1, <3>3 DEF TypeOK
    <3>5. (sst' = "request" /\ c2s' # <<>>) => c2s'[1].k # "eos"
      BY <2>1, <2>3, <3>2 DEF Framed
    <3> QED  BY <2>6, <3>2, <3>4, <3>5 DEF Framed, InInput
  <2> QED  BY <2>1, <2>5, <2>6
<1>8. CASE CancelDrained
  <2>1. /\ cst' = "idle" /\ clientUp' \in BOOLEAN /\ s2c' \in Seq(Messages) /\ finished' = TRUE
        /\ cst = "cancelling"
        /\ c2s' = c2s \/ c2s' = Append(c2s, Eos(call))
        /\ UNCHANGED <<call, sent, opened, turns, sst, scall, outOpened, crashed>>
    BY <1>1, <1>8 DEF CancelDrained, Abort, serverVars, TypeOK
  <2>2. CASE c2s' = c2s
    <3>1. TypeOK'
      BY <2>1, <2>2 DEF TypeOK
    <3> QED  BY <1>2, <2>1, <2>2, <3>1
  <2>3. CASE c2s' = Append(c2s, Eos(call))
    <3>1. Eos(call) \in Messages
      BY <1>1, MessageFacts
    <3>2. sent /\ Owed(sent, call) = <<>>
      BY <2>1 DEF Framed, Owed
    <3>3. c2s' = c2s \o Owed(sent, call) \o <<Eos(call)>>
      <4>1. ASSUME NEW m \in Messages PROVE Append(c2s, m) = c2s \o <<>> \o <<m>>
        BY <1>1
      <4> QED  BY <2>3, <3>1, <3>2, <4>1
    <3>4. /\ c2s' \in Seq(Messages) /\ NoEmptySubstream(c2s') /\ c2s' # <<>>
          /\ sst = "request" => c2s'[1].k # "eos"
      BY <2>1, <3>1, <3>3, FramedSend
    <3>5. TypeOK'
      BY <2>1, <3>4 DEF TypeOK
    <3> QED  BY <2>1, <3>4, <3>5 DEF Framed, InInput
  <2> QED  BY <2>1, <2>2, <2>3
<1> QED  BY <1>3, <1>4, <1>5, <1>6, <1>7, <1>8 DEF ClientReads

LEMMA FramedServer ==
  ASSUME TypeOK, Framed, ServerStep \/ ServerDies
  PROVE  TypeOK' /\ Framed'
<1>1. /\ c2s \in Seq(Messages) /\ s2c \in Seq(Messages) /\ scall \in 0..MaxCalls
      /\ outOpened \in BOOLEAN
  BY DEF TypeOK
<1>2. UNCHANGED <<clientUp, cst, call, sent, opened, finished, turns>> /\ (InInput' <=> InInput)
  BY DEF ServerStep, ServeRefused, ServeUnary, FactoryRaises, Discarded, FactoryReturns,
         OpenInput, StreamTurn, StreamEnds, StreamDrained, ServerEof, ServerDies,
         clientVars, InInput
<1>3. ASSUME c2s' \in Seq(Messages), s2c' \in Seq(Messages), scall' \in 0..MaxCalls,
             sst' \in {"request", "discard", "open", "loop", "drain", "down"},
             outOpened' \in BOOLEAN, crashed' \in BOOLEAN
      PROVE  TypeOK'
  BY <1>2, <1>3 DEF TypeOK
<1>4. ASSUME NoEmptySubstream(c2s'), c2s' # <<>> => c2s'[Len(c2s')] = c2s[Len(c2s)], c2s # <<>>,
             sst' = "request" => /\ c2s' # <<>> => c2s'[1].k # "eos"
                                 /\ InInput => c2s' # <<>>
      PROVE  Framed'
  BY <1>2, <1>4 DEF Framed
<1>5. Complete(c2s) => c2s # <<>>
  BY <1>1, FirstEosFacts DEF Complete
<1>6. ASSUME NEW what \in Payloads, RequestHere
      PROVE  s2c \o Substream(what, c2s[2].call) \in Seq(Messages)
  <2>1. c2s[2].call \in 0..MaxCalls
    BY <1>6, RequestFacts
  <2>2. /\ Schema(c2s[2].call) \in Messages /\ Eos(c2s[2].call) \in Messages
        /\ Batch(what, c2s[2].call) \in Messages
    BY <1>6, <2>1, MessageFacts
  <2>3. Substream(what, c2s[2].call) \in Seq(Messages)
    BY <2>2, ThreeFacts DEF Substream
  <2> QED  BY <1>1, <2>3, AppendFacts
<1>7. ASSUME ServeRefused \/ \E a \in {"data", "exception"} : ServeUnary(a) PROVE TypeOK' /\ Framed'
  <2>1. /\ RequestHere /\ c2s' = Rest(c2s) /\ UNCHANGED <<sst, scall, outOpened, crashed>>
        /\ \E what \in Payloads : s2c' = s2c \o Substream(what, c2s[2].call)
    BY <1>7 DEF ServeRefused, ServeUnary, Reply, serverVars, Payloads
  <2>2. Complete(c2s)
    BY <2>1 DEF RequestHere
  <2>3. TypeOK'
    BY <1>3, <1>6, <2>1, <2>2, FramedRest DEF TypeOK
  <2>4. Framed'
    BY <1>4, <1>5, <2>1, <2>2, FramedRest
  <2> QED  BY <2>3, <2>4
<1>8. ASSUME FactoryRaises \/ FactoryReturns PROVE TypeOK' /\ Framed'
  <2>1. /\ RequestHere /\ c2s' = Rest(c2s) /\ crashed' = crashed /\ outOpened' \in BOOLEAN
        /\ sst' \in {"discard", "open"} /\ scall' \in {scall, c2s[2].call}
        /\ s2c' = s2c \/ \E what \in Payloads : s2c' = s2c \o Substream(what, c2s[2].call)
    BY <1>1, <1>8 DEF FactoryRaises, FactoryReturns, Reply, serverVars, Payloads
  <2>2. Complete(c2s) /\ c2s[2].call \in 0..MaxCalls
    BY <2>1, RequestFacts DEF RequestHere
  <2>3. s2c' \in Seq(Messages)
    BY <1>1, <1>6, <2>1
  <2>4. TypeOK'
    BY <1>1, <1>3, <2>1, <2>2, <2>3, FramedRest DEF TypeOK
  <2>5. Framed'
    BY <1>4, <1>5, <2>1, <2>2, FramedRest
  <2> QED  BY <2>4, <2>5
<1>9. ASSUME Discarded \/ StreamDrained PROVE TypeOK' /\ Framed'
  <2>1. /\ Complete(c2s) /\ c2s' = Rest(c2s) /\ sst' = "request"
        /\ UNCHANGED <<s2c, scall, outOpened, crashed>>
    BY <1>9 DEF Discarded, StreamDrained
  <2>2. TypeOK'
    BY <1>1, <1>3, <2>1, FramedRest DEF TypeOK
  <2>3. Framed'
    BY <1>4, <1>5, <2>1, FramedRest
  <2> QED  BY <2>2, <2>3
<1>10. CASE OpenInput
  <2>1. /\ c2s # <<>> /\ c2s' = Tail(c2s) /\ sst' = "loop"
        /\ UNCHANGED <<s2c, scall, outOpened, crashed>>
    BY <1>10 DEF OpenInput
  <2>2. TypeOK'
    BY <1>1, <1>3, <2>1, FramedTail DEF TypeOK
  <2>3. Framed'
    BY <1>4, <2>1, FramedTail
  <2> QED  BY <2>2, <2>3
<1>11. ASSUME NEW o \in Outcomes, StreamTurn(o) PROVE TypeOK' /\ Framed'
  <2>1. /\ c2s # <<>> /\ c2s' = Tail(c2s) /\ sst' \in {"loop", "drain"}
        /\ UNCHANGED <<scall, crashed>>
    BY <1>11 DEF StreamTurn
  <2>2. s2c' \in Seq(Messages) /\ outOpened' \in BOOLEAN
    <3>1. CASE o = "silent"
      BY <1>1, <1>11, <3>1 DEF StreamTurn
    <3>2. CASE o # "silent"
      <4>1. s2c' = s2c \o Owed(outOpened, scall) \o TurnOutput(o) /\ outOpened' = TRUE
        BY <1>11, <3>2 DEF StreamTurn
      <4>2. TurnOutput(o) \in Seq(Messages)
        BY <1>1, <3>2, OutputFacts
      <4>3. Schema(scall) \in Messages
        BY <1>1, MessageFacts
      <4>4. Owed(outOpened, scall) \in Seq(Messages)
        BY <4>3 DEF Owed
      <4> QED  BY <1>1, <4>1, <4>2, <4>4, AppendFacts
    <3> QED  BY <3>1, <3>2
  <2>3. TypeOK'
    BY <1>1, <1>3, <2>1, <2>2, FramedTail DEF TypeOK
  <2>4. Framed'
    BY <1>4, <2>1, FramedTail
  <2> QED  BY <2>3, <2>4
<1>12. CASE StreamEnds
  <2>1. /\ c2s # <<>> /\ c2s' = Tail(c2s) /\ sst' \in {"request", "drain"}
        /\ sst' = "request" => Head(c2s).k = "eos"
        /\ UNCHANGED <<scall, crashed>> /\ outOpened' = TRUE
        /\ s2c' = s2c \o Owed(outOpened, scall) \o <<Eos(scall)>>
    BY <1>12 DEF StreamEnds
  <2>2. Eos(scall) \in Messages
    BY <1>1, MessageFacts
  <2>3. s2c' \in Seq(Messages)
    <3> DEFINE w == Owed(outOpened, scall) \o <<Eos(scall)>>
    <3>1. w \in Seq(Messages) /\ s2c' = s2c \o w
      BY <1>1, <2>1, <2>2, OwedFacts
    <3> HIDE DEF w
    <3> QED  BY <1>1, <3>1, AppendFacts
  <2>4. TypeOK'
    BY <1>1, <1>3, <2>1, <2>3, FramedTail DEF TypeOK
  <2>5. Framed'
    BY <1>4, <2>1, FramedTail
  <2> QED  BY <2>4, <2>5
<1>13. ASSUME ServerEof \/ ServerDies PROVE TypeOK' /\ Framed'
  <2>1. /\ sst' = "down" /\ UNCHANGED <<c2s, s2c, scall, outOpened>> /\ crashed' \in BOOLEAN
    BY <1>13 DEF ServerEof, ServerDies, TypeOK
  <2>2. TypeOK'
    BY <1>1, <1>3, <2>1
  <2>3. Framed'
    BY <1>2, <2>1 DEF Framed
  <2> QED  BY <2>2, <2>3
<1> QED
  BY <1>7, <1>8, <1>9, <1>10, <1>11, <1>12, <1>13 DEF ServerStep

LEMMA FramedStep ==
  ASSUME TypeOK, Framed, [Next]_vars
  PROVE  TypeOK' /\ Framed'
<1>1. CASE UNCHANGED vars
  BY <1>1 DEF vars, clientVars, serverVars, TypeOK, Framed, InInput, NoEmptySubstream
<1>2. CASE Done
  BY <1>1, <1>2 DEF Done
<1> QED
  BY <1>1, <1>2, FramedClientWrites, FramedClientReads, FramedServer DEF Next

(* Every message on the wire is one of the protocol's, and the request     *)
(* reader of serve_one never looks past the end of a substream: what it    *)
(* takes for a request has a message behind its schema, whatever the gates *)
(* ahead of dispatch refuse.                                               *)
THEOREM WireTypes == Spec => [](TypeOK /\ (RequestHere => c2s[2] \in Messages))
<1>1. TypeOK /\ Framed /\ [Next]_vars => TypeOK' /\ Framed'
  BY FramedStep
<1>2. TypeOK /\ Framed => (RequestHere => c2s[2] \in Messages)
  BY RequestFacts
<1> QED  BY InitFramed, <1>1, <1>2, PTL DEF Spec

-----------------------------------------------------------------------------
(* The two ends in step. *)

LEMMA IncompleteAppend ==
  ASSUME NEW q \in Seq(Messages), NEW w \in Seq(Messages), ~Complete(q),
         \A i \in 1..Len(w) : w[i].k # "eos"
  PROVE  ~Complete(q \o w)
<1> DEFINE d == q \o w
<1>1. /\ d \in Seq(Messages) /\ Len(d) = Len(q) + Len(w) /\ Len(q) \in Nat /\ Len(w) \in Nat
      /\ \A i \in 1..Len(q) : d[i] = q[i]
      /\ \A i \in 1..Len(w) : d[Len(q) + i] = w[i]
  BY AppendFacts
<1>2. \A i \in 1..Len(q) : q[i].k # "eos"
  BY FirstEosFacts DEF Complete
<1> HIDE DEF d
<1>3. ASSUME NEW i \in 1..Len(d) PROVE d[i].k # "eos"
  <2>1. CASE i <= Len(q)
    BY <1>1, <1>2, <2>1
  <2>2. CASE i > Len(q)
    <3>1. i - Len(q) \in 1..Len(w) /\ i = Len(q) + (i - Len(q))
      BY <1>1, <2>2
    <3>2. d[i] = w[i - Len(q)]
      BY <1>1, <3>1, Zenon
    <3> QED  BY <3>1, <3>2
  <2> QED  BY <1>1, <2>1, <2>2
<1>4. FirstEos(d) = 0
  BY <1>1, <1>3, NoEos
<1> QED  BY <1>4 DEF Complete, d

LEMMA EndedAppend ==
  ASSUME NEW q \in Seq(Messages), NEW w \in Seq(Messages), ~Complete(q), Len(w) > 0,
         \A i \in 1..(Len(w) - 1) : w[i].k # "eos", w[Len(w)].k = "eos"
  PROVE  Complete(q \o w) /\ Rest(q \o w) = <<>> /\ FirstEos(q \o w) = Len(q) + Len(w)
<1> DEFINE d == q \o w
<1>1. /\ d \in Seq(Messages) /\ Len(d) = Len(q) + Len(w) /\ Len(q) \in Nat /\ Len(w) \in Nat
      /\ \A i \in 1..Len(q) : d[i] = q[i]
      /\ \A i \in 1..Len(w) : d[Len(q) + i] = w[i]
  BY AppendFacts
<1>2. \A i \in 1..Len(q) : q[i].k # "eos"
  BY FirstEosFacts DEF Complete
<1> HIDE DEF d
<1>3. ASSUME NEW i \in 1..(Len(d) - 1) PROVE d[i].k # "eos"
  <2>1. CASE i <= Len(q)
    BY <1>1, <1>2, <2>1
  <2>2. CASE i > Len(q)
    <3>1. /\ i - Len(q) \in 1..Len(w) /\ i - Len(q) \in 1..(Len(w) - 1)
          /\ i = Len(q) + (i - Len(q))
      BY <1>1, <2>2
    <3>2. d[i] = w[i - Len(q)]
      BY <1>1, <3>1, Zenon
    <3> QED  BY <3>1, <3>2
  <2> QED  BY <1>1, <2>1, <2>2
<1>4. Len(d) \in 1..Len(d) /\ d[Len(d)].k = "eos"
  BY <1>1
<1>5. FirstEos(d) = Len(d)
  BY <1>1, <1>3, <1>4, FirstEosIs
<1>6. Rest(d) \in Seq(Messages) /\ Len(Rest(d)) = 0
  BY <1>1, <1>5, RestFacts
<1>7. Rest(d) = <<>>
  BY <1>6, EmptyFacts
<1> QED  BY <1>1, <1>4, <1>5, <1>7 DEF Complete, d

LEMMA NothingIncomplete ==
  ASSUME NEW q \in Seq(Messages), q = <<>>
  PROVE  ~Complete(q) /\ Len(q) = 0
<1>1. Len(q) = 0
  OBVIOUS
<1>2. FirstEos(q) \in 0..Len(q)
  BY FirstEosFacts, Zenon
<1>3. FirstEos(q) = 0
  BY <1>1, <1>2
<1> QED  BY <1>1, <1>3 DEF Complete

LEMMA EmptyAppend ==
  ASSUME NEW w \in Seq(Messages)
  PROVE  <<>> \o w = w
OBVIOUS

(* Reading the answer to its marker reads all of it. *)
LEMMA AnswerEnds ==
  ASSUME s2c \in Seq(Messages), OneAnswer, Complete(s2c)
  PROVE  Rest(s2c) = <<>> /\ s2c # <<>> /\ FirstEos(s2c) = Len(s2c)
<1>1. FirstEos(s2c) \in 1..Len(s2c) /\ s2c[FirstEos(s2c)].k = "eos"
  BY FirstEosFacts DEF Complete
<1>2. FirstEos(s2c) = Len(s2c)
  BY <1>1 DEF OneAnswer
<1>3. Rest(s2c) \in Seq(Messages) /\ Len(Rest(s2c)) = 0
  BY <1>2, RestFacts
<1>4. Rest(s2c) = <<>>
  BY <1>3, EmptyFacts
<1>5. s2c # <<>>
  BY NothingIncomplete
<1> QED  BY <1>2, <1>4, <1>5

(* An answer of one batch to the current call. *)
LEMMA OneReply ==
  ASSUME NEW n \in 0..MaxCalls, NEW what \in {"data", "exception"}
  PROVE  LET t == <<>> \o Substream(what, n) IN
         /\ t \in Seq(Messages) /\ Len(t) = 3 /\ FirstEos(t) = 3 /\ t # <<>>
         /\ t[1].k = "schema" /\ t[1].what = "none" /\ t[1].call = n
         /\ t[2].k = "batch" /\ t[2].what = what /\ t[2].call = n
         /\ t[3].k = "eos" /\ t[3].what = "none" /\ t[3].call = n
         /\ \A i \in 1..Len(t) : i = 1 \/ i = 2 \/ i = 3
<1> DEFINE t == Substream(what, n)
<1>1. /\ Schema(n) \in Messages /\ Schema(n).k = "schema" /\ Schema(n).what = "none"
      /\ Schema(n).call = n
      /\ Eos(n) \in Messages /\ Eos(n).k = "eos" /\ Eos(n).what = "none" /\ Eos(n).call = n
      /\ Batch(what, n) \in Messages /\ Batch(what, n).k = "batch" /\ Batch(what, n).what = what
      /\ Batch(what, n).call = n
  BY MessageFacts DEF Payloads
<1>2. /\ t \in Seq(Messages) /\ Len(t) = 3
      /\ t[1] = Schema(n) /\ t[2] = Batch(what, n) /\ t[3] = Eos(n)
  BY <1>1, ThreeFacts DEF Substream
<1> HIDE DEF t
<1>3. \A i \in 1..(3 - 1) : t[i].k # "eos"
  <2>1. \A i \in 1..(3 - 1) : i = 1 \/ i = 2
    OBVIOUS
  <2> QED  BY <1>1, <1>2, <2>1
<1>4. FirstEos(t) = 3
  <2>1. 3 \in 1..Len(t) /\ t[3].k = "eos"
    BY <1>1, <1>2
  <2> QED  BY <1>2, <1>3, <2>1, FirstEosIs
<1>5. <<>> \o t = t
  BY <1>2, EmptyAppend
<1>6. t # <<>>
  BY <1>2, EmptyFacts
<1>7. \A i \in 1..3 : i = 1 \/ i = 2 \/ i = 3
  OBVIOUS
<1> QED  BY <1>1, <1>2, <1>4, <1>5, <1>6, <1>7 DEF t

(* More input behind an unread request. *)
LEMMA AskedAppend ==
  ASSUME NEW q \in Seq(Messages), NEW w \in Seq(Messages), NEW c, NEW st,
         Asked(q, "open", FALSE, c), st \in {"turn", "closing", "cancelling"},
         Len(w) = 2, w[1].k # "eos", LastSent(w[2], st)
  PROVE  Asked(q \o w, st, TRUE, c)
<1> DEFINE d == q \o w
<1>1. FirstEos(q) = 3 /\ Len(q) = 3
  BY DEF Asked, SentSince
<1>2. d \in Seq(Messages) /\ FirstEos(d) = 3
  BY <1>1, CompleteAppend, AppendFacts DEF Complete
<1>3. Len(d) = 5 /\ d[2] = q[2] /\ d[4] = w[1] /\ d[5] = w[2]
  <2>1. /\ Len(d) = 3 + Len(w)
        /\ \A i \in 1..3 : d[i] = q[i]
        /\ \A i \in 1..2 : d[3 + i] = w[i]
    <3>1. /\ Len(d) = Len(q) + Len(w)
          /\ \A i \in 1..Len(q) : d[i] = q[i]
          /\ \A i \in 1..Len(w) : d[Len(q) + i] = w[i]
      BY AppendFacts
    <3> HIDE DEF d
    <3> QED  BY <1>1, <3>1
  <2> HIDE DEF d
  <2> QED  BY <2>1
<1> HIDE DEF d
<1>4. SentSince(d, 3, st, TRUE)
  BY <1>3 DEF SentSince
<1>5. Asked(d, st, TRUE, c)
  BY <1>2, <1>3, <1>4 DEF Asked
<1> QED  BY <1>5 DEF d

(* What is to be answered no more stays so when the client writes. *)
LEMMA GoneAppend ==
  ASSUME TypeOK, Gone, NEW w \in Seq(Messages), c2s' = c2s \o w, sst' = sst
  PROVE  Gone'
<1>1. CASE sst = "down"
  BY <1>1 DEF Gone
<1>2. CASE sst # "down"
  <2>1. /\ c2s \in Seq(Messages) /\ sst = "request"
        /\ FirstEos(c2s) = 2 /\ c2s[2].k = "eos" /\ c2s[2].what = "none"
    BY <1>2 DEF Gone, TypeOK
  <2>2. FirstEos(c2s \o w) = 2
    BY <2>1, CompleteAppend DEF Complete
  <2>3. 2 \in 1..Len(c2s)
    BY <2>1, FirstEosFacts
  <2>4. (c2s \o w)[2] = c2s[2]
    BY <2>1, <2>3, AppendFacts
  <2> QED  BY <2>1, <2>2, <2>4 DEF Gone
<1> QED  BY <1>1, <1>2

LEMMA StepCall ==
  ASSUME TypeOK, OneAnswer, Where, "stream" \notin RefusedKinds,
         NEW k \in Kinds, NEW r \in BOOLEAN, Call(k, r)
  PROVE  OneAnswer' /\ Where'
<1> DEFINE w == <<Schema(call'), Message("batch", k, r, call'), Eos(call')>>
<1>1. call' \in 0..MaxCalls /\ c2s \in Seq(Messages)
  BY WireAssumption DEF Call, TypeOK
<1>2. /\ cst = "idle" /\ c2s' = c2s \o w /\ s2c' = s2c /\ s2c = <<>>
      /\ UNCHANGED <<sst, scall, outOpened>>
      /\ sent' = FALSE /\ opened' = FALSE /\ finished' = FALSE
      /\ r => k \in RefusedKinds
  BY DEF Call, serverVars, OneAnswer
<1>3. cst' = IF k = "unary" THEN "reply" ELSE IF k = "header" THEN "header" ELSE "open"
  BY DEF Call, Kinds
<1>4. /\ Schema(call') \in Messages /\ Schema(call').k = "schema" /\ Eos(call') \in Messages
      /\ Message("batch", k, r, call') \in Messages /\ Eos(call').k = "eos"
      /\ Message("batch", k, r, call').k = "batch" /\ Message("batch", k, r, call').what = k
      /\ Message("batch", k, r, call').call = call'
      /\ Message("batch", k, r, call').refused = r
  BY <1>1, MessageFacts DEF Payloads
<1>5. /\ w \in Seq(Messages) /\ Len(w) = 3 /\ w[1].k = "schema" /\ w[3].k = "eos"
      /\ w[2].k = "batch" /\ w[2].what = k /\ w[2].call = call' /\ w[2].refused = r
  BY <1>4, ThreeFacts
<1> HIDE DEF w
<1>6. FirstEos(w) = 3
  <2>1. 3 \in 1..Len(w) /\ \A i \in 1..(3 - 1) : i = 1 \/ i = 2
    BY <1>5
  <2>2. \A i \in 1..(3 - 1) : w[i].k # "eos"
    BY <1>5, <2>1
  <2> QED  BY <1>5, <2>1, <2>2, FirstEosIs
<1>7. Asked(w, cst', sent', call')
  <2>1. SentSince(w, 3, cst', sent')
    BY <1>2, <1>3, <1>5 DEF SentSince
  <2>2. w[2].what = IF cst' = "reply" THEN "unary" ELSE IF cst' = "header" THEN "header" ELSE "stream"
    BY <1>3, <1>5 DEF Kinds
  <2>3. w[2].refused => cst' \in {"reply", "header"}
    BY <1>2, <1>3, <1>5 DEF Kinds
  <2> QED  BY <1>5, <1>6, <2>1, <2>2, <2>3 DEF Asked
<1>8. OneAnswer'
  BY <1>2 DEF OneAnswer
<1>9. cst' # "idle"
  BY <1>3
<1>10. CASE Gone
  <2>1. Gone'
    BY <1>2, <1>5, <1>10, GoneAppend
  <2> QED  BY <1>8, <2>1 DEF Where
<1>11. CASE Served
  <2>1. c2s' = w /\ sst' = "request"
    BY <1>2, <1>5, <1>11, EmptyAppend DEF Served
  <2> QED  BY <1>2, <1>7, <1>8, <1>9, <2>1 DEF Where, Unserved
<1>12. CASE Ending
  <2>1. Complete(c2s) /\ Rest(c2s) = <<>> /\ sst \in {"discard", "drain"}
    BY <1>2, <1>12 DEF Ending
  <2>2. Complete(c2s') /\ Rest(c2s') = w
    BY <1>1, <1>2, <1>5, <2>1, CompleteAppend, EmptyAppend
  <2> QED  BY <1>2, <1>7, <1>8, <1>9, <2>1, <2>2 DEF Where, Unserved
<1> QED  BY <1>2, <1>10, <1>11, <1>12 DEF Where, Unserved, Opening, Looping

(* tick(), exchange(), close() and cancel() on the wire. *)
LEMMA StepSend ==
  ASSUME TypeOK, OneAnswer, Where, cst = "open", NEW x \in Messages,
         c2s' = c2s \o Owed(sent, call) \o <<x>>, sent' = TRUE,
         UNCHANGED <<s2c, call, opened, finished, sst, scall, outOpened>>,
         \/ ~finished /\ cst' \in {"turn", "closing", "cancelling"} /\ LastSent(x, cst')
         \/ finished /\ cst' = "idle" /\ x.k = "eos"
  PROVE  OneAnswer' /\ Where'
<1> DEFINE w == Owed(sent, call) \o <<x>>
<1>1. c2s \in Seq(Messages) /\ s2c \in Seq(Messages) /\ sent \in BOOLEAN /\ call \in 0..MaxCalls
  BY DEF TypeOK
<1>2. /\ w \in Seq(Messages) /\ Len(w) = (IF sent THEN 1 ELSE 2) /\ w[Len(w)] = x
      /\ ~sent => w[1] = Schema(call)
      /\ c2s' = c2s \o w
  BY <1>1, OwedFacts, SMTT(30)
<1>3. Schema(call).k # "eos"
  BY <1>1, MessageFacts
<1> HIDE DEF w
<1>4. \A i \in 1..(Len(w) - 1) : w[i].k # "eos"
  BY <1>2, <1>3
<1>5. OneAnswer'
  BY DEF OneAnswer
<1>6. CASE Gone
  <2>1. Gone'
    BY <1>2, <1>6, GoneAppend
  <2> QED  BY <1>5, <2>1 DEF Where
<1>7. CASE Unserved
  <2>1. ~finished /\ cst' \in {"turn", "closing", "cancelling"} /\ LastSent(x, cst')
    BY <1>7 DEF Unserved
  <2>2. ASSUME NEW q \in Seq(Messages), Asked(q, cst, sent, call)
        PROVE  Asked(q \o w, cst', sent', call')
    <3>1. sent = FALSE
      BY <1>1, <2>2 DEF Asked, SentSince
    <3>2. Len(w) = 2 /\ w[1].k # "eos" /\ w[2] = x
      BY <1>2, <1>3, <3>1
    <3>3. Asked(q, "open", FALSE, call)
      BY <2>2, <3>1
    <3>4. LastSent(w[2], cst')
      BY <2>1, <3>2
    <3>5. Asked(q \o w, cst', TRUE, call)
      BY <1>2, <2>1, <3>2, <3>3, <3>4, AskedAppend
    <3> QED  BY <3>5
  <2>3. CASE sst = "request"
    <3>1. Asked(c2s', cst', sent', call')
      BY <1>1, <1>2, <1>7, <2>2, <2>3 DEF Unserved
    <3> QED  BY <1>5, <1>7, <2>1, <2>3, <3>1 DEF Where, Unserved
  <2>4. CASE sst \in {"discard", "drain"}
    <3>1. Complete(c2s) /\ Asked(Rest(c2s), cst, sent, call)
      BY <1>7, <2>4 DEF Unserved
    <3>2. Complete(c2s') /\ Rest(c2s') = Rest(c2s) \o w /\ Rest(c2s) \in Seq(Messages)
      BY <1>1, <1>2, <3>1, CompleteAppend, RestFacts
    <3>3. Asked(Rest(c2s'), cst', sent', call')
      BY <2>2, <3>1, <3>2
    <3> QED  BY <1>5, <1>7, <2>1, <2>4, <3>2, <3>3 DEF Where, Unserved
  <2> QED  BY <1>7, <2>3, <2>4 DEF Unserved
<1>8. CASE Ending
  <2>1. ~Complete(c2s) /\ sst \in {"discard", "drain"}
    BY <1>8 DEF Ending
  <2>2. CASE cst' \in {"turn", "cancelling"}
    <3>1. x.k # "eos"
      BY <2>2 DEF LastSent
    <3>2. \A i \in 1..Len(w) : w[i].k # "eos"
      BY <1>2, <1>4, <3>1
    <3>3. ~Complete(c2s')
      BY <1>1, <1>2, <2>1, <3>2, IncompleteAppend
    <3> QED  BY <1>5, <2>1, <2>2, <3>3 DEF Where, Ending
  <2>3. CASE cst' \in {"closing", "idle"}
    <3>1. x.k = "eos"
      BY <2>3 DEF LastSent
    <3>2. Complete(c2s') /\ Rest(c2s') = <<>>
      <4>1. Len(w) > 0 /\ w[Len(w)].k = "eos"
        BY <1>1, <1>2, <3>1
      <4> QED  BY <1>1, <1>2, <1>4, <2>1, <4>1, EndedAppend
    <3> QED  BY <1>5, <2>1, <2>3, <3>2 DEF Where, Ending
  <2> QED  BY <2>2, <2>3
<1>9. CASE Opening
  <2>1. ~finished /\ cst' \in {"turn", "closing", "cancelling"} /\ LastSent(x, cst')
    BY <1>9 DEF Opening
  <2>2. ~sent /\ Len(c2s) = 0 /\ s2c = <<>>
    BY <1>9 DEF Opening, SentSince
  <2>3. c2s' = w
    BY <1>1, <1>2, <2>2, EmptyFacts, EmptyAppend
  <2>4. SentSince(c2s', 0, cst', sent')
    <3>1. Len(w) = 2 /\ w[1].k # "eos" /\ w[2] = x
      BY <1>2, <1>3, <2>2
    <3>2. Len(w) = 0 + 2 /\ w[0 + 1].k # "eos" /\ w[0 + 2] = x
      BY <3>1
    <3>3. SentSince(w, 0, cst', TRUE)
      BY <2>1, <3>2, Zenon DEF SentSince
    <3> QED  BY <2>3, <3>3
  <2> QED  BY <1>5, <1>9, <2>1, <2>2, <2>4 DEF Where, Opening
<1>10. CASE Looping
  <2>1. ~finished /\ cst' \in {"turn", "closing", "cancelling"} /\ LastSent(x, cst')
    BY <1>10 DEF Looping
  <2>2. sent /\ c2s = <<>> /\ s2c = <<>>
    BY <1>10 DEF Looping
  <2>3. c2s' = w /\ Len(w) = 1 /\ w[1] = x
    BY <1>1, <1>2, <2>2, EmptyAppend
  <2> QED  BY <1>5, <1>10, <2>1, <2>2, <2>3 DEF Where, Looping
<1> QED  BY <1>6, <1>7, <1>8, <1>9, <1>10 DEF Where, Served

LEMMA StepWrites ==
  ASSUME TypeOK, OneAnswer, Where, Turn \/ Close \/ Cancel
  PROVE  OneAnswer' /\ Where'
<1>1. call \in 0..MaxCalls
  BY DEF TypeOK
<1>2. /\ Batch("input", call) \in Messages /\ Batch("cancel", call) \in Messages
      /\ Eos(call) \in Messages /\ Eos(call).k = "eos"
      /\ LastSent(Batch("input", call), "turn") /\ LastSent(Batch("cancel", call), "cancelling")
      /\ LastSent(Eos(call), "closing")
  BY <1>1, MessageFacts DEF Payloads, LastSent
<1>3. CASE Turn
  BY <1>2, <1>3, StepSend DEF Turn, serverVars
<1>4. CASE Cancel
  BY <1>2, <1>4, StepSend DEF Cancel, serverVars
<1>5. CASE Close
  BY <1>2, <1>5, StepSend DEF Close, serverVars, TypeOK
<1> QED  BY <1>3, <1>4, <1>5

LEMMA StepUnaryReply ==
  ASSUME TypeOK, OneAnswer, Where, clientUp', UnaryReply
  PROVE  OneAnswer' /\ Where'
<1>1. /\ cst = "reply" /\ Complete(s2c) /\ s2c' = Rest(s2c) /\ cst' = "idle"
      /\ UNCHANGED <<c2s, call, sent, opened, finished, sst, scall, outOpened>>
  BY DEF UnaryReply, Abort, serverVars
<1>2. s2c' = <<>> /\ s2c # <<>>
  BY <1>1, AnswerEnds DEF TypeOK
<1>3. OneAnswer'
  BY <1>2 DEF OneAnswer
<1>4. CASE Gone
  BY <1>1, <1>3, <1>4 DEF Where, Gone
<1>5. CASE Served
  BY <1>1, <1>3, <1>5 DEF Where, Served
<1> QED  BY <1>1, <1>2, <1>4, <1>5 DEF Where, Unserved, Ending, Opening, Looping

(* The substream the client completes empty after an error in place of the *)
(* header is what the server still has to read, or is taken for the end of *)
(* the connection where it has nothing to read.                            *)
LEMMA StepHeaderReply ==
  ASSUME TypeOK, OneAnswer, Where, HeaderReply
  PROVE  OneAnswer' /\ Where'
<1> DEFINE w == <<Schema(call), Eos(call)>>
<1>1. /\ cst = "header" /\ Complete(s2c) /\ s2c' = Rest(s2c)
      /\ UNCHANGED <<call, sent, opened, finished, sst, scall, outOpened>>
      /\ Has(s2c, "exception") => c2s' = c2s \o w /\ cst' = "idle"
      /\ ~Has(s2c, "exception") => c2s' = c2s /\ cst' = "open"
  BY DEF HeaderReply, serverVars
<1>2. c2s \in Seq(Messages) /\ s2c \in Seq(Messages) /\ call \in 0..MaxCalls
  BY DEF TypeOK
<1>3. s2c' = <<>> /\ s2c # <<>> /\ FirstEos(s2c) = Len(s2c)
  BY <1>1, <1>2, AnswerEnds
<1>4. OneAnswer'
  BY <1>3 DEF OneAnswer
<1>5. /\ w \in Seq(Messages) /\ Len(w) = 2 /\ w[1].k # "eos" /\ w[2].k = "eos" /\ w[2].what = "none"
  <2>1. /\ Schema(call) \in Messages /\ Schema(call).k = "schema"
        /\ Eos(call) \in Messages /\ Eos(call).k = "eos" /\ Eos(call).what = "none"
    BY <1>2, MessageFacts
  <2> QED  BY <2>1
<1> HIDE DEF w
<1>6. CASE Gone
  <2>1. CASE Has(s2c, "exception")
    <3>1. Gone'
      BY <1>1, <1>5, <1>6, <2>1, GoneAppend
    <3> QED  BY <1>4, <3>1 DEF Where
  <2>2. CASE ~Has(s2c, "exception")
    BY <1>1, <1>4, <1>6, <2>2 DEF Where, Gone
  <2> QED  BY <2>1, <2>2
<1>7. ASSUME HeaderAnswer("exception"), c2s = <<>>
      PROVE  /\ cst' = "idle" /\ Complete(c2s') /\ Rest(c2s') = <<>> /\ FirstEos(c2s') = 2
             /\ c2s'[2].k = "eos" /\ c2s'[2].what = "none"
  <2>1. Has(s2c, "exception")
    BY <1>7 DEF HeaderAnswer, Has
  <2>2. c2s' = c2s \o w /\ c2s' = w /\ cst' = "idle"
    BY <1>1, <1>5, <1>7, <2>1, EmptyAppend
  <2>3. ~Complete(c2s) /\ Len(c2s) = 0
    BY <1>2, <1>7, NothingIncomplete
  <2>4. /\ \A i \in 1..(Len(w) - 1) : w[i].k # "eos"
        /\ Len(w) > 0 /\ w[Len(w)].k = "eos"
    BY <1>5
  <2>5. Complete(c2s \o w) /\ Rest(c2s \o w) = <<>> /\ FirstEos(c2s \o w) = 2
    <3>1. Complete(c2s \o w) /\ Rest(c2s \o w) = <<>> /\ FirstEos(c2s \o w) = Len(c2s) + Len(w)
      BY <1>2, <1>5, <2>3, <2>4, EndedAppend, Zenon
    <3>2. Len(c2s) + Len(w) = 2
      BY <1>5, <2>3
    <3> QED  BY <3>1, <3>2, Zenon
  <2> QED  BY <1>5, <2>2, <2>5
<1>8. CASE Served
  BY <1>1, <1>4, <1>7, <1>8 DEF Served, Where, Gone
<1>9. CASE Ending
  BY <1>1, <1>4, <1>7, <1>9 DEF Ending, Where
<1>10. CASE Opening
  <2>1. /\ HeaderAnswer("data") /\ ~sent /\ Len(c2s) = 0
    BY <1>1, <1>10 DEF Opening, SentSince
  <2>2. ~Has(s2c, "exception")
    <3>1. Len(s2c) = 3 /\ s2c[1].what = "none" /\ s2c[2].what = "data" /\ s2c[3].k = "eos"
      BY <1>2, <1>3, <2>1, FirstEosFacts DEF HeaderAnswer
    <3>2. s2c[3].what = "none"
      BY <3>1 DEF OneAnswer
    <3>3. \A i \in 1..3 : i = 1 \/ i = 2 \/ i = 3
      OBVIOUS
    <3> QED  BY <1>3, <3>1, <3>2, <3>3 DEF Has
  <2>3. c2s' = c2s /\ cst' = "open"
    BY <1>1, <2>2
  <2>4. SentSince(c2s', 0, cst', sent')
    BY <1>1, <2>1, <2>3 DEF SentSince
  <2> QED  BY <1>1, <1>3, <1>4, <1>10, <2>3, <2>4 DEF Where, Opening
<1> QED  BY <1>1, <1>3, <1>6, <1>8, <1>9, <1>10 DEF Where, Unserved, Looping

LEMMA StepCloseDrained ==
  ASSUME TypeOK, OneAnswer, Where, clientUp', CloseDrained
  PROVE  OneAnswer' /\ Where'
<1>1. /\ cst = "closing" /\ Complete(s2c) /\ s2c' = Rest(s2c) /\ cst' = "idle"
      /\ UNCHANGED <<c2s, call, sent, opened, sst, scall, outOpened>>
  BY DEF CloseDrained, Abort, serverVars
<1>2. s2c' = <<>> /\ s2c # <<>>
  BY <1>1, AnswerEnds DEF TypeOK
<1>3. OneAnswer'
  BY <1>2 DEF OneAnswer
<1>4. CASE Gone
  BY <1>1, <1>3, <1>4 DEF Where, Gone
<1>5. CASE Served
  BY <1>1, <1>3, <1>5 DEF Where, Served
<1>6. CASE Ending
  BY <1>1, <1>3, <1>6 DEF Where, Ending
<1> QED  BY <1>1, <1>2, <1>4, <1>5, <1>6 DEF Where, Unserved, Opening, Looping

LEMMA StepCancelDrained ==
  ASSUME TypeOK, OneAnswer, Where, clientUp', CancelDrained
  PROVE  OneAnswer' /\ Where'
<1> DEFINE w == <<Eos(call)>>
<1>1. /\ cst = "cancelling" /\ Complete(s2c) /\ s2c' = Rest(s2c) /\ cst' = "idle"
      /\ c2s' = Append(c2s, Eos(call))
      /\ UNCHANGED <<call, sent, opened, sst, scall, outOpened>>
  BY DEF CancelDrained, Abort, serverVars
<1>2. c2s \in Seq(Messages) /\ s2c \in Seq(Messages) /\ call \in 0..MaxCalls
  BY DEF TypeOK
<1>3. s2c' = <<>> /\ s2c # <<>>
  BY <1>1, <1>2, AnswerEnds
<1>4. OneAnswer'
  BY <1>3 DEF OneAnswer
<1>5. w \in Seq(Messages) /\ Len(w) = 1 /\ w[1].k = "eos" /\ c2s' = c2s \o w
  <2>1. Eos(call) \in Messages /\ Eos(call).k = "eos"
    BY <1>2, MessageFacts
  <2>2. ASSUME NEW m \in Messages
        PROVE  <<m>> \in Seq(Messages) /\ Len(<<m>>) = 1 /\ <<m>>[1] = m /\ Append(c2s, m) = c2s \o <<m>>
    BY <1>2
  <2> QED  BY <1>1, <2>1, <2>2
<1> HIDE DEF w
<1>6. CASE Gone
  <2>1. Gone'
    BY <1>1, <1>5, <1>6, GoneAppend
  <2> QED  BY <1>4, <2>1 DEF Where
<1>7. CASE Ending
  <2>1. ~Complete(c2s) /\ sst \in {"discard", "drain"}
    BY <1>1, <1>7 DEF Ending
  <2>2. /\ \A i \in 1..(Len(w) - 1) : w[i].k # "eos"
        /\ Len(w) > 0 /\ w[Len(w)].k = "eos"
    BY <1>5
  <2>3. Complete(c2s') /\ Rest(c2s') = <<>>
    BY <1>2, <1>5, <2>1, <2>2, EndedAppend
  <2> QED  BY <1>1, <1>4, <2>1, <2>3 DEF Where, Ending
<1> QED  BY <1>1, <1>3, <1>6, <1>7 DEF Where, Unserved, Served, Opening, Looping

(* read_next_data(): what it leaves unread is still one answer, a batch    *)
(* that leaves the loop running was all there was, and a stream is marked  *)
(* finished with nothing left to read.                                     *)
LEMMA StepTurnReply ==
  ASSUME TypeOK, OneAnswer, Where, TurnReply
  PROVE  OneAnswer' /\ Where'
<1> DEFINE i == IF opened THEN 1 ELSE 2
           t == SubSeq(s2c, i + 1, Len(s2c))
<1>1. /\ cst = "turn" /\ cst' = "open" /\ opened' = TRUE /\ Len(s2c) >= i
      /\ s2c[i].what = "exception" => Complete(s2c)
      /\ s2c' = IF s2c[i].what = "exception" THEN Rest(s2c) ELSE t
      /\ finished' = (s2c[i].what # "data")
      /\ UNCHANGED <<c2s, call, sent, sst, scall, outOpened>>
  BY DEF TurnReply, serverVars
<1>2. s2c \in Seq(Messages) /\ opened \in BOOLEAN /\ i \in 1..Len(s2c) /\ Len(s2c) \in Nat
  BY <1>1 DEF TypeOK
<1>3. /\ t \in Seq(Messages) /\ Len(t) = Len(s2c) - i
      /\ \A j \in 1..(Len(s2c) - i) : t[j] = s2c[i + j]
  BY <1>2, SuffixFacts
<1>4. opened \/ i > 1
  BY <1>2
<1>5. s2c # <<>>
  BY <1>2
<1>6. \/ s2c[i].k = "eos" /\ s2c[i].what = "none"
      \/ s2c[i].k # "eos" /\ s2c[i].what \in {"data", "exception"}
  BY <1>2, <1>4 DEF OneAnswer
<1> HIDE DEF i, t
<1>7. CASE s2c[i].what # "data"
  <2>1. s2c' = <<>>
    <3>1. CASE s2c[i].what = "exception"
      BY <1>1, <1>2, <3>1, AnswerEnds
    <3>2. CASE s2c[i].what # "exception"
      <4>1. i = Len(s2c)
        BY <1>2, <1>6, <1>7, <3>2 DEF OneAnswer
      <4>2. Len(t) = 0
        BY <1>2, <1>3, <4>1
      <4> QED  BY <1>1, <1>3, <3>2, <4>2, EmptyFacts
    <3> QED  BY <3>1, <3>2
  <2>2. OneAnswer'
    BY <2>1 DEF OneAnswer
  <2>3. CASE Gone
    BY <1>1, <2>2, <2>3 DEF Where, Gone
  <2>4. CASE Ending
    BY <1>1, <2>2, <2>4 DEF Where, Ending
  <2>5. CASE Looping
    <3>1. s2c[i].what = "data"
      BY <1>5, <2>5 DEF Looping, TurnAnswered, i
    <3> QED  BY <1>7, <3>1
  <2> QED  BY <1>1, <1>5, <2>3, <2>4, <2>5 DEF Where, Unserved, Served, Opening
<1>8. CASE s2c[i].what = "data"
  <2>1. s2c' = t /\ finished' = FALSE
    BY <1>1, <1>8
  <2>2. \A j \in 1..Len(t) : i + j \in 1..Len(s2c) /\ t[j] = s2c[i + j] /\ i + j > 1
    BY <1>2, <1>3
  <2>3. OneAnswer'
    <3>1. \A j \in 1..Len(t) : t[j].call = call
      BY <2>2 DEF OneAnswer
    <3>2. ASSUME NEW j \in 1..Len(t), t[j].k = "eos" PROVE j = Len(t)
      <4>1. i + j = Len(s2c)
        BY <2>2, <3>2 DEF OneAnswer
      <4> QED  BY <1>2, <1>3, <4>1
    <3>3. \A j \in 1..Len(t) : \/ t[j].k = "eos" /\ t[j].what = "none"
                               \/ t[j].k # "eos" /\ t[j].what \in {"data", "exception"}
      BY <2>2 DEF OneAnswer
    <3> QED  BY <1>1, <2>1, <3>1, <3>2, <3>3 DEF OneAnswer
  <2>4. CASE Gone
    BY <1>1, <2>3, <2>4 DEF Where, Gone
  <2>5. CASE Ending
    BY <1>1, <2>3, <2>5 DEF Where, Ending
  <2>6. CASE Looping
    <3>1. Len(s2c) = i /\ outOpened /\ c2s = <<>>
      BY <1>5, <2>6 DEF Looping, TurnAnswered, i
    <3>2. Len(t) = 0
      BY <1>2, <1>3, <3>1
    <3>3. s2c' = <<>>
      BY <1>3, <2>1, <3>2, EmptyFacts
    <3>4. outOpened = TRUE
      BY <3>1 DEF TypeOK
    <3>5. Looping'
      BY <1>1, <2>1, <2>6, <3>1, <3>3, <3>4 DEF Looping
    <3> QED  BY <2>3, <3>5 DEF Where
  <2> QED  BY <1>1, <1>5, <2>4, <2>5, <2>6 DEF Where, Unserved, Served, Opening
<1> QED  BY <1>7, <1>8

-----------------------------------------------------------------------------
(* The server's steps. *)

(* Only the current call's request is ever read as a request. *)
LEMMA RequestIsAsked ==
  ASSUME TypeOK, Where, RequestHere, c2s[2].k = "batch" \/ c2s[2].what \in Kinds
  PROVE  /\ Unserved /\ Asked(c2s, cst, sent, call) /\ sst = "request"
         /\ c2s[2].call = call /\ call \in 0..MaxCalls
<1>1. c2s \in Seq(Messages) /\ call \in 0..MaxCalls
  BY DEF TypeOK
<1>2. sst = "request" /\ Complete(c2s)
  BY DEF RequestHere
<1>3. ~Gone
  BY <1>2 DEF Gone, Kinds
<1>4. ~Served
  BY <1>1, <1>2, NothingIncomplete DEF Served
<1>5. Unserved
  BY <1>2, <1>3, <1>4 DEF Where, Ending, Opening, Looping
<1>6. Asked(c2s, cst, sent, call)
  BY <1>2, <1>5 DEF Unserved
<1> QED  BY <1>1, <1>2, <1>5, <1>6 DEF Asked

(* What is left of the request stream once the request is read. *)
LEMMA AskedRest ==
  ASSUME NEW q \in Seq(Messages), NEW st, NEW started, NEW c, Asked(q, st, started, c)
  PROVE  /\ Rest(q) \in Seq(Messages) /\ SentSince(Rest(q), 0, st, started)
         /\ st \notin {"turn", "closing", "cancelling"} => Rest(q) = <<>>
         /\ st \in {"open", "turn", "cancelling"} => ~Complete(Rest(q))
         /\ st = "closing" => Complete(Rest(q)) /\ Rest(Rest(q)) = <<>>
<1> DEFINE d == Rest(q)
<1>1. FirstEos(q) = 3 /\ SentSince(q, 3, st, started)
  BY DEF Asked
<1>2. d \in Seq(Messages) /\ Len(d) = Len(q) - 3 /\ \A i \in 1..Len(d) : d[i] = q[3 + i]
  BY <1>1, RestFacts
<1> HIDE DEF d
<1>3. CASE st \notin {"turn", "closing", "cancelling"}
  <2>1. ~started /\ Len(d) = 0
    BY <1>1, <1>2, <1>3 DEF SentSince
  <2>2. d = <<>>
    BY <1>2, <2>1, EmptyFacts
  <2>3. SentSince(d, 0, st, started)
    BY <1>3, <2>1 DEF SentSince
  <2>4. ~Complete(d)
    BY <1>2, <2>2, NothingIncomplete
  <2> QED  BY <1>2, <1>3, <2>2, <2>3, <2>4 DEF d
<1>4. CASE st \in {"turn", "closing", "cancelling"}
  <2>1. started /\ Len(q) = 5 /\ q[4].k # "eos" /\ LastSent(q[5], st)
    BY <1>1, <1>4 DEF SentSince
  <2>2. Len(d) = 2 /\ d[1] = q[4] /\ d[2] = q[5]
    BY <1>2, <2>1
  <2>3. SentSince(d, 0, st, started)
    <3>1. Len(d) = 0 + 2 /\ d[0 + 1].k # "eos" /\ LastSent(d[0 + 2], st)
      BY <2>1, <2>2
    <3> QED  BY <1>4, <2>1, <3>1, Zenon DEF SentSince
  <2>4. ASSUME st # "closing" PROVE ~Complete(d)
    <3>1. d[1].k # "eos" /\ d[2].k # "eos"
      BY <1>4, <2>1, <2>2, <2>4 DEF LastSent
    <3>2. \A i \in 1..Len(d) : i = 1 \/ i = 2
      BY <2>2
    <3>3. FirstEos(d) = 0
      BY <1>2, <3>1, <3>2, NoEos
    <3> QED  BY <3>3 DEF Complete
  <2>5. ASSUME st = "closing" PROVE Complete(d) /\ Rest(d) = <<>>
    <3>1. d[1].k # "eos" /\ d[2].k = "eos" /\ 2 \in 1..Len(d)
      BY <2>1, <2>2, <2>5 DEF LastSent
    <3>2. \A i \in 1..(2 - 1) : i = 1
      OBVIOUS
    <3>3. FirstEos(d) = 2
      BY <1>2, <3>1, <3>2, FirstEosIs
    <3>4. Rest(d) \in Seq(Messages) /\ Len(Rest(d)) = 0
      BY <1>2, <2>2, <3>3, RestFacts
    <3> QED  BY <3>3, <3>4, EmptyFacts DEF Complete
  <2> QED  BY <1>2, <1>4, <2>3, <2>4, <2>5 DEF d
<1> QED  BY <1>3, <1>4

(* An answer of one batch is one answer to the current call. *)
LEMMA ReplyIsAnswer ==
  ASSUME TypeOK, Unserved, NEW what \in {"data", "exception"}, s2c' = s2c \o Substream(what, call),
         UNCHANGED <<clientUp, cst, call, sent, opened, finished, turns>>
  PROVE  /\ OneAnswer' /\ (FirstEos(s2c) = 3)'
         /\ s2c'[1].what = "none" /\ s2c'[2].what = what
<1>1. call \in 0..MaxCalls /\ s2c = <<>> /\ cst # "idle" /\ ~finished /\ ~opened
  BY DEF TypeOK, Unserved
<1>2. s2c' = <<>> \o Substream(what, call)
  BY <1>1
<1>3. /\ s2c' \in Seq(Messages) /\ Len(s2c') = 3 /\ FirstEos(s2c') = 3
      /\ s2c'[1].k = "schema" /\ s2c'[1].what = "none" /\ s2c'[1].call = call
      /\ s2c'[2].k = "batch" /\ s2c'[2].what = what /\ s2c'[2].call = call
      /\ s2c'[3].k = "eos" /\ s2c'[3].what = "none" /\ s2c'[3].call = call
      /\ \A i \in 1..Len(s2c') : i = 1 \/ i = 2 \/ i = 3
  BY <1>1, <1>2, OneReply
<1>4. OneAnswer'
  BY <1>1, <1>3 DEF OneAnswer
<1> QED  BY <1>3, <1>4

LEMMA StepServe ==
  ASSUME TypeOK, OneAnswer, Where,
         ServeRefused \/ (\E a \in {"data", "exception"} : ServeUnary(a))
         \/ FactoryRaises \/ FactoryReturns
  PROVE  OneAnswer' /\ Where'
<1>1. c2s \in Seq(Messages)
  BY DEF TypeOK
<1>2. /\ RequestHere
      /\ c2s[2].k = "batch" \/ c2s[2].what \in Kinds
      /\ c2s' = Rest(c2s) /\ UNCHANGED <<clientUp, cst, call, sent, opened, finished, turns>>
  BY DEF ServeRefused, ServeUnary, FactoryRaises, FactoryReturns, clientVars, Kinds
<1>3. /\ Unserved /\ Asked(c2s, cst, sent, call) /\ sst = "request"
      /\ c2s[2].call = call /\ call \in 0..MaxCalls
  BY <1>2, RequestIsAsked
<1>4. s2c = <<>> /\ cst # "idle" /\ ~opened /\ ~finished
  BY <1>3 DEF Unserved
<1>5. /\ SentSince(c2s', 0, cst, sent)
      /\ cst \notin {"turn", "closing", "cancelling"} => c2s' = <<>>
      /\ cst \in {"open", "turn", "cancelling"} => ~Complete(c2s')
      /\ cst = "closing" => Complete(c2s') /\ Rest(c2s') = <<>>
  BY <1>1, <1>2, <1>3, AskedRest
<1>6. /\ c2s[2].what = IF cst = "reply" THEN "unary"
                       ELSE IF cst = "header" THEN "header" ELSE "stream"
      /\ c2s[2].refused => cst \in {"reply", "header"}
  BY <1>3 DEF Asked
<1>7. cst = "header" => ~sent
  BY <1>5 DEF SentSince
<1>8. cst \in {"reply", "header", "open", "turn", "closing", "cancelling"}
  BY <1>4 DEF TypeOK, Awaiting
<1>9. ASSUME NEW what \in {"data", "exception"}, s2c' = s2c \o Substream(what, call), cst = "header"
      PROVE  HeaderAnswer(what)'
  <2>1. (FirstEos(s2c) = 3)' /\ s2c'[1].what = "none" /\ s2c'[2].what = what
    BY <1>2, <1>3, <1>9, ReplyIsAnswer
  <2> QED  BY <1>2, <1>4, <1>7, <1>9, <2>1 DEF HeaderAnswer
<1>10. ASSUME ServeRefused PROVE OneAnswer' /\ Where'
  <2>1. /\ cst \in {"reply", "header"} /\ s2c' = s2c \o Substream("exception", call)
        /\ sst' = "request"
    BY <1>3, <1>6, <1>8, <1>10 DEF ServeRefused, Requests, Kinds, Reply, serverVars
  <2>2. OneAnswer'
    BY <1>2, <1>3, <2>1, ReplyIsAnswer
  <2>3. Served'
    BY <1>2, <1>5, <1>9, <2>1 DEF Served
  <2> QED  BY <2>2, <2>3 DEF Where
<1>11. ASSUME NEW a \in {"data", "exception"}, ServeUnary(a) PROVE OneAnswer' /\ Where'
  <2>1. cst = "reply" /\ s2c' = s2c \o Substream(a, call) /\ sst' = "request"
    BY <1>3, <1>6, <1>11 DEF ServeUnary, Reply, serverVars
  <2>2. OneAnswer'
    BY <1>2, <1>3, <2>1, ReplyIsAnswer
  <2>3. Served'
    BY <1>2, <1>5, <2>1 DEF Served
  <2> QED  BY <2>2, <2>3 DEF Where
<1>12. ASSUME FactoryRaises PROVE OneAnswer' /\ Where'
  <2>1. cst # "reply" /\ s2c' = s2c \o Substream("exception", call) /\ sst' = "discard"
    BY <1>3, <1>6, <1>12 DEF FactoryRaises, Reply
  <2>2. OneAnswer'
    BY <1>2, <1>3, <2>1, ReplyIsAnswer
  <2>3. Ending'
    BY <1>2, <1>4, <1>5, <1>9, <2>1 DEF Ending
  <2> QED  BY <2>2, <2>3 DEF Where
<1>13. ASSUME FactoryReturns PROVE OneAnswer' /\ Where'
  <2>1. /\ cst # "reply" /\ sst' = "open" /\ scall' = call /\ outOpened' = FALSE
        /\ cst = "header" => s2c' = s2c \o Substream("data", call)
        /\ cst # "header" => s2c' = s2c
    BY <1>3, <1>6, <1>13 DEF FactoryReturns, Reply
  <2>2. OneAnswer'
    <3>1. CASE cst = "header"
      BY <1>2, <1>3, <2>1, <3>1, ReplyIsAnswer
    <3>2. CASE cst # "header"
      BY <1>2, <1>4, <2>1, <3>2 DEF OneAnswer
    <3> QED  BY <3>1, <3>2
  <2>3. Opening'
    BY <1>2, <1>4, <1>5, <1>8, <1>9, <2>1 DEF Opening
  <2> QED  BY <2>2, <2>3 DEF Where
<1> QED  BY <1>10, <1>11, <1>12, <1>13

LEMMA StepDiscarded ==
  ASSUME TypeOK, OneAnswer, Where, Discarded \/ StreamDrained
  PROVE  OneAnswer' /\ Where'
<1>1. /\ sst \in {"discard", "drain"} /\ Complete(c2s) /\ c2s' = Rest(c2s) /\ sst' = "request"
      /\ UNCHANGED <<s2c, clientUp, cst, call, sent, opened, finished, turns>>
      /\ c2s \in Seq(Messages)
  BY DEF Discarded, StreamDrained, clientVars, TypeOK
<1>2. OneAnswer'
  BY <1>1 DEF OneAnswer
<1>3. CASE Unserved
  BY <1>1, <1>2, <1>3 DEF Where, Unserved
<1>4. CASE Ending
  <2>1. c2s # <<>>
    BY <1>1, NothingIncomplete
  <2>2. cst \in {"closing", "idle"} /\ Rest(c2s) = <<>>
    BY <1>1, <1>4, <2>1 DEF Ending, TypeOK, Awaiting
  <2> QED  BY <1>1, <1>2, <2>2 DEF Where, Served
<1> QED  BY <1>1, <1>3, <1>4 DEF Where, Gone, Served, Opening, Looping

LEMMA StepOpenInput ==
  ASSUME TypeOK, OneAnswer, Where, OpenInput
  PROVE  OneAnswer' /\ Where'
<1>1. /\ sst = "open" /\ c2s # <<>> /\ c2s' = Tail(c2s) /\ sst' = "loop"
      /\ UNCHANGED <<s2c, scall, outOpened, clientUp, cst, call, sent, opened, finished, turns>>
      /\ c2s \in Seq(Messages) /\ opened \in BOOLEAN /\ outOpened \in BOOLEAN
  BY DEF OpenInput, clientVars, TypeOK
<1>2. OneAnswer'
  BY <1>1 DEF OneAnswer
<1>3. Opening
  BY <1>1 DEF Where, Gone, Unserved, Served, Ending, Looping
<1>4. cst \in {"turn", "closing", "cancelling"} /\ sent /\ Len(c2s) = 2 /\ LastSent(c2s[2], cst)
  <2>1. Len(c2s) # 0
    BY <1>1, EmptyFacts
  <2> QED  BY <1>3, <2>1 DEF Opening, SentSince
<1>5. Len(c2s') = 1 /\ c2s'[1] = c2s[2]
  <2>1. /\ Len(c2s') = Len(c2s) - 1
        /\ \A i \in 1..(Len(c2s) - 1) : c2s'[i] = c2s[i + 1]
    BY <1>1, TailFacts
  <2> QED  BY <1>4, <2>1
<1>6. Looping'
  BY <1>1, <1>3, <1>4, <1>5 DEF Looping, Opening
<1> QED  BY <1>2, <1>6 DEF Where

(* What a turn or the end of the input puts behind an answer read so far. *)
LEMMA OutputAnswer ==
  ASSUME TypeOK, s2c = <<>>, scall = call, outOpened = opened, cst # "idle", ~finished,
         UNCHANGED <<clientUp, cst, call, sent, opened, finished, turns>>,
         NEW t \in Seq(Messages), Len(t) \in 1..2, s2c' = s2c \o Owed(outOpened, scall) \o t,
         \A j \in 1..Len(t) : t[j].call = call,
         t[1].k = "eos" => Len(t) = 1,
         \A j \in 1..Len(t) : \/ t[j].k = "eos" /\ t[j].what = "none"
                              \/ t[j].k # "eos" /\ t[j].what \in {"data", "exception"}
  PROVE  /\ OneAnswer' /\ s2c' # <<>>
         /\ (Len(t) = 1 /\ t[1].k # "eos" /\ t[1].what = "data") => TurnAnswered'
<1> DEFINE b == IF opened THEN 0 ELSE 1
<1>1. call \in 0..MaxCalls /\ opened \in BOOLEAN
  BY DEF TypeOK
<1>2. Schema(call) \in Messages /\ Schema(call).k = "schema" /\ Schema(call).call = call
  BY <1>1, MessageFacts
<1>3. /\ s2c' \in Seq(Messages) /\ Len(s2c') = b + Len(t)
      /\ ~opened => s2c'[1] = Schema(call)
      /\ \A j \in 1..Len(t) : s2c'[b + j] = t[j]
  <2>1. CASE opened
    <3>1. s2c' = t
      <4>1. Owed(outOpened, scall) = <<>>
        BY <2>1 DEF Owed
      <4> QED  BY <4>1, EmptyAppend
    <3>2. b = 0
      BY <2>1
    <3>3. Len(t) = 0 + Len(t) /\ \A j \in 1..Len(t) : 0 + j = j
      OBVIOUS
    <3> HIDE DEF b
    <3>4. Len(s2c') = b + Len(t) /\ \A j \in 1..Len(t) : b + j = j
      BY <3>1, <3>2, <3>3, Zenon
    <3> QED  BY <2>1, <3>1, <3>4, Zenon
  <2>2. CASE ~opened
    <3> DEFINE o == <<Schema(call)>>
    <3>1. o \in Seq(Messages) /\ Len(o) = 1 /\ o[1] = Schema(call)
      BY <1>2
    <3>2. Owed(outOpened, scall) = o
      BY <2>2 DEF Owed
    <3> HIDE DEF o
    <3>3. s2c' = o \o t
      BY <3>1, <3>2, EmptyAppend
    <3>4. /\ o \o t \in Seq(Messages) /\ Len(o \o t) = Len(o) + Len(t)
          /\ \A i \in 1..Len(o) : (o \o t)[i] = o[i]
          /\ \A i \in 1..Len(t) : (o \o t)[Len(o) + i] = t[i]
      BY <3>1, AppendFacts
    <3>5. b = 1
      BY <2>2
    <3>6. 1 \in 1..Len(o)
      BY <3>1
    <3> HIDE DEF b
    <3> QED  BY <2>2, <3>1, <3>3, <3>4, <3>5, <3>6, Zenon
  <2> QED  BY <2>1, <2>2
<1>4. b \in {0, 1} /\ (opened <=> b = 0)
  BY <1>1
<1> HIDE DEF b
<1>5. ASSUME NEW i \in 1..Len(s2c')
      PROVE  \/ i = 1 /\ ~opened /\ s2c'[i] = Schema(call)
             \/ \E j \in 1..Len(t) : i = b + j /\ s2c'[i] = t[j]
  <2>1. CASE i = 1 /\ ~opened
    BY <1>3, <2>1
  <2>2. CASE ~(i = 1 /\ ~opened)
    <3>1. i - b \in 1..Len(t) /\ i = b + (i - b)
      BY <1>3, <1>4, <2>2
    <3>2. s2c'[i] = t[i - b]
      BY <1>3, <3>1, Zenon
    <3> QED  BY <3>1, <3>2
  <2> QED  BY <2>1, <2>2
<1>6. \A i \in 1..Len(s2c') : s2c'[i].call = call
  BY <1>2, <1>5
<1>7. ASSUME NEW i \in 1..Len(s2c'), s2c'[i].k = "eos" PROVE i = Len(s2c')
  <2>1. PICK j \in 1..Len(t) : i = b + j /\ s2c'[i] = t[j]
    BY <1>2, <1>5, <1>7
  <2>2. j = Len(t)
    <3>1. t[j].k = "eos"
      BY <1>7, <2>1
    <3>2. CASE j = 1
      BY <3>1, <3>2
    <3>3. CASE j # 1
      BY <3>3, LastOfTwo, Zenon
    <3> QED  BY <3>2, <3>3
  <2> QED  BY <1>3, <2>1, <2>2
<1>8. ASSUME NEW i \in 1..Len(s2c'), opened \/ i > 1
      PROVE  \/ s2c'[i].k = "eos" /\ s2c'[i].what = "none"
             \/ s2c'[i].k # "eos" /\ s2c'[i].what \in {"data", "exception"}
  BY <1>5, <1>8
<1>9. Len(s2c') > 0 /\ s2c' # <<>>
  BY <1>3, <1>4, EmptyFacts
<1>10. OneAnswer'
  BY <1>6, <1>7, <1>8 DEF OneAnswer
<1>11. ASSUME Len(t) = 1, t[1].k # "eos", t[1].what = "data" PROVE TurnAnswered'
  <2>1. Len(s2c') = b + 1 /\ s2c'[b + 1] = t[1]
    <3>1. 1 \in 1..Len(t)
      BY <1>11
    <3> QED  BY <1>3, <1>11, <3>1, Zenon
  <2>2. \A i \in 1..Len(s2c') : s2c'[i].k # "eos"
    BY <1>2, <1>5, <1>11
  <2>3. b + 1 = IF opened THEN 1 ELSE 2
    BY <1>4
  <2> QED  BY <1>11, <2>1, <2>2, <2>3 DEF TurnAnswered
<1> QED  BY <1>9, <1>10, <1>11

LEMMA StepStreamTurn ==
  ASSUME TypeOK, OneAnswer, Where, NEW o \in Outcomes, StreamTurn(o)
  PROVE  OneAnswer' /\ Where'
<1>1. /\ sst = "loop" /\ c2s # <<>> /\ Head(c2s).what = "input" /\ c2s' = Tail(c2s)
      /\ UNCHANGED <<scall, clientUp, cst, call, sent, opened, finished, turns>>
      /\ c2s \in Seq(Messages) /\ call \in 0..MaxCalls
      /\ opened \in BOOLEAN /\ outOpened \in BOOLEAN
  BY DEF StreamTurn, clientVars, TypeOK
<1>2. Looping
  BY <1>1 DEF Where, Gone, Unserved, Served, Ending, Opening
<1>3. /\ cst = "turn" /\ s2c = <<>> /\ Len(c2s) = 1 /\ scall = call /\ outOpened = opened
      /\ ~finished /\ sent
  <2>1. /\ s2c = <<>> /\ cst # "open" /\ Len(c2s) = 1 /\ LastSent(c2s[1], cst)
        /\ cst \in {"turn", "closing", "cancelling"}
    BY <1>1, <1>2 DEF Looping
  <2>2. c2s[1].what = "input"
    BY <1>1, TailFacts
  <2> QED  BY <1>2, <2>1, <2>2 DEF Looping, LastSent
<1>4. c2s' = <<>> /\ ~Complete(c2s')
  <2>1. c2s' \in Seq(Messages) /\ Len(c2s') = 0
    BY <1>1, <1>3, TailFacts
  <2>2. c2s' = <<>>
    BY <2>1, EmptyFacts
  <2> QED  BY <2>1, <2>2, NothingIncomplete
<1>5. CASE o = "silent"
  <2>1. s2c' = s2c /\ outOpened' = outOpened /\ sst' = "loop"
    BY <1>5 DEF StreamTurn
  <2>2. OneAnswer'
    BY <1>1, <2>1 DEF OneAnswer
  <2>3. Looping'
    BY <1>1, <1>3, <1>4, <2>1 DEF Looping
  <2> QED  BY <2>2, <2>3 DEF Where
<1>6. CASE o # "silent"
  <2> DEFINE t == TurnOutput(o)
  <2>1. /\ s2c' = s2c \o Owed(outOpened, scall) \o t /\ outOpened' = TRUE
        /\ sst' = IF o = "data" THEN "loop" ELSE "drain"
    BY <1>6 DEF StreamTurn
  <2>2. o \in {"data", "last", "finish", "raise"}
    BY <1>6, WireAssumption
  <2>3. /\ Batch("data", scall).k = "batch" /\ Batch("data", scall).what = "data"
        /\ Batch("data", scall).call = call
        /\ Batch("exception", scall).k = "batch" /\ Batch("exception", scall).what = "exception"
        /\ Batch("exception", scall).call = call
        /\ Eos(scall).k = "eos" /\ Eos(scall).what = "none" /\ Eos(scall).call = call
    BY <1>1, <1>3, MessageFacts DEF Payloads
  <2>4. /\ t \in Seq(Messages) /\ Len(t) \in 1..2
        /\ o = "data" => Len(t) = 1 /\ t[1] = Batch("data", scall)
        /\ o = "finish" => Len(t) = 1 /\ t[1] = Eos(scall)
        /\ o = "last" => Len(t) = 2 /\ t[2] = Eos(scall) /\ t[1] = Batch("data", scall)
        /\ o = "raise" => Len(t) = 2 /\ t[2] = Eos(scall) /\ t[1] = Batch("exception", scall)
    BY <1>1, <1>3, <1>6, OutputFacts
  <2> HIDE DEF t
  <2>5. \A j \in 1..Len(t) : (j = 1 \/ j = 2) /\ (Len(t) = 1 => j = 1)
    <3>1. ASSUME NEW n \in 1..2, NEW j \in 1..n
          PROVE  (j = 1 \/ j = 2) /\ (n = 1 => j = 1)
      OBVIOUS
    <3> QED  BY <2>4, <3>1, Zenon
  <2>6. /\ \A j \in 1..Len(t) : t[j].call = call
        /\ t[1].k = "eos" => Len(t) = 1
        /\ \A j \in 1..Len(t) : \/ t[j].k = "eos" /\ t[j].what = "none"
                                \/ t[j].k # "eos" /\ t[j].what \in {"data", "exception"}
    BY <2>2, <2>3, <2>4, <2>5
  <2>7. /\ OneAnswer' /\ s2c' # <<>>
        /\ (Len(t) = 1 /\ t[1].k # "eos" /\ t[1].what = "data") => TurnAnswered'
    BY <1>1, <1>3, <2>1, <2>4, <2>6, OutputAnswer
  <2>8. CASE o = "data"
    <3>1. TurnAnswered'
      BY <2>3, <2>4, <2>7, <2>8
    <3>2. Looping'
      BY <1>1, <1>3, <1>4, <2>1, <2>7, <2>8, <3>1 DEF Looping
    <3> QED  BY <2>7, <3>2 DEF Where
  <2>9. CASE o # "data"
    BY <1>1, <1>3, <1>4, <2>1, <2>7, <2>9 DEF Where, Ending
  <2> QED  BY <2>8, <2>9
<1> QED  BY <1>5, <1>6

LEMMA StepStreamEnds ==
  ASSUME TypeOK, OneAnswer, Where, StreamEnds
  PROVE  OneAnswer' /\ Where'
<1>1. /\ sst = "loop" /\ c2s # <<>> /\ Head(c2s).what # "input" /\ c2s' = Tail(c2s)
      /\ s2c' = s2c \o Owed(outOpened, scall) \o <<Eos(scall)>>
      /\ sst' = IF Head(c2s).k = "eos" THEN "request" ELSE "drain"
      /\ UNCHANGED <<scall, clientUp, cst, call, sent, opened, finished, turns>>
      /\ c2s \in Seq(Messages) /\ call \in 0..MaxCalls
      /\ opened \in BOOLEAN /\ outOpened \in BOOLEAN
  BY DEF StreamEnds, clientVars, TypeOK
<1>2. Looping
  BY <1>1 DEF Where, Gone, Unserved, Served, Ending, Opening
<1>3. /\ cst \in {"closing", "cancelling"} /\ s2c = <<>> /\ Len(c2s) = 1 /\ scall = call
      /\ outOpened = opened /\ ~finished
      /\ cst = "closing" => sst' = "request"
      /\ cst = "cancelling" => sst' = "drain"
  <2>1. /\ s2c = <<>> /\ cst # "open" /\ Len(c2s) = 1 /\ LastSent(c2s[1], cst)
        /\ cst \in {"turn", "closing", "cancelling"}
    BY <1>1, <1>2 DEF Looping
  <2>2. Head(c2s) = c2s[1]
    BY <1>1, TailFacts
  <2> QED  BY <1>1, <1>2, <2>1, <2>2 DEF Looping, LastSent
<1>4. c2s' = <<>> /\ ~Complete(c2s')
  <2>1. c2s' \in Seq(Messages) /\ Len(c2s') = 0
    BY <1>1, <1>3, TailFacts
  <2>2. c2s' = <<>>
    BY <2>1, EmptyFacts
  <2> QED  BY <2>1, <2>2, NothingIncomplete
<1>5. OneAnswer'
  <2> DEFINE t == <<Eos(scall)>>
  <2>1. Eos(scall) \in Messages /\ Eos(scall).k = "eos" /\ Eos(scall).what = "none" /\ Eos(scall).call = call
    BY <1>1, <1>3, MessageFacts
  <2>2. t \in Seq(Messages) /\ Len(t) = 1 /\ t[1] = Eos(scall) /\ \A j \in 1..Len(t) : j = 1
    BY <2>1
  <2> HIDE DEF t
  <2>3. s2c' = s2c \o Owed(outOpened, scall) \o t
    BY <1>1 DEF t
  <2>4. /\ Len(t) \in 1..2
        /\ \A j \in 1..Len(t) : t[j].call = call
        /\ t[1].k = "eos" => Len(t) = 1
        /\ \A j \in 1..Len(t) : \/ t[j].k = "eos" /\ t[j].what = "none"
                                \/ t[j].k # "eos" /\ t[j].what \in {"data", "exception"}
    BY <2>1, <2>2
  <2> QED  BY <1>1, <1>3, <2>2, <2>3, <2>4, OutputAnswer
<1>6. CASE cst = "closing"
  BY <1>1, <1>3, <1>4, <1>5, <1>6 DEF Where, Served
<1>7. CASE cst = "cancelling"
  BY <1>1, <1>3, <1>4, <1>5, <1>7 DEF Where, Ending
<1> QED  BY <1>3, <1>6, <1>7

LEMMA StepServerEnds ==
  ASSUME OneAnswer, ServerEof \/ ServerDies
  PROVE  OneAnswer' /\ Where'
BY DEF ServerEof, ServerDies, clientVars, OneAnswer, Where, Gone

LEMMA LockstepStep ==
  ASSUME TypeOK, Lockstep, [Next]_vars, "stream" \notin RefusedKinds
  PROVE  Lockstep'
<1> SUFFICES ASSUME clientUp' PROVE OneAnswer' /\ Where'
  BY DEF Lockstep
<1>1. CASE UNCHANGED vars
  BY <1>1 DEF Lockstep, vars, clientVars, serverVars, OneAnswer, Where, Gone, Unserved,
              Served, Ending, Opening, Looping, HeaderAnswer, TurnAnswered
<1>2. CASE Done
  BY <1>1, <1>2 DEF Done
<1>3. ASSUME Next, ~Done PROVE clientUp /\ OneAnswer /\ Where
  <2>1. clientUp
    BY <1>3 DEF Next, Call, Turn, Close, Cancel, Abandon, ReadFails, Abort, ClientReads,
                UnaryReply, HeaderReply, TurnReply, CloseDrained, CancelDrained, ServerStep,
                ServeRefused, ServeUnary, FactoryRaises, Discarded, FactoryReturns, OpenInput,
                StreamTurn, StreamEnds, StreamDrained, ServerEof, ServerDies, clientVars
  <2> QED  BY <2>1 DEF Lockstep
<1>4. ASSUME Abandon \/ ReadFails PROVE FALSE
  BY <1>4 DEF Abandon, ReadFails, Abort
<1>5. ASSUME ~Done, \E k \in Kinds, r \in BOOLEAN : Call(k, r) PROVE OneAnswer' /\ Where'
  BY <1>3, <1>5, StepCall DEF Next
<1>6. ASSUME ~Done, Turn \/ Close \/ Cancel PROVE OneAnswer' /\ Where'
  BY <1>3, <1>6, StepWrites DEF Next
<1>7. ASSUME ~Done, ClientReads PROVE OneAnswer' /\ Where'
  BY <1>3, <1>7, StepUnaryReply, StepHeaderReply, StepTurnReply, StepCloseDrained,
     StepCancelDrained DEF Next, ClientReads
<1>8. ASSUME ~Done, ServerStep \/ ServerDies PROVE OneAnswer' /\ Where'
  BY <1>3, <1>8, StepServe, StepDiscarded, StepOpenInput, StepStreamTurn, StepStreamEnds,
     StepServerEnds DEF Next, ServerStep
<1> QED  BY <1>1, <1>2, <1>4, <1>5, <1>6, <1>7, <1>8 DEF Next

LEMMA InitLockstep == Init => Lockstep
BY DEF Init, Lockstep, OneAnswer, Where, Served

(* However many calls and turns a connection carries, and whatever the     *)
(* handlers do in them, what the client reads belongs to the call that     *)
(* reads it, and nothing of one call is left for the next, as long as no   *)
(* gate ahead of dispatch refuses a stream without a header.  That one     *)
(* refusal is where the ends part: the client hands out the stream before  *)
(* it reads anything, and the server goes on to the next request.          *)
THEOREM AnswersBelongToTheirCall ==
  ASSUME "stream" \notin RefusedKinds
  PROVE  Spec => []RepliesBelongToCall
<1>1. TypeOK /\ Framed /\ Lockstep /\ [Next]_vars => TypeOK' /\ Framed' /\ Lockstep'
  BY FramedStep, LockstepStep
<1>2. Lockstep => RepliesBelongToCall
  BY DEF Lockstep, OneAnswer, RepliesBelongToCall
<1> QED  BY InitFramed, InitLockstep, <1>1, <1>2, PTL DEF Spec

=============================================================================
