------------------------------ MODULE Transfer ------------------------------
(***************************************************************************)
(* One request and its answer over the three carriers of an HttpClient:    *)
(* httplib, libcurl behind a SOCKS5h proxy (src/src/http_socks5h.cpp) and  *)
(* HTTP over Iroh (src/src/iroh_cabi_transport.cpp).  Each bounds what it  *)
(* receives in its own callbacks and has its own errors; the client makes  *)
(* one kind of failure of them, and the kind decides about a retry.        *)
(*                                                                         *)
(* A transfer is what the far side does: blocks of headers, pieces of a    *)
(* body and a way to end.  Sizes are in units of the limits.               *)
(***************************************************************************)
EXTENDS Naturals, Sequences
LOCAL INSTANCE SequencesExt

CONSTANTS
    MaxEncoded,  \* max_encoded_response_bytes
    MaxDecoded,  \* max_decoded_response_bytes, as advertised to the server
    MaxHeader,   \* kMaximumResponseHeaderBytes, max_response_header_bytes
    MaxPieces    \* bound: pieces of a body

ASSUME TransferAssumption ==
    {MaxEncoded, MaxDecoded, MaxHeader, MaxPieces} \subseteq Nat \ {0}

NoCap == 0

\* A block of headers.  cap is the limit the server advertises in it, and
\* sound says that this limit is well-formed and that the support for client
\* limits is advertised exactly once.  A corrupt body is zstd that does not
\* decode.
Block == [size : 1 .. MaxHeader + 1, coding : {"identity", "zstd", "corrupt", "other"},
          cap : {NoCap} \cup 1 .. MaxDecoded, sound : BOOLEAN]

\* "100 Continue", which may precede the answer.
Interim == [size |-> 1, coding |-> "identity", cap |-> NoCap, sound |-> FALSE]

Ends == {"complete", "timeout", "tls", "broken"}

\* Categories of a failure the Iroh library reports while it connects or reads.
Categories == {"timeout", "cancelled", "authentication", "exhausted",
               "invalid", "protocol", "unavailable"}

\* What the far side of an Iroh connection may be other than who it should be
\* and well-formed.
Oddities == {"none", "peer", "status", "header"}

\* The transfers of a carrier.  A caller that stopped or whose deadline passed
\* did so before the carrier looked for the last time.
TransfersOf(carrier) ==
    [carrier : {carrier},
     blocks : {<<>>} \cup {<<b>> : b \in Block} \cup {<<Interim, b>> : b \in Block},
     body : UNION {[1 .. n -> 1 .. MaxEncoded] : n \in 0 .. MaxPieces},
     ends : IF carrier = "iroh" THEN {"complete"} \cup Categories ELSE Ends,
     odd : IF carrier = "iroh" THEN Oddities ELSE {"none"},
     secure : BOOLEAN, stop : BOOLEAN, late : BOOLEAN]

\* A transfer that is complete has an answer in it; Iroh has no interim block.
Transfers ==
    {x \in UNION {TransfersOf(c) : c \in {"httplib", "socks", "iroh"}} :
        /\ x.blocks = <<>> => x.ends # "complete" /\ x.body = <<>> /\ x.odd = "none"
        /\ x.carrier # "httplib" => x.secure
        /\ x.carrier # "socks" => Len(x.blocks) < 2}

Least(a, b) == IF a < b THEN a ELSE b
Total(sizes) == FoldLeft(LAMBDA sum, n : sum + n, 0, sizes)
Answered(x) == x.blocks # <<>>
Final(x) == x.blocks[Len(x.blocks)]

\* strict_advertised_response_limit() with effective_decoded_response_limit():
\* what the decoded answer may have.
DecodedLimit(b) == IF b.cap = NoCap THEN MaxDecoded ELSE Least(MaxDecoded, b.cap)

\* A receiver of pieces: limit, bytes taken, and whether it refused one.
Start(limit) == [limit |-> limit, taken |-> 0, headers |-> 0, refused |-> "no"]

-----------------------------------------------------------------------------
(* httplib.                                                                *)

\* The response_handler: an unsound block ends the transfer, an identity body
\* is bounded by the decoded limit as well.
ResponseHandler(b) ==
    IF ~b.sound THEN [Start(MaxEncoded) EXCEPT !.refused = "header"]
    ELSE IF b.coding = "identity" THEN Start(Least(MaxEncoded, DecodedLimit(b)))
    ELSE Start(MaxEncoded)

\* The content_receiver; a refusal ends the transfer.
ContentReceiver(s, n) ==
    IF s.refused # "no" THEN s
    ELSE IF n > s.limit \/ s.taken > s.limit - n THEN [s EXCEPT !.refused = "body"]
    ELSE [s EXCEPT !.taken = @ + n]

\* classify_transport_error(): a broken connection counts as TLS where there
\* is TLS.
ClassifyTransportError(x) ==
    CASE x.stop -> "cancelled"
      [] ~x.stop /\ (x.late \/ x.ends = "timeout") -> "timeout"
      [] ~x.stop /\ ~x.late /\ (x.ends = "tls" \/ (x.ends = "broken" /\ x.secure)) -> "tls"
      [] OTHER -> "transport"

ViaHttplib(x) ==
    LET s == IF Answered(x) THEN FoldLeft(ContentReceiver, ResponseHandler(Final(x)), x.body)
             ELSE Start(MaxEncoded)
    IN CASE s.refused = "header" -> "protocol"
         [] s.refused = "body" -> "limit"
         [] s.refused = "no" /\ x.ends # "complete" -> ClassifyTransportError(x)
         [] OTHER -> "delivered"

-----------------------------------------------------------------------------
(* libcurl behind a SOCKS5h proxy.                                         *)

\* receive_header(): the bytes of all blocks count; a block replaces the one
\* before it, but a limit it set stays until another identity block sets one.
ReceiveHeader(s, b) ==
    IF s.refused # "no" THEN s
    ELSE IF b.size > MaxHeader \/ s.headers > MaxHeader - b.size
    THEN [s EXCEPT !.refused = "header"]
    ELSE [s EXCEPT !.headers = @ + b.size,
                   !.limit = IF b.coding = "identity"
                             THEN Least(MaxEncoded, IF b.sound THEN DecodedLimit(b)
                                                    ELSE MaxDecoded)
                             ELSE @]

\* receive_body().
ReceiveBody(s, n) ==
    IF s.refused # "no" THEN s
    ELSE IF n > s.limit \/ s.taken > s.limit - n THEN [s EXCEPT !.refused = "body"]
    ELSE [s EXCEPT !.taken = @ + n]

\* failure_kind(); transfer_progress() has aborted a transfer that was stopped
\* or is late.
FailureKind(x) ==
    CASE x.stop -> "cancelled"
      [] ~x.stop /\ (x.late \/ x.ends = "timeout") -> "timeout"
      [] ~x.stop /\ ~x.late /\ x.ends = "tls" -> "tls"
      [] OTHER -> "transport"

\* SocksHttpClient::send(): curl runs the callbacks, and what they refused is
\* looked at before the result of curl.
SocksSend(x) ==
    LET heads == FoldLeft(ReceiveHeader, Start(MaxEncoded), x.blocks)
        s == FoldLeft(ReceiveBody, heads, x.body)
    IN CASE s.refused # "no" -> "limit"
         [] s.refused = "no" /\ x.ends # "complete" -> FailureKind(x)
         [] OTHER -> "delivered"

\* send_socks_request(): the kinds it knows keep their name.
ViaSocks(x) ==
    LET kind == SocksSend(x) IN
    IF kind \in {"tls", "timeout", "cancelled", "limit", "delivered"} THEN kind ELSE "transport"

-----------------------------------------------------------------------------
(* HTTP over Iroh.                                                         *)

\* The loop of open_native_http(): the callback is asked before each read, and
\* what exceeds the limit cancels the response.
ReadLoop(x) ==
    IF x.stop \/ x.late THEN "cancelled"
    ELSE IF Total(x.body) > MaxEncoded THEN "exhausted"
    ELSE x.ends

\* open_native_http(): the category it throws, or "complete".
OpenNativeHttp(x) ==
    CASE ~Answered(x) -> x.ends
      [] Answered(x) /\ x.odd = "peer" -> "authentication"
      [] Answered(x) /\ x.odd # "peer" /\ Final(x).size > MaxHeader -> "exhausted"
      [] OTHER -> ReadLoop(x)

\* The kind a category becomes in send_iroh_request().
KindOf(category) ==
    CASE category \in {"timeout", "cancelled", "authentication"} -> category
      [] category = "exhausted" -> "limit"
      [] category \in {"invalid", "protocol"} -> "protocol"
      [] OTHER -> "transport"

\* send_iroh_request(): the deadline and the stop come before the category,
\* and a provider other than the native one is checked again.
ViaIroh(x) ==
    LET category == OpenNativeHttp(x) IN
    CASE category # "complete" ->
           IF x.late THEN "timeout" ELSE IF x.stop THEN "cancelled" ELSE KindOf(category)
      [] category = "complete" /\ x.odd \in {"status", "header"} -> "protocol"
      [] OTHER -> "delivered"

-----------------------------------------------------------------------------
\* decode_zstd() of a body that expands to twice its size: a body that does not
\* decode and one that exceeds the limit are the same kind of failure.
DecodeZstd(x) ==
    IF Final(x).coding = "corrupt" \/ 2 * Total(x.body) > DecodedLimit(Final(x))
    THEN "protocol" ELSE "delivered"

\* send_once() after the carrier: the block is checked again, and the body
\* against the decoded limit.
Accept(x) ==
    LET b == Final(x) IN
    CASE ~b.sound \/ b.coding = "other" -> "protocol"
      [] b.sound /\ b.coding \in {"zstd", "corrupt"} -> DecodeZstd(x)
      [] b.sound /\ b.coding = "identity" ->
           IF Total(x.body) > DecodedLimit(b) THEN "limit" ELSE "delivered"

\* The kind of failure a transfer ends in for the client, or "delivered".
Outcome(x) ==
    LET carried == CASE x.carrier = "httplib" -> ViaHttplib(x)
                     [] x.carrier = "socks" -> ViaSocks(x)
                     [] x.carrier = "iroh" -> ViaIroh(x)
    IN IF carried = "delivered" THEN Accept(x) ELSE carried

\* is_retryable_transport_error().
Retryable(kind) == kind \in {"transport", "timeout"}

\* Nothing is delivered that was not received whole, from the endpoint that
\* was asked, and within every limit; and no carrier has the client ask again
\* for an answer that came whole, however it was refused.
ASSUME DeliveredIsBounded ==
    \A x \in Transfers :
      /\ Outcome(x) = "delivered" =>
           /\ x.ends = "complete" /\ x.odd = "none" /\ Final(x).sound
           /\ Total(x.body) <= MaxEncoded /\ Total(x.body) <= DecodedLimit(Final(x))
      /\ x.ends = "complete" /\ ~x.late => ~Retryable(Outcome(x))
=============================================================================
