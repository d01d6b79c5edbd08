--------------------------- MODULE ProxyProtocol ---------------------------
(***************************************************************************)
(* The PROXY v2 preamble a trusted proxy sends ahead of a TCP connection   *)
(* (proxy_protocol_v2.cpp), and the options of serve_tcp() it depends on.  *)
(* The module has no state.  A preamble is a record of what the parser     *)
(* tells apart: its size, command and address family, whether the address  *)
(* block fits the body, and its TLVs.                                      *)
(***************************************************************************)
EXTENDS Naturals, Sequences, FiniteSets

\* proxy_protocol_v2_size(): the fixed 16 bytes.
SizeAccepted(p, maximum) == p.signature /\ p.version = 2 /\ p.size <= maximum

\* parse_tlvs(): TLVs are walked to the end of the body; one that runs past it
\* is an error, and so is a second or misshapen Iroh identity where allowed.
TlvsParse(p, iroh) ==
    LET ids == {i \in DOMAIN p.tlvs : iroh /\ p.tlvs[i].type = "iroh"}
    IN  /\ \A i \in DOMAIN p.tlvs : p.tlvs[i].fits
        /\ Cardinality(ids) <= 1
        /\ \A i \in ids : p.tlvs[i].wellFormed

HasIrohId(p, iroh) == iroh /\ \E i \in DOMAIN p.tlvs : p.tlvs[i].type = "iroh"

\* parse_proxy_protocol_v2(): what the preamble asserts about the peer.
Asserts(p, maximum, iroh) ==
    IF ~SizeAccepted(p, maximum) \/ p.command # "proxy" \/ ~TlvsParse(p, iroh) THEN "error"
    ELSE IF p.family = "unspec" /\ iroh THEN IF HasIrohId(p, iroh) THEN "iroh" ELSE "error"
    ELSE IF p.family \in {"inet", "inet6"} /\ p.fits /\ ~HasIrohId(p, iroh) THEN "address"
    ELSE "error"

\* normalize_ip(): an IPv4 address mapped into IPv6 is that IPv4 address; what is
\* not an exact address is nobody.
NormalizeIp(a) == IF a.exact THEN a.ip ELSE ""

\* resolve_tcp_identity(): the immediate peer is one of the configured proxies.
TrustedSender(a, trusted) ==
    /\ NormalizeIp(a) # ""
    /\ \E i \in DOMAIN trusted : NormalizeIp(trusted[i]) = NormalizeIp(a)

\* serve_tcp(): the options it starts with.
TcpOptionsAccepted(o) ==
    /\ o.active > 0 /\ o.pending > 0
    /\ \A t \in {o.setup, o.preamble, o.identity, o.idleRead, o.write} : t > 0
    /\ o.maxPreamble >= 16
    /\ o.v2 => o.trusted # <<>>
    /\ o.iroh => o.v2
    /\ \A i \in DOMAIN o.trusted : NormalizeIp(o.trusted[i]) # ""
    /\ \A i, j \in DOMAIN o.trusted :
          i # j => NormalizeIp(o.trusted[i]) # NormalizeIp(o.trusted[j])

\* serve_unix(): the options it starts with; the path fits sun_path.
UnixOptionsAccepted(o) == o.idle >= 0 /\ o.grace >= 0 /\ o.path

=============================================================================
