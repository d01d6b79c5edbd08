------------------------------ MODULE Identity ------------------------------
(***************************************************************************)
(* Who a request comes from: proxy proofs (proxy_proof.cpp), the evidence  *)
(* of peer identity providers and the policies over it (identity.cpp,      *)
(* spiffe_proxy_identity.cpp, tailscale_identity.cpp, iroh_identity.cpp),  *)
(* sealed grants (grants.cpp) and the identity protocol                    *)
(* (token_identity.cpp).                                                   *)
(*                                                                         *)
(* The module has no state.  Times are whole seconds.  Headers, tokens and *)
(* certificates are records of what the code tells apart; HMAC, AEAD and   *)
(* X.509 signatures are taken at their word: "key" says who made it.       *)
(***************************************************************************)
EXTENDS Integers, Sequences, FiniteSets

NoPrincipal == "nobody"
NoTime == -1

\* An AuthContext; authTime is the auth_time claim, NoTime when there is none.
Auth(domain, principal, authTime) ==
    [authenticated |-> TRUE, domain |-> domain, principal |-> principal,
     authTime |-> authTime]

Anonymous == [authenticated |-> FALSE, domain |-> "", principal |-> NoPrincipal,
              authTime |-> NoTime]

-----------------------------------------------------------------------------
(* Proxy proofs.                                                           *)

\* The charsets and lengths of the five fields.
ProofFieldsOK(p) == p.version = "v1" /\ p.fields = 5 /\ p.charsets

\* ProofVerifier::verify() as far as the MAC: the reason it stops with, "ok" if
\* only the replay cache is left to ask.  ts is compared with a clock read here.
ProofReason(p, kids, key, skew, now) ==
    CASE p.count = 0                               -> "no_proof"
      [] p.count # 0 /\ (p.count # 1 \/ ~ProofFieldsOK(p)) -> "malformed"
      [] OTHER ->
           IF p.kid \notin kids THEN "unknown_kid"
           ELSE IF now - p.ts > skew THEN "expired"
           ELSE IF p.ts - now > skew THEN "not_yet_valid"
           ELSE IF p.mac # key THEN "bad_mac"
           ELSE "ok"

\* Mutant: the pruning loop of seen_nonce() drops an entry that is just as old as
\* the skew.
Bug_PrunesAtTheSkew(order, seen, now, skew) ==
    LET young == {i \in DOMAIN order : now - seen[order[i]] < skew}
        first == IF young = {} THEN Len(order) + 1
                 ELSE CHOOSE i \in young : \A j \in young : i <= j
    IN  SubSeq(order, first, Len(order))

\* seen_nonce(): entries are dropped from the front while they are older than the
\* skew; the first young one ends the loop.
Pruned(order, seen, now, skew) ==
    LET young == {i \in DOMAIN order : now - seen[order[i]] <= skew}
        first == IF young = {} THEN Len(order) + 1
                 ELSE CHOOSE i \in young : \A j \in young : i <= j
    IN  SubSeq(order, first, Len(order))

\* seen_nonce(): room is made by dropping the oldest.
Evicted(order, capacity) ==
    IF Len(order) < capacity THEN order
    ELSE SubSeq(order, Len(order) - capacity + 2, Len(order))

Elements(order) == {order[i] : i \in DOMAIN order}

-----------------------------------------------------------------------------
(* Peer evidence.                                                          *)

Result(status) == [status |-> status, ids |-> {}]

\* A PeerIdentity: the subject, whether it is verified, and how stable it is.
Available(subject, verified, stability) ==
    [status |-> "available",
     ids |-> {[subject |-> subject, verified |-> verified, stability |-> stability]}]

\* Boundary::trusts(): the socket's peer is one of the configured proxies.
Trusts(ctx) == ctx.peer = "proxy"

\* PeerResolutionContext::validate(): no header twice, within the limits.
ValidContext(ctx) == ~ctx.duplicates

Has(ctx, name) == name \in DOMAIN ctx.headers

\* validate_id(): canonical form and a configured trust domain.
ValidateId(id, domains) == id.canonical /\ id.domain \in domains

\* identity_from_certificate(): the checks on an X.509-SVID.
SvidAccepted(cert, domains) ==
    /\ cert.current
    /\ Len(cert.uris) = 1 /\ ValidateId(cert.uris[1], domains)
    /\ cert.named \/ cert.sanCritical
    /\ cert.leaf
    /\ cert.usageCritical /\ "digitalSignature" \in cert.usage
    /\ cert.usage \cap {"keyCertSign", "cRLSign"} = {}
    /\ cert.ekuPresent => {"client", "server"} \subseteq cert.extended

\* decode_certificate(): one PEM certificate, percent-encoded, within the size.
DecodesAsCertificate(raw) == raw.pem /\ raw.size = "ok" /\ raw.certificates = 1

\* Mutant: the proxy's verdict on the certificate is not asked for.
Bug_SkipsVerification(ctx, domains, asksVerification) ==
    IF ~Trusts(ctx) THEN Result("untrusted_proxy")
    ELSE IF ~Has(ctx, "cert") THEN Result("no_match")
    ELSE IF SvidAccepted(ctx.headers["cert"].cert, domains)
         THEN Available(ctx.headers["cert"].cert.uris[1].subject, TRUE, "stable")
         ELSE Result("invalid")

\* certificate_provider(), the profile of nginx, Azure and generic X.509 headers;
\* ALB has no verification header (asksVerification FALSE).
CertificateProvider(ctx, domains, asksVerification) ==
    IF ~Trusts(ctx) THEN Result("untrusted_proxy")
    ELSE IF ~ValidContext(ctx) THEN Result("invalid")
    ELSE IF ~Has(ctx, "cert") THEN Result("no_match")
    ELSE IF asksVerification /\ (~Has(ctx, "verify") \/ ctx.headers["verify"] # "SUCCESS")
         THEN Result("invalid")
    ELSE LET raw == ctx.headers["cert"] IN
         IF DecodesAsCertificate(raw) /\ SvidAccepted(raw.cert, domains)
         THEN Available(raw.cert.uris[1].subject, TRUE, "stable")
         ELSE Result("invalid")

\* gcp_load_balancer_spiffe_provider().
GcpProvider(ctx, domains) ==
    LET value(name, v) == Has(ctx, name) /\ ctx.headers[name] = v
    IN  IF ~Trusts(ctx) THEN Result("untrusted_proxy")
        ELSE IF ~ValidContext(ctx) THEN Result("invalid")
        ELSE IF /\ value("present", "false") /\ ~Has(ctx, "id")
                /\ ~Has(ctx, "chain") \/ value("chain", "false")
             THEN Result("no_match")
        ELSE IF /\ value("present", "true") /\ value("chain", "true")
                /\ ~Has(ctx, "error") \/ value("error", "")
                /\ Has(ctx, "id") /\ ValidateId(ctx.headers["id"], domains)
             THEN Available(ctx.headers["id"].subject, TRUE, "stable")
        ELSE Result("invalid")

\* parse_xfcc(): one element of known fields, singletons once, quoting closed.
XfccParses(x) == x.elements = 1 /\ x.known /\ x.quoted /\ x.singletons

\* envoy_xfcc_spiffe_provider(): one URI and one SHA-256 hash.
EnvoyProvider(ctx, domains) ==
    IF ~Trusts(ctx) THEN Result("untrusted_proxy")
    ELSE IF ~ValidContext(ctx) THEN Result("invalid")
    ELSE IF ~Has(ctx, "xfcc") THEN Result("no_match")
    ELSE LET x == ctx.headers["xfcc"] IN
         IF /\ XfccParses(x) /\ Len(x.uris) = 1 /\ x.hash
            /\ ValidateId(x.uris[1], domains)
         THEN Available(x.uris[1].subject, TRUE, "stable")
         ELSE Result("invalid")

\* iroh_forwarded_header_provider().
IrohProvider(ctx) ==
    IF ~Trusts(ctx) THEN Result("untrusted_proxy")
    ELSE IF ~ValidContext(ctx) THEN Result("invalid")
    ELSE IF ~Has(ctx, "endpoint") THEN Result("no_match")
    ELSE IF ~ctx.headers["endpoint"].canonical THEN Result("invalid")
    ELSE Available(ctx.headers["endpoint"].subject, TRUE, "stable")

\* decode_q_word_body(): underscores and hex escapes.
WordOK(word) == word.escapes /\ word.ascii

\* decode_serve_header(): plain ASCII, or UTF-8 in Q-encoded words, within the limit
\* before and after decoding.
ServeHeaderOK(v) ==
    /\ v.ascii /\ v.fits
    /\ \A i \in DOMAIN v.words : WordOK(v.words[i])

\* decode_capabilities(): an object of arrays of objects, under names with a slash.
CapabilitiesOK(v) == ServeHeaderOK(v) /\ v.object

\* tailscale_serve_identity_provider(): a login is a subject, but not a stable
\* one; capabilities alone have no subject, and without any there is nothing; a
\* request through Funnel has neither.
ServeProvider(ctx) ==
    IF ~Trusts(ctx) THEN Result("untrusted_proxy")
    ELSE IF ~ValidContext(ctx) THEN Result("invalid")
    ELSE IF Has(ctx, "funnel")
         THEN Result(IF ctx.headers["funnel"] = "?1" THEN "not_applicable" ELSE "invalid")
    ELSE IF \/ \E n \in {"login", "name"} \cap DOMAIN ctx.headers : ~ServeHeaderOK(ctx.headers[n])
            \/ Has(ctx, "caps") /\ ~CapabilitiesOK(ctx.headers["caps"])
            \/ Has(ctx, "name") /\ ~Has(ctx, "login")
         THEN Result("invalid")
    ELSE IF Has(ctx, "login") THEN Available(ctx.headers["login"].subject, TRUE, "login")
    ELSE IF Has(ctx, "caps") /\ ctx.headers["caps"].some THEN Available(NoPrincipal, FALSE, "none")
    ELSE Result("no_match")

-----------------------------------------------------------------------------
(* The exchange with the LocalAPI daemon.                                  *)

\* make_endpoint(), tailscale_localapi_identity_provider(): a socket or an origin,
\* not both, and a password only with an origin.
EndpointOK(o) ==
    /\ o.socket \in {"none", "path"} /\ o.endpoint \in {"none", "origin"}
    /\ o.socket = "none" \/ o.endpoint = "none"
    /\ o.password => o.endpoint = "origin"

\* wait_socket(): a peer that hung up can still be read from.
WaitsFor(event, writing) == event = "ready" \/ (event = "hangup" /\ ~writing)

\* connect_endpoint(): the addresses in turn; one that refuses or fails is passed
\* over, one that hangs uses up the deadline.
Connects(addresses) ==
    \E i \in DOMAIN addresses :
        /\ WaitsFor(addresses[i], TRUE)
        /\ \A j \in 1..(i - 1) : addresses[j] # "timeout"

\* SocketReader: a body that stalls is an outage.  A daemon that hangs up in it is
\* noticed where the framing says how long it is; without that, the end of the
\* connection is the end of the body.
BreaksOff(w) == ~WaitsFor(w.body, FALSE) \/ (~w.whole /\ w.framing # {})

\* request_whois(): the status alone speaks unless it is 200; the body is framed by
\* its length, by chunks, or by the end of the connection, and bounded.
WhoisExchange(w) ==
    IF ~Connects(w.addresses) \/ ~WaitsFor(w.sent, TRUE) \/ w.head = "timeout" THEN "unavailable"
    ELSE IF w.head \in {"oversized", "malformed"} THEN "invalid"
    ELSE IF w.status # 200 THEN "answered"
    ELSE IF w.framing = {"length", "chunked"} \/ w.oversized THEN "invalid"
    ELSE IF BreaksOff(w) THEN "unavailable"
    ELSE "answered"

\* optional_string() and the other members of the answer: of their types.  Half of an
\* object is no JSON.
WhoisParses(w) == w.json /\ w.typed /\ w.whole

\* whois_identity(): a tagged node by its StableID, otherwise the user by its ID.
WhoisSubject(w) ==
    IF w.tags THEN IF w.stableId # "" THEN {w.stableId} ELSE {}
    ELSE IF w.userId # "" THEN {w.userId} ELSE {}

\* destination_ip(): an address with or without a port.
DestinationOK(address) == address \in {"none", "ip"}

\* Who is asked about: the peer a proxy asserts, if an exact address asserted it,
\* and the service or the destination it wants.
TargetOK(ctx) ==
    /\ ctx.asserted => ctx.peer # "none"
    /\ ctx.service \in {"none", "svc"}
    /\ ctx.service = "none" => DestinationOK(ctx.destination)

\* Mutant: an unreachable LocalAPI is reported as bad evidence.
Bug_OutageIsInvalid(ctx, whois) ==
    IF ~ValidContext(ctx) \/ WhoisExchange(whois) # "answered" THEN Result("invalid")
    ELSE Available(whois.userId, TRUE, "stable")

\* tailscale_localapi_identity_provider(): what comes of the question.
LocalApiProvider(ctx, whois) ==
    IF ~ValidContext(ctx) THEN Result("invalid")
    ELSE IF ctx.peer = "none" /\ ~ctx.asserted THEN Result("not_applicable")
    ELSE IF ~TargetOK(ctx) THEN Result("invalid")
    ELSE IF WhoisExchange(whois) # "answered" THEN Result(WhoisExchange(whois))
    ELSE IF whois.status \in {401, 403} THEN Result("permission_denied")
    ELSE IF whois.status = 404 THEN Result("no_match")
    ELSE IF whois.status \in 500..599 THEN Result("unavailable")
    ELSE IF whois.status # 200 \/ ~WhoisParses(whois) \/ WhoisSubject(whois) = {} THEN Result("invalid")
    ELSE Available(CHOOSE s \in WhoisSubject(whois) : TRUE, TRUE, "stable")

-----------------------------------------------------------------------------
(* Policies.  Evidence is a function from provider names to results.        *)

Accepts(auth) == [outcome |-> "auth", auth |-> auth]
Rejects == [outcome |-> "rejected", auth |-> Anonymous]
Unavailable == [outcome |-> "unavailable", auth |-> Anonymous]

\* PeerEvidenceSet::status(): OFF for a provider that is not configured.
StatusIn(evidence, provider) ==
    IF provider \in DOMAIN evidence THEN evidence[provider].status ELSE "off"

\* eligible_subjects(): verified and stable.
Eligible(evidence, provider) ==
    IF provider \notin DOMAIN evidence THEN {}
    ELSE {i \in evidence[provider].ids : i.verified /\ i.stability = "stable"}

\* require_available_provider(): an outage is told apart from a refusal.
RequireAvailable(evidence, provider, accepted) ==
    LET s == StatusIn(evidence, provider) IN
    IF s \in {"unavailable", "permission_denied"} THEN Unavailable
    ELSE IF s # "available" THEN Rejects
    ELSE accepted

\* require_usable_provider() and unique_verified_subject(), with the principal
\* of peer_identity_primary().
Primary(evidence, provider) ==
    LET ids == Eligible(evidence, provider) IN
    RequireAvailable(evidence, provider,
        IF Cardinality(ids) # 1 THEN Rejects
        ELSE Accepts(Auth(provider, (CHOOSE i \in ids : TRUE).subject, NoTime)))

\* any_of_peer_identities(): bad evidence of any provider refuses; application
\* authentication comes first, then the first provider with a subject.
AnyOf(evidence, providers, application) ==
    LET bad == {"invalid", "untrusted_proxy"}
        down == {"unavailable", "permission_denied"}
        ready == {i \in DOMAIN providers : Cardinality(Eligible(evidence, providers[i])) = 1}
        first == CHOOSE i \in ready : \A j \in ready : i <= j
    IN  IF \E i \in DOMAIN providers : \/ StatusIn(evidence, providers[i]) \in bad
                                       \/ Cardinality(Eligible(evidence, providers[i])) > 1
        THEN Rejects
        ELSE IF application.authenticated THEN Accepts(application)
        ELSE IF ready # {} THEN Primary(evidence, providers[first])
        ELSE IF \E i \in DOMAIN providers : StatusIn(evidence, providers[i]) \in down
        THEN Unavailable ELSE Rejects

\* The linker the deployment passes in: the application names the peer.
Links(application, peer) == application = peer

\* all_of_peer_identities(): application authentication, every provider usable
\* in order, and the linker (which may refuse) satisfied.
AllOf(evidence, providers, application) ==
    LET outcome(i) == Primary(evidence, providers[i])
        failed == {i \in DOMAIN providers : outcome(i).outcome # "auth"}
        first == CHOOSE i \in failed : \A j \in failed : i <= j
    IN  IF ~application.authenticated THEN Rejects
        ELSE IF failed # {} THEN outcome(first)
        ELSE IF \E i \in DOMAIN providers :
                  ~Links(application.principal, outcome(i).auth.principal) THEN Rejects
        ELSE Accepts(outcome(1).auth)

-----------------------------------------------------------------------------
(* Sealed grants and the identity protocol.                                *)

\* GrantKeys::validate(): distinct keys, a positive lifetime, no negative skew.
GrantKeysOK(keys, maxTtl, skew) ==
    /\ keys # <<>> /\ \A i, j \in DOMAIN keys : i # j => keys[i] # keys[j]
    /\ maxTtl > 0 /\ skew >= 0

\* GrantKeys::parse(), from_env(): every key that is given decodes to 32 bytes.
KeysParse(encoded) == \A i \in DOMAIN encoded : encoded[i].base64 /\ encoded[i].bytes = 32

\* mint_grant_token(): the caller, the time and the capped lifetime are sealed with
\* the first key.  auth_time is not: a grant never proves a recent login.
MintGrant(keys, principal, ttl, maxTtl, now) ==
    [shape |-> "grant", key |-> keys[1], canonical |-> TRUE, decodes |-> TRUE, owner |-> principal, issued |-> now,
     expires |-> now + (IF ttl < maxTtl THEN ttl ELSE maxTtl), authTime |-> NoTime]

\* b64url_strict() and the seal: one spelling, one of the keys held here.
Opens(g, keys) == g.canonical /\ \E i \in DOMAIN keys : keys[i] = g.key

\* decode_grant_payload(): every field, nothing after them, and a principal.
ClaimsOK(g) == g.decodes /\ g.owner # NoPrincipal

\* verify_grant_token(): the seal, the lifetime this deployment allows, the time.
GrantVerdict(g, keys, maxTtl, skew, now) ==
    IF ~Opens(g, keys) \/ ~ClaimsOK(g) THEN "invalid"
    ELSE IF g.expires <= g.issued \/ g.expires - g.issued > maxTtl THEN "invalid"
    ELSE IF g.issued > now + skew \/ now >= g.expires + skew THEN "expired"
    ELSE "ok"

\* normalise_principals(), IdentityImpl(): a worker that resolves tokens names who
\* may ask for it.
IdentityBuilds(resolves, introspectors) == resolves => introspectors # {}

\* IsJwsShaped(): three segments of base64url, the last of which may be empty.
IsJwsShaped(token) == token.shape = "jws"

\* reject_jws_shaped(): blank, over-long and JWS-shaped tokens go no further.
ResolvableShape(token) == token.shape \notin {"none", "blank", "oversized"} /\ ~IsJwsShaped(token)

\* Mutant: a caller without the claim passes for a fresh one.
Bug_NoClaimIsFresh(auth, maxAge, now) ==
    auth.authenticated /\ (auth.authTime = NoTime \/ now - auth.authTime <= maxAge)

\* check_freshness(): an authenticated caller whose auth_time is recent enough.
Fresh(auth, maxAge, now) ==
    /\ auth.authenticated /\ auth.principal # NoPrincipal
    /\ auth.authTime # NoTime
    /\ now - auth.authTime <= maxAge

\* check_introspector().
Introspector(auth, principals) == auth.authenticated /\ auth.principal \in principals

=============================================================================
