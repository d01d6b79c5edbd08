---------------------------- MODULE HttpRequest ----------------------------
(***************************************************************************)
(* One HTTP worker answering POST requests (HttpServer::run() and          *)
(* handle_rpc() of http_transport.cpp, up to the method) for clients that  *)
(* then fetch what the answer refers to.                                   *)
(*                                                                         *)
(* Handlers are the threads of the HTTP server.  They share the once-flag  *)
(* of the start hook, the replay cache of the proof verifier and the clock *)
(* (time passes between any two steps, and every reading of it is a step   *)
(* of its own), and they ask identity services that go down and come back. *)
(* A deployment is the configuration of the worker together with the       *)
(* requests its clients may send, and how many (budget), until when        *)
(* (horizon); it is chosen once.                                           *)
(***************************************************************************)
EXTENDS Identity, External, Dispatch

CONSTANTS
    Handlers,
    Deployments,    \* the configurations
    Requests,       \* name of a deployment -> what its clients send
    Answers,        \* URL -> the responses its site may give
    Names,          \* host -> the answers a lookup may give
    Payloads,       \* body -> what is in it
    Results,        \* name of a deployment -> what its methods come to
    Allocations     \* what the storage service answers to /alloc

VARIABLES
    dep,        \* the deployment
    now,        \* the wall clock, in seconds
    up,         \* the identity services answer
    started,    \* serve_start_once_: "no", "running", "yes"
    order,      \* nonce_order_
    seen,       \* nonces_, as a function
    grants,     \* sealed grants handed out, each with how it came about
    h,          \* what each handler is doing
    served,     \* requests accepted so far
    accepted    \* history: the nonces the replay cache let pass, with the time

vars == <<dep, now, up, started, order, seen, grants, h, served, accepted>>

\* What clients send: a body that was read or one of the two ways not to, the claims
\* of a token as numbers.  Who holds a credential of the issuer is whom it names; the
\* header of the fixture names who sends it, and no other credential comes with it.
RequestOK(d, r) ==
    /\ {"read", "body", "ttl", "principal", "token", "sender"} \subseteq DOMAIN r
    /\ r.read \in {"ok", "too_large", "bad_body"}
    /\ r.body \in DOMAIN Payloads /\ r.ttl \in Int
    /\ r.token.issued \in Int /\ r.token.expires \in Int
    /\ r.token.shape = "jws" /\ r.token.key = "issuer" => r.token.owner = r.sender
    /\ d.grants /\ d.headerAuth /\ r.principal # NoPrincipal =>
          r.principal = r.sender /\ r.token.shape \notin {"grant", "held"}

\* What a worker is configured with.  Only framework protocols have their names;
\* the digest an application published is the one of the object it refers to.
DeploymentOK(d) ==
    /\ d.budget \in Nat
    /\ d.skew \in Int /\ d.maxTtl \in Int /\ d.grantSkew \in Int
    /\ d.protocols \in Seq(Elements(d.protocols)) /\ d.providers \in Seq(Elements(d.providers))
    /\ d.keys \in Seq(Elements(d.keys))
    /\ \A p \in Elements(d.protocols) : p.name \in {Reflection, IdentityProtocol} => p.reserved
    /\ d.server.validator \subseteq DOMAIN Answers
    /\ \A res \in Results[d.name] :
          res.kind = "reference" /\ d.published.sha # "" => res.body = d.published.sha

ASSUME RequestAssumption ==
    \A d \in Deployments : DeploymentOK(d) /\ \A r \in Requests[d.name] : RequestOK(d, r)

BatchOK(b) == {"key", "method", "version", "declared", "rows", "fields"} \subseteq DOMAIN b

\* The sites and the name servers: whole answers have a body, names have addresses.
ASSUME SiteAssumption ==
    /\ \A u \in DOMAIN Answers : \A r \in Answers[u] : r.status = 200 => r.body \in DOMAIN Payloads
    /\ \A host \in DOMAIN Names : \A answer \in Names[host] :
          answer \in Seq(Elements(answer)) /\ \A i \in DOMAIN answer : AddressOK(answer[i])
    /\ \A b \in DOMAIN Payloads : BatchOK(Payloads[b])

NoRequest == [none |-> TRUE]

NoResult == [kind |-> "error", body |-> "", size |-> 0, packed |-> 0, rows |-> 0, data |-> FALSE]

IdleHandler ==
    [at |-> "idle", req |-> NoRequest, auth |-> Anonymous, authAt |-> NoTime,
     answer |-> "", body |-> "", route |-> NotFound, ran |-> "", fetch |-> NewFetch("", NoUrl, ""),
     checkedAt |-> NoTime, result |-> NoResult, left |-> 0, fault |-> "none",
     pair |-> [upload |-> NoUrl, download |-> NoUrl], pointer |-> [url |-> NoUrl, sha |-> ""]]

\* The server is built, and the HttpServer constructor takes it: a policy over peer evidence needs providers, and
\* refuses to have identity bearers beside it.
IdentityBearer(d) == d.identityBearer /\ (d.grants \/ d.resolver)

Starts(d) ==
    /\ Builds(d) /\ Constructs(d)
    /\ d.storage => StorageBuilds(d.server)
    /\ ClientBuilds(d.client) /\ EndpointOK(d.localapi)
    /\ d.grants => KeysParse(d.encodedKeys) /\ GrantKeysOK(d.keys, d.maxTtl, d.grantSkew)
    /\ IdentityBuilds(d.resolver, d.introspectors)
    /\ d.policy # "none" => ~IdentityBearer(d) /\ d.providers # <<>>

Init ==
    /\ dep \in {d \in Deployments : Starts(d)}
    /\ now = 0 /\ up = TRUE
    /\ started = IF dep.hook THEN "no" ELSE "yes"
    /\ order = <<>> /\ seen = [n \in {} |-> 0]
    /\ grants = {}
    /\ h = [i \in Handlers |-> IdleHandler]
    /\ served = 0 /\ accepted = <<>>

Answer(x, what) == [x EXCEPT !.at = "answered", !.answer = what]

-----------------------------------------------------------------------------
(* The environment.                                                        *)

Tick ==
    /\ now < dep.horizon
    /\ now' = now + 1
    /\ UNCHANGED <<dep, up, started, order, seen, grants, h, served, accepted>>

\* The LocalAPI daemon, the token store and the key server of the bearer hook.
ServicesFlip ==
    /\ dep.flaky
    /\ up' = ~up
    /\ UNCHANGED <<dep, now, started, order, seen, grants, h, served, accepted>>

\* What clients send; a client may present any grant it was given.
Sendable(r) ==
    IF r.token.shape = "held" THEN {[r EXCEPT !.token = g.token, !.sender = g.owner] : g \in grants}
    ELSE {r}

Send(i) ==
    /\ h[i].at = "idle" /\ served < dep.budget
    /\ \E r \in Requests[dep.name] : \E s \in Sendable(r) :
          h' = [h EXCEPT ![i] = [IdleHandler EXCEPT !.at = "start", !.req = s]]
    /\ served' = served + 1
    /\ UNCHANGED <<dep, now, up, started, order, seen, grants, accepted>>

-----------------------------------------------------------------------------
(* The POST handler before handle_rpc().                                    *)

\* The body is read whatever the start hook did; a hook that failed is a 500, a
\* body over the cap a 413, one that does not decode a 400.
AfterStart(x, ok) ==
    IF ~ok THEN Answer(x, "start_failed")
    ELSE IF x.req.read # "ok" THEN Answer(x, x.req.read)
    ELSE [x EXCEPT !.at = "proof"]

\* notify_serve_start(): call_once runs the hook in one thread, the others wait.
Start(i) ==
    /\ h[i].at = "start"
    /\ \/ started = "yes" /\ h' = [h EXCEPT ![i] = AfterStart(@, TRUE)] /\ UNCHANGED started
       \/ started = "no" /\ started' = "running" /\ h' = [h EXCEPT ![i].at = "hook"]
    /\ UNCHANGED <<dep, now, up, order, seen, grants, served, accepted>>

\* The flag is set only when the hook returns.
HookReturns(i) ==
    /\ h[i].at = "hook"
    /\ \E ok \in BOOLEAN :
          /\ started' = IF ok THEN "yes" ELSE "no"
          /\ h' = [h EXCEPT ![i] = AfterStart(@, ok)]
    /\ UNCHANGED <<dep, now, up, order, seen, grants, served, accepted>>

-----------------------------------------------------------------------------
(* refuse_if_unauthorized().                                               *)

\* What the outcome of the proof means; reject_all refuses everyone else.
ProofDone(x, verified) ==
    IF (~verified /\ dep.proof = "require") \/ dep.rejectAll THEN Answer(x, "unauthorized")
    ELSE [x EXCEPT !.at = "identify"]

\* ProofVerifier::verify(); without a replay cache seen_nonce() has seen none.
CheckProof(i) ==
    /\ h[i].at = "proof"
    /\ LET reason == ProofReason(h[i].req.proof, dep.kids, "ours", dep.skew, now)
       IN  h' = [h EXCEPT ![i] =
                   IF dep.proof = "off" THEN ProofDone(@, TRUE)
                   ELSE IF reason = "ok" /\ dep.replayCache THEN [@ EXCEPT !.at = "nonce"]
                   ELSE ProofDone(@, reason = "ok")]
    /\ UNCHANGED <<dep, now, up, started, order, seen, grants, served, accepted>>

\* seen_nonce(), under replay_mutex_, with a clock reading of its own.
CheckNonce(i) ==
    /\ h[i].at = "nonce"
    /\ LET n == h[i].req.proof.nonce
           young == Pruned(order, seen, now, dep.skew)
           replayed == n \in Elements(young)
           room == Evicted(young, dep.capacity)
           kept == IF replayed THEN young ELSE Append(room, n)
       IN  /\ order' = kept
           /\ seen' = [m \in Elements(kept) |-> IF replayed \/ m # n THEN seen[m] ELSE now]
           /\ accepted' = IF replayed THEN accepted ELSE Append(accepted, [nonce |-> n, at |-> now])
           /\ h' = [h EXCEPT ![i] = ProofDone(@, ~replayed)]
    /\ UNCHANGED <<dep, now, up, started, grants, served>>

-----------------------------------------------------------------------------
(* resolve_http_identity().                                                *)

\* identify(): the principal header of the conformance fixture.
Fixture(d, r) ==
    IF d.headerAuth /\ r.principal # NoPrincipal
    THEN Auth("conformance", r.principal, r.authTime) ELSE Anonymous

ProviderName(kind) ==
    CASE kind \in {"x509", "gcp", "envoy"} -> "spiffe"
      [] kind \in {"serve", "localapi"}    -> "tailscale"
      [] OTHER                             -> "iroh"

\* How the daemon may fail while it is asked: not to be reached, to hang, to stall in
\* the head or in the body, to hang up in the body, to be busy.
Faults == {"refused", "hangs", "broken_head", "broken_body", "cut_body", "busy"}

Faulted(w, fault) ==
    CASE fault = "refused"     -> [w EXCEPT !.addresses = <<"refused">>]
      [] fault = "hangs"       -> [w EXCEPT !.addresses = <<"timeout">> \o @]
      [] fault = "broken_head" -> [w EXCEPT !.head = "timeout"]
      [] fault = "broken_body" -> [w EXCEPT !.body = "timeout", !.whole = FALSE]
      [] fault = "cut_body"    -> [w EXCEPT !.body = "hangup", !.whole = FALSE]
      [] fault = "busy"        -> [w EXCEPT !.status = 503]
      [] OTHER                 -> w

Provide(d, kind, r, fault) ==
    CASE kind = "x509"     -> CertificateProvider(r.ctx, d.domains, TRUE)
      [] kind = "gcp"      -> GcpProvider(r.ctx, d.domains)
      [] kind = "envoy"    -> EnvoyProvider(r.ctx, d.domains)
      [] kind = "serve"    -> ServeProvider(r.ctx)
      [] kind = "localapi" -> LocalApiProvider(r.ctx, Faulted(r.whois, fault))
      [] OTHER             -> IrohProvider(r.ctx)

\* The providers are asked in order; PeerEvidenceSet() refuses two results of the
\* same provider.
Evidence(d, r, fault) ==
    [n \in {ProviderName(d.providers[j]) : j \in DOMAIN d.providers} |->
        Provide(d, d.providers[CHOOSE j \in DOMAIN d.providers :
                                  ProviderName(d.providers[j]) = n], r, fault)]

Ambiguous(d) == \E j, k \in DOMAIN d.providers :
                j # k /\ ProviderName(d.providers[j]) = ProviderName(d.providers[k])

\* resolve_deployment_identity().
DeploymentIdentity(d, r, fault) ==
    LET application == Fixture(d, r)
        names == [j \in DOMAIN d.providers |-> ProviderName(d.providers[j])]
    IN  IF d.providers = <<>> THEN Accepts(application)
        ELSE IF ~ValidContext(r.ctx) \/ Ambiguous(d) THEN Rejects
        ELSE CASE d.policy \in {"none", "observe"} -> Accepts(application)
               [] d.policy = "require" ->
                    RequireAvailable(Evidence(d, r, fault), names[1], Accepts(application))
               [] d.policy = "primary" -> Primary(Evidence(d, r, fault), names[1])
               [] d.policy = "any" -> AnyOf(Evidence(d, r, fault), names, application)
               [] OTHER -> AllOf(Evidence(d, r, fault), names, application)

\* The bearer hook of the deployment: it knows the tokens of its issuer, asks the
\* key server for them, and passes on the others.
BearerHook(t, reachable) ==
    IF t.shape # "jws" THEN "pass"
    ELSE IF ~reachable THEN "unavailable"
    ELSE IF t.key = "issuer" THEN "auth" ELSE "pass"

\* resolve_token(): the token store.
Resolves(t, reachable) == IF ~reachable THEN "unavailable" ELSE IF t.key = "store" THEN "auth" ELSE "unknown"

\* The chain of bearers: the hook, then a sealed grant, then the resolver.
IdentityBearers(d, t, reachable, time) ==
    IF ~IdentityBearer(d) THEN Rejects
    ELSE IF t.shape = "grant" /\ d.grants
         THEN IF GrantVerdict(t, d.keys, d.maxTtl, d.grantSkew, time) = "ok"
              THEN Accepts(Auth("grant", t.owner, NoTime)) ELSE Rejects
    ELSE IF t.shape = "grant" \/ ~d.resolver \/ ~ResolvableShape(t) THEN Rejects
    ELSE CASE Resolves(t, reachable) = "unavailable" -> Unavailable
           [] Resolves(t, reachable) = "auth"        -> Accepts(Auth("token", t.owner, NoTime))
           [] OTHER                       -> Rejects

BearerChain(d, r, anonymous, reachable, time) ==
    LET t == r.token IN
    IF r.scheme = "none" THEN IF d.bearer = "on" THEN Rejects ELSE anonymous
    ELSE IF r.scheme # "Bearer" THEN Rejects
    ELSE IF d.bearer = "off" \/ BearerHook(t, reachable) = "pass" THEN IdentityBearers(d, t, reachable, time)
    ELSE IF BearerHook(t, reachable) = "unavailable" THEN Unavailable
    ELSE Accepts(Auth("bearer", t.owner, t.authTime))

\* resolve_http_identity(): the bearers are asked where nothing else named a caller.
HttpIdentity(d, r, fault, reachable, time) ==
    LET first == DeploymentIdentity(d, r, fault) IN
    IF first.outcome # "auth" \/ first.auth.authenticated \/ (d.bearer = "off" /\ ~IdentityBearer(d))
    THEN first ELSE BearerChain(d, r, first, reachable, time)

\* Whom the evidence about a peer names where it is worth something: the headers of
\* a configured proxy, as far as it says that it verified what they name, and the
\* daemon's own answer.
Vouched(kind, r) ==
    LET has(name) == Trusts(r.ctx) /\ Has(r.ctx, name)
        says(name, value) == has(name) /\ r.ctx.headers[name] = value
        header(name) == r.ctx.headers[name]
    IN  CASE kind = "x509" /\ has("cert") /\ says("verify", "SUCCESS") /\ Len(header("cert").cert.uris) = 1 ->
               {header("cert").cert.uris[1].subject}
          [] kind = "gcp" /\ has("id") /\ says("present", "true") /\ says("chain", "true") ->
               {header("id").subject}
          [] kind = "envoy" /\ has("xfcc") /\ Len(header("xfcc").uris) = 1 ->
               {header("xfcc").uris[1].subject}
          [] kind = "localapi" /\ r.whois.status = 200 -> WhoisSubject(r.whois)
          [] kind \notin {"x509", "gcp", "envoy", "serve", "localapi"} /\ has("endpoint") ->
               {header("endpoint").subject}
          [] OTHER -> {}

\* Who sends a request: credentials that are worth something name the sender, except
\* that where all are asked for one that does is enough.  Nothing else comes with
\* a grant that is held.
SenderOK(d, r) ==
    LET header == d.headerAuth /\ r.principal # NoPrincipal => r.principal = r.sender
        peer(j) == Vouched(d.providers[j], r) \subseteq {r.sender}
    IN  /\ r.token.key \in {"issuer", "store"} \cup Elements(d.keys) => r.token.owner = r.sender
        /\ IF d.policy = "all" THEN header \/ \E j \in DOMAIN d.providers : peer(j)
           ELSE header /\ \A j \in DOMAIN d.providers : peer(j)
        /\ r.token.shape = "held" =>
              r.principal = NoPrincipal /\ \A j \in DOMAIN d.providers : Vouched(d.providers[j], r) = {}

\* Which requests are sound: with every service up they get in, through no proxy and
\* at any time; of those that need evidence only, all that have it.
SoundOK(d, r) ==
    /\ d.policy = "require" /\ d.providers # <<>> /\ Provide(d, d.providers[1], r, "none").status = "available" => r.sound
    /\ r.sound =>
          /\ d.proof # "require" /\ ~d.rejectAll /\ r.token.shape # "held"
          /\ \A time \in 0..d.horizon : HttpIdentity(d, r, "none", TRUE, time).outcome = "auth"

ASSUME SenderAssumption ==
    \A d \in Deployments :
        /\ d.horizon \in Nat
        /\ \A r \in Requests[d.name] :
              /\ {"ctx", "whois", "scheme", "proof", "sound"} \subseteq DOMAIN r
              /\ {"addresses", "sent", "head", "status", "framing", "oversized", "body", "whole", "json", "typed", "tags",
                  "stableId", "userId"} \subseteq DOMAIN r.whois
              /\ r.whois.addresses \in Seq(Elements(r.whois.addresses))
              /\ SenderOK(d, r) /\ SoundOK(d, r)

\* What handle_rpc() makes of its exceptions; how the daemon failed stays with a caller
\* that was refused (history).
ResolveIdentity(i) ==
    /\ h[i].at = "identify"
    /\ \E fault \in IF up \/ dep.providers = <<>> THEN {"none"} ELSE Faults :
       LET final == HttpIdentity(dep, h[i].req, fault, up, now)
       IN  h' = [h EXCEPT ![i] =
                   CASE final.outcome = "auth" ->
                          [@ EXCEPT !.at = "route", !.auth = final.auth, !.authAt = now]
                     [] final.outcome = "rejected" -> Answer([@ EXCEPT !.fault = fault], "unauthorized")
                     [] OTHER -> Answer(@, "unavailable")]
    /\ UNCHANGED <<dep, now, up, started, order, seen, grants, served, accepted>>

-----------------------------------------------------------------------------
(* handle_rpc() after authentication.                                       *)

HostsIdentity == dep.grants \/ dep.resolver

\* parse_accepted_response_limit(): the header once, a number in range (0 stands for
\* the others).
LimitParses(raw) == raw = <<>> \/ (Len(raw) = 1 /\ raw[1] > 0)

NoLimit == -1

\* min_limit(), configured_limit().
MinLimit(left, right) ==
    IF left = NoLimit \/ (right # NoLimit /\ right < left) THEN right ELSE left

ResponseLimit(r) ==
    MinLimit(MinLimit(dep.maxResponse, dep.hostingMaxResponse),
             IF r.limit = <<>> THEN NoLimit ELSE r.limit[1])

Within(size, limit) == limit = NoLimit \/ size <= limit

\* The gates on headers, route and body, in the order of the code.
RouteGate(r, route) ==
    CASE ~r.arrow                            -> "media"
      [] r.arrow /\ ~LimitParses(r.limit) -> "bad_limit"
      [] OTHER ->
           IF route.error # "none" THEN route.error
           ELSE IF ~Payloads[r.body].stream THEN "bad_ipc"
           ELSE "ok"

\* A pointer in the batch is resolved where there is storage.
Enter(x, route) ==
    LET gate == RouteGate(x.req, route) IN
    IF gate # "ok" THEN Answer(x, gate)
    ELSE IF dep.storage /\ x.req.pointer # NoUrl
    THEN [x EXCEPT !.at = "fetch", !.route = route, !.fetch = NewFetch("server", x.req.pointer, x.req.sha)]
    ELSE [x EXCEPT !.at = "gate", !.route = route, !.body = x.req.body]

Route(i) ==
    /\ h[i].at = "route"
    /\ h' = [h EXCEPT ![i] = Enter(@, RoutePath(dep.protocols, HostsIdentity, @.req.path))]
    /\ UNCHANGED <<dep, now, up, started, order, seen, grants, served, accepted>>

\* resolve_request_pointer(): the parameters come from where the pointer says.
AfterFetch(x, f) ==
    IF f.at = "failed" \/ (f.at = "done" /\ ~ServerResolves(f, Payloads))
    THEN Answer([x EXCEPT !.fetch = f], "no_parameters")
    ELSE IF f.at = "done" THEN [x EXCEPT !.at = "gate", !.fetch = f, !.body = f.body]
    ELSE [x EXCEPT !.fetch = f]

FetchParameters(i) ==
    /\ h[i].at = "fetch"
    /\ LET f == h[i].fetch IN
       \/ /\ f.at = "check"
          /\ h' = [h EXCEPT ![i] = AfterFetch(@, ServerCheck(f, dep.server))]
       \/ /\ f.at = "get"
          /\ \E r \in Answers[f.url] :
                LET g == [f EXCEPT !.contacts = @ \cup {[url |-> f.url, address |-> ""]}]
                IN  h' = [h EXCEPT ![i] = AfterFetch(@, ServerGot(g, dep.server, r))]
    /\ UNCHANGED <<dep, now, up, started, order, seen, grants, served, accepted>>

\* Methods the framework protocols offer: identity narrows to its hooks.
Offered(route) ==
    CASE route.target = "reflection" -> {"describe", "list_protocols"}
      [] OTHER -> (IF dep.resolver THEN {"introspect_token"} ELSE {})
                    \cup (IF dep.grants THEN {"issue_grant"} ELSE {})

\* serve_identity(), serve_reflection(): a method that is not offered is absent, not
\* refused, and the parameters of identity follow their schema.
ServeFramework(route, b) ==
    IF route.method \notin Offered(route) \/ route.suffix # "" THEN "no_method"
    ELSE IF route.target = "identity" /\ ~b.params THEN "error"
    ELSE "ok"

\* The gates of the framework protocols, of upload URLs and of methods.
CallGate(route, b) ==
    IF route.target \in {"reflection", "identity"}
    THEN IF ~CarriersAgree(route, b) \/ ~InitialGate(dep.protocols, route, b) THEN "bad_request"
         ELSE ServeFramework(route, b)
    ELSE IF route.method = "__upload_url__" /\ route.suffix = "init"
    THEN IF ~CarriersAgree(route, b) \/ ~InitialGate(dep.protocols, route, b) THEN "bad_request"
         ELSE IF dep.storage THEN "ok" ELSE "no_route"
    ELSE HttpVerdict(dep.protocols, route, b)

\* IdentityImpl::introspect_token(): who asks comes before what is asked about.
Introspect(x, t) ==
    IF ~Introspector(x.auth, dep.introspectors) THEN "error"
    ELSE IF ~ResolvableShape(t) THEN "error"
    ELSE IF Resolves(t, up) = "auth" THEN "result" ELSE "error"

\* IdentityImpl::issue_grant() as far as the freshness of the caller.
BeginGrant(x) ==
    IF Fresh(x.auth, dep.maxAge, now) THEN [x EXCEPT !.at = "mint", !.checkedAt = now]
    ELSE Answer(x, "error")

\* The endpoint of the path fits the kind of the method; nothing checks that, a
\* handler that is not there raises.
KindFits(route) ==
    LET kind == Method(dep.protocols[RoutedBinding(dep.protocols, route)], route.method).kind
    IN  (route.suffix = "") = (kind \in {"unary", "void"})

\* What a method may come to; only a unary one may answer with a reference to an
\* object that was published before.
Outcomes(route) ==
    IF ~KindFits(route) THEN {NoResult}
    ELSE {res \in Results[dep.name] : res.kind = "reference" => route.suffix = "" /\ Publishes(res)}

\* maybe_externalize(), externalize_cycle(): a result from the threshold on; a cycle
\* of a stream only if it has data.
Externalizes(route, res) ==
    /\ dep.storage /\ dep.threshold >= 0 /\ res.size >= dep.threshold
    /\ route.suffix # "" => res.data

\* A body that stays on the wire is held to the wire's limit.
Inline(x, size) == Answer(x, IF Within(size, ResponseLimit(x.req)) THEN "result" ELSE "error")

Refer(x, url, sha) == [Answer(x, "pointer") EXCEPT !.pointer = [url |-> url, sha |-> sha]]

\* serve_unary_http() and what is done with its result.
Deliver(x, res) ==
    IF res.kind = "error" THEN Answer(x, "error")
    ELSE IF res.kind = "reference" THEN Refer(x, dep.published.url, dep.published.sha)
    ELSE IF Externalizes(x.route, res) THEN [x EXCEPT !.at = "alloc", !.left = 1]
    ELSE Inline(x, res.size)

Clamp(low, n, high) == IF n < low THEN low ELSE IF n > high THEN high ELSE n

Passed(x, gate) == IF gate = "ok" THEN [x EXCEPT !.at = "call"] ELSE Answer(x, gate)

Gate(i) ==
    /\ h[i].at = "gate"
    /\ h' = [h EXCEPT ![i] = Passed(@, CallGate(@.route, Payloads[@.body]))]
    /\ UNCHANGED <<dep, now, up, started, order, seen, grants, served, accepted>>

\* The framework protocols answer in the server, the others in their methods.
Call(i) ==
    /\ h[i].at = "call"
    /\ LET route == h[i].route IN
       \/ /\ route.target = "reflection"
          /\ h' = [h EXCEPT ![i] =
                     Answer(@, ReflectionVerdict(dep.protocols, HostsIdentity, Payloads[@.body]))]
       \/ /\ route.target = "identity" /\ route.method = "introspect_token"
          /\ h' = [h EXCEPT ![i] = Answer(@, Introspect(@, @.req.subject))]
       \/ /\ route.target = "identity" /\ route.method = "issue_grant"
          /\ h' = [h EXCEPT ![i] = BeginGrant(@)]
       \/ /\ route.method = "__upload_url__"
          /\ h' = [h EXCEPT ![i] = [@ EXCEPT !.at = "alloc", !.left = Clamp(1, h[i].req.count, 100)]]
       \/ /\ route.target \in {"application", "reserved"} /\ route.method # "__upload_url__"
          /\ \E res \in Outcomes(route) :
                h' = [h EXCEPT ![i] = [Deliver(@, res) EXCEPT !.result = res,
                        !.ran = dep.protocols[RoutedBinding(dep.protocols, route)].name]]
    /\ UNCHANGED <<dep, now, up, started, order, seen, grants, served, accepted>>

\* One allocation: for an upload of the worker's own, or one of those it vends,
\* which are answered together or not at all.
Allocated(x, r) ==
    IF ~AllocationAccepted(r) THEN Answer(x, "error")
    ELSE IF x.route.method # "__upload_url__"
    THEN [x EXCEPT !.at = "put", !.pair = AllocatedPair(r)]
    ELSE IF x.left > 1 THEN [x EXCEPT !.left = @ - 1]
    ELSE Inline(x, 1)

Allocate(i) ==
    /\ h[i].at = "alloc"
    /\ \E r \in Allocations : h' = [h EXCEPT ![i] = Allocated(@, r)]
    /\ UNCHANGED <<dep, now, up, started, order, seen, grants, served, accepted>>

\* After the PUT: its status, then the cap on what a client will have to fetch.
Stored(x, status) ==
    LET uploaded == Uploaded(x.result, dep.compression) IN
    IF ~UploadAccepted(x.pair, status) \/ ~Within(uploaded.size, dep.externalCap)
    THEN Answer(x, "error")
    ELSE Refer(x, x.pair.download, uploaded.sha)

Upload(i) ==
    /\ h[i].at = "put"
    /\ \E status \in {0, 200, 204, 302} : h' = [h EXCEPT ![i] = Stored(@, status)]
    /\ UNCHANGED <<dep, now, up, started, order, seen, grants, served, accepted>>

\* sealed_mint_grant(): a lifetime that is not positive is refused; the clock is
\* read again.
Mint(i) ==
    /\ h[i].at = "mint"
    /\ LET r == h[i].req
           g == [token |-> MintGrant(dep.keys, h[i].auth.principal, r.ttl, dep.maxTtl, now),
                 owner |-> r.sender, authTime |-> h[i].auth.authTime,
                 checked |-> h[i].checkedAt, via |-> r.token.shape, ttl |-> r.ttl]
       IN  /\ grants' = IF r.ttl > 0 THEN grants \cup {g} ELSE grants
           /\ h' = [h EXCEPT ![i] = Answer(@, IF r.ttl > 0 THEN "result" ELSE "error")]
    /\ UNCHANGED <<dep, now, up, started, order, seen, served, accepted>>

-----------------------------------------------------------------------------
(* The client.                                                             *)

\* An answer is used; a pointer in it is resolved first (resolve_pointer()).
Receive(i) ==
    /\ h[i].at = "answered"
    /\ h' = [h EXCEPT ![i] =
               IF h[i].answer = "pointer"
               THEN [@ EXCEPT !.at = "resolve", !.fetch =
                       [NewFetch("client", h[i].pointer.url, h[i].pointer.sha) EXCEPT !.metadata = dep.metadata]]
               ELSE IdleHandler]
    /\ UNCHANGED <<dep, now, up, started, order, seen, grants, served, accepted>>

AfterResolve(x, f) ==
    IF f.at \in {"done", "failed"}
    THEN Answer([x EXCEPT !.fetch = f], IF f.at = "done" THEN "delivered" ELSE "undelivered")
    ELSE [x EXCEPT !.fetch = f]

\* getaddrinfo(): a name nobody knows has no address.
Lookup(host) == IF host \in DOMAIN Names THEN Names[host] ELSE {<<>>}

ResolvePointer(i) ==
    /\ h[i].at = "resolve"
    /\ LET f == h[i].fetch IN
       \E answer \in Lookup(f.url.host) :
          \/ /\ f.at = "check"
             /\ h' = [h EXCEPT ![i] = AfterResolve(@, ClientCheck(f, dep.client, answer))]
          \/ /\ f.at = "get"
             /\ \E r \in Answers[f.url] :
                   LET g == [f EXCEPT !.contacts =
                               @ \cup {[url |-> f.url, address |-> ConnectsTo(f, answer)]}]
                   IN  h' = [h EXCEPT ![i] =
                               AfterResolve(@, ClientGot(g, dep.client, r, Payloads))]
    /\ UNCHANGED <<dep, now, up, started, order, seen, grants, served, accepted>>

-----------------------------------------------------------------------------

HandlerStep(i) ==
    \/ Start(i) \/ HookReturns(i) \/ CheckProof(i) \/ CheckNonce(i) \/ ResolveIdentity(i)
    \/ Route(i) \/ FetchParameters(i) \/ Gate(i) \/ Call(i) \/ Allocate(i) \/ Upload(i)
    \/ Mint(i) \/ Receive(i) \/ ResolvePointer(i)

Next == Tick \/ ServicesFlip \/ \E i \in Handlers : Send(i) \/ HandlerStep(i)

Spec == Init /\ [][Next]_vars

\* A handler's thread is scheduled; hooks return, and the requests of a fetch end
\* by themselves or by their timeouts.
Fairness == \A i \in Handlers : WF_vars(HandlerStep(i))

FairSpec == Spec /\ Fairness

-----------------------------------------------------------------------------
(* Properties.                                                             *)

\* Answers that tell nothing about what the worker serves.
Uninformative == {"start_failed", "too_large", "bad_body", "unauthorized", "unavailable"}

\* Whether the deployment lets callers without an identity in.
Open(d, r) == d.bearer # "on" /\ (d.policy \in {"none", "observe"} \/ (d.policy = "require" /\ r.sound))

\* Authentication precedes everything a caller could learn from: any other answer
\* went to a caller that came through the proxy where a proof is required, and
\* that either is who the worker takes it for or may be anonymous here.
OnlyAdmittedLearn ==
    \A i \in Handlers :
        h[i].at = "answered" /\ h[i].answer \notin Uninformative =>
            LET r == h[i].req IN
            /\ started = "yes"
            /\ dep.proof = "require" => r.proof.mac = "ours"
            /\ IF h[i].auth.authenticated THEN h[i].auth.principal = r.sender ELSE Open(dep, r)

\* The daemon hung up in an answer that only the end of the connection ends, so that
\* until_eof() takes the part for the whole.
CutUnnoticed(r, fault) == fault = "cut_body" /\ r.whois.framing = {}

\* A caller with a good credential is never told that it is not one because the
\* daemon, the token store or the key server is down, hangs, stalls or is busy while
\* it is looked up: the answer is then 503.  In one case the code cannot keep to
\* that, and the caller is refused: the daemon gives no length and hangs up in its
\* answer.
OutageIsNotRefusal ==
    \A i \in Handlers :
        h[i].answer = "unauthorized" => ~h[i].req.sound \/ CutUnnoticed(h[i].req, h[i].fault)

\* A nonce that the replay cache lets pass twice passes more than the skew apart
\* (while the cache has room for the nonces in flight).  More than the skew later it
\* may pass again, whatever seen_nonce() says of old nonces: a time stamp ahead of the
\* clock verifies for longer.
ReplayGap ==
    \A j, k \in DOMAIN accepted :
        j < k /\ accepted[j].nonce = accepted[k].nonce => accepted[k].at - accepted[j].at > dep.skew

\* A grant was issued to a caller that had logged in recently and itself, not
\* by way of another grant; it names that caller and lives no longer than the caller
\* asked for; the worker accepts what it mints; and nobody gets in with a grant once
\* it has expired, or later than the deployment lets any grant live, however the
\* clock readings fall.
GrantsAreEarned ==
    /\ \A g \in grants :
          /\ g.authTime # NoTime /\ g.checked - g.authTime <= dep.maxAge
          /\ g.via # "grant" /\ g.token.owner = g.owner
          /\ g.token.expires - g.token.issued <= g.ttl
          /\ GrantVerdict(g.token, dep.keys, dep.maxTtl, dep.grantSkew, g.token.issued) = "ok"
    /\ \A i \in Handlers :
          h[i].auth.domain = "grant" =>
              /\ h[i].authAt < h[i].req.token.expires + dep.grantSkew
              /\ h[i].req.token.expires <= h[i].req.token.issued + dep.maxTtl

\* The network an address leads to, also where it is written inside another one.
Reaches(address) == IF address.embeds # "" THEN address.embeds ELSE address.block

\* Whatever sites redirect to and names resolve to: the server requests only URLs
\* its validator passes, the client connects to no address that leads to a network
\* its policy excludes.
FetchesWithinPolicy ==
    \A i \in Handlers : \A c \in h[i].fetch.contacts :
        IF h[i].fetch.who = "server" THEN c.url \in dep.server.validator
        ELSE Reaches(c.address) \in IF dep.client.policy = "public_https" THEN {"public", "global"}
                                    ELSE {"loopback"}

\* A method runs on the parameters that were sent, and the client gets the result
\* that was uploaded, whatever the sites answer: where there is a digest, the
\* body that arrives is the one it was taken of, no pointer stands for data, and
\* what the client gets is not taken for a pointer again.
ReferencesHold ==
    \A i \in Handlers :
        LET f == h[i].fetch IN
        /\ h[i].at \in {"gate", "call", "mint"} /\ f.who = "server" /\ f.sha # "" => h[i].body = f.sha
        /\ h[i].answer = "delivered" =>
              /\ f.sha # "" => f.body = h[i].result.body
              /\ ~Payloads[f.body].nested /\ "location" \notin DOMAIN f.metadata

\* A call of an application method over HTTP and the same batch on a raw connection
\* come to the same verdict, and a method that runs is the one of the protocol its
\* caller named, in a version its caller speaks, also where two protocols share
\* its name.  The batch compared is the one dispatch sees: over HTTP a batch without
\* a routing key gets the key of its path first, so that it is served where the raw
\* loop refuses it as it came.  (handle_rpc() serves upload URLs ahead of the lookup,
\* under the name of any protocol, where a raw connection has no such method.)
SameOnEveryTransport ==
    \A i \in Handlers :
        LET route == h[i].route
            b == [Payloads[h[i].body] EXCEPT !.key = route.protocol]
        IN  h[i].at = "answered" /\ h[i].body # "" /\ route.target = "application"
            /\ IsApplicationMethod(route.method)
            /\ CarriersAgree(route, Payloads[h[i].body]) /\ b.method = route.method
            /\ route.suffix # "exchange" =>
                IF h[i].ran # ""
                THEN /\ RawVerdict(dep.protocols, b) = "ok"
                     /\ dep.protocols[RawBinding(dep.protocols, b)].name = h[i].ran
                     /\ h[i].ran = route.protocol
                ELSE h[i].answer = RawVerdict(dep.protocols, b)

\* Every request is answered and every pointer resolved or given up, redirect
\* loops included.
RequestsEnd == \A i \in Handlers : h[i].at # "idle" ~> h[i].at = "idle"

=============================================================================
