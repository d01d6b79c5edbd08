--------------------------- MODULE MC_HttpRequest ---------------------------
(* Deployments, each with the requests that its configuration tells     *)
(* apart, for MC_HttpRequest.cfg.                                           *)
EXTENDS HttpRequest, TLC

Here == Url("https", "store", <<"1">>)
Moved == Url("https", "store", <<"a", "2">>)
Elsewhere == Url("https", "elsewhere", <<"1">>)
Inner == Url("https", "inner", <<"1">>)

V4(block) == [family |-> 4, block |-> block, embeds |-> ""]
V6(block, embeds) == [family |-> 6, block |-> block, embeds |-> embeds]

McNames == [host \in {"store", "elsewhere", "inner", ""} |->
    CASE host = "store"     -> {<<V4("public")>>, <<V6("global", ""), V4("loopback")>>, <<V4("private")>>}
      [] host = "elsewhere" -> {<<V6("6to4", "public")>>, <<NoAddress>>, <<>>}
      [] host = "inner"     -> {<<V6("nat64", "private")>>, <<V6("mapped", "loopback")>>, <<V6("local", "")>>}
      [] OTHER              -> {<<>>}]

Ok(body) == [status |-> 200, location |-> NoLocation, size |-> 1, declared |-> 1, broken |-> FALSE,
             coding |-> "identity", wellFormed |-> TRUE, decoded |-> 1, window |-> 19, body |-> body]
Location(form, url) == [form |-> form, url |-> url]
Redirect(form, url) == [Ok("") EXCEPT !.status = 302, !.location = Location(form, url)]
Zstd(body) == [Ok(body) EXCEPT !.coding = "zstd"]

\* Redirects in every form; those of Moved lead back to where they came from.
McAnswers == [u \in {Here, Moved, Elsewhere, Inner} |->
    CASE u = Here ->
           {Ok("sent"), Ok("stale"), Ok("pointer"), Ok("plain"),
            [Ok("sent") EXCEPT !.status = 0], [Ok("sent") EXCEPT !.size = 3],
            [Ok("sent") EXCEPT !.declared = 3], [Ok("sent") EXCEPT !.broken = TRUE],
            Redirect("path", Url("", "", <<"a", "b", "..", ".", "2">>)), Redirect("relative", Url("", "", <<"a", "2">>)),
            Redirect("absolute", Elsewhere), Redirect("network", Url("", "inner", <<"1">>)), Redirect("none", NoUrl),
            Redirect("path", [Url("", "", <<"a", "2">>) EXCEPT !.flaws = {"fragment"}]),
            [Redirect("absolute", Moved) EXCEPT !.broken = TRUE]}
      [] u = Moved ->
           {Redirect("relative", Url("", "", <<"2">>)), Redirect("absolute", Here), Redirect("query", NoUrl), Zstd("sent"),
            [Zstd("sent") EXCEPT !.decoded = 3], [Zstd("sent") EXCEPT !.window = 27],
            [Ok("sent") EXCEPT !.coding = "br"]}
      [] OTHER -> {Ok("stale"), [Ok("sent") EXCEPT !.status = 404], [Ok("sent") EXCEPT !.status = 206]}]

Data(size, data) ==
    [kind |-> "data", body |-> "sent", size |-> size, packed |-> 1, rows |-> 1, data |-> data]
Referenced == {NoResult, Data(1, TRUE), Data(2, TRUE), Data(2, FALSE), Data(3, TRUE),
               [Data(1, TRUE) EXCEPT !.kind = "reference"],
               [Data(1, TRUE) EXCEPT !.kind = "reference", !.rows = 2]}

Allocation == [status |-> 200, coding |-> "identity", object |-> Here, upload |-> NoUrl, download |-> NoUrl]
McAllocations == {Allocation, [Allocation EXCEPT !.upload = Elsewhere, !.download = Moved],
                  [Allocation EXCEPT !.status = 500], [Allocation EXCEPT !.coding = "zstd"],
                  [Allocation EXCEPT !.object = NoUrl], [Allocation EXCEPT !.upload = Url("ftp", "store", <<>>)]}

Number(n) == [digits |-> 1, zero |-> FALSE, value |-> n]
Version(x, y) == [parts |-> <<Number(x), Number(y), Number(0)>>, rest |-> FALSE]
Sloppy == [Version(1, 0) EXCEPT !.parts[2] = [digits |-> 2, zero |-> TRUE, value |-> 0]]

Field == [name |-> "x", type |-> "int64", nullable |-> FALSE]
Unary(name, fields) == [name |-> name, kind |-> "unary", schemas |-> {"params", "result"}, fields |-> fields]
Producer(name) == [name |-> name, kind |-> "producer", schemas |-> {"params", "output"}, fields |-> <<>>]
Binding(name, version, methods) ==
    [name |-> name, grammatical |-> TRUE, reserved |-> FALSE, version |-> version, methods |-> methods]

App == Binding("app", Version(1, 0), <<Unary("run", <<>>)>>)
Second == Binding("other", NoVersion, <<Unary("run", <<Field>>), Producer("scan")>>)

Good(method) == [stream |-> TRUE, trailing |-> FALSE, nested |-> FALSE, exception |-> FALSE,
                 data |-> 1, schema |-> TRUE, key |-> "", method |-> method, version |-> "1",
                 declared |-> Version(1, 0), rows |-> 0, fields |-> <<>>, describes |-> "app",
                 params |-> TRUE, metadata |-> ("token" :> "payload")]

McPayloads ==
    [b \in {"sent", "stale", "pointer", "broken", "misrouted", "old", "sloppy", "introspect", "issue",
            "urls", "describe", "keyed", "row", "rows", "scan", "plain"} |->
    CASE b = "pointer"     -> [Good("run") EXCEPT !.nested = TRUE, !.params = FALSE, !.data = 0, !.rows = 2]
      [] b = "plain"       -> [Good("run") EXCEPT !.trailing = TRUE, !.metadata = ("sha256" :> "payload")]
      [] b = "broken"      -> [Good("run") EXCEPT !.stream = FALSE]
      [] b = "misrouted"   -> [Good("run") EXCEPT !.key = "nobody"]
      [] b = "old"         -> [Good("run") EXCEPT !.declared = Version(0, 9)]
      [] b = "sloppy"      -> [Good("run") EXCEPT !.declared = Sloppy]
      [] b = "introspect"  -> Good("introspect_token")
      [] b = "issue"       -> Good("issue_grant")
      [] b = "urls"        -> Good("__upload_url__")
      [] b = "describe"    -> Good("describe")
      [] b = "keyed"       -> [Good("run") EXCEPT !.key = "app"]
      [] b = "row"         -> [Good("run") EXCEPT !.key = "other", !.rows = 1, !.fields = <<Field>>]
      [] b = "rows"        -> [Good("run") EXCEPT !.rows = 2, !.fields = <<Field>>]
      [] b = "scan"        -> [Good("scan") EXCEPT !.declared = NoVersion]
      [] OTHER             -> Good("run")]

NoProof == [count |-> 0]
Proof(nonce, ts, mac) ==
    [count |-> 1, fields |-> 5, version |-> "v1", charsets |-> TRUE, kid |-> "k1",
     ts |-> ts, nonce |-> nonce, mac |-> mac]

Token(shape, key, owner, authTime) ==
    [shape |-> shape, key |-> key, canonical |-> TRUE, decodes |-> TRUE, owner |-> owner, issued |-> 0, expires |-> 1,
     authTime |-> authTime]
NoToken == Token("none", "none", NoPrincipal, NoTime)

Ctx(peer, headers) == [peer |-> peer, duplicates |-> FALSE, headers |-> headers, asserted |-> FALSE,
                       service |-> "none", destination |-> "none"]
NoHeaders == [x \in {} |-> 0]

Whois(user) == [addresses |-> <<"ready">>, sent |-> "ready", head |-> "ok", status |-> 200, framing |-> {"length"},
                oversized |-> FALSE, body |-> "hangup", whole |-> TRUE, json |-> TRUE, typed |-> TRUE,
                tags |-> FALSE, stableId |-> "", userId |-> user]
Stranger == [Whois("") EXCEPT !.status = 404]

Request == [read |-> "ok", proof |-> NoProof, ctx |-> Ctx("direct", NoHeaders), whois |-> Stranger,
            principal |-> NoPrincipal, authTime |-> NoTime, scheme |-> "none", token |-> NoToken,
            arrow |-> TRUE, limit |-> <<>>, count |-> 2, path |-> <<"app", "run">>,
            body |-> "sent", pointer |-> NoUrl, sha |-> "", subject |-> NoToken, ttl |-> 2,
            sender |-> NoPrincipal, sound |-> FALSE]

To(path, body) == [Request EXCEPT !.path = path, !.body = body]
Bearing(t, sound) == [Request EXCEPT !.scheme = "Bearer", !.token = t, !.sender = t.owner, !.sound = sound]
Login == Token("jws", "issuer", "alice", 0)

Base == [proof |-> "off", kids |-> {"k1"}, skew |-> 1, replayCache |-> TRUE, capacity |-> 3, rejectAll |-> FALSE,
         headerAuth |-> FALSE, providers |-> <<>>, policy |-> "none", domains |-> {"d"},
         bearer |-> "off", identityBearer |-> TRUE, grants |-> FALSE, resolver |-> FALSE,
         introspectors |-> {"admin"}, maxAge |-> 1, maxTtl |-> 1, grantSkew |-> 1, keys |-> <<"new", "old">>,
         encodedKeys |-> <<[base64 |-> TRUE, bytes |-> 32], [base64 |-> TRUE, bytes |-> 32]>>,
         storage |-> FALSE, protocols |-> <<App>>, calls |-> <<"method", "protocol", "build">>,
         grantKeys |-> FALSE, identitySupplied |-> FALSE, identityHasKeys |-> FALSE, hook |-> FALSE, horizon |-> 0, budget |-> 2, flaky |-> FALSE,
         localapi |-> [socket |-> "path", endpoint |-> "none", password |-> FALSE],
         threshold |-> 2, compression |-> "", externalCap |-> 2, maxResponse |-> NoLimit, hostingMaxResponse |-> NoLimit,
         published |-> [url |-> Here, sha |-> ""], metadata |-> ("location" :> "pointer") @@ ("token" :> "pointer"),
         server |-> [validator |-> {Here, Moved}, scheme |-> "https", maxRedirects |-> 2, maxEncoded |-> 2, maxDecoded |-> 2],
         client |-> [policy |-> "public_https", maxRedirects |-> 1, maxEncoded |-> 2, maxDecoded |-> 2],
         name |-> ""]

\* A worker that takes requests only through its proxy.
Behind ==
    [Base EXCEPT !.name = "behind", !.proof = "require", !.horizon = 3, !.budget = 3]

ToBehind ==
    { [Request EXCEPT !.proof = Proof("n1", 1, "ours")],
      [Request EXCEPT !.proof = Proof("n2", 1, "ours"), !.body = "misrouted"],
      [Request EXCEPT !.proof = Proof("n1", 1, "forged"), !.path = <<>>],
      [Request EXCEPT !.proof = [Proof("n1", 1, "ours") EXCEPT !.kid = "k2"]] }

\* The same without a replay cache.
Uncached == [Behind EXCEPT !.name = "uncached", !.replayCache = FALSE, !.horizon = 1, !.budget = 2]

\* A worker whose callers log in, get grants and use them.
Granting ==
    [Base EXCEPT !.name = "granting", !.bearer = "on", !.grants = TRUE, !.maxTtl = 2, !.grantSkew = 0, !.horizon = 2, !.budget = 3]

ToGranting ==
    { [Bearing(Login, FALSE) EXCEPT !.path = <<IdentityProtocol, "issue_grant">>,
         !.body = "issue", !.ttl = 3],
      [Bearing(Login, FALSE) EXCEPT !.path = <<IdentityProtocol, "issue_grant">>,
         !.body = "issue", !.ttl = 1],
      [Bearing([NoToken EXCEPT !.shape = "held"], FALSE) EXCEPT !.path = <<IdentityProtocol, "issue_grant">>, !.body = "issue"],
      Bearing([NoToken EXCEPT !.shape = "held"], FALSE) }

\* The same, met by those who should get no grant and by grants of other times and places.
Doubting == [Granting EXCEPT !.name = "doubting", !.horizon = 1, !.budget = 2]

ToDoubting ==
    { [Bearing(Login, FALSE) EXCEPT !.path = <<IdentityProtocol, "issue_grant">>,
         !.body = "issue", !.ttl = 0],
      [Bearing(Token("jws", "issuer", "bob", NoTime), FALSE) EXCEPT
         !.path = <<IdentityProtocol, "issue_grant">>, !.body = "issue"],
      Bearing(Token("grant", "old", "alice", NoTime), FALSE), Bearing(Token("grant", "other", "alice", NoTime), FALSE),
      Bearing([Token("grant", "new", "alice", NoTime) EXCEPT !.canonical = FALSE], FALSE) }

\* A worker that resolves opaque tokens, for others too.
Resolving ==
    [Base EXCEPT !.name = "resolving", !.bearer = "optional", !.resolver = TRUE, !.flaky = TRUE, !.hook = TRUE]

ToResolving ==
    { Bearing(Token("opaque", "store", "carol", NoTime), TRUE),
      [Bearing(Token("opaque", "forged", "carol", NoTime), FALSE) EXCEPT !.sender = NoPrincipal],
      [Bearing(Token("opaque", "store", "admin", NoTime), TRUE) EXCEPT !.path = <<IdentityProtocol, "introspect_token">>, !.body = "introspect",
         !.subject = Token("opaque", "store", "carol", NoTime)],
      [Bearing(Token("opaque", "store", "carol", NoTime), TRUE) EXCEPT !.path = <<IdentityProtocol, "introspect_token">>, !.body = "introspect"],
      Bearing(Login, TRUE),
      [Request EXCEPT !.scheme = "Basic"],
      [Request EXCEPT !.path = <<Reflection, "describe">>, !.body = "describe"],
      [Request EXCEPT !.read = "too_large"] }

Svid(subject) == [current |-> TRUE, uris |-> <<[canonical |-> TRUE, domain |-> "d", subject |-> subject]>>,
                  named |-> TRUE, sanCritical |-> FALSE, leaf |-> TRUE, usageCritical |-> TRUE,
                  usage |-> {"digitalSignature"}, ekuPresent |-> FALSE, extended |-> {}]
Pem(subject) == [pem |-> TRUE, size |-> "ok", certificates |-> 1, cert |-> Svid(subject)]
Certified(peer, verify) == Ctx(peer, [n \in {"cert", "verify"} |-> IF n = "cert" THEN Pem("dave") ELSE verify])

\* Workers that know their callers by the peer's certificate or by its tailnet.
ByPeer ==
    [Base EXCEPT !.name = "by_peer", !.providers = <<"x509", "localapi">>, !.policy = "any", !.flaky = TRUE]

ToPeer ==
    { [Request EXCEPT !.ctx = Certified("proxy", "SUCCESS"), !.sender = "dave", !.sound = TRUE],
      [Request EXCEPT !.ctx = Certified("proxy", "FAILED")],
      [Request EXCEPT !.ctx = Certified("direct", "SUCCESS")],
      [Request EXCEPT !.ctx = Ctx("proxy", NoHeaders), !.whois = Whois("erin"), !.sender = "erin",
         !.sound = TRUE],
      [Request EXCEPT !.ctx = [Ctx("proxy", NoHeaders) EXCEPT !.duplicates = TRUE]],
      \* An answer that ends with the connection: cut off, it is bad evidence.
      [Request EXCEPT !.ctx = Ctx("proxy", NoHeaders), !.whois = [Whois("erin") EXCEPT !.framing = {}], !.sender = "erin",
         !.sound = TRUE],
      [Request EXCEPT !.ctx = Ctx("proxy", NoHeaders), !.whois = [Whois("erin") EXCEPT !.head = "oversized"], !.sender = "erin"],
      [Request EXCEPT !.ctx = [Ctx("proxy", NoHeaders) EXCEPT !.service = "bad"], !.whois = Whois("erin"), !.sender = "erin"],
      [Request EXCEPT !.ctx = Ctx("proxy", NoHeaders)] }

Xfcc(subject) == [elements |-> 1, known |-> TRUE, quoted |-> TRUE, singletons |-> TRUE, hash |-> TRUE,
                  uris |-> <<[canonical |-> TRUE, domain |-> "d", subject |-> subject]>>]
Forwarded(x, e) == Ctx("proxy", [n \in {"xfcc", "endpoint"} |->
                        IF n = "xfcc" THEN Xfcc(x) ELSE [canonical |-> TRUE, subject |-> e]])

\* The principal of the application, the certificate and the endpoint must agree.
ByAll ==
    [Base EXCEPT !.name = "by_all", !.headerAuth = TRUE, !.providers = <<"envoy", "iroh">>, !.policy = "all"]

ToAll ==
    { [Request EXCEPT !.principal = "frank", !.ctx = Forwarded("frank", "frank"),
         !.sender = "frank", !.sound = TRUE],
      [Request EXCEPT !.principal = "frank", !.ctx = Forwarded("frank", "grace"), !.sender = "grace"],
      [Request EXCEPT !.ctx = Forwarded("frank", "frank")],
      [Request EXCEPT !.principal = "frank", !.ctx = Ctx("proxy", NoHeaders)] }

Gcp(present, chain) == Ctx("proxy", [n \in {"present", "chain", "id"} |->
    CASE n = "id"      -> [canonical |-> TRUE, domain |-> "d", subject |-> "heidi"]
      [] n = "present" -> present
      [] OTHER         -> chain])

\* The load balancer's verdict on the certificate is the only evidence.
ByGcp ==
    [Base EXCEPT !.name = "by_gcp", !.providers = <<"gcp">>, !.policy = "primary"]

ToGcp ==
    { [Request EXCEPT !.ctx = Gcp("true", "true"), !.sender = "heidi", !.sound = TRUE],
      [Request EXCEPT !.ctx = Gcp("true", "false")],
      [Request EXCEPT !.ctx = Gcp("false", "false")] }

\* Serve names a login that nothing but "require" accepts.
ByServe ==
    [Base EXCEPT !.name = "by_serve", !.providers = <<"serve">>, !.policy = "require"]

ToServe ==
    { [Request EXCEPT !.ctx = Ctx("proxy", [n \in {"login"} |->
         [ascii |-> TRUE, fits |-> TRUE, words |-> <<[escapes |-> TRUE, ascii |-> TRUE]>>, subject |-> "ivan"]]), !.sound = TRUE],
      [Request EXCEPT !.ctx = Ctx("proxy", [n \in {"caps"} |->
         [ascii |-> TRUE, fits |-> TRUE, words |-> <<>>, object |-> TRUE, some |-> FALSE]])],
      [Request EXCEPT !.ctx = Ctx("proxy", [n \in {"caps"} |->
         [ascii |-> TRUE, fits |-> TRUE, words |-> <<>>, object |-> TRUE, some |-> TRUE]]), !.sound = TRUE],
      [Request EXCEPT !.ctx = Ctx("proxy", [n \in {"funnel"} |-> "?1"])],
      [Request EXCEPT !.ctx = Ctx("direct", NoHeaders)] }

\* A worker with storage: parameters and results travel by reference.
Storing ==
    [Base EXCEPT !.name = "storing", !.storage = TRUE, !.budget = 1, !.maxResponse = 2,
                 !.protocols = <<App, Second>>, !.calls = <<"method", "protocol", "add_protocol", "build", "server_id">>]

ToStoring ==
    { [Request EXCEPT !.body = "pointer", !.pointer = Here, !.sha = "sent"],
      [Request EXCEPT !.body = "pointer", !.pointer = Here],
      [Request EXCEPT !.body = "pointer", !.pointer = Elsewhere],
      [Request EXCEPT !.path = <<"__upload_url__", "init">>, !.body = "urls"],
      To(<<"app", "__upload_url__", "init">>, "urls"),
      [Request EXCEPT !.limit = <<0>>], [Request EXCEPT !.limit = <<1>>], [Request EXCEPT !.limit = <<1, 1>>],
      To(<<"other", "scan", "init">>, "scan"), Request,
      [Request EXCEPT !.arrow = FALSE],
      [Request EXCEPT !.path = <<"nobody", "run">>],
      [Request EXCEPT !.body = "broken"],
      [Request EXCEPT !.body = "old"] }

\* One that compresses what it uploads, and refers to what was published before.
Packing ==
    [Storing EXCEPT !.name = "packing", !.compression = "zstd", !.externalCap = 1,
                    !.published.sha = "sent", !.client.policy = "loopback_http_test"]

ToPacking == {Request, To(<<"other", "scan", "init">>, "scan")}

\* A worker with two protocols that share a method name.
Hosting ==
    [Base EXCEPT !.name = "hosting", !.protocols = <<App, Second>>,
                 !.calls = <<"method", "protocol", "add_protocol", "build", "server_id">>]

ToHosting ==
    { To(<<"app", "run">>, "sent"), To(<<"app", "run">>, "row"), To(<<"app", "run">>, "sloppy"),
      To(<<"other", "run">>, "row"), To(<<"other", "run">>, "rows"), To(<<"other", "run">>, "keyed"),
      To(<<"app", "scan", "init">>, "scan"), To(<<"other", "scan", "init">>, "scan"),
      To(<<"other", "scan">>, "scan"), To(<<"other", "scan", "exchange">>, "sent"),
      To(<<"other", "scan", "more">>, "scan"), To(<<"%", "run">>, "sent"),
      To(<<"__describe__">>, "describe"), To(<<Reflection, "describe", "init">>, "describe"),
      To(<<IdentityProtocol, "issue_grant">>, "issue") }

\* Misconfigurations: grants beside a peer policy, and servers that do not build.
Refused == { [ByPeer EXCEPT !.grants = TRUE], [Hosting EXCEPT !.protocols[2].name = "app"],
             [Hosting EXCEPT !.protocols[1].name = ""], [Hosting EXCEPT !.protocols[2].reserved = TRUE],
             [Hosting EXCEPT !.protocols[2].version = Sloppy],
             [Hosting EXCEPT !.calls = Append(@, "add_protocol")],
             [Hosting EXCEPT !.protocols[2].methods = <<Producer("scan"), Producer("scan")>>],
             [Hosting EXCEPT !.grantKeys = TRUE, !.identitySupplied = TRUE],
             [ByPeer EXCEPT !.localapi.password = TRUE],
             [Granting EXCEPT !.keys = <<"new", "new">>], [Granting EXCEPT !.encodedKeys[1].bytes = 31],
             [Resolving EXCEPT !.introspectors = {}], [Storing EXCEPT !.server.scheme = "s3"], [Storing EXCEPT !.client.maxRedirects = 6] }

McDeployments == {Behind, Uncached, Granting, Doubting, Resolving, ByPeer, ByAll, ByGcp, ByServe, Storing, Packing, Hosting} \cup Refused

McRequests ==
    [behind |-> ToBehind, uncached |-> ToBehind, granting |-> ToGranting, doubting |-> ToDoubting,
     resolving |-> ToResolving, by_peer |-> ToPeer, by_all |-> ToAll, by_gcp |-> ToGcp, by_serve |-> ToServe, storing |-> ToStoring,
     packing |-> ToPacking, hosting |-> ToHosting]

McResults == [n \in DOMAIN McRequests |->
    IF n \in {"storing", "packing"} THEN Referenced ELSE {NoResult, Data(1, TRUE)}]

=============================================================================
