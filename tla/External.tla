------------------------------ MODULE External ------------------------------
(***************************************************************************)
(* Payloads that travel by reference: the storage backend of the server    *)
(* (external.cpp), which uploads results and fetches parameters, and the   *)
(* fetch of the client (client_external.cpp).  The module has no state.    *)
(*                                                                         *)
(* A fetch is a record that goes from "check" (the URL is validated) to    *)
(* "get" (one request is on the wire) and back to "check" for a redirect,  *)
(* until it is "done" or "failed".  The site answers anything: redirects   *)
(* that loop, other bodies than were stored, broken codings.  Names may    *)
(* resolve differently at every lookup.  A path is its segments; sizes     *)
(* count 512 KiB.                                                          *)
(***************************************************************************)
EXTENDS Naturals, Integers, Sequences, FiniteSets

Sequence == INSTANCE SequencesExt

\* flaws: what parse_url() would object to in a URL of this shape.
Url(scheme, host, path) ==
    [scheme |-> scheme, host |-> host, path |-> path, query |-> "", flaws |-> {}]

NoUrl == Url("", "", <<>>)
NoAddress == [family |-> 0, block |-> "", embeds |-> ""]

\* A fetch that starts at url and expects the digest of body sha ("" for none);
\* contacts keeps the URLs requested and the addresses they were requested from.
NewFetch(who, url, sha) ==
    [who |-> who, at |-> "check", url |-> url, hops |-> 0, visited |-> {},
     address |-> NoAddress, sha |-> sha, body |-> "", contacts |-> {}, metadata |-> <<>>]

Failed(f) == [f EXCEPT !.at = "failed"]

-----------------------------------------------------------------------------
(* URLs and redirects.                                                     *)

\* split_url(): the scheme in lower case, an authority; a fragment is dropped.
SplitsUrl(url) == url.scheme \in {"http", "https"} /\ url.host # ""

Lower(scheme) == CASE scheme = "HTTPS" -> "https" [] scheme = "HTTP" -> "http" [] OTHER -> scheme

\* parse_url(): any case of the scheme, but no fragment, userinfo, zone, bad port
\* or bad host.
ParsesUrl(url) == Lower(url.scheme) \in {"http", "https"} /\ url.host # "" /\ url.flaws = {}

\* normalize_path(): empty and "." segments go, ".." takes the one before it, and a
\* slash at the end stays.
NormalizedPath(path) ==
    LET step(done, s) ==
            CASE s \in {"", "."} -> done
              [] s = ".."        -> SubSeq(done, 1, Len(done) - 1)
              [] OTHER           -> Append(done, s)
        kept == Sequence!FoldLeft(step, <<>>, path)
    IN  IF path # <<>> /\ path[Len(path)] = "" THEN Append(kept, "") ELSE kept

Directory(path) == SubSeq(path, 1, Len(path) - 1)

\* Where a Location leads from a base, with the path normalised or as it stands.
Target(base, location, normalise) ==
    LET fix(path) == IF normalise THEN NormalizedPath(path) ELSE path IN
    CASE location.form = "absolute" -> location.url
      [] location.form = "network"  -> [location.url EXCEPT !.scheme = base.scheme]
      [] location.form = "path"     ->
           [base EXCEPT !.path = fix(location.url.path), !.query = location.url.query]
      [] location.form = "query"    -> [base EXCEPT !.query = location.url.query]
      [] OTHER                      ->
           [base EXCEPT !.path = fix(Directory(base.path) \o location.url.path),
                        !.query = location.url.query]

NoLocation == [form |-> "none", url |-> NoUrl]

\* resolve_redirect() of external.cpp joins as it stands, ...
ServerTarget(base, location) ==
    IF location = NoLocation THEN NoUrl ELSE Target(base, location, FALSE)

\* ... the one of client_external.cpp refuses fragments and normalises.
ClientTarget(base, location) ==
    IF location = NoLocation \/ location.url.flaws \cap {"fragment", "character"} # {} THEN NoUrl
    ELSE Target([base EXCEPT !.scheme = Lower(@)], location, TRUE)

\* is_redirect().
Redirects(status) == status \in {301, 302, 303, 307, 308}

\* Mutant: the redirect counter of the loop is not advanced.
Bug_RedirectsUncounted(f, o, target) ==
    IF target = NoUrl THEN Failed(f) ELSE [f EXCEPT !.at = "check", !.url = target]

\* A redirect: the limit, then the target.
Redirected(f, o, target) ==
    IF f.hops >= o.maxRedirects \/ target = NoUrl THEN Failed(f)
    ELSE [f EXCEPT !.at = "check", !.url = target, !.hops = @ + 1]

-----------------------------------------------------------------------------
(* Codings.                                                                *)

\* zstd_decompress_bounded(): one or more whole frames, and the size after decoding.
ServerDecodes(r, o) ==
    CASE r.coding = "identity" -> r.size <= o.maxDecoded
      [] r.coding = "zstd"     -> r.wellFormed /\ r.decoded <= o.maxDecoded
      [] OTHER                 -> FALSE

\* zstd_window_log_for_limit(): a window that holds the limit, 512 KiB at least.
WindowLog(limit) ==
    IF limit > 2^12 THEN 31
    ELSE CHOOSE l \in 19..31 : 2^(l - 19) >= limit /\ \A k \in 19..(l - 1) : 2^(k - 19) < limit

\* decode_zstd_bounded(): the window of the frame is bounded too.
ClientDecodes(r, o) ==
    ServerDecodes(r, o) /\ (r.coding = "zstd" => r.window <= WindowLog(o.maxDecoded))

-----------------------------------------------------------------------------
(* The server's fetch.                                                     *)

\* HttpExternalStorage::fetch(), before the request: url_validator, then the URL.
ServerCheck(f, o) ==
    IF f.url \notin o.validator \/ ~SplitsUrl(f.url) THEN Failed(f)
    ELSE [f EXCEPT !.at = "get"]

\* HttpExternalStorage::fetch(), after the request: the cap on the body of any
\* answer but a redirect, a transfer that broke off, the status, the coding.
ServerGot(f, o, r) ==
    IF r.status = 0 \/ r.broken THEN Failed(f)
    ELSE IF Redirects(r.status) THEN Redirected(f, o, ServerTarget(f.url, r.location))
    ELSE IF r.size > o.maxEncoded \/ r.status # 200 \/ ~ServerDecodes(r, o) THEN Failed(f)
    ELSE [f EXCEPT !.at = "done", !.body = r.body]

\* The digest of a body is the body; anything else in its place is not hex.
DigestMatches(f, body) == f.sha = "" \/ f.sha = body

\* Mutant: resolve_request_pointer() does not compare the digest.
Bug_ForgetsDigest(f, payloads) == payloads[f.body].stream /\ ~payloads[f.body].nested

\* resolve_request_pointer(): the digest if the pointer has one, a stream with a
\* batch in it that is not a pointer again.
ServerResolves(f, payloads) ==
    /\ DigestMatches(f, f.body)
    /\ payloads[f.body].stream /\ ~payloads[f.body].nested

-----------------------------------------------------------------------------
(* The server's uploads.                                                   *)

\* make_external_storage(): the limits, and a scheme this build has a backend for.
StorageBuilds(o) ==
    /\ o.maxEncoded >= 0 /\ o.maxDecoded >= 0 /\ o.maxRedirects >= 0
    /\ o.scheme \in {"http", "https"}

\* require_identity_response(), allocate(): a JSON object with an object_url, which
\* stands in for the URLs it does not name.
AllocationAccepted(r) == r.status = 200 /\ r.coding = "identity" /\ r.object # NoUrl

AllocatedPair(r) ==
    [upload   |-> IF r.upload = NoUrl THEN r.object ELSE r.upload,
     download |-> IF r.download = NoUrl THEN r.object ELSE r.download]

\* HttpExternalStorage::upload(), the PUT.
UploadAccepted(pair, status) == SplitsUrl(pair.upload) /\ status \in {200, 204}

\* upload_ipc_stream(): the digest is of the bytes before compression, the size of
\* what compression left.
Uploaded(result, compression) ==
    [sha |-> result.body, size |-> IF compression = "zstd" THEN result.packed ELSE result.size]

\* publish_external(): one row, and a digest if the application wants one.
Publishes(result) == result.rows = 1

-----------------------------------------------------------------------------
(* The client's fetch.                                                     *)

\* ClientExternalHttp::Impl: the limits a client may be built with.
ClientBuilds(o) == o.maxRedirects \in 0..5 /\ o.maxEncoded > 0 /\ o.maxDecoded > 0

\* The networks ipv4_public() tells from public ones, and the forms of an IPv6
\* address that have an IPv4 address in them.
SpecialBlocks == {"this_network", "private", "shared", "loopback", "link_local", "protocol",
                  "documentation", "benchmark", "multicast", "reserved"}
EmbeddingBlocks == {"mapped", "compatible", "nat64", "6to4"}

\* The addresses a lookup comes to, of one of the two families or of another one.
AddressOK(a) ==
    IF a.family = 4 THEN a.block \in SpecialBlocks \cup {"public"} /\ a.embeds = ""
    ELSE IF a.family = 6 /\ a.block \in EmbeddingBlocks THEN a.embeds \in SpecialBlocks \cup {"public"}
    ELSE a.embeds = ""

\* ipv4_public().
Ipv4Public(block) == block \notin SpecialBlocks

\* Mutant: an IPv4 address inside an IPv6 one is not looked at.
Bug_TrustsEmbedded(address) == address.block \in {"global", "mapped", "compatible", "nat64", "6to4"}

\* ipv6_public(): global unicast, and the forms with an IPv4 address in them by that
\* address.
Ipv6Public(address) ==
    IF address.block \in EmbeddingBlocks THEN Ipv4Public(address.embeds)
    ELSE address.block = "global"

\* A policy and an address.
AllowedAddress(policy, address) ==
    IF policy = "public_https"
    THEN IF address.family = 4 THEN Ipv4Public(address.block) ELSE Ipv6Public(address)
    ELSE address.block = "loopback"

\* ClientExternalHttp::Impl::fetch() and validate_and_resolve(): a URL is visited
\* once, its scheme is the policy's, every IP address its name has now is admitted,
\* and the first one is pinned for the connection.
ClientCheck(f, o, answer) ==
    LET usable == {i \in DOMAIN answer : answer[i].family \in {4, 6}}
        first == CHOOSE i \in usable : \A j \in usable : i <= j
    IN
    IF \/ f.url \in f.visited \/ ~ParsesUrl(f.url)
       \/ Lower(f.url.scheme) # (IF o.policy = "public_https" THEN "https" ELSE "http")
       \/ f.url.host = "localhost" /\ o.policy = "public_https"
       \/ usable = {}
       \/ \E i \in usable : ~AllowedAddress(o.policy, answer[i])
    THEN Failed(f)
    ELSE [f EXCEPT !.at = "get", !.address = answer[first], !.visited = @ \cup {f.url}]

\* get_once(): set_hostname_addr_map() makes the connection go to the address that
\* was checked, whatever the name resolves to by now.
ConnectsTo(f, answer) == f.address

\* get_once(): a redirect is taken without its body; any other answer stays within
\* the cap, by its Content-Length and by its bytes, and arrives whole.
Arrives(r, o) ==
    /\ r.status # 0
    /\ ~Redirects(r.status) => r.declared <= o.maxEncoded /\ r.size <= o.maxEncoded /\ ~r.broken

\* verify_checksum(): over the decoded bytes.
ChecksumOK(f, body) == DigestMatches(f, body)

\* resolve_pointer(): one IPC stream and nothing after it, no pointer in it, no
\* exception, one data batch, the schema of the pointer.
PayloadResolves(b) ==
    b.stream /\ ~b.trailing /\ ~b.nested /\ ~b.exception /\ b.data = 1 /\ b.schema

LocationKeys == {"location", "sha256", "source", "fetch_ms"}

\* merge_resolution_metadata(): the payload's entries before the pointer's, and
\* where it came from; no entry of either that describes a location.
MergedMetadata(outer, inner) ==
    LET stamps == {"source", "fetch_ms"}
        kept == (DOMAIN inner \cup DOMAIN outer) \ LocationKeys
    IN  [k \in stamps \cup kept |->
            IF k \in stamps THEN "client" ELSE IF k \in DOMAIN inner THEN inner[k] ELSE outer[k]]

\* The rest of the client's loop: any 2xx is accepted, then coding, checksum and
\* payload.
ClientGot(f, o, r, payloads) ==
    IF ~Arrives(r, o) THEN Failed(f)
    ELSE IF Redirects(r.status) THEN Redirected(f, o, ClientTarget(f.url, r.location))
    ELSE IF \/ r.status \notin 200..299 \/ ~ClientDecodes(r, o)
            \/ ~ChecksumOK(f, r.body) \/ ~PayloadResolves(payloads[r.body])
    THEN Failed(f)
    ELSE [f EXCEPT !.at = "done", !.body = r.body,
                   !.metadata = MergedMetadata(@, payloads[r.body].metadata)]

=============================================================================
