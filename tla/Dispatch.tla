------------------------------ MODULE Dispatch ------------------------------
(***************************************************************************)
(* Registration and routing: what ServerBuilder (server.cpp) accepts, how  *)
(* an HTTP path is routed (http_transport.cpp), and the gates a request    *)
(* passes on its way to a method over HTTP and over a raw transport        *)
(* (pipe_transport.cpp).  The module has no state.                         *)
(*                                                                         *)
(* A binding is a protocol with a name, a version and the methods          *)
(* registered in it; the first one is the primary.  A request batch says   *)
(* which protocol (key) and method it is for, which versions it speaks,    *)
(* and what its parameters look like.                                      *)
(***************************************************************************)
EXTENDS Naturals, Sequences, FiniteSets

Reflection == "vgi_rpc.Reflection.v1"
IdentityProtocol == "vgi_rpc.Identity.v2"

\* The names in double underscores.
ReservedMethods == {"__upload_url__", "__transport_options__", "__describe__"}

\* is_reserved_method(), IsApplicationMethod(): no other method of a model has
\* leading underscores, where the two would differ.
IsApplicationMethod(m) == m \notin ReservedMethods

-----------------------------------------------------------------------------
(* Registration.                                                           *)

\* A version is the run of digits between the dots, with what follows the third.
NoVersion == [parts |-> <<>>, rest |-> FALSE]

\* parse_semver().
ParsesAsSemver(v) ==
    /\ Len(v.parts) = 3 /\ ~v.rest
    /\ \A i \in 1..3 : /\ v.parts[i].digits \in 1..9
                       /\ v.parts[i].digits = 1 \/ ~v.parts[i].zero

\* check_duplicate().
Distinct(methods) == \A i, j \in DOMAIN methods : i # j => methods[i].name # methods[j].name

\* add_unary(), add_void(), add_producer(), add_exchange(): each needs the schemas
\* of its kind.
SchemasNeeded(kind) ==
    {"params"} \cup CASE kind = "unary"    -> {"result"}
                      [] kind = "producer" -> {"output"}
                      [] kind = "exchange" -> {"input", "output"}
                      [] OTHER             -> {}

Registers(methods) ==
    Distinct(methods) /\ \A i \in DOMAIN methods : SchemasNeeded(methods[i].kind) \subseteq methods[i].schemas

\* check_not_built(): the calls that would change a server already built.
Sealed == {"method", "protocol", "add_protocol", "include_tracebacks", "identity", "grant_keys",
           "protocol_version", "build"}

BuilderCallsOK(calls) ==
    \A i, j \in DOMAIN calls : i < j /\ calls[i] = "build" => calls[j] \notin Sealed

\* valid_protocol_name(): the grammar, as a flag of the binding.
ValidName(p) == p.name # "" /\ p.grammatical

\* ServerBuilder::build() and the Server constructor: names are neither reserved
\* nor malformed nor shared, the primary has one when there are others, versions
\* parse, and grant keys are the identity's own where it was supplied.
Builds(d) ==
    LET ps == d.protocols IN
    /\ BuilderCallsOK(d.calls)
    /\ \A i \in DOMAIN ps :
          /\ Registers(ps[i].methods)
          /\ ps[i].name # "" \/ (i = 1 /\ Len(ps) = 1)
          /\ ps[i].name # "" => ValidName(ps[i]) /\ ~ps[i].reserved
          /\ \A j \in DOMAIN ps : i # j => ps[i].name # ps[j].name
    /\ d.grantKeys /\ d.identitySupplied => d.identityHasKeys

\* The Server constructor refuses a version it could not compare with.
Constructs(d) ==
    \A i \in DOMAIN d.protocols :
        d.protocols[i].version # NoVersion => ParsesAsSemver(d.protocols[i].version)

\* find_protocol(); 0 is none.
FindProtocol(ps, name) ==
    IF \E i \in DOMAIN ps : ps[i].name # "" /\ ps[i].name = name
    THEN CHOOSE i \in DOMAIN ps : ps[i].name = name ELSE 0

HasMethod(p, m) == \E i \in DOMAIN p.methods : p.methods[i].name = m
Method(p, m) == p.methods[CHOOSE i \in DOMAIN p.methods : p.methods[i].name = m]

-----------------------------------------------------------------------------
(* The gates on a request batch that both transports have.                 *)

\* protocol_version_error(): the client's major and minor version are those of
\* the binding it addresses, which may have none.
VersionVerdict(p, declared) ==
    LET surface(v) == <<v.parts[1].value, v.parts[2].value>> IN
    IF p.version = NoVersion THEN "ok"
    ELSE IF declared = NoVersion THEN "undeclared"
    ELSE IF ~ParsesAsSemver(declared) THEN "malformed"
    ELSE IF surface(declared) = surface(p.version) THEN "ok" ELSE "mismatch"

\* parameter_contract_error(): one row where there are fields, and exactly the
\* declared fields.
ParametersOK(b, fields) ==
    /\ fields # <<>> => b.rows = 1
    /\ b.fields = fields

\* The method table of the binding, then the parameters.
LookupVerdict(ps, n, b) ==
    IF ~HasMethod(ps[n], b.method) THEN "no_method"
    ELSE IF ~ParametersOK(b, Method(ps[n], b.method).fields) THEN "bad_request"
    ELSE "ok"

-----------------------------------------------------------------------------
(* A raw transport: serve_one_with_state() up to the method.               *)

\* The binding a batch is routed to; reserved methods and a server without a name
\* need no key.
RawBinding(ps, b) ==
    IF IsApplicationMethod(b.method) /\ ps[1].name # "" THEN FindProtocol(ps, b.key) ELSE 1

RawVerdict(ps, b) ==
    LET n == RawBinding(ps, b) IN
    IF b.method = "" \/ b.version # "1" THEN "bad_request"
    ELSE IF b.key \in {Reflection, IdentityProtocol} THEN "framework"
    ELSE IF n = 0 THEN IF b.key = "" THEN "bad_request" ELSE "no_protocol"
    ELSE IF IsApplicationMethod(b.method) /\ VersionVerdict(ps[n], b.declared) # "ok" THEN "bad_request"
    ELSE LookupVerdict(ps, n, b)

-----------------------------------------------------------------------------
(* HTTP.                                                                   *)

Routed(error, target, protocol, method, suffix) ==
    [error |-> error, target |-> target, protocol |-> protocol, method |-> method,
     suffix |-> suffix]

NotFound == Routed("no_route", "none", "", "", "")

\* take_suffix(): nothing, or one of the two stream endpoints, from segment k on.
SuffixOK(path, k) == Len(path) < k \/ (Len(path) = k /\ path[k] \in {"init", "exchange"})
Suffix(path, k) == IF Len(path) < k THEN "" ELSE path[k]

\* route_path(): the segments of the raw target, never decoded.  A segment that is
\* no protocol name by its grammar is "%".
RoutePath(ps, identity, path) ==
    IF path = <<>> \/ path[1] = "" THEN NotFound
    ELSE IF path[1] \in ReservedMethods
    THEN IF SuffixOK(path, 2) THEN Routed("none", "reserved", "", path[1], Suffix(path, 2))
         ELSE NotFound
    ELSE IF Len(path) < 2 \/ path[2] = "" \/ path[1] = "%" \/ ~SuffixOK(path, 3) THEN NotFound
    ELSE LET target == IF path[1] = Reflection THEN "reflection"
                       ELSE IF path[1] = IdentityProtocol /\ identity THEN "identity"
                       ELSE IF FindProtocol(ps, path[1]) # 0 THEN "application"
                       ELSE "none"
         IN  Routed(IF target = "none" THEN "no_protocol" ELSE "none", target, path[1], path[2],
                   Suffix(path, 3))

\* Mutant: the first binding that has the method, whatever protocol was named.
Bug_FirstWithMethod(ps, route) ==
    IF HasMethod(ps[1], route.method) \/ route.target # "application" THEN 1
    ELSE FindProtocol(ps, route.protocol)

\* handle_rpc(): the binding the route names; reserved methods live beside the
\* primary.
RoutedBinding(ps, route) ==
    IF route.target = "application" THEN FindProtocol(ps, route.protocol) ELSE 1

\* The routing key in the batch, where there is one, agrees with the path.
CarriersAgree(route, b) == route.target = "reserved" \/ b.key \in {"", route.protocol}

\* Method, request version and protocol version: continuations of a stream carry
\* tokens instead.
InitialGate(ps, route, b) ==
    route.suffix # "exchange" =>
        /\ b.method = route.method
        /\ b.version = "1"
        /\ route.target = "application" =>
              VersionVerdict(ps[RoutedBinding(ps, route)], b.declared) = "ok"

\* One method, one address: reserved names on the flat route, the others under
\* their protocol.
Addressable(ps, route) ==
    /\ HasMethod(ps[RoutedBinding(ps, route)], route.method)
    /\ IsApplicationMethod(route.method) = (route.target = "application")

HttpVerdict(ps, route, b) ==
    IF ~CarriersAgree(route, b) \/ ~InitialGate(ps, route, b) THEN "bad_request"
    ELSE IF ~Addressable(ps, route) THEN "no_method"
    ELSE IF route.suffix = "exchange" THEN "ok"
    ELSE LookupVerdict(ps, RoutedBinding(ps, route), b)

\* serve_reflection(): it describes itself, the hosted bindings and, where it is
\* hosted, identity.
ReflectionVerdict(ps, identity, b) ==
    CASE b.method = "list_protocols" -> "result"
      [] b.method = "describe" ->
            IF \/ FindProtocol(ps, b.describes) # 0 \/ b.describes \in {ps[1].name, Reflection}
               \/ identity /\ b.describes = IdentityProtocol
            THEN "result" ELSE "error"
      [] OTHER -> "error"

=============================================================================
