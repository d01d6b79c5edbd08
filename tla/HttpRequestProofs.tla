------------------------- MODULE HttpRequestProofs -------------------------
(***************************************************************************)
(* For any number of handlers, deployments, requests and sites that meet   *)
(* the assumptions of HttpRequest: a nonce is not accepted again within    *)
(* the skew (while the replay cache has room), a grant was earned and      *)
(* nobody gets in with it late, fetches stay within their policy, what     *)
(* arrives by reference is what was sent, an application method gets the   *)
(* same verdict over HTTP and on a raw connection, nobody learns anything  *)
(* under a name that is not its own, and an outage that is noticed refuses *)
(* nobody.                                                                 *)
(*                                                                         *)
(* A handler works on a record of its own, so that the invariant is one    *)
(* about records (HandlerOK): a step of one handler replaces one record,   *)
(* and the lemmas say of every way to replace it that the new one is good  *)
(* too.  Only the replay cache is shared (CacheInv).                       *)
(* Who is admitted (AdmissionInv) rests on what the policies over peer     *)
(* evidence and the chain of bearers come to for any list of providers.    *)
(***************************************************************************)
EXTENDS HttpRequest, FiniteSetTheorems, SequenceTheorems, WellFoundedInduction, TLAPS

HandlerFields == {"at", "req", "auth", "authAt", "answer", "body", "route", "ran", "fetch",
                  "checkedAt", "result", "left", "fault", "pair", "pointer"}
FetchFields == {"who", "at", "url", "hops", "visited", "address", "sha", "body", "contacts", "metadata"}

Shaped(x) == DOMAIN x = HandlerFields /\ DOMAIN x.fetch = FetchFields

\* Before the route is known there is nothing to fetch and no answer.
Early == {"idle", "start", "hook", "proof", "nonce", "identify", "route"}

PhaseOK(x) ==
    /\ x.at \in Early => x.fetch.who = "" /\ x.fetch.contacts = {}
    /\ x.at \in Early \cup {"fetch"} => x.body = ""
    /\ x.at \notin {"alloc", "put", "answered", "resolve"} => x.ran = ""
    /\ x.at \notin {"answered", "resolve"} => x.answer = ""

\* Parameters are what the digest was taken of; the digest of a pointer is the one
\* of the result, and it goes with the fetch.
ReferenceOK(x) ==
    /\ x.at \in {"gate", "call", "mint"} /\ x.fetch.who = "server" /\ x.fetch.sha # "" =>
          x.body = x.fetch.sha
    /\ x.answer = "pointer" /\ x.pointer.sha # "" => x.pointer.sha = x.result.body
    /\ x.at = "resolve" => x.answer = "pointer" /\ x.fetch.sha = x.pointer.sha
    /\ x.answer = "delivered" =>
          /\ x.fetch.sha # "" => x.fetch.body = x.result.body
          /\ ~Payloads[x.fetch.body].nested /\ "location" \notin DOMAIN x.fetch.metadata

Permitted(d) == IF d.client.policy = "public_https" THEN {"public", "global"} ELSE {"loopback"}

\* A request is on the wire only to where the check before it allowed.
FetchOK(d, x) ==
    /\ \A c \in x.fetch.contacts :
          IF x.fetch.who = "server" THEN c.url \in d.server.validator
          ELSE Reaches(c.address) \in Permitted(d)
    /\ x.at = "fetch" =>
          x.fetch.who = "server" /\ (x.fetch.at = "get" => x.fetch.url \in d.server.validator)
    /\ x.at = "resolve" =>
          x.fetch.who = "client" /\ (x.fetch.at = "get" => Reaches(x.fetch.address) \in Permitted(d))

\* A request as clients send it, with a grant in the place of a held one.
SentOK(d, r) ==
    /\ r.read \in {"ok", "too_large", "bad_body"}
    /\ r.body \in DOMAIN Payloads /\ r.ttl \in Int
    /\ r.token.issued \in Int /\ r.token.expires \in Int
    /\ r.token.shape = "jws" /\ r.token.key = "issuer" => r.token.owner = r.sender
    /\ d.grants /\ d.headerAuth /\ r.principal # NoPrincipal =>
          r.principal = r.sender /\ r.token.shape # "grant"

\* Only a login has a time, it is not one by a grant, and its principal sends the
\* request; what is minted was checked.
AuthOK(d, x) ==
    /\ x.at # "idle" => SentOK(d, x.req)
    /\ x.auth.domain = "grant" =>
          /\ x.authAt < x.req.token.expires + d.grantSkew
          /\ x.req.token.expires <= x.req.token.issued + d.maxTtl
    /\ d.grants /\ x.auth.authTime # NoTime =>
          x.req.token.shape # "grant" /\ x.auth.principal = x.req.sender
    /\ x.at = "call" /\ x.route.target = "identity" /\ x.route.method = "issue_grant" => d.grants
    /\ x.at = "mint" =>
          /\ d.grants /\ x.route.target = "identity"
          /\ x.auth.principal # NoPrincipal /\ x.auth.authTime # NoTime
          /\ x.checkedAt - x.auth.authTime <= d.maxAge

\* The verdict a handler keeps is the one of its route and its batch.
RouteOK(d, x) ==
    LET ps == d.protocols
        verdict == HttpVerdict(ps, x.route, Payloads[x.body])
    IN  /\ x.body # "" => x.body \in DOMAIN Payloads
        /\ x.route.target = "application" =>
              /\ x.route.method # "" /\ x.route.protocol # Reflection
              /\ FindProtocol(ps, x.route.protocol) # 0
        /\ x.body # "" /\ x.route.target = "application" /\ IsApplicationMethod(x.route.method) =>
              /\ x.at = "call" => verdict = "ok"
              /\ x.at \in {"alloc", "put", "answered", "resolve"} =>
                    IF x.ran # "" THEN verdict = "ok" /\ x.ran = ps[RoutedBinding(ps, x.route)].name
                    ELSE x.at = "answered" /\ x.answer = verdict

HandlerOK(d, x) ==
    Shaped(x) /\ PhaseOK(x) /\ ReferenceOK(x) /\ FetchOK(d, x) /\ AuthOK(d, x) /\ RouteOK(d, x)

GrantOK(d, g) ==
    /\ g.authTime # NoTime /\ g.checked - g.authTime <= d.maxAge
    /\ g.via # "grant" /\ g.token.owner = g.owner /\ g.token.shape = "grant"
    /\ g.token.issued \in Int /\ g.token.expires \in Int
    /\ g.token.expires - g.token.issued <= g.ttl
    /\ GrantVerdict(g.token, d.keys, d.maxTtl, d.grantSkew, g.token.issued) = "ok"

DeploymentInv == dep \in Deployments /\ Starts(dep) /\ now \in Int

HandlerInv ==
    /\ DeploymentInv
    /\ DOMAIN h = Handlers /\ \A i \in Handlers : HandlerOK(dep, h[i])
    /\ \A g \in grants : GrantOK(dep, g)

\* An acceptance is remembered, with its time or that of a later one, or is past
\* the skew.
CacheInv ==
    /\ DeploymentInv
    /\ order \in Seq(DOMAIN seen) /\ DOMAIN seen = Elements(order)
    /\ \A n \in DOMAIN seen : seen[n] \in Int /\ seen[n] <= now
    /\ accepted \in Seq(Elements(accepted))
    /\ \A k \in DOMAIN accepted :
          /\ accepted[k].at \in Int
          /\ \/ accepted[k].nonce \in DOMAIN seen /\ accepted[k].at <= seen[accepted[k].nonce]
             \/ now - accepted[k].at > dep.skew

\* The cache has room: not every place is taken by a nonce that is still young.
CacheHasRoom == Len(Pruned(order, seen, now, dep.skew)) < dep.capacity

-----------------------------------------------------------------------------
(* The replay cache.                                                       *)

\* What CHOOSE picks where the code takes the first one that fits.
LEMMA LeastExists ==
  ASSUME NEW S \in SUBSET Nat, S # {}
  PROVE  \E i \in S : \A j \in S : i <= j
<1> DEFINE N == {i \in Nat : i \in S}
<1>1. PICK x \in N : \A y \in N : <<y, x>> \notin OpToRel(<, Nat)
  BY WFMin, NatLessThanWellFounded, Zenon
<1>2. \A y \in N : ~ (y < x)
  BY <1>1, Zenon DEF OpToRel
<1> QED
  BY <1>2

\* The loop of seen_nonce() drops nothing that is as young as the skew allows.
LEMMA PrunedKeepsTheYoung ==
  ASSUME NEW S, NEW s \in Seq(S), NEW times, NEW t \in Int, NEW skew \in Int,
         \A n \in Elements(s) : times[n] \in Int
  PROVE  /\ Pruned(s, times, t, skew) \in Seq(Elements(s))
         /\ Elements(Pruned(s, times, t, skew)) \subseteq Elements(s)
         /\ \A n \in Elements(s) \ Elements(Pruned(s, times, t, skew)) : t - times[n] > skew
<1> DEFINE young == {i \in DOMAIN s : t - times[s[i]] <= skew}
           first == IF young = {} THEN Len(s) + 1
                    ELSE CHOOSE i \in young : \A j \in young : i <= j
<1>1. young \in SUBSET Nat
  OBVIOUS
<1>2. /\ first \in 1..(Len(s) + 1)
      /\ \A j \in young : first <= j
  <2>1. CASE young = {}
    BY <2>1
  <2>2. CASE young # {}
    <3>1. \E i \in young : \A j \in young : i <= j
      BY <1>1, <2>2, LeastExists, Zenon
    <3>2. first \in young /\ \A j \in young : first <= j
      BY <2>2, <3>1, Zenon
    <3> QED
      BY <3>2, SMTT(30)
  <2> QED
    BY <2>1, <2>2
<1> HIDE DEF first
<1>3. Pruned(s, times, t, skew) = SubSeq(s, first, Len(s))
  BY DEF Pruned, first
<1> DEFINE kept == SubSeq(s, first, Len(s))
<1>4. /\ kept \in Seq(Elements(s))
      /\ Len(kept) = Len(s) - first + 1
      /\ \A i \in 1..Len(kept) : kept[i] = s[first + i - 1]
  <2>1. \A i \in first..Len(s) : s[i] \in Elements(s)
    BY <1>2 DEF Elements
  <2> QED
    BY <1>2, <2>1, SubSeqProperties
<1>5. Elements(kept) = {s[first + i - 1] : i \in 1..Len(kept)}
  <2>1. DOMAIN kept = 1..Len(kept)
    BY <1>4
  <2> HIDE DEF kept
  <2> QED
    BY <1>4, <2>1 DEF Elements
<1>6. Elements(kept) \subseteq Elements(s)
  BY <1>2, <1>4, <1>5 DEF Elements
<1>7. ASSUME NEW n \in Elements(s) \ Elements(kept)
      PROVE  t - times[n] > skew
  <2>1. PICK j \in DOMAIN s : n = s[j]
    BY DEF Elements
  <2>2. j < first
    <3>1. SUFFICES ASSUME j >= first PROVE FALSE
      BY <1>2
    <3>2. j - first + 1 \in 1..Len(kept) /\ s[j] = s[first + (j - first + 1) - 1]
      BY <1>2, <1>4, <3>1
    <3> HIDE DEF kept
    <3> QED
      BY <1>5, <2>1, <3>2
  <2>3. j \notin young
    BY <1>2, <2>2
  <2> QED
    BY <2>1, <2>3
<1> QED
  BY <1>3, <1>4, <1>6, <1>7

\* What the handlers share.
LEMMA SharedState ==
  ASSUME [Next]_vars
  PROVE  \/ Tick
         \/ \E i \in Handlers : CheckNonce(i)
         \/ UNCHANGED <<dep, now, order, seen, accepted>>
<1>1. CASE ServicesFlip
  BY <1>1 DEF ServicesFlip
<1>2. CASE \E i \in Handlers : Send(i)
  BY <1>2 DEF Send
<1>3. ASSUME NEW i \in Handlers, HandlerStep(i), ~CheckNonce(i)
      PROVE  UNCHANGED <<dep, now, order, seen, accepted>>
  <2>1. CASE Start(i)
    BY <2>1 DEF Start
  <2>2. CASE HookReturns(i)
    BY <2>2 DEF HookReturns
  <2>3. CASE CheckProof(i)
    BY <2>3 DEF CheckProof
  <2>4. CASE ResolveIdentity(i)
    BY <2>4 DEF ResolveIdentity
  <2>5. CASE Route(i)
    BY <2>5 DEF Route
  <2>6. CASE FetchParameters(i)
    BY <2>6 DEF FetchParameters
  <2>7. CASE Gate(i)
    BY <2>7 DEF Gate
  <2>8. CASE Call(i)
    BY <2>8 DEF Call
  <2>9. CASE Allocate(i)
    BY <2>9 DEF Allocate
  <2>10. CASE Upload(i)
    BY <2>10 DEF Upload
  <2>11. CASE Mint(i)
    BY <2>11 DEF Mint
  <2>12. CASE Receive(i)
    BY <2>12 DEF Receive
  <2>13. CASE ResolvePointer(i)
    BY <2>13 DEF ResolvePointer
  <2> QED
    BY <1>3, <2>1, <2>2, <2>3, <2>4, <2>5, <2>6, <2>7, <2>8, <2>9, <2>10, <2>11, <2>12, <2>13 DEF HandlerStep
<1> QED
  BY <1>1, <1>2, <1>3 DEF Next, vars

\* The deployment is chosen once, and the clock does not go back.
LEMMA DeploymentStep ==
  ASSUME DeploymentInv, [Next]_vars
  PROVE  DeploymentInv' /\ dep' = dep /\ now <= now'
<1>1. dep' = dep /\ now' \in Int /\ now <= now'
  <2>1. CASE Tick
    BY <2>1 DEF Tick, DeploymentInv
  <2>2. CASE \E i \in Handlers : CheckNonce(i)
    <3>1. UNCHANGED <<dep, now>>
      BY <2>2 DEF CheckNonce
    <3> QED
      BY <3>1 DEF DeploymentInv
  <2>3. CASE UNCHANGED <<dep, now, order, seen, accepted>>
    BY <2>3 DEF DeploymentInv
  <2> QED
    BY <2>1, <2>2, <2>3, SharedState
<1> QED
  BY <1>1 DEF DeploymentInv

LEMMA InitCache ==
  ASSUME Init
  PROVE  CacheInv /\ ReplayGap
<1>1. dep \in Deployments /\ Starts(dep) /\ now = 0
  BY DEF Init
<1>2. order = <<>> /\ accepted = <<>> /\ DOMAIN seen = {}
  BY DEF Init
<1> QED
  BY <1>1, <1>2 DEF CacheInv, ReplayGap, DeploymentInv, Elements

\* What time alone does.
LEMMA CacheAges ==
  ASSUME CacheInv, ReplayGap, DeploymentInv', dep' = dep, now <= now',
         UNCHANGED <<order, seen, accepted>>
  PROVE  CacheInv' /\ ReplayGap'
<1>1. dep.skew \in Int /\ now \in Int /\ now' \in Int
  BY RequestAssumption DEF CacheInv, DeploymentInv, DeploymentOK
<1>2. ReplayGap'
  BY DEF ReplayGap
<1>3. /\ order' \in Seq(DOMAIN seen') /\ DOMAIN seen' = Elements(order')
      /\ accepted' \in Seq(Elements(accepted'))
  BY DEF CacheInv
<1>4. \A n \in DOMAIN seen : seen[n] \in Int /\ seen[n] <= now'
  BY <1>1 DEF CacheInv
<1>5. ASSUME NEW k \in DOMAIN accepted
      PROVE  /\ accepted[k].at \in Int
             /\ \/ accepted[k].nonce \in DOMAIN seen /\ accepted[k].at <= seen[accepted[k].nonce]
                \/ now' - accepted[k].at > dep.skew
  BY <1>1 DEF CacheInv
<1> QED
  BY <1>2, <1>3, <1>4, <1>5 DEF CacheInv

LEMMA ElementsOfAppend ==
  ASSUME NEW S, NEW s \in Seq(S), NEW e
  PROVE  /\ Append(s, e) \in Seq(S \cup {e})
         /\ Elements(Append(s, e)) = Elements(s) \cup {e}
<1>1. s \in Seq(S \cup {e})
  OBVIOUS
<1>2. /\ Append(s, e) \in Seq(S \cup {e})
      /\ DOMAIN Append(s, e) = 1..(Len(s) + 1) /\ DOMAIN s = 1..Len(s) /\ Len(s) \in Nat
      /\ \A k \in 1..Len(s) : Append(s, e)[k] = s[k]
      /\ Append(s, e)[Len(s) + 1] = e
  BY <1>1
<1> DEFINE a == Append(s, e)
<1> HIDE DEF a
<1>3. \A k \in DOMAIN a : k \in 1..Len(s) \/ k = Len(s) + 1
  BY <1>2 DEF a
<1>4. ASSUME NEW x \in Elements(a) PROVE x \in Elements(s) \cup {e}
  BY <1>2, <1>3 DEF Elements, a
<1>5. ASSUME NEW x \in Elements(s) \cup {e} PROVE x \in Elements(a)
  BY <1>2 DEF Elements, a
<1> QED
  BY <1>2, <1>4, <1>5 DEF a

\* An entry that leaves the cache is past the skew, and a nonce that is accepted
\* was not in it any more.
LEMMA CacheNonce ==
  ASSUME CacheInv, ReplayGap, CacheHasRoom, DeploymentInv', NEW i \in Handlers, CheckNonce(i)
  PROVE  CacheInv' /\ ReplayGap'
<1> DEFINE n == h[i].req.proof.nonce
           young == Pruned(order, seen, now, dep.skew)
<1>1. dep.skew \in Int /\ now \in Int /\ dep' = dep /\ now' = now
  BY RequestAssumption DEF CacheInv, DeploymentInv, DeploymentOK, CheckNonce
<1>2. /\ young \in Seq(Elements(order)) /\ Elements(young) \subseteq DOMAIN seen
      /\ \A m \in DOMAIN seen \ Elements(young) : now - seen[m] > dep.skew
      /\ \A m \in DOMAIN seen : seen[m] \in Int /\ seen[m] <= now
  BY <1>1, PrunedKeepsTheYoung DEF CacheInv
<1>3. Evicted(young, dep.capacity) = young
  BY DEF CacheHasRoom, Evicted
<1> DEFINE replayed == n \in Elements(young)
           kept == IF replayed THEN young ELSE Append(young, n)
<1>4. /\ order' = kept
      /\ seen' = [m \in Elements(kept) |-> IF replayed \/ m # n THEN seen[m] ELSE now]
      /\ accepted' = IF replayed THEN accepted ELSE Append(accepted, [nonce |-> n, at |-> now])
  BY <1>3 DEF CheckNonce
<1> HIDE DEF young, n
<1>5. young \in Seq(Elements(young))
  BY <1>2 DEF Elements
<1>6. \A k \in DOMAIN accepted :
         /\ accepted[k].at \in Int
         /\ \/ accepted[k].nonce \in Elements(young) /\ accepted[k].at <= seen[accepted[k].nonce]
            \/ now - accepted[k].at > dep.skew
  BY <1>1, <1>2 DEF CacheInv
<1>7. CASE replayed
  <2>1. order' = young /\ seen' = [m \in Elements(young) |-> seen[m]] /\ accepted' = accepted
    BY <1>4, <1>7
  <2>2. /\ order' \in Seq(DOMAIN seen') /\ DOMAIN seen' = Elements(order')
        /\ accepted' \in Seq(Elements(accepted')) /\ ReplayGap'
    BY <1>1, <1>5, <2>1 DEF CacheInv, ReplayGap
  <2>3. \A m \in DOMAIN seen' : seen'[m] \in Int /\ seen'[m] <= now'
    BY <1>1, <1>2, <2>1
  <2> QED
    BY <1>1, <1>6, <2>1, <2>2, <2>3 DEF CacheInv
<1>8. CASE ~replayed
  <2> DEFINE new == [nonce |-> n, at |-> now]
  <2>1. /\ order' = Append(young, n) /\ accepted' = Append(accepted, new)
        /\ seen' = [m \in Elements(order') |-> IF m # n THEN seen[m] ELSE now]
    BY <1>4, <1>8
  <2>2. /\ order' \in Seq(Elements(order')) /\ Elements(order') = Elements(young) \cup {n}
        /\ accepted' \in Seq(Elements(accepted'))
    <3>1. order' \in Seq(Elements(order')) /\ Elements(order') = Elements(young) \cup {n}
      <4>1. /\ Append(young, n) \in Seq(Elements(young) \cup {n})
            /\ Elements(Append(young, n)) = Elements(young) \cup {n}
        BY <1>5, ElementsOfAppend
      <4> QED
        BY <2>1, <4>1
    <3>2. accepted' \in Seq(Elements(accepted'))
      <4> HIDE DEF new
      <4>1. accepted \in Seq(Elements(accepted))
        BY DEF CacheInv
      <4>2. /\ Append(accepted, new) \in Seq(Elements(accepted) \cup {new})
            /\ Elements(Append(accepted, new)) = Elements(accepted) \cup {new}
        BY <4>1, ElementsOfAppend
      <4> QED
        BY <2>1, <4>2
    <3> QED
      BY <3>1, <3>2
  <2>3. \A m \in DOMAIN seen' : seen'[m] \in Int /\ seen'[m] <= now'
    BY <1>1, <1>2, <2>1, <2>2
  <2>4. /\ Len(accepted) \in Nat /\ DOMAIN accepted = 1..Len(accepted)
        /\ DOMAIN accepted' = 1..(Len(accepted) + 1)
        /\ \A k \in DOMAIN accepted : accepted'[k] = accepted[k]
        /\ accepted'[Len(accepted) + 1] = new
    <3>1. accepted \in Seq(Elements(accepted) \cup {new})
      BY DEF CacheInv
    <3> QED
      BY <2>1, <3>1
  <2>5. \A k \in DOMAIN accepted : accepted[k].nonce = n => now - accepted[k].at > dep.skew
    BY <1>6, <1>8
  <2>6. ReplayGap'
    <3> SUFFICES ASSUME NEW j \in DOMAIN accepted', NEW k \in DOMAIN accepted', j < k,
                        accepted'[j].nonce = accepted'[k].nonce
                 PROVE  accepted'[k].at - accepted'[j].at > dep.skew
      BY <1>1 DEF ReplayGap
    <3>1. CASE k \in DOMAIN accepted
      BY <2>4, <3>1 DEF ReplayGap
    <3>2. CASE k = Len(accepted) + 1
      BY <2>4, <2>5, <3>2
    <3> QED
      BY <2>4, <3>1, <3>2
  <2>7. ASSUME NEW k \in DOMAIN accepted'
        PROVE  /\ accepted'[k].at \in Int
               /\ \/ accepted'[k].nonce \in DOMAIN seen' /\ accepted'[k].at <= seen'[accepted'[k].nonce]
                  \/ now' - accepted'[k].at > dep.skew
    <3>1. CASE k \in DOMAIN accepted
      BY <1>1, <1>6, <1>8, <2>1, <2>2, <2>4, <3>1
    <3>2. CASE k = Len(accepted) + 1
      BY <1>1, <2>1, <2>2, <2>4, <3>2
    <3> QED
      BY <2>4, <3>1, <3>2
  <2> QED
    BY <1>1, <2>1, <2>2, <2>3, <2>6, <2>7 DEF CacheInv
<1> QED
  BY <1>7, <1>8

\* While the replay cache has room for the nonces that are young (its capacity is a
\* setting, and an entry is dropped for want of it whatever its age), no nonce is
\* accepted twice within the skew: seen_nonce() of proxy_proof.cpp, whichever
\* handlers ask it in whichever order.
THEOREM ReplayGapAlways == Spec /\ []CacheHasRoom => []ReplayGap
<1>1. Init => CacheInv /\ ReplayGap
  BY InitCache
<1>2. CacheInv /\ ReplayGap /\ CacheHasRoom /\ [Next]_vars => (CacheInv /\ ReplayGap)'
  <2> SUFFICES ASSUME CacheInv, ReplayGap, CacheHasRoom, [Next]_vars
               PROVE  CacheInv' /\ ReplayGap'
    BY Zenon
  <2>1. DeploymentInv' /\ dep' = dep /\ now <= now'
    BY DeploymentStep DEF CacheInv
  <2>2. CASE \E i \in Handlers : CheckNonce(i)
    BY <2>1, <2>2, CacheNonce
  <2>3. CASE ~\E i \in Handlers : CheckNonce(i)
    <3>1. UNCHANGED <<order, seen, accepted>>
      BY <2>3, SharedState DEF Tick
    <3> QED
      BY <2>1, <3>1, CacheAges
  <2> QED
    BY <2>2, <2>3
<1> QED
  BY <1>1, <1>2, PTL DEF Spec

-----------------------------------------------------------------------------
(* The records of the handlers.                                            *)

\* Everything but where the handler is and what it answers.
Keeps(x, y) ==
    /\ y.req = x.req /\ y.auth = x.auth /\ y.authAt = x.authAt /\ y.body = x.body
    /\ y.route = x.route /\ y.ran = x.ran /\ y.fetch = x.fetch /\ y.checkedAt = x.checkedAt
    /\ y.result = x.result /\ y.pair = x.pair /\ y.pointer = x.pointer

\* Answer() changes where the handler is and what it answers.
LEMMA AnswerFields ==
  ASSUME NEW x, Shaped(x), NEW w
  PROVE  LET y == Answer(x, w) IN
         /\ Shaped(y) /\ Keeps(x, y) /\ y.at = "answered" /\ y.answer = w
  BY DEF Shaped, HandlerFields, Answer, Keeps

LEMMA MoveFields ==
  ASSUME NEW x, Shaped(x), NEW a
  PROVE  LET y == [x EXCEPT !.at = a] IN
         /\ Shaped(y) /\ Keeps(x, y) /\ y.at = a /\ y.answer = x.answer
  BY DEF Shaped, HandlerFields, Keeps

\* An answer that is no pointer and not what a pointer led to is good if it is the
\* verdict the route and the batch call for.
LEMMA AnswerOK ==
  ASSUME NEW d, NEW x, HandlerOK(d, x), x.at # "idle", NEW w, w \notin {"pointer", "delivered"},
         x.body # "" /\ x.route.target = "application" /\ IsApplicationMethod(x.route.method) =>
            IF x.ran # ""
            THEN /\ HttpVerdict(d.protocols, x.route, Payloads[x.body]) = "ok"
                 /\ x.ran = d.protocols[RoutedBinding(d.protocols, x.route)].name
            ELSE w = HttpVerdict(d.protocols, x.route, Payloads[x.body])
  PROVE  HandlerOK(d, Answer(x, w))
<1> DEFINE y == Answer(x, w)
<1>1. /\ Shaped(y) /\ Keeps(x, y) /\ y.at = "answered" /\ y.answer = w
  BY AnswerFields DEF HandlerOK
<1> HIDE DEF y
<1>2. PhaseOK(y) /\ ReferenceOK(y)
  BY <1>1 DEF Keeps, HandlerOK, PhaseOK, ReferenceOK, Early
<1>3. FetchOK(d, y)
  BY <1>1 DEF Keeps, HandlerOK, FetchOK
<1>4. AuthOK(d, y)
  BY <1>1 DEF Keeps, HandlerOK, AuthOK
<1>5. RouteOK(d, y)
  BY <1>1 DEF Keeps, HandlerOK, RouteOK
<1> QED
  BY <1>1, <1>2, <1>3, <1>4, <1>5 DEF HandlerOK, y

\* Before the route is known any step and any refusal is good.
LEMMA EarlyMove ==
  ASSUME NEW d, NEW x, HandlerOK(d, x), x.at \in Early \ {"idle"}, NEW a \in Early \ {"idle"}
  PROVE  HandlerOK(d, [x EXCEPT !.at = a])
<1> DEFINE y == [x EXCEPT !.at = a]
<1>1. /\ Shaped(y) /\ Keeps(x, y) /\ y.at = a /\ y.answer = x.answer
  BY MoveFields DEF HandlerOK
<1> HIDE DEF y
<1>2. PhaseOK(y) /\ ReferenceOK(y)
  BY <1>1 DEF Keeps, HandlerOK, PhaseOK, ReferenceOK, Early
<1>3. FetchOK(d, y) /\ AuthOK(d, y)
  BY <1>1 DEF Keeps, HandlerOK, FetchOK, AuthOK, Early
<1>4. RouteOK(d, y)
  BY <1>1 DEF Keeps, HandlerOK, RouteOK, Early
<1> QED
  BY <1>1, <1>2, <1>3, <1>4 DEF HandlerOK, y

LEMMA EarlyAnswer ==
  ASSUME NEW d, NEW x, HandlerOK(d, x), x.at \in Early \ {"idle"},
         NEW w, w \notin {"pointer", "delivered"}
  PROVE  HandlerOK(d, Answer(x, w))
<1>1. x.body = ""
  BY DEF HandlerOK, PhaseOK
<1> QED
  BY <1>1, AnswerOK

\* A handler with nothing to do, and a request that arrives.
LEMMA IdleOK ==
  ASSUME NEW d
  PROVE  HandlerOK(d, IdleHandler)
<1> DEFINE x == IdleHandler
<1>1. /\ Shaped(x) /\ x.at = "idle" /\ x.answer = "" /\ x.body = "" /\ x.ran = ""
      /\ x.auth = Anonymous /\ x.route = NotFound /\ x.fetch = NewFetch("", NoUrl, "")
  BY DEF IdleHandler, Shaped, HandlerFields, FetchFields, NewFetch
<1>2. /\ Anonymous.domain = "" /\ Anonymous.authTime = NoTime /\ NotFound.target = "none"
      /\ NewFetch("", NoUrl, "").who = "" /\ NewFetch("", NoUrl, "").contacts = {}
  BY DEF Anonymous, NotFound, Routed, NewFetch
<1> HIDE DEF x
<1>3. PhaseOK(x) /\ ReferenceOK(x) /\ FetchOK(d, x)
  BY <1>1, <1>2 DEF PhaseOK, ReferenceOK, FetchOK
<1>4. AuthOK(d, x) /\ RouteOK(d, x)
  BY <1>1, <1>2 DEF AuthOK, RouteOK
<1> QED
  BY <1>1, <1>3, <1>4 DEF HandlerOK, x

LEMMA NewRequestOK ==
  ASSUME NEW d, NEW r, SentOK(d, r)
  PROVE  HandlerOK(d, [IdleHandler EXCEPT !.at = "start", !.req = r])
<1> DEFINE x == IdleHandler
           y == [x EXCEPT !.at = "start", !.req = r]
<1>1. HandlerOK(d, x) /\ x.at = "idle"
  BY IdleOK DEF IdleHandler
<1>2. x.auth.domain = "" /\ x.auth.authTime = NoTime
  BY DEF IdleHandler, Anonymous
<1> HIDE DEF x
<1>3. /\ Shaped(y) /\ y.at = "start" /\ y.req = r /\ y.answer = x.answer /\ y.body = x.body
      /\ y.ran = x.ran /\ y.auth = x.auth /\ y.route = x.route /\ y.fetch = x.fetch
  BY <1>1 DEF HandlerOK, Shaped, HandlerFields
<1> HIDE DEF y
<1>4. PhaseOK(y) /\ ReferenceOK(y) /\ FetchOK(d, y)
  BY <1>1, <1>3 DEF HandlerOK, PhaseOK, ReferenceOK, FetchOK, Early
<1>5. AuthOK(d, y) /\ RouteOK(d, y)
  BY <1>1, <1>2, <1>3 DEF HandlerOK, AuthOK, RouteOK
<1> QED
  BY <1>3, <1>4, <1>5 DEF HandlerOK, y, x

\* The request a client sends, with the grant it holds where it says so.
LEMMA SendableOK ==
  ASSUME HandlerInv, NEW r \in Requests[dep.name], NEW s \in Sendable(r)
  PROVE  SentOK(dep, s)
<1>1. RequestOK(dep, r)
  BY RequestAssumption DEF HandlerInv, DeploymentInv
<1>2. CASE r.token.shape # "held"
  BY <1>1, <1>2 DEF Sendable, RequestOK, SentOK
<1>3. CASE r.token.shape = "held"
  <2>1. PICK g \in grants : s = [r EXCEPT !.token = g.token, !.sender = g.owner]
    BY <1>3 DEF Sendable
  <2>2. GrantOK(dep, g)
    BY DEF HandlerInv
  <2>3. /\ s.token = g.token /\ s.sender = g.owner
        /\ s.read = r.read /\ s.body = r.body /\ s.ttl = r.ttl /\ s.principal = r.principal
    BY <1>1, <2>1 DEF RequestOK
  <2> QED
    BY <1>1, <1>3, <2>2, <2>3 DEF RequestOK, SentOK, GrantOK
<1> QED
  BY <1>2, <1>3

LEMMA AfterStartOK ==
  ASSUME NEW d, NEW x, HandlerOK(d, x), x.at \in Early \ {"idle"}, NEW ok \in BOOLEAN
  PROVE  HandlerOK(d, AfterStart(x, ok))
<1>1. x.req.read \in {"ok", "too_large", "bad_body"}
  BY DEF HandlerOK, AuthOK, SentOK
<1>2. HandlerOK(d, Answer(x, "start_failed")) /\ HandlerOK(d, Answer(x, x.req.read))
  BY <1>1, EarlyAnswer
<1>3. HandlerOK(d, [x EXCEPT !.at = "proof"])
  BY EarlyMove DEF Early
<1> QED
  BY <1>2, <1>3 DEF AfterStart

LEMMA ProofDoneOK ==
  ASSUME NEW d, NEW x, HandlerOK(d, x), x.at \in Early \ {"idle"}, NEW ok \in BOOLEAN
  PROVE  HandlerOK(d, ProofDone(x, ok))
<1>1. HandlerOK(d, Answer(x, "unauthorized"))
  BY EarlyAnswer
<1>2. HandlerOK(d, [x EXCEPT !.at = "identify"])
  BY EarlyMove DEF Early
<1> QED
  BY <1>1, <1>2 DEF ProofDone

-----------------------------------------------------------------------------
(* Who a request comes from.                                               *)

\* An identity a handler may go on with: a grant within its lifetime, a login of
\* the one who sends the request.
GoodAuth(r, a) ==
    /\ a.domain = "grant" =>
          now < r.token.expires + dep.grantSkew /\ r.token.expires <= r.token.issued + dep.maxTtl
    /\ dep.grants /\ a.authTime # NoTime => r.token.shape # "grant" /\ a.principal = r.sender

\* The principal of a provider has no login time.
LEMMA PrimaryAuth ==
  ASSUME NEW evidence, NEW provider, Primary(evidence, provider).outcome = "auth"
  PROVE  LET a == Primary(evidence, provider).auth IN a.domain = provider /\ a.authTime = NoTime
<1> DEFINE ids == Eligible(evidence, provider)
           one == Accepts(Auth(provider, (CHOOSE i \in ids : TRUE).subject, NoTime))
<1>1. Primary(evidence, provider) \in {Unavailable, Rejects, one}
  BY DEF Primary, RequireAvailable
<1>2. Unavailable.outcome # "auth" /\ Rejects.outcome # "auth"
  BY DEF Unavailable, Rejects
<1>3. one.auth.domain = provider /\ one.auth.authTime = NoTime
  BY DEF Accepts, Auth
<1> QED
  BY <1>1, <1>2, <1>3

LEMMA ProviderNames ==
  ASSUME NEW kind
  PROVE  ProviderName(kind) \in {"spiffe", "tailscale", "iroh"}
  BY DEF ProviderName

\* The principal header.
LEMMA FixtureAuth ==
  ASSUME NEW r, SentOK(dep, r)
  PROVE  GoodAuth(r, Fixture(dep, r))
  BY DEF Fixture, GoodAuth, SentOK, Auth, Anonymous

\* The policies over peer evidence.
LEMMA DeploymentAuth ==
  ASSUME DeploymentInv, NEW r, SentOK(dep, r), NEW fault, DeploymentIdentity(dep, r, fault).outcome = "auth"
  PROVE  GoodAuth(r, DeploymentIdentity(dep, r, fault).auth)
<1> DEFINE first == DeploymentIdentity(dep, r, fault)
           app == Fixture(dep, r)
           names == [j \in DOMAIN dep.providers |-> ProviderName(dep.providers[j])]
           E == Evidence(dep, r, fault)
<1>1. GoodAuth(r, app) /\ Accepts(app).auth = app
  BY FixtureAuth DEF Accepts
<1>2. Rejects.outcome # "auth" /\ Unavailable.outcome # "auth"
  BY DEF Rejects, Unavailable
<1>3. dep.providers \in Seq(Elements(dep.providers))
  BY RequestAssumption DEF DeploymentInv, DeploymentOK
<1>4. ASSUME NEW j \in DOMAIN dep.providers, Primary(E, names[j]).outcome = "auth"
      PROVE  GoodAuth(r, Primary(E, names[j]).auth)
  <2>1. names[j] \in {"spiffe", "tailscale", "iroh"}
    BY ProviderNames
  <2>2. Primary(E, names[j]).auth.domain = names[j] /\ Primary(E, names[j]).auth.authTime = NoTime
    BY <1>4, PrimaryAuth
  <2> QED
    BY <2>1, <2>2 DEF GoodAuth
<1>5. CASE dep.providers = <<>>
  BY <1>1, <1>5 DEF DeploymentIdentity
<1>6. CASE dep.providers # <<>>
  <2>1. 1 \in DOMAIN dep.providers /\ DOMAIN names = DOMAIN dep.providers /\ DOMAIN names \in SUBSET Nat
    BY <1>3, <1>6
  <2> HIDE DEF app, names, E
  <2>2. first \in {Rejects, Accepts(app), RequireAvailable(E, names[1], Accepts(app)),
                   Primary(E, names[1]), AnyOf(E, names, app), AllOf(E, names, app)}
    BY <1>6 DEF DeploymentIdentity, app, names, E
  <2>3. CASE first \in {Rejects, Accepts(app), RequireAvailable(E, names[1], Accepts(app)), Primary(E, names[1])}
    BY <1>1, <1>2, <1>4, <2>1, <2>3 DEF RequireAvailable
  <2>4. CASE first = AnyOf(E, names, app)
    <3> DEFINE ready == {j \in DOMAIN names : Cardinality(Eligible(E, names[j])) = 1}
               one == CHOOSE j \in ready : \A k \in ready : j <= k
    <3>1. ready # {} => one \in DOMAIN dep.providers
      <4>1. ready \in SUBSET Nat
        BY <2>1
      <4>2. ready # {} => \E j \in ready : \A k \in ready : j <= k
        BY <4>1, LeastExists, Zenon
      <4>3. ready # {} => one \in ready
        BY <4>2, Zenon
      <4> QED
        BY <2>1, <4>3
    <3>2. \/ first \in {Rejects, Unavailable, Accepts(app)}
          \/ ready # {} /\ first = Primary(E, names[one])
      BY <2>4 DEF AnyOf
    <3> HIDE DEF ready, one
    <3> QED
      BY <1>1, <1>2, <1>4, <3>1, <3>2
  <2>5. CASE first = AllOf(E, names, app)
    <3> DEFINE failed == {j \in DOMAIN names : Primary(E, names[j]).outcome # "auth"}
               one == CHOOSE j \in failed : \A k \in failed : j <= k
    <3>1. failed # {} => one \in DOMAIN dep.providers
      <4>1. failed \in SUBSET Nat
        BY <2>1
      <4>2. failed # {} => \E j \in failed : \A k \in failed : j <= k
        BY <4>1, LeastExists, Zenon
      <4>3. failed # {} => one \in failed
        BY <4>2, Zenon
      <4> QED
        BY <2>1, <4>3
    <3>2. failed = {} => Primary(E, names[1]).outcome = "auth"
      BY <2>1
    <3>3. \/ first = Rejects
          \/ failed # {} /\ first = Primary(E, names[one])
          \/ failed = {} /\ first = Accepts(Primary(E, names[1]).auth)
      BY <2>5 DEF AllOf
    <3>4. Accepts(Primary(E, names[1]).auth).auth = Primary(E, names[1]).auth
      BY DEF Accepts
    <3> HIDE DEF failed, one
    <3> QED
      BY <1>1, <1>2, <1>4, <2>1, <3>1, <3>2, <3>3, <3>4
  <2> QED
    BY <2>2, <2>3, <2>4, <2>5
<1> QED
  BY <1>5, <1>6

\* The chain of bearers: the hook knows logins, a grant has a lifetime.
LEMMA BearerAuth ==
  ASSUME DeploymentInv, NEW r, SentOK(dep, r), NEW first, first.outcome = "auth" => GoodAuth(r, first.auth),
         BearerChain(dep, r, first, up, now).outcome = "auth"
  PROVE  GoodAuth(r, BearerChain(dep, r, first, up, now).auth)
<1> DEFINE t == r.token
           final == BearerChain(dep, r, first, up, now)
           grant == Auth("grant", t.owner, NoTime)
           token == Auth("token", t.owner, NoTime)
           login == Auth("bearer", t.owner, t.authTime)
<1>1. Rejects.outcome # "auth" /\ Unavailable.outcome # "auth"
  BY DEF Rejects, Unavailable
<1>2. /\ Accepts(grant).auth = grant /\ Accepts(token).auth = token /\ Accepts(login).auth = login
      /\ grant.domain = "grant" /\ grant.authTime = NoTime
      /\ token.domain = "token" /\ token.authTime = NoTime
      /\ login.domain = "bearer" /\ login.principal = t.owner
  BY DEF Accepts, Auth
<1> HIDE DEF grant, token, login
<1>3. \/ IdentityBearers(dep, t, up, now) \in {Rejects, Unavailable, Accepts(token)}
      \/ /\ IdentityBearers(dep, t, up, now) = Accepts(grant)
         /\ GrantVerdict(t, dep.keys, dep.maxTtl, dep.grantSkew, now) = "ok"
  BY DEF IdentityBearers, grant, token
<1>4. \/ final \in {Rejects, Unavailable, first, IdentityBearers(dep, t, up, now)}
      \/ final = Accepts(login) /\ BearerHook(t, up) \notin {"pass", "unavailable"}
  BY DEF BearerChain, login
<1>5. CASE final = Accepts(login) /\ BearerHook(t, up) \notin {"pass", "unavailable"}
  <2>1. t.shape = "jws" /\ t.key = "issuer"
    BY <1>5 DEF BearerHook
  <2> QED
    BY <1>2, <1>5, <2>1 DEF GoodAuth, SentOK
<1>6. CASE IdentityBearers(dep, t, up, now) = Accepts(grant) /\ GrantVerdict(t, dep.keys, dep.maxTtl, dep.grantSkew, now) = "ok"
  <2>1. /\ t.issued \in Int /\ t.expires \in Int /\ now \in Int
        /\ dep.maxTtl \in Int /\ dep.grantSkew \in Int
    BY RequestAssumption DEF SentOK, DeploymentInv, DeploymentOK
  <2>2. t.expires - t.issued <= dep.maxTtl /\ now < t.expires + dep.grantSkew
    BY <1>6, <2>1 DEF GrantVerdict
  <2>3. now < t.expires + dep.grantSkew /\ t.expires <= t.issued + dep.maxTtl
    BY <2>1, <2>2
  <2>4. GoodAuth(r, grant)
    BY <1>2, <2>3 DEF GoodAuth
  <2> QED
    BY <1>1, <1>2, <1>4, <1>5, <1>6, <2>4
<1>7. CASE IdentityBearers(dep, t, up, now) \in {Rejects, Unavailable, Accepts(token)}
  BY <1>1, <1>2, <1>4, <1>5, <1>7 DEF GoodAuth
<1> QED
  BY <1>3, <1>6, <1>7

LEMMA ResolveIdentityOK ==
  ASSUME HandlerInv, NEW i \in Handlers, ResolveIdentity(i)
  PROVE  \E y : HandlerOK(dep, y) /\ h' = [h EXCEPT ![i] = y]
<1> DEFINE x == h[i]
           r == x.req
<1>1. HandlerOK(dep, x) /\ x.at = "identify" /\ SentOK(dep, r)
  BY DEF HandlerInv, ResolveIdentity, HandlerOK, AuthOK
<1>2. PICK fault :
        LET final == HttpIdentity(dep, r, fault, up, now)
        IN  h' = [h EXCEPT ![i] =
                    CASE final.outcome = "auth" ->
                           [x EXCEPT !.at = "route", !.auth = final.auth, !.authAt = now]
                      [] final.outcome = "rejected" -> Answer([x EXCEPT !.fault = fault], "unauthorized")
                      [] OTHER -> Answer(x, "unavailable")]
  BY Zenon DEF ResolveIdentity
<1> DEFINE first == DeploymentIdentity(dep, r, fault)
           hurt == [x EXCEPT !.fault = fault]
           final == HttpIdentity(dep, r, fault, up, now)
           y == [x EXCEPT !.at = "route", !.auth = final.auth, !.authAt = now]
<1>3. DeploymentInv
  BY DEF HandlerInv
<1>4. final.outcome = "auth" => GoodAuth(r, final.auth)
  <2>1. first.outcome = "auth" => GoodAuth(r, first.auth)
    BY <1>1, <1>3, DeploymentAuth
  <2>2. final \in {first, BearerChain(dep, r, first, up, now)}
    BY DEF HttpIdentity
  <2> HIDE DEF first, final
  <2>3. BearerChain(dep, r, first, up, now).outcome = "auth" => GoodAuth(r, BearerChain(dep, r, first, up, now).auth)
    BY <1>1, <1>3, <2>1, BearerAuth
  <2> QED
    BY <2>1, <2>2, <2>3
<1> HIDE DEF final, x
<1>5. ASSUME final.outcome = "auth" PROVE HandlerOK(dep, y)
  <2>1. /\ Shaped(y) /\ y.at = "route" /\ y.auth = final.auth /\ y.authAt = now
        /\ y.req = r /\ y.answer = x.answer /\ y.body = x.body /\ y.route = x.route
        /\ y.ran = x.ran /\ y.fetch = x.fetch
        /\ y.result = x.result /\ y.pointer = x.pointer
    BY <1>1 DEF HandlerOK, Shaped, HandlerFields
  <2> HIDE DEF y
  <2>2. PhaseOK(y) /\ ReferenceOK(y) /\ FetchOK(dep, y)
    BY <1>1, <2>1 DEF HandlerOK, PhaseOK, ReferenceOK, FetchOK, Early
  <2>3. AuthOK(dep, y)
    BY <1>1, <1>4, <1>5, <2>1 DEF AuthOK, GoodAuth
  <2>4. RouteOK(dep, y)
    BY <1>1, <2>1 DEF HandlerOK, RouteOK
  <2> QED
    BY <2>1, <2>2, <2>3, <2>4 DEF HandlerOK
<1>6. HandlerOK(dep, Answer(hurt, "unauthorized")) /\ HandlerOK(dep, Answer(x, "unavailable"))
  <2>1. /\ Shaped(hurt) /\ hurt.at = x.at /\ hurt.auth = x.auth /\ hurt.authAt = x.authAt
        /\ hurt.req = r /\ hurt.answer = x.answer /\ hurt.body = x.body /\ hurt.route = x.route
        /\ hurt.ran = x.ran /\ hurt.fetch = x.fetch /\ hurt.checkedAt = x.checkedAt
        /\ hurt.result = x.result /\ hurt.pointer = x.pointer
    BY <1>1 DEF HandlerOK, Shaped, HandlerFields
  <2> HIDE DEF hurt
  <2>2. PhaseOK(hurt) /\ ReferenceOK(hurt) /\ FetchOK(dep, hurt)
    BY <1>1, <2>1 DEF HandlerOK, PhaseOK, ReferenceOK, FetchOK
  <2>3. AuthOK(dep, hurt) /\ RouteOK(dep, hurt)
    BY <1>1, <2>1 DEF HandlerOK, AuthOK, RouteOK
  <2>4. HandlerOK(dep, hurt)
    BY <2>1, <2>2, <2>3 DEF HandlerOK
  <2> QED
    BY <1>1, <2>1, <2>4, EarlyAnswer DEF Early
<1>7. h' = [h EXCEPT ![i] = CASE final.outcome = "auth" -> y
                              [] final.outcome = "rejected" -> Answer(hurt, "unauthorized")
                              [] OTHER -> Answer(x, "unavailable")]
  BY <1>2, Zenon DEF final
<1> HIDE DEF y, hurt
<1> QED
  BY <1>5, <1>6, <1>7

-----------------------------------------------------------------------------
(* Parameters, methods and results.                                        *)

\* route_path(): what a path that is routed to an application looks like.
LEMMA RoutePathOK ==
  ASSUME NEW ps, NEW identity, NEW path
  PROVE  LET route == RoutePath(ps, identity, path) IN
         /\ route.error \in {"none", "no_route", "no_protocol"}
         /\ route.target = "application" =>
               route.method # "" /\ route.protocol # Reflection /\ FindProtocol(ps, route.protocol) # 0
<1> DEFINE route == RoutePath(ps, identity, path)
           target == IF path[1] = Reflection THEN "reflection"
                     ELSE IF path[1] = IdentityProtocol /\ identity THEN "identity"
                     ELSE IF FindProtocol(ps, path[1]) # 0 THEN "application"
                     ELSE "none"
           named == Routed(IF target = "none" THEN "no_protocol" ELSE "none", target, path[1], path[2],
                           Suffix(path, 3))
           flat == Routed("none", "reserved", "", path[1], Suffix(path, 2))
<1>1. \/ route \in {NotFound, flat}
      \/ route = named /\ path[2] # ""
  BY DEF RoutePath
<1>2. /\ NotFound.error = "no_route" /\ NotFound.target = "none"
      /\ flat.error = "none" /\ flat.target = "reserved"
      /\ named.error \in {"none", "no_protocol"} /\ named.target = target
      /\ named.protocol = path[1] /\ named.method = path[2]
  BY DEF NotFound, Routed
<1>3. target = "application" => path[1] # Reflection /\ FindProtocol(ps, path[1]) # 0
  OBVIOUS
<1> HIDE DEF target, named, flat, route
<1>4. /\ route.error \in {"none", "no_route", "no_protocol"}
      /\ route.target = "application" =>
            route.method # "" /\ route.protocol # Reflection /\ FindProtocol(ps, route.protocol) # 0
  BY <1>1, <1>2, <1>3
<1> QED
  BY <1>4 DEF route

LEMMA RouteStepOK ==
  ASSUME HandlerInv, NEW i \in Handlers, Route(i)
  PROVE  \E y : HandlerOK(dep, y) /\ h' = [h EXCEPT ![i] = y]
<1> DEFINE x == h[i]
           route == RoutePath(dep.protocols, HostsIdentity, x.req.path)
           gate == RouteGate(x.req, route)
           fetching == [x EXCEPT !.at = "fetch", !.route = route,
                                 !.fetch = NewFetch("server", x.req.pointer, x.req.sha)]
           ready == [x EXCEPT !.at = "gate", !.route = route, !.body = x.req.body]
<1>1. HandlerOK(dep, x) /\ x.at = "route" /\ SentOK(dep, x.req)
  BY DEF HandlerInv, Route, HandlerOK, AuthOK
<1>2. /\ route.error \in {"none", "no_route", "no_protocol"}
      /\ route.target = "application" =>
            route.method # "" /\ route.protocol # Reflection /\ FindProtocol(dep.protocols, route.protocol) # 0
  BY RoutePathOK, ZenonT(30)
<1>3. h' = [h EXCEPT ![i] = Enter(x, route)]
  BY DEF Route
<1>4. Enter(x, route) \in {Answer(x, gate), fetching, ready} /\ (Enter(x, route) = Answer(x, gate) \/ gate = "ok")
  BY DEF Enter
<1> HIDE DEF x, route
<1>5. gate \notin {"pointer", "delivered"}
  BY <1>2 DEF RouteGate
<1> HIDE DEF gate
<1>6. HandlerOK(dep, Answer(x, gate))
  BY <1>1, <1>5, EarlyAnswer DEF Early
<1>7. HandlerOK(dep, fetching)
  <2> DEFINE y == fetching
             f == NewFetch("server", x.req.pointer, x.req.sha)
  <2>1. /\ Shaped(y) /\ y.at = "fetch" /\ y.route = route /\ y.fetch = f
        /\ y.req = x.req /\ y.auth = x.auth /\ y.authAt = x.authAt /\ y.answer = x.answer
        /\ y.body = x.body /\ y.ran = x.ran
    BY <1>1 DEF HandlerOK, Shaped, HandlerFields, FetchFields, NewFetch
  <2>2. f.who = "server" /\ f.at = "check" /\ f.contacts = {}
    BY DEF NewFetch
  <2> HIDE DEF y, f
  <2>3. x.body = "" /\ x.ran = "" /\ x.answer = ""
    BY <1>1 DEF HandlerOK, PhaseOK, Early
  <2>4. PhaseOK(y) /\ ReferenceOK(y) /\ FetchOK(dep, y)
    BY <2>1, <2>2, <2>3 DEF PhaseOK, ReferenceOK, FetchOK, Early
  <2>5. AuthOK(dep, y)
    BY <1>1, <2>1 DEF HandlerOK, AuthOK
  <2>6. RouteOK(dep, y)
    BY <1>2, <2>1, <2>3 DEF RouteOK
  <2> QED
    BY <2>1, <2>4, <2>5, <2>6 DEF HandlerOK, y
<1>8. HandlerOK(dep, ready)
  <2> DEFINE y == ready
  <2>1. /\ Shaped(y) /\ y.at = "gate" /\ y.route = route /\ y.body = x.req.body
        /\ y.req = x.req /\ y.auth = x.auth /\ y.authAt = x.authAt /\ y.answer = x.answer
        /\ y.fetch = x.fetch /\ y.ran = x.ran
    BY <1>1 DEF HandlerOK, Shaped, HandlerFields
  <2> HIDE DEF y
  <2>2. x.ran = "" /\ x.answer = "" /\ x.fetch.who = "" /\ x.fetch.contacts = {}
    BY <1>1 DEF HandlerOK, PhaseOK, Early
  <2>3. PhaseOK(y) /\ ReferenceOK(y) /\ FetchOK(dep, y)
    BY <2>1, <2>2 DEF PhaseOK, ReferenceOK, FetchOK, Early
  <2>4. AuthOK(dep, y)
    BY <1>1, <2>1 DEF HandlerOK, AuthOK
  <2>5. RouteOK(dep, y)
    BY <1>1, <1>2, <2>1 DEF RouteOK, SentOK
  <2> QED
    BY <2>1, <2>3, <2>4, <2>5 DEF HandlerOK, y
<1> QED
  BY <1>3, <1>4, <1>6, <1>7, <1>8

\* A fetch of the server, as it stands after a step.
ServerFetch(f) ==
    /\ DOMAIN f = FetchFields /\ f.who = "server"
    /\ \A c \in f.contacts : c.url \in dep.server.validator
    /\ f.at = "get" => f.url \in dep.server.validator
    /\ f.at = "done" => f.body \in DOMAIN Payloads

\* Every hop is validated before it is requested.
LEMMA ServerFetchSteps ==
  ASSUME DeploymentInv, NEW f, ServerFetch(f), f.at \in {"check", "get"}
  PROVE  /\ f.at = "check" => ServerFetch(ServerCheck(f, dep.server))
         /\ f.at = "get" =>
              \A r \in Answers[f.url] :
                 ServerFetch(ServerGot([f EXCEPT !.contacts = @ \cup {[url |-> f.url, address |-> ""]}],
                                       dep.server, r))
<1>1. f.at = "check" => ServerFetch(ServerCheck(f, dep.server))
  BY DEF ServerFetch, ServerCheck, Failed, FetchFields
<1>2. ASSUME f.at = "get", NEW r \in Answers[f.url]
      PROVE  ServerFetch(ServerGot([f EXCEPT !.contacts = @ \cup {[url |-> f.url, address |-> ""]}],
                                   dep.server, r))
  <2> DEFINE g == [f EXCEPT !.contacts = @ \cup {[url |-> f.url, address |-> ""]}]
             target == ServerTarget(g.url, r.location)
             went == [g EXCEPT !.at = "check", !.url = target, !.hops = @ + 1]
             done == [g EXCEPT !.at = "done", !.body = r.body]
  <2>1. /\ DOMAIN g = FetchFields /\ g.who = "server" /\ g.at = "get" /\ g.url = f.url
        /\ \A c \in g.contacts : c.url \in dep.server.validator
    <3>1. /\ DOMAIN g = FetchFields /\ g.who = "server" /\ g.at = "get" /\ g.url = f.url
          /\ g.contacts = f.contacts \cup {[url |-> f.url, address |-> ""]}
      BY <1>2 DEF ServerFetch, FetchFields
    <3> HIDE DEF g
    <3>2. ASSUME NEW c \in g.contacts PROVE c \in f.contacts \/ c.url = f.url
      <4> DEFINE new == [url |-> f.url, address |-> ""]
      <4>1. new.url = f.url
        OBVIOUS
      <4>2. c \in f.contacts \cup {new}
        BY <3>1, Zenon
      <4> HIDE DEF new
      <4> QED
        BY <4>1, <4>2
    <3>3. f.url \in dep.server.validator /\ \A c \in f.contacts : c.url \in dep.server.validator
      BY <1>2 DEF ServerFetch
    <3> QED
      BY <3>1, <3>2, <3>3, Zenon
  <2>2. r.status = 200 => r.body \in DOMAIN Payloads
    <3>1. f.url \in DOMAIN Answers
      BY <1>2, RequestAssumption DEF ServerFetch, DeploymentInv, DeploymentOK
    <3> QED
      BY <1>2, <3>1, SiteAssumption
  <2> HIDE DEF g
  <2>3. \/ ServerGot(g, dep.server, r) \in {Failed(g), went}
        \/ ServerGot(g, dep.server, r) = done /\ r.status = 200
    BY DEF ServerGot, Redirected
  <2>4. ServerFetch(Failed(g))
    BY <2>1 DEF ServerFetch, Failed, FetchFields
  <2>5. ServerFetch(went)
    BY <2>1 DEF ServerFetch, FetchFields
  <2>6. r.status = 200 => ServerFetch(done)
    BY <2>1, <2>2 DEF ServerFetch, FetchFields
  <2> HIDE DEF went, done
  <2>7. ServerFetch(ServerGot(g, dep.server, r))
    BY <2>3, <2>4, <2>5, <2>6
  <2> QED
    BY <2>7 DEF g
<1> QED
  BY <1>1, <1>2

LEMMA AfterFetchOK ==
  ASSUME NEW x, HandlerOK(dep, x), x.at = "fetch", NEW f, ServerFetch(f)
  PROVE  HandlerOK(dep, AfterFetch(x, f))
<1> DEFINE y == [x EXCEPT !.fetch = f]
           z == [x EXCEPT !.at = "gate", !.fetch = f, !.body = f.body]
<1>1. HandlerOK(dep, y) /\ y.at = "fetch" /\ y.body = ""
  <2>1. /\ Shaped(y) /\ y.fetch = f /\ y.at = "fetch" /\ y.answer = x.answer
        /\ y.req = x.req /\ y.auth = x.auth /\ y.authAt = x.authAt /\ y.body = x.body
        /\ y.route = x.route /\ y.ran = x.ran
    BY DEF HandlerOK, Shaped, HandlerFields, ServerFetch
  <2> HIDE DEF y
  <2>2. x.body = "" /\ x.answer = "" /\ x.ran = ""
    BY DEF HandlerOK, PhaseOK
  <2>3. PhaseOK(y) /\ ReferenceOK(y) /\ FetchOK(dep, y)
    BY <2>1, <2>2 DEF PhaseOK, ReferenceOK, FetchOK, ServerFetch, Early
  <2>4. AuthOK(dep, y) /\ RouteOK(dep, y)
    BY <2>1, <2>2 DEF HandlerOK, AuthOK, RouteOK
  <2> QED
    BY <2>1, <2>2, <2>3, <2>4 DEF HandlerOK
<1>2. HandlerOK(dep, Answer(y, "no_parameters"))
  <2> HIDE DEF y
  <2> QED
    BY <1>1, AnswerOK
<1>3. ASSUME f.at = "done", ServerResolves(f, Payloads) PROVE HandlerOK(dep, z)
  <2>1. /\ Shaped(z) /\ z.fetch = f /\ z.at = "gate" /\ z.body = f.body /\ z.answer = x.answer
        /\ z.req = x.req /\ z.auth = x.auth /\ z.authAt = x.authAt
        /\ z.route = x.route /\ z.ran = x.ran
    BY DEF HandlerOK, Shaped, HandlerFields, ServerFetch
  <2> HIDE DEF z
  <2>2. x.answer = "" /\ x.ran = ""
    BY DEF HandlerOK, PhaseOK
  <2>3. PhaseOK(z) /\ ReferenceOK(z) /\ FetchOK(dep, z)
    BY <1>3, <2>1, <2>2 DEF PhaseOK, ReferenceOK, FetchOK, ServerFetch, ServerResolves, DigestMatches, Early
  <2>4. AuthOK(dep, z)
    BY <2>1 DEF HandlerOK, AuthOK
  <2>5. RouteOK(dep, z)
    BY <1>3, <2>1 DEF HandlerOK, RouteOK, ServerFetch
  <2> QED
    BY <2>1, <2>3, <2>4, <2>5 DEF HandlerOK
<1>4. AfterFetch(x, f) \in {Answer(y, "no_parameters"), y} \/ (AfterFetch(x, f) = z /\ f.at = "done" /\ ServerResolves(f, Payloads))
  BY DEF AfterFetch
<1> HIDE DEF y, z
<1> QED
  BY <1>1, <1>2, <1>3, <1>4

LEMMA FetchParametersOK ==
  ASSUME HandlerInv, NEW i \in Handlers, FetchParameters(i)
  PROVE  \E y : HandlerOK(dep, y) /\ h' = [h EXCEPT ![i] = y]
<1> DEFINE x == h[i]
           f == x.fetch
<1>1. HandlerOK(dep, x) /\ x.at = "fetch" /\ DeploymentInv
  BY DEF HandlerInv, FetchParameters
<1>2. f.at \in {"check", "get"} => ServerFetch(f)
  BY <1>1 DEF HandlerOK, FetchOK, Shaped, ServerFetch
<1>3. CASE f.at = "check" /\ h' = [h EXCEPT ![i] = AfterFetch(x, ServerCheck(f, dep.server))]
  BY <1>1, <1>2, <1>3, ServerFetchSteps, AfterFetchOK
<1>4. ASSUME f.at = "get", NEW r \in Answers[f.url],
             h' = [h EXCEPT ![i] = AfterFetch(x,
                     ServerGot([f EXCEPT !.contacts = @ \cup {[url |-> f.url, address |-> ""]}], dep.server, r))]
      PROVE  \E y : HandlerOK(dep, y) /\ h' = [h EXCEPT ![i] = y]
  BY <1>1, <1>2, <1>4, ServerFetchSteps, AfterFetchOK
<1> QED
  BY <1>3, <1>4 DEF FetchParameters

\* What the gates may come to.
LEMMA GateValues ==
  ASSUME NEW route, NEW b
  PROVE  /\ CallGate(route, b) \notin {"pointer", "delivered"}
         /\ route.target = "application" /\ IsApplicationMethod(route.method) =>
               CallGate(route, b) = HttpVerdict(dep.protocols, route, b)
         /\ route.target = "identity" /\ route.method = "issue_grant" /\ CallGate(route, b) = "ok" =>
               dep.grants
<1>1. HttpVerdict(dep.protocols, route, b) \in {"bad_request", "no_method", "ok"}
  BY DEF HttpVerdict, LookupVerdict
<1>2. ServeFramework(route, b) \in {"no_method", "error", "ok"}
  BY DEF ServeFramework
<1>3. CallGate(route, b) \notin {"pointer", "delivered"}
  BY <1>1, <1>2 DEF CallGate
<1>4. route.target = "application" /\ IsApplicationMethod(route.method) =>
         CallGate(route, b) = HttpVerdict(dep.protocols, route, b)
  BY DEF CallGate, IsApplicationMethod, ReservedMethods
<1>5. ASSUME route.target = "identity", route.method = "issue_grant", CallGate(route, b) = "ok"
      PROVE  dep.grants
  <2>1. ServeFramework(route, b) = "ok"
    BY <1>5 DEF CallGate
  <2>2. "issue_grant" \in Offered(route)
    BY <1>5, <2>1 DEF ServeFramework
  <2> QED
    BY <1>5, <2>2 DEF Offered
<1> QED
  BY <1>3, <1>4, <1>5

LEMMA GateOK ==
  ASSUME HandlerInv, NEW i \in Handlers, Gate(i)
  PROVE  \E y : HandlerOK(dep, y) /\ h' = [h EXCEPT ![i] = y]
<1> DEFINE x == h[i]
           gate == CallGate(x.route, Payloads[x.body])
           y == [x EXCEPT !.at = "call"]
<1>1. HandlerOK(dep, x) /\ x.at = "gate" /\ h' = [h EXCEPT ![i] = Passed(x, gate)]
  BY DEF HandlerInv, Gate
<1>2. /\ gate \notin {"pointer", "delivered"}
      /\ x.route.target = "application" /\ IsApplicationMethod(x.route.method) =>
            gate = HttpVerdict(dep.protocols, x.route, Payloads[x.body])
      /\ x.route.target = "identity" /\ x.route.method = "issue_grant" /\ gate = "ok" => dep.grants
  BY GateValues
<1> HIDE DEF x, gate
<1>3. x.ran = "" /\ x.answer = ""
  BY <1>1 DEF HandlerOK, PhaseOK
<1>4. HandlerOK(dep, Answer(x, gate))
  BY <1>1, <1>2, <1>3, AnswerOK
<1>5. ASSUME gate = "ok" PROVE HandlerOK(dep, y)
  <2>1. Shaped(y) /\ Keeps(x, y) /\ y.at = "call" /\ y.answer = x.answer
    BY <1>1, MoveFields DEF HandlerOK
  <2> HIDE DEF y
  <2>2. PhaseOK(y) /\ ReferenceOK(y)
    BY <1>1, <1>3, <2>1 DEF Keeps, HandlerOK, PhaseOK, ReferenceOK, Early
  <2>3. FetchOK(dep, y)
    BY <1>1, <2>1 DEF Keeps, HandlerOK, FetchOK
  <2>4. AuthOK(dep, y)
    BY <1>1, <1>2, <1>5, <2>1 DEF Keeps, HandlerOK, AuthOK
  <2>5. RouteOK(dep, y)
    BY <1>1, <1>2, <1>5, <2>1 DEF Keeps, HandlerOK, RouteOK
  <2> QED
    BY <2>1, <2>2, <2>3, <2>4, <2>5 DEF HandlerOK
<1> HIDE DEF y
<1> QED
  BY <1>1, <1>4, <1>5 DEF Passed, y

\* find_protocol() finds the binding of that name.
LEMMA FoundProtocol ==
  ASSUME NEW ps, NEW name, FindProtocol(ps, name) # 0
  PROVE  FindProtocol(ps, name) \in DOMAIN ps /\ ps[FindProtocol(ps, name)].name = name /\ name # ""
<1>1. \E i \in DOMAIN ps : ps[i].name # "" /\ ps[i].name = name
  BY DEF FindProtocol
<1>2. FindProtocol(ps, name) = CHOOSE i \in DOMAIN ps : ps[i].name = name
  BY <1>1 DEF FindProtocol
<1> QED
  BY <1>1, <1>2

\* A method that ran, with its result or a pointer to it.
LEMMA DeliverOK ==
  ASSUME DeploymentInv, NEW x, HandlerOK(dep, x), x.at = "call",
         x.route.target \in {"application", "reserved"}, NEW res \in Outcomes(x.route)
  PROVE  HandlerOK(dep, [Deliver(x, res) EXCEPT !.result = res,
                           !.ran = dep.protocols[RoutedBinding(dep.protocols, x.route)].name])
<1> DEFINE name == dep.protocols[RoutedBinding(dep.protocols, x.route)].name
           v == Deliver(x, res)
           y == [v EXCEPT !.result = res, !.ran = name]
<1>1. x.body # "" /\ x.route.target = "application" /\ IsApplicationMethod(x.route.method) =>
         HttpVerdict(dep.protocols, x.route, Payloads[x.body]) = "ok" /\ name # ""
  <2>1. x.route.target = "application" =>
           name = dep.protocols[FindProtocol(dep.protocols, x.route.protocol)].name
    BY DEF RoutedBinding
  <2>2. x.route.target = "application" => FindProtocol(dep.protocols, x.route.protocol) # 0
    BY DEF HandlerOK, RouteOK
  <2>3. x.route.target = "application" => name # ""
    BY <2>1, <2>2, FoundProtocol, ZenonT(30)
  <2>4. x.body # "" /\ x.route.target = "application" /\ IsApplicationMethod(x.route.method) =>
           HttpVerdict(dep.protocols, x.route, Payloads[x.body]) = "ok"
    <3>1. RouteOK(dep, x)
      BY DEF HandlerOK
    <3> QED
      BY <3>1 DEF RouteOK
  <2> HIDE DEF name
  <2> QED
    BY <2>3, <2>4
<1> HIDE DEF name
<1>2. /\ DOMAIN v = HandlerFields /\ v.at \in {"answered", "alloc"}
      /\ v.req = x.req /\ v.auth = x.auth /\ v.authAt = x.authAt /\ v.body = x.body
      /\ v.route = x.route /\ v.fetch = x.fetch
      /\ v.at = "alloc" => v.answer = x.answer
      /\ v.at = "answered" => v.answer \in {"error", "result", "pointer"}
      /\ v.at = "answered" /\ v.answer = "pointer" =>
            res.kind = "reference" /\ res.kind # "error" /\ v.pointer.sha = dep.published.sha
  <2> DEFINE pointed == Refer(x, dep.published.url, dep.published.sha)
             leaves == [x EXCEPT !.at = "alloc", !.left = 1]
  <2>1. \/ v \in {Answer(x, "error"), Answer(x, "result"), leaves}
        \/ v = pointed /\ res.kind = "reference" /\ res.kind # "error"
    BY DEF Deliver, Inline
  <2>2. /\ DOMAIN leaves = HandlerFields /\ leaves.at = "alloc" /\ leaves.answer = x.answer
        /\ leaves.req = x.req /\ leaves.auth = x.auth /\ leaves.authAt = x.authAt /\ leaves.body = x.body
        /\ leaves.route = x.route /\ leaves.fetch = x.fetch
    BY DEF HandlerOK, Shaped, HandlerFields
  <2>3. /\ DOMAIN pointed = HandlerFields /\ pointed.at = "answered" /\ pointed.answer = "pointer"
        /\ pointed.pointer = [url |-> dep.published.url, sha |-> dep.published.sha]
        /\ pointed.req = x.req /\ pointed.auth = x.auth /\ pointed.authAt = x.authAt /\ pointed.body = x.body
        /\ pointed.route = x.route /\ pointed.fetch = x.fetch
    BY DEF HandlerOK, Shaped, HandlerFields, Refer, Answer
  <2>4. ASSUME NEW w \in {"error", "result"}
        PROVE  LET z == Answer(x, w) IN
               Shaped(z) /\ Keeps(x, z) /\ z.at = "answered" /\ z.answer = w
    BY AnswerFields DEF HandlerOK
  <2> HIDE DEF v, pointed, leaves
  <2>5. CASE v = pointed /\ res.kind = "reference" /\ res.kind # "error"
    BY <2>3, <2>5
  <2>6. CASE v = leaves
    BY <2>2, <2>6
  <2>7. CASE v \in {Answer(x, "error"), Answer(x, "result")}
    BY <2>4, <2>7 DEF Keeps, Shaped
  <2> QED
    BY <2>1, <2>5, <2>6, <2>7
<1> HIDE DEF v
<1>3. /\ Shaped(y) /\ y.at = v.at /\ y.answer = v.answer /\ y.result = res /\ y.ran = name
      /\ y.pointer = v.pointer
      /\ y.req = x.req /\ y.auth = x.auth /\ y.authAt = x.authAt /\ y.body = x.body
      /\ y.route = x.route /\ y.fetch = x.fetch
  BY <1>2 DEF HandlerOK, Shaped, HandlerFields
<1> HIDE DEF y
<1>4. x.answer = ""
  BY DEF HandlerOK, PhaseOK
<1>5. y.at = "answered" /\ y.answer = "pointer" /\ y.pointer.sha # "" => y.pointer.sha = y.result.body
  <2>1. res.kind # "error" => res \in Results[dep.name]
    <3>1. NoResult.kind = "error"
      BY DEF NoResult
    <3>2. CASE KindFits(x.route)
      BY <3>2 DEF Outcomes
    <3>3. CASE ~KindFits(x.route)
      BY <3>1, <3>3 DEF Outcomes
    <3> QED
      BY <3>2, <3>3
  <2>2. \A s \in Results[dep.name] :
           s.kind = "reference" /\ dep.published.sha # "" => s.body = dep.published.sha
    BY RequestAssumption DEF DeploymentInv, DeploymentOK
  <2> QED
    BY <1>2, <1>3, <2>1, <2>2
<1>6. PhaseOK(y) /\ ReferenceOK(y)
  BY <1>2, <1>3, <1>4, <1>5 DEF PhaseOK, ReferenceOK, Early
<1>7. FetchOK(dep, y)
  BY <1>2, <1>3 DEF HandlerOK, FetchOK
<1>8. AuthOK(dep, y)
  BY <1>2, <1>3 DEF HandlerOK, AuthOK
<1>9. RouteOK(dep, y)
  BY <1>1, <1>2, <1>3 DEF HandlerOK, RouteOK, name
<1> QED
  BY <1>3, <1>6, <1>7, <1>8, <1>9 DEF HandlerOK, y, v, name

\* What the identity protocol and upload URLs do first.
LEMMA CallOK ==
  ASSUME HandlerInv, NEW i \in Handlers, Call(i)
  PROVE  \E y : HandlerOK(dep, y) /\ h' = [h EXCEPT ![i] = y]
<1> DEFINE x == h[i]
           reflected == ReflectionVerdict(dep.protocols, HostsIdentity, Payloads[x.body])
           introspected == Introspect(x, x.req.subject)
           vending == [x EXCEPT !.at = "alloc", !.left = Clamp(1, x.req.count, 100)]
<1>1. HandlerOK(dep, x) /\ x.at = "call" /\ DeploymentInv /\ i \in DOMAIN h
  BY DEF HandlerInv, Call
<1>2. \/ x.route.target = "reflection" /\ h' = [h EXCEPT ![i] = Answer(x, reflected)]
      \/ x.route.target = "identity" /\ h' = [h EXCEPT ![i] = Answer(x, introspected)]
      \/ /\ x.route.target = "identity" /\ x.route.method = "issue_grant"
         /\ h' = [h EXCEPT ![i] = BeginGrant(x)]
      \/ x.route.method = "__upload_url__" /\ h' = [h EXCEPT ![i] = vending]
      \/ /\ x.route.target \in {"application", "reserved"}
         /\ \E res \in Outcomes(x.route) :
               h' = [h EXCEPT ![i] = [Deliver(x, res) EXCEPT !.result = res,
                       !.ran = dep.protocols[RoutedBinding(dep.protocols, x.route)].name]]
  BY <1>1 DEF Call
<1>3. /\ reflected \notin {"pointer", "delivered"} /\ introspected \notin {"pointer", "delivered"}
  BY DEF ReflectionVerdict, Introspect
<1> HIDE DEF x, reflected, introspected
<1>4. ASSUME x.route.target \in {"reflection", "identity"}, NEW w, w \notin {"pointer", "delivered"}
      PROVE  HandlerOK(dep, Answer(x, w))
  BY <1>1, <1>4, AnswerOK
<1>5. ASSUME x.route.target = "identity", x.route.method = "issue_grant"
      PROVE  HandlerOK(dep, BeginGrant(x))
  <2> DEFINE y == [x EXCEPT !.at = "mint", !.checkedAt = now]
  <2>1. ASSUME Fresh(x.auth, dep.maxAge, now)
        PROVE  HandlerOK(dep, y)
    <3>1. /\ Shaped(y) /\ y.at = "mint" /\ y.checkedAt = now /\ y.req = x.req /\ y.auth = x.auth
          /\ y.authAt = x.authAt /\ y.answer = x.answer /\ y.body = x.body /\ y.route = x.route
          /\ y.ran = x.ran /\ y.fetch = x.fetch
      BY <1>1 DEF HandlerOK, Shaped, HandlerFields
    <3> HIDE DEF y
    <3>2. x.answer = "" /\ x.ran = ""
      BY <1>1 DEF HandlerOK, PhaseOK
    <3>3. PhaseOK(y) /\ ReferenceOK(y)
      BY <1>1, <3>1, <3>2 DEF HandlerOK, PhaseOK, ReferenceOK, Early
    <3>4. FetchOK(dep, y)
      BY <1>1, <3>1 DEF HandlerOK, FetchOK
    <3>5. AuthOK(dep, y)
      BY <1>1, <1>5, <2>1, <3>1 DEF HandlerOK, AuthOK, Fresh
    <3>6. RouteOK(dep, y)
      BY <1>1, <1>5, <3>1 DEF HandlerOK, RouteOK
    <3> QED
      BY <3>1, <3>3, <3>4, <3>5, <3>6 DEF HandlerOK
  <2>2. HandlerOK(dep, Answer(x, "error"))
    BY <1>4, <1>5
  <2> QED
    BY <2>1, <2>2 DEF BeginGrant
<1>6. ASSUME x.route.method = "__upload_url__"
      PROVE  HandlerOK(dep, vending)
  <2> DEFINE y == vending
  <2>1. /\ Shaped(y) /\ y.at = "alloc" /\ y.req = x.req /\ y.auth = x.auth
        /\ y.authAt = x.authAt /\ y.answer = x.answer /\ y.body = x.body /\ y.route = x.route
        /\ y.ran = x.ran /\ y.fetch = x.fetch
    BY <1>1 DEF HandlerOK, Shaped, HandlerFields
  <2> HIDE DEF y, vending
  <2>2. x.answer = "" /\ ~IsApplicationMethod(x.route.method)
    BY <1>1, <1>6 DEF HandlerOK, PhaseOK, IsApplicationMethod, ReservedMethods
  <2>3. PhaseOK(y) /\ ReferenceOK(y)
    BY <1>1, <2>1, <2>2 DEF HandlerOK, PhaseOK, ReferenceOK, Early
  <2>4. FetchOK(dep, y)
    BY <1>1, <2>1 DEF HandlerOK, FetchOK
  <2>5. AuthOK(dep, y)
    BY <1>1, <2>1 DEF HandlerOK, AuthOK
  <2>6. RouteOK(dep, y)
    BY <1>1, <2>1, <2>2 DEF HandlerOK, RouteOK
  <2> QED
    BY <2>1, <2>3, <2>4, <2>5, <2>6 DEF HandlerOK, y
<1>7. ASSUME x.route.target \in {"application", "reserved"}, NEW res \in Outcomes(x.route)
      PROVE  HandlerOK(dep, [Deliver(x, res) EXCEPT !.result = res,
                               !.ran = dep.protocols[RoutedBinding(dep.protocols, x.route)].name])
  BY <1>1, <1>7, DeliverOK
<1> HIDE DEF vending
<1> QED
  BY <1>2, <1>3, <1>4, <1>5, <1>6, <1>7

\* A step on the way to storage keeps what the method came to.
LEMMA AllocateOK ==
  ASSUME HandlerInv, NEW i \in Handlers, Allocate(i)
  PROVE  \E y : HandlerOK(dep, y) /\ h' = [h EXCEPT ![i] = y]
<1> DEFINE x == h[i]
<1>1. HandlerOK(dep, x) /\ x.at = "alloc"
  BY DEF HandlerInv, Allocate
<1>2. PICK r \in Allocations : h' = [h EXCEPT ![i] = Allocated(x, r)]
  BY DEF Allocate
<1> DEFINE placed == [x EXCEPT !.at = "put", !.pair = AllocatedPair(r)]
           next == [x EXCEPT !.left = @ - 1]
<1> HIDE DEF x
<1>3. Allocated(x, r) \in {Answer(x, "error"), Answer(x, "result"), placed, next}
  BY DEF Allocated, Inline
<1>4. x.body # "" /\ x.route.target = "application" /\ IsApplicationMethod(x.route.method) =>
         /\ x.ran # "" /\ HttpVerdict(dep.protocols, x.route, Payloads[x.body]) = "ok"
         /\ x.ran = dep.protocols[RoutedBinding(dep.protocols, x.route)].name
  BY <1>1 DEF HandlerOK, RouteOK
<1>5. HandlerOK(dep, Answer(x, "error")) /\ HandlerOK(dep, Answer(x, "result"))
  BY <1>1, <1>4, AnswerOK
<1>6. ASSUME NEW y, Shaped(y), y.at \in {"alloc", "put"}, y.req = x.req, y.auth = x.auth,
             y.authAt = x.authAt, y.answer = x.answer, y.body = x.body, y.route = x.route,
             y.ran = x.ran, y.fetch = x.fetch
      PROVE  HandlerOK(dep, y)
  <2>1. x.answer = ""
    BY <1>1 DEF HandlerOK, PhaseOK
  <2>2. PhaseOK(y) /\ ReferenceOK(y)
    BY <1>1, <1>6, <2>1 DEF HandlerOK, PhaseOK, ReferenceOK, Early
  <2>3. FetchOK(dep, y)
    BY <1>1, <1>6 DEF HandlerOK, FetchOK
  <2>4. AuthOK(dep, y)
    BY <1>1, <1>6 DEF HandlerOK, AuthOK
  <2>5. RouteOK(dep, y)
    BY <1>1, <1>4, <1>6 DEF HandlerOK, RouteOK
  <2> QED
    BY <1>6, <2>2, <2>3, <2>4, <2>5 DEF HandlerOK
<1>7. /\ Shaped(placed) /\ placed.at = "put" /\ placed.req = x.req /\ placed.auth = x.auth
      /\ placed.authAt = x.authAt /\ placed.answer = x.answer /\ placed.body = x.body
      /\ placed.route = x.route /\ placed.ran = x.ran /\ placed.fetch = x.fetch
  BY <1>1 DEF HandlerOK, Shaped, HandlerFields
<1>8. /\ Shaped(next) /\ next.at = "alloc" /\ next.req = x.req /\ next.auth = x.auth
      /\ next.authAt = x.authAt /\ next.answer = x.answer /\ next.body = x.body
      /\ next.route = x.route /\ next.ran = x.ran /\ next.fetch = x.fetch
  BY <1>1 DEF HandlerOK, Shaped, HandlerFields
<1> HIDE DEF placed, next
<1>9. HandlerOK(dep, placed) /\ HandlerOK(dep, next)
  BY <1>6, <1>7, <1>8
<1> QED
  BY <1>2, <1>3, <1>5, <1>9

\* The pointer that is answered has the digest of the result.
LEMMA UploadOK ==
  ASSUME HandlerInv, NEW i \in Handlers, Upload(i)
  PROVE  \E y : HandlerOK(dep, y) /\ h' = [h EXCEPT ![i] = y]
<1> DEFINE x == h[i]
<1>1. HandlerOK(dep, x) /\ x.at = "put"
  BY DEF HandlerInv, Upload
<1>2. PICK status : h' = [h EXCEPT ![i] = Stored(x, status)]
  BY DEF Upload
<1> DEFINE y == Refer(x, x.pair.download, x.result.body)
<1> HIDE DEF x
<1>3. Stored(x, status) \in {Answer(x, "error"), y}
  BY DEF Stored, Uploaded
<1>4. x.body # "" /\ x.route.target = "application" /\ IsApplicationMethod(x.route.method) =>
         /\ x.ran # "" /\ HttpVerdict(dep.protocols, x.route, Payloads[x.body]) = "ok"
         /\ x.ran = dep.protocols[RoutedBinding(dep.protocols, x.route)].name
  BY <1>1 DEF HandlerOK, RouteOK
<1>5. HandlerOK(dep, Answer(x, "error"))
  BY <1>1, <1>4, AnswerOK
<1>6. HandlerOK(dep, y)
  <2>1. /\ Shaped(y) /\ y.at = "answered" /\ y.answer = "pointer" /\ y.pointer.sha = x.result.body
        /\ y.req = x.req /\ y.auth = x.auth /\ y.authAt = x.authAt /\ y.body = x.body
        /\ y.route = x.route /\ y.ran = x.ran /\ y.fetch = x.fetch /\ y.result = x.result
    BY <1>1 DEF HandlerOK, Shaped, HandlerFields, Refer, Answer
  <2> HIDE DEF y
  <2>2. PhaseOK(y) /\ ReferenceOK(y)
    BY <1>1, <2>1 DEF PhaseOK, ReferenceOK, Early
  <2>3. FetchOK(dep, y)
    BY <1>1, <2>1 DEF HandlerOK, FetchOK
  <2>4. AuthOK(dep, y)
    BY <1>1, <2>1 DEF HandlerOK, AuthOK
  <2>5. RouteOK(dep, y)
    BY <1>1, <1>4, <2>1 DEF HandlerOK, RouteOK
  <2> QED
    BY <2>1, <2>2, <2>3, <2>4, <2>5 DEF HandlerOK
<1> HIDE DEF y
<1> QED
  BY <1>2, <1>3, <1>5, <1>6

\* A grant names the caller whose login was checked, and is accepted when it is new.
LEMMA MintOK ==
  ASSUME HandlerInv, NEW i \in Handlers, Mint(i)
  PROVE  /\ \E y : HandlerOK(dep, y) /\ h' = [h EXCEPT ![i] = y]
         /\ \A g \in grants' : GrantOK(dep, g)
<1> DEFINE x == h[i]
           token == MintGrant(dep.keys, x.auth.principal, x.req.ttl, dep.maxTtl, now)
           g == [token |-> token, owner |-> x.req.sender, authTime |-> x.auth.authTime,
                 checked |-> x.checkedAt, via |-> x.req.token.shape, ttl |-> x.req.ttl]
<1>1. HandlerOK(dep, x) /\ x.at = "mint" /\ DeploymentInv
  BY DEF HandlerInv, Mint
<1>2. /\ h' = [h EXCEPT ![i] = Answer(x, IF x.req.ttl > 0 THEN "result" ELSE "error")]
      /\ grants' = IF x.req.ttl > 0 THEN grants \cup {g} ELSE grants
  BY DEF Mint
<1> HIDE DEF x
<1>3. x.route.target = "identity" /\ dep.grants
  BY <1>1 DEF HandlerOK, AuthOK
<1>4. HandlerOK(dep, Answer(x, "result")) /\ HandlerOK(dep, Answer(x, "error"))
  BY <1>1, <1>3, AnswerOK
<1>5. ASSUME x.req.ttl > 0 PROVE GrantOK(dep, g)
  <2>1. /\ dep.maxTtl \in Int /\ dep.grantSkew \in Int /\ now \in Int /\ x.req.ttl \in Int
        /\ dep.maxTtl > 0 /\ dep.grantSkew >= 0
        /\ dep.keys # <<>> /\ dep.keys \in Seq(Elements(dep.keys))
    <3>1. DeploymentOK(dep) /\ Starts(dep) /\ now \in Int
      BY <1>1, RequestAssumption DEF DeploymentInv
    <3>2. GrantKeysOK(dep.keys, dep.maxTtl, dep.grantSkew)
      BY <1>3, <3>1 DEF Starts
    <3>3. x.req.ttl \in Int
      BY <1>1 DEF HandlerOK, AuthOK, SentOK
    <3> QED
      BY <3>1, <3>2, <3>3 DEF DeploymentOK, GrantKeysOK
  <2>2. 1 \in DOMAIN dep.keys
    BY <2>1
  <2>3. /\ x.auth.principal # NoPrincipal /\ x.auth.authTime # NoTime
        /\ x.checkedAt - x.auth.authTime <= dep.maxAge
        /\ x.req.token.shape # "grant" /\ x.auth.principal = x.req.sender
    BY <1>1, <1>3 DEF HandlerOK, AuthOK
  <2>4. /\ token.shape = "grant" /\ token.key = dep.keys[1] /\ token.canonical /\ token.decodes
        /\ token.owner = x.auth.principal /\ token.issued = now
        /\ token.expires = now + (IF x.req.ttl < dep.maxTtl THEN x.req.ttl ELSE dep.maxTtl)
    BY DEF MintGrant
  <2> HIDE DEF token
  <2>5. Opens(token, dep.keys) /\ ClaimsOK(token)
    BY <2>2, <2>3, <2>4 DEF Opens, ClaimsOK
  <2>6. /\ token.issued \in Int /\ token.expires \in Int /\ token.expires > token.issued
        /\ token.expires - token.issued <= dep.maxTtl /\ token.expires - token.issued <= x.req.ttl
    BY <1>5, <2>1, <2>4
  <2>7. GrantVerdict(token, dep.keys, dep.maxTtl, dep.grantSkew, token.issued) = "ok"
    BY <2>1, <2>5, <2>6 DEF GrantVerdict
  <2> QED
    BY <2>3, <2>4, <2>6, <2>7 DEF GrantOK
<1> HIDE DEF g
<1> QED
  BY <1>2, <1>4, <1>5 DEF HandlerInv

\* The verdict of a route is never a pointer, so an answer that is one comes from a
\* method that ran.
LEMMA ReceiveOK ==
  ASSUME HandlerInv, NEW i \in Handlers, Receive(i)
  PROVE  \E y : HandlerOK(dep, y) /\ h' = [h EXCEPT ![i] = y]
<1> DEFINE x == h[i]
           f == [NewFetch("client", x.pointer.url, x.pointer.sha) EXCEPT !.metadata = dep.metadata]
           y == [x EXCEPT !.at = "resolve", !.fetch = f]
<1>1. HandlerOK(dep, x) /\ x.at = "answered"
  BY DEF HandlerInv, Receive
<1>2. h' = [h EXCEPT ![i] = IF x.answer = "pointer" THEN y ELSE IdleHandler]
  BY DEF Receive
<1> HIDE DEF x
<1>3. HandlerOK(dep, IdleHandler)
  BY IdleOK
<1>4. ASSUME x.answer = "pointer" PROVE HandlerOK(dep, y)
  <2>1. DOMAIN f = FetchFields /\ f.who = "client" /\ f.at = "check" /\ f.contacts = {} /\ f.sha = x.pointer.sha
    BY DEF NewFetch, FetchFields
  <2> HIDE DEF f
  <2>2. /\ Shaped(y) /\ y.at = "resolve" /\ y.fetch = f /\ y.req = x.req /\ y.auth = x.auth
        /\ y.authAt = x.authAt /\ y.answer = x.answer /\ y.body = x.body /\ y.route = x.route
        /\ y.ran = x.ran /\ y.result = x.result /\ y.pointer = x.pointer
    BY <1>1, <2>1 DEF HandlerOK, Shaped, HandlerFields
  <2> HIDE DEF y
  <2>3. PhaseOK(y) /\ ReferenceOK(y)
    BY <1>1, <1>4, <2>1, <2>2 DEF HandlerOK, PhaseOK, ReferenceOK, Early
  <2>4. FetchOK(dep, y)
    BY <2>1, <2>2 DEF FetchOK
  <2>5. AuthOK(dep, y)
    BY <1>1, <2>2 DEF HandlerOK, AuthOK
  <2>6. RouteOK(dep, y)
    <3>1. HttpVerdict(dep.protocols, x.route, Payloads[x.body]) # "pointer"
      BY DEF HttpVerdict, LookupVerdict
    <3> QED
      BY <1>1, <1>4, <2>2, <3>1 DEF HandlerOK, RouteOK
  <2> QED
    BY <2>2, <2>3, <2>4, <2>5, <2>6 DEF HandlerOK
<1> HIDE DEF y
<1> QED
  BY <1>2, <1>3, <1>4

\* A fetch of the client with the digest sha, as it stands after a step.
ClientFetch(f, sha) ==
    /\ DOMAIN f = FetchFields /\ f.who = "client" /\ f.sha = sha
    /\ \A c \in f.contacts : Reaches(c.address) \in Permitted(dep)
    /\ f.at = "get" => Reaches(f.address) \in Permitted(dep)
    /\ f.at = "done" =>
          /\ sha # "" => f.body = sha
          /\ ~Payloads[f.body].nested /\ "location" \notin DOMAIN f.metadata

\* An address the policy admits leads where the policy says, also where it is
\* written inside another one.
LEMMA AdmittedAddress ==
  ASSUME NEW a, AddressOK(a), a.family \in {4, 6}, AllowedAddress(dep.client.policy, a)
  PROVE  Reaches(a) \in Permitted(dep)
<1>1. CASE dep.client.policy = "public_https" /\ a.family = 4
  BY <1>1 DEF AddressOK, AllowedAddress, Ipv4Public, Reaches, Permitted
<1>2. CASE dep.client.policy = "public_https" /\ a.family = 6 /\ a.block \in EmbeddingBlocks
  BY <1>2 DEF AddressOK, AllowedAddress, Ipv6Public, Ipv4Public, Reaches, Permitted
<1>3. CASE dep.client.policy = "public_https" /\ a.family = 6 /\ a.block \notin EmbeddingBlocks
  <2>1. a.block = "global"
    BY <1>3 DEF AllowedAddress, Ipv6Public
  <2>2. a.embeds = ""
    BY <1>3 DEF AddressOK
  <2> QED
    BY <1>3, <2>1, <2>2 DEF Reaches, Permitted
<1>4. CASE dep.client.policy # "public_https"
  BY <1>4 DEF AddressOK, AllowedAddress, EmbeddingBlocks, Reaches, Permitted
<1> QED
  BY <1>1, <1>2, <1>3, <1>4

\* Every address of the answer is admitted, so the one that is pinned is.
LEMMA ClientChecks ==
  ASSUME NEW f, NEW sha, ClientFetch(f, sha), f.at = "check", NEW answer \in Lookup(f.url.host)
  PROVE  ClientFetch(ClientCheck(f, dep.client, answer), sha)
<1> DEFINE usable == {i \in DOMAIN answer : answer[i].family \in {4, 6}}
           first == CHOOSE i \in usable : \A j \in usable : i <= j
           g == [f EXCEPT !.at = "get", !.address = answer[first], !.visited = @ \cup {f.url}]
<1>1. \/ ClientCheck(f, dep.client, answer) = Failed(f)
      \/ /\ ClientCheck(f, dep.client, answer) = g
         /\ usable # {} /\ \A i \in usable : AllowedAddress(dep.client.policy, answer[i])
  BY DEF ClientCheck
<1>2. ClientFetch(Failed(f), sha)
  BY DEF ClientFetch, Failed, FetchFields
<1>3. ASSUME usable # {}, \A i \in usable : AllowedAddress(dep.client.policy, answer[i])
      PROVE  ClientFetch(g, sha)
  <2>1. answer \in Seq(Elements(answer)) /\ \A i \in DOMAIN answer : AddressOK(answer[i])
    <3>1. CASE f.url.host \in DOMAIN Names
      BY <3>1, SiteAssumption DEF Lookup
    <3>2. CASE f.url.host \notin DOMAIN Names
      <4>1. answer = <<>>
        BY <3>2 DEF Lookup
      <4> QED
        BY <1>3, <4>1
    <3> QED
      BY <3>1, <3>2
  <2>2. usable \in SUBSET Nat
    BY <2>1
  <2>3. \E i \in usable : \A j \in usable : i <= j
    BY <1>3, <2>2, LeastExists, Zenon
  <2>4. first \in usable
    BY <2>3, Zenon
  <2> HIDE DEF first
  <2>5. Reaches(answer[first]) \in Permitted(dep)
    BY <1>3, <2>1, <2>4, AdmittedAddress
  <2>6. /\ DOMAIN g = FetchFields /\ g.who = f.who /\ g.sha = f.sha /\ g.at = "get"
        /\ g.address = answer[first] /\ g.contacts = f.contacts
    BY DEF ClientFetch, FetchFields
  <2> HIDE DEF g
  <2> QED
    BY <2>5, <2>6 DEF ClientFetch
<1> HIDE DEF g, usable
<1> QED
  BY <1>1, <1>2, <1>3

\* The entries that describe a location are dropped from both sides of the merge.
LEMMA MergedHasNoLocation ==
  ASSUME NEW outer, NEW inner
  PROVE  "location" \notin DOMAIN MergedMetadata(outer, inner)
<1>1. DOMAIN MergedMetadata(outer, inner) =
         {"source", "fetch_ms"} \cup ((DOMAIN inner \cup DOMAIN outer) \ LocationKeys)
  BY DEF MergedMetadata
<1> QED
  BY <1>1 DEF LocationKeys

\* What the client takes has the digest, is no pointer and is not taken for one.
LEMMA ClientGets ==
  ASSUME NEW f, NEW sha, ClientFetch(f, sha), f.at = "get", NEW answer, NEW r
  PROVE  ClientFetch(ClientGot([f EXCEPT !.contacts =
                                  @ \cup {[url |-> f.url, address |-> ConnectsTo(f, answer)]}],
                               dep.client, r, Payloads), sha)
<1> DEFINE new == [url |-> f.url, address |-> ConnectsTo(f, answer)]
           g == [f EXCEPT !.contacts = @ \cup {new}]
           target == ClientTarget(g.url, r.location)
           went == [g EXCEPT !.at = "check", !.url = target, !.hops = @ + 1]
           done == [g EXCEPT !.at = "done", !.body = r.body,
                             !.metadata = MergedMetadata(@, Payloads[r.body].metadata)]
<1>1. new.address = f.address
  BY DEF ConnectsTo
<1> HIDE DEF new
<1>2. DOMAIN g = FetchFields /\ g.who = "client" /\ g.sha = sha /\ g.contacts = f.contacts \cup {new}
  BY DEF ClientFetch, FetchFields
<1> HIDE DEF g
<1>3. \A c \in g.contacts : Reaches(c.address) \in Permitted(dep)
  BY <1>1, <1>2 DEF ClientFetch
<1>4. \/ ClientGot(g, dep.client, r, Payloads) \in {Failed(g), went}
      \/ /\ ClientGot(g, dep.client, r, Payloads) = done
         /\ ChecksumOK(g, r.body) /\ PayloadResolves(Payloads[r.body])
  BY DEF ClientGot, Redirected
<1>5. ClientFetch(Failed(g), sha)
  BY <1>2, <1>3 DEF ClientFetch, Failed, FetchFields
<1>6. ClientFetch(went, sha)
  BY <1>2, <1>3 DEF ClientFetch, FetchFields
<1>7. ASSUME ChecksumOK(g, r.body), PayloadResolves(Payloads[r.body])
      PROVE  ClientFetch(done, sha)
  <2>1. /\ DOMAIN done = FetchFields /\ done.who = "client" /\ done.sha = sha /\ done.at = "done"
        /\ done.contacts = g.contacts /\ done.body = r.body
        /\ done.metadata = MergedMetadata(g.metadata, Payloads[r.body].metadata)
    BY <1>2 DEF FetchFields
  <2> HIDE DEF done
  <2>2. "location" \notin DOMAIN done.metadata
    BY <2>1, MergedHasNoLocation
  <2>3. ~Payloads[r.body].nested /\ (sha # "" => r.body = sha)
    BY <1>2, <1>7 DEF PayloadResolves, ChecksumOK, DigestMatches
  <2> QED
    BY <1>3, <2>1, <2>2, <2>3 DEF ClientFetch
<1> HIDE DEF went, done
<1>8. ClientFetch(ClientGot(g, dep.client, r, Payloads), sha)
  BY <1>4, <1>5, <1>6, <1>7
<1> QED
  BY <1>8 DEF g, new

LEMMA AfterResolveOK ==
  ASSUME NEW x, HandlerOK(dep, x), x.at = "resolve", NEW f, ClientFetch(f, x.pointer.sha)
  PROVE  HandlerOK(dep, AfterResolve(x, f))
<1> DEFINE v == [x EXCEPT !.fetch = f]
           w == IF f.at = "done" THEN "delivered" ELSE "undelivered"
           y == AfterResolve(x, f)
<1>1. /\ Shaped(v) /\ v.at = "resolve" /\ v.fetch = f /\ v.req = x.req /\ v.auth = x.auth
      /\ v.authAt = x.authAt /\ v.answer = x.answer /\ v.body = x.body /\ v.route = x.route
      /\ v.ran = x.ran /\ v.result = x.result /\ v.pointer = x.pointer
  BY DEF HandlerOK, Shaped, HandlerFields, ClientFetch
<1>2. \/ y = v
      \/ y = Answer(v, w)
  BY DEF AfterResolve
<1> HIDE DEF v, y
<1>3. LET z == Answer(v, w) IN
      /\ Shaped(z) /\ Keeps(v, z) /\ z.at = "answered" /\ z.answer = w
  BY <1>1, AnswerFields
<1>4. /\ Shaped(y) /\ y.fetch = f /\ y.req = x.req /\ y.auth = x.auth
      /\ y.authAt = x.authAt /\ y.body = x.body /\ y.route = x.route
      /\ y.ran = x.ran /\ y.result = x.result /\ y.pointer = x.pointer
      /\ \/ y.at = "resolve" /\ y.answer = x.answer
         \/ y.at = "answered" /\ y.answer = w
  BY <1>1, <1>2, <1>3 DEF Keeps
<1>5. /\ x.answer = "pointer" /\ (x.pointer.sha # "" => x.pointer.sha = x.result.body)
  BY DEF HandlerOK, ReferenceOK
<1>6. PhaseOK(y)
  BY <1>4 DEF PhaseOK, Early
<1>7. ReferenceOK(y)
  BY <1>4, <1>5 DEF ReferenceOK, ClientFetch
<1>8. FetchOK(dep, y)
  BY <1>4 DEF FetchOK, ClientFetch
<1>9. AuthOK(dep, y)
  BY <1>4 DEF HandlerOK, AuthOK
<1>10. RouteOK(dep, y)
  BY <1>4 DEF HandlerOK, RouteOK
<1> QED
  BY <1>4, <1>6, <1>7, <1>8, <1>9, <1>10 DEF HandlerOK, y

LEMMA ResolvePointerOK ==
  ASSUME HandlerInv, NEW i \in Handlers, ResolvePointer(i)
  PROVE  \E y : HandlerOK(dep, y) /\ h' = [h EXCEPT ![i] = y]
<1> DEFINE x == h[i]
           f == x.fetch
<1>1. HandlerOK(dep, x) /\ x.at = "resolve"
  BY DEF HandlerInv, ResolvePointer
<1>2. f.at \in {"check", "get"} => ClientFetch(f, x.pointer.sha)
  BY <1>1 DEF HandlerOK, FetchOK, Shaped, ReferenceOK, ClientFetch
<1>3. PICK answer \in Lookup(f.url.host) :
         \/ f.at = "check" /\ h' = [h EXCEPT ![i] = AfterResolve(x, ClientCheck(f, dep.client, answer))]
         \/ /\ f.at = "get"
            /\ \E r \in Answers[f.url] :
                  h' = [h EXCEPT ![i] =
                          AfterResolve(x, ClientGot([f EXCEPT !.contacts =
                                  @ \cup {[url |-> f.url, address |-> ConnectsTo(f, answer)]}],
                                  dep.client, r, Payloads))]
  BY DEF ResolvePointer
<1>4. CASE f.at = "check" /\ h' = [h EXCEPT ![i] = AfterResolve(x, ClientCheck(f, dep.client, answer))]
  BY <1>1, <1>2, <1>4, ClientChecks, AfterResolveOK
<1>5. ASSUME f.at = "get", NEW r \in Answers[f.url],
             h' = [h EXCEPT ![i] =
                     AfterResolve(x, ClientGot([f EXCEPT !.contacts =
                             @ \cup {[url |-> f.url, address |-> ConnectsTo(f, answer)]}],
                             dep.client, r, Payloads))]
      PROVE  \E y : HandlerOK(dep, y) /\ h' = [h EXCEPT ![i] = y]
  BY <1>1, <1>2, <1>5, ClientGets, AfterResolveOK
<1> QED
  BY <1>3, <1>4, <1>5

-----------------------------------------------------------------------------
(* Every step.                                                             *)

LEMMA InitHandlers ==
  ASSUME Init
  PROVE  HandlerInv
<1>1. dep \in Deployments /\ Starts(dep) /\ now = 0 /\ grants = {} /\ h = [i \in Handlers |-> IdleHandler]
  BY DEF Init
<1>2. HandlerOK(dep, IdleHandler)
  BY IdleOK
<1> QED
  BY <1>1, <1>2 DEF HandlerInv, DeploymentInv

\* The steps before the identity is known.
LEMMA EarlySteps ==
  ASSUME HandlerInv, NEW i \in Handlers,
         Send(i) \/ Start(i) \/ HookReturns(i) \/ CheckProof(i) \/ CheckNonce(i)
  PROVE  \E y : HandlerOK(dep, y) /\ h' = [h EXCEPT ![i] = y]
<1> DEFINE x == h[i]
<1>1. HandlerOK(dep, x)
  BY DEF HandlerInv
<1>2. CASE Send(i)
  <2>1. PICK r \in Requests[dep.name] : \E s \in Sendable(r) :
           h' = [h EXCEPT ![i] = [IdleHandler EXCEPT !.at = "start", !.req = s]]
    BY <1>2 DEF Send
  <2>2. PICK s \in Sendable(r) :
           h' = [h EXCEPT ![i] = [IdleHandler EXCEPT !.at = "start", !.req = s]]
    BY <2>1
  <2>3. SentOK(dep, s)
    BY SendableOK
  <2> QED
    BY <2>2, <2>3, NewRequestOK
<1>3. CASE Start(i)
  <2>1. HandlerOK(dep, AfterStart(x, TRUE)) /\ HandlerOK(dep, [x EXCEPT !.at = "hook"])
    BY <1>1, <1>3, AfterStartOK, EarlyMove DEF Start, Early
  <2>2. h' \in {[h EXCEPT ![i] = AfterStart(x, TRUE)], [h EXCEPT ![i] = [x EXCEPT !.at = "hook"]]}
    BY <1>3 DEF Start
  <2> QED
    BY <2>1, <2>2
<1>4. CASE HookReturns(i)
  <2>1. PICK ok \in BOOLEAN : h' = [h EXCEPT ![i] = AfterStart(x, ok)]
    BY <1>4 DEF HookReturns
  <2>2. HandlerOK(dep, AfterStart(x, ok))
    BY <1>1, <1>4, AfterStartOK DEF HookReturns, Early
  <2> QED
    BY <2>1, <2>2
<1>5. CASE CheckProof(i)
  <2>1. /\ HandlerOK(dep, ProofDone(x, TRUE)) /\ HandlerOK(dep, ProofDone(x, FALSE))
        /\ HandlerOK(dep, [x EXCEPT !.at = "nonce"])
    BY <1>1, <1>5, ProofDoneOK, EarlyMove DEF CheckProof, Early
  <2>2. \/ h' = [h EXCEPT ![i] = ProofDone(x, TRUE)]
        \/ h' = [h EXCEPT ![i] = ProofDone(x, FALSE)]
        \/ h' = [h EXCEPT ![i] = [x EXCEPT !.at = "nonce"]]
    BY <1>5 DEF CheckProof
  <2> QED
    BY <2>1, <2>2
<1>6. CASE CheckNonce(i)
  <2>1. PICK ok \in BOOLEAN : h' = [h EXCEPT ![i] = ProofDone(x, ok)]
    BY <1>6 DEF CheckNonce
  <2>2. HandlerOK(dep, ProofDone(x, ok))
    BY <1>1, <1>6, ProofDoneOK DEF CheckNonce, Early
  <2> QED
    BY <2>1, <2>2
<1> QED
  BY <1>2, <1>3, <1>4, <1>5, <1>6

\* One handler's record changes, and only Mint() adds a grant.
LEMMA HandlersStep ==
  ASSUME HandlerInv, [Next]_vars
  PROVE  HandlerInv'
<1>1. DeploymentInv' /\ dep' = dep
  BY DeploymentStep DEF HandlerInv
<1>2. CASE Tick \/ ServicesFlip \/ UNCHANGED vars
  <2>1. UNCHANGED <<h, grants>>
    BY <1>2 DEF Tick, ServicesFlip, vars
  <2> QED
    BY <1>1, <2>1 DEF HandlerInv
<1>3. ASSUME NEW i \in Handlers, Send(i) \/ HandlerStep(i)
      PROVE  HandlerInv'
  <2>1. \E y : HandlerOK(dep, y) /\ h' = [h EXCEPT ![i] = y]
    BY <1>3, EarlySteps, ResolveIdentityOK, RouteStepOK, FetchParametersOK, GateOK, CallOK,
       AllocateOK, UploadOK, MintOK, ReceiveOK, ResolvePointerOK DEF HandlerStep
  <2>2. \A g \in grants' : GrantOK(dep, g)
    <3>1. CASE Mint(i)
      BY <3>1, MintOK
    <3>2. CASE ~Mint(i)
      <4>1. grants' = grants
        <5>1. CASE Send(i) \/ Start(i) \/ HookReturns(i) \/ CheckProof(i) \/ CheckNonce(i)
          BY <5>1 DEF Send, Start, HookReturns, CheckProof, CheckNonce
        <5>2. CASE ResolveIdentity(i) \/ Route(i) \/ FetchParameters(i) \/ Gate(i)
          BY <5>2 DEF ResolveIdentity, Route, FetchParameters, Gate
        <5>3. CASE Call(i) \/ Allocate(i) \/ Upload(i)
          BY <5>3 DEF Call, Allocate, Upload
        <5>4. CASE Receive(i) \/ ResolvePointer(i)
          BY <5>4 DEF Receive, ResolvePointer
        <5> QED
          BY <1>3, <3>2, <5>1, <5>2, <5>3, <5>4 DEF HandlerStep
      <4> QED
        BY <4>1 DEF HandlerInv
    <3> QED
      BY <3>1, <3>2
  <2>3. DOMAIN h' = Handlers /\ \A j \in Handlers : HandlerOK(dep, h'[j])
    BY <2>1 DEF HandlerInv
  <2> QED
    BY <1>1, <2>2, <2>3 DEF HandlerInv
<1> QED
  BY <1>2, <1>3 DEF Next

\* Whatever the handlers of a worker do at the same time, the record each of them
\* takes through handle_rpc() stays as the stage it is in says.
THEOREM HandlerInvAlways == Spec => []HandlerInv
<1>1. Init => HandlerInv
  BY InitHandlers
<1>2. HandlerInv /\ [Next]_vars => HandlerInv'
  BY HandlersStep
<1> QED
  BY <1>1, <1>2, PTL DEF Spec

-----------------------------------------------------------------------------
(* What the invariant says of the worker.                                  *)

\* A grant is minted only for a caller whose own recent login the worker checked,
\* names that caller and is accepted when it is new, and a grant lets nobody in
\* past its lifetime: issue_grant(), mint_grant_token() and verify_grant_token(),
\* with a clock reading of its own for each, for any clock and any other requests.
THEOREM GrantsAreEarnedAlways == Spec => []GrantsAreEarned
<1>1. HandlerInv => GrantsAreEarned
  <2> SUFFICES ASSUME HandlerInv PROVE GrantsAreEarned
    OBVIOUS
  <2>1. \A g \in grants : GrantOK(dep, g)
    BY DEF HandlerInv
  <2>2. \A i \in Handlers : AuthOK(dep, h[i])
    BY DEF HandlerInv, HandlerOK
  <2> QED
    BY <2>1, <2>2 DEF GrantsAreEarned, GrantOK, AuthOK
<1> QED
  BY <1>1, HandlerInvAlways, PTL

\* Whatever the sites answer, redirect to and resolve to: the server requests only
\* what its validator passes, hop by hop, and the client connects only to the
\* address it checked, which its policy admits (fetch() of external.cpp,
\* validate_and_resolve() and get_once() of client_external.cpp).
THEOREM FetchesWithinPolicyAlways == Spec => []FetchesWithinPolicy
<1>1. HandlerInv => FetchesWithinPolicy
  <2> SUFFICES ASSUME HandlerInv PROVE FetchesWithinPolicy
    OBVIOUS
  <2>1. \A i \in Handlers : FetchOK(dep, h[i])
    BY DEF HandlerInv, HandlerOK
  <2> QED
    BY <2>1 DEF FetchesWithinPolicy, FetchOK, Permitted
<1> QED
  BY <1>1, HandlerInvAlways, PTL

\* Parameters and results that travel by reference are the ones their digest was
\* taken of, a pointer never stands for data, and the client does not take what it
\* was given for a pointer again (resolve_request_pointer(), resolve_pointer(),
\* merge_resolution_metadata()).
THEOREM ReferencesHoldAlways == Spec => []ReferencesHold
<1>1. HandlerInv => ReferencesHold
  <2> SUFFICES ASSUME HandlerInv PROVE ReferencesHold
    OBVIOUS
  <2>1. \A i \in Handlers : ReferenceOK(h[i])
    BY DEF HandlerInv, HandlerOK
  <2> QED
    BY <2>1 DEF ReferencesHold, ReferenceOK
<1> QED
  BY <1>1, HandlerInvAlways, PTL

LEMMA OnlyIndex ==
  ASSUME NEW S, NEW s \in Seq(S), NEW n \in DOMAIN s
  PROVE  1 \in DOMAIN s /\ (Len(s) = 1 => n = 1)
  OBVIOUS

\* The gates of the two transports: handle_rpc() and serve_one_with_state() are
\* written apart, and agree on every batch that is addressed in the same way.
LEMMA SameVerdict ==
  ASSUME NEW d, DeploymentOK(d), Builds(d), NEW route, route.target = "application",
         route.method # "", IsApplicationMethod(route.method), route.suffix # "exchange",
         FindProtocol(d.protocols, route.protocol) # 0,
         NEW p, BatchOK(p),
         CarriersAgree(route, p), p.method = route.method
  PROVE  LET b == [p EXCEPT !.key = route.protocol] IN
         /\ RawVerdict(d.protocols, b) = HttpVerdict(d.protocols, route, p)
         /\ RawBinding(d.protocols, b) = RoutedBinding(d.protocols, route)
         /\ d.protocols[RoutedBinding(d.protocols, route)].name = route.protocol
<1> DEFINE ps == d.protocols
           n == FindProtocol(ps, route.protocol)
           b == [p EXCEPT !.key = route.protocol]
<1>1. n \in DOMAIN ps /\ ps[n].name = route.protocol /\ route.protocol # "" /\ n # 0
  BY FoundProtocol
<1>2. /\ b.key = route.protocol /\ b.method = p.method /\ b.version = p.version
      /\ b.declared = p.declared /\ b.rows = p.rows /\ b.fields = p.fields
  BY DEF BatchOK
<1> HIDE DEF b, n
<1>3. ps \in Seq(Elements(ps))
  BY DEF DeploymentOK
<1>4. ps[1].name # ""
  <2>1. 1 \in DOMAIN ps /\ (Len(ps) = 1 => n = 1)
    BY <1>1, <1>3, OnlyIndex
  <2>2. ps[1].name # "" \/ Len(ps) = 1
    BY <2>1 DEF Builds
  <2> QED
    BY <1>1, <2>1, <2>2
<1>5. route.protocol \notin {Reflection, IdentityProtocol}
  <2>1. ps[n] \in Elements(ps)
    BY <1>1 DEF Elements
  <2>2. ~ps[n].reserved
    BY <1>1 DEF Builds
  <2>3. ps[n].name \in {Reflection, IdentityProtocol} => ps[n].reserved
    BY <2>1 DEF DeploymentOK
  <2> QED
    BY <1>1, <2>2, <2>3
<1>6. RawBinding(ps, b) = n /\ RoutedBinding(ps, route) = n
  BY <1>2, <1>4 DEF RawBinding, RoutedBinding, n
<1>7. LookupVerdict(ps, n, b) = LookupVerdict(ps, n, p)
  BY <1>2 DEF LookupVerdict, ParametersOK
<1> DEFINE gated == p.version = "1" /\ VersionVerdict(ps[n], p.declared) = "ok"
<1>8. /\ ~gated => HttpVerdict(ps, route, p) = "bad_request"
      /\ gated /\ ~HasMethod(ps[n], p.method) => HttpVerdict(ps, route, p) = "no_method"
      /\ gated /\ HasMethod(ps[n], p.method) => HttpVerdict(ps, route, p) = LookupVerdict(ps, n, p)
  BY <1>6 DEF HttpVerdict, InitialGate, Addressable
<1>9. /\ ~gated => RawVerdict(ps, b) = "bad_request"
      /\ gated => RawVerdict(ps, b) = LookupVerdict(ps, n, p)
  BY <1>1, <1>2, <1>5, <1>6, <1>7 DEF RawVerdict
<1>10. ~HasMethod(ps[n], p.method) => LookupVerdict(ps, n, p) = "no_method"
  BY DEF LookupVerdict
<1> HIDE DEF gated
<1>11. RawVerdict(ps, b) = HttpVerdict(ps, route, p)
  BY <1>8, <1>9, <1>10, Zenon
<1>12. RawBinding(ps, b) = RoutedBinding(ps, route) /\ ps[RoutedBinding(ps, route)].name = route.protocol
  BY <1>1, <1>6
<1> QED
  BY <1>11, <1>12, Zenon DEF b

\* The verdict on a call of an application method does not depend on the transport
\* it came by, and a method that runs is the one of the protocol its caller named,
\* for any protocols a server can be built with and any batch.
THEOREM SameOnEveryTransportAlways == Spec => []SameOnEveryTransport
<1>1. HandlerInv => SameOnEveryTransport
  <2> SUFFICES ASSUME HandlerInv, NEW i \in Handlers,
                      h[i].at = "answered", h[i].body # "", h[i].route.target = "application",
                      IsApplicationMethod(h[i].route.method),
                      CarriersAgree(h[i].route, Payloads[h[i].body]),
                      [Payloads[h[i].body] EXCEPT !.key = h[i].route.protocol].method = h[i].route.method,
                      h[i].route.suffix # "exchange"
               PROVE  LET b == [Payloads[h[i].body] EXCEPT !.key = h[i].route.protocol] IN
                      IF h[i].ran # ""
                      THEN /\ RawVerdict(dep.protocols, b) = "ok"
                           /\ dep.protocols[RawBinding(dep.protocols, b)].name = h[i].ran
                           /\ h[i].ran = h[i].route.protocol
                      ELSE h[i].answer = RawVerdict(dep.protocols, b)
    BY DEF SameOnEveryTransport
  <2> DEFINE x == h[i]
             p == Payloads[x.body]
             b == [p EXCEPT !.key = x.route.protocol]
  <2>1. RouteOK(dep, x) /\ DeploymentOK(dep) /\ Builds(dep)
    BY RequestAssumption DEF HandlerInv, HandlerOK, DeploymentInv, Starts
  <2>2. /\ BatchOK(p)
        /\ x.route.method # "" /\ FindProtocol(dep.protocols, x.route.protocol) # 0
    BY <2>1, SiteAssumption DEF RouteOK
  <2>3. p.method = x.route.method
    BY <2>2 DEF BatchOK
  <2>4. IF x.ran # ""
        THEN /\ HttpVerdict(dep.protocols, x.route, p) = "ok"
             /\ x.ran = dep.protocols[RoutedBinding(dep.protocols, x.route)].name
        ELSE x.answer = HttpVerdict(dep.protocols, x.route, p)
    BY <2>1 DEF RouteOK
  <2> HIDE DEF p
  <2>5. /\ RawVerdict(dep.protocols, b) = HttpVerdict(dep.protocols, x.route, p)
        /\ RawBinding(dep.protocols, b) = RoutedBinding(dep.protocols, x.route)
        /\ dep.protocols[RoutedBinding(dep.protocols, x.route)].name = x.route.protocol
    BY <2>1, <2>2, <2>3, SameVerdict DEF p
  <2> HIDE DEF x, b
  <2> QED
    BY <2>4, <2>5 DEF x, b, p
<1> QED
  BY <1>1, HandlerInvAlways, PTL

-----------------------------------------------------------------------------
(* Admission: whom the evidence about a peer, the policies over it and the *)
(* bearers name, and what they come to when a service is down.             *)

\* Peer evidence is a status, and identities only where it is available.
EvidenceOK(e, names) ==
    /\ e.status # "available" => e.ids = {}
    /\ \A id \in e.ids : id.stability = "stable" => id.subject \in names

LEMMA ResultFields ==
  ASSUME NEW status
  PROVE  Result(status).status = status /\ Result(status).ids = {}
  BY DEF Result

\* The identity that a policy may take a principal from.
Verified(subject) == Available(subject, TRUE, "stable")

LEMMA VerifiedFields ==
  ASSUME NEW s
  PROVE  Verified(s).status = "available" /\ \A id \in Verified(s).ids : id.subject = s
  BY DEF Verified, Available

\* What the daemon answers about a peer, however it fails.
LEMMA LocalApiCases ==
  ASSUME NEW ctx, NEW w
  PROVE  \/ LocalApiProvider(ctx, w).status # "available" /\ LocalApiProvider(ctx, w).ids = {}
         \/ /\ w.status = 200 /\ WhoisExchange(w) = "answered" /\ WhoisParses(w)
            /\ \E s \in WhoisSubject(w) : LocalApiProvider(ctx, w) = Verified(s)
<1> DEFINE e == LocalApiProvider(ctx, w)
<1>1. WhoisExchange(w) \in {"unavailable", "invalid", "answered"}
  BY DEF WhoisExchange
<1> DEFINE one == CHOOSE s \in WhoisSubject(w) : TRUE
           failing == w.status \in 500..599
<1>2. e = IF ~ValidContext(ctx) THEN Result("invalid")
          ELSE IF ctx.peer = "none" /\ ~ctx.asserted THEN Result("not_applicable")
          ELSE IF ~TargetOK(ctx) THEN Result("invalid")
          ELSE IF WhoisExchange(w) # "answered" THEN Result(WhoisExchange(w))
          ELSE IF w.status \in {401, 403} THEN Result("permission_denied")
          ELSE IF w.status = 404 THEN Result("no_match")
          ELSE IF failing THEN Result("unavailable")
          ELSE IF w.status # 200 \/ ~WhoisParses(w) \/ WhoisSubject(w) = {} THEN Result("invalid")
          ELSE Verified(one)
  BY DEF LocalApiProvider, Verified
<1> HIDE DEF e, one, failing
<1>4. \/ e \in {Result("invalid"), Result("not_applicable"), Result("unavailable"),
                Result("permission_denied"), Result("no_match")}
      \/ /\ w.status = 200 /\ WhoisExchange(w) = "answered" /\ WhoisParses(w) /\ WhoisSubject(w) # {}
         /\ e = Verified(one)
  BY <1>1, <1>2
<1>3. e \in {Result("invalid"), Result("not_applicable"), Result("unavailable"),
             Result("permission_denied"), Result("no_match")} => e.status # "available" /\ e.ids = {}
  BY ResultFields
<1>5. WhoisSubject(w) # {} => one \in WhoisSubject(w)
  BY Zenon DEF one
<1> QED
  BY <1>3, <1>4, <1>5 DEF e

\* Without a fault the daemon is asked as it is.
LEMMA NoFault ==
  ASSUME NEW w
  PROVE  Faulted(w, "none") = w
  BY DEF Faulted

\* Evidence names whom the proxy or the daemon vouches for.
LEMMA EvidenceNames ==
  ASSUME NEW d, NEW kind, NEW r
  PROVE  EvidenceOK(Provide(d, kind, r, "none"), Vouched(kind, r))
<1> DEFINE e == Provide(d, kind, r, "none")
           c == r.ctx
           none == {Result("untrusted_proxy"), Result("invalid"), Result("no_match"), Result("not_applicable")}
<1>1. \A x \in none : \A names : EvidenceOK(x, names)
  BY ResultFields DEF EvidenceOK
<1>2. ASSUME NEW s, e = Verified(s), s \in Vouched(kind, r)
      PROVE  EvidenceOK(e, Vouched(kind, r))
  <2>1. e.status = "available" /\ \A id \in e.ids : id.subject = s
    BY <1>2, VerifiedFields
  <2> QED
    BY <1>2, <2>1 DEF EvidenceOK
<1> HIDE DEF none
<1>3. CASE kind = "x509"
  <2> DEFINE s == c.headers["cert"].cert.uris[1].subject
  <2>1. e = CertificateProvider(c, d.domains, TRUE)
    BY <1>3 DEF Provide
  <2>2. \/ e \in none
        \/ /\ Trusts(c) /\ Has(c, "cert") /\ Has(c, "verify") /\ c.headers["verify"] = "SUCCESS"
           /\ SvidAccepted(c.headers["cert"].cert, d.domains)
           /\ e = Verified(s)
    BY <2>1 DEF CertificateProvider, none, Verified
  <2>3. ASSUME /\ Trusts(c) /\ Has(c, "cert") /\ Has(c, "verify") /\ c.headers["verify"] = "SUCCESS"
               /\ SvidAccepted(c.headers["cert"].cert, d.domains)
        PROVE  s \in Vouched(kind, r)
    <3>1. Len(c.headers["cert"].cert.uris) = 1
      BY <2>3 DEF SvidAccepted
    <3>2. Vouched(kind, r) = {s}
      BY <1>3, <2>3, <3>1 DEF Vouched
    <3> QED
      BY <3>2
  <2> HIDE DEF s
  <2> QED
    BY <1>1, <1>2, <2>2, <2>3
<1>4. CASE kind = "gcp"
  <2> DEFINE s == c.headers["id"].subject
             ok == /\ Has(c, "present") /\ c.headers["present"] = "true"
                   /\ Has(c, "chain") /\ c.headers["chain"] = "true" /\ Has(c, "id")
  <2>1. e = GcpProvider(c, d.domains)
    BY <1>4 DEF Provide
  <2>2. e \in none \/ (Trusts(c) /\ ok /\ e = Verified(s))
    BY <2>1 DEF GcpProvider, none, Verified
  <2>3. Trusts(c) /\ ok => Vouched(kind, r) = {s}
    BY <1>4 DEF Vouched
  <2> HIDE DEF s
  <2> QED
    BY <1>1, <1>2, <2>2, <2>3
<1>5. CASE kind = "envoy"
  <2> DEFINE s == c.headers["xfcc"].uris[1].subject
  <2>1. e = EnvoyProvider(c, d.domains)
    BY <1>5 DEF Provide
  <2>2. \/ e \in none
        \/ /\ Trusts(c) /\ Has(c, "xfcc") /\ Len(c.headers["xfcc"].uris) = 1
           /\ e = Verified(s)
    BY <2>1 DEF EnvoyProvider, none, Verified
  <2>3. Trusts(c) /\ Has(c, "xfcc") /\ Len(c.headers["xfcc"].uris) = 1 => Vouched(kind, r) = {s}
    BY <1>5 DEF Vouched
  <2> HIDE DEF s
  <2> QED
    BY <1>1, <1>2, <2>2, <2>3
<1>6. CASE kind = "serve"
  <2> DEFINE s == c.headers["login"].subject
  <2>1. e = ServeProvider(c)
    BY <1>6 DEF Provide
  <2>2. e \in none \/ e = Available(s, TRUE, "login") \/ e = Available(NoPrincipal, FALSE, "none")
    BY <2>1 DEF ServeProvider, none
  <2> HIDE DEF s
  <2> QED
    <3>1. e \notin none => e.status = "available" /\ \A id \in e.ids : id.stability # "stable"
      BY <2>2 DEF Available
    <3> QED
      BY <1>1, <3>1 DEF EvidenceOK
<1>7. CASE kind = "localapi"
  <2> DEFINE w == r.whois
  <2>1. e = LocalApiProvider(c, w)
    BY <1>7, NoFault DEF Provide
  <2>2. \/ e.status # "available" /\ e.ids = {}
        \/ w.status = 200 /\ \E s \in WhoisSubject(w) : e = Verified(s)
    BY <2>1, LocalApiCases
  <2>3. w.status = 200 => Vouched(kind, r) = WhoisSubject(w)
    BY <1>7 DEF Vouched
  <2>4. e.ids = {} => EvidenceOK(e, Vouched(kind, r))
    BY DEF EvidenceOK
  <2> QED
    BY <1>2, <2>2, <2>3, <2>4
<1>8. CASE kind \notin {"x509", "gcp", "envoy", "serve", "localapi"}
  <2> DEFINE s == c.headers["endpoint"].subject
  <2>1. e = IrohProvider(c)
    BY <1>8 DEF Provide
  <2>2. e \in none \/ (Trusts(c) /\ Has(c, "endpoint") /\ e = Verified(s))
    BY <2>1 DEF IrohProvider, none, Verified
  <2>3. Trusts(c) /\ Has(c, "endpoint") => Vouched(kind, r) = {s}
    BY <1>8 DEF Vouched
  <2> HIDE DEF s
  <2> QED
    BY <1>1, <1>2, <2>2, <2>3
<1> QED
  BY <1>3, <1>4, <1>5, <1>6, <1>7, <1>8

WhoisFields == {"addresses", "sent", "head", "status", "framing", "oversized", "body", "whole", "json", "typed", "tags",
                "stableId", "userId"}

\* A request that is well formed as far as the daemon is concerned.
WhoisOK(w) == WhoisFields \subseteq DOMAIN w /\ w.addresses \in Seq(Elements(w.addresses))

\* An address that hangs uses up the deadline, and one that refuses is no connection.
LEMMA NoConnection ==
  ASSUME NEW S, NEW addresses \in Seq(S)
  PROVE  ~Connects(<<"refused">>) /\ ~Connects(<<"timeout">> \o addresses)
<1>1. ~Connects(<<"refused">>)
  BY DEF Connects, WaitsFor
<1>2. ~Connects(<<"timeout">> \o addresses)
  <2> DEFINE all == <<"timeout">> \o addresses
  <2>1. all[1] = "timeout" /\ DOMAIN all \subseteq Nat \ {0}
    OBVIOUS
  <2> HIDE DEF all
  <2>2. ASSUME NEW k \in DOMAIN all, WaitsFor(all[k], TRUE), \A j \in 1..(k - 1) : all[j] # "timeout"
        PROVE  FALSE
    <3>1. k # 1
      BY <2>1, <2>2 DEF WaitsFor
    <3>2. 1 \in 1..(k - 1)
      BY <2>1, <3>1
    <3> QED
      BY <2>1, <2>2, <3>2
  <2> QED
    BY <2>2 DEF Connects, all
<1> QED
  BY <1>1, <1>2

\* A daemon that fails is not available; and unless it hung up in an answer that was to
\* end with the connection, that it failed is all that is seen of it.
LEMMA FaultyDaemon ==
  ASSUME NEW ctx, NEW w, WhoisOK(w), NEW fault \in Faults
  PROVE  LET e == LocalApiProvider(ctx, w)
             f == LocalApiProvider(ctx, Faulted(w, fault))
         IN  /\ f.status # "available"
             /\ fault # "cut_body" \/ w.framing # {} => f \in {e, Result("unavailable")}
<1> DEFINE v == Faulted(w, fault)
           e == LocalApiProvider(ctx, w)
           f == LocalApiProvider(ctx, v)
<1>1. Result("unavailable").status = "unavailable"
  BY ResultFields
<1>2. ASSUME WhoisExchange(v) = "unavailable"
      PROVE  f \in {e, Result("unavailable")}
  BY <1>2, ZenonT(30) DEF LocalApiProvider
<1>3. CASE fault \in {"refused", "hangs", "broken_head"}
  <2>1. ~Connects(v.addresses) \/ v.head = "timeout"
    <3>1. CASE fault = "refused"
      <4>1. v.addresses = <<"refused">>
        BY <3>1 DEF Faulted, WhoisOK, WhoisFields
      <4> QED
        BY <4>1, NoConnection DEF WhoisOK
    <3>2. CASE fault = "hangs"
      <4>1. v.addresses = <<"timeout">> \o w.addresses
        BY <3>2 DEF Faulted, WhoisOK, WhoisFields
      <4> QED
        BY <4>1, NoConnection DEF WhoisOK
    <3>3. CASE fault = "broken_head"
      BY <3>3 DEF Faulted, WhoisOK, WhoisFields
    <3> QED
      BY <1>3, <3>1, <3>2, <3>3
  <2>2. WhoisExchange(v) = "unavailable"
    BY <2>1 DEF WhoisExchange
  <2>3. f.status # "available"
    BY <2>2, LocalApiCases
  <2> QED
    BY <1>2, <2>2, <2>3
<1>4. CASE fault = "busy"
  <2>1. /\ v.status = 503 /\ v.addresses = w.addresses /\ v.sent = w.sent /\ v.head = w.head
    BY <1>4 DEF Faulted, WhoisOK, WhoisFields
  <2> HIDE DEF v
  <2>2. f.status # "available"
    BY <2>1, LocalApiCases
  <2>3. \/ WhoisExchange(v) \in {"unavailable", "answered"}
        \/ WhoisExchange(v) = "invalid" /\ WhoisExchange(w) = "invalid"
    BY <2>1 DEF WhoisExchange
  <2>4. ~ValidContext(ctx) \/ (ctx.peer = "none" /\ ~ctx.asserted) \/ ~TargetOK(ctx) => f = e
    BY DEF LocalApiProvider
  <2>5. ASSUME WhoisExchange(v) = "answered", ValidContext(ctx), ~(ctx.peer = "none" /\ ~ctx.asserted), TargetOK(ctx)
        PROVE  f = Result("unavailable")
    <3>1. v.status \in 500..599 /\ v.status \notin {401, 403} /\ v.status # 404
      BY <2>1
    <3> HIDE DEF v
    <3> QED
      BY <2>5, <3>1, ZenonT(30) DEF LocalApiProvider
  <2>6. WhoisExchange(v) = "invalid" /\ WhoisExchange(w) = "invalid" => f = e
    BY DEF LocalApiProvider
  <2>7. f \in {e, Result("unavailable")}
    BY <1>2, <2>3, <2>4, <2>5, <2>6 DEF v
  <2> QED
    BY <2>2, <2>7 DEF v
<1>5. CASE fault \in {"broken_body", "cut_body"}
  <2>1. /\ ~v.whole /\ v.addresses = w.addresses /\ v.sent = w.sent /\ v.head = w.head
        /\ v.status = w.status /\ v.framing = w.framing /\ v.oversized = w.oversized
        /\ fault = "broken_body" => v.body = "timeout"
    BY <1>5 DEF Faulted, WhoisOK, WhoisFields
  <2>2. fault = "broken_body" => ~WaitsFor(v.body, FALSE)
    BY <2>1 DEF WaitsFor
  <2>3. f.status # "available"
    BY <2>1, LocalApiCases DEF WhoisParses
  <2> HIDE DEF v
  <2>4. ASSUME fault # "cut_body" \/ w.framing # {} PROVE f \in {e, Result("unavailable")}
    <3>1. BreaksOff(v)
      BY <1>5, <2>1, <2>2, <2>4 DEF BreaksOff
    <3>2. CASE w.status # 200
      <4>1. WhoisExchange(v) = WhoisExchange(w)
        BY <2>1, <3>2 DEF WhoisExchange
      <4> QED
        BY <2>1, <3>2, <4>1 DEF LocalApiProvider
    <3>3. CASE w.status = 200
      <4>1. WhoisExchange(v) = "unavailable" \/ (WhoisExchange(v) = "invalid" /\ WhoisExchange(w) = "invalid")
        BY <2>1, <3>1, <3>3 DEF WhoisExchange
      <4> QED
        BY <4>1, ZenonT(30) DEF LocalApiProvider
    <3> QED
      BY <3>2, <3>3
  <2> QED
    BY <2>3, <2>4 DEF v
<1> QED
  BY <1>3, <1>4, <1>5 DEF Faults

\* The same of every provider: only the daemon can fail.
LEMMA FaultyEvidence ==
  ASSUME NEW d, NEW kind, NEW r, WhoisOK(r.whois), NEW fault \in Faults
  PROVE  /\ Provide(d, kind, r, fault).status = "available" => Provide(d, kind, r, fault) = Provide(d, kind, r, "none")
         /\ ~CutUnnoticed(r, fault) =>
               Provide(d, kind, r, fault) \in {Provide(d, kind, r, "none"), Result("unavailable")}
<1>1. CASE kind = "localapi"
  <2>1. /\ Provide(d, kind, r, fault) = LocalApiProvider(r.ctx, Faulted(r.whois, fault))
        /\ Provide(d, kind, r, "none") = LocalApiProvider(r.ctx, r.whois)
    BY <1>1, NoFault DEF Provide
  <2> QED
    BY <2>1, FaultyDaemon DEF CutUnnoticed
<1>2. CASE kind # "localapi"
  <2>1. Provide(d, kind, r, fault) = Provide(d, kind, r, "none")
    BY <1>2 DEF Provide
  <2> QED
    BY <2>1
<1> QED
  BY <1>1, <1>2

\* The evidence under the name of a provider is the one it gave.
LEMMA EvidenceAt ==
  ASSUME NEW d, ~Ambiguous(d), NEW r, NEW fault, NEW j \in DOMAIN d.providers
  PROVE  /\ ProviderName(d.providers[j]) \in DOMAIN Evidence(d, r, fault)
         /\ Evidence(d, r, fault)[ProviderName(d.providers[j])] = Provide(d, d.providers[j], r, fault)
<1> DEFINE n == ProviderName(d.providers[j])
           k == CHOOSE k \in DOMAIN d.providers : ProviderName(d.providers[k]) = n
<1>1. k \in DOMAIN d.providers /\ ProviderName(d.providers[k]) = n
  BY Zenon
<1>2. k = j
  BY <1>1 DEF Ambiguous
<1> QED
  BY <1>2 DEF Evidence

\* A principal is taken from the one identity of a provider that is available.
LEMMA PrimaryNames ==
  ASSUME NEW E, NEW p \in DOMAIN E, NEW names, EvidenceOK(E[p], names), Primary(E, p).outcome = "auth"
  PROVE  /\ Primary(E, p).auth.authenticated = TRUE /\ Primary(E, p).auth.principal \in names
         /\ E[p].status = "available"
<1> DEFINE ids == Eligible(E, p)
           id == CHOOSE i \in ids : TRUE
           one == Accepts(Auth(p, id.subject, NoTime))
<1>1. /\ Rejects.outcome # "auth" /\ Unavailable.outcome # "auth"
      /\ one.auth.authenticated = TRUE /\ one.auth.principal = id.subject
  BY DEF Rejects, Unavailable, Accepts, Auth
<1>2. Primary(E, p) = RequireAvailable(E, p, IF Cardinality(ids) # 1 THEN Rejects ELSE one)
  BY DEF Primary
<1> HIDE DEF one, ids
<1>3. Primary(E, p) = one /\ Cardinality(ids) = 1 /\ StatusIn(E, p) = "available"
  BY <1>1, <1>2 DEF RequireAvailable
<1>4. ids # {}
  BY <1>3, FS_EmptySet
<1>5. id \in ids
  BY <1>4, Zenon
<1>6. id \in E[p].ids /\ id.stability = "stable"
  BY <1>5 DEF Eligible, ids
<1>7. id.subject \in names
  BY <1>6 DEF EvidenceOK
<1>8. E[p].status = "available"
  BY <1>3 DEF StatusIn
<1> QED
  BY <1>1, <1>3, <1>7, <1>8

\* Under any fault, a provider that names somebody gives the evidence it would
\* give without one.
LEMMA PeerPrincipal ==
  ASSUME NEW d, ~Ambiguous(d), NEW r, WhoisOK(r.whois), NEW fault \in Faults \cup {"none"},
         NEW j \in DOMAIN d.providers,
         Primary(Evidence(d, r, fault), ProviderName(d.providers[j])).outcome = "auth"
  PROVE  LET a == Primary(Evidence(d, r, fault), ProviderName(d.providers[j])).auth IN
         a.authenticated = TRUE /\ a.principal \in Vouched(d.providers[j], r)
<1> DEFINE p == ProviderName(d.providers[j])
           E == Evidence(d, r, fault)
           kind == d.providers[j]
           e == Provide(d, kind, r, fault)
<1>1. p \in DOMAIN E /\ E[p] = e
  BY EvidenceAt
<1>2. e.status = "available" => EvidenceOK(e, Vouched(kind, r))
  BY EvidenceNames, FaultyEvidence
<1>3. StatusIn(E, p) = e.status
  BY <1>1 DEF StatusIn
<1> HIDE DEF E, p, e
<1>4. e.status = "available"
  BY <1>3 DEF Primary, RequireAvailable, Rejects, Unavailable, E, p
<1> QED
  BY <1>1, <1>2, <1>4, PrimaryNames DEF E, p

\* Whom the policies let in: the sender, or a caller without a name where they ask
\* for no name.
LetsIn(d, r, a) ==
    IF a.authenticated THEN a.principal = r.sender
    ELSE d.policy \in {"none", "observe"} \/ (d.policy = "require" /\ r.sound)

\* The first of a set of indices.
LEMMA FirstIndex ==
  ASSUME NEW s, DOMAIN s \in SUBSET Nat, NEW S \in SUBSET DOMAIN s, S # {}
  PROVE  (CHOOSE j \in S : \A k \in S : j <= k) \in S
<1>1. S \in SUBSET Nat
  OBVIOUS
<1>2. \E j \in S : \A k \in S : j <= k
  BY <1>1, LeastExists, Zenon
<1> QED
  BY <1>2, Zenon

LEMMA DeploymentAdmits ==
  ASSUME NEW d, NEW r, d.providers \in Seq(Elements(d.providers)), d.policy # "none" => d.providers # <<>>,
         WhoisOK(r.whois), SenderOK(d, r), SoundOK(d, r), NEW fault \in Faults \cup {"none"},
         DeploymentIdentity(d, r, fault).outcome = "auth"
  PROVE  LetsIn(d, r, DeploymentIdentity(d, r, fault).auth)
<1> DEFINE first == DeploymentIdentity(d, r, fault)
           app == Fixture(d, r)
           names == [j \in DOMAIN d.providers |-> ProviderName(d.providers[j])]
           E == Evidence(d, r, fault)
<1>1. Rejects.outcome # "auth" /\ Unavailable.outcome # "auth" /\ Accepts(app).auth = app
  BY DEF Rejects, Unavailable, Accepts
<1>2. \/ d.headerAuth /\ r.principal # NoPrincipal /\ app.authenticated /\ app.principal = r.principal
      \/ ~app.authenticated
  BY DEF Fixture, Auth, Anonymous
<1>3. CASE d.providers = <<>>
  <2>1. first = Accepts(app) /\ d.policy = "none"
    BY <1>3 DEF DeploymentIdentity
  <2> QED
    BY <1>1, <1>2, <2>1 DEF LetsIn, SenderOK
<1>4. CASE d.providers # <<>>
  <2>1. 1 \in DOMAIN d.providers /\ DOMAIN names = DOMAIN d.providers /\ DOMAIN names \in SUBSET Nat
    BY <1>4
  <2> HIDE DEF app, names, E
  <2>2. ~Ambiguous(d)
    BY <1>1, <1>4 DEF DeploymentIdentity
  <2>3. ASSUME NEW j \in DOMAIN d.providers, Primary(E, names[j]).outcome = "auth"
        PROVE  /\ Primary(E, names[j]).auth.authenticated = TRUE
               /\ Primary(E, names[j]).auth.principal \in Vouched(d.providers[j], r)
    BY <2>2, <2>3, PeerPrincipal DEF E, names
  <2>4. CASE d.policy \in {"none", "observe"}
    <3>1. first \in {Rejects, Accepts(app)}
      BY <1>4, <2>4 DEF DeploymentIdentity, app
    <3> QED
      BY <1>1, <1>2, <2>4, <3>1 DEF LetsIn, SenderOK
  <2>5. CASE d.policy = "require"
    <3>1. first \in {Rejects, RequireAvailable(E, names[1], Accepts(app))}
      BY <1>4, <2>5 DEF DeploymentIdentity, app, names, E
    <3>2. first = Accepts(app) /\ StatusIn(E, names[1]) = "available"
      BY <1>1, <3>1 DEF RequireAvailable
    <3>3. names[1] \in DOMAIN E /\ E[names[1]] = Provide(d, d.providers[1], r, fault)
      <4>1. names[1] = ProviderName(d.providers[1])
        BY <2>1 DEF names
      <4>2. /\ ProviderName(d.providers[1]) \in DOMAIN Evidence(d, r, fault)
            /\ Evidence(d, r, fault)[ProviderName(d.providers[1])] = Provide(d, d.providers[1], r, fault)
        <5>1. ASSUME NEW j \in DOMAIN d.providers
              PROVE  /\ ProviderName(d.providers[j]) \in DOMAIN Evidence(d, r, fault)
                     /\ Evidence(d, r, fault)[ProviderName(d.providers[j])] = Provide(d, d.providers[j], r, fault)
          BY <2>2, EvidenceAt
        <5> QED
          BY <2>1, <5>1
      <4> QED
        BY <4>1, <4>2 DEF E
    <3>4. Provide(d, d.providers[1], r, fault).status = "available"
      BY <3>2, <3>3 DEF StatusIn
    <3>5. Provide(d, d.providers[1], r, "none").status = "available"
      BY <3>4, FaultyEvidence
    <3>6. r.sound
      BY <1>4, <2>5, <3>5 DEF SoundOK
    <3> QED
      BY <1>1, <1>2, <2>5, <3>2, <3>6 DEF LetsIn, SenderOK
  <2>6. CASE d.policy = "primary"
    <3>1. first \in {Rejects, Primary(E, names[1])}
      BY <1>4, <2>6 DEF DeploymentIdentity, names, E
    <3>2. Vouched(d.providers[1], r) \subseteq {r.sender}
      BY <2>1, <2>6 DEF SenderOK
    <3> QED
      BY <1>1, <2>1, <2>3, <3>1, <3>2 DEF LetsIn
  <2>7. CASE d.policy = "any"
    <3> DEFINE ready == {j \in DOMAIN names : Cardinality(Eligible(E, names[j])) = 1}
               one == CHOOSE j \in ready : \A k \in ready : j <= k
    <3>1. ready # {} => one \in DOMAIN d.providers
      BY <2>1, FirstIndex
    <3>2. first \in {Rejects, AnyOf(E, names, app)}
      BY <1>4, <2>7 DEF DeploymentIdentity, app, names, E
    <3>3. \/ AnyOf(E, names, app) \in {Rejects, Unavailable}
          \/ AnyOf(E, names, app) = Accepts(app) /\ app.authenticated
          \/ ready # {} /\ AnyOf(E, names, app) = Primary(E, names[one])
      BY DEF AnyOf
    <3> HIDE DEF ready, one
    <3>4. ready # {} => Vouched(d.providers[one], r) \subseteq {r.sender}
      BY <3>1, <2>7 DEF SenderOK
    <3>5. CASE first = Accepts(app) /\ app.authenticated
      BY <1>1, <1>2, <2>7, <3>5 DEF LetsIn, SenderOK
    <3>6. CASE ready # {} /\ first = Primary(E, names[one])
      BY <2>3, <3>1, <3>4, <3>6 DEF LetsIn
    <3> QED
      BY <1>1, <3>2, <3>3, <3>5, <3>6
  <2>8. CASE d.policy \notin {"none", "observe", "require", "primary", "any"}
    <3> DEFINE failed == {j \in DOMAIN names : Primary(E, names[j]).outcome # "auth"}
               one == CHOOSE j \in failed : \A k \in failed : j <= k
    <3>1. first \in {Rejects, AllOf(E, names, app)}
      BY <1>4, <2>8 DEF DeploymentIdentity, app, names, E
    <3>2. failed # {} => one \in failed
      BY <2>1, FirstIndex
    <3>3. failed # {} => Primary(E, names[one]).outcome # "auth"
      BY <3>2
    <3>4. \/ AllOf(E, names, app) = Rejects
          \/ failed # {} /\ AllOf(E, names, app) = Primary(E, names[one])
          \/ /\ failed = {} /\ AllOf(E, names, app) = Accepts(Primary(E, names[1]).auth)
             /\ app.authenticated
             /\ \A j \in DOMAIN names : app.principal = Primary(E, names[j]).auth.principal
      BY DEF AllOf, Links
    <3>5. /\ failed = {} /\ first = Accepts(Primary(E, names[1]).auth) /\ app.authenticated
          /\ \A j \in DOMAIN names : app.principal = Primary(E, names[j]).auth.principal
      <4> HIDE DEF failed, one
      <4> QED
        BY <1>1, <3>1, <3>3, <3>4
    <3>6. \A j \in DOMAIN d.providers : Primary(E, names[j]).outcome = "auth"
      BY <2>1, <3>5
    <3>7. \A j \in DOMAIN d.providers : app.principal \in Vouched(d.providers[j], r)
      <4> SUFFICES ASSUME NEW j \in DOMAIN d.providers PROVE app.principal \in Vouched(d.providers[j], r)
        OBVIOUS
      <4>1. Primary(E, names[j]).auth.principal \in Vouched(d.providers[j], r)
        BY <2>3, <3>6
      <4> QED
        BY <2>1, <3>5, <4>1
    <3>8. \/ r.principal = r.sender
          \/ \E j \in DOMAIN d.providers : Vouched(d.providers[j], r) \subseteq {r.sender}
      BY <1>2, <2>8, <3>5 DEF SenderOK
    <3>9. app.principal = r.sender
      BY <1>2, <3>5, <3>7, <3>8
    <3>10. first.auth = Primary(E, names[1]).auth
      BY <3>5 DEF Accepts
    <3>11. first.auth.principal = r.sender /\ first.auth.authenticated = TRUE
      BY <2>1, <2>3, <3>5, <3>6, <3>9, <3>10
    <3> QED
      BY <3>11 DEF LetsIn
  <2> QED
    BY <2>4, <2>5, <2>6, <2>7, <2>8
<1> QED
  BY <1>3, <1>4

\* And the bearers: a token is the sender's, and a worker that asks for one is not
\* open.
LEMMA IdentityAdmits ==
  ASSUME NEW d, NEW r, d.providers \in Seq(Elements(d.providers)), d.policy # "none" => d.providers # <<>>,
         WhoisOK(r.whois), SenderOK(d, r), SoundOK(d, r), NEW fault \in Faults \cup {"none"},
         NEW reachable, NEW time, HttpIdentity(d, r, fault, reachable, time).outcome = "auth"
  PROVE  LET a == HttpIdentity(d, r, fault, reachable, time).auth IN
         IF a.authenticated THEN a.principal = r.sender ELSE Open(d, r)
<1> DEFINE first == DeploymentIdentity(d, r, fault)
           final == HttpIdentity(d, r, fault, reachable, time)
           chain == BearerChain(d, r, first, reachable, time)
           t == r.token
           grant == Auth("grant", t.owner, NoTime)
           token == Auth("token", t.owner, NoTime)
           login == Auth("bearer", t.owner, t.authTime)
<1>1. /\ Rejects.outcome # "auth" /\ Unavailable.outcome # "auth"
      /\ \A a \in {grant, token, login} : a.authenticated = TRUE /\ a.principal = t.owner /\ Accepts(a).auth = a
  BY DEF Rejects, Unavailable, Accepts, Auth
<1> HIDE DEF grant, token, login
<1>2. first.outcome = "auth" => LetsIn(d, r, first.auth)
  BY DeploymentAdmits
<1>3. IdentityBearers(d, t, reachable, time) \in {Rejects, Unavailable} \/
      (t.owner = r.sender /\ \E a \in {grant, token} : IdentityBearers(d, t, reachable, time) = Accepts(a))
  <2>1. \/ IdentityBearers(d, t, reachable, time) \in {Rejects, Unavailable}
        \/ /\ IdentityBearers(d, t, reachable, time) = Accepts(grant)
           /\ GrantVerdict(t, d.keys, d.maxTtl, d.grantSkew, time) = "ok"
        \/ IdentityBearers(d, t, reachable, time) = Accepts(token) /\ Resolves(t, reachable) = "auth"
    BY DEF IdentityBearers, grant, token
  <2>2. GrantVerdict(t, d.keys, d.maxTtl, d.grantSkew, time) = "ok" => t.key \in Elements(d.keys)
    BY DEF GrantVerdict, Opens, Elements
  <2>3. Resolves(t, reachable) = "auth" => t.key = "store"
    BY DEF Resolves
  <2>4. t.key \in {"store"} \cup Elements(d.keys) => t.owner = r.sender
    BY DEF SenderOK
  <2> QED
    BY <2>1, <2>2, <2>3, <2>4
<1>4. \/ chain \in {Rejects, Unavailable, IdentityBearers(d, t, reachable, time)}
      \/ chain = first /\ d.bearer # "on"
      \/ chain = Accepts(login) /\ t.owner = r.sender
  <2>1. BearerHook(t, reachable) \notin {"pass", "unavailable"} => t.key = "issuer"
    BY DEF BearerHook
  <2>2. t.key = "issuer" => t.owner = r.sender
    BY DEF SenderOK
  <2>3. \/ chain \in {Rejects, Unavailable, IdentityBearers(d, t, reachable, time)}
        \/ chain = first /\ d.bearer # "on"
        \/ chain = Accepts(login) /\ BearerHook(t, reachable) \notin {"pass", "unavailable"}
    BY DEF BearerChain, login
  <2> QED
    BY <2>1, <2>2, <2>3
<1>5. \/ final = first /\ (first.outcome # "auth" \/ first.auth.authenticated \/ d.bearer = "off")
      \/ final = chain /\ first.outcome = "auth" /\ ~first.auth.authenticated
  BY DEF HttpIdentity
<1> HIDE DEF first, final, chain
<1>6. CASE final = first
  <2>1. first.outcome = "auth" /\ LetsIn(d, r, first.auth)
    BY <1>2, <1>6 DEF final
  <2>2. first.auth.authenticated \/ d.bearer # "on"
    BY <1>4, <1>5, <1>6, <2>1, <1>1, <1>3
  <2> QED
    BY <1>6, <2>1, <2>2 DEF final, LetsIn, Open
<1>7. CASE final = chain /\ final # first
  <2>1. final.outcome = "auth"
    BY DEF final
  <2>2. \E a \in {grant, token, login} : final = Accepts(a) /\ t.owner = r.sender
    BY <1>1, <1>3, <1>4, <1>7, <2>1
  <2>3. final.auth.authenticated = TRUE /\ final.auth.principal = r.sender
    BY <1>1, <2>2
  <2> QED
    BY <2>3 DEF final
<1> QED
  BY <1>5, <1>6, <1>7

\* What an outage does to the evidence of a provider, and to the principal in it.
LEMMA OutageAt ==
  ASSUME NEW d, ~Ambiguous(d), NEW r, WhoisOK(r.whois), NEW fault \in Faults \cup {"none"},
         ~CutUnnoticed(r, fault), NEW j \in DOMAIN d.providers
  PROVE  LET p == ProviderName(d.providers[j])
             E == Evidence(d, r, "none")
             F == Evidence(d, r, fault)
         IN  \/ /\ StatusIn(F, p) = StatusIn(E, p) /\ Eligible(F, p) = Eligible(E, p)
                /\ Primary(F, p) = Primary(E, p)
             \/ StatusIn(F, p) = "unavailable" /\ Eligible(F, p) = {} /\ Primary(F, p) = Unavailable
<1> DEFINE p == ProviderName(d.providers[j])
           E == Evidence(d, r, "none")
           F == Evidence(d, r, fault)
           kind == d.providers[j]
<1>1. p \in DOMAIN E /\ E[p] = Provide(d, kind, r, "none") /\ p \in DOMAIN F /\ F[p] = Provide(d, kind, r, fault)
  BY EvidenceAt
<1>2. F[p] \in {E[p], Result("unavailable")}
  BY <1>1, FaultyEvidence
<1> HIDE DEF p, E, F
<1>3. CASE F[p] = E[p]
  <2>1. StatusIn(F, p) = StatusIn(E, p) /\ Eligible(F, p) = Eligible(E, p)
    BY <1>1, <1>3 DEF StatusIn, Eligible
  <2>2. Primary(F, p) = Primary(E, p)
    BY <2>1 DEF Primary, RequireAvailable
  <2> QED
    BY <2>1, <2>2 DEF p, E, F
<1>4. CASE F[p] = Result("unavailable")
  <2>1. StatusIn(F, p) = "unavailable" /\ Eligible(F, p) = {}
    BY <1>1, <1>4, ResultFields DEF StatusIn, Eligible
  <2>2. Primary(F, p) = Unavailable
    BY <2>1 DEF Primary, RequireAvailable
  <2> QED
    BY <2>1, <2>2 DEF p, F
<1> QED
  BY <1>2, <1>3, <1>4

\* A provider with one eligible identity names somebody.
LEMMA ReadyNames ==
  ASSUME NEW E, NEW p \in DOMAIN E, NEW names, E[p].status = "available" \/ E[p].ids = {},
         Cardinality(Eligible(E, p)) = 1
  PROVE  Primary(E, p).outcome = "auth" /\ Primary(E, p).auth.authenticated = TRUE
<1> DEFINE ids == Eligible(E, p)
           one == Accepts(Auth(p, (CHOOSE i \in ids : TRUE).subject, NoTime))
<1>1. one.outcome = "auth" /\ one.auth.authenticated = TRUE
  BY DEF Accepts, Auth
<1>2. Primary(E, p) = RequireAvailable(E, p, IF Cardinality(ids) # 1 THEN Rejects ELSE one)
  BY DEF Primary
<1>3. ids # {}
  BY FS_EmptySet
<1>4. StatusIn(E, p) = "available"
  BY <1>3 DEF Eligible, StatusIn
<1> HIDE DEF ids, one
<1>5. Cardinality(ids) = 1
  BY DEF ids
<1> QED
  BY <1>1, <1>2, <1>4, <1>5 DEF RequireAvailable

\* Where the policies accept with everything up, an outage that is noticed changes nothing, is told
\* as one, or leaves another identity of the caller.
LEMMA PolicyOutage ==
  ASSUME NEW d, NEW r, d.providers \in Seq(Elements(d.providers)), WhoisOK(r.whois),
         NEW fault \in Faults \cup {"none"}, ~CutUnnoticed(r, fault), DeploymentIdentity(d, r, "none").outcome = "auth"
  PROVE  \/ DeploymentIdentity(d, r, fault) = DeploymentIdentity(d, r, "none")
         \/ DeploymentIdentity(d, r, fault) = Unavailable
         \/ /\ DeploymentIdentity(d, r, fault).outcome = "auth"
            /\ DeploymentIdentity(d, r, fault).auth.authenticated
<1> DEFINE good == DeploymentIdentity(d, r, "none")
           bad == DeploymentIdentity(d, r, fault)
           app == Fixture(d, r)
           names == [j \in DOMAIN d.providers |-> ProviderName(d.providers[j])]
           E == Evidence(d, r, "none")
           F == Evidence(d, r, fault)
<1>1. Rejects.outcome # "auth" /\ Unavailable.outcome # "auth" /\ Accepts(app).auth = app /\ Accepts(app).outcome = "auth"
  BY DEF Rejects, Unavailable, Accepts
<1>2. CASE d.providers = <<>>
  BY <1>2 DEF DeploymentIdentity
<1>3. CASE d.providers # <<>>
  <2>1. 1 \in DOMAIN d.providers /\ DOMAIN names = DOMAIN d.providers /\ DOMAIN names \in SUBSET Nat
    BY <1>3
  <2> HIDE DEF app, names, E, F
  <2>2. ~Ambiguous(d) /\ ValidContext(r.ctx)
    BY <1>1, <1>3 DEF DeploymentIdentity
  <2>3. ASSUME NEW j \in DOMAIN names
        PROVE  \/ /\ StatusIn(F, names[j]) = StatusIn(E, names[j]) /\ Eligible(F, names[j]) = Eligible(E, names[j])
                  /\ Primary(F, names[j]) = Primary(E, names[j])
               \/ /\ StatusIn(F, names[j]) = "unavailable" /\ Eligible(F, names[j]) = {}
                  /\ Primary(F, names[j]) = Unavailable
    BY <2>1, <2>2, OutageAt DEF E, F, names
  <2>4. CASE d.policy \in {"none", "observe"}
    BY <1>3, <2>4 DEF DeploymentIdentity
  <2>5. CASE d.policy = "require"
    <3>1. /\ good = RequireAvailable(E, names[1], Accepts(app))
          /\ bad = RequireAvailable(F, names[1], Accepts(app))
      BY <1>3, <2>2, <2>5 DEF DeploymentIdentity, app, names, E, F
    <3>2. StatusIn(F, names[1]) \in {StatusIn(E, names[1]), "unavailable"}
      BY <2>1, <2>3
    <3> QED
      BY <3>1, <3>2 DEF RequireAvailable
  <2>6. CASE d.policy = "primary"
    <3>1. good = Primary(E, names[1]) /\ bad = Primary(F, names[1])
      BY <1>3, <2>2, <2>6 DEF DeploymentIdentity, names, E, F
    <3> QED
      BY <2>1, <2>3, <3>1
  <2>7. CASE d.policy = "any"
    <3> DEFINE ready == {j \in DOMAIN names : Cardinality(Eligible(F, names[j])) = 1}
               one == CHOOSE j \in ready : \A k \in ready : j <= k
               refuses(G) == \E j \in DOMAIN names : \/ StatusIn(G, names[j]) \in {"invalid", "untrusted_proxy"}
                                                     \/ Cardinality(Eligible(G, names[j])) > 1
               down(G) == \E j \in DOMAIN names : StatusIn(G, names[j]) \in {"unavailable", "permission_denied"}
    <3>1. good = AnyOf(E, names, app) /\ bad = AnyOf(F, names, app)
      BY <1>3, <2>2, <2>7 DEF DeploymentIdentity, app, names, E, F
    <3>2. ~refuses(E)
      BY <1>1, <3>1 DEF AnyOf
    <3>3. ~refuses(F)
      <4> SUFFICES ASSUME NEW j \in DOMAIN names
                   PROVE  /\ StatusIn(F, names[j]) \notin {"invalid", "untrusted_proxy"}
                          /\ ~(Cardinality(Eligible(F, names[j])) > 1)
        OBVIOUS
      <4>1. Cardinality({}) = 0
        BY FS_EmptySet
      <4>2. /\ StatusIn(E, names[j]) \notin {"invalid", "untrusted_proxy"}
            /\ ~(Cardinality(Eligible(E, names[j])) > 1)
        BY <3>2
      <4>3. CASE StatusIn(F, names[j]) = StatusIn(E, names[j]) /\ Eligible(F, names[j]) = Eligible(E, names[j])
        BY <4>2, <4>3
      <4>4. CASE StatusIn(F, names[j]) = "unavailable" /\ Eligible(F, names[j]) = {}
        BY <4>1, <4>4
      <4> QED
        BY <2>3, <4>3, <4>4
    <3>4. bad = IF app.authenticated THEN Accepts(app)
                ELSE IF ready # {} THEN Primary(F, names[one])
                ELSE IF down(F) THEN Unavailable ELSE Rejects
      BY <3>1, <3>3 DEF AnyOf
    <3>5. CASE app.authenticated
      <4>1. good = Accepts(app)
        BY <3>1, <3>2, <3>5 DEF AnyOf
      <4> QED
        BY <3>4, <3>5, <4>1
    <3>6. CASE ready # {}
      <4>1. one \in ready
        BY <2>1, <3>6, FirstIndex
      <4>2. one \in DOMAIN d.providers /\ Cardinality(Eligible(F, names[one])) = 1
        BY <2>1, <4>1
      <4> HIDE DEF ready, one
      <4>3. /\ names[one] \in DOMAIN F /\ F[names[one]] = Provide(d, d.providers[one], r, fault)
        BY <2>2, <4>2, EvidenceAt DEF F, names
      <4>4. F[names[one]].status = "available" \/ F[names[one]].ids = {}
        <5>1. EvidenceOK(Provide(d, d.providers[one], r, "none"), Vouched(d.providers[one], r))
          BY EvidenceNames
        <5>2. Provide(d, d.providers[one], r, fault) \in {Provide(d, d.providers[one], r, "none"), Result("unavailable")}
          BY FaultyEvidence
        <5> QED
          BY <4>3, <5>1, <5>2, ResultFields DEF EvidenceOK
      <4>5. Primary(F, names[one]).outcome = "auth" /\ Primary(F, names[one]).auth.authenticated = TRUE
        BY <4>2, <4>3, <4>4, ReadyNames
      <4> QED
        BY <3>4, <3>5, <3>6, <4>5
    <3>7. CASE ~app.authenticated /\ ready = {}
      <4>1. {j \in DOMAIN names : Cardinality(Eligible(E, names[j])) = 1} # {}
        BY <1>1, <3>1, <3>2, <3>7 DEF AnyOf
      <4>2. PICK j \in DOMAIN names : Cardinality(Eligible(E, names[j])) = 1
        BY <4>1
      <4>3. Cardinality(Eligible(F, names[j])) # 1
        BY <3>7
      <4>4. StatusIn(F, names[j]) = "unavailable"
        BY <2>3, <4>2, <4>3
      <4>5. down(F)
        BY <4>4
      <4> QED
        BY <3>4, <3>7, <4>5
    <3> QED
      BY <3>5, <3>6, <3>7
  <2>8. CASE d.policy \notin {"none", "observe", "require", "primary", "any"}
    <3> DEFINE failed(G) == {j \in DOMAIN names : Primary(G, names[j]).outcome # "auth"}
               one == CHOOSE j \in failed(F) : \A k \in failed(F) : j <= k
               e1 == CHOOSE j \in failed(E) : \A k \in failed(E) : j <= k
               linked(G) == \A j \in DOMAIN names : Links(app.principal, Primary(G, names[j]).auth.principal)
    <3>1. good = AllOf(E, names, app) /\ bad = AllOf(F, names, app)
      BY <1>3, <2>2, <2>8 DEF DeploymentIdentity, app, names, E, F
    <3>2. /\ good = IF ~app.authenticated THEN Rejects
                    ELSE IF failed(E) # {} THEN Primary(E, names[e1])
                    ELSE IF ~linked(E) THEN Rejects ELSE Accepts(Primary(E, names[1]).auth)
          /\ bad = IF ~app.authenticated THEN Rejects
                   ELSE IF failed(F) # {} THEN Primary(F, names[one])
                   ELSE IF ~linked(F) THEN Rejects ELSE Accepts(Primary(F, names[1]).auth)
      BY <3>1 DEF AllOf
    <3>3. failed(E) # {} => e1 \in failed(E)
      BY <2>1, FirstIndex
    <3>4. failed(E) # {} => Primary(E, names[e1]).outcome # "auth"
      BY <3>3
    <3>5. app.authenticated /\ failed(E) = {} /\ linked(E) /\ good = Accepts(Primary(E, names[1]).auth)
      <4> HIDE DEF failed, e1, linked, one
      <4> QED
        BY <1>1, <3>2, <3>4
    <3>6. CASE failed(F) # {}
      <4>1. one \in failed(F)
        BY <2>1, <3>6, FirstIndex
      <4>2. one \in DOMAIN names /\ Primary(F, names[one]).outcome # "auth"
        BY <4>1
      <4> HIDE DEF one
      <4>3. Primary(E, names[one]).outcome = "auth"
        BY <3>5, <4>2
      <4>4. Primary(F, names[one]) = Unavailable
        BY <2>3, <4>2, <4>3
      <4> QED
        BY <3>2, <3>5, <3>6, <4>4
    <3>7. CASE failed(F) = {}
      <4>1. \A j \in DOMAIN names : Primary(F, names[j]).outcome = "auth"
        BY <3>7
      <4>2. \A j \in DOMAIN names : Primary(F, names[j]) = Primary(E, names[j])
        BY <1>1, <2>3, <4>1
      <4>3. linked(F)
        BY <3>5, <4>2
      <4>4. bad = Accepts(Primary(F, names[1]).auth)
        <5> HIDE DEF linked, failed
        <5> QED
          BY <3>2, <3>5, <3>7, <4>3
      <4> QED
        BY <2>1, <3>5, <4>2, <4>4
    <3> QED
      BY <3>6, <3>7
  <2> QED
    BY <2>4, <2>5, <2>6, <2>7, <2>8
<1> QED
  BY <1>2, <1>3

\* And with the bearers: services that are down make no refusal of an acceptance.
LEMMA OutageTold ==
  ASSUME NEW d, NEW r, d.providers \in Seq(Elements(d.providers)), WhoisOK(r.whois),
         NEW fault \in Faults \cup {"none"}, ~CutUnnoticed(r, fault), NEW reachable \in BOOLEAN, NEW time,
         HttpIdentity(d, r, "none", TRUE, time).outcome = "auth"
  PROVE  HttpIdentity(d, r, fault, reachable, time).outcome # "rejected"
<1> DEFINE good == DeploymentIdentity(d, r, "none")
           bad == DeploymentIdentity(d, r, fault)
           t == r.token
<1>1. /\ Rejects.outcome = "rejected" /\ Unavailable.outcome = "unavailable"
      /\ \A a : Accepts(a).outcome = "auth"
  BY DEF Rejects, Unavailable, Accepts
<1>2. good.outcome = "auth"
  BY DEF HttpIdentity
<1>3. bad = good \/ bad = Unavailable \/ (bad.outcome = "auth" /\ bad.auth.authenticated)
  BY <1>2, PolicyOutage
<1>4. CASE bad = Unavailable \/ (bad.outcome = "auth" /\ bad.auth.authenticated)
  BY <1>1, <1>4 DEF HttpIdentity
<1>5. CASE bad = good
  <2>1. CASE good.auth.authenticated \/ (d.bearer = "off" /\ ~IdentityBearer(d))
    BY <1>2, <1>5, <2>1 DEF HttpIdentity
  <2>2. CASE ~(good.auth.authenticated \/ (d.bearer = "off" /\ ~IdentityBearer(d)))
    <3> DEFINE up1 == BearerChain(d, r, good, TRUE, time)
               now1 == BearerChain(d, r, good, reachable, time)
    <3>1. /\ HttpIdentity(d, r, "none", TRUE, time) = up1
          /\ HttpIdentity(d, r, fault, reachable, time) = now1
      BY <1>2, <1>5, <2>2 DEF HttpIdentity
    <3>2. \/ IdentityBearers(d, t, reachable, time) = IdentityBearers(d, t, TRUE, time)
          \/ IdentityBearers(d, t, reachable, time) = Unavailable
      BY DEF IdentityBearers, Resolves
    <3>3. BearerHook(t, reachable) \in {BearerHook(t, TRUE), "unavailable"}
      BY DEF BearerHook
    <3>4. now1 = up1 \/ now1 = Unavailable
      BY <3>2, <3>3 DEF BearerChain
    <3>5. up1.outcome = "auth"
      BY <3>1
    <3> HIDE DEF up1, now1
    <3> QED
      BY <1>1, <3>1, <3>4, <3>5
  <2> QED
    BY <2>1, <2>2
<1> QED
  BY <1>3, <1>4, <1>5

-----------------------------------------------------------------------------
(* Who learns what.                                                        *)

\* What a request that was sent says of its sender, as SenderAssumption has it.
LabelsOK(d, r) == WhoisOK(r.whois) /\ SenderOK(d, r) /\ SoundOK(d, r)

\* The start hook is behind the request.
Proceeds(x) == x.at \notin {"idle", "start", "hook"} /\ x.answer # "start_failed"

\* The proof, and the identity, are behind the request, and they did not stop it.
Proven(x) == x.at \notin {"idle", "start", "hook", "proof", "nonce"} /\ x.answer \notin Uninformative
Named(x) == x.at # "identify" /\ Proven(x)

\* What the stages behind a handler established stays with it until it answers.
AdmissionOK(d, x) ==
    /\ x.at # "idle" => LabelsOK(d, x.req)
    /\ x.at = "nonce" \/ (Proven(x) /\ d.proof = "require") => x.req.proof.mac = "ours"
    /\ Named(x) => IF x.auth.authenticated THEN x.auth.principal = x.req.sender ELSE Open(d, x.req)
    /\ x.answer = "unauthorized" => ~x.req.sound \/ CutUnnoticed(x.req, x.fault)

\* One thread runs the hook; nobody goes on unless it returned.
StartInv ==
    /\ \A i \in Handlers : h[i].at = "hook" => started = "running"
    /\ \A i, j \in Handlers : h[i].at = "hook" /\ h[j].at = "hook" => i = j
    /\ \A i \in Handlers : Proceeds(h[i]) => started = "yes"

AdmissionInv ==
    /\ now \in 0..dep.horizon /\ up \in BOOLEAN
    /\ \A i \in Handlers : AdmissionOK(dep, h[i])
    /\ StartInv

Unnamed == {"idle", "start", "hook", "proof", "nonce", "identify"}

\* A step past the identity: the request and its caller stay, and no answer says
\* that the caller is not who it says.
Carries(x, y) ==
    /\ DOMAIN y = HandlerFields
    /\ y.req = x.req /\ y.auth = x.auth /\ y.at \notin Unnamed /\ y.answer # "unauthorized"

LEMMA CarriesAnswer ==
  ASSUME NEW x, NEW y, Carries(x, y), NEW w, w # "unauthorized"
  PROVE  Carries(x, Answer(y, w))
  BY DEF Carries, Answer, HandlerFields, Unnamed

\* A handler past the identity has not been refused.
LEMMA PastIdentity ==
  ASSUME HandlerInv, NEW i \in Handlers,
         h[i].at \in {"route", "fetch", "gate", "call", "alloc", "put", "mint", "resolve"}
  PROVE  Carries(h[i], h[i]) /\ h[i].answer \in {"", "pointer"} /\ Shaped(h[i])
  BY DEF HandlerInv, HandlerOK, Shaped, PhaseOK, ReferenceOK, Carries, Unnamed

LEMMA RouteCarries ==
  ASSUME HandlerInv, NEW i \in Handlers, Route(i)
  PROVE  \E y : Carries(h[i], y) /\ h' = [h EXCEPT ![i] = y]
<1> DEFINE x == h[i]
           route == RoutePath(dep.protocols, HostsIdentity, x.req.path)
<1>1. Carries(x, x) /\ h' = [h EXCEPT ![i] = Enter(x, route)]
  BY PastIdentity DEF Route
<1>2. route.error \in {"no_route", "none", "no_protocol"}
  BY DEF RoutePath, NotFound, Routed
<1> HIDE DEF x, route
<1>3. RouteGate(x.req, route) # "unauthorized"
  BY <1>2 DEF RouteGate
<1> DEFINE y == [x EXCEPT !.at = "fetch", !.route = route, !.fetch = NewFetch("server", x.req.pointer, x.req.sha)]
           z == [x EXCEPT !.at = "gate", !.route = route, !.body = x.req.body]
<1>4. Carries(x, y) /\ Carries(x, z)
  BY <1>1 DEF HandlerFields, Carries, Unnamed
<1>5. Enter(x, route) \in {Answer(x, RouteGate(x.req, route)), y, z}
  BY DEF Enter
<1> HIDE DEF y, z
<1>6. Carries(x, Enter(x, route))
  BY <1>1, <1>3, <1>4, <1>5, CarriesAnswer
<1> QED
  BY <1>1, <1>6 DEF x

LEMMA FetchCarries ==
  ASSUME HandlerInv, NEW i \in Handlers, FetchParameters(i)
  PROVE  \E y : Carries(h[i], y) /\ h' = [h EXCEPT ![i] = y]
<1> DEFINE x == h[i]
<1>1. Carries(x, x)
  BY PastIdentity DEF FetchParameters
<1>2. \E f : h' = [h EXCEPT ![i] = AfterFetch(x, f)]
  BY Zenon DEF FetchParameters
<1>3. PICK f : h' = [h EXCEPT ![i] = AfterFetch(x, f)]
  BY <1>2
<1> DEFINE y == [x EXCEPT !.fetch = f]
           z == [x EXCEPT !.at = "gate", !.fetch = f, !.body = f.body]
<1> HIDE DEF x
<1>4. Carries(x, y) /\ Carries(x, z)
  BY <1>1 DEF HandlerFields, Carries, Unnamed
<1>5. AfterFetch(x, f) \in {Answer(y, "no_parameters"), y, z}
  BY DEF AfterFetch
<1> HIDE DEF y, z
<1>6. Carries(x, AfterFetch(x, f))
  BY <1>4, <1>5, CarriesAnswer
<1> QED
  BY <1>3, <1>6 DEF x

LEMMA GateCarries ==
  ASSUME HandlerInv, NEW i \in Handlers, Gate(i)
  PROVE  \E y : Carries(h[i], y) /\ h' = [h EXCEPT ![i] = y]
<1> DEFINE x == h[i]
           b == Payloads[x.body]
           gate == CallGate(x.route, b)
           y == [x EXCEPT !.at = "call"]
<1>1. Carries(x, x) /\ h' = [h EXCEPT ![i] = Passed(x, gate)]
  BY PastIdentity DEF Gate
<1>2. gate # "unauthorized"
  <2>1. HttpVerdict(dep.protocols, x.route, b) \in {"bad_request", "no_method", "ok"}
    BY DEF HttpVerdict, LookupVerdict
  <2>2. ServeFramework(x.route, b) \in {"no_method", "error", "ok"}
    BY DEF ServeFramework
  <2> QED
    BY <2>1, <2>2 DEF CallGate
<1> HIDE DEF x, gate
<1>3. Carries(x, y)
  BY <1>1 DEF HandlerFields, Carries, Unnamed
<1>4. Passed(x, gate) \in {Answer(x, gate), y}
  BY DEF Passed
<1> HIDE DEF y
<1>5. Carries(x, Passed(x, gate))
  BY <1>1, <1>2, <1>3, <1>4, CarriesAnswer
<1> QED
  BY <1>1, <1>5 DEF x

\* An answer with a pointer in it.
LEMMA CarriesRefer ==
  ASSUME NEW x, NEW y, Carries(x, y), NEW url, NEW sha
  PROVE  Carries(x, Refer(y, url, sha))
<1> DEFINE z == Answer(y, "pointer")
<1>1. Carries(x, z)
  BY CarriesAnswer
<1>2. Refer(y, url, sha) = [z EXCEPT !.pointer = [url |-> url, sha |-> sha]]
  BY DEF Refer
<1> HIDE DEF z
<1> QED
  BY <1>1, <1>2 DEF Carries, HandlerFields, Unnamed

LEMMA CallCarries ==
  ASSUME HandlerInv, NEW i \in Handlers, Call(i)
  PROVE  \E y : Carries(h[i], y) /\ h' = [h EXCEPT ![i] = y]
<1> DEFINE x == h[i]
           route == x.route
<1>1. Carries(x, x)
  BY PastIdentity DEF Call
<1>2. CASE h' = [h EXCEPT ![i] = Answer(x, ReflectionVerdict(dep.protocols, HostsIdentity, Payloads[x.body]))]
  <2>1. ReflectionVerdict(dep.protocols, HostsIdentity, Payloads[x.body]) # "unauthorized"
    BY DEF ReflectionVerdict
  <2> QED
    BY <1>1, <1>2, <2>1, CarriesAnswer
<1>3. CASE h' = [h EXCEPT ![i] = Answer(x, Introspect(x, x.req.subject))]
  <2>1. Introspect(x, x.req.subject) # "unauthorized"
    BY DEF Introspect
  <2> QED
    BY <1>1, <1>3, <2>1, CarriesAnswer
<1>4. CASE h' = [h EXCEPT ![i] = BeginGrant(x)]
  <2> DEFINE y == [x EXCEPT !.at = "mint", !.checkedAt = now]
  <2>1. BeginGrant(x) \in {y, Answer(x, "error")}
    BY DEF BeginGrant
  <2> HIDE DEF x
  <2>2. Carries(x, y)
    BY <1>1 DEF HandlerFields, Carries, Unnamed
  <2> HIDE DEF y
  <2>3. Carries(x, BeginGrant(x))
    BY <1>1, <2>1, <2>2, CarriesAnswer
  <2> QED
    BY <1>4, <2>3 DEF x
<1>5. CASE h' = [h EXCEPT ![i] = [x EXCEPT !.at = "alloc", !.left = Clamp(1, x.req.count, 100)]]
  <2> DEFINE n == Clamp(1, x.req.count, 100)
             y == [x EXCEPT !.at = "alloc", !.left = n]
  <2> HIDE DEF x, n
  <2>1. Carries(x, y)
    BY <1>1 DEF HandlerFields, Carries, Unnamed
  <2> QED
    BY <1>5, <2>1 DEF x, n
<1>6. ASSUME NEW res, NEW ran, h' = [h EXCEPT ![i] = [Deliver(x, res) EXCEPT !.result = res, !.ran = ran]]
      PROVE  \E y : Carries(x, y) /\ h' = [h EXCEPT ![i] = y]
  <2> DEFINE leaves == [x EXCEPT !.at = "alloc", !.left = 1]
             d == Deliver(x, res)
             y == [d EXCEPT !.result = res, !.ran = ran]
  <2>1. \/ d \in {Answer(x, "error"), Refer(x, dep.published.url, dep.published.sha), leaves}
        \/ \E w \in {"result", "error"} : d = Answer(x, w)
    BY DEF Deliver, Inline
  <2> HIDE DEF x, d
  <2>2. Carries(x, leaves)
    BY <1>1 DEF HandlerFields, Carries, Unnamed
  <2> HIDE DEF leaves
  <2>3. Carries(x, d)
    BY <1>1, <2>1, <2>2, CarriesAnswer, CarriesRefer
  <2>4. Carries(x, y)
    BY <2>3 DEF HandlerFields, Carries, Unnamed
  <2> QED
    BY <1>6, <2>4 DEF d
<1>7. \/ h' = [h EXCEPT ![i] = Answer(x, ReflectionVerdict(dep.protocols, HostsIdentity, Payloads[x.body]))]
      \/ h' = [h EXCEPT ![i] = Answer(x, Introspect(x, x.req.subject))]
      \/ h' = [h EXCEPT ![i] = BeginGrant(x)]
      \/ h' = [h EXCEPT ![i] = [x EXCEPT !.at = "alloc", !.left = Clamp(1, x.req.count, 100)]]
      \/ \E res, ran : h' = [h EXCEPT ![i] = [Deliver(x, res) EXCEPT !.result = res, !.ran = ran]]
  BY Zenon DEF Call
<1> QED
  BY <1>2, <1>3, <1>4, <1>5, <1>6, <1>7, Zenon

LEMMA AllocateCarries ==
  ASSUME HandlerInv, NEW i \in Handlers, Allocate(i)
  PROVE  \E y : Carries(h[i], y) /\ h' = [h EXCEPT ![i] = y]
<1> DEFINE x == h[i]
<1>1. Carries(x, x)
  BY PastIdentity DEF Allocate
<1>2. PICK r \in Allocations : h' = [h EXCEPT ![i] = Allocated(x, r)]
  BY DEF Allocate
<1> DEFINE y == [x EXCEPT !.at = "put", !.pair = AllocatedPair(r)]
           z == [x EXCEPT !.left = x.left - 1]
<1>3. \/ Allocated(x, r) \in {Answer(x, "error"), y, z}
      \/ \E w \in {"result", "error"} : Allocated(x, r) = Answer(x, w)
  BY DEF Allocated, Inline
<1> HIDE DEF x
<1>4. Carries(x, y) /\ Carries(x, z)
  BY <1>1 DEF HandlerFields, Carries, Unnamed
<1> HIDE DEF y, z
<1>5. Carries(x, Allocated(x, r))
  BY <1>1, <1>3, <1>4, CarriesAnswer
<1> QED
  BY <1>2, <1>5 DEF x

LEMMA UploadCarries ==
  ASSUME HandlerInv, NEW i \in Handlers, Upload(i)
  PROVE  \E y : Carries(h[i], y) /\ h' = [h EXCEPT ![i] = y]
<1> DEFINE x == h[i]
<1>1. Carries(x, x)
  BY PastIdentity DEF Upload
<1>2. PICK status : h' = [h EXCEPT ![i] = Stored(x, status)]
  BY DEF Upload
<1>3. \/ Stored(x, status) = Answer(x, "error")
      \/ \E url, sha : Stored(x, status) = Refer(x, url, sha)
  BY DEF Stored
<1>4. Carries(x, Stored(x, status))
  BY <1>1, <1>3, CarriesAnswer, CarriesRefer
<1> QED
  BY <1>2, <1>4

LEMMA MintCarries ==
  ASSUME HandlerInv, NEW i \in Handlers, Mint(i)
  PROVE  \E y : Carries(h[i], y) /\ h' = [h EXCEPT ![i] = y]
<1> DEFINE x == h[i]
<1>1. Carries(x, x)
  BY PastIdentity DEF Mint
<1>2. h' = [h EXCEPT ![i] = Answer(x, IF x.req.ttl > 0 THEN "result" ELSE "error")]
  BY DEF Mint
<1> QED
  BY <1>1, <1>2, CarriesAnswer

LEMMA ResolveCarries ==
  ASSUME HandlerInv, NEW i \in Handlers, ResolvePointer(i)
  PROVE  \E y : Carries(h[i], y) /\ h' = [h EXCEPT ![i] = y]
<1> DEFINE x == h[i]
<1>1. Carries(x, x)
  BY PastIdentity DEF ResolvePointer
<1>2. \E f : h' = [h EXCEPT ![i] = AfterResolve(x, f)]
  BY Zenon DEF ResolvePointer
<1>3. PICK f : h' = [h EXCEPT ![i] = AfterResolve(x, f)]
  BY <1>2
<1> DEFINE y == [x EXCEPT !.fetch = f]
<1> HIDE DEF x
<1>4. Carries(x, y)
  BY <1>1 DEF HandlerFields, Carries, Unnamed
<1>5. AfterResolve(x, f) = y \/ \E w \in {"delivered", "undelivered"} : AfterResolve(x, f) = Answer(y, w)
  BY DEF AfterResolve
<1> HIDE DEF y
<1>6. Carries(x, AfterResolve(x, f))
  BY <1>4, <1>5, CarriesAnswer
<1> QED
  BY <1>3, <1>6 DEF x

LEMMA CarriesAdmission ==
  ASSUME NEW d, NEW x, AdmissionOK(d, x), Named(x), NEW y, Carries(x, y)
  PROVE  AdmissionOK(d, y)
  BY DEF AdmissionOK, Named, Proven, Carries, Unnamed

LEMMA IdleAdmission ==
  ASSUME NEW d
  PROVE  AdmissionOK(d, IdleHandler)
<1>1. IdleHandler.at = "idle" /\ IdleHandler.answer = ""
  BY DEF IdleHandler
<1> QED
  BY <1>1 DEF AdmissionOK, Named, Proven

\* A grant that is held is the sender's own, and comes with nothing else.
LEMMA SentLabels ==
  ASSUME HandlerInv, NEW r \in Requests[dep.name], NEW s \in Sendable(r)
  PROVE  LabelsOK(dep, s)
<1>1. /\ {"ctx", "whois", "sound"} \subseteq DOMAIN r /\ WhoisOK(r.whois)
      /\ SenderOK(dep, r) /\ SoundOK(dep, r)
  BY SenderAssumption DEF HandlerInv, DeploymentInv, WhoisOK, WhoisFields
<1>2. {"principal", "token", "sender"} \subseteq DOMAIN r
  BY RequestAssumption DEF HandlerInv, DeploymentInv, RequestOK
<1>3. CASE r.token.shape # "held"
  BY <1>1, <1>3 DEF Sendable, LabelsOK
<1>4. CASE r.token.shape = "held"
  <2>1. PICK g \in grants : s = [r EXCEPT !.token = g.token, !.sender = g.owner]
    BY <1>4 DEF Sendable
  <2>2. g.token.owner = g.owner /\ g.token.shape = "grant"
    BY DEF HandlerInv, GrantOK
  <2>3. /\ s.token = g.token /\ s.sender = g.owner /\ s.principal = r.principal
        /\ s.ctx = r.ctx /\ s.whois = r.whois /\ s.sound = r.sound
    BY <1>1, <1>2, <2>1
  <2>4. \A kind : Vouched(kind, s) = Vouched(kind, r)
    BY <2>3 DEF Vouched
  <2>5. \A kind : Provide(dep, kind, s, "none") = Provide(dep, kind, r, "none")
    BY <2>3 DEF Provide
  <2>6. SenderOK(dep, s)
    <3>1. r.principal = NoPrincipal /\ \A j \in DOMAIN dep.providers : Vouched(dep.providers[j], r) = {}
      BY <1>1, <1>4 DEF SenderOK
    <3> QED
      BY <2>2, <2>3, <2>4, <3>1 DEF SenderOK
  <2>7. SoundOK(dep, s)
    <3>1. ~r.sound
      BY <1>1, <1>4 DEF SoundOK
    <3>2. dep.policy = "require" /\ dep.providers # <<>>
            /\ Provide(dep, dep.providers[1], r, "none").status = "available" => r.sound
      BY <1>1 DEF SoundOK
    <3> QED
      BY <2>3, <2>5, <3>1, <3>2 DEF SoundOK
  <2> QED
    BY <1>1, <2>3, <2>6, <2>7 DEF LabelsOK
<1> QED
  BY <1>3, <1>4

\* What is answered is answered to the request.
LEMMA AnsweredFor ==
  ASSUME NEW x, Shaped(x), NEW w
  PROVE  Answer(x, w).at = "answered" /\ Answer(x, w).req = x.req /\ Answer(x, w).answer = w
  BY DEF Shaped, HandlerFields, Answer

LEMMA MovedFor ==
  ASSUME NEW x, Shaped(x), NEW a
  PROVE  LET y == [x EXCEPT !.at = a] IN y.at = a /\ y.req = x.req /\ y.answer = x.answer
  BY DEF Shaped, HandlerFields

\* What the proof comes to: who is refused for it was not sound, who is not came
\* through the proxy where that is required.
LEMMA ProofDoneAdmission ==
  ASSUME NEW i \in Handlers, HandlerInv, h[i].at \in {"proof", "nonce"}, AdmissionOK(dep, h[i]),
         NEW verified \in BOOLEAN, verified /\ dep.proof = "require" => h[i].req.proof.mac = "ours"
  PROVE  LET y == ProofDone(h[i], verified) IN
         AdmissionOK(dep, y) /\ y.at \in {"identify", "answered"} /\ y.answer \in {"", "unauthorized"}
<1> DEFINE x == h[i]
           y == [x EXCEPT !.at = "identify"]
           z == Answer(x, "unauthorized")
<1>1. Shaped(x) /\ x.answer = ""
  BY DEF HandlerInv, HandlerOK, PhaseOK
<1>2. LabelsOK(dep, x.req)
  BY DEF AdmissionOK
<1> HIDE DEF x
<1>3a. y.at = "identify" /\ y.req = x.req /\ y.answer = ""
  BY <1>1, MoveFields DEF Keeps
<1>3b. z.at = "answered" /\ z.req = x.req /\ z.answer = "unauthorized"
  BY <1>1, AnsweredFor
<1>3. /\ y.at = "identify" /\ y.req = x.req /\ y.answer = ""
      /\ z.at = "answered" /\ z.req = x.req /\ z.answer = "unauthorized"
  BY <1>3a, <1>3b
<1> HIDE DEF y, z
<1>4. ASSUME ~((~verified /\ dep.proof = "require") \/ dep.rejectAll)
      PROVE  AdmissionOK(dep, y)
  BY <1>2, <1>3, <1>4 DEF AdmissionOK, Named, x
<1>5. ASSUME (~verified /\ dep.proof = "require") \/ dep.rejectAll
      PROVE  AdmissionOK(dep, z)
  <2>1. ~x.req.sound
    BY <1>2, <1>5 DEF LabelsOK, SoundOK
  <2> QED
    BY <1>2, <1>3, <2>1 DEF AdmissionOK, Named, Proven, Uninformative
<1>6. \/ ProofDone(x, verified) = y /\ ~((~verified /\ dep.proof = "require") \/ dep.rejectAll)
      \/ ProofDone(x, verified) = z /\ ((~verified /\ dep.proof = "require") \/ dep.rejectAll)
  BY DEF ProofDone, y, z
<1>7. LET v == ProofDone(x, verified) IN
      AdmissionOK(dep, v) /\ v.at \in {"identify", "answered"} /\ v.answer \in {"", "unauthorized"}
  BY <1>3, <1>4, <1>5, <1>6
<1> QED
  BY <1>7 DEF x

\* A handler that goes on without the start hook has it behind it.
Onward(x, y) == y.at # "hook" /\ (Proceeds(y) => Proceeds(x))

LEMMA ProofAdmission ==
  ASSUME HandlerInv, AdmissionInv, NEW i \in Handlers, CheckProof(i) \/ CheckNonce(i)
  PROVE  \E y : AdmissionOK(dep, y) /\ Onward(h[i], y) /\ h' = [h EXCEPT ![i] = y]
<1> DEFINE x == h[i]
<1>1. AdmissionOK(dep, x) /\ x.at \in {"proof", "nonce"} /\ Shaped(x) /\ x.answer = ""
  BY DEF AdmissionInv, CheckProof, CheckNonce, HandlerInv, HandlerOK, PhaseOK
<1>2. Proceeds(x)
  BY <1>1 DEF Proceeds
<1>3. ASSUME NEW verified \in BOOLEAN, verified /\ dep.proof = "require" => x.req.proof.mac = "ours",
             h' = [h EXCEPT ![i] = ProofDone(x, verified)]
      PROVE  \E y : AdmissionOK(dep, y) /\ Onward(x, y) /\ h' = [h EXCEPT ![i] = y]
  <2> DEFINE y == ProofDone(x, verified)
  <2>1. AdmissionOK(dep, y) /\ y.at \in {"identify", "answered"}
    BY <1>1, <1>3, ProofDoneAdmission
  <2>2. Onward(x, y)
    BY <1>2, <2>1 DEF Onward
  <2> QED
    BY <1>3, <2>1, <2>2
<1>4. CASE CheckProof(i)
  <2> DEFINE reason == ProofReason(x.req.proof, dep.kids, "ours", dep.skew, now)
             y == [x EXCEPT !.at = "nonce"]
  <2>1. \/ h' = [h EXCEPT ![i] = ProofDone(x, TRUE)] /\ dep.proof = "off"
        \/ h' = [h EXCEPT ![i] = y] /\ reason = "ok"
        \/ h' = [h EXCEPT ![i] = ProofDone(x, reason = "ok")]
    BY <1>4 DEF CheckProof
  <2>2. reason = "ok" => x.req.proof.mac = "ours"
    BY DEF ProofReason
  <2>3. y.at = "nonce" /\ y.req = x.req /\ y.answer = ""
    BY <1>1, MoveFields DEF Keeps
  <2> HIDE DEF reason, y
  <2>4. ASSUME reason = "ok" PROVE AdmissionOK(dep, y)
    BY <1>1, <2>2, <2>3, <2>4 DEF AdmissionOK, Named, Proven
  <2>5. Onward(x, y)
    BY <1>2, <2>3 DEF Onward
  <2>6. CASE h' = [h EXCEPT ![i] = ProofDone(x, reason = "ok")]
    BY <1>3, <2>2, <2>6
  <2> QED
    BY <1>3, <2>1, <2>4, <2>5, <2>6
<1>5. CASE CheckNonce(i)
  <2>1. \E verified \in BOOLEAN : h' = [h EXCEPT ![i] = ProofDone(x, verified)]
    BY <1>5 DEF CheckNonce
  <2>2. x.req.proof.mac = "ours"
    BY <1>1, <1>5 DEF AdmissionOK, CheckNonce
  <2> QED
    BY <1>3, <2>1, <2>2
<1> QED
  BY <1>4, <1>5

LEMMA IdentityAdmission ==
  ASSUME HandlerInv, AdmissionInv, NEW i \in Handlers, ResolveIdentity(i)
  PROVE  \E y : AdmissionOK(dep, y) /\ Onward(h[i], y) /\ h' = [h EXCEPT ![i] = y]
<1> DEFINE x == h[i]
           r == x.req
<1>1. AdmissionOK(dep, x) /\ x.at = "identify" /\ Shaped(x) /\ x.answer = ""
  BY DEF AdmissionInv, ResolveIdentity, HandlerInv, HandlerOK, PhaseOK
<1>2. Proceeds(x) /\ Proven(x) /\ LabelsOK(dep, r)
  BY <1>1 DEF Proceeds, Proven, Uninformative, AdmissionOK
<1>3. dep.providers \in Seq(Elements(dep.providers)) /\ (dep.policy # "none" => dep.providers # <<>>)
  BY RequestAssumption DEF HandlerInv, DeploymentInv, DeploymentOK, Starts
<1>4. PICK fault \in Faults \cup {"none"} :
        LET final == HttpIdentity(dep, r, fault, up, now)
        IN  h' = [h EXCEPT ![i] =
                    CASE final.outcome = "auth" ->
                           [x EXCEPT !.at = "route", !.auth = final.auth, !.authAt = now]
                      [] final.outcome = "rejected" -> Answer([x EXCEPT !.fault = fault], "unauthorized")
                      [] OTHER -> Answer(x, "unavailable")]
  BY Zenon DEF ResolveIdentity
<1> DEFINE final == HttpIdentity(dep, r, fault, up, now)
           y == [x EXCEPT !.at = "route", !.auth = final.auth, !.authAt = now]
           z == Answer([x EXCEPT !.fault = fault], "unauthorized")
           u == Answer(x, "unavailable")
<1>5. h' = [h EXCEPT ![i] = CASE final.outcome = "auth" -> y
                              [] final.outcome = "rejected" -> z
                              [] OTHER -> u]
  BY <1>4, Zenon
<1>6. final.outcome = "auth" =>
         IF final.auth.authenticated THEN final.auth.principal = r.sender ELSE Open(dep, r)
  BY <1>2, <1>3, IdentityAdmits DEF LabelsOK
<1>7. final.outcome = "rejected" => ~r.sound \/ CutUnnoticed(r, fault)
  <2> SUFFICES ASSUME r.sound, ~CutUnnoticed(r, fault) PROVE final.outcome # "rejected"
    OBVIOUS
  <2>1. HttpIdentity(dep, r, "none", TRUE, now).outcome = "auth"
    BY <1>2 DEF LabelsOK, SoundOK, AdmissionInv
  <2>2. up \in BOOLEAN /\ WhoisOK(r.whois)
    BY <1>2 DEF AdmissionInv, LabelsOK
  <2> QED
    BY <1>3, <2>1, <2>2, OutageTold
<1> HIDE DEF final, x
<1>8a. y.at = "route" /\ y.auth = final.auth /\ y.req = r /\ y.answer = ""
  BY <1>1 DEF Shaped, HandlerFields
<1>8b. z.at = "answered" /\ z.req = r /\ z.answer = "unauthorized" /\ z.fault = fault
  BY <1>1 DEF Shaped, HandlerFields, Answer
<1>8c. u.at = "answered" /\ u.req = r /\ u.answer = "unavailable"
  BY <1>1, AnsweredFor
<1>8. /\ y.at = "route" /\ y.auth = final.auth /\ y.req = r /\ y.answer = ""
      /\ z.at = "answered" /\ z.req = r /\ z.answer = "unauthorized" /\ z.fault = fault
      /\ u.at = "answered" /\ u.req = r /\ u.answer = "unavailable"
  BY <1>8a, <1>8b, <1>8c
<1> HIDE DEF y, z, u
<1>9. ASSUME final.outcome = "auth" PROVE AdmissionOK(dep, y)
  BY <1>1, <1>2, <1>6, <1>8, <1>9 DEF AdmissionOK
<1>10. ASSUME final.outcome = "rejected" PROVE AdmissionOK(dep, z)
  BY <1>2, <1>7, <1>8, <1>10 DEF AdmissionOK, Named, Proven, Uninformative
<1>11. AdmissionOK(dep, u)
  BY <1>2, <1>8 DEF AdmissionOK, Named, Proven, Uninformative
<1>12. Onward(x, y) /\ Onward(x, z) /\ Onward(x, u)
  BY <1>2, <1>8 DEF Onward
<1> QED
  BY <1>5, <1>9, <1>10, <1>11, <1>12 DEF x

LEMMA ReceiveAdmission ==
  ASSUME HandlerInv, AdmissionInv, NEW i \in Handlers, Receive(i)
  PROVE  \E y : AdmissionOK(dep, y) /\ Onward(h[i], y) /\ h' = [h EXCEPT ![i] = y]
<1> DEFINE x == h[i]
           f == [NewFetch("client", x.pointer.url, x.pointer.sha) EXCEPT !.metadata = dep.metadata]
           y == [x EXCEPT !.at = "resolve", !.fetch = f]
<1>1. AdmissionOK(dep, x) /\ x.at = "answered" /\ Shaped(x)
  BY DEF AdmissionInv, Receive, HandlerInv, HandlerOK
<1>2. h' = [h EXCEPT ![i] = IF x.answer = "pointer" THEN y ELSE IdleHandler]
  BY DEF Receive
<1>3. AdmissionOK(dep, IdleHandler) /\ Onward(x, IdleHandler)
  BY IdleAdmission DEF Onward, Proceeds, IdleHandler
<1> HIDE DEF x, f
<1>4. ASSUME x.answer = "pointer" PROVE AdmissionOK(dep, y) /\ Onward(x, y)
  <2>1. Named(x) /\ Proceeds(x)
    BY <1>1, <1>4 DEF Named, Proven, Proceeds, Uninformative
  <2>2. Carries(x, y)
    BY <1>1, <1>4 DEF Shaped, HandlerFields, Carries, Unnamed
  <2> QED
    BY <1>1, <2>1, <2>2, CarriesAdmission DEF Onward, Carries, Unnamed
<1> HIDE DEF y
<1> QED
  BY <1>2, <1>3, <1>4 DEF x

\* Every step of a handler but the ones around the start hook.
LEMMA AdmissionStep ==
  ASSUME HandlerInv, AdmissionInv, NEW i \in Handlers, Send(i) \/ HandlerStep(i), ~Start(i), ~HookReturns(i)
  PROVE  \E y : AdmissionOK(dep, y) /\ Onward(h[i], y) /\ h' = [h EXCEPT ![i] = y]
<1>1. CASE Send(i)
  <2>1. PICK r \in Requests[dep.name] : \E s \in Sendable(r) :
           h' = [h EXCEPT ![i] = [IdleHandler EXCEPT !.at = "start", !.req = s]]
    BY <1>1 DEF Send
  <2>2. PICK s \in Sendable(r) : h' = [h EXCEPT ![i] = [IdleHandler EXCEPT !.at = "start", !.req = s]]
    BY <2>1
  <2> DEFINE y == [IdleHandler EXCEPT !.at = "start", !.req = s]
  <2>3. y.at = "start" /\ y.req = s /\ y.answer = ""
    BY DEF IdleHandler
  <2>4. LabelsOK(dep, s)
    BY SentLabels
  <2> HIDE DEF y
  <2>5. AdmissionOK(dep, y) /\ Onward(h[i], y)
    BY <2>3, <2>4 DEF AdmissionOK, Named, Proven, Onward, Proceeds
  <2> QED
    BY <2>2, <2>5 DEF y
<1>2. CASE CheckProof(i) \/ CheckNonce(i)
  BY <1>2, ProofAdmission
<1>3. CASE ResolveIdentity(i)
  BY <1>3, IdentityAdmission
<1>4. CASE Receive(i)
  BY <1>4, ReceiveAdmission
<1>5. CASE Route(i) \/ FetchParameters(i) \/ Gate(i) \/ Call(i) \/ Allocate(i) \/ Upload(i) \/ Mint(i) \/ ResolvePointer(i)
  <2>1. h[i].at \in {"route", "fetch", "gate", "call", "alloc", "put", "mint", "resolve"}
    BY <1>5 DEF Route, FetchParameters, Gate, Call, Allocate, Upload, Mint, ResolvePointer
  <2>2. PICK y : Carries(h[i], y) /\ h' = [h EXCEPT ![i] = y]
    BY <1>5, RouteCarries, FetchCarries, GateCarries, CallCarries, AllocateCarries, UploadCarries, MintCarries,
       ResolveCarries
  <2>3. Named(h[i]) /\ Proceeds(h[i])
    BY <2>1, PastIdentity DEF Named, Proven, Proceeds, Uninformative
  <2>4. AdmissionOK(dep, h[i])
    BY DEF AdmissionInv
  <2>5. AdmissionOK(dep, y) /\ Onward(h[i], y)
    BY <2>2, <2>3, <2>4, CarriesAdmission DEF Onward, Carries, Unnamed
  <2> QED
    BY <2>2, <2>5
<1> QED
  BY <1>1, <1>2, <1>3, <1>4, <1>5 DEF HandlerStep

\* The steps around the start hook, with what they do to its flag.
LEMMA StartAdmission ==
  ASSUME HandlerInv, AdmissionInv, NEW i \in Handlers, Start(i) \/ HookReturns(i)
  PROVE  (\A j \in Handlers : AdmissionOK(dep, h'[j])) /\ StartInv'
<1> DEFINE x == h[i]
<1>1. /\ DOMAIN h = Handlers /\ StartInv /\ \A j \in Handlers : AdmissionOK(dep, h[j])
  BY DEF HandlerInv, AdmissionInv
<1>2. x.at \in {"start", "hook"} /\ Shaped(x) /\ x.answer = "" /\ x.req.read \in {"ok", "too_large", "bad_body"}
  BY DEF Start, HookReturns, HandlerInv, HandlerOK, PhaseOK, AuthOK, SentOK
<1>3. LabelsOK(dep, x.req)
  BY <1>1, <1>2 DEF AdmissionOK
<1>4. ASSUME NEW ok \in BOOLEAN
      PROVE  LET y == AfterStart(x, ok) IN
             AdmissionOK(dep, y) /\ y.at \in {"proof", "answered"} /\ (~ok => ~Proceeds(y))
  <2> DEFINE a == Answer(x, "start_failed")
             b == Answer(x, x.req.read)
             c == [x EXCEPT !.at = "proof"]
  <2> HIDE DEF x
  <2>1. /\ a.at = "answered" /\ a.req = x.req /\ a.answer = "start_failed"
        /\ b.at = "answered" /\ b.req = x.req /\ b.answer = x.req.read
        /\ c.at = "proof" /\ c.req = x.req /\ c.answer = ""
    <3>1. a.at = "answered" /\ a.req = x.req /\ a.answer = "start_failed"
      BY <1>2, AnsweredFor
    <3>2. b.at = "answered" /\ b.req = x.req /\ b.answer = x.req.read
      BY <1>2, AnsweredFor
    <3>3. c.at = "proof" /\ c.req = x.req /\ c.answer = ""
      BY <1>2, MovedFor
    <3> QED
      BY <3>1, <3>2, <3>3
  <2>2. \/ AfterStart(x, ok) = a
        \/ AfterStart(x, ok) = b /\ ok /\ x.req.read # "ok"
        \/ AfterStart(x, ok) = c /\ ok
    BY DEF AfterStart
  <2> HIDE DEF a, b, c
  <2>3. /\ AdmissionOK(dep, a) /\ AdmissionOK(dep, c) /\ ~Proceeds(a)
    BY <1>3, <2>1 DEF AdmissionOK, Named, Proven, Uninformative, Proceeds
  <2>4. x.req.read # "ok" => AdmissionOK(dep, b)
    BY <1>2, <1>3, <2>1 DEF AdmissionOK, Named, Proven, Uninformative
  <2> QED
    BY <2>1, <2>2, <2>3, <2>4
<1>5. CASE HookReturns(i)
  <2>1. PICK ok \in BOOLEAN : /\ started' = IF ok THEN "yes" ELSE "no"
                              /\ h' = [h EXCEPT ![i] = AfterStart(x, ok)]
    BY <1>5 DEF HookReturns
  <2>2. x.at = "hook" /\ started = "running"
    BY <1>1, <1>5 DEF HookReturns, StartInv
  <2> DEFINE y == AfterStart(x, ok)
  <2>3. AdmissionOK(dep, y) /\ y.at \in {"proof", "answered"} /\ (~ok => ~Proceeds(y))
    BY <1>4
  <2> HIDE DEF y
  <2>4. \A j \in Handlers : h'[j] = IF j = i THEN y ELSE h[j]
    BY <1>1, <2>1 DEF y
  <2>5. \A j \in Handlers : ~Proceeds(h[j]) /\ (h[j].at = "hook" => j = i)
    BY <1>1, <2>2 DEF StartInv
  <2> QED
    BY <1>1, <2>1, <2>3, <2>4, <2>5 DEF StartInv
<1>6. CASE Start(i)
  <2>1. CASE started = "yes" /\ h' = [h EXCEPT ![i] = AfterStart(x, TRUE)] /\ started' = started
    <3> DEFINE y == AfterStart(x, TRUE)
    <3>1. AdmissionOK(dep, y) /\ y.at \in {"proof", "answered"}
      BY <1>4
    <3> HIDE DEF y
    <3>2. \A j \in Handlers : h'[j] = IF j = i THEN y ELSE h[j]
      BY <1>1, <2>1 DEF y
    <3> QED
      BY <1>1, <2>1, <3>1, <3>2 DEF StartInv
  <2>2. CASE started = "no" /\ started' = "running" /\ h' = [h EXCEPT ![i] = [x EXCEPT !.at = "hook"]]
    <3> DEFINE y == [x EXCEPT !.at = "hook"]
    <3> HIDE DEF x
    <3>1. y.at = "hook" /\ y.req = x.req /\ y.answer = ""
      BY <1>2, MovedFor
    <3> HIDE DEF y
    <3>2. AdmissionOK(dep, y) /\ ~Proceeds(y)
      BY <1>3, <3>1 DEF AdmissionOK, Named, Proven, Proceeds
    <3>3. \A j \in Handlers : h'[j] = IF j = i THEN y ELSE h[j]
      BY <1>1, <2>2 DEF y
    <3>4. \A j \in Handlers : ~Proceeds(h[j]) /\ h[j].at # "hook"
      BY <1>1, <2>2 DEF StartInv
    <3> QED
      BY <1>1, <2>2, <3>1, <3>2, <3>3, <3>4 DEF StartInv
  <2> QED
    BY <1>6, <2>1, <2>2 DEF Start
<1> QED
  BY <1>5, <1>6

LEMMA AdmissionStays ==
  ASSUME HandlerInv, AdmissionInv, [Next]_vars
  PROVE  AdmissionInv'
<1>1. dep' = dep /\ dep.horizon \in Nat /\ DOMAIN h = Handlers
  BY DeploymentStep, SenderAssumption DEF HandlerInv, DeploymentInv
<1>2. now' \in 0..dep.horizon /\ up' \in BOOLEAN
  <2>1. CASE Tick
    BY <1>1, <2>1 DEF Tick, AdmissionInv
  <2>2. CASE ServicesFlip
    BY <2>2 DEF ServicesFlip, AdmissionInv
  <2>3. CASE UNCHANGED <<now, up>>
    BY <2>3 DEF AdmissionInv
  <2>4. ASSUME NEW i \in Handlers, Send(i) \/ HandlerStep(i)
        PROVE  UNCHANGED <<now, up>>
    <3>1. CASE Send(i) \/ Start(i) \/ HookReturns(i) \/ CheckProof(i) \/ CheckNonce(i)
      BY <3>1 DEF Send, Start, HookReturns, CheckProof, CheckNonce
    <3>2. CASE ResolveIdentity(i) \/ Route(i) \/ FetchParameters(i) \/ Gate(i)
      BY <3>2 DEF ResolveIdentity, Route, FetchParameters, Gate
    <3>3. CASE Call(i) \/ Allocate(i) \/ Upload(i)
      BY <3>3 DEF Call, Allocate, Upload
    <3>4. CASE Mint(i) \/ Receive(i) \/ ResolvePointer(i)
      BY <3>4 DEF Mint, Receive, ResolvePointer
    <3> QED
      BY <2>4, <3>1, <3>2, <3>3, <3>4 DEF HandlerStep
  <2> QED
    BY <2>1, <2>2, <2>3, <2>4 DEF Next, vars
<1>3. (\A j \in Handlers : AdmissionOK(dep, h'[j])) /\ StartInv'
  <2>1. CASE Tick \/ ServicesFlip \/ UNCHANGED vars
    <3>1. UNCHANGED <<h, started>>
      BY <2>1 DEF Tick, ServicesFlip, vars
    <3> QED
      BY <3>1 DEF AdmissionInv, StartInv
  <2>2. ASSUME NEW i \in Handlers, Send(i) \/ HandlerStep(i), ~Start(i), ~HookReturns(i)
        PROVE  (\A j \in Handlers : AdmissionOK(dep, h'[j])) /\ StartInv'
    <3>1. PICK y : AdmissionOK(dep, y) /\ Onward(h[i], y) /\ h' = [h EXCEPT ![i] = y]
      BY <2>2, AdmissionStep
    <3>2. started' = started
      <4>1. CASE Send(i) \/ CheckProof(i) \/ CheckNonce(i)
        BY <4>1 DEF Send, CheckProof, CheckNonce
      <4>2. CASE ResolveIdentity(i) \/ Route(i) \/ FetchParameters(i) \/ Gate(i)
        BY <4>2 DEF ResolveIdentity, Route, FetchParameters, Gate
      <4>3. CASE Call(i) \/ Allocate(i) \/ Upload(i)
        BY <4>3 DEF Call, Allocate, Upload
      <4>4. CASE Mint(i) \/ Receive(i) \/ ResolvePointer(i)
        BY <4>4 DEF Mint, Receive, ResolvePointer
      <4> QED
        BY <2>2, <4>1, <4>2, <4>3, <4>4 DEF HandlerStep
    <3>3. \A j \in Handlers : h'[j] = IF j = i THEN y ELSE h[j]
      BY <1>1, <3>1
    <3>4. StartInv /\ \A j \in Handlers : AdmissionOK(dep, h[j])
      BY DEF AdmissionInv
    <3> QED
      BY <3>1, <3>2, <3>3, <3>4 DEF StartInv, Onward
  <2>3. ASSUME NEW i \in Handlers, Start(i) \/ HookReturns(i)
        PROVE  (\A j \in Handlers : AdmissionOK(dep, h'[j])) /\ StartInv'
    BY <2>3, StartAdmission
  <2> QED
    BY <2>1, <2>2, <2>3 DEF Next
<1> QED
  BY <1>1, <1>2, <1>3 DEF AdmissionInv

LEMMA InitAdmission ==
  ASSUME Init
  PROVE  AdmissionInv
<1>1. dep \in Deployments /\ now = 0 /\ up = TRUE /\ h = [i \in Handlers |-> IdleHandler]
  BY DEF Init
<1>2. dep.horizon \in Nat
  BY <1>1, SenderAssumption
<1>3. AdmissionOK(dep, IdleHandler) /\ IdleHandler.at = "idle"
  BY IdleAdmission DEF IdleHandler
<1>4. \A i \in Handlers : h[i] = IdleHandler
  BY <1>1
<1>5. StartInv
  BY <1>3, <1>4 DEF StartInv, Proceeds
<1> QED
  BY <1>1, <1>2, <1>3, <1>4, <1>5 DEF AdmissionInv

LEMMA AdmissionAlways == Spec => [](HandlerInv /\ AdmissionInv)
<1>1. Init => HandlerInv /\ AdmissionInv
  BY InitHandlers, InitAdmission
<1>2. (HandlerInv /\ AdmissionInv) /\ [Next]_vars => (HandlerInv /\ AdmissionInv)'
  BY HandlersStep, AdmissionStays
<1> QED
  BY <1>1, <1>2, PTL DEF Spec

\* Nobody learns anything of a worker (handle_rpc() answers with more than a 401 or
\* a 503) before its start hook has returned, without the proof of its proxy where
\* one is required, and under a name that is not the caller's: for every policy over
\* peer evidence, bearer hook, resolver and set of grant keys, whatever fails
\* meanwhile, as far as the credentials that are worth something are not another's.
THEOREM OnlyAdmittedLearnAlways == Spec => []OnlyAdmittedLearn
<1>1. AdmissionInv => OnlyAdmittedLearn
  <2> SUFFICES ASSUME AdmissionInv, NEW i \in Handlers, h[i].at = "answered", h[i].answer \notin Uninformative
               PROVE  /\ started = "yes"
                      /\ dep.proof = "require" => h[i].req.proof.mac = "ours"
                      /\ IF h[i].auth.authenticated THEN h[i].auth.principal = h[i].req.sender
                         ELSE Open(dep, h[i].req)
    BY DEF OnlyAdmittedLearn
  <2>1. Named(h[i]) /\ Proven(h[i]) /\ Proceeds(h[i])
    BY DEF Named, Proven, Proceeds, Uninformative
  <2> QED
    BY <2>1 DEF AdmissionInv, AdmissionOK, StartInv
<1> QED
  BY <1>1, AdmissionAlways, PTL

\* A caller whom the worker lets in while everything is up is never told that its
\* credentials are bad because something is down: whichever daemon, token store or
\* key server fails, and however it does, the policies and the chain of bearers come
\* to the same identity, to another of the caller's, or to a 503.  Excepted is the
\* outage that the code cannot see: a daemon that gave no length hangs up in its
\* answer (until_eof() of tailscale_identity.cpp).
THEOREM OutageIsNotRefusalAlways == Spec => []OutageIsNotRefusal
<1>1. AdmissionInv => OutageIsNotRefusal
  BY DEF AdmissionInv, AdmissionOK, OutageIsNotRefusal
<1> QED
  BY <1>1, AdmissionAlways, PTL

=============================================================================
