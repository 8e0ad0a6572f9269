------------------------------ MODULE JwksCache ------------------------------
(***************************************************************************)
(* A relying party that finds a provider by discover_response, fetches its *)
(* keys with fetch_jwks_response and keeps them for cache_ttl_secs         *)
(* (src/src/rp.rs, src/src/http.rs), while the provider publishes and      *)
(* withdraws keys and a shared HTTP cache answers in its place.            *)
(*                                                                         *)
(* The library does no caching itself; the application here does what its  *)
(* documentation asks: it takes the lifetime from cache_ttl_secs, bounds   *)
(* its own default, and caches no error.  Time is kept in timers that      *)
(* every Tick advances, so a run has no last second.                       *)
(***************************************************************************)
EXTENDS Integers, FiniteSets, Endpoints

CONSTANTS Issuer,      \* the issuer that the application is configured with
          Doc,         \* documents that the issuer's well-known URL may serve
          Key,         \* signing keys, each published at most once
          Header,      \* Cache-Control headers: [balanced, directives]
          U64Max,      \* largest u64; as a lifetime, longer than any run
          Ceiling,     \* MAX_JWKS_CACHE_TTL_SECS
          DefaultTtl,  \* the application's choice where no lifetime is given
          Hold,        \* longest time a shared cache keeps a response
          MaxDelay,    \* longest time a response is under way (HTTP timeout)
          Cap          \* timers of withdrawn keys stop here

Max(a, b) == IF a >= b THEN a ELSE b
Min(a, b) == IF a <= b THEN a ELSE b

ASSUME TimeAssumption ==
    {U64Max, Ceiling, DefaultTtl, Hold, MaxDelay, Cap} \subseteq Nat
ASSUME WidthAssumption == Ceiling < U64Max /\ DefaultTtl < U64Max /\ Hold < U64Max
ASSUME CapAssumption == MaxDelay + Hold + U64Max < Cap
ASSUME DocAssumption == Issuer \in Url /\ Doc \subseteq ProviderInfo
ASSUME HeaderAssumption ==
    \A h \in Header :
        /\ h.balanced \in BOOLEAN /\ DOMAIN h.directives \subseteq Nat
        /\ \A i \in DOMAIN h.directives :
              LET d == h.directives[i]
              IN  /\ d.name \in {"no-store", "max-age", "other"}
                  /\ d.value \in SUBSET Nat /\ \A m, n \in d.value : m = n

VARIABLES stage,   \* stage[k]: "unused", "live" or "gone"
          gone,    \* gone[k]: time since k was withdrawn
          shared,  \* the shared cache's copy: {} or {[keys, age, header]}
          call,    \* the request that the application awaits, if any
          flight,  \* the answer under way: {} or {[keys, age, header, delay]}
          info,    \* the metadata in use: {} or {document}
          cache,   \* the cached keys: {} or {[keys, left, age, life]}
          asked    \* URLs requested so far (history)

cacheVars == <<stage, gone, shared, call, flight, info, cache, asked>>

Response == [keys : SUBSET Key, age : 0..Hold, header : Header]
Life == {{}} \cup {{n} : n \in 0..U64Max}

JwksTypeOK ==
    /\ stage \in [Key -> {"unused", "live", "gone"}]
    /\ gone \in [Key -> 0..Cap]
    /\ shared \in SUBSET Response
    /\ call \in {"none", "discover", "jwks"}
    /\ flight \in SUBSET [keys : SUBSET Key, age : 0..Hold, header : Header,
                          delay : 0..MaxDelay]
    /\ info \in SUBSET Doc
    /\ cache \in SUBSET [keys : SUBSET Key, left : 0..U64Max, age : 0..Hold, life : Life]
    /\ Cardinality(shared) <= 1 /\ Cardinality(flight) <= 1
    /\ Cardinality(info) <= 1 /\ Cardinality(cache) <= 1

LiveKeys == {k \in Key : stage[k] = "live"}

JwksInit ==
    /\ \E k \in Key : stage = [j \in Key |-> IF j = k THEN "live" ELSE "unused"]
    /\ gone = [k \in Key |-> 0]
    /\ shared = {}
    /\ call = "none"
    /\ flight = {}
    /\ info = {}
    /\ cache = {}
    /\ asked = {}
-----------------------------------------------------------------------------
(***************************************************************************)
(* Lifetimes.  A directive's value is {} when there is none or when it is  *)
(* not made of digits.                                                     *)
(***************************************************************************)

\* Positions of the max-age directives that can be used.
MaxAges(h) == {i \in DOMAIN h.directives :
                  h.directives[i].name = "max-age" /\ h.directives[i].value # {}}

\* advertised_ttl: nothing is trusted in a header with an open quote; no-store
\* or no-cache anywhere is zero; else the first usable max-age, saturated.
AdvertisedTtl(h) ==
    CASE ~h.balanced -> {0}
      [] h.balanced /\ \E i \in DOMAIN h.directives : h.directives[i].name = "no-store" -> {0}
      [] OTHER ->
            {Min(n, U64Max) : n \in UNION {h.directives[i].value : i \in
                {i \in MaxAges(h) : \A j \in MaxAges(h) : i <= j}}}

\* Mutants of CacheTtl: the age forgotten, and the ceiling forgotten.
CacheTtlAgeless(r) == {Min(n, Ceiling) : n \in AdvertisedTtl(r.header)}
CacheTtlUncapped(r) == {Max(n - r.age, 0) : n \in AdvertisedTtl(r.header)}

\* cache_ttl_secs
CacheTtl(r) == {Min(Max(n - r.age, 0), Ceiling) : n \in AdvertisedTtl(r.header)}

\* What the application does with it.
Keep(r) == IF CacheTtl(r) = {} THEN DefaultTtl ELSE CHOOSE n \in CacheTtl(r) : TRUE
-----------------------------------------------------------------------------
\* A lifetime of U64Max seconds does not end.
Older(c) == [c EXCEPT !.left = IF c.left = U64Max THEN U64Max ELSE c.left - 1]

\* Time passes.  A response is not under way, and a shared copy not kept, for
\* longer than their bounds; keys whose time is over are dropped.
Tick ==
    /\ \A f \in flight : f.delay < MaxDelay
    /\ \A c \in shared : c.age < Hold
    /\ gone' = [k \in Key |-> IF stage[k] = "gone" /\ gone[k] < Cap
                              THEN gone[k] + 1 ELSE gone[k]]
    /\ shared' = {[c EXCEPT !.age = c.age + 1] : c \in shared}
    /\ flight' = {[f EXCEPT !.delay = f.delay + 1] : f \in flight}
    /\ cache' = {Older(c) : c \in {d \in cache : d.left > 0}}
    /\ UNCHANGED <<stage, call, info, asked>>

Publish(k) ==
    /\ stage[k] = "unused"
    /\ stage' = [stage EXCEPT ![k] = "live"]
    /\ UNCHANGED <<gone, shared, call, flight, info, cache, asked>>

\* The provider withdraws a key, and keeps one.
Withdraw(k) ==
    /\ stage[k] = "live"
    /\ LiveKeys # {k}
    /\ stage' = [stage EXCEPT ![k] = "gone"]
    /\ UNCHANGED <<gone, shared, call, flight, info, cache, asked>>

\* The shared cache takes a response of the provider, and drops it.
Fill(h) ==
    /\ shared = {}
    /\ shared' = {[keys |-> LiveKeys, age |-> 0, header |-> h]}
    /\ UNCHANGED <<stage, gone, call, flight, info, cache, asked>>

Evict ==
    /\ shared # {}
    /\ shared' = {}
    /\ UNCHANGED <<stage, gone, call, flight, info, cache, asked>>

\* discover_response up to its await.
CallDiscover ==
    /\ call = "none"
    /\ ValidateIssuer(Issuer)
    /\ call' = "discover"
    /\ asked' = asked \cup {Issuer}
    /\ UNCHANGED <<stage, gone, shared, flight, info, cache>>

\* Mutant of DocumentOk: the document may name another issuer.
DocumentOkAnyIssuer(d) == ValidateProvider(d)

DocumentOk(d) == d.issuer = Issuer /\ ValidateProvider(d)

\* The rest of discover_response; any other answer is an error.
DeliverDocument(d) ==
    /\ call = "discover"
    /\ call' = "none"
    /\ info' = IF DocumentOk(d) THEN {d} ELSE info
    /\ UNCHANGED <<stage, gone, shared, flight, cache, asked>>

\* fetch_jwks_response up to its await, with the jwks_uri of the metadata; the
\* application may have keys already, and look for newer ones.
CallJwks ==
    /\ call = "none"
    /\ ValidateIssuer(Issuer)
    /\ \E d \in info : \E u \in d.jwks_uri :
          /\ ValidateServiceEndpointForIssuer(u, Issuer)
          /\ asked' = asked \cup {u}
    /\ call' = "jwks"
    /\ UNCHANGED <<stage, gone, shared, flight, info, cache>>

\* The provider answers, or the shared cache does.
AnswerJwks ==
    /\ call = "jwks" /\ flight = {}
    /\ \E r \in shared \cup (IF shared = {}
                             THEN {[keys |-> LiveKeys, age |-> 0, header |-> h] : h \in Header}
                             ELSE {}) :
          flight' = {[keys |-> r.keys, age |-> r.age, header |-> r.header, delay |-> 0]}
    /\ UNCHANGED <<stage, gone, shared, call, info, cache, asked>>

\* The rest of fetch_jwks_response with a 200 answer, and the caching of it.
DeliverJwks ==
    /\ \E f \in flight :
          cache' = {[keys |-> f.keys, left |-> Keep(f), age |-> f.age,
                     life |-> AdvertisedTtl(f.header)]}
    /\ flight' = {}
    /\ call' = "none"
    /\ UNCHANGED <<stage, gone, shared, info, asked>>

\* A request that fails, times out or is not answered with 200 leaves the
\* caches as they are.
CallFails ==
    /\ call # "none"
    /\ call' = "none"
    /\ flight' = {}
    /\ UNCHANGED <<stage, gone, shared, info, cache, asked>>

JwksStep ==
    \/ \E k \in Key : Publish(k) \/ Withdraw(k)
    \/ \E h \in Header : Fill(h)
    \/ Evict
    \/ CallDiscover
    \/ \E d \in Doc : DeliverDocument(d)
    \/ CallJwks
    \/ AnswerJwks
    \/ DeliverJwks
    \/ CallFails

JwksNext == Tick \/ JwksStep

JwksSpec == JwksInit /\ [][JwksNext]_cacheVars
-----------------------------------------------------------------------------
\* A withdrawn key is not used for long.  Counted from the moment it was
\* withdrawn to the last moment at which the cached set is used, the time is
\* within the ceiling (or the application's default) plus the age the response
\* already had and its time under way; and where the provider gave a lifetime,
\* within that lifetime plus the time under way, whatever the shared cache did.
WithdrawnKeyBounded ==
    \A c \in cache : \A k \in c.keys : stage[k] = "gone" =>
        /\ gone[k] + c.left <= MaxDelay + c.age + Max(Ceiling, DefaultTtl)
        /\ \A n \in c.life : gone[k] + c.left <= MaxDelay + Max(n, c.age)

\* Metadata in use names the configured issuer, and nothing is requested over
\* plain http unless issuer and endpoint are both on the loopback interface,
\* whatever documents the issuer's well-known URL served over time.
RequestsStaySecure ==
    /\ \A d \in info : d.issuer = Issuer
    /\ \A u \in asked : \/ u.scheme = "https"
                        \/ u.loopback /\ Issuer.loopback /\ Issuer.scheme = "http"

\* A key that the provider publishes, and does not withdraw, comes into use: a
\* cached set ends, however long the lifetime the provider advertised.
NewKeyPickedUp ==
    \A k \in Key : (stage[k] = "live") ~> (stage[k] = "gone" \/ \E c \in cache : k \in c.keys)
=============================================================================
