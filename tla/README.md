# TLA+ models of grindvakt

grindvakt is an OAuth 2.0 / OpenID Connect library: the engine of an OpenID
Provider (OP), the flow of a relying party (RP), and OpenID Federation helpers.
It runs inside an application that supplies the web server, the outbound HTTP
client and some of the stores. This directory holds TLA+ models of its stateful
parts and of the algorithms they rest on, TLC configurations, and TLAPS proofs.
Paths below are relative to the root of the repository (`src/src/provider.rs` is
written `provider.rs`).

## The system

| Component | State | Operations | What is hard | What makes it correct |
|---|---|---|---|---|
| One-time-use store, in memory (`provider.rs`) | map from token hash to expiry, time of the next sweep | `consume` | clock read before the lock, sweep, restart with an empty map | a live token is consumed once; a refusal has a cause |
| One-time-use store, Redis (`provider.rs`) | keys with expiry, shared by replicas | `SET key 1 EX ttl NX` | lost answers, late commands, errors, dropped handlers | the same, whatever is lost |
| Token endpoint, UserInfo (`provider.rs`, `tokens.rs`) | none of its own: sealed tokens held by clients, the two stores | three grants, UserInfo | awaits between checks and consumption, rotation chains, changed registrations | rotation does not fork, authority only shrinks, bindings hold |
| Client authentication (`provider.rs`) | jti markers in the one-time-use store | secrets, `private_key_jwt` | two computations of one time window at two resolutions | an assertion authenticates one request |
| DPoP (`dpop.rs`) | jti markers in the deployment's `ReplayStore`; nonces are stateless | validate and record, issue nonce | retention and freshness count from different moments, iat is any i64 | how far a proof can be used again is known; a nonce bounds its age |
| Authorization endpoint (`provider.rs`, `request.rs`) | none of its own | validate, resolve subject, mint, error redirect | registration changes while the user logs in | responses are issued under the registration in force |
| Client store (`client.rs`) | map from client to registration and expiry | `get`, `put`, `put_with_ttl` | lookups and sweeps remove entries | only expired entries go |
| Callback and RP login (`callback.rs`, `rp.rs`) | the application's sessions | build URL, parse, verify JARM, exchange, verify ID token | several providers and sessions at once, stray and duplicated responses | a code stays with its issuer and its session |
| RP: discovery and keys (`rp.rs`, `http.rs`) | the application's cache of metadata and keys | discover, fetch JWKS, `cache_ttl_secs` | keys are withdrawn behind caches, header arithmetic | a withdrawn key ends in time, a new one is found, requests stay on https |
| RP: UserInfo (`rp.rs`) | none of its own | fetch, read JSON or signed claims | other JWTs of the same provider, answers delivered again | only UserInfo about the session's user is accepted, and redelivery ends |
| Federation: resolution (`federation.rs`) | none of its own | resolve through anchors, validate chains, protocol keys | fallback between anchors, keys and memberships that end while statements about them live on | keys are genuine, trust lapses, one anchor is enough |
| Federation: policy (`federation.rs`) | the metadata document | `apply_policy` | several superiors, in-place changes, map order | order does not matter, demands stand |
| Home-organization discovery (`discovery.rs`, `federation.rs`) | none of its own | request, verify the RP, show OPs, send back, parse | the request and the return call are anybody's, the federation moves on | the user is sent only to the RP's own URI, and the selection arrives |

The endpoints call the stores and await their answers; nothing else is shared
between requests. Sealed tokens (authorization codes, access and refresh tokens)
are encrypted values held by clients, so they survive a restart of the process
while the in-memory stores do not. A handler runs uninterrupted between two
awaits on a runtime with one thread, but with several threads every clock
reading and every lock acquisition is a point of its own; `TokenRedemption`
takes the finer view. The RP and federation helpers keep nothing between calls:
what can go wrong there lies in what the world does between their awaits.

## Modules

| Module | Models |
|---|---|
| `TokenUseStore` | helpers shared by all stores of expiring markers: `Held`, `Mark`, `Sweep`, `TokenTtl` |
| `OneTimeUse` | abstract specification: what a one-time-use store promises the endpoints |
| `TokenRedemption` | requests against `InMemoryTokenUseStore`: `Open`, `CallConsume`, `ReadClock`, `ConsumeLocked`, `Mint`, and `Restart` |
| `RedisRedemption` | requests of many replicas against `RedisStore`: `Send`, `SetNx`, `Answer`, `StoreError`, `Die` |
| `GrantOps` | scopes, claims, registrations: operators shared by both endpoints |
| `TokenEndpoint` | the three grants over sealed tokens and the store; UserInfo |
| `ClientAssertion` | acceptance and retention of `private_key_jwt` assertions, in fractions of a second |
| `Dpop` | proofs, jti recording, nonces |
| `AuthorizationEndpoint` | the client store, validation, subject resolution, minting, error redirects |
| `RpLogin` | sessions of an RP at several providers, from `authorization_url` to `verify_id_token_with` |
| `Endpoints` | which URLs the RP and discovery accept: `ValidateProvider`, `ValidateEndpoint`, `ValidateEntityId` |
| `JwksCache` | `discover_response`, `fetch_jwks_response`, `cache_ttl_secs`; a provider that replaces keys, a shared HTTP cache |
| `RpUserinfo` | `fetch_userinfo_response` and the two readers of claims, composed with `JwksCache` |
| `Federation` | `resolve_via_trust_anchors`, `validate_trust_chain`, `entity_metadata_jwks`; a federation that changes |
| `HomeOrgDiscovery` | the discovery service and the RP's return call, composed with `Federation` |
| `MetadataPolicy` | `apply_policy`, one parameter at a time, one policy after the other |
| `...Proofs` | theorems about `TokenRedemption`, `RedisRedemption`, `TokenEndpoint`, `ClientAssertion`, `Dpop` and `AuthorizationEndpoint`; `RelyingPartyProofs` about `RpUserinfo` (with `JwksCache`) and `RpLogin`, `FederationProofs` about `HomeOrgDiscovery` (with `Federation`) and `MetadataPolicy` |
| `MC...` | constants, symmetry and constraints for TLC |

`TokenRedemption` and `RedisRedemption` both implement `OneTimeUse` under a
refinement mapping: `outcome` from the program counters, and `spent`, true of a
token once a request of this process (or a SET in Redis) took it.
`TokenEndpoint` takes the store as one atomic step, which is what these two
establish, and `AuthorizationEndpoint` supplies what `TokenEndpoint` abbreviates
as `Authorize`.

### From code to model

* An Option is the empty set or a singleton; a scope or claims map is the set of
  its words or names; a response type is the set of its words.
* A sealed token is its payload: JWE, JWS and MAC are taken to be unforgeable
  and hashes to be injective. `token_use_hash` and `assertion_use_hash` become
  tuples, so that keys of different kinds cannot meet.
* `now_secs()` is the variable `clock` or `now`. It advances one second at a time
  and never steps back; between any two readings it may advance. `JwksCache` has
  timers instead (`left`, `age`, `delay`, `gone`), which every `Tick` moves, so
  that its runs do not end and liveness can be asked of them.
* A request that ends in an error before it has consumed anything changes no
  state and is not a step. An error after that is one: store failures, minting
  failures ("burnt"), dropped handlers and restarts.
* In `RpLogin` a session stands for its own `state`, `nonce` and PKCE verifier.
  The application calls the library in the order the documentation of
  `callback.rs` gives: parse, `verify_jarm`, `matches_state`, `matches_iss`,
  exchange, verify. Options set are `max_age` and the access token (`at_hash`
  optional); `acr_values` and `c_hash` are not used. A rejected callback leaves
  the session waiting.
* A URL is the properties that the checks look at. A Cache-Control header is
  whether its quotes are balanced and its directives in order; `AdvertisedTtl`
  gives what `advertised_ttl` makes of it, and `CacheTtl` what `cache_ttl_secs`
  does. The application caches as the documentation of `cache_ttl_secs` asks.
* A signed JWT that may arrive as UserInfo is `kept` with its key, its lifetime
  by `exp`, if any, and its age, which its `iat` tells if it has one; time passes
  for it, and it can be delivered to any number of sessions. Kind, kid, typ, aud,
  sub and the claims that mark an ID token are chosen when it arrives.
  `UserinfoSignedClaims` is the conjunction of the checks of
  `userinfo_signed_claims`.
* The `iat` of a DPoP proof is any i64, and `WrappingSub` is the subtraction of
  `dpop.rs:295` as the release build does it. A build with overflow checks panics
  there instead, before the jti is recorded; such a request changes no state.
* A call at an `initiate_login_uri` is a `Query`: the values of each parameter.
  `ThirdPartyLoginUrl` adds to those that the URI has already, as `push_param`
  does, and which of two values of one name the RP sees is open, since the
  application makes the map that `parse_third_party_initiated_login` reads.
  `StrayCall` is a call that no page built, with any parameters, at any moment.
* An entity statement is issuer, subject, signing key, keys carried, iat and exp.
  `issued` only grows, so any statement ever published may be served; an
  `Outsider` signs statements in every name with its own key. `Chains` are the
  chains of names a resolver may answer with: the anchor alone, the subject
  directly below it, or with one intermediate in between. `ValidateTrustChain` is
  the code's check of them, clause by clause; the code's loop takes chains of any
  length, and longer ones are not covered by the runs or the theorems.
* A metadata parameter is absent, a scalar or an array seen as a set. `Handle`
  is one turn of the loop of `apply_policy`: modifiers, then checks; the map's
  order is any order, and an error leaves the document as it is then.
* The loop of `parse_collection` keeps the OPs of a response in their order.
  `Nth` says which place the k-th of them has, so that lists of any length can be
  reasoned about without recursion; `OpsKeepOrder` of `MCFederation` has TLC compare
  it with `SelectSeq`.
* History variables (`at`, `era`, `checked`, `unsure`, `posted`, `asked`,
  `before`, `calls`, `picked`, the fields `parent`, `born`, `auth`, `signed`,
  `links`, `life`, `late`) record what properties talk about; no check of the code reads them
  (`calls` also holds the policy being applied).

Operators marked "Mutant of" restate one definition with a plausible mistake in
it. No specification uses them; each shows that a property notices the mistake.

## Assumptions

* The system clock does not step back; replicas and Redis agree on it.
* Redis keeps keys until they expire (no eviction, no failover that loses
  writes), and the connection manager does not repeat a command.
* The lock of the in-memory store is never poisoned (nothing under it panics),
  and `consume` in memory has no await, so it is not cancelled half-way.
* The deployment's `ReplayStore` keeps a jti for the ttl it is given and decides
  atomically, as the trait demands.
* jose-rs may compare times in whole seconds or in fractions; `ClientAssertion`
  allows both.
* Shared HTTP caches send a true Age and hold a response for a bounded time; a
  response is under way for a bounded time. The provider of an RP signs nothing
  with a key that it has withdrawn, and dates its JWTs by a right clock.
* Members of a federation vouch for their own subordinates only, learn of a
  subordinate's new key at once, and keep their private keys to themselves.
  Statements and resolve responses live for the same time. A server that answers
  a plain `jwks_uri` speaks for its owner.

## Runs

Each bound is the smallest at which every action fires and the interesting
orders exist: two requests race, a third sweeps or replays; a token's life spans
two seconds, so that a request can open it in its first or last second and reach
the store in, at and after its end; one restart separates two processes.

| Run | Checks | Instance |
|---|---|---|
| `redemption` | `TypeOK`, `OneWinnerWhileLive`, `RefusedOnlyAfterWin`, `KeepsPromise` (refinement of `OneTimeUse`), `SomeoneWins` under weak fairness | 2 requests, 2 tokens, sweeps every second, a restart |
| `redemption_twice` | finding 1 | |
| `redis` | `OneGrantWhileLive`, `RefusedOnlyAfterGrant`, `MintedLeavesMarker`, `KeepsPromise` | 3 requests, 1 token; every command and answer may be lost or late |
| `token_endpoint` | `AuthorityShrinks`, `BindingKept`, `NoFork`, `PublicClientsProveCode`, `UserinfoOnlyForLogin`, `UsedUpOnlyByRedemption` | three scenarios: concurrent rotation over three generations with 3 DPoP choices; 2 clients, one of which changes registration, with right and wrong credentials; assertions, codes and refresh tokens in one store |
| `assertion` | `AssertionUsedOnce`, `RefusedOnlyAfterUse` | four assertions: ended by exp, by age, from the future, jti reused; half-second ticks; a store that may fail |
| `assertion_retention` | finding 3 | |
| `dpop` | `ReplayReach`, `NonceBoundsAge` | 2 requests race with one proof, any iat near the clock and at the ends of the integer range (here -20..19); nonces of every second, two access tokens, GET and POST |
| `dpop_twice` | finding 2 | |
| `authorization` | `IssuedUnderRegistration`, `OnlyExpiredRemoved`, `SafeRedirects` | two scenarios: 2 clients that move between public, pairwise in two sectors, confidential or not, with and without ttl; all response types and modes |
| `rp` | `CodeStaysWithIssuer`, `CodeStaysWithSession`, `JarmIsAResponse`, `LoginBelongsToSession` | two scenarios of 3 sessions: a provider with iss and state and one with neither but PKCE, and stray JARM responses; a typed and an untyped JARM provider with shared keys |
| `rp_keys` | `WithdrawnKeyBounded`, `RequestsStaySecure`, `UserinfoIsUserinfo`, `ReplayEnds`, `NewKeyPickedUp` under fairness | 2 keys, five kinds of header (none, first usable of several max-age, longer than the ceiling, no-store, open quote), three documents, four ways to read UserInfo (by typ with max_age; dedicated keys with exp required; the compatible mode with max_age and with neither), a kept JWT of any age delivered to session after session |
| `federation` | `KeysGenuine`, `TrustLapses`, `SentToOwnUri`, `HintLeads`, `SelectionArrives`, `OneAnchorSuffices` under fairness; `OrderIrrelevant`, `DemandsStand` | a subject below an intermediate of one anchor, which answers, and directly below another, which may not; an outsider; two changes of keys or memberships in five seconds, lifetimes of two; login URIs with and without parameters of their own, stray calls. Every document of two parameters over two values, two policies in a row with up to two operators on one parameter |

In `redemption` a request that marks and a later one that sweeps or replays are
the two requests; three requests and more are covered by the theorems about
`TokenRedemption`. The type invariants of the other modules document their
state; they are proved for all detailed modules but `RpUserinfo` (with `JwksCache`)
and `HomeOrgDiscovery` (with `Federation`).

The scenarios of `token_endpoint`, `authorization` and `rp` have clients or
sessions of their own. The state constraint `OneScenario` of the MC module
explores them one at a time and ends a scenario that has minted enough tokens.
Every state within a scenario, and every successor of one, is checked. Mixtures
of scenarios are not explored: requests of the clients of two scenarios in one
store (under keys of their own), and, in `rp`, responses of plain providers that
stray to JARM sessions (the opposite direction is explored).

`QuietSession` of `rp_keys` explores UserInfo only while no key request is under
way, and follows a finished session until time passes: a session depends on the
keys through the cached set and the time since they were withdrawn, and the keys
on the session not at all. The longest time after which the bound of `ReplayEnds`
lets a withdrawn key pass is reached. `MCFederation` runs the federation and the
policies, which share nothing, each next to the initial state of the other
(`FederationBegins`, `PolicyBegins`), with the fairness of `FairSpec` of
`HomeOrgDiscovery`. Both bounds of `TrustLapses` come due within its five seconds.
`EarlyDiscovery` of `federation`
explores home-organization discovery in the federation's first second; that
`SentToOwnUri` holds while the federation changes is proved. Liveness is thus
checked for behaviours in which no session or discovery is left open while keys or
resolutions go on; these make no difference to it, since no step of the keys or
of a resolution reads their state.

`MaxIssued`, `MaxCodes`, `MaxTokens`, `MaxEpoch`, `MaxKey`, `MaxChanges`,
`MaxCalls`, `MaxJwtAge`, `Cap` and `Horizon` bound counters that the code or the
world leaves unbounded. Deadlock checking is off: once the horizon is reached
and every request has ended, the instance stops.

**Fairness.**

* `redemption`: weak fairness of each step of a request that is under way.
  Nothing in these steps waits for another request except for the lock, which is
  never held across an await. The arrival of requests, issuing, the clock and
  restarts have no fairness, and `SomeoneWins` lets a restart end the wait.
* `rp_keys`: time passes; a shared cache drops a response whose time is over; the
  application looks for keys whenever it has none, and its attempts, which may
  fail any number of times, do not fail for ever (strong fairness). Nothing
  forces it to look again while its cached set lasts: that the set ends is what
  the ceiling of `cache_ttl_secs` is for.
* `federation`: a resolution that awaits an answer gets one or fails, since the
  HTTP client has a timeout. Anchors outside `Up` may fail every time.

## Findings

1. `ExactlyOnce`: the marker of a redeemed token lasts until the token's `exp`.
   A request that opened the token before and reaches the store at or after
   `exp` is granted as well. The documentation says "exactly once".
   `OneWinnerWhileLive` is what does hold.
2. `ProofUsedOnce`: a DPoP jti is kept for `proof_max_age_secs` from its first
   use, less than the rest of the window when that use came no later than the
   second of `iat`. `ReplayReach` is what does hold.
3. `RetentionCapped`: ADR 0003 says that the ttl of an assertion's jti is capped
   at `max_age + leeway`. It is counted from `iat`, which may be up to the leeway
   ahead of the clock, and has a second more for the inclusive end of the window:
   up to `max_age + 2 * leeway + 1`. `AssertionUsedOnce` needs the longer time, so
   it is the document that should change; `RetentionBoundedHolds` proves the
   longer bound.

Smaller observations, without a run of their own:

* `consume` reads the clock before the lock, and a sweep by an overtaking request
  with a later reading can remove a marker that the earlier reading counts as
  alive, although the comment (`provider.rs:121-122`) keeps the sweep out of
  correctness. It matters only for tokens at their end, as in finding 1.
* The age of a DPoP proof is `now - claims.iat` on i64 (`dpop.rs:295`), with any
  `iat` that a client signs. For one below `now - i64::MAX` the difference
  overflows: a release build wraps to a negative age, so that a proof of such an
  `iat` passes the check although `dpop.rs:32` says that proofs older than
  `proof_max_age_secs` are rejected, and passes it for ever; its jti is forgotten
  all the same. The second disjunct of `ReplayReach` is this case. Where a nonce
  is required, `NonceBoundsAge` holds for these proofs as for all others.
* `third_party_login_url` appends `iss` to a URI that may have an `iss` of its own;
  the RP may then see either (`l.own` in `SelectionArrives`).
* The comment on `normalize_htu` (`dpop.rs:317-318`) says that a trailing slash is
  trimmed; it is not.
* The ceiling of `cache_ttl_secs` counts from the fetch: a response that was
  already old when it came is kept as long as a new one if its lifetime allows.
  The first bound of `WithdrawnKeyBounded` has `c.age` for this reason.
* `apply_policy` passes over `add` silently when the metadata holds a scalar.
* A signed key set (`fetch_signed_jwks`) needs no `exp`, so an old one of the
  subject is accepted as long as the key that signed it is among its keys.

## Proofs

All proofs are for every value of the constants that the named assumptions of the
modules admit.

**`TokenRedemptionProofs`**: `TypeCorrect`, `LiveTokenRedeemedOnce`
(`OneWinnerWhileLive`), `RefusalHasACause` (`RefusedOnlyAfterWin`),
`MarkerLivesLongEnough`, and `Implements` (`Spec => KeepsPromise`).
`OneWinnerWhileLive` is not inductive, since it says nothing of the map. `IInv`
adds `MarkerOutlivesToken` (a redeemed token still alive has a marker that ends
no earlier than the token), `RequestInv` (a request holds an issued token, one
under way belongs to the running process, its clock reading is not ahead of the
clock, and its ttl, counted from that reading, reaches at least to `exp`) and
`MarkerInv` (a marker in the map was left by a request of this process). The step
that matters is `ConsumeLocked`: a sweep removes only markers that have ended by
the request's reading, which is no later than the clock, and a marker of a live
token has not; a second winner therefore finds the first one's marker unless the
token has expired. For `Implements`, every action maps to a step of `OneTimeUse`
or to a stutter, and the abstract guards follow from `IInv`.

**`RedisRedemptionProofs`**: `TypeCorrect`, `LiveTokenGrantedOnce`,
`RefusalHasACause`, `MintedLeavesMarkerHolds`, `Implements`. `RequestInv` ties the
handler's place to what Redis did with its command, also for handlers that died
or gave up; `MarkerInv` says that a command still under way would leave a marker
that reaches `exp`, since the ttl was computed earlier and Redis counts it from
later; `CauseInv` that markers and refusals come from a SET that took the token.

**`TokenEndpointProofs`**: `TypeCorrect`, `AuthorityNeverGrows`,
`BindingNeverDropped`, `RotationNeverForks` (`NoFork`),
`PublicClientsAlwaysProveCode`, `UserinfoAlwaysForLogin`, `NothingUsedUpInVain`
(`UsedUpOnlyByRedemption`), for chains of any length. Sealed tokens never change,
so what a token owes to its parent is a fact of two entries of a growing sequence
(`SoundInv`), and what a request learnt from a token before it awaits the store
still holds after (`RequestInv`: a request about to consume has passed every check
of its grant with the registration it read). `MarkerInv` says that the marker of
a redeemed token reaches its `exp`, so a second redemption that finds none comes
after it; `FreshInv` that no marker waits for a token still to be sealed, without
which a new code could be born used up. `AuthorityShrinks`, `BindingKept`,
`PublicClientsProveCode` and `UserinfoOnlyForLogin` follow from `SoundInv`.

**`ClientAssertionProofs`**: `TypeCorrect`, `AssertionUsedOnceHolds`,
`RetentionBoundedHolds`, `RefusedOnlyAfterUseHolds`. The heart is `Expired`: when
the second has come until which the code remembers an assertion (rounded up from
`exp`, or from `iat` plus the maximal age and one), jose-rs refuses it at every
tick of that second, in fractions or in whole seconds. It rests on lemmas about
division by any number of ticks, and on `ClockAssumption`: the clock stays below
`u64::MAX`, so a saturated deadline never comes. A request that the store fails
may have left a marker or not: both steps keep the invariant, and a later refusal
may go back to it.

**`DpopProofs`**: `TypeCorrect`, `ReplayReachHolds`, `NonceBoundsAgeHolds`, for
every `iat` of an i64. `RecordInv`: the marker of an accepted proof lasts
`MaxAge` from its use, so two uses are that far apart; the second is fresh only if
the first came no later than `iat` or the subtraction wrapped. `ProofInv`: a proof cannot carry a nonce from
after it was signed.

**`AuthorizationEndpointProofs`**: `TypeCorrect`, `AlwaysIssuedUnderRegistration`,
`RedirectsAlwaysSafe`, and the action property `NothingLiveRemoved`
(`OnlyExpiredRemoved`). `FlowInv` is what a request carries across the login and
the subject callback: its response mode has been checked, and once it is resolved
it is valid under the registration kept with it, with the subject of that
registration or none. `Mint` reads the store again and goes on only if the two
registrations agree, so all of it holds for the one in force.

**`RelyingPartyProofs`**, keys and UserInfo: `WithdrawnKeyBoundedHolds`, `RequestsStaySecureHolds`,
`UserinfoIsUserinfoHolds`, `ReplayEndsHolds`. `TimeInv` relates the time since
a key was withdrawn to the age of every copy of a set that holds it, in the shared
cache and under way; `CacheInv` adds what is left of its time in the
application's cache, which every tick shifts from one side to the other.
`SessionInv` says of an accepted JWT what `userinfo_signed_claims` checked at that
moment; that its key was in the cached set ties it to `CacheInv`.

Login: `LoginTypeCorrect`, `CodeAlwaysStaysWithIssuer`, `CodeAlwaysStaysWithSession`,
`JarmAlwaysAResponse`, `LoginAlwaysBelongsToSession`. `Taken(s, c)` is what the
checks of a callback, plain or JARM, leave to be known of the code `c` that session
`s` took: its issuer, if either side names itself, its session, if state is
required, and that it is a code at all. `HoldInv` and `PostInv` keep this from the
callback on; `TokenInv` adds what the token endpoint and PKCE establish, `OnceInv`
that no two sessions exchange one code, since the provider spends it, and `DoneInv`
what the ID token showed. `NoneAssumption` keeps the absent value apart from a code
and from a typ.

**`FederationProofs`**: `KeysGenuineHolds`, `TrustLapsesHolds`,
`SentToOwnUriHolds`, `HintLeadsHolds`, `SelectionArrivesHolds`; `PolicyTypeCorrect`,
`OrderIrrelevantHolds`, `DemandsStandHolds`. `IssuedInv` divides what is published: a member's statement
was signed with a key of its own that, like the membership it attests, had not
come to its end when it was issued; everything else is signed with the outsider's
key and carries only that. Along a chain that validates, each statement is signed
by a key the one above it carries, from the pinned key down, so none is the
outsider's; and all of them are in their lifetime. `ResultInv` keeps both facts
while keys are replaced and members dropped. All this is for chains with at most
one intermediate, as `Chains` has them, in federations of any number of members.

`DiscoveryInv` ties the page to the response it was made from. That the page has
every OP as often as the response, in its order, rests on `NthFacts`: the rank of a place among the
selected ones is injective, a set of n ranks below n+1 has them all, so each k has
its place; no induction is needed. `PromotedLeads` treats the hinted place as
first, last or between, with duplicates elsewhere. For the way back,
`DiscoveryInv` says that a call of the page is the URL built from the selection,
while a stray call leaves nothing selected; `IssAsSent` and `TargetAsSent` say when
such a URL is read as it was meant.

For policies, `Midway` says what holds between two parameters of a call:
those handled have passed and are changed by their own operators, the others are
as before. For `DemandsStand` every operator is shown to preserve what earlier
policies demand, unless it is one of those the property names, for any number of
policies.

Only model-checked: liveness (`SomeoneWins`, `NewKeyPickedUp`, `OneAnchorSuffices`),
since liveness under fairness, `ENABLED` and induction over data are out of the
prover's reach, and the type invariants of `RpUserinfo` and `HomeOrgDiscovery`, of
which the proofs need only parts (`TimeInv`, `CacheInv`, `SessionInv`,
`DiscoveryInv`).

## Not modelled

* Key loading (`keys.rs`) and the JOSE layer (`jwt.rs`, jose-rs): signatures,
  encryption and hashes are taken to be what they claim.
* Errors and their text (`error.rs`, `oauth_error.rs`), sanitising, metadata
  documents, HTTP types beyond the cache headers: sequential formatting and
  parsing without state.
* In modelled components: the character rules of PKCE verifiers and of callback
  parameters are one flag; signed request objects, `acr_values` and `c_hash` of
  the RP; changes of the sealing key; percent-encoding of URLs; `login_hint` of
  the return call, which is treated like `target_link_uri`.
* Trust chains with more than one intermediate.
* Who made a call at an `initiate_login_uri`: the code cannot tell, by design
  (`discovery.rs:101-102` leaves `target_link_uri` to the RP's allowlist), and no
  property of stray calls is claimed.

## Plan

1. A composition of `TokenEndpoint` with the fine-grained store, and with
   `AuthorizationEndpoint`.
2. `c_hash` and `acr_values` in `RpLogin`, and its ID token verified with the keys
   of `JwksCache`.
3. Theorems: that `TokenEndpoint` implements `OneTimeUse` with the codes and refresh
   tokens as its tokens; the type invariants of `RpUserinfo` and `HomeOrgDiscovery`.
