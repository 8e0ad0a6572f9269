------------------------ MODULE AuthorizationEndpoint ------------------------
(***************************************************************************)
(* The authorization endpoint (src/src/provider.rs and src/src/request.rs) *)
(* over the in-memory client store (src/src/client.rs).  A request is      *)
(* validated, the user logs in, and authorization_redirect validates it    *)
(* again, resolves the subject from the registration it read, reads the    *)
(* registration once more and mints only if nothing changed.  Meanwhile    *)
(* the application registers, replaces and drops clients, and registrations*)
(* with a ttl (federation) expire.                                         *)
(***************************************************************************)
EXTENDS GrantOps

CONSTANTS Slot,           \* authorization requests under way at once
          Client,         \* client identifiers
          Registration,   \* the registrations that clients may be given
          AuthRequest,    \* the requests that arrive
          Ttl,            \* ttls that put_with_ttl is called with
          CallerManagedPairwise,  \* caller_managed_pairwise_subjects
          HashCapable,    \* supports_oidc_token_hash(signing_key.alg())
          EmitIss,        \* emit_iss
          Horizon,        \* last clock value
          MaxIssued       \* bound on the number of responses

\* A redirect URI: whether it parses, and whether its query has an iss already.
RedirectUri == [name : STRING, has_iss : BOOLEAN, wellformed : BOOLEAN]

ASSUME BoundAssumption == {Horizon, MaxIssued} \subseteq Nat /\ Ttl \subseteq Nat
ASSUME RegistrationAssumption ==
    Registration \subseteq
        [client : Client, auth : AuthMethod \cup {"none"}, subject_type : {"public", "pairwise"},
         sector : STRING, redirect_uris : SUBSET RedirectUri,
         response_types : SUBSET SUBSET STRING, scope : SUBSET SUBSET STRING]
ASSUME AuthRequestAssumption ==
    AuthRequest \subseteq
        [client : Client, redirect : RedirectUri, response_type : SUBSET STRING,
         response_mode : SUBSET STRING, prompt : Seq(STRING), nonce : BOOLEAN,
         state_ok : BOOLEAN, challenge : {"absent", "S256", "plain"},
         scope : SUBSET STRING, claims : SUBSET ClaimName]
ASSUME SwitchAssumption == {CallerManagedPairwise, HashCapable, EmitIss} \subseteq BOOLEAN

VARIABLES clock,
          clients,  \* clients[c]: Option of [client, expires_at: Option of a second]
          slot,     \* slot[s]: the request in s and how far it has got
          issued    \* the responses sent so far (history, with what was true then)

vars == <<clock, clients, slot, issued>>

Idle == [pc |-> "idle"]

Init ==
    /\ clock = 0
    /\ \E r \in SUBSET Registration :
          /\ \A x, y \in r : x.client = y.client => x = y
          /\ clients = [c \in Client |->
                          {[client |-> x, expires_at |-> {}] : x \in {y \in r : y.client = c}}]
    /\ slot = [s \in Slot |-> Idle]
    /\ issued = {}
-----------------------------------------------------------------------------
(* InMemoryClientStore.                                                    *)

ExpiredEntry(e) == \E t \in e.expires_at : t <= clock

\* get, as a value; an expired entry is removed by the lookup.
Get(c) == {e.client : e \in {x \in clients[c] : ~ExpiredEntry(x)}}
AfterGet(c) == [clients EXCEPT ![c] = {e \in @ : ~ExpiredEntry(e)}]

Put(x) ==
    /\ clients' = [clients EXCEPT ![x.client] = {[client |-> x, expires_at |-> {}]}]
    /\ UNCHANGED <<clock, slot, issued>>

\* Mutant of PutWithTtl: the sweep takes entries without expiry for expired.
PutWithTtlSweepsStatic(x, ttl) ==
    /\ clients' = [c \in Client |->
                      IF c = x.client THEN {[client |-> x, expires_at |-> {clock + ttl}]}
                      ELSE {e \in clients[c] : \E t \in e.expires_at : t > clock}]
    /\ UNCHANGED <<clock, slot, issued>>

\* Every expired entry is swept before the insertion.
PutWithTtl(x, ttl) ==
    /\ clients' = [c \in Client |->
                      IF c = x.client THEN {[client |-> x, expires_at |-> {clock + ttl}]}
                      ELSE {e \in clients[c] : e.expires_at = {} \/ ~ExpiredEntry(e)}]
    /\ UNCHANGED <<clock, slot, issued>>
-----------------------------------------------------------------------------
(* Validation.  A response type is the set of its words; one with an empty *)
(* or a repeated word is outside Supported, as response_type_eq has it.    *)

Supported == {{"code"}, {"id_token"}, {"id_token", "token"}, {"code", "id_token"},
              {"code", "token"}, {"code", "id_token", "token"}}

\* validate_response_type
ResponseTypeOk(q) ==
    /\ q.response_type \in Supported
    /\ "id_token" \in q.response_type => "openid" \in q.scope

\* validate_prompt: none stands alone, in the list of values.
PromptOk(q) == (\E i \in DOMAIN q.prompt : q.prompt[i] = "none") => Len(q.prompt) = 1

TokenBearing(q) == q.response_type \cap {"id_token", "token"} # {}

\* validate_response_mode
ResponseModeOk(q) ==
    \/ q.response_mode \in {{}, {"fragment"}}
    \/ q.response_mode = {"query"} /\ ~TokenBearing(q)

\* use_fragment
UseFragment(q) ==
    CASE q.response_mode = {"fragment"} -> TRUE
      [] q.response_mode = {"query"}    -> FALSE
      [] OTHER                          -> TokenBearing(q)

\* The subject types that the provider serves.
SubjectTypeOk(client) ==
    client.subject_type = "public" \/ (client.subject_type = "pairwise" /\ CallerManagedPairwise)

\* A canonical S256 challenge, or none at all from a confidential client.
PkceOk(q, client) ==
    "code" \in q.response_type =>
        q.challenge = "S256" \/ (q.challenge = "absent" /\ client.auth # "none")

\* validate_authorization_request, given the registration it read.
Valid(q, client) ==
    /\ q.redirect \in client.redirect_uris
    /\ q.state_ok
    /\ q.redirect.wellformed
    /\ SubjectTypeOk(client)
    /\ ResponseTypeOk(q)
    /\ PromptOk(q)
    /\ ResponseModeOk(q)
    /\ "id_token" \in q.response_type /\ q.response_type # {"id_token"} => HashCapable
    /\ q.response_type \in client.response_types
    /\ "id_token" \in q.response_type => q.nonce
    /\ PkceOk(q, client)
    /\ client.scope # {} => q.scope \subseteq OrElse(client.scope, {})

\* check_iss_redirect_collision passes.
NoIssCollision(q) == ~EmitIss \/ UseFragment(q) \/ ~q.redirect.has_iss
-----------------------------------------------------------------------------
(* The flow of one request.                                                *)

PublicSubject == <<"public", "">>
EmptySubject == <<>>

\* The subject an application derives for a registration.
SubjectFor(client) ==
    IF client.subject_type = "pairwise" THEN <<"pairwise", client.sector>> ELSE PublicSubject

\* authorization_redirect_with_auth_time: a subject that the application has
\* computed beforehand is accepted for public clients only.
Precomputed(client) == IF client.subject_type = "public" THEN {PublicSubject} ELSE {}

Tick ==
    /\ clock < Horizon
    /\ clock' = clock + 1
    /\ UNCHANGED <<clients, slot, issued>>

\* The request arrives and is validated before the user is asked to log in.
Begin(s, q) ==
    /\ slot[s] = Idle
    /\ slot' = IF \E client \in Get(q.client) : Valid(q, client)
               THEN [slot EXCEPT ![s] = [pc |-> "login", q |-> q]]
               ELSE slot
    /\ clients' = AfterGet(q.client)
    /\ UNCHANGED <<clock, issued>>

\* Mutant of Deny: the error redirect is built without the iss check.
DenyUnchecked(s) ==
    /\ slot[s].pc = "login"
    /\ LET q == slot[s].q
       IN  issued' = issued \cup {[kind |-> "error", q |-> q, fragment |-> UseFragment(q)]}
    /\ slot' = [slot EXCEPT ![s] = Idle]
    /\ UNCHANGED <<clock, clients>>

\* The user does not log in, and the client is told so.
Deny(s) ==
    /\ slot[s].pc = "login"
    /\ LET q == slot[s].q
       IN  issued' = IF NoIssCollision(q)
                     THEN issued \cup {[kind |-> "error", q |-> q, fragment |-> UseFragment(q)]}
                     ELSE issued
    /\ slot' = [slot EXCEPT ![s] = Idle]
    /\ UNCHANGED <<clock, clients>>

\* authorization_redirect*: validate again, then take the precomputed subject,
\* or the one the resolver derives from this registration; an empty one is an
\* application's slip.  An invalid request, a refused precomputed subject and a
\* resolver's own error end the flow.
Resolve(s) ==
    /\ slot[s].pc = "login"
    /\ LET q == slot[s].q
       IN  /\ clients' = AfterGet(q.client)
           /\ \/ \E client \in Get(q.client) :
                    \E sub \in {SubjectFor(client), EmptySubject} \cup Precomputed(client) :
                       /\ Valid(q, client)
                       /\ slot' = [slot EXCEPT ![s] = [pc |-> "resolved", q |-> q,
                                                       client |-> client, sub |-> sub]]
              \/ slot' = [slot EXCEPT ![s] = Idle]
    /\ UNCHANGED <<clock, issued>>

\* Mutant of Unchanged: it is enough that the client is still registered.
StillRegistered(s) == Get(slot[s].q.client) # {}

\* The registration that the second get returned is the one resolved against.
Unchanged(s) == Get(slot[s].q.client) = {slot[s].client}

\* mint_authorization_response
Minted(s) ==
    LET q == slot[s].q
    IN  [kind |-> "success", q |-> q, sub |-> slot[s].sub, fragment |-> UseFragment(q),
         claims |-> FilterClaims(q.scope, q.claims), registration |-> Get(q.client)]

\* What stands between the second get and the response.
MayMint(s) ==
    /\ Unchanged(s)
    /\ NoIssCollision(slot[s].q)
    /\ slot[s].sub # EmptySubject

\* The second get, the comparison, and minting.
Mint(s) ==
    /\ slot[s].pc = "resolved"
    /\ clients' = AfterGet(slot[s].q.client)
    /\ issued' = IF MayMint(s) THEN issued \cup {Minted(s)} ELSE issued
    /\ slot' = [slot EXCEPT ![s] = Idle]
    /\ UNCHANGED clock

Next ==
    \/ Tick
    \/ \E x \in Registration : Put(x)
    \/ \E x \in Registration, ttl \in Ttl : PutWithTtl(x, ttl)
    \/ \E s \in Slot, q \in AuthRequest : Cardinality(issued) < MaxIssued /\ Begin(s, q)
    \/ \E s \in Slot : Deny(s) \/ Resolve(s) \/ Mint(s)

Spec == Init /\ [][Next]_vars
-----------------------------------------------------------------------------
Entry == [client : Registration, expires_at : SUBSET Nat]

Subject == {EmptySubject} \cup {SubjectFor(x) : x \in Registration}

SlotState ==
    {Idle}
    \cup [pc : {"login"}, q : AuthRequest]
    \cup [pc : {"resolved"}, q : AuthRequest, client : Registration, sub : Subject]

Response ==
    [kind : {"error"}, q : AuthRequest, fragment : BOOLEAN]
    \cup [kind : {"success"}, q : AuthRequest, sub : Subject, fragment : BOOLEAN,
          claims : SUBSET ClaimName, registration : SUBSET Registration]

\* A store has at most one entry for a client, and it is that client's.
TypeOK ==
    /\ clock \in 0..Horizon
    /\ clients \in [Client -> SUBSET Entry]
    /\ \A c \in Client : \A e, f \in clients[c] : e.client.client = c /\ e = f
    /\ slot \in [Slot -> SlotState]
    /\ issued \subseteq Response

Success == {m \in issued : m.kind = "success"}

\* Whatever the application does to the registrations while a user logs in, a
\* code or token is issued only under a registration that was in the store at
\* that moment, that allows the request, and that the subject was derived for:
\* no public or foreign-sector subject reaches a pairwise client, and no code
\* without PKCE a client that has become public.
IssuedUnderRegistration ==
    \A m \in Success :
        \E client \in m.registration :
            /\ m.q.redirect \in client.redirect_uris
            /\ m.sub = SubjectFor(client)
            /\ PkceOk(m.q, client)
            /\ client.scope # {} => m.q.scope \subseteq OrElse(client.scope, {})

\* What a redirect carries, by default or on request, be it a success or an
\* error: no ID token or access token in the query, where logs and referrers
\* would keep it, and no second iss next to one that the redirect URI itself has.
SafeRedirects ==
    /\ \A m \in Success : TokenBearing(m.q) => m.fragment
    /\ \A m \in issued : EmitIss /\ m.q.redirect.has_iss => m.fragment

\* A registration disappears from the store only once it has expired: neither
\* a lookup nor the sweep for another client's registration drops a live one.
OnlyExpiredRemoved ==
    [][\A c \in Client : clients[c] # {} /\ clients'[c] = {} =>
          \E e \in clients[c] : ExpiredEntry(e)]_vars
=============================================================================
