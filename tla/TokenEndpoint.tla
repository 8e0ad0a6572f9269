---------------------------- MODULE TokenEndpoint ----------------------------
(***************************************************************************)
(* The token endpoint and UserInfo of the OpenID Provider                  *)
(* (src/src/provider.rs): client authentication with single-use assertions,*)
(* the authorization_code, refresh_token and client_credentials grants, and*)
(* the sealed tokens they open and mint (src/src/tokens.rs).               *)
(*                                                                         *)
(* A handler runs without interruption between its awaits on the one-time- *)
(* use store, where other requests, the clock and changes of client        *)
(* registrations interleave; what it read before an await it uses after.   *)
(* The store decides in one step here; TokenRedemption and RedisRedemption *)
(* look inside that step.  A request that is answered with an error before *)
(* it has consumed anything changes nothing and is not a step.             *)
(***************************************************************************)
EXTENDS GrantOps, TokenUseStore

CONSTANTS Request,        \* requests that can be under way at once
          Client,         \* client identifiers
          Registration,   \* the registrations that clients may be given
          AuthRequest,    \* the authorization requests users complete
          Form,           \* the token requests clients send
          Assertion,      \* client assertions: [client, jti, until]
          CodeTtl, AccessTtl, IdTtl, RefreshTtl,   \* TokenLifetimes
          Horizon,        \* last clock value
          MaxCodes,       \* bound on the number of codes
          MaxTokens       \* bound on the number of sealed tokens

ASSUME TtlAssumption == {CodeTtl, AccessTtl, IdTtl, RefreshTtl} \subseteq Nat
ASSUME BoundAssumption == {Horizon, MaxCodes, MaxTokens} \subseteq Nat
ASSUME AssertionAssumption ==
    Assertion \subseteq [client : Client, jti : STRING, until : Nat]
ASSUME RegistrationAssumption ==
    Registration \subseteq [client : Client, auth : AuthMethod \cup {"none"},
                            grant_types : SUBSET GrantType, scope : SUBSET SUBSET STRING]
ASSUME AuthRequestAssumption ==
    AuthRequest \subseteq
        [client : Client, login : STRING, scope : SUBSET STRING, redirect : STRING,
         claims : SUBSET ClaimName, challenge : SUBSET ({"S256"} \X STRING), token : BOOLEAN]
ASSUME FormAssumption ==
    Form \subseteq
        [grant_type : GrantType, client : Client, methods : SUBSET AuthMethod,
         secret_ok : BOOLEAN, assertion : Opt(Assertion), token : Nat,
         redirect : SUBSET STRING, verifier : SUBSET STRING, scope : SUBSET SUBSET STRING,
         jkt : SUBSET STRING]

VARIABLES clock,
          reg,      \* reg[c]: Option of the registration of c
          tokens,   \* every token sealed so far, in order; its index names it
          entries,  \* the one-time-use store
          req,      \* req[r]: the request in slot r, and where it waits
          unsure    \* keys taken by a request that ended in server_error (history)

vars == <<clock, reg, tokens, entries, req, unsure>>

TokenKey == {"code", "refresh"} \X (1..MaxTokens)
AssertionKey == {<<"assertion", a.client, a.jti>> : a \in Assertion}
StoreKey == TokenKey \cup AssertionKey

\* Mutant of KeyOf: the hash leaves out the token.
KeyOfKind(i) == <<tokens[i].kind, 1>>

\* token_use_hash keys a token by its kind and its sealed string.
KeyOf(i) == <<tokens[i].kind, i>>
\* assertion_use_hash
AssertionKeyOf(a) == <<"assertion", a.client, a.jti>>

Idle == [pc |-> "idle"]

\* What the client store may hold under the identifier c.
RegistrationOf(c) == Opt({x \in Registration : x.client = c})

Init ==
    /\ clock = 0
    /\ reg \in [Client -> UNION {RegistrationOf(c) : c \in Client}]
    /\ \A c \in Client : reg[c] \in RegistrationOf(c)
    /\ tokens = <<>>
    /\ entries = NoEntries(StoreKey)
    /\ req = [r \in Request |-> Idle]
    /\ unsure = {}
-----------------------------------------------------------------------------
(* Sealed tokens.  login stands for sub, nonce, auth_time and acr, which   *)
(* travel together; parent, born and auth are history: the token redeemed  *)
(* for this one, when, and how the client had authenticated.               *)

Token(kind, client, login, scope, claims, exp, jkt, parent, auth) ==
    [kind |-> kind, client |-> client, login |-> login, scope |-> scope,
     claims |-> claims, exp |-> exp, jkt |-> jkt, challenge |-> {},
     redirect |-> "", parent |-> parent, born |-> clock, auth |-> auth]

\* TokenCodec::open_*: the string must be a sealed token of the kind asked
\* for (typ) and not past its exp.
Opens(kind, i) ==
    /\ i \in DOMAIN tokens
    /\ tokens[i].kind = kind
    /\ ~(tokens[i].exp <= clock)
-----------------------------------------------------------------------------
(* Client authentication.                                                  *)

\* authenticate_client_map and check_secret: at most one method, it is the
\* registered one, the secret is right; no method at all for AUTH_NONE.
AuthenticatedAs(f, client) ==
    /\ reg[f.client] = {client}
    /\ Cardinality(f.methods) <= 1
    /\ \/ f.methods = {} /\ client.auth = "none"
       \/ f.methods \in {{"client_secret_basic"}, {"client_secret_post"}}
          /\ f.methods = {client.auth} /\ f.secret_ok

\* verify_private_key_jwt up to its await: registered method, signature,
\* iss = sub = client_id, audience, and acceptance window.
AssertionVerified(f, client) ==
    /\ reg[f.client] = {client}
    /\ f.methods = {"private_key_jwt"}
    /\ client.auth = "private_key_jwt"
    /\ \E a \in f.assertion : a.client = f.client /\ clock < a.until
-----------------------------------------------------------------------------
(* The checks of each grant between authentication and consumption.        *)

\* The challenge a client derives from its verifier (S256 is injective), and
\* pkce::verify of an optional verifier against it.
S256(verifier) == <<"S256", verifier>>
PkceVerify(verifier, challenge) == \E v \in verifier : S256(v) = challenge

\* Mutant of CodeRequestOk: a public client may redeem a code without PKCE.
CodeRequestOkWithoutPkce(f, client) ==
    /\ "authorization_code" \in client.grant_types
    /\ Opens("code", f.token)
    /\ LET code == tokens[f.token]
       IN  /\ code.client = f.client
           /\ code.redirect # "" => f.redirect = {code.redirect}
           /\ \A challenge \in code.challenge : PkceVerify(f.verifier, challenge)

\* handle_authorization_code, up to consume_token_once.
CodeRequestOk(f, client) ==
    /\ "authorization_code" \in client.grant_types
    /\ Opens("code", f.token)
    /\ LET code == tokens[f.token]
       IN  /\ code.client = f.client
           /\ code.redirect # "" => f.redirect = {code.redirect}
           /\ client.auth = "none" => code.challenge # {}
           /\ \A challenge \in code.challenge : PkceVerify(f.verifier, challenge)

\* The scope that a refresh asks for.
RefreshScope(f) == OrElse(f.scope, tokens[f.token].scope)

\* Mutant of RefreshRequestOk: the key of a bound refresh token is not compared.
RefreshRequestOkAnyKey(f, client) ==
    /\ ClientAllowsRefresh(client)
    /\ Opens("refresh", f.token)
    /\ LET rt == tokens[f.token]
       IN  /\ rt.client = f.client
           /\ f.scope # {} => RefreshScope(f) # {} /\ RefreshScope(f) \subseteq rt.scope

\* handle_refresh_token, up to consume_token_once.
RefreshRequestOk(f, client) ==
    /\ ClientAllowsRefresh(client)
    /\ Opens("refresh", f.token)
    /\ LET rt == tokens[f.token]
       IN  /\ rt.client = f.client
           /\ rt.jkt # {} => f.jkt = rt.jkt
           /\ f.scope # {} => RefreshScope(f) # {} /\ RefreshScope(f) \subseteq rt.scope

\* handle_client_credentials: requested and allowed scopes intersected.
GrantedScope(f, client) ==
    LET allowed == OrElse(client.scope, {})
    IN  IF f.scope = {} THEN allowed ELSE OrElse(f.scope, {}) \cap allowed

\* Mutant of CredentialsRequestOk: openid is granted without an end user.
CredentialsRequestOkOpenid(f, client) ==
    /\ client.auth # "none"
    /\ "client_credentials" \in client.grant_types
    /\ GrantedScope(f, client) # {}

CredentialsRequestOk(f, client) ==
    /\ client.auth # "none"
    /\ "client_credentials" \in client.grant_types
    /\ "openid" \notin GrantedScope(f, client)
    /\ GrantedScope(f, client) # {}
-----------------------------------------------------------------------------
(* Minting.                                                                *)

IfThen(b, s) == IF b THEN s ELSE <<>>

\* build_id_token: the login and the claims of the access token t, signed
\* rather than sealed, and bound to no key.
IdToken(t) == [t EXCEPT !.kind = "id", !.exp = clock + IdTtl, !.jkt = {}]

\* Access token, an ID token for an OIDC grant, and a refresh token.
CodeResponse(f, client) ==
    LET code == tokens[f.token]
        T(kind, exp) == Token(kind, f.client, code.login, code.scope, code.claims,
                              exp, f.jkt, f.token, client.auth)
    IN  <<T("access", clock + AccessTtl)>>
        \o IfThen("openid" \in code.scope, <<IdToken(T("access", clock))>>)
        \o IfThen(ClientAllowsRefresh(client), <<T("refresh", clock + RefreshTtl)>>)

\* Mutant of RefreshResponse: claims of scopes given up are carried over.
RefreshResponseAllClaims(f, client, scope, now) ==
    LET rt == tokens[f.token]
        T(kind, exp) == Token(kind, f.client, rt.login, scope, rt.claims,
                              exp, f.jkt, f.token, client.auth)
    IN  <<T("access", now + AccessTtl), T("refresh", now + RefreshTtl)>>

\* The same for a refresh; its expiries count from a clock reading taken
\* before the store was asked.  cnf_jkt is the proof's key in every case that
\* passed: a bound token demands it, an unbound one takes it.
RefreshResponse(f, client, scope, now) ==
    LET rt == tokens[f.token]
        T(kind, exp) == Token(kind, f.client, rt.login, scope, FilterClaims(scope, rt.claims),
                              exp, f.jkt, f.token, client.auth)
    IN  <<T("access", now + AccessTtl)>>
        \o IfThen("openid" \in scope, <<IdToken(T("access", clock))>>)
        \o <<T("refresh", now + RefreshTtl)>>

\* No end user: the subject is the client itself.
CredentialsResponse(f, client) ==
    <<Token("access", f.client, f.client, GrantedScope(f, client), {},
            clock + AccessTtl, f.jkt, 0, client.auth)>>

Fits(s) == Len(tokens) + Len(s) <= MaxTokens
-----------------------------------------------------------------------------
(* Steps.                                                                  *)

Tick ==
    /\ clock < Horizon
    /\ clock' = clock + 1
    /\ UNCHANGED <<reg, tokens, entries, req, unsure>>

\* ClientStore::put by the application, or the expiry of a registration.
Reregister(c) ==
    /\ \E x \in RegistrationOf(c) \ {reg[c]} : reg' = [reg EXCEPT ![c] = x]
    /\ UNCHANGED <<clock, tokens, entries, req, unsure>>

\* A user completes an authorization request that the client's registration
\* allows (AuthorizationEndpoint), and a code is sealed for it, with an access
\* token beside it when the response type has "token".
Authorize(q) ==
    /\ Cardinality({i \in DOMAIN tokens : tokens[i].kind = "code"}) < MaxCodes
    /\ Len(tokens) + 2 <= MaxTokens
    /\ \E client \in reg[q.client] :
          /\ client.auth = "none" => q.challenge # {}
          /\ client.scope # {} => q.scope \subseteq OrElse(client.scope, {})
          /\ LET T(kind, exp) == Token(kind, q.client, q.login, q.scope,
                                       FilterClaims(q.scope, q.claims), exp, {}, 0, client.auth)
                 code == [T("code", clock + CodeTtl)
                          EXCEPT !.challenge = q.challenge, !.redirect = q.redirect]
             IN  tokens' = tokens \o <<code>>
                                  \o IfThen(q.token, <<T("access", clock + AccessTtl)>>)
    /\ UNCHANGED <<clock, reg, entries, req, unsure>>

\* Where an authenticated request goes next: it waits for the store to consume
\* its token, or it is finished (a client_credentials grant, or an error).
Granting(r, f, client) ==
    \/ /\ \/ f.grant_type = "authorization_code" /\ CodeRequestOk(f, client)
          \/ f.grant_type = "refresh_token" /\ RefreshRequestOk(f, client)
       /\ req' = [req EXCEPT ![r] = [pc |-> "consume", form |-> f, client |-> client,
                                     now |-> clock]]
       /\ UNCHANGED tokens
    \/ /\ f.grant_type = "client_credentials"
       /\ CredentialsRequestOk(f, client)
       /\ Fits(CredentialsResponse(f, client))
       /\ tokens' = tokens \o CredentialsResponse(f, client)
       /\ req' = [req EXCEPT ![r] = Idle]

\* The grant's own checks refuse the authenticated request.
GrantRefused(f, client) ==
    \/ f.grant_type = "authorization_code" /\ ~CodeRequestOk(f, client)
    \/ f.grant_type = "refresh_token" /\ ~RefreshRequestOk(f, client)
    \/ f.grant_type = "client_credentials" /\ ~CredentialsRequestOk(f, client)

\* A request that authenticates with a secret, or as a public client.
TokenRequest(r, f) ==
    /\ req[r] = Idle
    /\ \E client \in reg[f.client] : AuthenticatedAs(f, client) /\ Granting(r, f, client)
    /\ UNCHANGED <<clock, reg, entries, unsure>>

\* A request that authenticates with an assertion waits for its jti.
AssertionRequest(r, f) ==
    /\ req[r] = Idle
    /\ \E client \in reg[f.client] :
          /\ AssertionVerified(f, client)
          /\ req' = [req EXCEPT ![r] = [pc |-> "assertion", form |-> f, client |-> client]]
    /\ UNCHANGED <<clock, reg, tokens, entries, unsure>>

\* consume(assertion jti).  Refused: invalid_client.  Consumed: the grant's
\* checks follow, and if they fail the assertion stays used up.
ConsumeAssertion(r) ==
    /\ req[r].pc = "assertion"
    /\ LET f == req[r].form
           a == CHOOSE x \in f.assertion : TRUE
           k == AssertionKeyOf(a)
       IN  \/ /\ Held(entries, k, clock)
              /\ req' = [req EXCEPT ![r] = Idle]
              /\ UNCHANGED <<tokens, entries>>
           \/ /\ ~Held(entries, k, clock)
              /\ entries' = Mark(entries, k, clock, SaturatingSub(a.until, clock))
              /\ \/ Granting(r, f, req[r].client)
                 \/ /\ GrantRefused(f, req[r].client)
                    /\ req' = [req EXCEPT ![r] = Idle]
                    /\ UNCHANGED tokens
    /\ UNCHANGED <<clock, reg, unsure>>

\* What is minted once the token in f has been consumed.
Response(q) ==
    IF q.form.grant_type = "authorization_code"
    THEN CodeResponse(q.form, q.client)
    ELSE RefreshResponse(q.form, q.client, RefreshScope(q.form), q.now)

\* consume_token_once and the rest of the handler, which mints, or fails to
\* seal or sign: server_error, with the token used up.
ConsumeToken(r) ==
    /\ req[r].pc = "consume"
    /\ LET i == req[r].form.token
       IN  \/ /\ Held(entries, KeyOf(i), clock)
              /\ UNCHANGED <<entries, tokens, unsure>>
           \/ /\ ~Held(entries, KeyOf(i), clock)
              /\ entries' = Mark(entries, KeyOf(i), clock, TokenTtl(tokens[i].exp, clock))
              /\ \/ /\ Fits(Response(req[r]))
                    /\ tokens' = tokens \o Response(req[r])
                    /\ UNCHANGED unsure
                 \/ /\ unsure' = unsure \cup {KeyOf(i)}
                    /\ UNCHANGED tokens
    /\ req' = [req EXCEPT ![r] = Idle]
    /\ UNCHANGED <<clock, reg>>

\* The store fails: server_error.  The key may have been taken all the same.
StoreFails(r) ==
    /\ req[r].pc \in {"assertion", "consume"}
    /\ LET k == IF req[r].pc = "consume" THEN KeyOf(req[r].form.token)
                ELSE AssertionKeyOf(CHOOSE x \in req[r].form.assertion : TRUE)
           until == IF req[r].pc = "consume" THEN tokens[req[r].form.token].exp
                    ELSE (CHOOSE x \in req[r].form.assertion : TRUE).until
       IN  \/ UNCHANGED <<entries, unsure>>
           \/ /\ ~Held(entries, k, clock)
              /\ entries' = Mark(entries, k, clock, TokenTtl(until, clock))
              /\ unsure' = unsure \cup {k}
    /\ req' = [req EXCEPT ![r] = Idle]
    /\ UNCHANGED <<clock, reg, tokens>>

Next ==
    \/ Tick
    \/ \E c \in Client : Reregister(c)
    \/ \E q \in AuthRequest : Authorize(q)
    \/ \E r \in Request, f \in Form : TokenRequest(r, f) \/ AssertionRequest(r, f)
    \/ \E r \in Request : ConsumeAssertion(r) \/ ConsumeToken(r) \/ StoreFails(r)

Spec == Init /\ [][Next]_vars
-----------------------------------------------------------------------------
(* UserInfo: it changes nothing, so it is a predicate on the state.        *)

\* userinfo answers the access token i presented with the DPoP key jkt.
UserinfoAnswers(i, jkt) ==
    /\ Opens("access", i)
    /\ "openid" \in tokens[i].scope
    /\ tokens[i].jkt # {} => jkt = tokens[i].jkt
-----------------------------------------------------------------------------
Index == DOMAIN tokens
Redeemed(i) == tokens[i].parent # 0
Parent(i) == tokens[tokens[i].parent]

\* A token, sealed or (kind "id") signed.
SealedToken ==
    [kind : {"code", "access", "id", "refresh"}, client : Client, login : STRING \cup Client,
     scope : SUBSET STRING, claims : SUBSET ClaimName, exp : Nat, jkt : SUBSET STRING,
     challenge : SUBSET ({"S256"} \X STRING), redirect : STRING \cup {""},
     parent : Nat, born : Nat, auth : AuthMethod \cup {"none"}]

\* A request slot: free, or with a request that waits for the store.
RequestState ==
    {Idle} \cup [pc : {"assertion"}, form : Form, client : Registration]
           \cup [pc : {"consume"}, form : Form, client : Registration, now : Nat]

TypeOK ==
    /\ clock \in 0..Horizon
    /\ reg \in [Client -> SUBSET Registration]
    /\ \A c \in Client : reg[c] \in RegistrationOf(c)
    /\ tokens \in Seq(SealedToken)
    /\ Len(tokens) <= MaxTokens
    /\ \A i \in Index : tokens[i].parent < i
    /\ entries \in [StoreKey -> Nat]
    /\ req \in [Request -> RequestState]
    /\ unsure \subseteq StoreKey

\* Along a chain of refreshes authority only shrinks: every token has at most
\* the scope and the claims of the one redeemed for it, only claims that its
\* own scope allows, and the same client and login.
AuthorityShrinks ==
    \A i \in Index :
        /\ tokens[i].claims = FilterClaims(tokens[i].scope, tokens[i].claims)
        /\ Redeemed(i) => /\ tokens[i].scope \subseteq Parent(i).scope
                          /\ tokens[i].claims \subseteq Parent(i).claims
                          /\ tokens[i].client = Parent(i).client
                          /\ tokens[i].login = Parent(i).login

\* A DPoP binding, once acquired, holds for all descendants: no refresh drops
\* the key or swaps it for another.
BindingKept ==
    \A i \in Index :
        /\ Redeemed(i) /\ Parent(i).jkt # {}
        /\ tokens[i].kind # "id"
        => tokens[i].jkt = Parent(i).jkt

\* Rotation does not fork: of two refresh tokens minted for the same code or
\* refresh token, one was minted only after that token had expired.
NoFork ==
    \A i, j \in Index :
        /\ i # j
        /\ Redeemed(i) /\ tokens[i].parent = tokens[j].parent
        /\ tokens[i].kind = "refresh" /\ tokens[j].kind = "refresh"
        => tokens[i].born >= Parent(i).exp \/ tokens[j].born >= Parent(i).exp

\* A client that did not authenticate redeems only codes protected by PKCE,
\* even when it was confidential at the time the code was issued.
PublicClientsProveCode ==
    \A i \in Index :
        Redeemed(i) /\ Parent(i).kind = "code" /\ tokens[i].auth = "none" =>
            Parent(i).challenge # {}

\* UserInfo answers only for a user who logged in, never for a client's own
\* token, nor after a refresh gave up openid, and releases no claim beyond the
\* scope the user was asked for.
UserinfoOnlyForLogin ==
    \A i \in Index, jkt \in {tokens[j].jkt : j \in Index} \cup {{}} :
        UserinfoAnswers(i, jkt) =>
            /\ \E q \in AuthRequest :
                  /\ q.login = tokens[i].login /\ q.client = tokens[i].client
                  /\ "openid" \in q.scope
                  /\ tokens[i].claims \subseteq FilterClaims(q.scope, q.claims)
            /\ Redeemed(i) => "openid" \in Parent(i).scope

\* A code or refresh token is used up only by the redemption that minted
\* tokens for it, or by one that ended in server_error: requests refused by a later check, or
\* with a wrong client, redirect_uri, verifier, scope or key, leave it usable.
UsedUpOnlyByRedemption ==
    \A i \in Index :
        /\ tokens[i].kind \in {"code", "refresh"}
        /\ entries[KeyOf(i)] # 0
        => KeyOf(i) \in unsure \/ \E j \in Index : tokens[j].parent = i
=============================================================================
