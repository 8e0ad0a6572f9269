------------------------------- MODULE RpLogin -------------------------------
(***************************************************************************)
(* The relying party's code flow with several providers at once:           *)
(* authorization_url, the callback parser with JARM (src/src/callback.rs), *)
(* exchange_code and verify_id_token_with (src/src/rp.rs), in the order in *)
(* which their documentation tells an application to call them.            *)
(*                                                                         *)
(* A session's state, nonce and PKCE verifier are fresh values, so the     *)
(* session itself stands for them.  A browser may bring any response to    *)
(* any waiting session, late, twice, or never: two tabs, a reload, or a    *)
(* request that ended up at another provider.                              *)
(***************************************************************************)
EXTENDS Integers, Sequences, FiniteSets

CONSTANTS Session,     \* logins in progress at this RP
          Foreign,     \* stands for all requests of other clients
          Op,          \* providers
          Home,        \* Home[s]: the provider that session s is for
          Profile,     \* Profile[o]: what o does and how the RP is set up for it:
                       \*   jarm   responses are JARM (mode Jwt)
                       \*   iss    sends iss, and the RP requires it
                       \*   state  echoes state, and the RP requires it
                       \*   typ    the typ header of its JARM responses
                       \*   untyped  allow_missing_typ is set for it
                       \*   shared its keys also sign other JWTs
                       \*   pkce, nonce  the RP uses PKCE, expects a nonce
                       \*   public the RP has no credential at this provider
          None,        \* an absent parameter or claim
          Audience,    \* [aud, azp]: audiences that ID tokens may carry, where
                       \* "us" is the RP, "trusted" an accepted other
          MaxAge,      \* IdTokenOptions::max_age, seconds
          LoginLeeway, \* IdTokenOptions::leeway, seconds
          Ttl,         \* lifetime of JARM responses and of ID tokens
          Horizon,     \* last second
          MaxCodes     \* codes issued

ASSUME HomeAssumption == Home \in [Session -> Op]
ASSUME ProfileAssumption ==
    \A o \in Op :
        Profile[o] \in [jarm : BOOLEAN, iss : BOOLEAN, state : BOOLEAN,
                        typ : {None, "oauth-authz-resp+jwt"}, untyped : BOOLEAN,
                        shared : BOOLEAN, pkce : BOOLEAN, nonce : BOOLEAN, public : BOOLEAN]
ASSUME LoginTimeAssumption == {MaxAge, LoginLeeway, Ttl, Horizon, MaxCodes} \subseteq Nat
ASSUME AudienceAssumption == [aud |-> <<"us">>, azp |-> None] \in Audience
ASSUME ForeignAssumption ==
    Foreign \notin Session /\ None \notin Session /\ None \notin Op

\* authorization_url and exchange_code refuse a public client without PKCE.
ASSUME PublicAssumption == \A o \in Op : Profile[o].public => Profile[o].pkce

VARIABLES now,
          codes,   \* codes issued: [op, for, auth_time, at]
          spent,   \* codes that their provider has exchanged
          rp,      \* rp[s]: where the application is with session s
          code,    \* code[s]: the code taken from the callback
          claims,  \* claims[s]: the ID token received, later verified
          posted   \* [code, to, by]: codes sent to token endpoints (history)

loginVars == <<now, codes, spent, rp, code, claims, posted>>

\* What a JWT that is no authorization response carries as its code claim.
NotACode == [op |-> None, for |-> None, auth_time |-> 0, at |-> 0]

ASSUME NoneAssumption == None \notin {NotACode, "oauth-authz-resp+jwt"}

Code == [op : Op, for : Session \cup {Foreign}, auth_time : 0..Horizon, at : 0..Horizon]

IdToken == [iss : Op, sub : {"user", None}, nonce : Session \cup {Foreign},
            auth_time : 0..Horizon \cup {None}, at_hash : {None, "ours", "another"},
            aud : Audience, exp : Nat]

LoginTypeOK ==
    /\ now \in 0..Horizon
    /\ codes \subseteq Code
    /\ spent \subseteq codes
    /\ rp \in [Session -> {"new", "waiting", "code", "posted", "tokens",
                           "done", "failed"}]
    /\ code \in [Session -> Code \cup {NotACode, None}]
    /\ claims \in [Session -> IdToken \cup {None}]
    /\ posted \subseteq [code : Code \cup {NotACode}, to : Op, by : Session]

LoginInit ==
    /\ now = 0
    /\ codes = {}
    /\ spent = {}
    /\ rp = [s \in Session |-> "new"]
    /\ code = [s \in Session |-> None]
    /\ claims = [s \in Session |-> None]
    /\ posted = {}

Goto(s, l) == rp' = [rp EXCEPT ![s] = l]

LoginTick ==
    /\ now < Horizon
    /\ now' = now + 1
    /\ UNCHANGED <<codes, spent, rp, code, claims, posted>>

\* authorization_url: the browser leaves with the session's state and nonce.
AuthorizationUrl(s) ==
    /\ rp[s] = "new"
    /\ Goto(s, "waiting")
    /\ UNCHANGED <<now, codes, spent, code, claims, posted>>

\* A provider, not always the one the request was meant for, authenticates
\* the user, or knows them since earlier, and issues a code.
Authenticate(o, r) ==
    /\ Cardinality(codes) < MaxCodes
    /\ \A c \in codes : <<c.op, c.for>> # <<o, r>>
    /\ r \in Session => rp[r] # "new"
    /\ \E t \in {0, now} :
           codes' = codes \cup {[op |-> o, for |-> r, auth_time |-> t, at |-> now]}
    /\ UNCHANGED <<now, spent, rp, code, claims, posted>>
-----------------------------------------------------------------------------
(***************************************************************************)
(* Responses.  Parameters are the fields code, error, state and iss, and   *)
(* `response', which holds a JWT.  clean is false when a parameter is      *)
(* repeated, empty, overlong, has control characters or rides in the wrong *)
(* channel for the method.                                                 *)
(***************************************************************************)
Fields(c, e, st, i) == [code |-> c, error |-> e, state |-> st, iss |-> i]

NoFields == Fields(None, None, None, None)

\* The parameters with which provider o answers request r.
Parameters(o, r, c, e) ==
    Fields(c, e, IF Profile[o].state THEN r ELSE None,
                 IF Profile[o].iss \/ Profile[o].jarm THEN o ELSE None)

AudienceOf(r) == IF r = Foreign THEN "them" ELSE "us"

Jwt(o, typ, aud, exp, fields) ==
    [signer |-> o, typ |-> typ, aud |-> aud, exp |-> exp, fields |-> fields]

Answer(o, r, exp, fields) ==
    IF Profile[o].jarm
    THEN [params |-> NoFields,
          response |-> Jwt(o, Profile[o].typ, AudienceOf(r), exp, fields), clean |-> TRUE]
    ELSE [params |-> fields, response |-> None, clean |-> TRUE]

Success(c) == Answer(c.op, c.for, c.at + Ttl, Parameters(c.op, c.for, c, None))

Failure(o, r) == Answer(o, r, now + Ttl, Parameters(o, r, None, "access_denied"))

\* JWTs that a provider signs for other purposes, for this client or another,
\* with string claims that happen to be named code and state.
OtherJwt(o) ==
    { [params |-> NoFields, clean |-> TRUE,
       response |-> Jwt(o, typ, aud, now + Ttl, Fields(NotACode, None, r, o))] :
        typ \in {None, "JWT", "at+jwt"}, aud \in {"us", "them"}, r \in Session }

\* A response spoiled on its way, or with more parameters than it may have.
Spoilt(m) ==
    { [m EXCEPT !.clean = FALSE],
      [m EXCEPT !.params.error = "access_denied"],
      [m EXCEPT !.params = NoFields] }

\* Fields::validate: exactly one of code and error.
Validate(f) == (f.code # None) # (f.error # None)

\* parse_pairs, in mode Jwt for a JARM provider, else with JARM refused.
ParsePairs(o, m) ==
    /\ m.clean
    /\ IF Profile[o].jarm
       THEN m.response # None /\ m.params = NoFields
       ELSE m.response = None /\ Validate(m.params)

\* Mutant of CheckJarmTyp: the typ header is not looked at.
CheckJarmTypNever(o, typ) == TRUE

\* check_jarm_typ
CheckJarmTyp(o, typ) ==
    \/ typ = "oauth-authz-resp+jwt"
    \/ Profile[o].untyped /\ typ \in {None, "JWT"}

\* verify_jarm: purpose, signature by a key of o, iss, aud, exp, shape.
VerifyJarm(o, j) ==
    /\ CheckJarmTyp(o, j.typ)
    /\ j.signer = o
    /\ j.aud = "us"
    /\ now < j.exp + LoginLeeway
    /\ j.fields.iss = o
    /\ Validate(j.fields)

\* The response that the checks below look at.
Inner(m) == IF m.response = None THEN m.params ELSE m.response.fields

\* Mutant of MatchesState: the state must be there, whatever it is.
MatchesStatePresent(f, s, required) == required => f.state # None

MatchesState(f, s, required) == IF f.state = None THEN ~required ELSE f.state = s

\* Mutant of MatchesIss: an issuer is looked at only where one is required.
MatchesIssIfRequired(f, o, required) == required => f.iss = o

MatchesIss(f, o, required) == IF f.iss = None THEN ~required ELSE f.iss = o

Accepts(s, m) ==
    LET o == Home[s]
    IN  /\ ParsePairs(o, m)
        /\ Profile[o].jarm => VerifyJarm(o, m.response)
        /\ MatchesState(Inner(m), s, Profile[o].state)
        /\ MatchesIss(Inner(m), o, Profile[o].iss)

\* A callback reaches a waiting session.  One that is refused changes nothing:
\* the session goes on waiting.  An error response ends the login.
Callback(s, m) ==
    /\ Accepts(s, m)
    /\ LET f == Inner(m)
       IN  \/ /\ f.error # None
              /\ Goto(s, "failed")
              /\ UNCHANGED code
           \/ /\ f.error = None
              /\ code' = [code EXCEPT ![s] = f.code]
              /\ Goto(s, "code")
    /\ UNCHANGED <<now, codes, spent, claims, posted>>

\* What a browser may bring: any response that exists, to any session.
AnyCallback(s) ==
    \/ \E c \in codes : \E m \in {Success(c)} \cup Spoilt(Success(c)) : Callback(s, m)
    \/ \E o \in Op, r \in Session : rp[r] # "new" /\ Callback(s, Failure(o, r))
    \/ \E o \in Op : /\ Profile[o].jarm /\ Profile[o].shared
                     /\ \E m \in OtherJwt(o) : Callback(s, m)
-----------------------------------------------------------------------------
\* exchange_code up to its await: the code leaves for the token endpoint.
PostCode(s) ==
    /\ rp[s] = "code"
    /\ posted' = posted \cup {[code |-> code[s], to |-> Home[s], by |-> s]}
    /\ Goto(s, "posted")
    /\ UNCHANGED <<now, codes, spent, code, claims>>

\* The token endpoint takes a code of its own, once, from the client it was
\* issued to, with the verifier of the request when there was a challenge.
Exchangeable(o, s) ==
    /\ code[s] \in codes \ spent
    /\ code[s].op = o
    /\ code[s].for # Foreign
    /\ Profile[o].pkce => code[s].for = s

\* ID tokens for the code: complete, or with one claim missing or odd.
TokensFor(c) ==
    LET t == [iss |-> c.op, sub |-> "user", nonce |-> c.for, auth_time |-> c.auth_time,
              at_hash |-> "ours", aud |-> [aud |-> <<"us">>, azp |-> None],
              exp |-> now + Ttl]
    IN  {t, [t EXCEPT !.sub = None], [t EXCEPT !.auth_time = None]}
        \cup {[t EXCEPT !.at_hash = h] : h \in {None, "another"}}
        \cup {[t EXCEPT !.aud = a] : a \in Audience}

\* The answer of the token endpoint, and the rest of exchange_code.  An answer
\* that is lost, refused or incomplete is an error, spent code or not.
TokenAnswer(s) ==
    /\ rp[s] = "posted"
    /\ \/ /\ Exchangeable(Home[s], s)
          /\ spent' = spent \cup {code[s]}
          /\ \/ /\ \E t \in TokensFor(code[s]) : claims' = [claims EXCEPT ![s] = t]
                /\ Goto(s, "tokens")
             \/ /\ Goto(s, "failed")
                /\ UNCHANGED claims
       \/ /\ Goto(s, "failed")
          /\ UNCHANGED <<spent, claims>>
    /\ UNCHANGED <<now, codes, code, posted>>

\* The audiences and azp that verify_id_token_with lets pass.
AudienceOk(a) ==
    /\ \E i \in 1..Len(a.aud) : a.aud[i] = "us"
    /\ \A i \in 1..Len(a.aud) : a.aud[i] \in {"us", "trusted"}
    /\ \A i, j \in 1..Len(a.aud) : i # j => a.aud[i] # a.aud[j]
    /\ Len(a.aud) > 1 => a.azp = "us"
    /\ a.azp \in {None, "us"}

\* Mutant of CheckNonce: an ID token is taken whatever its nonce.
CheckNonceNever(s, t) == TRUE

CheckNonce(s, t) == Profile[Home[s]].nonce => t.nonce = s

\* max_age: the age of the authentication, to which no leeway is added.
CheckAuthTime(t) ==
    /\ t.auth_time # None
    /\ now <= t.auth_time + MaxAge
    /\ t.auth_time <= now + LoginLeeway

\* check_token_hash, with the access token given and at_hash not required.
CheckTokenHash(t) == t.at_hash \in {None, "ours"}

VerifyIdTokenWith(s, t) ==
    /\ t.iss = Home[s]
    /\ now < t.exp + LoginLeeway
    /\ t.sub # None
    /\ AudienceOk(t.aud)
    /\ CheckNonce(s, t)
    /\ CheckAuthTime(t)
    /\ CheckTokenHash(t)

VerifyIdToken(s) ==
    /\ rp[s] = "tokens"
    /\ \/ /\ VerifyIdTokenWith(s, claims[s])
          /\ Goto(s, "done")
          /\ UNCHANGED claims
       \/ /\ ~VerifyIdTokenWith(s, claims[s])
          /\ Goto(s, "failed")
          /\ claims' = [claims EXCEPT ![s] = None]
    /\ UNCHANGED <<now, codes, spent, code, posted>>

LoginNext ==
    \/ LoginTick
    \/ \E s \in Session : AuthorizationUrl(s)
    \/ \E o \in Op, r \in Session \cup {Foreign} : Authenticate(o, r)
    \/ \E s \in Session : rp[s] = "waiting" /\ AnyCallback(s)
    \/ \E s \in Session : PostCode(s) \/ TokenAnswer(s) \/ VerifyIdToken(s)

LoginSpec == LoginInit /\ [][LoginNext]_loginVars
-----------------------------------------------------------------------------
\* Providers whose responses name them, and are refused when they do not.
NamesItself(o) == Profile[o].iss \/ Profile[o].jarm

\* A code is sent only to the provider that issued it, as soon as one of the
\* two names itself: matches_iss refuses a wrong iss even where it is optional
\* and a missing one where it is required, and a JARM response is refused by a
\* session that does not expect one.
CodeStaysWithIssuer ==
    \A p \in posted :
        /\ p.code # NotACode
        /\ NamesItself(p.code.op) \/ NamesItself(p.to)
        => p.code.op = p.to

\* Where state is required, a code is only presented by the session whose
\* request it answers; no other session spends it (matches_state).
CodeStaysWithSession ==
    \A p \in posted : Profile[p.to].state => p.code = NotACode \/ p.code.for = p.by

\* What a session takes for a JARM response was made as one, unless the RP
\* accepts untyped responses from keys that also sign other JWTs
\* (allow_untyped_shared_keys, documented as the weaker choice).
JarmIsAResponse ==
    \A s \in Session :
        code[s] = NotACode => Profile[Home[s]].untyped /\ Profile[Home[s]].shared

\* A login completes only with an authentication that this session asked of
\* its own provider, recent enough when its ID token arrived, even where state
\* is not required, as soon as one of nonce and PKCE is used; and a code
\* completes at most one login.
LoginBelongsToSession ==
    \A s \in Session : rp[s] = "done" =>
        LET c == code[s]
        IN  /\ c \in spent
            /\ c.op = Home[s]
            /\ Profile[c.op].nonce \/ Profile[c.op].pkce \/ Profile[c.op].state => c.for = s
            /\ claims[s].exp - Ttl <= c.auth_time + MaxAge
            /\ \A r \in Session \ {s} : rp[r] = "done" => code[r] # c
=============================================================================
