------------------------------ MODULE RpUserinfo -----------------------------
(***************************************************************************)
(* The relying party asks for UserInfo after a login (src/src/rp.rs):      *)
(* fetch_userinfo_response, then userinfo_json_claims for a JSON answer,   *)
(* or userinfo_signed_claims for a JWT, which is verified with the keys    *)
(* that JwksCache holds at that moment.  Answers of other sessions, old    *)
(* answers and other JWTs of the provider may arrive in place of the right *)
(* one, once or again and again: a confused proxy, a cache, a broken       *)
(* provider.                                                               *)
(***************************************************************************)
EXTENDS JwksCache

CONSTANTS Subject,    \* users
          Me,         \* the subject of the ID token verified in this session
          Setup,      \* ways to read UserInfo, and providers, as below
          Leeway,     \* jose-rs's default leeway, seconds
          Lifetime,   \* lifetimes that the provider gives by exp, seconds
          MaxJwtAge   \* ages of JWTs stop here

\* trust, require_exp, max_age and allow_missing_kid are the fields of
\* UserinfoJwtOptions, expected the typ given to typed().  The provider types
\* its UserInfo JWTs with typ, and dedicated tells whether the keys of its set
\* sign nothing else.  max_age is {} for None.
UserinfoJwtOptions ==
    [trust : {"typed", "dedicated", "compat"}, expected : {"userinfo+jwt", "jwt"},
     require_exp : BOOLEAN, max_age : SUBSET Nat, allow_missing_kid : BOOLEAN,
     typ : {"none", "userinfo+jwt"}, dedicated : BOOLEAN]

ASSUME SetupAssumption == Setup \subseteq UserinfoJwtOptions /\ Setup # {}
ASSUME AgeAssumption ==
    /\ Leeway \in Nat /\ MaxJwtAge \in Nat
    /\ Lifetime \subseteq Nat /\ \A n \in Lifetime : n + Leeway <= MaxJwtAge
    /\ \A o \in Setup : \A m \in o.max_age : m + Leeway < MaxJwtAge
ASSUME MeAssumption == Me \in Subject

VARIABLES kept,   \* a JWT that can be delivered: {} or {[key, iat, exp, age]}
          setup,  \* how this session reads UserInfo, chosen when it asks
          sess,   \* "in", "asked" or "done"
          got     \* {} or the claims that were accepted

session == <<setup, sess, got>>
vars == <<stage, gone, shared, call, flight, info, cache, asked, kept, setup, sess, got>>

Kind == {"userinfo", "id_token", "access_token"}

\* A signed JWT, with or without iat and exp, and its age, which no claim tells
\* where iat is missing.  The provider's clock is right.
Signed == [key : Key, iat : BOOLEAN, exp : {{}} \cup {{n} : n \in Lifetime}, age : 0..MaxJwtAge]

\* late: how long the key of an accepted JWT had been withdrawn (history).
Accepted == [form : {"json", "jwt"}, kind : Kind, sub : Subject, exp : {{}} \cup {{n} : n \in Lifetime},
             age : 0..MaxJwtAge, late : 0..Cap]

TypeOK ==
    /\ JwksTypeOK
    /\ setup \in Setup
    /\ sess \in {"in", "asked", "done"}
    /\ kept \in SUBSET Signed
    /\ got \in SUBSET Accepted

Init ==
    /\ JwksInit
    /\ kept = {}
    /\ setup = CHOOSE o \in Setup : TRUE
    /\ sess = "in"
    /\ got = {}
-----------------------------------------------------------------------------
\* typ headers as normalized_typ leaves them; "none" where there is no header.
TypOf(kind) ==
    CASE kind = "userinfo" -> {setup.typ}
      [] kind = "id_token" -> {"none", "jwt", "id_token+jwt"}
      [] kind = "access_token" -> {"jwt", "at+jwt"}

\* Headers and claims of the provider's JWTs other than iat and exp.  kid tells
\* whether the header names the key, marker whether there is a nonce, at_hash or
\* c_hash claim.  Every JWT that jose-rs would not verify with the cached keys, or
\* that has another issuer, is an error like any other.
ClaimsOf(kind) ==
    [kid : BOOLEAN, typ : TypOf(kind),
     aud : IF kind = "userinfo" THEN {<<"us">>}
           ELSE {<<"us">>, <<"us", "us">>, <<"us", "api">>, <<"api">>},
     sub : Subject, marker : IF kind = "userinfo" THEN {FALSE} ELSE BOOLEAN]

SignedKind == IF setup.dedicated THEN {"userinfo"} ELSE Kind

RequireKid(keys) == Cardinality(keys) > 1 \/ ~setup.allow_missing_kid

\* Mutant of AgeOk: a JWT without iat is young enough.
AgeOkUndated(j) ==
    \A m \in setup.max_age : j.iat => j.age <= m + Leeway

\* with_max_age: iat is required and the JWT at most max_age old.
AgeOk(j) ==
    \A m \in setup.max_age : j.iat /\ j.age <= m + Leeway

\* require_exp, and exp itself where there is one.
ExpOk(j) ==
    /\ setup.require_exp => j.exp # {}
    /\ \A n \in j.exp : j.age < n + Leeway

\* Mutant of TypOk: the typ given to typed() is not compared.
TypOkNever(c) == TRUE

\* UserinfoTrust::Typed, with a typ that is specific to UserInfo.
TypOk(c) ==
    setup.trust = "typed" =>
        setup.expected # "jwt" /\ c.typ = setup.expected

\* userinfo_signed_claims, for the JWT j with claims c.
UserinfoSignedClaims(j, c, keys) ==
    /\ j.key \in keys
    /\ RequireKid(keys) => c.kid
    /\ ExpOk(j)
    /\ AgeOk(j)
    /\ TypOk(c)
    /\ c.aud = <<"us">>
    /\ c.sub = Me
    /\ c.typ \notin {"id_token+jwt", "at+jwt"}
    /\ ~c.marker

\* JSON bodies, and what fetch_userinfo_response and userinfo_json_claims let
\* pass: not an RFC 6750 error without sub, and the subject of the ID token.
Json == [error : BOOLEAN, sub : {{}} \cup {{u} : u \in Subject}]

UserinfoJsonClaims(b) == ~(b.error /\ b.sub = {}) /\ b.sub = {Me}
-----------------------------------------------------------------------------
\* Time passes for JWTs as well.
TickAll ==
    /\ Tick
    /\ kept' = {[j EXCEPT !.age = Min(j.age + 1, MaxJwtAge)] : j \in kept}
    /\ UNCHANGED session

\* Somebody on the way has a JWT that the provider signed, now or some time ago,
\* but not after it had withdrawn the key.  It is of no account until a session
\* asks, and being delivered does not use it up.
Retain(j) ==
    /\ sess = "asked" /\ kept = {}
    /\ stage[j.key] # "unused"
    /\ j.age >= Min(gone[j.key], MaxJwtAge)
    /\ kept' = {j}
    /\ UNCHANGED <<stage, gone, shared, call, flight, info, cache, asked, setup, sess, got>>

\* fetch_userinfo_response up to its await.
AskUserinfo(o) ==
    /\ sess = "in"
    /\ setup' = o
    /\ ValidateIssuer(Issuer)
    /\ \E d \in info : \E u \in d.userinfo_endpoint :
          /\ ValidateServiceEndpointForIssuer(u, Issuer)
          /\ asked' = asked \cup {u}
    /\ sess' = "asked"
    /\ UNCHANGED <<stage, gone, shared, call, flight, info, cache, kept, got>>

Accept(g) ==
    /\ sess' = "done"
    /\ got' = {g}
    /\ UNCHANGED <<stage, gone, shared, call, flight, info, cache, asked, kept, setup>>

AcceptJson ==
    /\ sess = "asked"
    /\ \E b \in Json :
          /\ UserinfoJsonClaims(b)
          /\ \E u \in b.sub :
                Accept([form |-> "json", kind |-> "userinfo", sub |-> u, exp |-> {},
                        age |-> 0, late |-> 0])

AcceptJwt ==
    /\ sess = "asked"
    /\ \E s \in cache, j \in kept, kind \in SignedKind, u \in Subject :
          /\ \E c \in ClaimsOf(kind) : c.sub = u /\ UserinfoSignedClaims(j, c, s.keys)
          /\ Accept([form |-> "jwt", kind |-> kind, sub |-> u, exp |-> j.exp,
                     age |-> j.age, late |-> gone[j.key]])

\* The next login of the same user starts afresh.
NextSession ==
    /\ sess = "done"
    /\ sess' = "in"
    /\ got' = {}
    /\ setup' = CHOOSE o \in Setup : TRUE
    /\ UNCHANGED <<stage, gone, shared, call, flight, info, cache, asked, kept>>

\* Everything else is an error; the application may ask again.
UserinfoFails ==
    /\ sess = "asked"
    /\ sess' = "in"
    /\ setup' = CHOOSE o \in Setup : TRUE
    /\ UNCHANGED <<stage, gone, shared, call, flight, info, cache, asked, kept, got>>

Next ==
    \/ TickAll
    \/ JwksStep /\ UNCHANGED <<kept, setup, sess, got>>
    \/ \E j \in Signed : Retain(j)
    \/ \E o \in Setup : AskUserinfo(o)
    \/ AcceptJson \/ AcceptJwt \/ UserinfoFails \/ NextSession

\* Time passes, and the application goes on: it looks for keys whenever it has
\* none.  Requests may fail, but not for ever; a shared cache drops a response
\* whose time is over.
Fairness ==
    LET Apart(A) == A /\ UNCHANGED <<kept, setup, sess, got>>
    IN  /\ WF_vars(TickAll)
        /\ WF_vars(Apart(Evict /\ \A c \in shared : c.age = Hold))
        /\ SF_vars(Apart((cache = {} /\ CallJwks) \/ (info = {} /\ CallDiscover)))
        /\ SF_vars(Apart(AnswerJwks))
        /\ SF_vars(Apart(DeliverJwks))
        /\ SF_vars(Apart(\E d \in Doc : DocumentOk(d) /\ DeliverDocument(d)))

Spec == Init /\ [][Next]_vars
FairSpec == Spec /\ Fairness
-----------------------------------------------------------------------------
\* No other JWT of the provider is taken for UserInfo, however its claims look,
\* when UserInfo is told by its typ or by keys that sign nothing else; and in
\* every mode the claims are those of the session's own subject.
UserinfoIsUserinfo ==
    \A g \in got :
        /\ g.sub = Me
        /\ g.form = "jwt" /\ (setup.trust = "typed" \/ setup.dedicated)
           => g.kind = "userinfo"

\* Redelivery ends.  Whatever is delivered again, and to however many sessions,
\* an accepted JWT is really no older than max_age where that is set, whether or
\* not it tells its age, and within its lifetime where exp is required; and in
\* every mode, after without_max_age too, replays end with the key: it had been
\* withdrawn for no longer than a cached set can last.
ReplayEnds ==
    \A g \in got : g.form = "jwt" =>
        /\ \A m \in setup.max_age : g.age <= m + Leeway
        /\ setup.require_exp => \E n \in g.exp : g.age < n + Leeway
        /\ g.late <= MaxDelay + Hold + Max(Ceiling, DefaultTtl)
=============================================================================
