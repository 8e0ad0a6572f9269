------------------------- MODULE RelyingPartyProofs --------------------------
(***************************************************************************)
(* Proofs about the relying party.  First RpUserinfo and the JwksCache it  *)
(* extends, for any number of keys, any headers and documents, and all     *)
(* time limits; then RpLogin, for any sessions, providers and setups.      *)
(***************************************************************************)
EXTENDS RpUserinfo, RpLogin, TLAPS

\* What the key cache depends on; the other steps leave it alone.
keyVars == <<stage, gone, shared, flight, cache>>

Longest == Max(Ceiling, DefaultTtl)

\* Whoever has a copy of the keys knows, by the copy's age, delay or remaining
\* time, how long ago any of them can have been withdrawn.
TimeInv ==
    /\ gone \in [Key -> Nat]
    /\ shared \subseteq [keys : SUBSET Key, age : 0..Hold, header : Header]
    /\ flight \subseteq [keys : SUBSET Key, age : 0..Hold, header : Header, delay : 0..MaxDelay]
    /\ \A k \in Key : stage[k] # "gone" => gone[k] = 0
    /\ \A c \in shared : \A k \in c.keys : gone[k] <= c.age
    /\ \A f \in flight : \A k \in f.keys : gone[k] <= f.age + f.delay

\* The same for the keys in use, up to the time when they are dropped.
CacheInv ==
    /\ cache \subseteq [keys : SUBSET Key, left : 0..Longest, age : 0..Hold, life : SUBSET Nat]
    /\ \A c \in cache : \A k \in c.keys :
          /\ gone[k] + c.left <= MaxDelay + c.age + Longest
          /\ \A n \in c.life : gone[k] + c.left <= MaxDelay + Max(n, c.age)

\* Time limits are numbers, and the longest of them is no u64::MAX.
LEMMA Constants ==
    /\ U64Max \in Nat /\ Ceiling \in Nat /\ DefaultTtl \in Nat /\ MaxDelay \in Nat /\ Hold \in Nat
    /\ Longest \in Nat /\ Ceiling <= Longest /\ DefaultTtl <= Longest /\ Longest < U64Max
BY TimeAssumption, WidthAssumption DEF Longest, Max

\* advertised_ttl gives at most one lifetime.
LEMMA OneLifetime ==
    ASSUME NEW h \in Header
    PROVE  AdvertisedTtl(h) \subseteq Nat /\ \A m, n \in AdvertisedTtl(h) : m = n
<1> DEFINE first == {i \in MaxAges(h) : \A j \in MaxAges(h) : i <= j}
           values == UNION {h.directives[i].value : i \in first}
<1>1. MaxAges(h) \subseteq Nat
  BY HeaderAssumption DEF MaxAges
<1>2. \A i, j \in first : i = j
  <2> SUFFICES ASSUME NEW i \in first, NEW j \in first PROVE i = j
    OBVIOUS
  <2>1. i \in Nat /\ j \in Nat /\ i <= j /\ j <= i
    BY <1>1
  <2> QED BY <2>1
<1>3. \A i \in first : /\ h.directives[i].value \subseteq Nat
                       /\ \A m, n \in h.directives[i].value : m = n
  BY HeaderAssumption DEF MaxAges
<1>4. values \subseteq Nat /\ \A m, n \in values : m = n
  BY <1>2, <1>3
<1> HIDE DEF first
<1>5. AdvertisedTtl(h) = {0} \/ AdvertisedTtl(h) = {Min(n, U64Max) : n \in values}
  BY DEF AdvertisedTtl, first
<1>6. \A n \in Nat : Min(n, U64Max) \in Nat
  BY Constants DEF Min
<1> QED
  BY <1>4, <1>5, <1>6

\* cache_ttl_secs: within the ceiling, and within what is left of the lifetime.
LEMMA TtlBounds ==
    ASSUME NEW r, r.header \in Header, r.age \in Nat
    PROVE  /\ Keep(r) \in 0..Longest
           /\ \A n \in AdvertisedTtl(r.header) : Keep(r) <= Max(n - r.age, 0)
<1>1. CASE AdvertisedTtl(r.header) = {}
  BY <1>1, Constants DEF Keep, CacheTtl
<1>2. ASSUME NEW n \in AdvertisedTtl(r.header)
      PROVE  Keep(r) \in 0..Longest /\ Keep(r) <= Max(n - r.age, 0)
  <2>1. n \in Nat /\ AdvertisedTtl(r.header) = {n}
    BY OneLifetime
  <2>2. CacheTtl(r) = {Min(Max(n - r.age, 0), Ceiling)}
    BY <2>1 DEF CacheTtl
  <2>3. Keep(r) = Min(Max(n - r.age, 0), Ceiling)
    BY <2>2 DEF Keep
  <2> QED
    BY <2>1, <2>3, Constants DEF Min, Max
<1>3. \A n \in AdvertisedTtl(r.header) : Keep(r) \in 0..Longest /\ Keep(r) <= Max(n - r.age, 0)
  BY <1>2
<1> QED
  BY <1>1, <1>3
-----------------------------------------------------------------------------
\* One second later, every copy of the keys is a second older.
LEMMA TickKeeps ==
    ASSUME TimeInv, CacheInv, Tick
    PROVE  TimeInv' /\ CacheInv'
<1>1. \A k \in Key : gone'[k] \in Nat /\ gone[k] \in Nat /\ gone[k] <= gone'[k]
                     /\ gone'[k] <= gone[k] + 1
                     /\ (stage[k] # "gone" => gone'[k] = gone[k])
  BY DEF Tick, TimeInv
<1>2. gone' \in [Key -> Nat]
  BY <1>1 DEF Tick
<1>3. stage' = stage
  BY DEF Tick
<1>4. /\ shared' \subseteq [keys : SUBSET Key, age : 0..Hold, header : Header]
      /\ \A c \in shared' : \A k \in c.keys : gone'[k] <= c.age
  <2> SUFFICES ASSUME NEW c \in shared
               PROVE  LET d == [c EXCEPT !.age = c.age + 1]
                      IN  /\ d \in [keys : SUBSET Key, age : 0..Hold, header : Header]
                          /\ \A k \in d.keys : gone'[k] <= d.age
    BY DEF Tick
  <2>1. c \in [keys : SUBSET Key, age : 0..Hold, header : Header]
        /\ c.age < Hold /\ \A k \in c.keys : gone[k] <= c.age
    BY DEF TimeInv, Tick
  <2> QED
    BY <1>1, <2>1, Constants
<1>5. /\ flight' \subseteq [keys : SUBSET Key, age : 0..Hold, header : Header, delay : 0..MaxDelay]
      /\ \A f \in flight' : \A k \in f.keys : gone'[k] <= f.age + f.delay
  <2> SUFFICES ASSUME NEW f \in flight
               PROVE  LET g == [f EXCEPT !.delay = f.delay + 1]
                      IN  /\ g \in [keys : SUBSET Key, age : 0..Hold, header : Header,
                                   delay : 0..MaxDelay]
                          /\ \A k \in g.keys : gone'[k] <= g.age + g.delay
    BY DEF Tick
  <2>1. /\ f \in [keys : SUBSET Key, age : 0..Hold, header : Header, delay : 0..MaxDelay]
        /\ \A k \in f.keys : gone[k] <= f.age + f.delay
        /\ f.delay < MaxDelay
    BY DEF TimeInv, Tick
  <2> QED
    BY <1>1, <2>1, Constants
<1>6. CacheInv'
  <2> SUFFICES ASSUME NEW c \in cache, c.left > 0
               PROVE  LET d == Older(c)
                      IN  /\ d \in [keys : SUBSET Key, left : 0..Longest, age : 0..Hold,
                                   life : SUBSET Nat]
                          /\ \A k \in d.keys :
                                /\ gone'[k] + d.left <= MaxDelay + d.age + Longest
                                /\ \A n \in d.life : gone'[k] + d.left <= MaxDelay + Max(n, d.age)
    BY DEF Tick, CacheInv
  <2>1. c \in [keys : SUBSET Key, left : 0..Longest, age : 0..Hold, life : SUBSET Nat]
    BY DEF CacheInv
  <2>2. Older(c) = [c EXCEPT !.left = c.left - 1]
    BY <2>1, Constants DEF Older
  <2>3. /\ Older(c) \in [keys : SUBSET Key, left : 0..Longest, age : 0..Hold, life : SUBSET Nat]
        /\ Older(c).keys = c.keys /\ Older(c).age = c.age /\ Older(c).life = c.life
        /\ Older(c).left = c.left - 1
    BY <2>1, <2>2, Constants
  <2>4. ASSUME NEW k \in c.keys
        PROVE  gone'[k] + (c.left - 1) <= gone[k] + c.left /\ gone[k] \in Nat /\ gone'[k] \in Nat
    BY <1>1, <2>1
  <2>5. ASSUME NEW k \in c.keys
        PROVE  gone'[k] + (c.left - 1) <= MaxDelay + c.age + Longest
    BY <2>1, <2>4, Constants DEF CacheInv
  <2>6. ASSUME NEW k \in c.keys, NEW n \in c.life
        PROVE  gone'[k] + (c.left - 1) <= MaxDelay + Max(n, c.age)
    BY <2>1, <2>4, Constants DEF CacheInv, Max
  <2> QED
    BY <2>3, <2>5, <2>6
<1> QED
  BY <1>1, <1>2, <1>3, <1>4, <1>5, <1>6 DEF TimeInv

\* An answer that arrives becomes the cached keys, with its age and delay.
LEMMA DeliverKeeps ==
    ASSUME TimeInv, CacheInv, DeliverJwks
    PROVE  TimeInv' /\ CacheInv'
<1>1. PICK f \in flight :
          cache' = {[keys |-> f.keys, left |-> Keep(f), age |-> f.age,
                     life |-> AdvertisedTtl(f.header)]}
  BY DEF DeliverJwks
<1>2. /\ f \in [keys : SUBSET Key, age : 0..Hold, header : Header, delay : 0..MaxDelay]
      /\ \A k \in f.keys : gone[k] <= f.age + f.delay /\ gone[k] \in Nat
  BY DEF TimeInv
<1>3. /\ Keep(f) \in 0..Longest
      /\ \A n \in AdvertisedTtl(f.header) : Keep(f) <= Max(n - f.age, 0)
      /\ AdvertisedTtl(f.header) \subseteq Nat
  BY <1>2, TtlBounds, OneLifetime
<1>4. gone' = gone /\ stage' = stage /\ shared' = shared /\ flight' = {}
  BY DEF DeliverJwks
<1>5. ASSUME NEW k \in f.keys
      PROVE  gone[k] + Keep(f) <= MaxDelay + f.age + Longest
  BY <1>2, <1>3, Constants
<1>6. ASSUME NEW k \in f.keys, NEW n \in AdvertisedTtl(f.header)
      PROVE  gone[k] + Keep(f) <= MaxDelay + Max(n, f.age)
  BY <1>2, <1>3, Constants DEF Max
<1>7. CacheInv'
  BY <1>1, <1>2, <1>3, <1>4, <1>5, <1>6 DEF CacheInv
<1> QED
  BY <1>4, <1>7 DEF TimeInv

\* Every step of the key cache keeps what the copies are known to be.
LEMMA JwksStepKeeps ==
    ASSUME TimeInv, CacheInv, JwksNext
    PROVE  TimeInv' /\ CacheInv'
<1> USE DEF LiveKeys
<1>1. ASSUME NEW k \in Key, Publish(k) PROVE TimeInv' /\ CacheInv'
  BY <1>1 DEF Publish, TimeInv, CacheInv
<1>2. ASSUME NEW k \in Key, Withdraw(k) PROVE TimeInv' /\ CacheInv'
  BY <1>2 DEF Withdraw, TimeInv, CacheInv
<1>3. ASSUME NEW h \in Header, Fill(h) PROVE TimeInv' /\ CacheInv'
  BY <1>3, Constants DEF Fill, TimeInv, CacheInv
<1>4. CASE Evict
  BY <1>4 DEF Evict, TimeInv, CacheInv
<1>5. CASE AnswerJwks
  <2>1. PICK r \in shared \cup {[keys |-> LiveKeys, age |-> 0, header |-> h] : h \in Header} :
            flight' = {[keys |-> r.keys, age |-> r.age, header |-> r.header, delay |-> 0]}
    BY <1>5 DEF AnswerJwks
  <2>2. /\ r \in [keys : SUBSET Key, age : 0..Hold, header : Header]
        /\ \A k \in r.keys : gone[k] <= r.age /\ gone[k] \in Nat
    BY Constants DEF TimeInv
  <2> QED
    BY <1>5, <2>1, <2>2, Constants DEF AnswerJwks, TimeInv, CacheInv
<1>6. CASE UNCHANGED keyVars
  BY <1>6 DEF keyVars, TimeInv, CacheInv
<1>7. CASE CallFails
  BY <1>7 DEF CallFails, TimeInv, CacheInv
<1>8. CallDiscover \/ CallJwks \/ (\E d \in Doc : DeliverDocument(d)) => UNCHANGED keyVars
  BY DEF CallDiscover, CallJwks, DeliverDocument, keyVars
<1> QED
  BY <1>1, <1>2, <1>3, <1>4, <1>5, <1>6, <1>7, <1>8, TickKeeps, DeliverKeeps DEF JwksNext, JwksStep

\* Steps of the session leave the keys alone.
LEMMA SessionStep ==
    ASSUME [Next]_vars
    PROVE  JwksNext \/ UNCHANGED keyVars
BY DEF Next, TickAll, JwksNext, vars, keyVars, Retain, AskUserinfo, AcceptJson, AcceptJwt, Accept,
       UserinfoFails, NextSession

\* Whatever the sessions do, copies of the keys are known for what they are.
LEMMA KeysInvHolds == Spec => [](TimeInv /\ CacheInv)
<1>1. Init => TimeInv /\ CacheInv
  BY DEF Init, JwksInit, TimeInv, CacheInv
<1>2. TimeInv /\ CacheInv /\ [Next]_vars => (TimeInv /\ CacheInv)'
  <2>1. ASSUME TimeInv, CacheInv, UNCHANGED keyVars PROVE TimeInv' /\ CacheInv'
    BY <2>1 DEF keyVars, TimeInv, CacheInv
  <2> QED
    BY <2>1, SessionStep, JwksStepKeeps
<1> QED
  BY <1>1, <1>2, PTL DEF Spec

\* A key that the provider has withdrawn goes out of use in time, whatever
\* lifetimes it advertised and whatever a shared cache answered in its place.
THEOREM WithdrawnKeyBoundedHolds == Spec => []WithdrawnKeyBounded
<1>1. CacheInv => WithdrawnKeyBounded
  BY DEF CacheInv, WithdrawnKeyBounded, Longest
<1> QED
  BY <1>1, KeysInvHolds, PTL
-----------------------------------------------------------------------------
\* URLs that are fit to be asked.
Fit(u) == u.scheme = "https" \/ (u.loopback /\ Issuer.loopback /\ Issuer.scheme = "http")

\* Nothing is requested over plain http outside the loopback interface, and the
\* metadata in use is that of the configured issuer.
THEOREM RequestsStaySecureHolds == Spec => []RequestsStaySecure
<1>1. Init => RequestsStaySecure
  BY DEF Init, JwksInit, RequestsStaySecure
<1>2. RequestsStaySecure /\ [Next]_vars => RequestsStaySecure'
  <2> SUFFICES ASSUME RequestsStaySecure, [Next]_vars PROVE RequestsStaySecure'
    OBVIOUS
  <2>1. ASSUME NEW u, ValidateServiceEndpointForIssuer(u, Issuer) PROVE Fit(u)
    BY <2>1 DEF ValidateServiceEndpointForIssuer, ValidateEndpoint, IssuerAllowsLoopbackHttp, Fit
  <2>2. ValidateIssuer(Issuer) => Fit(Issuer)
    BY DEF ValidateIssuer, ValidateEndpoint, Fit
  <2>3. CASE CallDiscover
    BY <2>2, <2>3 DEF CallDiscover, RequestsStaySecure, Fit
  <2>4. ASSUME NEW d \in Doc, DeliverDocument(d) PROVE RequestsStaySecure'
    BY <2>4 DEF DeliverDocument, DocumentOk, RequestsStaySecure
  <2>5. CASE CallJwks
    BY <2>1, <2>5 DEF CallJwks, RequestsStaySecure, Fit
  <2>6. ASSUME NEW o \in Setup, AskUserinfo(o) PROVE RequestsStaySecure'
    BY <2>1, <2>6 DEF AskUserinfo, RequestsStaySecure, Fit
  <2>7. CASE UNCHANGED <<info, asked>>
    BY <2>7 DEF RequestsStaySecure
  <2>8. \/ UNCHANGED <<info, asked>>
        \/ CallDiscover \/ CallJwks
        \/ \E d \in Doc : DeliverDocument(d)
        \/ \E o \in Setup : AskUserinfo(o)
    BY DEF Next, vars, TickAll, JwksStep, Tick, Publish, Withdraw, Fill, Evict, AnswerJwks,
           DeliverJwks, CallFails, Retain, AcceptJson, AcceptJwt, Accept, UserinfoFails, NextSession
  <2> QED
    BY <2>3, <2>4, <2>5, <2>6, <2>7, <2>8
<1> QED
  BY <1>1, <1>2, PTL DEF Spec
-----------------------------------------------------------------------------
\* Claims are there only at the end of a session, and they have passed the
\* checks of the way in which the session reads UserInfo.
SessionInv ==
    /\ setup \in Setup
    /\ sess # "done" => got = {}
    /\ UserinfoIsUserinfo
    /\ ReplayEnds

LEMMA JwtAccepted ==
    ASSUME SessionInv, TimeInv, CacheInv, AcceptJwt
    PROVE  SessionInv'
<1>0. PICK s \in cache, j \in kept, kind \in SignedKind, u \in Subject :
          /\ \E c \in ClaimsOf(kind) : c.sub = u /\ UserinfoSignedClaims(j, c, s.keys)
          /\ Accept([form |-> "jwt", kind |-> kind, sub |-> u, exp |-> j.exp,
                     age |-> j.age, late |-> gone[j.key]])
  BY DEF AcceptJwt
<1>1. PICK c \in ClaimsOf(kind) : c.sub = u /\ UserinfoSignedClaims(j, c, s.keys)
  BY <1>0
<1>2. setup' = setup /\ sess' = "done"
      /\ got' = {[form |-> "jwt", kind |-> kind, sub |-> u, exp |-> j.exp,
                  age |-> j.age, late |-> gone[j.key]]}
  BY <1>0 DEF Accept
<1>3. u = Me /\ j.key \in s.keys /\ AgeOk(j) /\ ExpOk(j) /\ TypOk(c)
  BY <1>1 DEF UserinfoSignedClaims
<1>4. kind \in Kind /\ c.typ \in TypOf(kind) /\ (setup.dedicated => kind = "userinfo")
  BY DEF ClaimsOf, SignedKind, Kind
<1>5. setup.trust = "typed" => c.typ = "userinfo+jwt"
  BY <1>3, SetupAssumption DEF TypOk, UserinfoJwtOptions, SessionInv
<1>6. setup.trust = "typed" => kind = "userinfo"
  BY <1>4, <1>5 DEF TypOf, Kind
<1>7. UserinfoIsUserinfo'
  BY <1>2, <1>3, <1>4, <1>6 DEF UserinfoIsUserinfo
<1>8. gone[j.key] <= MaxDelay + Hold + Longest
  <2>1. /\ s.keys \subseteq Key /\ s.left \in 0..Longest /\ s.age \in 0..Hold
        /\ gone[j.key] + s.left <= MaxDelay + s.age + Longest
    BY <1>3 DEF CacheInv
  <2>2. gone[j.key] \in Nat
    BY <1>3, <2>1 DEF TimeInv
  <2> QED
    BY <2>1, <2>2, Constants
<1>9. /\ \A m \in setup.max_age : j.age <= m + Leeway
      /\ setup.require_exp => \E n \in j.exp : j.age < n + Leeway
  BY <1>3 DEF AgeOk, ExpOk
<1>10. ReplayEnds'
  BY <1>2, <1>8, <1>9 DEF ReplayEnds, Longest
<1> QED
  BY <1>2, <1>7, <1>10 DEF SessionInv

LEMMA SessionInvHolds == Spec => []SessionInv
<1>1. Init => SessionInv
  BY SetupAssumption DEF Init, SessionInv, UserinfoIsUserinfo, ReplayEnds
<1>2. TimeInv /\ CacheInv /\ SessionInv /\ [Next]_vars => SessionInv'
  <2> SUFFICES ASSUME TimeInv, CacheInv, SessionInv, [Next]_vars PROVE SessionInv'
    OBVIOUS
  <2>1. CASE UNCHANGED session
    BY <2>1 DEF session, SessionInv, UserinfoIsUserinfo, ReplayEnds
  <2>2. ASSUME NEW o \in Setup, AskUserinfo(o) PROVE SessionInv'
    BY <2>2 DEF AskUserinfo, SessionInv, UserinfoIsUserinfo, ReplayEnds
  <2>3. CASE AcceptJson
    BY <2>3 DEF AcceptJson, Accept, UserinfoJsonClaims, SessionInv, UserinfoIsUserinfo, ReplayEnds
  <2>4. CASE UserinfoFails \/ NextSession
    BY <2>4, SetupAssumption DEF UserinfoFails, NextSession, SessionInv, UserinfoIsUserinfo, ReplayEnds
  <2>5. CASE UNCHANGED vars
    BY <2>1, <2>5 DEF vars, session
  <2>6. ASSUME TickAll \/ (JwksStep /\ UNCHANGED <<kept, setup, sess, got>>) \/ \E j \in Signed : Retain(j)
        PROVE  UNCHANGED session
    BY <2>6 DEF TickAll, Retain, session
  <2> QED
    BY <2>1, <2>2, <2>3, <2>4, <2>5, <2>6, JwtAccepted DEF Next
<1> QED
  BY <1>1, <1>2, KeysInvHolds, PTL DEF Spec

\* No other JWT of the provider passes for UserInfo where typ or keys tell them
\* apart, and the claims are those of the subject who logged in.
THEOREM UserinfoIsUserinfoHolds == Spec => []UserinfoIsUserinfo
BY SessionInvHolds, PTL DEF SessionInv

\* JWTs delivered again to later sessions stop being accepted: by their real age
\* where it is limited, and with the key that signed them in every mode.
THEOREM ReplayEndsHolds == Spec => []ReplayEnds
BY SessionInvHolds, PTL DEF SessionInv
-----------------------------------------------------------------------------
(***************************************************************************)
(* RpLogin.  A code's way from a callback to a finished login takes four   *)
(* steps, with anything in between.  LoginInv says what each step leaves   *)
(* behind: HoldInv and PostInv that a code which passed the callback's     *)
(* checks is this session's and its provider's, as far as the setup lets   *)
(* the RP tell; TokenInv that the ID token is for the code exchanged;      *)
(* OnceInv that no two sessions had the same code exchanged.               *)
(***************************************************************************)
\* States of a session that holds a code, and of one whose code was exchanged.
Holding == {"code", "posted", "tokens", "done"}
Exchanged == {"tokens", "done"}

\* What the checks of a callback leave to be known of the code taken from it.
Taken(s, c) ==
    IF c = NotACode
    THEN Profile[Home[s]].untyped /\ Profile[Home[s]].shared
    ELSE /\ NamesItself(c.op) \/ NamesItself(Home[s]) => c.op = Home[s]
         /\ Profile[Home[s]].state => c.for = s

HoldInv ==
    \A s \in Session : rp[s] \in Holding =>
        code[s] \in Code \cup {NotACode} /\ Taken(s, code[s])

PostInv == \A p \in posted : p.to = Home[p.by] /\ Taken(p.by, p.code)

\* An exchanged code is spent, and the ID token is of that exchange.
TokenInv ==
    \A s \in Session : rp[s] \in Exchanged =>
        /\ code[s] \in spent
        /\ code[s].op = Home[s]
        /\ Profile[Home[s]].pkce => code[s].for = s
        /\ claims[s] \in IdToken
        /\ claims[s].nonce = code[s].for
        /\ claims[s].auth_time \in {code[s].auth_time, None}
        /\ claims[s].exp <= now + Ttl

OnceInv ==
    \A s, r \in Session : {rp[s], rp[r]} \subseteq Exchanged /\ s # r => code[s] # code[r]

\* What verify_id_token_with has seen to, in a session that is done.
DoneInv ==
    \A s \in Session : rp[s] = "done" =>
        /\ Profile[Home[s]].nonce => code[s].for = s
        /\ claims[s].exp - Ttl <= code[s].auth_time + MaxAge

LoginInv ==
    LoginTypeOK /\ JarmIsAResponse /\ HoldInv /\ PostInv /\ TokenInv /\ OnceInv /\ DoneInv
-----------------------------------------------------------------------------
\* Fields::validate: a code or an error, and not both.
LEMMA ValidateFacts ==
    ASSUME NEW f, Validate(f)
    PROVE  (f.code # None /\ f.error = None) \/ (f.code = None /\ f.error # None)
BY DEF Validate

\* A response without parameters is none.
LEMMA NoFieldsInvalid == ~Validate(NoFields)
BY DEF Validate, NoFields, Fields

\* The fields of a response.
LEMMA FieldFacts ==
    \A c, e, st, i : /\ Fields(c, e, st, i).code = c
                    /\ Fields(c, e, st, i).error = e
                    /\ Fields(c, e, st, i).state = st
                    /\ Fields(c, e, st, i).iss = i
BY DEF Fields

\* The parts of a JWT that verify_jarm reads.
LEMMA JwtFacts ==
    \A o, typ, aud, exp, f : /\ Jwt(o, typ, aud, exp, f).signer = o
                            /\ Jwt(o, typ, aud, exp, f).typ = typ
                            /\ Jwt(o, typ, aud, exp, f).fields = f
BY DEF Jwt

\* A JARM provider answers with a JWT and no parameters, another with parameters
\* and no JWT.
LEMMA AnswerFacts ==
    ASSUME NEW o, NEW r, NEW exp, NEW f
    PROVE  /\ Profile[o].jarm =>
                /\ Answer(o, r, exp, f).params = NoFields
                /\ Answer(o, r, exp, f).response.signer = o
                /\ Answer(o, r, exp, f).response.fields = f
           /\ ~Profile[o].jarm =>
                Answer(o, r, exp, f).params = f /\ Answer(o, r, exp, f).response = None
BY JwtFacts DEF Answer

\* Spoiling leaves the JWT, and the parameters only with an error or gone.
LEMMA SpoiltFacts ==
    ASSUME NEW pa, NEW re, NEW cl,
           NEW m \in Spoilt([params |-> pa, response |-> re, clean |-> cl])
    PROVE  /\ m.response = re
           /\ m.clean => \/ m.params = [pa EXCEPT !.error = "access_denied"]
                         \/ m.params = NoFields
BY DEF Spoilt

\* A code that was issued is no stray claim, and names its provider.
LEMMA CodeFacts ==
    ASSUME NEW c \in Code
    PROVE  c # NotACode /\ c.op \in Op /\ c.for \in Session \cup {Foreign}
           /\ c.auth_time \in 0..Horizon
BY ForeignAssumption DEF Code, NotACode

\* What a provider puts into its parameters.
LEMMA ParameterFacts ==
    ASSUME NEW o, NEW r, NEW c, NEW e
    PROVE  /\ Parameters(o, r, c, e).code = c
           /\ Parameters(o, r, c, e).error = e
           /\ Profile[o].state => Parameters(o, r, c, e).state = r
           /\ ~Profile[o].state => Parameters(o, r, c, e).state = None
           /\ NamesItself(o) => Parameters(o, r, c, e).iss = o
           /\ ~NamesItself(o) => Parameters(o, r, c, e).iss = None
BY FieldFacts DEF Parameters, NamesItself

\* The parameters f of a code's success response, as matches_state and
\* matches_iss see them, tie the code to the session and to its provider.
LEMMA MatchFacts ==
    ASSUME NEW s \in Session, NEW c \in Code, NEW f,
           f.state = Parameters(c.op, c.for, c, None).state,
           f.iss = Parameters(c.op, c.for, c, None).iss,
           MatchesState(f, s, Profile[Home[s]].state),
           MatchesIss(f, Home[s], Profile[Home[s]].iss),
           NamesItself(Home[s]) => Profile[Home[s]].iss \/ c.op = Home[s]
    PROVE  Taken(s, c)
<1>1. c # NotACode /\ c.op \in Op
  BY CodeFacts
<1>2. None \notin Op
  BY ForeignAssumption
<1>3. Profile[Home[s]].state => c.for = s
  BY ParameterFacts DEF MatchesState
<1>4. NamesItself(c.op) => c.op = Home[s]
  BY <1>1, <1>2, ParameterFacts DEF MatchesIss
<1>5. NamesItself(Home[s]) => c.op = Home[s]
  BY <1>2, ParameterFacts DEF MatchesIss
<1> QED
  BY <1>1, <1>3, <1>4, <1>5 DEF Taken

\* A session accepts no code but one that is meant for it, as far as its
\* provider's setup allows to tell.
LEMMA AcceptedCode ==
    ASSUME NEW s \in Session, NEW c \in Code,
           NEW m \in {Success(c)} \cup Spoilt(Success(c)),
           Accepts(s, m), Inner(m).error = None
    PROVE  Inner(m).code = c /\ Taken(s, c)
<1>1. PICK f : f = Parameters(c.op, c.for, c, None)
  OBVIOUS
<1>2. PICK w : w = Answer(c.op, c.for, c.at + Ttl, f)
  OBVIOUS
<1>3. Success(c) = w
  BY <1>1, <1>2 DEF Success
<1>4. PICK pa, re : w = [params |-> pa, response |-> re, clean |-> TRUE]
  BY <1>2 DEF Answer
<1>5. /\ Profile[c.op].jarm => pa = NoFields /\ re.signer = c.op /\ re.fields = f
      /\ ~Profile[c.op].jarm => pa = f /\ re = None
  BY <1>2, <1>4, AnswerFacts
<1>6. /\ m.response = re
      /\ m.clean => \/ m.params = pa
                    \/ m.params = [pa EXCEPT !.error = "access_denied"]
                    \/ m.params = NoFields
  BY <1>3, <1>4, SpoiltFacts
<1>7. /\ MatchesState(Inner(m), s, Profile[Home[s]].state)
      /\ MatchesIss(Inner(m), Home[s], Profile[Home[s]].iss)
      /\ m.clean
  BY DEF Accepts, ParsePairs
<1>8. CASE Profile[Home[s]].jarm
  <2>1. re # None /\ VerifyJarm(Home[s], re)
    BY <1>6, <1>8 DEF Accepts, ParsePairs
  <2>2. c.op = Home[s] /\ Inner(m) = f
    BY <1>5, <1>6, <2>1 DEF VerifyJarm, Inner
  <2> QED
    BY <1>1, <1>7, <2>2, MatchFacts, ParameterFacts
<1>9. CASE ~Profile[Home[s]].jarm
  <2>1. re = None /\ Validate(m.params) /\ Inner(m) = m.params
    BY <1>6, <1>9 DEF Accepts, ParsePairs, Inner
  <2>2. m.params.code # None
    BY <2>1, ValidateFacts
  <2>3. NoFields.code = None /\ [NoFields EXCEPT !.error = "access_denied"].code = None
    BY DEF NoFields, Fields
  <2>4. pa = f
    BY <1>5, <1>6, <1>7, <2>2, <2>3
  <2>5. /\ [f EXCEPT !.error = "access_denied"].code = f.code
        /\ [f EXCEPT !.error = "access_denied"].state = f.state
        /\ [f EXCEPT !.error = "access_denied"].iss = f.iss
    BY <1>1 DEF Parameters, Fields
  <2>6. Inner(m).code = f.code /\ Inner(m).state = f.state /\ Inner(m).iss = f.iss
    BY <1>6, <1>7, <2>1, <2>2, <2>3, <2>4, <2>5
  <2>7. NamesItself(Home[s]) => Profile[Home[s]].iss
    BY <1>9 DEF NamesItself
  <2> QED
    BY <1>1, <1>7, <2>6, <2>7, MatchFacts, ParameterFacts
<1> QED
  BY <1>8, <1>9

\* An error response never passes for a success.
LEMMA AcceptedFailure ==
    ASSUME NEW s \in Session, NEW o, NEW r, Accepts(s, Failure(o, r))
    PROVE  Inner(Failure(o, r)).error # None
<1>1. PICK f : f = Parameters(o, r, None, "access_denied")
  OBVIOUS
<1>2. PICK m : m = Failure(o, r)
  OBVIOUS
<1>3. /\ Profile[o].jarm => m.params = NoFields /\ m.response.fields = f
      /\ ~Profile[o].jarm => m.params = f /\ m.response = None
  BY <1>1, <1>2, AnswerFacts DEF Failure
<1>4. f.code = None
  BY <1>1, ParameterFacts
<1>5. CASE Profile[Home[s]].jarm
  <2>1. Inner(m) = f /\ Validate(f)
    BY <1>2, <1>3, <1>5 DEF Accepts, ParsePairs, VerifyJarm, Inner
  <2> QED
    BY <1>2, <1>4, <2>1, ValidateFacts
<1>6. CASE ~Profile[Home[s]].jarm
  <2>1. Inner(m) = m.params /\ Validate(m.params)
    BY <1>2, <1>6 DEF Accepts, ParsePairs, Inner
  <2> QED
    BY <1>2, <1>3, <1>4, <2>1, ValidateFacts, NoFieldsInvalid
<1> QED
  BY <1>5, <1>6

\* A JWT of another kind passes for a response only where the RP has chosen to
\* accept untyped responses from keys that sign other things.
LEMMA AcceptedOther ==
    ASSUME NEW s \in Session, NEW o \in Op, Profile[o].shared,
           NEW m \in OtherJwt(o), Accepts(s, m)
    PROVE  Inner(m).code = NotACode /\ Taken(s, NotACode)
<1>1. PICK typ \in {None, "JWT", "at+jwt"}, aud \in {"us", "them"}, r \in Session :
         m = [params |-> NoFields, clean |-> TRUE,
              response |-> Jwt(o, typ, aud, now + Ttl, Fields(NotACode, None, r, o))]
  BY DEF OtherJwt
<1>2. PICK re : re = Jwt(o, typ, aud, now + Ttl, Fields(NotACode, None, r, o))
  OBVIOUS
<1>3. re.signer = o /\ re.typ = typ /\ re.fields.code = NotACode
  BY <1>2, JwtFacts, FieldFacts
<1>4. m.params = NoFields /\ m.response = re
  BY <1>1, <1>2
<1>5. Profile[Home[s]].jarm /\ re # None /\ VerifyJarm(Home[s], re)
  BY <1>4, NoFieldsInvalid DEF Accepts, ParsePairs
<1>6. Home[s] = o /\ CheckJarmTyp(o, typ)
  BY <1>3, <1>5 DEF VerifyJarm
<1>7. Profile[o].untyped
  BY <1>6, NoneAssumption DEF CheckJarmTyp
<1>8. Inner(m) = re.fields
  BY <1>4, <1>5 DEF Inner
<1> QED
  BY <1>3, <1>6, <1>7, <1>8 DEF Taken
-----------------------------------------------------------------------------
(* The steps.                                                              *)

\* No session has begun.
LEMMA LoginInitOK == LoginInit => LoginInv
BY LoginTimeAssumption, NoneAssumption
   DEF LoginInit, LoginInv, LoginTypeOK, JarmIsAResponse, HoldInv, PostInv, TokenInv, OnceInv,
       DoneInv, Holding, Exchanged

\* Time passes; the ID tokens received are no younger for it.
LEMMA LoginTickStep == LoginInv /\ LoginTick => LoginInv'
<1> SUFFICES ASSUME LoginInv, LoginTick PROVE LoginInv'
  OBVIOUS
<1>1. LoginTypeOK'
  BY LoginTimeAssumption DEF LoginInv, LoginTypeOK, LoginTick
<1>2. TokenInv'
  <2> SUFFICES ASSUME NEW s \in Session, rp[s] \in Exchanged
               PROVE  claims[s].exp <= now' + Ttl
    BY DEF LoginInv, TokenInv, LoginTick
  <2>1. claims[s].exp \in Nat /\ claims[s].exp <= now + Ttl
    BY DEF LoginInv, TokenInv, IdToken
  <2> QED
    BY <2>1, LoginTimeAssumption DEF LoginInv, LoginTypeOK, LoginTick
<1> QED
  BY <1>1, <1>2 DEF LoginInv, JarmIsAResponse, HoldInv, PostInv, OnceInv, DoneInv, LoginTick

\* The browser leaves.
LEMMA AuthorizationUrlStep ==
    ASSUME LoginInv, NEW s \in Session, AuthorizationUrl(s)
    PROVE  LoginInv'
BY DEF AuthorizationUrl, Goto, LoginInv, LoginTypeOK, JarmIsAResponse, HoldInv, PostInv, TokenInv,
       OnceInv, DoneInv, Holding, Exchanged

\* A provider issues a code.
LEMMA AuthenticateStep ==
    ASSUME LoginInv, NEW o \in Op, NEW r \in Session \cup {Foreign}, Authenticate(o, r)
    PROVE  LoginInv'
<1>1. codes' \subseteq Code /\ codes \subseteq codes'
  BY LoginTimeAssumption DEF Authenticate, LoginInv, LoginTypeOK, Code
<1> QED
  BY <1>1 DEF Authenticate, LoginInv, LoginTypeOK, JarmIsAResponse, HoldInv, PostInv, TokenInv,
              OnceInv, DoneInv

\* A callback ends the login, or leaves a code that passed the checks.
LEMMA CallbackFacts ==
    ASSUME LoginInv, NEW s \in Session, AnyCallback(s)
    PROVE  /\ \/ rp' = [rp EXCEPT ![s] = "failed"] /\ code' = code
              \/ \E c \in Code \cup {NotACode} :
                    /\ Taken(s, c)
                    /\ rp' = [rp EXCEPT ![s] = "code"]
                    /\ code' = [code EXCEPT ![s] = c]
           /\ UNCHANGED <<now, codes, spent, claims, posted>>
<1>1. ASSUME NEW m, Callback(s, m)
      PROVE  /\ Accepts(s, m)
             /\ \/ rp' = [rp EXCEPT ![s] = "failed"] /\ code' = code
                \/ /\ Inner(m).error = None
                   /\ rp' = [rp EXCEPT ![s] = "code"]
                   /\ code' = [code EXCEPT ![s] = Inner(m).code]
             /\ UNCHANGED <<now, codes, spent, claims, posted>>
  BY <1>1 DEF Callback, Goto
<1>2. CASE \E c \in codes : \E m \in {Success(c)} \cup Spoilt(Success(c)) : Callback(s, m)
  <2>1. PICK c \in codes : \E m \in {Success(c)} \cup Spoilt(Success(c)) : Callback(s, m)
    BY <1>2
  <2>2. PICK m \in {Success(c)} \cup Spoilt(Success(c)) : Callback(s, m)
    BY <2>1
  <2>3. c \in Code
    BY DEF LoginInv, LoginTypeOK
  <2> QED
    BY <1>1, <2>2, <2>3, AcceptedCode
<1>3. CASE \E o \in Op, r \in Session : rp[r] # "new" /\ Callback(s, Failure(o, r))
  BY <1>1, <1>3, AcceptedFailure
<1>4. CASE \E o \in Op : /\ Profile[o].jarm /\ Profile[o].shared
                        /\ \E m \in OtherJwt(o) : Callback(s, m)
  BY <1>1, <1>4, AcceptedOther
<1> QED
  BY <1>2, <1>3, <1>4 DEF AnyCallback

\* A callback that is accepted.
LEMMA CallbackStep ==
    ASSUME LoginInv, NEW s \in Session, rp[s] = "waiting", AnyCallback(s)
    PROVE  LoginInv'
<1>1. UNCHANGED <<now, codes, spent, claims, posted>>
  BY CallbackFacts
<1>2. CASE rp' = [rp EXCEPT ![s] = "failed"] /\ code' = code
  BY <1>1, <1>2 DEF LoginInv, LoginTypeOK, JarmIsAResponse, HoldInv, PostInv, TokenInv, OnceInv,
                    DoneInv, Holding, Exchanged
<1>3. ASSUME NEW c \in Code \cup {NotACode}, Taken(s, c),
             rp' = [rp EXCEPT ![s] = "code"], code' = [code EXCEPT ![s] = c]
      PROVE  LoginInv'
  <2>1. LoginTypeOK'
    BY <1>1, <1>3 DEF LoginInv, LoginTypeOK
  <2>2. JarmIsAResponse' /\ HoldInv'
    BY <1>1, <1>3 DEF LoginInv, LoginTypeOK, JarmIsAResponse, HoldInv, Taken
  <2>3. TokenInv' /\ OnceInv' /\ DoneInv' /\ PostInv'
    BY <1>1, <1>3 DEF LoginInv, LoginTypeOK, TokenInv, OnceInv, DoneInv, PostInv, Exchanged
  <2> QED
    BY <2>1, <2>2, <2>3 DEF LoginInv
<1> QED
  BY <1>2, <1>3, CallbackFacts

\* exchange_code sends the code taken to the provider of the session.
LEMMA PostCodeStep ==
    ASSUME LoginInv, NEW s \in Session, PostCode(s)
    PROVE  LoginInv'
<1>1. code[s] \in Code \cup {NotACode} /\ Taken(s, code[s])
  BY DEF LoginInv, HoldInv, Holding, PostCode
<1>2. PICK p : p = [code |-> code[s], to |-> Home[s], by |-> s]
  OBVIOUS
<1>3. posted' = posted \cup {p} /\ p.to = Home[p.by] /\ Taken(p.by, p.code)
  BY <1>1, <1>2 DEF PostCode
<1>4. PostInv'
  BY <1>3 DEF LoginInv, PostInv
<1>5. LoginTypeOK'
  <2>1. p \in [code : Code \cup {NotACode}, to : Op, by : Session]
    BY <1>1, <1>2, HomeAssumption
  <2> QED
    BY <1>3, <2>1 DEF PostCode, Goto, LoginInv, LoginTypeOK
<1> QED
  BY <1>4, <1>5 DEF PostCode, Goto, LoginInv, LoginTypeOK, JarmIsAResponse, HoldInv, TokenInv,
                    OnceInv, DoneInv, Holding, Exchanged

\* Every ID token of an exchange is for the code that was exchanged.
LEMMA TokenFacts ==
    ASSUME LoginInv, NEW c \in Code, NEW t \in TokensFor(c)
    PROVE  /\ t \in IdToken
           /\ t.nonce = c.for /\ t.auth_time \in {c.auth_time, None}
           /\ t.exp <= now + Ttl
<1>1. PICK e \in Nat : e = now + Ttl
  BY LoginTimeAssumption DEF LoginInv, LoginTypeOK
<1>2. PICK a \in Audience : a = [aud |-> <<"us">>, azp |-> None]
  BY AudienceAssumption
<1>3. PICK full : full = [iss |-> c.op, sub |-> "user", nonce |-> c.for,
                          auth_time |-> c.auth_time, at_hash |-> "ours", aud |-> a, exp |-> e]
  OBVIOUS
<1>4. TokensFor(c) =
         {full, [full EXCEPT !.sub = None], [full EXCEPT !.auth_time = None]}
         \cup {[full EXCEPT !.at_hash = h] : h \in {None, "another"}}
         \cup {[full EXCEPT !.aud = b] : b \in Audience}
  BY <1>1, <1>2, <1>3 DEF TokensFor
<1>5. c.op \in Op /\ c.for \in Session \cup {Foreign} /\ c.auth_time \in 0..Horizon
  BY CodeFacts
<1>6. \E sub \in {"user", None}, at \in {c.auth_time, None}, h \in {None, "ours", "another"},
         b \in Audience :
            t = [iss |-> c.op, sub |-> sub, nonce |-> c.for, auth_time |-> at,
                 at_hash |-> h, aud |-> b, exp |-> e]
  BY <1>3, <1>4
<1>7. t \in IdToken /\ t.nonce = c.for /\ t.auth_time \in {c.auth_time, None} /\ t.exp = e
  BY <1>5, <1>6 DEF IdToken
<1> QED
  BY <1>1, <1>7

\* The token endpoint exchanges the code, or the login fails.
LEMMA TokenAnswerStep ==
    ASSUME LoginInv, NEW s \in Session, TokenAnswer(s)
    PROVE  LoginInv'
<1>1. PICK c : c = code[s]
  OBVIOUS
<1>2. UNCHANGED <<now, codes, code, posted>> /\ rp[s] = "posted"
  BY DEF TokenAnswer
<1>3. CASE rp' = [rp EXCEPT ![s] = "failed"] /\ spent' \in {spent, spent \cup {c}}
           /\ spent' \subseteq codes /\ UNCHANGED claims
  BY <1>2, <1>3 DEF LoginInv, LoginTypeOK, JarmIsAResponse, HoldInv, PostInv, TokenInv, OnceInv,
                    DoneInv, Holding, Exchanged
<1>4. ASSUME Exchangeable(Home[s], s), spent' = spent \cup {c},
             NEW t \in TokensFor(c), claims' = [claims EXCEPT ![s] = t],
             rp' = [rp EXCEPT ![s] = "tokens"]
      PROVE  LoginInv'
  <2>1. /\ c \in codes \ spent /\ c \in Code
        /\ c.op = Home[s] /\ (Profile[Home[s]].pkce => c.for = s)
    BY <1>1, <1>4 DEF Exchangeable, LoginInv, LoginTypeOK
  <2>2. /\ t \in IdToken
        /\ t.nonce = c.for /\ t.auth_time \in {c.auth_time, None}
        /\ t.exp <= now + Ttl
    BY <2>1, TokenFacts
  <2>3. LoginTypeOK'
    BY <1>2, <1>4, <2>1, <2>2 DEF LoginInv, LoginTypeOK
  <2>4. JarmIsAResponse' /\ HoldInv' /\ PostInv'
    BY <1>2, <1>4 DEF LoginInv, LoginTypeOK, JarmIsAResponse, HoldInv, PostInv, Holding
  <2>5. TokenInv'
    BY <1>1, <1>2, <1>4, <2>1, <2>2 DEF LoginInv, LoginTypeOK, TokenInv, Exchanged
  <2>6. OnceInv'
    <3>1. \A r \in Session : rp[r] \in Exchanged => code[r] # c
      BY <2>1 DEF LoginInv, TokenInv
    <3> QED
      BY <1>1, <1>2, <1>4, <3>1 DEF LoginInv, LoginTypeOK, OnceInv, Exchanged
  <2>7. DoneInv'
    BY <1>2, <1>4 DEF LoginInv, LoginTypeOK, DoneInv
  <2> QED
    BY <2>3, <2>4, <2>5, <2>6, <2>7 DEF LoginInv
<1>5. Exchangeable(Home[s], s) => spent \cup {c} \subseteq codes
  BY <1>1 DEF Exchangeable, LoginInv, LoginTypeOK
<1>6. spent \subseteq codes
  BY DEF LoginInv, LoginTypeOK
<1> QED
  BY <1>1, <1>3, <1>4, <1>5, <1>6 DEF TokenAnswer, Goto

\* verify_id_token_with accepts the ID token, or the login fails.
LEMMA VerifyIdTokenStep ==
    ASSUME LoginInv, NEW s \in Session, VerifyIdToken(s)
    PROVE  LoginInv'
<1>1. UNCHANGED <<now, codes, spent, code, posted>> /\ rp[s] = "tokens"
  BY DEF VerifyIdToken
<1>2. CASE rp' = [rp EXCEPT ![s] = "failed"] /\ claims' = [claims EXCEPT ![s] = None]
  BY <1>1, <1>2 DEF LoginInv, LoginTypeOK, JarmIsAResponse, HoldInv, PostInv, TokenInv, OnceInv,
                    DoneInv, Holding, Exchanged
<1>3. CASE VerifyIdTokenWith(s, claims[s]) /\ rp' = [rp EXCEPT ![s] = "done"] /\ UNCHANGED claims
  <2>1. LoginTypeOK'
    BY <1>1, <1>3 DEF LoginInv, LoginTypeOK
  <2>2. JarmIsAResponse' /\ HoldInv' /\ PostInv' /\ TokenInv' /\ OnceInv'
    BY <1>1, <1>3 DEF LoginInv, LoginTypeOK, JarmIsAResponse, HoldInv, PostInv, TokenInv, OnceInv,
                      Holding, Exchanged
  <2>3. PICK c, t : c = code[s] /\ t = claims[s]
    OBVIOUS
  <2>4. /\ c \in Code /\ t \in IdToken /\ t.nonce = c.for
        /\ t.auth_time \in {c.auth_time, None} /\ t.exp <= now + Ttl
    BY <1>1, <2>3 DEF LoginInv, LoginTypeOK, TokenInv, Exchanged
  <2>5. Profile[Home[s]].nonce => c.for = s
    BY <1>3, <2>3, <2>4 DEF VerifyIdTokenWith, CheckNonce
  <2>6. t.exp - Ttl <= c.auth_time + MaxAge
    <3>1. t.auth_time = c.auth_time /\ now <= c.auth_time + MaxAge
      BY <1>3, <2>3, <2>4 DEF VerifyIdTokenWith, CheckAuthTime
    <3>2. t.exp \in Nat /\ c.auth_time \in Nat /\ now \in Nat
      BY <2>4, CodeFacts DEF IdToken, LoginInv, LoginTypeOK
    <3> QED
      BY <2>4, <3>1, <3>2, LoginTimeAssumption
  <2>7. DoneInv'
    BY <1>1, <1>3, <2>3, <2>5, <2>6 DEF LoginInv, LoginTypeOK, DoneInv
  <2> QED
    BY <2>1, <2>2, <2>7 DEF LoginInv
<1> QED
  BY <1>2, <1>3 DEF VerifyIdToken, Goto

\* A stuttering step changes nothing.
LEMMA LoginStutter == LoginInv /\ UNCHANGED loginVars => LoginInv'
BY DEF loginVars, LoginInv, LoginTypeOK, JarmIsAResponse, HoldInv, PostInv, TokenInv, OnceInv, DoneInv

\* Every step keeps the inductive invariant.
LEMMA LoginNextStep == LoginInv /\ [LoginNext]_loginVars => LoginInv'
<1> SUFFICES ASSUME LoginInv, LoginNext PROVE LoginInv'
  BY LoginStutter
<1> QED
  BY LoginTickStep, AuthorizationUrlStep, AuthenticateStep, CallbackStep, PostCodeStep,
     TokenAnswerStep, VerifyIdTokenStep DEF LoginNext

\* LoginInv holds throughout, for all sessions and providers at once.
THEOREM LoginInvariance == LoginSpec => []LoginInv
BY LoginInitOK, LoginNextStep, PTL DEF LoginSpec

\* Every state of the code flow is well typed; only codes that were issued are spent.
THEOREM LoginTypeCorrect == LoginSpec => []LoginTypeOK
BY LoginInvariance, PTL DEF LoginInv

\* exchange_code never sends a code to a provider other than its issuer once one
\* of the two identifies itself (matches_iss, verify_jarm): mix-up is ruled out.
THEOREM CodeAlwaysStaysWithIssuer == LoginSpec => []CodeStaysWithIssuer
<1>1. LoginInv => CodeStaysWithIssuer
  BY DEF LoginInv, PostInv, Taken, CodeStaysWithIssuer
<1> QED
  BY <1>1, LoginInvariance, PTL

\* With state required, no session presents the code of another (matches_state).
THEOREM CodeAlwaysStaysWithSession == LoginSpec => []CodeStaysWithSession
<1>1. LoginInv => CodeStaysWithSession
  BY DEF LoginInv, PostInv, Taken, CodeStaysWithSession
<1> QED
  BY <1>1, LoginInvariance, PTL

\* check_jarm_typ keeps other JWTs of the provider's keys from being taken for a
\* response, unless both exceptions are configured.
THEOREM JarmAlwaysAResponse == LoginSpec => []JarmIsAResponse
BY LoginInvariance, PTL DEF LoginInv

\* A finished login rests on this session's own authentication at its own
\* provider, recent enough, and on a code that finished no other login.
THEOREM LoginAlwaysBelongsToSession == LoginSpec => []LoginBelongsToSession
<1>1. LoginInv => LoginBelongsToSession
  <2> SUFFICES ASSUME LoginInv, NEW s \in Session, rp[s] = "done"
               PROVE  /\ code[s] \in spent
                      /\ code[s].op = Home[s]
                      /\ Profile[code[s].op].nonce \/ Profile[code[s].op].pkce
                            \/ Profile[code[s].op].state => code[s].for = s
                      /\ claims[s].exp - Ttl <= code[s].auth_time + MaxAge
                      /\ \A r \in Session \ {s} : rp[r] = "done" => code[r] # code[s]
    BY DEF LoginBelongsToSession
  <2>1. code[s] \in spent /\ code[s].op = Home[s] /\ (Profile[Home[s]].pkce => code[s].for = s)
    BY DEF LoginInv, TokenInv, Exchanged
  <2>2. code[s] # NotACode
    BY <2>1, CodeFacts DEF LoginInv, LoginTypeOK
  <2>3. Profile[Home[s]].state => code[s].for = s
    BY <2>2 DEF LoginInv, HoldInv, Taken, Holding
  <2>4. /\ Profile[Home[s]].nonce => code[s].for = s
        /\ claims[s].exp - Ttl <= code[s].auth_time + MaxAge
    BY DEF LoginInv, DoneInv
  <2>5. \A r \in Session \ {s} : rp[r] = "done" => code[r] # code[s]
    BY DEF LoginInv, OnceInv, Exchanged
  <2> QED
    BY <2>1, <2>3, <2>4, <2>5
<1> QED
  BY <1>1, LoginInvariance, PTL
=============================================================================
