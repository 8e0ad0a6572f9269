------------------------ MODULE TokenEndpointProofs --------------------------
(***************************************************************************)
(* What the token endpoint guarantees for any clients, registrations,      *)
(* requests and lifetimes, however requests, the clock, failures of the    *)
(* store and changes of registrations interleave.                          *)
(***************************************************************************)
EXTENDS TokenEndpoint, SequenceTheorems, TLAPS

-----------------------------------------------------------------------------
(* The inductive invariant.                                                *)

\* A token t redeemed for p carries no more than p did.
Narrows(t, p) ==
    /\ p.kind \in {"code", "refresh"}
    /\ t.scope \subseteq p.scope
    /\ t.claims \subseteq p.claims
    /\ t.client = p.client
    /\ t.login = p.login
    /\ p.jkt # {} /\ t.kind # "id" => t.jkt = p.jkt
    /\ p.kind = "code" /\ t.auth = "none" => p.challenge # {}

\* The login behind t was asked for openid and for the claims of t.
FromLogin(t) ==
    \E q \in AuthRequest :
        /\ q.login = t.login
        /\ q.client = t.client
        /\ "openid" \in q.scope
        /\ t.claims \subseteq FilterClaims(q.scope, q.claims)

\* A token that may stand after the tokens of ts.
Sound(t, ts) ==
    /\ t.claims = FilterClaims(t.scope, t.claims)
    /\ "openid" \in t.scope => FromLogin(t)
    /\ t.kind = "code" => t.jkt = {}
    /\ t.parent # 0 => t.parent \in DOMAIN ts /\ Narrows(t, ts[t.parent])

\* The token that a request q waits to consume is still the one it checked:
\* of its client, with PKCE for a public one, its key and its scope.
Ready(q, ts) ==
    LET f == q.form
        p == ts[f.token]
    IN  /\ f.token \in DOMAIN ts
        /\ p.client = f.client
        /\ \/ /\ f.grant_type = "authorization_code"
              /\ p.kind = "code"
              /\ q.client.auth = "none" => p.challenge # {}
           \/ /\ f.grant_type = "refresh_token"
              /\ p.kind = "refresh"
              /\ p.jkt # {} => f.jkt = p.jkt
              /\ OrElse(f.scope, p.scope) \subseteq p.scope

\* What a request that waits for the store relies on.
RequestOk(q, ts) ==
    /\ q.pc = "assertion" => q.form.assertion # {}
    /\ q.pc = "consume" => Ready(q, ts)

RequestInv == \A r \in Request : RequestOk(req[r], tokens)

SoundInv == \A i \in Index : Sound(tokens[i], tokens)

\* The marker of a redeemed token reaches to the end of its life.
MarkerInv == \A i \in Index : Redeemed(i) => entries[KeyOf(tokens[i].parent)] >= Parent(i).exp

\* No marker waits for a token that is still to be sealed.
FreshInv == \A key \in TokenKey : key[2] > Len(tokens) => entries[key] = 0

IInv ==
    /\ TypeOK
    /\ RequestInv
    /\ SoundInv
    /\ MarkerInv
    /\ FreshInv
    /\ NoFork
    /\ UsedUpOnlyByRedemption
-----------------------------------------------------------------------------
(* Operators on tokens, claims and the store.                              *)

\* filter_claims keeps what it kept before, and keeps no more from less.
LEMMA FilterFacts ==
    ASSUME NEW scope, NEW claims
    PROVE  /\ FilterClaims(scope, claims) \subseteq claims
           /\ FilterClaims(scope, FilterClaims(scope, claims)) = FilterClaims(scope, claims)
  BY DEF FilterClaims

\* The ttl of consume_token_once reaches to the expiry it was computed for.
LEMMA TtlCoversLife ==
    ASSUME NEW e \in Nat, NEW n \in Nat
    PROVE  /\ TokenTtl(e, n) \in Nat
           /\ SaturatingSub(e, n) \in Nat
           /\ n + TokenTtl(e, n) >= e
           /\ n + SaturatingSub(e, n) >= e
  BY DEF TokenTtl, AtLeastOne, SaturatingSub

\* x holds c and nothing else; x holds c or nothing; w is u followed by v.
Only(x, c) == Len(x) = 1 /\ x[1] = c
Maybe(x, c) == x = <<>> \/ x = <<c>>
Joined(w, u, v) == w = u \o v
Joined3(w, c, x, y) == w = <<c>> \o x \o y

\* Sealing more tokens leaves the earlier ones in place.
LEMMA ExtendFacts ==
    ASSUME NEW S, NEW ts \in Seq(S), NEW s \in Seq(S), NEW w, Joined(w, ts, s)
    PROVE  /\ w \in Seq(S)
           /\ Len(w) = Len(ts) + Len(s)
           /\ DOMAIN ts \subseteq DOMAIN w
           /\ \A i \in DOMAIN ts : w[i] = ts[i]
           /\ \A i \in DOMAIN w \ DOMAIN ts :
                  \E k \in 1..Len(s) : i = Len(ts) + k /\ w[i] = s[k]
           /\ \A k \in 1..Len(s) : /\ Len(ts) + k \in DOMAIN w \ DOMAIN ts
                                   /\ w[Len(ts) + k] = s[k]
  <1>1. /\ w \in Seq(S)
        /\ Len(w) = Len(ts) + Len(s)
        /\ \A i \in 1 .. Len(ts) + Len(s) :
               w[i] = IF i <= Len(ts) THEN ts[i] ELSE s[i - Len(ts)]
    BY ConcatProperties DEF Joined
  <1>2. /\ DOMAIN ts = 1..Len(ts) /\ DOMAIN w = 1..(Len(ts) + Len(s))
        /\ Len(ts) \in Nat /\ Len(s) \in Nat
    BY <1>1
  <1>3. DOMAIN ts \subseteq DOMAIN w /\ \A i \in DOMAIN ts : w[i] = ts[i]
    BY <1>1, <1>2
  <1>4. ASSUME NEW i \in DOMAIN w \ DOMAIN ts
        PROVE  \E k \in 1..Len(s) : i = Len(ts) + k /\ w[i] = s[k]
    <2>1. i - Len(ts) \in 1..Len(s) /\ i = Len(ts) + (i - Len(ts)) /\ w[i] = s[i - Len(ts)]
      BY <1>1, <1>2, <1>4
    <2>2. QED
      BY <2>1
  <1>5. ASSUME NEW k \in 1..Len(s)
        PROVE  Len(ts) + k \in DOMAIN w \ DOMAIN ts /\ w[Len(ts) + k] = s[k]
    <2>1. Len(ts) + k \in 1..(Len(ts) + Len(s)) /\ ~(Len(ts) + k <= Len(ts))
          /\ (Len(ts) + k) - Len(ts) = k
      BY <1>2, <1>5
    <2>2. QED
      BY <1>1, <1>2, <2>1
  <1>6. QED
    BY <1>1, <1>3, <1>4, <1>5

\* What is sound, and what is ready, stays so when more tokens are sealed.
LEMMA SoundKept ==
    ASSUME NEW ts \in Seq(SealedToken), NEW s \in Seq(SealedToken), NEW t, Sound(t, ts)
    PROVE  Sound(t, ts \o s)
  BY ExtendFacts DEF Sound, Joined

\* A request that passed its checks still does.
LEMMA ReadyKept ==
    ASSUME NEW ts \in Seq(SealedToken), NEW s \in Seq(SealedToken), NEW q, Ready(q, ts)
    PROVE  Ready(q, ts \o s)
  BY ExtendFacts DEF Ready, Joined

\* A part that a response may have or not.
LEMMA OptionalPart ==
    ASSUME NEW S, NEW u \in Seq(S), NEW c \in S, NEW v, Maybe(v, c),
           NEW w, Joined(w, u, v)
    PROVE  /\ w \in Seq(S)
           /\ Len(w) \in {Len(u), Len(u) + 1}
           /\ \A k \in 1..Len(u) : w[k] = u[k]
           /\ Len(w) = Len(u) + 1 => w[Len(w)] = c
  <1>1. CASE v = <<c>>
    <2>1. w = Append(u, c)
      BY <1>1, AppendIsConcat DEF Joined
    <2>2. QED
      BY <1>1, <2>1, AppendProperties
  <1>2. CASE v = <<>>
    <2>1. w = u
      BY <1>2, ConcatEmptySeq DEF Joined
    <2>2. QED
      BY <1>2, <2>1
  <1>3. QED
    BY <1>1, <1>2 DEF Maybe

\* The positions of a sequence with one part and two optional ones.
LEMMA PartsOf ==
    ASSUME NEW S, NEW a \in S, NEW b \in S, NEW c \in S,
           NEW x, Maybe(x, b), NEW y, Maybe(y, c),
           NEW v \in Seq(S), Only(v, a), NEW u, Joined(u, v, x), NEW s, Joined(s, u, y)
    PROVE  /\ s \in Seq(S)
           /\ Len(s) >= 1
           /\ s[1] = a
           /\ \A k \in 1..Len(s) : \/ s[k] = a /\ k = 1
                                   \/ s[k] = b /\ k = 2
                                   \/ s[k] = c /\ k = Len(s) /\ k # 1
  <1>1. /\ u \in Seq(S)
        /\ Len(u) \in {1, 2}
        /\ u[1] = a
        /\ Len(u) = 2 => u[2] = b
    <2>1. /\ u \in Seq(S)
          /\ Len(u) \in {Len(v), Len(v) + 1}
          /\ \A k \in 1..Len(v) : u[k] = v[k]
          /\ Len(u) = Len(v) + 1 => u[Len(u)] = b
      BY OptionalPart
    <2>2. QED
      BY <2>1 DEF Only
  <1>2. /\ s \in Seq(S)
        /\ Len(s) \in {Len(u), Len(u) + 1}
        /\ \A k \in 1..Len(u) : s[k] = u[k]
        /\ Len(s) = Len(u) + 1 => s[Len(s)] = c
    BY <1>1, OptionalPart
  <1>3. Len(s) >= 1 /\ s[1] = a
    BY <1>1, <1>2
  <1>4. ASSUME NEW k \in 1..Len(s)
        PROVE  \/ s[k] = a /\ k = 1
               \/ s[k] = b /\ k = 2
               \/ s[k] = c /\ k = Len(s) /\ k # 1
    <2>1. CASE k <= Len(u)
      <3>1. k \in 1..Len(u)
        BY <1>1, <1>2, <2>1
      <3>2. s[k] = u[k]
        BY <1>2, <3>1
      <3>3. k = 1 \/ (k = 2 /\ Len(u) = 2)
        <4>1. Len(u) = 1 \/ Len(u) = 2
          BY <1>1
        <4>2. CASE Len(u) = 1
          <5>1. k \in 1..1
            BY <3>1, <4>2, Zenon
          <5>2. QED
            BY <5>1
        <4>3. CASE Len(u) = 2
          <5>1. k \in 1..2
            BY <3>1, <4>3, Zenon
          <5>2. QED
            BY <4>3, <5>1
        <4>4. QED
          BY <4>1, <4>2, <4>3
      <3>4. CASE k = 1
        BY <1>1, <3>2, <3>4, Zenon
      <3>5. CASE k = 2 /\ Len(u) = 2
        BY <1>1, <3>2, <3>5, Zenon
      <3>6. QED
        BY <3>3, <3>4, <3>5
    <2>2. CASE ~(k <= Len(u))
      BY <1>1, <1>2, <2>2
    <2>3. QED
      BY <2>1, <2>2
  <1>5. QED
    BY <1>2, <1>3, <1>4

\* A response is its access token, perhaps an ID token, perhaps a refresh token.
LEMMA ThreeParts ==
    ASSUME NEW S, NEW a \in S, NEW b \in S, NEW c \in S,
           NEW x, Maybe(x, b), NEW y, Maybe(y, c),
           NEW s, Joined3(s, a, x, y)
    PROVE  /\ s \in Seq(S)
           /\ Len(s) >= 1
           /\ s[1] = a
           /\ \A k \in 1..Len(s) : \/ s[k] = a /\ k = 1
                                   \/ s[k] = b /\ k = 2
                                   \/ s[k] = c /\ k = Len(s) /\ k # 1
  <1>1. PICK u, v : v \in Seq(S) /\ Only(v, a) /\ Joined(u, v, x) /\ Joined(s, u, y)
    <2>1. <<a>> \in Seq(S) /\ Only(<<a>>, a)
      BY DEF Only
    <2>2. Joined(<<a>> \o x, <<a>>, x) /\ Joined(s, <<a>> \o x, y)
      BY Zenon DEF Joined, Joined3
    <2>3. QED
      BY <2>1, <2>2, Zenon
  <1>2. QED
    BY <1>1, PartsOf
-----------------------------------------------------------------------------
(* What the handlers mint.                                                 *)

\* A minted token has the fields of a sealed token, and so has its ID token.
LEMMA TokenTyped ==
    ASSUME clock \in Nat, NEW kind \in {"code", "access", "id", "refresh"}, NEW c \in Client,
           NEW login \in STRING \cup Client, NEW scope \in SUBSET STRING,
           NEW claims \in SUBSET ClaimName, NEW exp \in Nat, NEW jkt \in SUBSET STRING,
           NEW parent \in Nat, NEW auth \in AuthMethod \cup {"none"}
    PROVE  /\ Token(kind, c, login, scope, claims, exp, jkt, parent, auth) \in SealedToken
           /\ IdToken(Token(kind, c, login, scope, claims, exp, jkt, parent, auth)) \in SealedToken
  <1> DEFINE t == Token(kind, c, login, scope, claims, exp, jkt, parent, auth)
  <1>1. t \in SealedToken
    <2> DEFINE Challenges == SUBSET ({"S256"} \X STRING)
               Uris == STRING \cup {""}
               Logins == STRING \cup Client
               Auths == AuthMethod \cup {"none"}
               Kinds == {"code", "access", "id", "refresh"}
    <2>1. /\ {} \in Challenges
          /\ "" \in Uris
          /\ login \in Logins
          /\ auth \in Auths
          /\ kind \in Kinds
      OBVIOUS
    <2> HIDE DEF Challenges, Uris, Logins, Auths, Kinds
    <2>2. t \in [kind : Kinds, client : Client, login : Logins, scope : SUBSET STRING,
                 claims : SUBSET ClaimName, exp : Nat, jkt : SUBSET STRING,
                 challenge : Challenges, redirect : Uris, parent : Nat, born : Nat, auth : Auths]
      BY <2>1 DEF Token
    <2>3. QED
      BY <2>2 DEF SealedToken, Challenges, Uris, Logins, Auths, Kinds
  <1> HIDE DEF t
  <1>2. clock + IdTtl \in Nat
    BY TtlAssumption
  <1>3. IdToken(t) \in SealedToken
    BY <1>1, <1>2 DEF IdToken, SealedToken
  <1>4. QED
    BY <1>1, <1>3 DEF t

\* What is minted for a sound token, for its scope or less of it, is sound.
LEMMA HeirSound ==
    ASSUME NEW ts, NEW i, i \in DOMAIN ts, NEW t, Sound(ts[i], ts), t.parent = i,
           t.kind # "code", ts[i].kind \in {"code", "refresh"},
           t.scope \subseteq ts[i].scope, t.claims = FilterClaims(t.scope, ts[i].claims),
           t.client = ts[i].client, t.login = ts[i].login,
           ts[i].jkt # {} /\ t.kind # "id" => t.jkt = ts[i].jkt,
           ts[i].kind = "code" /\ t.auth = "none" => ts[i].challenge # {}
    PROVE  Sound(t, ts)
  <1>1. t.claims = FilterClaims(t.scope, t.claims) /\ t.claims \subseteq ts[i].claims
    BY FilterFacts
  <1>2. "openid" \in t.scope => FromLogin(t)
    BY <1>1 DEF Sound, FromLogin
  <1>3. QED
    BY <1>1, <1>2 DEF Sound, Narrows

\* Every token that was sealed has the fields of one.
LEMMA TokensTyped ==
    ASSUME TypeOK, NEW i \in DOMAIN tokens
    PROVE  tokens[i] \in SealedToken
  BY DEF TypeOK

\* The forms and registrations that a waiting request carries.
LEMMA WaitingTyped ==
    ASSUME TypeOK, NEW r \in Request, req[r].pc # "idle"
    PROVE  /\ req[r].form \in Form
           /\ req[r].client \in Registration
           /\ req[r].pc = "assertion" \/ (req[r].pc = "consume" /\ req[r].now \in Nat)
  BY DEF TypeOK, RequestState, Idle

\* The scope of a refresh is a set of words.
LEMMA RefreshScopeTyped ==
    ASSUME TypeOK, NEW f \in Form, f.token \in DOMAIN tokens
    PROVE  RefreshScope(f) \in SUBSET STRING
  <1>1. tokens[f.token].scope \in SUBSET STRING
    BY TokensTyped DEF SealedToken
  <1>2. f.scope \in SUBSET SUBSET STRING
    BY FormAssumption
  <1>3. CASE f.scope = {}
    BY <1>1, <1>3 DEF RefreshScope, OrElse
  <1>4. CASE f.scope # {}
    <2>1. (CHOOSE x \in f.scope : TRUE) \in f.scope
      BY <1>4, Zenon
    <2>2. QED
      BY <1>2, <1>4, <2>1 DEF RefreshScope, OrElse
  <1>5. QED
    BY <1>3, <1>4

\* A token minted now for the token i, and the tokens of a response to its
\* redemption, at most one of them a refresh token.
IsHeir(t, i) ==
    /\ t \in SealedToken
    /\ Sound(t, tokens)
    /\ t.parent = i
    /\ t.born = clock

Mints(s, i) ==
    /\ s \in Seq(SealedToken)
    /\ Len(s) >= 1
    /\ \A k \in 1..Len(s) : IsHeir(s[k], i) /\ (s[k].kind = "refresh" => k = Len(s))

\* The token i may be redeemed for scope, with the key jkt, by a client that
\* authenticates by auth; and what it is redeemed for.
Redeemable(i, scope, jkt, auth) ==
    /\ tokens[i].kind \in {"code", "refresh"}
    /\ scope \in SUBSET STRING
    /\ scope \subseteq tokens[i].scope
    /\ jkt \in SUBSET STRING
    /\ tokens[i].jkt # {} => jkt = tokens[i].jkt
    /\ auth \in AuthMethod \cup {"none"}
    /\ tokens[i].kind = "code" /\ auth = "none" => tokens[i].challenge # {}

Heir(kind, i, scope, exp, jkt, auth) ==
    Token(kind, tokens[i].client, tokens[i].login, scope,
          FilterClaims(scope, tokens[i].claims), exp, jkt, i, auth)

\* It is an heir of i, and so is the ID token made from it.
LEMMA HeirFacts ==
    ASSUME TypeOK, SoundInv, NEW i \in DOMAIN tokens, NEW scope, NEW jkt, NEW auth,
           Redeemable(i, scope, jkt, auth),
           NEW kind \in {"access", "refresh"}, NEW exp \in Nat,
           NEW t, t = Heir(kind, i, scope, exp, jkt, auth)
    PROVE  /\ IsHeir(t, i) /\ t.kind = kind
           /\ IsHeir(IdToken(t), i) /\ IdToken(t).kind = "id"
  <1> USE DEF Redeemable
  <1>1. /\ tokens[i] \in SealedToken
        /\ clock \in Nat
        /\ i \in Nat
    BY TokensTyped DEF TypeOK
  <1>2. /\ tokens[i].client \in Client
        /\ tokens[i].login \in STRING \cup Client
        /\ FilterClaims(scope, tokens[i].claims) \in SUBSET ClaimName
    BY <1>1 DEF SealedToken, FilterClaims
  <1>3. t \in SealedToken /\ IdToken(t) \in SealedToken
    BY <1>1, <1>2, TokenTyped DEF Heir
  <1>4. /\ t.parent = i /\ t.born = clock /\ t.kind = kind /\ t.scope = scope /\ t.jkt = jkt
        /\ t.client = tokens[i].client /\ t.login = tokens[i].login /\ t.auth = auth
        /\ t.claims = FilterClaims(scope, tokens[i].claims)
    BY DEF Heir, Token
  <1>5. /\ IdToken(t).parent = i /\ IdToken(t).born = clock /\ IdToken(t).kind = "id"
        /\ IdToken(t).scope = scope /\ IdToken(t).auth = auth
        /\ IdToken(t).client = tokens[i].client /\ IdToken(t).login = tokens[i].login
        /\ IdToken(t).claims = FilterClaims(scope, tokens[i].claims)
    BY DEF Heir, IdToken, Token
  <1>6. Sound(tokens[i], tokens)
    BY DEF SoundInv, Index
  <1>7. Sound(t, tokens)
    BY <1>4, <1>6, HeirSound
  <1>8. Sound(IdToken(t), tokens)
    BY <1>5, <1>6, HeirSound
  <1>9. QED
    BY <1>3, <1>4, <1>5, <1>7, <1>8 DEF IsHeir

\* An access token, an ID token and a refresh token for the token i make a
\* response to its redemption.
LEMMA PartsMint ==
    ASSUME NEW i, NEW a, NEW b, NEW c, IsHeir(a, i), IsHeir(b, i), IsHeir(c, i),
           a.kind = "access", b.kind = "id",
           NEW x, Maybe(x, b), NEW y, Maybe(y, c), NEW s, Joined3(s, a, x, y)
    PROVE  Mints(s, i)
  <1>1. /\ s \in Seq(SealedToken)
        /\ Len(s) >= 1
        /\ \A k \in 1..Len(s) : \/ s[k] = a /\ k = 1
                                \/ s[k] = b /\ k = 2
                                \/ s[k] = c /\ k = Len(s) /\ k # 1
    <2>1. a \in SealedToken /\ b \in SealedToken /\ c \in SealedToken
      BY DEF IsHeir
    <2>2. QED
      BY <2>1, ThreeParts
  <1>2. ASSUME NEW k \in 1..Len(s)
        PROVE  IsHeir(s[k], i) /\ (s[k].kind = "refresh" => k = Len(s))
    <2>1. CASE s[k] = a
      BY <2>1
    <2>2. CASE s[k] = b
      BY <2>2
    <2>3. CASE s[k] = c /\ k = Len(s)
      BY <2>3
    <2>4. QED
      BY <1>1, <2>1, <2>2, <2>3
  <1>3. QED
    BY <1>1, <1>2 DEF Mints

\* The response to a redemption, with or without an ID and a refresh token.
LEMMA HeirsMint ==
    ASSUME TypeOK, SoundInv, NEW i \in DOMAIN tokens, NEW scope, NEW jkt, NEW auth,
           Redeemable(i, scope, jkt, auth), NEW e1 \in Nat, NEW e2 \in Nat, NEW e3 \in Nat,
           NEW a, a = Heir("access", i, scope, e1, jkt, auth),
           NEW u, u = Heir("access", i, scope, e2, jkt, auth),
           NEW c, c = Heir("refresh", i, scope, e3, jkt, auth),
           NEW x, Maybe(x, IdToken(u)), NEW y, Maybe(y, c), NEW s, Joined3(s, a, x, y)
    PROVE  Mints(s, i)
  <1>1. IsHeir(a, i) /\ a.kind = "access"
    BY HeirFacts
  <1>2. IsHeir(IdToken(u), i) /\ IdToken(u).kind = "id"
    BY HeirFacts
  <1>3. IsHeir(c, i)
    BY HeirFacts
  <1>4. QED
    BY <1>1, <1>2, <1>3, PartsMint

\* A code is redeemed for tokens of its own scope and claims.
LEMMA CodeMints ==
    ASSUME TypeOK, SoundInv, NEW f \in Form, NEW client \in Registration,
           f.token \in DOMAIN tokens, tokens[f.token].client = f.client,
           tokens[f.token].kind = "code", client.auth = "none" => tokens[f.token].challenge # {}
    PROVE  Mints(CodeResponse(f, client), f.token)
  <1> DEFINE i == f.token
             scope == tokens[i].scope
             T(kind, exp) == Heir(kind, i, scope, exp, f.jkt, client.auth)
             a == T("access", clock + AccessTtl)
             u == T("access", clock)
             c == T("refresh", clock + RefreshTtl)
             x == IfThen("openid" \in scope, <<IdToken(u)>>)
             y == IfThen(ClientAllowsRefresh(client), <<c>>)
  <1>1. /\ f.jkt \in SUBSET STRING
        /\ client.auth \in AuthMethod \cup {"none"}
        /\ clock \in Nat /\ clock + AccessTtl \in Nat /\ clock + RefreshTtl \in Nat
    BY FormAssumption, RegistrationAssumption, TtlAssumption DEF TypeOK
  <1>2. /\ tokens[i].jkt = {}
        /\ scope \in SUBSET STRING
        /\ tokens[i].claims = FilterClaims(scope, tokens[i].claims)
    BY TokensTyped DEF SoundInv, Index, Sound, SealedToken
  <1>3. Redeemable(i, scope, f.jkt, client.auth)
    BY <1>1, <1>2 DEF Redeemable
  <1>4. CodeResponse(f, client) = <<a>> \o x \o y
    BY <1>2, Zenon DEF CodeResponse, Heir
  <1>5. Maybe(x, IdToken(u)) /\ Maybe(y, c)
    BY Zenon DEF Maybe, IfThen
  <1>6. Joined3(CodeResponse(f, client), a, x, y)
    BY <1>4, Zenon DEF Joined3
  <1> HIDE DEF x, y
  <1>7. QED
    BY <1>1, <1>3, <1>5, <1>6, HeirsMint

\* A refresh token is redeemed for tokens of the scope asked for, part of its own.
LEMMA RefreshMints ==
    ASSUME TypeOK, SoundInv, NEW f \in Form, NEW client \in Registration, NEW now \in Nat,
           f.token \in DOMAIN tokens, tokens[f.token].client = f.client,
           tokens[f.token].kind = "refresh",
           tokens[f.token].jkt # {} => f.jkt = tokens[f.token].jkt,
           NEW scope \in SUBSET STRING, scope \subseteq tokens[f.token].scope
    PROVE  Mints(RefreshResponse(f, client, scope, now), f.token)
  <1> DEFINE i == f.token
             T(kind, exp) == Heir(kind, i, scope, exp, f.jkt, client.auth)
             a == T("access", now + AccessTtl)
             u == T("access", clock)
             c == T("refresh", now + RefreshTtl)
             x == IfThen("openid" \in scope, <<IdToken(u)>>)
             y == <<c>>
  <1>1. /\ f.jkt \in SUBSET STRING
        /\ client.auth \in AuthMethod \cup {"none"}
        /\ clock \in Nat /\ now + AccessTtl \in Nat /\ now + RefreshTtl \in Nat
    BY FormAssumption, RegistrationAssumption, TtlAssumption DEF TypeOK
  <1>2. Redeemable(i, scope, f.jkt, client.auth)
    BY <1>1 DEF Redeemable
  <1>3. RefreshResponse(f, client, scope, now) = <<a>> \o x \o y
    BY Zenon DEF RefreshResponse, Heir
  <1>4. Maybe(x, IdToken(u)) /\ Maybe(y, c)
    BY Zenon DEF Maybe, IfThen
  <1>5. Joined3(RefreshResponse(f, client, scope, now), a, x, y)
    BY <1>3, Zenon DEF Joined3
  <1> HIDE DEF x, y
  <1>6. QED
    BY <1>1, <1>2, <1>4, <1>5, HeirsMint
-----------------------------------------------------------------------------
(* What a step does to the tokens and to the store.                        *)

\* The step seals the tokens of s.  A token redeemed for them was free to be
\* taken, and is marked until the end of its life.
Seals(s) ==
    /\ s \in Seq(SealedToken)
    /\ tokens' = tokens \o s
    /\ Len(tokens) + Len(s) <= MaxTokens
    /\ \A k \in 1..Len(s) :
          /\ Sound(s[k], tokens)
          /\ s[k].born = clock
          /\ s[k].kind = "refresh" => k = Len(s)
          /\ s[k].parent # 0 =>
                /\ entries[KeyOf(s[k].parent)] <= clock
                /\ entries'[KeyOf(s[k].parent)] >= tokens[s[k].parent].exp

\* Markers only move ahead, and a token is marked only if s was minted for it or
\* the request ended in server_error.
Marks(s) ==
    /\ entries' \in [StoreKey -> Nat]
    /\ unsure \subseteq unsure' /\ unsure' \subseteq StoreKey
    /\ \A key \in StoreKey : entries'[key] >= entries[key]
    /\ \A key \in TokenKey : entries'[key] # entries[key] =>
          /\ key[2] \in DOMAIN tokens
          /\ key \in unsure' \/ \E k \in 1..Len(s) : s[k].parent = key[2]

\* Where the tokens and the markers are after such a step.
LEMMA SealFacts ==
    ASSUME TypeOK, NEW s, Seals(s)
    PROVE  /\ tokens' \in Seq(SealedToken)
           /\ Len(tokens') = Len(tokens) + Len(s)
           /\ DOMAIN tokens \subseteq DOMAIN tokens'
           /\ \A i \in DOMAIN tokens : tokens'[i] = tokens[i]
           /\ \A i \in DOMAIN tokens' \ DOMAIN tokens :
                  \E k \in 1..Len(s) : i = Len(tokens) + k /\ tokens'[i] = s[k]
           /\ \A k \in 1..Len(s) : /\ Len(tokens) + k \in DOMAIN tokens' \ DOMAIN tokens
                                   /\ tokens'[Len(tokens) + k] = s[k]
  <1>1. tokens \in Seq(SealedToken) /\ s \in Seq(SealedToken) /\ Joined(tokens', tokens, s)
    BY DEF TypeOK, Seals, Joined
  <1>2. QED
    BY <1>1, ExtendFacts

\* The key of a code or a refresh token is a key of the store.
LEMMA KeyFacts ==
    ASSUME TypeOK, NEW i \in DOMAIN tokens, tokens[i].kind \in {"code", "refresh"}
    PROVE  KeyOf(i) \in TokenKey /\ KeyOf(i) \in StoreKey /\ KeyOf(i)[2] = i
  <1>1. i \in 1..MaxTokens
    BY BoundAssumption DEF TypeOK
  <1>2. QED
    BY <1>1 DEF KeyOf, TokenKey, StoreKey

\* The parent of a token that was redeemed for another is a code or a refresh
\* token sealed earlier.
LEMMA ParentFacts ==
    ASSUME TypeOK, NEW t, Sound(t, tokens), t.parent # 0
    PROVE  /\ t.parent \in DOMAIN tokens
           /\ tokens[t.parent].kind \in {"code", "refresh"}
           /\ KeyOf(t.parent) \in StoreKey
           /\ tokens[t.parent].exp \in Nat
  <1>1. t.parent \in DOMAIN tokens /\ tokens[t.parent].kind \in {"code", "refresh"}
    BY DEF Sound, Narrows
  <1>2. QED
    BY <1>1, KeyFacts, TokensTyped DEF SealedToken

\* Sealing sound tokens keeps every token sound.
LEMMA SealSound ==
    ASSUME TypeOK, SoundInv, NEW s, Seals(s)
    PROVE  SoundInv'
  <1>1. tokens \in Seq(SealedToken) /\ s \in Seq(SealedToken) /\ tokens' = tokens \o s
    BY DEF TypeOK, Seals
  <1>2. \A t : Sound(t, tokens) => Sound(t, tokens')
    BY <1>1, SoundKept
  <1>3. ASSUME NEW i \in DOMAIN tokens'
        PROVE  Sound(tokens'[i], tokens')
    <2>1. CASE i \in DOMAIN tokens
      BY <1>2, <2>1, SealFacts DEF SoundInv, Index
    <2>2. CASE i \notin DOMAIN tokens
      <3>1. PICK k \in 1..Len(s) : tokens'[i] = s[k]
        BY <2>2, SealFacts
      <3>2. QED
        BY <1>2, <3>1 DEF Seals
    <2>3. QED
      BY <2>1, <2>2
  <1>4. QED
    BY <1>3 DEF SoundInv, Index

\* Sealed tokens are typed and come after the token redeemed for them.
LEMMA SealTyped ==
    ASSUME TypeOK, SoundInv, NEW s, Seals(s)
    PROVE  /\ tokens' \in Seq(SealedToken)
           /\ Len(tokens') <= MaxTokens
           /\ \A i \in DOMAIN tokens' : tokens'[i].parent < i
  <1>1. tokens' \in Seq(SealedToken) /\ Len(tokens') <= MaxTokens
    BY SealFacts DEF Seals
  <1>2. ASSUME NEW i \in DOMAIN tokens'
        PROVE  tokens'[i].parent < i
    <2>1. CASE i \in DOMAIN tokens
      BY <2>1, SealFacts DEF TypeOK, Index
    <2>2. CASE i \notin DOMAIN tokens
      <3>1. PICK k \in 1..Len(s) : i = Len(tokens) + k /\ tokens'[i] = s[k]
        BY <2>2, SealFacts
      <3>2. s[k].parent # 0 => s[k].parent \in DOMAIN tokens
        BY DEF Seals, Sound
      <3>3. DOMAIN tokens = 1..Len(tokens) /\ Len(tokens) \in Nat
        BY DEF TypeOK
      <3>4. QED
        BY <3>1, <3>2, <3>3
    <2>3. QED
      BY <2>1, <2>2
  <1>3. QED
    BY <1>1, <1>2

\* Every redeemed token stays marked until the end of its life.
LEMMA SealMarker ==
    ASSUME TypeOK, SoundInv, MarkerInv, NEW s, Seals(s), Marks(s)
    PROVE  MarkerInv'
  <1> SUFFICES ASSUME NEW i \in DOMAIN tokens', tokens'[i].parent # 0
               PROVE  entries'[<<tokens'[tokens'[i].parent].kind, tokens'[i].parent>>]
                          >= tokens'[tokens'[i].parent].exp
    BY DEF MarkerInv, Index, Redeemed, Parent, KeyOf
  <1>1. CASE i \in DOMAIN tokens
    <2> DEFINE p == tokens[i].parent
    <2>1. tokens'[i] = tokens[i] /\ Sound(tokens[i], tokens)
      BY <1>1, SealFacts DEF SoundInv, Index
    <2>2. p \in DOMAIN tokens /\ KeyOf(p) \in StoreKey /\ tokens[p].exp \in Nat
      BY <2>1, ParentFacts
    <2>3. entries[KeyOf(p)] >= tokens[p].exp
      BY <1>1, <2>1 DEF MarkerInv, Index, Redeemed, Parent
    <2>4. /\ entries'[KeyOf(p)] >= entries[KeyOf(p)]
          /\ entries'[KeyOf(p)] \in Nat /\ entries[KeyOf(p)] \in Nat
      BY <2>2 DEF Marks, TypeOK
    <2>5. entries'[KeyOf(p)] >= tokens[p].exp
      BY <2>2, <2>3, <2>4
    <2>6. tokens'[p] = tokens[p]
      BY <2>2, SealFacts
    <2>7. QED
      BY <2>1, <2>5, <2>6 DEF KeyOf
  <1>2. CASE i \notin DOMAIN tokens
    <2>1. PICK k \in 1..Len(s) : tokens'[i] = s[k]
      BY <1>2, SealFacts
    <2>2. /\ Sound(s[k], tokens)
          /\ entries'[KeyOf(s[k].parent)] >= tokens[s[k].parent].exp
      BY <2>1 DEF Seals
    <2>3. s[k].parent \in DOMAIN tokens
      BY <2>1, <2>2, ParentFacts
    <2>4. tokens'[s[k].parent] = tokens[s[k].parent]
      BY <2>3, SealFacts
    <2>5. QED
      BY <2>1, <2>2, <2>4 DEF KeyOf
  <1>3. QED
    BY <1>1, <1>2

\* No marker runs ahead of the tokens.
LEMMA SealFresh ==
    ASSUME TypeOK, FreshInv, NEW s, Seals(s), Marks(s)
    PROVE  FreshInv'
  <1>1. Len(tokens) \in Nat /\ Len(s) \in Nat /\ Len(tokens') = Len(tokens) + Len(s)
        /\ DOMAIN tokens = 1..Len(tokens)
    BY SealFacts DEF TypeOK, Seals
  <1>2. ASSUME NEW key \in TokenKey, key[2] > Len(tokens')
        PROVE  entries'[key] = 0
    <2>1. key[2] \in Nat
      BY DEF TokenKey
    <2>2. key[2] > Len(tokens) /\ key[2] \notin DOMAIN tokens
      BY <1>1, <1>2, <2>1
    <2>3. QED
      BY <2>2 DEF FreshInv, Marks
  <1>3. QED
    BY <1>2 DEF FreshInv, TokenKey

\* A second refresh token for a token is minted only once that token has expired.
LEMMA LateHeir ==
    ASSUME TypeOK, SoundInv, MarkerInv, NEW s, Seals(s),
           NEW i \in DOMAIN tokens, NEW k \in 1..Len(s),
           tokens[i].parent # 0, s[k].parent = tokens[i].parent
    PROVE  s[k].born >= tokens[s[k].parent].exp
  <1> DEFINE p == s[k].parent
  <1>1. Sound(s[k], tokens) /\ s[k].born = clock /\ entries[KeyOf(p)] <= clock
    BY DEF Seals
  <1>2. KeyOf(p) \in StoreKey /\ tokens[p].exp \in Nat
    BY <1>1, ParentFacts
  <1>3. entries[KeyOf(p)] >= tokens[p].exp
    BY DEF MarkerInv, Index, Redeemed, Parent
  <1>4. entries[KeyOf(p)] \in Nat /\ clock \in Nat
    BY <1>2 DEF TypeOK
  <1> HIDE DEF p
  <1>5. clock >= tokens[p].exp
    BY <1>1, <1>2, <1>3, <1>4
  <1>6. QED
    BY <1>1, <1>5 DEF p

\* Rotation does not fork.
LEMMA SealNoFork ==
    ASSUME TypeOK, SoundInv, MarkerInv, NoFork, NEW s, Seals(s)
    PROVE  NoFork'
  <1> SUFFICES ASSUME NEW i \in DOMAIN tokens', NEW j \in DOMAIN tokens', i # j,
                      tokens'[i].parent # 0, tokens'[i].parent = tokens'[j].parent,
                      tokens'[i].kind = "refresh", tokens'[j].kind = "refresh"
               PROVE  \/ tokens'[i].born >= tokens'[tokens'[i].parent].exp
                      \/ tokens'[j].born >= tokens'[tokens'[i].parent].exp
    BY DEF NoFork, Index, Redeemed, Parent
  <1>1. ASSUME NEW m \in DOMAIN tokens', m \notin DOMAIN tokens
        PROVE  \E k \in 1..Len(s) : m = Len(tokens) + k /\ tokens'[m] = s[k]
    BY <1>1, SealFacts
  <1>2. ASSUME NEW m \in DOMAIN tokens, tokens[m].parent # 0
        PROVE  /\ tokens'[m] = tokens[m]
               /\ tokens'[tokens[m].parent] = tokens[tokens[m].parent]
    <2>1. Sound(tokens[m], tokens)
      BY DEF SoundInv, Index
    <2>2. QED
      BY <1>2, <2>1, ParentFacts, SealFacts
  <1>3. CASE i \in DOMAIN tokens /\ j \in DOMAIN tokens
    <2>1. tokens'[i] = tokens[i] /\ tokens'[j] = tokens[j]
      BY <1>3, SealFacts
    <2>2. tokens'[tokens[i].parent] = tokens[tokens[i].parent]
      BY <1>2, <1>3, <2>1
    <2>3. QED
      BY <1>3, <2>1, <2>2 DEF NoFork, Index, Redeemed, Parent
  <1>4. CASE i \in DOMAIN tokens /\ j \notin DOMAIN tokens
    <2>1. PICK k \in 1..Len(s) : tokens'[j] = s[k]
      BY <1>1, <1>4
    <2>2. tokens'[i] = tokens[i]
      BY <1>4, SealFacts
    <2>3. tokens'[tokens[i].parent] = tokens[tokens[i].parent]
      BY <1>2, <1>4, <2>2
    <2>4. QED
      BY <1>4, <2>1, <2>2, <2>3, LateHeir
  <1>5. CASE i \notin DOMAIN tokens /\ j \in DOMAIN tokens
    <2>1. PICK k \in 1..Len(s) : tokens'[i] = s[k]
      BY <1>1, <1>5
    <2>2. tokens'[j] = tokens[j]
      BY <1>5, SealFacts
    <2>3. tokens'[tokens[j].parent] = tokens[tokens[j].parent]
      BY <1>2, <1>5, <2>2
    <2>4. QED
      BY <1>5, <2>1, <2>2, <2>3, LateHeir
  <1>6. CASE i \notin DOMAIN tokens /\ j \notin DOMAIN tokens
    <2>1. PICK k \in 1..Len(s) : i = Len(tokens) + k /\ tokens'[i] = s[k]
      BY <1>1, <1>6
    <2>2. PICK l \in 1..Len(s) : j = Len(tokens) + l /\ tokens'[j] = s[l]
      BY <1>1, <1>6
    <2>3. k = Len(s) /\ l = Len(s)
      BY <2>1, <2>2 DEF Seals
    <2>4. QED
      BY <2>1, <2>2, <2>3
  <1>7. QED
    BY <1>3, <1>4, <1>5, <1>6

\* A token is used up by the redemption that minted tokens for it, or by one
\* that ended in server_error.
LEMMA SealUsed ==
    ASSUME TypeOK, FreshInv, UsedUpOnlyByRedemption, NEW s, Seals(s), Marks(s)
    PROVE  UsedUpOnlyByRedemption'
  <1> SUFFICES ASSUME NEW i \in DOMAIN tokens', tokens'[i].kind \in {"code", "refresh"},
                      entries'[<<tokens'[i].kind, i>>] # 0
               PROVE  \/ <<tokens'[i].kind, i>> \in unsure'
                      \/ \E j \in DOMAIN tokens' : tokens'[j].parent = i
    BY DEF UsedUpOnlyByRedemption, Index, KeyOf
  <1> DEFINE key == <<tokens'[i].kind, i>>
  <1>1. /\ Len(tokens') \in Nat /\ Len(tokens') <= MaxTokens
        /\ DOMAIN tokens' = 1..Len(tokens') /\ DOMAIN tokens = 1..Len(tokens)
        /\ Len(tokens) \in Nat
    BY SealFacts DEF Seals, TypeOK
  <1>2. key \in TokenKey /\ key[2] = i /\ i \in Nat
    <2>1. i \in 1..MaxTokens
      BY <1>1, BoundAssumption
    <2>2. QED
      BY <2>1 DEF TokenKey
  <1> HIDE DEF key
  <1>3. CASE entries'[key] # entries[key]
    <2>1. key \in unsure' \/ \E k \in 1..Len(s) : s[k].parent = i
      BY <1>2, <1>3 DEF Marks
    <2>2. ASSUME NEW k \in 1..Len(s), s[k].parent = i
          PROVE  \E j \in DOMAIN tokens' : tokens'[j].parent = i
      BY <2>2, SealFacts
    <2>3. QED
      BY <2>1, <2>2 DEF key
  <1>4. CASE entries'[key] = entries[key]
    <2>1. entries[key] # 0
      BY <1>4 DEF key
    <2>2. i \in DOMAIN tokens
      BY <1>1, <1>2, <2>1 DEF FreshInv
    <2>3. tokens'[i] = tokens[i] /\ key = KeyOf(i)
      BY <2>2, SealFacts DEF key, KeyOf
    <2>4. key \in unsure \/ \E j \in DOMAIN tokens : tokens[j].parent = i
      BY <2>1, <2>2, <2>3 DEF UsedUpOnlyByRedemption, Index
    <2>5. QED
      BY <2>4, SealFacts DEF Marks, key
  <1>5. QED
    BY <1>3, <1>4

\* What the waiting requests rely on outlives the step.
LEMMA SealRequests ==
    ASSUME TypeOK, RequestInv, NEW s, Seals(s), NEW r \in Request, req'[r] = req[r]
    PROVE  RequestOk(req'[r], tokens')
  <1>1. tokens \in Seq(SealedToken) /\ s \in Seq(SealedToken) /\ tokens' = tokens \o s
    BY DEF TypeOK, Seals
  <1>2. \A q : Ready(q, tokens) => Ready(q, tokens')
    BY <1>1, ReadyKept
  <1>3. QED
    BY <1>2 DEF RequestInv, RequestOk

\* A step that seals and marks so, and lets a request wait only for what it has
\* checked, preserves the invariant.
LEMMA StepKeeps ==
    ASSUME IInv, NEW s, Seals(s), Marks(s),
           clock' \in 0..Horizon,
           reg' \in [Client -> SUBSET Registration],
           \A c \in Client : reg'[c] \in RegistrationOf(c),
           req' \in [Request -> RequestState],
           \A r \in Request : req'[r] = req[r] \/ RequestOk(req'[r], tokens')
    PROVE  IInv'
  <1>1. TypeOK /\ RequestInv /\ SoundInv /\ MarkerInv /\ FreshInv /\ NoFork
        /\ UsedUpOnlyByRedemption
    BY DEF IInv
  <1>2. TypeOK'
    <2>1. entries' \in [StoreKey -> Nat] /\ unsure' \subseteq StoreKey
      BY DEF Marks
    <2>2. QED
      BY <1>1, <2>1, SealTyped DEF TypeOK, Index
  <1>3. RequestInv'
    BY <1>1, SealRequests DEF RequestInv
  <1>4. SoundInv' /\ MarkerInv' /\ FreshInv'
    BY <1>1, SealSound, SealMarker, SealFresh
  <1>5. NoFork' /\ UsedUpOnlyByRedemption'
    BY <1>1, SealNoFork, SealUsed
  <1>6. QED
    BY <1>2, <1>3, <1>4, <1>5 DEF IInv
-----------------------------------------------------------------------------
(* What each action seals and marks.                                       *)

\* No token is sealed.
LEMMA SealsNothing ==
    ASSUME TypeOK, UNCHANGED tokens
    PROVE  Seals(<<>>)
  BY EmptySeq, ConcatEmptySeq DEF TypeOK, Seals

\* No key is taken.
LEMMA MarksNothing ==
    ASSUME TypeOK, NEW s, UNCHANGED <<entries, unsure>>
    PROVE  Marks(s)
  <1>1. \A key \in StoreKey : entries[key] \in Nat
    BY DEF TypeOK
  <1>2. QED
    BY <1>1 DEF Marks, TypeOK

\* Taking a key that is not held moves its marker ahead, to the end of the life
\* it was taken for or later, and no other.
LEMMA Taken ==
    ASSUME TypeOK, NEW key \in StoreKey, ~Held(entries, key, clock),
           NEW exp \in Nat, NEW ttl \in Nat, clock + ttl >= exp,
           entries' = Mark(entries, key, clock, ttl)
    PROVE  /\ entries' \in [StoreKey -> Nat]
           /\ entries[key] <= clock
           /\ entries'[key] >= exp
           /\ \A k \in StoreKey : entries'[k] >= entries[k]
           /\ \A k \in StoreKey : k # key => entries'[k] = entries[k]
  <1>1. clock \in Nat /\ entries \in [StoreKey -> Nat]
    BY DEF TypeOK
  <1>2. /\ entries' \in [StoreKey -> Nat]
        /\ entries'[key] >= clock + ttl
        /\ entries'[key] > clock
        /\ \A u \in StoreKey : u # key => entries'[u] = entries[u]
    BY <1>1 DEF Mark, AtLeastOne
  <1>3. entries[key] <= clock /\ entries[key] \in Nat /\ entries'[key] \in Nat
    BY <1>1, <1>2 DEF Held
  <1>4. entries'[key] >= exp /\ entries'[key] >= entries[key]
    BY <1>1, <1>2, <1>3
  <1>5. \A k \in StoreKey : entries'[k] >= entries[k]
    BY <1>1, <1>2, <1>4
  <1>6. QED
    BY <1>2, <1>3, <1>4, <1>5

\* Tokens that were redeemed for nothing: sound ones may be sealed at any time.
LEMMA SealsFirst ==
    ASSUME TypeOK, NEW s \in Seq(SealedToken), tokens' = tokens \o s,
           Len(tokens) + Len(s) <= MaxTokens,
           \A k \in 1..Len(s) : /\ Sound(s[k], tokens)
                                /\ s[k].born = clock
                                /\ s[k].kind # "refresh"
                                /\ s[k].parent = 0
    PROVE  Seals(s)
  BY DEF Seals

\* A token for the user of an authorization request.
LEMMA LoginToken ==
    ASSUME TypeOK, NEW q \in AuthRequest, NEW kind \in {"code", "access"}, NEW exp \in Nat,
           NEW auth \in AuthMethod \cup {"none"},
           NEW t, t = Token(kind, q.client, q.login, q.scope, FilterClaims(q.scope, q.claims),
                            exp, {}, 0, auth)
    PROVE  /\ t \in SealedToken
           /\ Sound(t, tokens)
           /\ t.born = clock /\ t.parent = 0 /\ t.kind = kind
  <1>1. /\ q.client \in Client
        /\ q.login \in STRING \cup Client
        /\ q.scope \in SUBSET STRING
        /\ FilterClaims(q.scope, q.claims) \in SUBSET ClaimName
    BY AuthRequestAssumption DEF FilterClaims
  <1>2. clock \in Nat /\ {} \in SUBSET STRING /\ 0 \in Nat
        /\ kind \in {"code", "access", "id", "refresh"}
    BY DEF TypeOK
  <1>3. t \in SealedToken
    BY <1>1, <1>2, TokenTyped
  <1>4. /\ t.kind = kind /\ t.client = q.client /\ t.login = q.login /\ t.scope = q.scope
        /\ t.claims = FilterClaims(q.scope, q.claims) /\ t.jkt = {} /\ t.parent = 0
        /\ t.born = clock
    BY DEF Token
  <1>5. "openid" \in t.scope => FromLogin(t)
    BY <1>4 DEF FromLogin
  <1>6. Sound(t, tokens)
    BY <1>4, <1>5, FilterFacts DEF Sound
  <1>7. QED
    BY <1>3, <1>4, <1>6

\* authorize seals a code and perhaps an access token.
LEMMA AuthorizeSeals ==
    ASSUME TypeOK, NEW q \in AuthRequest, Authorize(q)
    PROVE  \E s : Seals(s)
  <1>1. PICK client \in reg[q.client] :
           LET T(kind, exp) == Token(kind, q.client, q.login, q.scope,
                                     FilterClaims(q.scope, q.claims), exp, {}, 0, client.auth)
               code == [T("code", clock + CodeTtl)
                        EXCEPT !.challenge = q.challenge, !.redirect = q.redirect]
           IN  tokens' = tokens \o <<code>>
                                \o IfThen(q.token, <<T("access", clock + AccessTtl)>>)
    BY DEF Authorize
  <1> DEFINE T(kind, exp) == Token(kind, q.client, q.login, q.scope,
                                   FilterClaims(q.scope, q.claims), exp, {}, 0, client.auth)
             t == T("code", clock + CodeTtl)
             code == [t EXCEPT !.challenge = q.challenge, !.redirect = q.redirect]
             a == T("access", clock + AccessTtl)
             x == IfThen(q.token, <<a>>)
             s == <<code>> \o x
  <1>2. tokens' = tokens \o <<code>> \o x
    BY <1>1
  <1>3. /\ clock \in Nat /\ clock + CodeTtl \in Nat /\ clock + AccessTtl \in Nat
        /\ client.auth \in AuthMethod \cup {"none"}
        /\ q.challenge \in SUBSET ({"S256"} \X STRING)
        /\ q.redirect \in STRING
    <2>1. q.client \in Client
      BY AuthRequestAssumption
    <2>2. client \in Registration
      BY <2>1 DEF TypeOK
    <2>3. QED
      BY <2>2, AuthRequestAssumption, RegistrationAssumption, TtlAssumption DEF TypeOK
  <1>4. /\ t \in SealedToken /\ Sound(t, tokens)
        /\ t.born = clock /\ t.parent = 0 /\ t.kind = "code"
    BY <1>3, LoginToken
  <1>5. /\ a \in SealedToken /\ Sound(a, tokens)
        /\ a.born = clock /\ a.parent = 0 /\ a.kind = "access"
    BY <1>3, LoginToken
  <1> HIDE DEF t, a
  <1>6. /\ code \in SealedToken
        /\ code.born = clock /\ code.parent = 0 /\ code.kind = "code"
        /\ code.claims = t.claims /\ code.scope = t.scope /\ code.login = t.login
        /\ code.client = t.client /\ code.jkt = t.jkt
    BY <1>3, <1>4 DEF SealedToken
  <1>7. Sound(code, tokens)
    BY <1>4, <1>6 DEF Sound, FromLogin
  <1>8. Maybe(x, a)
    BY Zenon DEF Maybe, IfThen
  <1> HIDE DEF code, x
  <1>9. /\ x \in Seq(SealedToken) /\ <<code>> \in Seq(SealedToken)
        /\ Only(<<code>>, code)
    <2>1. <<code>> \in Seq(SealedToken) /\ Only(<<code>>, code) /\ <<a>> \in Seq(SealedToken)
      BY <1>5, <1>6 DEF Only
    <2>2. QED
      BY <1>8, <2>1, EmptySeq, Zenon DEF Maybe
  <1>10. PICK v \in Seq(SealedToken) : v = <<code>> /\ Only(v, code)
    BY <1>9
  <1>11. Joined(s, v, x)
    BY <1>10 DEF Joined
  <1>12. tokens' = tokens \o s
    BY <1>2, <1>9, ConcatAssociative DEF TypeOK
  <1> HIDE DEF s
  <1>13. /\ s \in Seq(SealedToken)
         /\ Len(s) \in {1, 2}
         /\ s[1] = code
         /\ Len(s) = 2 => s[2] = a
    <2>1. /\ s \in Seq(SealedToken)
          /\ Len(s) \in {Len(v), Len(v) + 1}
          /\ \A k \in 1..Len(v) : s[k] = v[k]
          /\ Len(s) = Len(v) + 1 => s[Len(s)] = a
      BY <1>5, <1>8, <1>11, OptionalPart
    <2>2. Len(v) = 1 /\ v[1] = code
      BY <1>10 DEF Only
    <2>3. QED
      BY <2>1, <2>2
  <1>14. ASSUME NEW k \in 1..Len(s)
         PROVE  s[k] = code \/ s[k] = a
    <2>1. CASE Len(s) = 1
      BY <1>13, <2>1
    <2>2. CASE Len(s) = 2
      BY <1>13, <2>2
    <2>3. QED
      BY <1>13, <2>1, <2>2
  <1>15. Len(tokens) + Len(s) <= MaxTokens
    <2>1. Len(tokens) + 2 <= MaxTokens
      BY DEF Authorize
    <2>2. Len(tokens) \in Nat /\ MaxTokens \in Nat
      BY BoundAssumption DEF TypeOK
    <2>3. Len(s) = 1 \/ Len(s) = 2
      BY <1>13
    <2>4. \A n \in Nat, m \in Nat, l \in {1, 2} : n + 2 <= m => n + l <= m
      BY SMT
    <2>5. QED
      BY <2>1, <2>2, <2>3, <2>4
  <1>16. QED
    BY <1>4, <1>5, <1>6, <1>7, <1>12, <1>13, <1>14, <1>15, SealsFirst

\* handle_client_credentials seals an access token without openid.
LEMMA CredentialsSeal ==
    ASSUME TypeOK, NEW f \in Form, NEW client \in Registration,
           CredentialsRequestOk(f, client), Fits(CredentialsResponse(f, client)),
           tokens' = tokens \o CredentialsResponse(f, client)
    PROVE  \E s : Seals(s)
  <1> DEFINE scope == GrantedScope(f, client)
             t == Token("access", f.client, f.client, scope, {}, clock + AccessTtl, f.jkt, 0,
                        client.auth)
             s == CredentialsResponse(f, client)
  <1>1. /\ f.client \in Client /\ f.jkt \in SUBSET STRING
        /\ client.auth \in AuthMethod \cup {"none"}
        /\ clock \in Nat /\ clock + AccessTtl \in Nat
    BY FormAssumption, RegistrationAssumption, TtlAssumption DEF TypeOK
  <1>2. scope \in SUBSET STRING
    <2>1. client.scope \in SUBSET SUBSET STRING
      BY RegistrationAssumption
    <2>2. OrElse(client.scope, {}) \in SUBSET STRING
      <3>1. CASE client.scope = {}
        BY <3>1 DEF OrElse
      <3>2. CASE client.scope # {}
        <4>1. (CHOOSE x \in client.scope : TRUE) \in client.scope
          BY <3>2, Zenon
        <4>2. QED
          BY <2>1, <3>2, <4>1 DEF OrElse
      <3>3. QED
        BY <3>1, <3>2
    <2>3. QED
      BY <2>2 DEF GrantedScope
  <1>3. "openid" \notin scope
    BY DEF CredentialsRequestOk
  <1> HIDE DEF scope
  <1>4. t \in SealedToken
    <2>1. f.client \in STRING \cup Client /\ {} \in SUBSET ClaimName /\ 0 \in Nat
          /\ "access" \in {"code", "access", "id", "refresh"}
      BY <1>1
    <2>2. QED
      BY <1>1, <1>2, <2>1, TokenTyped
  <1>5. /\ t.kind = "access" /\ t.scope = scope /\ t.claims = {} /\ t.parent = 0
        /\ t.born = clock
    BY DEF Token
  <1>6. Sound(t, tokens)
    BY <1>3, <1>5 DEF Sound, FilterClaims
  <1>7. s = <<t>>
    BY DEF CredentialsResponse, scope
  <1> HIDE DEF t, s
  <1>8. s \in Seq(SealedToken) /\ Len(s) = 1 /\ s[1] = t
    BY <1>4, <1>7
  <1>9. ASSUME NEW k \in 1..Len(s)
        PROVE  s[k] = t
    BY <1>8, <1>9
  <1>10. Len(tokens) + Len(s) <= MaxTokens /\ tokens' = tokens \o s
    BY DEF Fits, s
  <1>11. QED
    BY <1>5, <1>6, <1>8, <1>9, <1>10, SealsFirst

\* A request that goes on to wait for its token has checked it.
LEMMA GrantingReady ==
    ASSUME TypeOK, NEW f \in Form, NEW client \in Registration,
           \/ f.grant_type = "authorization_code" /\ CodeRequestOk(f, client)
           \/ f.grant_type = "refresh_token" /\ RefreshRequestOk(f, client),
           NEW q, q = [pc |-> "consume", form |-> f, client |-> client, now |-> clock]
    PROVE  q \in RequestState /\ RequestOk(q, tokens)
  <1>1. clock \in Nat
    BY DEF TypeOK
  <1>2. q \in RequestState
    BY <1>1 DEF RequestState
  <1>3. q.pc = "consume" /\ q.form = f /\ q.client = client
    OBVIOUS
  <1>4. Ready(q, tokens)
    <2>1. CASE f.grant_type = "authorization_code" /\ CodeRequestOk(f, client)
      BY <1>3, <2>1 DEF CodeRequestOk, Opens, Ready
    <2>2. CASE f.grant_type = "refresh_token" /\ RefreshRequestOk(f, client)
      <3>1. OrElse(f.scope, tokens[f.token].scope) \subseteq tokens[f.token].scope
        BY <2>2 DEF RefreshRequestOk, RefreshScope, OrElse
      <3>2. QED
        BY <1>3, <2>2, <3>1 DEF RefreshRequestOk, Opens, Ready
    <2>3. QED
      BY <2>1, <2>2
  <1>5. QED
    BY <1>2, <1>3, <1>4 DEF RequestOk

\* An authenticated request: what it seals, and what it waits for.
LEMMA GrantingSeals ==
    ASSUME TypeOK, NEW r \in Request, NEW f \in Form, NEW client \in Registration,
           Granting(r, f, client)
    PROVE  /\ \E s : Seals(s)
           /\ req' \in [Request -> RequestState]
           /\ \A x \in Request : req'[x] = req[x] \/ RequestOk(req'[x], tokens')
  <1>1. CASE /\ \/ f.grant_type = "authorization_code" /\ CodeRequestOk(f, client)
                \/ f.grant_type = "refresh_token" /\ RefreshRequestOk(f, client)
             /\ req' = [req EXCEPT ![r] = [pc |-> "consume", form |-> f, client |-> client,
                                           now |-> clock]]
             /\ UNCHANGED tokens
    <2>1. PICK q : q = [pc |-> "consume", form |-> f, client |-> client, now |-> clock]
      OBVIOUS
    <2>2. q \in RequestState /\ RequestOk(q, tokens)
      BY <1>1, <2>1, GrantingReady
    <2>3. req' = [req EXCEPT ![r] = q] /\ tokens' = tokens
      BY <1>1, <2>1
    <2>4. Seals(<<>>)
      BY <1>1, SealsNothing
    <2>5. QED
      BY <2>2, <2>3, <2>4 DEF TypeOK
  <1>2. CASE /\ CredentialsRequestOk(f, client)
             /\ Fits(CredentialsResponse(f, client))
             /\ tokens' = tokens \o CredentialsResponse(f, client)
             /\ req' = [req EXCEPT ![r] = Idle]
    <2>1. \E s : Seals(s)
      BY <1>2, CredentialsSeal
    <2>2. Idle \in RequestState /\ RequestOk(Idle, tokens')
      BY DEF RequestState, RequestOk, Idle
    <2>3. QED
      BY <1>2, <2>1, <2>2 DEF TypeOK
  <1>3. QED
    BY <1>1, <1>2 DEF Granting

\* What a request waiting for its token has in hand.
LEMMA WaitingFacts ==
    ASSUME TypeOK, RequestInv, NEW r \in Request, req[r].pc = "consume"
    PROVE  /\ req[r].form \in Form /\ req[r].client \in Registration /\ req[r].now \in Nat
           /\ Ready(req[r], tokens)
           /\ req[r].form.token \in DOMAIN tokens
           /\ tokens[req[r].form.token].kind \in {"code", "refresh"}
           /\ tokens[req[r].form.token].exp \in Nat
  <1>1. /\ req[r].form \in Form /\ req[r].client \in Registration /\ req[r].now \in Nat
    BY WaitingTyped
  <1>2. Ready(req[r], tokens)
    BY DEF RequestInv, RequestOk
  <1>3. /\ req[r].form.token \in DOMAIN tokens
        /\ tokens[req[r].form.token].kind \in {"code", "refresh"}
    BY <1>2 DEF Ready
  <1>4. QED
    BY <1>1, <1>2, <1>3, TokensTyped DEF SealedToken

\* The response to a redemption mints heirs of the token that was checked.
LEMMA ResponseMints ==
    ASSUME TypeOK, RequestInv, SoundInv, NEW r \in Request, req[r].pc = "consume"
    PROVE  Mints(Response(req[r]), req[r].form.token)
  <1> DEFINE f == req[r].form
             p == tokens[f.token]
  <1>1. /\ f \in Form /\ req[r].client \in Registration /\ req[r].now \in Nat
        /\ f.token \in DOMAIN tokens /\ Ready(req[r], tokens)
    BY WaitingFacts
  <1>2. CASE f.grant_type = "authorization_code"
    <2>1. /\ p.client = f.client /\ p.kind = "code"
          /\ req[r].client.auth = "none" => p.challenge # {}
      BY <1>1, <1>2 DEF Ready
    <2>2. Mints(CodeResponse(f, req[r].client), f.token)
      BY <1>1, <2>1, CodeMints
    <2>3. QED
      BY <1>2, <2>2 DEF Response
  <1>3. CASE f.grant_type # "authorization_code"
    <2>1. /\ p.client = f.client /\ p.kind = "refresh"
          /\ p.jkt # {} => f.jkt = p.jkt
          /\ RefreshScope(f) \subseteq p.scope
      BY <1>1, <1>3 DEF Ready, RefreshScope
    <2>2. RefreshScope(f) \in SUBSET STRING
      BY <1>1, RefreshScopeTyped
    <2>3. Mints(RefreshResponse(f, req[r].client, RefreshScope(f), req[r].now), f.token)
      BY <1>1, <2>1, <2>2, RefreshMints
    <2>4. QED
      BY <1>3, <2>3 DEF Response
  <1>4. QED
    BY <1>2, <1>3

\* Such a response, with the token it was minted for taken in the same step.
LEMMA RedemptionSeals ==
    ASSUME TypeOK, NEW i \in DOMAIN tokens, tokens[i].kind \in {"code", "refresh"},
           ~Held(entries, KeyOf(i), clock),
           entries' = Mark(entries, KeyOf(i), clock, TokenTtl(tokens[i].exp, clock)),
           NEW s, Mints(s, i), Len(tokens) + Len(s) <= MaxTokens, tokens' = tokens \o s,
           UNCHANGED unsure
    PROVE  Seals(s) /\ Marks(s)
  <1>1. KeyOf(i) \in TokenKey /\ KeyOf(i) \in StoreKey /\ KeyOf(i)[2] = i
    BY KeyFacts
  <1>2. clock \in Nat /\ tokens[i].exp \in Nat
    <2>1. tokens[i] \in SealedToken
      BY TokensTyped
    <2>2. tokens[i].exp \in Nat
      BY <2>1 DEF SealedToken
    <2>3. QED
      BY <2>2 DEF TypeOK
  <1>3. TokenTtl(tokens[i].exp, clock) \in Nat
        /\ clock + TokenTtl(tokens[i].exp, clock) >= tokens[i].exp
    BY <1>2, TtlCoversLife
  <1>4. /\ entries' \in [StoreKey -> Nat]
        /\ entries[KeyOf(i)] <= clock
        /\ entries'[KeyOf(i)] >= tokens[i].exp
        /\ \A k \in StoreKey : entries'[k] >= entries[k]
        /\ \A k \in StoreKey : k # KeyOf(i) => entries'[k] = entries[k]
    BY <1>1, <1>2, <1>3, Taken
  <1>5. Seals(s)
    BY <1>4 DEF Seals, Mints, IsHeir
  <1>6. 1 \in 1..Len(s) /\ s[1].parent = i
    BY DEF Mints, IsHeir
  <1>7. TokenKey \subseteq StoreKey
    BY DEF StoreKey
  <1>8. Marks(s)
    BY <1>1, <1>4, <1>6, <1>7 DEF Marks, TypeOK
  <1>9. QED
    BY <1>5, <1>8

\* A key taken for a request that ends without a response.
LEMMA LossMarks ==
    ASSUME TypeOK, NEW key \in StoreKey, key \in TokenKey => key[2] \in DOMAIN tokens,
           ~Held(entries, key, clock), NEW exp \in Nat, NEW ttl \in Nat, clock + ttl >= exp,
           entries' = Mark(entries, key, clock, ttl), UNCHANGED tokens,
           unsure' = unsure \cup {key} \/ (UNCHANGED unsure /\ key \notin TokenKey)
    PROVE  \A s : Marks(s)
  <1>1. /\ entries' \in [StoreKey -> Nat]
        /\ \A k \in StoreKey : entries'[k] >= entries[k]
        /\ \A k \in StoreKey : k # key => entries'[k] = entries[k]
    BY Taken
  <1>2. TokenKey \subseteq StoreKey
    BY DEF StoreKey
  <1>3. QED
    BY <1>1, <1>2 DEF Marks, TypeOK

\* An assertion that a request waits for, and its key.
LEMMA AssertionFacts ==
    ASSUME TypeOK, RequestInv, NEW r \in Request, req[r].pc = "assertion",
           NEW a, a = CHOOSE x \in req[r].form.assertion : TRUE
    PROVE  /\ req[r].form \in Form /\ req[r].client \in Registration
           /\ a.until \in Nat
           /\ AssertionKeyOf(a) \in StoreKey
           /\ AssertionKeyOf(a) \notin TokenKey
  <1>1. req[r].form \in Form /\ req[r].client \in Registration
    BY WaitingTyped
  <1>2. req[r].form.assertion # {}
    BY DEF RequestInv, RequestOk
  <1>3. a \in req[r].form.assertion
    BY <1>2, Zenon
  <1>4. req[r].form.assertion \subseteq Assertion
    BY <1>1, FormAssumption DEF Opt
  <1>5. a \in Assertion /\ a.until \in Nat
    BY <1>3, <1>4, AssertionAssumption
  <1>6. AssertionKeyOf(a) \in StoreKey
    BY <1>5 DEF AssertionKeyOf, StoreKey, AssertionKey
  <1>7. AssertionKeyOf(a) \notin TokenKey
    BY DEF AssertionKeyOf, TokenKey
  <1>8. QED
    BY <1>1, <1>5, <1>6, <1>7
-----------------------------------------------------------------------------
(* The invariant is inductive.                                             *)

\* Nothing is registered that does not belong to the client, and no token or
\* marker exists when the provider starts.
LEMMA InitIInv == Init => IInv
  <1> SUFFICES ASSUME Init
               PROVE  IInv
    OBVIOUS
  <1>1. tokens = <<>> /\ tokens \in Seq(SealedToken) /\ Len(tokens) = 0 /\ DOMAIN tokens = {}
    BY EmptySeq DEF Init
  <1>2. TypeOK
    <2>1. reg \in [Client -> SUBSET Registration]
      <3>1. \A c \in Client : RegistrationOf(c) \subseteq SUBSET Registration
        BY DEF RegistrationOf, Opt
      <3>2. QED
        BY <3>1 DEF Init
    <2>2. entries \in [StoreKey -> Nat]
      BY DEF Init, NoEntries
    <2>3. req \in [Request -> RequestState]
      BY DEF Init, RequestState
    <2>4. clock \in 0..Horizon
      BY BoundAssumption DEF Init
    <2>5. QED
      BY <1>1, <2>1, <2>2, <2>3, <2>4, BoundAssumption DEF Init, TypeOK, Index
  <1>3. RequestInv
    BY DEF Init, RequestInv, RequestOk, Idle
  <1>4. FreshInv
    BY DEF Init, FreshInv, NoEntries, StoreKey
  <1>5. QED
    BY <1>1, <1>2, <1>3, <1>4
       DEF IInv, SoundInv, MarkerInv, NoFork, UsedUpOnlyByRedemption, Index

\* The clock, and changes of registrations.
LEMMA QuietStep ==
    ASSUME IInv, Tick \/ \E c \in Client : Reregister(c)
    PROVE  IInv'
  <1>1. TypeOK
    BY DEF IInv
  <1>2. UNCHANGED <<tokens, entries, req, unsure>>
    BY DEF Tick, Reregister
  <1>3. Seals(<<>>) /\ Marks(<<>>)
    BY <1>1, <1>2, SealsNothing, MarksNothing
  <1>4. clock' \in 0..Horizon
    BY <1>1, BoundAssumption DEF Tick, Reregister, TypeOK
  <1>5. /\ reg' \in [Client -> SUBSET Registration]
        /\ \A c \in Client : reg'[c] \in RegistrationOf(c)
    <2>1. CASE Tick
      BY <1>1, <2>1 DEF Tick, TypeOK
    <2>2. ASSUME NEW c \in Client, Reregister(c)
          PROVE  /\ reg' \in [Client -> SUBSET Registration]
                 /\ \A d \in Client : reg'[d] \in RegistrationOf(d)
      <3>1. PICK x \in RegistrationOf(c) : reg' = [reg EXCEPT ![c] = x]
        BY <2>2 DEF Reregister
      <3>2. x \in SUBSET Registration
        BY DEF RegistrationOf, Opt
      <3>3. QED
        BY <1>1, <3>1, <3>2 DEF TypeOK
    <2>3. QED
      BY <2>1, <2>2
  <1>6. req' \in [Request -> RequestState] /\ \A r \in Request : req'[r] = req[r]
    BY <1>1, <1>2 DEF TypeOK
  <1>7. QED
    BY <1>3, <1>4, <1>5, <1>6, StepKeeps

\* What the steps of requests and users leave alone.
LEMMA SameClock ==
    ASSUME TypeOK, UNCHANGED <<clock, reg>>
    PROVE  /\ clock' \in 0..Horizon
           /\ reg' \in [Client -> SUBSET Registration]
           /\ \A c \in Client : reg'[c] \in RegistrationOf(c)
  BY DEF TypeOK

\* authorize.
LEMMA AuthorizeStep ==
    ASSUME IInv, NEW q \in AuthRequest, Authorize(q)
    PROVE  IInv'
  <1>1. TypeOK
    BY DEF IInv
  <1>2. PICK s : Seals(s)
    BY <1>1, AuthorizeSeals
  <1>3. UNCHANGED <<clock, reg, entries, req, unsure>>
    BY DEF Authorize
  <1>4. Marks(s)
    BY <1>1, <1>3, MarksNothing
  <1>5. req' \in [Request -> RequestState] /\ \A r \in Request : req'[r] = req[r]
    BY <1>1, <1>3 DEF TypeOK
  <1>6. QED
    BY <1>1, <1>2, <1>3, <1>4, <1>5, SameClock, StepKeeps

\* The first part of a token request, with a secret or with an assertion.
LEMMA RequestStep ==
    ASSUME IInv, NEW r \in Request, NEW f \in Form, TokenRequest(r, f) \/ AssertionRequest(r, f)
    PROVE  IInv'
  <1>1. TypeOK
    BY DEF IInv
  <1>2. \A client \in reg[f.client] : client \in Registration
    <2>1. f.client \in Client
      BY FormAssumption
    <2>2. QED
      BY <1>1, <2>1 DEF TypeOK
  <1>3. UNCHANGED <<clock, reg, entries, unsure>>
    BY DEF TokenRequest, AssertionRequest
  <1>4. CASE TokenRequest(r, f)
    <2>1. PICK client \in reg[f.client] : Granting(r, f, client)
      BY <1>4 DEF TokenRequest
    <2>2. /\ \E s : Seals(s)
          /\ req' \in [Request -> RequestState]
          /\ \A x \in Request : req'[x] = req[x] \/ RequestOk(req'[x], tokens')
      BY <1>1, <1>2, <2>1, GrantingSeals
    <2>3. PICK s : Seals(s)
      BY <2>2
    <2>4. Marks(s)
      BY <1>1, <1>3, MarksNothing
    <2>5. QED
      BY <1>1, <1>3, <2>2, <2>3, <2>4, SameClock, StepKeeps
  <1>5. CASE AssertionRequest(r, f)
    <2>1. PICK client \in reg[f.client] :
              /\ AssertionVerified(f, client)
              /\ req' = [req EXCEPT ![r] = [pc |-> "assertion", form |-> f, client |-> client]]
      BY <1>5 DEF AssertionRequest
    <2>2. PICK q : q = [pc |-> "assertion", form |-> f, client |-> client]
      OBVIOUS
    <2>3. q \in RequestState
      BY <1>2, <2>2 DEF RequestState
    <2>4. f.assertion # {}
      BY <2>1 DEF AssertionVerified
    <2>5. RequestOk(q, tokens')
      BY <2>2, <2>4 DEF RequestOk
    <2>6. req' = [req EXCEPT ![r] = q]
      BY <2>1, <2>2
    <2>7. /\ req' \in [Request -> RequestState]
          /\ \A x \in Request : req'[x] = req[x] \/ RequestOk(req'[x], tokens')
      BY <1>1, <2>3, <2>5, <2>6 DEF TypeOK
    <2>8. Seals(<<>>) /\ Marks(<<>>)
      BY <1>1, <1>3, <1>5, SealsNothing, MarksNothing DEF AssertionRequest
    <2>9. QED
      BY <1>1, <1>3, <2>7, <2>8, SameClock, StepKeeps
  <1>6. QED
    BY <1>4, <1>5

\* A request that leaves its slot waits for nothing.
LEMMA SlotFreed ==
    ASSUME TypeOK, NEW r \in Request, req' = [req EXCEPT ![r] = Idle]
    PROVE  /\ req' \in [Request -> RequestState]
           /\ \A x \in Request : req'[x] = req[x] \/ RequestOk(req'[x], tokens')
  <1>1. Idle \in RequestState /\ RequestOk(Idle, tokens')
    BY DEF RequestState, RequestOk, Idle
  <1>2. QED
    BY <1>1 DEF TypeOK

\* The store answers for an assertion.
LEMMA AssertionStep ==
    ASSUME IInv, NEW r \in Request, ConsumeAssertion(r)
    PROVE  IInv'
  <1>1. TypeOK /\ RequestInv
    BY DEF IInv
  <1>2. PICK a : a = CHOOSE x \in req[r].form.assertion : TRUE
    OBVIOUS
  <1>3. PICK k : k = AssertionKeyOf(a)
    OBVIOUS
  <1>4. req[r].pc = "assertion" /\ UNCHANGED <<clock, reg, unsure>>
    BY DEF ConsumeAssertion
  <1>5. /\ req[r].form \in Form /\ req[r].client \in Registration
        /\ a.until \in Nat /\ k \in StoreKey /\ k \notin TokenKey
    BY <1>1, <1>2, <1>3, <1>4, AssertionFacts
  <1>6. CASE req' = [req EXCEPT ![r] = Idle] /\ UNCHANGED <<tokens, entries>>
    <2>1. Seals(<<>>) /\ Marks(<<>>)
      BY <1>1, <1>4, <1>6, SealsNothing, MarksNothing
    <2>2. QED
      BY <1>1, <1>4, <1>6, <2>1, SlotFreed, SameClock, StepKeeps
  <1>7. CASE /\ ~Held(entries, k, clock)
             /\ entries' = Mark(entries, k, clock, SaturatingSub(a.until, clock))
             /\ \/ Granting(r, req[r].form, req[r].client)
                \/ req' = [req EXCEPT ![r] = Idle] /\ UNCHANGED tokens
    <2>1. /\ \E s : Seals(s)
          /\ req' \in [Request -> RequestState]
          /\ \A x \in Request : req'[x] = req[x] \/ RequestOk(req'[x], tokens')
      <3>1. CASE Granting(r, req[r].form, req[r].client)
        BY <1>1, <1>5, <3>1, GrantingSeals
      <3>2. CASE req' = [req EXCEPT ![r] = Idle] /\ UNCHANGED tokens
        BY <1>1, <3>2, SlotFreed, SealsNothing
      <3>3. QED
        BY <1>7, <3>1, <3>2
    <2>2. PICK s : Seals(s)
      BY <2>1
    <2>3. Marks(s)
      <3>1. clock \in Nat
        BY <1>1 DEF TypeOK
      <3>2. /\ SaturatingSub(a.until, clock) \in Nat
            /\ clock + SaturatingSub(a.until, clock) >= a.until
        BY <1>5, <3>1, TtlCoversLife
      <3>3. /\ entries' \in [StoreKey -> Nat]
            /\ \A u \in StoreKey : entries'[u] >= entries[u]
            /\ \A u \in StoreKey : u # k => entries'[u] = entries[u]
        BY <1>1, <1>5, <1>7, <3>2, Taken
      <3>4. TokenKey \subseteq StoreKey
        BY DEF StoreKey
      <3>5. QED
        BY <1>1, <1>4, <1>5, <3>3, <3>4 DEF Marks, TypeOK
    <2>4. QED
      BY <1>1, <1>4, <2>1, <2>2, <2>3, SameClock, StepKeeps
  <1>8. QED
    BY <1>2, <1>3, <1>6, <1>7 DEF ConsumeAssertion

\* The store answers for a code or a refresh token.
LEMMA TokenStep ==
    ASSUME IInv, NEW r \in Request, ConsumeToken(r)
    PROVE  IInv'
  <1>1. TypeOK /\ RequestInv /\ SoundInv
    BY DEF IInv
  <1>2. /\ req[r].pc = "consume" /\ req' = [req EXCEPT ![r] = Idle]
        /\ UNCHANGED <<clock, reg>>
    BY DEF ConsumeToken
  <1>3. PICK i : i = req[r].form.token
    OBVIOUS
  <1>4. /\ i \in DOMAIN tokens /\ tokens[i].kind \in {"code", "refresh"}
        /\ tokens[i].exp \in Nat
    BY <1>1, <1>2, <1>3, WaitingFacts
  <1>5. CASE UNCHANGED <<entries, tokens, unsure>>
    <2>1. Seals(<<>>) /\ Marks(<<>>)
      BY <1>1, <1>5, SealsNothing, MarksNothing
    <2>2. QED
      BY <1>1, <1>2, <2>1, SlotFreed, SameClock, StepKeeps
  <1>6. CASE /\ ~Held(entries, KeyOf(i), clock)
             /\ entries' = Mark(entries, KeyOf(i), clock, TokenTtl(tokens[i].exp, clock))
             /\ Fits(Response(req[r]))
             /\ tokens' = tokens \o Response(req[r])
             /\ UNCHANGED unsure
    <2>1. PICK s : s = Response(req[r])
      OBVIOUS
    <2>2. Mints(s, i)
      BY <1>1, <1>2, <1>3, <2>1, ResponseMints
    <2>3. Len(tokens) + Len(s) <= MaxTokens /\ tokens' = tokens \o s
      BY <1>6, <2>1 DEF Fits
    <2>4. Seals(s) /\ Marks(s)
      BY <1>1, <1>4, <1>6, <2>2, <2>3, RedemptionSeals
    <2>5. QED
      BY <1>1, <1>2, <2>4, SlotFreed, SameClock, StepKeeps
  <1>7. CASE /\ ~Held(entries, KeyOf(i), clock)
             /\ entries' = Mark(entries, KeyOf(i), clock, TokenTtl(tokens[i].exp, clock))
             /\ unsure' = unsure \cup {KeyOf(i)}
             /\ UNCHANGED tokens
    <2>1. clock \in Nat
      BY <1>1 DEF TypeOK
    <2>2. /\ TokenTtl(tokens[i].exp, clock) \in Nat
          /\ clock + TokenTtl(tokens[i].exp, clock) >= tokens[i].exp
      BY <1>4, <2>1, TtlCoversLife
    <2>3. KeyOf(i) \in StoreKey /\ KeyOf(i)[2] \in DOMAIN tokens
      BY <1>1, <1>4, KeyFacts
    <2>4. Seals(<<>>) /\ Marks(<<>>)
      BY <1>1, <1>4, <1>7, <2>2, <2>3, SealsNothing, LossMarks
    <2>5. QED
      BY <1>1, <1>2, <2>4, SlotFreed, SameClock, StepKeeps
  <1>8. QED
    BY <1>3, <1>5, <1>6, <1>7 DEF ConsumeToken

\* The store fails.
LEMMA FailureStep ==
    ASSUME IInv, NEW r \in Request, StoreFails(r)
    PROVE  IInv'
  <1>1. TypeOK /\ RequestInv
    BY DEF IInv
  <1>2. req' = [req EXCEPT ![r] = Idle] /\ UNCHANGED <<clock, reg, tokens>>
    BY DEF StoreFails
  <1>3. CASE UNCHANGED <<entries, unsure>>
    <2>1. Seals(<<>>) /\ Marks(<<>>)
      BY <1>1, <1>2, <1>3, SealsNothing, MarksNothing
    <2>2. QED
      BY <1>1, <1>2, <2>1, SlotFreed, SameClock, StepKeeps
  <1>4. ASSUME NEW k, NEW until, k \in StoreKey, k \in TokenKey => k[2] \in DOMAIN tokens,
               until \in Nat, ~Held(entries, k, clock),
               entries' = Mark(entries, k, clock, TokenTtl(until, clock)),
               unsure' = unsure \cup {k}
        PROVE  IInv'
    <2>1. clock \in Nat
      BY <1>1 DEF TypeOK
    <2>2. TokenTtl(until, clock) \in Nat /\ clock + TokenTtl(until, clock) >= until
      BY <1>4, <2>1, TtlCoversLife
    <2>3. Seals(<<>>) /\ Marks(<<>>)
      BY <1>1, <1>2, <1>4, <2>2, SealsNothing, LossMarks
    <2>4. QED
      BY <1>1, <1>2, <2>3, SlotFreed, SameClock, StepKeeps
  <1>5. CASE /\ req[r].pc = "consume"
             /\ ~Held(entries, KeyOf(req[r].form.token), clock)
             /\ entries' = Mark(entries, KeyOf(req[r].form.token), clock,
                                TokenTtl(tokens[req[r].form.token].exp, clock))
             /\ unsure' = unsure \cup {KeyOf(req[r].form.token)}
    <2>1. PICK i : i = req[r].form.token
      OBVIOUS
    <2>2. /\ i \in DOMAIN tokens /\ tokens[i].kind \in {"code", "refresh"}
          /\ tokens[i].exp \in Nat
      BY <1>1, <1>5, <2>1, WaitingFacts
    <2>3. KeyOf(i) \in StoreKey /\ KeyOf(i)[2] \in DOMAIN tokens
      BY <1>1, <2>2, KeyFacts
    <2>4. QED
      BY <1>4, <1>5, <2>1, <2>2, <2>3
  <1>6. ASSUME req[r].pc = "assertion",
               NEW a, a = CHOOSE x \in req[r].form.assertion : TRUE,
               ~Held(entries, AssertionKeyOf(a), clock),
               entries' = Mark(entries, AssertionKeyOf(a), clock, TokenTtl(a.until, clock)),
               unsure' = unsure \cup {AssertionKeyOf(a)}
        PROVE  IInv'
    <2>1. a.until \in Nat /\ AssertionKeyOf(a) \in StoreKey /\ AssertionKeyOf(a) \notin TokenKey
      BY <1>1, <1>6, AssertionFacts
    <2>2. QED
      BY <1>4, <1>6, <2>1
  <1>7. CASE req[r].pc = "consume"
    BY <1>3, <1>5, <1>7 DEF StoreFails
  <1>8. CASE req[r].pc = "assertion"
    BY <1>3, <1>6, <1>8 DEF StoreFails
  <1>9. QED
    BY <1>7, <1>8 DEF StoreFails

\* Every step of the provider preserves the invariant.
LEMMA NextIInv == IInv /\ [Next]_vars => IInv'
  <1> SUFFICES ASSUME IInv, [Next]_vars
               PROVE  IInv'
    OBVIOUS
  <1>1. CASE UNCHANGED vars
    BY <1>1 DEF vars, IInv, TypeOK, RequestInv, SoundInv, MarkerInv, FreshInv, NoFork,
               UsedUpOnlyByRedemption, Index, Redeemed, Parent, KeyOf
  <1>2. CASE Next
    BY <1>2, QuietStep, AuthorizeStep, RequestStep, AssertionStep, TokenStep, FailureStep DEF Next
  <1>3. QED
    BY <1>1, <1>2
-----------------------------------------------------------------------------
(* The theorems.                                                           *)

\* The invariant holds at all times.
LEMMA Invariant == Spec => []IInv
  BY InitIInv, NextIInv, PTL DEF Spec

\* What the handlers keep in tokens, requests and the store is always what they
\* expect there, and no token is older than the one redeemed for it.
THEOREM TypeCorrect == Spec => []TypeOK
  <1>1. IInv => TypeOK
    BY DEF IInv
  <1>2. QED
    BY <1>1, Invariant, PTL

\* Along every chain of redemptions, of any length, scope and claims only
\* shrink, client and login stay, and no claim outlives the scope it needs:
\* filter_claims runs on every refresh.
THEOREM AuthorityNeverGrows == Spec => []AuthorityShrinks
  <1>1. IInv => AuthorityShrinks
    BY DEF IInv, SoundInv, Sound, Narrows, AuthorityShrinks, Index, Redeemed, Parent
  <1>2. QED
    BY <1>1, Invariant, PTL

\* The key of a DPoP-bound refresh token binds all that is minted from it, even
\* when the proof was checked before an await and the token consumed after it.
THEOREM BindingNeverDropped == Spec => []BindingKept
  <1>1. IInv => BindingKept
    BY DEF IInv, SoundInv, Sound, Narrows, BindingKept, Index, Redeemed, Parent
  <1>2. QED
    BY <1>1, Invariant, PTL

\* However many requests redeem a code or a refresh token at once, retry it, or
\* lose the store on the way, consume_token_once lets rotation go on from one of
\* them, as long as the token lives.
THEOREM RotationNeverForks == Spec => []NoFork
  <1>1. IInv => NoFork
    BY DEF IInv
  <1>2. QED
    BY <1>1, Invariant, PTL

\* A client that was public when it asked has proved possession of the code's
\* verifier, whatever it was registered as before or after.
THEOREM PublicClientsAlwaysProveCode == Spec => []PublicClientsProveCode
  <1>1. IInv => PublicClientsProveCode
    BY DEF IInv, SoundInv, Sound, Narrows, PublicClientsProveCode, Index, Redeemed, Parent
  <1>2. QED
    BY <1>1, Invariant, PTL

\* UserInfo answers for nobody who did not log in, and with no claim that was
\* not asked for with that login, after any number of refreshes.
THEOREM UserinfoAlwaysForLogin == Spec => []UserinfoOnlyForLogin
  <1>1. ASSUME IInv, NEW i \in Index, NEW jkt, UserinfoAnswers(i, jkt)
        PROVE  /\ FromLogin(tokens[i])
               /\ Redeemed(i) => "openid" \in Parent(i).scope
    <2>1. Sound(tokens[i], tokens) /\ "openid" \in tokens[i].scope
      BY <1>1 DEF IInv, SoundInv, UserinfoAnswers
    <2>2. QED
      BY <2>1 DEF Sound, Narrows, Redeemed, Parent
  <1>2. IInv => UserinfoOnlyForLogin
    BY <1>1 DEF UserinfoOnlyForLogin, FromLogin
  <1>3. QED
    BY <1>2, Invariant, PTL

\* A marker in the store has its redemption: a request that is refused, or that
\* presents somebody else's token, uses nothing up.
THEOREM NothingUsedUpInVain == Spec => []UsedUpOnlyByRedemption
  <1>1. IInv => UsedUpOnlyByRedemption
    BY DEF IInv
  <1>2. QED
    BY <1>1, Invariant, PTL
====
