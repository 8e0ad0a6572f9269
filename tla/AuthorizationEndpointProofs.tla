--------------------- MODULE AuthorizationEndpointProofs ---------------------
(***************************************************************************)
(* What the authorization endpoint guarantees for any clients, requests,   *)
(* registrations, ttls and switches, and however many requests are under   *)
(* way.                                                                    *)
(*                                                                         *)
(* Neither property of the responses is inductive: each is decided in      *)
(* Mint or Deny by what an earlier step has left in the slot.  FlowInv     *)
(* says what that is: a request at the login page passed                   *)
(* validate_response_mode, and a resolved one is valid under the           *)
(* registration kept in the slot, with the subject of that registration or *)
(* none.                                                                   *)
(***************************************************************************)
EXTENDS AuthorizationEndpoint, TLAPS

\* What Begin and Resolve have established about the request in a slot.
FlowInv ==
    \A s \in Slot :
        /\ slot[s].pc \in {"login", "resolved"} => ResponseModeOk(slot[s].q)
        /\ slot[s].pc = "resolved" =>
              /\ Valid(slot[s].q, slot[s].client)
              /\ slot[s].sub \in {SubjectFor(slot[s].client), EmptySubject}

IInv == TypeOK /\ FlowInv /\ IssuedUnderRegistration /\ SafeRedirects

\* The parts of IInv about one slot and about one response.
SlotOK(st) ==
    /\ st \in SlotState
    /\ st.pc \in {"login", "resolved"} => ResponseModeOk(st.q)
    /\ st.pc = "resolved" =>
          Valid(st.q, st.client) /\ st.sub \in {SubjectFor(st.client), EmptySubject}

ResponseOK(m) ==
    /\ m \in Response
    /\ m.kind = "success" =>
          /\ \E client \in m.registration :
                /\ m.q.redirect \in client.redirect_uris
                /\ m.sub = SubjectFor(client)
                /\ PkceOk(m.q, client)
                /\ client.scope # {} => m.q.scope \subseteq OrElse(client.scope, {})
          /\ TokenBearing(m.q) => m.fragment
    /\ EmitIss /\ m.q.redirect.has_iss => m.fragment

StoreOK ==
    /\ clients \in [Client -> SUBSET Entry]
    /\ \A c \in Client : \A e, f \in clients[c] : e.client.client = c /\ e = f

\* IInv, slot by slot and response by response: what a step has to keep.
LEMMA Parts ==
    IInv <=> /\ clock \in 0..Horizon
             /\ StoreOK
             /\ slot \in [Slot -> SlotState] /\ \A s \in Slot : SlotOK(slot[s])
             /\ \A m \in issued : ResponseOK(m)
BY DEF IInv, TypeOK, StoreOK, SlotOK, FlowInv, ResponseOK, IssuedUnderRegistration, SafeRedirects, Success

\* The same after a step (only the direction that the steps need).
LEMMA PartsPrimed ==
    /\ clock' \in 0..Horizon
    /\ StoreOK'
    /\ slot' \in [Slot -> SlotState] /\ \A s \in Slot : SlotOK(slot'[s])
    /\ \A m \in issued' : ResponseOK(m)
    => IInv'
BY DEF IInv, TypeOK, StoreOK, SlotOK, FlowInv, ResponseOK, IssuedUnderRegistration, SafeRedirects, Success
-----------------------------------------------------------------------------
(* The operators.                                                          *)

\* use_fragment answers every request.
LEMMA FragmentIsBoolean == \A q : UseFragment(q) \in BOOLEAN
BY DEF UseFragment, TokenBearing

\* validate_response_mode leaves no way for tokens into the query.
LEMMA TokensInFragment ==
    ASSUME NEW q, ResponseModeOk(q), TokenBearing(q)
    PROVE  UseFragment(q)
<1>1. CASE q.response_mode = {"fragment"}
  BY <1>1 DEF UseFragment
<1>2. CASE q.response_mode = {}
  BY <1>2 DEF UseFragment
<1> QED
  BY <1>1, <1>2 DEF ResponseModeOk

\* The precomputed subject of a public client is the one derived for it.
LEMMA SubjectFacts ==
    ASSUME NEW x \in Registration,
           NEW sub \in {SubjectFor(x), EmptySubject} \cup Precomputed(x)
    PROVE  sub \in {SubjectFor(x), EmptySubject} /\ sub \in Subject
BY DEF Precomputed, SubjectFor, Subject

\* A lookup returns registrations, and takes nothing out that has not expired.
LEMMA LookupFacts ==
    ASSUME StoreOK, NEW c \in Client
    PROVE  /\ Get(c) \subseteq Registration
           /\ AfterGet(c) \in [Client -> SUBSET Entry]
           /\ \A d \in Client : AfterGet(c)[d] \subseteq clients[d]
           /\ \A d \in Client : \A e \in clients[d] \ AfterGet(c)[d] : ExpiredEntry(e)
<1>1. Get(c) \subseteq Registration
  BY DEF StoreOK, Get, Entry
<1> QED
  BY <1>1 DEF StoreOK, AfterGet

\* A lookup keeps the store sound.
LEMMA LookupKeepsStore ==
    ASSUME StoreOK, NEW c \in Client, clients' = AfterGet(c)
    PROVE  StoreOK'
BY LookupFacts DEF StoreOK

\* What put and put_with_ttl insert is an entry, for its registration's client.
LEMMA EntryFacts ==
    ASSUME NEW x \in Registration, NEW t \in SUBSET Nat
    PROVE  /\ [client |-> x, expires_at |-> t] \in Entry
           /\ [client |-> x, expires_at |-> t].client = x
BY DEF Entry

\* A request names a client, and claims of the model.
LEMMA RequestFacts ==
    ASSUME NEW q \in AuthRequest
    PROVE  q.client \in Client /\ q.claims \subseteq ClaimName
BY AuthRequestAssumption

\* A registration names a client.
LEMMA RegistrationFacts ==
    ASSUME NEW x \in Registration
    PROVE  x.client \in Client
BY RegistrationAssumption
-----------------------------------------------------------------------------
(* The steps.                                                              *)

\* The store as the application set it up, and no request under way.
LEMMA InitOK == Init => IInv
<1> SUFFICES ASSUME Init PROVE IInv
  OBVIOUS
<1>1. clock \in 0..Horizon
  BY BoundAssumption DEF Init
<1>2. StoreOK
  <2>1. PICK r \in SUBSET Registration :
           /\ \A x, y \in r : x.client = y.client => x = y
           /\ clients = [c \in Client |->
                           {[client |-> x, expires_at |-> {}] : x \in {y \in r : y.client = c}}]
    BY DEF Init
  <2>2. ASSUME NEW c \in Client, NEW e \in clients[c]
        PROVE  \E x \in r : x.client = c /\ e = [client |-> x, expires_at |-> {}]
    BY <2>1, <2>2
  <2>3. \A c \in Client : \A e \in clients[c] : e \in Entry /\ e.client.client = c
    BY <2>2, EntryFacts
  <2>4. \A c \in Client : \A e, f \in clients[c] : e = f
    BY <2>1, <2>2
  <2>5. clients \in [Client -> SUBSET Entry]
    BY <2>1, <2>3
  <2> QED
    BY <2>3, <2>4, <2>5 DEF StoreOK
<1>3. slot \in [Slot -> SlotState] /\ \A s \in Slot : SlotOK(slot[s])
  BY DEF Init, SlotOK, SlotState, Idle
<1> QED
  BY <1>1, <1>2, <1>3, Parts DEF Init

\* Time passes.
LEMMA TickStep == IInv /\ Tick => IInv'
<1> SUFFICES ASSUME IInv, Tick PROVE IInv'
  OBVIOUS
<1>1. clock' \in 0..Horizon
  BY BoundAssumption, Parts DEF Tick
<1>2. StoreOK'
  BY Parts DEF Tick, StoreOK
<1> QED
  BY <1>1, <1>2, Parts, PartsPrimed DEF Tick

\* put replaces the entry of one client.
LEMMA PutStep ==
    ASSUME IInv, NEW x \in Registration, Put(x)
    PROVE  IInv'
<1>1. StoreOK'
  <2>1. PICK e : e = [client |-> x, expires_at |-> {}]
    OBVIOUS
  <2>2. e \in Entry /\ e.client = x
    BY <2>1, EntryFacts
  <2>3. clients' = [clients EXCEPT ![x.client] = {e}]
    BY <2>1 DEF Put
  <2> QED
    BY <2>2, <2>3, Parts, RegistrationFacts DEF StoreOK
<1> QED
  BY <1>1, Parts, PartsPrimed DEF Put

\* put_with_ttl sweeps what has expired, and replaces the entry of one client.
LEMMA PutWithTtlStep ==
    ASSUME IInv, NEW x \in Registration, NEW ttl \in Ttl, PutWithTtl(x, ttl)
    PROVE  IInv'
<1>1. clock + ttl \in Nat
  BY Parts, BoundAssumption
<1>2. StoreOK'
  <2>1. PICK e : e = [client |-> x, expires_at |-> {clock + ttl}]
    OBVIOUS
  <2>2. e \in Entry /\ e.client = x
    BY <1>1, <2>1, EntryFacts
  <2>3. /\ clients' \in [Client -> SUBSET Entry]
        /\ \A c \in Client : (clients'[c] = {e} /\ c = x.client) \/ clients'[c] \subseteq clients[c]
    BY <2>1, <2>2, Parts DEF PutWithTtl, StoreOK
  <2> QED
    BY <2>2, <2>3, Parts DEF StoreOK
<1> QED
  BY <1>2, Parts, PartsPrimed DEF PutWithTtl

\* A step that does no more to the slots than put a sound state into one of them.
LEMMA SlotStep ==
    ASSUME IInv, NEW s \in Slot, NEW st, SlotOK(st), slot' = [slot EXCEPT ![s] = st]
    PROVE  slot' \in [Slot -> SlotState] /\ \A t \in Slot : SlotOK(slot'[t])
<1>1. st \in SlotState
  BY DEF SlotOK
<1> QED
  BY <1>1, Parts

\* A slot whose flow has ended.
LEMMA IdleOK == SlotOK(Idle)
BY DEF SlotOK, SlotState, Idle

\* The request is validated before the login.
LEMMA BeginStep ==
    ASSUME IInv, NEW s \in Slot, NEW q \in AuthRequest, Begin(s, q)
    PROVE  IInv'
<1>1. StoreOK'
  BY Parts, RequestFacts, LookupKeepsStore DEF Begin
<1>2. slot' \in [Slot -> SlotState] /\ \A t \in Slot : SlotOK(slot'[t])
  <2>1. CASE \E client \in Get(q.client) : Valid(q, client)
    <3>1. ResponseModeOk(q)
      BY <2>1 DEF Valid
    <3>2. SlotOK([pc |-> "login", q |-> q])
      BY <3>1 DEF SlotOK, SlotState
    <3> QED
      BY <2>1, <3>2, SlotStep DEF Begin
  <2>2. CASE ~\E client \in Get(q.client) : Valid(q, client)
    BY <2>2, Parts DEF Begin
  <2> QED
    BY <2>1, <2>2
<1> QED
  BY <1>1, <1>2, Parts, PartsPrimed DEF Begin

\* What a slot holds while the user is at the login page.
LEMMA LoginFacts ==
    ASSUME NEW st, SlotOK(st), st.pc = "login"
    PROVE  st.q \in AuthRequest /\ ResponseModeOk(st.q)
BY DEF SlotOK, SlotState, Idle

\* What a slot holds between the subject's derivation and the second get.
LEMMA ResolvedFacts ==
    ASSUME NEW st, SlotOK(st), st.pc = "resolved"
    PROVE  /\ st.q \in AuthRequest /\ st.client \in Registration /\ st.sub \in Subject
           /\ Valid(st.q, st.client)
           /\ st.sub \in {SubjectFor(st.client), EmptySubject}
BY DEF SlotOK, SlotState, Idle

\* The error redirect is built only where no iss collides.
LEMMA DenyStep ==
    ASSUME IInv, NEW s \in Slot, Deny(s)
    PROVE  IInv'
<1>1. PICK q : q = slot[s].q
  OBVIOUS
<1>2. q \in AuthRequest /\ ResponseModeOk(q)
  BY <1>1, Parts, LoginFacts DEF Deny
<1>3. slot' \in [Slot -> SlotState] /\ \A t \in Slot : SlotOK(slot'[t])
  BY SlotStep, IdleOK DEF Deny
<1>4. PICK f \in BOOLEAN : f = UseFragment(q)
  BY FragmentIsBoolean
<1>5. NoIssCollision(q) => ResponseOK([kind |-> "error", q |-> q, fragment |-> f])
  BY <1>2, <1>4 DEF ResponseOK, Response, NoIssCollision
<1>6. \A m \in issued' : ResponseOK(m)
  BY <1>1, <1>4, <1>5, Parts DEF Deny
<1> QED
  BY <1>3, <1>6, Parts, PartsPrimed DEF Deny, StoreOK

\* authorization_redirect* validates again, and derives the subject.
LEMMA ResolveStep ==
    ASSUME IInv, NEW s \in Slot, Resolve(s)
    PROVE  IInv'
<1>1. PICK q : q = slot[s].q
  OBVIOUS
<1>2. q \in AuthRequest /\ ResponseModeOk(q)
  BY <1>1, Parts, LoginFacts DEF Resolve
<1>3. StoreOK' /\ Get(q.client) \subseteq Registration
  BY <1>1, <1>2, Parts, RequestFacts, LookupFacts, LookupKeepsStore DEF Resolve
<1>4. slot' \in [Slot -> SlotState] /\ \A t \in Slot : SlotOK(slot'[t])
  <2>1. CASE slot' = [slot EXCEPT ![s] = Idle]
    BY <2>1, SlotStep, IdleOK
  <2>2. ASSUME NEW client \in Get(q.client),
               NEW sub \in {SubjectFor(client), EmptySubject} \cup Precomputed(client),
               Valid(q, client),
               slot' = [slot EXCEPT ![s] = [pc |-> "resolved", q |-> q,
                                            client |-> client, sub |-> sub]]
        PROVE  slot' \in [Slot -> SlotState] /\ \A t \in Slot : SlotOK(slot'[t])
    <3>1. client \in Registration
      BY <1>3
    <3>2. sub \in {SubjectFor(client), EmptySubject} /\ sub \in Subject
      BY <3>1, SubjectFacts
    <3>3. SlotOK([pc |-> "resolved", q |-> q, client |-> client, sub |-> sub])
      BY <1>2, <2>2, <3>1, <3>2 DEF SlotOK, SlotState
    <3> QED
      BY <2>2, <3>3, SlotStep
  <2> QED
    BY <1>1, <2>1, <2>2 DEF Resolve
<1> QED
  BY <1>3, <1>4, Parts, PartsPrimed DEF Resolve

\* What mint_authorization_response sends when nothing changed since Resolve.
LEMMA MintedOK ==
    ASSUME IInv, NEW s \in Slot, slot[s].pc = "resolved", MayMint(s)
    PROVE  ResponseOK(Minted(s))
<1>1. PICK q, client, sub : q = slot[s].q /\ client = slot[s].client /\ sub = slot[s].sub
  OBVIOUS
<1>2. /\ q \in AuthRequest /\ client \in Registration /\ sub \in Subject
      /\ Valid(q, client)
      /\ sub \in {SubjectFor(client), EmptySubject}
  BY <1>1, Parts, ResolvedFacts
<1>3. sub = SubjectFor(client) /\ Get(q.client) = {client} /\ NoIssCollision(q)
  BY <1>1, <1>2 DEF MayMint, Unchanged
<1>4. PICK f \in BOOLEAN : f = UseFragment(q)
  BY FragmentIsBoolean
<1>5. PICK cl \in SUBSET ClaimName : cl = FilterClaims(q.scope, q.claims)
  BY <1>2, RequestFacts DEF FilterClaims
<1>6. PICK m : m = [kind |-> "success", q |-> q, sub |-> sub, fragment |-> f,
                    claims |-> cl, registration |-> {client}]
  OBVIOUS
<1>7. m \in Response
  BY <1>2, <1>6 DEF Response
<1>8. TokenBearing(q) => f
  BY <1>2, <1>4, TokensInFragment DEF Valid
<1>9. EmitIss /\ q.redirect.has_iss => f
  BY <1>3, <1>4 DEF NoIssCollision
<1>10. /\ q.redirect \in client.redirect_uris
       /\ PkceOk(q, client)
       /\ client.scope # {} => q.scope \subseteq OrElse(client.scope, {})
  BY <1>2 DEF Valid
<1>11. ResponseOK(m)
  BY <1>3, <1>6, <1>7, <1>8, <1>9, <1>10 DEF ResponseOK
<1>12. Minted(s) = m
  BY <1>1, <1>3, <1>4, <1>5, <1>6 DEF Minted
<1> QED
  BY <1>11, <1>12

\* The second get, and minting under the registration that it returned.
LEMMA MintStep ==
    ASSUME IInv, NEW s \in Slot, Mint(s)
    PROVE  IInv'
<1>1. StoreOK'
  BY Parts, ResolvedFacts, RequestFacts, LookupKeepsStore DEF Mint
<1>2. slot' \in [Slot -> SlotState] /\ \A t \in Slot : SlotOK(slot'[t])
  BY SlotStep, IdleOK DEF Mint
<1>3. \A m \in issued' : ResponseOK(m)
  BY Parts, MintedOK DEF Mint
<1> QED
  BY <1>1, <1>2, <1>3, Parts, PartsPrimed DEF Mint

\* A stuttering step changes nothing.
LEMMA StutterStep == IInv /\ UNCHANGED vars => IInv'
BY DEF vars, IInv, TypeOK, FlowInv, IssuedUnderRegistration, SafeRedirects, Success

\* Every step keeps the inductive invariant.
LEMMA NextStep == IInv /\ [Next]_vars => IInv'
<1> SUFFICES ASSUME IInv, Next PROVE IInv'
  BY StutterStep
<1> QED
  BY TickStep, PutStep, PutWithTtlStep, BeginStep, DenyStep, ResolveStep, MintStep DEF Next

\* IInv is inductive: every operation of the endpoint and of the client store
\* keeps what the slots, the store and the responses are known to be.
THEOREM Invariance == Spec => []IInv
BY InitOK, NextStep, PTL DEF Spec
-----------------------------------------------------------------------------
\* Every state is well typed, with at most one entry per client in the store,
\* under that client's own identifier.
THEOREM TypeCorrect == Spec => []TypeOK
BY Invariance, PTL DEF IInv

\* authorization_redirect* never issues a code or a token under a registration
\* that was replaced, dropped or expired between the validation and the mint, nor
\* with a subject derived for another one.
THEOREM AlwaysIssuedUnderRegistration == Spec => []IssuedUnderRegistration
BY Invariance, PTL DEF IInv

\* For every response type and mode that passes validation, tokens stay out of
\* the query, and neither a success nor an error redirect has two iss values.
THEOREM RedirectsAlwaysSafe == Spec => []SafeRedirects
BY Invariance, PTL DEF IInv

\* Only lookups and the sweep of put_with_ttl take entries out of the store.
LEMMA StepRemovesOnlyExpired ==
    ASSUME IInv, [Next]_vars, NEW c \in Client, clients[c] # {}, clients'[c] = {}
    PROVE  \E e \in clients[c] : ExpiredEntry(e)
<1>0. StoreOK /\ \A s \in Slot : SlotOK(slot[s])
  BY Parts
<1>1. ASSUME NEW q \in AuthRequest, clients' = AfterGet(q.client)
      PROVE  \E e \in clients[c] : ExpiredEntry(e)
  BY <1>0, <1>1, RequestFacts, LookupFacts
<1>2. ASSUME NEW x \in Registration, Put(x) PROVE FALSE
  BY <1>0, <1>2 DEF Put, StoreOK
<1>3. ASSUME NEW x \in Registration, NEW ttl \in Ttl, PutWithTtl(x, ttl)
      PROVE  \E e \in clients[c] : ExpiredEntry(e)
  BY <1>0, <1>3 DEF PutWithTtl
<1>4. ASSUME NEW s \in Slot, Resolve(s) \/ Mint(s)
      PROVE  \E q \in AuthRequest : clients' = AfterGet(q.client)
  BY <1>0, <1>4, LoginFacts, ResolvedFacts DEF Resolve, Mint
<1>5. CASE UNCHANGED clients
  BY <1>5
<1> QED
  BY <1>1, <1>2, <1>3, <1>4, <1>5 DEF Next, Tick, Begin, Deny, vars

\* No get and no put_with_ttl, by whichever request, takes a live registration
\* out of the store.
THEOREM NothingLiveRemoved == Spec => OnlyExpiredRemoved
<1>1. IInv /\ [Next]_vars =>
         [\A c \in Client : clients[c] # {} /\ clients'[c] = {} =>
             \E e \in clients[c] : ExpiredEntry(e)]_vars
  BY StepRemovesOnlyExpired
<1> QED
  BY <1>1, Invariance, PTL DEF Spec, OnlyExpiredRemoved
=============================================================================
