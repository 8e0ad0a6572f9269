-------------------------- MODULE FederationProofs ---------------------------
(***************************************************************************)
(* Proofs about Federation, as HomeOrgDiscovery runs it, for any members,  *)
(* trust anchors and time limits, and about the metadata policies that     *)
(* come with a resolved chain (MetadataPolicy).                            *)
(***************************************************************************)
EXTENDS HomeOrgDiscovery, MetadataPolicy, FiniteSetTheorems, SequenceTheorems, TLAPS

\* A statement of a member of the federation, at time t and with the ends ret of
\* keys and dro of links so far: signed by its issuer, about keys that its
\* subject owns, and from before the end of what it states.
Member(st, t, ret, dro) ==
    /\ st.iss \in Entity \ {Outsider} /\ st.sub \in Entity \ {Outsider}
    /\ st.signer \in Key /\ st.signer[1] = st.iss
    /\ st.iat \in 0..t /\ st.exp = st.iat + Lifetime
    /\ st.jwks # {} /\ st.jwks \subseteq Key
    /\ \A k \in st.jwks : k[1] = st.sub /\ st.iat <= ret[k]
    /\ st.iss # st.sub => st.iat <= dro[<<st.iss, st.sub>>]

\* Any other statement is Outsider's, who has nobody else's key.
Foreign(st) == st.signer = OutsiderKey /\ st.jwks = {OutsiderKey}

IssuedInv == \A st \in issued : Member(st, now, retired, dropped) \/ Foreign(st)

\* The current keys have not been replaced, the current members not dropped.
WorldAt(t, n, mem, ret, dro) ==
    /\ t \in 0..Horizon
    /\ n \in [Entity -> 0..MaxKey]
    /\ ret \in [Key -> 0..Never] /\ dro \in [Entity \X Entity -> 0..Never]
    /\ mem \in [Entity -> SUBSET (Middle \cup {Subject})] /\ mem[Outsider] = {}
    /\ \A e \in Entity : \A i \in n[e]..MaxKey : ret[<<e, i>>] = Never
    /\ \A e \in Entity : \A f \in mem[e] : dro[<<e, f>>] = Never

WorldInv == WorldAt(now, num, members, retired, dropped)

\* What a resolution relied on had not come to its end a Lifetime before it.
ResultInv ==
    \A r \in result :
        /\ r.at \in 0..now /\ r.exp \in Nat /\ r.exp <= r.at + Lifetime
        /\ r.subject_jwks # {} /\ r.subject_jwks \subseteq Key
        /\ r.links \subseteq Entity \X Entity
        /\ \A k \in r.subject_jwks : k[1] = Subject /\ r.at < retired[k] + Lifetime
        /\ \A x \in r.links : r.at < dropped[x] + Lifetime

ClientInv ==
    /\ anchor \in Anchor
    /\ protocol \subseteq {Subject}

Inv == WorldInv /\ IssuedInv /\ ResultInv /\ ClientInv

LEMMA Names ==
    /\ Subject \in Entity /\ Outsider \in Entity /\ Subject # Outsider
    /\ Middle \subseteq Entity /\ Anchor \subseteq Entity /\ Outsider \notin Middle \cup Anchor
    /\ Subject \notin Middle \cup Anchor /\ Middle \cap Anchor = {} /\ Configured \subseteq Anchor
BY NamesAssumption DEF Entity

LEMMA Numbers ==
    /\ Leeway \in Nat /\ MaxKey \in Nat /\ Horizon \in Nat /\ Never \in Nat
    /\ Never = Horizon + 1 /\ Lifetime \in Nat /\ Lifetime > 0
BY TimeAssumption DEF Never

\* What the members publish at some moment is theirs.
LEMMA PublishedMember ==
    ASSUME NEW t, NEW n, NEW mem, NEW ret, NEW dro, WorldAt(t, n, mem, ret, dro),
           NEW st \in Published(n, mem, t)
    PROVE  Member(st, t, ret, dro)
<1>1. ASSUME NEW e \in Entity
      PROVE  CurrentKey(e, n) \in Key /\ CurrentKey(e, n)[1] = e /\ ret[CurrentKey(e, n)] = Never
  BY Numbers DEF WorldAt, CurrentKey, Key
<1>2. ASSUME NEW e \in Entity \ {Outsider}, st = EntityConfiguration(e, n, t)
      PROVE  Member(st, t, ret, dro)
  <2>1. /\ st.iss = e /\ st.sub = e /\ st.signer = CurrentKey(e, n)
        /\ st.jwks = {CurrentKey(e, n)} /\ st.iat = t /\ st.exp = t + Lifetime
    BY <1>2 DEF EntityConfiguration, Signed
  <2> QED
    BY <1>1, <2>1, Numbers DEF Member, WorldAt
<1>3. ASSUME NEW x \in Entity \X Entity, x[2] \in mem[x[1]],
             st = Signed(x[1], x[2], CurrentKey(x[1], n), {CurrentKey(x[2], n)}, t)
      PROVE  Member(st, t, ret, dro)
  <2>1. /\ st.iss = x[1] /\ st.sub = x[2] /\ st.signer = CurrentKey(x[1], n)
        /\ st.jwks = {CurrentKey(x[2], n)} /\ st.iat = t /\ st.exp = t + Lifetime
    BY <1>3 DEF Signed
  <2>2. x[1] \in Entity \ {Outsider} /\ x[2] \in Entity \ {Outsider}
    BY <1>3, Names DEF WorldAt
  <2>3. dro[<<x[1], x[2]>>] = Never
    BY <1>3 DEF WorldAt
  <2> QED
    BY <1>1, <2>1, <2>2, <2>3, Numbers DEF Member, WorldAt
<1> QED
  BY <1>2, <1>3 DEF Published

LEMMA OutsideForeign ==
    ASSUME NEW st \in Outside
    PROVE  Foreign(st)
BY DEF Outside, Foreign

\* Time passes and things come to their end, but never before now.
Onward ==
    /\ now \in Nat /\ now' \in Nat /\ now <= now'
    /\ \A k \in Key : retired[k] \in Nat /\ retired'[k] \in Nat
                      /\ (retired'[k] = retired[k] \/ now <= retired'[k])
    /\ \A x \in Entity \X Entity : dropped[x] \in Nat /\ dropped'[x] \in Nat
                                   /\ (dropped'[x] = dropped[x] \/ now <= dropped'[x])

LEMMA MemberKept ==
    ASSUME Onward, NEW st, Member(st, now, retired, dropped)
    PROVE  Member(st, now', retired', dropped')
<1>1. st.iat \in 0..now' /\ st.iat \in Nat /\ st.iat <= now
  BY DEF Onward, Member
<1>2. ASSUME NEW k \in st.jwks PROVE st.iat <= retired'[k]
  <2>1. k \in Key /\ st.iat <= retired[k]
    BY DEF Member
  <2> QED
    BY <1>1, <2>1 DEF Onward
<1>3. ASSUME st.iss # st.sub PROVE st.iat <= dropped'[<<st.iss, st.sub>>]
  <2>1. <<st.iss, st.sub>> \in Entity \X Entity /\ st.iat <= dropped[<<st.iss, st.sub>>]
    BY <1>3 DEF Member
  <2> QED
    BY <1>1, <2>1 DEF Onward
<1> QED
  BY <1>1, <1>2, <1>3 DEF Member

LEMMA ResultKept ==
    ASSUME Onward, ResultInv, result' = result
    PROVE  ResultInv'
<1> SUFFICES ASSUME NEW r \in result
             PROVE  /\ r.at \in 0..now' /\ r.exp \in Nat /\ r.exp <= r.at + Lifetime
                    /\ r.subject_jwks # {} /\ r.subject_jwks \subseteq Key
                    /\ r.links \subseteq Entity \X Entity
                    /\ \A k \in r.subject_jwks : k[1] = Subject /\ r.at < retired'[k] + Lifetime
                    /\ \A x \in r.links : r.at < dropped'[x] + Lifetime
  BY DEF ResultInv
<1>1. /\ r.at \in 0..now /\ r.at \in Nat /\ r.exp \in Nat /\ r.exp <= r.at + Lifetime
      /\ r.subject_jwks # {} /\ r.subject_jwks \subseteq Key /\ r.links \subseteq Entity \X Entity
  BY DEF ResultInv, Onward
<1>2. ASSUME NEW k \in r.subject_jwks PROVE k[1] = Subject /\ r.at < retired'[k] + Lifetime
  <2>1. k \in Key /\ k[1] = Subject /\ r.at < retired[k] + Lifetime
    BY DEF ResultInv
  <2> QED
    BY <1>1, <2>1, Numbers DEF Onward
<1>3. ASSUME NEW x \in r.links PROVE r.at < dropped'[x] + Lifetime
  <2>1. x \in Entity \X Entity /\ r.at < dropped[x] + Lifetime
    BY DEF ResultInv
  <2> QED
    BY <1>1, <2>1, Numbers DEF Onward
<1> QED
  BY <1>1, <1>2, <1>3 DEF Onward
-----------------------------------------------------------------------------
LEMMA InitInv ==
    ASSUME FederationInit
    PROVE  Inv
<1>1. WorldInv
  <2>1. now \in 0..Horizon /\ num \in [Entity -> 0..MaxKey]
    BY Numbers DEF FederationInit
  <2>2. retired \in [Key -> 0..Never] /\ dropped \in [Entity \X Entity -> 0..Never]
    BY Numbers DEF FederationInit
  <2>3. members \in [Entity -> SUBSET (Middle \cup {Subject})] /\ members[Outsider] = {}
    BY NamesAssumption DEF FederationInit
  <2>4. \A e \in Entity : \A i \in num[e]..MaxKey : retired[<<e, i>>] = Never
    BY Numbers DEF FederationInit, Key
  <2>5. \A e \in Entity : \A f \in members[e] : dropped[<<e, f>>] = Never
    <3>1. \A e \in Entity : members[e] \subseteq Entity
      BY <2>3, Names
    <3> QED
      BY <3>1 DEF FederationInit
  <2> QED
    BY <2>1, <2>2, <2>3, <2>4, <2>5 DEF WorldInv, WorldAt
<1>2. IssuedInv
  BY <1>1, PublishedMember, OutsideForeign DEF FederationInit, IssuedInv, WorldInv
<1>3. anchor \in Anchor
  BY NamesAssumption DEF FederationInit
<1> QED
  BY <1>1, <1>2, <1>3 DEF FederationInit, Inv, ResultInv, ClientInv

\* Steps of the world leave the client alone and go onward.
LEMMA WorldStep ==
    ASSUME Inv, Onward, WorldInv', UNCHANGED <<pc, left, anchor, result, protocol>>,
           \A st \in issued' : st \in issued \/ st \in Published(num', members', now')
    PROVE  Inv'
<1>1. IssuedInv'
  <2> SUFFICES ASSUME NEW st \in issued'
               PROVE  Member(st, now', retired', dropped') \/ Foreign(st)
    BY DEF IssuedInv
  <2>1. CASE st \in issued
    BY <2>1, MemberKept DEF Inv, IssuedInv
  <2>2. CASE st \in Published(num', members', now')
    BY <2>2, PublishedMember DEF WorldInv
  <2> QED BY <2>1, <2>2
<1>2. ResultInv'
  BY ResultKept DEF Inv
<1>3. ClientInv'
  BY DEF Inv, ClientInv
<1> QED
  BY <1>1, <1>2, <1>3 DEF Inv

LEMMA TickInv ==
    ASSUME Inv, Tick
    PROVE  Inv'
<1>1. WorldInv'
  BY Numbers DEF Inv, WorldInv, WorldAt, Tick
<1>2. Onward
  BY Numbers DEF Inv, WorldInv, WorldAt, Tick, Onward
<1> QED
  BY <1>1, <1>2, WorldStep DEF Tick

LEMMA RotateInv ==
    ASSUME Inv, NEW e \in Middle \cup {Subject}, Rotate(e)
    PROVE  Inv'
<1>1. /\ now \in 0..Horizon /\ num \in [Entity -> 0..MaxKey] /\ retired \in [Key -> 0..Never]
      /\ dropped \in [Entity \X Entity -> 0..Never]
      /\ \A g \in Entity : \A i \in num[g]..MaxKey : retired[<<g, i>>] = Never
  BY DEF Inv, WorldInv, WorldAt
<1>2. e \in Entity /\ num[e] < MaxKey /\ <<e, num[e]>> \in Key
  BY <1>1, Names DEF Rotate, Key
<1>3. /\ num' = [num EXCEPT ![e] = @ + 1] /\ retired' = [retired EXCEPT ![<<e, num[e]>>] = now]
      /\ now' = now /\ members' = members /\ dropped' = dropped
  BY DEF Rotate, CurrentKey
<1>4. num' \in [Entity -> 0..MaxKey] /\ retired' \in [Key -> 0..Never]
  BY <1>1, <1>2, <1>3, Numbers
<1>5. ASSUME NEW g \in Entity, NEW i \in num'[g]..MaxKey
      PROVE  retired'[<<g, i>>] = Never
  <2>1. i \in num[g]..MaxKey /\ <<g, i>> \in Key /\ <<g, i>> # <<e, num[e]>>
    BY <1>1, <1>2, <1>3, <1>4, Numbers DEF Key
  <2> QED
    BY <1>1, <1>3, <2>1
<1>6. WorldInv'
  BY <1>1, <1>3, <1>4, <1>5 DEF Inv, WorldInv, WorldAt
<1>7. Onward
  BY <1>1, <1>3, <1>4, Numbers DEF Onward
<1> QED
  BY <1>6, <1>7, WorldStep DEF Rotate

LEMMA DropInv ==
    ASSUME Inv, NEW e \in Middle \cup Anchor, NEW f \in members[e], Drop(e, f)
    PROVE  Inv'
<1>1. /\ now \in 0..Horizon /\ retired \in [Key -> 0..Never]
      /\ dropped \in [Entity \X Entity -> 0..Never]
      /\ members \in [Entity -> SUBSET (Middle \cup {Subject})] /\ members[Outsider] = {}
      /\ \A g \in Entity : \A h \in members[g] : dropped[<<g, h>>] = Never
  BY DEF Inv, WorldInv, WorldAt
<1>2. e \in Entity /\ f \in Entity /\ e # Outsider
  BY <1>1, Names
<1>3. /\ members' = [members EXCEPT ![e] = @ \ {f}] /\ dropped' = [dropped EXCEPT ![<<e, f>>] = now]
      /\ now' = now /\ num' = num /\ retired' = retired /\ issued' = issued
  BY DEF Drop
<1>4. /\ members' \in [Entity -> SUBSET (Middle \cup {Subject})] /\ members'[Outsider] = {}
      /\ dropped' \in [Entity \X Entity -> 0..Never]
  BY <1>1, <1>2, <1>3, Numbers
<1>5. ASSUME NEW g \in Entity, NEW h \in members'[g]
      PROVE  dropped'[<<g, h>>] = Never
  <2>1. h \in members[g] /\ h \in Entity /\ <<g, h>> # <<e, f>>
    BY <1>1, <1>2, <1>3, Names
  <2> QED
    BY <1>1, <1>3, <2>1
<1>6. WorldInv'
  BY <1>3, <1>4, <1>5 DEF Inv, WorldInv, WorldAt
<1>7. Onward
  BY <1>1, <1>3, <1>4, Numbers DEF Onward
<1> QED
  BY <1>3, <1>6, <1>7, WorldStep DEF Drop
-----------------------------------------------------------------------------
\* A statement under a key that a member's statement carries is a member's.
LEMMA Upward ==
    ASSUME Inv, NEW st \in issued, NEW keys, Verify(st, keys), \A k \in keys : k[1] # Outsider
    PROVE  Member(st, now, retired, dropped)
<1>1. st.signer[1] # Outsider
  BY DEF Verify
<1>2. ~Foreign(st)
  BY <1>1 DEF Foreign, OutsiderKey
<1> QED
  BY <1>2 DEF Inv, IssuedInv

\* The statement was true not longer than a Lifetime ago.
Recent(st) ==
    /\ Member(st, now, retired, dropped)
    /\ now < st.iat + Lifetime

LEMMA RecentStatement ==
    ASSUME Inv, NEW st, Member(st, now, retired, dropped), ValidateStatementClaims(st)
    PROVE  Recent(st)
BY DEF ValidateStatementClaims, Recent, Member

LEMMA MemberKeys ==
    ASSUME NEW st, Member(st, now, retired, dropped)
    PROVE  \A k \in st.jwks : k[1] # Outsider
BY DEF Member

\* Chains through an authority directly below the anchor, or none.
LEMMA ChainShape ==
    ASSUME NEW a \in Anchor, NEW c \in Chains(a), ValidateTrustChain(c, Subject, a)
    PROVE  /\ Len(c) \in {3, 4}
           /\ \A i \in 1..Len(c) : c[i] \in issued
           /\ \A i \in 2..(Len(c) - 1) : c[i].iss # c[i].sub
<1>1. CASE c \in {<<ec>> : ec \in About(a, a)}
  BY <1>1, Names DEF ValidateTrustChain, About
<1>2. CASE c \in About(Subject, Subject) \X About(a, Subject) \X About(a, a)
  <2>1. /\ c = <<c[1], c[2], c[3]>> /\ Len(c) = 3
        /\ c[1] \in issued /\ c[2] \in issued /\ c[3] \in issued
        /\ c[2].iss = a /\ c[2].sub = Subject
    BY <1>2 DEF About
  <2> QED
    BY <2>1, Names
<1>3. ASSUME NEW m \in Middle \cup {Outsider},
             c \in About(Subject, Subject) \X About(m, Subject) \X About(a, m) \X About(a, a)
      PROVE  /\ Len(c) = 4
             /\ \A i \in 1..4 : c[i] \in issued
             /\ \A i \in 2..3 : c[i].iss # c[i].sub
  <2>1. /\ Len(c) = 4
        /\ c[1] \in issued /\ c[2] \in issued /\ c[3] \in issued /\ c[4] \in issued
        /\ c[2].iss = m /\ c[2].sub = Subject /\ c[3].iss = a /\ c[3].sub = m
    BY <1>3 DEF About
  <2>2. m # Subject /\ a # m
    BY Names
  <2> QED
    BY <2>1, <2>2
<1> QED
  BY <1>1, <1>2, <1>3 DEF Chains

\* Every statement of a valid chain is a member's and recent.
LEMMA ChainGenuine ==
    ASSUME Inv, NEW a \in Anchor, NEW c \in Chains(a), ValidateTrustChain(c, Subject, a)
    PROVE  \A i \in 1..Len(c) : Recent(c[i])
<1>1. Len(c) \in {3, 4} /\ \A i \in 1..Len(c) : c[i] \in issued
  BY ChainShape
<1>2. /\ \A i \in 1..Len(c) : ValidateStatementClaims(c[i])
      /\ \A i \in 1..(Len(c) - 1) : Verify(c[i], c[i + 1].jwks)
      /\ Verify(c[Len(c)], TaKeys(a))
  BY DEF ValidateTrustChain, VerifyLinks
<1>3. Member(c[Len(c)], now, retired, dropped)
  <2>1. \A k \in TaKeys(a) : k[1] # Outsider
    BY Names DEF TaKeys
  <2>2. c[Len(c)] \in issued
    <3>1. Len(c) \in 1..Len(c)
      BY <1>1
    <3> QED
      BY <1>1, <3>1
  <2> QED
    BY <1>2, <2>1, <2>2, Upward
<1>4. ASSUME NEW i \in 1..(Len(c) - 1), Member(c[i + 1], now, retired, dropped)
      PROVE  Member(c[i], now, retired, dropped)
  <2>1. c[i] \in issued /\ Verify(c[i], c[i + 1].jwks)
    BY <1>1, <1>2
  <2>2. \A k \in c[i + 1].jwks : k[1] # Outsider
    BY <1>4, MemberKeys
  <2> QED
    BY <2>1, <2>2, Upward
<1>5. \A i \in 1..Len(c) : Member(c[i], now, retired, dropped)
  <2>1. CASE Len(c) = 3
    <3>1. Member(c[2], now, retired, dropped)
      BY <1>3, <1>4, <2>1
    <3>2. Member(c[1], now, retired, dropped)
      BY <1>4, <2>1, <3>1
    <3> QED
      BY <1>3, <2>1, <3>1, <3>2
  <2>2. CASE Len(c) = 4
    <3>1. Member(c[3], now, retired, dropped)
      BY <1>3, <1>4, <2>2
    <3>2. Member(c[2], now, retired, dropped)
      BY <1>4, <2>2, <3>1
    <3>3. Member(c[1], now, retired, dropped)
      BY <1>4, <2>2, <3>2
    <3> QED
      BY <1>3, <2>2, <3>1, <3>2, <3>3
  <2> QED
    BY <1>1, <2>1, <2>2
<1> QED
  BY <1>2, <1>5, RecentStatement

\* The result of a valid chain is genuine and within its time.
LEMMA ResolvedGenuine ==
    ASSUME Inv, NEW a \in Anchor, NEW c \in Chains(a), NEW t \in ResponseTime,
           ValidateTrustChain(c, Subject, a), NEW r, r = ResolvedEntity(c, a, t)
    PROVE  /\ r.at \in 0..now /\ r.exp \in Nat /\ r.exp <= r.at + Lifetime
           /\ r.subject_jwks # {} /\ r.subject_jwks \subseteq Key
           /\ r.links \subseteq Entity \X Entity
           /\ \A k \in r.subject_jwks : k[1] = Subject /\ r.at < retired[k] + Lifetime
           /\ \A x \in r.links : r.at < dropped[x] + Lifetime
<1>1. /\ r.at = now /\ r.exp = t + Lifetime /\ r.subject_jwks = c[1].jwks
      /\ r.links = {<<c[i].iss, c[i].sub>> : i \in 2..(Len(c) - 1)}
  BY DEF ResolvedEntity
<1>2. /\ now \in Nat /\ retired \in [Key -> 0..Never] /\ dropped \in [Entity \X Entity -> 0..Never]
  BY Numbers DEF Inv, WorldInv, WorldAt
<1>3. t \in Nat /\ t <= now
  BY <1>2 DEF ResponseTime
<1>4. /\ Len(c) \in {3, 4} /\ \A i \in 2..(Len(c) - 1) : c[i].iss # c[i].sub
      /\ \A i \in 1..Len(c) : Recent(c[i])
  BY ChainShape, ChainGenuine
<1>5. c[1].sub = Subject /\ Recent(c[1])
  BY <1>4 DEF ValidateTrustChain
<1>6. ASSUME NEW k \in c[1].jwks
      PROVE  k \in Key /\ k[1] = Subject /\ now < retired[k] + Lifetime
  <2>1. /\ k \in Key /\ k[1] = Subject /\ c[1].iat \in 0..now /\ c[1].iat <= retired[k]
        /\ now < c[1].iat + Lifetime
    BY <1>5 DEF Recent, Member
  <2> QED
    BY <1>2, <2>1, Numbers
<1>7. ASSUME NEW i \in 2..(Len(c) - 1)
      PROVE  /\ <<c[i].iss, c[i].sub>> \in Entity \X Entity
             /\ now < dropped[<<c[i].iss, c[i].sub>>] + Lifetime
  <2>1. Recent(c[i]) /\ c[i].iss # c[i].sub
    BY <1>4
  <2>2. /\ <<c[i].iss, c[i].sub>> \in Entity \X Entity /\ c[i].iat \in 0..now
        /\ c[i].iat <= dropped[<<c[i].iss, c[i].sub>>] /\ now < c[i].iat + Lifetime
    BY <2>1 DEF Recent, Member
  <2> QED
    BY <1>2, <2>2, Numbers
<1>8. c[1].jwks # {}
  BY <1>5 DEF Recent, Member
<1> QED
  BY <1>1, <1>2, <1>3, <1>6, <1>7, <1>8, Numbers
-----------------------------------------------------------------------------
\* Steps of the client leave the world alone.
LEMMA ClientStep ==
    ASSUME Inv, UNCHANGED world, ResultInv', ClientInv'
    PROVE  Inv'
<1>1. WorldInv'
  BY DEF Inv, WorldInv, world
<1>2. IssuedInv'
  BY DEF Inv, IssuedInv, world
<1> QED
  BY <1>1, <1>2 DEF Inv

LEMMA ResultSame ==
    ASSUME Inv, UNCHANGED world, result' = result
    PROVE  ResultInv'
BY DEF Inv, ResultInv, world

LEMMA GotResponseInv ==
    ASSUME Inv, GotResponse
    PROVE  Inv'
<1>1. UNCHANGED world /\ anchor' = anchor /\ protocol' = protocol
  BY DEF GotResponse
<1>2. PICK c \in Chains(anchor), t \in ResponseTime :
          ValidateTrustChain(c, Subject, anchor) /\ result' = {ResolvedEntity(c, anchor, t)}
  BY DEF GotResponse
<1>3. anchor \in Anchor
  BY DEF Inv, ClientInv
<1>4. now' = now /\ retired' = retired /\ dropped' = dropped
  BY <1>1 DEF world
<1>5. ResultInv'
  BY <1>2, <1>3, <1>4, ResolvedGenuine DEF ResultInv
<1>6. ClientInv'
  BY <1>1 DEF Inv, ClientInv
<1> QED
  BY <1>1, <1>5, <1>6, ClientStep

\* A key set that passes is the subject's: nobody else has its keys.
LEMMA SignedSetGenuine ==
    ASSUME Inv, NEW r \in result, NEW set \in SignedSet, SignedSetOk(set, r.subject_jwks)
    PROVE  set.keys = {Subject}
<1>1. set.signer[1] = Subject /\ set.sub = Subject
  BY DEF SignedSetOk, Inv, ResultInv
<1>2. set.signer # OutsiderKey
  BY <1>1, Names DEF OutsiderKey
<1> QED
  BY <1>1, <1>2 DEF SignedSet

LEMMA KeyInv ==
    ASSUME Inv, KeyNext
    PROVE  Inv'
<1>1. UNCHANGED world /\ anchor' = anchor /\ result' = result
  BY DEF KeyNext, MetadataKeys, GotSignedKeys, GotKeys, NoKeys
<1>2. protocol' \subseteq {Subject}
  <2>1. ASSUME NEW has, NEW u, MetadataKeys(has, u) PROVE protocol' \subseteq {Subject}
    BY <2>1 DEF MetadataKeys
  <2>2. CASE GotSignedKeys
    BY <2>2, SignedSetGenuine DEF GotSignedKeys
  <2>3. CASE GotKeys \/ NoKeys
    BY <2>3 DEF GotKeys, NoKeys, Inv, ClientInv
  <2> QED
    BY <2>1, <2>2, <2>3 DEF KeyNext
<1>3. ClientInv'
  BY <1>1, <1>2 DEF Inv, ClientInv
<1> QED
  BY <1>1, <1>3, ResultSame, ClientStep

LEMMA NextInv ==
    ASSUME Inv, [Next]_vars
    PROVE  Inv'
<1>1. CASE World
  BY <1>1, TickInv, RotateInv, DropInv DEF World
<1>2. CASE Resolve
  BY <1>2, ResultSame, ClientStep DEF Resolve, Inv, ClientInv
<1>3. ASSUME NEW a \in Configured, NextAnchor(a) PROVE Inv'
  <2>1. UNCHANGED world /\ result' = result /\ protocol' = protocol /\ anchor' = a
    BY <1>3 DEF NextAnchor
  <2>2. ClientInv'
    BY <2>1, Names DEF Inv, ClientInv
  <2> QED
    BY <2>1, <2>2, ResultSame, ClientStep
<1>4. CASE GotConfiguration \/ AnchorFails \/ GiveUp
  <2>1. UNCHANGED world /\ result' = result /\ protocol' = protocol /\ anchor' = anchor
    BY <1>4 DEF GotConfiguration, AnchorFails, GiveUp
  <2>2. ClientInv'
    BY <2>1 DEF Inv, ClientInv
  <2> QED
    BY <2>1, <2>2, ResultSame, ClientStep
<1>5. CASE Client
  BY <1>3, <1>4, <1>5, GotResponseInv DEF Client
<1>6. CASE UNCHANGED fedVars
  <2>1. UNCHANGED world /\ result' = result /\ protocol' = protocol /\ anchor' = anchor
    BY <1>6 DEF fedVars, world
  <2>2. ClientInv'
    BY <2>1 DEF Inv, ClientInv
  <2> QED
    BY <2>1, <2>2, ResultSame, ClientStep
<1>7. FederationNext \/ UNCHANGED fedVars
  BY DEF Next, vars, Discovery, AskByRelyingParty, AskByLink, Verified, Show, Select,
        StrayCall, Login, Refuse
<1> QED
  BY <1>1, <1>2, <1>5, <1>6, <1>7, KeyInv DEF FederationNext

\* Every state of a run satisfies the invariant.
LEMMA InvHolds == Spec => []Inv
<1>1. Init => Inv
  BY InitInv DEF Init
<1>2. Inv /\ [Next]_vars => Inv'
  BY NextInv
<1> QED
  BY <1>1, <1>2, PTL DEF Spec

\* The keys that validate_trust_chain, extract_resolved_entity and
\* entity_metadata_jwks yield are the subject's own, in any federation, for chains
\* with at most one intermediate.
THEOREM KeysGenuineHolds == Spec => []KeysGenuine
<1>1. Inv => KeysGenuine
  BY DEF Inv, ResultInv, ClientInv, KeysGenuine
<1> QED
  BY <1>1, InvHolds, PTL

\* The claims check of validate_trust_chain bounds how long a link or a key that
\* has ended can still carry a resolution, and the exp of the result its use, for
\* chains with at most one intermediate.
THEOREM TrustLapsesHolds == Spec => []TrustLapses
<1>1. ASSUME Inv PROVE TrustLapses
  <2> SUFFICES ASSUME NEW r \in result,
                      NEW end \in {dropped[x] : x \in r.links}
                                  \cup {retired[k] : k \in r.subject_jwks}
               PROVE  r.at < end + Lifetime /\ (now < r.exp => now < end + 2 * Lifetime)
    BY DEF TrustLapses
  <2>1. /\ now \in Nat /\ retired \in [Key -> 0..Never]
        /\ dropped \in [Entity \X Entity -> 0..Never]
    BY <1>1, Numbers DEF Inv, WorldInv, WorldAt
  <2>2. /\ r.at \in 0..now /\ r.exp \in Nat /\ r.exp <= r.at + Lifetime
        /\ r.subject_jwks \subseteq Key /\ r.links \subseteq Entity \X Entity
    BY <1>1 DEF Inv, ResultInv
  <2>3. end \in Nat
    BY <2>1, <2>2, Numbers
  <2>4. r.at < end + Lifetime
    BY <1>1 DEF Inv, ResultInv
  <2> QED
    BY <2>1, <2>2, <2>3, <2>4, Numbers
<1> QED
  BY <1>1, InvHolds, PTL
-----------------------------------------------------------------------------
\* Whoever asked, the URI found is that party's own, and fit to redirect to.
UriInv ==
    /\ \A r, s \in request : r = s
    /\ \A r \in request : r.rp \in {Subject, Outsider}
    /\ step \in {"home", "verify"} => uri = {}
    /\ \A l \in uri, r \in request :
          l.owner = r.rp /\ l.url.scheme = "https" /\ ~l.url.fragment

\* A configuration that passes was signed by the relying party: in a member's
\* name only by the member, and in Outsider's name by no member.
LEMMA FoundOwn ==
    ASSUME Inv, NEW rp \in {Subject, Outsider}, NEW l \in Found(rp)
    PROVE  l.owner = rp
<1>1. ASSUME NEW st \in Served(rp), SelfPublishedOk(st, rp)
      PROVE  st.signer[1] = rp
  <2>1. CASE rp = Subject
    BY <2>1, Names DEF Served
  <2>2. CASE rp = Outsider
    <3>1. st \in issued /\ st.iss = Outsider
      BY <1>1, <2>2 DEF Served, SelfPublishedOk
    <3>2. Foreign(st)
      BY <3>1 DEF Inv, IssuedInv, Member
    <3> QED
      BY <2>2, <3>2 DEF Foreign, OutsiderKey
  <2> QED
    BY <2>1, <2>2
<1>2. rp \in Entity
  BY Names
<1>3. l \in LoginUri[rp]
  BY <1>1 DEF Found
<1> QED
  BY <1>2, <1>3, OwnUriAssumption

LEMMA UriStep ==
    ASSUME Inv, UriInv, [Next]_vars
    PROVE  UriInv'
<1>1. CASE UNCHANGED flow
  BY <1>1 DEF UriInv, flow
<1>2. ASSUME NEW r \in Request, AskByRelyingParty(r) \/ AskByLink(r)
      PROVE  UriInv'
  <2>1. step = "home" /\ step' = "verify" /\ request' = {r} /\ uri' = uri
    BY <1>2 DEF AskByRelyingParty, AskByLink
  <2>2. r.rp \in {Subject, Outsider}
    BY RequestAssumption
  <2> QED
    BY <2>1, <2>2 DEF UriInv
<1>3. CASE Verified
  <2>1. PICK r \in request : \E l \in Found(r.rp) : InitiateLoginUriOk(l) /\ uri' = {l}
    BY <1>3 DEF Verified
  <2>2. PICK l \in Found(r.rp) : InitiateLoginUriOk(l) /\ uri' = {l}
    BY <2>1
  <2>3. l.owner = r.rp /\ l.url.scheme = "https" /\ ~l.url.fragment
    BY <2>2, FoundOwn DEF UriInv, InitiateLoginUriOk
  <2>4. request' = request /\ step' = "verified"
    BY <1>3 DEF Verified
  <2> QED
    BY <2>2, <2>3, <2>4 DEF UriInv
<1>4. ASSUME NEW b, Show(b) PROVE UriInv'
  BY <1>4 DEF Show, UriInv
<1>5. ASSUME NEW o, Select(o) PROVE UriInv'
  BY <1>5 DEF Select, UriInv
<1>6. ASSUME NEW q, StrayCall(q) PROVE UriInv'
  BY <1>6 DEF StrayCall, UriInv
<1>7. CASE Login \/ Refuse
  BY <1>7 DEF Login, Refuse, UriInv
<1> QED
  BY <1>1, <1>2, <1>3, <1>4, <1>5, <1>6, <1>7 DEF Next, vars, Discovery

\* self_published_rp and a resolution through the trust anchors both yield a URI
\* of the relying party named in the request, whatever keys are replaced and
\* members dropped between the steps of a discovery.
THEOREM SentToOwnUriHolds == Spec => []SentToOwnUri
<1>1. Init => UriInv
  BY DEF Init, UriInv
<1>2. Inv /\ UriInv /\ [Next]_vars => UriInv'
  BY UriStep
<1>3. UriInv => SentToOwnUri
  BY DEF UriInv, SentToOwnUri
<1> QED
  BY <1>1, <1>2, <1>3, InvHolds, PTL DEF Spec
-----------------------------------------------------------------------------
(* The list of OPs.                                                         *)

\* A set of positions has a k-th one for every k up to its size.
LEMMA NthFacts ==
    ASSUME NEW n \in Nat, NEW I \in SUBSET (1..n)
    PROVE  /\ Cardinality(I) \in Nat
           /\ \A k \in 1..Cardinality(I) :
                 Nth(I, k) \in I /\ Cardinality({j \in I : j <= Nth(I, k)}) = k
<1> DEFINE Upto(i) == {j \in I : j <= i}
           rank == [i \in I |-> Cardinality(Upto(i))]
<1>0. IsFiniteSet(1..n) /\ I \subseteq Nat
  BY FS_Interval
<1>1. IsFiniteSet(I) /\ Cardinality(I) \in Nat
  BY <1>0, FS_Subset, FS_CardinalityType
<1>2. ASSUME NEW i \in I
      PROVE  IsFiniteSet(Upto(i)) /\ Cardinality(Upto(i)) \in 1..Cardinality(I)
  <2>1. IsFiniteSet(Upto(i)) /\ Cardinality(Upto(i)) <= Cardinality(I)
    BY <1>1, FS_Subset
  <2>2. Upto(i) # {}
    OBVIOUS
  <2>3. Cardinality(Upto(i)) \in Nat /\ Cardinality(Upto(i)) # 0
    BY <2>1, <2>2, FS_CardinalityType, FS_EmptySet
  <2> QED
    BY <1>1, <2>1, <2>3
<1>3. ASSUME NEW i \in I, NEW j \in I, i < j
      PROVE  Cardinality(Upto(i)) # Cardinality(Upto(j))
  <2>0. i \in Nat /\ j \in Nat /\ \A k \in I : k \in Nat
    BY <1>0
  <2>1. Upto(i) \in SUBSET Upto(j)
    <3>1. \A k \in I : k <= i => k <= j
      BY <1>3, <2>0
    <3> QED
      BY <3>1
  <2>2. j \in Upto(j) /\ j \notin Upto(i)
    BY <1>3
  <2>3. IsFiniteSet(Upto(j))
    BY <1>2
  <2> HIDE DEF Upto
  <2> QED
    BY <2>1, <2>2, <2>3, FS_Subset
<1> HIDE DEF Upto
<1>4. rank \in Injection(I, 1..Cardinality(I))
  <2>1. rank \in [I -> 1..Cardinality(I)]
    BY <1>2
  <2>2. \A i, j \in I : rank[i] = rank[j] => i = j
    BY <1>3
  <2> QED
    BY <2>1, <2>2 DEF Injection, IsInjective
<1>5. IsFiniteSet(1..Cardinality(I)) /\ Cardinality(1..Cardinality(I)) = Cardinality(I)
  <2>1. \A m \in Nat : IsFiniteSet(1..m) /\ Cardinality(1..m) = m
    BY FS_Interval
  <2> QED
    BY <1>1, <2>1
<1>6. rank \in Surjection(I, 1..Cardinality(I))
  BY <1>4, <1>5, FS_Injection
<1>7. ASSUME NEW k \in 1..Cardinality(I)
      PROVE  \E i \in I : Cardinality(Upto(i)) = k
  BY <1>6 DEF Surjection
<1>8. ASSUME NEW k \in 1..Cardinality(I)
      PROVE  Nth(I, k) \in I /\ Cardinality(Upto(Nth(I, k))) = k
  <2>1. \E i \in I : Cardinality({j \in I : j <= i}) = k
    BY <1>7 DEF Upto
  <2> QED
    BY <2>1, Zenon DEF Nth, Upto
<1> QED
  BY <1>1, <1>8 DEF Upto

\* A set of positions that is not empty has a first one.
LEMMA FirstPosition ==
    ASSUME NEW n \in Nat, NEW I \in SUBSET (1..n), I # {}
    PROVE  \E i \in I : \A j \in I : i <= j
<1>0. IsFiniteSet(1..n) /\ \A k \in I : k \in Nat
  BY FS_Interval
<1>6. IsFiniteSet(I)
  BY <1>0, FS_Subset
<1>1. Cardinality(I) \in Nat /\ Cardinality(I) # 0
  BY <1>6, NthFacts, FS_EmptySet
<1>2. PICK i \in I : Cardinality({j \in I : j <= i}) = 1
  <2>1. 1 \in 1..Cardinality(I)
    BY <1>1
  <2> QED
    BY <2>1, NthFacts
<1>3. IsFiniteSet({j \in I : j <= i})
  <2>1. {j \in I : j <= i} \in SUBSET I
    OBVIOUS
  <2> QED
    BY <1>6, <2>1, FS_Subset
<1>4. \E x : {j \in I : j <= i} = {x}
  BY <1>2, <1>3, FS_Singleton
<1>5. \A j \in I : j <= i => j = i
  BY <1>4
<1> QED
  BY <1>0, <1>5

\* The sequence d is a followed by b.
Follows(d, a, b) ==
    /\ Len(d) = Len(a) + Len(b)
    /\ \A i \in 1..Len(a) : d[i] = a[i]
    /\ \A i \in (Len(a) + 1)..(Len(a) + Len(b)) : d[i] = b[i - Len(a)]

\* The concatenation of sequences.
LEMMA JoinFacts ==
    ASSUME NEW T, NEW a \in Seq(T), NEW b \in Seq(T)
    PROVE  a \o b \in Seq(T) /\ Follows(a \o b, a, b)
<1>1. Len(a) \in Nat /\ Len(b) \in Nat
  OBVIOUS
<1>2. PICK d : d = a \o b
  OBVIOUS
<1>3. d \in Seq(T) /\ Len(d) = Len(a) + Len(b)
  BY <1>2, ConcatProperties
<1>4. \A i \in 1..(Len(a) + Len(b)) : d[i] = IF i <= Len(a) THEN a[i] ELSE b[i - Len(a)]
  BY <1>2, ConcatProperties
<1>5. Follows(d, a, b)
  BY <1>1, <1>3, <1>4 DEF Follows
<1> QED
  BY <1>2, <1>3, <1>5

\* promote_hint moves one entry to the front and keeps the order of the others.
LEMMA MovedFacts ==
    ASSUME NEW T, NEW s \in Seq(T), NEW p \in 1..Len(s)
    PROVE  LET moved == <<s[p]>> \o SubSeq(s, 1, p - 1) \o SubSeq(s, p + 1, Len(s))
           IN  /\ DOMAIN moved = 1..Len(s)
               /\ Len(moved) = Len(s)
               /\ moved[1] = s[p]
               /\ \A i \in 2..p : moved[i] = s[i - 1]
               /\ \A i \in (p + 1)..Len(s) : moved[i] = s[i]
<1>1. PICK a : a = <<s[p]>>
  OBVIOUS
<1>2. PICK b : b = SubSeq(s, 1, p - 1)
  OBVIOUS
<1>3. PICK c : c = SubSeq(s, p + 1, Len(s))
  OBVIOUS
<1>4. a \in Seq(T) /\ Len(a) = 1 /\ a[1] = s[p]
  BY <1>1
<1>5. b \in Seq(T) /\ Len(b) = p - 1 /\ \A i \in 1..(p - 1) : b[i] = s[i]
  BY <1>2
<1>6. c \in Seq(T) /\ Len(c) = Len(s) - p /\ \A i \in 1..(Len(s) - p) : c[i] = s[i + p]
  BY <1>3
<1>7. PICK d : d = a \o b
  OBVIOUS
<1>8. d \in Seq(T) /\ Len(d) = p /\ d[1] = s[p] /\ \A i \in 2..p : d[i] = s[i - 1]
  <2>1. a \in Seq(T) /\ b \in Seq(T)
    BY <1>4, <1>5
  <2>2. d \in Seq(T) /\ Follows(d, a, b)
    BY <1>7, <2>1, JoinFacts, Zenon
  <2> QED
    BY <1>4, <1>5, <2>2 DEF Follows
<1>9. PICK e : e = d \o c
  OBVIOUS
<1>10. e \in Seq(T) /\ Follows(e, d, c)
  <2>1. d \in Seq(T) /\ c \in Seq(T)
    BY <1>6, <1>8
  <2> QED
    BY <1>9, <2>1, JoinFacts, Zenon
<1>11. /\ e \in Seq(T) /\ Len(e) = Len(s)
       /\ \A i \in 1..p : e[i] = d[i]
       /\ \A i \in (p + 1)..Len(s) : e[i] = c[i - p]
  BY <1>6, <1>8, <1>10 DEF Follows
<1>12. ASSUME NEW i \in (p + 1)..Len(s) PROVE e[i] = s[i]
  <2>1. i - p \in 1..(Len(s) - p) /\ (i - p) + p = i
    BY LenProperties
  <2> QED
    BY <1>6, <1>11, <2>1
<1>13. e[1] = s[p] /\ \A i \in 2..p : e[i] = s[i - 1]
  BY <1>8, <1>11
<1>14. e = <<s[p]>> \o SubSeq(s, 1, p - 1) \o SubSeq(s, p + 1, Len(s))
  BY <1>1, <1>2, <1>3, <1>7, <1>9
<1>15. DOMAIN e = 1..Len(s)
  BY <1>11
<1> QED
  BY <1>11, <1>12, <1>13, <1>14, <1>15, Zenon

\* The collection has the OP o.
Listed(o, b) == \E i \in DOMAIN b : b[i].id = {o} /\ "openid_provider" \in b[i].types

\* The list l has the OPs of the response b, whose identifiers are ops, in order.
Lists(l, ops, b) ==
    /\ l \in Seq(OpId)
    /\ DOMAIN ops = 1..Len(l) /\ Len(ops) = Len(l)
    /\ \A i \in 1..Len(l) : ops[i] = {l[i]} /\ Listed(l[i], b)

\* parse_collection takes the OPs of the response, all of them and in its order.
LEMMA CollectionFacts ==
    ASSUME NEW b \in Body
    PROVE  Lists(ParseCollection(b), Ops(b), b)
<1>1. PICK kept : kept = Advertised(b)
  OBVIOUS
<1>2. PICK n : n = Cardinality(kept)
  OBVIOUS
<1>3. b \in Seq([id : {{}} \cup {{o} : o \in OpId}, types : SUBSET STRING])
  BY BodyAssumption
<1>4. Len(b) \in Nat /\ DOMAIN b = 1..Len(b)
  BY <1>3
<1>5. n \in Nat /\ \A k \in 1..n : Nth(kept, k) \in kept
  <2>1. kept \in SUBSET (1..Len(b))
    BY <1>1, <1>4 DEF Advertised
  <2> QED
    BY <1>2, <1>4, <2>1, NthFacts
<1>6. ASSUME NEW i \in kept
      PROVE  /\ i \in DOMAIN b
             /\ "openid_provider" \in b[i].types
             /\ \E o \in OpId : b[i].id = {o}
  <2>1. i \in DOMAIN b /\ Advertises(b[i])
    BY <1>1 DEF Advertised
  <2>2. b[i] \in [id : {{}} \cup {{o} : o \in OpId}, types : SUBSET STRING]
    BY <1>3, <1>4, <2>1, ElementOfSeq
  <2>3. b[i].id \in {{}} \cup {{o} : o \in OpId}
    BY <2>2
  <2> QED
    BY <2>1, <2>3 DEF Advertises
<1>7. PICK l : l = ParseCollection(b)
  OBVIOUS
<1>8. l = [k \in 1..n |-> CHOOSE o \in b[Nth(kept, k)].id : TRUE]
  BY <1>1, <1>2, <1>7 DEF ParseCollection
<1>9. PICK ops : ops = Ops(b)
  OBVIOUS
<1>10. ops = [k \in 1..n |-> b[Nth(kept, k)].id]
  BY <1>1, <1>2, <1>9 DEF Ops
<1>11. ASSUME NEW k \in 1..n
       PROVE  l[k] \in OpId /\ ops[k] = {l[k]} /\ Listed(l[k], b)
  <2>1. PICK i \in kept : i = Nth(kept, k)
    BY <1>5
  <2>2. PICK o \in OpId : b[i].id = {o}
    BY <1>6
  <2>3. l[k] = CHOOSE x \in {o} : TRUE
    BY <1>8, <2>1, <2>2
  <2>4. l[k] = o
    BY <2>3
  <2>5. ops[k] = {o}
    BY <1>10, <2>1, <2>2
  <2> QED
    BY <1>6, <2>2, <2>4, <2>5 DEF Listed
<1>12. l \in Seq(OpId) /\ Len(l) = n
  <2>1. l \in [1..n -> OpId]
    BY <1>8, <1>11
  <2> QED
    BY <1>5, <2>1, SeqDef
<1>13. DOMAIN ops = 1..n /\ Len(ops) = n
  BY <1>5, <1>10
<1> QED
  BY <1>7, <1>9, <1>11, <1>12, <1>13 DEF Lists

\* EntityIdEq with the hint, if any.
Hinted(o, hint) == \E h \in hint : EntityIdEq(o, h)

\* What HintLeads says, as a relation between the list, the response's OPs and the hint.
Leads(l, ops, hint) ==
    LET any == \E i \in DOMAIN ops : \A o \in ops[i] : Hinted(o, hint)
    IN  /\ Len(l) = Len(ops)
        /\ any => Hinted(l[1], hint)
        /\ \E p \in DOMAIN ops \cup {0} :
              /\ \A i \in DOMAIN l :
                    {l[i]} = IF i = 1 /\ p > 0 THEN ops[p]
                             ELSE IF i <= p THEN ops[i - 1] ELSE ops[i]
              /\ (p = 0) = ~any

\* Where no OP is hinted, the response's order stands.
LEMMA UnhintedLeads ==
    ASSUME NEW l, NEW ops, NEW b, NEW hint, Lists(l, ops, b),
           \A i \in 1..Len(l) : ~Hinted(l[i], hint)
    PROVE  Leads(l, ops, hint)
<1>1. Len(l) \in Nat /\ DOMAIN l = 1..Len(l)
  BY DEF Lists
<1>2. ~\E i \in DOMAIN ops : \A o \in ops[i] : Hinted(o, hint)
  BY DEF Lists
<1>3. \A i \in DOMAIN l :
         {l[i]} = IF i = 1 /\ 0 > 0 THEN ops[0]
                  ELSE IF i <= 0 THEN ops[i - 1] ELSE ops[i]
  BY <1>1 DEF Lists
<1>4. Len(l) = Len(ops)
  BY DEF Lists
<1> QED
  BY <1>2, <1>3, <1>4 DEF Leads

\* promote_hint puts the first hinted OP in front, if there is one, and loses none.
LEMMA PromotedLeads ==
    ASSUME NEW l, NEW ops, NEW b, Lists(l, ops, b), NEW h
    PROVE  /\ Leads(Promote(l, h), ops, {h})
           /\ \A i \in DOMAIN Promote(l, h) : Listed(Promote(l, h)[i], b)
<1>1. Len(l) \in Nat /\ DOMAIN l = 1..Len(l) /\ l \in Seq(OpId)
  BY DEF Lists
<1>2. CASE Position(l, h) = {}
  <2> DEFINE M == {i \in 1..Len(l) : EntityIdEq(l[i], h)}
  <2>1. M = {}
    <3> SUFFICES ASSUME M # {} PROVE FALSE
      OBVIOUS
    <3>1. PICK i \in M : \A j \in M : i <= j
      <4>1. M \in SUBSET (1..Len(l))
        OBVIOUS
      <4> QED
        BY <1>1, <4>1, FirstPosition
    <3>2. \A j \in 1..(i - 1) : j \in 1..Len(l) /\ ~(i <= j)
      BY <1>1
    <3>3. \A j \in 1..(i - 1) : ~EntityIdEq(l[j], h)
      BY <3>1, <3>2
    <3>4. i \in Position(l, h)
      BY <1>1, <3>3 DEF Position
    <3> QED
      BY <1>2, <3>4
  <2>2. \A i \in 1..Len(l) : ~Hinted(l[i], {h})
    BY <2>1 DEF Hinted
  <2>3. Promote(l, h) = l
    BY <1>2 DEF Promote
  <2> QED
    BY <1>1, <2>2, <2>3, UnhintedLeads DEF Lists
<1>3. CASE Position(l, h) # {}
  <2>1. PICK p : p = CHOOSE i \in Position(l, h) : TRUE
    OBVIOUS
  <2>2. p \in Position(l, h)
    BY <1>3, <2>1, Zenon
  <2>3. p \in 1..Len(l) /\ EntityIdEq(l[p], h)
    BY <1>1, <2>2 DEF Position
  <2>4. PICK m : m = Promote(l, h)
    OBVIOUS
  <2>5. m = <<l[p]>> \o SubSeq(l, 1, p - 1) \o SubSeq(l, p + 1, Len(l))
    BY <1>3, <2>1, <2>4, Zenon DEF Promote
  <2>6. /\ DOMAIN m = 1..Len(l)
        /\ Len(m) = Len(l)
        /\ m[1] = l[p]
        /\ \A i \in 2..p : m[i] = l[i - 1]
        /\ \A i \in (p + 1)..Len(l) : m[i] = l[i]
    BY <1>1, <2>3, <2>5, MovedFacts, Zenon
  <2>7. Hinted(l[p], {h}) /\ p > 0
    BY <2>3 DEF Hinted
  <2>8. \E i \in DOMAIN ops : \A o \in ops[i] : Hinted(o, {h})
    BY <2>3, <2>7 DEF Lists
  <2>9. ASSUME NEW i \in 1..Len(l)
        PROVE  /\ {m[i]} = IF i = 1 /\ p > 0 THEN ops[p]
                            ELSE IF i <= p THEN ops[i - 1] ELSE ops[i]
               /\ Listed(m[i], b)
    <3>1. CASE i = 1
      BY <2>3, <2>6, <2>7, <3>1 DEF Lists
    <3>2. CASE i \in 2..p
      <4>1. m[i] = l[i - 1] /\ i - 1 \in 1..Len(l) /\ i # 1 /\ i <= p
        BY <1>1, <2>3, <2>6, <3>2
      <4> QED
        BY <4>1 DEF Lists
    <3>3. CASE i \in (p + 1)..Len(l)
      <4>1. m[i] = l[i] /\ i # 1 /\ ~(i <= p)
        BY <1>1, <2>3, <2>6, <3>3
      <4> QED
        BY <4>1 DEF Lists
    <3> QED
      BY <1>1, <2>3, <3>1, <3>2, <3>3
  <2>10. Len(m) = Len(ops) /\ p \in DOMAIN ops \cup {0}
    BY <2>3, <2>6 DEF Lists
  <2>11. Leads(m, ops, {h})
    <3>1. ((p = 0) = ~\E i \in DOMAIN ops : \A o \in ops[i] : Hinted(o, {h}))
      BY <2>7, <2>8
    <3>2. Hinted(m[1], {h})
      BY <2>6, <2>7
    <3> QED
      BY <2>6, <2>9, <2>10, <3>1, <3>2 DEF Leads
  <2> QED
    BY <2>4, <2>6, <2>9, <2>11
<1> QED
  BY <1>2, <1>3
-----------------------------------------------------------------------------
(* The discovery.                                                           *)

\* The hint of the request under way.
Hint == UNION {r.hint : r \in request}

\* What each step of a discovery leaves for the next one.  A call that is not the
\* page's leaves nothing picked, and so nothing is said of it.
DiscoveryInv ==
    /\ request \subseteq Request /\ \A r, q \in request : r = q
    /\ \A l, m \in uri : l = m
    /\ step = "shown" =>
          Leads(list, Ops(body), Hint) /\ \A i \in DOMAIN list : Listed(list[i], body)
    /\ step = "sent" =>
          \A o \in picked :
              /\ Listed(o, body)
              /\ \A q \in back, l \in uri, r \in request : q = ThirdPartyLoginUrl(l, o, r.target)
    /\ login # {} => step = "login"
    /\ SelectionArrives

\* The page lists the collection, with the hinted OP first.
LEMMA ShowStep ==
    ASSUME DiscoveryInv, NEW b \in Body, Show(b)
    PROVE  DiscoveryInv'
<1>1. /\ step = "verified" /\ step' = "shown" /\ body' = b
      /\ UNCHANGED <<request, uri, picked, back, login>>
  BY DEF Show
<1>2. login = {}
  BY <1>1 DEF DiscoveryInv
<1>3. PICK l : l = ParseCollection(b)
  OBVIOUS
<1>4. Lists(l, Ops(b), b)
  BY <1>3, CollectionFacts
<1>5. list' = IF Hint = {} THEN l ELSE Promote(l, CHOOSE h \in Hint : TRUE)
  BY <1>3 DEF Show, Hint
<1>6. Leads(list', Ops(b), Hint) /\ \A i \in DOMAIN list' : Listed(list'[i], b)
  <2>1. CASE Hint = {}
    <3>1. list' = l /\ \A i \in 1..Len(l) : ~Hinted(l[i], Hint)
      BY <1>5, <2>1 DEF Hinted
    <3>2. DOMAIN l = 1..Len(l)
      BY <1>4 DEF Lists
    <3> QED
      BY <1>4, <3>1, <3>2, UnhintedLeads DEF Lists
  <2>2. CASE Hint # {}
    <3>1. PICK h : h \in Hint
      BY <2>2
    <3>2. \A g \in Hint : g = h
      <4>1. PICK r \in request : h \in r.hint
        BY <3>1 DEF Hint
      <4>2. r \in Request /\ \A q \in request : q = r
        BY DEF DiscoveryInv
      <4>3. \A f, g \in r.hint : f = g
        BY <4>2, RequestAssumption
      <4> QED
        BY <4>1, <4>2, <4>3 DEF Hint
    <3>3. Hint = {h}
      BY <3>1, <3>2
    <3>4. (CHOOSE g \in Hint : TRUE) = h
      BY <3>3
    <3>5. list' = Promote(l, h)
      BY <1>5, <2>2, <3>4
    <3> QED
      BY <1>4, <3>3, <3>5, PromotedLeads
  <2> QED
    BY <2>1, <2>2
<1>7. Hint' = Hint
  BY <1>1 DEF Hint
<1>8. Ops(body)' = Ops(b)
  BY <1>1
<1> QED
  BY <1>1, <1>2, <1>6, <1>7, <1>8 DEF DiscoveryInv, SelectionArrives

\* A query that names an OP once is read as it is, and so is one with a target at
\* most once.
LEMMA IssAsSent ==
    ASSUME NEW l, NEW o, NEW t, NEW q, q = ThirdPartyLoginUrl(l, o, t),
           NEW p \in ParseThirdPartyInitiatedLogin(q), l.own.iss = {}
    PROVE  p.iss = o
BY DEF ThirdPartyLoginUrl, ParseThirdPartyInitiatedLogin

LEMMA TargetAsSent ==
    ASSUME NEW l, NEW o, NEW t \in {{}, {""}, {"link"}}, NEW q, q = ThirdPartyLoginUrl(l, o, t),
           NEW p \in ParseThirdPartyInitiatedLogin(q), l.own.target_link_uri = {}
    PROVE  p.target_link_uri = t \ {""}
<1>1. q.target_link_uri = t
  BY DEF ThirdPartyLoginUrl
<1>2. IF q.target_link_uri = {} THEN p.target_link_uri = {}
      ELSE \E v \in q.target_link_uri : p.target_link_uri = {v} \ {""}
  BY DEF ParseThirdPartyInitiatedLogin
<1> QED
  BY <1>1, <1>2

\* Every step of a discovery, with the federation's own steps in between.
LEMMA DiscoveryStep ==
    ASSUME DiscoveryInv, [Next]_vars
    PROVE  DiscoveryInv'
<1>1. CASE UNCHANGED flow
  <2>1. /\ step' = step /\ request' = request /\ uri' = uri /\ body' = body /\ list' = list
        /\ picked' = picked /\ back' = back /\ login' = login
    BY <1>1 DEF flow
  <2>2. Hint' = Hint /\ SelectionArrives' = SelectionArrives
    BY <2>1 DEF Hint, SelectionArrives
  <2> QED
    BY <2>1, <2>2 DEF DiscoveryInv
<1>2. ASSUME NEW r \in Request, AskByRelyingParty(r) \/ AskByLink(r)
      PROVE  DiscoveryInv'
  BY <1>2 DEF AskByRelyingParty, AskByLink, DiscoveryInv, SelectionArrives
<1>3. CASE Verified
  BY <1>3 DEF Verified, DiscoveryInv, SelectionArrives
<1>4. ASSUME NEW o \in OpId, Select(o) PROVE DiscoveryInv'
  <2>1. /\ step = "shown" /\ step' = "sent" /\ Listed(o, body) /\ picked' = {o} /\ login = {}
        /\ UNCHANGED <<request, uri, body, list, login>>
    BY <1>4 DEF Select, DiscoveryInv
  <2>2. ASSUME NEW q \in back', NEW l \in uri, NEW r \in request
        PROVE  q = ThirdPartyLoginUrl(l, o, r.target)
    <3>1. PICK m \in uri, x \in request : q = ThirdPartyLoginUrl(m, o, x.target)
      BY <1>4 DEF Select
    <3>2. m = l /\ x = r
      BY DEF DiscoveryInv
    <3> QED
      BY <3>1, <3>2
  <2> QED
    BY <2>1, <2>2 DEF DiscoveryInv, SelectionArrives
<1>5. ASSUME NEW q \in Stray, StrayCall(q) PROVE DiscoveryInv'
  BY <1>5 DEF StrayCall, DiscoveryInv, SelectionArrives
<1>6. CASE Login
  <2>1. PICK q \in back : \E p \in ParseThirdPartyInitiatedLogin(q) : login' = {p}
    BY <1>6 DEF Login
  <2>2. PICK p \in ParseThirdPartyInitiatedLogin(q) : login' = {p}
    BY <2>1
  <2>3. step = "sent" /\ step' = "login" /\ UNCHANGED <<request, uri, body, list, picked, back>>
    BY <1>6 DEF Login
  <2>4. ASSUME NEW o \in picked, NEW l \in uri, NEW r \in request
        PROVE  /\ Listed(o, body)
               /\ l.own.iss = {} => p.iss = o
               /\ l.own.target_link_uri = {} => p.target_link_uri = r.target \ {""}
    <3>1. Listed(o, body) /\ q = ThirdPartyLoginUrl(l, o, r.target)
      BY <2>3 DEF DiscoveryInv
    <3>2. r.target \in {{}, {""}, {"link"}}
      BY RequestAssumption DEF DiscoveryInv
    <3>3. l.own.iss = {} => p.iss = o
      BY <2>2, <3>1, IssAsSent
    <3>4. l.own.target_link_uri = {} => p.target_link_uri = r.target \ {""}
      BY <2>2, <3>1, <3>2, TargetAsSent
    <3> QED
      BY <3>1, <3>3, <3>4
  <2>5. ASSUME NEW x \in login', NEW o \in picked', NEW l \in uri', NEW r \in request'
        PROVE  /\ \E i \in DOMAIN body' : body'[i].id = {o} /\ "openid_provider" \in body'[i].types
               /\ l.own.iss = {} => x.iss = o
               /\ l.own.target_link_uri = {} => x.target_link_uri = r.target \ {""}
    <3>1. x = p /\ o \in picked /\ l \in uri /\ r \in request /\ body' = body
      BY <2>2, <2>3
    <3>2. \E i \in DOMAIN body : body[i].id = {o} /\ "openid_provider" \in body[i].types
      BY <2>4, <3>1 DEF Listed
    <3> QED
      BY <2>4, <3>1, <3>2
  <2>6. SelectionArrives'
    BY <2>5 DEF SelectionArrives
  <2> QED
    BY <2>3, <2>6 DEF DiscoveryInv
<1>7. CASE Refuse
  BY <1>7 DEF Refuse, DiscoveryInv, SelectionArrives
<1> QED
  BY <1>1, <1>2, <1>3, <1>4, <1>5, <1>6, <1>7, ShowStep DEF Next, vars, Discovery

\* The steps of a discovery hand on what they must.
LEMMA DiscoveryInvHolds == Spec => []DiscoveryInv
<1>1. Init => DiscoveryInv
  BY DEF Init, DiscoveryInv, SelectionArrives
<1>2. DiscoveryInv /\ [Next]_vars => DiscoveryInv'
  BY DiscoveryStep
<1> QED
  BY <1>1, <1>2, PTL DEF Spec

\* parse_collection and promote_hint show every OP of a response as often as it is
\* there, for every response and hint: a hinted one first, the rest in order.
THEOREM HintLeadsHolds == Spec => []HintLeads
<1>1. DiscoveryInv => HintLeads
  <2>1. \A o : Hinted(o, Hint) <=> \E r \in request : \E h \in r.hint : EntityIdEq(o, h)
    BY DEF Hinted, Hint
  <2> QED
    BY <2>1 DEF DiscoveryInv, HintLeads, Leads
<1> QED
  BY <1>1, DiscoveryInvHolds, PTL

\* third_party_login_url and parse_third_party_initiated_login carry the selection
\* over: for every relying party, response, request and stray call, a login that
\* came from the page is at the OP selected, with the target of the request.
THEOREM SelectionArrivesHolds == Spec => []SelectionArrives
BY DiscoveryInvHolds, PTL DEF DiscoveryInv
-----------------------------------------------------------------------------
(* Metadata policies, for any parameters, values and policies.              *)

\* A value with more items is a value.
LEMMA MoreItems ==
    ASSUME NEW v \in Value, NEW s \in SUBSET Item
    PROVE  /\ [v EXCEPT !.items = v.items \cup s] \in Value
           /\ [v EXCEPT !.items = v.items \cup s].items = v.items \cup s
BY DEF Value

\* The modifiers yield values again.
LEMMA ModifiedType ==
    ASSUME NEW m \in SUBSET Value, NEW o \in Operators
    PROVE  Modified(m, o) \in SUBSET Value
<1>1. Forced(m, o) \in SUBSET Value
  BY DEF Forced, Operators
<1>2. Defaulted(Forced(m, o), o) \in SUBSET Value
  BY <1>1 DEF Defaulted, Operators
<1>3. ASSUME NEW n \in SUBSET Value
      PROVE  Added(n, o) \in SUBSET Value
  <2>1. UNION o.add \in SUBSET Item
    BY DEF Operators
  <2>2. \A v \in Value : [v EXCEPT !.items = v.items \cup UNION o.add] \in Value
    BY <2>1, MoreItems
  <2>3. [array |-> TRUE, items |-> {}] \in Value
    BY DEF Value
  <2> QED
    BY <2>2, <2>3 DEF Added
<1> QED
  BY <1>2, <1>3 DEF Modified

\* No modifier removes a parameter.
LEMMA ModifiedPresent ==
    ASSUME NEW m \in SUBSET Value, NEW o \in Operators, m # {}
    PROVE  Modified(m, o) # {}
<1>1. Forced(m, o) # {}
  BY DEF Forced
<1>2. Defaulted(Forced(m, o), o) # {}
  BY <1>1 DEF Defaulted
<1>3. ASSUME NEW n, n # {} PROVE Added(n, o) # {}
  BY <1>3 DEF Added
<1> QED
  BY <1>2, <1>3 DEF Modified

\* Only value takes values away.
LEMMA ModifiedGrows ==
    ASSUME NEW m \in SUBSET Value, NEW o \in Operators, o.value = {}, NEW c \in Operators,
           SupersetOf(m, c)
    PROVE  SupersetOf(Modified(m, o), c)
<1> DEFINE items(n) == UNION {v.items : v \in n}
<1>1. Modified(m, o) = Added(Defaulted(m, o), o)
  BY DEF Modified, Forced
<1>2. Defaulted(m, o) \in SUBSET Value
  BY DEF Defaulted, Operators
<1>3. items(m) \subseteq items(Defaulted(m, o))
  BY DEF Defaulted
<1>4. ASSUME NEW n \in SUBSET Value
      PROVE  items(n) \subseteq items(Added(n, o))
  <2>1. CASE o.add = {}
    BY <2>1 DEF Added
  <2>2. CASE o.add # {} /\ n # {}
    <3>1. Added(n, o) = {IF v.array THEN [v EXCEPT !.items = v.items \cup UNION o.add] ELSE v :
                            v \in n}
      BY <2>2 DEF Added
    <3>2. ASSUME NEW v \in n
          PROVE  \E w \in Added(n, o) : v.items \subseteq w.items
      <4>1. CASE v.array
        <5>1. UNION o.add \in SUBSET Item
          BY DEF Operators
        <5>2. [v EXCEPT !.items = v.items \cup UNION o.add] \in Added(n, o)
          BY <3>1, <4>1
        <5> QED
          BY <5>1, <5>2, MoreItems
      <4>2. CASE ~v.array
        BY <3>1, <4>2
      <4> QED BY <4>1, <4>2
    <3> QED BY <3>2
  <2>3. CASE n = {}
    BY <2>3
  <2> QED BY <2>1, <2>2, <2>3
<1> QED
  BY <1>1, <1>2, <1>3, <1>4 DEF SupersetOf

\* Without modifiers nothing changes.
LEMMA ModifiedSame ==
    ASSUME NEW m, NEW o \in Operators, o.value = {}, o.add = {}, o.default = {}
    PROVE  Modified(m, o) = m
BY DEF Modified, Forced, Defaulted, Added
-----------------------------------------------------------------------------
\* The operators of a policy that has been applied.
LEMMA CallsType ==
    ASSUME PolicyTypeOK, NEW i \in DOMAIN calls, NEW p \in DOMAIN calls[i]
    PROVE  p \in Param /\ calls[i][p] \in Operators
<1>1. calls[i] \in Policy
  BY DEF PolicyTypeOK
<1> QED
  BY <1>1, PolicyAssumption

LEMMA CurrentType ==
    ASSUME PolicyTypeOK, status # "idle"
    PROVE  Len(calls) \in DOMAIN calls /\ \A p \in DOMAIN Current : p \in Param /\ Current[p] \in Operators
<1>1. Len(calls) \in DOMAIN calls
  BY DEF PolicyTypeOK
<1> QED
  BY <1>1, CallsType DEF Current

LEMMA AppendCalls ==
    ASSUME PolicyTypeOK, NEW pol \in Policy, calls' = Append(calls, pol)
    PROVE  /\ calls' \in Seq(Policy)
           /\ Len(calls') = Len(calls) + 1 /\ Len(calls) \in Nat
           /\ calls'[Len(calls')] = pol
           /\ DOMAIN calls = 1..Len(calls) /\ DOMAIN calls' = 1..(Len(calls) + 1)
           /\ \A i \in DOMAIN calls : calls'[i] = calls[i]
BY DEF PolicyTypeOK

\* The type invariant of the model of apply_policy, for policies of any kind.
THEOREM PolicyTypeCorrect == PolicySpec => []PolicyTypeOK
<1>1. PolicyInit => PolicyTypeOK
  BY OriginalAssumption DEF PolicyInit, PolicyTypeOK
<1>2. PolicyTypeOK /\ [PolicyNext]_policyVars => PolicyTypeOK'
  <2> SUFFICES ASSUME PolicyTypeOK, [PolicyNext]_policyVars PROVE PolicyTypeOK'
    OBVIOUS
  <2>1. ASSUME NEW pol \in Policy, Call(pol) PROVE PolicyTypeOK'
    <3>1. calls' \in Seq(Policy) /\ calls' # <<>> /\ calls'[Len(calls')] = pol
      BY <2>1, AppendCalls DEF Call, PolicyTypeOK
    <3> QED
      BY <2>1, <3>1 DEF Call, PolicyTypeOK
  <2>2. ASSUME NEW p \in Param, Handle(p) PROVE PolicyTypeOK'
    <3>1. Current[p] \in Operators
      BY <2>2, CurrentType DEF Handle, PolicyTypeOK, Current
    <3>2. Modified(metadata[p], Current[p]) \in SUBSET Value
      BY <3>1, ModifiedType DEF PolicyTypeOK
    <3>3. metadata' \in [Param -> SUBSET Value]
      BY <2>2, <3>2 DEF Handle, PolicyTypeOK
    <3> QED
      BY <2>2, <3>3 DEF Handle, PolicyTypeOK
  <2>3. ASSUME NEW p \in Param, NotAnObject(p) PROVE PolicyTypeOK'
    BY <2>3 DEF NotAnObject, PolicyTypeOK
  <2>4. CASE Return
    BY <2>4 DEF Return, PolicyTypeOK
  <2>5. CASE UNCHANGED policyVars
    BY <2>5 DEF policyVars, PolicyTypeOK
  <2> QED
    BY <2>1, <2>2, <2>3, <2>4, <2>5 DEF PolicyNext
<1> QED
  BY <1>1, <1>2, PTL DEF PolicySpec
-----------------------------------------------------------------------------
\* A call under way: the parameters handled have passed and are modified, the
\* others are as the call found them.
Midway ==
    status \in {"run", "ok"} =>
        \A p \in Param :
            IF p \in DOMAIN Current \ todo
            THEN Passes(before[p], Current[p]) /\ metadata[p] = Modified(before[p], Current[p])
            ELSE metadata[p] = before[p]

\* An error has a parameter that does not pass, and leaves the rest alone.
ErrorFounded ==
    status = "error" =>
        /\ \E p \in DOMAIN Current : ~Passes(before[p], Current[p])
        /\ \A p \in todo : metadata[p] = before[p]

\* Success, failure and result of apply_policy do not depend on the order in
\* which the JSON map yields its parameters.
THEOREM OrderIrrelevantHolds == PolicySpec => []OrderIrrelevant
<1> DEFINE PolicyInv == Midway /\ ErrorFounded
<1>1. PolicyInit => PolicyInv
  BY DEF PolicyInit, Midway, ErrorFounded
<1>2. PolicyTypeOK /\ PolicyInv /\ [PolicyNext]_policyVars => PolicyInv'
  <2> SUFFICES ASSUME PolicyTypeOK, PolicyInv, [PolicyNext]_policyVars PROVE PolicyInv'
    OBVIOUS
  <2>1. ASSUME NEW pol \in Policy, Call(pol) PROVE PolicyInv'
    <3>1. Current' = pol
      BY <2>1, AppendCalls DEF Call, Current
    <3> QED
      BY <2>1, <3>1 DEF Call, Midway, ErrorFounded
  <2>2. ASSUME NEW p \in Param, Handle(p) PROVE PolicyInv'
    <3>1. /\ p \in DOMAIN Current /\ metadata[p] = before[p]
          /\ Current' = Current /\ before' = before /\ todo' = todo \ {p}
          /\ metadata'[p] = Modified(before[p], Current[p])
          /\ \A q \in Param \ {p} : metadata'[q] = metadata[q]
      BY <2>2 DEF Handle, PolicyTypeOK, Midway, Current
    <3>2. status' = "run" => Passes(before[p], Current[p])
      BY <2>2, <3>1 DEF Handle, Passes
    <3>3. status' = "error" => ~Passes(before[p], Current[p])
      BY <2>2, <3>1 DEF Handle, Passes
    <3>4. status = "run" /\ status' \in {"run", "error"} /\ todo \subseteq Param
      BY <2>2, CurrentType DEF Handle, PolicyTypeOK, Current
    <3>5. Midway'
      BY <3>1, <3>2, <3>4 DEF Midway
    <3>6. ErrorFounded'
      BY <3>1, <3>3, <3>4 DEF ErrorFounded, Midway
    <3> QED
      BY <3>5, <3>6
  <2>3. ASSUME NEW p \in Param, NotAnObject(p) PROVE PolicyInv'
    <3>1. p \in DOMAIN Current /\ ~Passes(before[p], Current[p]) /\ Current' = Current
      BY <2>3 DEF NotAnObject, PolicyTypeOK, Passes, Current
    <3>2. \A q \in todo : q \in Param
      BY <2>3, CurrentType DEF NotAnObject, PolicyTypeOK, Current
    <3> QED
      BY <2>3, <3>1, <3>2 DEF NotAnObject, Midway, ErrorFounded
  <2>4. CASE Return
    BY <2>4 DEF Return, Midway, ErrorFounded, Current
  <2>5. CASE UNCHANGED policyVars
    BY <2>5 DEF policyVars, Midway, ErrorFounded, Current
  <2> QED
    BY <2>1, <2>2, <2>3, <2>4, <2>5 DEF PolicyNext
<1>3. PolicyTypeOK /\ PolicyInv => OrderIrrelevant
  BY DEF PolicyTypeOK, Midway, ErrorFounded, OrderIrrelevant
<1> QED
  BY <1>1, <1>2, <1>3, PolicyTypeCorrect, PTL DEF PolicySpec
-----------------------------------------------------------------------------
\* What the i-th policy demands of p.
Stands(i, p) ==
    /\ Essential(metadata[p], calls[i][p])
    /\ ~SupersetOf(metadata[p], calls[i][p]) => Later(i, p, {"value"})
    /\ ~(SubsetOf(metadata[p], calls[i][p]) /\ OneOf(metadata[p], calls[i][p])) =>
          Later(i, p, {"value", "add", "default"})

\* What came later still does when another policy is applied.
LEMMA LaterAppend ==
    ASSUME PolicyTypeOK, NEW pol \in Policy, calls' = Append(calls, pol),
           NEW i \in DOMAIN calls, NEW p, NEW operators, Later(i, p, operators)
    PROVE  Later(i, p, operators)'
<1>1. PICK j \in (i + 1)..Len(calls) :
          p \in DOMAIN calls[j] /\ \E op \in operators : calls[j][p][op] # {}
  BY DEF Later
<1>2. i \in Nat /\ j \in DOMAIN calls
  BY AppendCalls
<1>3. j \in (i + 1)..Len(calls') /\ calls'[j] = calls[j]
  BY <1>1, <1>2, AppendCalls
<1> QED
  BY <1>1, <1>3 DEF Later

\* The current policy comes after every earlier one.
LEMMA LaterCurrent ==
    ASSUME PolicyTypeOK, NEW i \in DOMAIN calls, i # Len(calls), NEW p \in DOMAIN Current,
           NEW operators, NEW op \in operators, Current[p][op] # {}
    PROVE  Later(i, p, operators)
<1>1. Len(calls) \in (i + 1)..Len(calls)
  BY DEF PolicyTypeOK
<1> QED
  BY <1>1 DEF Later, Current

\* One step of apply_policy upholds the demands of the policies applied so far,
\* and that of the current one on the parameter it handles.
LEMMA HandleUpholds ==
    ASSUME PolicyTypeOK, DemandsStand, NEW p \in Param, Handle(p),
           NEW i \in DOMAIN calls, NEW q \in Param, Applied(i, q)'
    PROVE  Stands(i, q)'
<1>1. /\ status = "run" /\ p \in todo /\ calls' = calls /\ todo' = todo \ {p}
      /\ metadata'[p] = Modified(metadata[p], Current[p])
      /\ \A r \in Param \ {p} : metadata'[r] = metadata[r]
      /\ p \in DOMAIN Current /\ status' # "error"
  BY DEF Handle, PolicyTypeOK, Current, Applied
<1>2. \A operators : Later(i, q, operators)' = Later(i, q, operators)
  BY <1>1 DEF Later
<1>3. CASE q # p
  <2>1. Applied(i, q)
    BY <1>1, <1>3 DEF Applied
  <2> QED
    BY <1>1, <1>2, <1>3, <2>1 DEF DemandsStand, Stands
<1>4. CASE q = p /\ i = Len(calls)
  BY <1>1, <1>4 DEF Handle, Satisfied, Stands, Current
<1>5. CASE q = p /\ i # Len(calls)
  <2> DEFINE m == metadata[p]
             o == Current[p]
             c == calls[i][p]
  <2>1. Applied(i, p)
    BY <1>1, <1>5 DEF Applied
  <2>2. Stands(i, p)
    BY <2>1 DEF DemandsStand, Stands
  <2>3. m \in SUBSET Value /\ o \in Operators /\ c \in Operators
    BY <1>1, <2>1, CallsType, CurrentType DEF PolicyTypeOK, Applied
  <2>4. Essential(Modified(m, o), c)
    BY <2>2, <2>3, ModifiedPresent DEF Stands, Essential
  <2>5. ~SupersetOf(Modified(m, o), c) => Later(i, p, {"value"})
    <3>1. CASE o.value # {}
      <4>1. Current[p]["value"] # {}
        BY <2>3, <3>1 DEF Operators
      <4> QED
        BY <1>1, <1>5, <4>1, LaterCurrent
    <3>2. CASE o.value = {}
      BY <2>2, <2>3, <3>2, ModifiedGrows DEF Stands
    <3> QED BY <3>1, <3>2
  <2>6. ~(SubsetOf(Modified(m, o), c) /\ OneOf(Modified(m, o), c)) =>
           Later(i, p, {"value", "add", "default"})
    <3>1. CASE \E op \in {"value", "add", "default"} : Current[p][op] # {}
      BY <1>1, <1>5, <3>1, LaterCurrent
    <3>2. CASE o.value = {} /\ o.add = {} /\ o.default = {}
      BY <2>2, <2>3, <3>2, ModifiedSame DEF Stands
    <3>3. \/ \E op \in {"value", "add", "default"} : Current[p][op] # {}
          \/ o.value = {} /\ o.add = {} /\ o.default = {}
      BY <2>3 DEF Operators
    <3> QED BY <3>1, <3>2, <3>3
  <2> QED
    BY <1>1, <1>2, <1>5, <2>4, <2>5, <2>6 DEF Stands
<1> QED
  BY <1>3, <1>4, <1>5

\* A superior's demands outlast the policies of its subordinates, unless one of
\* these puts a value there itself.
THEOREM DemandsStandHolds == PolicySpec => []DemandsStand
<1>1. PolicyInit => DemandsStand
  BY DEF PolicyInit, DemandsStand
<1>2. PolicyTypeOK /\ DemandsStand /\ [PolicyNext]_policyVars => DemandsStand'
  <2> SUFFICES ASSUME PolicyTypeOK, DemandsStand, [PolicyNext]_policyVars,
                      NEW i \in DOMAIN calls', NEW q \in Param, Applied(i, q)'
               PROVE  Stands(i, q)'
    BY DEF DemandsStand, Stands
  <2>1. ASSUME NEW pol \in Policy, Call(pol) PROVE Stands(i, q)'
    <3>1. /\ calls' = Append(calls, pol) /\ todo' = DOMAIN pol /\ metadata' = metadata
          /\ status # "error" /\ todo = {}
      BY <2>1 DEF Call, PolicyTypeOK
    <3>2. i \in DOMAIN calls /\ calls'[i] = calls[i]
      BY <3>1, AppendCalls DEF Applied
    <3>3. Applied(i, q)
      BY <3>1, <3>2 DEF Applied
    <3>4. Stands(i, q)
      BY <3>2, <3>3 DEF DemandsStand, Stands
    <3> QED
      BY <3>1, <3>2, <3>4, LaterAppend DEF Stands
  <2>2. ASSUME NEW p \in Param, Handle(p) PROVE Stands(i, q)'
    BY <2>2, HandleUpholds DEF Handle
  <2>3. ASSUME NEW p \in Param, NotAnObject(p) PROVE Stands(i, q)'
    BY <2>3 DEF NotAnObject, Applied
  <2>4. CASE Return
    BY <2>4 DEF Return, Applied, DemandsStand, Stands, Later
  <2>5. CASE UNCHANGED policyVars
    BY <2>5 DEF policyVars, Applied, DemandsStand, Stands, Later
  <2> QED
    BY <2>1, <2>2, <2>3, <2>4, <2>5 DEF PolicyNext
<1> QED
  BY <1>1, <1>2, PolicyTypeCorrect, PTL DEF PolicySpec
=============================================================================
