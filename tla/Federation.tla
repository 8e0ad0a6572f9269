----------------------------- MODULE Federation ------------------------------
(***************************************************************************)
(* A client of an OpenID federation (src/src/federation.rs): it resolves a *)
(* subject through its trust anchors with resolve_via_trust_anchors,       *)
(* validates the trust chain it is given and gets the subject's protocol   *)
(* keys with entity_metadata_jwks, while federation keys are replaced and  *)
(* superiors drop their subordinates.                                      *)
(*                                                                         *)
(* Every entity publishes at every moment what it stands for at that       *)
(* moment, signed with its current key and valid for Lifetime; nothing     *)
(* published is ever lost, so a resolver may answer with any of it, however*)
(* old, and with statements of Outsider, who belongs to no federation but  *)
(* signs whatever it likes.  Members vouch for their own subordinates only.*)
(* A federation key is a pair of its owner and a number; of a protocol key *)
(* only the owner matters.                                                 *)
(***************************************************************************)
EXTENDS Integers, Sequences, FiniteSets, Endpoints

CONSTANTS Subject,    \* the entity that is resolved
          Middle,     \* intermediate authorities
          Anchor,     \* trust anchors; their keys are pinned and never change
          Outsider,
          Below,      \* Below[e]: the subordinates that e starts with
          Configured, \* the client's TrustAnchors
          Up,         \* anchors whose endpoints answer as well as they can
          Resolver,   \* anchors that publish a federation_resolve_endpoint
          SubjectId,  \* the subject's entity identifier, a Url
          KeysUrl,    \* what its metadata may give as jwks_uri or signed_jwks_uri
          Lifetime,   \* lifetime of statements and of resolve responses
          Leeway,     \* jose-rs's leeway on exp
          MaxKey,     \* last key number
          MaxChanges, \* how many keys are replaced and subordinates dropped
          Horizon     \* last second

Entity == {Subject, Outsider} \cup Middle \cup Anchor

ASSUME TimeAssumption ==
    {Leeway, MaxKey, MaxChanges, Horizon} \subseteq Nat /\ Lifetime \in Nat \ {0}
ASSUME NamesAssumption ==
    /\ Configured \subseteq Anchor /\ Up \subseteq Resolver /\ Resolver \subseteq Anchor
    /\ Below \in [Entity -> SUBSET (Middle \cup {Subject})]
    /\ Below[Outsider] = {} /\ Below[Subject] = {}
    /\ {SubjectId} \cup KeysUrl \subseteq Url
    /\ Subject # Outsider /\ Middle \cap Anchor = {} /\ Anchor # {}
    /\ {Subject, Outsider} \cap (Middle \cup Anchor) = {}

VARIABLES now,
          num,      \* num[e]: the number of e's current key
          members,  \* members[e]: the subordinates that e vouches for
          retired,  \* retired[k]: when key k was replaced
          dropped,  \* dropped[<<e, f>>]: when e dropped f
          issued,   \* statements published so far
          pc,       \* where the client is
          left,     \* trust anchors not tried yet
          anchor,   \* the trust anchor being asked
          result,   \* {} or the ResolvedEntity
          protocol  \* owners of the protocol keys taken from its metadata

fedVars == <<now, num, members, retired, dropped, issued, pc, left, anchor, result, protocol>>
world == <<now, num, members, retired, dropped, issued>>

Key == Entity \X (0..MaxKey)
Statement == [iss : Entity, sub : Entity, signer : Key, jwks : SUBSET Key,
              iat : Nat, exp : Nat]
Never == Horizon + 1

\* links are the pairs of superior and subordinate that the chain relied on.
Resolved == [issuer : Anchor, subject_jwks : SUBSET Key, exp : Nat,
             at : 0..Horizon, links : SUBSET (Entity \X Entity)]

Keyed == {"signed_jwks_uri", "jwks_uri", "keys", "nokeys"}

FederationTypeOK ==
    /\ now \in 0..Horizon
    /\ num \in [Entity -> 0..MaxKey]
    /\ members \in [Entity -> SUBSET Entity]
    /\ retired \in [Key -> 0..Never]
    /\ dropped \in [Entity \X Entity -> 0..Never]
    /\ issued \subseteq Statement
    /\ pc \in {"idle", "next", "config", "resolve", "resolved", "failed"} \cup Keyed
    /\ left \subseteq Configured
    /\ pc \in {"config", "resolve", "resolved"} => anchor \in Configured \ left
    /\ result \subseteq Resolved
    /\ (pc \in {"resolved"} \cup Keyed) = (result # {})
    /\ protocol \subseteq Entity
-----------------------------------------------------------------------------
CurrentKey(e, n) == <<e, n[e]>>

Signed(iss, sub, signer, jwks, iat) ==
    [iss |-> iss, sub |-> sub, signer |-> signer, jwks |-> jwks,
     iat |-> iat, exp |-> iat + Lifetime]

\* build_entity_configuration
EntityConfiguration(e, n, t) == Signed(e, e, CurrentKey(e, n), {CurrentKey(e, n)}, t)

\* What all entities publish at time t, with keys n and members m.
Published(n, m, t) ==
    {EntityConfiguration(e, n, t) : e \in Entity \ {Outsider}}
    \cup {Signed(x[1], x[2], CurrentKey(x[1], n), {CurrentKey(x[2], n)}, t) :
             x \in {y \in Entity \X Entity : y[2] \in m[y[1]]}}

\* Statements in anybody's name that Outsider signed; they last long.
OutsiderKey == <<Outsider, 0>>
Outside ==
    {[iss |-> x[1], sub |-> x[2], signer |-> OutsiderKey, jwks |-> {OutsiderKey},
      iat |-> 0, exp |-> Never] : x \in Entity \X Entity}

FederationInit ==
    /\ now = 0
    /\ num = [e \in Entity |-> 0]
    /\ members = Below
    /\ retired = [k \in Key |-> Never]
    /\ dropped = [x \in Entity \X Entity |-> Never]
    /\ issued = Published(num, members, 0) \cup Outside
    /\ pc = "idle"
    /\ left = {}
    /\ anchor = CHOOSE a \in Anchor : TRUE
    /\ result = {}
    /\ protocol = {}

Tick ==
    /\ now < Horizon
    /\ now' = now + 1
    /\ issued' = issued \cup Published(num, members, now + 1)
    /\ UNCHANGED <<num, members, retired, dropped, pc, left, anchor, result, protocol>>

Changes == Cardinality({k \in Key : retired[k] # Never})
           + Cardinality({x \in Entity \X Entity : dropped[x] # Never})

\* An entity replaces its federation key; its superiors know at once.
Rotate(e) ==
    /\ num[e] < MaxKey /\ Changes < MaxChanges
    /\ num' = [num EXCEPT ![e] = @ + 1]
    /\ retired' = [retired EXCEPT ![CurrentKey(e, num)] = now]
    /\ issued' = issued \cup Published(num', members, now)
    /\ UNCHANGED <<now, members, dropped, pc, left, anchor, result, protocol>>

\* A superior drops a subordinate: what it issued stays valid until it expires.
Drop(e, f) ==
    /\ f \in members[e] /\ Changes < MaxChanges
    /\ members' = [members EXCEPT ![e] = @ \ {f}]
    /\ dropped' = [dropped EXCEPT ![<<e, f>>] = now]
    /\ UNCHANGED <<now, num, retired, issued, pc, left, anchor, result, protocol>>
-----------------------------------------------------------------------------
\* verify: signature by one of the keys, typ, and exp with leeway.
Verify(st, keys) == st.signer \in keys /\ now < st.exp + Leeway

\* verify_self_signed
VerifySelfSigned(st) == st.iss = st.sub /\ Verify(st, st.jwks)

\* Mutant of ValidateStatementClaims: the leeway counts here too.
ValidateStatementClaimsLeeway(st) == st.iat <= now /\ now < st.exp + Leeway

\* validate_statement_claims: no leeway here.
ValidateStatementClaims(st) == st.iat <= now /\ now < st.exp

\* Mutant of VerifyLinks: each statement is checked with the keys it carries.
VerifyLinksSelf(c) == \A i \in 1..(Len(c) - 1) : Verify(c[i], c[i].jwks)

\* Each statement is signed by a key that the next one carries.
VerifyLinks(c) == \A i \in 1..(Len(c) - 1) : Verify(c[i], c[i + 1].jwks)

TaKeys(a) == {<<a, 0>>}

\* validate_trust_chain: c runs from the subject up to the trust anchor.
ValidateTrustChain(c, sub, a) ==
    /\ c # <<>>
    /\ c[1].iss = sub /\ c[1].sub = sub
    /\ c[Len(c)].iss = a /\ c[Len(c)].sub = a
    /\ \A i \in 1..(Len(c) - 1) : c[i].iss = c[i + 1].sub
    /\ \A i \in 1..Len(c) : ValidateStatementClaims(c[i])
    /\ VerifySelfSigned(c[1])
    /\ VerifyLinks(c)
    /\ Verify(c[Len(c)], TaKeys(a))
    /\ VerifySelfSigned(c[Len(c)])

\* The statements by and about two entities, whoever signed them.
About(iss, sub) == {st \in issued : st.iss = iss /\ st.sub = sub}

\* Chains that the resolver of a may answer with: it follows names, from the
\* subject to an authority above it, and takes any statement that bears them.
Chains(a) ==
    {<<ec>> : ec \in About(a, a)}
    \cup (About(Subject, Subject) \X About(a, Subject) \X About(a, a))
    \cup UNION {About(Subject, Subject) \X About(m, Subject) \X About(a, m) \X About(a, a) :
                    m \in Middle \cup {Outsider}}

\* extract_resolved_entity, for a response of time t that names a and the
\* subject: what the client makes of the chain in it.
ResolvedEntity(c, a, t) ==
    [issuer |-> a, subject_jwks |-> c[1].jwks, exp |-> t + Lifetime, at |-> now,
     links |-> {<<c[i].iss, c[i].sub>> : i \in 2..(Len(c) - 1)}]

\* Resolve responses still valid, with the leeway; their signer is the anchor.
ResponseTime == {t \in 0..now : now < t + Lifetime + Leeway}
-----------------------------------------------------------------------------
\* resolve_via_trust_anchors is called.
Resolve ==
    /\ pc = "idle"
    /\ pc' = "next"
    /\ left' = Configured
    /\ UNCHANGED <<world, anchor, result, protocol>>

\* The next anchor of the HashMap, in any order: resolve_one asks for its
\* entity configuration.
NextAnchor(a) ==
    /\ pc = "next" /\ a \in left
    /\ pc' = "config"
    /\ anchor' = a
    /\ left' = left \ {a}
    /\ UNCHANGED <<world, result, protocol>>

ConfigurationOk(st) ==
    /\ Verify(st, TaKeys(anchor))
    /\ VerifySelfSigned(st)
    /\ st.iss = anchor /\ st.sub = anchor

\* The configuration is good and names a resolve endpoint, which is asked.
GotConfiguration ==
    /\ pc = "config"
    /\ anchor \in Resolver
    /\ \E st \in issued : ConfigurationOk(st)
    /\ pc' = "resolve"
    /\ UNCHANGED <<world, left, anchor, result, protocol>>

\* The response is good.
GotResponse ==
    /\ pc = "resolve"
    /\ \E c \in Chains(anchor), t \in ResponseTime :
          /\ ValidateTrustChain(c, Subject, anchor)
          /\ result' = {ResolvedEntity(c, anchor, t)}
    /\ pc' = "resolved"
    /\ UNCHANGED <<world, left, anchor, protocol>>

CanAnswer ==
    /\ anchor \in Up
    /\ \E c \in Chains(anchor) : ValidateTrustChain(c, Subject, anchor)

\* Mutant of AnchorFails: the first error is returned.
AnchorFailsAll ==
    /\ pc \in {"config", "resolve"}
    /\ ~CanAnswer
    /\ pc' = "failed"
    /\ UNCHANGED <<world, left, anchor, result, protocol>>

\* Either answer is missing, not a 200, or refused: on to the next anchor.
AnchorFails ==
    /\ pc \in {"config", "resolve"}
    /\ ~CanAnswer
    /\ pc' = "next"
    /\ UNCHANGED <<world, left, anchor, result, protocol>>

\* No anchor is left, or none was configured: the last error is returned.
GiveUp ==
    /\ pc = "next" /\ left = {}
    /\ pc' = "failed"
    /\ UNCHANGED <<world, left, anchor, result, protocol>>

(***************************************************************************)
(* entity_metadata_jwks and fetch_signed_jwks.                             *)
(***************************************************************************)

\* Signed key sets that a signed_jwks_uri may answer with: of the subject, about
\* itself or others and under any of its keys so far; of members, about
\* themselves; of Outsider, about anybody.  None needs an exp.
SignedSet ==
    {[signer |-> <<Subject, n>>, sub |-> e, keys |-> {e}, typ |-> typ, iss |-> iss] :
        n \in 0..num[Subject], e \in Entity \ {Outsider},
        typ \in {"jwk-set+jwt", "other"}, iss \in BOOLEAN}
    \cup {[signer |-> CurrentKey(e, num), sub |-> e, keys |-> {e}, typ |-> "jwk-set+jwt",
           iss |-> TRUE] : e \in Middle \cup Anchor}
    \cup {[signer |-> OutsiderKey, sub |-> e, keys |-> {Outsider}, typ |-> "jwk-set+jwt",
           iss |-> TRUE] : e \in Entity}

SignedSetOk(set, keys) ==
    set.signer \in keys /\ set.typ = "jwk-set+jwt" /\ set.sub = Subject /\ set.iss

\* The metadata holds some of the three representations: the keys themselves
\* come before a signed_jwks_uri, and that before a jwks_uri; a URI is requested
\* only when it suits the subject's identifier.
Source(has) ==
    CASE "jwks" \in has -> "keys"
      [] "jwks" \notin has /\ "signed_jwks_uri" \in has -> "signed_jwks_uri"
      [] has = {"jwks_uri"} -> "jwks_uri"
      [] has = {} -> "nokeys"

MetadataKeys(has, u) ==
    /\ pc = "resolved"
    /\ pc' = IF Source(has) \in {"signed_jwks_uri", "jwks_uri"}
                /\ ~ValidateServiceEndpointForIssuer(u, SubjectId)
             THEN "nokeys" ELSE Source(has)
    /\ protocol' = IF Source(has) = "keys" THEN {Subject} ELSE {}
    /\ UNCHANGED <<world, left, anchor, result>>

GotSignedKeys ==
    /\ pc = "signed_jwks_uri"
    /\ \E set \in SignedSet, r \in result :
          /\ SignedSetOk(set, r.subject_jwks)
          /\ protocol' = set.keys
    /\ pc' = "keys"
    /\ UNCHANGED <<world, left, anchor, result>>

\* The answer of a jwks_uri is trusted for the server that gave it.
GotKeys ==
    /\ pc = "jwks_uri"
    /\ pc' = "keys"
    /\ protocol' = {Subject}
    /\ UNCHANGED <<world, left, anchor, result>>

\* The answer is missing, not a 200, or refused.
NoKeys ==
    /\ pc \in {"signed_jwks_uri", "jwks_uri"}
    /\ pc' = "nokeys"
    /\ UNCHANGED <<world, left, anchor, result, protocol>>

KeyNext ==
    \/ \E has \in SUBSET {"jwks", "signed_jwks_uri", "jwks_uri"}, u \in KeysUrl :
          MetadataKeys(has, u)
    \/ GotSignedKeys \/ GotKeys \/ NoKeys
-----------------------------------------------------------------------------
Client ==
    \/ \E a \in Configured : NextAnchor(a)
    \/ GotConfiguration \/ GotResponse \/ AnchorFails \/ GiveUp

World ==
    \/ Tick
    \/ \E e \in Middle \cup {Subject} : Rotate(e)
    \/ \E e \in Middle \cup Anchor : \E f \in members[e] : Drop(e, f)

FederationNext == World \/ Resolve \/ Client \/ KeyNext

\* Every answer that is awaited comes or fails in the end: the HTTP client has
\* its timeout.
FederationSpec == FederationInit /\ [][FederationNext]_fedVars
FairFederation == FederationSpec /\ WF_fedVars(Client)
-----------------------------------------------------------------------------
\* The federation keys that a resolution yields, and the protocol keys found by
\* way of them, are the subject's own, whatever statements and key sets in its
\* name, or in those of its superiors, anybody else has signed, and whatever
\* keys are being replaced meanwhile.
KeysGenuine ==
    /\ \A r \in result : r.subject_jwks # {} /\ \A k \in r.subject_jwks : k[1] = Subject
    /\ protocol \subseteq {Subject}

\* Trust lapses.  A link between superior and subordinate, or a subject key,
\* that has come to its end carries no resolution a Lifetime later; and the
\* result, kept until its exp, is not used longer than twice that.
TrustLapses ==
    \A r \in result :
        \A end \in {dropped[x] : x \in r.links} \cup {retired[k] : k \in r.subject_jwks} :
            /\ r.at < end + Lifetime
            /\ now < r.exp => now < end + 2 * Lifetime

\* The subject is vouched for, link by link, under anchor a.
Under(a) == Subject \in members[a] \/ \E m \in Middle : m \in members[a] /\ Subject \in members[m]

\* One good anchor is enough: while the subject is vouched for under an anchor
\* that answers, a resolution succeeds, whatever the other anchors answer and in
\* whichever order they are asked.
OneAnchorSuffices ==
    \A a \in Up \cap Configured : []Under(a) => (pc = "next" ~> pc = "resolved")
=============================================================================
