--------------------------- MODULE HomeOrgDiscovery ---------------------------
(***************************************************************************)
(* Home-organization discovery (src/src/discovery.rs) on top of a          *)
(* federation: a browser comes to the discovery service with a relying     *)
(* party's entity identifier, the service learns the relying party's       *)
(* initiate_login_uri from a resolution through its trust anchors or from  *)
(* the configuration that the relying party publishes itself, shows the    *)
(* OPs of a collection endpoint (fetch_collection of federation.rs) and    *)
(* sends the user back with the selected OP.  The relying party keeps no   *)
(* session: anybody's call at its initiate_login_uri looks like that one.  *)
(*                                                                         *)
(* The relying party is the federation's Subject or, in open mode, also    *)
(* Outsider.  An OP's identifier is what the code tells apart: its name,   *)
(* a trailing slash, and the rest as a Url.                                *)
(***************************************************************************)
EXTENDS Federation

CONSTANTS LoginUri,  \* LoginUri[e]: values of initiate_login_uri in e's metadata;
                     \* own is what their query has of the parameters below
          OpId,      \* identifiers of OPs: [name, slash, url]
          Body,      \* collection responses: sequences of [id: Option, types]
          Request,   \* what browsers ask for: [rp, hint, target]
          Stray      \* queries of calls that did not come from the page

\* The query of a call at an initiate_login_uri: for each name, the values that
\* it has.  An iss that is empty counts as none.
Target == {"", "link", "other"}
Query == [iss : SUBSET OpId, target_link_uri : SUBSET Target]

ASSUME LoginUriAssumption ==
    LoginUri \in [Entity -> SUBSET [owner : Entity, url : Url, own : Query]]
ASSUME StrayAssumption == Stray \subseteq Query
ASSUME OwnUriAssumption == \A e \in Entity : \A l \in LoginUri[e] : l.owner = e
ASSUME OpAssumption == \A o \in OpId : o.slash \in BOOLEAN /\ o.url \in Url
ASSUME BodyAssumption ==
    Body \subseteq Seq([id : {{}} \cup {{o} : o \in OpId}, types : SUBSET STRING])
ASSUME RequestAssumption ==
    \A r \in Request : /\ r.rp \in {Subject, Outsider}
                       /\ r.hint \in {{}} \cup {{o} : o \in OpId}
                       /\ r.target \in {{}, {""}, {"link"}}

VARIABLES step,     \* where the discovery is
          request,  \* {} or {the request}
          uri,      \* {} or {the initiate_login_uri found}
          body,     \* the collection response
          list,     \* the identifiers shown to the user
          picked,   \* {} or {the OP that the user selected} (history)
          back,     \* {} or {the query of the return call}
          login     \* {} or {what the relying party made of them}

flow == <<step, request, uri, body, list, picked, back, login>>
vars == <<fedVars, flow>>

ThirdPartyInitiatedLogin == [iss : OpId, target_link_uri : SUBSET Target]

TypeOK ==
    /\ FederationTypeOK
    /\ step \in {"home", "verify", "verified", "shown", "sent", "login", "refused"}
    /\ request \subseteq Request
    /\ uri \subseteq UNION {LoginUri[e] : e \in Entity}
    /\ body \in {<<>>} \cup Body
    /\ \A i \in DOMAIN list : list[i] \in OpId
    /\ picked \subseteq OpId
    /\ back \subseteq Query
    /\ login \subseteq ThirdPartyInitiatedLogin

Init ==
    /\ FederationInit
    /\ step = "home"
    /\ request = {} /\ uri = {} /\ picked = {} /\ back = {} /\ login = {}
    /\ body = <<>> /\ list = <<>>
-----------------------------------------------------------------------------
\* discovery_request_url: the relying party asks only with a good hint.
AskByRelyingParty(r) ==
    /\ step = "home"
    /\ \A h \in r.hint : ValidateEntityId(h.url)
    /\ step' = "verify"
    /\ request' = {r}
    /\ UNCHANGED <<fedVars, uri, body, list, picked, back, login>>

\* Anybody may follow a link that looks like one of these.
AskByLink(r) ==
    /\ step = "home"
    /\ step' = "verify"
    /\ request' = {r}
    /\ UNCHANGED <<fedVars, uri, body, list, picked, back, login>>

\* initiate_login_uri
InitiateLoginUriOk(l) == l.url.parses /\ l.url.scheme = "https" /\ ~l.url.fragment

\* Statements that the server of entity e gives as its configuration: members
\* serve their own, old ones included; Outsider serves anything.
Served(e) == IF e = Outsider THEN issued ELSE {st \in About(e, e) : st.signer[1] = e}

\* Mutant of SelfPublishedOk: the configuration may be another entity's.
SelfPublishedOkAny(st, rp) == VerifySelfSigned(st)

\* self_published_rp
SelfPublishedOk(st, rp) == VerifySelfSigned(st) /\ st.iss = rp /\ st.sub = rp

\* The initiate_login_uri that the service finds for the relying party: what the
\* author of the metadata put there, which is the signer of a configuration or,
\* in a resolve response, the subject.
Found(rp) ==
    (UNION {LoginUri[st.signer[1]] : st \in {st \in Served(rp) : SelfPublishedOk(st, rp)}})
    \cup (IF rp = Subject /\ result # {} THEN LoginUri[Subject] ELSE {})

Verified ==
    /\ step = "verify"
    /\ \E r \in request : \E l \in Found(r.rp) :
          /\ InitiateLoginUriOk(l)
          /\ uri' = {l}
    /\ step' = "verified"
    /\ UNCHANGED <<fedVars, request, body, list, picked, back, login>>

\* parse_collection: the entities of the type, with an identifier, in order.
Advertises(e) == "openid_provider" \in e.types /\ e.id # {}

Advertised(b) == {i \in DOMAIN b : Advertises(b[i])}

\* The k-th of a set of positions, counted from the front.
Nth(I, k) == CHOOSE i \in I : Cardinality({j \in I : j <= i}) = k

ParseCollection(b) ==
    LET kept == Advertised(b)
    IN  [k \in 1..Cardinality(kept) |-> CHOOSE o \in b[Nth(kept, k)].id : TRUE]

\* entity_id_eq
EntityIdEq(a, b) == a.name = b.name

\* The first entity that the hint names, if any.
Position(s, h) == {i \in DOMAIN s : EntityIdEq(s[i], h)
                                    /\ \A j \in 1..(i - 1) : ~EntityIdEq(s[j], h)}

\* Mutant of Promote: the hinted OP changes places with the first.
PromoteSwap(s, h) ==
    IF Position(s, h) = {} THEN s
    ELSE LET p == CHOOSE p \in Position(s, h) : TRUE
         IN  [i \in DOMAIN s |-> CASE i = 1 -> s[p] [] i = p -> s[1] [] OTHER -> s[i]]

\* promote_hint
Promote(s, h) ==
    IF Position(s, h) = {} THEN s
    ELSE LET p == CHOOSE p \in Position(s, h) : TRUE
         IN  <<s[p]>> \o SubSeq(s, 1, p - 1) \o SubSeq(s, p + 1, Len(s))

\* fetch_collection, and the page that shows it.
Show(b) ==
    /\ step = "verified"
    /\ step' = "shown"
    /\ body' = b
    /\ list' = LET ops == ParseCollection(b)
                   hint == UNION {r.hint : r \in request}
               IN  IF hint = {} THEN ops ELSE Promote(ops, CHOOSE h \in hint : TRUE)
    /\ UNCHANGED <<fedVars, request, uri, picked, back, login>>

\* Mutant of ThirdPartyLoginUrl: the target is forgotten.
ThirdPartyLoginUrlBare(l, o, target) ==
    [iss |-> l.own.iss \cup {o}, target_link_uri |-> l.own.target_link_uri]

\* third_party_login_url: push_param appends to the query that the URI has.
ThirdPartyLoginUrl(l, o, target) ==
    [iss |-> l.own.iss \cup {o}, target_link_uri |-> l.own.target_link_uri \cup target]

\* The user selects an OP and is sent back.
Select(o) ==
    /\ step = "shown" /\ \E i \in DOMAIN list : list[i] = o
    /\ step' = "sent"
    /\ picked' = {o}
    /\ back' = {ThirdPartyLoginUrl(l, o, r.target) : l \in uri, r \in request}
    /\ UNCHANGED <<fedVars, request, uri, body, list, login>>

\* The browser is led to the relying party with a query that no page built, with
\* or without a discovery under way.
StrayCall(q) ==
    /\ step \notin {"login", "refused"}
    /\ step' = "sent"
    /\ picked' = {}
    /\ back' = {q}
    /\ UNCHANGED <<fedVars, request, uri, body, list, login>>

\* What parse_third_party_initiated_login makes of a query: iss is required and
\* must be good, and an empty parameter counts as none.  Which value it sees of
\* a name that comes twice is the web framework's choice.
ParseThirdPartyInitiatedLogin(q) ==
    {p \in ThirdPartyInitiatedLogin :
        /\ p.iss \in q.iss /\ ValidateEntityId(p.iss.url)
        /\ IF q.target_link_uri = {} THEN p.target_link_uri = {}
           ELSE \E v \in q.target_link_uri : p.target_link_uri = {v} \ {""}}

Login ==
    /\ step = "sent"
    /\ \E q \in back : \E p \in ParseThirdPartyInitiatedLogin(q) : login' = {p}
    /\ step' = "login"
    /\ UNCHANGED <<fedVars, request, uri, body, list, picked, back>>

\* Any step may end in an error page: a request that fails, a statement, URI or
\* identifier that is refused.
Refuse ==
    /\ step \in {"verify", "verified", "sent"}
    /\ step' = "refused"
    /\ UNCHANGED <<fedVars, request, uri, body, list, picked, back, login>>

Discovery ==
    \/ \E r \in Request : AskByRelyingParty(r) \/ AskByLink(r)
    \/ Verified
    \/ \E b \in Body : Show(b)
    \/ \E o \in OpId : Select(o)
    \/ \E q \in Stray : StrayCall(q)
    \/ Login \/ Refuse

Next == (FederationNext /\ UNCHANGED flow) \/ Discovery

\* Every answer that a resolution awaits comes or fails in the end: the HTTP
\* client has its timeout.
Spec == Init /\ [][Next]_vars
FairSpec == Spec /\ WF_vars(Client /\ UNCHANGED flow)
-----------------------------------------------------------------------------
\* The user is sent only to a URI that the relying party named in the request
\* has published itself, over https and without a fragment: a server cannot pass
\* on another entity's configuration, and no request carries a URI to go to.
SentToOwnUri ==
    step \in {"verified", "shown", "sent", "login"} =>
        \A l \in uri, r \in request :
            l.owner = r.rp /\ l.url.scheme = "https" /\ ~l.url.fragment

\* OPs of a response in the order shown when nothing is hinted.
Ops(b) ==
    [k \in 1..Cardinality(Advertised(b)) |-> b[Nth(Advertised(b), k)].id]

\* The page shows every OP of the response as often as the response has it, a
\* hinted one first if there is one, and otherwise in the response's order.
HintLeads ==
    step = "shown" =>
        LET ops == Ops(body)
            hinted(o) == \E r \in request : \E h \in r.hint : EntityIdEq(o, h)
            any == \E i \in DOMAIN ops : \A o \in ops[i] : hinted(o)
        IN  /\ Len(list) = Len(ops)
            /\ any => hinted(list[1])
            /\ \E p \in DOMAIN ops \cup {0} :
                  /\ \A i \in DOMAIN list :
                        {list[i]} = IF i = 1 /\ p > 0 THEN ops[p]
                                    ELSE IF i <= p THEN ops[i - 1] ELSE ops[i]
                  /\ (p = 0) = ~any

\* The user's selection survives the way to the relying party, which keeps no
\* session: a login that came from the page is at the OP that the user selected,
\* which the collection lists, and goes on to the target that the relying party
\* gave, if any.  Nothing more can be relied on: a URI whose own query has the
\* same names, or a call that is not the page's, may bring other values.
SelectionArrives ==
    \A q \in login, o \in picked, l \in uri, r \in request :
        /\ \E i \in DOMAIN body : body[i].id = {o} /\ "openid_provider" \in body[i].types
        /\ l.own.iss = {} => q.iss = o
        /\ l.own.target_link_uri = {} => q.target_link_uri = r.target \ {""}
=============================================================================
