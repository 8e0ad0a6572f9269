--------------------------- MODULE MCTokenEndpoint ---------------------------
(***************************************************************************)
(* TokenEndpoint for TLC: three scenarios, each with clients of its own,   *)
(* explored one at a time (OneScenario).                                   *)
(***************************************************************************)
EXTENDS TokenEndpoint, TLC

Symmetric == Permutations(Request)

All == GrantType
OfUser == {"authorization_code", "refresh_token"}
Reg(c, a, grants, s) == [scope |-> s, client |-> c, auth |-> a, grant_types |-> grants]

Full == {"openid", "email", "api"}

Req(c, user, s, pkce, implicit) ==
    [scope |-> s, client |-> c, login |-> user, redirect |-> "uri",
     claims |-> {"name", "email", "department"}, challenge |-> pkce,
     token |-> implicit]

Base == [scope |-> {}, client |-> "c1", redirect |-> {"uri"}, token |-> 0,
         grant_type |-> "refresh_token", methods |-> {"client_secret_basic"},
         secret_ok |-> TRUE, assertion |-> {}, verifier |-> {}, jkt |-> {}]

RefreshForms(ids, scopes, keys) ==
    {[Base EXCEPT !.token = i, !.scope = s, !.jkt = k] : i \in ids, s \in scopes, k \in keys}
CodeForms(ids, keys) ==
    {[Base EXCEPT !.grant_type = "authorization_code", !.token = i, !.jkt = k] :
        i \in ids, k \in keys}

\* Rotation: one confidential client refreshes concurrently, with and without
\* DPoP keys, keeping, narrowing, widening and re-widening the scope.
RotationRegistration == {Reg("c1", "client_secret_basic", OfUser, {Full})}
RotationAuthRequest == {Req("c1", "alice", Full, {}, FALSE)}
RotationForm ==
    CodeForms({1}, {{}, {"k1"}})
    \cup RefreshForms({4}, {{}, {{"api"}}, {{"api", "admin"}}, {{}}}, {{}, {"k1"}, {"k2"}})
    \cup RefreshForms({6, 7}, {{}, {{"openid", "api"}}}, {{}, {"k1"}})

\* Clients: two clients, one of which changes between public, confidential and
\* removed, present each other's codes, with right and wrong credentials.
ClientsRegistration ==
    {Reg("c2", "none", OfUser, {}), Reg("c2", "client_secret_basic", All, {{"api", "email"}}),
     Reg("c2", "client_secret_post", All, {{"openid", "api"}}),
     Reg("c3", "client_secret_basic", All, {})}
ClientsAuthRequest == {
    Req("c2", "alice", {"api", "email"}, {}, FALSE),
    Req("c2", "bob", {"openid", "api"}, {S256("v1")}, TRUE)}
Methods == {{}, {"client_secret_basic"}, {"client_secret_post"},
            {"client_secret_basic", "client_secret_post"}}
ClientsForm ==
    {[Base EXCEPT !.grant_type = "authorization_code", !.client = c, !.methods = m,
                  !.token = 1, !.verifier = v] :
        c \in {"c2", "c3"}, m \in Methods, v \in {{}, {"v1"}, {"v2"}}}
    \cup {[Base EXCEPT !.grant_type = "client_credentials", !.client = "c2", !.methods = m, !.secret_ok = ok,
                       !.scope = s] :
             m \in Methods, ok \in BOOLEAN, s \in {{}, {{"api", "openid"}}}}
    \cup {[Base EXCEPT !.grant_type = "authorization_code", !.client = "c2", !.token = 1,
                       !.redirect = {}]}

\* Assertions: a private_key_jwt client presents one assertion with several
\* requests, some of which fail after it was consumed.
A(j, u) == [client |-> "c4", jti |-> j, until |-> u]
Assertions == {A("j1", 1), A("j2", 2)}
AssertionRegistration == {Reg("c4", "private_key_jwt", All, {{"api"}})}
AssertionAuthRequest == {Req("c4", "alice", {"api"}, {}, FALSE)}
AssertionForm ==
    {[Base EXCEPT !.grant_type = p[1], !.client = "c4", !.token = p[2], !.redirect = p[3],
                  !.methods = {"private_key_jwt"}, !.assertion = {a}] :
        p \in {<<"authorization_code", 1, {"uri"}>>, <<"authorization_code", 1, {"other"}>>,
               <<"refresh_token", 3, {}>>, <<"client_credentials", 0, {}>>},
        a \in Assertions}

AllRegistrations == RotationRegistration \cup ClientsRegistration \cup AssertionRegistration
AllAuthRequests == RotationAuthRequest \cup ClientsAuthRequest \cup AssertionAuthRequest
AllForms == RotationForm \cup ClientsForm \cup AssertionForm

\* The clients that are registered, hold a token, have used an assertion or
\* have a request under way.
Involved ==
    {c \in Client : reg[c] # {}}
    \cup {tokens[i].client : i \in Index}
    \cup {a.client : a \in {x \in Assertion : entries[AssertionKeyOf(x)] # 0}}
    \cup {req[r].form.client : r \in {x \in Request : req[x] # Idle}}

OneScenario ==
    \/ Involved \subseteq {"c1"} /\ Len(tokens) <= 7
    \/ /\ Involved \subseteq {"c2", "c3"}
       /\ Len(tokens) <= 4
       /\ Cardinality({r \in Request : req[r] # Idle}) <= 1
    \/ Involved \subseteq {"c4"} /\ Len(tokens) <= 4
=============================================================================
