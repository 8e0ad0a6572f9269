----------------------- MODULE MCAuthorizationEndpoint -----------------------
(***************************************************************************)
(* AuthorizationEndpoint for TLC: two scenarios, each with clients of its  *)
(* own, explored one at a time (OneScenario).                              *)
(***************************************************************************)
EXTENDS AuthorizationEndpoint, TLC

Uri(name, iss) == [name |-> name, has_iss |-> iss, wellformed |-> TRUE]
U1 == Uri("https://rp/cb", FALSE)
U2 == Uri("https://rp/cb?iss=x", TRUE)
U3 == [name |-> "not a uri", has_iss |-> FALSE, wellformed |-> FALSE]

Reg(c, a, subject, sec, uris, s) ==
    [client |-> c, auth |-> a, subject_type |-> subject, sector |-> sec, redirect_uris |-> uris,
     response_types |-> {{"code"}, {"code", "id_token"}}, scope |-> s]

\* Subjects: a client moves between subject types, sectors and auth methods.
SubjectRegistration ==
    UNION {{ Reg(c, "client_secret_basic", "public", "", {U1}, {}),
             Reg(c, "client_secret_basic", "pairwise", "s1", {U1}, {}),
             Reg(c, "none", "pairwise", "s2", {U1, U3}, {}),
             Reg(c, "none", "public", "", {U1}, {{"openid"}}) } : c \in {"c1", "c2"}}

Base == [client |-> "c1", scope |-> {"openid", "email"}, redirect |-> U1,
         response_type |-> {"code"}, response_mode |-> {}, prompt |-> <<>>, nonce |-> TRUE,
         state_ok |-> TRUE, challenge |-> "S256", claims |-> {"email", "name"}]

SubjectRequest ==
    { Base, [Base EXCEPT !.challenge = "absent", !.scope = {"openid"}],
      [Base EXCEPT !.challenge = "plain"], [Base EXCEPT !.state_ok = FALSE],
      [Base EXCEPT !.redirect = U3] }

\* Shapes: every response type and mode, with a redirect URI that has an iss.
ShapeRegistration ==
    { [Reg("c3", "client_secret_basic", "public", "", {U1, U2}, {})
       EXCEPT !.response_types = Supported \cup {{"token"}}] }
ShapeRequest ==
    {[Base EXCEPT !.client = "c3", !.response_type = t, !.response_mode = m, !.redirect = u, !.nonce = n,
                  !.prompt = p] :
        t \in Supported \cup {{"token"}, {"none"}}, m \in {{}, {"query"}, {"fragment"}, {"form_post"}},
        u \in {U1, U2}, n \in BOOLEAN, p \in {<<"none">>, <<"none", "login">>}}

AllRegistrations == SubjectRegistration \cup ShapeRegistration
AllRequests == SubjectRequest \cup ShapeRequest

\* The clients that are registered or have a request under way or answered.
Involved ==
    {c \in Client : clients[c] # {}}
    \cup {slot[s].q.client : s \in {x \in Slot : slot[x] # Idle}}
    \cup {m.q.client : m \in issued}

OneScenario ==
    \/ Involved \subseteq {"c1", "c2"}
    \/ Involved \subseteq {"c3"} /\ Cardinality({s \in Slot : slot[s] # Idle}) <= 1
=============================================================================
