------------------------------- MODULE MCRpLogin ------------------------------
(***************************************************************************)
(* RpLogin for TLC: a provider that sends iss and state, one that sends    *)
(* neither, with PKCE instead of a nonce, and two that use JARM with keys  *)
(* that also sign other JWTs, one with a typ and one without.              *)
(***************************************************************************)
EXTENDS RpLogin

P(jarm, iss, state, typ, untyped, shared, pkce, nonce, public) ==
    [jarm |-> jarm, iss |-> iss, state |-> state, typ |-> typ, untyped |-> untyped,
     shared |-> shared, pkce |-> pkce, nonce |-> nonce, public |-> public]

Ops == {"full", "bare", "jarm", "weak"}

Profiles ==
    [o \in Ops |->
        CASE o = "full" -> P(FALSE, TRUE, TRUE, None, FALSE, TRUE, FALSE, FALSE, FALSE)
          [] o = "bare" -> P(FALSE, FALSE, FALSE, None, FALSE, TRUE, TRUE, FALSE, TRUE)
          [] o = "jarm" -> P(TRUE, TRUE, FALSE, "oauth-authz-resp+jwt",
                             FALSE, TRUE, FALSE, TRUE, FALSE)
          [] o = "weak" -> P(TRUE, TRUE, TRUE, None, TRUE, TRUE, FALSE, TRUE, FALSE)]

\* Three sessions at plain providers and three at JARM providers.
Homes == <<"full", "full", "bare", "jarm", "jarm", "weak">>

Audiences ==
    { [aud |-> <<"us">>, azp |-> None],
      [aud |-> <<"us", "trusted">>, azp |-> "us"],
      [aud |-> <<"us", "trusted">>, azp |-> None],
      [aud |-> <<"us", "them">>, azp |-> "us"] }

\* The groups are explored one at a time; JARM responses stray to plain sessions.
OneScenario ==
    LET started == {s \in Session : rp[s] # "new"}
        issuers == {c.op : c \in codes}
    IN  \/ started \subseteq 1..3 /\ "weak" \notin issuers
        \/ started \subseteq 4..6 /\ issuers \subseteq {"jarm", "weak"}
=============================================================================
