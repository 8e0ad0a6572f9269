------------------------------- MODULE GrantOps ------------------------------
(***************************************************************************)
(* Values and helpers shared by the endpoints of the OpenID Provider       *)
(* (src/src/provider.rs, src/src/client.rs).  An Option is the empty set   *)
(* or a singleton.  A scope is the set of its space-separated words, and a *)
(* claims map the set of its claim names.                                  *)
(***************************************************************************)
EXTENDS Naturals, FiniteSets, Sequences

\* Option<S>
Opt(S) == {{}} \cup {{x} : x \in S}

\* unwrap_or
OrElse(o, d) == IF o = {} THEN d ELSE CHOOSE x \in o : TRUE

\* The claims the models release: one for each case of claim_allowed_by_scope
\* (address and phone work like email), and a custom claim.
ClaimName == {"name", "email", "department"}

\* claim_allowed_by_scope: the scope that a standard claim requires, if any.
RequiredScope(claim) ==
    CASE claim = "name"  -> {"profile"}
      [] claim = "email" -> {"email"}
      [] OTHER           -> {}

ClaimAllowedByScope(scope, claim) == RequiredScope(claim) \subseteq scope

\* filter_claims
FilterClaims(scope, claims) == {c \in claims : ClaimAllowedByScope(scope, c)}

AuthMethod == {"client_secret_basic", "client_secret_post", "private_key_jwt"}
GrantType == {"authorization_code", "refresh_token", "client_credentials"}

\* client_allows_refresh
ClientAllowsRefresh(client) == "refresh_token" \in client.grant_types
=============================================================================
