------------------------------ MODULE Endpoints ------------------------------
(***************************************************************************)
(* Which URLs the relying party is willing to talk to (src/src/rp.rs and   *)
(* src/src/discovery.rs).  A URL is what the checks tell apart: its        *)
(* scheme, whether its host is a loopback host, whether it has user        *)
(* information or a fragment, and what its query holds.  parses is false   *)
(* when it does not parse or has no host, clean when it contains white     *)
(* space, control or invisible characters.                                 *)
(***************************************************************************)

Url == [scheme : {"https", "http", "other"}, loopback : BOOLEAN, parses : BOOLEAN,
        clean : BOOLEAN, userinfo : BOOLEAN, fragment : BOOLEAN,
        query : {"none", "plain", "reserved", "repeated"}]

Plain(u) == u.parses /\ u.clean /\ ~u.userinfo /\ ~u.fragment

ValidateEndpoint(u, allowLoopbackHttp) ==
    /\ Plain(u)
    /\ u.scheme = "https" \/ (allowLoopbackHttp /\ u.scheme = "http" /\ u.loopback)

IssuerAllowsLoopbackHttp(i) ==
    Plain(i) /\ i.scheme = "http" /\ i.loopback /\ i.query = "none"

ValidateServiceEndpointForIssuer(u, i) == ValidateEndpoint(u, IssuerAllowsLoopbackHttp(i))

ValidateAuthorizationEndpointQuery(u) == u.query \in {"none", "plain"}

ValidateIssuer(i) == ValidateEndpoint(i, TRUE) /\ i.query = "none"

\* The two optional endpoints are {} or a singleton.
ProviderInfo ==
    [issuer : Url, authorization_endpoint : Url, token_endpoint : Url,
     userinfo_endpoint : SUBSET Url, jwks_uri : SUBSET Url]

\* ProviderInfo::validate
ValidateProvider(d) ==
    /\ ValidateIssuer(d.issuer)
    /\ \A u \in {d.authorization_endpoint, d.token_endpoint}
                \cup d.userinfo_endpoint \cup d.jwks_uri :
           ValidateServiceEndpointForIssuer(u, d.issuer)
    /\ ValidateAuthorizationEndpointQuery(d.authorization_endpoint)

\* validate_entity_id of discovery.rs; user information and odd characters are
\* not looked at.
ValidateEntityId(u) ==
    u.parses /\ u.scheme = "https" /\ ~u.fragment /\ u.query = "none"
=============================================================================
