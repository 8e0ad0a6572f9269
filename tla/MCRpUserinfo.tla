---------------------------- MODULE MCRpUserinfo -----------------------------
(***************************************************************************)
(* RpUserinfo for TLC: two keys, the five kinds of Cache-Control header    *)
(* that advertised_ttl tells apart, documents that have to be refused, and *)
(* four ways of reading UserInfo.                                          *)
(***************************************************************************)
EXTENDS RpUserinfo, Sequences

U(scheme, loopback) ==
    [scheme |-> scheme, loopback |-> loopback, parses |-> TRUE, clean |-> TRUE,
     userinfo |-> FALSE, fragment |-> FALSE, query |-> "none"]

Https == U("https", FALSE)
Local == U("http", TRUE)

D(issuer, jwks, userinfo) ==
    [issuer |-> issuer, authorization_endpoint |-> Https, token_endpoint |-> Https,
     userinfo_endpoint |-> userinfo, jwks_uri |-> {jwks}]

\* A good document, one with an endpoint on plain http, and one of an issuer on
\* the loopback interface.
Docs == { D(Https, Https, {Https}), D(Https, Local, {Https}), D(Local, Local, {Local}) }

MaxAgeIs(n) == [name |-> "max-age", value |-> n]
H(balanced, directives) == [balanced |-> balanced, directives |-> directives]

Headers == { H(TRUE, <<>>),
             H(TRUE, <<MaxAgeIs({}), MaxAgeIs({2}), MaxAgeIs({1})>>),
             H(TRUE, <<MaxAgeIs({9})>>),
             H(TRUE, <<MaxAgeIs({2}), [name |-> "no-store", value |-> {}]>>),
             H(FALSE, <<MaxAgeIs({2})>>) }

O(trust, require_exp, max_age, missing, typ, dedicated) ==
    [trust |-> trust, expected |-> "userinfo+jwt", require_exp |-> require_exp,
     max_age |-> max_age, allow_missing_kid |-> missing, typ |-> typ, dedicated |-> dedicated]

Setups == { O("typed", FALSE, {0}, FALSE, "userinfo+jwt", FALSE),
            O("dedicated", TRUE, {}, TRUE, "none", TRUE),
            O("compat", FALSE, {0}, FALSE, "none", FALSE),
            O("compat", FALSE, {}, TRUE, "none", FALSE) }

\* UserInfo is explored while no request for keys is under way: what it does to
\* the keys is nothing, and what the keys do to it is the set in the cache and
\* the time since they were withdrawn.  A finished session is followed until
\* time passes.
QuietSession ==
    /\ sess # "in" \/ kept # {} => shared = {} /\ flight = {} /\ call = "none" /\ info # {}
    /\ \A g \in got : IF g.form = "json" THEN kept = {} ELSE \A j \in kept : j.age = g.age
=============================================================================
