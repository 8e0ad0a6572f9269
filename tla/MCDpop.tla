------------------------------- MODULE MCDpop --------------------------------
(***************************************************************************)
(* Dpop for TLC.                                                           *)
(***************************************************************************)
EXTENDS Dpop, TLC

T(method, base, query, slash, ath) ==
    [method |-> method, base |-> base, query |-> query, slash |-> slash, ath |-> ath]

\* The token endpoint, called with and without a query.
TokenTargets == {T("POST", "token", "", FALSE, {}), T("POST", "token", "a=b", FALSE, {})}
\* UserInfo with two access tokens, by GET and by POST, and with a query.
ResourceTargets == {T("GET", "userinfo", "", FALSE, {"at1"}), T("GET", "userinfo", "", FALSE, {"at2"}),
                    T("POST", "userinfo", "a=b", FALSE, {"at1"})}
\* The same endpoint with a trailing slash.
SlashTargets == {T("POST", "token", "", FALSE, {}), T("POST", "token", "", TRUE, {})}

\* What a client with a clock signs, and the ends of the i64 range.
ClockIats == 0..(Horizon + Skew)
AllIats == ClockIats \cup {-I64Limit, 1 - I64Limit, 3 - I64Limit, I64Limit - 1}

Symmetric == Permutations(Request) \cup Permutations(Proof)
=============================================================================
