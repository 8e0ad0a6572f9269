-------------------------- MODULE MCClientAssertion --------------------------
(***************************************************************************)
(* ClientAssertion for TLC: assertions that end by exp, by age, at once,   *)
(* with fractional times, with an iat in the future and with an exp at the *)
(* top of the integer range; one jti shared by two clients and one reused. *)
(***************************************************************************)
EXTENDS ClientAssertion, TLC

A(client, jti, iat, exp) == [client |-> client, jti |-> jti, iat |-> iat, exp |-> exp]

Assertions ==
    { A("c1", "j1", 0, 3),     \* ends by exp, which is fractional
      A("c1", "j2", 1, 200),   \* ends by age; fractional iat; exp overflows
      A("c2", "j1", 2, 200),   \* iat in the future when first accepted
      A("c1", "j1", 3, 9) }    \* another assertion with a jti used before

\* A client whose clock is ahead by the leeway.
EarlyAssertions == {A("c2", "j1", 2, 200)}

Symmetric == Permutations(Request)
=============================================================================
