----------------------------- MODULE OneTimeUse ------------------------------
(***************************************************************************)
(* What a one-time-use store promises the token endpoint, whatever its     *)
(* implementation.  An attempt to redeem a token is granted, refused or    *)
(* failed; only a granted attempt goes on to mint tokens, and it may die   *)
(* first.  A live token is granted at most once between two losses of the  *)
(* store's memory, and is refused only after it was spent.  A failed       *)
(* attempt never mints; it leaves the token usable unless its request to   *)
(* the store was, or will still be, carried out.                           *)
(*                                                                         *)
(* The promise is about live tokens only.  An attempt that passed the      *)
(* expiry check and reaches the store after the token's last second may be *)
(* granted although the token was spent: the store has forgotten it.       *)
(***************************************************************************)
EXTENDS Naturals

CONSTANTS Request,   \* redemption attempts
          Token,     \* authorization codes and refresh tokens
          Lifetime,  \* seconds from the issue of a token to its expiry
          Horizon    \* last clock value

VARIABLES clock,     \* whole seconds, as now_secs() returns them
          exp,       \* exp[t]: the second at which t expires, 0 before issue
          outcome,   \* outcome[r]: how the attempt r was settled
          spent      \* spent[t]: an attempt has spent t

vars == <<clock, exp, outcome, spent>>

Outcome == {"none", "granted", "minted", "refused", "failed"}

TypeOK ==
    /\ clock \in 0..Horizon
    /\ exp \in [Token -> Nat]
    /\ outcome \in [Request -> Outcome]
    /\ spent \in [Token -> BOOLEAN]

Init ==
    /\ clock = 0
    /\ exp = [t \in Token |-> 0]
    /\ outcome = [r \in Request |-> "none"]
    /\ spent = [t \in Token |-> FALSE]

Settle(r, o) == outcome' = [outcome EXCEPT ![r] = o]

Tick ==
    /\ clock < Horizon
    /\ clock' = clock + 1
    /\ UNCHANGED <<exp, outcome, spent>>

Issue(t) ==
    /\ exp[t] = 0
    /\ exp' = [exp EXCEPT ![t] = clock + Lifetime]
    /\ UNCHANGED <<clock, outcome, spent>>

Grant(r, t) ==
    /\ outcome[r] = "none"
    /\ exp[t] # 0
    /\ clock < exp[t] => ~spent[t]
    /\ Settle(r, "granted")
    /\ spent' = [spent EXCEPT ![t] = TRUE]
    /\ UNCHANGED <<clock, exp>>

Refuse(r, t) ==
    /\ outcome[r] = "none"
    /\ spent[t]
    /\ Settle(r, "refused")
    /\ UNCHANGED <<clock, exp, spent>>

Mint(r) ==
    /\ outcome[r] = "granted"
    /\ Settle(r, "minted")
    /\ UNCHANGED <<clock, exp, spent>>

\* The attempt dies or its answer is lost, before or after it was granted.
Fail(r) ==
    /\ outcome[r] \in {"none", "granted"}
    /\ Settle(r, "failed")
    /\ UNCHANGED <<clock, exp, spent>>

\* A failed attempt's request to the store may still arrive, and spend.
SpendLate(r, t) ==
    /\ outcome[r] = "failed"
    /\ exp[t] # 0
    /\ clock < exp[t] => ~spent[t]
    /\ spent' = [spent EXCEPT ![t] = TRUE]
    /\ UNCHANGED <<clock, exp, outcome>>

\* The store loses its memory, and with it die the attempts under way.
Forget ==
    /\ spent' = [t \in Token |-> FALSE]
    /\ \E D \in SUBSET {r \in Request : outcome[r] \in {"none", "granted"}} :
          outcome' = [r \in Request |-> IF r \in D THEN "failed" ELSE outcome[r]]
    /\ UNCHANGED <<clock, exp>>

Next ==
    \/ Tick
    \/ Forget
    \/ \E t \in Token : Issue(t)
    \/ \E r \in Request : Mint(r) \/ Fail(r)
    \/ \E r \in Request, t \in Token :
          Grant(r, t) \/ Refuse(r, t) \/ SpendLate(r, t)

Spec == Init /\ [][Next]_vars
=============================================================================
