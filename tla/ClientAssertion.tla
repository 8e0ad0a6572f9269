--------------------------- MODULE ClientAssertion ---------------------------
(***************************************************************************)
(* private_key_jwt client assertions (verify_private_key_jwt in            *)
(* src/src/provider.rs): acceptance by jose-rs, the ttl of the replay      *)
(* marker, and its consumption, at a resolution finer than the seconds of  *)
(* now_secs().  Times are in ticks, TicksPerSec to a second; iat and exp   *)
(* are the client's choice and may be fractional or far in the future.     *)
(***************************************************************************)
EXTENDS TokenUseStore

CONSTANTS Request,      \* requests, each presenting one assertion
          Assertion,    \* [client, jti, iat, exp], iat and exp in ticks
          NoAssertion,  \* what a request that has verified none holds
          TicksPerSec,
          Leeway,       \* Validation::leeway, seconds
          MaxAge,       \* client_assertion_max_age, seconds
          U64Max,       \* u64::MAX, where sums saturate
          Horizon       \* last tick

ASSUME TickAssumption == TicksPerSec \in Nat \ {0}
ASSUME WindowAssumption == {Leeway, MaxAge, U64Max, Horizon} \subseteq Nat
\* The clock does not come to the seconds at which sums saturate.
ASSUME ClockAssumption == Horizon \div TicksPerSec < U64Max
ASSUME AssertionAssumption ==
    /\ NoAssertion \notin Assertion
    /\ Assertion \subseteq [client : STRING, jti : STRING, iat : Nat, exp : Nat]

VARIABLES clock,    \* ticks
          entries,  \* the one-time-use store: key -> expiry second
          pc,       \* pc[r]
          with,     \* with[r]: the assertion that r presents
          ttl,      \* ttl[r]: the ttl handed to consume
          at        \* at[r]: the tick at which the store decided (history)

vars == <<clock, entries, pc, with, ttl, at>>

\* now_secs()
NowSecs == clock \div TicksPerSec

\* Mutant of UseKey: the client is left out of the key.
UseKeyJtiOnly(a) == <<a.jti>>

\* assertion_use_hash: client and jti, length-prefixed, so pairs never collide.
UseKey(a) == <<a.client, a.jti>>

TypeOK ==
    /\ clock \in 0..Horizon
    /\ entries \in [{UseKey(a) : a \in Assertion} -> Nat]
    /\ pc \in [Request -> {"idle", "verified", "called", "accepted", "refused", "error"}]
    /\ with \in [Request -> Assertion \cup {NoAssertion}]
    /\ ttl \in [Request -> Nat]
    /\ at \in [Request -> 0..Horizon]

Init ==
    /\ clock = 0
    /\ entries = NoEntries({UseKey(a) : a \in Assertion})
    /\ pc = [r \in Request |-> "idle"]
    /\ with = [r \in Request |-> NoAssertion]
    /\ ttl = [r \in Request |-> 0]
    /\ at = [r \in Request |-> 0]

Ticks(secs) == secs * TicksPerSec

\* What jose-rs accepts at tick n: not expired, not too old, not from the
\* future, each with the leeway.
AcceptedAt(a, n) ==
    /\ n < a.exp + Ticks(Leeway)
    /\ n <= a.iat + Ticks(MaxAge + Leeway)
    /\ a.iat <= n + Ticks(Leeway)

\* jose-rs may look at its clock in whole seconds or in fractions of one.
Accepted(a, n) == AcceptedAt(a, n) \/ AcceptedAt(a, n - (n % TicksPerSec))

SaturatingAdd(m, n) == IF m + n > U64Max THEN U64Max ELSE m + n

\* exp rounded up to a whole second, plus leeway.
ExpDeadline(a) ==
    SaturatingAdd(SaturatingAdd(a.exp \div TicksPerSec,
                                IF a.exp % TicksPerSec > 0 THEN 1 ELSE 0),
                  Leeway)

\* Mutant of AgeDeadline: the inclusive end of the age window is forgotten.
AgeDeadlineExclusive(a) ==
    SaturatingAdd(SaturatingAdd(a.iat \div TicksPerSec, MaxAge), Leeway)

\* iat rounded down, plus max age and leeway, plus one for the inclusive end.
AgeDeadline(a) ==
    SaturatingAdd(SaturatingAdd(SaturatingAdd(a.iat \div TicksPerSec, MaxAge), Leeway), 1)

Earlier(m, n) == IF m < n THEN m ELSE n

\* The seconds for which the marker is to be kept, as of the second now.
AssertionTtl(a, now) ==
    AtLeastOne(SaturatingSub(Earlier(ExpDeadline(a), AgeDeadline(a)), now))

Goto(r, l) == pc' = [pc EXCEPT ![r] = l]

Tick ==
    /\ clock < Horizon
    /\ clock' = clock + 1
    /\ UNCHANGED <<entries, pc, with, ttl, at>>

\* verify_with_jwks and the checks of audience and jti.
Verify(r, a) ==
    /\ pc[r] = "idle"
    /\ Accepted(a, clock)
    /\ with' = [with EXCEPT ![r] = a]
    /\ Goto(r, "verified")
    /\ UNCHANGED <<clock, entries, ttl, at>>

\* The ttl, from a clock reading of its own.
ComputeTtl(r) ==
    /\ pc[r] = "verified"
    /\ ttl' = [ttl EXCEPT ![r] = AssertionTtl(with[r], NowSecs)]
    /\ Goto(r, "called")
    /\ UNCHANGED <<clock, entries, with, at>>

\* token_use_store.consume(key, ttl)
Consume(r) ==
    /\ pc[r] = "called"
    /\ at' = [at EXCEPT ![r] = clock]
    /\ LET k == UseKey(with[r])
       IN  \/ /\ Held(entries, k, NowSecs)
              /\ Goto(r, "refused")
              /\ UNCHANGED entries
           \/ /\ ~Held(entries, k, NowSecs)
              /\ Goto(r, "accepted")
              /\ entries' = Mark(entries, k, NowSecs, ttl[r])
    /\ UNCHANGED <<clock, with, ttl>>

\* The store fails, before or after it has taken the key: a server error.
StoreFails(r) ==
    /\ pc[r] = "called"
    /\ Goto(r, "error")
    /\ LET k == UseKey(with[r])
       IN  \/ UNCHANGED entries
           \/ /\ ~Held(entries, k, NowSecs)
              /\ entries' = Mark(entries, k, NowSecs, ttl[r])
    /\ UNCHANGED <<clock, with, ttl, at>>

Next ==
    \/ Tick
    \/ \E r \in Request, a \in Assertion : Verify(r, a)
    \/ \E r \in Request : ComputeTtl(r) \/ Consume(r) \/ StoreFails(r)

Spec == Init /\ [][Next]_vars
-----------------------------------------------------------------------------
\* An assertion authenticates at most one request while jose-rs accepts it:
\* the marker lasts to the end of the window, whichever deadline ends it, for
\* fractional claims and for an iat in the future.
AssertionUsedOnce ==
    \A r, s \in Request :
        /\ r # s
        /\ pc[r] = "accepted" /\ pc[s] = "accepted"
        /\ with[r] = with[s]
        => ~Accepted(with[r], at[r]) \/ ~Accepted(with[s], at[s])

\* What ADR 0003 says of the replay entry: its ttl is capped at max_age + leeway.
RetentionCapped == \A r \in Request : ttl[r] <= MaxAge + Leeway

\* The cap that the code does keep, whatever exp: an iat may be ahead by the
\* leeway, and one second is added for the inclusive end of the window.
RetentionBounded == \A r \in Request : ttl[r] <= MaxAge + 2 * Leeway + 1

\* An assertion is refused as used only if the same client used the same jti, in
\* a request that was accepted or that ended with the store's error.
RefusedOnlyAfterUse ==
    \A r \in Request : pc[r] = "refused" =>
        \E s \in Request :
            /\ pc[s] \in {"accepted", "error"}
            /\ with[s].client = with[r].client /\ with[s].jti = with[r].jti
=============================================================================
