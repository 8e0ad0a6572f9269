---------------------------- MODULE TokenUseStore ----------------------------
(***************************************************************************)
(* The one-time-use store of the token endpoint (src/src/provider.rs), as  *)
(* operators on the map from key to expiry second that it keeps.  0 stands *)
(* for "no entry": an inserted expiry is now + max(ttl, 1) and never 0.    *)
(***************************************************************************)
EXTENDS Naturals

\* u64::saturating_sub
SaturatingSub(a, b) == IF a > b THEN a - b ELSE 0

\* u64::max(1)
AtLeastOne(n) == IF n < 1 THEN 1 ELSE n

\* A store that holds no entry for any of the keys.
NoEntries(Key) == [k \in Key |-> 0]

\* Mutant of Sweep: the comparison of retain is inverted.
SweepInverted(entries, now) ==
    [k \in DOMAIN entries |-> IF entries[k] > now THEN 0 ELSE entries[k]]

\* entries.retain(|_, exp| *exp > now)
Sweep(entries, now) ==
    [k \in DOMAIN entries |-> IF entries[k] > now THEN entries[k] ELSE 0]

\* Mutant of Held: a marker is taken for expired one second early.
HeldOffByOne(entries, k, now) == entries[k] > now + 1

\* The key is held by an earlier consumer: Some(exp) if *exp > now.
Held(entries, k, now) == entries[k] > now

\* entries.insert(key, now + ttl_secs.max(1))
Mark(entries, k, now, ttl) == [entries EXCEPT ![k] = now + AtLeastOne(ttl)]

\* Mutants of TokenTtl: plain subtraction, and a ttl one second too short.
TokenTtlUnclamped(exp, now) == exp - now
TokenTtlShort(exp, now) == AtLeastOne(SaturatingSub(exp, now + 1))

\* The ttl that consume_token_once asks for: the rest of the token's life as
\* of the clock reading now, and never less than a second.
TokenTtl(exp, now) == AtLeastOne(SaturatingSub(exp, now))
=============================================================================
