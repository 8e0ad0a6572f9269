-------------------------------- MODULE Dpop ---------------------------------
(***************************************************************************)
(* Validation of DPoP proofs (src/src/dpop.rs): the stateless checks, then *)
(* the recording of the proof's jti, with an await between them, and the   *)
(* stateless nonces.  Clients sign proofs by their own clock, which may be *)
(* behind or ahead.  The ReplayStore is the deployment's: it is taken to   *)
(* do what the trait asks, keep a jti for ttl_secs and decide atomically.  *)
(***************************************************************************)
EXTENDS TokenUseStore, Integers, FiniteSets

CONSTANTS Request,        \* requests, each presenting one proof
          Proof,          \* proofs, each with its own jti
          NoProof,
          Target,         \* what a request is: [method, base, query, slash, ath]
          MaxAge,         \* proof_max_age_secs
          Skew,           \* IAT_FUTURE_SKEW_SECS
          RequireNonce,   \* require_nonce
          NonceLifetime,  \* nonce_lifetime_secs
          I64Limit,       \* 2^63: an i64 is in -I64Limit..I64Limit - 1
          Iat,            \* iat claims that clients sign, any i64 among them
          Horizon         \* last clock value

ASSUME DpopAssumption ==
    /\ {MaxAge, Skew, NonceLifetime, I64Limit, Horizon} \subseteq Nat
    /\ Iat \subseteq -I64Limit..(I64Limit - 1)
    /\ Horizon + Skew < I64Limit /\ MaxAge < I64Limit
    /\ RequireNonce \in BOOLEAN
    /\ NoProof \notin Proof
    /\ Target \subseteq [method : STRING, base : STRING, query : STRING,
                         slash : BOOLEAN, ath : SUBSET STRING]

VARIABLES clock,
          proofs,   \* proofs[p]: {} or {its claims}, once a client signed it
          nonces,   \* timestamps of the nonces issued so far
          entries,  \* the replay store: jti -> expiry
          pc,       \* pc[r]
          shown,    \* shown[r]: the proof that r presents
          checked,  \* checked[r]: when the stateless checks passed (history)
          at        \* at[r]: when the jti was recorded (history)

vars == <<clock, proofs, nonces, entries, pc, shown, checked, at>>

Claims == [iat : Iat, for : Target, nonce : SUBSET (0..Horizon), signed : 0..Horizon]

TypeOK ==
    /\ clock \in 0..Horizon
    /\ proofs \in [Proof -> SUBSET Claims]
    /\ \A p \in Proof : Cardinality(proofs[p]) <= 1
    /\ nonces \subseteq 0..Horizon
    /\ entries \in [Proof -> Nat]
    /\ pc \in [Request -> {"idle", "checked", "accepted", "replay", "error"}]
    /\ shown \in [Request -> Proof \cup {NoProof}]
    /\ checked \in [Request -> 0..Horizon]
    /\ at \in [Request -> 0..Horizon]

Init ==
    /\ clock = 0
    /\ proofs = [p \in Proof |-> {}]
    /\ nonces = {}
    /\ entries = NoEntries(Proof)
    /\ pc = [r \in Request |-> "idle"]
    /\ shown = [r \in Request |-> NoProof]
    /\ checked = [r \in Request |-> 0]
    /\ at = [r \in Request |-> 0]

\* normalize_htu: query and fragment are dropped.
NormalizeHtu(u) == <<u.base, u.slash>>

Goto(r, l) == pc' = [pc EXCEPT ![r] = l]

Tick ==
    /\ clock < Horizon
    /\ clock' = clock + 1
    /\ UNCHANGED <<proofs, nonces, entries, pc, shown, checked, at>>

\* issue_nonce: the current second under a MAC, so it cannot be made up.
IssueNonce ==
    /\ RequireNonce
    /\ clock \notin nonces
    /\ nonces' = nonces \cup {clock}
    /\ UNCHANGED <<clock, proofs, entries, pc, shown, checked, at>>

\* A client signs a proof, with whatever iat it likes, for some request, and with
\* a nonce that it was given, if any.
Sign(p, iat, u, nonce) ==
    /\ proofs[p] = {}
    /\ nonce \subseteq nonces
    /\ proofs' = [proofs EXCEPT ![p] = {[iat |-> iat, for |-> u, nonce |-> nonce,
                                         signed |-> clock]}]
    /\ UNCHANGED <<clock, nonces, entries, pc, shown, checked, at>>

\* a - b as the release build computes it on i64, modulo 2^64.  A build that
\* checks for overflow panics in its place, before anything is recorded: the
\* request is not answered, which is a request without a Check step here.
WrappingSub(a, b) ==
    CASE a - b >= I64Limit  -> a - b - 2 * I64Limit
      [] a - b < -I64Limit  -> a - b + 2 * I64Limit
      [] OTHER              -> a - b

\* iat freshness.
Fresh(iat, now) == ~(iat > now + Skew) /\ ~(WrappingSub(now, iat) > MaxAge)

\* Mutant of NonceOk: only nonces from the future are refused.
NonceOkForever(nonce, now) == \E ts \in nonce : now - ts >= 0

\* validate_nonce
NonceOk(nonce, now) == \E ts \in nonce : now - ts \in 0..NonceLifetime

\* validate_proof_inner accepts the proof p for the request u: htm, htu, ath on
\* a resource request, freshness, nonce.  A proof that is no ES256 JWS under
\* its own public key is refused outright and not modelled.
Passes(p, u) ==
    \E c \in proofs[p] :
        /\ c.for.method = u.method
        /\ NormalizeHtu(c.for) = NormalizeHtu(u)
        /\ u.ath # {} => c.for.ath = u.ath
        /\ Fresh(c.iat, clock)
        /\ RequireNonce => NonceOk(c.nonce, clock)

\* validate_and_record, up to its await.
Check(r, p, u) ==
    /\ pc[r] = "idle"
    /\ Passes(p, u)
    /\ shown' = [shown EXCEPT ![r] = p]
    /\ checked' = [checked EXCEPT ![r] = clock]
    /\ Goto(r, "checked")
    /\ UNCHANGED <<clock, proofs, nonces, entries, at>>

\* Mutant of RecordTtl: the window's last second is not covered.
RecordTtlShort == MaxAge - 1

\* The ttl handed to the replay store.
RecordTtl == MaxAge

\* store.record(jti, ttl): recording is the check.
Record(r) ==
    /\ pc[r] = "checked"
    /\ at' = [at EXCEPT ![r] = clock]
    /\ \/ /\ Held(entries, shown[r], clock)
          /\ Goto(r, "replay")
          /\ UNCHANGED entries
       \/ /\ ~Held(entries, shown[r], clock)
          /\ Goto(r, "accepted")
          /\ entries' = [entries EXCEPT ![shown[r]] = clock + RecordTtl]
    /\ UNCHANGED <<clock, proofs, nonces, shown, checked>>

\* store.record fails, as NoReplayStore always does: the proof is refused.
RecordFails(r) ==
    /\ pc[r] = "checked"
    /\ Goto(r, "error")
    /\ UNCHANGED <<clock, proofs, nonces, entries, shown, checked, at>>

Next ==
    \/ Tick
    \/ IssueNonce
    \/ \E p \in Proof, iat \in Iat, u \in Target, ts \in 0..Horizon :
          Sign(p, iat, u, {}) \/ Sign(p, iat, u, {ts})
    \/ \E r \in Request, p \in Proof, u \in Target : Check(r, p, u)
    \/ \E r \in Request : Record(r) \/ RecordFails(r)

Spec == Init /\ [][Next]_vars
-----------------------------------------------------------------------------
\* r and s were both accepted with the same proof, r no later than s.
AcceptedTwice(r, s) ==
    /\ r # s
    /\ pc[r] = "accepted" /\ pc[s] = "accepted"
    /\ shown[r] = shown[s]
    /\ at[r] <= at[s]

\* What the module documentation says: a proof is accepted once, its jti being
\* remembered for the proof's freshness window.
ProofUsedOnce ==
    \A r, s \in Request : AcceptedTwice(r, s) =>
        \E c \in proofs[shown[s]] : ~Fresh(c.iat, at[s])

\* How far the protection reaches, for every iat that a client can sign: a proof
\* that still passes as fresh is accepted a second time only once MaxAge seconds
\* have passed since its first use, and only if that use came no later than the
\* second in its iat, or the iat is so low that its age does not fit an i64.
ReplayReach ==
    \A r, s \in Request : AcceptedTwice(r, s) =>
        \E c \in proofs[shown[s]] :
            \/ ~Fresh(c.iat, at[s])
            \/ /\ at[s] >= at[r] + MaxAge
               /\ at[r] <= c.iat \/ at[s] - c.iat >= I64Limit

\* A required nonce bounds the age of a proof whatever its iat claims: no proof
\* passes the checks later than the nonce's lifetime after it was signed.
NonceBoundsAge ==
    RequireNonce =>
        \A r \in Request : pc[r] # "idle" =>
            \E c \in proofs[shown[r]] : checked[r] - c.signed \in 0..NonceLifetime
=============================================================================
