----------------------------- MODULE DpopProofs ------------------------------
(***************************************************************************)
(* Proofs about Dpop, for any requests, proofs, lifetimes and clock skew.  *)
(***************************************************************************)
EXTENDS Dpop, FiniteSetTheorems, TLAPS

USE DpopAssumption

Same(r, s) == pc[r] = "accepted" /\ pc[s] = "accepted" /\ shown[r] = shown[s]

\* Proofs are signed with nonces issued until then, and a request has passed the
\* checks with a proof that was signed by then.
ProofInv ==
    /\ \A n \in nonces : n <= clock
    /\ \A p \in Proof : \A c \in proofs[p] : c.signed <= clock /\ \A n \in c.nonce : n <= c.signed
    /\ \A r \in Request : pc[r] # "idle" => shown[r] \in Proof /\ proofs[shown[r]] # {}

\* The marker of an accepted proof lasts MaxAge seconds at least; two requests
\* accepted with one proof are that far apart.
RecordInv ==
    /\ \A r \in Request : pc[r] = "accepted" => at[r] + MaxAge <= entries[shown[r]]
    /\ \A r, s \in Request : r # s /\ Same(r, s) =>
          at[s] >= at[r] + MaxAge \/ at[r] >= at[s] + MaxAge

IInv == TypeOK /\ ProofInv /\ RecordInv /\ NonceBoundsAge

LEMMA InitInv == Init => IInv
<1> SUFFICES ASSUME Init PROVE IInv
  OBVIOUS
<1>1. \A p \in Proof : proofs[p] = {}
  BY DEF Init
<1>2. TypeOK
  BY <1>1, FS_EmptySet DEF Init, TypeOK, NoEntries
<1> QED
  BY <1>1, <1>2 DEF Init, IInv, ProofInv, RecordInv, Same, NonceBoundsAge

LEMMA TickInv ==
    ASSUME IInv, Tick
    PROVE  IInv'
<1>1. clock \in Nat /\ clock' \in 0..Horizon /\ clock' = clock + 1
      /\ UNCHANGED <<proofs, nonces, entries, pc, shown, checked, at>>
  BY DEF IInv, TypeOK, Tick
<1>2. TypeOK' /\ RecordInv' /\ NonceBoundsAge'
  BY <1>1 DEF IInv, TypeOK, RecordInv, Same, NonceBoundsAge
<1>3. ProofInv'
  BY <1>1 DEF IInv, TypeOK, ProofInv, Claims
<1> QED
  BY <1>2, <1>3 DEF IInv

LEMMA IssueNonceInv ==
    ASSUME IInv, IssueNonce
    PROVE  IInv'
<1>1. nonces' = nonces \cup {clock} /\ UNCHANGED <<clock, proofs, entries, pc, shown, checked, at>>
  BY DEF IssueNonce
<1> QED
  BY <1>1 DEF IInv, TypeOK, ProofInv, RecordInv, Same, NonceBoundsAge

LEMMA SignInv ==
    ASSUME IInv, NEW p \in Proof, NEW iat \in Iat, NEW u \in Target,
           NEW nonce \in SUBSET (0..Horizon), Sign(p, iat, u, nonce)
    PROVE  IInv'
<1> DEFINE c == [iat |-> iat, for |-> u, nonce |-> nonce, signed |-> clock]
<1>1. /\ proofs[p] = {} /\ nonce \subseteq nonces /\ proofs' = [proofs EXCEPT ![p] = {c}]
      /\ UNCHANGED <<clock, nonces, entries, pc, shown, checked, at>>
  BY DEF Sign
<1>2. c \in Claims
  BY DEF IInv, TypeOK, Claims
<1>3. \A q \in Proof : proofs'[q] = IF q = p THEN {c} ELSE proofs[q]
  BY <1>1 DEF IInv, TypeOK
<1>4. TypeOK'
  <2>1. proofs' \in [Proof -> SUBSET Claims]
    BY <1>1, <1>2 DEF IInv, TypeOK
  <2>2. Cardinality({c}) = 1
    BY FS_Singleton
  <2>3. \A q \in Proof : Cardinality(proofs'[q]) <= 1
    <3> HIDE DEF c
    <3> QED
      BY <1>3, <2>2 DEF IInv, TypeOK
  <2> QED
    BY <1>1, <2>1, <2>3 DEF IInv, TypeOK
<1>5. \A r \in Request : pc[r] # "idle" => shown[r] # p
  BY <1>1 DEF IInv, ProofInv
<1>6. ProofInv'
  <2>1. clock \in 0..Horizon /\ c.signed = clock /\ c.nonce = nonce
    BY DEF IInv, TypeOK
  <2>2. \A n \in c.nonce : n <= c.signed
    BY <1>1, <2>1 DEF IInv, ProofInv
  <2>3. ASSUME NEW q \in Proof, NEW d \in proofs'[q]
        PROVE  d.signed <= clock /\ \A n \in d.nonce : n <= d.signed
    <3>1. CASE q = p
      <4>1. d = c
        BY <1>3, <3>1
      <4> HIDE DEF c
      <4> QED
        BY <2>1, <2>2, <4>1
    <3>2. CASE q # p
      BY <1>3, <2>3, <3>2 DEF IInv, ProofInv
    <3> QED
      BY <3>1, <3>2
  <2> QED
    BY <1>1, <1>3, <1>5, <2>3 DEF IInv, ProofInv
<1>7. RecordInv'
  BY <1>1 DEF IInv, RecordInv, Same
<1>8. NonceBoundsAge'
  BY <1>1, <1>3, <1>5 DEF IInv, ProofInv, NonceBoundsAge
<1> QED
  BY <1>4, <1>6, <1>7, <1>8 DEF IInv

LEMMA CheckInv ==
    ASSUME IInv, NEW r \in Request, NEW p \in Proof, NEW u \in Target, Check(r, p, u)
    PROVE  IInv'
<1>1. /\ pc[r] = "idle" /\ shown' = [shown EXCEPT ![r] = p]
      /\ checked' = [checked EXCEPT ![r] = clock] /\ pc' = [pc EXCEPT ![r] = "checked"]
      /\ UNCHANGED <<clock, proofs, nonces, entries, at>>
  BY DEF Check, Goto
<1>2. TypeOK'
  BY <1>1 DEF IInv, TypeOK
<1>3. /\ pc'[r] = "checked" /\ shown'[r] = p /\ checked'[r] = clock
      /\ \A s \in Request : s # r => pc'[s] = pc[s] /\ shown'[s] = shown[s] /\ checked'[s] = checked[s]
  BY <1>1 DEF IInv, TypeOK
<1>4. PICK c \in proofs[p] : RequireNonce => NonceOk(c.nonce, clock)
  BY DEF Check, Passes
<1>5. ProofInv'
  BY <1>1, <1>3, <1>4 DEF IInv, ProofInv
<1>6. RecordInv'
  BY <1>1, <1>3 DEF IInv, RecordInv, Same
<1>7. RequireNonce => clock - c.signed \in 0..NonceLifetime
  <2> SUFFICES ASSUME RequireNonce PROVE clock - c.signed \in 0..NonceLifetime
    OBVIOUS
  <2>1. c \in Claims /\ clock \in 0..Horizon
    BY <1>4 DEF IInv, TypeOK
  <2>2. PICK ts \in c.nonce : clock - ts \in 0..NonceLifetime
    BY <1>4 DEF NonceOk
  <2>3. ts <= c.signed /\ c.signed <= clock
    BY <1>4, <2>2 DEF IInv, ProofInv
  <2>4. ts \in 0..Horizon /\ c.signed \in 0..Horizon
    BY <2>1, <2>2 DEF Claims
  <2> QED
    BY <2>1, <2>2, <2>3, <2>4
<1>8. NonceBoundsAge'
  BY <1>1, <1>3, <1>4, <1>7 DEF IInv, NonceBoundsAge
<1> QED
  BY <1>2, <1>5, <1>6, <1>8 DEF IInv

LEMMA RecordedInv ==
    ASSUME IInv, NEW r \in Request, Record(r) \/ RecordFails(r)
    PROVE  IInv'
<1>1. /\ pc[r] = "checked" /\ UNCHANGED <<clock, proofs, nonces, shown, checked>>
      /\ shown[r] \in Proof /\ clock \in 0..Horizon /\ entries[shown[r]] \in Nat
  BY DEF Record, RecordFails, IInv, TypeOK, ProofInv
<1>2. ASSUME NEW l \in {"accepted", "replay", "error"}, pc' = [pc EXCEPT ![r] = l]
      PROVE  /\ pc'[r] = l /\ \A s \in Request : s # r => pc'[s] = pc[s]
             /\ ProofInv' /\ NonceBoundsAge'
             /\ pc' \in [Request -> {"idle", "checked", "accepted", "replay", "error"}]
  <2>1. /\ pc'[r] = l /\ \A s \in Request : s # r => pc'[s] = pc[s]
        /\ pc' \in [Request -> {"idle", "checked", "accepted", "replay", "error"}]
    BY <1>2 DEF IInv, TypeOK
  <2>2. ProofInv'
    BY <1>1, <2>1 DEF IInv, ProofInv
  <2>3. NonceBoundsAge'
    BY <1>1, <2>1 DEF IInv, NonceBoundsAge
  <2> QED
    BY <2>1, <2>2, <2>3
<1>3. ASSUME pc' = [pc EXCEPT ![r] = "error"], UNCHANGED <<at, entries>>
      PROVE  IInv'
  BY <1>1, <1>2, <1>3 DEF IInv, TypeOK, RecordInv, Same
<1>4. ASSUME pc' = [pc EXCEPT ![r] = "replay"], at' = [at EXCEPT ![r] = clock], entries' = entries
      PROVE  IInv'
  <2>1. \A s \in Request : s # r => at'[s] = at[s]
    BY <1>4 DEF IInv, TypeOK
  <2>2. TypeOK'
    BY <1>1, <1>2, <1>4 DEF IInv, TypeOK
  <2>3. RecordInv'
    BY <1>1, <1>2, <1>4, <2>1 DEF IInv, RecordInv, Same
  <2> QED
    BY <1>2, <1>4, <2>2, <2>3 DEF IInv
<1>5. ASSUME pc' = [pc EXCEPT ![r] = "accepted"], at' = [at EXCEPT ![r] = clock],
             ~Held(entries, shown[r], clock),
             entries' = [entries EXCEPT ![shown[r]] = clock + RecordTtl]
      PROVE  IInv'
  <2>1. /\ at'[r] = clock /\ \A s \in Request : s # r => at'[s] = at[s]
        /\ entries'[shown[r]] = clock + MaxAge
        /\ \A p \in Proof : p # shown[r] => entries'[p] = entries[p]
        /\ entries[shown[r]] <= clock
    BY <1>1, <1>5 DEF IInv, TypeOK, RecordTtl, Held
  <2>2. TypeOK'
    BY <1>1, <1>2, <1>5 DEF IInv, TypeOK, RecordTtl
  <2>3. ASSUME NEW s \in Request, s # r, pc[s] = "accepted", shown[s] = shown[r]
        PROVE  at[s] + MaxAge <= clock
    <3>1. at[s] + MaxAge <= entries[shown[r]] /\ at[s] \in 0..Horizon
      BY <2>3 DEF IInv, TypeOK, RecordInv
    <3> QED
      BY <1>1, <2>1, <3>1
  <2>4. ASSUME NEW s \in Request, pc'[s] = "accepted" PROVE at'[s] + MaxAge <= entries'[shown[s]]
    <3>1. CASE s = r
      BY <1>1, <2>1, <3>1
    <3>2. CASE s # r /\ shown[s] = shown[r]
      <4>1. pc[s] = "accepted"
        BY <1>2, <1>5, <2>4, <3>2
      <4>2. at[s] + MaxAge <= clock /\ at[s] \in 0..Horizon
        BY <2>3, <3>2, <4>1 DEF IInv, TypeOK
      <4> QED
        BY <1>1, <2>1, <3>2, <4>2
    <3>3. CASE s # r /\ shown[s] # shown[r]
      <4>1. pc[s] = "accepted" /\ shown[s] \in Proof
        BY <1>2, <1>5, <2>4, <3>3 DEF IInv, ProofInv
      <4> QED
        BY <2>1, <3>3, <4>1 DEF IInv, RecordInv
    <3> QED
      BY <3>1, <3>2, <3>3
  <2>5. ASSUME NEW q \in Request, NEW s \in Request, q # s, Same(q, s)'
        PROVE  at'[s] >= at'[q] + MaxAge \/ at'[q] >= at'[s] + MaxAge
    <3>1. CASE q = r
      BY <1>1, <1>2, <1>5, <2>1, <2>3, <2>5, <3>1 DEF Same
    <3>2. CASE s = r
      BY <1>1, <1>2, <1>5, <2>1, <2>3, <2>5, <3>2 DEF Same
    <3>3. CASE q # r /\ s # r
      BY <1>1, <1>2, <1>5, <2>1, <2>5, <3>3 DEF Same, IInv, RecordInv
    <3> QED
      BY <3>1, <3>2, <3>3
  <2>6. RecordInv'
    BY <1>1, <2>4, <2>5 DEF RecordInv
  <2> QED
    BY <1>2, <1>5, <2>2, <2>6 DEF IInv
<1> QED
  BY <1>3, <1>4, <1>5 DEF Record, RecordFails, Goto

LEMMA StepInv ==
    ASSUME IInv, [Next]_vars
    PROVE  IInv'
<1>1. ASSUME NEW p \in Proof, NEW iat \in Iat, NEW u \in Target,
             NEW ts \in 0..Horizon, Sign(p, iat, u, {}) \/ Sign(p, iat, u, {ts})
      PROVE  IInv'
  BY <1>1, SignInv
<1>2. CASE UNCHANGED vars
  BY <1>2 DEF vars, IInv, TypeOK, ProofInv, RecordInv, Same, NonceBoundsAge
<1> QED
  BY <1>1, <1>2, TickInv, IssueNonceInv, CheckInv, RecordedInv DEF Next

LEMMA Inductive == Spec => []IInv
BY InitInv, StepInv, PTL DEF Spec

\* Every reachable state of proofs, nonces and the replay store is well typed.
THEOREM TypeCorrect == Spec => []TypeOK
BY Inductive, PTL DEF IInv

\* The reach of validate_and_record, whatever iat the client signed: a proof that
\* passes as fresh is accepted again only MaxAge seconds after its first use, and
\* that use came no later than its iat, unless now - iat overflows.
THEOREM ReplayReachHolds == Spec => []ReplayReach
<1>1. ASSUME IInv PROVE ReplayReach
  <2> SUFFICES ASSUME NEW r \in Request, NEW s \in Request, AcceptedTwice(r, s)
               PROVE  \E c \in proofs[shown[s]] :
                         \/ ~Fresh(c.iat, at[s])
                         \/ /\ at[s] >= at[r] + MaxAge
                            /\ at[r] <= c.iat \/ at[s] - c.iat >= I64Limit
    BY DEF ReplayReach
  <2>1. at[r] \in 0..Horizon /\ at[s] \in 0..Horizon /\ at[r] <= at[s]
    BY <1>1 DEF AcceptedTwice, IInv, TypeOK
  <2>2. at[s] >= at[r] + MaxAge
    <3>1. at[s] >= at[r] + MaxAge \/ at[r] >= at[s] + MaxAge
      BY <1>1 DEF AcceptedTwice, IInv, RecordInv, Same
    <3> QED
      BY <2>1, <3>1
  <2>3. PICK c \in proofs[shown[s]] : c \in Claims
    BY <1>1 DEF AcceptedTwice, IInv, ProofInv, TypeOK
  <2>4. c.iat \in -I64Limit..(I64Limit - 1)
    BY <2>3 DEF Claims
  <2>5. ASSUME Fresh(c.iat, at[s]), at[s] - c.iat < I64Limit
        PROVE  at[r] <= c.iat
    <3>1. WrappingSub(at[s], c.iat) = at[s] - c.iat
      BY <2>1, <2>4, <2>5 DEF WrappingSub
    <3> QED
      BY <2>1, <2>2, <2>4, <2>5, <3>1 DEF Fresh
  <2> QED
    BY <2>1, <2>2, <2>3, <2>4, <2>5
<1> QED
  BY <1>1, Inductive, PTL

\* A nonce that validate_nonce accepts was issued before the proof was signed,
\* so no proof passes later than the nonce's lifetime after its signing.
THEOREM NonceBoundsAgeHolds == Spec => []NonceBoundsAge
BY Inductive, PTL DEF IInv
=============================================================================
