------------------------ MODULE ClientAssertionProofs ------------------------
(***************************************************************************)
(* Proofs about ClientAssertion, for any assertions, resolution of the     *)
(* clock, leeway and maximal age.                                          *)
(***************************************************************************)
EXTENDS ClientAssertion, TLAPS

\* The second until which an assertion has to be remembered.
Deadline(a) == Earlier(ExpDeadline(a), AgeDeadline(a))
Secs(n) == n \div TicksPerSec

LEMMA Constants ==
    /\ TicksPerSec \in Nat /\ TicksPerSec > 0
    /\ Leeway \in Nat /\ MaxAge \in Nat /\ U64Max \in Nat /\ Horizon \in Nat
BY TickAssumption, WindowAssumption

LEMMA Claims ==
    ASSUME NEW a \in Assertion
    PROVE  a.iat \in Nat /\ a.exp \in Nat /\ a # NoAssertion
BY AssertionAssumption

\* Division by a whole number of ticks.
LEMMA Division ==
    ASSUME NEW T \in Nat, T > 0, NEW n \in Nat
    PROVE  /\ n \div T \in Nat /\ n % T \in Nat
           /\ T * (n \div T) <= n /\ n < T * (n \div T) + T
           /\ n - (n % T) = T * (n \div T)
<1>1. n \div T \in Nat /\ n % T \in Nat /\ T * (n \div T) <= n /\ n < T * (n \div T) + T
  BY SMTT(60)
<1>2. n - T * (n \div T) = n % T
  BY SMTT(60)
<1> QED
  BY <1>1, <1>2

LEMMA DivisionMonotone ==
    ASSUME NEW T \in Nat, T > 0, NEW m \in Nat, NEW n \in Nat, m <= n
    PROVE  m \div T <= n \div T
BY SMTT(60)

LEMMA DivisionShift ==
    ASSUME NEW T \in Nat, T > 0, NEW m \in Nat, NEW n \in Nat
    PROVE  (m + n * T) \div T = m \div T + n
BY SMTT(60)

LEMMA Product ==
    ASSUME NEW T \in Nat, T > 0, NEW m \in Nat, NEW n \in Nat
    PROVE  /\ T * m \in Nat /\ m * T = T * m
           /\ T * (m + n) = T * m + T * n /\ T * (m + 1) = T * m + T
           /\ m <= n => T * m <= T * n
BY SMTT(60)

LEMMA ProductSum ==
    ASSUME NEW T \in Nat, T > 0, NEW k \in Nat, NEW m \in Nat, NEW n \in Nat, m + n <= k
    PROVE  T * m + T * n <= T * k
<1>1. T * (m + n) <= T * k
  BY Product, m + n \in Nat
<1>2. T * (m + n) = T * m + T * n
  BY Product
<1> QED
  BY <1>1, <1>2

\* What a claim's deadline has come to, jose-rs refuses, at this tick or at the
\* beginning of its second.
LEMMA Expired ==
    ASSUME NEW a \in Assertion, NEW n \in 0..Horizon, Deadline(a) <= Secs(n)
    PROVE  ~Accepted(a, n)
<1> DEFINE T == TicksPerSec
           q == n \div T
<1>1. /\ T \in Nat /\ T > 0 /\ Leeway \in Nat /\ MaxAge \in Nat /\ U64Max \in Nat
      /\ n \in Nat /\ a.iat \in Nat /\ a.exp \in Nat
  BY Constants, Claims
<1>2. q \in Nat /\ T * q <= n /\ n - (n % T) = T * q
  BY <1>1, Division
<1>3. q < U64Max
  BY <1>1, DivisionMonotone, Constants, ClockAssumption
<1>4. ASSUME ExpDeadline(a) <= q PROVE a.exp + Ticks(Leeway) <= T * q
  <2> DEFINE e == a.exp \div T
             up == IF a.exp % T > 0 THEN 1 ELSE 0
  <2>1. e \in Nat /\ up \in Nat /\ a.exp % T \in Nat
    BY <1>1, Division
  <2>2. e + up + Leeway <= q
    BY <1>1, <1>3, <1>4, <2>1 DEF ExpDeadline, SaturatingAdd
  <2>3. a.exp <= T * (e + up)
    BY <1>1, <2>1, Division, Product
  <2>4. T * (e + up) + T * Leeway <= T * q
    <3> HIDE DEF T, q, e, up
    <3> QED
      BY <1>1, <1>2, <2>1, <2>2, ProductSum, e + up \in Nat
  <2>5. Ticks(Leeway) = T * Leeway /\ T * Leeway \in Nat /\ T * (e + up) \in Nat /\ T * q \in Nat
    BY <1>1, <1>2, <2>1, Product DEF Ticks
  <2> QED
    BY <1>1, <2>3, <2>4, <2>5
<1>5. ASSUME AgeDeadline(a) <= q PROVE a.iat + Ticks(MaxAge + Leeway) < T * q
  <2> DEFINE i == a.iat \div T
  <2>1. i \in Nat /\ a.iat < T * i + T
    BY <1>1, Division
  <2>2. i + MaxAge + Leeway + 1 <= q
    BY <1>1, <1>3, <1>5, <2>1 DEF AgeDeadline, SaturatingAdd
  <2>3. T * ((i + 1) + (MaxAge + Leeway)) <= T * q
    BY <1>1, <1>2, <2>1, <2>2, Product
  <2>4. /\ T * ((i + 1) + (MaxAge + Leeway)) = T * (i + 1) + T * (MaxAge + Leeway)
        /\ T * (i + 1) = T * i + T /\ T * i \in Nat
        /\ T * (MaxAge + Leeway) \in Nat /\ Ticks(MaxAge + Leeway) = T * (MaxAge + Leeway)
        /\ T * q \in Nat
    BY <1>1, <1>2, <2>1, Product DEF Ticks
  <2> QED
    BY <1>1, <2>1, <2>3, <2>4
<1>6. ExpDeadline(a) <= q \/ AgeDeadline(a) <= q
  BY DEF Deadline, Earlier, Secs
<1>7. ASSUME NEW m \in {n, n - (n % T)} PROVE ~AcceptedAt(a, m)
  <2>1. m \in Nat /\ T * q <= m /\ T * q \in Nat
    BY <1>1, <1>2, Product
  <2>2. Ticks(Leeway) \in Nat /\ Ticks(MaxAge + Leeway) \in Nat
    BY <1>1, Product DEF Ticks
  <2> QED
    BY <1>1, <1>4, <1>5, <1>6, <2>1, <2>2 DEF AcceptedAt
<1> QED
  BY <1>7 DEF Accepted

LEMMA DeadlineNat ==
    ASSUME NEW a \in Assertion
    PROVE  /\ Deadline(a) \in Nat
           /\ Deadline(a) <= a.iat \div TicksPerSec + MaxAge + Leeway + 1
           /\ a.iat \div TicksPerSec \in Nat
<1>1. /\ a.iat \div TicksPerSec \in Nat /\ a.exp \div TicksPerSec \in Nat
  BY Constants, Claims, Division
<1>2. AgeDeadline(a) \in Nat /\ AgeDeadline(a) <= a.iat \div TicksPerSec + MaxAge + Leeway + 1
  BY <1>1, Constants DEF AgeDeadline, SaturatingAdd
<1>3. ExpDeadline(a) \in Nat
  BY <1>1, Constants DEF ExpDeadline, SaturatingAdd
<1> QED
  BY <1>1, <1>2, <1>3, Constants DEF Deadline, Earlier

\* An assertion that passed was not from further ahead than the leeway.
LEMMA AcceptedIat ==
    ASSUME NEW a \in Assertion, NEW n \in 0..Horizon, Accepted(a, n)
    PROVE  a.iat <= n + Ticks(Leeway)
<1>1. n \in Nat /\ n % TicksPerSec \in Nat /\ Ticks(Leeway) \in Nat /\ a.iat \in Nat
  BY Constants, Claims, Division, Product DEF Ticks
<1> QED
  BY <1>1 DEF Accepted, AcceptedAt
-----------------------------------------------------------------------------
RequestInv ==
    \A r \in Request :
        /\ pc[r] # "idle" => with[r] \in Assertion
        /\ pc[r] = "verified" => with[r].iat <= clock + Ticks(Leeway)
        /\ pc[r] = "called" => Deadline(with[r]) <= Secs(clock) + ttl[r]

\* A marker outlasts the deadlines of all that were accepted under its key, and was
\* left by one of them or by a request that ended with the store's error.
MarkerInv ==
    /\ \A r \in Request : pc[r] = "accepted" => Deadline(with[r]) <= entries[UseKey(with[r])]
    /\ \A a \in Assertion : entries[UseKey(a)] > 0 =>
          \E r \in Request : pc[r] \in {"accepted", "error"} /\ UseKey(with[r]) = UseKey(a)

IInv == /\ TypeOK /\ RequestInv /\ MarkerInv
        /\ AssertionUsedOnce /\ RetentionBounded /\ RefusedOnlyAfterUse

LEMMA InitInv == Init => IInv
BY Constants DEF Init, IInv, TypeOK, RequestInv, MarkerInv, AssertionUsedOnce, RetentionBounded,
                 RefusedOnlyAfterUse, NoEntries

LEMMA SecsNat ==
    ASSUME NEW n \in 0..Horizon
    PROVE  Secs(n) \in Nat
BY Constants, Division DEF Secs

LEMMA TickInv ==
    ASSUME IInv, Tick
    PROVE  IInv'
<1>1. /\ clock \in 0..Horizon /\ clock' \in 0..Horizon /\ clock' = clock + 1
      /\ UNCHANGED <<entries, pc, with, ttl, at>>
  BY Constants DEF IInv, TypeOK, Tick
<1>2. /\ TypeOK' /\ MarkerInv' /\ AssertionUsedOnce' /\ RetentionBounded' /\ RefusedOnlyAfterUse'
  BY <1>1 DEF IInv, TypeOK, MarkerInv, AssertionUsedOnce, RetentionBounded, RefusedOnlyAfterUse
<1>3. Secs(clock) \in Nat /\ Secs(clock') \in Nat /\ Secs(clock) <= Secs(clock')
  BY <1>1, Constants, SecsNat, DivisionMonotone DEF Secs
<1>4. Ticks(Leeway) \in Nat
  BY Constants, Product DEF Ticks
<1>5. RequestInv'
  <2> SUFFICES ASSUME NEW r \in Request
               PROVE  /\ pc[r] # "idle" => with[r] \in Assertion
                      /\ pc[r] = "verified" => with[r].iat <= clock' + Ticks(Leeway)
                      /\ pc[r] = "called" => Deadline(with[r]) <= Secs(clock') + ttl[r]
    BY <1>1 DEF RequestInv
  <2>1. pc[r] # "idle" => with[r] \in Assertion /\ with[r].iat \in Nat /\ Deadline(with[r]) \in Nat
    BY Claims, DeadlineNat DEF IInv, RequestInv
  <2>2. ttl[r] \in Nat
    BY DEF IInv, TypeOK
  <2> QED
    BY <1>1, <1>3, <1>4, <2>1, <2>2 DEF IInv, RequestInv
<1> QED
  BY <1>2, <1>5 DEF IInv

LEMMA VerifyInv ==
    ASSUME IInv, NEW r \in Request, NEW a \in Assertion, Verify(r, a)
    PROVE  IInv'
<1>1. /\ pc[r] = "idle" /\ with' = [with EXCEPT ![r] = a] /\ pc' = [pc EXCEPT ![r] = "verified"]
      /\ UNCHANGED <<clock, entries, ttl, at>> /\ Accepted(a, clock)
  BY DEF Verify, Goto
<1>2. TypeOK'
  BY <1>1 DEF IInv, TypeOK
<1>3. /\ pc'[r] = "verified" /\ with'[r] = a
      /\ \A s \in Request : s # r => pc'[s] = pc[s] /\ with'[s] = with[s]
  BY <1>1 DEF IInv, TypeOK
<1>4. a.iat <= clock + Ticks(Leeway)
  BY <1>1, AcceptedIat DEF IInv, TypeOK
<1>5. RequestInv'
  BY <1>1, <1>3, <1>4 DEF IInv, RequestInv
<1>6. MarkerInv'
  BY <1>1, <1>3 DEF IInv, MarkerInv
<1>7. AssertionUsedOnce' /\ RetentionBounded' /\ RefusedOnlyAfterUse'
  BY <1>1, <1>3 DEF IInv, AssertionUsedOnce, RetentionBounded, RefusedOnlyAfterUse
<1> QED
  BY <1>2, <1>5, <1>6, <1>7 DEF IInv

LEMMA ComputeTtlInv ==
    ASSUME IInv, NEW r \in Request, ComputeTtl(r)
    PROVE  IInv'
<1> DEFINE a == with[r]
           n == AssertionTtl(a, NowSecs)
<1>1. /\ pc[r] = "verified" /\ ttl' = [ttl EXCEPT ![r] = n] /\ pc' = [pc EXCEPT ![r] = "called"]
      /\ UNCHANGED <<clock, entries, with, at>>
      /\ a \in Assertion /\ a.iat <= clock + Ticks(Leeway) /\ clock \in 0..Horizon
  BY DEF ComputeTtl, Goto, IInv, RequestInv, TypeOK
<1>2. /\ Deadline(a) \in Nat /\ Deadline(a) <= a.iat \div TicksPerSec + MaxAge + Leeway + 1
      /\ a.iat \div TicksPerSec \in Nat /\ a.iat \in Nat
  BY <1>1, DeadlineNat, Claims
<1>3. NowSecs \in Nat /\ NowSecs = Secs(clock)
  BY <1>1, SecsNat DEF NowSecs, Secs
<1>4. a.iat \div TicksPerSec <= NowSecs + Leeway
  <2>1. clock \in Nat /\ clock + Leeway * TicksPerSec \in Nat
    BY <1>1, Constants, Product
  <2>2. a.iat \div TicksPerSec <= (clock + Leeway * TicksPerSec) \div TicksPerSec
    BY <1>1, <1>2, <2>1, Constants, DivisionMonotone DEF Ticks
  <2> QED
    BY <2>1, <2>2, Constants, DivisionShift DEF NowSecs
<1>5. n \in Nat /\ Deadline(a) <= NowSecs + n /\ n <= MaxAge + 2 * Leeway + 1
  <2>1. n = AtLeastOne(SaturatingSub(Deadline(a), NowSecs))
    BY DEF AssertionTtl, Deadline
  <2> QED
    BY <1>2, <1>3, <1>4, <2>1, Constants DEF AtLeastOne, SaturatingSub
<1> HIDE DEF n
<1>6. TypeOK'
  BY <1>1, <1>5 DEF IInv, TypeOK
<1>7. /\ pc'[r] = "called" /\ ttl'[r] = n
      /\ \A s \in Request : s # r => pc'[s] = pc[s] /\ ttl'[s] = ttl[s]
  BY <1>1 DEF IInv, TypeOK
<1>8. RequestInv'
  BY <1>1, <1>3, <1>5, <1>7 DEF IInv, RequestInv
<1>9. MarkerInv'
  BY <1>1, <1>7 DEF IInv, MarkerInv
<1>10. AssertionUsedOnce' /\ RetentionBounded' /\ RefusedOnlyAfterUse'
  BY <1>1, <1>5, <1>7 DEF IInv, AssertionUsedOnce, RetentionBounded, RefusedOnlyAfterUse
<1> QED
  BY <1>6, <1>8, <1>9, <1>10 DEF IInv

LEMMA CalledFacts ==
    ASSUME IInv, NEW r \in Request, pc[r] = "called"
    PROVE  /\ with[r] \in Assertion /\ clock \in 0..Horizon
           /\ NowSecs \in Nat /\ NowSecs = Secs(clock) /\ ttl[r] \in Nat
           /\ Deadline(with[r]) \in Nat /\ Deadline(with[r]) <= NowSecs + ttl[r]
           /\ UseKey(with[r]) \in {UseKey(a) : a \in Assertion}
           /\ entries[UseKey(with[r])] \in Nat
<1>1. /\ with[r] \in Assertion /\ clock \in 0..Horizon /\ ttl[r] \in Nat
      /\ Deadline(with[r]) <= Secs(clock) + ttl[r]
  BY DEF IInv, RequestInv, TypeOK
<1>2. NowSecs = Secs(clock) /\ NowSecs \in Nat /\ Deadline(with[r]) \in Nat
  BY <1>1, SecsNat, DeadlineNat DEF NowSecs, Secs
<1>3. UseKey(with[r]) \in {UseKey(a) : a \in Assertion}
  BY <1>1
<1> QED
  BY <1>1, <1>2, <1>3 DEF IInv, TypeOK

LEMMA RefusedInv ==
    ASSUME IInv, NEW r \in Request, Consume(r), Held(entries, UseKey(with[r]), NowSecs),
           pc' = [pc EXCEPT ![r] = "refused"], entries' = entries
    PROVE  IInv'
<1>1. /\ pc[r] = "called" /\ with[r] \in Assertion /\ clock \in 0..Horizon /\ NowSecs \in Nat
      /\ entries[UseKey(with[r])] \in Nat
      /\ at' = [at EXCEPT ![r] = clock] /\ UNCHANGED <<clock, with, ttl>>
  BY CalledFacts DEF Consume
<1>2. TypeOK'
  BY <1>1 DEF IInv, TypeOK
<1>3. /\ pc'[r] = "refused"
      /\ \A s \in Request : s # r => pc'[s] = pc[s] /\ at'[s] = at[s]
  BY <1>1 DEF IInv, TypeOK
<1>4. RequestInv'
  BY <1>1, <1>3 DEF IInv, RequestInv
<1>5. MarkerInv'
  BY <1>1, <1>3 DEF IInv, MarkerInv
<1>6. AssertionUsedOnce' /\ RetentionBounded'
  BY <1>1, <1>3 DEF IInv, AssertionUsedOnce, RetentionBounded
<1>7. PICK s \in Request : pc[s] \in {"accepted", "error"} /\ UseKey(with[s]) = UseKey(with[r])
  BY <1>1 DEF Held, IInv, MarkerInv
<1>8. s # r /\ with[s].client = with[r].client /\ with[s].jti = with[r].jti
  BY <1>1, <1>7 DEF UseKey
<1>9. RefusedOnlyAfterUse'
  <2> SUFFICES ASSUME NEW q \in Request, pc'[q] = "refused"
               PROVE  \E t \in Request : /\ pc'[t] \in {"accepted", "error"}
                                         /\ with[t].client = with[q].client
                                         /\ with[t].jti = with[q].jti
    BY <1>1 DEF RefusedOnlyAfterUse
  <2>1. CASE q = r
    BY <1>3, <1>7, <1>8, <2>1
  <2>2. CASE q # r
    <3>1. PICK t \in Request : /\ pc[t] \in {"accepted", "error"} /\ with[t].client = with[q].client
                               /\ with[t].jti = with[q].jti
      BY <1>3, <2>2 DEF IInv, RefusedOnlyAfterUse
    <3> QED
      BY <1>1, <1>3, <3>1
  <2> QED
    BY <2>1, <2>2
<1> QED
  BY <1>2, <1>4, <1>5, <1>6, <1>9 DEF IInv

\* The key is taken: the request is accepted, or it is not told.
LEMMA MarkedInv ==
    ASSUME IInv, NEW r \in Request, pc[r] = "called", ~Held(entries, UseKey(with[r]), NowSecs),
           NEW l \in {"accepted", "error"}, pc' = [pc EXCEPT ![r] = l],
           UNCHANGED <<clock, with, ttl>>,
           at' = IF l = "accepted" THEN [at EXCEPT ![r] = clock] ELSE at,
           entries' = Mark(entries, UseKey(with[r]), NowSecs, ttl[r])
    PROVE  IInv'
<1> DEFINE k == UseKey(with[r])
           end == NowSecs + AtLeastOne(ttl[r])
<1>1. /\ with[r] \in Assertion /\ clock \in 0..Horizon
      /\ NowSecs \in Nat /\ NowSecs = Secs(clock) /\ ttl[r] \in Nat
      /\ Deadline(with[r]) \in Nat /\ Deadline(with[r]) <= NowSecs + ttl[r]
      /\ k \in {UseKey(a) : a \in Assertion} /\ entries[k] \in Nat
  BY CalledFacts
<1>2. end \in Nat /\ Deadline(with[r]) <= end /\ entries[k] < end /\ entries[k] <= NowSecs
  BY <1>1 DEF AtLeastOne, Held
<1>3. entries' = [entries EXCEPT ![k] = end]
  BY DEF Mark
<1> HIDE DEF k, end
<1>4. TypeOK'
  BY <1>1, <1>2, <1>3 DEF IInv, TypeOK
<1>5. /\ pc'[r] = l /\ (l = "accepted" => at'[r] = clock)
      /\ \A s \in Request : s # r => pc'[s] = pc[s] /\ at'[s] = at[s]
  BY <1>1 DEF IInv, TypeOK
<1>6. \A a \in Assertion : entries'[UseKey(a)] = IF UseKey(a) = k THEN end ELSE entries[UseKey(a)]
  BY <1>1, <1>3 DEF IInv, TypeOK
<1>7. RequestInv'
  BY <1>1, <1>5 DEF IInv, RequestInv
<1>8. ASSUME NEW s \in Request, pc'[s] = "accepted"
      PROVE  Deadline(with[s]) <= entries'[UseKey(with[s])]
  <2>1. CASE s = r
    BY <1>1, <1>2, <1>6, <2>1 DEF k
  <2>2. CASE s # r
    <3>1. /\ pc[s] = "accepted" /\ with[s] \in Assertion
          /\ Deadline(with[s]) <= entries[UseKey(with[s])] /\ Deadline(with[s]) \in Nat
      BY <1>5, <1>8, <2>2, DeadlineNat DEF IInv, RequestInv, MarkerInv
    <3> QED
      BY <1>1, <1>2, <1>6, <3>1
  <2> QED
    BY <2>1, <2>2
<1>9. ASSUME NEW a \in Assertion, entries'[UseKey(a)] > 0
      PROVE  \E s \in Request : pc'[s] \in {"accepted", "error"} /\ UseKey(with[s]) = UseKey(a)
  <2>1. CASE UseKey(a) = k
    BY <1>5, <2>1 DEF k
  <2>2. CASE UseKey(a) # k
    <3>1. PICK s \in Request : pc[s] \in {"accepted", "error"} /\ UseKey(with[s]) = UseKey(a)
      BY <1>6, <1>9, <2>2 DEF IInv, MarkerInv
    <3> QED
      BY <1>1, <1>5, <3>1
  <2> QED
    BY <2>1, <2>2
<1>10. MarkerInv'
  BY <1>1, <1>8, <1>9 DEF MarkerInv
<1>11. ASSUME NEW s \in Request, s # r, pc[s] = "accepted", with[s] = with[r]
       PROVE  ~Accepted(with[r], clock)
  <2>1. Deadline(with[r]) <= entries[k]
    BY <1>11 DEF IInv, MarkerInv, k
  <2>2. Deadline(with[r]) <= Secs(clock)
    BY <1>1, <1>2, <2>1
  <2> QED
    BY <1>1, <2>2, Expired
<1>12. AssertionUsedOnce'
  BY <1>1, <1>5, <1>11 DEF IInv, AssertionUsedOnce
<1>13. RetentionBounded'
  BY <1>1 DEF IInv, RetentionBounded
<1>14. RefusedOnlyAfterUse'
  <2> SUFFICES ASSUME NEW q \in Request, pc'[q] = "refused"
               PROVE  \E t \in Request : /\ pc'[t] \in {"accepted", "error"}
                                         /\ with[t].client = with[q].client
                                         /\ with[t].jti = with[q].jti
    BY <1>1 DEF RefusedOnlyAfterUse
  <2>1. q # r /\ pc[q] = "refused"
    BY <1>5
  <2>2. PICK t \in Request : /\ pc[t] \in {"accepted", "error"} /\ with[t].client = with[q].client
                             /\ with[t].jti = with[q].jti
    BY <2>1 DEF IInv, RefusedOnlyAfterUse
  <2> QED
    BY <1>1, <1>5, <2>2
<1> QED
  BY <1>4, <1>7, <1>10, <1>12, <1>13, <1>14 DEF IInv

\* The store fails and leaves the key alone.
LEMMA FailedInv ==
    ASSUME IInv, NEW r \in Request, pc[r] = "called", pc' = [pc EXCEPT ![r] = "error"],
           UNCHANGED <<clock, entries, with, ttl, at>>
    PROVE  IInv'
<1>1. TypeOK'
  BY DEF IInv, TypeOK
<1>2. pc'[r] = "error" /\ \A s \in Request : s # r => pc'[s] = pc[s]
  BY DEF IInv, TypeOK
<1>3. RequestInv'
  BY <1>2 DEF IInv, RequestInv
<1>4. MarkerInv'
  BY <1>2 DEF IInv, MarkerInv
<1>5. AssertionUsedOnce' /\ RetentionBounded'
  BY <1>2 DEF IInv, AssertionUsedOnce, RetentionBounded
<1>6. RefusedOnlyAfterUse'
  BY <1>2 DEF IInv, RefusedOnlyAfterUse
<1> QED
  BY <1>1, <1>3, <1>4, <1>5, <1>6 DEF IInv

LEMMA StepInv ==
    ASSUME IInv, [Next]_vars
    PROVE  IInv'
<1>1. ASSUME NEW r \in Request, Consume(r) PROVE IInv'
  BY <1>1, RefusedInv, MarkedInv DEF Consume, Goto
<1>3. ASSUME NEW r \in Request, StoreFails(r) PROVE IInv'
  BY <1>3, FailedInv, MarkedInv DEF StoreFails, Goto
<1>2. CASE UNCHANGED vars
  BY <1>2 DEF vars, IInv, TypeOK, RequestInv, MarkerInv, AssertionUsedOnce, RetentionBounded,
              RefusedOnlyAfterUse
<1> QED
  BY <1>1, <1>2, <1>3, TickInv, VerifyInv, ComputeTtlInv DEF Next

LEMMA Inductive == Spec => []IInv
BY InitInv, StepInv, PTL DEF Spec

\* Every reachable state of requests and the store is well typed.
THEOREM TypeCorrect == Spec => []TypeOK
BY Inductive, PTL DEF IInv

\* verify_private_key_jwt remembers an assertion to the end of its window, at
\* every resolution and for every exp and iat.
THEOREM AssertionUsedOnceHolds == Spec => []AssertionUsedOnce
BY Inductive, PTL DEF IInv

\* The ttl that verify_private_key_jwt hands to the store is bounded whatever exp:
\* by the maximal age, twice the leeway and a second.
THEOREM RetentionBoundedHolds == Spec => []RetentionBounded
BY Inductive, PTL DEF IInv

\* assertion_use_hash keeps clients apart: nobody is refused for another's jti.
THEOREM RefusedOnlyAfterUseHolds == Spec => []RefusedOnlyAfterUse
BY Inductive, PTL DEF IInv
=============================================================================
