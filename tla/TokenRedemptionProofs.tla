----------------------- MODULE TokenRedemptionProofs -------------------------
(***************************************************************************)
(* The safety of TokenRedemption for any number of requests and tokens,    *)
(* any lifetime, sweep interval, horizon and number of restarts.           *)
(***************************************************************************)
EXTENDS TokenRedemption, TLAPS

USE NoTokenAssumption, LifetimeAssumption, PurgeAssumption, BoundsAssumption

\* A sweep keeps every marker that lies ahead of the reading, as it is, and
\* adds none.
LEMMA SweepFacts ==
    ASSUME NEW e \in [Token -> Nat], NEW n \in Nat
    PROVE  /\ Sweep(e, n) \in [Token -> Nat]
           /\ \A u \in Token : e[u] > n => Sweep(e, n)[u] = e[u]
           /\ \A u \in Token : Sweep(e, n)[u] > 0 => Sweep(e, n)[u] = e[u]
  BY DEF Sweep

\* Marking sets one marker, to ttl seconds past the reading, and no other.
LEMMA MarkFacts ==
    ASSUME NEW e \in [Token -> Nat], NEW t \in Token, NEW n \in Nat, NEW d \in Nat
    PROVE  /\ Mark(e, t, n, d) \in [Token -> Nat]
           /\ Mark(e, t, n, d)[t] >= n + d
           /\ \A u \in Token : u # t => Mark(e, t, n, d)[u] = e[u]
  BY DEF Mark, AtLeastOne

\* The ttl of consume_token_once, counted from the reading it was computed with
\* or a later one, reaches at least to the expiry of the token.
LEMMA TtlCoversLife ==
    ASSUME NEW e \in Nat, NEW n \in Nat
    PROVE  /\ TokenTtl(e, n) \in Nat
           /\ n + TokenTtl(e, n) >= e
  BY DEF TokenTtl, AtLeastOne, SaturatingSub

\* A request past its first step holds an issued token and a reading of the
\* clock that together reach to the token's expiry.
RequestInv ==
    \A r \in Request :
        /\ pc[r] # "idle" => tok[r] \in Token /\ exp[tok[r]] > 0 /\ era[r] <= epoch
        /\ pc[r] \in Running => era[r] = epoch
        /\ pc[r] = "called" => clock + ttl[r] >= exp[tok[r]]
        /\ pc[r] = "waiting" => now[r] <= clock /\ now[r] + ttl[r] >= exp[tok[r]]

\* A marker in the store was left by a request of the running process.
MarkerInv ==
    \A t \in Token : entries[t] > 0 =>
        \E r \in Request : Won(r) /\ tok[r] = t /\ era[r] = epoch

\* The conjunction that is preserved by every step.
IInv ==
    /\ TypeOK
    /\ RequestInv
    /\ MarkerInv
    /\ MarkerOutlivesToken
    /\ OneWinnerWhileLive
    /\ RefusedOnlyAfterWin

\* The inductive invariant holds when the process starts.
LEMMA InitIInv == Init => IInv
  BY DEF Init, IInv, TypeOK, PC, Running, NoEntries, RequestInv, MarkerInv,
         MarkerOutlivesToken, OneWinnerWhileLive, RefusedOnlyAfterWin, Won, Twice

\* Every step of the handlers, the clock or a restart preserves the types.
LEMMA StepTypeOK == TypeOK /\ RequestInv /\ [Next]_vars => TypeOK'
  <1> SUFFICES ASSUME TypeOK, RequestInv, [Next]_vars
               PROVE  TypeOK'
    OBVIOUS
  <1> USE DEF TypeOK, PC, Running
  <1>1. CASE Tick
    BY <1>1 DEF Tick, store
  <1>2. CASE Restart
    <2>1. pc' \in [Request -> PC]
      BY <1>2 DEF Restart
    <2>2. QED
      BY <1>2, <2>1 DEF Restart, NoEntries
  <1>3. ASSUME NEW t \in Token, Issue(t)
        PROVE  TypeOK'
    BY <1>3 DEF Issue, store
  <1>4. ASSUME NEW r \in Request, NEW t \in Token, Open(r, t)
        PROVE  TypeOK'
    BY <1>4 DEF Open, store, Goto
  <1>5. ASSUME NEW r \in Request, CallConsume(r)
        PROVE  TypeOK'
    <2>1. exp[tok[r]] \in Nat /\ clock \in Nat
      BY <1>5 DEF CallConsume, RequestInv
    <2>2. TokenTtl(exp[tok[r]], clock) \in Nat
      BY <2>1, TtlCoversLife
    <2>3. QED
      BY <1>5, <2>2 DEF CallConsume, store, Goto
  <1>6. ASSUME NEW r \in Request, ReadClock(r)
        PROVE  TypeOK'
    BY <1>6 DEF ReadClock, store, Goto
  <1>7. ASSUME NEW r \in Request, ConsumeLocked(r)
        PROVE  TypeOK'
    <2>1. tok[r] \in Token
      BY <1>7 DEF ConsumeLocked, RequestInv
    <2>2. Swept(r) \in [Token -> Nat]
      BY <2>1, SweepFacts DEF Swept
    <2>3. Mark(Swept(r), tok[r], now[r], ttl[r]) \in [Token -> Nat]
      BY <2>1, <2>2, MarkFacts
    <2>4. QED
      BY <1>7, <2>2, <2>3 DEF ConsumeLocked, Goto
  <1>8. ASSUME NEW r \in Request, Mint(r)
        PROVE  TypeOK'
    BY <1>8 DEF Mint, store, Goto
  <1>9. CASE UNCHANGED vars
    BY <1>9 DEF vars
  <1>10. QED
    BY <1>1, <1>2, <1>3, <1>4, <1>5, <1>6, <1>7, <1>8, <1>9 DEF Next, Step

\* What the locked part of consume does to the store, once and for all.
LEMMA ConsumeFacts ==
    ASSUME TypeOK, RequestInv, NEW r \in Request, ConsumeLocked(r)
    PROVE  /\ tok[r] \in Token
           /\ exp[tok[r]] \in Nat
           /\ now[r] <= clock
           /\ now[r] + ttl[r] >= exp[tok[r]]
           /\ era[r] = epoch
           /\ at' = [at EXCEPT ![r] = clock]
           /\ UNCHANGED <<clock, exp, epoch, tok, ttl, now, era>>
           /\ \A u \in Token : u # tok[r] /\ entries[u] > clock => entries'[u] = entries[u]
           /\ \A u \in Token : u # tok[r] /\ entries'[u] > 0 => entries[u] > 0
           /\ \/ /\ pc' = [pc EXCEPT ![r] = "refused"]
                 /\ entries[tok[r]] > now[r]
                 /\ entries'[tok[r]] = entries[tok[r]]
              \/ /\ pc' = [pc EXCEPT ![r] = "won"]
                 /\ entries[tok[r]] <= now[r]
                 /\ entries'[tok[r]] >= exp[tok[r]]
  <1>1. /\ tok[r] \in Token
        /\ exp[tok[r]] \in Nat
        /\ now[r] \in Nat
        /\ ttl[r] \in Nat
        /\ clock \in Nat
        /\ entries \in [Token -> Nat]
        /\ now[r] <= clock
        /\ now[r] + ttl[r] >= exp[tok[r]]
        /\ era[r] = epoch
        /\ at' = [at EXCEPT ![r] = clock]
        /\ UNCHANGED <<clock, exp, epoch, tok, ttl, now, era>>
    BY DEF ConsumeLocked, RequestInv, TypeOK, Running
  <1>2. /\ Swept(r) \in [Token -> Nat]
        /\ \A u \in Token : entries[u] > now[r] => Swept(r)[u] = entries[u]
        /\ \A u \in Token : Swept(r)[u] > 0 => Swept(r)[u] = entries[u]
    BY <1>1, SweepFacts DEF Swept
  <1>3. CASE Held(Swept(r), tok[r], now[r])
    <2>1. entries' = Swept(r) /\ pc' = [pc EXCEPT ![r] = "refused"]
      BY <1>3 DEF ConsumeLocked, Goto
    <2>2. Swept(r)[tok[r]] > now[r]
      BY <1>3 DEF Held
    <2>3. QED
      BY <1>1, <1>2, <2>1, <2>2
  <1>4. CASE ~Held(Swept(r), tok[r], now[r])
    <2>1. /\ entries' = Mark(Swept(r), tok[r], now[r], ttl[r])
          /\ pc' = [pc EXCEPT ![r] = "won"]
      BY <1>4 DEF ConsumeLocked, Goto
    <2>2. ~(Swept(r)[tok[r]] > now[r])
      BY <1>4 DEF Held
    <2> DEFINE M == Mark(Swept(r), tok[r], now[r], ttl[r])
    <2>3. /\ M \in [Token -> Nat]
          /\ M[tok[r]] >= now[r] + ttl[r]
          /\ \A u \in Token : u # tok[r] => M[u] = Swept(r)[u]
      BY <1>1, <1>2 DEF Mark, AtLeastOne
    <2> HIDE DEF M
    <2>4. entries' = M
      BY <2>1 DEF M
    <2>5. entries'[tok[r]] >= exp[tok[r]] /\ entries[tok[r]] <= now[r]
      BY <1>1, <1>2, <2>2, <2>3, <2>4
    <2>6. \A u \in Token : u # tok[r] =>
              /\ entries[u] > clock => entries'[u] = entries[u]
              /\ entries'[u] > 0 => entries[u] > 0
      BY <1>1, <1>2, <2>3, <2>4
    <2>7. QED
      BY <1>1, <2>1, <2>5, <2>6
  <1>5. QED
    BY <1>3, <1>4

\* Every step preserves what is known of requests by how far they have got.
LEMMA StepRequestInv == TypeOK /\ RequestInv /\ [Next]_vars => RequestInv'
  <1> SUFFICES ASSUME TypeOK, RequestInv, [Next]_vars
               PROVE  RequestInv'
    OBVIOUS
  <1> USE DEF TypeOK, PC, Running, RequestInv
  <1>1. CASE Tick
    BY <1>1 DEF Tick, store
  <1>2. CASE Restart
    BY <1>2 DEF Restart, NoEntries
  <1>3. ASSUME NEW t \in Token, Issue(t)
        PROVE  RequestInv'
    BY <1>3 DEF Issue, store
  <1>4. ASSUME NEW r \in Request, NEW t \in Token, Open(r, t)
        PROVE  RequestInv'
    BY <1>4 DEF Open, store, Goto
  <1>5. ASSUME NEW r \in Request, CallConsume(r)
        PROVE  RequestInv'
    <2>1. exp[tok[r]] \in Nat /\ clock \in Nat
      BY <1>5 DEF CallConsume
    <2>2. clock + TokenTtl(exp[tok[r]], clock) >= exp[tok[r]]
      BY <2>1, TtlCoversLife
    <2>3. QED
      BY <1>5, <2>2 DEF CallConsume, store, Goto
  <1>6. ASSUME NEW r \in Request, ReadClock(r)
        PROVE  RequestInv'
    BY <1>6 DEF ReadClock, store, Goto
  <1>7. ASSUME NEW r \in Request, ConsumeLocked(r)
        PROVE  RequestInv'
    <2>1. /\ UNCHANGED <<clock, exp, epoch, tok, ttl, now, era>>
          /\ \A s \in Request \ {r} : pc'[s] = pc[s]
          /\ pc'[r] \in {"refused", "won"}
          /\ pc[r] = "waiting"
      BY <1>7 DEF ConsumeLocked, Goto
    <2>2. QED
      BY <2>1
  <1>8. ASSUME NEW r \in Request, Mint(r)
        PROVE  RequestInv'
    BY <1>8 DEF Mint, store, Goto
  <1>9. CASE UNCHANGED vars
    BY <1>9 DEF vars
  <1>10. QED
    BY <1>1, <1>2, <1>3, <1>4, <1>5, <1>6, <1>7, <1>8, <1>9 DEF Next, Step

\* Every step preserves that a marker in the store has a redemption behind it.
LEMMA StepMarkerInv == TypeOK /\ RequestInv /\ MarkerInv /\ [Next]_vars => MarkerInv'
  <1> SUFFICES ASSUME TypeOK, RequestInv, MarkerInv, [Next]_vars
               PROVE  MarkerInv'
    OBVIOUS
  <1> USE DEF TypeOK, PC, Running, RequestInv, MarkerInv, Won
  <1>1. CASE Tick
    BY <1>1 DEF Tick, store
  <1>2. CASE Restart
    BY <1>2 DEF Restart, NoEntries
  <1>3. ASSUME NEW t \in Token, Issue(t)
        PROVE  MarkerInv'
    BY <1>3 DEF Issue, store
  <1>4. ASSUME NEW r \in Request, NEW t \in Token, Open(r, t)
        PROVE  MarkerInv'
    BY <1>4 DEF Open, store, Goto
  <1>5. ASSUME NEW r \in Request, CallConsume(r)
        PROVE  MarkerInv'
    BY <1>5 DEF CallConsume, store, Goto
  <1>6. ASSUME NEW r \in Request, ReadClock(r)
        PROVE  MarkerInv'
    BY <1>6 DEF ReadClock, store, Goto
  <1>7. ASSUME NEW r \in Request, ConsumeLocked(r)
        PROVE  MarkerInv'
    <2> SUFFICES ASSUME NEW t \in Token, entries'[t] > 0
                 PROVE  \E s \in Request : Won(s)' /\ tok'[s] = t /\ era'[s] = epoch'
      OBVIOUS
    <2>1. /\ tok' = tok /\ era' = era /\ epoch' = epoch /\ pc[r] = "waiting"
          /\ era[r] = epoch
      BY <1>7 DEF ConsumeLocked
    <2>2. \A s \in Request : Won(s) => Won(s)'
      BY <1>7 DEF ConsumeLocked, Goto
    <2>3. CASE entries[t] > 0
      BY <2>1, <2>2, <2>3
    <2>4. CASE ~(entries[t] > 0)
      <3>1. t = tok[r] /\ pc' = [pc EXCEPT ![r] = "won"]
        BY <1>7, <2>4, ConsumeFacts
      <3>2. QED
        BY <2>1, <3>1
    <2>5. QED
      BY <2>3, <2>4
  <1>8. ASSUME NEW r \in Request, Mint(r)
        PROVE  MarkerInv'
    BY <1>8 DEF Mint, store, Goto
  <1>9. CASE UNCHANGED vars
    BY <1>9 DEF vars
  <1>10. QED
    BY <1>1, <1>2, <1>3, <1>4, <1>5, <1>6, <1>7, <1>8, <1>9 DEF Next, Step

\* No step shortens the life of a marker below that of its token.
LEMMA StepMarkerOutlives == TypeOK /\ RequestInv /\ MarkerOutlivesToken /\ [Next]_vars => MarkerOutlivesToken'
  <1> SUFFICES ASSUME TypeOK, RequestInv, MarkerOutlivesToken, [Next]_vars
               PROVE  MarkerOutlivesToken'
    OBVIOUS
  <1> USE DEF TypeOK, PC, Running, RequestInv, MarkerOutlivesToken, Won
  <1>1. CASE Tick
    BY <1>1 DEF Tick, store
  <1>2. CASE Restart
    BY <1>2 DEF Restart, NoEntries
  <1>3. ASSUME NEW t \in Token, Issue(t)
        PROVE  MarkerOutlivesToken'
    BY <1>3 DEF Issue, store
  <1>4. ASSUME NEW r \in Request, NEW t \in Token, Open(r, t)
        PROVE  MarkerOutlivesToken'
    BY <1>4 DEF Open, store, Goto
  <1>5. ASSUME NEW r \in Request, CallConsume(r)
        PROVE  MarkerOutlivesToken'
    BY <1>5 DEF CallConsume, store, Goto
  <1>6. ASSUME NEW r \in Request, ReadClock(r)
        PROVE  MarkerOutlivesToken'
    BY <1>6 DEF ReadClock, store, Goto
  <1>7. ASSUME NEW r \in Request, ConsumeLocked(r)
        PROVE  MarkerOutlivesToken'
    BY <1>7, ConsumeFacts, SMTT(60)
  <1>8. ASSUME NEW r \in Request, Mint(r)
        PROVE  MarkerOutlivesToken'
    BY <1>8 DEF Mint, store, Goto
  <1>9. CASE UNCHANGED vars
    BY <1>9 DEF vars
  <1>10. QED
    BY <1>1, <1>2, <1>3, <1>4, <1>5, <1>6, <1>7, <1>8, <1>9 DEF Next, Step

\* No step lets a second request of a process redeem a token that is alive.
LEMMA StepOneWinner == TypeOK /\ RequestInv /\ MarkerOutlivesToken /\ OneWinnerWhileLive /\ [Next]_vars => OneWinnerWhileLive'
  <1> SUFFICES ASSUME TypeOK, RequestInv, MarkerOutlivesToken, OneWinnerWhileLive, [Next]_vars
               PROVE  OneWinnerWhileLive'
    OBVIOUS
  <1> USE DEF TypeOK, PC, Running, RequestInv, MarkerOutlivesToken, OneWinnerWhileLive, Won, Twice
  <1>1. CASE Tick
    BY <1>1 DEF Tick, store
  <1>2. CASE Restart
    BY <1>2 DEF Restart, NoEntries
  <1>3. ASSUME NEW t \in Token, Issue(t)
        PROVE  OneWinnerWhileLive'
    BY <1>3 DEF Issue, store
  <1>4. ASSUME NEW r \in Request, NEW t \in Token, Open(r, t)
        PROVE  OneWinnerWhileLive'
    BY <1>4 DEF Open, store, Goto
  <1>5. ASSUME NEW r \in Request, CallConsume(r)
        PROVE  OneWinnerWhileLive'
    BY <1>5 DEF CallConsume, store, Goto
  <1>6. ASSUME NEW r \in Request, ReadClock(r)
        PROVE  OneWinnerWhileLive'
    BY <1>6 DEF ReadClock, store, Goto
  <1>7. ASSUME NEW r \in Request, ConsumeLocked(r)
        PROVE  OneWinnerWhileLive'
    BY <1>7, ConsumeFacts, SMTT(60)
  <1>8. ASSUME NEW r \in Request, Mint(r)
        PROVE  OneWinnerWhileLive'
    BY <1>8 DEF Mint, store, Goto
  <1>9. CASE UNCHANGED vars
    BY <1>9 DEF vars
  <1>10. QED
    BY <1>1, <1>2, <1>3, <1>4, <1>5, <1>6, <1>7, <1>8, <1>9 DEF Next, Step

\* No step refuses a request for a token that nobody has redeemed.
LEMMA StepRefused == TypeOK /\ RequestInv /\ MarkerInv /\ RefusedOnlyAfterWin /\ [Next]_vars => RefusedOnlyAfterWin'
  <1> SUFFICES ASSUME TypeOK, RequestInv, MarkerInv, RefusedOnlyAfterWin, [Next]_vars
               PROVE  RefusedOnlyAfterWin'
    OBVIOUS
  <1> USE DEF TypeOK, PC, Running, RequestInv, MarkerInv, RefusedOnlyAfterWin, Won
  <1>1. CASE Tick
    BY <1>1 DEF Tick, store
  <1>2. CASE Restart
    BY <1>2 DEF Restart, NoEntries
  <1>3. ASSUME NEW t \in Token, Issue(t)
        PROVE  RefusedOnlyAfterWin'
    BY <1>3 DEF Issue, store
  <1>4. ASSUME NEW r \in Request, NEW t \in Token, Open(r, t)
        PROVE  RefusedOnlyAfterWin'
    BY <1>4 DEF Open, store, Goto
  <1>5. ASSUME NEW r \in Request, CallConsume(r)
        PROVE  RefusedOnlyAfterWin'
    BY <1>5 DEF CallConsume, store, Goto
  <1>6. ASSUME NEW r \in Request, ReadClock(r)
        PROVE  RefusedOnlyAfterWin'
    BY <1>6 DEF ReadClock, store, Goto
  <1>7. ASSUME NEW r \in Request, ConsumeLocked(r)
        PROVE  RefusedOnlyAfterWin'
    <2>1. /\ tok' = tok /\ era' = era /\ epoch' = epoch /\ pc[r] = "waiting"
          /\ era[r] = epoch /\ tok[r] \in Token
      BY <1>7 DEF ConsumeLocked
    <2>2. \A s \in Request : Won(s) => Won(s)' /\ s # r
      BY <1>7 DEF ConsumeLocked, Goto
    <2>3. \A s \in Request : s # r => pc'[s] = pc[s]
      BY <1>7 DEF ConsumeLocked, Goto
    <2>4. ASSUME pc'[r] = "refused"
          PROVE  \E s \in Request : s # r /\ tok[s] = tok[r] /\ era[s] = era[r] /\ Won(s)
      <3>1. entries[tok[r]] > now[r] /\ now[r] \in Nat /\ entries[tok[r]] \in Nat
        BY <1>7, <2>1, <2>4, ConsumeFacts
      <3>2. QED
        BY <2>1, <2>2, <3>1
    <2>5. QED
      BY <2>1, <2>2, <2>3, <2>4
  <1>8. ASSUME NEW r \in Request, Mint(r)
        PROVE  RefusedOnlyAfterWin'
    BY <1>8 DEF Mint, store, Goto
  <1>9. CASE UNCHANGED vars
    BY <1>9 DEF vars
  <1>10. QED
    BY <1>1, <1>2, <1>3, <1>4, <1>5, <1>6, <1>7, <1>8, <1>9 DEF Next, Step

\* The conjunction is invariant.
LEMMA Inductive == Spec => []IInv
  <1>1. IInv /\ [Next]_vars => IInv'
    BY StepTypeOK, StepRequestInv, StepMarkerInv, StepMarkerOutlives,
       StepOneWinner, StepRefused DEF IInv
  <1>2. QED
    BY InitIInv, <1>1, PTL DEF Spec

\* Every reachable state is well typed.
THEOREM TypeCorrect == Spec => []TypeOK
  BY Inductive, PTL DEF IInv

\* consume_token_once with InMemoryTokenUseStore lets at most one request of a
\* process redeem a code or refresh token that has not expired.
THEOREM LiveTokenRedeemedOnce == Spec => []OneWinnerWhileLive
  BY Inductive, PTL DEF IInv

\* A request is refused as a replay only when another one redeemed the token.
THEOREM RefusalHasACause == Spec => []RefusedOnlyAfterWin
  BY Inductive, PTL DEF IInv

\* Neither the sweep nor another token's redemption removes a marker while the
\* token it stands for is alive.
THEOREM MarkerLivesLongEnough == Spec => []MarkerOutlivesToken
  BY Inductive, PTL DEF IInv
-----------------------------------------------------------------------------
\* The refinement of OneTimeUse.

\* The initial states map to the initial state of the promise.
LEMMA InitAbstract == Init => Abstract!Init
  BY DEF Init, Abstract!Init, outcomeBar, spentBar, Won

\* A step that leaves every request's standing with the store alone is
\* invisible to the promise.
LEMMA Stutter ==
    ASSUME \A r \in Request :
               /\ Won(r)' <=> Won(r)
               /\ outcomeBar'[r] = outcomeBar[r]
               /\ Won(r) => tok'[r] = tok[r] /\ era'[r] = era[r],
           epoch' = epoch
    PROVE  outcomeBar' = outcomeBar /\ spentBar' = spentBar
  <1>1. outcomeBar' = outcomeBar
    BY DEF outcomeBar
  <1>2. spentBar' = spentBar
    BY DEF spentBar
  <1>3. QED
    BY <1>1, <1>2

\* Every step of the store and its requests is a step of the promise, or none.
LEMMA StepAbstract == IInv /\ [Next]_vars => [Abstract!Next]_(Abstract!vars)
  <1> SUFFICES ASSUME IInv, [Next]_vars
               PROVE  Abstract!Next \/ UNCHANGED Abstract!vars
    BY DEF Abstract!vars
  <1> USE DEF IInv
  <1>1. CASE Tick
    <2>1. outcomeBar' = outcomeBar /\ spentBar' = spentBar
      BY <1>1 DEF Tick, outcomeBar, spentBar, Won
    <2>2. QED
      BY <1>1, <2>1 DEF Tick, Abstract!Next, Abstract!Tick
  <1>2. CASE Restart
    <2> DEFINE D == {r \in Request : pc[r] \in Running}
    <2>1. D \in SUBSET {r \in Request : outcomeBar[r] \in {"none", "granted"}}
      BY DEF outcomeBar, Running
    <2>2. outcomeBar' = [r \in Request |-> IF r \in D THEN "failed" ELSE outcomeBar[r]]
      BY <1>2 DEF Restart, outcomeBar, Running, TypeOK, PC
    <2>3. spentBar' = [t \in Token |-> FALSE]
      <3>1. \A r \in Request : ~(Won(r)' /\ era'[r] = epoch')
        BY <1>2 DEF Restart, TypeOK, RequestInv, Won, Running
      <3>2. QED
        BY <3>1 DEF spentBar
    <2>4. UNCHANGED <<clock, exp>>
      BY <1>2 DEF Restart
    <2>5. Abstract!Forget
      BY <2>1, <2>2, <2>3, <2>4 DEF Abstract!Forget
    <2>6. QED
      BY <2>5 DEF Abstract!Next
  <1>3. ASSUME NEW t \in Token, Issue(t)
        PROVE  Abstract!Next
    <2>1. outcomeBar' = outcomeBar /\ spentBar' = spentBar
      BY <1>3 DEF Issue, outcomeBar, spentBar, Won
    <2>2. QED
      BY <1>3, <2>1 DEF Issue, Abstract!Next, Abstract!Issue
  <1>4. ASSUME NEW r \in Request, NEW t \in Token, Open(r, t)
        PROVE  UNCHANGED Abstract!vars
    <2>1. outcomeBar' = outcomeBar /\ spentBar' = spentBar
      BY <1>4, Stutter DEF Open, Goto, outcomeBar, Won, TypeOK
    <2>2. QED
      BY <1>4, <2>1 DEF Open, Abstract!vars
  <1>5. ASSUME NEW r \in Request, CallConsume(r)
        PROVE  UNCHANGED Abstract!vars
    <2>1. outcomeBar' = outcomeBar /\ spentBar' = spentBar
      BY <1>5, Stutter DEF CallConsume, Goto, outcomeBar, Won, TypeOK
    <2>2. QED
      BY <1>5, <2>1 DEF CallConsume, Abstract!vars
  <1>6. ASSUME NEW r \in Request, ReadClock(r)
        PROVE  UNCHANGED Abstract!vars
    <2>1. outcomeBar' = outcomeBar /\ spentBar' = spentBar
      BY <1>6, Stutter DEF ReadClock, Goto, outcomeBar, Won, TypeOK
    <2>2. QED
      BY <1>6, <2>1 DEF ReadClock, Abstract!vars
  <1>7. ASSUME NEW r \in Request, ConsumeLocked(r)
        PROVE  Abstract!Next
    <2>1. tok[r] \in Token /\ exp[tok[r]] > 0 /\ era[r] = epoch /\ pc[r] = "waiting"
      BY <1>7 DEF ConsumeLocked, RequestInv, Running
    <2>2. CASE pc' = [pc EXCEPT ![r] = "refused"]
      <3>1. entries[tok[r]] > 0
        <4>1. pc'[r] = "refused"
          BY <2>2 DEF TypeOK
        <4>2. entries[tok[r]] > now[r]
          BY <1>7, <4>1, ConsumeFacts DEF TypeOK
        <4>3. QED
          BY <2>1, <4>2 DEF TypeOK
      <3>2. spentBar[tok[r]]
        BY <2>1, <3>1 DEF MarkerInv, spentBar
      <3>3. outcomeBar' = [outcomeBar EXCEPT ![r] = "refused"]
        BY <2>2 DEF outcomeBar, TypeOK
      <3>4. spentBar' = spentBar
        BY <1>7, <2>1, <2>2 DEF ConsumeLocked, spentBar, Won, TypeOK
      <3>5. Abstract!Refuse(r, tok[r])
        BY <1>7, <2>1, <3>2, <3>3, <3>4
           DEF ConsumeLocked, Abstract!Refuse, Abstract!Settle, outcomeBar
      <3>6. QED
        BY <2>1, <3>5 DEF Abstract!Next
    <2>3. CASE pc' = [pc EXCEPT ![r] = "won"]
      <3>1. clock < exp[tok[r]] => ~spentBar[tok[r]]
        <4> SUFFICES ASSUME clock < exp[tok[r]], spentBar[tok[r]]
                     PROVE  FALSE
          OBVIOUS
        <4>1. PICK s \in Request : tok[s] = tok[r] /\ era[s] = epoch /\ Won(s)
          BY <2>1 DEF spentBar
        <4>2. entries[tok[r]] >= exp[tok[r]]
          BY <4>1 DEF MarkerOutlivesToken
        <4>3. entries[tok[r]] <= now[r] /\ now[r] <= clock
          BY <1>7, <2>3, ConsumeFacts DEF TypeOK
        <4>4. QED
          BY <2>1, <4>2, <4>3 DEF TypeOK
      <3>2. outcomeBar' = [outcomeBar EXCEPT ![r] = "granted"]
        BY <2>3 DEF outcomeBar, TypeOK
      <3>3. spentBar' = [spentBar EXCEPT ![tok[r]] = TRUE]
        <4>1. /\ tok' = tok /\ era' = era /\ epoch' = epoch
              /\ Won(r)' /\ ~Won(r)
              /\ \A s \in Request : s # r => (Won(s)' <=> Won(s))
          BY <1>7, <2>1, <2>3 DEF ConsumeLocked, Won, TypeOK
        <4> DEFINE Owned(t) == \E s \in Request : tok[s] = t /\ era[s] = epoch /\ Won(s)
        <4>2. \A t \in Token : Owned(t)' <=> (t = tok[r] \/ Owned(t))
          BY <2>1, <4>1
        <4>3. spentBar' = [t \in Token |-> Owned(t)'] /\ spentBar = [t \in Token |-> Owned(t)]
          BY DEF spentBar
        <4>4. QED
          BY <2>1, <4>2, <4>3, Zenon
      <3>4. Abstract!Grant(r, tok[r])
        BY <1>7, <2>1, <3>1, <3>2, <3>3
           DEF ConsumeLocked, Abstract!Grant, Abstract!Settle, outcomeBar
      <3>5. QED
        BY <2>1, <3>4 DEF Abstract!Next
    <2>4. QED
      BY <1>7, <2>2, <2>3 DEF ConsumeLocked, Goto
  <1>8. ASSUME NEW r \in Request, Mint(r)
        PROVE  Abstract!Next
    <2>1. spentBar' = spentBar
      BY <1>8 DEF Mint, Goto, spentBar, Won, TypeOK
    <2>2. CASE pc' = [pc EXCEPT ![r] = "minted"]
      <3>1. outcomeBar' = [outcomeBar EXCEPT ![r] = "minted"]
        BY <1>8, <2>2 DEF Mint, outcomeBar, TypeOK
      <3>2. Abstract!Mint(r)
        BY <1>8, <2>1, <3>1 DEF Mint, Abstract!Mint, Abstract!Settle, outcomeBar
      <3>3. QED
        BY <3>2 DEF Abstract!Next
    <2>3. CASE pc' = [pc EXCEPT ![r] = "burnt"]
      <3>1. outcomeBar' = [outcomeBar EXCEPT ![r] = "failed"]
        BY <1>8, <2>3 DEF Mint, outcomeBar, TypeOK
      <3>2. Abstract!Fail(r)
        BY <1>8, <2>1, <3>1 DEF Mint, Abstract!Fail, Abstract!Settle, outcomeBar
      <3>3. QED
        BY <3>2 DEF Abstract!Next
    <2>4. QED
      BY <1>8, <2>2, <2>3 DEF Mint, Goto
  <1>9. CASE UNCHANGED vars
    BY <1>9 DEF vars, Abstract!vars, outcomeBar, spentBar, Won
  <1>10. QED
    BY <1>1, <1>2, <1>3, <1>4, <1>5, <1>6, <1>7, <1>8, <1>9 DEF Next, Step

\* The in-memory store, with the races between opening a token, computing the
\* ttl, reading the clock and taking the lock, and with restarts, implements
\* the promise stated in OneTimeUse.
THEOREM Implements == Spec => KeepsPromise
  BY InitAbstract, StepAbstract, Inductive, PTL DEF Spec, KeepsPromise, Abstract!Spec
=============================================================================
