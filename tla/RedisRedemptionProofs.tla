------------------------ MODULE RedisRedemptionProofs ------------------------
(***************************************************************************)
(* Proofs about RedisRedemption, for any requests, replicas and tokens.    *)
(***************************************************************************)
EXTENDS RedisRedemption, TLAPS

USE NoTokenAssumption, LifetimeAssumption, HorizonAssumption

\* A request that has got past opening holds an issued token.  Its command goes
\* out when it starts to wait, and it wins only by Redis's OK.
RequestInv ==
    \A r \in Request :
        /\ pc[r] \in {"idle", "opened"} => cmd[r] = "none"
        /\ pc[r] = "awaiting" => cmd[r] # "none"
        /\ pc[r] \in {"won", "minted"} => cmd[r] = "ok"
        /\ pc[r] = "refused" => cmd[r] = "nil"
        /\ pc[r] # "idle" => tok[r] \in Token /\ exp[tok[r]] # 0
        /\ cmd[r] # "none" => pc[r] # "idle"

\* The marker of a command that is still to be carried out will last to the end
\* of its token; one that was carried out does.
MarkerInv ==
    \A r \in Request :
        /\ cmd[r] = "sent" => clock + AtLeastOne(ttl[r]) >= exp[tok[r]]
        /\ cmd[r] = "ok" => entries[tok[r]] >= exp[tok[r]]

\* Markers, and refusals, come from a SET that took the token.
CauseInv ==
    /\ \A t \in Token : entries[t] > 0 => \E r \in Request : tok[r] = t /\ cmd[r] = "ok"
    /\ \A r \in Request : cmd[r] = "nil" =>
          \E s \in Request : s # r /\ tok[s] = tok[r] /\ cmd[s] = "ok"

IInv == TypeOK /\ RequestInv /\ MarkerInv /\ CauseInv /\ OneGrantWhileLive

LEMMA InitInv == Init => IInv
BY DEF Init, IInv, TypeOK, RequestInv, MarkerInv, CauseInv, OneGrantWhileLive, NoEntries, PC, Cmd

\* Everything but where the handlers are stays as it is.
LEMMA HandlerStep ==
    ASSUME IInv, UNCHANGED <<clock, exp, entries, tok, ttl, cmd, at>>, TypeOK', RequestInv'
    PROVE  IInv'
BY DEF IInv, MarkerInv, CauseInv, OneGrantWhileLive

LEMMA TickInv ==
    ASSUME IInv, Tick
    PROVE  IInv'
<1>1. clock \in Nat /\ clock' \in 0..Horizon /\ clock' = clock + 1
  BY DEF IInv, TypeOK, Tick
<1>2. UNCHANGED <<exp, entries, pc, tok, ttl, cmd, at>>
  BY DEF Tick
<1>3. TypeOK' /\ RequestInv' /\ CauseInv' /\ OneGrantWhileLive'
  BY <1>1, <1>2 DEF IInv, TypeOK, RequestInv, CauseInv, OneGrantWhileLive
<1>4. MarkerInv'
  <2> SUFFICES ASSUME NEW r \in Request
               PROVE  /\ cmd[r] = "sent" => clock' + AtLeastOne(ttl[r]) >= exp[tok[r]]
                      /\ cmd[r] = "ok" => entries[tok[r]] >= exp[tok[r]]
    BY <1>2 DEF MarkerInv
  <2>1. AtLeastOne(ttl[r]) \in Nat
    BY DEF IInv, TypeOK, AtLeastOne
  <2>2. cmd[r] # "none" => exp[tok[r]] \in Nat
    BY DEF IInv, TypeOK, RequestInv
  <2> QED
    BY <1>1, <2>1, <2>2 DEF IInv, MarkerInv
<1> QED
  BY <1>3, <1>4 DEF IInv

LEMMA IssueInv ==
    ASSUME IInv, NEW t \in Token, Issue(t)
    PROVE  IInv'
<1>1. /\ exp[t] = 0 /\ exp' = [exp EXCEPT ![t] = clock + Lifetime]
      /\ UNCHANGED <<clock, entries, pc, tok, ttl, cmd, at>>
  BY DEF Issue
<1>2. TypeOK'
  BY <1>1 DEF IInv, TypeOK
<1>3. \A u \in Token : u # t => exp'[u] = exp[u]
  BY <1>1 DEF IInv, TypeOK
<1>4. ASSUME NEW r \in Request, pc[r] # "idle"
      PROVE  tok[r] \in Token /\ exp'[tok[r]] = exp[tok[r]] /\ exp[tok[r]] # 0
  BY <1>1, <1>3, <1>4 DEF IInv, RequestInv
<1>5. \A r \in Request : cmd[r] # "none" => pc[r] # "idle"
  BY DEF IInv, RequestInv
<1>6. RequestInv'
  BY <1>1, <1>4 DEF IInv, RequestInv
<1>7. MarkerInv' /\ CauseInv'
  BY <1>1, <1>4, <1>5 DEF IInv, MarkerInv, CauseInv
<1>8. OneGrantWhileLive'
  BY <1>1, <1>4, <1>5 DEF IInv, OneGrantWhileLive
<1> QED
  BY <1>2, <1>6, <1>7, <1>8 DEF IInv

LEMMA OpenInv ==
    ASSUME IInv, NEW r \in Request, NEW t \in Token, Open(r, t)
    PROVE  IInv'
<1>1. /\ pc[r] = "idle" /\ cmd[r] = "none" /\ exp[t] # 0
      /\ tok' = [tok EXCEPT ![r] = t] /\ pc' = [pc EXCEPT ![r] = "opened"]
      /\ UNCHANGED <<clock, exp, entries, ttl, cmd, at>>
  BY DEF Open, Goto, IInv, RequestInv
<1>2. TypeOK'
  BY <1>1 DEF IInv, TypeOK, PC
<1>3. \A s \in Request : s # r => tok'[s] = tok[s] /\ pc'[s] = pc[s]
  BY <1>1 DEF IInv, TypeOK
<1>4. tok'[r] = t /\ pc'[r] = "opened"
  BY <1>1 DEF IInv, TypeOK
<1>5. RequestInv'
  BY <1>1, <1>3, <1>4 DEF IInv, RequestInv
<1>6. MarkerInv'
  BY <1>1, <1>3 DEF IInv, MarkerInv
<1>7. CauseInv'
  BY <1>1, <1>3 DEF IInv, CauseInv
<1>8. OneGrantWhileLive'
  BY <1>1, <1>3 DEF IInv, OneGrantWhileLive
<1> QED
  BY <1>2, <1>5, <1>6, <1>7, <1>8 DEF IInv

LEMMA SendInv ==
    ASSUME IInv, NEW r \in Request, Send(r)
    PROVE  IInv'
<1>1. /\ pc[r] = "opened" /\ cmd[r] = "none" /\ tok[r] \in Token
      /\ ttl' = [ttl EXCEPT ![r] = TokenTtl(exp[tok[r]], clock)]
      /\ cmd' = [cmd EXCEPT ![r] = "sent"] /\ pc' = [pc EXCEPT ![r] = "awaiting"]
      /\ UNCHANGED <<clock, exp, entries, tok, at>>
  BY DEF Send, Goto, IInv, RequestInv
<1>2. clock \in Nat /\ exp[tok[r]] \in Nat
  BY <1>1 DEF IInv, TypeOK
<1>3. /\ TokenTtl(exp[tok[r]], clock) \in Nat
      /\ clock + AtLeastOne(TokenTtl(exp[tok[r]], clock)) >= exp[tok[r]]
  BY <1>2 DEF TokenTtl, AtLeastOne, SaturatingSub
<1>4. TypeOK'
  BY <1>1, <1>3 DEF IInv, TypeOK, PC, Cmd
<1>5. /\ \A s \in Request : s # r => cmd'[s] = cmd[s] /\ pc'[s] = pc[s] /\ ttl'[s] = ttl[s]
      /\ cmd'[r] = "sent" /\ pc'[r] = "awaiting" /\ ttl'[r] = TokenTtl(exp[tok[r]], clock)
  BY <1>1 DEF IInv, TypeOK
<1>6. RequestInv'
  BY <1>1, <1>5 DEF IInv, RequestInv
<1>7. MarkerInv'
  BY <1>1, <1>3, <1>5 DEF IInv, MarkerInv
<1>8. CauseInv'
  BY <1>1, <1>5 DEF IInv, CauseInv
<1>9. OneGrantWhileLive'
  BY <1>1, <1>5 DEF IInv, OneGrantWhileLive
<1> QED
  BY <1>4, <1>6, <1>7, <1>8, <1>9 DEF IInv

\* What is known of a request whose command Redis carries out.
LEMMA SetNxFacts ==
    ASSUME IInv, NEW r \in Request, SetNx(r)
    PROVE  /\ cmd[r] = "sent" /\ tok[r] \in Token /\ exp[tok[r]] # 0
           /\ pc[r] \in {"awaiting", "error", "dead"}
           /\ clock \in Nat /\ exp[tok[r]] \in Nat /\ entries[tok[r]] \in Nat
           /\ UNCHANGED <<clock, exp, pc, tok, ttl>>
           /\ at' = [at EXCEPT ![r] = clock]
BY DEF SetNx, IInv, RequestInv, TypeOK, PC

\* Redis answers Nil: somebody holds the token.
LEMMA NilInv ==
    ASSUME IInv, NEW r \in Request, SetNx(r), Held(entries, tok[r], clock),
           cmd' = [cmd EXCEPT ![r] = "nil"], entries' = entries
    PROVE  IInv'
<1>1. /\ cmd[r] = "sent" /\ tok[r] \in Token /\ pc[r] \in {"awaiting", "error", "dead"}
      /\ clock \in Nat /\ entries[tok[r]] \in Nat
      /\ UNCHANGED <<clock, exp, pc, tok, ttl>> /\ at' = [at EXCEPT ![r] = clock]
  BY SetNxFacts
<1>2. TypeOK'
  BY <1>1 DEF IInv, TypeOK, Cmd
<1>3. /\ \A s \in Request : s # r => cmd'[s] = cmd[s] /\ at'[s] = at[s]
      /\ cmd'[r] = "nil"
  BY <1>1 DEF IInv, TypeOK
<1>4. RequestInv'
  BY <1>1, <1>3 DEF IInv, RequestInv
<1>5. MarkerInv'
  BY <1>1, <1>3 DEF IInv, MarkerInv
<1>6. CauseInv'
  <2>1. PICK s \in Request : tok[s] = tok[r] /\ cmd[s] = "ok"
    BY <1>1 DEF Held, IInv, CauseInv
  <2>2. s # r
    BY <1>1, <2>1
  <2> QED
    BY <1>1, <1>3, <2>1, <2>2 DEF IInv, CauseInv
<1>7. OneGrantWhileLive'
  BY <1>1, <1>3 DEF IInv, OneGrantWhileLive
<1> QED
  BY <1>2, <1>4, <1>5, <1>6, <1>7 DEF IInv

\* Redis answers OK: whoever had the token before, it has expired since.
LEMMA OkInv ==
    ASSUME IInv, NEW r \in Request, SetNx(r), ~Held(entries, tok[r], clock),
           cmd' = [cmd EXCEPT ![r] = "ok"], entries' = Mark(entries, tok[r], clock, ttl[r])
    PROVE  IInv'
<1>1. /\ cmd[r] = "sent" /\ tok[r] \in Token /\ pc[r] \in {"awaiting", "error", "dead"}
      /\ clock \in Nat /\ exp[tok[r]] \in Nat /\ entries[tok[r]] \in Nat
      /\ UNCHANGED <<clock, exp, pc, tok, ttl>> /\ at' = [at EXCEPT ![r] = clock]
  BY SetNxFacts
<1>2. AtLeastOne(ttl[r]) \in Nat /\ AtLeastOne(ttl[r]) > 0
  BY DEF IInv, TypeOK, AtLeastOne
<1>3. entries' = [entries EXCEPT ![tok[r]] = clock + AtLeastOne(ttl[r])]
  BY DEF Mark
<1>4. TypeOK'
  BY <1>1, <1>2, <1>3 DEF IInv, TypeOK, Cmd
<1>5. /\ \A s \in Request : s # r => cmd'[s] = cmd[s] /\ at'[s] = at[s]
      /\ cmd'[r] = "ok" /\ at'[r] = clock
      /\ \A t \in Token : t # tok[r] => entries'[t] = entries[t]
      /\ entries'[tok[r]] = clock + AtLeastOne(ttl[r])
  BY <1>1, <1>3 DEF IInv, TypeOK
<1>6. RequestInv'
  BY <1>1, <1>5 DEF IInv, RequestInv
<1>7. entries'[tok[r]] >= exp[tok[r]]
  BY <1>1, <1>5 DEF IInv, MarkerInv
<1>8. \A s \in Request : cmd[s] # "none" => tok[s] \in Token
  BY DEF IInv, RequestInv
<1>9. MarkerInv'
  BY <1>1, <1>5, <1>7, <1>8 DEF IInv, MarkerInv
<1>10. CauseInv'
  <2>1. \A t \in Token : entries'[t] > 0 => \E s \in Request : tok[s] = t /\ cmd'[s] = "ok"
    <3> SUFFICES ASSUME NEW t \in Token, entries'[t] > 0
                 PROVE  \E s \in Request : tok[s] = t /\ cmd'[s] = "ok"
      OBVIOUS
    <3>1. CASE t = tok[r]
      BY <1>5, <3>1
    <3>2. CASE t # tok[r]
      <4>1. PICK s \in Request : tok[s] = t /\ cmd[s] = "ok"
        BY <1>5, <3>2 DEF IInv, CauseInv
      <4> QED
        BY <1>1, <1>5, <4>1
    <3> QED
      BY <3>1, <3>2
  <2>2. \A q \in Request : cmd'[q] = "nil" =>
            \E s \in Request : s # q /\ tok[s] = tok[q] /\ cmd'[s] = "ok"
    <3> SUFFICES ASSUME NEW q \in Request, cmd'[q] = "nil"
                 PROVE  \E s \in Request : s # q /\ tok[s] = tok[q] /\ cmd'[s] = "ok"
      OBVIOUS
    <3>1. cmd[q] = "nil"
      BY <1>5
    <3>2. PICK s \in Request : s # q /\ tok[s] = tok[q] /\ cmd[s] = "ok"
      BY <3>1 DEF IInv, CauseInv
    <3> QED
      BY <1>1, <1>5, <3>2
  <2> QED
    BY <1>1, <2>1, <2>2 DEF CauseInv
<1>11. OneGrantWhileLive'
  <2>1. ASSUME NEW s \in Request, s # r, cmd[s] = "ok", tok[s] = tok[r]
        PROVE  clock >= exp[tok[r]]
    <3>1. entries[tok[r]] >= exp[tok[r]] /\ entries[tok[r]] <= clock
      BY <1>1, <2>1 DEF IInv, MarkerInv, Held
    <3> QED
      BY <1>1, <3>1
  <2> QED
    BY <1>1, <1>5, <2>1 DEF IInv, OneGrantWhileLive
<1> QED
  BY <1>4, <1>6, <1>9, <1>10, <1>11 DEF IInv

LEMMA AfterInv ==
    ASSUME IInv, NEW r \in Request, Answer(r) \/ StoreError(r) \/ Mint(r) \/ Die(r)
    PROVE  IInv'
<1>1. UNCHANGED <<clock, exp, entries, tok, ttl, cmd, at>>
  BY DEF Answer, StoreError, Mint, Die
<1>2. PICK l \in {"won", "refused", "error", "minted", "dead"} :
          /\ pc' = [pc EXCEPT ![r] = l]
          /\ l \in {"won", "minted"} => cmd[r] = "ok"
          /\ l = "refused" => cmd[r] = "nil"
  BY DEF Answer, StoreError, Mint, Die, Goto, IInv, RequestInv
<1>3. pc[r] # "idle"
  BY DEF Answer, StoreError, Mint, Die
<1>4. TypeOK'
  BY <1>1, <1>2 DEF IInv, TypeOK, PC
<1>5. pc'[r] = l /\ \A s \in Request : s # r => pc'[s] = pc[s]
  BY <1>2 DEF IInv, TypeOK
<1>6. RequestInv'
  BY <1>1, <1>2, <1>3, <1>5 DEF IInv, RequestInv
<1> QED
  BY <1>1, <1>4, <1>6, HandlerStep

LEMMA StepInv ==
    ASSUME IInv, [Next]_vars
    PROVE  IInv'
<1>1. ASSUME NEW r \in Request, SetNx(r) PROVE IInv'
  BY <1>1, NilInv, OkInv DEF SetNx
<1>2. CASE UNCHANGED vars
  BY <1>2 DEF vars, IInv, TypeOK, RequestInv, MarkerInv, CauseInv, OneGrantWhileLive
<1> QED
  BY <1>1, <1>2, TickInv, IssueInv, OpenInv, SendInv, AfterInv DEF Next

LEMMA Inductive == Spec => []IInv
BY InitInv, StepInv, PTL DEF Spec

\* Every reachable state of replicas, commands and Redis is well typed.
THEOREM TypeCorrect == Spec => []TypeOK
BY Inductive, PTL DEF IInv

\* RedisStore's SET NX takes a live token once, whatever is lost or late.
THEOREM LiveTokenGrantedOnce == Spec => []OneGrantWhileLive
BY Inductive, PTL DEF IInv

\* Nil comes back only for a token that another request's SET took.
THEOREM RefusalHasACause == Spec => []RefusedOnlyAfterGrant
<1>1. IInv => RefusedOnlyAfterGrant
  BY DEF IInv, RequestInv, CauseInv, RefusedOnlyAfterGrant
<1> QED
  BY <1>1, Inductive, PTL

\* Whoever mints was told OK and has left a marker that outlives the token.
THEOREM MintedLeavesMarkerHolds == Spec => []MintedLeavesMarker
<1>1. IInv => MintedLeavesMarker
  BY DEF IInv, RequestInv, MarkerInv, MintedLeavesMarker
<1> QED
  BY <1>1, Inductive, PTL
-----------------------------------------------------------------------------
(***************************************************************************)
(* The refinement.  A command that is carried out grants, or spends late   *)
(* when its sender has given up; an answer of Nil refuses.                 *)
(***************************************************************************)
LEMMA InitAbstract == Init => Abstract!Init
BY DEF Init, Abstract!Init, outcomeBar, spentBar

\* One request moves on and no SET is carried out.
LEMMA Moves ==
    ASSUME IInv, NEW r \in Request, NEW l \in PC, pc' = [pc EXCEPT ![r] = l],
           UNCHANGED <<tok, cmd>>
    PROVE  /\ spentBar' = spentBar
           /\ l \in {"error", "dead"} => outcomeBar' = [outcomeBar EXCEPT ![r] = "failed"]
           /\ l = "minted" => outcomeBar' = [outcomeBar EXCEPT ![r] = "minted"]
           /\ l = "refused" => outcomeBar' = [outcomeBar EXCEPT ![r] = "refused"]
           /\ l = "won" /\ pc[r] = "awaiting" /\ cmd[r] = "ok" => outcomeBar' = outcomeBar
<1>1. spentBar' = spentBar
  BY DEF spentBar
<1>2. pc'[r] = l /\ \A s \in Request : s # r => pc'[s] = pc[s]
  BY DEF IInv, TypeOK
<1> QED
  BY <1>1, <1>2 DEF outcomeBar

\* Redis carries out a command and takes the token.
LEMMA Takes ==
    ASSUME IInv, NEW r \in Request, SetNx(r), ~Held(entries, tok[r], clock),
           cmd' = [cmd EXCEPT ![r] = "ok"]
    PROVE  Abstract!Next
<1>1. /\ cmd[r] = "sent" /\ tok[r] \in Token /\ exp[tok[r]] # 0
      /\ pc[r] \in {"awaiting", "error", "dead"}
      /\ clock \in Nat /\ exp[tok[r]] \in Nat /\ entries[tok[r]] \in Nat
      /\ UNCHANGED <<clock, exp, pc, tok, ttl>>
  BY SetNxFacts
<1>2. clock < exp[tok[r]] => ~spentBar[tok[r]]
  <2> SUFFICES ASSUME clock < exp[tok[r]], spentBar[tok[r]] PROVE FALSE
    OBVIOUS
  <2>1. PICK s \in Request : tok[s] = tok[r] /\ cmd[s] = "ok"
    BY <1>1 DEF spentBar
  <2>2. entries[tok[r]] >= exp[tok[r]] /\ entries[tok[r]] <= clock
    BY <1>1, <2>1 DEF IInv, MarkerInv, Held
  <2> QED
    BY <1>1, <2>2
<1>3. cmd'[r] = "ok" /\ \A s \in Request : s # r => cmd'[s] = cmd[s]
  BY DEF IInv, TypeOK
<1>4. spentBar' = [spentBar EXCEPT ![tok[r]] = TRUE]
  <2> DEFINE Owned(t) == \E s \in Request : tok[s] = t /\ cmd[s] = "ok"
  <2>1. \A t \in Token : Owned(t)' <=> (t = tok[r] \/ Owned(t))
    BY <1>1, <1>3
  <2>2. spentBar' = [t \in Token |-> Owned(t)'] /\ spentBar = [t \in Token |-> Owned(t)]
    BY DEF spentBar
  <2> QED
    BY <1>1, <2>1, <2>2, Zenon
<1>5. CASE pc[r] = "awaiting"
  <2>1. outcomeBar[r] = "none" /\ outcomeBar' = [outcomeBar EXCEPT ![r] = "granted"]
    BY <1>1, <1>3, <1>5 DEF outcomeBar
  <2>2. Abstract!Grant(r, tok[r])
    BY <1>1, <1>2, <1>4, <2>1 DEF Abstract!Grant, Abstract!Settle
  <2> QED
    BY <1>1, <2>2 DEF Abstract!Next
<1>6. CASE pc[r] \in {"error", "dead"}
  <2>1. outcomeBar[r] = "failed" /\ outcomeBar' = outcomeBar
    BY <1>1, <1>3, <1>6 DEF outcomeBar
  <2>2. Abstract!SpendLate(r, tok[r])
    BY <1>1, <1>2, <1>4, <2>1 DEF Abstract!SpendLate
  <2> QED
    BY <1>1, <2>2 DEF Abstract!Next
<1> QED
  BY <1>1, <1>5, <1>6

LEMMA StepAbstract ==
    ASSUME IInv, [Next]_vars
    PROVE  [Abstract!Next]_(Abstract!vars)
<1> DEFINE Step == Abstract!Next \/ UNCHANGED <<clock, exp, outcomeBar, spentBar>>
<1> SUFFICES Step
  BY DEF Abstract!vars
<1>1. CASE Tick
  <2>1. outcomeBar' = outcomeBar /\ spentBar' = spentBar
    BY <1>1 DEF Tick, outcomeBar, spentBar
  <2> QED
    BY <1>1, <2>1 DEF Tick, Abstract!Next, Abstract!Tick
<1>2. ASSUME NEW t \in Token, Issue(t) PROVE Step
  <2>1. outcomeBar' = outcomeBar /\ spentBar' = spentBar
    BY <1>2 DEF Issue, outcomeBar, spentBar
  <2> QED
    BY <1>2, <2>1 DEF Issue, Abstract!Next, Abstract!Issue
<1>3. ASSUME NEW r \in Request, NEW t \in Token, Open(r, t) PROVE Step
  <2>1. /\ cmd[r] = "none" /\ pc[r] = "idle" /\ pc'[r] = "opened"
        /\ \A s \in Request : s # r => pc'[s] = pc[s] /\ tok'[s] = tok[s]
        /\ UNCHANGED <<clock, exp, cmd>>
    BY <1>3 DEF Open, Goto, IInv, TypeOK, RequestInv
  <2>2. outcomeBar' = outcomeBar
    BY <2>1 DEF outcomeBar
  <2>3. \A u \in Token : (\E s \in Request : tok[s] = u /\ cmd[s] = "ok")'
                         <=> \E s \in Request : tok[s] = u /\ cmd[s] = "ok"
    BY <2>1
  <2>4. spentBar' = spentBar
    BY <2>3 DEF spentBar
  <2> QED
    BY <2>1, <2>2, <2>4
<1>4. ASSUME NEW r \in Request, Send(r) PROVE Step
  <2>1. /\ cmd[r] = "none" /\ pc[r] = "opened" /\ pc'[r] = "awaiting" /\ cmd'[r] = "sent"
        /\ \A s \in Request : s # r => pc'[s] = pc[s] /\ cmd'[s] = cmd[s]
        /\ UNCHANGED <<clock, exp, tok>>
    BY <1>4 DEF Send, Goto, IInv, TypeOK, RequestInv
  <2>2. outcomeBar' = outcomeBar
    BY <2>1 DEF outcomeBar
  <2>3. \A u \in Token : (\E s \in Request : tok[s] = u /\ cmd[s] = "ok")'
                         <=> \E s \in Request : tok[s] = u /\ cmd[s] = "ok"
    BY <2>1
  <2>4. spentBar' = spentBar
    BY <2>3 DEF spentBar
  <2> QED
    BY <2>1, <2>2, <2>4
<1>5. ASSUME NEW r \in Request, SetNx(r) PROVE Step
  <2>1. CASE ~Held(entries, tok[r], clock) /\ cmd' = [cmd EXCEPT ![r] = "ok"]
    BY <1>5, <2>1, Takes
  <2>2. CASE cmd' = [cmd EXCEPT ![r] = "nil"]
    <3>1. cmd[r] = "sent" /\ UNCHANGED <<clock, exp, pc, tok>>
      BY <1>5, SetNxFacts
    <3>2. cmd'[r] = "nil" /\ \A s \in Request : s # r => cmd'[s] = cmd[s]
      BY <2>2 DEF IInv, TypeOK
    <3>3. outcomeBar' = outcomeBar
      BY <3>1, <3>2 DEF outcomeBar
    <3>4. \A u \in Token : (\E s \in Request : tok[s] = u /\ cmd[s] = "ok")'
                           <=> \E s \in Request : tok[s] = u /\ cmd[s] = "ok"
      BY <3>1, <3>2
    <3>5. spentBar' = spentBar
      BY <3>4 DEF spentBar
    <3> QED
      BY <3>1, <3>3, <3>5
  <2> QED
    BY <1>5, <2>1, <2>2 DEF SetNx
<1>6. ASSUME NEW r \in Request, Answer(r) PROVE Step
  <2>1. UNCHANGED <<clock, exp, tok, cmd>> /\ pc[r] = "awaiting"
    BY <1>6 DEF Answer
  <2>2. CASE cmd[r] = "ok" /\ pc' = [pc EXCEPT ![r] = "won"]
    <3>1. outcomeBar' = outcomeBar /\ spentBar' = spentBar
      BY <2>1, <2>2, Moves DEF PC
    <3> QED
      BY <2>1, <3>1
  <2>3. CASE cmd[r] = "nil" /\ pc' = [pc EXCEPT ![r] = "refused"]
    <3>1. outcomeBar' = [outcomeBar EXCEPT ![r] = "refused"] /\ spentBar' = spentBar
      BY <2>1, <2>3, Moves DEF PC
    <3>2. outcomeBar[r] = "none"
      BY <2>1, <2>3 DEF outcomeBar
    <3>3. tok[r] \in Token /\ spentBar[tok[r]]
      BY <2>1, <2>3 DEF IInv, RequestInv, CauseInv, spentBar
    <3> QED
      BY <2>1, <3>1, <3>2, <3>3 DEF Abstract!Next, Abstract!Refuse, Abstract!Settle
  <2> QED
    BY <1>6, <2>2, <2>3 DEF Answer, Goto
<1>7. ASSUME NEW r \in Request, Mint(r) PROVE Step
  <2>1. UNCHANGED <<clock, exp, tok, cmd>> /\ pc[r] = "won" /\ pc' = [pc EXCEPT ![r] = "minted"]
    BY <1>7 DEF Mint, Goto
  <2>2. outcomeBar' = [outcomeBar EXCEPT ![r] = "minted"] /\ spentBar' = spentBar
    BY <2>1, Moves DEF PC
  <2>3. outcomeBar[r] = "granted"
    BY <2>1 DEF outcomeBar
  <2> QED
    BY <2>1, <2>2, <2>3 DEF Abstract!Next, Abstract!Mint, Abstract!Settle
<1>8. ASSUME NEW r \in Request, StoreError(r) \/ Die(r) PROVE Step
  <2>1. /\ UNCHANGED <<clock, exp, tok, cmd>> /\ pc[r] \in {"opened", "awaiting", "won"}
        /\ \E l \in {"error", "dead"} : pc' = [pc EXCEPT ![r] = l]
    BY <1>8 DEF StoreError, Die, Goto
  <2>2. outcomeBar' = [outcomeBar EXCEPT ![r] = "failed"] /\ spentBar' = spentBar
    BY <2>1, Moves DEF PC
  <2>3. outcomeBar[r] \in {"none", "granted"}
    BY <2>1 DEF outcomeBar
  <2> QED
    BY <2>1, <2>2, <2>3 DEF Abstract!Next, Abstract!Fail, Abstract!Settle
<1>9. CASE UNCHANGED vars
  BY <1>9 DEF vars, outcomeBar, spentBar
<1> QED
  BY <1>1, <1>2, <1>3, <1>4, <1>5, <1>6, <1>7, <1>8, <1>9 DEF Next

\* RedisStore, with lost answers, late commands and replicas that die, implements
\* the promise stated in OneTimeUse.
THEOREM Implements == Spec => KeepsPromise
BY InitAbstract, StepAbstract, Inductive, PTL DEF Spec, KeepsPromise, Abstract!Spec
=============================================================================
