--------------------------- MODULE TokenRedemption ---------------------------
(***************************************************************************)
(* Concurrent redemption of authorization codes and refresh tokens against *)
(* InMemoryTokenUseStore (src/src/provider.rs): the sealed token is opened *)
(* and its expiry checked (src/src/tokens.rs), consume_token_once computes *)
(* a ttl, consume reads the clock, then takes the write lock, and a request*)
(* that won goes on to mint.  Each of these reads the clock anew, or works *)
(* with a reading that is already old.                                     *)
(*                                                                         *)
(* The sealed tokens themselves survive a restart of the process, the      *)
(* store does not.                                                         *)
(***************************************************************************)
EXTENDS TokenUseStore

CONSTANTS Request,        \* requests, each one attempt to redeem one token
          Token,          \* codes and refresh tokens: kind and sealed string
          NoToken,        \* what a request that has not opened a token holds
          Lifetime,       \* code_ttl or refresh_token_ttl
          PurgeInterval,  \* IN_MEMORY_PURGE_INTERVAL_SECS
          Horizon,        \* last clock value
          MaxEpoch        \* bound on restarts of the process

ASSUME NoTokenAssumption == NoToken \notin Token
ASSUME LifetimeAssumption == Lifetime \in Nat \ {0}
ASSUME PurgeAssumption == PurgeInterval \in Nat
ASSUME BoundsAssumption == Horizon \in Nat /\ MaxEpoch \in Nat

VARIABLES clock,      \* whole seconds since the epoch; never steps back
          exp,        \* exp[t]: expiry sealed into t, 0 before t is issued
          entries,    \* the store's map: token hash -> expiry of its marker
          nextPurge,  \* next_purge
          epoch,      \* number of restarts of the process so far
          pc,         \* pc[r]: how far r has got
          tok,        \* tok[r]: the token r presents (NoToken before)
          ttl,        \* ttl[r]: the argument of consume
          now,        \* now[r]: the clock reading consume works with
          at,         \* at[r]: when the store decided on r (history)
          era         \* era[r]: the epoch r runs in (history)

store == <<entries, nextPurge>>
vars == <<clock, exp, entries, nextPurge, epoch, pc, tok, ttl, now, at, era>>

Running == {"opened", "called", "waiting", "won"}
PC == {"idle", "minted", "refused", "dead", "burnt"} \cup Running

TypeOK ==
    /\ clock \in 0..Horizon
    /\ exp \in [Token -> Nat]
    /\ entries \in [Token -> Nat]
    /\ nextPurge \in Nat
    /\ epoch \in 0..MaxEpoch
    /\ pc \in [Request -> PC]
    /\ tok \in [Request -> Token \cup {NoToken}]
    /\ ttl \in [Request -> Nat]
    /\ now \in [Request -> Nat]
    /\ at \in [Request -> Nat]
    /\ era \in [Request -> Nat]

Init ==
    /\ clock = 0
    /\ exp = [t \in Token |-> 0]
    /\ entries = NoEntries(Token)
    /\ nextPurge = 0
    /\ epoch = 0
    /\ pc = [r \in Request |-> "idle"]
    /\ tok = [r \in Request |-> NoToken]
    /\ ttl = [r \in Request |-> 0]
    /\ now = [r \in Request |-> 0]
    /\ at = [r \in Request |-> 0]
    /\ era = [r \in Request |-> 0]

Goto(r, l) == pc' = [pc EXCEPT ![r] = l]

Tick ==
    /\ clock < Horizon
    /\ clock' = clock + 1
    /\ UNCHANGED <<exp, store, epoch, pc, tok, ttl, now, at, era>>

\* A token is sealed with exp: now_secs() + ttl.
Issue(t) ==
    /\ exp[t] = 0
    /\ exp' = [exp EXCEPT ![t] = clock + Lifetime]
    /\ UNCHANGED <<clock, store, epoch, pc, tok, ttl, now, at, era>>

\* open_code / open_refresh_token: the token is refused once exp <= now.  The
\* checks that follow it (client, redirect_uri, PKCE, scope) await nothing.
Open(r, t) ==
    /\ pc[r] = "idle"
    /\ exp[t] # 0
    /\ ~(exp[t] <= clock)
    /\ tok' = [tok EXCEPT ![r] = t]
    /\ era' = [era EXCEPT ![r] = epoch]
    /\ Goto(r, "opened")
    /\ UNCHANGED <<clock, exp, store, epoch, ttl, now, at>>

\* consume_token_once: the ttl comes from a clock reading of its own.
CallConsume(r) ==
    /\ pc[r] = "opened"
    /\ ttl' = [ttl EXCEPT ![r] = TokenTtl(exp[tok[r]], clock)]
    /\ Goto(r, "called")
    /\ UNCHANGED <<clock, exp, store, epoch, tok, now, at, era>>

\* consume: now_secs() is read before the write lock is requested.
ReadClock(r) ==
    /\ pc[r] = "called"
    /\ now' = [now EXCEPT ![r] = clock]
    /\ Goto(r, "waiting")
    /\ UNCHANGED <<clock, exp, store, epoch, tok, ttl, at, era>>

\* Mutant of Swept: the marker is inserted before it is looked for.
SweptAfterInsert(r) == Mark(Sweep(entries, now[r]), tok[r], now[r], ttl[r])

\* The entries consume sees under the lock: swept first, if a sweep is due.
Swept(r) == IF now[r] >= nextPurge THEN Sweep(entries, now[r]) ELSE entries

\* consume, under the write lock: sweep if due, then look up and insert.
ConsumeLocked(r) ==
    /\ pc[r] = "waiting"
    /\ nextPurge' = IF now[r] >= nextPurge THEN now[r] + PurgeInterval ELSE nextPurge
    /\ at' = [at EXCEPT ![r] = clock]
    /\ \/ /\ Held(Swept(r), tok[r], now[r])
          /\ entries' = Swept(r)
          /\ Goto(r, "refused")
       \/ /\ ~Held(Swept(r), tok[r], now[r])
          /\ entries' = Mark(Swept(r), tok[r], now[r], ttl[r])
          /\ Goto(r, "won")
    /\ UNCHANGED <<clock, exp, epoch, tok, ttl, now, era>>

\* The rest of the handler: mint and answer.  If sealing or signing fails the
\* answer is server_error, and the token stays redeemed ("burnt").
Mint(r) ==
    /\ pc[r] = "won"
    /\ Goto(r, "minted") \/ Goto(r, "burnt")
    /\ UNCHANGED <<clock, exp, store, epoch, tok, ttl, now, at, era>>

\* The process dies and is started again.  Sealed tokens stay valid, the
\* in-memory store starts empty, requests under way are lost, the one that has
\* won but not minted (burnt too) included.
Restart ==
    /\ epoch < MaxEpoch
    /\ epoch' = epoch + 1
    /\ entries' = NoEntries(Token)
    /\ nextPurge' = 0
    /\ pc' = [r \in Request |-> CASE pc[r] = "won" -> "burnt"
                                  [] pc[r] \in Running \ {"won"} -> "dead"
                                  [] OTHER -> pc[r]]
    /\ UNCHANGED <<clock, exp, tok, ttl, now, at, era>>

Step(r) ==
    \/ \E t \in Token : Open(r, t)
    \/ CallConsume(r)
    \/ ReadClock(r)
    \/ ConsumeLocked(r)
    \/ Mint(r)

Next ==
    \/ Tick
    \/ Restart
    \/ \E t \in Token : Issue(t)
    \/ \E r \in Request : Step(r)

\* A request under way runs on: nothing in it waits for another request
\* except the lock, which is never held across an await.
Continue(r) == CallConsume(r) \/ ReadClock(r) \/ ConsumeLocked(r) \/ Mint(r)

Spec == Init /\ [][Next]_vars
FairSpec == Spec /\ \A r \in Request : WF_vars(Continue(r))
-----------------------------------------------------------------------------
\* r was given the token by the store; it may have minted, or died since.
Won(r) == pc[r] \in {"won", "minted", "burnt"}

\* Two requests of one process that both redeemed the same token.
Twice(r, s) ==
    /\ r # s
    /\ Won(r) /\ Won(s)
    /\ tok[r] = tok[s]
    /\ era[r] = era[s]

\* A code or refresh token is redeemed at most once before it expires: of two
\* requests of one process that both redeemed it, one was decided by the store
\* only after the token's last second.  (consume_token_once and consume.)
OneWinnerWhileLive ==
    \A r, s \in Request :
        Twice(r, s) => at[r] >= exp[tok[r]] \/ at[s] >= exp[tok[s]]

\* A request is told "already used" only if another request of the same
\* process redeemed the token: no failed check, sweep or restart burns one.
RefusedOnlyAfterWin ==
    \A r \in Request : pc[r] = "refused" =>
        \E s \in Request :
            /\ s # r
            /\ tok[s] = tok[r]
            /\ era[s] = era[r]
            /\ Won(s)

\* The marker left by a redemption outlives the token: a store that forgets it
\* within the token's life would let the next request in.
MarkerOutlivesToken ==
    \A r \in Request :
        Won(r) /\ era[r] = epoch /\ clock < exp[tok[r]] => entries[tok[r]] >= exp[tok[r]]

\* What the documentation of TokenUseStore says: codes and refresh tokens are
\* consumed exactly once.
ExactlyOnce == \A r, s \in Request : ~Twice(r, s)

\* If a request gets as far as opening a token then, unless the process is
\* restarted, some request redeems that token: concurrent requests for a token
\* never all refuse each other.
SomeoneWins ==
    \A t \in Token :
        (\E r \in Request : pc[r] = "opened" /\ tok[r] = t) ~>
            \E r \in Request : tok[r] = t /\ pc[r] \in {"minted", "burnt", "dead"}

\* The promise that this store keeps: OneTimeUse, where a token is spent when
\* a request of the current process has been given it.
outcomeBar ==
    [r \in Request |->
        CASE pc[r] = "won" -> "granted"
          [] pc[r] = "minted" -> "minted"
          [] pc[r] = "refused" -> "refused"
          [] pc[r] \in {"dead", "burnt"} -> "failed"
          [] OTHER -> "none"]

spentBar == [t \in Token |-> \E r \in Request : tok[r] = t /\ era[r] = epoch /\ Won(r)]

Abstract == INSTANCE OneTimeUse WITH outcome <- outcomeBar, spent <- spentBar

\* Every behaviour of the in-memory store is one the promise allows.
KeepsPromise == Abstract!Spec
=============================================================================
