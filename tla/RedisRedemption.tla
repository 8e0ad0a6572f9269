--------------------------- MODULE RedisRedemption ---------------------------
(***************************************************************************)
(* Concurrent redemption of authorization codes and refresh tokens by any  *)
(* number of replicas that share RedisStore (src/src/provider.rs).  The    *)
(* store decides with one SET key 1 EX ttl NX, carried out by Redis on its *)
(* own clock; the answer may be late, lost, or an error, a replica may die *)
(* at any point, and a command whose sender gave up may still be carried   *)
(* out.  Redis itself keeps its keys (no eviction, no data loss) and the   *)
(* connection manager does not repeat a command.                           *)
(***************************************************************************)
EXTENDS TokenUseStore

CONSTANTS Request,   \* requests, on any replica, each one attempt
          Token,     \* codes and refresh tokens
          NoToken,   \* what a request that has not opened a token holds
          Lifetime,  \* code_ttl or refresh_token_ttl
          Horizon    \* last clock value

ASSUME NoTokenAssumption == NoToken \notin Token
ASSUME LifetimeAssumption == Lifetime \in Nat \ {0}
ASSUME HorizonAssumption == Horizon \in Nat

VARIABLES clock,    \* whole seconds; replicas and Redis tick together
          exp,      \* exp[t]: expiry sealed into t, 0 before t is issued
          entries,  \* the keys in Redis: token hash -> expiry
          pc,       \* pc[r]: how far the handler of r has got
          tok,      \* tok[r]: the token r presents
          ttl,      \* ttl[r]: the EX argument of r's command
          cmd,      \* cmd[r]: the state of r's SET command
          at        \* at[r]: when Redis carried the command out (history)

vars == <<clock, exp, entries, pc, tok, ttl, cmd, at>>

PC == {"idle", "opened", "awaiting", "won", "minted", "refused", "error", "dead"}
Cmd == {"none", "sent", "ok", "nil"}

TypeOK ==
    /\ clock \in 0..Horizon
    /\ exp \in [Token -> Nat]
    /\ entries \in [Token -> Nat]
    /\ pc \in [Request -> PC]
    /\ tok \in [Request -> Token \cup {NoToken}]
    /\ ttl \in [Request -> Nat]
    /\ cmd \in [Request -> Cmd]
    /\ at \in [Request -> Nat]

Init ==
    /\ clock = 0
    /\ exp = [t \in Token |-> 0]
    /\ entries = NoEntries(Token)
    /\ pc = [r \in Request |-> "idle"]
    /\ tok = [r \in Request |-> NoToken]
    /\ ttl = [r \in Request |-> 0]
    /\ cmd = [r \in Request |-> "none"]
    /\ at = [r \in Request |-> 0]

Goto(r, l) == pc' = [pc EXCEPT ![r] = l]

Tick ==
    /\ clock < Horizon
    /\ clock' = clock + 1
    /\ UNCHANGED <<exp, entries, pc, tok, ttl, cmd, at>>

Issue(t) ==
    /\ exp[t] = 0
    /\ exp' = [exp EXCEPT ![t] = clock + Lifetime]
    /\ UNCHANGED <<clock, entries, pc, tok, ttl, cmd, at>>

\* open_code / open_refresh_token.
Open(r, t) ==
    /\ pc[r] = "idle"
    /\ exp[t] # 0
    /\ ~(exp[t] <= clock)
    /\ tok' = [tok EXCEPT ![r] = t]
    /\ Goto(r, "opened")
    /\ UNCHANGED <<clock, exp, entries, ttl, cmd, at>>

\* consume_token_once computes the ttl and hands the command to Redis.
Send(r) ==
    /\ pc[r] = "opened"
    /\ ttl' = [ttl EXCEPT ![r] = TokenTtl(exp[tok[r]], clock)]
    /\ cmd' = [cmd EXCEPT ![r] = "sent"]
    /\ Goto(r, "awaiting")
    /\ UNCHANGED <<clock, exp, entries, tok, at>>

\* Mutant of SetNx: NX is left out of the command.
SetWithoutNx(r) ==
    /\ cmd[r] = "sent"
    /\ at' = [at EXCEPT ![r] = clock]
    /\ cmd' = [cmd EXCEPT ![r] = "ok"]
    /\ entries' = Mark(entries, tok[r], clock, ttl[r])
    /\ UNCHANGED <<clock, exp, pc, tok, ttl>>

\* SET key 1 EX max(ttl, 1) NX: atomic in Redis, where an expired key is gone.
SetNx(r) ==
    /\ cmd[r] = "sent"
    /\ at' = [at EXCEPT ![r] = clock]
    /\ \/ /\ Held(entries, tok[r], clock)
          /\ cmd' = [cmd EXCEPT ![r] = "nil"]
          /\ UNCHANGED entries
       \/ /\ ~Held(entries, tok[r], clock)
          /\ cmd' = [cmd EXCEPT ![r] = "ok"]
          /\ entries' = Mark(entries, tok[r], clock, ttl[r])
    /\ UNCHANGED <<clock, exp, pc, tok, ttl>>

\* Mutants of Answer: OK and Nil swapped, and every answer taken for a grant.
AnswerSwapped(r) ==
    /\ pc[r] = "awaiting"
    /\ \/ cmd[r] = "nil" /\ Goto(r, "won")
       \/ cmd[r] = "ok" /\ Goto(r, "refused")
    /\ UNCHANGED <<clock, exp, entries, tok, ttl, cmd, at>>
AnswerIgnored(r) ==
    /\ pc[r] = "awaiting"
    /\ cmd[r] \in {"ok", "nil"}
    /\ Goto(r, "won")
    /\ UNCHANGED <<clock, exp, entries, tok, ttl, cmd, at>>

\* The answer arrives: OK is a grant, Nil a replay.
Answer(r) ==
    /\ pc[r] = "awaiting"
    /\ \/ cmd[r] = "ok" /\ Goto(r, "won")
       \/ cmd[r] = "nil" /\ Goto(r, "refused")
    /\ UNCHANGED <<clock, exp, entries, tok, ttl, cmd, at>>

\* Mutant of StoreError: an unreachable store lets the request through.
StoreErrorFailsOpen(r) ==
    /\ pc[r] = "awaiting"
    /\ Goto(r, "won")
    /\ UNCHANGED <<clock, exp, entries, tok, ttl, cmd, at>>

\* query_async fails (connection lost, timeout) or the answer is neither OK
\* nor Nil: the request ends in server_error, whatever Redis did or will do.
StoreError(r) ==
    /\ pc[r] = "awaiting"
    /\ Goto(r, "error")
    /\ UNCHANGED <<clock, exp, entries, tok, ttl, cmd, at>>

Mint(r) ==
    /\ pc[r] = "won"
    /\ Goto(r, "minted")
    /\ UNCHANGED <<clock, exp, entries, tok, ttl, cmd, at>>

\* The replica that serves r dies, the client's disconnect drops the handler at
\* an await, or sealing and signing fail after the grant.
Die(r) ==
    /\ pc[r] \in {"opened", "awaiting", "won"}
    /\ Goto(r, "dead")
    /\ UNCHANGED <<clock, exp, entries, tok, ttl, cmd, at>>

Next ==
    \/ Tick
    \/ \E t \in Token : Issue(t)
    \/ \E r \in Request, t \in Token : Open(r, t)
    \/ \E r \in Request :
          Send(r) \/ SetNx(r) \/ Answer(r) \/ StoreError(r) \/ Mint(r) \/ Die(r)

Spec == Init /\ [][Next]_vars
-----------------------------------------------------------------------------
\* Of two requests whose SET took the same token, on whatever replicas and
\* whatever became of them, one was carried out after the token had expired.
OneGrantWhileLive ==
    \A r, s \in Request :
        /\ r # s
        /\ cmd[r] = "ok" /\ cmd[s] = "ok"
        /\ tok[r] = tok[s]
        => at[r] >= exp[tok[r]] \/ at[s] >= exp[tok[s]]

\* "Already used" is said only of a token that another request's SET took:
\* possibly one that died, or was itself answered with server_error, so a
\* refusal does not mean that tokens were minted.
RefusedOnlyAfterGrant ==
    \A r \in Request : pc[r] = "refused" =>
        \E s \in Request : s # r /\ tok[s] = tok[r] /\ cmd[s] = "ok"

\* Tokens are minted only by a request that Redis told OK, and the marker it
\* left is in Redis for as long as the token lives.
MintedLeavesMarker ==
    \A r \in Request :
        pc[r] = "minted" /\ clock < exp[tok[r]] =>
            cmd[r] = "ok" /\ entries[tok[r]] >= exp[tok[r]]

\* The promise: a token is spent once a SET took it.
outcomeBar ==
    [r \in Request |->
        CASE pc[r] \in {"error", "dead"} -> "failed"
          [] pc[r] \in {"minted", "refused"} -> pc[r]
          [] pc[r] = "won" \/ (pc[r] = "awaiting" /\ cmd[r] = "ok") -> "granted"
          [] OTHER -> "none"]

spentBar == [t \in Token |-> \E r \in Request : tok[r] = t /\ cmd[r] = "ok"]

Abstract == INSTANCE OneTimeUse WITH outcome <- outcomeBar, spent <- spentBar

\* Every behaviour of the shared store is one the promise allows.
KeepsPromise == Abstract!Spec
=============================================================================
