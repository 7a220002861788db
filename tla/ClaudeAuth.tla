----------------------------- MODULE ClaudeAuth -----------------------------
(***************************************************************************)
(* internal/claudeauth: where LimitDock's Claude access token comes from.  *)
(*                                                                         *)
(* One background refresher (the Claude reader, serialised by the mutex of *)
(* its cache wrapper) resolves a token: environment, LimitDock's own       *)
(* encrypted store, the CLI's credentials file.  A store token that has    *)
(* expired is refreshed over the network and the rotated pair is saved     *)
(* back.  Meanwhile the user may save a setup-token or finish a browser    *)
(* sign-in, and both write the same store file.  Nothing locks the store,  *)
(* so load, POST and save are steps of their own here.                     *)
(*                                                                         *)
(* Every POST to the OAuth token endpoint goes through a process-wide gate *)
(* that remembers consecutive HTTP 429 answers (strikes) and how long      *)
(* background refreshes must stand down (cool).                            *)
(*                                                                         *)
(* Times are kept as the time REMAINING, counted down by Tick: cool is     *)
(* gateEntry.until minus now, left is the stored expiry (less the 30 s     *)
(* expirySkew) minus now.  The code only ever compares them with now.      *)
(***************************************************************************)
EXTENDS Integers, Sequences, FiniteSets

CONSTANTS
    Accounts,           \* Claude accounts the user can sign in with
    Exchanges,          \* browser sign-ins that may be under way at once
    Ladder,             \* cooldownLadder, in ticks
    RetryAfters,        \* values of the Retry-After header, 0 for none
    TokenLife,          \* longest lifetime the endpoint grants, in ticks
    MaxRefreshStrikes,  \* maxRefreshStrikes
    StrikeCap           \* bound: no 429 is modelled beyond this many strikes

\* What the code relies on: the ladder exists and never gets shorter.
ASSUME LadderAssumption ==
    /\ Ladder \in Seq(Nat \ {0})
    /\ Len(Ladder) > 0
    /\ \A i, j \in 1..Len(Ladder) : i <= j => Ladder[i] <= Ladder[j]

ASSUME ParameterAssumption ==
    /\ RetryAfters \subseteq Nat
    /\ TokenLife \in Nat
    /\ MaxRefreshStrikes \in Nat \ {0}
    /\ StrikeCap \in Nat

VARIABLES
    env,        \* CLAUDE_CODE_OAUTH_TOKEN is set
    cli,        \* the CLI's credentials file, owned by the CLI
    store,      \* the record in LimitDock's credential store
    gate,       \* the gateEntry of the token endpoint
    refresher,  \* where the background Resolve stands
    held,       \* the record it loaded
    answer,     \* what the last Resolve returned
    exchange,   \* exchange[x]: where sign-in x stands and for whom
    \* History, read by the properties only.
    connected,  \* the account of the last sign-in reported as successful
    overtaken,  \* a sign-in was saved while the refresher held an older record
    clobbered,  \* the refresher then saved that older record
    refused,    \* 429 answers to background POSTs since the gate last cleared
    owed        \* ladder wait left since the last of them

code    == <<env, cli, store, gate, refresher, held, answer, exchange>>
history == <<connected, overtaken, clobbered, refused, owed>>
vars    == <<code, history>>

-----------------------------------------------------------------------------
(* Data *)

Never     == -1   \* ExpiresAt <= 0: treated as not expiring
NoAccount == "no account"

\* storedToken.  "none" is a missing or empty record, "unreadable" one that
\* cannot be decrypted or parsed.
Record  == [kind : {"oauth", "setup"}, acct : Accounts,
            refresh : BOOLEAN, left : Nat \cup {Never}]
Missing == [kind |-> "none", acct |-> NoAccount, refresh |-> FALSE, left |-> 0]
Garbled == [kind |-> "unreadable", acct |-> NoAccount, refresh |-> FALSE, left |-> 0]

SetupRecord(a) ==
    [kind |-> "setup", acct |-> a, refresh |-> FALSE, left |-> Never]
OAuthRecord(a, refresh, life) ==
    [kind |-> "oauth", acct |-> a, refresh |-> refresh, left |-> life]

NoEntry  == [strikes |-> 0, cool |-> 0]
CLIFiles == {"absent", "valid", "expired", "broken"}
Answers  == {"none", "env", "store", "cli", "needs_auth", "transient", "no_source"}

\* How a POST to the token endpoint can end, in the classes the code tells
\* apart.  "page" is any answer below 500 without a usable token or an OAuth
\* error: an HTML page, an undecodable body, a missing access_token.
\* "unavailable" is a 5xx, a network error or the request timeout.
Statuses == {"granted", "denied", "page", "unavailable", "limited"}

IdleExchange == [pc |-> "idle", acct |-> NoAccount]

-----------------------------------------------------------------------------
(* The gate *)

Larger(m, n)  == IF m >= n THEN m ELSE n
Smaller(m, n) == IF m <= n THEN m ELSE n

\* cooldownLadder[min(strikes, len-1)], with sequences counted from one.
LadderWait(strikes) == Ladder[Smaller(strikes + 1, Len(Ladder))]

RecordRateLimit(g, retryAfter) ==
    [strikes |-> g.strikes + 1, cool |-> Larger(LadderWait(g.strikes), retryAfter)]

\* Faulty variant: every answer but a 429 clears the gate, a 5xx too.
GateAfterClearedBy5xx(g, status, retryAfter) ==
    IF status = "limited" THEN RecordRateLimit(g, retryAfter) ELSE NoEntry

\* postTokenForm's effect on the gate: a 429 is recorded, a 5xx or a network
\* error says nothing about the limiter, everything else clears the entry.
GateAfter(g, status, retryAfter) ==
    CASE status = "limited"     -> RecordRateLimit(g, retryAfter)
      [] status = "unavailable" -> g
      [] OTHER                  -> NoEntry

\* One answer from the endpoint, to a background POST or to an exchange.
EndpointAnswers(status, retryAfter, background) ==
    /\ status = "limited" => gate.strikes < StrikeCap
    /\ gate' = GateAfter(gate, status, retryAfter)
    /\ CASE status = "limited" ->
              /\ refused' = IF background THEN refused + 1 ELSE refused
              /\ owed'    = IF background THEN LadderWait(gate.strikes) ELSE owed
         [] status = "unavailable" -> UNCHANGED <<refused, owed>>
         [] OTHER -> refused' = 0 /\ owed' = 0

-----------------------------------------------------------------------------
(* The background Resolve *)

\* A failed store resolution: a CLI token that is still valid bridges the
\* gap, otherwise the store's own failure is reported.
BridgedByCLI(failure) == IF cli = "valid" THEN "cli" ELSE failure

FinishResolve(result) ==
    /\ refresher' = "idle"
    /\ held' = Missing
    /\ answer' = result
    /\ overtaken' = FALSE

\* Faulty variants: the breaker consulted before the token's own validity; a
\* refresh attempted without a refresh token.
UsableUnlessStruck(r) == r.left # 0 /\ gate.strikes < MaxRefreshStrikes
RefreshableAlways(r)  == TRUE

\* The stored access token is good as it is; it can be renewed.
Usable(r) == r.left # 0
Refreshable(r) == r.refresh

\* Resolve up to the decision to refresh: environment, then the store record,
\* then the CLI file.
Resolve ==
    /\ refresher = "idle"
    /\ \/ /\ env
          /\ FinishResolve("env")
       \/ /\ ~env
          /\ store.kind = "none"
          /\ FinishResolve(CASE cli = "absent" -> "no_source"
                             [] cli = "valid"  -> "cli"
                             [] OTHER          -> "needs_auth")
       \/ /\ ~env
          /\ store.kind = "unreadable"
          /\ FinishResolve(BridgedByCLI("needs_auth"))
       \/ /\ ~env
          /\ store.kind \in {"oauth", "setup"}
          /\ Usable(store)
          /\ FinishResolve("store")
       \/ /\ ~env
          /\ store.kind \in {"oauth", "setup"}
          /\ ~Usable(store)
          /\ ~Refreshable(store)
          /\ FinishResolve(BridgedByCLI("needs_auth"))
       \/ /\ ~env
          /\ store.kind \in {"oauth", "setup"}
          /\ ~Usable(store)
          /\ Refreshable(store)
          /\ refresher' = "loaded"
          /\ held' = store
          /\ UNCHANGED <<answer, overtaken>>
    /\ UNCHANGED <<env, cli, store, gate, exchange,
                   connected, clobbered, refused, owed>>

\* Faulty variant: one strike too many before the breaker trips.
CheckBreakerLate ==
    /\ refresher = "loaded"
    /\ IF gate.strikes > MaxRefreshStrikes
       THEN FinishResolve(BridgedByCLI("needs_auth"))
       ELSE refresher' = "unstruck" /\ UNCHANGED <<held, answer, overtaken>>
    /\ UNCHANGED <<env, cli, store, gate, exchange,
                   connected, clobbered, refused, owed>>

\* refresh, first test: the circuit breaker.
CheckBreaker ==
    /\ refresher = "loaded"
    /\ IF gate.strikes >= MaxRefreshStrikes
       THEN FinishResolve(BridgedByCLI("needs_auth"))
       ELSE refresher' = "unstruck" /\ UNCHANGED <<held, answer, overtaken>>
    /\ UNCHANGED <<env, cli, store, gate, exchange,
                   connected, clobbered, refused, owed>>

\* refresh, second test (the gate's lock was released in between): the
\* cooldown.  Passing it sends the POST.
CheckCooldown ==
    /\ refresher = "unstruck"
    /\ IF gate.cool > 0
       THEN FinishResolve(BridgedByCLI("transient"))
       ELSE refresher' = "posting" /\ UNCHANGED <<held, answer, overtaken>>
    /\ UNCHANGED <<env, cli, store, gate, exchange,
                   connected, clobbered, refused, owed>>

\* The answer to the background POST.
RefreshAnswered ==
    /\ refresher = "posting"
    /\ \E status \in Statuses :
         /\ \E ra \in RetryAfters : EndpointAnswers(status, ra, TRUE)
         /\ IF status = "granted"
            THEN refresher' = "saving" /\ UNCHANGED <<held, answer, overtaken>>
            ELSE FinishResolve(BridgedByCLI(
                     IF status = "denied" THEN "needs_auth" ELSE "transient"))
    /\ UNCHANGED <<env, cli, store, exchange, connected, clobbered>>

\* resolveStore saves the record it loaded, with the rotated tokens put in.
\* When the save fails the rotated pair is gone and the user must reconnect.
SaveRefreshed ==
    /\ refresher = "saving"
    /\ \/ /\ \E life \in 0..TokenLife : store' = [held EXCEPT !.left = life]
          /\ clobbered' = (clobbered \/ overtaken)
          /\ FinishResolve("store")
       \/ /\ FinishResolve(BridgedByCLI("needs_auth"))
          /\ UNCHANGED <<store, clobbered>>
    /\ UNCHANGED <<env, cli, gate, exchange, connected, refused, owed>>

-----------------------------------------------------------------------------
(* The user *)

\* A sign-in whose token reached the store; the dialog reports success.
SignedIn(record) ==
    /\ store' = record
    /\ connected' = record.acct
    /\ overtaken' = (refresher # "idle")
    /\ clobbered' = FALSE

SaveSetupToken ==
    /\ \E a \in Accounts : SignedIn(SetupRecord(a))
    /\ UNCHANGED <<env, cli, gate, refresher, held, answer, exchange,
                   refused, owed>>

\* The Connect button.  The dialog can be cancelled and opened again while an
\* exchange is in flight, which goes on: it runs on the application's context.
ConnectClicked(x) ==
    /\ exchange[x].pc = "idle"
    /\ \E a \in Accounts :
         exchange' = [exchange EXCEPT ![x] = [pc |-> "posting", acct |-> a]]
    /\ UNCHANGED <<env, cli, store, gate, refresher, held, answer, history>>

\* ExchangeCode consults neither the breaker nor the cooldown.
ExchangeAnswered(x) ==
    /\ exchange[x].pc = "posting"
    /\ \E status \in Statuses :
         /\ \E ra \in RetryAfters : EndpointAnswers(status, ra, FALSE)
         /\ exchange' = [exchange EXCEPT ![x] =
                IF status = "granted" THEN [@ EXCEPT !.pc = "saving"]
                                      ELSE IdleExchange]
    /\ UNCHANGED <<env, cli, store, refresher, held, answer,
                   connected, overtaken, clobbered>>

\* Faulty variant: success is reported although the save failed.
SaveExchangedUnchecked(x) ==
    /\ exchange[x].pc = "saving"
    /\ exchange' = [exchange EXCEPT ![x] = IdleExchange]
    /\ \/ \E refresh \in BOOLEAN, life \in 0..TokenLife :
            SignedIn(OAuthRecord(exchange[x].acct, refresh, life))
       \/ connected' = exchange[x].acct /\ UNCHANGED <<store, overtaken, clobbered>>
    /\ UNCHANGED <<env, cli, gate, refresher, held, answer, refused, owed>>

\* A granted exchange is persisted.  When that fails the user is told so.
SaveExchanged(x) ==
    /\ exchange[x].pc = "saving"
    /\ exchange' = [exchange EXCEPT ![x] = IdleExchange]
    /\ \/ \E refresh \in BOOLEAN, life \in 0..TokenLife :
            SignedIn(OAuthRecord(exchange[x].acct, refresh, life))
       \/ UNCHANGED <<store, connected, overtaken, clobbered>>
    /\ UNCHANGED <<env, cli, gate, refresher, held, answer, refused, owed>>

-----------------------------------------------------------------------------
(* The environment *)

\* The Claude CLI rewrites, loses or outlives its own file.  LimitDock only
\* reads it.
CLIChanges ==
    /\ \E file \in CLIFiles \ {cli} : cli' = file
    /\ UNCHANGED <<env, store, gate, refresher, held, answer, exchange, history>>

CountDown(n) == IF n > 0 THEN n - 1 ELSE n

Tick ==
    /\ gate.cool > 0 \/ store.left > 0 \/ owed > 0
    /\ gate'  = [gate EXCEPT !.cool = CountDown(@)]
    /\ store' = [store EXCEPT !.left = CountDown(@)]
    /\ owed'  = CountDown(owed)
   
    /\ UNCHANGED <<env, cli, refresher, held, answer, exchange,
                   connected, overtaken, clobbered, refused>>

-----------------------------------------------------------------------------

\* A start of the program: whatever an earlier run left in the store, an
\* empty process-wide gate, and no Resolve under way.
Init ==
    /\ env \in BOOLEAN
    /\ cli \in CLIFiles
    /\ store \in {Missing, Garbled}
            \cup {SetupRecord(a) : a \in Accounts}
            \cup {OAuthRecord(a, r, l) : a \in Accounts, r \in BOOLEAN, l \in 0..TokenLife}
    /\ gate = NoEntry
    /\ refresher = "idle"
    /\ held = Missing
    /\ answer = "none"
    /\ exchange = [x \in Exchanges |-> IdleExchange]
    /\ connected = store.acct
    /\ overtaken = FALSE
    /\ clobbered = FALSE
    /\ refused = 0
    /\ owed = 0
   

Background == Resolve \/ CheckBreaker \/ CheckCooldown \/ RefreshAnswered \/ SaveRefreshed
SignIn(x)  == ConnectClicked(x) \/ ExchangeAnswered(x) \/ SaveExchanged(x)

Next ==
    \/ Background
    \/ \E x \in Exchanges : SignIn(x)
    \/ SaveSetupToken
    \/ CLIChanges
    \/ Tick

Spec == Init /\ [][Next]_vars

\* The refresh loop keeps polling and every HTTP request has a timeout, so the
\* background steps are taken while they are enabled, and time passes.  Nothing
\* is assumed of the user or of the CLI.
FairSpec == Spec /\ WF_vars(Background) /\ WF_vars(Tick)

-----------------------------------------------------------------------------
(* Properties *)

TypeOK ==
    /\ env \in BOOLEAN
    /\ cli \in CLIFiles
    /\ store \in Record \cup {Missing, Garbled}
    /\ gate \in [strikes : Nat, cool : Nat]
    /\ refresher \in {"idle", "loaded", "unstruck", "posting", "saving"}
    /\ held \in Record \cup {Missing}
    /\ answer \in Answers
    /\ exchange \in [Exchanges -> [pc : {"posting", "saving"}, acct : Accounts]
                                  \cup {IdleExchange}]
    /\ connected \in Accounts \cup {NoAccount}
    /\ overtaken \in BOOLEAN
    /\ clobbered \in BOOLEAN
    /\ refused \in Nat
    /\ owed \in Nat
   

\* The circuit breaker bounds what the endpoint sees: between two answers that
\* clear the gate, background refreshes collect at most MaxRefreshStrikes
\* answers 429, however user sign-ins on the same endpoint interleave with the
\* two unlocked tests of refresh().
LockoutBound == refused <= MaxRefreshStrikes

\* After a background POST was answered 429, the next one is not sent before
\* the ladder's wait for that strike is over, unless an answer cleared the gate:
\* a 5xx in between does not shorten the wait, and neither does a 429 to a
\* user's exchange.
RefreshStandsDown ==
    [][refresher # "posting" /\ refresher' = "posting" => owed = 0]_vars

\* A sign-in reported as successful is undone by one thing only: a refresh that
\* had loaded the older record before the sign-in was saved and that saved it
\* back afterwards.  No failure, retry or expiry changes whose token it is.
ConnectLostOnlyToRefresh ==
    store.kind \in {"oauth", "setup"} /\ store.acct # connected => clobbered

\* A record without refresh token (a setup-token) keeps the reader away from
\* the token endpoint: the refresher is at work beside it only if it had started
\* from the record the sign-in replaced.
SetupTokenQuiet ==
    refresher # "idle" /\ ~store.refresh => overtaken

\* Once a setup-token is in the store to stay, polls end up being served
\* from it, whatever the gate and the breaker remember of earlier refusals.
SetupTokenUnblocks ==
    <>[](store.kind = "setup" /\ ~env) => <>[](answer = "store")

\* "Connecting again overwrites the stored token - that is also how you switch
\* accounts" (docs/USER_MANUAL.md:175).  Refuted: resolveStore writes back
\* the record it loaded before its POST.
ConnectSticks ==
    store.kind \in {"oauth", "setup"} => store.acct = connected

=============================================================================
