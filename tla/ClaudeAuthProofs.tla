-------------------------- MODULE ClaudeAuthProofs --------------------------
(***************************************************************************)
(* Theorems about ClaudeAuth, for all accounts, exchanges, ladders,        *)
(* Retry-After values and strike limits.                                   *)
(***************************************************************************)
EXTENDS ClaudeAuth, TLAPS

Real(record) == record.kind \in {"oauth", "setup"}

\* The gate's bookkeeping covers what the background refresher has met: its
\* refusals are among the strikes, the wait it owes is no longer than the
\* cooldown, and it cannot be past the breaker with MaxRefreshStrikes refusals.
GateInv ==
    /\ refused <= gate.strikes
    /\ refused <= MaxRefreshStrikes
    /\ refresher \in {"unstruck", "posting"} => refused < MaxRefreshStrikes
    /\ owed <= gate.cool
    /\ owed <= LadderWait(gate.strikes)

\* While the refresher is at work it holds a refreshable record, which is the
\* signed-in account's unless a sign-in overtook it or it is old itself.
StoreInv ==
    /\ refresher # "idle" =>
         /\ Real(held)
         /\ held.refresh
         /\ overtaken \/ clobbered \/ held.acct = connected
    /\ ConnectLostOnlyToRefresh
    /\ SetupTokenQuiet

IInv == TypeOK /\ GateInv /\ StoreInv

-----------------------------------------------------------------------------
(* The ladder *)

\* The wait for any number of strikes is a positive rung, and never shrinks.
LEMMA LadderWaitGrows ==
    ASSUME NEW m \in Nat, NEW n \in Nat, m <= n
    PROVE  /\ LadderWait(m) \in Nat \ {0}
           /\ LadderWait(m) <= LadderWait(n)
<1> DEFINE i == Smaller(m + 1, Len(Ladder))
           j == Smaller(n + 1, Len(Ladder))
<1>1. i \in 1..Len(Ladder) /\ j \in 1..Len(Ladder) /\ i <= j
  BY LadderAssumption DEF Smaller
<1>2. Ladder[i] \in Nat \ {0} /\ Ladder[i] <= Ladder[j]
  BY <1>1, LadderAssumption
<1> QED
  BY <1>2 DEF LadderWait

\* What one answer of the endpoint does to the gate and its history.
LEMMA EndpointAnswersGate ==
    ASSUME TypeOK, GateInv,
           NEW status \in Statuses, NEW ra \in RetryAfters, NEW background \in BOOLEAN,
           background => refused < MaxRefreshStrikes,
           EndpointAnswers(status, ra, background)
    PROVE  /\ gate' \in [strikes : Nat, cool : Nat]
           /\ refused' \in Nat /\ owed' \in Nat
           /\ refused' <= gate'.strikes
           /\ refused' <= MaxRefreshStrikes
           /\ ~background => refused' <= refused
           /\ owed' <= gate'.cool
           /\ owed' <= LadderWait(gate'.strikes)
<1> USE ParameterAssumption DEF EndpointAnswers, GateAfter, TypeOK, GateInv
<1>0. gate.strikes \in Nat /\ gate.cool \in Nat /\ ra \in Nat
  OBVIOUS
<1>1. CASE status = "limited"
  <2>1. /\ LadderWait(gate.strikes) \in Nat
        /\ LadderWait(gate.strikes) <= LadderWait(gate.strikes + 1)
    BY <1>0, LadderWaitGrows
  <2>2. gate' = [strikes |-> gate.strikes + 1,
                 cool |-> Larger(LadderWait(gate.strikes), ra)]
    BY <1>1 DEF RecordRateLimit
  <2>3. /\ refused' = IF background THEN refused + 1 ELSE refused
        /\ owed' = IF background THEN LadderWait(gate.strikes) ELSE owed
    BY <1>1
  <2>4. LadderWait(gate.strikes + 1) \in Nat
    BY <1>0, LadderWaitGrows
  <2> HIDE DEF EndpointAnswers, GateAfter
  <2> QED
    BY <1>0, <2>1, <2>2, <2>3, <2>4 DEF Larger
<1>2. CASE status = "unavailable"
  BY <1>2
<1>3. CASE status \notin {"limited", "unavailable"}
  <2>1. LadderWait(0) \in Nat
    BY LadderWaitGrows
  <2> QED
    BY <1>3, <2>1 DEF NoEntry
<1> QED
  BY <1>1, <1>2, <1>3

-----------------------------------------------------------------------------
(* The inductive invariant *)

LEMMA InitInv == Init => IInv
<1> SUFFICES ASSUME Init PROVE IInv
  OBVIOUS
<1> USE DEF Init
<1>1. store \in Record \cup {Missing, Garbled}
  <2>1. ASSUME NEW a \in Accounts PROVE SetupRecord(a) \in Record
    BY DEF Record, SetupRecord
  <2>2. ASSUME NEW a \in Accounts, NEW r \in BOOLEAN, NEW l \in 0..TokenLife
        PROVE  OAuthRecord(a, r, l) \in Record
    BY ParameterAssumption DEF Record, OAuthRecord
  <2> QED
    BY <2>1, <2>2
<1>2. TypeOK
  <2>1. connected \in Accounts \cup {NoAccount}
    BY <1>1 DEF Record, Missing, Garbled
  <2>2. exchange \in [Exchanges -> [pc : {"posting", "saving"}, acct : Accounts]
                                  \cup {IdleExchange}]
    OBVIOUS
  <2>3. gate \in [strikes : Nat, cool : Nat]
    BY DEF NoEntry
  <2>4. /\ env \in BOOLEAN /\ cli \in CLIFiles /\ refresher = "idle" /\ held = Missing
        /\ answer = "none" /\ overtaken = FALSE /\ clobbered = FALSE
        /\ refused = 0 /\ owed = 0
    OBVIOUS
  <2> HIDE DEF Init
  <2> QED
    BY <1>1, <2>1, <2>2, <2>3, <2>4 DEF TypeOK, Answers
<1>3. GateInv
  <2>1. LadderWait(0) \in Nat
    BY LadderWaitGrows
  <2> QED
    BY <2>1, ParameterAssumption DEF GateInv, NoEntry
<1>4. StoreInv
  BY DEF StoreInv, ConnectLostOnlyToRefresh, SetupTokenQuiet
<1> QED
  BY <1>2, <1>3, <1>4 DEF IInv

\* A step that leaves the gate and its history alone and does not move the
\* refresher past the breaker.
LEMMA GateUntouched ==
    ASSUME GateInv, gate' = gate, refused' = refused, owed' = owed,
           refresher' \in {"unstruck", "posting"} => refresher \in {"unstruck", "posting"}
    PROVE  GateInv'
BY DEF GateInv, LadderWait, Smaller

\* A step that leaves the store, its history and the refresher alone.
LEMMA StoreUntouched ==
    ASSUME StoreInv, store' = store, connected' = connected, clobbered' = clobbered,
           \/ refresher' = refresher /\ held' = held /\ overtaken' = overtaken
           \/ refresher # "idle" /\ refresher' # "idle" /\ held' = held
                 /\ overtaken' = overtaken
           \/ refresher' = "idle"
    PROVE  StoreInv'
BY DEF StoreInv, Real, ConnectLostOnlyToRefresh, SetupTokenQuiet

LEMMA ResolveInv == IInv /\ Resolve => IInv'
<1> SUFFICES ASSUME IInv, Resolve PROVE IInv'
  OBVIOUS
<1> USE DEF IInv, Resolve
<1>1. TypeOK'
  <2>1. UNCHANGED <<env, cli, store, gate, exchange, connected, clobbered, refused, owed>>
    OBVIOUS
  <2>2. /\ refresher' \in {"idle", "loaded"}
        /\ answer' \in Answers
        /\ overtaken' \in BOOLEAN
    BY DEF TypeOK, FinishResolve, BridgedByCLI, Answers
  <2>3. held' \in Record \cup {Missing}
    <3>1. store.kind \in {"oauth", "setup"} => store \in Record
      BY DEF TypeOK, Missing, Garbled
    <3> QED
      BY <3>1 DEF FinishResolve
  <2> QED
    BY <2>1, <2>2, <2>3 DEF TypeOK
<1>2. GateInv'
  BY GateUntouched DEF FinishResolve
<1>3. StoreInv'
  <2>1. CASE refresher' = "idle"
    BY <2>1, StoreUntouched
  <2>2. CASE refresher' # "idle"
    BY <2>2 DEF FinishResolve, Refreshable, StoreInv, Real, ConnectLostOnlyToRefresh,
                SetupTokenQuiet
  <2> QED
    BY <2>1, <2>2
<1> QED
  BY <1>1, <1>2, <1>3

LEMMA CheckBreakerInv == IInv /\ CheckBreaker => IInv'
<1> SUFFICES ASSUME IInv, CheckBreaker PROVE IInv'
  OBVIOUS
<1> USE DEF IInv, CheckBreaker
<1>1. TypeOK'
  BY DEF TypeOK, FinishResolve, BridgedByCLI, Answers, Missing
<1>2. GateInv'
  <2>1. CASE gate.strikes >= MaxRefreshStrikes
    BY <2>1, GateUntouched DEF FinishResolve
  <2>2. CASE ~(gate.strikes >= MaxRefreshStrikes)
    BY <2>2, ParameterAssumption DEF GateInv, TypeOK, LadderWait, Smaller
  <2> QED
    BY <2>1, <2>2
<1>3. StoreInv'
  BY StoreUntouched DEF FinishResolve
<1> QED
  BY <1>1, <1>2, <1>3

LEMMA CheckCooldownInv == IInv /\ CheckCooldown => IInv'
<1> SUFFICES ASSUME IInv, CheckCooldown PROVE IInv'
  OBVIOUS
<1> USE DEF IInv, CheckCooldown
<1>1. TypeOK'
  BY DEF TypeOK, FinishResolve, BridgedByCLI, Answers, Missing
<1>2. GateInv'
  BY GateUntouched DEF FinishResolve
<1>3. StoreInv'
  BY StoreUntouched DEF FinishResolve
<1> QED
  BY <1>1, <1>2, <1>3

LEMMA RefreshAnsweredInv == IInv /\ RefreshAnswered => IInv'
<1> SUFFICES ASSUME IInv, RefreshAnswered PROVE IInv'
  OBVIOUS
<1> USE DEF IInv
<1>1. PICK status \in Statuses, ra \in RetryAfters :
        /\ EndpointAnswers(status, ra, TRUE)
        /\ \/ refresher' = "saving" /\ UNCHANGED <<held, answer, overtaken>>
           \/ FinishResolve(BridgedByCLI(
                IF status = "denied" THEN "needs_auth" ELSE "transient"))
  BY DEF RefreshAnswered
<1>2. /\ refresher = "posting"
      /\ UNCHANGED <<env, cli, store, exchange, connected, clobbered>>
  BY DEF RefreshAnswered
<1>3. /\ gate' \in [strikes : Nat, cool : Nat]
      /\ refused' \in Nat /\ owed' \in Nat
      /\ refused' <= gate'.strikes
      /\ refused' <= MaxRefreshStrikes
      /\ owed' <= gate'.cool
      /\ owed' <= LadderWait(gate'.strikes)
  BY <1>1, <1>2, EndpointAnswersGate DEF GateInv
<1>4. TypeOK'
  BY <1>1, <1>2, <1>3 DEF TypeOK, FinishResolve, BridgedByCLI, Answers, Missing
<1>5. GateInv'
  BY <1>1, <1>3 DEF GateInv, FinishResolve, LadderWait, Smaller
<1>6. StoreInv'
  BY <1>1, <1>2, StoreUntouched DEF FinishResolve
<1> QED
  BY <1>4, <1>5, <1>6

LEMMA SaveRefreshedInv == IInv /\ SaveRefreshed => IInv'
<1> SUFFICES ASSUME IInv, SaveRefreshed PROVE IInv'
  OBVIOUS
<1> USE DEF IInv, SaveRefreshed
<1>1. held \in Record
  BY DEF StoreInv, Real, TypeOK, Missing
<1>2. CASE UNCHANGED <<store, clobbered>>
  <2>1. TypeOK'
    BY <1>2 DEF TypeOK, FinishResolve, BridgedByCLI, Answers, Missing
  <2>2. GateInv'
    BY GateUntouched DEF FinishResolve
  <2>3. StoreInv'
    BY <1>2, StoreUntouched DEF FinishResolve
  <2> QED
    BY <2>1, <2>2, <2>3
<1>3. CASE \E life \in 0..TokenLife : store' = [held EXCEPT !.left = life]
  <2>1. store' \in Record /\ store'.acct = held.acct
    BY <1>1, <1>3, ParameterAssumption DEF Record
  <2>2. CASE clobbered' = (clobbered \/ overtaken)
    <3>1. TypeOK'
      BY <2>1, <2>2 DEF TypeOK, FinishResolve, BridgedByCLI, Answers, Missing
    <3>2. GateInv'
      BY GateUntouched DEF FinishResolve
    <3>3. StoreInv'
      BY <2>1, <2>2 DEF FinishResolve, StoreInv, ConnectLostOnlyToRefresh, SetupTokenQuiet
    <3> QED
      BY <3>1, <3>2, <3>3
  <2> QED
    BY <1>2, <2>2
<1> QED
  BY <1>2, <1>3

\* A sign-in that reaches the store, whatever record it brings.
LEMMA SignedInInv ==
    ASSUME IInv, NEW record \in Record, SignedIn(record),
           UNCHANGED <<env, cli, gate, refresher, held, answer, refused, owed>>,
           exchange' \in [Exchanges -> [pc : {"posting", "saving"}, acct : Accounts]
                                     \cup {IdleExchange}]
    PROVE  IInv'
<1> USE DEF IInv, SignedIn
<1>1. TypeOK'
  BY DEF TypeOK, Record
<1>2. GateInv'
  BY GateUntouched
<1>3. StoreInv'
  BY DEF StoreInv, Real, ConnectLostOnlyToRefresh, SetupTokenQuiet
<1> QED
  BY <1>1, <1>2, <1>3

LEMMA SaveSetupTokenInv == IInv /\ SaveSetupToken => IInv'
<1> SUFFICES ASSUME IInv, SaveSetupToken PROVE IInv'
  OBVIOUS
<1>1. PICK a \in Accounts : SignedIn(SetupRecord(a))
  BY DEF SaveSetupToken
<1>2. SetupRecord(a) \in Record
  BY DEF SetupRecord, Record
<1>3. /\ UNCHANGED <<env, cli, gate, refresher, held, answer, refused, owed>>
      /\ exchange' = exchange
  BY DEF SaveSetupToken
<1> QED
  BY <1>1, <1>2, <1>3, SignedInInv DEF IInv, TypeOK

\* A step of the user or of the CLI that touches neither gate nor store.
LEMMA ElsewhereInv ==
    ASSUME IInv, UNCHANGED <<env, store, gate, refresher, held, answer, history>>,
           cli' \in CLIFiles,
           exchange' \in [Exchanges -> [pc : {"posting", "saving"}, acct : Accounts]
                                     \cup {IdleExchange}]
    PROVE  IInv'
<1> USE DEF IInv, history
<1>1. TypeOK'
  BY DEF TypeOK
<1>2. GateInv'
  BY GateUntouched
<1>3. StoreInv'
  BY StoreUntouched
<1> QED
  BY <1>1, <1>2, <1>3

LEMMA SignInInv == ASSUME NEW x \in Exchanges PROVE IInv /\ SignIn(x) => IInv'
<1> SUFFICES ASSUME IInv, SignIn(x) PROVE IInv'
  OBVIOUS
<1> DEFINE Slot == [pc : {"posting", "saving"}, acct : Accounts] \cup {IdleExchange}
<1>1. /\ cli \in CLIFiles
      /\ exchange \in [Exchanges -> Slot]
  BY DEF IInv, TypeOK
<1>2. CASE ConnectClicked(x)
  <2>1. exchange' \in [Exchanges -> Slot]
    BY <1>1, <1>2 DEF ConnectClicked
  <2> QED
    BY <1>1, <1>2, <2>1, ElsewhereInv DEF ConnectClicked
<1>3. CASE ExchangeAnswered(x)
  <2>1. PICK status \in Statuses, ra \in RetryAfters :
          /\ EndpointAnswers(status, ra, FALSE)
          /\ exchange' = [exchange EXCEPT ![x] =
                IF status = "granted" THEN [@ EXCEPT !.pc = "saving"]
                                      ELSE IdleExchange]
    BY <1>3 DEF ExchangeAnswered
  <2>2. exchange' \in [Exchanges -> Slot]
    <3>1. exchange[x].pc = "posting" /\ exchange[x] \in Slot
      BY <1>1, <1>3 DEF ExchangeAnswered
    <3>2. [exchange[x] EXCEPT !.pc = "saving"] \in Slot
      BY <3>1 DEF IdleExchange
    <3> QED
      BY <1>1, <2>1, <3>2
  <2>3. UNCHANGED <<env, cli, store, refresher, held, answer,
                    connected, overtaken, clobbered>>
    BY <1>3 DEF ExchangeAnswered
  <2>4. /\ gate' \in [strikes : Nat, cool : Nat]
        /\ refused' \in Nat /\ owed' \in Nat
        /\ refused' <= gate'.strikes
        /\ refused' <= MaxRefreshStrikes
        /\ refused' <= refused
        /\ owed' <= gate'.cool
        /\ owed' <= LadderWait(gate'.strikes)
    BY <2>1, EndpointAnswersGate DEF IInv
  <2>5. TypeOK'
    BY <2>2, <2>3, <2>4 DEF IInv, TypeOK
  <2>6. GateInv'
    BY <2>3, <2>4, ParameterAssumption DEF IInv, TypeOK, GateInv, LadderWait, Smaller
  <2>7. StoreInv'
    BY <2>3, StoreUntouched DEF IInv
  <2> QED
    BY <2>5, <2>6, <2>7 DEF IInv
<1>4. CASE SaveExchanged(x)
  <2>1. exchange' \in [Exchanges -> Slot] /\ exchange[x].acct \in Accounts
    BY <1>1, <1>4 DEF SaveExchanged, IdleExchange
  <2>2. UNCHANGED <<env, cli, gate, refresher, held, answer, refused, owed>>
    BY <1>4 DEF SaveExchanged
  <2>3. CASE UNCHANGED <<store, connected, overtaken, clobbered>>
    BY <1>1, <2>1, <2>2, <2>3, ElsewhereInv DEF history
  <2>4. ASSUME NEW refresh \in BOOLEAN, NEW life \in 0..TokenLife,
               SignedIn(OAuthRecord(exchange[x].acct, refresh, life))
        PROVE  IInv'
    <3>1. OAuthRecord(exchange[x].acct, refresh, life) \in Record
      BY <2>1, ParameterAssumption DEF OAuthRecord, Record
    <3> QED
      BY <2>1, <2>2, <2>4, <3>1, SignedInInv
  <2> QED
    BY <1>4, <2>3, <2>4 DEF SaveExchanged
<1> QED
  BY <1>2, <1>3, <1>4 DEF SignIn

LEMMA CLIChangesInv == IInv /\ CLIChanges => IInv'
<1> SUFFICES ASSUME IInv, CLIChanges PROVE IInv'
  OBVIOUS
<1> QED
  BY ElsewhereInv DEF CLIChanges, IInv, TypeOK

LEMMA TickInv == IInv /\ Tick => IInv'
<1> SUFFICES ASSUME IInv, Tick PROVE IInv'
  OBVIOUS
<1> USE DEF IInv
<1>1. ASSUME NEW n \in Nat PROVE CountDown(n) \in Nat /\ CountDown(n) <= n
  BY DEF CountDown
<1>2. /\ gate \in [strikes : Nat, cool : Nat]
      /\ gate' = [gate EXCEPT !.cool = CountDown(@)]
      /\ store' = [store EXCEPT !.left = CountDown(@)]
      /\ owed \in Nat
      /\ owed' = CountDown(owed)
      /\ UNCHANGED <<env, cli, refresher, held, answer, exchange,
                     connected, overtaken, clobbered, refused>>
  BY DEF Tick, TypeOK
<1>3. /\ gate' \in [strikes : Nat, cool : Nat]
      /\ gate'.strikes = gate.strikes
      /\ gate'.cool = CountDown(gate.cool)
  BY <1>1, <1>2
<1>4. /\ store' \in Record \cup {Missing, Garbled}
      /\ store'.kind = store.kind /\ store'.acct = store.acct
      /\ store'.refresh = store.refresh
  <2>1. CASE store \in Record
    <3>1. CountDown(store.left) \in Nat \cup {Never}
      BY <2>1 DEF Record, Never, CountDown
    <3> QED
      BY <1>2, <2>1, <3>1 DEF Record
  <2>2. CASE store \in {Missing, Garbled}
    <3>1. store.left = 0
      BY <2>2 DEF Missing, Garbled
    <3>2. CountDown(store.left) = store.left
      BY <3>1 DEF CountDown
    <3>3. store' = store
      BY <1>2, <2>2, <3>2 DEF Missing, Garbled
    <3> QED
      BY <2>2, <3>3
  <2> QED
    BY <2>1, <2>2 DEF TypeOK
<1>5. TypeOK'
  BY <1>1, <1>2, <1>3, <1>4 DEF TypeOK
<1>6. GateInv'
  <2>1. owed' <= gate'.cool
    BY <1>2, <1>3 DEF GateInv, CountDown
  <2>2. owed' <= LadderWait(gate'.strikes)
    <3>1. LadderWait(gate.strikes) \in Nat
      BY <1>2, LadderWaitGrows
    <3> QED
      BY <1>1, <1>2, <1>3, <3>1 DEF GateInv
  <2> QED
    BY <1>2, <1>3, <2>1, <2>2 DEF GateInv
<1>7. StoreInv'
  BY <1>2, <1>4 DEF StoreInv, Real, ConnectLostOnlyToRefresh, SetupTokenQuiet
<1> QED
  BY <1>5, <1>6, <1>7

LEMMA StutterInv == IInv /\ UNCHANGED vars => IInv'
<1> SUFFICES ASSUME IInv, UNCHANGED vars PROVE IInv'
  OBVIOUS
<1> QED
  BY ElsewhereInv DEF vars, code, history, IInv, TypeOK

LEMMA NextInv == IInv /\ [Next]_vars => IInv'
BY ResolveInv, CheckBreakerInv, CheckCooldownInv, RefreshAnsweredInv, SaveRefreshedInv,
   SaveSetupTokenInv, SignInInv, CLIChangesInv, TickInv, StutterInv
   DEF Next, Background

LEMMA Invariance == Spec => []IInv
BY InitInv, NextInv, PTL DEF Spec

-----------------------------------------------------------------------------
(* Theorems *)

\* Every variable of the token store, the gate and the sign-ins keeps its type.
THEOREM TypeCorrect == Spec => []TypeOK
<1>1. IInv => TypeOK
  BY DEF IInv
<1> QED
  BY <1>1, Invariance, PTL

\* The circuit breaker of refresh(): whatever the interleaving with sign-ins,
\* background refreshes collect at most MaxRefreshStrikes answers 429 between
\* two answers that clear the gate.
THEOREM BreakerBoundsRefusals == Spec => []LockoutBound
<1>1. IInv => LockoutBound
  BY DEF IInv, GateInv, LockoutBound
<1> QED
  BY <1>1, Invariance, PTL

\* The cooldown of refresh(): after its own POST was refused, the background
\* refresher waits out the ladder's rung before the next one.
THEOREM CooldownHolds == Spec => RefreshStandsDown
<1>1. IInv /\ [Next]_vars => [refresher # "posting" /\ refresher' = "posting" => owed = 0]_vars
  <2> SUFFICES ASSUME IInv, Next, refresher # "posting", refresher' = "posting"
               PROVE  owed = 0
    BY DEF vars
  <2>1. CheckCooldown
    BY DEF Next, Background, Resolve, CheckBreaker, RefreshAnswered, SaveRefreshed, SignIn,
           ConnectClicked, ExchangeAnswered, SaveExchanged, SaveSetupToken, CLIChanges, Tick,
           FinishResolve
  <2>2. ~(gate.cool > 0)
    BY <2>1 DEF CheckCooldown, FinishResolve
  <2> QED
    BY <2>2 DEF IInv, TypeOK, GateInv
<1> QED
  BY <1>1, Invariance, PTL DEF Spec, RefreshStandsDown

\* resolveStore, SaveSetupToken and ExchangeCode on one store file: a reported
\* sign-in is undone by a refresh that held the older record, and by nothing else.
THEOREM OnlyRefreshUndoesConnect == Spec => []ConnectLostOnlyToRefresh
<1>1. IInv => ConnectLostOnlyToRefresh
  BY DEF IInv, StoreInv
<1> QED
  BY <1>1, Invariance, PTL

\* resolveStore beside a record without refresh token: the reader is at work on
\* the token endpoint only on behalf of the record that sign-in replaced.
THEOREM SetupTokenLeavesEndpointAlone == Spec => []SetupTokenQuiet
<1>1. IInv => SetupTokenQuiet
  BY DEF IInv, StoreInv
<1> QED
  BY <1>1, Invariance, PTL
=============================================================================
