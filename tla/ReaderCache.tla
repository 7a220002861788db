---------------------------- MODULE ReaderCache ----------------------------
(***************************************************************************)
(* internal/provider/cache.go: the wrapper WithCache puts round every      *)
(* provider reader.                                                        *)
(*                                                                         *)
(* Several goroutines read through it: the refresh loop, and one for every *)
(* manual or post-sign-in refresh.  Read holds the mutex from its first    *)
(* line to its return, the slow inner Read included, so a caller is        *)
(* "waiting" (for the mutex), "fetching" (inside inner.Read) or "idle".    *)
(*                                                                         *)
(* Times are ages: elapsed is now minus lastFetch, fetchAge is now minus   *)
(* the now the running Read took before it called the source.  Both stop   *)
(* at Horizon, beyond which no comparison of the code can tell them apart. *)
(***************************************************************************)
EXTENDS Integers, Sequences, FiniteSets

CONSTANTS
    Callers,      \* goroutines that read
    Payloads,     \* quota values the source can return
    MinInterval,  \* CachePolicy.MinInterval, in ticks
    Ladder,       \* CachePolicy.BackoffLadder, in ticks; <<>> for none
    SnapshotKey,  \* CachePolicy.SnapshotKey is set
    RunCap,       \* bound: refusals in a row the history counts
    Nobody        \* no payload

ASSUME PolicyAssumption ==
    /\ MinInterval \in Nat
    /\ Ladder \in Seq(Nat)
    /\ SnapshotKey \in BOOLEAN
    /\ RunCap \in Nat
    /\ RunCap > Len(Ladder)
    /\ Nobody \notin Payloads

VARIABLES
    pc,           \* pc[c]: where caller c stands
    forced,       \* forced[c]: its context carries WithForceRefresh
    source,       \* how the provider behind the wrapped reader behaves
    haveResult,
    elapsed,      \* now - lastFetch
    fetchAge,     \* now - the start of the running fetch
    lastModel,    \* lastModel and lastErr together
    lastGood,
    backoffStep,
    \* History, read by the properties only.
    latest,       \* payload of the newest fetch that brought rows
    limitedRun    \* refusals in a row, not capped at the ladder

vars == <<pc, forced, source, haveResult, elapsed, fetchAge, lastModel,
          lastGood, backoffStep, latest, limitedRun>>

-----------------------------------------------------------------------------
(* Data *)

\* What inner.Read meets: quota rows, a model without rows (needs_auth card,
\* provider not configured), an error the policy's IsRateLimited accepts, any
\* other error.  A policy without ladder has no IsRateLimited.
Sources == {"quota", "no rows", "failing"} \cup (IF Ladder = <<>> THEN {} ELSE {"limited"})

\* "quota" and "no rows" are the source's own models, "stale" is staleCopy of
\* lastGood, "error" the synthesized card, "nil" no model but an error.
Model(kind, payload) == [kind |-> kind, payload |-> payload]
Models == [kind : {"quota", "stale"}, payload : Payloads]
     \cup [kind : {"no rows", "error", "nil", "unread"}, payload : {Nobody}]

-----------------------------------------------------------------------------
(* Read *)

\* Faulty variant: the rung below the one the refusals earned.
CurrentIntervalLow ==
    IF backoffStep > 1 THEN Ladder[backoffStep - 1] ELSE MinInterval

CurrentInterval ==
    IF backoffStep > 0 /\ Len(Ladder) > 0
    THEN Ladder[IF backoffStep >= Len(Ladder) THEN Len(Ladder) ELSE backoffStep]
    ELSE MinInterval

MutexFree == \A c \in Callers : pc[c] # "fetching"

\* A goroutine enters Read and queues for the mutex.
Call(c) ==
    /\ pc[c] = "idle"
    /\ pc' = [pc EXCEPT ![c] = "waiting"]
    /\ \E f \in BOOLEAN : forced' = [forced EXCEPT ![c] = f]
    /\ UNCHANGED <<source, haveResult, elapsed, fetchAge, lastModel, lastGood,
                   backoffStep, latest, limitedRun>>

\* Faulty variants: the throttle holds back forced reads too; a replay counts
\* as a fetch.
ThrottledAlways(c) == haveResult /\ elapsed < CurrentInterval
ReplayRestartsWindow(c) ==
    /\ pc[c] = "waiting"
    /\ MutexFree
    /\ haveResult /\ ~forced[c] /\ elapsed < CurrentInterval
    /\ pc' = [pc EXCEPT ![c] = "idle"]
    /\ forced' = [forced EXCEPT ![c] = FALSE]
    /\ elapsed' = 0
    /\ UNCHANGED <<source, haveResult, fetchAge, lastModel, lastGood,
                   backoffStep, latest, limitedRun>>

\* The caller's context does not force, and the window is still open.
Throttled(c) == haveResult /\ ~forced[c] /\ elapsed < CurrentInterval

\* Within the throttle window the last result is replayed.
Replay(c) ==
    /\ pc[c] = "waiting"
    /\ MutexFree
    /\ Throttled(c)
    /\ pc' = [pc EXCEPT ![c] = "idle"]
    /\ forced' = [forced EXCEPT ![c] = FALSE]
    /\ UNCHANGED <<source, haveResult, elapsed, fetchAge, lastModel, lastGood,
                   backoffStep, latest, limitedRun>>

\* Otherwise the source is asked, with the mutex held.
BeginFetch(c) ==
    /\ pc[c] = "waiting"
    /\ MutexFree
    /\ ~Throttled(c)
    /\ pc' = [pc EXCEPT ![c] = "fetching"]
    /\ fetchAge' = 0
    /\ UNCHANGED <<forced, source, haveResult, elapsed, lastModel, lastGood,
                   backoffStep, latest, limitedRun>>

\* The model served after an error.
Degraded ==
    IF lastGood # Nobody THEN Model("stale", lastGood)
    ELSE Model(IF SnapshotKey THEN "error" ELSE "nil", Nobody)

\* Faulty variant: a failure that is not a refusal leaves the backoff where it
\* was.
StepAfterSticky(limited) ==
    IF limited /\ backoffStep < Len(Ladder) THEN backoffStep + 1 ELSE backoffStep

\* backoffStep after an error.
StepAfter(limited) ==
    IF limited
    THEN IF backoffStep < Len(Ladder) THEN backoffStep + 1 ELSE backoffStep
    ELSE 0

\* Faulty variant: a model without rows takes the place of the last good one.
FetchSucceedsAnyGood ==
    \/ /\ source = "quota"
       /\ \E p \in Payloads :
            lastModel' = Model("quota", p) /\ lastGood' = p /\ latest' = p
    \/ /\ source = "no rows"
       /\ lastModel' = Model("no rows", Nobody)
       /\ lastGood' = Nobody
       /\ UNCHANGED latest

\* inner.Read returned a model.
FetchSucceeds ==
    \/ /\ source = "quota"
       /\ \E p \in Payloads :
            /\ lastModel' = Model("quota", p)
            /\ lastGood' = p
            /\ latest' = p
    \/ /\ source = "no rows"
       /\ lastModel' = Model("no rows", Nobody)
       /\ UNCHANGED <<lastGood, latest>>

\* The source answers and Read returns.
EndFetch(c) ==
    /\ pc[c] = "fetching"
    /\ pc' = [pc EXCEPT ![c] = "idle"]
    /\ forced' = [forced EXCEPT ![c] = FALSE]
    /\ haveResult' = TRUE
    /\ elapsed' = fetchAge
    /\ \/ /\ FetchSucceeds
          /\ backoffStep' = 0
          /\ limitedRun' = 0
       \/ /\ source \in {"limited", "failing"}
          /\ backoffStep' = StepAfter(source = "limited")
          /\ limitedRun' = IF source # "limited" THEN 0
                           ELSE IF limitedRun < RunCap THEN limitedRun + 1
                           ELSE RunCap
          /\ lastModel' = Degraded
          /\ UNCHANGED <<lastGood, latest>>
    /\ UNCHANGED <<source, fetchAge>>

-----------------------------------------------------------------------------
(* The environment *)

SourceChanges ==
    /\ \E s \in Sources \ {source} : source' = s
    /\ UNCHANGED <<pc, forced, haveResult, elapsed, fetchAge, lastModel,
                   lastGood, backoffStep, latest, limitedRun>>

Intervals == {MinInterval} \cup {Ladder[i] : i \in 1..Len(Ladder)}
Horizon   == CHOOSE h \in Intervals : \A i \in Intervals : i <= h

Older(age) == IF age < Horizon THEN age + 1 ELSE age

Tick ==
    /\ elapsed < Horizon \/ fetchAge < Horizon
    /\ elapsed' = Older(elapsed)
    /\ fetchAge' = Older(fetchAge)
    /\ UNCHANGED <<pc, forced, source, haveResult, lastModel, lastGood,
                   backoffStep, latest, limitedRun>>

-----------------------------------------------------------------------------

Init ==
    /\ pc = [c \in Callers |-> "idle"]
    /\ forced = [c \in Callers |-> FALSE]
    /\ source \in Sources
    /\ haveResult = FALSE
    /\ elapsed = 0
    /\ fetchAge = 0
    /\ lastModel = Model("unread", Nobody)
    /\ lastGood = Nobody
    /\ backoffStep = 0
    /\ latest = Nobody
    /\ limitedRun = 0

Read(c) == Call(c) \/ Replay(c) \/ BeginFetch(c) \/ EndFetch(c)

Next == (\E c \in Callers : Read(c)) \/ SourceChanges \/ Tick

Spec == Init /\ [][Next]_vars

\* The refresh loop never stops reading.  A fetch ends, because every provider
\* request has a timeout.  A goroutine queued for a sync.Mutex gets it in the
\* end: after a millisecond of waiting Go hands the mutex over in order.
FairSpec ==
    /\ Spec
    /\ WF_vars(Tick)
    /\ WF_vars(\E c \in Callers : Call(c))
    /\ \A c \in Callers :
         /\ WF_vars(EndFetch(c))
         /\ SF_vars(Replay(c) \/ BeginFetch(c))

-----------------------------------------------------------------------------
(* Properties *)

TypeOK ==
    /\ pc \in [Callers -> {"idle", "waiting", "fetching"}]
    /\ forced \in [Callers -> BOOLEAN]
    /\ source \in Sources
    /\ haveResult \in BOOLEAN
    /\ elapsed \in Nat
    /\ fetchAge \in Nat
    /\ lastModel \in Models
    /\ lastGood \in Payloads \cup {Nobody}
    /\ backoffStep \in 0..Len(Ladder)
    /\ latest \in Payloads \cup {Nobody}
    /\ limitedRun \in Nat

\* The time the source was promised after a number of refusals in a row.
PromisedWait(run) ==
    IF run = 0 \/ Ladder = <<>> THEN MinInterval
    ELSE Ladder[IF run < Len(Ladder) THEN run ELSE Len(Ladder)]

\* A read nobody forced asks the source again only when the whole wait earned
\* by its refusals in a row has passed since the last fetch STARTED, whoever
\* made that fetch and whatever was replayed in between.
SourceLeftAlone ==
    [][\A c \in Callers :
         pc[c] = "waiting" /\ pc'[c] = "fetching" /\ ~forced[c] /\ haveResult
           => elapsed >= PromisedWait(limitedRun)]_vars

\* A failed fetch degrades to the newest rows any fetch ever brought; an error
\* card or no card at all is served only if there were none, and a stale card
\* never shows a placeholder.
DegradesToNewest ==
    /\ lastModel.kind = "stale" => lastModel.payload = latest
    /\ lastModel.kind \in {"error", "nil"} => latest = Nobody
    /\ lastModel.kind = "quota" => lastModel.payload = latest

\* A click on the Updated panel is served by a fetch of its own, also when it
\* arrives while another fetch is running or the source is backing off.
ForcedReachesSource ==
    \A c \in Callers : (pc[c] = "waiting" /\ forced[c]) ~> (pc[c] = "fetching")

\* No backoff is for ever: when the source is well again and stays so, its rows
\* are what every read is given, without anybody clicking.
RecoveryShown == <>[](source = "quota") => <>[](lastModel.kind = "quota")

\* How its state reads in the terms of ThrottledSource.
ShownKind == [unread |-> "nothing", quota |-> "live", stale |-> "stale"]
ShownModel ==
    [kind |-> IF lastModel.kind = "no rows" THEN "placeholder"
              ELSE IF lastModel.kind \in DOMAIN ShownKind THEN ShownKind[lastModel.kind]
              ELSE "failed",
     payload |-> lastModel.payload]

Promise == INSTANCE ThrottledSource WITH
    wanted <- \E c \in Callers : pc[c] = "waiting" /\ forced[c],
    asking <- ~MutexFree,
    since  <- IF MutexFree THEN elapsed ELSE fetchAge,
    rung   <- backoffStep,
    newest <- lastGood,
    shown  <- ShownModel

\* The wrapper keeps the promise ThrottledSource states.
KeepsPromise == Promise!Spec
=============================================================================
