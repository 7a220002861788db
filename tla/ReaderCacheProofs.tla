-------------------------- MODULE ReaderCacheProofs --------------------------
(***************************************************************************)
(* Theorems about ReaderCache, for all callers, payloads, intervals and    *)
(* ladders, and that it implements ThrottledSource; then that ClaudeReader, *)
(* the wrapper with the Claude reader inside, implements ReaderCache, and  *)
(* that its usage API gets the pauses it asks for.                         *)
(***************************************************************************)
EXTENDS ClaudeReader, TLAPS

\* The mutex: at most one caller is inside inner.Read.
OneFetch == \A c, d \in Callers : pc[c] = "fetching" /\ pc[d] = "fetching" => c = d

\* backoffStep is the number of refusals in a row, as far as the ladder goes.
StepInv ==
    backoffStep = IF limitedRun < Len(Ladder) THEN limitedRun ELSE Len(Ladder)

\* What is remembered is what was last brought, and something is shown exactly
\* when a fetch has ended.
ShownInv ==
    /\ lastGood = latest
    /\ ~haveResult => lastModel = Model("unread", Nobody)
    /\ DegradesToNewest

IInv == TypeOK /\ OneFetch /\ StepInv /\ ShownInv

-----------------------------------------------------------------------------
(* The ladder *)

\* The interval Read computes is the wait promised for the refusals so far.
LEMMA IntervalIsPromised ==
    ASSUME TypeOK, StepInv
    PROVE  /\ CurrentInterval \in Nat
           /\ CurrentInterval = PromisedWait(limitedRun)
           /\ CurrentInterval = IF backoffStep = 0 THEN MinInterval ELSE Ladder[backoffStep]
<1>1. /\ limitedRun \in Nat /\ backoffStep \in 0..Len(Ladder)
      /\ MinInterval \in Nat /\ Ladder \in Seq(Nat) /\ Len(Ladder) \in Nat
  BY PolicyAssumption DEF TypeOK
<1>2. CASE backoffStep = 0
  <2>1. limitedRun = 0 \/ Ladder = <<>>
    BY <1>1, <1>2 DEF StepInv
  <2> QED
    BY <1>1, <1>2, <2>1 DEF CurrentInterval, PromisedWait
<1>3. CASE backoffStep # 0
  <2>1. /\ backoffStep \in 1..Len(Ladder) /\ Len(Ladder) > 0 /\ limitedRun # 0
        /\ Ladder # <<>>
        /\ Ladder[backoffStep] \in Nat
    BY <1>1, <1>3 DEF StepInv
  <2>2. CurrentInterval = Ladder[backoffStep]
    BY <1>1, <2>1 DEF CurrentInterval
  <2>3. PromisedWait(limitedRun) = Ladder[backoffStep]
    BY <1>1, <2>1 DEF PromisedWait, StepInv
  <2> QED
    BY <1>3, <2>1, <2>2, <2>3
<1> QED
  BY <1>2, <1>3

\* A read that may not be served by a replay was forced, is the first one, or
\* has waited for the whole interval.
LEMMA UnthrottledWaited ==
    ASSUME TypeOK, StepInv, NEW c \in Callers, ~Throttled(c)
    PROVE  ~haveResult \/ forced[c] \/ elapsed >= CurrentInterval
BY IntervalIsPromised DEF Throttled, TypeOK

-----------------------------------------------------------------------------
(* The inductive invariant *)

LEMMA InitInv == Init => IInv
<1> SUFFICES ASSUME Init PROVE IInv
  OBVIOUS
<1> USE PolicyAssumption DEF Init
<1>1. TypeOK
  <2>1. Model("unread", Nobody) \in Models
    BY DEF Model, Models
  <2>2. pc \in [Callers -> {"idle", "waiting", "fetching"}] /\ forced \in [Callers -> BOOLEAN]
    OBVIOUS
  <2>3. 0 \in 0..Len(Ladder)
    OBVIOUS
  <2> QED
    BY <2>1, <2>2, <2>3 DEF TypeOK
<1>2. OneFetch
  BY DEF OneFetch
<1>3. StepInv
  BY DEF StepInv
<1>4. ShownInv
  BY DEF ShownInv, DegradesToNewest, Model
<1> QED
  BY <1>1, <1>2, <1>3, <1>4 DEF IInv

\* Steps that leave the stored results alone.
LEMMA ResultsUntouched ==
    ASSUME ShownInv, StepInv,
           UNCHANGED <<haveResult, lastModel, lastGood, backoffStep, latest, limitedRun>>
    PROVE  ShownInv' /\ StepInv'
BY DEF ShownInv, StepInv, DegradesToNewest

LEMMA CallInv == ASSUME NEW c \in Callers PROVE IInv /\ Call(c) => IInv'
<1> SUFFICES ASSUME IInv, Call(c) PROVE IInv'
  OBVIOUS
<1> USE DEF IInv
<1>1. TypeOK'
  BY DEF Call, TypeOK
<1>2. OneFetch'
  BY DEF Call, TypeOK, OneFetch
<1> QED
  BY <1>1, <1>2, ResultsUntouched DEF Call

LEMMA ReplayInv == ASSUME NEW c \in Callers PROVE IInv /\ Replay(c) => IInv'
<1> SUFFICES ASSUME IInv, Replay(c) PROVE IInv'
  OBVIOUS
<1> USE DEF IInv
<1>1. TypeOK'
  BY DEF Replay, TypeOK
<1>2. OneFetch'
  BY DEF Replay, TypeOK, OneFetch
<1> QED
  BY <1>1, <1>2, ResultsUntouched DEF Replay

LEMMA BeginFetchInv == ASSUME NEW c \in Callers PROVE IInv /\ BeginFetch(c) => IInv'
<1> SUFFICES ASSUME IInv, BeginFetch(c) PROVE IInv'
  OBVIOUS
<1> USE DEF IInv
<1>1. TypeOK'
  BY DEF BeginFetch, TypeOK
<1>2. OneFetch'
  BY DEF BeginFetch, TypeOK, OneFetch, MutexFree
<1> QED
  BY <1>1, <1>2, ResultsUntouched DEF BeginFetch

LEMMA EndFetchInv == ASSUME NEW c \in Callers PROVE IInv /\ EndFetch(c) => IInv'
<1> SUFFICES ASSUME IInv, EndFetch(c) PROVE IInv'
  OBVIOUS
<1> USE DEF IInv
<1>1. /\ pc' = [pc EXCEPT ![c] = "idle"]
      /\ forced' = [forced EXCEPT ![c] = FALSE]
      /\ haveResult' = TRUE
      /\ elapsed' = fetchAge
      /\ UNCHANGED <<source, fetchAge>>
  BY DEF EndFetch
<1>2. Len(Ladder) \in Nat /\ Nobody \notin Payloads /\ RunCap \in Nat /\ RunCap > Len(Ladder)
  BY PolicyAssumption
<1>3. OneFetch'
  BY <1>1 DEF TypeOK, OneFetch
<1>4. CASE FetchSucceeds /\ backoffStep' = 0 /\ limitedRun' = 0
  <2>1. /\ lastModel' \in Models
        /\ lastGood' \in Payloads \cup {Nobody}
        /\ latest' \in Payloads \cup {Nobody}
    <3>1. \A p \in Payloads : Model("quota", p) \in Models
      BY DEF Model, Models
    <3>2. Model("no rows", Nobody) \in Models
      BY DEF Model, Models
    <3> QED
      BY <1>4, <3>1, <3>2 DEF FetchSucceeds, TypeOK
  <2>2. TypeOK'
    BY <1>1, <1>2, <1>4, <2>1 DEF TypeOK
  <2>3. StepInv'
    BY <1>2, <1>4 DEF StepInv
  <2>4. ShownInv'
    <3>1. CASE source = "quota"
      <4>1. PICK p \in Payloads :
              lastModel' = Model("quota", p) /\ lastGood' = p /\ latest' = p
        BY <1>4, <3>1 DEF FetchSucceeds
      <4> QED
        BY <1>1, <4>1 DEF ShownInv, DegradesToNewest, Model
    <3>2. CASE source = "no rows"
      <4>1. lastModel' = Model("no rows", Nobody) /\ UNCHANGED <<lastGood, latest>>
        BY <1>4, <3>2 DEF FetchSucceeds
      <4> QED
        BY <1>1, <4>1 DEF ShownInv, DegradesToNewest, Model
    <3> QED
      BY <1>4, <3>1, <3>2 DEF FetchSucceeds
  <2> QED
    BY <1>3, <2>2, <2>3, <2>4
<1>5. CASE /\ backoffStep' = StepAfter(source = "limited")
           /\ limitedRun' = IF source # "limited" THEN 0
                            ELSE IF limitedRun < RunCap THEN limitedRun + 1
                            ELSE RunCap
           /\ lastModel' = Degraded
           /\ UNCHANGED <<lastGood, latest>>
  <2>1. lastModel' \in Models
    <3>1. lastGood # Nobody => Model("stale", lastGood) \in Models
      BY DEF TypeOK, Model, Models
    <3>2. Model("error", Nobody) \in Models /\ Model("nil", Nobody) \in Models
      BY DEF Model, Models
    <3> QED
      BY <1>5, <3>1, <3>2 DEF Degraded
  <2>2. limitedRun' \in Nat /\ backoffStep' \in 0..Len(Ladder)
    BY <1>2, <1>5 DEF TypeOK, StepAfter
  <2>3. TypeOK'
    BY <1>1, <1>5, <2>1, <2>2 DEF TypeOK
  <2>4. StepInv'
    BY <1>2, <1>5 DEF StepInv, StepAfter, TypeOK
  <2>5. ShownInv'
    BY <1>1, <1>5 DEF Degraded, ShownInv, DegradesToNewest, Model
  <2> QED
    BY <1>3, <2>3, <2>4, <2>5
<1> QED
  BY <1>4, <1>5 DEF EndFetch

LEMMA SourceChangesInv == IInv /\ SourceChanges => IInv'
<1> SUFFICES ASSUME IInv, SourceChanges PROVE IInv'
  OBVIOUS
<1> USE DEF IInv
<1>1. TypeOK'
  BY DEF SourceChanges, TypeOK
<1>2. OneFetch'
  BY DEF SourceChanges, OneFetch
<1> QED
  BY <1>1, <1>2, ResultsUntouched DEF SourceChanges

LEMMA TickInv == IInv /\ Tick => IInv'
<1> SUFFICES ASSUME IInv, Tick PROVE IInv'
  OBVIOUS
<1> USE DEF IInv
<1>1. ASSUME NEW age \in Nat PROVE Older(age) \in Nat
  BY DEF Older
<1>2. TypeOK'
  BY <1>1 DEF Tick, TypeOK
<1>3. OneFetch'
  BY DEF Tick, OneFetch
<1> QED
  BY <1>2, <1>3, ResultsUntouched DEF Tick

LEMMA NextInv == IInv /\ [Next]_vars => IInv'
<1> SUFFICES ASSUME IInv, [Next]_vars PROVE IInv'
  OBVIOUS
<1>1. ASSUME NEW c \in Callers, Read(c) PROVE IInv'
  BY <1>1, CallInv, ReplayInv, BeginFetchInv, EndFetchInv DEF Read
<1>2. CASE SourceChanges
  BY <1>2, SourceChangesInv
<1>3. CASE Tick
  BY <1>3, TickInv
<1>4. CASE UNCHANGED vars
  BY <1>4, ResultsUntouched DEF vars, IInv, TypeOK, OneFetch
<1> QED
  BY <1>1, <1>2, <1>3, <1>4 DEF Next

LEMMA Invariance == Spec => []IInv
<1> QED
  BY InitInv, NextInv, PTL DEF Spec

-----------------------------------------------------------------------------
(* Theorems *)

\* The variables of the wrapper keep their types; in particular backoffStep
\* stays an index into the ladder or zero.
THEOREM TypeCorrect == Spec => []TypeOK
<1>1. IInv => TypeOK
  BY DEF IInv
<1> QED
  BY <1>1, Invariance, PTL

\* After a failure Read serves the newest rows any fetch brought.
THEOREM NewestRowsSurvive == Spec => []DegradesToNewest
<1>1. IInv => DegradesToNewest
  BY DEF IInv, ShownInv
<1> QED
  BY <1>1, Invariance, PTL

\* No read that was not forced asks the source before the wait its refusals in
\* a row have earned is over.
THEOREM WaitKept == Spec => SourceLeftAlone
<1> DEFINE Waited == \A c \in Callers :
             pc[c] = "waiting" /\ pc'[c] = "fetching" /\ ~forced[c] /\ haveResult
               => elapsed >= PromisedWait(limitedRun)
<1>1. ASSUME IInv, [Next]_vars PROVE Waited
  <2> SUFFICES ASSUME NEW c \in Callers,
                      pc[c] = "waiting", pc'[c] = "fetching", ~forced[c], haveResult
               PROVE  elapsed >= PromisedWait(limitedRun)
    OBVIOUS
  <2>1. TypeOK /\ StepInv
    BY <1>1 DEF IInv
  <2>2. BeginFetch(c)
    BY <1>1, <2>1 DEF Next, Read, Call, Replay, BeginFetch, EndFetch, SourceChanges, Tick,
                      vars, TypeOK
  <2> QED
    BY <2>1, <2>2, UnthrottledWaited, IntervalIsPromised DEF BeginFetch
<1>2. IInv /\ [Next]_vars => [Waited]_vars
  BY <1>1
<1> QED
  BY <1>2, Invariance, PTL DEF Spec, SourceLeftAlone

-----------------------------------------------------------------------------
(* The refinement: each step of Read is a step of ThrottledSource or none. *)

\* Somebody who forces is in the queue.
Wanted == \E c \in Callers : pc[c] = "waiting" /\ forced[c]
Since  == IF MutexFree THEN elapsed ELSE fetchAge

LEMMA InitRefines == Init => Promise!Init
BY DEF Init, Promise!Init, Promise!Nothing, MutexFree, ShownModel, ShownKind, Model

\* A new caller is a demand if it forces, and nothing otherwise.
LEMMA CallRefines ==
    ASSUME NEW c \in Callers, IInv, Call(c)
    PROVE  [Promise!Next]_(Promise!vars)
<1>1. /\ (Wanted' = Wanted) \/ Wanted'
      /\ MutexFree' = MutexFree
      /\ UNCHANGED <<elapsed, fetchAge, backoffStep, lastGood, lastModel>>
  BY DEF Call, MutexFree, Wanted, IInv, TypeOK
<1>2. Since' = Since /\ ShownModel' = ShownModel
  BY <1>1 DEF Since, ShownModel
<1> QED
  BY <1>1, <1>2 DEF Promise!Next, Promise!Want, Promise!vars, Wanted, Since

LEMMA ReplayRefines ==
    ASSUME NEW c \in Callers, IInv, Replay(c)
    PROVE  UNCHANGED Promise!vars
<1>1. /\ Wanted' = Wanted
      /\ MutexFree' = MutexFree
      /\ UNCHANGED <<elapsed, fetchAge, backoffStep, lastGood, lastModel>>
  BY DEF Replay, Throttled, MutexFree, Wanted, IInv, TypeOK
<1>2. Since' = Since /\ ShownModel' = ShownModel
  BY <1>1 DEF Since, ShownModel
<1> QED
  BY <1>1, <1>2 DEF Promise!vars, Wanted, Since

LEMMA BeginFetchRefines ==
    ASSUME NEW c \in Callers, IInv, BeginFetch(c)
    PROVE  Promise!Ask
<1>1. /\ MutexFree /\ ~MutexFree'
      /\ Wanted' => Wanted
      /\ fetchAge' = 0
      /\ UNCHANGED <<backoffStep, lastGood, lastModel>>
  BY DEF BeginFetch, MutexFree, Wanted, IInv, TypeOK
<1>2. Since = elapsed /\ Since' = 0 /\ ShownModel' = ShownModel
  BY <1>1 DEF Since, ShownModel
<1>3. Wanted \/ ShownModel = Promise!Nothing \/ Promise!Due
  <2>1. ~haveResult \/ forced[c] \/ elapsed >= CurrentInterval
    BY UnthrottledWaited DEF IInv, BeginFetch
  <2>2. CASE ~haveResult
    <3>1. lastModel = [kind |-> "unread", payload |-> Nobody]
      BY <2>2 DEF IInv, ShownInv, Model
    <3>2. "unread" \in DOMAIN ShownKind /\ ShownKind["unread"] = "nothing"
      BY DEF ShownKind
    <3>3. ShownModel = Promise!Nothing
      BY <3>1, <3>2 DEF ShownModel, Promise!Nothing
    <3> QED
      BY <3>3
  <2>3. CASE forced[c]
    BY <2>3 DEF BeginFetch, Wanted
  <2>4. CASE elapsed >= CurrentInterval
    BY <1>1, <1>2, <2>4, IntervalIsPromised DEF IInv, Promise!Due, Since
  <2> QED
    BY <2>1, <2>2, <2>3, <2>4
<1> QED
  BY <1>1, <1>2, <1>3 DEF Promise!Ask, Wanted, Since

LEMMA EndFetchRefines ==
    ASSUME NEW c \in Callers, IInv, EndFetch(c)
    PROVE  Promise!Answered \/ Promise!Refused
<1>1. /\ ~MutexFree /\ MutexFree'
      /\ Wanted' = Wanted
      /\ elapsed' = fetchAge
  BY DEF EndFetch, MutexFree, Wanted, IInv, TypeOK, OneFetch
<1>2. Since' = Since
  BY <1>1 DEF Since
<1>3. CASE FetchSucceeds /\ backoffStep' = 0
  <2>1. CASE \E p \in Payloads : lastModel' = Model("quota", p) /\ lastGood' = p
    <3>1. \E p \in Payloads : lastGood' = p /\ ShownModel' = Promise!Live(p)
      BY <2>1 DEF ShownModel, ShownKind, Model, Promise!Live
    <3> QED
      BY <1>1, <1>2, <1>3, <3>1 DEF Promise!Answered, Wanted, Since
  <2>2. CASE lastModel' = Model("no rows", Nobody) /\ lastGood' = lastGood
    <3>1. ShownModel' = Promise!Placeholder
      BY <2>2 DEF ShownModel, ShownKind, Model, Promise!Placeholder
    <3> QED
      BY <1>1, <1>2, <1>3, <2>2, <3>1 DEF Promise!Answered, Wanted, Since
  <2> QED
    BY <1>3, <2>1, <2>2 DEF FetchSucceeds
<1>4. CASE /\ backoffStep' = StepAfter(source = "limited")
           /\ lastModel' = Degraded
           /\ lastGood' = lastGood
  <2>1. ShownModel' = IF lastGood = Nobody THEN Promise!Failed ELSE Promise!Stale(lastGood)
    BY <1>4 DEF Degraded, ShownModel, ShownKind, Model, Promise!Failed, Promise!Stale
  <2>2. \/ backoffStep' = 0
        \/ backoffStep < Len(Ladder) /\ backoffStep' = backoffStep + 1
        \/ backoffStep = Len(Ladder) /\ backoffStep' = backoffStep
    BY <1>4, PolicyAssumption DEF StepAfter, IInv, TypeOK
  <2> QED
    BY <1>1, <1>2, <1>4, <2>1, <2>2 DEF Promise!Refused, Wanted, Since
<1> QED
  BY <1>3, <1>4 DEF EndFetch

LEMMA TickRefines ==
    ASSUME IInv, Tick
    PROVE  [Promise!Elapse]_(Promise!vars)
<1>1. /\ MutexFree' = MutexFree /\ Wanted' = Wanted /\ ShownModel' = ShownModel
      /\ UNCHANGED <<backoffStep, lastGood>>
  BY DEF Tick, MutexFree, Wanted, ShownModel
<1>2. Since' = Since \/ Since' > Since
  <2>1. ASSUME NEW age \in Nat PROVE Older(age) = age \/ Older(age) > age
    BY DEF Older
  <2> QED
    BY <1>1, <2>1 DEF Tick, Since, IInv, TypeOK
<1> QED
  BY <1>1, <1>2 DEF Promise!Elapse, Promise!vars, Wanted, Since

LEMMA NextRefines ==
    ASSUME IInv, [Next]_vars
    PROVE  [Promise!Next]_(Promise!vars)
<1>1. ASSUME NEW c \in Callers, Read(c) PROVE [Promise!Next]_(Promise!vars)
  BY <1>1, CallRefines, ReplayRefines, BeginFetchRefines, EndFetchRefines
  DEF Read, Promise!Next
<1>2. CASE Tick
  BY <1>2, TickRefines DEF Promise!Next
<1>3. CASE SourceChanges \/ UNCHANGED vars
  <2>1. /\ MutexFree' = MutexFree /\ Wanted' = Wanted /\ ShownModel' = ShownModel
        /\ UNCHANGED <<elapsed, fetchAge, backoffStep, lastGood>>
    BY <1>3 DEF SourceChanges, vars, MutexFree, Wanted, ShownModel
  <2>2. Since' = Since
    BY <2>1 DEF Since
  <2> QED
    BY <2>1, <2>2 DEF Promise!vars, Wanted, Since
<1> QED
  BY <1>1, <1>2, <1>3 DEF Next

\* Whatever the callers, the payloads and the ladder, the wrapper with its
\* mutex keeps the promise ThrottledSource states.
THEOREM WrapperKeepsPromise == Spec => KeepsPromise
<1>1. IInv /\ [Next]_vars => [Promise!Next]_(Promise!vars)
  BY NextRefines
<1> QED
  BY <1>1, InitRefines, Invariance, PTL DEF Spec, KeepsPromise, Promise!Spec

-----------------------------------------------------------------------------
(* ClaudeReader: the wrapper's steps *)

\* Below the cache a fetch only settles how the source will have behaved, and
\* every other step is one of the wrapper's or none.
LEMMA ReaderStepIsCacheStep ==
    ASSUME IInv, [ReaderNext]_allVars
    PROVE  [Next]_vars
<1>1. ASSUME CacheIdle, source' \in Sources PROVE [Next]_vars
  <2>1. CASE source' = source
    BY <1>1, <2>1 DEF CacheIdle, vars
  <2>2. CASE source' # source
    BY <1>1, <2>2 DEF CacheIdle, Next, SourceChanges
  <2> QED
    BY <2>1, <2>2
<1>2. {"quota", "no rows", "limited", "failing"} \subseteq Sources /\ source \in Sources
  BY PauseAssumption DEF Sources, IInv, TypeOK
<1>3. ASSUME NEW c \in Callers, Ask(c) \/ Serve(c) \/ Enter(c) \/ Return(c) PROVE [Next]_vars
  BY <1>3 DEF Ask, Serve, Enter, Return, Next, Read
<1>4. CASE Resolve
  BY <1>1, <1>2, <1>4 DEF Resolve, Returns
<1>5. CASE UsageAnswers
  BY <1>1, <1>2, <1>5 DEF UsageAnswers, Returns
<1>6. CASE ProbeAnswers
  BY <1>1, <1>2, <1>6 DEF ProbeAnswers, Returns
<1>7. CASE SignIn \/ ProviderChanges
  BY <1>1, <1>2, <1>7 DEF SignIn, ProviderChanges
<1>8. CASE TimePasses
  BY <1>8 DEF TimePasses, Next
<1>9. CASE UNCHANGED allVars
  BY <1>9 DEF allVars
<1> QED
  BY <1>3, <1>4, <1>5, <1>6, <1>7, <1>8, <1>9 DEF ReaderNext, Fetching

\* The wrapper with the Claude reader inside behaves as ReaderCache allows.
THEOREM ReaderImplementsCache == ReaderSpec => Spec
<1>1. ReaderInit => Init
  BY DEF ReaderInit
<1>2. IInv /\ [ReaderNext]_allVars => [Next]_vars
  BY ReaderStepIsCacheStep
<1>3. IInv /\ [ReaderNext]_allVars => IInv'
  BY <1>2, NextInv
<1>4. Init => IInv
  BY InitInv
<1> QED
  BY <1>1, <1>2, <1>3, <1>4, PTL DEF ReaderSpec, Spec

LEMMA ReaderInvariance == ReaderSpec => []IInv
BY ReaderImplementsCache, Invariance, PTL

\* So the card of the composed reader degrades to the newest rows, the source
\* is left alone for the wait its refusals earned, and the promise of
\* ThrottledSource is kept, whatever token, answers and pauses the reads below
\* the cache meet.
THEOREM ReaderKeepsPromise ==
    ReaderSpec => []DegradesToNewest /\ SourceLeftAlone /\ KeepsPromise
BY ReaderImplementsCache, NewestRowsSurvive, WaitKept, WrapperKeepsPromise, PTL

-----------------------------------------------------------------------------
(* ClaudeReader: the pause *)

ReadTypes ==
    /\ at \in Steps \cup {"resting"}
    /\ token \in Payloads \cup {Nobody}
    /\ err \in {"none", "limited", "forbidden"}
    /\ reason \in {"none", "empty", "needs_auth"}
    /\ prompt \in BOOLEAN
    /\ cooldown \in Nat
    /\ account \in Payloads
    /\ provider \in Providers
    /\ owed \in Nat

\* The cooldown covers every wait the API has named, and nobody asks it while
\* the cooldown runs.
PauseInv ==
    /\ owed <= cooldown
    /\ at = "asking" => cooldown = 0

PInv == ReadTypes /\ PauseInv

LEMMA PauseInit == ReaderInit => PInv
<1> SUFFICES ASSUME ReaderInit PROVE PInv
  OBVIOUS
<1>1. prompt \in BOOLEAN
  BY Zenon DEF ReaderInit
<1>2. ReadTypes
  BY <1>1 DEF ReaderInit, ReadTypes
<1>3. PauseInv
  <2>1. owed = 0 /\ cooldown = 0 /\ at = "resting"
    BY DEF ReaderInit
  <2> QED
    BY <2>1 DEF PauseInv
<1> QED
  BY <1>2, <1>3 DEF PInv

LEMMA PauseStep ==
    ASSUME PInv, [ReaderNext]_allVars
    PROVE  PInv'
<1> USE DEF PInv
<1>1. ASSUME NEW c \in Callers, Ask(c) \/ Serve(c) PROVE PInv'
  BY <1>1 DEF Ask, Serve, CacheOnly, readerVars, reading, outside, ReadTypes, PauseInv
<1>2. ASSUME NEW c \in Callers, Enter(c) PROVE PInv'
  BY <1>2 DEF Enter, outside, ReadTypes, PauseInv, Steps
<1>3. CASE Resolve
  <2>1. ReadTypes'
    BY <1>3 DEF Resolve, Returns, outside, ReadTypes, Steps
  <2>2. PauseInv'
    <3>1. UNCHANGED <<cooldown, owed>> /\ (at' = "asking" => ~Cooling)
      BY <1>3 DEF Resolve, Returns
    <3> QED
      BY <3>1 DEF Cooling, ReadTypes, PauseInv
  <2> QED
    BY <2>1, <2>2
<1>4. CASE UsageAnswers
  <2>0. at = "asking" /\ UNCHANGED <<token, prompt, account, provider>>
    BY <1>4 DEF UsageAnswers, outside
  <2>1. CASE /\ UNCHANGED <<cooldown, owed>>
             /\ reason' \in {"none", "empty", "needs_auth"}
             /\ err' \in {"none", "limited", "forbidden"}
             /\ at' \in {"answered", "probing"}
    BY <2>0, <2>1 DEF ReadTypes, PauseInv, Steps
  <2>2. ASSUME NEW wait \in RetryAfters,
               cooldown' = Pause(wait), owed' = IF wait > owed THEN wait ELSE owed,
               err' = "limited", at' = "probing", reason' = reason
        PROVE  PInv'
    <3>1. wait \in Nat /\ Pause(wait) \in Nat /\ wait <= Pause(wait)
      BY PauseAssumption DEF Pause
    <3>2. owed = 0
      BY <2>0 DEF ReadTypes, PauseInv
    <3> QED
      BY <2>0, <2>2, <3>1, <3>2 DEF ReadTypes, PauseInv, Steps
  <2> QED
    BY <1>4, <2>1, <2>2 DEF UsageAnswers, Returns, ReadTypes
<1>5. CASE ProbeAnswers
  BY <1>5 DEF ProbeAnswers, Returns, outside, ReadTypes, PauseInv, Steps
<1>6. ASSUME NEW c \in Callers, Return(c) PROVE PInv'
  <2>1. prompt' \in BOOLEAN
    BY <1>6, Zenon DEF Return
  <2> QED
    BY <1>6, <2>1 DEF Return, outside, ReadTypes, PauseInv, Steps
<1>7. CASE SignIn \/ ProviderChanges
  BY <1>7 DEF SignIn, ProviderChanges, reading, ReadTypes, PauseInv
<1>8. CASE TimePasses
  <2>1. /\ cooldown' \in Nat /\ owed' \in Nat /\ owed' <= cooldown'
    BY <1>8 DEF TimePasses, Less, ReadTypes, PauseInv
  <2> QED
    BY <1>8, <2>1 DEF TimePasses, reading, outside, ReadTypes, PauseInv
<1>9. CASE UNCHANGED allVars
  BY <1>9 DEF allVars, readerVars, reading, outside, ReadTypes, PauseInv
<1> QED
  BY <1>1, <1>2, <1>3, <1>4, <1>5, <1>6, <1>7, <1>8, <1>9 DEF ReaderNext, Fetching

LEMMA PauseInvariance == ReaderSpec => []PInv
BY PauseInit, PauseStep, PTL DEF ReaderSpec

\* The variables of the reader keep their types.
THEOREM ReaderTypeCorrect == ReaderSpec => []ReaderTypeOK
<1>1. IInv /\ PInv => ReaderTypeOK
  BY DEF IInv, PInv, ReadTypes, ReaderTypeOK
<1> QED
  BY <1>1, ReaderInvariance, PauseInvariance, PTL

\* However many waits the usage API has named, no read asks it before the
\* longest is over, whoever forces it and whoever has signed in meanwhile.
THEOREM PauseKept == ReaderSpec => UsageGetsItsPause
<1> DEFINE Paused == at # "asking" /\ at' = "asking" => owed = 0
<1>1. ASSUME PInv, [ReaderNext]_allVars PROVE Paused
  <2> SUFFICES ASSUME at # "asking", at' = "asking" PROVE owed = 0
    OBVIOUS
  <2>1. Resolve
    BY <1>1 DEF ReaderNext, Fetching, Ask, Serve, Enter, CacheOnly, UsageAnswers, ProbeAnswers,
       Returns, Return, SignIn, ProviderChanges, TimePasses, allVars, readerVars, reading
  <2>2. cooldown = 0
    BY <1>1, <2>1 DEF Resolve, Returns, Cooling, PInv, ReadTypes
  <2> QED
    BY <1>1, <2>2 DEF PInv, ReadTypes, PauseInv
<1>2. PInv /\ [ReaderNext]_allVars => [Paused]_allVars
  BY <1>1
<1> QED
  BY <1>2, PauseInvariance, PTL DEF ReaderSpec, UsageGetsItsPause
=============================================================================
