--------------------------- MODULE WorkAreaProofs ---------------------------
(***************************************************************************)
(* Proofs about WorkArea for any number of launches and accidents: what a  *)
(* strip costs, and that a reserved dock keeps its own.                    *)
(***************************************************************************)
EXTENDS WorkArea, SequenceTheorems, TLAPS

-----------------------------------------------------------------------------

(* Types *)

LEMMA SetWorkAreaTypes ==
    ASSUME TypeOK, NEW area \in Nat, SetWorkArea(area)
    PROVE  work' \in Nat /\ faults' \in Nat /\ faults' >= faults
BY DEF SetWorkArea, Fault, TypeOK

LEMMA UnregisterTypes ==
    ASSUME TypeOK, Unregister
    PROVE  /\ work' \in Nat /\ faults' \in Nat
           /\ baseWork' = None /\ appbar' = FALSE
<1>1. CASE Taken
  <2>1. baseWork \in Nat
    BY <1>1 DEF Taken, TypeOK
  <2>2. SetWorkArea(baseWork)
    BY <1>1 DEF Unregister
  <2> QED
    BY <2>1, <2>2, SetWorkAreaTypes DEF Unregister
<1>2. CASE ~Taken
  BY <1>2 DEF Unregister, TypeOK
<1> QED
  BY <1>1, <1>2

LEMMA StaleType == TypeOK => Stale \in Nat \cup {None}
<1>1. CASE appbar
  BY <1>1 DEF TypeOK, Stale
<1>2. CASE ~appbar
  BY <1>2 DEF TypeOK, Stale
<1> QED
  BY <1>1, <1>2

LEMMA TypeStep == TypeOK /\ [Next]_vars => TypeOK'
<1> SUFFICES ASSUME TypeOK, [Next]_vars PROVE TypeOK'
  OBVIOUS
<1>1. CASE Start
  BY <1>1 DEF Start, TypeOK, Fault
<1>2. CASE Reserve
  BY <1>2 DEF Reserve, Restored, Taken, TypeOK, Fault, None
<1>3. CASE GiveBack
  BY <1>3, UnregisterTypes DEF GiveBack, TypeOK
<1>4. CASE BeginShutdown \/ FinishShutdown
  BY <1>4 DEF BeginShutdown, FinishShutdown, TypeOK
<1>5. CASE Cleanup
  <2>1. teardown' \in Nat \cup {None}
    BY <1>5, StaleType DEF Cleanup
  <2>2. work' \in Nat /\ faults' \in Nat /\ helpers' \in Seq(Nat)
    <3>1. CASE Taken
      <4>1. baseWork \in Nat
        BY <3>1 DEF Taken, TypeOK
      <4>2. CASE SetWorkArea(baseWork) /\ helpers' = Append(helpers, baseWork)
        BY <4>1, <4>2, SetWorkAreaTypes, AppendProperties DEF TypeOK
      <4>3. CASE work' \in {work, baseWork} /\ Fault /\ UNCHANGED helpers
        BY <4>1, <4>3 DEF TypeOK, Fault
      <4> QED
        BY <1>5, <3>1, <4>2, <4>3 DEF Cleanup
    <3>2. CASE ~Taken
      BY <1>5, <3>2 DEF Cleanup, TypeOK
    <3> QED
      BY <3>1, <3>2
  <2> QED
    BY <1>5, <2>1, <2>2 DEF Cleanup, TypeOK
<1>6. CASE Crash
  <2>1. teardown' \in Nat \cup {None}
    BY <1>6, StaleType DEF Crash
  <2>2. faults' \in Nat
    BY <1>6 DEF Crash, Fault, TypeOK
  <2> QED
    BY <1>6, <2>1, <2>2 DEF Crash, TypeOK
<1>7. CASE ShellTearsDown
  BY <1>7 DEF ShellTearsDown, TypeOK
<1>8. CASE HelperRestores
  <2>1. Head(helpers) \in Nat /\ Tail(helpers) \in Seq(Nat)
    BY <1>8, HeadTailProperties DEF HelperRestores, Pending, TypeOK
  <2> QED
    BY <1>8, <2>1, SetWorkAreaTypes DEF HelperRestores, TypeOK
<1>9. CASE UNCHANGED vars
  BY <1>9 DEF vars, TypeOK
<1> QED
  BY <1>1, <1>2, <1>3, <1>4, <1>5, <1>6, <1>7, <1>8, <1>9 DEF Next, Shutdown

LEMMA TypeInit == Init => TypeOK
<1> SUFFICES ASSUME Init PROVE TypeOK
  OBVIOUS
<1>1. helpers \in Seq(Nat)
  BY EmptySeq, Zenon DEF Init
<1>2. /\ baseWork \in Nat \cup {None} /\ work \in Nat /\ teardown \in Nat \cup {None}
      /\ starts \in Nat /\ faults \in Nat
  BY DEF Init
<1> QED
  BY <1>1, <1>2 DEF Init, TypeOK

\* Every variable of WorkArea keeps its type (a.baseWork, a.appbar and the
\* system's work area), for any number of launches and failures.
THEOREM TypeCorrect == Spec => []TypeOK
BY TypeInit, TypeStep, PTL DEF Spec

-----------------------------------------------------------------------------
(* The inductive invariant *)

\* A helper of an ended run is still to correct the work area.
BeingCorrected == Pending /\ ~Alive

\* The shell knows the window only while the program remembers what to restore.
Bookkeeping ==
    /\ appbar => Taken
    /\ Taken => Alive

\* What is to be put back lacks at most a strip for each accident; the desktop
\* and what the shell puts back lack one more only while that is being held or
\* corrected.
Accounted ==
    /\ Taken => baseWork <= faults
    /\ \A i \in DOMAIN helpers : helpers[i] <= faults
    /\ teardown <= faults + 1
    /\ teardown <= faults \/ BeingCorrected
    /\ work <= faults + 1
    /\ work <= faults \/ Taken \/ BeingCorrected

\* Before the first accident nothing outside writes the work area of a dock.
Undisturbed ==
    faults = 0 =>
        /\ Alive => ~Pending /\ teardown = None
        /\ ~Alive /\ teardown # None => Pending
        /\ Taken => work = baseWork + 1

IInv == TypeOK /\ Bookkeeping /\ Accounted /\ Undisturbed

LEMMA InitIInv == Init => IInv
<1> SUFFICES ASSUME Init PROVE IInv
  OBVIOUS
<1>1. ~Taken /\ ~Alive /\ ~Pending /\ DOMAIN helpers = {}
  BY DEF Init, Taken, Alive, Pending
<1> QED
  BY <1>1, TypeInit DEF Init, IInv, Bookkeeping, Accounted, Undisturbed, BeingCorrected, None

\* SPI_SETWORKAREA either works or counts as an accident.
LEMMA SetWorkAreaOrFault ==
    ASSUME TypeOK, NEW area, SetWorkArea(area)
    PROVE  \/ work' = area /\ faults' = faults
           \/ work' = work /\ faults' = faults + 1
BY DEF SetWorkArea, Fault

\* Accidents are never undone.
LEMMA FaultsGrow ==
    ASSUME TypeOK, Next
    PROVE  faults' \in Nat /\ faults' >= faults
<1> faults \in Nat
  BY DEF TypeOK
<1>1. CASE Start \/ Crash
  BY <1>1 DEF Start, Crash, Fault
<1>4. CASE Reserve
  BY <1>4 DEF Reserve, Fault
<1>2. CASE GiveBack \/ Cleanup \/ HelperRestores
  BY <1>2 DEF GiveBack, Unregister, Cleanup, HelperRestores, SetWorkArea, Fault
<1>3. CASE BeginShutdown \/ FinishShutdown \/ ShellTearsDown
  BY <1>3 DEF BeginShutdown, FinishShutdown, ShellTearsDown
<1> QED
  BY <1>1, <1>2, <1>3, <1>4 DEF Next, Shutdown

\* What an ended run left to restore stays within the accidents.
HelpersWithin == \A i \in DOMAIN helpers : helpers[i] <= faults

LEMMA HelpersStep ==
    ASSUME TypeOK, HelpersWithin, Taken => baseWork <= faults, Next
    PROVE  HelpersWithin'
<1>0. /\ helpers \in Seq(Nat) /\ faults \in Nat
      /\ faults' \in Nat /\ faults' >= faults
  BY FaultsGrow DEF TypeOK
<1>1. CASE helpers' = helpers
  <2> SUFFICES ASSUME NEW i \in DOMAIN helpers PROVE helpers[i] <= faults'
    BY <1>1 DEF HelpersWithin
  <2>1. helpers[i] \in Nat /\ helpers[i] <= faults
    BY <1>0, ElementOfSeq, LenProperties DEF HelpersWithin
  <2> QED
    BY <1>0, <2>1
<1>2. CASE Taken /\ helpers' = Append(helpers, baseWork)
  <2>1. baseWork \in Nat /\ baseWork <= faults
    BY <1>2 DEF Taken, TypeOK
  <2> SUFFICES ASSUME NEW i \in DOMAIN Append(helpers, baseWork)
               PROVE  Append(helpers, baseWork)[i] <= faults'
    BY <1>2 DEF HelpersWithin
  <2>2. CASE i = Len(helpers) + 1
    BY <1>0, <2>1, <2>2, AppendProperties
  <2>3. CASE i # Len(helpers) + 1
    <3>1. i \in 1 .. Len(helpers)
      BY <1>0, <2>1, <2>3, AppendProperties, LenProperties
    <3>2. Append(helpers, baseWork)[i] = helpers[i] /\ helpers[i] \in Nat /\ helpers[i] <= faults
      BY <1>0, <2>1, <3>1, AppendProperties, ElementOfSeq, LenProperties DEF HelpersWithin
    <3> QED
      BY <1>0, <3>2
  <2> QED
    BY <2>2, <2>3
<1>3. CASE Pending /\ helpers' = Tail(helpers)
  <2> SUFFICES ASSUME NEW i \in DOMAIN Tail(helpers)
               PROVE  Tail(helpers)[i] <= faults'
    BY <1>3 DEF HelpersWithin
  <2>1. i + 1 \in 1 .. Len(helpers) /\ Tail(helpers)[i] = helpers[i + 1]
    BY <1>0, <1>3, HeadTailProperties, LenProperties DEF Pending
  <2>2. helpers[i + 1] \in Nat /\ helpers[i + 1] <= faults
    BY <1>0, <2>1, ElementOfSeq, LenProperties DEF HelpersWithin
  <2> QED
    BY <1>0, <2>1, <2>2
<1>4. \/ helpers' = helpers
      \/ Taken /\ helpers' = Append(helpers, baseWork)
      \/ Pending /\ helpers' = Tail(helpers)
  BY DEF Next, Shutdown, Start, Reserve, GiveBack, BeginShutdown, FinishShutdown, Cleanup, Crash,
         ShellTearsDown, HelperRestores
<1> QED
  BY <1>1, <1>2, <1>3, <1>4

\* Accounted without the helpers' own rectangles.
Owed ==
    /\ Taken => baseWork <= faults
    /\ teardown <= faults + 1
    /\ teardown <= faults \/ BeingCorrected
    /\ work <= faults + 1
    /\ work <= faults \/ Taken \/ BeingCorrected

Numbers ==
    /\ baseWork \in Int /\ work \in Int /\ teardown \in Int /\ faults \in Int
    /\ appbar \in BOOLEAN
    /\ faults >= 0

LEMMA StepRest ==
    ASSUME IInv, Next
    PROVE  Bookkeeping' /\ Owed' /\ Undisturbed'
<1>0. Numbers
  BY DEF IInv, TypeOK, Numbers, None
<1>t. TypeOK
  BY DEF IInv
<1>i. Bookkeeping /\ Owed /\ Undisturbed
  BY DEF IInv, Accounted, Owed
<1> USE DEF Numbers, Bookkeeping, Owed, Undisturbed, BeingCorrected
<1>1. CASE Start
  <2>1. /\ ~Alive /\ Alive' /\ (Pending' <=> Pending) /\ (Taken' <=> Taken)
        /\ UNCHANGED <<baseWork, appbar, work, teardown>>
    BY <1>1 DEF Start, Pending, Alive, Taken
  <2>2. \/ Pending /\ faults' = faults + 1
        \/ ~Pending /\ faults' = faults
    BY <1>1 DEF Start, Fault
  <2> QED
    BY <1>0, <1>i, <2>1, <2>2
<1>2. CASE Reserve
  <2>1. Alive /\ Alive' /\ (Pending' <=> Pending) /\ teardown' = teardown
    BY <1>2 DEF Reserve, Pending, Alive
  <2>2. PICK failed \in (IF Taken THEN BOOLEAN ELSE {FALSE}) :
          /\ baseWork' = Restored(failed)
          /\ \/ work' = baseWork' + 1 /\ (IF failed THEN Fault ELSE UNCHANGED faults)
             \/ work' \in {baseWork', IF appbar' THEN baseWork' + 1 ELSE baseWork'} /\ Fault
    BY <1>2 DEF Reserve
  <2>3. /\ Restored(failed) \in Nat
        /\ Restored(failed) <= faults \/ (failed /\ Restored(failed) <= faults + 1)
    BY <1>0, <1>i, <1>t, <2>1, <2>2 DEF Restored, Taken, TypeOK
  <2>4. \/ work' = baseWork' + 1 /\ faults' = faults /\ ~failed
        \/ work' <= baseWork' + 1 /\ faults' = faults + 1
    BY <1>0, <2>2, <2>3 DEF Fault
  <2>5. Taken'
    BY <2>2, <2>3 DEF Taken, None
  <2> QED
    BY <1>0, <1>i, <2>1, <2>2, <2>3, <2>4, <2>5
<1>3. CASE GiveBack
  <2>1. /\ Alive /\ Alive' /\ (Pending' <=> Pending) /\ ~Taken' /\ appbar' = FALSE
        /\ teardown' = teardown
    BY <1>3 DEF GiveBack, Unregister, Pending, Alive, Taken
  <2>2. CASE Taken
    <3>1. SetWorkArea(baseWork)
      BY <1>3, <2>2 DEF GiveBack, Unregister
    <3> QED
      BY <1>0, <1>t, <1>i, <2>1, <2>2, <3>1, SetWorkAreaOrFault
  <2>3. CASE ~Taken
    <3>1. UNCHANGED <<work, faults>>
      BY <1>3, <2>3 DEF GiveBack, Unregister
    <3> QED
      BY <1>0, <1>i, <2>1, <2>3, <3>1
  <2> QED
    BY <2>2, <2>3
<1>4. CASE BeginShutdown \/ FinishShutdown
  <2>1. /\ (Pending' <=> Pending) /\ (Alive' <=> Alive) /\ (Taken' <=> Taken)
        /\ UNCHANGED <<baseWork, appbar, work, teardown, faults>>
    BY <1>4 DEF BeginShutdown, FinishShutdown, Pending, Alive, Taken
  <2> QED
    BY <1>0, <1>i, <2>1
<1>5. CASE Cleanup
  <2>1. /\ teardown' = (IF appbar THEN work ELSE teardown)
        /\ Alive /\ ~Alive' /\ ~Taken' /\ appbar' = FALSE
    BY <1>5 DEF Cleanup, Stale, Alive, Taken
  <2>2. CASE Taken /\ SetWorkArea(baseWork) /\ helpers' = Append(helpers, baseWork)
    <3>1. Pending'
      BY <1>t, <2>2, AppendProperties DEF Pending, TypeOK, Taken
    <3>2. \/ work' = baseWork /\ faults' = faults
          \/ work' = work /\ faults' = faults + 1
      BY <1>t, <2>2, SetWorkAreaOrFault
    <3> QED
      BY <1>0, <1>i, <2>1, <2>2, <3>1, <3>2
  <2>3. CASE Taken /\ work' \in {work, baseWork} /\ Fault /\ UNCHANGED helpers
    <3>1. (Pending' <=> Pending) /\ faults' = faults + 1
      BY <2>3 DEF Pending, Fault
    <3> QED
      BY <1>0, <1>i, <2>1, <2>3, <3>1
  <2>4. CASE ~Taken /\ UNCHANGED <<work, faults, helpers>>
    <3>1. (Pending' <=> Pending)
      BY <2>4 DEF Pending
    <3> QED
      BY <1>0, <1>i, <2>1, <2>4, <3>1
  <2> QED
    BY <1>5, <2>2, <2>3, <2>4 DEF Cleanup
<1>6. CASE Crash
  <2>1. /\ (Pending' <=> Pending) /\ teardown' = (IF appbar THEN work ELSE teardown)
        /\ Alive /\ ~Alive' /\ ~Taken' /\ appbar' = FALSE /\ work' = work
    BY <1>6 DEF Crash, Stale, Pending, Alive, Taken
  <2>2. \/ Taken /\ faults' = faults + 1
        \/ ~Taken /\ faults' = faults
    BY <1>6 DEF Crash, Fault
  <2> QED
    BY <1>0, <1>i, <2>1, <2>2
<1>7. CASE ShellTearsDown
  <2>1. /\ (Pending' <=> Pending) /\ (Alive' <=> Alive) /\ (Taken' <=> Taken)
        /\ UNCHANGED <<baseWork, appbar, faults>>
        /\ teardown # -1 /\ teardown' = -1 /\ work' \in {work, teardown}
    BY <1>7 DEF ShellTearsDown, Pending, Alive, Taken, None
  <2> QED
    BY <1>0, <1>i, <2>1 DEF None
<1>8. CASE HelperRestores
  <2>1. /\ Pending /\ teardown = -1 /\ teardown' = -1 /\ SetWorkArea(helpers[1])
        /\ (Alive' <=> Alive) /\ (Taken' <=> Taken) /\ Pending' \in BOOLEAN
        /\ UNCHANGED <<baseWork, appbar>>
    BY <1>t, <1>8, HeadTailProperties DEF HelperRestores, Pending, TypeOK, Alive, Taken, None
  <2>2. helpers[1] \in Nat /\ helpers[1] <= faults
    <3>1. 1 \in DOMAIN helpers
      BY <1>t, <2>1, EmptySeq, LenProperties DEF Pending, TypeOK
    <3> QED
      BY <1>t, <3>1, ElementOfSeq, LenProperties DEF IInv, Accounted, TypeOK
  <2>3. \/ work' = helpers[1] /\ faults' = faults
        \/ work' = work /\ faults' = faults + 1
    BY <1>t, <2>1, SetWorkAreaOrFault
  <2> QED
    BY <1>0, <1>i, <2>1, <2>2, <2>3 DEF None
<1> QED
  BY <1>1, <1>2, <1>3, <1>4, <1>5, <1>6, <1>7, <1>8 DEF Next, Shutdown

LEMMA StepIInv == IInv /\ [Next]_vars => IInv'
<1>1. ASSUME IInv, Next PROVE IInv'
  <2>1. HelpersWithin /\ (Taken => baseWork <= faults) /\ TypeOK
    BY <1>1 DEF IInv, Accounted, HelpersWithin
  <2>2. HelpersWithin'
    BY <1>1, <2>1, HelpersStep
  <2>3. Bookkeeping' /\ Owed' /\ Undisturbed' /\ TypeOK'
    BY <1>1, <2>1, StepRest, TypeStep
  <2> QED
    BY <2>2, <2>3 DEF IInv, Accounted, Owed, HelpersWithin
<1>2. ASSUME IInv, UNCHANGED vars PROVE IInv'
  BY <1>2 DEF vars, IInv, TypeOK, Bookkeeping, Accounted, Undisturbed, BeingCorrected, Taken, Alive,
              Pending
<1> QED
  BY <1>1, <1>2

LEMMA Inductive == Spec => []IInv
BY InitIInv, StepIInv, PTL DEF Spec

-----------------------------------------------------------------------------

\* However often the dock is moved, hidden, restarted or killed, an accident
\* costs the desktop at most one strip (applyDock, unregisterAppBar, cleanup and
\* the restore helper).
THEOREM StripsAccounted == Spec => []SpaceAccounted
<1>1. IInv => SpaceAccounted
  BY DEF IInv, TypeOK, Accounted, SpaceAccounted, BeingCorrected, None, Taken
<1> QED
  BY <1>1, Inductive, PTL

\* Until something goes wrong a reserved dock has its strip and only its strip
\* (applyDock), whatever runs ended before it.
THEOREM StripStands == Spec => []StripKept
<1>1. IInv => StripKept
  BY DEF IInv, TypeOK, Accounted, Undisturbed, StripKept, None, Taken
<1> QED
  BY <1>1, Inductive, PTL
=============================================================================
