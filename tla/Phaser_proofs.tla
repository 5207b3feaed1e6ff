--------------------------- MODULE Phaser_proofs ---------------------------
(***************************************************************************)
(* Theorems about Phaser, for any finite set of readers, any number of     *)
(* them running on the draining thread.                                    *)
(***************************************************************************)
EXTENDS Phaser, FiniteSetTheorems, TLAPS

\* The value a drain waits on is never the drained one: the loop leaves for
\* DrainClear as soon as it reads COUNT_DRAINED.
WaitsOnPositive == dpc \in {"wait", "asleep"} => dvalue > 0

\* The counters' part of the invariant.
CounterInv ==
  /\ TypeOK
  /\ CountersExact
  /\ OneDraining
  /\ WaitsOnPositive

-----------------------------------------------------------------------------
(* How the steps of a reader change the set of holders of a phase. *)

\* A set of readers is finite, so its cardinality is a natural number, which
\* is zero only for the empty set.
LEMMA HoldersFinite ==
  ASSUME NEW p
  PROVE  /\ IsFiniteSet(Holders(p))
         /\ Cardinality(Holders(p)) \in Nat
         /\ Cardinality(Holders(p)) = 0 <=> Holders(p) = {}
<1>1. Holders(p) \subseteq Readers
  BY DEF Holders
<1>2. IsFiniteSet(Holders(p))
  BY <1>1, ReadersAssumption, FS_Subset
<1> QED
  BY <1>2, FS_CardinalityType, FS_EmptySet

\* EnterInc adds the reader to the holders of its phase and of no other.
LEMMA EnterIncHolders ==
  ASSUME TypeOK, NEW r \in Readers, EnterInc(r), NEW p \in Phases
  PROVE  IF p = phase[r]
           THEN /\ Holders(p)' = Holders(p) \cup {r}
                /\ r \notin Holders(p)
           ELSE Holders(p)' = Holders(p)
BY DEF TypeOK, EnterInc, Holders, drainVars

\* ExitDec removes the reader from the holders of its phase and of no other.
LEMMA ExitDecHolders ==
  ASSUME TypeOK, NEW r \in Readers, ExitDec(r), NEW p \in Phases
  PROVE  IF p = phase[r]
           THEN /\ Holders(p)' = Holders(p) \ {r}
                /\ r \in Holders(p)
           ELSE Holders(p)' = Holders(p)
BY DEF TypeOK, ExitDec, Holders, drainVars

\* The other steps of a reader leave the holders alone.
LEMMA OtherHolders ==
  ASSUME TypeOK, NEW r \in Readers,
         EnterCall(r) \/ EnterLoad(r) \/ ExitSignal(r),
         NEW p \in Phases
  PROVE  Holders(p)' = Holders(p)
BY DEF TypeOK, EnterCall, EnterLoad, ExitSignal, Holders, drainVars

-----------------------------------------------------------------------------
(* Each reader step preserves CounterInv. *)

\* The increment of phaser_enter adds one holder to the phase it counts.
LEMMA EnterIncInv ==
  ASSUME CounterInv, NEW r \in Readers, EnterInc(r)
  PROVE  CounterInv'
<1> USE DEF CounterInv
<1>1. TypeOK'
  BY DEF TypeOK, EnterInc, drainVars, Phases, NUM_PHASES
<1>2. CountersExact'
  <2> SUFFICES ASSUME NEW p \in Phases
               PROVE  count'[p] = Cardinality(Holders(p)')
    BY DEF CountersExact
  <2>1. count[p] = Cardinality(Holders(p))
    BY DEF CountersExact
  <2>2. CASE p = phase[r]
    <3>1. Cardinality(Holders(p) \cup {r}) = Cardinality(Holders(p)) + 1
      BY <2>2, EnterIncHolders, HoldersFinite, FS_AddElement
    <3>2. count'[p] = count[p] + 1
      BY <2>2 DEF TypeOK, EnterInc
    <3> QED
      BY <2>1, <2>2, <3>1, <3>2, EnterIncHolders
  <2>3. CASE p # phase[r]
    <3>1. count'[p] = count[p]
      BY <2>3 DEF TypeOK, EnterInc
    <3> QED
      BY <2>1, <2>3, <3>1, EnterIncHolders
  <2> QED
    BY <2>2, <2>3
<1>3. OneDraining' /\ WaitsOnPositive'
  BY DEF OneDraining, WaitsOnPositive, EnterInc, drainVars
<1> QED
  BY <1>1, <1>2, <1>3

\* The decrement of phaser_exit takes one holder from the phase it counted.
LEMMA ExitDecInv ==
  ASSUME CounterInv, NEW r \in Readers, ExitDec(r)
  PROVE  CounterInv'
<1> USE DEF CounterInv
<1>1. ASSUME NEW p \in Phases
      PROVE  count'[p] \in Nat /\ count'[p] = Cardinality(Holders(p)')
  <2>1. count[p] = Cardinality(Holders(p)) /\ count[p] \in Nat
    BY <1>1, HoldersFinite DEF CountersExact
  <2>2. CASE p = phase[r]
    <3>1. /\ Cardinality(Holders(p) \ {r}) = Cardinality(Holders(p)) - 1
          /\ Holders(p)' = Holders(p) \ {r}
          /\ r \in Holders(p)
      BY <1>1, <2>2, ExitDecHolders, HoldersFinite, FS_RemoveElement
    <3>2. count[p] # 0
      BY <2>1, <3>1, HoldersFinite
    <3>3. count'[p] = count[p] - 1
      BY <1>1, <2>2 DEF TypeOK, ExitDec
    <3> QED
      BY <2>1, <3>1, <3>2, <3>3
  <2>3. CASE p # phase[r]
    <3>1. count'[p] = count[p] /\ Holders(p)' = Holders(p)
      BY <1>1, <2>3, ExitDecHolders DEF TypeOK, ExitDec
    <3> QED
      BY <2>1, <3>1
  <2> QED
    BY <2>2, <2>3
<1>2. TypeOK'
  <2>1. count' \in [Phases -> Nat]
    BY <1>1 DEF TypeOK, ExitDec
  <2> QED
    BY <2>1 DEF TypeOK, ExitDec, drainVars
<1>3. CountersExact'
  BY <1>1 DEF CountersExact
<1>4. OneDraining' /\ WaitsOnPositive'
  BY DEF OneDraining, WaitsOnPositive, ExitDec, drainVars
<1> QED
  BY <1>2, <1>3, <1>4

\* The other steps of a reader leave counters and holders alone.
LEMMA OtherReaderInv ==
  ASSUME CounterInv, NEW r \in Readers,
         EnterCall(r) \/ EnterLoad(r) \/ ExitSignal(r)
  PROVE  CounterInv'
<1> USE DEF CounterInv
<1>1. TypeOK'
  <2>1. CASE EnterCall(r)
    BY <2>1 DEF TypeOK, EnterCall, Phases, NUM_PHASES
  <2>2. CASE EnterLoad(r)
    BY <2>2 DEF TypeOK, EnterLoad, drainVars, Phases, NUM_PHASES
  <2>3. CASE ExitSignal(r)
    BY <2>3 DEF TypeOK, ExitSignal
  <2> QED
    BY <2>1, <2>2, <2>3
<1>2. CountersExact'
  <2>1. count' = count
    BY DEF EnterCall, EnterLoad, ExitSignal
  <2> QED
    BY <2>1, OtherHolders DEF CountersExact
<1>3. OneDraining' /\ WaitsOnPositive'
  BY DEF OneDraining, WaitsOnPositive, EnterCall, EnterLoad, ExitSignal,
         drainVars
<1> QED
  BY <1>1, <1>2, <1>3

\* The draining thread, and a signal to it, touch no reader and no count.
LEMMA DrainerInv ==
  ASSUME CounterInv, DrainCall \/ DrainStep \/ FutexInterrupted
  PROVE  CounterInv'
<1> USE DEF CounterInv, DrainStep
<1>1. TypeOK'
  <2> USE DEF TypeOK, readerVars, Phases, NUM_PHASES
  <2>1. CASE DrainCall
    BY <2>1 DEF DrainCall, Active
  <2>2. CASE DrainOr
    BY <2>2 DEF DrainOr, NextWait
  <2>3. CASE FutexWait \/ FutexInterrupted
    BY <2>3 DEF FutexWait, FutexInterrupted
  <2>4. CASE FutexReload
    BY <2>4 DEF FutexReload, NextWait
  <2>5. CASE DrainClear
    BY <2>5 DEF DrainClear
  <2> QED
    BY <2>1, <2>2, <2>3, <2>4, <2>5
<1>2. CountersExact'
  <2>1. count' = count /\ pc' = pc /\ phase' = phase
    BY DEF DrainCall, DrainOr, FutexWait, FutexReload,
           DrainClear, FutexInterrupted, readerVars
  <2> QED
    BY <2>1 DEF CountersExact, Holders
<1>3. OneDraining'
  BY DEF TypeOK, OneDraining, DrainCall, DrainOr, FutexWait, FutexReload,
         DrainClear, FutexInterrupted, NextWait, Phases, NUM_PHASES
<1>4. WaitsOnPositive'
  BY DEF TypeOK, WaitsOnPositive, DrainCall, DrainOr, FutexWait, FutexReload,
         DrainClear, FutexInterrupted, NextWait
<1> QED
  BY <1>1, <1>2, <1>3, <1>4

-----------------------------------------------------------------------------

\* The invariant is inductive.
LEMMA InductiveCounterInv == SafeSpec => []CounterInv
<1>1. Init => CounterInv
  <2> SUFFICES ASSUME Init PROVE CounterInv
    OBVIOUS
  <2>1. \A p \in Phases : Holders(p) = {}
    BY DEF Init, Holders
  <2>2. CountersExact
    BY <2>1, FS_EmptySet DEF CountersExact, Init
  <2> QED
    BY <2>2
       DEF Init, CounterInv, TypeOK, OneDraining, WaitsOnPositive, Phases,
           NUM_PHASES
<1>2. CounterInv /\ [Next]_vars => CounterInv'
  <2> SUFFICES ASSUME CounterInv, [Next]_vars PROVE CounterInv'
    OBVIOUS
  <2>1. CASE \E r \in Readers : EnterCall(r) \/ EnterStep(r) \/ ExitStep(r)
    BY <2>1, EnterIncInv, ExitDecInv, OtherReaderInv DEF EnterStep, ExitStep
  <2>2. CASE DrainCall \/ DrainStep \/ FutexInterrupted
    BY <2>2, DrainerInv
  <2>3. CASE UNCHANGED vars
    BY <2>3 DEF vars, CounterInv, TypeOK, CountersExact, OneDraining,
                WaitsOnPositive, Holders
  <2> QED
    BY <2>1, <2>2, <2>3 DEF Next
<1> QED
  BY <1>1, <1>2, PTL DEF SafeSpec

\* Each counter is the number of sections holding its
\* phase, and DRAINING marks exactly the counter being drained: no increment
\* that races with a drain is ever lost or counted against the wrong phase.
THEOREM CounterCorrect == SafeSpec => [](TypeOK /\ CountersExact /\ OneDraining)
<1>1. CounterInv => TypeOK /\ CountersExact /\ OneDraining
  BY DEF CounterInv
<1> QED
  BY <1>1, InductiveCounterInv, PTL

-----------------------------------------------------------------------------
(* No wake-up is lost. *)

\* The step that could lose a wake-up is the last decrement: the decrementing
\* reader then owes the FUTEX_WAKE itself.
LEMMA WakeupStep ==
  ASSUME CounterInv, NoLostWakeup, [Next]_vars
  PROVE  NoLostWakeup'
<1> USE DEF CounterInv
<1>1. ASSUME NEW r \in Readers, EnterCall(r) \/ EnterLoad(r)
      PROVE  NoLostWakeup'
  BY <1>1 DEF TypeOK, NoLostWakeup, EnterCall, EnterLoad, drainVars
<1>2. ASSUME NEW r \in Readers, EnterInc(r)
      PROVE  NoLostWakeup'
  BY <1>2 DEF TypeOK, NoLostWakeup, EnterInc, drainVars
<1>3. ASSUME NEW r \in Readers, ExitDec(r)
      PROVE  NoLostWakeup'
  <2> SUFFICES ASSUME dpc = "asleep"
               PROVE  NoLostWakeup'
    BY <1>3 DEF NoLostWakeup, ExitDec, drainVars
  <2>1. draining[dphase]
    BY DEF TypeOK, OneDraining
  <2>2. CASE phase[r] = dphase /\ count[dphase] = 1
    BY <1>3, <2>1, <2>2 DEF TypeOK, NoLostWakeup, ExitDec, drainVars
  <2>3. CASE phase[r] = dphase /\ count[dphase] # 1
    <3>1. r \in Holders(dphase)
      BY <1>3, <2>3 DEF Holders, ExitDec
    <3>2. count[dphase] \in Nat /\ count[dphase] # 0
      BY <3>1, HoldersFinite DEF TypeOK, CountersExact
    <3> QED
      BY <1>3, <2>3, <3>2 DEF TypeOK, NoLostWakeup, ExitDec, drainVars
  <2>4. CASE phase[r] # dphase
    BY <1>3, <2>4 DEF TypeOK, NoLostWakeup, ExitDec, drainVars
  <2> QED
    BY <2>2, <2>3, <2>4
<1>4. ASSUME NEW r \in Readers, ExitSignal(r)
      PROVE  NoLostWakeup'
  <2>1. CASE dpc = "asleep" /\ dphase = phase[r]
    BY <1>4, <2>1 DEF NoLostWakeup, ExitSignal, WaitsOnPositive
  <2> QED
    BY <1>4, <2>1 DEF TypeOK, NoLostWakeup, ExitSignal
<1>5. CASE DrainCall \/ DrainStep \/ FutexInterrupted
  <2>1. CASE FutexWait
    BY <2>1 DEF TypeOK, WaitsOnPositive, NoLostWakeup, FutexWait, readerVars
  <2>2. CASE DrainCall \/ DrainOr \/ FutexReload \/ DrainClear
             \/ FutexInterrupted
    BY <2>2 DEF NoLostWakeup, DrainCall, DrainOr, FutexReload,
                DrainClear, FutexInterrupted, NextWait
  <2> QED
    BY <1>5, <2>1, <2>2 DEF DrainStep
<1>6. CASE UNCHANGED vars
  BY <1>6 DEF vars, NoLostWakeup
<1> QED
  BY <1>1, <1>2, <1>3, <1>4, <1>5, <1>6 DEF Next, EnterStep, ExitStep

\* A drain never sleeps on a drained counter with no FUTEX_WAKE on its way.
THEOREM WakeupCorrect == SafeSpec => []NoLostWakeup
<1>1. Init => NoLostWakeup
  BY DEF Init, NoLostWakeup
<1>2. SafeSpec => []CounterInv
  BY InductiveCounterInv
<1>3. CounterInv /\ NoLostWakeup /\ [Next]_vars => NoLostWakeup'
  BY WakeupStep
<1> QED
  BY <1>1, <1>2, <1>3, PTL DEF SafeSpec

-----------------------------------------------------------------------------
(* The grace period. *)

\* What is owed lies ahead of the drain; nothing is owed between two drains.
GraceInv ==
  /\ OwedAhead
  /\ dpc = "idle" => owed = {}

\* A counter read as zero has no holder, hence holds none of the sections owed.
LEMMA DrainedOwesNothing ==
  ASSUME CounterInv, OwedAhead, dpc # "idle", dpc # "clear",
         count[dphase] = 0, NEW r \in owed
  PROVE  phase[r] > dphase
<1> USE DEF CounterInv
<1>1. r \in Readers /\ pc[r] = "in" /\ phase[r] >= dphase
  BY DEF TypeOK, OwedAhead, InSection
<1>2. Holders(dphase) = {}
  BY HoldersFinite DEF TypeOK, CountersExact
<1>3. phase[r] # dphase
  BY <1>1, <1>2 DEF Holders
<1> QED
  BY <1>1, <1>3 DEF TypeOK, Phases, NUM_PHASES

\* Every step keeps what is owed ahead of the drain.
LEMMA GraceStep ==
  ASSUME CounterInv, GraceInv, [Next]_vars
  PROVE  GraceInv'
<1> USE DEF CounterInv, GraceInv
<1>1. ASSUME NEW r \in Readers, EnterCall(r) \/ EnterLoad(r) \/ EnterInc(r)
      PROVE  GraceInv'
  BY <1>1 DEF TypeOK, OwedAhead, InSection, EnterCall, EnterLoad, EnterInc,
              drainVars
<1>2. ASSUME NEW r \in Readers, ExitDec(r)
      PROVE  GraceInv'
  BY <1>2 DEF TypeOK, OwedAhead, InSection, ExitDec, drainVars
<1>3. ASSUME NEW r \in Readers, ExitSignal(r)
      PROVE  GraceInv'
  BY <1>3 DEF TypeOK, OwedAhead, InSection, ExitSignal
<1>4. CASE DrainCall
  BY <1>4 DEF TypeOK, OwedAhead, InSection, Active, DrainCall, readerVars,
              Phases, NUM_PHASES
<1>5. CASE DrainOr \/ FutexReload
  BY <1>5, DrainedOwesNothing
     DEF OwedAhead, InSection, DrainOr, FutexReload, NextWait, readerVars
<1>6. CASE FutexWait \/ FutexInterrupted
  BY <1>6 DEF OwedAhead, InSection, FutexWait, FutexInterrupted, readerVars
<1>7. CASE DrainClear
  BY <1>7 DEF TypeOK, OwedAhead, InSection, DrainClear, readerVars, Phases,
              NUM_PHASES
<1>8. CASE UNCHANGED vars
  BY <1>8 DEF vars, OwedAhead, InSection
<1> QED
  BY <1>1, <1>2, <1>3, <1>4, <1>5, <1>6, <1>7, <1>8
     DEF Next, EnterStep, ExitStep, DrainStep

\* The sections owed by a drain are always in a phase it has not
\* passed yet.
THEOREM GraceInvariant == SafeSpec => [](OwedAhead /\ GraceInv)
<1>1. Init => GraceInv
  BY DEF Init, GraceInv, OwedAhead
<1>2. SafeSpec => []CounterInv
  BY InductiveCounterInv
<1>3. CounterInv /\ GraceInv /\ [Next]_vars => GraceInv'
  BY GraceStep
<1>4. GraceInv => OwedAhead
  BY DEF GraceInv
<1> QED
  BY <1>1, <1>2, <1>3, <1>4, PTL DEF SafeSpec

\* A drain returns only at a state in which nothing is owed.
LEMMA ReturnOwesNothing ==
  ASSUME CounterInv, GraceInv, DrainClear, dpc' = "idle"
  PROVE  owed = {}
BY DEF CounterInv, TypeOK, GraceInv, OwedAhead, DrainClear, Phases, NUM_PHASES

\* phaser_drain waits for every section that was open when it was called.
THEOREM DrainCorrect == SafeSpec => DrainCoversCall
<1>1. /\ CounterInv
      /\ GraceInv
      /\ [Next]_vars
      => [dpc # "idle" /\ dpc' = "idle" => owed = {}]_vars
  <2> SUFFICES ASSUME CounterInv, GraceInv, Next, dpc # "idle", dpc' = "idle"
               PROVE  owed = {}
    OBVIOUS
  <2>1. ~ \E r \in Readers : EnterCall(r) \/ EnterStep(r) \/ ExitStep(r)
    BY DEF CounterInv, TypeOK, EnterCall, EnterStep, EnterLoad, EnterInc,
           ExitStep, ExitDec, ExitSignal, drainVars
  <2>2. DrainClear
    BY <2>1 DEF Next, DrainCall, DrainStep, DrainOr, FutexWait, FutexReload,
           FutexInterrupted, NextWait
  <2> QED
    BY <2>2, ReturnOwesNothing
<1> QED
  BY <1>1, InductiveCounterInv, GraceInvariant, PTL
     DEF SafeSpec, DrainCoversCall

\* Every step of the counters is a step of GracePeriod or leaves it unchanged.
LEMMA RefinementStep ==
  ASSUME CounterInv, GraceInv, [Next]_vars
  PROVE  [GP!GPNext]_(GP!gpVars)
<1> USE DEF CounterInv, GP!gpVars, GP!GPNext
<1>1. ASSUME NEW r \in Readers, EnterCall(r) \/ EnterLoad(r) \/ ExitSignal(r)
      PROVE  UNCHANGED GP!gpVars
  BY <1>1 DEF TypeOK, EnterCall, EnterLoad, ExitSignal, Active, InSection,
              drainVars
<1>2. ASSUME NEW r \in Readers, EnterInc(r)
      PROVE  GP!SectionEnter(r)
  BY <1>2 DEF TypeOK, EnterInc, GP!SectionEnter, Active, InSection, drainVars
<1>3. ASSUME NEW r \in Readers, ExitDec(r)
      PROVE  GP!SectionExit(r)
  BY <1>3 DEF TypeOK, ExitDec, GP!SectionExit, Active, InSection, drainVars
<1>4. CASE DrainCall
  BY <1>4 DEF DrainCall, GP!DrainBegin, Active, InSection, readerVars
<1>5. CASE DrainOr \/ FutexWait \/ FutexReload \/ FutexInterrupted
  BY <1>5 DEF DrainOr, FutexWait, FutexReload, FutexInterrupted,
              NextWait, Active, InSection, readerVars
<1>6. CASE DrainClear
  <2>1. CASE dpc' = "idle"
    BY <1>6, <2>1, ReturnOwesNothing
       DEF DrainClear, GP!DrainReturn, Active, InSection, readerVars
  <2>2. CASE dpc' # "idle"
    BY <1>6, <2>2 DEF DrainClear, Active, InSection, readerVars
  <2> QED
    BY <2>1, <2>2
<1>7. CASE UNCHANGED vars
  BY <1>7 DEF vars, Active, InSection
<1> QED
  BY <1>1, <1>2, <1>3, <1>4, <1>5, <1>6, <1>7
     DEF Next, EnterStep, ExitStep, DrainStep

\* The two counters implement the grace period that phaser.h promises and
\* that sigmux.c relies on to free a registration.
THEOREM PhaserImplementsGracePeriod == SafeSpec => ImplementsGracePeriod
<1>1. Init => GP!GPInit
  BY DEF Init, GP!GPInit, Active, InSection
<1>2. CounterInv /\ GraceInv /\ [Next]_vars => [GP!GPNext]_(GP!gpVars)
  BY RefinementStep
<1> QED
  BY <1>1, <1>2, InductiveCounterInv, GraceInvariant, PTL
     DEF SafeSpec, ImplementsGracePeriod, GP!GPSafeSpec
=============================================================================
