------------------------------- MODULE Phaser -------------------------------
(***************************************************************************)
(* The phaser of linker/phaser.c: an RCU facility made of two counters,    *)
(* each with a DRAINING bit.  phaser_enter and phaser_exit are taken apart *)
(* into their atomic memory accesses, phaser_drain into its accesses and   *)
(* its system calls, and every interleaving of them is a behaviour.        *)
(*                                                                         *)
(* A reader is one execution context of critical sections: a thread, or    *)
(* the signal handler that runs on top of one.  The readers in Nested are  *)
(* the handlers that interrupt the draining thread itself ("we need to be  *)
(* able to enter a critical section from inside phaser_drain"): while such *)
(* a section runs, the drain stands still.                                 *)
(***************************************************************************)
EXTENDS Integers, FiniteSets

CONSTANTS
  Readers,   \* the execution contexts of critical sections
  Nested     \* those that run as signal handlers on the draining thread

ASSUME ReadersAssumption == IsFiniteSet(Readers)
ASSUME NestedAssumption == Nested \subseteq Readers

NUM_PHASES == 2

Phases == 0 .. (NUM_PHASES - 1)

VARIABLES
  count,    \* count[p]: counter[p] without its high bit
  draining, \* draining[p]: the DRAINING bit of counter[p]
  pc,       \* pc[r]: where reader r stands in phaser_enter / phaser_exit
  phase,    \* phase[r]: r's phase variable, the token of its section
  dpc,      \* where the draining thread stands in phaser_drain
  dphase,   \* its loop variable i
  dvalue,   \* its local value, without the high bit
  owed      \* history: sections open when phaser_drain was called, still open

readerVars == <<pc, phase>>
drainVars == <<dpc, dphase, dvalue>>
vars == <<count, draining, pc, phase, dpc, dphase, dvalue, owed>>

\* phaser_init: both counters zero; nobody inside, no drain running.
Init ==
  /\ count = [p \in Phases |-> 0]
  /\ draining = [p \in Phases |-> FALSE]
  /\ pc = [r \in Readers |-> "idle"]
  /\ phase = [r \in Readers |-> 0]
  /\ dpc = "idle"
  /\ dphase = 0
  /\ dvalue = 0
  /\ owed = {}

InSection(r) == pc[r] = "in"

Active == {r \in Readers : InSection(r)}

-----------------------------------------------------------------------------
(* phaser_enter *)

\* The call.  A signal that interrupts the draining thread also makes its
\* FUTEX_WAIT return EINTR.
EnterCall(r) ==
  /\ pc[r] = "idle"
  /\ pc' = [pc EXCEPT ![r] = "load"]
  /\ phase' = [phase EXCEPT ![r] = 0]
  /\ dpc' = IF r \in Nested /\ dpc = "asleep" THEN "reload" ELSE dpc
  /\ UNCHANGED <<count, draining, dphase, dvalue, owed>>

\* phaser_counter_try_inc reads the counter: DRAINING set, try the next phase.
EnterLoad(r) ==
  /\ pc[r] = "load"
  /\ IF draining[phase[r]]
       THEN /\ phase' = [phase EXCEPT ![r] = (phase[r] + 1) % NUM_PHASES]
            /\ UNCHANGED pc
       ELSE /\ pc' = [pc EXCEPT ![r] = "inc"]
            /\ UNCHANGED phase
  /\ UNCHANGED <<count, draining, drainVars, owed>>

\* Slip: the phase is re-read as 0 when the token is returned.
MutEnterIncWrongToken(r) ==
  /\ pc[r] = "inc"
  /\ count' = [count EXCEPT ![phase[r]] = @ + 1]
  /\ pc' = [pc EXCEPT ![r] = "in"]
  /\ phase' = [phase EXCEPT ![r] = 0]
  /\ UNCHANGED <<draining, drainVars, owed>>

\* ... and increments it in a second access, DRAINING set meanwhile or not.
EnterInc(r) ==
  /\ pc[r] = "inc"
  /\ count' = [count EXCEPT ![phase[r]] = @ + 1]
  /\ pc' = [pc EXCEPT ![r] = "in"]
  /\ UNCHANGED <<draining, phase, drainVars, owed>>

-----------------------------------------------------------------------------
(* phaser_exit *)

\* Slip: the value before the decrement is compared with COUNT_DRAINED.
MutExitDecOldValue(r) ==
  /\ pc[r] = "in"
  /\ count' = [count EXCEPT ![phase[r]] = @ - 1]
  /\ pc' = [pc EXCEPT ![r] =
              IF draining[phase[r]] /\ count[phase[r]] = 0
                THEN "signal" ELSE "idle"]
  /\ owed' = owed \ {r}
  /\ UNCHANGED <<draining, phase, drainVars>>

\* The decrement.  If it leaves COUNT_DRAINED, a wake-up is still to be sent.
ExitDec(r) ==
  /\ pc[r] = "in"
  /\ count' = [count EXCEPT ![phase[r]] = @ - 1]
  /\ pc' = [pc EXCEPT ![r] =
              IF draining[phase[r]] /\ count[phase[r]] = 1
                THEN "signal" ELSE "idle"]
  /\ owed' = owed \ {r}
  /\ UNCHANGED <<draining, phase, drainVars>>

\* FUTEX_WAKE on the counter.
ExitSignal(r) ==
  /\ pc[r] = "signal"
  /\ dpc' = IF dpc = "asleep" /\ dphase = phase[r] THEN "reload" ELSE dpc
  /\ pc' = [pc EXCEPT ![r] = "idle"]
  /\ UNCHANGED <<count, draining, phase, dphase, dvalue, owed>>

-----------------------------------------------------------------------------
(* phaser_drain *)

\* The draining thread runs its own code only when no handler is on top of it.
DrainerRuns == \A r \in Nested : pc[r] = "idle"

\* The call is made outside critical sections; callers serialise it.
DrainCall ==
  /\ DrainerRuns
  /\ dpc = "idle"
  /\ dpc' = "or"
  /\ dphase' = 0
  /\ owed' = Active
  /\ UNCHANGED <<count, draining, readerVars, dvalue>>

\* What the loop does with a freshly read counter value.
NextWait(value) == IF value = 0 THEN "clear" ELSE "wait"

\* phaser_drain_counter sets DRAINING and keeps the value it leaves.
DrainOr ==
  /\ DrainerRuns
  /\ dpc = "or"
  /\ draining' = [draining EXCEPT ![dphase] = TRUE]
  /\ dvalue' = count[dphase]
  /\ dpc' = NextWait(count[dphase])
  /\ UNCHANGED <<count, readerVars, dphase, owed>>

\* Slip: the wait is a plain sleep that does not compare the counter.
MutFutexWaitBlind ==
  /\ DrainerRuns
  /\ dpc = "wait"
  /\ dpc' = "asleep"
  /\ UNCHANGED <<count, draining, readerVars, dphase, dvalue, owed>>

\* FUTEX_WAIT compares and goes to sleep in one step (EWOULDBLOCK when the
\* counter has moved on).
FutexWait ==
  /\ DrainerRuns
  /\ dpc = "wait"
  /\ dpc' = IF count[dphase] = dvalue THEN "asleep" ELSE "reload"
  /\ UNCHANGED <<count, draining, readerVars, dphase, dvalue, owed>>

\* EINTR: a signal whose handler opens no critical section.
FutexInterrupted ==
  /\ dpc = "asleep"
  /\ dpc' = "reload"
  /\ UNCHANGED <<count, draining, readerVars, dphase, dvalue, owed>>

FutexReload ==
  /\ DrainerRuns
  /\ dpc = "reload"
  /\ dvalue' = count[dphase]
  /\ dpc' = NextWait(count[dphase])
  /\ UNCHANGED <<count, draining, readerVars, dphase, owed>>

\* Slip: the drain returns after the first counter.
MutDrainOnePhase ==
  /\ DrainerRuns
  /\ dpc = "clear"
  /\ draining' = [draining EXCEPT ![dphase] = FALSE]
  /\ dpc' = "idle"
  /\ UNCHANGED <<count, readerVars, dphase, dvalue, owed>>

\* Slip: DRAINING is left set.
MutDrainKeepsBit ==
  /\ DrainerRuns
  /\ dpc = "clear"
  /\ IF dphase + 1 < NUM_PHASES
       THEN /\ dphase' = dphase + 1
            /\ dpc' = "or"
       ELSE /\ dpc' = "idle"
            /\ UNCHANGED dphase
  /\ UNCHANGED <<count, draining, readerVars, dvalue, owed>>

\* Clear DRAINING; go on with the next counter, or return after the last.
DrainClear ==
  /\ DrainerRuns
  /\ dpc = "clear"
  /\ draining' = [draining EXCEPT ![dphase] = FALSE]
  /\ IF dphase + 1 < NUM_PHASES
       THEN /\ dphase' = dphase + 1
            /\ dpc' = "or"
       ELSE /\ dpc' = "idle"
            /\ UNCHANGED dphase
  /\ UNCHANGED <<count, readerVars, dvalue, owed>>

-----------------------------------------------------------------------------

EnterStep(r) == EnterLoad(r) \/ EnterInc(r)

ExitStep(r) == ExitDec(r) \/ ExitSignal(r)

DrainStep ==
  \/ DrainOr
  \/ FutexWait
  \/ FutexReload
  \/ DrainClear

Next ==
  \/ \E r \in Readers : EnterCall(r) \/ EnterStep(r) \/ ExitStep(r)
  \/ DrainCall
  \/ DrainStep
  \/ FutexInterrupted

SafeSpec == Init /\ [][Next]_vars

(***************************************************************************)
(* A thread that can run does run, and sections end ("assuming critical    *)
(* sections do the same").  The draining thread needs strong fairness only *)
(* because a Nested handler suspends it: it does run between two signals.  *)
(* Nothing obliges anybody to enter a section, to call phaser_drain or to  *)
(* interrupt the sleeper.                                                  *)
(***************************************************************************)
Fairness ==
  /\ \A r \in Readers : WF_vars(EnterStep(r)) /\ WF_vars(ExitStep(r))
  /\ SF_vars(DrainStep)

Spec == SafeSpec /\ Fairness

-----------------------------------------------------------------------------
(* Properties *)

TypeOK ==
  /\ count \in [Phases -> Nat]
  /\ draining \in [Phases -> BOOLEAN]
  /\ pc \in [Readers -> {"idle", "load", "inc", "in", "signal"}]
  /\ phase \in [Readers -> Phases]
  /\ dpc \in {"idle", "or", "wait", "asleep", "reload", "clear"}
  /\ dphase \in Phases
  /\ dvalue \in Nat
  /\ owed \subseteq Readers

Holders(p) == {r \in Readers : pc[r] = "in" /\ phase[r] = p}

\* Each counter is the number of sections that hold its phase as token, even
\* when the increment lost the race against the DRAINING bit: phaser_exit
\* always decrements the counter phaser_enter incremented.
CountersExact == \A p \in Phases : count[p] = Cardinality(Holders(p))

\* "phaser_drain guarantees that at most one counter has a DRAINING bit set"
\* (phaser.c): the bit is set exactly on the counter being drained.
OneDraining ==
  \A p \in Phases :
    draining[p] <=> /\ dpc \in {"wait", "asleep", "reload", "clear"}
                    /\ dphase = p

\* A drain that sleeps in FUTEX_WAIT sleeps on a counter that is not drained
\* yet, or a reader is about to issue the FUTEX_WAKE: no wake-up is lost
\* between the drain's read of the counter and its sleep.
NoLostWakeup ==
  dpc = "asleep" =>
    \/ count[dphase] > 0
    \/ \E r \in Readers : pc[r] = "signal" /\ phase[r] = dphase

\* The sections a drain still owes are open, and in a phase the drain has not
\* finished: a counter once drained cannot hold one of them again.
OwedAhead ==
  \A r \in owed :
    /\ InSection(r)
    /\ dpc # "idle" => IF dpc = "clear" THEN phase[r] > dphase
                                        ELSE phase[r] >= dphase

\* phaser_drain returns only when no section that was open at the call is
\* still open (phaser.h: "blocks until all threads that had entered the
\* monitored region before the call to phaser_drain make the corresponding
\* call to phaser_exit").
DrainCoversCall == [][dpc # "idle" /\ dpc' = "idle" => owed = {}]_vars

GP == INSTANCE GracePeriod WITH
        active <- Active, draining <- (dpc # "idle"), owed <- owed

\* The counters implement the promise of phaser.h.
ImplementsGracePeriod == GP!GPSafeSpec

\* ... and so do its progress claims, under the fairness above.
ImplementsProgress == GP!GPSpec

\* "phaser_drain is guaranteed to make forward progress and complete in finite
\* time", even while new sections keep arriving.
DrainTerminates == dpc # "idle" ~> dpc = "idle"

\* phaser_enter gets in unless drains are called again and again: a single
\* drain, wherever it stands, leaves one counter open.
EnterUnlessDrained ==
  <>[][~DrainCall]_vars => \A r \in Readers : pc[r] = "load" ~> pc[r] = "in"
=============================================================================
