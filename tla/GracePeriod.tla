---------------------------- MODULE GracePeriod ----------------------------
(***************************************************************************)
(* What phaser.h promises, with no counters: readers enter and leave       *)
(* critical sections at any time, and a drain, once called, returns only   *)
(* when every section that was open at the call has been left.  A drain    *)
(* may wait for later sections too, so DrainReturn is allowed, not forced, *)
(* at the first instant at which nothing is owed.                          *)
(***************************************************************************)
CONSTANT Readers  \* the executions of critical sections

VARIABLES
  active,   \* the readers inside a critical section
  draining, \* TRUE between the call of phaser_drain and its return
  owed      \* the sections open at the call that are still open

gpVars == <<active, draining, owed>>

GPTypeOK ==
  /\ active \subseteq Readers
  /\ draining \in BOOLEAN
  /\ owed \subseteq active

GPInit ==
  /\ active = {}
  /\ draining = FALSE
  /\ owed = {}

\* phaser_enter is never refused, whatever the drain is doing.
SectionEnter(r) ==
  /\ r \notin active
  /\ active' = active \cup {r}
  /\ UNCHANGED <<draining, owed>>

SectionExit(r) ==
  /\ r \in active
  /\ active' = active \ {r}
  /\ owed' = owed \ {r}
  /\ UNCHANGED draining

\* Callers serialise drains, so there is at most one.
DrainBegin ==
  /\ ~draining
  /\ draining' = TRUE
  /\ owed' = active
  /\ UNCHANGED active

DrainReturn ==
  /\ draining
  /\ owed = {}
  /\ draining' = FALSE
  /\ UNCHANGED <<active, owed>>

GPNext ==
  \/ \E r \in Readers : SectionEnter(r) \/ SectionExit(r)
  \/ DrainBegin
  \/ DrainReturn

GPSafeSpec == GPInit /\ [][GPNext]_gpVars

\* "phaser_drain is guaranteed to make forward progress and complete in
\* finite time, assuming critical sections do the same."
GPFairness ==
  /\ \A r \in Readers : WF_gpVars(SectionExit(r))
  /\ WF_gpVars(DrainReturn)

GPSpec == GPSafeSpec /\ GPFairness
=============================================================================
