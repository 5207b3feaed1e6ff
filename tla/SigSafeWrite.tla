---------------------------- MODULE SigSafeWrite ----------------------------
(***************************************************************************)
(* linker/sig_safe_write.c: run an operation that may fault, with a fault  *)
(* handler registered for its time that jumps back out of it.  Each call   *)
(* keeps its fault_handler_data in its own stack frame and gives sigmux a  *)
(* pointer to it, so every fault of every thread reads the frames of all   *)
(* the threads that are inside a call.                                     *)
(*                                                                         *)
(* A thread is in one call at a time, so a frame is named by its thread.   *)
(* The registration list is a set here (module Sigmux has its links), the  *)
(* phaser is its abstract specification.  SIGSEGV stands for SIGBUS too.   *)
(* A signal handler of the application may interrupt a call anywhere and   *)
(* fault itself; nothing in the code tells such a fault from one of the    *)
(* operation, and active is still set while a call unregisters after a     *)
(* jump.                                                                   *)
(***************************************************************************)
EXTENDS Integers, FiniteSets

CONSTANTS
  Threads,
  LongjmpOutcomes, \* what the non-volatile local `registration` holds after
                   \* siglongjmp: "kept" (its value) or "null" (the value it
                   \* had at sigsetjmp); C leaves it indeterminate
  NoOne

ASSUME NoOneAssumption == NoOne \notin Threads
ASSUME OutcomesAssumption ==
  LongjmpOutcomes # {} /\ LongjmpOutcomes \subseteq {"kept", "null"}

Signals == {"segv", "ill"}

Kinds == {"op", "exec"}  \* sig_safe_op, sig_safe_exec

\* The sigset the call registers for.
Mask(k) == IF k = "exec" THEN {"ill"} ELSE {"segv"}

VARIABLES
  pc,         \* pc[t]: where thread t stands in its call
  kind,       \* kind[t]: check_sigill of its frame
  activeFlag, \* activeFlag[t]: handler_data.active
  live,       \* live[t]: the frame is on t's stack
  reg,        \* reg[t]: the local `registration` is not NULL
  result,     \* result[t]: "ok", or "fault" after a jump
  lock,       \* sigmux_global.lock
  regs,       \* the frames whose registration is in sigmux's list
  active, draining, owed,  \* the phaser: see GracePeriod
  hpc,        \* hpc[t]: the signal handler on top of t
  hsig,       \* the signal it handles
  cause,      \* who raised it: "op" (the operation of the call) or "other"
  todo,       \* the registrations its walk has still to visit
  at,         \* the registration whose handler it is in
  alive       \* FALSE once a fault nobody claims has killed the process

callVars == <<pc, kind, activeFlag, live, reg, result>>
gpState == <<active, draining, owed>>
handlerVars == <<hpc, hsig, cause, todo, at>>
vars == <<pc, kind, activeFlag, live, reg, result, lock, regs, active,
          draining, owed, hpc, hsig, cause, todo, at, alive>>

GP == INSTANCE GracePeriod WITH Readers <- Threads

Init ==
  /\ pc = [t \in Threads |-> "idle"]
  /\ kind = [t \in Threads |-> "op"]
  /\ activeFlag = [t \in Threads |-> FALSE]
  /\ live = [t \in Threads |-> FALSE]
  /\ reg = [t \in Threads |-> FALSE]
  /\ result = [t \in Threads |-> "none"]
  /\ lock = NoOne
  /\ regs = {}
  /\ GP!GPInit
  /\ hpc = [t \in Threads |-> "none"]
  /\ hsig = [t \in Threads |-> "segv"]
  /\ cause = [t \in Threads |-> "other"]
  /\ todo = [t \in Threads |-> {}]
  /\ at = [t \in Threads |-> t]
  /\ alive = TRUE

\* The thread runs its own code: no signal handler is on top of it.
Runs(t, label) == alive /\ hpc[t] = "none" /\ pc[t] = label

-----------------------------------------------------------------------------
(* sig_safe_op and sig_safe_exec *)

\* A fresh frame; sigsetjmp returns 0.
Call(t, k) ==
  /\ Runs(t, "idle")
  /\ kind' = [kind EXCEPT ![t] = k]
  /\ activeFlag' = [activeFlag EXCEPT ![t] = FALSE]
  /\ live' = [live EXCEPT ![t] = TRUE]
  /\ reg' = [reg EXCEPT ![t] = FALSE]
  /\ result' = [result EXCEPT ![t] = "none"]
  /\ pc' = [pc EXCEPT ![t] = "setup"]
  /\ UNCHANGED <<lock, regs, gpState, handlerVars, alive>>

Register(t) ==
  /\ Runs(t, "setup")
  /\ lock = NoOne
  /\ regs' = regs \cup {t}
  /\ reg' = [reg EXCEPT ![t] = TRUE]
  /\ pc' = [pc EXCEPT ![t] = "ready"]
  /\ UNCHANGED <<kind, activeFlag, live, result, lock, gpState, handlerVars,
                 alive>>

\* No memory for the registration.
RegisterFail(t) ==
  /\ Runs(t, "setup")
  /\ pc' = [pc EXCEPT ![t] = "out"]
  /\ UNCHANGED <<kind, activeFlag, live, reg, result, lock, regs, gpState,
                 handlerVars, alive>>

Activate(t) ==
  /\ Runs(t, "ready")
  /\ activeFlag' = [activeFlag EXCEPT ![t] = TRUE]
  /\ pc' = [pc EXCEPT ![t] = "op"]
  /\ UNCHANGED <<kind, live, reg, result, lock, regs, gpState, handlerVars,
                 alive>>

\* The operation (the store of sig_safe_write) returns.
OpReturn(t) ==
  /\ Runs(t, "op")
  /\ pc' = [pc EXCEPT ![t] = "done"]
  /\ UNCHANGED <<kind, activeFlag, live, reg, result, lock, regs, gpState,
                 handlerVars, alive>>

\* Slip: active is not reset after the operation.
MutDeactivateForgets(t) ==
  /\ Runs(t, "done")
  /\ result' = [result EXCEPT ![t] = "ok"]
  /\ pc' = [pc EXCEPT ![t] = "out"]
  /\ UNCHANGED <<kind, activeFlag, live, reg, lock, regs, gpState, handlerVars,
                 alive>>

Deactivate(t) ==
  /\ Runs(t, "done")
  /\ activeFlag' = [activeFlag EXCEPT ![t] = FALSE]
  /\ result' = [result EXCEPT ![t] = "ok"]
  /\ pc' = [pc EXCEPT ![t] = "out"]
  /\ UNCHANGED <<kind, live, reg, lock, regs, gpState, handlerVars, alive>>

\* out: without a registration the call just returns.
OutReturn(t) ==
  /\ Runs(t, "out")
  /\ ~reg[t]
  /\ live' = [live EXCEPT ![t] = FALSE]
  /\ pc' = [pc EXCEPT ![t] = "idle"]
  /\ UNCHANGED <<kind, activeFlag, reg, result, lock, regs, gpState,
                 handlerVars, alive>>

\* out: sigmux_unregister takes the lock ...
UnregisterLock(t) ==
  /\ Runs(t, "out")
  /\ reg[t]
  /\ lock = NoOne
  /\ lock' = t
  /\ pc' = [pc EXCEPT ![t] = "locked"]
  /\ UNCHANGED <<kind, activeFlag, live, reg, result, regs, gpState,
                 handlerVars, alive>>

\* Slip: the registration is unlinked but not waited for.
MutUnregisterNoDrain(t) ==
  /\ Runs(t, "locked")
  /\ regs' = regs \ {t}
  /\ lock' = NoOne
  /\ live' = [live EXCEPT ![t] = FALSE]
  /\ pc' = [pc EXCEPT ![t] = "idle"]
  /\ UNCHANGED <<kind, activeFlag, reg, result, gpState, handlerVars, alive>>

\* ... unlinks and starts to drain ...
Unregister(t) ==
  /\ Runs(t, "locked")
  /\ regs' = regs \ {t}
  /\ GP!DrainBegin
  /\ pc' = [pc EXCEPT ![t] = "drain"]
  /\ UNCHANGED <<kind, activeFlag, live, reg, result, lock, handlerVars, alive>>

\* ... and returns when no handler can stand on the registration: so does the
\* call.
Unregistered(t) ==
  /\ Runs(t, "drain")
  /\ GP!DrainReturn
  /\ lock' = NoOne
  /\ live' = [live EXCEPT ![t] = FALSE]
  /\ pc' = [pc EXCEPT ![t] = "idle"]
  /\ UNCHANGED <<kind, activeFlag, reg, result, regs, handlerVars, alive>>

-----------------------------------------------------------------------------
(* A fault and fault_handler *)

\* sigmux_handle_signal opens a section and starts at the head of the list.
Deliver(t, s, c) ==
  /\ GP!SectionEnter(t)
  /\ hpc' = [hpc EXCEPT ![t] = "walk"]
  /\ hsig' = [hsig EXCEPT ![t] = s]
  /\ cause' = [cause EXCEPT ![t] = c]
  /\ todo' = [todo EXCEPT ![t] = {f \in regs : s \in Mask(kind[f])}]
  /\ UNCHANGED <<callVars, lock, regs, at, alive>>

\* The operation faults the way its kind of call provides for.
OpFault(t) ==
  /\ Runs(t, "op")
  /\ \E s \in Mask(kind[t]) : Deliver(t, s, "op")

\* A fault of the application: of its own code outside a call, or of a signal
\* handler of its own that has interrupted the call, wherever that is.
OtherFault(t, s) ==
  /\ alive
  /\ hpc[t] = "none"
  /\ Deliver(t, s, "other")

\* The walk comes to registration f and calls fault_handler.
Visit(t, f) ==
  /\ alive
  /\ hpc[t] = "walk"
  /\ f \in todo[t]
  /\ todo' = [todo EXCEPT ![t] = @ \ {f}]
  /\ at' = [at EXCEPT ![t] = f]
  /\ hpc' = [hpc EXCEPT ![t] = "visit"]
  /\ UNCHANGED <<callVars, lock, regs, gpState, hsig, cause, alive>>

\* f was unlinked before the walk came to it.
PassBy(t, f) ==
  /\ alive
  /\ hpc[t] = "walk"
  /\ f \in todo[t] \ regs
  /\ todo' = [todo EXCEPT ![t] = @ \ {f}]
  /\ UNCHANGED <<callVars, lock, regs, gpState, hpc, hsig, cause, at, alive>>

\* Slip: check_sigill is tested the wrong way round.
MutClaimsWrongSignal(t, f) ==
  f = t /\ activeFlag[f] /\ (kind[f] = "exec" <=> hsig[t] # "ill")

\* The tests of fault_handler on the frame f.
Claims(t, f) ==
  f = t /\ activeFlag[f] /\ (kind[f] = "exec" <=> hsig[t] = "ill")

\* SIGMUX_CONTINUE_SEARCH
Decline(t) ==
  /\ alive
  /\ hpc[t] = "visit"
  /\ ~Claims(t, at[t])
  /\ hpc' = [hpc EXCEPT ![t] = "walk"]
  /\ UNCHANGED <<callVars, lock, regs, gpState, hsig, cause, todo, at, alive>>

\* Slip: the section is not left before the jump.
MutJumpInSection(t) ==
  /\ alive
  /\ hpc[t] = "visit"
  /\ Claims(t, at[t])
  /\ hpc' = [hpc EXCEPT ![t] = "none"]
  /\ todo' = [todo EXCEPT ![t] = {}]
  /\ result' = [result EXCEPT ![t] = "fault"]
  /\ pc' = [pc EXCEPT ![t] = "out"]
  /\ UNCHANGED <<kind, activeFlag, live, reg, lock, regs, gpState, hsig, cause,
                 at, alive>>

\* sigmux_longjmp into the frame: out of the section, sigsetjmp returns 1,
\* goto out.  A lock taken since then stays taken.
Jump(t) ==
  /\ alive
  /\ hpc[t] = "visit"
  /\ Claims(t, at[t])
  /\ GP!SectionExit(t)
  /\ hpc' = [hpc EXCEPT ![t] = "none"]
  /\ todo' = [todo EXCEPT ![t] = {}]
  /\ \E o \in LongjmpOutcomes :
       reg' = [reg EXCEPT ![t] = o = "kept" /\ reg[at[t]]]
  /\ result' = [result EXCEPT ![t] = "fault"]
  /\ pc' = [pc EXCEPT ![t] = "out"]
  /\ UNCHANGED <<kind, activeFlag, live, lock, regs, hsig, cause, at, alive>>

\* Nobody claims the fault: the chained action kills the process or deals
\* with it and resumes the thread.
FallThrough(t) ==
  /\ alive
  /\ hpc[t] = "walk"
  /\ todo[t] = {}
  /\ GP!SectionExit(t)
  /\ hpc' = [hpc EXCEPT ![t] = "none"]
  /\ alive' \in BOOLEAN
  /\ UNCHANGED <<callVars, lock, regs, hsig, cause, todo, at>>

-----------------------------------------------------------------------------

CallStep(t) ==
  \/ Register(t) \/ RegisterFail(t) \/ Activate(t) \/ OpReturn(t) \/ OpFault(t)
  \/ Deactivate(t) \/ OutReturn(t) \/ UnregisterLock(t) \/ Unregister(t)
  \/ Unregistered(t)

HandlerStep(t) ==
  \/ \E f \in Threads : Visit(t, f) \/ PassBy(t, f)
  \/ Decline(t) \/ Jump(t) \/ FallThrough(t)

Next ==
  \E t \in Threads :
    \/ \E k \in Kinds : Call(t, k)
    \/ \E s \in Signals : OtherFault(t, s)
    \/ CallStep(t)
    \/ HandlerStep(t)

SafeSpec == Init /\ [][Next]_vars

(***************************************************************************)
(* Handlers run to their end.  The code of a thread does too, although     *)
(* handlers interrupt it and its lock may be taken again and again by      *)
(* others: hence strong fairness.  Nobody has to call, nothing has to      *)
(* fault outside the operation.                                            *)
(***************************************************************************)
Spec ==
  /\ SafeSpec
  /\ \A t \in Threads : SF_vars(CallStep(t)) /\ WF_vars(HandlerStep(t))

-----------------------------------------------------------------------------
(* Properties *)

TypeOK ==
  /\ pc \in [Threads -> {"idle", "setup", "ready", "op", "done", "out", "locked", "drain"}]
  /\ kind \in [Threads -> Kinds]
  /\ activeFlag \in [Threads -> BOOLEAN]
  /\ live \in [Threads -> BOOLEAN]
  /\ reg \in [Threads -> BOOLEAN]
  /\ result \in [Threads -> {"none", "ok", "fault"}]
  /\ lock \in Threads \cup {NoOne}
  /\ regs \subseteq Threads
  /\ GP!GPTypeOK
  /\ hpc \in [Threads -> {"none", "walk", "visit"}]
  /\ hsig \in [Threads -> Signals]
  /\ cause \in [Threads -> {"op", "other"}]
  /\ todo \in [Threads -> SUBSET Threads]
  /\ at \in [Threads -> Threads]
  /\ alive \in BOOLEAN

\* fault_handler only reads frames of calls that have not returned, its own
\* thread's or another's: sigmux_unregister keeps a call from returning while
\* any thread's handler can still stand on its registration.
ReadsLiveFrames == \A t \in Threads : hpc[t] = "visit" => live[at[t]]

\* A jump lands in a call of its own thread that has not returned, is still
\* registered, and has not succeeded: neither a jmp_buf of a frame that is gone
\* nor a result that is settled is ever used, though active stays set while a
\* call unregisters after a jump (sig_safe_write.c:51-75, 105-113).
\* The comment there says more, that the fault was caused by the predetermined
\* code (41-42): nothing determines that, and a fault of a signal handler of the
\* application that has interrupted the call is jumped out of as well.
JumpsIntoOpenCall ==
  [][\A t \in Threads :
       Jump(t) => /\ at[t] = t /\ live[t] /\ t \in regs
                  /\ result[t] # "ok"
                  /\ pc[t] \in {"out", "locked"} => result[t] = "fault"]_vars

\* A fault of the operation never reaches the chained action: sig_safe_op
\* "bails out in case of failure".
OpFaultClaimed ==
  [][\A t \in Threads : FallThrough(t) => cause[t] # "op"]_vars

NoOtherFaults == [][\A t \in Threads, s \in Signals : ~OtherFault(t, s)]_vars

\* A call that has jumped while it held the lock waits for itself.
LockedOut(t) == pc[t] = "out" /\ lock = t

\* Every call returns, as long as the process lives and the application stops
\* faulting elsewhere: draining under the lock, with the faults of other
\* threads' operations in between, cannot end in a circle of threads.  Only a
\* call that is LockedOut stops the others with it (sig_safe_write.c:110-113).
CallReturns ==
  <>NoOtherFaults =>
    \A t \in Threads :
      pc[t] # "idle" ~> (pc[t] = "idle" \/ ~alive \/ \E u \in Threads : LockedOut(u))
=============================================================================
