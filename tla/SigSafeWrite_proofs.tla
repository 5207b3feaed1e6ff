------------------------ MODULE SigSafeWrite_proofs ------------------------
(***************************************************************************)
(* Proofs about SigSafeWrite, for any number of threads and faults that    *)
(* strike anywhere: when the local `registration` survives siglongjmp,     *)
(* fault_handler reads only frames on a stack, claims every fault of an    *)
(* operation and jumps only into calls that are open.                      *)
(***************************************************************************)
EXTENDS SigSafeWrite, TLAPS

\* A frame is on the stack exactly during its call.
FrameInv == \A t \in Threads : live[t] <=> pc[t] # "idle"

\* When the frame is registered, and what the local `registration` knows.
RegInv ==
  \A t \in Threads :
    /\ t \in regs <=> pc[t] \in {"ready", "op", "done", "out", "locked"} /\ reg[t]
    /\ pc[t] \in {"ready", "op", "done", "locked", "drain"} => reg[t]
    /\ pc[t] = "setup" => ~reg[t]

\* active is set during the operation, and a jump leaves it set.
ActiveInv ==
  \A t \in Threads :
    /\ pc[t] \in {"setup", "ready", "op", "done"} => result[t] = "none"
    /\ pc[t] \in {"setup", "ready"} => ~activeFlag[t]
    /\ pc[t] \in {"op", "done"} => activeFlag[t]
    /\ pc[t] \in {"out", "locked", "drain"} /\ result[t] # "fault" => ~activeFlag[t]

\* The lock is held by the call that unregisters, or by one that has jumped
\* since it took it; at most one call drains, and not from inside a section.
LockInv ==
  /\ \A t \in Threads :
       /\ pc[t] \in {"locked", "drain"} => lock = t
       /\ lock = t => pc[t] \in {"locked", "drain"} \/ (pc[t] = "out" /\ reg[t])
       /\ pc[t] = "drain" => t \notin owed
  /\ draining <=> \E t \in Threads : pc[t] = "drain"

\* A handler runs exactly inside a section.
SectionInv == \A t \in Threads : t \in active <=> hpc[t] # "none"

\* Frame f can be reached by the handler on t without harm: it is registered,
\* or its drain still owes that handler.
Reachable(t, f) == f \in regs \/ (pc[f] = "drain" /\ t \in owed)

\* The frames a handler stands on or has still to visit can be reached.
IterInv ==
  \A t \in Threads : hpc[t] # "none" =>
    /\ \A f \in todo[t] : Reachable(t, f)
    /\ hpc[t] = "visit" => Reachable(t, at[t])

\* The handler of a fault of the operation has its own frame ahead of it, or
\* stands on it.
ClaimInv ==
  \A t \in Threads : hpc[t] # "none" /\ cause[t] = "op" =>
    /\ pc[t] = "op"
    /\ hsig[t] \in Mask(kind[t])
    /\ t \in todo[t] \/ (hpc[t] = "visit" /\ at[t] = t)

Inv ==
  /\ TypeOK
  /\ FrameInv
  /\ RegInv
  /\ ActiveInv
  /\ LockInv
  /\ SectionInv
  /\ IterInv
  /\ ClaimInv

\* What the thread of a call does, and what happens in a handler.
OwnStep(t) == (\E k \in Kinds : Call(t, k)) \/ CallStep(t)

Raise(t) == OpFault(t) \/ \E s \in Signals : OtherFault(t, s)

USE DEF Signals, Kinds, Mask, callVars, gpState, handlerVars

-----------------------------------------------------------------------------
(* Types *)

\* The steps of a call keep the types.
LEMMA TypeCall ==
  ASSUME TypeOK, NEW t \in Threads,
         \/ \E k \in Kinds : Call(t, k)
         \/ Register(t) \/ RegisterFail(t) \/ Activate(t) \/ OpReturn(t)
         \/ Deactivate(t) \/ OutReturn(t) \/ UnregisterLock(t) \/ Unregister(t)
         \/ Unregistered(t)
  PROVE  TypeOK'
<1> USE DEF TypeOK, GP!GPTypeOK, Runs
<1>1. ASSUME NEW k \in Kinds, Call(t, k) PROVE TypeOK'
  BY <1>1 DEF Call
<1>2. CASE Register(t)
  BY <1>2 DEF Register
<1>3. CASE RegisterFail(t)
  BY <1>3 DEF RegisterFail
<1>4. CASE Activate(t)
  BY <1>4 DEF Activate
<1>5. CASE OpReturn(t)
  BY <1>5 DEF OpReturn
<1>6. CASE Deactivate(t)
  BY <1>6 DEF Deactivate
<1>7. CASE OutReturn(t)
  BY <1>7 DEF OutReturn
<1>8. CASE UnregisterLock(t)
  BY <1>8 DEF UnregisterLock
<1>9. CASE Unregister(t)
  BY <1>9 DEF Unregister, GP!DrainBegin
<1>10. CASE Unregistered(t)
  BY <1>10 DEF Unregistered, GP!DrainReturn
<1> QED
  BY <1>1, <1>2, <1>3, <1>4, <1>5, <1>6, <1>7, <1>8, <1>9, <1>10

\* Faults and the steps of handlers keep the types.
LEMMA TypeHandler ==
  ASSUME TypeOK, NEW t \in Threads, Raise(t) \/ HandlerStep(t)
  PROVE  TypeOK'
<1> USE DEF TypeOK, GP!GPTypeOK
<1>1. CASE Raise(t)
  <2>1. PICK s \in Signals, c \in {"op", "other"} : Deliver(t, s, c)
    BY <1>1 DEF Raise, OpFault, OtherFault
  <2> QED
    BY <2>1 DEF Deliver, GP!SectionEnter
<1>2. CASE \E f \in Threads : Visit(t, f) \/ PassBy(t, f)
  BY <1>2, SMTT(40) DEF Visit, PassBy
<1>3. CASE Decline(t)
  BY <1>3 DEF Decline
<1>4. CASE Jump(t)
  BY <1>4 DEF Jump, GP!SectionExit
<1>5. CASE FallThrough(t)
  BY <1>5 DEF FallThrough, GP!SectionExit
<1> QED
  BY <1>1, <1>2, <1>3, <1>4, <1>5 DEF HandlerStep

-----------------------------------------------------------------------------
(* The invariant *)
\* A fresh frame is registered nowhere.
LEMMA CallInv ==
  ASSUME Inv, NEW t \in Threads, NEW k \in Kinds, Call(t, k)
  PROVE  Inv'
<1> USE DEF Inv, TypeOK, Runs
<1>1. TypeOK'
  BY TypeCall
<1>2. FrameInv' /\ RegInv'
  BY DEF Call, FrameInv, RegInv
<1>3. ActiveInv'
  BY DEF Call, ActiveInv
<1>4. LockInv' /\ SectionInv'
  BY NoOneAssumption DEF Call, LockInv, SectionInv
<1>5. IterInv'
  BY DEF Call, IterInv, Reachable, RegInv, LockInv, SectionInv
<1>6. ClaimInv'
  BY DEF Call, ClaimInv
<1> QED
  BY <1>1, <1>2, <1>3, <1>4, <1>5, <1>6

\* The frame becomes reachable while it is on the stack.
LEMMA RegisterInv ==
  ASSUME Inv, NEW t \in Threads, Register(t)
  PROVE  Inv'
<1> USE DEF Inv, TypeOK, Runs
<1>1. TypeOK'
  BY TypeCall
<1>2. FrameInv' /\ RegInv'
  BY DEF Register, FrameInv, RegInv
<1>3. ActiveInv'
  BY DEF Register, ActiveInv
<1>4. LockInv' /\ SectionInv'
  BY NoOneAssumption DEF Register, LockInv, SectionInv
<1>5. IterInv'
  BY DEF Register, IterInv, Reachable, RegInv, LockInv, SectionInv
<1>6. ClaimInv'
  BY DEF Register, ClaimInv
<1> QED
  BY <1>1, <1>2, <1>3, <1>4, <1>5, <1>6

\* Without a registration the call goes straight to its end.
LEMMA RegisterFailInv ==
  ASSUME Inv, NEW t \in Threads, RegisterFail(t)
  PROVE  Inv'
<1> USE DEF Inv, TypeOK, Runs
<1>1. TypeOK'
  BY TypeCall
<1>2. FrameInv' /\ RegInv'
  BY DEF RegisterFail, FrameInv, RegInv
<1>3. ActiveInv'
  BY DEF RegisterFail, ActiveInv
<1>4. LockInv' /\ SectionInv'
  BY NoOneAssumption DEF RegisterFail, LockInv, SectionInv
<1>5. IterInv'
  BY DEF RegisterFail, IterInv, Reachable, RegInv, LockInv, SectionInv
<1>6. ClaimInv'
  BY DEF RegisterFail, ClaimInv
<1> QED
  BY <1>1, <1>2, <1>3, <1>4, <1>5, <1>6

\* The operation begins with active set.
LEMMA ActivateInv ==
  ASSUME Inv, NEW t \in Threads, Activate(t)
  PROVE  Inv'
<1> USE DEF Inv, TypeOK, Runs
<1>1. TypeOK'
  BY TypeCall
<1>2. FrameInv' /\ RegInv'
  BY DEF Activate, FrameInv, RegInv
<1>3. ActiveInv'
  BY DEF Activate, ActiveInv
<1>4. LockInv' /\ SectionInv'
  BY NoOneAssumption DEF Activate, LockInv, SectionInv
<1>5. IterInv'
  BY DEF Activate, IterInv, Reachable, RegInv, LockInv, SectionInv
<1>6. ClaimInv'
  BY DEF Activate, ClaimInv
<1> QED
  BY <1>1, <1>2, <1>3, <1>4, <1>5, <1>6

\* The operation ends with active still set.
LEMMA OpReturnInv ==
  ASSUME Inv, NEW t \in Threads, OpReturn(t)
  PROVE  Inv'
<1> USE DEF Inv, TypeOK, Runs
<1>1. TypeOK'
  BY TypeCall
<1>2. FrameInv' /\ RegInv'
  BY DEF OpReturn, FrameInv, RegInv
<1>3. ActiveInv'
  BY DEF OpReturn, ActiveInv
<1>4. LockInv' /\ SectionInv'
  BY NoOneAssumption DEF OpReturn, LockInv, SectionInv
<1>5. IterInv'
  BY DEF OpReturn, IterInv, Reachable, RegInv, LockInv, SectionInv
<1>6. ClaimInv'
  BY DEF OpReturn, ClaimInv
<1> QED
  BY <1>1, <1>2, <1>3, <1>4, <1>5, <1>6

\* The call ends with active reset.
LEMMA DeactivateInv ==
  ASSUME Inv, NEW t \in Threads, Deactivate(t)
  PROVE  Inv'
<1> USE DEF Inv, TypeOK, Runs
<1>1. TypeOK'
  BY TypeCall
<1>2. FrameInv' /\ RegInv'
  BY DEF Deactivate, FrameInv, RegInv
<1>3. ActiveInv'
  BY DEF Deactivate, ActiveInv
<1>4. LockInv' /\ SectionInv'
  BY NoOneAssumption DEF Deactivate, LockInv, SectionInv
<1>5. IterInv'
  BY DEF Deactivate, IterInv, Reachable, RegInv, LockInv, SectionInv
<1>6. ClaimInv'
  BY DEF Deactivate, ClaimInv
<1> QED
  BY <1>1, <1>2, <1>3, <1>4, <1>5, <1>6

\* A call that never registered may return at once.
LEMMA OutReturnInv ==
  ASSUME Inv, NEW t \in Threads, OutReturn(t)
  PROVE  Inv'
<1> USE DEF Inv, TypeOK, Runs
<1>1. TypeOK'
  BY TypeCall
<1>2. FrameInv' /\ RegInv'
  BY DEF OutReturn, FrameInv, RegInv
<1>3. ActiveInv'
  BY DEF OutReturn, ActiveInv
<1>4. LockInv' /\ SectionInv'
  BY NoOneAssumption DEF OutReturn, LockInv, SectionInv
<1>5. IterInv'
  BY DEF OutReturn, IterInv, Reachable, RegInv, LockInv, SectionInv
<1>6. ClaimInv'
  BY DEF OutReturn, ClaimInv
<1> QED
  BY <1>1, <1>2, <1>3, <1>4, <1>5, <1>6

\* Nothing but the lock changes hands.
LEMMA UnregisterLockInv ==
  ASSUME Inv, NEW t \in Threads, UnregisterLock(t)
  PROVE  Inv'
<1> USE DEF Inv, TypeOK, Runs
<1>1. TypeOK'
  BY TypeCall
<1>2. FrameInv' /\ RegInv'
  BY DEF UnregisterLock, FrameInv, RegInv
<1>3. ActiveInv'
  BY DEF UnregisterLock, ActiveInv
<1>4. LockInv' /\ SectionInv'
  BY NoOneAssumption DEF UnregisterLock, LockInv, SectionInv
<1>5. IterInv'
  BY DEF UnregisterLock, IterInv, Reachable, RegInv, LockInv, SectionInv
<1>6. ClaimInv'
  BY DEF UnregisterLock, ClaimInv
<1> QED
  BY <1>1, <1>2, <1>3, <1>4, <1>5, <1>6

\* Whoever can reach the frame is in a section, hence owed.
LEMMA UnregisterInv ==
  ASSUME Inv, NEW t \in Threads, Unregister(t)
  PROVE  Inv'
<1> USE DEF Inv, TypeOK, Runs
<1>1. TypeOK'
  BY TypeCall
<1>2. FrameInv' /\ RegInv'
  BY DEF Unregister, GP!DrainBegin, FrameInv, RegInv
<1>3. ActiveInv'
  BY DEF Unregister, GP!DrainBegin, ActiveInv
<1>4. LockInv' /\ SectionInv'
  BY NoOneAssumption DEF Unregister, GP!DrainBegin, LockInv, SectionInv
<1>5. IterInv'
  BY DEF Unregister, GP!DrainBegin, IterInv, Reachable, RegInv, LockInv, SectionInv
<1>6. ClaimInv'
  BY DEF Unregister, GP!DrainBegin, ClaimInv
<1> QED
  BY <1>1, <1>2, <1>3, <1>4, <1>5, <1>6

\* When nothing is owed nobody can reach the frame.
LEMMA UnregisteredInv ==
  ASSUME Inv, NEW t \in Threads, Unregistered(t)
  PROVE  Inv'
<1> USE DEF Inv, TypeOK, Runs
<1>1. TypeOK'
  BY TypeCall
<1>2. FrameInv' /\ RegInv'
  BY DEF Unregistered, GP!DrainReturn, FrameInv, RegInv
<1>3. ActiveInv'
  BY DEF Unregistered, GP!DrainReturn, ActiveInv
<1>4. LockInv' /\ SectionInv'
  BY NoOneAssumption DEF Unregistered, GP!DrainReturn, LockInv, SectionInv
<1>5. IterInv'
  BY DEF Unregistered, GP!DrainReturn, IterInv, Reachable, RegInv, LockInv, SectionInv
<1>6. ClaimInv'
  BY DEF Unregistered, GP!DrainReturn, ClaimInv
<1> QED
  BY <1>1, <1>2, <1>3, <1>4, <1>5, <1>6

\* The handler moves to a frame it could reach.
LEMMA VisitInv ==
  ASSUME Inv, NEW t \in Threads, NEW f \in Threads, Visit(t, f)
  PROVE  Inv'
<1> USE DEF Inv, TypeOK
<1>1. TypeOK'
  BY TypeHandler DEF HandlerStep
<1>2. FrameInv' /\ RegInv' /\ ActiveInv'
  BY DEF Visit, FrameInv, RegInv, ActiveInv
<1>3. LockInv' /\ SectionInv'
  BY DEF Visit, LockInv, SectionInv
<1>4. IterInv'
  BY DEF Visit, IterInv, Reachable
<1>5. ClaimInv'
  BY DEF Visit, ClaimInv, RegInv, ActiveInv
<1> QED
  BY <1>1, <1>2, <1>3, <1>4, <1>5

\* A frame passed by is not the handler's own if the operation faulted.
LEMMA PassByInv ==
  ASSUME Inv, NEW t \in Threads, NEW f \in Threads, PassBy(t, f)
  PROVE  Inv'
<1> USE DEF Inv, TypeOK
<1>1. TypeOK'
  BY TypeHandler DEF HandlerStep
<1>2. FrameInv' /\ RegInv' /\ ActiveInv'
  BY DEF PassBy, FrameInv, RegInv, ActiveInv
<1>3. LockInv' /\ SectionInv'
  BY DEF PassBy, LockInv, SectionInv
<1>4. IterInv'
  BY DEF PassBy, IterInv, Reachable
<1>5. ClaimInv'
  BY DEF PassBy, ClaimInv, RegInv, ActiveInv
<1> QED
  BY <1>1, <1>2, <1>3, <1>4, <1>5

\* Only a foreign fault is declined.
LEMMA DeclineInv ==
  ASSUME Inv, NEW t \in Threads, Decline(t)
  PROVE  Inv'
<1> USE DEF Inv, TypeOK
<1>1. TypeOK'
  BY TypeHandler DEF HandlerStep
<1>2. FrameInv' /\ RegInv' /\ ActiveInv'
  BY DEF Decline, Claims, FrameInv, RegInv, ActiveInv
<1>3. LockInv' /\ SectionInv'
  BY DEF Decline, Claims, LockInv, SectionInv
<1>4. IterInv'
  BY DEF Decline, Claims, IterInv, Reachable
<1>5. ClaimInv'
  BY DEF Decline, Claims, ClaimInv, RegInv, ActiveInv
<1> QED
  BY <1>1, <1>2, <1>3, <1>4, <1>5

\* The walk ends.
LEMMA FallThroughInv ==
  ASSUME Inv, NEW t \in Threads, FallThrough(t)
  PROVE  Inv'
<1> USE DEF Inv, TypeOK
<1>1. TypeOK'
  BY TypeHandler DEF HandlerStep
<1>2. FrameInv' /\ RegInv' /\ ActiveInv'
  BY DEF FallThrough, GP!SectionExit, FrameInv, RegInv, ActiveInv
<1>3. LockInv' /\ SectionInv'
  BY DEF FallThrough, GP!SectionExit, LockInv, SectionInv
<1>4. IterInv'
  BY DEF FallThrough, GP!SectionExit, IterInv, Reachable
<1>5. ClaimInv'
  BY DEF FallThrough, GP!SectionExit, ClaimInv, RegInv, ActiveInv
<1> QED
  BY <1>1, <1>2, <1>3, <1>4, <1>5

\* A fault opens a section and starts on frames that are registered; the
\* operation's own frame is one of them.
LEMMA RaiseInv ==
  ASSUME Inv, NEW t \in Threads, Raise(t)
  PROVE  Inv'
<1> USE DEF Inv, TypeOK
<1>1. TypeOK'
  BY TypeHandler
<1>2. PICK s \in Signals, c \in {"op", "other"} :
        /\ Deliver(t, s, c)
        /\ hpc[t] = "none"
        /\ c = "op" => pc[t] = "op" /\ s \in Mask(kind[t])
  BY DEF Raise, OpFault, OtherFault, Runs
<1> USE DEF Deliver, GP!SectionEnter
<1>3. FrameInv' /\ RegInv' /\ ActiveInv'
  BY <1>2 DEF FrameInv, RegInv, ActiveInv
<1>4. LockInv' /\ SectionInv'
  BY <1>2 DEF LockInv, SectionInv
<1>5. IterInv'
  BY <1>2 DEF IterInv, Reachable
<1>6. ClaimInv'
  BY <1>2 DEF ClaimInv, RegInv
<1> QED
  BY <1>1, <1>3, <1>4, <1>5, <1>6

\* fault_handler jumps only into the frame of its own thread, while the
\* operation runs or a call that has jumped before has not unlinked yet.
LEMMA JumpTarget ==
  ASSUME Inv, NEW t \in Threads, Jump(t)
  PROVE  /\ at[t] = t /\ live[t] /\ t \in regs /\ reg[t]
         /\ pc[t] \in {"op", "done", "out", "locked"}
         /\ result[t] # "ok" /\ (pc[t] \in {"out", "locked"} => result[t] = "fault")
<1>1. hpc[t] = "visit" /\ at[t] = t /\ activeFlag[t]
  BY DEF Jump, Claims
<1>2. Reachable(t, t)
  BY <1>1 DEF Inv, IterInv
<1>3. t \in regs
  BY <1>2 DEF Inv, LockInv, Reachable
<1>4. pc[t] \in {"ready", "op", "done", "out", "locked"} /\ reg[t]
  BY <1>3 DEF Inv, RegInv
<1>5. pc[t] # "ready" /\ live[t]
  BY <1>1, <1>4 DEF Inv, ActiveInv, FrameInv
<1> QED
  BY <1>1, <1>3, <1>4, <1>5 DEF Inv, ActiveInv

\* The jump leaves the section; the frame stays registered until the end of
\* the call because the local `registration` has kept its value.
LEMMA JumpInv ==
  ASSUME LongjmpOutcomes = {"kept"}, Inv, NEW t \in Threads, Jump(t)
  PROVE  Inv'
<1> USE DEF Inv, TypeOK
<1>1. TypeOK'
  BY TypeHandler DEF HandlerStep
<1>2. at[t] = t /\ t \in regs /\ reg[t] /\ pc[t] \in {"op", "done", "out", "locked"}
  BY JumpTarget
<1>3. reg' = reg
  <2>1. reg' = [reg EXCEPT ![t] = reg[t]]
    BY <1>2 DEF Jump
  <2> QED
    BY <2>1
<1> USE DEF Jump, GP!SectionExit
<1>4. FrameInv' /\ RegInv'
  BY <1>2, <1>3 DEF FrameInv, RegInv
<1>5. ActiveInv'
  BY <1>2 DEF ActiveInv
<1>6. LockInv' /\ SectionInv'
  BY <1>2 DEF LockInv, SectionInv
<1>7. IterInv'
  BY <1>2 DEF IterInv, Reachable
<1>8. ClaimInv'
  BY DEF ClaimInv
<1> QED
  BY <1>1, <1>4, <1>5, <1>6, <1>7, <1>8

\* No step breaks the invariant.
LEMMA StepInv ==
  ASSUME LongjmpOutcomes = {"kept"}, Inv, [Next]_vars
  PROVE  Inv'
<1>1. CASE UNCHANGED vars
  BY <1>1 DEF vars, Inv, TypeOK, GP!GPTypeOK, FrameInv, RegInv, ActiveInv,
     LockInv, SectionInv, IterInv, Reachable, ClaimInv
<1>2. ASSUME NEW t \in Threads, OwnStep(t), ~OpFault(t)
      PROVE  Inv'
  BY <1>2, CallInv, RegisterInv, RegisterFailInv, ActivateInv, OpReturnInv,
     DeactivateInv, OutReturnInv, UnregisterLockInv, UnregisterInv, UnregisteredInv
     DEF OwnStep, CallStep
<1>3. ASSUME NEW t \in Threads, HandlerStep(t)
      PROVE  Inv'
  BY <1>3, VisitInv, PassByInv, DeclineInv, JumpInv, FallThroughInv
     DEF HandlerStep
<1>4. ASSUME NEW t \in Threads, Raise(t)
      PROVE  Inv'
  BY <1>4, RaiseInv
<1>5. Next => \E t \in Threads :
                (OwnStep(t) /\ ~OpFault(t)) \/ HandlerStep(t) \/ Raise(t)
  BY DEF Next, OwnStep, Raise
<1> QED
  BY <1>1, <1>2, <1>3, <1>4, <1>5

\* The invariant holds throughout.
LEMMA Inductive ==
  ASSUME LongjmpOutcomes = {"kept"}
  PROVE  SafeSpec => []Inv
<1>1. Init => Inv
  <2> SUFFICES ASSUME Init PROVE Inv
    OBVIOUS
  <2> USE DEF Init, GP!GPInit
  <2>1. TypeOK
    BY DEF TypeOK, GP!GPTypeOK
  <2>2. FrameInv /\ RegInv /\ ActiveInv
    BY DEF FrameInv, RegInv, ActiveInv
  <2>3. LockInv
    BY NoOneAssumption DEF LockInv
  <2>4. SectionInv /\ IterInv /\ ClaimInv
    BY DEF SectionInv, IterInv, ClaimInv
  <2> QED
    BY <2>1, <2>2, <2>3, <2>4 DEF Inv
<1>2. Inv /\ [Next]_vars => Inv'
  BY StepInv
<1> QED
  BY <1>1, <1>2, PTL DEF SafeSpec

-----------------------------------------------------------------------------
(* Theorems *)

\* For any number of threads, fault_handler reads only frames of calls that
\* have not returned, provided the local `registration` of sig_safe_op keeps
\* its value across siglongjmp.
THEOREM FramesLive ==
  ASSUME LongjmpOutcomes = {"kept"}
  PROVE  SafeSpec => []ReadsLiveFrames
<1>1. Inv => ReadsLiveFrames
  BY DEF Inv, IterInv, Reachable, RegInv, FrameInv, TypeOK, ReadsLiveFrames
<1> QED
  BY <1>1, Inductive, PTL

\* Under the same premise, wherever faults strike: a jump lands in a call of
\* its own thread that has not returned, succeeded or unlinked its
\* registration (sig_safe_write.c:51-75, 105-113).
THEOREM JumpsCorrect ==
  ASSUME LongjmpOutcomes = {"kept"}
  PROVE  SafeSpec => JumpsIntoOpenCall
<1>1. Inv /\ [Next]_vars =>
        [\A t \in Threads :
           Jump(t) => /\ at[t] = t /\ live[t] /\ t \in regs
                      /\ result[t] # "ok"
                      /\ pc[t] \in {"out", "locked"} => result[t] = "fault"]_vars
  BY JumpTarget
<1> QED
  BY <1>1, Inductive, PTL DEF SafeSpec, JumpsIntoOpenCall

\* Under the same premise no fault of the operation falls through to the
\* chained action: fault_handler claims every one of them.
THEOREM FaultsClaimed ==
  ASSUME LongjmpOutcomes = {"kept"}
  PROVE  SafeSpec => OpFaultClaimed
<1>1. Inv /\ [Next]_vars =>
        [\A t \in Threads : FallThrough(t) => cause[t] # "op"]_vars
  BY DEF Inv, ClaimInv, FallThrough
<1> QED
  BY <1>1, Inductive, PTL DEF SafeSpec, OpFaultClaimed
=============================================================================
