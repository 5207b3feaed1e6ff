--------------------------- MODULE Sigmux_proofs ---------------------------
(***************************************************************************)
(* Memory safety of the registration list, the order of calls, and that    *)
(* the list implements SignalTable, for any number of handlers, mutators,  *)
(* registrations and signals.                                              *)
(***************************************************************************)
EXTENDS Sigmux, TLAPS

InList == Linked \cup {Head}

\* The program counters at which a mutator has sigmux_global.lock.
LockPCs == {"publish", "registered", "unlink", "drain", "draining", "drained"}

\* The lock excludes, and a drain runs only inside it.
LockInv ==
  /\ \A m \in Mutators : mpc[m] \in LockPCs <=> lock = m
  /\ draining <=> \E m \in Mutators : mpc[m] = "draining"

\* What a mutator's registration is at each point of its call.
RegInv ==
  \A m \in Mutators :
    /\ mpc[m] = "idle" <=> mreg[m] = Head
    /\ mpc[m] \in {"register", "publish"} => mem[mreg[m]] = "fresh"
    /\ mpc[m] \in {"registered", "unregister", "unlink"} =>
         mem[mreg[m]] = "linked"
    /\ mpc[m] \in {"drain", "draining", "drained", "free"} =>
         mem[mreg[m]] = "unlinked"

\* A registration belongs to one call at a time; a cookie belongs to none.
OwnerInv ==
  /\ \A m, n \in Mutators : mreg[m] = mreg[n] /\ mreg[m] # Head => m = n
  /\ \A m \in Mutators : mreg[m] \notin cookies
  /\ cookies \subseteq Linked

\* Going on from a registration that is being drained leads back to the list
\* (or stays on it): the lock keeps its successor from being unlinked.
TailInv ==
  \A m \in Mutators : mpc[m] \in {"drain", "draining"} =>
    next[mreg[m]] \in InList \cup {mreg[m]}

\* What handler h may stand on: the list, or the registration whose drain has
\* still to begin or still has to wait for h.
Safe(h, n) ==
  \/ n \in InList
  \/ \E m \in Mutators :
       /\ mreg[m] = n
       /\ mpc[m] = "drain" \/ (mpc[m] = "draining" /\ h \in owed)

IterInv ==
  \A h \in Handlers :
    /\ hpc[h] # "idle" <=> h \in active
    /\ Walking(h) => Safe(h, it[h]) /\ Safe(h, reglist[h])

Inv ==
  /\ TypeOK
  /\ ListConsistent
  /\ LockInv
  /\ RegInv
  /\ OwnerInv
  /\ TailInv
  /\ IterInv

-----------------------------------------------------------------------------

\* The invariant gives the property: what a handler stands on is linked, or
\* unlinked and not yet freed.
LEMMA InvImpliesNoUseAfterFree == Inv => NoUseAfterFree
<1> SUFFICES ASSUME Inv, NEW h \in Handlers, Walking(h),
                    NEW n \in {it[h], reglist[h]}, n \in Regs
             PROVE  mem[n] \in {"linked", "unlinked"}
  BY DEF NoUseAfterFree
<1>1. Safe(h, n)
  BY DEF Inv, IterInv
<1>2. CASE n \in InList
  BY <1>2, HeadAssumption DEF InList, Linked
<1>3. CASE n \notin InList
  BY <1>1, <1>3 DEF Safe, Inv, RegInv
<1> QED
  BY <1>2, <1>3

\* The steps of sigmux_register and sigmux_unregister keep the types.
LEMMA TypeStepMutator ==
  ASSUME TypeOK, RegInv, NEW m \in Mutators,
         RegisterAlloc(m) \/ UnregisterCall(m) \/ MutatorStep(m)
  PROVE  TypeOK'
<1> USE DEF TypeOK, GP!GPTypeOK, listVars, mutVars, gpState, handlerVars, Nodes
<1>1. CASE RegisterAlloc(m)
  BY <1>1 DEF RegisterAlloc
<1>2. CASE UnregisterCall(m)
  BY <1>2 DEF UnregisterCall
<1>3. CASE RegisterLock(m) \/ UnregisterLock(m)
  BY <1>3 DEF RegisterLock, UnregisterLock
<1>4. CASE RegisterPublish(m)
  BY <1>4 DEF RegisterPublish, Linked
<1>5. CASE RegisterReturn(m)
  BY <1>5 DEF RegisterReturn, RegInv
<1>6. CASE UnregisterUnlink(m)
  BY <1>6 DEF UnregisterUnlink
<1>7. CASE UnregisterDrain(m) \/ UnregisterDrained(m)
  BY <1>7 DEF UnregisterDrain, UnregisterDrained, GP!DrainBegin,
              GP!DrainReturn
<1>8. CASE UnregisterUnlock(m)
  BY <1>8 DEF UnregisterUnlock
<1>9. CASE UnregisterFree(m)
  BY <1>9 DEF UnregisterFree
<1> QED
  BY <1>1, <1>2, <1>3, <1>4, <1>5, <1>6, <1>7, <1>8, <1>9
     DEF MutatorStep, RegisterStep, UnregisterStep

\* The steps of sigmux_handle_signal keep the types.
LEMMA TypeStepHandler ==
  ASSUME TypeOK, NEW h \in Handlers, HandlerEnter(h) \/ HandlerStep(h)
  PROVE  TypeOK'
<1> USE DEF TypeOK, GP!GPTypeOK, listVars, mutVars, gpState, handlerVars, Nodes
<1>1. CASE HandlerEnter(h)
  BY <1>1, FlagsAssumption DEF HandlerEnter, GP!SectionEnter
<1>2. CASE HandlerLoad(h)
  BY <1>2 DEF HandlerLoad, Linked
<1>3. CASE WalkSkip(h) \/ InvokeSearch(h)
  <2>1. it' \in [Handlers -> Nodes]
    BY <1>3 DEF WalkSkip, InvokeSearch
  <2> QED
    BY <1>3, <2>1 DEF WalkSkip, InvokeSearch
<1>4. CASE WalkInvoke(h)
  BY <1>4 DEF WalkInvoke, PassOver
<1>5. CASE InvokeExecute(h) \/ WalkNextPass(h) \/ WalkEnd(h)
  BY <1>5 DEF InvokeExecute, WalkNextPass, WalkEnd
<1>6. CASE InvokeLongjmp(h) \/ HandlerExit(h)
  <2>1. AnySignal \in Signals
    BY SignalsAssumption DEF AnySignal
  <2>2. GP!SectionExit(h) /\ Leave(h) /\ UNCHANGED <<listVars, mutVars>>
    BY <1>6 DEF InvokeLongjmp, HandlerExit
  <2>3. GP!GPTypeOK'
    BY <2>2 DEF GP!SectionExit
  <2> QED
    BY <2>1, <2>2, <2>3 DEF Leave
<1> QED
  BY <1>1, <1>2, <1>3, <1>4, <1>5, <1>6 DEF HandlerStep

-----------------------------------------------------------------------------
(* Steps of a mutator that leave the links alone. *)

\* A new registration is private: no list and no handler reaches it.
LEMMA AllocInv ==
  ASSUME Inv, NEW m \in Mutators, RegisterAlloc(m)
  PROVE  Inv'
<1> USE DEF Inv, gpState, handlerVars
<1>1. TypeOK'
  BY TypeStepMutator
<1>2. PICK r \in Regs :
        /\ mem[r] = "free"
        /\ mem' = [mem EXCEPT ![r] = "fresh"]
        /\ mreg' = [mreg EXCEPT ![m] = r]
  BY DEF RegisterAlloc
<1>3. mpc[m] = "idle" /\ mpc' = [mpc EXCEPT ![m] = "register"]
  BY DEF RegisterAlloc
<1>4. UNCHANGED <<next, prev, cookies, lock, active, draining, owed, hpc, it,
                  reglist>>
  BY DEF RegisterAlloc
<1>5. Linked' = Linked
  BY <1>2, <1>4 DEF TypeOK, Linked
<1>6. \A n \in Mutators : mreg[n] # r
  BY <1>2, HeadAssumption DEF TypeOK, RegInv
<1>7. ListConsistent'
  BY <1>4, <1>5 DEF ListConsistent
<1>8. LockInv'
  BY <1>3, <1>4 DEF TypeOK, LockInv, LockPCs
<1>9. RegInv'
  BY <1>2, <1>3, <1>4, <1>6, HeadAssumption DEF TypeOK, RegInv
<1>10. OwnerInv'
  <2>1. r \notin cookies
    BY <1>2 DEF OwnerInv, Linked
  <2> QED
    BY <1>2, <1>4, <1>5, <1>6, <2>1 DEF TypeOK, OwnerInv
<1>11. TailInv'
  BY <1>2, <1>3, <1>4, <1>5 DEF TypeOK, TailInv, InList
<1>12. IterInv'
  <2>1. ASSUME NEW h, NEW n, Safe(h, n) PROVE Safe(h, n)'
    BY <1>2, <1>3, <1>4, <1>5, <2>1 DEF TypeOK, Safe, InList
  <2> QED
    BY <1>4, <2>1 DEF IterInv, Walking
<1> QED
  BY <1>1, <1>7, <1>8, <1>9, <1>10, <1>11, <1>12

\* Taking or giving back the lock, the call and the return.
LEMMA ControlInv ==
  ASSUME Inv, NEW m \in Mutators,
         \/ RegisterLock(m) \/ RegisterReturn(m) \/ UnregisterCall(m)
         \/ UnregisterLock(m) \/ UnregisterUnlock(m)
  PROVE  Inv'
<1> USE DEF Inv, gpState, handlerVars, listVars, RegisterLock, RegisterReturn,
            UnregisterCall, UnregisterLock, UnregisterUnlock
<1>1. TypeOK'
  BY TypeStepMutator DEF MutatorStep, RegisterStep, UnregisterStep
<1>2. UNCHANGED <<next, prev, mem, active, draining, owed, hpc, it, reglist>>
  OBVIOUS
<1>3. Linked' = Linked
  BY <1>2 DEF Linked
<1>4. ListConsistent'
  BY <1>2, <1>3 DEF ListConsistent
<1>5. LockInv'
  BY <1>2, NoOneAssumption DEF TypeOK, LockInv, LockPCs
<1>6. RegInv'
  BY <1>2, HeadAssumption DEF TypeOK, RegInv, OwnerInv, Linked
<1>7. OwnerInv'
  <2>1. CASE RegisterReturn(m)
    <3>1. mreg[m] \in Linked
      BY <2>1, HeadAssumption DEF TypeOK, RegInv, Linked, Nodes
    <3>2. \A k \in Mutators : mreg'[k] = IF k = m THEN Head ELSE mreg[k]
      BY <2>1 DEF TypeOK
    <3>3. Head \notin cookies'
      BY <1>1, HeadAssumption DEF TypeOK
    <3>4. \A k \in Mutators : mreg'[k] \notin cookies'
      BY <2>1, <3>1, <3>2, <3>3, HeadAssumption DEF OwnerInv, Linked
    <3> QED
      BY <2>1, <1>3, <3>1, <3>2, <3>4 DEF OwnerInv
  <2>2. CASE UnregisterCall(m)
    BY <2>2, <1>2, <1>3 DEF TypeOK, OwnerInv, RegInv
  <2>3. CASE RegisterLock(m) \/ UnregisterLock(m) \/ UnregisterUnlock(m)
    BY <2>3, <1>2, <1>3 DEF TypeOK, OwnerInv
  <2> QED
    BY <2>1, <2>2, <2>3
<1>8. TailInv'
  BY <1>2, <1>3 DEF TypeOK, TailInv, InList
<1>9. IterInv'
  <2>1. ASSUME NEW h, NEW n, Safe(h, n) PROVE Safe(h, n)'
    BY <1>2, <1>3, <2>1 DEF TypeOK, Safe, InList
  <2> QED
    BY <1>2, <2>1 DEF IterInv, Walking
<1> QED
  BY <1>1, <1>4, <1>5, <1>6, <1>7, <1>8, <1>9

\* The drain begins: every handler that walks is in a section, so it is owed.
LEMMA DrainInv ==
  ASSUME Inv, NEW m \in Mutators, UnregisterDrain(m)
  PROVE  Inv'
<1> USE DEF Inv, handlerVars, listVars, UnregisterDrain, GP!DrainBegin
<1>1. TypeOK'
  BY TypeStepMutator DEF MutatorStep, UnregisterStep
<1>2. Linked' = Linked
  BY DEF Linked
<1>3. ListConsistent'
  BY <1>2 DEF ListConsistent
<1>4. LockInv'
  BY DEF TypeOK, LockInv, LockPCs
<1>5. RegInv' /\ OwnerInv' /\ TailInv'
  BY <1>2 DEF TypeOK, RegInv, OwnerInv, TailInv, InList
<1>6. IterInv'
  <2>1. ASSUME NEW h \in active, NEW n, Safe(h, n) PROVE Safe(h, n)'
    <3>1. CASE n \in InList
      BY <1>2, <3>1 DEF Safe, InList
    <3>2. ASSUME NEW k \in Mutators, mreg[k] = n,
                 mpc[k] = "drain" \/ mpc[k] = "draining"
          PROVE  Safe(h, n)'
      <4>1. k = m
        BY <3>2 DEF LockInv, LockPCs
      <4> QED
        BY <3>2, <4>1 DEF TypeOK, Safe
    <3> QED
      BY <2>1, <3>1, <3>2 DEF Safe
  <2> QED
    BY <2>1 DEF IterInv, Walking
<1> QED
  BY <1>1, <1>3, <1>4, <1>5, <1>6

\* The drain returns: nobody is owed, so nobody stands on the registration.
LEMMA DrainedInv ==
  ASSUME Inv, NEW m \in Mutators, UnregisterDrained(m)
  PROVE  Inv'
<1> USE DEF Inv, handlerVars, listVars, UnregisterDrained, GP!DrainReturn
<1>1. TypeOK'
  BY TypeStepMutator DEF MutatorStep, UnregisterStep
<1>2. Linked' = Linked
  BY DEF Linked
<1>3. ListConsistent'
  BY <1>2 DEF ListConsistent
<1>4. LockInv'
  BY DEF TypeOK, LockInv, LockPCs
<1>5. RegInv' /\ OwnerInv' /\ TailInv'
  BY <1>2 DEF TypeOK, RegInv, OwnerInv, TailInv, InList
<1>6. IterInv'
  <2>1. ASSUME NEW h, NEW n, Safe(h, n) PROVE Safe(h, n)'
    <3>1. CASE n \in InList
      BY <1>2, <3>1 DEF Safe, InList
    <3>2. ASSUME NEW k \in Mutators, mreg[k] = n, mpc[k] = "drain"
          PROVE  FALSE
      BY <3>2 DEF LockInv, LockPCs
    <3> QED
      BY <2>1, <3>1, <3>2 DEF Safe
  <2> QED
    BY <2>1 DEF IterInv, Walking
<1> QED
  BY <1>1, <1>3, <1>4, <1>5, <1>6

-----------------------------------------------------------------------------
(* Steps of a mutator that change the list. *)

\* Publishing makes a complete registration the first of the list.
LEMMA PublishInv ==
  ASSUME Inv, NEW m \in Mutators, RegisterPublish(m)
  PROVE  Inv'
<1> DEFINE r == mreg[m]
<1> USE DEF Inv
<1>1. TypeOK'
  BY TypeStepMutator DEF MutatorStep, RegisterStep
<1>2. /\ mpc[m] = "publish"
      /\ mpc' = [mpc EXCEPT ![m] = "registered"]
      /\ mem' = [mem EXCEPT ![r] = "linked"]
      /\ next' = [next EXCEPT ![r] = next[Head], ![Head] = r]
      /\ prev' = [prev EXCEPT ![r] = Head, ![next[Head]] = r]
      /\ UNCHANGED <<cookies, lock, mreg, active, draining, owed, hpc, it,
                     reglist>>
  BY DEF RegisterPublish, gpState, handlerVars
<1>3. r \in Regs /\ mem[r] = "fresh" /\ r \notin InList /\ r # Head
  BY <1>2, HeadAssumption DEF TypeOK, RegInv, InList, Linked, Nodes
<1>4. Linked' = Linked \cup {r}
  BY <1>2, <1>3 DEF TypeOK, Linked
<1>5. ListConsistent'
  <2>1. next[Head] \in InList /\ prev[next[Head]] = Head
    BY DEF ListConsistent, InList
  <2> SUFFICES ASSUME NEW n \in InList \cup {r}
               PROVE  /\ next'[n] \in InList \cup {r}
                      /\ prev'[n] \in InList \cup {r}
                      /\ prev'[next'[n]] = n
                      /\ next'[prev'[n]] = n
    BY <1>4 DEF ListConsistent, InList
  <2>2. InList \subseteq Nodes /\ r \in Nodes /\ Head \in InList
    BY <1>3 DEF InList, Linked, Nodes
  <2>3. next'[Head] = r /\ next'[r] = next[Head]
    BY <1>2, <1>3, <2>2 DEF TypeOK
  <2>4. prev'[r] = Head /\ prev'[next[Head]] = r
    BY <1>2, <1>3, <2>1, <2>2 DEF TypeOK
  <2>5. \A k \in InList : k # Head => next'[k] = next[k]
    BY <1>2, <1>3, <2>2 DEF TypeOK
  <2>6. \A k \in InList : k # next[Head] => prev'[k] = prev[k]
    BY <1>2, <1>3, <2>2 DEF TypeOK
  <2>7. CASE n = r
    BY <2>1, <2>2, <2>3, <2>4, <2>7
  <2>8. CASE n \in InList
    <3>1. /\ next[n] \in InList
          /\ prev[n] \in InList
          /\ prev[next[n]] = n
          /\ next[prev[n]] = n
      BY <2>8 DEF ListConsistent, InList
    <3>2. next'[n] \in InList \cup {r} /\ prev'[next'[n]] = n
      BY <2>1, <2>3, <2>4, <2>5, <2>6, <2>8, <3>1
    <3>3. prev'[n] \in InList \cup {r} /\ next'[prev'[n]] = n
      BY <2>1, <2>3, <2>4, <2>5, <2>6, <2>8, <3>1
    <3> QED
      BY <3>2, <3>3
  <2> QED
    BY <2>7, <2>8
<1>6. LockInv'
  BY <1>2 DEF TypeOK, LockInv, LockPCs
<1>7. RegInv'
  BY <1>2, <1>3 DEF TypeOK, RegInv, OwnerInv
<1>8. OwnerInv'
  BY <1>2, <1>4 DEF OwnerInv
<1>9. TailInv'
  BY <1>2 DEF TypeOK, TailInv, LockInv, LockPCs
<1>10. IterInv'
  <2>1. ASSUME NEW h, NEW n, Safe(h, n) PROVE Safe(h, n)'
    BY <1>2, <1>4, <2>1 DEF TypeOK, Safe, InList
  <2> QED
    BY <1>2, <2>1 DEF IterInv, Walking
<1> QED
  BY <1>1, <1>5, <1>6, <1>7, <1>8, <1>9, <1>10

\* The unlinked registration stays reachable for the handlers standing on it,
\* and for nobody else.
LEMMA UnlinkInv ==
  ASSUME Inv, NEW m \in Mutators, UnregisterUnlink(m)
  PROVE  Inv'
<1> DEFINE r == mreg[m]
<1> USE DEF Inv
<1>1. TypeOK'
  BY TypeStepMutator DEF MutatorStep, UnregisterStep
<1>2. /\ mpc[m] = "unlink"
      /\ mpc' = [mpc EXCEPT ![m] = "drain"]
      /\ mem' = [mem EXCEPT ![r] = "unlinked"]
      /\ next' = [next EXCEPT ![prev[r]] = next[r]]
      /\ prev' = [prev EXCEPT ![next[r]] = prev[r]]
      /\ UNCHANGED <<cookies, lock, mreg, active, draining, owed, hpc, it,
                     reglist>>
  BY DEF UnregisterUnlink, gpState
<1>3. r \in Regs /\ r \in Linked /\ r # Head
  BY <1>2, HeadAssumption DEF TypeOK, RegInv, Linked, Nodes
<1>4. Linked' = Linked \ {r}
  BY <1>2, <1>3 DEF TypeOK, Linked
<1>5. /\ next[r] \in InList /\ prev[r] \in InList
      /\ prev[next[r]] = r /\ next[prev[r]] = r
      /\ InList \subseteq Nodes
  BY <1>3 DEF ListConsistent, InList, Linked, Nodes
<1>6. ListConsistent'
  <2> SUFFICES ASSUME NEW n \in InList, n # r
               PROVE  /\ next'[n] \in InList \ {r}
                      /\ prev'[n] \in InList \ {r}
                      /\ prev'[next'[n]] = n
                      /\ next'[prev'[n]] = n
    BY <1>3, <1>4 DEF ListConsistent, InList
  <2>1. /\ next[n] \in InList /\ prev[n] \in InList
        /\ prev[next[n]] = n /\ next[prev[n]] = n
    BY DEF ListConsistent, InList
  <2>2. \A k \in InList : next'[k] = IF k = prev[r] THEN next[r] ELSE next[k]
    BY <1>2, <1>5 DEF TypeOK
  <2>3. \A k \in InList : prev'[k] = IF k = next[r] THEN prev[r] ELSE prev[k]
    BY <1>2, <1>5 DEF TypeOK
  <2>4. next'[n] \in InList \ {r} /\ prev'[next'[n]] = n
    BY <1>5, <2>1, <2>2, <2>3
  <2>5. prev'[n] \in InList \ {r} /\ next'[prev'[n]] = n
    BY <1>5, <2>1, <2>2, <2>3
  <2> QED
    BY <2>4, <2>5
<1>7. LockInv'
  BY <1>2 DEF TypeOK, LockInv, LockPCs
<1>8. RegInv'
  BY <1>2, <1>3 DEF TypeOK, RegInv, OwnerInv
<1>9. OwnerInv'
  BY <1>2, <1>4 DEF OwnerInv
<1>10. TailInv'
  <2>1. next'[r] \in InList
    BY <1>2, <1>3, <1>5 DEF TypeOK, InList
  <2>2. InList \subseteq InList' \cup {r}
    BY <1>4 DEF InList
  <2>3. \A k \in Mutators : mpc'[k] \in {"drain", "draining"} => k = m
    BY <1>2 DEF TypeOK, LockInv, LockPCs
  <2> QED
    BY <1>2, <2>1, <2>2, <2>3 DEF TailInv
<1>11. IterInv'
  <2>1. ASSUME NEW h, NEW n, Safe(h, n) PROVE Safe(h, n)'
    <3>1. CASE n = r
      BY <1>2, <3>1 DEF TypeOK, Safe
    <3>2. CASE n # r /\ n \in InList
      BY <1>4, <3>2 DEF Safe, InList
    <3>3. CASE n # r /\ n \notin InList
      BY <1>2, <2>1, <3>3 DEF TypeOK, Safe
    <3> QED
      BY <3>1, <3>2, <3>3
  <2> QED
    BY <1>2, <2>1 DEF IterInv, Walking
<1> QED
  BY <1>1, <1>6, <1>7, <1>8, <1>9, <1>10, <1>11

\* Freeing: the drain has returned, so no handler stands on the node.
LEMMA FreeInv ==
  ASSUME Inv, NEW m \in Mutators, UnregisterFree(m)
  PROVE  Inv'
<1> DEFINE r == mreg[m]
<1> USE DEF Inv
<1>1. TypeOK'
  BY TypeStepMutator DEF MutatorStep, UnregisterStep
<1>2. /\ mpc[m] = "free"
      /\ mpc' = [mpc EXCEPT ![m] = "idle"]
      /\ mem' = [mem EXCEPT ![r] = "free"]
      /\ next' = [next EXCEPT ![r] = Head]
      /\ prev' = [prev EXCEPT ![r] = Head]
      /\ mreg' = [mreg EXCEPT ![m] = Head]
      /\ UNCHANGED <<cookies, lock, active, draining, owed, hpc, it, reglist>>
  BY DEF UnregisterFree, gpState, handlerVars
<1>3. r \in Regs /\ mem[r] = "unlinked" /\ r \notin InList /\ r # Head
  BY <1>2, HeadAssumption DEF TypeOK, RegInv, InList, Linked, Nodes
<1>4. Linked' = Linked
  BY <1>2, <1>3 DEF TypeOK, Linked
<1>5. ListConsistent'
  <2>1. \A k \in InList : next'[k] = next[k] /\ prev'[k] = prev[k]
    BY <1>2, <1>3 DEF TypeOK, InList, Linked, Nodes
  <2> QED
    BY <1>4, <2>1 DEF ListConsistent, InList
<1>6. LockInv'
  BY <1>2 DEF TypeOK, LockInv, LockPCs
<1>7. RegInv' /\ OwnerInv'
  <2>1. \A k \in Mutators : k # m => mreg[k] # r
    BY <1>3 DEF OwnerInv
  <2>2. Head \notin cookies
    BY HeadAssumption DEF TypeOK
  <2> QED
    BY <1>2, <1>3, <1>4, <2>1, <2>2 DEF TypeOK, RegInv, OwnerInv
<1>8. TailInv'
  BY <1>2, <1>3, <1>4 DEF TypeOK, TailInv, OwnerInv, InList
<1>9. IterInv'
  <2>1. ASSUME NEW h, NEW n, Safe(h, n) PROVE Safe(h, n)'
    BY <1>2, <1>4, <2>1 DEF TypeOK, Safe, InList
  <2> QED
    BY <1>2, <2>1 DEF IterInv, Walking
<1> QED
  BY <1>1, <1>5, <1>6, <1>7, <1>8, <1>9

-----------------------------------------------------------------------------
(* Steps of a handler: they leave the list and the mutators alone. *)

\* Following a link from a safe place leads to a safe place.
LEMMA NextIsSafe ==
  ASSUME Inv, NEW h \in Handlers, NEW n, Safe(h, n)
  PROVE  Safe(h, next[n])
<1>1. CASE n \in InList
  BY <1>1 DEF Inv, ListConsistent, InList, Safe
<1>2. CASE n \notin InList
  <2>1. PICK m \in Mutators :
          /\ mreg[m] = n
          /\ mpc[m] = "drain" \/ (mpc[m] = "draining" /\ h \in owed)
    BY <1>2 DEF Safe
  <2>2. next[n] \in InList \/ next[n] = n
    BY <2>1 DEF Inv, TailInv
  <2> QED
    BY <2>2 DEF Safe
<1> QED
  BY <1>1, <1>2

\* The steps of a walk keep it on registrations that are safe to read.
LEMMA HandlerInv ==
  ASSUME Inv, NEW h \in Handlers, HandlerEnter(h) \/ HandlerStep(h)
  PROVE  Inv'
<1> USE DEF Inv
<1>1. TypeOK'
  BY TypeStepHandler
<1>2. UNCHANGED <<next, prev, mem, cookies, lock, mpc, mreg, draining>>
  BY DEF HandlerEnter, HandlerStep, HandlerLoad, WalkSkip, WalkInvoke,
         InvokeSearch, InvokeExecute, InvokeLongjmp, WalkNextPass, WalkEnd,
         HandlerExit, GP!SectionEnter, GP!SectionExit, listVars, mutVars,
         gpState
<1>3. Linked' = Linked
  BY <1>2 DEF Linked
<1>4. ListConsistent' /\ LockInv' /\ RegInv' /\ OwnerInv' /\ TailInv'
  BY <1>2, <1>3 DEF ListConsistent, LockInv, RegInv, OwnerInv, TailInv, InList
<1>5. CASE HandlerEnter(h)
  <2>1. ASSUME NEW k, NEW n, Safe(k, n) PROVE Safe(k, n)'
    BY <1>2, <1>3, <1>5, <2>1 DEF Safe, InList, HandlerEnter, GP!SectionEnter
  <2>2. IterInv'
    BY <1>5, <2>1 DEF TypeOK, IterInv, Walking, HandlerEnter, GP!SectionEnter
  <2> QED
    BY <1>1, <1>4, <2>2
<1>6. CASE InvokeLongjmp(h) \/ HandlerExit(h)
  <2>1. GP!SectionExit(h) /\ Leave(h)
    BY <1>6 DEF InvokeLongjmp, HandlerExit
  <2>2. ASSUME NEW k \in Handlers, k # h, NEW n, Safe(k, n) PROVE Safe(k, n)'
    BY <1>2, <1>3, <2>1, <2>2 DEF Safe, InList, GP!SectionExit
  <2>3. hpc'[h] = "idle" /\ h \notin active'
    BY <2>1 DEF TypeOK, Leave, GP!SectionExit
  <2>4. \A k \in Handlers : k # h =>
          /\ hpc'[k] = hpc[k] /\ it'[k] = it[k] /\ reglist'[k] = reglist[k]
          /\ k \in active' <=> k \in active
    BY <2>1 DEF TypeOK, Leave, GP!SectionExit
  <2>5. IterInv'
    BY <2>2, <2>3, <2>4 DEF IterInv, Walking
  <2> QED
    BY <1>1, <1>4, <2>5
<1>7. CASE HandlerLoad(h) \/ WalkSkip(h) \/ WalkInvoke(h) \/ InvokeSearch(h)
           \/ InvokeExecute(h) \/ WalkNextPass(h) \/ WalkEnd(h)
  <2>1. UNCHANGED <<active, owed>>
    BY <1>7 DEF HandlerLoad, WalkSkip, WalkInvoke, InvokeSearch, InvokeExecute,
                WalkNextPass, WalkEnd, gpState
  <2>2. ASSUME NEW k, NEW n, Safe(k, n) PROVE Safe(k, n)'
    BY <1>2, <1>3, <2>1, <2>2 DEF Safe, InList
  <2>3. \A k \in Handlers : k # h =>
          hpc'[k] = hpc[k] /\ it'[k] = it[k] /\ reglist'[k] = reglist[k]
    BY <1>7 DEF TypeOK, HandlerLoad, WalkSkip, WalkInvoke, InvokeSearch,
                InvokeExecute, WalkNextPass, WalkEnd
  <2>4. hpc[h] # "idle" /\ hpc'[h] # "idle"
    BY <1>7 DEF TypeOK, HandlerLoad, WalkSkip, WalkInvoke, InvokeSearch,
                InvokeExecute, WalkNextPass, WalkEnd
  <2>5. Walking(h)' => Safe(h, it'[h]) /\ Safe(h, reglist'[h])
    <3>1. CASE HandlerLoad(h)
      BY <3>1 DEF TypeOK, HandlerLoad, ListConsistent, Safe, InList
    <3>2. CASE WalkSkip(h) \/ InvokeSearch(h)
      <4>1. Walking(h) /\ it'[h] = next[it[h]] /\ reglist'[h] = reglist[h]
        BY <3>2 DEF TypeOK, WalkSkip, InvokeSearch, Walking
      <4> QED
        BY <4>1, NextIsSafe DEF IterInv
    <3>3. CASE WalkInvoke(h) \/ WalkNextPass(h)
      BY <3>3 DEF TypeOK, WalkInvoke, WalkNextPass, IterInv, Walking
    <3>4. CASE InvokeExecute(h) \/ WalkEnd(h)
      BY <3>4 DEF TypeOK, InvokeExecute, WalkEnd, Walking
    <3> QED
      BY <1>7, <3>1, <3>2, <3>3, <3>4
  <2>6. IterInv'
    BY <2>1, <2>2, <2>3, <2>4, <2>5 DEF IterInv, Walking
  <2> QED
    BY <1>1, <1>4, <2>6
<1> QED
  BY <1>5, <1>6, <1>7 DEF HandlerStep

-----------------------------------------------------------------------------

\* The invariant is inductive.
LEMMA InductiveInv == SafeSpec => []Inv
<1>1. Init => Inv
  <2> SUFFICES ASSUME Init PROVE Inv
    OBVIOUS
  <2>1. AnySignal \in Signals
    BY SignalsAssumption DEF AnySignal
  <2>2. TypeOK
    BY <2>1 DEF Init, TypeOK, GP!GPInit, GP!GPTypeOK, Nodes
  <2>3. Linked = {}
    BY DEF Init, Linked
  <2> QED
    BY <2>2, <2>3, NoOneAssumption
       DEF Init, Inv, ListConsistent, LockInv, LockPCs, RegInv, OwnerInv,
           TailInv, IterInv, Walking, GP!GPInit, Nodes
<1>2. Inv /\ [Next]_vars => Inv'
  <2> SUFFICES ASSUME Inv, [Next]_vars PROVE Inv'
    OBVIOUS
  <2>1. ASSUME NEW m \in Mutators,
               RegisterAlloc(m) \/ UnregisterCall(m) \/ MutatorStep(m)
        PROVE  Inv'
    BY <2>1, AllocInv, ControlInv, DrainInv, DrainedInv, PublishInv, UnlinkInv,
       FreeInv DEF MutatorStep, RegisterStep, UnregisterStep
  <2>2. ASSUME NEW h \in Handlers, HandlerEnter(h) \/ HandlerStep(h)
        PROVE  Inv'
    BY <2>2, HandlerInv
  <2>3. CASE UNCHANGED vars
    BY <2>3 DEF vars, Inv, TypeOK, GP!GPTypeOK, ListConsistent, LockInv,
                RegInv, OwnerInv, TailInv, IterInv, Safe, Walking, InList,
                Linked
  <2> QED
    BY <2>1, <2>2, <2>3 DEF Next
<1> QED
  BY <1>1, <1>2, PTL DEF SafeSpec

\* sigmux_handle_signal never follows a pointer into a registration that
\* sigmux_unregister has freed, for any number of handlers and mutators.
THEOREM SigmuxMemorySafe == SafeSpec => []NoUseAfterFree
BY InductiveInv, InvImpliesNoUseAfterFree, PTL

\* The list stays doubly linked whatever the order of registrations and
\* unregistrations.
THEOREM SigmuxListConsistent == SafeSpec => [](TypeOK /\ ListConsistent)
<1>1. Inv => TypeOK /\ ListConsistent
  BY DEF Inv
<1> QED
  BY <1>1, InductiveInv, PTL

-----------------------------------------------------------------------------
(* The order of calls.  The second layer of the invariant follows a walk:  *)
(* the history older is the transitive closure of the next links.          *)

\* What a walk standing on n has still to meet, n included.
Ahead(n) == IF n = Head THEN {} ELSE {n} \cup older[n]

\* The nodes from which a walk may go on.
Reachable(n) ==
  \/ n \in Linked
  \/ \E m \in Mutators : mreg[m] = n /\ mpc[m] \in {"drain", "draining"}

NodeOrder(n) ==
  /\ older[n] = Ahead(next[n])
  /\ older[n] \subseteq Linked
  /\ n \notin older[n]

\* Following next meets exactly the older registrations, from the head all.
OrderInv ==
  /\ \A n \in Regs : Reachable(n) => NodeOrder(n)
  /\ Ahead(next[Head]) = Linked

\* What a delivery owes: linked, matching, and in front of its two passes.
MustInv(h) ==
  /\ \A r \in must[h] :
       r \in Linked /\ Priority(r) \in flags[h] /\ sig[h] \in signals[r]
  /\ Walking(h) => must[h] \subseteq Ahead(reglist[h])
  /\ hpc[h] = "unhandled" => must[h] \subseteq ran[h]

\* A debt is paid, or left to the other pass, or still ahead in this one.
CoverInv(h) ==
  Walking(h) =>
    \A r \in must[h] : r \notin ran[h] =>
      \/ pass[h] = "normal" /\ low[r]
      \/ Priority(r) = pass[h] /\ r \in Ahead(it[h])

\* What has been called is safe to read, and is not ahead in this pass.
RanInv(h) ==
  /\ hpc[h] \in {"idle", "load"} => ran[h] = {} /\ must[h] = {}
  /\ \A r \in ran[h] : Safe(h, r)
  /\ Walking(h) /\ pass[h] = "normal" => \A r \in ran[h] : ~low[r]
  /\ hpc[h] = "walk" =>
       \A r \in ran[h] : Priority(r) = pass[h] => r \notin Ahead(it[h])
  /\ hpc[h] = "invoke" =>
       /\ it[h] \in ran[h] /\ Priority(it[h]) = pass[h]
       /\ \A r \in ran[h] : Priority(r) = pass[h] => r \notin older[it[h]]
  /\ hpc[h] = "handled" => ran[h] # {}

WalkInv == \A h \in Handlers : MustInv(h) /\ CoverInv(h) /\ RanInv(h)

-----------------------------------------------------------------------------

\* Steps that leave links, ages and membership alone, and reach no new node.
LEMMA OrderUnchanged ==
  ASSUME OrderInv, Linked' = Linked, UNCHANGED <<next, older>>,
         \A n \in Regs : Reachable(n)' => Reachable(n)
  PROVE  OrderInv'
BY DEF OrderInv, NodeOrder, Ahead

\* Registering: the new first node is younger than the whole list.
LEMMA PublishOrder ==
  ASSUME Inv, OrderInv, NEW m \in Mutators, RegisterPublish(m)
  PROVE  OrderInv'
<1>0. PICK r : r = mreg[m]
  OBVIOUS
<1>1. /\ mpc[m] = "publish"
      /\ mpc' = [mpc EXCEPT ![m] = "registered"]
      /\ mem' = [mem EXCEPT ![r] = "linked"]
      /\ next' = [next EXCEPT ![r] = next[Head], ![Head] = r]
      /\ older' = [older EXCEPT ![r] = Linked]
      /\ mreg' = mreg
  BY <1>0 DEF RegisterPublish
<1>2. TypeOK /\ ListConsistent /\ RegInv /\ TailInv
  BY DEF Inv
<1>3. r \in Regs /\ mem[r] = "fresh" /\ r \notin InList /\ r # Head
  BY <1>0, <1>1, <1>2, HeadAssumption DEF TypeOK, RegInv, InList, Linked, Nodes
<1>4. Linked' = Linked \cup {r}
  BY <1>1, <1>2, <1>3 DEF TypeOK, Linked
<1>5. next'[Head] = r /\ next'[r] = next[Head] /\ older'[r] = Linked
  BY <1>1, <1>2, <1>3 DEF TypeOK, Nodes
<1>6. \A n \in Regs : n # r => next'[n] = next[n] /\ older'[n] = older[n]
  BY <1>1, <1>2, <1>3, HeadAssumption DEF TypeOK, Nodes
<1>7. next[Head] \in InList
  BY <1>2 DEF ListConsistent, InList
<1>8. \A n \in Nodes : n # r => Ahead(n)' = Ahead(n)
  BY <1>6 DEF Ahead, Nodes
<1>9. InList \subseteq Nodes
  BY DEF InList, Linked, Nodes
<1>10. NodeOrder(r)'
  BY <1>3, <1>4, <1>5, <1>7, <1>8, <1>9 DEF NodeOrder, OrderInv, InList
<1>11. ASSUME NEW n \in Regs, Reachable(n)', n # r
       PROVE  NodeOrder(n)'
  <2>1. Reachable(n)
    <3>1. CASE n \in Linked
      BY <3>1 DEF Reachable
    <3>2. CASE n \notin Linked
      <4>1. PICK k \in Mutators :
              mreg'[k] = n /\ mpc'[k] \in {"drain", "draining"}
        BY <1>4, <1>11, <3>2 DEF Reachable
      <4>2. mreg[k] = n /\ mpc[k] \in {"drain", "draining"}
        BY <1>1, <1>2, <4>1 DEF TypeOK
      <4> QED
        BY <4>2 DEF Reachable
    <3> QED
      BY <3>1, <3>2
  <2>2. NodeOrder(n)
    BY <2>1 DEF OrderInv
  <2>3. next[n] \in InList \cup {n}
    BY <1>2, <2>1 DEF Reachable, ListConsistent, TailInv, InList
  <2>4. Ahead(next[n])' = Ahead(next[n])
    <3>1. next'[n] = next[n] /\ next[n] # r /\ next[n] \in Nodes
      BY <1>3, <1>6, <1>9, <1>11, <2>3 DEF Nodes
    <3> QED
      BY <3>1, <1>6 DEF Ahead, Nodes
  <2> QED
    BY <1>4, <1>6, <1>11, <2>2, <2>4 DEF NodeOrder
<1>12. Ahead(next[Head])' = Linked'
  BY <1>3, <1>4, <1>5 DEF Ahead
<1> QED
  BY <1>10, <1>11, <1>12 DEF OrderInv

\* Unregistering: the node leaves the age of every other, and keeps its own.
LEMMA UnlinkOrder ==
  ASSUME Inv, OrderInv, NEW m \in Mutators, UnregisterUnlink(m)
  PROVE  OrderInv'
<1>0. PICK r : r = mreg[m]
  OBVIOUS
<1>1. /\ mpc[m] = "unlink"
      /\ mpc' = [mpc EXCEPT ![m] = "drain"]
      /\ mem' = [mem EXCEPT ![r] = "unlinked"]
      /\ next' = [next EXCEPT ![prev[r]] = next[r]]
      /\ older' = [k \in Regs |-> older[k] \ {r}]
      /\ mreg' = mreg
  BY <1>0 DEF UnregisterUnlink
<1>2. TypeOK /\ ListConsistent /\ RegInv /\ LockInv
  BY DEF Inv
<1>3. r \in Regs /\ r \in Linked /\ r # Head
  BY <1>0, <1>1, <1>2, HeadAssumption DEF TypeOK, RegInv, Linked, Nodes
<1>4. Linked' = Linked \ {r}
  BY <1>1, <1>2, <1>3 DEF TypeOK, Linked
<1>5. /\ next[r] \in InList /\ prev[r] \in InList
      /\ prev[next[r]] = r /\ next[prev[r]] = r
      /\ InList \subseteq Nodes
  BY <1>2, <1>3 DEF ListConsistent, InList, Linked, Nodes
<1>6. NodeOrder(r)
  BY <1>3 DEF OrderInv, Reachable
<1>7. next[r] # r /\ prev[r] # r
  BY <1>3, <1>5, <1>6 DEF NodeOrder, Ahead
<1>8. /\ \A n \in Nodes : n # prev[r] => next'[n] = next[n]
      /\ next'[prev[r]] = next[r]
  BY <1>1, <1>2, <1>5 DEF TypeOK
<1>9. \A n \in InList : n # r => Ahead(n)' = Ahead(n) \ {r}
  BY <1>1 DEF Ahead, InList, Linked
<1>10. Ahead(next[r])' = older[r]
  BY <1>3, <1>5, <1>6, <1>7, <1>8, <1>9 DEF NodeOrder, Nodes, Ahead
<1>11. \A n \in Regs : Reachable(n)' => n \in Linked
  <2> SUFFICES ASSUME NEW n \in Regs, Reachable(n)', n \notin Linked
               PROVE  FALSE
    OBVIOUS
  <2>1. PICK k \in Mutators : mreg'[k] = n /\ mpc'[k] \in {"drain", "draining"}
    BY <1>4 DEF Reachable
  <2>2. CASE k = m
    BY <1>0, <1>1, <1>3, <2>1, <2>2
  <2>3. CASE k # m
    BY <1>1, <1>2, <2>1, <2>3 DEF TypeOK, LockInv, LockPCs
  <2> QED
    BY <2>2, <2>3
<1>12. NodeOrder(r)'
  <2>1. older'[r] = older[r]
    BY <1>1, <1>2, <1>3, <1>6 DEF NodeOrder, TypeOK
  <2> QED
    BY <1>1, <1>4, <1>6, <1>10, <2>1 DEF NodeOrder
<1>13. ASSUME NEW n \in Regs, Reachable(n)', n # r
       PROVE  NodeOrder(n)'
  <2>1. n \in Linked /\ NodeOrder(n) /\ next[n] \in InList
    BY <1>2, <1>11, <1>13 DEF OrderInv, Reachable, ListConsistent, InList
  <2>2. older'[n] = older[n] \ {r}
    BY <1>1
  <2>3. CASE n = prev[r]
    <3>1. older[n] = {r} \cup older[r]
      BY <1>3, <1>5, <2>1, <2>3 DEF NodeOrder, Ahead
    <3>2. next'[n] = next[r] /\ next'[r] = next[r]
      BY <1>3, <1>7, <1>8, <2>3 DEF Nodes
    <3>3. Ahead(next[n])' = older[r]
      BY <1>10, <3>2 DEF Ahead
    <3>4. older'[n] = older[r]
      BY <1>6, <2>2, <3>1 DEF NodeOrder
    <3>5. older[r] \subseteq Linked' /\ n \notin older[r]
      BY <1>4, <1>6, <2>1, <3>1 DEF NodeOrder
    <3> QED
      BY <3>3, <3>4, <3>5 DEF NodeOrder
  <2>4. CASE n # prev[r]
    <3>1. next'[n] = next[n]
      BY <1>8, <2>4 DEF Nodes
    <3>2. next[n] # r
      BY <1>2, <1>5, <2>1, <2>4 DEF ListConsistent
    <3>3. Ahead(next[n])' = Ahead(next[n]) \ {r}
      BY <1>9, <2>1, <3>1, <3>2 DEF Ahead, InList, Linked
    <3> QED
      BY <1>4, <2>1, <2>2, <3>3 DEF NodeOrder
  <2> QED
    BY <2>3, <2>4
<1>14. Ahead(next[Head])' = Linked'
  <2>1. CASE prev[r] = Head
    <3>1. Linked = {r} \cup older[r]
      BY <1>3, <1>5, <2>1 DEF OrderInv, Ahead
    <3>2. Ahead(next[Head])' = older[r]
      BY <1>3, <1>7, <1>8, <1>10, <2>1 DEF Ahead, Nodes
    <3> QED
      BY <1>4, <1>6, <3>1, <3>2 DEF NodeOrder
  <2>2. CASE prev[r] # Head
    <3>1. next'[Head] = next[Head] /\ next[Head] \in InList
      BY <1>2, <1>8, <2>2 DEF Nodes, ListConsistent, InList
    <3>2. next[Head] # r
      BY <1>2, <2>2 DEF ListConsistent
    <3>3. Ahead(next[Head])' = Ahead(next[Head]) \ {r}
      BY <1>9, <3>1, <3>2, <1>1 DEF Ahead, InList, Linked
    <3> QED
      BY <1>4, <3>3 DEF OrderInv
  <2> QED
    BY <2>1, <2>2
<1> QED
  BY <1>12, <1>13, <1>14 DEF OrderInv

\* Freeing forgets the age of a node that nobody reaches.
LEMMA FreeOrder ==
  ASSUME Inv, OrderInv, NEW m \in Mutators, UnregisterFree(m)
  PROVE  OrderInv'
<1>0. PICK r : r = mreg[m]
  OBVIOUS
<1>1. /\ mpc[m] = "free"
      /\ mpc' = [mpc EXCEPT ![m] = "idle"]
      /\ mem' = [mem EXCEPT ![r] = "free"]
      /\ next' = [next EXCEPT ![r] = Head]
      /\ older' = [older EXCEPT ![r] = {}]
      /\ mreg' = [mreg EXCEPT ![m] = Head]
  BY <1>0 DEF UnregisterFree
<1>2. TypeOK /\ ListConsistent /\ RegInv /\ TailInv /\ OwnerInv
  BY DEF Inv
<1>3. r \in Regs /\ mem[r] = "unlinked" /\ r \notin InList /\ r # Head
  BY <1>0, <1>1, <1>2, HeadAssumption DEF TypeOK, RegInv, InList, Linked, Nodes
<1>4. Linked' = Linked
  BY <1>1, <1>2, <1>3 DEF TypeOK, Linked
<1>5. \A n \in Nodes : n # r => next'[n] = next[n] /\ Ahead(n)' = Ahead(n)
  BY <1>1, <1>2 DEF TypeOK, Ahead, Nodes
<1>6. ASSUME NEW n \in Regs, Reachable(n)'
      PROVE  Reachable(n) /\ n # r
  <2>1. CASE n \in Linked
    BY <1>3, <2>1 DEF Reachable, InList
  <2>2. CASE n \notin Linked
    <3>1. PICK k \in Mutators : mreg'[k] = n /\ mpc'[k] \in {"drain", "draining"}
      BY <1>4, <1>6, <2>2 DEF Reachable
    <3>2. k # m
      BY <1>1, <1>2, <3>1 DEF TypeOK
    <3>3. mreg[k] = n /\ mpc[k] \in {"drain", "draining"}
      BY <1>1, <1>2, <3>1, <3>2 DEF TypeOK
    <3>4. n # r
      BY <1>0, <1>2, <1>3, <3>2, <3>3 DEF OwnerInv
    <3> QED
      BY <3>3, <3>4 DEF Reachable
  <2> QED
    BY <2>1, <2>2
<1>7. ASSUME NEW n \in Regs, Reachable(n)'
      PROVE  NodeOrder(n)'
  <2>1. NodeOrder(n) /\ n # r
    BY <1>6, <1>7 DEF OrderInv
  <2>2. next[n] \in InList \cup {n}
    BY <1>2, <1>6, <1>7 DEF Reachable, ListConsistent, TailInv, InList
  <2>3. next'[n] = next[n] /\ next[n] # r /\ next[n] \in Nodes
    BY <1>3, <1>5, <2>1, <2>2 DEF InList, Linked, Nodes
  <2>4. older'[n] = older[n]
    BY <1>1, <1>2, <2>1 DEF TypeOK
  <2>5. Ahead(next[n])' = Ahead(next[n])
    BY <1>1, <1>2, <2>3 DEF TypeOK, Ahead, Nodes
  <2> QED
    BY <1>4, <2>1, <2>4, <2>5 DEF NodeOrder
<1>8. Ahead(next[Head])' = Linked'
  <2>1. next'[Head] = next[Head] /\ next[Head] # r /\ next[Head] \in Nodes
    BY <1>2, <1>3, <1>5 DEF ListConsistent, InList, Linked, Nodes
  <2>2. Ahead(next[Head])' = Ahead(next[Head])
    BY <1>1, <1>2, <2>1 DEF TypeOK, Ahead, Nodes
  <2> QED
    BY <1>4, <2>2 DEF OrderInv
<1> QED
  BY <1>7, <1>8 DEF OrderInv

-----------------------------------------------------------------------------
(* What a step of a mutator may change under a handler's feet. *)

\* The registrations in gone leave the list, and so the ages and the debts;
\* all that h may stand on stays safe and stays what it was.
Frame(h, gone) ==
  /\ \A n \in Nodes : Safe(h, n) => Safe(h, n)'
  /\ \A n \in Regs : Safe(h, n) =>
       low'[n] = low[n] /\ signals'[n] = signals[n] /\ older'[n] = older[n] \ gone
  /\ must'[h] = must[h] \ gone
  /\ Linked \ gone \subseteq Linked'
  /\ UNCHANGED <<hpc, sig, flags, pass, reglist, it, ran>>

\* Under such a step a walk keeps what it has promised.
LEMMA FrameKeeps ==
  ASSUME TypeOK, IterInv, NEW h \in Handlers, NEW gone, Frame(h, gone),
         MustInv(h), CoverInv(h), RanInv(h)
  PROVE  MustInv(h)' /\ CoverInv(h)' /\ RanInv(h)'
<1>1. /\ must'[h] = must[h] \ gone
      /\ UNCHANGED <<hpc, sig, flags, pass, reglist, it, ran>>
      /\ Linked \ gone \subseteq Linked'
  BY DEF Frame
<1>2. must[h] \subseteq Regs /\ ran[h] \subseteq Regs
      /\ it[h] \in Nodes /\ reglist[h] \in Nodes
  BY DEF TypeOK
<1>3. \A r \in must[h] : Safe(h, r)
  BY DEF MustInv, Safe, InList
<1>4. \A r \in must[h] \cup ran[h] :
        /\ Safe(h, r)'
        /\ Priority(r)' = Priority(r) /\ low'[r] = low[r]
        /\ signals'[r] = signals[r]
  BY <1>2, <1>3 DEF Frame, RanInv, Priority, Nodes
<1>5. \A n \in Nodes : Safe(h, n) =>
        (IF n = Head THEN {} ELSE {n} \cup older'[n]) \ gone = Ahead(n) \ gone
        /\ (IF n = Head THEN {} ELSE {n} \cup older'[n]) \subseteq Ahead(n)
  BY DEF Frame, Ahead, Nodes
<1>6. Walking(h) => /\ Ahead(it[h])' \ gone = Ahead(it[h]) \ gone
                    /\ Ahead(it[h])' \subseteq Ahead(it[h])
                    /\ Ahead(reglist[h])' \ gone = Ahead(reglist[h]) \ gone
  BY <1>1, <1>2, <1>5 DEF IterInv, Ahead
<1>7. Walking(h)' = Walking(h)
  BY <1>1 DEF Walking
<1>8. MustInv(h)'
  BY <1>1, <1>4, <1>6, <1>7 DEF MustInv
<1>9. CoverInv(h)'
  BY <1>1, <1>4, <1>6, <1>7 DEF CoverInv
<1>10. RanInv(h)'
  <2>1. hpc[h] = "invoke" =>
          Priority(it[h])' = Priority(it[h]) /\ older'[it[h]] \subseteq older[it[h]]
    BY <1>1, <1>2, <1>4 DEF RanInv, Frame, Priority
  <2>2. hpc'[h] \in {"idle", "load"} => ran'[h] = {} /\ must'[h] = {}
    BY <1>1 DEF RanInv
  <2>3. \A r \in ran'[h] : Safe(h, r)'
    BY <1>1, <1>4
  <2>4. Walking(h)' /\ pass'[h] = "normal" => \A r \in ran'[h] : ~low'[r]
    BY <1>1, <1>4, <1>7 DEF RanInv
  <2>5. hpc'[h] = "walk" =>
          \A r \in ran'[h] : Priority(r)' = pass'[h] => r \notin Ahead(it[h])'
    BY <1>1, <1>4, <1>6 DEF RanInv, Walking
  <2>6. hpc'[h] = "invoke" =>
          /\ it'[h] \in ran'[h] /\ Priority(it[h])' = pass'[h]
          /\ \A r \in ran'[h] : Priority(r)' = pass'[h] => r \notin older'[it'[h]]
    BY <1>1, <1>4, <2>1 DEF RanInv
  <2>7. hpc'[h] = "handled" => ran'[h] # {}
    BY <1>1 DEF RanInv
  <2> QED
    BY <2>2, <2>3, <2>4, <2>5, <2>6, <2>7 DEF RanInv
<1> QED
  BY <1>8, <1>9, <1>10

\* A handler that is not in a section has neither debts nor calls.
LEMMA IdleKeeps ==
  ASSUME IterInv, NEW h \in Handlers, h \notin active, RanInv(h),
         must'[h] \subseteq must[h], UNCHANGED <<hpc, ran>>
  PROVE  MustInv(h)' /\ CoverInv(h)' /\ RanInv(h)'
<1>1. hpc[h] = "idle" /\ hpc'[h] = "idle"
  BY DEF IterInv
<1>2. ran'[h] = {} /\ must'[h] = {}
  BY <1>1 DEF RanInv
<1> QED
  BY <1>1, <1>2 DEF MustInv, CoverInv, RanInv, Walking

\* Steps of a mutator that leave the list alone.
LEMMA QuietFrame ==
  ASSUME Inv, NEW m \in Mutators, NEW h \in active,
         \/ RegisterAlloc(m) \/ RegisterLock(m) \/ RegisterReturn(m)
         \/ UnregisterCall(m) \/ UnregisterLock(m) \/ UnregisterDrain(m)
         \/ UnregisterDrained(m) \/ UnregisterUnlock(m)
  PROVE  Frame(h, {}) /\ Linked' = Linked
<1>1. TypeOK /\ LockInv /\ RegInv /\ OwnerInv
  BY DEF Inv
<1>2. UNCHANGED <<hpc, sig, flags, pass, reglist, it, ran, must, older>>
  BY DEF RegisterAlloc, RegisterLock, RegisterReturn, UnregisterCall,
         UnregisterLock, UnregisterDrain, UnregisterDrained, UnregisterUnlock,
         handlerVars, listVars
<1>3. ASSUME NEW n \in Nodes, Safe(h, n)
      PROVE  Safe(h, n)' /\ Linked' = Linked
             /\ (n \in Regs => low'[n] = low[n] /\ signals'[n] = signals[n])
  <2>1. CASE RegisterAlloc(m)
    <3>1. PICK r \in Regs, isLow \in BOOLEAN, sigs \in SUBSET Signals :
            /\ mem[r] = "free"
            /\ mem' = [mem EXCEPT ![r] = "fresh"]
            /\ low' = [low EXCEPT ![r] = isLow]
            /\ signals' = [signals EXCEPT ![r] = sigs]
            /\ mreg' = [mreg EXCEPT ![m] = r]
      BY <2>1 DEF RegisterAlloc
    <3>2. /\ mpc[m] = "idle" /\ mpc' = [mpc EXCEPT ![m] = "register"]
          /\ UNCHANGED <<active, draining, owed>>
      BY <2>1 DEF RegisterAlloc, gpState
    <3>3. Linked' = Linked
      BY <1>1, <3>1 DEF TypeOK, Linked
    <3>4. n # r
      BY <1>1, <1>3, <3>1, HeadAssumption DEF Safe, InList, Linked, RegInv
    <3>5. Safe(h, n)'
      BY <1>1, <1>3, <3>1, <3>2, <3>3 DEF TypeOK, Safe, InList
    <3> QED
      BY <1>1, <3>1, <3>3, <3>4, <3>5 DEF TypeOK
  <2>2. CASE RegisterLock(m) \/ RegisterReturn(m) \/ UnregisterCall(m)
             \/ UnregisterLock(m) \/ UnregisterUnlock(m)
    <3>1. UNCHANGED <<low, signals, mem, active, draining, owed>>
      BY <2>2 DEF RegisterLock, RegisterReturn, UnregisterCall, UnregisterLock,
                  UnregisterUnlock, listVars, gpState
    <3>2. Linked' = Linked
      BY <3>1 DEF Linked
    <3>3. \A k \in Mutators : mpc[k] \in {"drain", "draining"} =>
            mpc'[k] = mpc[k] /\ mreg'[k] = mreg[k]
      BY <1>1, <2>2 DEF TypeOK, RegisterLock, RegisterReturn, UnregisterCall,
                        UnregisterLock, UnregisterUnlock
    <3> QED
      BY <1>3, <3>1, <3>2, <3>3 DEF Safe, InList
  <2>3. CASE UnregisterDrain(m) \/ UnregisterDrained(m)
    <3>1. UNCHANGED <<low, signals, mem, mreg, active>>
      BY <2>3 DEF UnregisterDrain, UnregisterDrained, listVars,
                  GP!DrainBegin, GP!DrainReturn
    <3>2. Linked' = Linked
      BY <3>1 DEF Linked
    <3>3. CASE n \in InList
      BY <3>1, <3>2, <3>3 DEF Safe, InList
    <3>4. CASE n \notin InList
      <4>1. PICK k \in Mutators :
              /\ mreg[k] = n
              /\ mpc[k] = "drain" \/ (mpc[k] = "draining" /\ h \in owed)
        BY <1>3, <3>4 DEF Safe
      <4>2. k = m
        BY <1>1, <2>3, <4>1 DEF LockInv, LockPCs, UnregisterDrain,
                                UnregisterDrained
      <4>3. UnregisterDrain(m)
        BY <2>3, <4>1, <4>2 DEF UnregisterDrained, GP!DrainReturn
      <4>4. mpc'[k] = "draining" /\ h \in owed' /\ mreg'[k] = n
        BY <1>1, <3>1, <4>1, <4>2, <4>3 DEF TypeOK, UnregisterDrain, GP!DrainBegin
      <4> QED
        BY <3>1, <3>2, <4>4 DEF Safe
    <3> QED
      BY <3>3, <3>4
  <2> QED
    BY <2>1, <2>2, <2>3
<1>4. Head \in Nodes /\ Safe(h, Head)
  BY DEF Safe, InList, Nodes
<1>5. Linked' = Linked
  BY <1>3, <1>4
<1>6. \A n \in Nodes : Safe(h, n) =>
        Safe(h, n)' /\ (n \in Regs => low'[n] = low[n] /\ signals'[n] = signals[n])
  BY <1>3
<1> QED
  BY <1>2, <1>5, <1>6 DEF Frame, Nodes
\* Publishing touches only a node that no handler has reached.
LEMMA PublishFrame ==
  ASSUME Inv, NEW m \in Mutators, NEW h \in active, RegisterPublish(m)
  PROVE  Frame(h, {})
<1>0. PICK r : r = mreg[m]
  OBVIOUS
<1>1. /\ mpc[m] = "publish"
      /\ mpc' = [mpc EXCEPT ![m] = "registered"]
      /\ mem' = [mem EXCEPT ![r] = "linked"]
      /\ older' = [older EXCEPT ![r] = Linked]
      /\ UNCHANGED <<mreg, owed, low, signals, hpc, sig, flags, pass, reglist,
                     it, ran, must>>
  BY <1>0 DEF RegisterPublish, gpState, handlerVars
<1>2. TypeOK /\ RegInv
  BY DEF Inv
<1>3. r \in Regs /\ mem[r] = "fresh"
  BY <1>0, <1>1, <1>2, HeadAssumption DEF TypeOK, RegInv, Nodes
<1>4. Linked \subseteq Linked'
  BY <1>1, <1>2 DEF TypeOK, Linked
<1>5. ASSUME NEW n \in Nodes, Safe(h, n)
      PROVE  Safe(h, n)' /\ (n \in Regs => older'[n] = older[n])
  <2>1. n # r
    BY <1>2, <1>3, <1>5, HeadAssumption DEF Safe, InList, Linked, RegInv
  <2>2. Safe(h, n)'
    BY <1>1, <1>2, <1>4, <1>5 DEF TypeOK, Safe, InList
  <2> QED
    BY <1>1, <1>2, <2>1, <2>2 DEF TypeOK
<1>6. \A n \in Nodes : Safe(h, n) =>
        Safe(h, n)' /\ (n \in Regs => older'[n] = older[n])
  BY <1>5
<1> QED
  BY <1>1, <1>4, <1>6 DEF Frame, Nodes

\* The unlinked registration is no longer owed a call.
LEMMA UnlinkFrame ==
  ASSUME Inv, NEW m \in Mutators, NEW h \in Handlers, h \in active,
         UnregisterUnlink(m)
  PROVE  Frame(h, {mreg[m]})
<1>0. PICK r : r = mreg[m]
  OBVIOUS
<1>1. /\ mpc[m] = "unlink"
      /\ mpc' = [mpc EXCEPT ![m] = "drain"]
      /\ mem' = [mem EXCEPT ![r] = "unlinked"]
      /\ older' = [k \in Regs |-> older[k] \ {r}]
      /\ must' = [k \in Handlers |-> must[k] \ {r}]
      /\ UNCHANGED <<mreg, owed, low, signals, hpc, sig, flags, pass, reglist,
                     it, ran>>
  BY <1>0 DEF UnregisterUnlink, gpState
<1>2. TypeOK /\ LockInv
  BY DEF Inv
<1>3. Linked \ {r} \subseteq Linked'
  BY <1>1, <1>2 DEF TypeOK, Linked
<1>4. ASSUME NEW n \in Nodes, Safe(h, n)
      PROVE  Safe(h, n)'
  <2>1. CASE n = r
    BY <1>0, <1>1, <1>2, <2>1 DEF TypeOK, Safe
  <2>2. CASE n # r
    <3>1. \A k \in Mutators : mpc[k] \in {"drain", "draining"} => k # m
      BY <1>1
    <3> QED
      BY <1>1, <1>2, <1>3, <1>4, <2>2, <3>1 DEF TypeOK, Safe, InList
  <2> QED
    BY <2>1, <2>2
<1>5. must'[h] = must[h] \ {r} /\ \A n \in Regs : older'[n] = older[n] \ {r}
  BY <1>1
<1>6. Frame(h, {r})
  BY <1>1, <1>3, <1>4, <1>5 DEF Frame
<1> QED
  BY <1>0, <1>6

\* The freed registration is one that no handler stands on.
LEMMA FreeFrame ==
  ASSUME Inv, NEW m \in Mutators, NEW h \in active, UnregisterFree(m)
  PROVE  Frame(h, {})
<1>0. PICK r : r = mreg[m]
  OBVIOUS
<1>1. /\ mpc[m] = "free"
      /\ mpc' = [mpc EXCEPT ![m] = "idle"]
      /\ mem' = [mem EXCEPT ![r] = "free"]
      /\ older' = [older EXCEPT ![r] = {}]
      /\ low' = [low EXCEPT ![r] = FALSE]
      /\ signals' = [signals EXCEPT ![r] = {}]
      /\ mreg' = [mreg EXCEPT ![m] = Head]
      /\ UNCHANGED <<owed, hpc, sig, flags, pass, reglist, it, ran, must>>
  BY <1>0 DEF UnregisterFree, gpState, handlerVars
<1>2. TypeOK /\ RegInv /\ OwnerInv
  BY DEF Inv
<1>3. r \in Regs /\ mem[r] = "unlinked" /\ r \notin InList /\ r # Head
  BY <1>0, <1>1, <1>2, HeadAssumption DEF TypeOK, RegInv, InList, Linked, Nodes
<1>4. Linked' = Linked
  BY <1>1, <1>2, <1>3 DEF TypeOK, Linked
<1>5. ASSUME NEW n \in Nodes, Safe(h, n)
      PROVE  Safe(h, n)' /\ n # r
  <2>1. n # r
    BY <1>0, <1>1, <1>2, <1>3, <1>5 DEF Safe, OwnerInv
  <2>2. Safe(h, n)'
    BY <1>1, <1>2, <1>4, <1>5 DEF TypeOK, Safe, InList
  <2> QED
    BY <2>1, <2>2
<1>6. \A n \in Regs : n # r =>
        low'[n] = low[n] /\ signals'[n] = signals[n] /\ older'[n] = older[n]
  BY <1>1, <1>2 DEF TypeOK
<1>7. \A n \in Nodes : Safe(h, n) => Safe(h, n)' /\ n # r
  BY <1>5
<1> QED
  BY <1>1, <1>4, <1>6, <1>7 DEF Frame, Nodes

\* No step of a mutator breaks a handler's promise or the order.
LEMMA MutatorWalk ==
  ASSUME Inv, OrderInv, WalkInv, NEW m \in Mutators,
         RegisterAlloc(m) \/ UnregisterCall(m) \/ MutatorStep(m)
  PROVE  OrderInv' /\ WalkInv'
<1>1. ASSUME NEW h \in Handlers
      PROVE  MustInv(h)' /\ CoverInv(h)' /\ RanInv(h)'
  <2>1. TypeOK /\ IterInv /\ MustInv(h) /\ CoverInv(h) /\ RanInv(h)
    BY DEF Inv, WalkInv
  <2>2. CASE h \in active
    <3>1. Frame(h, {}) \/ Frame(h, {mreg[m]})
      BY <2>2, QuietFrame, PublishFrame, UnlinkFrame, FreeFrame
         DEF MutatorStep, RegisterStep, UnregisterStep
    <3> QED
      BY <2>1, <3>1, FrameKeeps
  <2>3. CASE h \notin active
    <3>1. must'[h] \subseteq must[h] /\ UNCHANGED <<hpc, ran>>
      BY DEF MutatorStep, RegisterStep, UnregisterStep, RegisterAlloc,
             RegisterLock, RegisterPublish, RegisterReturn, UnregisterCall,
             UnregisterLock, UnregisterUnlink, UnregisterDrain,
             UnregisterDrained, UnregisterUnlock, UnregisterFree, handlerVars
    <3> QED
      BY <2>1, <2>3, <3>1, IdleKeeps
  <2> QED
    BY <2>2, <2>3
<1>2. CASE RegisterPublish(m) \/ UnregisterUnlink(m) \/ UnregisterFree(m)
  BY <1>1, <1>2, PublishOrder, UnlinkOrder, FreeOrder DEF WalkInv
<1>3. CASE \/ RegisterAlloc(m) \/ RegisterLock(m) \/ RegisterReturn(m)
           \/ UnregisterCall(m) \/ UnregisterLock(m) \/ UnregisterDrain(m)
           \/ UnregisterDrained(m) \/ UnregisterUnlock(m)
  <2>1. UNCHANGED <<next, older>>
    BY <1>3 DEF RegisterAlloc, RegisterLock, RegisterReturn, UnregisterCall,
         UnregisterLock, UnregisterDrain, UnregisterDrained, UnregisterUnlock,
         listVars
  <2>2. TypeOK
    BY DEF Inv
  <2>3. Linked' = Linked
    <3>1. CASE RegisterAlloc(m)
      BY <2>2, <3>1 DEF RegisterAlloc, TypeOK, Linked
    <3>2. CASE ~RegisterAlloc(m)
      <4>1. mem' = mem
        BY <1>3, <3>2 DEF RegisterLock, RegisterReturn, UnregisterCall,
           UnregisterLock, UnregisterDrain, UnregisterDrained,
           UnregisterUnlock, listVars
      <4> QED
        BY <4>1 DEF Linked
    <3> QED
      BY <3>1, <3>2
  <2>4. \A k \in Mutators : mpc'[k] \in {"drain", "draining"} =>
          mpc[k] \in {"drain", "draining"} /\ mreg'[k] = mreg[k]
    BY <1>3, <2>2 DEF TypeOK, RegisterAlloc, RegisterLock, RegisterReturn,
         UnregisterCall, UnregisterLock, UnregisterDrain, UnregisterDrained,
         UnregisterUnlock
  <2>5. \A n \in Regs : Reachable(n)' => Reachable(n)
    BY <2>3, <2>4 DEF Reachable
  <2> QED
    BY <1>1, <2>1, <2>3, <2>5, OrderUnchanged DEF WalkInv
<1> QED
  BY <1>2, <1>3 DEF MutatorStep, RegisterStep, UnregisterStep

-----------------------------------------------------------------------------
(* Steps of a handler. *)

\* What h stands on has its age, and the walk goes on in it.
LEMMA StandsInOrder ==
  ASSUME Inv, OrderInv, NEW h \in Handlers, NEW n \in Regs, Safe(h, n)
  PROVE  older[n] = Ahead(next[n]) /\ n \notin older[n]
<1>1. Reachable(n)
  BY HeadAssumption DEF Safe, Reachable, InList
<1> QED
  BY <1>1 DEF OrderInv, NodeOrder

\* The other handlers do not notice.
LEMMA OthersKeep ==
  ASSUME Inv, NEW h \in Handlers, NEW k \in Handlers, k # h,
         MustInv(k), CoverInv(k), RanInv(k),
         HandlerEnter(h) \/ HandlerStep(h)
  PROVE  MustInv(k)' /\ CoverInv(k)' /\ RanInv(k)'
<1>1. UNCHANGED <<next, mem, low, signals, older, mpc, mreg, draining>>
  BY DEF HandlerEnter, HandlerStep, HandlerLoad, WalkSkip, WalkInvoke,
         InvokeSearch, InvokeExecute, InvokeLongjmp, WalkNextPass, WalkEnd,
         HandlerExit, GP!SectionEnter, GP!SectionExit, listVars, mutVars,
         gpState
<1>2. k \in owed => k \in owed'
  BY DEF HandlerEnter, HandlerStep, HandlerLoad, WalkSkip, WalkInvoke,
         InvokeSearch, InvokeExecute, InvokeLongjmp, WalkNextPass, WalkEnd,
         HandlerExit, GP!SectionEnter, GP!SectionExit, gpState
<1>3. TypeOK
  BY DEF Inv
<1>4. /\ hpc'[k] = hpc[k] /\ sig'[k] = sig[k] /\ flags'[k] = flags[k]
      /\ pass'[k] = pass[k] /\ reglist'[k] = reglist[k] /\ it'[k] = it[k]
      /\ must'[k] = must[k] /\ ran'[k] = ran[k]
  BY <1>3 DEF TypeOK, HandlerEnter, HandlerStep, HandlerLoad, WalkSkip,
         WalkInvoke, InvokeSearch, InvokeExecute, InvokeLongjmp, WalkNextPass,
         WalkEnd, HandlerExit, Leave
<1>5. \A n : Safe(k, n) => Safe(k, n)'
  BY <1>1, <1>2 DEF Safe, InList, Linked
<1>6. MustInv(k)' /\ CoverInv(k)'
  BY <1>1, <1>4 DEF MustInv, CoverInv, Walking, Priority, Ahead, Linked
<1>7. RanInv(k)'
  BY <1>1, <1>4, <1>5 DEF RanInv, Walking, Priority, Ahead
<1> QED
  BY <1>6, <1>7
\* The state of a handler that the three invariants read.
Own(h) == MustInv(h) /\ CoverInv(h) /\ RanInv(h)

\* Following the list with a registration that is called or not to be called.
LEMMA AdvanceWalk ==
  ASSUME Inv, OrderInv, NEW h \in Handlers, Own(h),
         WalkSkip(h) \/ InvokeSearch(h)
  PROVE  Own(h)'
<1>1. PICK n : n = it[h]
  OBVIOUS
<1>2. TypeOK /\ IterInv
  BY DEF Inv
<1>3. /\ it'[h] = next[n] /\ hpc'[h] = "walk" /\ Walking(h)
      /\ UNCHANGED <<next, mem, low, signals, older, mpc, mreg, owed, sig,
                     flags, pass, reglist, must, ran>>
  BY <1>1, <1>2 DEF TypeOK, WalkSkip, InvokeSearch, Walking, listVars, mutVars,
                    gpState
<1>4. n \in Regs /\ Safe(h, n)
  <2>1. Safe(h, n) /\ n \in Nodes
    BY <1>1, <1>2, <1>3 DEF IterInv, TypeOK
  <2>2. n # Head
    BY <1>1, <1>2, HeadAssumption DEF WalkSkip, InvokeSearch, PassOver, TypeOK,
                                      Own, RanInv
  <2> QED
    BY <2>1, <2>2 DEF Nodes
<1>5. older[n] = Ahead(next[n]) /\ n \notin older[n]
  BY <1>4, StandsInOrder
<1>6. Ahead(n) = {n} \cup Ahead(next[n]) /\ n \notin Ahead(next[n])
  BY <1>4, <1>5, HeadAssumption DEF Ahead
<1>7. Ahead(it[h])' = Ahead(next[n])
  BY <1>3 DEF Ahead
<1>8. /\ \A r : Priority(r)' = Priority(r) /\ (Safe(h, r) => Safe(h, r)')
      /\ Linked' = Linked
      /\ Ahead(reglist[h])' = Ahead(reglist[h])
  BY <1>3 DEF Priority, Safe, InList, Linked, Ahead
<1>9. MustInv(h)'
  BY <1>3, <1>8 DEF Own, MustInv, Walking
<1>10. ASSUME NEW r \in must[h], r \notin ran[h]
       PROVE  \/ pass[h] = "normal" /\ low[r]
              \/ Priority(r) = pass[h] /\ r \in Ahead(next[n])
  <2>1. \/ pass[h] = "normal" /\ low[r]
        \/ Priority(r) = pass[h] /\ r \in Ahead(n)
    BY <1>1, <1>3, <1>10 DEF Own, CoverInv
  <2>2. CASE r = n /\ Priority(r) = pass[h]
    <3>1. sig[h] \in signals[r]
      BY <1>10 DEF Own, MustInv
    <3>2. FALSE
      BY <1>1, <1>10, <2>2, <3>1 DEF WalkSkip, InvokeSearch, Matches, Own, RanInv
    <3> QED
      BY <3>2
  <2> QED
    BY <1>6, <2>1, <2>2
<1>11. CoverInv(h)'
  BY <1>3, <1>7, <1>8, <1>10 DEF CoverInv
<1>12. ASSUME NEW r \in ran[h], Priority(r) = pass[h]
       PROVE  r \notin Ahead(next[n])
  BY <1>1, <1>5, <1>6, <1>12 DEF WalkSkip, InvokeSearch, Own, RanInv
<1>13. RanInv(h)'
  BY <1>3, <1>7, <1>8, <1>12 DEF Own, RanInv, Walking
<1> QED
  BY <1>9, <1>11, <1>13 DEF Own

\* The start of a walk, and of its second pass.
LEMMA StartWalk ==
  ASSUME Inv, OrderInv, NEW h \in Handlers, Own(h),
         HandlerLoad(h) \/ WalkNextPass(h)
  PROVE  Own(h)'
<1>1. TypeOK /\ IterInv
  BY DEF Inv
<1>2. UNCHANGED <<next, mem, low, signals, older, mpc, mreg, owed, sig, flags,
                  ran>>
  BY DEF HandlerLoad, WalkNextPass, listVars, mutVars, gpState
<1>3. /\ \A r : Priority(r)' = Priority(r) /\ (Safe(h, r) => Safe(h, r)')
      /\ Linked' = Linked
  BY <1>2 DEF Priority, Safe, InList, Linked
<1>4. CASE HandlerLoad(h)
  <2>1. /\ hpc[h] = "load" /\ hpc'[h] = "walk" /\ pass'[h] = "normal"
        /\ it'[h] = next[Head] /\ reglist'[h] = next[Head]
        /\ must'[h] = {r \in Linked : sig[h] \in signals[r]
                                       /\ Priority(r) \in flags[h]}
    BY <1>1, <1>4 DEF TypeOK, HandlerLoad
  <2>2. ran'[h] = {}
    BY <1>2, <2>1 DEF Own, RanInv
  <2>3. Ahead(it[h])' = Linked /\ Ahead(reglist[h])' = Linked
    BY <1>2, <2>1 DEF Ahead, OrderInv
  <2>4. MustInv(h)'
    BY <1>2, <1>3, <2>1, <2>3 DEF MustInv
  <2>5. CoverInv(h)'
    <3>1. \A r \in must'[h] : low[r] \/ Priority(r) = "normal"
      BY DEF Priority
    <3> QED
      BY <1>2, <1>3, <2>1, <2>3, <3>1 DEF CoverInv
  <2>6. RanInv(h)'
    BY <2>1, <2>2 DEF RanInv
  <2> QED
    BY <2>4, <2>5, <2>6 DEF Own
<1>5. CASE WalkNextPass(h)
  <2>1. /\ hpc[h] = "walk" /\ hpc'[h] = "walk" /\ PassOver(h)
        /\ pass[h] = "normal" /\ pass'[h] = "low" /\ it'[h] = reglist[h]
        /\ UNCHANGED <<reglist, must>>
    BY <1>1, <1>5 DEF TypeOK, WalkNextPass
  <2>2. Ahead(it[h])' = Ahead(reglist[h]) /\ Ahead(reglist[h])' = Ahead(reglist[h])
    BY <1>2, <2>1 DEF Ahead
  <2>3. MustInv(h)'
    BY <1>2, <1>3, <2>1, <2>2 DEF Own, MustInv, Walking
  <2>4. ASSUME NEW r \in must[h], r \notin ran[h]
        PROVE  Priority(r) = "low" /\ r \in Ahead(reglist[h])
    <3>1. r \in Ahead(reglist[h]) /\ Priority(r) \in flags[h]
      BY <2>1, <2>4 DEF Own, MustInv, Walking
    <3>2. low[r] \/ (Priority(r) = "normal" /\ r \in Ahead(it[h]))
      BY <2>1, <2>4 DEF Own, CoverInv, Walking
    <3>3. ~(Priority(r) = "normal" /\ r \in Ahead(it[h]))
      BY <2>1, <3>1 DEF PassOver, Ahead
    <3> QED
      BY <3>1, <3>2, <3>3 DEF Priority
  <2>5. CoverInv(h)'
    BY <1>2, <1>3, <2>1, <2>2, <2>4 DEF CoverInv
  <2>6. \A r \in ran[h] : Priority(r) = "normal"
    BY <2>1 DEF Own, RanInv, Walking, Priority
  <2>7. RanInv(h)'
    BY <1>2, <1>3, <2>1, <2>6 DEF Own, RanInv
  <2> QED
    BY <2>3, <2>5, <2>7 DEF Own
<1> QED
  BY <1>4, <1>5

\* A call of a handler, and the end of the search.
LEMMA CallWalk ==
  ASSUME Inv, OrderInv, NEW h \in Handlers, Own(h),
         WalkInvoke(h) \/ InvokeExecute(h) \/ WalkEnd(h)
  PROVE  Own(h)'
<1>1. PICK n : n = it[h]
  OBVIOUS
<1>2. TypeOK /\ IterInv
  BY DEF Inv
<1>3. UNCHANGED <<next, mem, low, signals, older, mpc, mreg, owed, sig, flags,
                  pass, reglist, it, must>>
  BY DEF WalkInvoke, InvokeExecute, WalkEnd, listVars, mutVars, gpState
<1>4. /\ \A r : /\ Priority(r)' = Priority(r) /\ (Safe(h, r) => Safe(h, r)')
                /\ Ahead(r)' = Ahead(r)
      /\ Linked' = Linked
      /\ Ahead(reglist[h])' = Ahead(reglist[h]) /\ Ahead(it[h])' = Ahead(n)
  BY <1>1, <1>3 DEF Priority, Safe, InList, Linked, Ahead
<1>5. CASE WalkInvoke(h)
  <2>1. /\ hpc[h] = "walk" /\ hpc'[h] = "invoke" /\ ran'[h] = ran[h] \cup {n}
        /\ n # Head /\ Priority(n) = pass[h]
    BY <1>1, <1>2, <1>5 DEF TypeOK, WalkInvoke, PassOver, Matches
  <2>2. Safe(h, n) /\ n \in Regs
    BY <1>1, <1>2, <2>1 DEF IterInv, Walking, TypeOK, Nodes
  <2>3. older[n] \subseteq Ahead(n) /\ n \notin older[n]
    BY <2>1, <2>2, StandsInOrder DEF Ahead
  <2>4. MustInv(h)' /\ CoverInv(h)'
    BY <1>1, <1>3, <1>4, <2>1 DEF Own, MustInv, CoverInv, Walking
  <2>5. pass[h] = "normal" => ~low[n]
    BY <2>1 DEF Priority
  <2>6. \A r \in ran'[h] : Priority(r) = pass[h] => r \notin older[n]
    BY <1>1, <2>1, <2>3 DEF Own, RanInv
  <2>7. RanInv(h)'
    BY <1>1, <1>3, <1>4, <2>1, <2>2, <2>5, <2>6 DEF Own, RanInv, Walking
  <2> QED
    BY <2>4, <2>7 DEF Own
<1>6. CASE InvokeExecute(h)
  <2>1. hpc[h] = "invoke" /\ hpc'[h] = "handled" /\ ran' = ran
    BY <1>2, <1>6 DEF TypeOK, InvokeExecute
  <2> QED
    BY <1>3, <1>4, <2>1 DEF Own, MustInv, CoverInv, RanInv, Walking
<1>7. CASE WalkEnd(h)
  <2>1. /\ hpc[h] = "walk" /\ hpc'[h] = "unhandled" /\ ran' = ran
        /\ pass[h] = "low" /\ PassOver(h)
    BY <1>2, <1>7 DEF TypeOK, WalkEnd
  <2>2. ASSUME NEW r \in must[h], r \notin ran[h]
        PROVE  FALSE
    <3>1. Priority(r) = "low" /\ r \in Ahead(n)
      BY <1>1, <2>1, <2>2 DEF Own, CoverInv, Walking
    <3>2. "low" \in flags[h]
      BY <2>2, <3>1 DEF Own, MustInv
    <3> QED
      BY <1>1, <2>1, <3>1, <3>2 DEF PassOver, Ahead
  <2>3. must[h] \subseteq ran[h]
    BY <2>2
  <2> QED
    BY <1>3, <1>4, <2>1, <2>3 DEF Own, MustInv, CoverInv, RanInv, Walking
<1> QED
  BY <1>5, <1>6, <1>7

\* Coming and going: nothing is owed and nothing has been called.
LEMMA EnterLeave ==
  ASSUME Inv, NEW h \in Handlers, Own(h),
         HandlerEnter(h) \/ InvokeLongjmp(h) \/ HandlerExit(h)
  PROVE  Own(h)'
<1>1. TypeOK
  BY DEF Inv
<1>2. hpc'[h] \in {"idle", "load"}
  BY <1>1 DEF TypeOK, HandlerEnter, InvokeLongjmp, HandlerExit, Leave
<1>3. must'[h] = {} /\ ran'[h] = {}
  BY <1>1 DEF TypeOK, HandlerEnter, InvokeLongjmp, HandlerExit, Leave, Own,
              RanInv
<1> QED
  BY <1>2, <1>3 DEF Own, MustInv, CoverInv, RanInv, Walking

\* No step of a handler breaks a promise or the order.
LEMMA HandlerWalk ==
  ASSUME Inv, OrderInv, WalkInv, NEW h \in Handlers,
         HandlerEnter(h) \/ HandlerStep(h)
  PROVE  OrderInv' /\ WalkInv'
<1>1. Own(h)
  BY DEF WalkInv, Own
<1>2. Own(h)'
  BY <1>1, AdvanceWalk, StartWalk, CallWalk, EnterLeave DEF HandlerStep
<1>3. \A k \in Handlers : k # h =>
        MustInv(k)' /\ CoverInv(k)' /\ RanInv(k)'
  BY OthersKeep DEF WalkInv
<1>4. UNCHANGED <<next, mem, older, mpc, mreg>>
  BY DEF HandlerEnter, HandlerStep, HandlerLoad, WalkSkip, WalkInvoke,
         InvokeSearch, InvokeExecute, InvokeLongjmp, WalkNextPass, WalkEnd,
         HandlerExit, listVars, mutVars
<1>5. OrderInv'
  <2>1. Linked' = Linked
    BY <1>4 DEF Linked
  <2>2. \A n \in Regs : Reachable(n)' => Reachable(n)
    BY <1>4, <2>1 DEF Reachable
  <2> QED
    BY <1>4, <2>1, <2>2, OrderUnchanged
<1> QED
  BY <1>2, <1>3, <1>5 DEF WalkInv, Own

-----------------------------------------------------------------------------

\* The order of the list and the promises of the walks hold throughout.
LEMMA InductiveWalk == SafeSpec => [](Inv /\ OrderInv /\ WalkInv)
<1>1. Init => OrderInv /\ WalkInv
  <2> SUFFICES ASSUME Init PROVE OrderInv /\ WalkInv
    OBVIOUS
  <2>1. Linked = {}
    BY DEF Init, Linked
  <2>2. \A n : ~Reachable(n)
    BY <2>1 DEF Init, Reachable
  <2>3. OrderInv
    BY <2>1, <2>2 DEF OrderInv, Init, Ahead, Nodes
  <2>4. WalkInv
    BY DEF Init, WalkInv, MustInv, CoverInv, RanInv, Walking
  <2> QED
    BY <2>3, <2>4
<1>2. Inv /\ OrderInv /\ WalkInv /\ [Next]_vars => OrderInv' /\ WalkInv'
  <2> SUFFICES ASSUME Inv, OrderInv, WalkInv, [Next]_vars
               PROVE  OrderInv' /\ WalkInv'
    OBVIOUS
  <2>1. CASE UNCHANGED vars
    <3>1. UNCHANGED <<next, older, mem, low, signals, mpc, mreg, owed, hpc,
                      sig, flags, pass, reglist, it, must, ran>>
      BY <2>1 DEF vars
    <3>2. OrderInv'
      BY <3>1 DEF OrderInv, NodeOrder, Reachable, Ahead, Linked
    <3>3. WalkInv'
      BY <3>1 DEF WalkInv, MustInv, CoverInv, RanInv, Walking, Safe, InList,
                  Linked, Ahead, Priority
    <3> QED
      BY <3>2, <3>3
  <2> QED
    BY <2>1, MutatorWalk, HandlerWalk DEF Next
<1> QED
  BY <1>1, <1>2, InductiveInv, PTL DEF SafeSpec

\* Low-priority handlers are called only after the others that matched all
\* along have been, and within a priority a handler is called before those
\* registered earlier, whatever comes and goes during the walk.
THEOREM CallsInOrder == SafeSpec => []CallOrder
<1>1. WalkInv => CallOrder
  <2> SUFFICES ASSUME WalkInv, NEW h \in Handlers, hpc[h] = "invoke"
               PROVE  /\ low[it[h]] => {r \in must[h] : ~low[r]} \subseteq ran[h]
                      /\ \A r \in ran[h] : low[r] = low[it[h]] => r \notin older[it[h]]
    BY DEF CallOrder
  <2>1. MustInv(h) /\ CoverInv(h) /\ RanInv(h) /\ Walking(h)
    BY DEF WalkInv, Walking
  <2>2. Priority(it[h]) = pass[h]
    BY <2>1 DEF RanInv
  <2>3. ASSUME low[it[h]], NEW r \in must[h], ~low[r]
        PROVE  r \in ran[h]
    BY <2>1, <2>2, <2>3 DEF CoverInv, Priority
  <2>4. ASSUME NEW r \in ran[h], low[r] = low[it[h]]
        PROVE  r \notin older[it[h]]
    BY <2>1, <2>2, <2>4 DEF RanInv, Priority
  <2> QED
    BY <2>3, <2>4
<1> QED
  BY <1>1, InductiveWalk, PTL
-----------------------------------------------------------------------------
(* The list implements the table of handlers. *)

\* The status of a registration and the outcome of a delivery, as the
\* refinement mapping of Table reads them.
Status == [r \in Regs |-> CASE mem[r] = "linked" -> "registered"
                            [] mem[r] = "unlinked" -> "leaving"
                            [] OTHER -> "free"]
Outcome == [h \in Handlers |-> CASE hpc[h] = "handled" -> "answered"
                                 [] hpc[h] = "unhandled" -> "nobody"
                                 [] OTHER -> "open"]

\* Writing mem[r] writes the status of r.
LEMMA StatusWrite ==
  ASSUME TypeOK, NEW r \in Regs, NEW v, mem' = [mem EXCEPT ![r] = v]
  PROVE  /\ v = "linked" => Status' = [Status EXCEPT ![r] = "registered"]
         /\ v = "unlinked" => Status' = [Status EXCEPT ![r] = "leaving"]
         /\ v = "free" => Status' = [Status EXCEPT ![r] = "free"]
         /\ v = "fresh" => Status' = [Status EXCEPT ![r] = "free"]
<1>1. \A k \in Regs : mem'[k] = IF k = r THEN v ELSE mem[k]
  BY DEF TypeOK
<1> QED
  BY <1>1 DEF Status

\* The same for the outcome of a delivery.
LEMMA OutcomeWrite ==
  ASSUME TypeOK, NEW h \in Handlers, NEW v, hpc' = [hpc EXCEPT ![h] = v]
  PROVE  /\ v = "handled" => Outcome' = [Outcome EXCEPT ![h] = "answered"]
         /\ v = "unhandled" => Outcome' = [Outcome EXCEPT ![h] = "nobody"]
         /\ v \in {"idle", "load", "walk", "invoke"} =>
              Outcome' = [Outcome EXCEPT ![h] = "open"]
<1>1. \A k \in Handlers : hpc'[k] = IF k = h THEN v ELSE hpc[k]
  BY DEF TypeOK
<1> QED
  BY <1>1 DEF Outcome

\* What a mutator does to the table.
LEMMA MutatorRefines ==
  ASSUME Inv, OrderInv, WalkInv, NEW m \in Mutators,
         RegisterAlloc(m) \/ UnregisterCall(m) \/ MutatorStep(m)
  PROVE  [Table!TableNext]_(Table!tableVars)
<1>1. TypeOK /\ RegInv /\ OwnerInv /\ WalkInv
  BY DEF Inv
<1> USE DEF Table!tableVars
<1>2. CASE RegisterAlloc(m)
  <2>1. PICK r \in Regs : mem[r] = "free" /\ mem' = [mem EXCEPT ![r] = "fresh"]
    BY <1>2 DEF RegisterAlloc
  <2>2. Status' = Status
    BY <1>1, <2>1, StatusWrite DEF Status
  <2>3. Outcome' = Outcome
    BY <1>2 DEF RegisterAlloc, handlerVars, Outcome
  <2>4. UNCHANGED <<active, must, ran, draining, owed>>
    BY <1>2 DEF RegisterAlloc, handlerVars, gpState
  <2> QED
    BY <2>2, <2>3, <2>4 DEF Status, Outcome
<1>3. CASE RegisterLock(m) \/ RegisterReturn(m) \/ UnregisterCall(m)
           \/ UnregisterLock(m) \/ UnregisterUnlock(m)
  <2>1. UNCHANGED <<mem, hpc, active, must, ran, draining, owed>>
    BY <1>3 DEF RegisterLock, RegisterReturn, UnregisterCall, UnregisterLock,
                UnregisterUnlock, listVars, gpState, handlerVars
  <2> QED
    BY <2>1
<1>4. CASE RegisterPublish(m)
  <2>1. PICK r : r = mreg[m]
    OBVIOUS
  <2>2. r \in Regs /\ mem[r] = "fresh"
    BY <1>1, <1>4, <2>1, HeadAssumption DEF RegisterPublish, TypeOK, RegInv, Nodes
  <2>3. /\ mem' = [mem EXCEPT ![r] = "linked"]
        /\ UNCHANGED <<hpc, active, must, ran, draining, owed>>
    BY <1>4, <2>1 DEF RegisterPublish, gpState, handlerVars
  <2>4. Status[r] = "free" /\ Status' = [Status EXCEPT ![r] = "registered"]
    <3>1. Status' = [Status EXCEPT ![r] = "registered"]
      BY <1>1, <2>2, <2>3, StatusWrite
    <3> QED
      BY <2>2, <3>1 DEF Status
  <2>5. Table!Register(r)
    BY <2>3, <2>4 DEF Table!Register, Status
  <2> QED
    BY <2>2, <2>5 DEF Table!TableNext
<1>5. CASE UnregisterUnlink(m)
  <2>1. PICK r : r = mreg[m]
    OBVIOUS
  <2>2. r \in Regs /\ mem[r] = "linked"
    BY <1>1, <1>5, <2>1, HeadAssumption DEF UnregisterUnlink, TypeOK, RegInv, Nodes
  <2>3. /\ mem' = [mem EXCEPT ![r] = "unlinked"]
        /\ must' = [h \in Handlers |-> must[h] \ {r}]
        /\ UNCHANGED <<hpc, active, ran, draining, owed>>
    BY <1>5, <2>1 DEF UnregisterUnlink, gpState
  <2>4. Status[r] = "registered" /\ Status' = [Status EXCEPT ![r] = "leaving"]
    <3>1. Status' = [Status EXCEPT ![r] = "leaving"]
      BY <1>1, <2>2, <2>3, StatusWrite
    <3> QED
      BY <2>2, <3>1 DEF Status
  <2>5. Table!Unregister(r)
    BY <2>3, <2>4 DEF Table!Unregister, Status
  <2> QED
    BY <2>2, <2>5 DEF Table!TableNext
<1>6. CASE UnregisterDrain(m)
  <2>1. UNCHANGED <<mem, hpc, active, must, ran>>
    BY <1>6 DEF UnregisterDrain, listVars, handlerVars, GP!DrainBegin
  <2>2. Table!AwaitDeliveries
    BY <1>6, <2>1 DEF UnregisterDrain, GP!DrainBegin, Table!AwaitDeliveries
  <2> QED
    BY <2>2 DEF Table!TableNext
<1>7. CASE UnregisterDrained(m)
  <2>1. UNCHANGED <<mem, hpc, active, must, ran>>
    BY <1>7 DEF UnregisterDrained, listVars, handlerVars, GP!DrainReturn
  <2>2. Table!DeliveriesOver
    BY <1>7, <2>1 DEF UnregisterDrained, GP!DrainReturn, Table!DeliveriesOver
  <2> QED
    BY <2>2 DEF Table!TableNext
<1>8. CASE UnregisterFree(m)
  <2>1. PICK r : r = mreg[m]
    OBVIOUS
  <2>2. r \in Regs /\ mem[r] = "unlinked" /\ r \notin InList /\ r # Head
    BY <1>1, <1>8, <2>1, HeadAssumption
       DEF UnregisterFree, TypeOK, RegInv, Nodes, InList, Linked
  <2>3. /\ mem' = [mem EXCEPT ![r] = "free"] /\ mpc[m] = "free"
        /\ UNCHANGED <<hpc, active, must, ran, draining, owed>>
    BY <1>8, <2>1 DEF UnregisterFree, gpState, handlerVars
  <2>4. Status[r] = "leaving" /\ Status' = [Status EXCEPT ![r] = "free"]
    <3>1. Status' = [Status EXCEPT ![r] = "free"]
      BY <1>1, <2>2, <2>3, StatusWrite
    <3> QED
      BY <2>2, <3>1 DEF Status
  <2>5. \A h \in Handlers : ~Safe(h, r)
    BY <1>1, <2>1, <2>2, <2>3 DEF Safe, OwnerInv
  <2>6. \A h \in Handlers : r \notin ran[h]
    BY <1>1, <2>5 DEF WalkInv, RanInv
  <2>7. Table!Release(r)
    BY <2>3, <2>4, <2>6 DEF Table!Release, Status
  <2> QED
    BY <2>2, <2>7 DEF Table!TableNext
<1> QED
  BY <1>2, <1>3, <1>4, <1>5, <1>6, <1>7, <1>8
     DEF MutatorStep, RegisterStep, UnregisterStep

\* What a handler does to the table.
LEMMA HandlerRefines ==
  ASSUME Inv, OrderInv, WalkInv, NEW h \in Handlers,
         HandlerEnter(h) \/ HandlerStep(h)
  PROVE  [Table!TableNext]_(Table!tableVars)
<1>1. TypeOK /\ IterInv /\ MustInv(h) /\ CoverInv(h) /\ RanInv(h)
  BY DEF Inv, WalkInv
<1>2. mem' = mem /\ draining' = draining
  BY DEF HandlerEnter, HandlerStep, HandlerLoad, WalkSkip, WalkInvoke,
         InvokeSearch, InvokeExecute, InvokeLongjmp, WalkNextPass, WalkEnd,
         HandlerExit, GP!SectionEnter, GP!SectionExit, listVars, gpState
<1>3. Status' = Status
  BY <1>2 DEF Status
<1> USE DEF Table!tableVars
<1>4. CASE HandlerEnter(h)
  <2>1. hpc[h] = "idle" /\ hpc' = [hpc EXCEPT ![h] = "load"]
    BY <1>4 DEF HandlerEnter
  <2>2. Outcome' = Outcome
    BY <1>1, <2>1, OutcomeWrite DEF Outcome
  <2>3. Table!Deliver(h)
    BY <1>2, <1>3, <1>4, <2>2 DEF HandlerEnter, GP!SectionEnter, Table!Deliver, Status, Outcome
  <2> QED
    BY <2>3 DEF Table!TableNext
<1>5. CASE HandlerLoad(h)
  <2>1. /\ hpc[h] = "load" /\ hpc' = [hpc EXCEPT ![h] = "walk"]
        /\ UNCHANGED <<active, owed, ran>>
    BY <1>5 DEF HandlerLoad, gpState
  <2>2. Outcome' = Outcome
    BY <1>1, <2>1, OutcomeWrite DEF Outcome
  <2>3. PICK rs : /\ rs = {r \in Linked : sig[h] \in signals[r] /\ Priority(r) \in flags[h]}
                  /\ must' = [must EXCEPT ![h] = rs]
    BY <1>5 DEF HandlerLoad
  <2>4. rs \in SUBSET {r \in Regs : Status[r] = "registered"}
    BY <2>3 DEF Linked, Status
  <2>5. h \in active
    BY <1>1, <2>1 DEF IterInv
  <2>6. Table!LookUp(h)
    BY <1>2, <1>3, <2>1, <2>2, <2>3, <2>4, <2>5 DEF Table!LookUp, Status, Outcome
  <2> QED
    BY <2>6 DEF Table!TableNext
<1>6. CASE WalkSkip(h) \/ WalkNextPass(h)
  BY <1>2, <1>6 DEF WalkSkip, WalkNextPass, gpState
<1>7. CASE InvokeSearch(h)
  <2>1. /\ hpc[h] = "invoke" /\ hpc' = [hpc EXCEPT ![h] = "walk"]
        /\ UNCHANGED <<active, owed, must, ran>>
    BY <1>7 DEF InvokeSearch, gpState
  <2>2. Outcome' = Outcome
    BY <1>1, <2>1, OutcomeWrite DEF Outcome
  <2> QED
    BY <1>2, <1>3, <2>1, <2>2 DEF Status, Outcome
<1>8. CASE WalkInvoke(h)
  <2>1. PICK n : n = it[h]
    OBVIOUS
  <2>2. /\ hpc[h] = "walk" /\ hpc' = [hpc EXCEPT ![h] = "invoke"]
        /\ ran' = [ran EXCEPT ![h] = @ \cup {n}]
        /\ n # Head /\ Priority(n) = pass[h]
        /\ UNCHANGED <<active, owed, must>>
    BY <1>8, <2>1 DEF WalkInvoke, PassOver, Matches, gpState
  <2>3. Outcome' = Outcome /\ Outcome[h] = "open"
    BY <1>1, <2>2, OutcomeWrite DEF Outcome
  <2>4. n \in Regs /\ Safe(h, n) /\ h \in active
    BY <1>1, <2>1, <2>2 DEF IterInv, Walking, TypeOK, Nodes
  <2>5. mem[n] \in {"linked", "unlinked"}
    BY <2>4, HeadAssumption DEF Safe, InList, Linked, Inv, RegInv
  <2>6. Status[n] # "free"
    BY <2>4, <2>5 DEF Status
  <2>7. n \notin ran[h]
    BY <1>1, <2>1, <2>2 DEF RanInv, Ahead
  <2>8. Table!Invoke(h, n)
    BY <1>2, <1>3, <2>2, <2>3, <2>4, <2>6, <2>7 DEF Table!Invoke, Status, Outcome
  <2> QED
    BY <2>4, <2>8 DEF Table!TableNext
<1>9. CASE InvokeExecute(h)
  <2>1. /\ hpc[h] = "invoke" /\ hpc' = [hpc EXCEPT ![h] = "handled"]
        /\ UNCHANGED <<active, owed, must, ran>>
    BY <1>9 DEF InvokeExecute, gpState
  <2>2. Outcome' = [Outcome EXCEPT ![h] = "answered"]
    BY <1>1, <2>1, OutcomeWrite
  <2>3. Outcome[h] = "open" /\ h \in active /\ ran[h] # {}
    BY <1>1, <2>1 DEF Outcome, IterInv, RanInv
  <2>4. Table!Decide(h)
    BY <1>2, <1>3, <2>1, <2>2, <2>3 DEF Table!Decide, Status, Outcome
  <2> QED
    BY <2>4 DEF Table!TableNext
<1>10. CASE WalkEnd(h)
  <2>1. /\ hpc[h] = "walk" /\ hpc' = [hpc EXCEPT ![h] = "unhandled"]
        /\ UNCHANGED <<active, owed, must, ran>>
    BY <1>10 DEF WalkEnd, gpState
  <2>2. Outcome' = [Outcome EXCEPT ![h] = "nobody"]
    BY <1>1, <2>1, OutcomeWrite
  <2>3. Outcome[h] = "open" /\ h \in active
    BY <1>1, <2>1 DEF Outcome, IterInv
  <2>4. must[h] \subseteq ran[h]
    <3>1. Own(h)'
      BY <1>1, <1>10, CallWalk DEF Own
    <3>2. hpc'[h] = "unhandled"
      BY <1>1, <2>1 DEF TypeOK
    <3> QED
      BY <2>1, <3>1, <3>2 DEF Own, MustInv
  <2>5. Table!Decide(h)
    BY <1>2, <1>3, <2>1, <2>2, <2>3, <2>4 DEF Table!Decide, Status, Outcome
  <2> QED
    BY <2>5 DEF Table!TableNext
<1>11. CASE InvokeLongjmp(h) \/ HandlerExit(h)
  <2>1. /\ hpc[h] \in {"invoke", "handled", "unhandled"}
        /\ hpc' = [hpc EXCEPT ![h] = "idle"]
        /\ must' = [must EXCEPT ![h] = {}] /\ ran' = [ran EXCEPT ![h] = {}]
        /\ h \in active /\ active' = active \ {h} /\ owed' = owed \ {h}
    BY <1>11 DEF InvokeLongjmp, HandlerExit, Leave, GP!SectionExit
  <2>2. Outcome' = [Outcome EXCEPT ![h] = "open"]
    BY <1>1, <2>1, OutcomeWrite
  <2>3. Outcome[h] # "open" \/ ran[h] # {}
    BY <1>1, <2>1 DEF Outcome, RanInv
  <2>4. Table!Finish(h)
    BY <1>2, <1>3, <2>1, <2>2, <2>3 DEF Table!Finish, Status, Outcome
  <2> QED
    BY <2>4 DEF Table!TableNext
<1> QED
  BY <1>4, <1>5, <1>6, <1>7, <1>8, <1>9, <1>10, <1>11 DEF HandlerStep

\* sigmux implements the table of handlers that sigmux.h promises: a handler is
\* called at most once in a delivery and only while it is registered or being
\* unregistered, a delivery that nobody answers has called everybody who was
\* due, and a registration is gone only when no delivery can have called it.
THEOREM SigmuxImplementsTable == SafeSpec => ImplementsTable
<1>1. Init => Table!TableInit
  BY DEF Init, Table!TableInit, GP!GPInit
<1>2. Inv /\ OrderInv /\ WalkInv /\ [Next]_vars
        => [Table!TableNext]_(Table!tableVars)
  <2> SUFFICES ASSUME Inv, OrderInv, WalkInv, [Next]_vars
               PROVE  [Table!TableNext]_(Table!tableVars)
    OBVIOUS
  <2>1. CASE UNCHANGED vars
    BY <2>1 DEF vars, Table!tableVars
  <2> QED
    BY <2>1, MutatorRefines, HandlerRefines DEF Next
<1> QED
  BY <1>1, <1>2, InductiveWalk, PTL DEF SafeSpec, ImplementsTable, Table!TableSpec
=============================================================================
