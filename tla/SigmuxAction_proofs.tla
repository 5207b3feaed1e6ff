------------------------ MODULE SigmuxAction_proofs ------------------------
(***************************************************************************)
(* Proofs about SigmuxAction, for any handlers, mutators and actions of    *)
(* the application: what a handler falls back on is one action that was    *)
(* installed, although structures are written and copied field by field    *)
(* and reset by other handlers meanwhile.                                  *)
(***************************************************************************)
EXTENDS SigmuxAction, TLAPS

\* The program counters at which a mutator has sigmux_global.lock.
LockPCs == {"seize", "save", "write", "write2", "exchange", "drain", "draining",
            "unlock"}

\* The lock excludes, and a drain runs only inside it.
LockInv ==
  /\ \A m \in Mutators : mpc[m] \in LockPCs <=> lock = m
  /\ draining <=> \E m \in Mutators : mpc[m] = "draining"

\* A handler that looks for an action, or uses one, is inside a section.
SectionInv ==
  \A h \in Handlers : hpc[h] \in {"idle", "invoke"} <=> h \notin active

\* What sigmux_init will save is an action of the application; sigmux_sigaction
\* writes only once it is done.
InitInv ==
  /\ \A m \in Mutators :
       /\ mpc[m] \in {"seize", "save"} => ~initsig
       /\ mpc[m] = "save" => mact[m] \in installed
       /\ mpc[m] \in {"write", "write2", "exchange", "drain", "draining"} => initsig
  /\ kernel \in installed \/ initsig \/ \E m \in Mutators : mpc[m] = "save"

\* A handler is on the structure that was taken out of use only while a drain
\* waits for it.
SpareInv ==
  \A h \in Handlers : Uses(h) /\ src[h] # orig =>
    \E m \in Mutators :
      mpc[m] = "drain" \/ (mpc[m] = "draining" /\ h \in owed)

\* What sigmux_sigaction has written so far.
WriteInv ==
  \A m \in Mutators :
    /\ mpc[m] = "write2" => sa[Other(orig)].handler = mact[m].handler
    /\ mpc[m] = "exchange" => sa[Other(orig)] = mact[m]

\* Handler h is on structure s.
On(h, s) == Uses(h) /\ src[h] = s

\* What handler h has copied so far can come from act, or from the zeros that
\* were there before it.
Matches(h, act) ==
  /\ "handler" \in copied[h] => local[h].handler \in {act.handler, "dfl"}
  /\ "oneShot" \in copied[h] => local[h].oneShot \in {act.oneShot, FALSE}
  /\ copied[h] = {"handler", "oneShot"} => local[h] \in Resets(act) \cup {Zero}
  /\ hpc[h] \in {"cas", "clear"} =>
       copied[h] = {"handler", "oneShot"} /\ local[h].oneShot

\* The structure s holds act, reset or being reset, and everybody who uses the
\* structure has copied from it.
Holds(s, act) ==
  /\ sa[s] \in Resets(act)
  /\ \A h \in Handlers : On(h, s) => Matches(h, act)

\* The structures that are in use each hold one action; until sigmux_init is
\* done it is the zeros.
HoldInv ==
  /\ \A s \in Slots :
       s = orig \/ (\E h \in Handlers : On(h, s)) =>
         \E act \in installed \cup {Zero} : Holds(s, act)
  /\ ~initsig => Holds(orig, Zero)

\* The actions a handler may fall back on.
Good == {Zero} \cup UNION {Resets(act) : act \in installed}

LocalInv ==
  \A h \in Handlers :
    /\ hpc[h] \in {"exit", "invoke"} => local[h] \in Good
    /\ hpc[h] \in {"idle", "search"} => copied[h] = {}

Inv ==
  /\ TypeOK
  /\ LockInv
  /\ SectionInv
  /\ InitInv
  /\ SpareInv
  /\ WriteInv
  /\ HoldInv
  /\ LocalInv

USE DEF slotVars, mutVars, gpState, handlerVars, outcome

-----------------------------------------------------------------------------
(* Operators *)

\* The two structures take turns.
LEMMA OtherFacts ==
  ASSUME NEW s \in Slots
  PROVE  Other(s) \in Slots /\ Other(s) # s /\ \A r \in Slots : r # s => r = Other(s)
BY DEF Slots, Other

\* An action is among its own resets, and resetting it again gives nothing new.
LEMMA ResetFacts ==
  ASSUME NEW act \in Acts
  PROVE  /\ act \in Resets(act)
         /\ Resets(act) \subseteq Acts
         /\ Resets(Zero) = {Zero}
         /\ \A x \in Resets(act) :
              /\ x.handler \in {act.handler, "dfl"}
              /\ x.oneShot \in {act.oneShot, FALSE}
              /\ ~act.oneShot => x = act
BY DEF Resets, Acts, Zero, Values

\* Copying one field of what is left of act keeps a copy that agrees with act.
LEMMA CopyHandler ==
  ASSUME NEW act \in Acts, NEW x \in Acts, NEW y \in Resets(act),
         NEW z \in Acts, z.handler = y.handler, z.oneShot = x.oneShot
  PROVE  /\ z.handler \in {act.handler, "dfl"}
         /\ x.oneShot \in {act.oneShot, FALSE} => z \in Resets(act)
<1>1. y \in Acts /\ y.handler \in {act.handler, "dfl"} /\ (~act.oneShot => y = act)
  BY ResetFacts
<1>2. z \in Acts /\ z.handler = y.handler /\ z.oneShot = x.oneShot
  OBVIOUS
<1>3. ASSUME x.oneShot \in {act.oneShot, FALSE} PROVE z \in Resets(act)
  <2>1. CASE act.oneShot
    BY <1>1, <1>2, <2>1 DEF Resets, Acts
  <2>2. CASE ~act.oneShot
    <3>1. z.handler = act.handler /\ z.oneShot = act.oneShot
      BY <1>1, <1>2, <1>3, <2>2 DEF Acts
    <3>2. z = act
      BY <1>2, <3>1 DEF Acts
    <3> QED
      BY <3>2, ResetFacts
  <2> QED
    BY <2>1, <2>2
<1> QED
  BY <1>1, <1>2, <1>3

\* A copy whose fields come from a one-shot action and its reset is one of the two.
LEMMA CopyFlag ==
  ASSUME NEW act \in Acts, NEW x \in Acts, NEW y \in Resets(act),
         NEW z \in Acts, z.oneShot = y.oneShot, z.handler = x.handler
  PROVE  /\ z.oneShot \in {act.oneShot, FALSE}
         /\ x.handler \in {act.handler, "dfl"} => z \in Resets(act) \cup {Zero}
<1>1. y \in Acts /\ y.oneShot \in {act.oneShot, FALSE} /\ (~act.oneShot => y = act)
  BY ResetFacts
<1>2. z \in Acts /\ z.oneShot = y.oneShot /\ z.handler = x.handler
  OBVIOUS
<1>3. ASSUME x.handler \in {act.handler, "dfl"} PROVE z \in Resets(act) \cup {Zero}
  <2>1. CASE act.oneShot
    BY <1>1, <1>2, <1>3, <2>1 DEF Resets, Acts
  <2>2. CASE ~act.oneShot
    <3>1. z.handler \in {act.handler, "dfl"} /\ z.oneShot = FALSE /\ act.oneShot = FALSE
      BY <1>1, <1>2, <1>3, <2>2 DEF Acts
    <3>2. CASE z.handler = act.handler
      <4>1. z = act
        BY <1>2, <3>1, <3>2 DEF Acts
      <4> QED
        BY <4>1, ResetFacts
    <3>3. CASE z.handler = "dfl"
      <4>1. z = Zero
        BY <1>2, <3>1, <3>3 DEF Acts, Zero
      <4> QED
        BY <4>1
    <3> QED
      BY <3>1, <3>2, <3>3
  <2> QED
    BY <2>1, <2>2
<1> QED
  BY <1>1, <1>2, <1>3

\* Clearing SA_RESETHAND of what is left of a one-shot action.
LEMMA ClearFlag ==
  ASSUME NEW act \in Acts, NEW y, NEW z, z = [y EXCEPT !.oneShot = FALSE],
         y \in [handler : {act.handler, "dfl"}, oneShot : BOOLEAN]
  PROVE  z \in [handler : {act.handler, "dfl"}, oneShot : BOOLEAN]
OBVIOUS

\* The all-zero action is an action.
LEMMA ZeroIsAct == Zero \in Acts
BY DEF Zero, Acts, Values

\* So are those that an application installs.
LEMMA AppActsAreActs == AppActs \subseteq Acts
<1> SUFFICES ASSUME NEW v \in AppValues
             PROVE  [handler |-> v, oneShot |-> v \in OneShot] \in Acts
  BY DEF AppActs
<1>1. (v \in OneShot) \in BOOLEAN
  OBVIOUS
<1>2. v \in Values
  BY AppValuesAssumption
<1> QED
  BY <1>1, <1>2 DEF Acts

-----------------------------------------------------------------------------
(* Types *)

\* Types, under a mutator's step.
LEMMA TypeMutator ==
  ASSUME Inv, NEW m \in Mutators,
         \/ InitCall(m) \/ SigactionUnhooked(m) \/ SigactionCall(m)
         \/ MutatorStep(m)
  PROVE  TypeOK'
<1> USE ZeroIsAct, AppActsAreActs DEF Inv, TypeOK, GP!GPTypeOK
<1>1. CASE InitCall(m) \/ InitFail(m)
  BY <1>1 DEF InitCall, InitFail, Goto
<1>2. CASE InitSeize(m)
  <2>1. kernel \in installed
    BY <1>2 DEF InitSeize, InitInv, LockInv, LockPCs
  <2> QED
    BY <1>2, <2>1 DEF InitSeize, Goto
<1>3. CASE InitSave(m)
  BY <1>3 DEF InitSave, Goto
<1>4. CASE SigactionUnhooked(m) \/ SigactionCall(m)
  BY <1>4 DEF SigactionUnhooked, SigactionCall, Goto
<1>5. CASE SigactionDirect(m) \/ Unlock(m)
  BY <1>5 DEF SigactionDirect, Unlock, Goto
<1>6. CASE SigactionWrite(m) \/ SigactionWrite2(m)
  <2>1. Other(orig) \in Slots /\ sa[Other(orig)] \in Acts /\ mact[m] \in Acts
    BY OtherFacts
  <2>2. sa' \in [Slots -> Acts]
    BY <1>6, <2>1 DEF SigactionWrite, SigactionWrite2, Acts
  <2> QED
    BY <1>6, <2>2 DEF SigactionWrite, SigactionWrite2, Goto
<1>7. CASE SigactionExchange(m)
  BY <1>7, OtherFacts DEF SigactionExchange, Goto
<1>8. CASE SigactionDrain(m) \/ SigactionDrained(m)
  BY <1>8 DEF SigactionDrain, SigactionDrained, Goto, GP!DrainBegin, GP!DrainReturn
<1> QED
  BY <1>1, <1>2, <1>3, <1>4, <1>5, <1>6, <1>7, <1>8 DEF MutatorStep

\* Types, under a handler's step.
LEMMA TypeHandler ==
  ASSUME Inv, NEW h \in Handlers, HandlerEnter(h) \/ HandlerStep(h)
  PROVE  TypeOK'
<1> USE ZeroIsAct DEF Inv, TypeOK, GP!GPTypeOK
<1>1. CASE HandlerEnter(h)
  BY <1>1 DEF HandlerEnter, GP!SectionEnter, HGoto
<1>2. CASE SearchExecute(h) \/ InvokeFunction(h) \/ InvokeNothing(h)
  <2>1. "a" \in Slots
    BY DEF Slots
  <2>2. Return(h) /\ UNCHANGED <<slotVars, mutVars, outcome>>
    BY <1>2 DEF SearchExecute, InvokeFunction, InvokeNothing
  <2>3. GP!GPTypeOK'
    BY <1>2 DEF SearchExecute, InvokeFunction, InvokeNothing, GP!SectionExit
  <2> QED
    BY <2>1, <2>2, <2>3 DEF Return, HGoto
<1>3. CASE SearchSnapshot(h) \/ Copied(h)
  BY <1>3 DEF SearchSnapshot, Copied, HGoto
<1>4. CASE CopyField(h)
  BY <1>4 DEF CopyField, Acts
<1>5. CASE OneShotCAS(h)
  <2>1. sa[src[h]] \in Acts /\ local[h] \in Acts /\ "dfl" \in Values
    BY DEF Values
  <2> DEFINE found == sa[src[h]].handler
  <2>2. sa' \in [Slots -> Acts] /\ local' \in [Handlers -> Acts]
    <3>1. CASE found = local[h].handler
      <4>1. sa' = [sa EXCEPT ![src[h]].handler = "dfl"] /\ local' = local
        BY <1>5, <3>1 DEF OneShotCAS
      <4> QED
        BY <2>1, <4>1 DEF Acts
    <3>2. CASE found # local[h].handler
      <4>1. local' = [local EXCEPT ![h].handler = found] /\ sa' = sa
        BY <1>5, <3>2 DEF OneShotCAS
      <4> QED
        BY <2>1, <4>1 DEF Acts
    <3> QED
      BY <3>1, <3>2
  <2>3. lost' \in [Handlers -> BOOLEAN]
    BY <1>5 DEF OneShotCAS
  <2>4. hpc' = [hpc EXCEPT ![h] = "clear"]
    BY <1>5 DEF OneShotCAS, HGoto
  <2>5. UNCHANGED <<orig, initsig, kernel, mutVars, gpState, src, copied, outcome>>
    BY <1>5 DEF OneShotCAS
  <2> QED
    BY <2>2, <2>3, <2>4, <2>5
<1>6. CASE OneShotClear(h)
  BY <1>6, ZenonT(40) DEF OneShotClear, HGoto, Acts
<1>7. CASE HandlerExit(h)
  BY <1>7 DEF HandlerExit, HGoto, GP!SectionExit
<1>8. CASE InvokeFatal(h)
  BY <1>8 DEF InvokeFatal
<1> QED
  BY <1>1, <1>2, <1>3, <1>4, <1>5, <1>6, <1>7, <1>8 DEF HandlerStep

-----------------------------------------------------------------------------
(* The lock, the sections and sigmux_init *)

\* Lock and sections, under a mutator's step.
LEMMA LockMutator ==
  ASSUME Inv, NEW m \in Mutators,
         \/ InitCall(m) \/ SigactionUnhooked(m) \/ SigactionCall(m)
         \/ MutatorStep(m)
  PROVE  LockInv' /\ SectionInv'
<1> USE NoOneAssumption DEF Inv, TypeOK, GP!GPTypeOK, LockInv, LockPCs, Goto
<1>1. CASE InitCall(m) \/ InitFail(m) \/ InitSeize(m) \/ InitSave(m)
  BY <1>1 DEF InitCall, InitFail, InitSeize, InitSave, SectionInv
<1>2. CASE SigactionUnhooked(m) \/ SigactionCall(m) \/ SigactionDirect(m)
  BY <1>2 DEF SigactionUnhooked, SigactionCall, SigactionDirect, SectionInv
<1>3. CASE SigactionWrite(m) \/ SigactionWrite2(m) \/ SigactionExchange(m)
  BY <1>3 DEF SigactionWrite, SigactionWrite2, SigactionExchange, SectionInv
<1>4. CASE SigactionDrain(m) \/ SigactionDrained(m)
  BY <1>4 DEF SigactionDrain, SigactionDrained, GP!DrainBegin, GP!DrainReturn,
              SectionInv
<1>5. CASE Unlock(m)
  BY <1>5 DEF Unlock, SectionInv
<1> QED
  BY <1>1, <1>2, <1>3, <1>4, <1>5 DEF MutatorStep

\* Lock and sections, under a handler's step.
LEMMA LockHandler ==
  ASSUME Inv, NEW h \in Handlers, HandlerEnter(h) \/ HandlerStep(h)
  PROVE  LockInv' /\ SectionInv'
<1> USE DEF Inv, TypeOK, GP!GPTypeOK, HGoto
<1>1. LockInv'
  <2>1. UNCHANGED mutVars /\ UNCHANGED draining
    BY DEF HandlerEnter, HandlerStep, SearchExecute, SearchSnapshot, CopyField,
           Copied, OneShotCAS, OneShotClear, HandlerExit, InvokeFunction,
           InvokeFatal, InvokeNothing, GP!SectionEnter, GP!SectionExit
  <2> QED
    BY <2>1 DEF LockInv
<1>2. SectionInv'
  <2> USE DEF SectionInv
  <2>1. CASE HandlerEnter(h)
    BY <2>1 DEF HandlerEnter, GP!SectionEnter
  <2>2. CASE SearchExecute(h) \/ InvokeFunction(h) \/ InvokeNothing(h)
    BY <2>2 DEF SearchExecute, InvokeFunction, InvokeNothing, GP!SectionExit, Return
  <2>3. CASE SearchSnapshot(h) \/ CopyField(h) \/ Copied(h)
    BY <2>3 DEF SearchSnapshot, CopyField, Copied
  <2>4. CASE OneShotCAS(h) \/ OneShotClear(h)
    BY <2>4 DEF OneShotCAS, OneShotClear
  <2>5. CASE HandlerExit(h) \/ InvokeFatal(h)
    BY <2>5 DEF HandlerExit, InvokeFatal, GP!SectionExit
  <2> QED
    BY <2>1, <2>2, <2>3, <2>4, <2>5 DEF HandlerStep
<1> QED
  BY <1>1, <1>2

\* The initialised flag, under a mutator's step.
LEMMA InitMutator ==
  ASSUME Inv, NEW m \in Mutators,
         \/ InitCall(m) \/ SigactionUnhooked(m) \/ SigactionCall(m)
         \/ MutatorStep(m)
  PROVE  InitInv'
<1> USE NoOneAssumption DEF Inv, TypeOK, LockInv, LockPCs, InitInv, Goto
<1>1. CASE InitCall(m) \/ InitFail(m) \/ InitSeize(m) \/ InitSave(m)
  BY <1>1 DEF InitCall, InitFail, InitSeize, InitSave
<1>2. CASE SigactionUnhooked(m) \/ SigactionCall(m) \/ SigactionDirect(m)
  BY <1>2 DEF SigactionUnhooked, SigactionCall, SigactionDirect
<1>3. CASE SigactionWrite(m) \/ SigactionWrite2(m) \/ SigactionExchange(m)
  BY <1>3 DEF SigactionWrite, SigactionWrite2, SigactionExchange
<1>4. CASE SigactionDrain(m) \/ SigactionDrained(m) \/ Unlock(m)
  BY <1>4 DEF SigactionDrain, SigactionDrained, Unlock
<1> QED
  BY <1>1, <1>2, <1>3, <1>4 DEF MutatorStep

\* Handlers change neither the lock, nor which structure is in use, nor what
\* the application has installed.
LEMMA HandlerFrame ==
  ASSUME NEW h \in Handlers, HandlerEnter(h) \/ HandlerStep(h)
  PROVE  /\ UNCHANGED <<orig, initsig, kernel, mutVars, draining, installed>>
         /\ Inv => InitInv'
<1>1. UNCHANGED <<orig, initsig, kernel, mutVars, draining, installed>>
  BY DEF HandlerEnter, HandlerStep, SearchExecute, SearchSnapshot, CopyField,
         Copied, OneShotCAS, OneShotClear, HandlerExit, InvokeFunction,
         InvokeFatal, InvokeNothing, GP!SectionEnter, GP!SectionExit
<1> QED
  BY <1>1 DEF Inv, InitInv

-----------------------------------------------------------------------------
(* The structure that is not in use *)

\* While a mutator has the lock and no drain is called for, everybody is on the
\* structure in use.
LEMMA SpareUnused ==
  ASSUME Inv, NEW m \in Mutators, mpc[m] \in LockPCs,
         mpc[m] \notin {"drain", "draining"}, NEW h \in Handlers, Uses(h)
  PROVE  src[h] = orig
BY DEF Inv, LockInv, LockPCs, SpareInv

\* The spare action, under a mutator's step.
LEMMA SpareMutator ==
  ASSUME Inv, NEW m \in Mutators,
         \/ InitCall(m) \/ SigactionUnhooked(m) \/ SigactionCall(m)
         \/ MutatorStep(m)
  PROVE  SpareInv' /\ WriteInv'
<1> USE DEF Inv, TypeOK, LockInv, LockPCs, SpareInv, WriteInv, Uses, Goto
<1>1. CASE InitCall(m) \/ InitFail(m) \/ InitSeize(m)
  BY <1>1 DEF InitCall, InitFail, InitSeize
<1>2. CASE InitSave(m)
  <2>1. \A n \in Mutators : mpc[n] \in {"write2", "exchange"} => FALSE
    BY <1>2 DEF InitSave
  <2> QED
    BY <1>2, <2>1 DEF InitSave
<1>3. CASE SigactionUnhooked(m) \/ SigactionDirect(m)
  BY <1>3 DEF SigactionUnhooked, SigactionDirect
<1>4. CASE SigactionCall(m)
  BY <1>4 DEF SigactionCall
<1>5. CASE SigactionWrite(m) \/ SigactionWrite2(m)
  <2>1. \A n \in Mutators : mpc[n] \in LockPCs => n = m
    BY <1>5 DEF SigactionWrite, SigactionWrite2
  <2>2. SpareInv'
    BY <1>5 DEF SigactionWrite, SigactionWrite2
  <2>3. Other(orig) \in Slots /\ sa[Other(orig)] \in Acts /\ mact[m] \in Acts
    BY OtherFacts
  <2>4. CASE SigactionWrite(m)
    BY <2>1, <2>2, <2>3, <2>4 DEF SigactionWrite, Acts
  <2>5. CASE SigactionWrite2(m)
    <3>1. sa'[Other(orig)] = [sa[Other(orig)] EXCEPT !.oneShot = mact[m].oneShot]
      BY <2>3, <2>5 DEF SigactionWrite2
    <3>2. sa[Other(orig)].handler = mact[m].handler
      BY <2>5 DEF SigactionWrite2
    <3>3. sa'[Other(orig)] = mact[m]
      BY <2>3, <3>1, <3>2 DEF Acts
    <3> QED
      BY <2>1, <2>2, <2>5, <3>3 DEF SigactionWrite2
  <2> QED
    BY <1>5, <2>4, <2>5
<1>6. CASE SigactionExchange(m)
  BY <1>6, OtherFacts DEF SigactionExchange
<1>7. CASE SigactionDrain(m)
  <2>1. \A h \in Handlers : Uses(h) => h \in active
    BY DEF SectionInv
  <2> QED
    BY <1>7, <2>1 DEF SigactionDrain, GP!DrainBegin
<1>8. CASE SigactionDrained(m)
  BY <1>8 DEF SigactionDrained, GP!DrainReturn
<1>9. CASE Unlock(m)
  BY <1>9 DEF Unlock
<1> QED
  BY <1>1, <1>2, <1>3, <1>4, <1>5, <1>6, <1>7, <1>8, <1>9 DEF MutatorStep

\* The spare action, under a handler's step.
LEMMA SpareHandler ==
  ASSUME Inv, NEW h \in Handlers, HandlerEnter(h) \/ HandlerStep(h)
  PROVE  SpareInv' /\ WriteInv'
<1>1. UNCHANGED <<orig, mpc, mact>>
  BY HandlerFrame
<1>2. SpareInv'
  <2> USE DEF Inv, TypeOK, SpareInv, Uses, HGoto
  <2>1. CASE HandlerEnter(h)
    BY <2>1 DEF HandlerEnter, GP!SectionEnter
  <2>2. CASE SearchExecute(h) \/ InvokeFunction(h) \/ InvokeNothing(h)
    BY <2>2 DEF SearchExecute, InvokeFunction, InvokeNothing, GP!SectionExit, Return
  <2>3. CASE SearchSnapshot(h) \/ CopyField(h) \/ Copied(h)
    BY <2>3 DEF SearchSnapshot, CopyField, Copied
  <2>4. CASE OneShotCAS(h) \/ OneShotClear(h)
    BY <2>4 DEF OneShotCAS, OneShotClear
  <2>5. CASE HandlerExit(h) \/ InvokeFatal(h)
    BY <2>5 DEF HandlerExit, InvokeFatal, GP!SectionExit
  <2> QED
    BY <2>1, <2>2, <2>3, <2>4, <2>5 DEF HandlerStep
<1>3. WriteInv'
  <2> SUFFICES ASSUME NEW m \in Mutators, mpc[m] \in {"write2", "exchange"}
               PROVE  sa'[Other(orig)] = sa[Other(orig)]
    BY <1>1 DEF Inv, WriteInv
  <2>1. CASE OneShotCAS(h) \/ OneShotClear(h)
    <3>1. src[h] = orig
      BY <2>1, SpareUnused DEF OneShotCAS, OneShotClear, Uses, LockPCs
    <3> QED
      BY <2>1, <3>1, OtherFacts DEF OneShotCAS, OneShotClear, Inv, TypeOK
  <2>2. CASE ~(OneShotCAS(h) \/ OneShotClear(h))
    <3>1. UNCHANGED sa
      BY <2>2 DEF HandlerEnter, HandlerStep, SearchExecute, SearchSnapshot,
           CopyField, Copied, HandlerExit, InvokeFunction, InvokeFatal, InvokeNothing
    <3> QED
      BY <3>1
  <2> QED
    BY <2>1, <2>2
<1> QED
  BY <1>2, <1>3

-----------------------------------------------------------------------------
(* What the structures hold *)

\* A structure nobody writes, with the handlers that are on it, goes on holding
\* what it holds.
LEMMA HoldsKept ==
  ASSUME NEW s \in Slots, NEW act \in Acts, Holds(s, act), sa'[s] = sa[s],
         \A h \in Handlers : On(h, s)' =>
           /\ On(h, s)
           /\ copied'[h] = copied[h] /\ local'[h] = local[h] /\ hpc'[h] = hpc[h]
  PROVE  Holds(s, act)'
BY DEF Holds, Matches

\* The same of both structures, when no handler takes a snapshot.
LEMMA HoldKept ==
  ASSUME Inv, UNCHANGED <<sa, orig>>, installed \subseteq installed',
         ~initsig' => ~initsig,
         \A h \in Handlers : Uses(h)' =>
           /\ Uses(h) /\ src'[h] = src[h]
           /\ copied'[h] = copied[h] /\ local'[h] = local[h] /\ hpc'[h] = hpc[h]
  PROVE  HoldInv'
<1>1. \A h \in Handlers, s \in Slots : On(h, s)' =>
        /\ On(h, s)
        /\ copied'[h] = copied[h] /\ local'[h] = local[h] /\ hpc'[h] = hpc[h]
  BY DEF On
<1>2. \A s \in Slots, act \in Acts : Holds(s, act) => Holds(s, act)'
  BY <1>1, HoldsKept
<1>3. installed \cup {Zero} \subseteq Acts
  BY ZeroIsAct DEF Inv, TypeOK
<1>4. ASSUME NEW s \in Slots, s = orig' \/ \E h \in Handlers : On(h, s)'
      PROVE  \E act \in installed' \cup {Zero} : Holds(s, act)'
  <2>1. PICK act \in installed \cup {Zero} : Holds(s, act)
    BY <1>1, <1>4 DEF Inv, HoldInv
  <2> QED
    BY <2>1, <1>2, <1>3
<1>5. ~initsig' => Holds(orig, Zero)'
  <2>1. orig \in Slots /\ orig' = orig
    BY DEF Inv, TypeOK
  <2>2. ~initsig' => Holds(orig, Zero)
    BY DEF Inv, HoldInv
  <2> SUFFICES ASSUME Holds(orig, Zero) PROVE Holds(orig, Zero)'
    BY <2>2
  <2>3. \A h \in Handlers : On(h, orig)' =>
        /\ On(h, orig)
        /\ copied'[h] = copied[h] /\ local'[h] = local[h] /\ hpc'[h] = hpc[h]
    BY <2>1 DEF On
  <2> QED
    BY <2>1, <2>3 DEF Holds, Matches
<1> QED
  BY <1>4, <1>5 DEF HoldInv

\* What was copied from the zeros agrees with every action.
LEMMA MatchesZero ==
  ASSUME NEW h \in Handlers, NEW act \in Acts, Matches(h, Zero)
  PROVE  Matches(h, act)
BY ResetFacts, ZeroIsAct, ZenonT(40) DEF Matches, Zero, Acts

\* What a handler has read a pointer to, under a mutator's step.
LEMMA HoldMutator ==
  ASSUME Inv, NEW m \in Mutators,
         \/ InitCall(m) \/ SigactionUnhooked(m) \/ SigactionCall(m)
         \/ MutatorStep(m)
  PROVE  HoldInv'
<1>t. /\ orig \in Slots /\ sa \in [Slots -> Acts] /\ mact[m] \in Acts
      /\ Other(orig) \in Slots /\ Other(orig) # orig
      /\ installed \cup {Zero} \subseteq Acts
  BY OtherFacts, ZeroIsAct DEF Inv, TypeOK
<1>h. UNCHANGED handlerVars
  BY DEF MutatorStep, InitCall, InitFail, InitSeize, InitSave, SigactionUnhooked,
         SigactionDirect, SigactionCall, SigactionWrite, SigactionWrite2,
         SigactionExchange, SigactionDrain, SigactionDrained, Unlock
<1>o. \A h \in Handlers, s \in Slots :
        /\ Uses(h)' <=> Uses(h)
        /\ On(h, s)' <=> On(h, s)
        /\ copied'[h] = copied[h] /\ local'[h] = local[h] /\ hpc'[h] = hpc[h]
        /\ src'[h] = src[h]
  BY <1>h DEF On, Uses
<1>k. UNCHANGED <<sa, orig>> /\ installed \subseteq installed' /\ (~initsig' => ~initsig)
        => HoldInv'
  <2>1. \A h \in Handlers : Uses(h)' =>
           /\ Uses(h) /\ src'[h] = src[h]
           /\ copied'[h] = copied[h] /\ local'[h] = local[h] /\ hpc'[h] = hpc[h]
    BY <1>h DEF Uses
  <2> QED
    BY <2>1, HoldKept
<1>1. CASE InitCall(m) \/ InitFail(m) \/ InitSeize(m)
  BY <1>1, <1>k DEF InitCall, InitFail, InitSeize
<1>2. CASE SigactionUnhooked(m) \/ SigactionCall(m) \/ SigactionDirect(m)
  BY <1>2, <1>k DEF SigactionUnhooked, SigactionCall, SigactionDirect
<1>3. CASE SigactionDrain(m) \/ SigactionDrained(m) \/ Unlock(m)
  BY <1>3, <1>k DEF SigactionDrain, SigactionDrained, Unlock
<1>4. CASE InitSave(m)
  <2>1. mact[m] \in installed /\ ~initsig /\ initsig' /\ orig' = orig
        /\ installed' = installed /\ sa'[orig] = mact[m]
    BY <1>4, <1>t DEF InitSave, Inv, InitInv
  <2>2. Holds(orig, Zero)
    BY <2>1 DEF Inv, HoldInv
  <2>3. Holds(orig, mact[m])'
    <3>1. \A h \in Handlers : On(h, orig) => Matches(h, mact[m])
      BY <2>2, <1>t, MatchesZero DEF Holds
    <3>2. mact' = mact
      BY <1>4 DEF InitSave
    <3>3. mact[m] \in Resets(mact[m])
      BY <1>t, ResetFacts
    <3> QED
      BY <3>1, <3>2, <3>3, <2>1, <1>o, <1>t DEF Holds, Matches
  <2>4. \A h \in Handlers : Uses(h) => src[h] = orig
    BY <1>4, SpareUnused DEF InitSave, LockPCs
  <2>5. mact'[m] \in installed'
    BY <1>4, <2>1 DEF InitSave
  <2>6. \A s \in Slots : s = orig' \/ (\E h \in Handlers : On(h, s)') => s = orig
    BY <2>1, <2>4, <1>o DEF On
  <2> QED
    BY <2>1, <2>3, <2>5, <2>6 DEF HoldInv
<1>5. CASE SigactionWrite(m) \/ SigactionWrite2(m)
  <2>1. \A h \in Handlers : Uses(h) => src[h] = orig
    BY <1>5, SpareUnused DEF SigactionWrite, SigactionWrite2, LockPCs
  <2>2. sa'[orig] = sa[orig] /\ orig' = orig /\ installed' = installed
        /\ initsig' = initsig
    BY <1>5, <1>t DEF SigactionWrite, SigactionWrite2
  <2>3. \A act \in Acts : Holds(orig, act) => Holds(orig, act)'
    BY <2>2, <1>o, <1>t, HoldsKept
  <2>4. \A s \in Slots : s = orig' \/ (\E h \in Handlers : On(h, s)') => s = orig
    BY <2>1, <2>2, <1>o DEF On
  <2>5. PICK act \in installed \cup {Zero} : Holds(orig, act)
    BY <1>t DEF Inv, HoldInv
  <2>6. ~initsig => Holds(orig, Zero)
    BY DEF Inv, HoldInv
  <2> QED
    BY <1>t, ZeroIsAct, <2>2, <2>3, <2>4, <2>5, <2>6 DEF HoldInv
<1>6. CASE SigactionExchange(m)
  <2>1. PICK new \in Slots, old \in Slots, act \in Acts :
          /\ new = Other(orig) /\ old = orig /\ new # old /\ act = mact[m]
          /\ \A s \in Slots : s \in {new, old}
    BY <1>t, OtherFacts
  <2>2. /\ orig' = new /\ sa' = sa /\ installed' = installed \cup {act}
        /\ sa[new] = act /\ initsig'
    BY <1>6, <2>1 DEF SigactionExchange, Inv, WriteInv, InitInv
  <2>3. \A h \in Handlers : ~On(h, new)'
    <3>1. \A h \in Handlers : Uses(h) => src[h] = old
      BY <1>6, <2>1, SpareUnused DEF SigactionExchange, LockPCs
    <3> QED
      BY <3>1, <2>1, <1>o DEF On
  <2>4. Holds(new, act)'
    BY <2>2, <2>3, ResetFacts DEF Holds
  <2>5. PICK was \in installed \cup {Zero} : Holds(old, was)
    BY <2>1 DEF Inv, HoldInv
  <2>6. Holds(old, was)'
    BY <2>2, <2>5, <1>o, <1>t, HoldsKept
  <2> QED
    BY <2>1, <2>2, <2>4, <2>5, <2>6 DEF HoldInv
<1> QED
  BY <1>1, <1>2, <1>3, <1>4, <1>5, <1>6 DEF MutatorStep

\* Handler h, on structure s, changes what it has copied or resets the
\* structure: enough that every action s can be said to hold still fits.
LEMMA HoldUser ==
  ASSUME Inv, NEW h \in Handlers, Uses(h), UNCHANGED <<orig, initsig, installed>>,
         UNCHANGED src,
         \A s \in Slots : s # src[h] => sa'[s] = sa[s],
         \A g \in Handlers : g # h =>
           copied'[g] = copied[g] /\ local'[g] = local[g] /\ hpc'[g] = hpc[g],
         \A act \in Acts : Holds(src[h], act) =>
           sa'[src[h]] \in Resets(act) /\ (Uses(h)' => Matches(h, act)')
  PROVE  HoldInv'
<1>t. orig \in Slots /\ src[h] \in Slots /\ installed \cup {Zero} \subseteq Acts
  BY ZeroIsAct DEF Inv, TypeOK
<1>1. \A s \in Slots, act \in Acts : Holds(s, act) => Holds(s, act)'
  <2> SUFFICES ASSUME NEW s \in Slots, NEW act \in Acts, Holds(s, act)
               PROVE  Holds(s, act)'
    OBVIOUS
  <2>1. ASSUME NEW g \in Handlers, On(g, s)', g # h
        PROVE  Matches(g, act)'
    <3>1. On(g, s)
      BY <2>1 DEF On, Uses
    <3> QED
      BY <2>1, <3>1 DEF Holds, Matches
  <2>2. CASE s = src[h]
    BY <2>1, <2>2 DEF Holds, On
  <2>3. CASE s # src[h]
    BY <2>1, <2>3 DEF Holds, On
  <2> QED
    BY <2>2, <2>3
<1>2. ASSUME NEW s \in Slots, s = orig' \/ \E g \in Handlers : On(g, s)'
      PROVE  \E act \in installed' \cup {Zero} : Holds(s, act)'
  <2>1. s = orig \/ \E g \in Handlers : On(g, s)
    BY <1>2 DEF On, Uses
  <2>2. PICK act \in installed \cup {Zero} : Holds(s, act)
    BY <2>1 DEF Inv, HoldInv
  <2> QED
    BY <2>2, <1>1, <1>t
<1>3. PICK s \in Slots : s = orig
  BY <1>t
<1>4. ~initsig' => Holds(s, Zero)'
  BY <1>1, <1>3, ZeroIsAct DEF Inv, HoldInv
<1> QED
  BY <1>2, <1>3, <1>4, <1>t DEF HoldInv

\* An action that a handler has found to be a one-shot one is one.
LEMMA OneShotIsOneShot ==
  ASSUME Inv, NEW h \in Handlers, hpc[h] \in {"cas", "clear"}, NEW act \in Acts,
         Holds(src[h], act)
  PROVE  /\ Resets(act) = [handler : {act.handler, "dfl"}, oneShot : BOOLEAN]
         /\ local[h] \in Resets(act)
         /\ sa[src[h]] \in Resets(act)
         /\ Matches(h, act)
<1>1. Matches(h, act) /\ sa[src[h]] \in Resets(act)
  BY DEF Holds, On, Uses
<1>2. local[h] \in Resets(act) /\ local[h].oneShot
  BY <1>1 DEF Matches, Zero
<1>3. act.oneShot
  BY <1>2 DEF Resets
<1> QED
  BY <1>1, <1>2, <1>3 DEF Resets

\* What a handler has read a pointer to, under a handler's step.
LEMMA HoldHandler ==
  ASSUME Inv, NEW h \in Handlers, HandlerEnter(h) \/ HandlerStep(h)
  PROVE  HoldInv'
<1>f. UNCHANGED <<orig, initsig, installed>>
  BY HandlerFrame
<1>t. /\ sa \in [Slots -> Acts] /\ hpc = [g \in Handlers |-> hpc[g]] /\ src \in [Handlers -> Slots]
      /\ local \in [Handlers -> Acts] /\ copied \in [Handlers -> SUBSET {"handler", "oneShot"}]
  BY DEF Inv, TypeOK
<1>1. CASE \/ HandlerEnter(h) \/ SearchExecute(h) \/ HandlerExit(h)
           \/ InvokeFunction(h) \/ InvokeFatal(h) \/ InvokeNothing(h)
  <2>1. UNCHANGED sa
    BY <1>1 DEF HandlerEnter, SearchExecute, HandlerExit, InvokeFunction, InvokeFatal,
                InvokeNothing
  <2>2. ~Uses(h)'
    BY <1>1, <1>t DEF HandlerEnter, SearchExecute, HandlerExit, InvokeFunction, InvokeFatal,
                InvokeNothing, Return, HGoto, Uses
  <2>3. \A g \in Handlers : g # h =>
           /\ src'[g] = src[g] /\ copied'[g] = copied[g]
           /\ local'[g] = local[g] /\ hpc'[g] = hpc[g]
    BY <1>1, <1>t DEF HandlerEnter, SearchExecute, HandlerExit, InvokeFunction, InvokeFatal,
                InvokeNothing, Return, HGoto
  <2>4. \A g \in Handlers : Uses(g)' =>
           /\ Uses(g) /\ src'[g] = src[g]
           /\ copied'[g] = copied[g] /\ local'[g] = local[g] /\ hpc'[g] = hpc[g]
    BY <2>2, <2>3 DEF Uses
  <2> QED
    BY <2>1, <2>4, <1>f, HoldKept
<1>2. CASE SearchSnapshot(h)
  <2>1. /\ sa' = sa /\ copied' = copied /\ local' = local /\ hpc'[h] = "copy"
        /\ src'[h] = orig /\ copied[h] = {}
        /\ \A g \in Handlers : g # h => src'[g] = src[g] /\ hpc'[g] = hpc[g]
    BY <1>2, <1>t DEF SearchSnapshot, HGoto, Inv, LocalInv
  <2>2. \A act \in Acts : Matches(h, act)'
    BY <2>1 DEF Matches
  <2>3. \A s \in Slots, act \in Acts : Holds(s, act) => Holds(s, act)'
    BY <2>1, <2>2, ZenonT(40) DEF Holds, Matches, On, Uses
  <2>4. ASSUME NEW s \in Slots, s = orig' \/ \E g \in Handlers : On(g, s)'
        PROVE  \E act \in installed' \cup {Zero} : Holds(s, act)'
    <3>1. s = orig \/ \E g \in Handlers : On(g, s)
      BY <1>f, <2>1, <2>4 DEF On, Uses
    <3>2. PICK act \in installed \cup {Zero} : Holds(s, act)
      BY <3>1 DEF Inv, HoldInv
    <3> QED
      BY <3>2, <2>3, <1>f, ZeroIsAct DEF Inv, TypeOK
  <2>5. PICK s \in Slots : s = orig
    BY DEF Inv, TypeOK
  <2>6. ~initsig' => Holds(s, Zero)'
    BY <1>f, <2>3, <2>5, ZeroIsAct DEF Inv, HoldInv
  <2> QED
    BY <1>f, <2>4, <2>5, <2>6 DEF HoldInv
<1>3. CASE CopyField(h)
  <2>1. PICK f \in {"handler", "oneShot"} \ copied[h] :
          /\ local'[h] = IF f = "handler"
                           THEN [local[h] EXCEPT !.handler = sa[src[h]].handler]
                           ELSE [local[h] EXCEPT !.oneShot = sa[src[h]].oneShot]
          /\ copied'[h] = copied[h] \cup {f}
          /\ \A g \in Handlers : g # h => local'[g] = local[g] /\ copied'[g] = copied[g]
    BY <1>3, <1>t DEF CopyField
  <2>2. sa' = sa /\ src' = src /\ hpc' = hpc /\ hpc[h] = "copy"
    BY <1>3 DEF CopyField
  <2>3. ASSUME NEW act \in Acts, Holds(src[h], act)
        PROVE  sa'[src[h]] \in Resets(act) /\ Matches(h, act)'
    <3>1. sa[src[h]] \in Resets(act) /\ Matches(h, act)
      BY <2>2, <2>3 DEF Holds, On, Uses
    <3>2. local[h] \in Acts /\ sa[src[h]] \in Acts
      BY <1>t
    <3>3. CASE f = "handler"
      <4>1. /\ local'[h] \in Acts /\ local'[h].handler = sa[src[h]].handler
            /\ local'[h].oneShot = local[h].oneShot
        BY <2>1, <3>2, <3>3 DEF Acts
      <4>2. /\ local'[h].handler \in {act.handler, "dfl"}
            /\ local[h].oneShot \in {act.oneShot, FALSE} => local'[h] \in Resets(act)
        BY <3>1, <3>2, <4>1, CopyHandler
      <4>3. "oneShot" \in copied[h] => local'[h] \in Resets(act)
        BY <3>1, <4>1, <4>2 DEF Matches
      <4> QED
        BY <3>1, <3>3, <4>1, <4>2, <4>3, <2>1, <2>2 DEF Matches
    <3>4. CASE f = "oneShot"
      <4>1. /\ local'[h] \in Acts /\ local'[h].oneShot = sa[src[h]].oneShot
            /\ local'[h].handler = local[h].handler
        BY <2>1, <3>2, <3>4 DEF Acts
      <4>2. /\ local'[h].oneShot \in {act.oneShot, FALSE}
            /\ local[h].handler \in {act.handler, "dfl"} =>
                 local'[h] \in Resets(act) \cup {Zero}
        BY <3>1, <3>2, <4>1, CopyFlag
      <4>3. "handler" \in copied[h] => local'[h] \in Resets(act) \cup {Zero}
        BY <3>1, <4>1, <4>2 DEF Matches
      <4> QED
        BY <3>1, <3>4, <4>1, <4>2, <4>3, <2>1, <2>2 DEF Matches
    <3> QED
      BY <3>1, <3>3, <3>4, <2>1, <2>2
  <2> QED
    BY <1>f, <2>1, <2>2, <2>3, HoldUser DEF Uses
<1>4. CASE Copied(h)
  <2>1. /\ UNCHANGED <<sa, src, copied, local>> /\ hpc[h] = "copy"
        /\ copied[h] = {"handler", "oneShot"}
        /\ hpc'[h] = IF local[h].oneShot THEN "cas" ELSE "exit"
        /\ \A g \in Handlers : g # h => hpc'[g] = hpc[g]
    BY <1>4, <1>t DEF Copied, HGoto
  <2>2. ASSUME NEW act \in Acts, Holds(src[h], act)
        PROVE  sa'[src[h]] \in Resets(act) /\ (Uses(h)' => Matches(h, act)')
    BY <2>1, <2>2 DEF Holds, On, Uses, Matches
  <2> QED
    BY <1>f, <2>1, <2>2, HoldUser DEF Uses
<1>5. CASE OneShotCAS(h)
  <2>1. /\ UNCHANGED <<src, copied>> /\ hpc[h] = "cas" /\ hpc'[h] = "clear"
        /\ \A g \in Handlers : g # h => hpc'[g] = hpc[g] /\ local'[g] = local[g]
        /\ \A s \in Slots : s # src[h] => sa'[s] = sa[s]
    BY <1>5, <1>t DEF OneShotCAS, HGoto
  <2>2. \/ /\ sa'[src[h]] = [sa[src[h]] EXCEPT !.handler = "dfl"]
           /\ local'[h] = local[h]
        \/ /\ sa'[src[h]] = sa[src[h]]
           /\ local'[h] = [local[h] EXCEPT !.handler = sa[src[h]].handler]
    BY <1>5, <1>t DEF OneShotCAS
  <2>3. ASSUME NEW act \in Acts, Holds(src[h], act)
        PROVE  sa'[src[h]] \in Resets(act) /\ Matches(h, act)'
    <3>1. /\ Resets(act) = [handler : {act.handler, "dfl"}, oneShot : BOOLEAN]
          /\ local[h] \in Resets(act) /\ sa[src[h]] \in Resets(act) /\ Matches(h, act)
      BY <2>1, <2>3, OneShotIsOneShot
    <3>2. sa'[src[h]] \in Resets(act) /\ local'[h] \in Resets(act)
          /\ local'[h].oneShot = local[h].oneShot
          /\ local'[h].handler \in {act.handler, "dfl"}
      BY <2>2, <3>1
    <3> QED
      BY <3>1, <3>2, <2>1 DEF Matches
  <2> QED
    BY <1>f, <2>1, <2>3, HoldUser DEF Uses
<1>6. CASE OneShotClear(h)
  <2>1. /\ UNCHANGED <<src, copied, local>> /\ hpc[h] = "clear" /\ hpc'[h] = "exit"
        /\ \A g \in Handlers : g # h => hpc'[g] = hpc[g]
        /\ \A s \in Slots : s # src[h] => sa'[s] = sa[s]
        /\ sa'[src[h]] = [sa[src[h]] EXCEPT !.oneShot = FALSE]
    BY <1>6, <1>t DEF OneShotClear, HGoto
  <2>2. ASSUME NEW act \in Acts, Holds(src[h], act)
        PROVE  sa'[src[h]] \in Resets(act) /\ (Uses(h)' => Matches(h, act)')
    <3>1. /\ Resets(act) = [handler : {act.handler, "dfl"}, oneShot : BOOLEAN]
          /\ sa[src[h]] \in Resets(act)
      BY <2>1, <2>2, OneShotIsOneShot
    <3>2. sa'[src[h]] \in Resets(act)
      BY <2>1, <3>1, ClearFlag
    <3>3. ~Uses(h)'
      BY <2>1 DEF Uses
    <3> QED
      BY <3>2, <3>3
  <2> QED
    BY <1>f, <2>1, <2>2, HoldUser DEF Uses
<1> QED
  BY <1>1, <1>2, <1>3, <1>4, <1>5, <1>6 DEF HandlerStep

-----------------------------------------------------------------------------
(* What the handlers fall back on *)

\* A complete copy is an action the handler may fall back on.
LEMMA CopyIsGood ==
  ASSUME Inv, NEW h \in Handlers, Uses(h), copied[h] = {"handler", "oneShot"}
  PROVE  local[h] \in Good
<1>1. src[h] \in Slots /\ On(h, src[h])
  BY DEF Inv, TypeOK, On
<1>2. PICK act \in installed \cup {Zero} : Holds(src[h], act)
  BY <1>1 DEF Inv, HoldInv
<1>3. local[h] \in Resets(act) \cup {Zero}
  BY <1>1, <1>2 DEF Holds, Matches
<1>4. Resets(Zero) = {Zero}
  BY ResetFacts, ZeroIsAct
<1> QED
  BY <1>3, <1>4 DEF Good

\* The local copies, under a mutator's step.
LEMMA LocalMutator ==
  ASSUME Inv, NEW m \in Mutators,
         \/ InitCall(m) \/ SigactionUnhooked(m) \/ SigactionCall(m)
         \/ MutatorStep(m)
  PROVE  LocalInv'
<1>1. UNCHANGED handlerVars /\ installed \subseteq installed'
  BY DEF MutatorStep, InitCall, InitFail, InitSeize, InitSave, SigactionUnhooked,
         SigactionDirect, SigactionCall, SigactionWrite, SigactionWrite2,
         SigactionExchange, SigactionDrain, SigactionDrained, Unlock
<1>2. Good \subseteq Good'
  BY <1>1 DEF Good
<1> QED
  BY <1>1, <1>2 DEF Inv, LocalInv

\* The local copies, under a handler's step.
LEMMA LocalHandler ==
  ASSUME Inv, NEW h \in Handlers, HandlerEnter(h) \/ HandlerStep(h)
  PROVE  LocalInv'
<1>f. Good' = Good
  BY HandlerFrame DEF Good
<1>t. /\ hpc = [g \in Handlers |-> hpc[g]] /\ src = [g \in Handlers |-> src[g]]
      /\ local = [g \in Handlers |-> local[g]] /\ copied = [g \in Handlers |-> copied[g]]
  BY DEF Inv, TypeOK
<1> USE DEF LocalInv
<1>l. LocalInv
  BY DEF Inv
<1>1. CASE HandlerEnter(h)
  BY <1>1, <1>f, <1>t, <1>l DEF HandlerEnter, HGoto
<1>2. CASE SearchExecute(h) \/ InvokeFunction(h) \/ InvokeNothing(h)
  <2>1. Return(h)
    BY <1>2 DEF SearchExecute, InvokeFunction, InvokeNothing
  <2> QED
    BY <2>1, <1>f, <1>t, <1>l DEF Return, HGoto
<1>3. CASE SearchSnapshot(h)
  BY <1>3, <1>f, <1>t, <1>l DEF SearchSnapshot, HGoto
<1>4. CASE CopyField(h)
  BY <1>4, <1>f, <1>t, <1>l DEF CopyField
<1>5. CASE Copied(h)
  <2>1. local[h] \in Good
    BY <1>5, CopyIsGood DEF Copied, Uses
  <2> QED
    BY <1>5, <2>1, <1>f, <1>t, <1>l DEF Copied, HGoto
<1>6. CASE OneShotCAS(h)
  BY <1>6, <1>f, <1>t, <1>l DEF OneShotCAS, HGoto
<1>7. CASE OneShotClear(h)
  <2>1. copied[h] = {"handler", "oneShot"}
    <3>1. src[h] \in Slots /\ On(h, src[h])
      BY <1>7 DEF Inv, TypeOK, On, Uses, OneShotClear
    <3>2. PICK act \in installed \cup {Zero} : Holds(src[h], act)
      BY <3>1 DEF Inv, HoldInv
    <3> QED
      BY <1>7, <3>1, <3>2 DEF Holds, Matches, OneShotClear
  <2>2. local[h] \in Good
    BY <1>7, <2>1, CopyIsGood DEF OneShotClear, Uses
  <2> QED
    BY <1>7, <2>2, <1>f, <1>t, <1>l DEF OneShotClear, HGoto
<1>8. CASE HandlerExit(h) \/ InvokeFatal(h)
  BY <1>8, <1>f, <1>t, <1>l DEF HandlerExit, InvokeFatal, HGoto
<1> QED
  BY <1>1, <1>2, <1>3, <1>4, <1>5, <1>6, <1>7, <1>8 DEF HandlerStep

-----------------------------------------------------------------------------
(* Theorems *)

\* Every initial state, from before or after sigmux_init.
LEMMA InitEstablishesInv == Init => Inv
<1> SUFFICES ASSUME Init PROVE Inv
  OBVIOUS
<1>0. PICK act \in AppActs :
        /\ sa = [s \in Slots |-> IF Initialised /\ s = "a" THEN act ELSE Zero]
        /\ kernel \in {act, Seized} /\ (~Initialised => kernel = act)
        /\ installed = {act}
  BY DEF Init
<1>1. act \in Acts /\ Zero \in Acts
  BY AppActsAreActs, ZeroIsAct
<1>2. TypeOK
  BY <1>0, <1>1, InitialisedAssumption DEF Init, TypeOK, GP!GPTypeOK, GP!GPInit, Slots
<1>3. LockInv /\ SectionInv /\ SpareInv /\ WriteInv
  BY NoOneAssumption DEF Init, LockInv, LockPCs, SectionInv, SpareInv, WriteInv, Uses,
                         GP!GPInit
<1>4. InitInv
  BY <1>0 DEF Init, InitInv
<1>5. LocalInv
  BY DEF Init, LocalInv
<1>6. HoldInv
  <2>1. orig = "a" /\ "a" \in Slots /\ initsig = Initialised
    BY DEF Init, Slots
  <2>2. \A h \in Handlers, s \in Slots : ~On(h, s)
    BY DEF Init, On, Uses
  <2>3. \A x \in Acts : sa["a"] = x => Holds("a", x)
    BY <2>1, <2>2, ResetFacts DEF Holds
  <2>4. sa["a"] = IF Initialised THEN act ELSE Zero
    BY <1>0, <2>1
  <2> QED
    BY <1>0, <1>1, <2>1, <2>2, <2>3, <2>4 DEF HoldInv
<1> QED
  BY <1>2, <1>3, <1>4, <1>5, <1>6 DEF Inv

\* The invariant is inductive.
LEMMA InductiveInv == Inv /\ [Next]_vars => Inv'
<1> SUFFICES ASSUME Inv, [Next]_vars PROVE Inv'
  OBVIOUS
<1>1. ASSUME NEW m \in Mutators,
             InitCall(m) \/ SigactionUnhooked(m) \/ SigactionCall(m) \/ MutatorStep(m)
      PROVE  Inv'
  BY <1>1, TypeMutator, LockMutator, InitMutator, SpareMutator, HoldMutator,
     LocalMutator DEF Inv
<1>2. ASSUME NEW h \in Handlers, HandlerEnter(h) \/ HandlerStep(h)
      PROVE  Inv'
  BY <1>2, TypeHandler, LockHandler, HandlerFrame, SpareHandler, HoldHandler,
     LocalHandler DEF Inv
<1>3. CASE UNCHANGED vars
  <2> USE <1>3 DEF vars
  <2>1. TypeOK' /\ LockInv' /\ SectionInv'
    BY DEF Inv, TypeOK, GP!GPTypeOK, LockInv, SectionInv
  <2>2. InitInv' /\ SpareInv' /\ WriteInv' /\ LocalInv'
    BY DEF Inv, InitInv, SpareInv, WriteInv, LocalInv, Uses, Good
  <2>3. HoldInv'
    BY HoldKept DEF Uses
  <2> QED
    BY <2>1, <2>2, <2>3 DEF Inv
<1> QED
  BY <1>1, <1>2, <1>3 DEF Next

\* The state keeps its types: in particular what the kernel and the structures
\* hold are actions of the application, sigmux's own, or zeros.
THEOREM TypeCorrect == SafeSpec => []TypeOK
<1>1. Inv => TypeOK
  BY DEF Inv
<1> QED
  BY <1>1, InitEstablishesInv, InductiveInv, PTL DEF SafeSpec

\* However many handlers run while sigmux_sigaction is called, it never writes
\* the structure that one of them copies from or resets.
THEOREM SpareIsUnread == SafeSpec => []SpareUnread
<1>1. Inv => SpareUnread
  BY SpareUnused DEF SpareUnread, LockPCs
<1> QED
  BY <1>1, InitEstablishesInv, InductiveInv, PTL DEF SafeSpec

\* What sigmux_handle_signal falls back on when no registration takes the signal
\* is one action the application installed, a reset of it, or the zeros from
\* before sigmux_init: never a mixture of two actions.
THEOREM FallsBackCorrect == SafeSpec => []FallsBackOnInstalled
<1>1. Inv => FallsBackOnInstalled
  BY DEF Inv, LocalInv, Good, FallsBackOnInstalled
<1> QED
  BY <1>1, InitEstablishesInv, InductiveInv, PTL DEF SafeSpec
=============================================================================
