--------------------------- MODULE PltHook_proofs ---------------------------
(***************************************************************************)
(* Proofs about PltHook, for any slots, hooks, mutators and callers and    *)
(* any bounds on ids, run lists and nesting.                               *)
(***************************************************************************)
EXTENDS PltHook, SequenceTheorems, WellFoundedInduction, TLAPS

-----------------------------------------------------------------------------
(* Run lists *)

\* A set of naturals that is not empty has a least element.
LEMMA MinIsLeast ==
  ASSUME NEW S, S \subseteq Nat, S # {}
  PROVE  Min(S) \in S /\ \A y \in S : Min(S) <= y
<1> DEFINE R == OpToRel(<, Nat)
<1>0. IsWellFoundedOn(R, Nat)
  BY NatLessThanWellFounded
<1>1. \A x, y \in Nat : <<x, y>> \in R <=> x < y
  BY DEF OpToRel
<1> HIDE DEF R
<1>2. PICK x \in S : \A y \in S : ~ (<<y, x>> \in R)
  BY <1>0, WFMin
<1>3. \A y \in S : x =< y
  <2> SUFFICES ASSUME NEW y \in S PROVE x =< y
    OBVIOUS
  <2>1. ~ (y < x)
    BY <1>1, <1>2
  <2> QED
    BY <2>1
<1> QED
  BY <1>3 DEF Min

\* std::find finds the first occurrence.
LEMMA PositionFacts ==
  ASSUME NEW S, NEW l \in Seq(S), NEW h, Contains(l, h)
  PROVE  /\ Position(l, h) \in 1 .. Len(l)
         /\ l[Position(l, h)] = h
         /\ \A k \in 1 .. Len(l) : l[k] = h => Position(l, h) <= k
<1> DEFINE I == {i \in 1 .. Len(l) : l[i] = h}
<1>1. I \subseteq Nat /\ I # {}
  BY DEF Contains
<1>2. Position(l, h) = Min(I)
  BY <1>1 DEF Position, SelectInSeq
<1>3. Min(I) \in I /\ \A y \in I : Min(I) <= y
  BY <1>1, MinIsLeast
<1> QED
  BY <1>2, <1>3

\* erase takes one entry out and moves the later ones up.
LEMMA RemoveAtFacts ==
  ASSUME NEW S, NEW l \in Seq(S), NEW p \in 1 .. Len(l)
  PROVE  /\ RemoveAt(l, p) \in Seq(S)
         /\ Len(RemoveAt(l, p)) = Len(l) - 1
         /\ \A k \in 1 .. Len(l) - 1 :
              RemoveAt(l, p)[k] = IF k < p THEN l[k] ELSE l[k + 1]
<1> DEFINE a == SubSeq(l, 1, p - 1)
           b == SubSeq(l, p + 1, Len(l))
<1>1. /\ a \in Seq(S) /\ Len(a) = p - 1
      /\ \A k \in 1 .. p - 1 : a[k] = l[k]
  <2>1. \A i \in 1 .. p - 1 : l[i] \in S
    OBVIOUS
  <2> QED
    BY <2>1, SubSeqProperties
<1>2. /\ b \in Seq(S) /\ Len(b) = Len(l) - p
      /\ \A k \in 1 .. Len(l) - p : b[k] = l[p + k]
  <2>1. \A i \in p + 1 .. Len(l) : l[i] \in S
    OBVIOUS
  <2>2. /\ b \in Seq(S)
        /\ Len(b) = IF p + 1 <= Len(l) THEN Len(l) - (p + 1) + 1 ELSE 0
        /\ \A i \in 1 .. Len(l) - (p + 1) + 1 : b[i] = l[p + 1 + i - 1]
    BY <2>1, SubSeqProperties
  <2> QED
    BY <2>2
<1>3. RemoveAt(l, p) = a \o b
  BY DEF RemoveAt
<1> HIDE DEF a, b
<1>4. /\ a \o b \in Seq(S) /\ Len(a \o b) = Len(a) + Len(b)
      /\ \A k \in 1 .. Len(a) + Len(b) :
           (a \o b)[k] = IF k <= Len(a) THEN a[k] ELSE b[k - Len(a)]
  BY <1>1, <1>2, ConcatProperties
<1> QED
  BY <1>1, <1>2, <1>3, <1>4

\* Removed drops the first occurrence and keeps the rest in order.
LEMMA RemovedFacts ==
  ASSUME NEW S, NEW l \in Seq(S), NEW h, Contains(l, h)
  PROVE  /\ Removed(l, h) \in Seq(S)
         /\ Len(Removed(l, h)) = Len(l) - 1
         /\ \A k \in 1 .. Len(l) - 1 :
              Removed(l, h)[k] = IF k < Position(l, h) THEN l[k] ELSE l[k + 1]
<1>1. Removed(l, h) = RemoveAt(l, Position(l, h))
  BY DEF Removed, RemoveFirst, Position, Contains
<1> QED
  BY <1>1, PositionFacts, RemoveAtFacts

\* A run list: the original function, then hooks.
RunList(l) ==
  /\ l \in Seq(Codes) /\ l # <<>> /\ l[1] = Orig
  /\ \A k \in 2 .. Len(l) : l[k] \in Hooks

\* A hook appended to a run list.
LEMMA AppendRunList ==
  ASSUME NEW l, RunList(l), NEW h \in Hooks
  PROVE  RunList(Append(l, h)) /\ Len(Append(l, h)) = Len(l) + 1
BY DEF RunList, Codes

\* A hook removed from a run list leaves the original where it was.
LEMMA RemovedRunList ==
  ASSUME NEW l, RunList(l), NEW h \in Hooks, Removable(l, h)
  PROVE  RunList(Removed(l, h)) /\ Len(Removed(l, h)) = Len(l) - 1
<1>1. Contains(l, h) /\ l[1] # h /\ Len(l) > 1 /\ l \in Seq(Codes)
  BY DEF Removable, RunList
<1>2. Position(l, h) \in 2 .. Len(l)
  BY <1>1, PositionFacts
<1>3. /\ Removed(l, h) \in Seq(Codes) /\ Len(Removed(l, h)) = Len(l) - 1
      /\ \A k \in 1 .. Len(l) - 1 :
           Removed(l, h)[k] = IF k < Position(l, h) THEN l[k] ELSE l[k + 1]
  BY <1>1, RemovedFacts
<1> QED
  BY <1>1, <1>2, <1>3 DEF RunList

-----------------------------------------------------------------------------
(* The invariant *)

USE DEF table, mutVars, callVars, history

CallSet == [tls : BOOLEAN, list : Seq(Codes), chain : Seq(Codes), patched : BOOLEAN,
            must : SUBSET Hooks]

PendSet == [id : 0 .. MaxId, patched : BOOLEAN, must : SUBSET Hooks]

TypeInv == TypeOK /\ pend \in [Callers -> PendSet] /\ calls \in [Callers -> Seq(CallSet)]

LockPCs == {"append", "register", "patch", "unext", "restore", "forget"}

\* g_got_modification_lock excludes.
LockInv == \A m \in Mutators : mpc[m] \in LockPCs <=> lock = m

\* The run list of an id exists once the id is given out, and never goes away.
ListInv == \A i \in Ids : IF i < nextId THEN RunList(list[i]) ELSE list[i] = <<>>

\* No two slots share an id, and a slot that is patched points to its own.
IndexInv ==
  \A s \in Slots :
    /\ byGot[s] < nextId
    /\ got[s] # Orig => got[s] = byGot[s]
    /\ byGot[s] # 0 => \A t \in Slots : byGot[t] = byGot[s] => t = s

\* What a mutator has found out about its slot is still so when it acts on it.
MutInv ==
  \A m \in Mutators :
    /\ mpc[m] # "idle" => mhook[m] \in Hooks
    /\ mpc[m] \in {"check", "lock", "append", "register", "patch", "restore", "forget"} =>
         mslot[m] \in Slots
    /\ mpc[m] = "register" => byGot[mslot[m]] = 0 /\ nextId \in Ids
    /\ mpc[m] \in {"append", "patch", "restore", "forget"} => byGot[mslot[m]] # 0
    /\ mpc[m] \in {"restore", "forget"} => Len(list[byGot[mslot[m]]]) = 1
    /\ mpc[m] = "forget" => got[mslot[m]] = Orig

\* A slot that is registered has a hook to run, except while its last one is
\* being taken away.
HookedInv ==
  \A s \in Slots : byGot[s] # 0 =>
    \/ Len(list[byGot[s]]) > 1
    \/ \E m \in Mutators : mpc[m] \in {"restore", "forget"} /\ mslot[m] = s

\* A call on its way to a trampoline finds a run list there.
PendInv == \A c \in Callers : pend[c] = NoCall \/ pend[c].id \in 1 .. nextId - 1

\* Hook j of a call runs after hook i > j of the list it was copied from.
Descends(call) ==
  \A i, j \in 1 .. Len(call.chain) :
    i < j => \E a, b \in 1 .. Len(call.list) :
               /\ a > b
               /\ call.list[a] = call.chain[i]
               /\ call.list[b] = call.chain[j]

CallOK(call) ==
  /\ RunList(call.list)
  /\ call.chain # <<>>
  /\ ~call.tls => call.chain = <<Orig>>
  /\ \A i \in 1 .. Len(call.chain) : Contains(call.list, call.chain[i])
  /\ Descends(call)

CallInv == \A c \in Callers : \A k \in 1 .. Len(calls[c]) : CallOK(calls[c][k])

TableInv == LockInv /\ ListInv /\ IndexInv /\ MutInv /\ HookedInv

Inv == TypeInv /\ TableInv /\ PendInv /\ CallInv /\ NoImpossibleAbort

\* Codes are told apart.
LEMMA CodeFacts ==
  /\ 0 \notin Codes /\ Orig \in Codes /\ Hooks \subseteq Codes /\ Ids \subseteq Codes
  /\ Orig \notin Hooks /\ Orig \notin Ids
  /\ \A x \in Codes : x \in Nat => x \in Ids
BY NamesAssumption DEF Codes, Ids

\* An id that a slot is registered with has a run list.
LEMMA HookedList ==
  ASSUME Inv, NEW s \in Slots, byGot[s] # 0
  PROVE  /\ byGot[s] \in Ids /\ byGot[s] < nextId /\ RunList(list[byGot[s]])
         /\ list[byGot[s]] \in Seq(Codes) /\ Len(list[byGot[s]]) \in Nat
<1>0. byGot[s] \in 0 .. MaxId
  BY DEF Inv, TypeInv, TypeOK
<1>1. byGot[s] \in Ids /\ byGot[s] < nextId
  BY <1>0, BoundsAssumption DEF Inv, TableInv, IndexInv, Ids
<1>2. RunList(list[byGot[s]])
  BY <1>1 DEF Inv, TableInv, ListInv
<1> QED
  BY <1>1, <1>2 DEF RunList

-----------------------------------------------------------------------------
(* Steps that leave the GOT, the index and the run lists alone *)

\* What a step of mutator m that leaves the tables alone has to keep.
LEMMA QuietStep ==
  ASSUME Inv, UNCHANGED <<table, callVars>>, TypeOK',
         LockInv', MutInv', HookedInv', NoImpossibleAbort'
  PROVE  Inv'
<1>1. ListInv' /\ IndexInv'
  BY DEF Inv, TableInv, ListInv, IndexInv
<1>2. CallInv' /\ PendInv'
  BY DEF Inv, CallInv, PendInv
<1> QED
  BY <1>1, <1>2 DEF Inv, TypeInv, TableInv

\* hook_single_lib is called.
LEMMA HookCallStep ==
  ASSUME Inv, NEW m \in Mutators, NEW h \in Hooks, HookCall(m, h)
  PROVE  Inv'
<1> USE DEF HookCall, At, Goto
<1>1. TypeOK'
  BY DEF Inv, TypeInv, TypeOK
<1>2. LockInv' /\ MutInv' /\ HookedInv'
  BY DEF Inv, TypeInv, TypeOK, TableInv, LockInv, LockPCs, MutInv, HookedInv
<1>3. NoImpossibleAbort'
  BY DEF Inv, NoImpossibleAbort
<1> QED
  BY <1>1, <1>2, <1>3, QuietStep

\* hook_single_lib and unhook_single_lib return.
LEMMA ReturnStep ==
  ASSUME Inv, NEW m \in Mutators, HookReturn(m) \/ UnhookReturn(m)
  PROVE  Inv'
<1>1. /\ mpc[m] \in {"next", "unext"} /\ Return(m)
      /\ lock' = IF mpc[m] = "next" THEN lock ELSE NoOne
      /\ UNCHANGED <<table, callVars, dead, history>>
  BY DEF HookReturn, UnhookReturn, At
<1>2. /\ mpc'[m] = "idle"
      /\ \A n \in Mutators \ {m} : mpc'[n] = mpc[n] /\ mhook'[n] = mhook[n] /\ mslot'[n] = mslot[n]
  BY <1>1 DEF Inv, TypeInv, TypeOK, Return, Goto
<1>3. TypeOK'
  BY <1>1 DEF Inv, TypeInv, TypeOK, Return, Goto
<1>4. LockInv'
  BY <1>1, <1>2, NoOneAssumption DEF Inv, TableInv, LockInv, LockPCs
<1>5. MutInv' /\ HookedInv'
  BY <1>1, <1>2 DEF Inv, TableInv, MutInv, HookedInv
<1>6. NoImpossibleAbort'
  BY <1>1 DEF Inv, NoImpossibleAbort
<1> QED
  BY <1>1, <1>3, <1>4, <1>5, <1>6, QuietStep

\* unhook_single_lib is called.
LEMMA UnhookCallStep ==
  ASSUME Inv, NEW m \in Mutators, NEW h \in Hooks, UnhookCall(m, h)
  PROVE  Inv'
<1>0. /\ mpc[m] = "idle" /\ UNCHANGED <<table, lock, mslot, calls, dead>>
      /\ mpc' = [mpc EXCEPT ![m] = "ulock"] /\ mhook' = [mhook EXCEPT ![m] = h]
      /\ pend' = [c \in Callers |-> [pend[c] EXCEPT !.must = @ \ {h}]]
  BY DEF UnhookCall, At, Goto
<1>1. ASSUME NEW c \in Callers
      PROVE  /\ pend'[c] \in PendSet /\ pend'[c].id = pend[c].id
             /\ pend[c] = NoCall => pend'[c] = NoCall
  <2>1. pend[c] \in PendSet /\ pend'[c] = [pend[c] EXCEPT !.must = @ \ {h}]
    BY <1>0 DEF Inv, TypeInv
  <2>2. pend'[c] \in PendSet /\ pend'[c].id = pend[c].id
    BY <2>1 DEF PendSet
  <2>3. ASSUME pend[c] = NoCall PROVE pend'[c] = NoCall
    <3>1. {} \ {h} = {}
      OBVIOUS
    <3> QED
      BY <2>1, <2>3, <3>1 DEF NoCall
  <2> QED
    BY <2>2, <2>3
<1>2. pend' \in [Callers -> PendSet] /\ PendInv'
  BY <1>0, <1>1 DEF Inv, PendInv
<1>3. TypeOK'
  BY DEF UnhookCall, Goto, Inv, TypeInv, TypeOK
<1>4. LockInv' /\ MutInv' /\ HookedInv'
  BY <1>0, ZenonT(40) DEF Inv, TypeInv, TypeOK, TableInv, LockInv, LockPCs, MutInv, HookedInv
<1>5. ListInv' /\ IndexInv' /\ CallInv' /\ NoImpossibleAbort'
  BY <1>0 DEF Inv, TableInv, ListInv, IndexInv, CallInv, NoImpossibleAbort
<1> QED
  BY <1>0, <1>2, <1>3, <1>4, <1>5 DEF Inv, TypeInv, TableInv

\* The slot's value is compared, without the lock.
LEMMA VerifyStep ==
  ASSUME Inv, NEW m \in Mutators, NEW s \in Slots, HookVerify(m, s)
  PROVE  Inv'
<1>0. /\ mpc[m] = "next" /\ UNCHANGED <<table, lock, mhook, callVars, dead, history>>
      /\ mpc'[m] \in {"lock", "check"} /\ mslot'[m] = s /\ mhook'[m] = mhook[m]
      /\ \A n \in Mutators \ {m} : mpc'[n] = mpc[n] /\ mhook'[n] = mhook[n] /\ mslot'[n] = mslot[n]
  BY DEF HookVerify, At, Goto, Inv, TypeInv, TypeOK
<1>1. TypeOK'
  BY DEF HookVerify, Goto, Inv, TypeInv, TypeOK
<1>2. LockInv' /\ NoImpossibleAbort'
  BY <1>0 DEF Inv, TableInv, LockInv, LockPCs, NoImpossibleAbort
<1>3. MutInv'
  BY <1>0 DEF Inv, TableInv, MutInv
<1>4. HookedInv'
  BY <1>0 DEF Inv, TableInv, HookedInv
<1> QED
  BY <1>0, <1>1, <1>2, <1>3, <1>4, QuietStep

\* is_hooked is asked, without the lock.
LEMMA CheckStep ==
  ASSUME Inv, NEW m \in Mutators, HookCheck(m)
  PROVE  Inv'
<1>0. /\ mpc[m] = "check" /\ UNCHANGED <<table, lock, mhook, mtodo, mslot, callVars, dead, history>>
      /\ mpc'[m] \in {"lock", "next"}
      /\ \A n \in Mutators \ {m} : mpc'[n] = mpc[n]
  BY DEF HookCheck, At, Goto, Inv, TypeInv, TypeOK
<1>1. TypeOK'
  BY DEF HookCheck, Goto, Inv, TypeInv, TypeOK
<1>2. LockInv' /\ NoImpossibleAbort'
  BY <1>0 DEF Inv, TableInv, LockInv, LockPCs, NoImpossibleAbort
<1>3. MutInv'
  BY <1>0 DEF Inv, TableInv, MutInv
<1>4. HookedInv'
  BY <1>0 DEF Inv, TableInv, HookedInv
<1> QED
  BY <1>0, <1>1, <1>2, <1>3, <1>4, QuietStep

\* The writer lock is taken.
LEMMA LockStep ==
  ASSUME Inv, NEW m \in Mutators, HookLock(m) \/ UnhookLock(m)
  PROVE  Inv'
<1>0. /\ UNCHANGED <<table, mhook, mtodo, mslot, callVars, dead, history>>
      /\ lock = NoOne /\ lock' = m
      /\ \A n \in Mutators \ {m} : mpc'[n] = mpc[n]
      /\ \/ mpc[m] = "ulock" /\ mpc'[m] = "unext"
         \/ mpc[m] = "lock" /\ mpc'[m] = "append" /\ byGot[mslot[m]] # 0
         \/ mpc[m] = "lock" /\ mpc'[m] = "register" /\ byGot[mslot[m]] = 0 /\ nextId \in Ids
  <2>1. CASE HookLock(m)
    BY <2>1 DEF HookLock, At, Goto, is_hooked, Inv, TypeInv, TypeOK
  <2>2. CASE UnhookLock(m)
    BY <2>2 DEF UnhookLock, At, Goto, Inv, TypeInv, TypeOK
  <2> QED
    BY <2>1, <2>2
<1>1. TypeOK'
  <2>1. mpc' \in [Mutators -> {"idle", "next", "check", "lock", "append", "register",
                              "patch", "ulock", "unext", "restore", "forget"}]
    BY DEF HookLock, UnhookLock, Goto, Inv, TypeInv, TypeOK
  <2> QED
    BY <1>0, <2>1 DEF Inv, TypeInv, TypeOK
<1>2. LockInv' /\ HookedInv' /\ NoImpossibleAbort'
  BY <1>0, NoOneAssumption DEF Inv, TableInv, LockInv, LockPCs, HookedInv, NoImpossibleAbort
<1>3. MutInv'
  BY <1>0 DEF Inv, TableInv, MutInv
<1> QED
  BY <1>0, <1>1, <1>2, <1>3, QuietStep

\* A patch that failed leaves the slot registered.
LEMMA FailStep ==
  ASSUME Inv, NEW m \in Mutators, HookPatchFail(m)
  PROVE  Inv'
<1>0. /\ mpc[m] = "patch" /\ UNCHANGED <<table, callVars, dead, promised>>
      /\ lock' = NoOne /\ failed' = failed \cup {mslot[m]} /\ mslot[m] \in Slots
      /\ mpc'[m] \in {"next", "idle"} /\ (mpc'[m] = "next" => mhook'[m] = mhook[m])
      /\ \A n \in Mutators \ {m} : mpc'[n] = mpc[n] /\ mhook'[n] = mhook[n] /\ mslot'[n] = mslot[n]
  <2>1. mpc[m] = "patch" /\ mslot[m] \in Slots /\ failed' = failed \cup {mslot[m]}
        /\ lock' = NoOne /\ UNCHANGED <<table, callVars, dead, promised>>
    BY DEF HookPatchFail, At, Inv, TableInv, MutInv
  <2>2. CASE Goto(m, "next") /\ UNCHANGED <<mhook, mtodo, mslot>>
    BY <2>1, <2>2 DEF Goto, Inv, TypeInv, TypeOK
  <2>3. CASE Return(m)
    BY <2>1, <2>3 DEF Return, Goto, Inv, TypeInv, TypeOK
  <2> QED
    BY <2>2, <2>3 DEF HookPatchFail
<1>1. TypeOK'
  <2>1. /\ mhook' \in [Mutators -> Hooks \cup {NoOne}] /\ mtodo' \in [Mutators -> SUBSET Slots]
        /\ mslot' \in [Mutators -> Slots \cup {NoOne}]
        /\ mpc' \in [Mutators -> {"idle", "next", "check", "lock", "append", "register",
                              "patch", "ulock", "unext", "restore", "forget"}]
    <3>1. CASE Goto(m, "next") /\ UNCHANGED <<mhook, mtodo, mslot>>
      BY <3>1 DEF Goto, Inv, TypeInv, TypeOK
    <3>2. CASE Return(m)
      BY <3>2 DEF Return, Goto, Inv, TypeInv, TypeOK
    <3> QED
      BY <3>1, <3>2 DEF HookPatchFail
  <2> QED
    BY <1>0, <2>1 DEF Inv, TypeInv, TypeOK
<1>2. LockInv' /\ HookedInv' /\ NoImpossibleAbort'
  BY <1>0, NoOneAssumption DEF Inv, TableInv, LockInv, LockPCs, HookedInv, NoImpossibleAbort
<1>3. MutInv'
  BY <1>0 DEF Inv, TableInv, MutInv
<1> QED
  BY <1>0, <1>1, <1>2, <1>3, QuietStep

\* The process ends.
LEMMA AbortStep ==
  ASSUME Inv, NEW m \in Mutators, PatchAbort(m) \/ UnhookRestoreFail(m)
  PROVE  Inv'
<1>1. UNCHANGED <<table, mutVars, callVars, history>> /\ dead' \in {"mprotect", "unhook"}
  BY DEF PatchAbort, UnhookRestoreFail
<1>2. TypeOK' /\ NoImpossibleAbort'
  BY <1>1 DEF Inv, TypeInv, TypeOK, NoImpossibleAbort
<1>3. LockInv' /\ MutInv' /\ HookedInv'
  BY <1>1 DEF Inv, TableInv, LockInv, MutInv, HookedInv
<1> QED
  BY <1>1, <1>2, <1>3, QuietStep

-----------------------------------------------------------------------------
(* Steps under g_got_modification_lock *)

\* Only one mutator is inside, so the others' facts do not depend on the tables.
LEMMA Alone ==
  ASSUME Inv, NEW m \in Mutators, mpc[m] \in LockPCs,
         \A n \in Mutators \ {m} : mpc'[n] = mpc[n] /\ mhook'[n] = mhook[n] /\ mslot'[n] = mslot[n],
         mpc'[m] # "idle" => mhook'[m] \in Hooks,
         mpc'[m] \in {"check", "lock", "append", "register", "patch", "restore", "forget"} =>
           mslot'[m] \in Slots,
         mpc'[m] # "register",
         mpc'[m] \in {"append", "patch", "restore", "forget"} => byGot'[mslot'[m]] # 0,
         mpc'[m] \in {"restore", "forget"} => Len(list'[byGot'[mslot'[m]]]) = 1,
         mpc'[m] = "forget" => got'[mslot'[m]] = Orig
  PROVE  MutInv' /\ lock = m /\ \A n \in Mutators \ {m} : mpc[n] \notin LockPCs
<1>1. lock = m /\ \A n \in Mutators \ {m} : mpc[n] \notin LockPCs
  BY DEF Inv, TableInv, LockInv
<1>2. ASSUME NEW n \in Mutators \ {m}
      PROVE  /\ mpc'[n] # "idle" => mhook'[n] \in Hooks
             /\ mpc'[n] \in {"check", "lock"} => mslot'[n] \in Slots
             /\ mpc'[n] \notin LockPCs
  BY <1>1 DEF Inv, TableInv, MutInv
<1> QED
  BY <1>1, <1>2 DEF MutInv, LockPCs

\* What is promised is a hook of a slot.
LEMMA PromiseType ==
  ASSUME Inv, NEW m \in Mutators, Promise(m), mslot[m] \in Slots, mhook[m] \in Hooks
  PROVE  promised' \subseteq Slots \X Hooks
<1>1. promised \subseteq Slots \X Hooks
  BY DEF Inv, TypeInv, TypeOK
<1>2. promised' \subseteq promised \cup {<<mslot[m], mhook[m]>>}
  BY DEF Promise
<1> QED
  BY <1>1, <1>2

\* hooks::add on a list that exists.
LEMMA AppendStep ==
  ASSUME Inv, NEW m \in Mutators, HookAppend(m)
  PROVE  Inv'
<1> DEFINE s == mslot[m]
           id == byGot[s]
<1>0. /\ mpc[m] = "append" /\ s \in Slots /\ id # 0 /\ mhook[m] \in Hooks
      /\ list' = [list EXCEPT ![id] = Append(@, mhook[m])] /\ lock' = NoOne
      /\ mpc' = [mpc EXCEPT ![m] = "next"]
      /\ UNCHANGED <<got, byGot, nextId, mhook, mtodo, mslot, callVars, dead, failed>>
  BY DEF HookAppend, At, Goto, Inv, TableInv, MutInv
<1>1. id \in Ids /\ id < nextId /\ RunList(list[id]) /\ Len(list[id]) \in Nat
  BY <1>0, HookedList
<1> HIDE DEF s, id
<1>2. /\ RunList(Append(list[id], mhook[m]))
      /\ Len(Append(list[id], mhook[m])) = Len(list[id]) + 1
  BY <1>0, <1>1, AppendRunList
<1>3. /\ list'[id] = Append(list[id], mhook[m])
      /\ \A i \in Ids \ {id} : list'[i] = list[i]
      /\ mpc'[m] = "next" /\ \A n \in Mutators \ {m} : mpc'[n] = mpc[n]
  BY <1>0, <1>1 DEF Inv, TypeInv, TypeOK
<1>4. ListInv'
  BY <1>0, <1>1, <1>2, <1>3 DEF Inv, TableInv, ListInv
<1>5. TypeOK'
  <2>1. list' \in [Ids -> Seq(Codes)]
    BY <1>0, <1>2 DEF RunList, Inv, TypeInv, TypeOK
  <2>2. promised' \subseteq Slots \X Hooks
    BY <1>0, PromiseType DEF HookAppend, s
  <2> QED
    BY <1>0, <2>1, <2>2 DEF Inv, TypeInv, TypeOK
<1>6. MutInv' /\ lock = m /\ \A n \in Mutators \ {m} : mpc[n] \notin LockPCs
  BY <1>0, <1>3, Alone DEF LockPCs
<1>7. LockInv'
  BY <1>0, <1>3, <1>6, NoOneAssumption DEF LockInv, LockPCs
<1>8. HookedInv'
  <2> SUFFICES ASSUME NEW t \in Slots, byGot[t] # 0
               PROVE  Len(list'[byGot[t]]) > 1
    BY <1>0 DEF HookedInv
  <2>1. Len(list[byGot[t]]) > 1 /\ byGot[t] \in Ids
    <3>1. Len(list[byGot[t]]) > 1
      BY <1>0, <1>6 DEF Inv, TableInv, HookedInv, LockPCs
    <3> QED
      BY <3>1, HookedList
  <2> QED
    BY <1>1, <1>2, <1>3, <2>1
<1>9. IndexInv' /\ PendInv' /\ CallInv' /\ NoImpossibleAbort'
  BY <1>0 DEF Inv, TableInv, IndexInv, PendInv, CallInv, NoImpossibleAbort
<1> QED
  BY <1>0, <1>4, <1>5, <1>6, <1>7, <1>8, <1>9 DEF Inv, TypeInv, TableInv

\* hooks::add for a slot that is not registered.
LEMMA RegisterStep ==
  ASSUME Inv, NEW m \in Mutators, HookRegister(m)
  PROVE  Inv'
<1> DEFINE s == mslot[m]
           new == <<got[s], mhook[m]>>
<1>0. /\ mpc[m] = "register" /\ s \in Slots /\ byGot[s] = 0 /\ mhook[m] \in Hooks
      /\ nextId \in Ids /\ nextId' = nextId + 1
      /\ byGot' = [byGot EXCEPT ![s] = nextId] /\ list' = [list EXCEPT ![nextId] = new]
      /\ mpc' = [mpc EXCEPT ![m] = "patch"]
      /\ UNCHANGED <<got, lock, mhook, mtodo, mslot, callVars, dead, history>>
  BY DEF HookRegister, At, Goto, Inv, TableInv, MutInv
<1>1. got[s] = Orig
  <2>1. got[s] \in Codes
    BY <1>0 DEF Inv, TypeInv, TypeOK
  <2> QED
    BY <1>0, <2>1, CodeFacts DEF Inv, TableInv, IndexInv
<1>2. RunList(new) /\ Len(new) = 2
  BY <1>0, <1>1, CodeFacts DEF RunList
<1> HIDE DEF s, new
<1>3. /\ list'[nextId] = new /\ \A i \in Ids \ {nextId} : list'[i] = list[i]
      /\ byGot'[s] = nextId /\ \A t \in Slots \ {s} : byGot'[t] = byGot[t]
      /\ mpc'[m] = "patch" /\ \A n \in Mutators \ {m} : mpc'[n] = mpc[n]
  BY <1>0 DEF Inv, TypeInv, TypeOK
<1>n. nextId \in Nat /\ \A t \in Slots : byGot[t] \in Nat /\ byGot[t] < nextId
  <2>0. byGot \in [Slots -> 0 .. MaxId]
    BY DEF Inv, TypeInv, TypeOK
  <2>1. nextId \in Nat /\ \A t \in Slots : byGot[t] \in 0 .. MaxId
    BY <1>0, <2>0, BoundsAssumption DEF Ids
  <2>2. \A t \in Slots : byGot[t] < nextId
    BY DEF Inv, TableInv, IndexInv
  <2> QED
    BY <2>1, <2>2, BoundsAssumption
<1>4. ListInv'
  <2> SUFFICES ASSUME NEW i \in Ids
               PROVE  IF i < nextId + 1 THEN RunList(list'[i]) ELSE list'[i] = <<>>
    BY <1>0 DEF ListInv
  <2>1. CASE i = nextId
    BY <1>2, <1>3, <1>n, <2>1
  <2>2. CASE i # nextId
    BY <1>3, <1>n, <2>2 DEF Inv, TableInv, ListInv, Ids
  <2> QED
    BY <2>1, <2>2
<1>5. TypeOK'
  <2>1. list' \in [Ids -> Seq(Codes)]
    BY <1>0, <1>2 DEF RunList, Inv, TypeInv, TypeOK
  <2>2. nextId' \in 1 .. MaxId + 1 /\ nextId \in 0 .. MaxId
    BY <1>0, BoundsAssumption DEF Ids
  <2>3. byGot' \in [Slots -> 0 .. MaxId]
    BY <1>0, <2>2 DEF Inv, TypeInv, TypeOK
  <2> QED
    BY <1>0, <2>1, <2>2, <2>3 DEF Inv, TypeInv, TypeOK
<1>6. MutInv' /\ lock = m /\ \A n \in Mutators \ {m} : mpc[n] \notin LockPCs
  <2>1. mslot'[m] = s /\ byGot'[mslot'[m]] # 0
    BY <1>0, <1>3, <1>n DEF s, Ids
  <2> QED
    BY <1>0, <1>3, <2>1, Alone DEF LockPCs
<1>7. LockInv'
  BY <1>0, <1>3, <1>6 DEF LockInv, LockPCs
<1>8. HookedInv'
  <2> SUFFICES ASSUME NEW t \in Slots, byGot'[t] # 0
               PROVE  Len(list'[byGot'[t]]) > 1
    BY DEF HookedInv
  <2>1. CASE t = s
    <3>1. list'[byGot'[t]] = new
      BY <1>3, <2>1
    <3> QED
      BY <1>2, <3>1
  <2>2. CASE t # s
    <3>1. byGot[t] # 0 /\ Len(list[byGot[t]]) > 1
      BY <1>0, <1>3, <1>6, <2>2 DEF Inv, TableInv, HookedInv, LockPCs
    <3>2. byGot[t] \in Ids \ {nextId}
      BY <1>n, <3>1, HookedList
    <3> QED
      BY <1>3, <2>2, <3>1, <3>2
  <2> QED
    BY <2>1, <2>2
<1>9. IndexInv'
  <2> SUFFICES ASSUME NEW t \in Slots
               PROVE  /\ byGot'[t] < nextId + 1 /\ (got[t] # Orig => got[t] = byGot'[t])
                      /\ byGot'[t] # 0 => \A u \in Slots : byGot'[u] = byGot'[t] => u = t
    BY <1>0 DEF IndexInv
  <2>1. /\ got[t] # Orig => got[t] = byGot[t]
        /\ byGot[t] # 0 => \A u \in Slots : byGot[u] = byGot[t] => u = t
    BY DEF Inv, TableInv, IndexInv
  <2>2. CASE t = s
    BY <1>1, <1>3, <1>n, <2>1, <2>2
  <2>3. CASE t # s
    BY <1>3, <1>n, <2>1, <2>3
  <2> QED
    BY <2>2, <2>3
<1>10. PendInv'
  <2> SUFFICES ASSUME NEW c \in Callers PROVE pend[c] = NoCall \/ pend[c].id \in 1 .. nextId' - 1
    BY <1>0 DEF PendInv
  <2>1. 1 .. nextId - 1 \subseteq 1 .. nextId' - 1
    BY <1>0, <1>n
  <2> QED
    BY <2>1 DEF Inv, PendInv
<1>11. CallInv' /\ NoImpossibleAbort'
  BY <1>0 DEF Inv, CallInv, NoImpossibleAbort
<1> QED
  BY <1>0, <1>4, <1>5, <1>6, <1>7, <1>8, <1>9, <1>10, <1>11 DEF Inv, TypeInv, TableInv

\* The trampoline is written to the slot.
LEMMA PatchStep ==
  ASSUME Inv, NEW m \in Mutators, HookPatch(m)
  PROVE  Inv'
<1> DEFINE s == mslot[m]
<1>0. /\ mpc[m] = "patch" /\ s \in Slots /\ byGot[s] # 0 /\ mhook[m] \in Hooks
      /\ got' = [got EXCEPT ![s] = byGot[s]] /\ lock' = NoOne
      /\ mpc' = [mpc EXCEPT ![m] = "next"]
      /\ UNCHANGED <<byGot, list, nextId, mhook, mtodo, mslot, callVars, dead, failed>>
  BY DEF HookPatch, At, Goto, Inv, TableInv, MutInv
<1>1. byGot[s] \in Codes
  BY <1>0, HookedList, CodeFacts
<1>2. TypeOK'
  <2>1. promised' \subseteq Slots \X Hooks
    BY <1>0, PromiseType DEF HookPatch
  <2> QED
    BY <1>0, <1>1, <2>1 DEF Inv, TypeInv, TypeOK
<1> HIDE DEF s
<1>3. /\ got'[s] = byGot[s] /\ \A t \in Slots \ {s} : got'[t] = got[t]
      /\ mpc'[m] = "next" /\ \A n \in Mutators \ {m} : mpc'[n] = mpc[n]
  BY <1>0 DEF Inv, TypeInv, TypeOK
<1>4. MutInv' /\ lock = m /\ \A n \in Mutators \ {m} : mpc[n] \notin LockPCs
  BY <1>0, <1>3, Alone DEF LockPCs
<1>5. LockInv'
  BY <1>0, <1>3, <1>4, NoOneAssumption DEF LockInv, LockPCs
<1>6. HookedInv'
  BY <1>0, <1>3 DEF Inv, TableInv, HookedInv
<1>7. IndexInv'
  BY <1>0, <1>3 DEF Inv, TableInv, IndexInv
<1>8. ListInv' /\ PendInv' /\ CallInv' /\ NoImpossibleAbort'
  BY <1>0 DEF Inv, TableInv, ListInv, PendInv, CallInv, NoImpossibleAbort
<1> QED
  BY <1>0, <1>2, <1>4, <1>5, <1>6, <1>7, <1>8 DEF Inv, TypeInv, TableInv

\* hooks::remove on one slot.
LEMMA UnhookSlotStep ==
  ASSUME Inv, NEW m \in Mutators, NEW s \in Slots, UnhookSlot(m, s)
  PROVE  Inv'
<1> DEFINE id == byGot[s]
           rest == Removed(list[id], mhook[m])
<1>0. /\ mpc[m] = "unext" /\ mhook[m] \in Hooks /\ mslot' = [mslot EXCEPT ![m] = s]
      /\ UNCHANGED <<got, byGot, nextId, lock, mhook, callVars, dead, history>>
  BY DEF UnhookSlot, At, Inv, TableInv, MutInv
<1>1. /\ mslot'[m] = s /\ \A n \in Mutators \ {m} : mslot'[n] = mslot[n]
      /\ mslot' \in [Mutators -> Slots \cup {NoOne}]
      /\ mtodo' \in [Mutators -> SUBSET Slots]
  BY <1>0 DEF UnhookSlot, Inv, TypeInv, TypeOK
<1>2. IndexInv' /\ PendInv' /\ CallInv' /\ NoImpossibleAbort'
  BY <1>0 DEF Inv, TableInv, IndexInv, PendInv, CallInv, NoImpossibleAbort
<1>3. ASSUME is_hooked(s), Removable(list[id], mhook[m])
      PROVE  Inv'
  <2>0. /\ list' = [list EXCEPT ![id] = rest]
        /\ mpc' = [mpc EXCEPT ![m] = IF Len(rest) = 1 THEN "restore" ELSE "unext"]
    BY <1>3 DEF UnhookSlot, Goto
  <2>1. id # 0 /\ id \in Ids /\ id < nextId /\ RunList(list[id]) /\ Len(list[id]) \in Nat
    BY <1>3, HookedList DEF is_hooked
  <2>2. RunList(rest) /\ Len(rest) = Len(list[id]) - 1 /\ Len(list[id]) > 1
    BY <1>0, <1>3, <2>1, RemovedRunList DEF Removable
  <2>l. Len(rest) = 1 \/ Len(rest) > 1
    <3>1. \A a \in Nat : a > 1 => a - 1 = 1 \/ a - 1 > 1
      OBVIOUS
    <3> HIDE DEF id, rest
    <3> QED
      BY <2>1, <2>2, <3>1
  <2>t. \A t \in Slots : byGot[t] # 0 => byGot[t] \in Ids /\ (byGot[t] = id => t = s)
    BY <2>1, HookedList DEF Inv, TableInv, IndexInv
  <2> HIDE DEF id, rest
  <2>3. /\ list'[id] = rest /\ \A i \in Ids \ {id} : list'[i] = list[i]
        /\ mpc'[m] = IF Len(rest) = 1 THEN "restore" ELSE "unext"
        /\ \A n \in Mutators \ {m} : mpc'[n] = mpc[n]
    BY <2>0, <2>1 DEF Inv, TypeInv, TypeOK
  <2>4. TypeOK'
    <3>1. list' \in [Ids -> Seq(Codes)]
      BY <2>0, <2>2 DEF RunList, Inv, TypeInv, TypeOK
    <3>2. mpc' \in [Mutators -> {"idle", "next", "check", "lock", "append", "register",
                              "patch", "ulock", "unext", "restore", "forget"}]
      BY <2>0 DEF Inv, TypeInv, TypeOK
    <3> QED
      BY <1>0, <1>1, <3>1, <3>2 DEF Inv, TypeInv, TypeOK
  <2>5. ListInv'
    BY <1>0, <2>1, <2>2, <2>3 DEF Inv, TableInv, ListInv
  <2>6. MutInv' /\ lock = m /\ \A n \in Mutators \ {m} : mpc[n] \notin LockPCs
    <3>1. mpc'[m] \in {"restore", "unext"} /\ byGot'[mslot'[m]] = id
      BY <1>0, <1>1, <2>3 DEF id
    <3>2. mpc'[m] = "restore" => Len(list'[byGot'[mslot'[m]]]) = 1
      BY <2>3, <3>1
    <3> QED
      BY <1>0, <1>1, <2>1, <2>3, <3>1, <3>2, Alone DEF LockPCs
  <2>7. LockInv'
    BY <1>0, <2>3, <2>6 DEF LockInv, LockPCs
  <2>8. HookedInv'
    <3> SUFFICES ASSUME NEW t \in Slots, byGot[t] # 0
                 PROVE  \/ Len(list'[byGot[t]]) > 1
                        \/ mpc'[m] = "restore" /\ mslot'[m] = t
      BY <1>0 DEF HookedInv
    <3>1. CASE t = s
      <4>1. list'[byGot[t]] = rest
        BY <2>3, <3>1 DEF id
      <4>2. CASE Len(rest) = 1
        BY <1>1, <2>3, <3>1, <4>2
      <4>3. CASE Len(rest) # 1
        BY <2>l, <4>1, <4>3
      <4> QED
        BY <4>2, <4>3
    <3>2. CASE t # s
      <4>1. byGot[t] \in Ids \ {id}
        BY <2>t, <3>2
      <4>2. Len(list[byGot[t]]) > 1
        BY <1>0, <2>6 DEF Inv, TableInv, HookedInv, LockPCs
      <4> QED
        BY <2>3, <4>1, <4>2
    <3> QED
      BY <3>1, <3>2
  <2> QED
    BY <1>0, <1>2, <2>4, <2>5, <2>6, <2>7, <2>8 DEF Inv, TypeInv, TableInv
<1>4. ASSUME ~(is_hooked(s) /\ Removable(list[id], mhook[m]))
      PROVE  Inv'
  <2>0. UNCHANGED <<list, mpc>>
    BY <1>4 DEF UnhookSlot
  <2>1. TypeOK'
    BY <1>0, <1>1, <2>0 DEF Inv, TypeInv, TypeOK
  <2>2. MutInv' /\ lock = m /\ \A n \in Mutators \ {m} : mpc[n] \notin LockPCs
    BY <1>0, <1>1, <2>0, Alone DEF LockPCs
  <2>3. LockInv' /\ ListInv'
    BY <1>0, <2>0 DEF Inv, TableInv, LockInv, ListInv
  <2>4. HookedInv'
    BY <1>0, <1>1, <2>0, <2>2 DEF Inv, TableInv, HookedInv, LockPCs
  <2> QED
    BY <1>0, <1>2, <2>1, <2>2, <2>3, <2>4 DEF Inv, TypeInv, TableInv
<1> QED
  BY <1>3, <1>4

\* The original is written back.
LEMMA RestoreStep ==
  ASSUME Inv, NEW m \in Mutators, UnhookRestore(m)
  PROVE  Inv'
<1> DEFINE s == mslot[m]
<1>0. /\ mpc[m] = "restore" /\ s \in Slots /\ byGot[s] # 0 /\ mhook[m] \in Hooks
      /\ Len(list[byGot[s]]) = 1
      /\ got' = [got EXCEPT ![s] = list[byGot[s]][1]]
      /\ mpc' = [mpc EXCEPT ![m] = "forget"]
      /\ UNCHANGED <<byGot, list, nextId, lock, mhook, mtodo, mslot, callVars, dead, history>>
  BY DEF UnhookRestore, At, Goto, Inv, TableInv, MutInv
<1>1. list[byGot[s]][1] = Orig /\ Orig \in Codes
  BY <1>0, HookedList, CodeFacts DEF RunList
<1>2. TypeOK'
  BY <1>0, <1>1 DEF Inv, TypeInv, TypeOK
<1> HIDE DEF s
<1>3. /\ got'[s] = Orig /\ \A t \in Slots \ {s} : got'[t] = got[t]
      /\ mpc'[m] = "forget" /\ \A n \in Mutators \ {m} : mpc'[n] = mpc[n]
  BY <1>0, <1>1 DEF Inv, TypeInv, TypeOK
<1>4. MutInv' /\ lock = m /\ \A n \in Mutators \ {m} : mpc[n] \notin LockPCs
  <2>1. mslot'[m] = s
    BY <1>0 DEF s
  <2> QED
    BY <1>0, <1>3, <2>1, Alone DEF LockPCs
<1>5. LockInv'
  BY <1>0, <1>3, <1>4 DEF LockInv, LockPCs
<1>6. HookedInv'
  BY <1>0, <1>3 DEF Inv, TableInv, HookedInv
<1>7. IndexInv'
  BY <1>0, <1>3 DEF Inv, TableInv, IndexInv
<1>8. ListInv' /\ PendInv' /\ CallInv' /\ NoImpossibleAbort'
  BY <1>0 DEF Inv, TableInv, ListInv, PendInv, CallInv, NoImpossibleAbort
<1> QED
  BY <1>0, <1>2, <1>4, <1>5, <1>6, <1>7, <1>8 DEF Inv, TypeInv, TableInv

\* The emptied list is taken out of both indexes.
LEMMA ForgetStep ==
  ASSUME Inv, NEW m \in Mutators, UnhookForget(m)
  PROVE  Inv'
<1> DEFINE s == mslot[m]
<1>0. /\ mpc[m] = "forget" /\ s \in Slots /\ byGot[s] # 0 /\ mhook[m] \in Hooks
      /\ got[s] = Orig
      /\ byGot' = [byGot EXCEPT ![s] = 0] /\ failed' = failed \ {s}
      /\ mpc' = [mpc EXCEPT ![m] = "unext"]
      /\ UNCHANGED <<got, list, nextId, lock, mhook, mtodo, mslot, callVars, dead, promised>>
  BY DEF UnhookForget, At, Goto, Inv, TableInv, MutInv
<1>2. TypeOK'
  <2>1. byGot' \in [Slots -> 0 .. MaxId]
    <3>1. byGot \in [Slots -> 0 .. MaxId]
      BY DEF Inv, TypeInv, TypeOK
    <3>2. 0 \in 0 .. MaxId
      BY BoundsAssumption
    <3> QED
      BY <1>0, <3>1, <3>2
  <2>2. failed' \subseteq Slots
    BY <1>0 DEF Inv, TypeInv, TypeOK
  <2> QED
    BY <1>0, <2>1, <2>2 DEF Inv, TypeInv, TypeOK
<1> HIDE DEF s
<1>3. /\ byGot'[s] = 0 /\ \A t \in Slots \ {s} : byGot'[t] = byGot[t]
      /\ mpc'[m] = "unext" /\ \A n \in Mutators \ {m} : mpc'[n] = mpc[n]
  BY <1>0 DEF Inv, TypeInv, TypeOK
<1>4. MutInv' /\ lock = m /\ \A n \in Mutators \ {m} : mpc[n] \notin LockPCs
  BY <1>0, <1>3, Alone DEF LockPCs
<1>5. LockInv'
  BY <1>0, <1>3, <1>4 DEF LockInv, LockPCs
<1>6. HookedInv'
  <2> SUFFICES ASSUME NEW t \in Slots, byGot'[t] # 0
               PROVE  Len(list[byGot'[t]]) > 1
    BY <1>0 DEF HookedInv
  <2>1. t # s /\ byGot'[t] = byGot[t]
    BY <1>3
  <2> QED
    BY <1>0, <1>4, <2>1 DEF Inv, TableInv, HookedInv, LockPCs, s
<1>7. IndexInv'
  <2>0. nextId \in 1 .. MaxId + 1
    BY DEF Inv, TypeInv, TypeOK
  <2>1. 0 < nextId
    BY <2>0, BoundsAssumption
  <2> QED
    BY <1>0, <1>3, <2>1 DEF Inv, TableInv, IndexInv
<1>8. ListInv' /\ PendInv' /\ CallInv' /\ NoImpossibleAbort'
  BY <1>0 DEF Inv, TableInv, ListInv, PendInv, CallInv, NoImpossibleAbort
<1> QED
  BY <1>0, <1>2, <1>4, <1>5, <1>6, <1>7, <1>8 DEF Inv, TypeInv, TableInv

-----------------------------------------------------------------------------
(* Calls *)

\* The last element of a sequence and the ones before it.
LEMMA LastFront ==
  ASSUME NEW S, NEW q \in Seq(S), q # <<>>
  PROVE  /\ Last(q) = q[Len(q)] /\ Last(q) \in S /\ Len(q) \in Nat /\ Len(q) > 0
         /\ Front(q) \in Seq(S) /\ Len(Front(q)) = Len(q) - 1
         /\ \A k \in 1 .. Len(q) - 1 : Front(q)[k] = q[k]
<1>1. Len(q) \in Nat /\ Len(q) > 0 /\ \A k \in 1 .. Len(q) - 1 : q[k] \in S
  OBVIOUS
<1>n. Len(q) - 1 \in Nat /\ 1 \in Nat /\ \A k \in 1 .. Len(q) - 1 : k \in 1 .. Len(q)
  BY <1>1
<1>3. q[Len(q)] \in S
  BY <1>1
<1>2. PICK n \in Nat : n = Len(q) - 1 /\ \A k \in 1 .. n : q[k] \in S
  BY <1>1, <1>n
<1>4. /\ SubSeq(q, 1, n) \in Seq(S)
      /\ Len(SubSeq(q, 1, n)) = IF 1 <= n THEN n - 1 + 1 ELSE 0
      /\ \A i \in 1 .. n - 1 + 1 : SubSeq(q, 1, n)[i] = q[1 + i - 1]
  BY <1>2, SubSeqProperties
<1>5. Len(SubSeq(q, 1, n)) = n /\ \A i \in 1 .. n : SubSeq(q, 1, n)[i] = q[i]
  BY <1>4
<1> QED
  BY <1>1, <1>2, <1>3, <1>4, <1>5 DEF Last, Front

\* A call changes nothing but its own thread's stack.
LEMMA CallerStep ==
  ASSUME Inv, UNCHANGED <<table, mutVars, history>>, NEW c \in Callers,
         dead' = dead, NEW p \in PendSet, pend' = [pend EXCEPT ![c] = p],
         p = NoCall \/ p.id \in 1 .. nextId - 1,
         NEW x \in Seq(CallSet), calls' = [calls EXCEPT ![c] = x],
         \A k \in 1 .. Len(x) : CallOK(x[k])
  PROVE  Inv'
<1>1. TypeOK' /\ NoImpossibleAbort'
  BY DEF Inv, TypeInv, TypeOK, NoImpossibleAbort
<1>2. LockInv' /\ ListInv' /\ IndexInv' /\ MutInv' /\ HookedInv'
  BY DEF Inv, TableInv, LockInv, ListInv, IndexInv, MutInv, HookedInv
<1>3. pend' \in [Callers -> PendSet] /\ calls' \in [Callers -> Seq(CallSet)]
  BY DEF Inv, TypeInv
<1>4. /\ pend'[c] = p /\ calls'[c] = x
      /\ \A d \in Callers \ {c} : pend'[d] = pend[d] /\ calls'[d] = calls[d]
  BY DEF Inv, TypeInv
<1>5. PendInv'
  BY <1>4 DEF Inv, PendInv
<1>6. CallInv'
  BY <1>4 DEF Inv, CallInv
<1> QED
  BY <1>1, <1>2, <1>3, <1>5, <1>6 DEF Inv, TypeInv, TableInv

\* A call that has just begun.
LEMMA NewCall ==
  ASSUME NEW call \in CallSet, RunList(call.list), NEW x, call.chain = <<x>>,
         Contains(call.list, x), ~call.tls => x = Orig
  PROVE  CallOK(call)
<1>1. call.chain # <<>> /\ Len(call.chain) = 1 /\ call.chain[1] = x
  OBVIOUS
<1>2. Descends(call)
  BY <1>1 DEF Descends
<1> QED
  BY <1>1, <1>2 DEF CallOK

\* What is known of the calls of c, and of c's stack with one more or one less.
LEMMA StackFacts ==
  ASSUME Inv, NEW c \in Callers
  PROVE  /\ calls[c] \in Seq(CallSet)
         /\ \A k \in 1 .. Len(calls[c]) : CallOK(calls[c][k])
         /\ \A call \in CallSet : CallOK(call) =>
              /\ Append(calls[c], call) \in Seq(CallSet)
              /\ \A k \in 1 .. Len(Append(calls[c], call)) : CallOK(Append(calls[c], call)[k])
<1>1. /\ calls[c] \in Seq(CallSet) /\ \A k \in 1 .. Len(calls[c]) : CallOK(calls[c][k])
  BY DEF Inv, TypeInv, CallInv
<1> HIDE DEF CallSet
<1> QED
  BY <1>1

\* The innermost call of a thread and the ones around it.
LEMMA TopFacts ==
  ASSUME Inv, NEW c \in Callers, calls[c] # <<>>
  PROVE  /\ Last(calls[c]) \in CallSet /\ CallOK(Last(calls[c]))
         /\ Front(calls[c]) \in Seq(CallSet)
         /\ \A k \in 1 .. Len(Front(calls[c])) : CallOK(Front(calls[c])[k])
         /\ \A call \in CallSet : CallOK(call) =>
              /\ Append(Front(calls[c]), call) \in Seq(CallSet)
              /\ \A k \in 1 .. Len(Append(Front(calls[c]), call)) :
                   CallOK(Append(Front(calls[c]), call)[k])
<1>1. /\ calls[c] \in Seq(CallSet) /\ \A k \in 1 .. Len(calls[c]) : CallOK(calls[c][k])
  BY StackFacts
<1>2. /\ Last(calls[c]) = calls[c][Len(calls[c])] /\ Last(calls[c]) \in CallSet
      /\ Len(calls[c]) \in Nat /\ Len(calls[c]) > 0
      /\ Front(calls[c]) \in Seq(CallSet) /\ Len(Front(calls[c])) = Len(calls[c]) - 1
      /\ \A k \in 1 .. Len(calls[c]) - 1 : Front(calls[c])[k] = calls[c][k]
  BY <1>1, LastFront
<1>3. CallOK(Last(calls[c])) /\ \A k \in 1 .. Len(Front(calls[c])) : CallOK(Front(calls[c])[k])
  BY <1>1, <1>2
<1> HIDE DEF CallSet
<1> QED
  BY <1>2, <1>3

\* What a call must run are hooks.
LEMMA MustType ==
  ASSUME NEW s PROVE Must(s) \in SUBSET Hooks
BY DEF Must

\* A call through a slot that holds the original.
LEMMA CallOriginalStep ==
  ASSUME Inv, NEW c \in Callers, NEW s \in Slots, CallOriginal(c, s)
  PROVE  Inv'
<1> DEFINE call == [tls |-> FALSE, list |-> <<Orig>>, chain |-> <<Orig>>,
                    patched |-> s \notin failed, must |-> Must(s)]
<1>1. call \in CallSet /\ call.list = <<Orig>> /\ call.chain = <<Orig>>
  <2>1. <<Orig>> \in Seq(Codes)
    BY CodeFacts
  <2> QED
    BY <2>1, MustType DEF CallSet
<1>2. RunList(<<Orig>>) /\ Contains(<<Orig>>, Orig)
  BY CodeFacts DEF RunList, Contains
<1> HIDE DEF call
<1>3. CallOK(call)
  BY <1>1, <1>2, NewCall
<1>4. pend[c] \in PendSet /\ pend = [pend EXCEPT ![c] = pend[c]]
      /\ (pend[c] = NoCall \/ pend[c].id \in 1 .. nextId - 1)
  BY DEF Inv, TypeInv, PendInv
<1>5. /\ UNCHANGED <<table, mutVars, history, dead, pend>>
      /\ calls' = [calls EXCEPT ![c] = Append(calls[c], call)]
  BY DEF CallOriginal, call
<1> QED
  BY <1>1, <1>3, <1>4, <1>5, StackFacts, CallerStep

\* A call through a slot that holds a trampoline.
LEMMA CallTrampolineStep ==
  ASSUME Inv, NEW c \in Callers, NEW s \in Slots, CallTrampoline(c, s)
  PROVE  Inv'
<1> DEFINE p == [id |-> got[s], patched |-> s \notin failed, must |-> Must(s)]
<1>1. got[s] \in Ids /\ got[s] = byGot[s] /\ byGot[s] # 0
  BY CodeFacts DEF CallTrampoline, Inv, TableInv, IndexInv
<1>2. got[s] \in 1 .. nextId - 1 /\ got[s] \in 0 .. MaxId
  <2>1. got[s] \in Ids /\ got[s] < nextId
    BY <1>1, HookedList
  <2>2. nextId \in 1 .. MaxId + 1
    BY DEF Inv, TypeInv, TypeOK
  <2> QED
    BY <2>1, <2>2, BoundsAssumption DEF Ids
<1>3. p \in PendSet /\ p.id \in 1 .. nextId - 1
  BY <1>2, MustType DEF PendSet
<1>4. calls = [calls EXCEPT ![c] = calls[c]]
  BY DEF Inv, TypeInv
<1>5. /\ UNCHANGED <<table, mutVars, history, dead, calls>>
      /\ pend' = [pend EXCEPT ![c] = p]
  BY DEF CallTrampoline
<1> HIDE DEF p
<1> QED
  BY <1>3, <1>4, <1>5, StackFacts, CallerStep

\* push_hook_stack copies the run list.
LEMMA PushStep ==
  ASSUME Inv, NEW c \in Callers, push_hook_stack(c)
  PROVE  Inv'
<1> DEFINE run == list[pend[c].id]
           call == [tls |-> TRUE, list |-> run, chain |-> <<Last(run)>>,
                    patched |-> pend[c].patched, must |-> pend[c].must]
<1>1. pend[c] \in PendSet /\ pend[c].id \in 1 .. nextId - 1
  BY DEF push_hook_stack, Inv, TypeInv, PendInv
<1>2. RunList(run)
  <2>1. nextId \in 1 .. MaxId + 1
    BY DEF Inv, TypeInv, TypeOK
  <2>2. pend[c].id \in Ids /\ pend[c].id < nextId
    BY <1>1, <2>1, BoundsAssumption DEF Ids
  <2> QED
    BY <2>2 DEF Inv, TableInv, ListInv
<1>3. run \in Seq(Codes) /\ run # <<>>
  BY <1>2 DEF RunList
<1>4. Last(run) \in Codes /\ Contains(run, Last(run))
  <2>1. Last(run) = run[Len(run)] /\ Last(run) \in Codes /\ Len(run) \in Nat /\ Len(run) > 0
    BY <1>3, LastFront
  <2>2. Len(run) \in 1 .. Len(run)
    BY <2>1
  <2> QED
    BY <2>1, <2>2 DEF Contains
<1>5. /\ UNCHANGED <<table, mutVars, history, dead>>
      /\ calls' = [calls EXCEPT ![c] = Append(calls[c], call)]
      /\ pend' = [pend EXCEPT ![c] = NoCall]
  BY <1>3 DEF push_hook_stack
<1>6. pend[c].patched \in BOOLEAN /\ pend[c].must \in SUBSET Hooks
  BY <1>1 DEF PendSet
<1> HIDE DEF run
<1>7. call \in CallSet /\ call.list = run /\ call.chain = <<Last(run)>> /\ call.tls
  BY <1>3, <1>4, <1>6 DEF CallSet
<1> HIDE DEF call
<1>8. CallOK(call)
  BY <1>2, <1>4, <1>7, NewCall
<1>9. NoCall \in PendSet
  BY BoundsAssumption DEF NoCall, PendSet
<1> QED
  BY <1>5, <1>7, <1>8, <1>9, StackFacts, CallerStep

\* CALL_PREV of hook h, the last of the chain, goes to the entry before the
\* first h of the list, which lies before everything that has run.
LEMMA PrevDescends ==
  ASSUME NEW l, RunList(l), NEW ch \in Seq(Codes), ch # <<>>,
         \A i \in 1 .. Len(ch) : Contains(l, ch[i]),
         \A i, j \in 1 .. Len(ch) :
           i < j => \E a, b \in 1 .. Len(l) : a > b /\ l[a] = ch[i] /\ l[b] = ch[j],
         Last(ch) \in Hooks, NEW v, v = Previous(l, Last(ch))
  PROVE  /\ Position(l, Last(ch)) > 1 /\ v \in Codes
         /\ \A i \in 1 .. Len(Append(ch, v)) : Contains(l, Append(ch, v)[i])
         /\ \A i, j \in 1 .. Len(Append(ch, v)) :
              i < j => \E a, b \in 1 .. Len(l) :
                         a > b /\ l[a] = Append(ch, v)[i] /\ l[b] = Append(ch, v)[j]
<1> DEFINE n == Len(ch)
           h == Last(ch)
           p == Position(l, h)
<1>0. n \in Nat /\ n > 0 /\ h = ch[n]
  BY LastFront
<1>1. n \in Nat /\ n \in 1 .. n /\ h = ch[n]
  BY <1>0
<1>2. l \in Seq(Codes) /\ l[1] = Orig /\ Contains(l, h) /\ l[1] # h
  BY <1>1, CodeFacts DEF RunList
<1>3. p \in 1 .. Len(l) /\ l[p] = h /\ \A k \in 1 .. Len(l) : l[k] = h => p <= k
  BY <1>2, PositionFacts
<1>4. p \in 2 .. Len(l) /\ p - 1 \in 1 .. Len(l)
  BY <1>2, <1>3
<1>5. v = l[p - 1] /\ v \in Codes
  BY <1>2, <1>4 DEF Previous
<1> HIDE DEF n, h, p
<1>6. Contains(l, v)
  BY <1>4, <1>5 DEF Contains
<1>7. /\ Len(Append(ch, v)) = n + 1 /\ Append(ch, v)[n + 1] = v
      /\ \A i \in 1 .. n : Append(ch, v)[i] = ch[i]
  BY <1>5 DEF n
<1>8. ASSUME NEW i \in 1 .. n + 1 PROVE Contains(l, Append(ch, v)[i])
  <2>1. CASE i = n + 1
    BY <1>6, <1>7, <2>1
  <2>2. CASE i # n + 1
    <3>1. i \in 1 .. n
      BY <1>1, <2>2
    <3> QED
      BY <1>7, <3>1 DEF n
  <2> QED
    BY <2>1, <2>2
<1>9. ASSUME NEW i \in 1 .. n
      PROVE  \E a \in 1 .. Len(l) : a >= p /\ l[a] = ch[i]
  <2>1. CASE i = n
    BY <1>1, <1>3, <2>1
  <2>2. CASE i # n
    <3>1. i < n
      BY <1>1, <2>2
    <3>2. PICK a, b \in 1 .. Len(l) : a > b /\ l[a] = ch[i] /\ l[b] = ch[n]
      BY <1>1, <3>1 DEF n
    <3>3. p <= b
      BY <1>1, <1>3, <3>2
    <3>4. a >= p
      BY <1>3, <3>2, <3>3
    <3> QED
      BY <3>2, <3>4
  <2> QED
    BY <2>1, <2>2
<1>10. ASSUME NEW i \in 1 .. n + 1, NEW j \in 1 .. n + 1, i < j
       PROVE  \E a, b \in 1 .. Len(l) :
                a > b /\ l[a] = Append(ch, v)[i] /\ l[b] = Append(ch, v)[j]
  <2>0. i \in 1 .. n /\ Append(ch, v)[i] = ch[i]
    BY <1>1, <1>7, <1>10
  <2>1. CASE j = n + 1
    <3>1. PICK a \in 1 .. Len(l) : a >= p /\ l[a] = ch[i]
      BY <1>9, <2>0
    <3>2. a > p - 1
      BY <1>4, <3>1
    <3> QED
      BY <1>4, <1>5, <1>7, <2>0, <2>1, <3>1, <3>2
  <2>2. CASE j # n + 1
    <3>1. j \in 1 .. n /\ Append(ch, v)[j] = ch[j]
      BY <1>1, <1>7, <2>2
    <3>2. PICK a, b \in 1 .. Len(l) : a > b /\ l[a] = ch[i] /\ l[b] = ch[j]
      BY <1>10, <2>0, <3>1 DEF n
    <3> QED
      BY <2>0, <3>1, <3>2
  <2> QED
    BY <2>1, <2>2
<1>11. p > 1
  BY <1>4
<1>12. \A i \in 1 .. Len(Append(ch, v)) : Contains(l, Append(ch, v)[i])
  BY <1>7, <1>8
<1>13. \A i, j \in 1 .. Len(Append(ch, v)) :
         i < j => \E a, b \in 1 .. Len(l) :
                    a > b /\ l[a] = Append(ch, v)[i] /\ l[b] = Append(ch, v)[j]
  <2>1. 1 .. Len(Append(ch, v)) = 1 .. n + 1
    BY <1>7
  <2> SUFFICES ASSUME NEW i \in 1 .. Len(Append(ch, v)), NEW j \in 1 .. Len(Append(ch, v)), i < j
               PROVE  \E a, b \in 1 .. Len(l) :
                        a > b /\ l[a] = Append(ch, v)[i] /\ l[b] = Append(ch, v)[j]
    OBVIOUS
  <2>2. i \in 1 .. n + 1 /\ j \in 1 .. n + 1
    BY <2>1
  <2> QED
    BY <1>10, <2>2, Zenon
<1>14. Position(l, Last(ch)) > 1
  BY <1>11 DEF h, p
<1> QED
  BY <1>5, <1>12, <1>13, <1>14

\* A hook calls the previous one.
LEMMA CallPrevStep ==
  ASSUME Inv, NEW c \in Callers, CallPrev(c)
  PROVE  Inv'
<1>1. PICK top : top = Last(calls[c])
  OBVIOUS
<1>2. calls[c] # <<>> /\ Last(top.chain) \in Hooks
  BY <1>1 DEF CallPrev
<1>3. /\ top \in CallSet /\ CallOK(top)
      /\ \A call \in CallSet : CallOK(call) =>
           /\ Append(Front(calls[c]), call) \in Seq(CallSet)
           /\ \A k \in 1 .. Len(Append(Front(calls[c]), call)) :
                CallOK(Append(Front(calls[c]), call)[k])
  BY <1>1, <1>2, TopFacts
<1>4. /\ top.list \in Seq(Codes) /\ top.chain \in Seq(Codes)
      /\ RunList(top.list) /\ top.chain # <<>>
      /\ \A i \in 1 .. Len(top.chain) : Contains(top.list, top.chain[i])
      /\ Descends(top)
  BY <1>3 DEF CallSet, CallOK
<1>5. top.tls
  <2>1. CASE ~top.tls
    <3>1. top.chain = <<Orig>>
      BY <1>3, <2>1 DEF CallOK
    <3>2. Last(top.chain) = Orig
      BY <3>1 DEF Last
    <3> QED
      BY <1>2, <3>2, CodeFacts
  <2> QED
    BY <2>1
<1>6. PICK v : v = Previous(top.list, Last(top.chain))
  OBVIOUS
<1>7. /\ Position(top.list, Last(top.chain)) > 1 /\ v \in Codes
      /\ \A i \in 1 .. Len(Append(top.chain, v)) : Contains(top.list, Append(top.chain, v)[i])
      /\ \A i, j \in 1 .. Len(Append(top.chain, v)) :
           i < j => \E a, b \in 1 .. Len(top.list) :
                      /\ a > b
                      /\ top.list[a] = Append(top.chain, v)[i]
                      /\ top.list[b] = Append(top.chain, v)[j]
  <2>1. \A i, j \in 1 .. Len(top.chain) :
          i < j => \E a, b \in 1 .. Len(top.list) :
                     /\ a > b
                     /\ top.list[a] = top.chain[i]
                     /\ top.list[b] = top.chain[j]
    BY <1>4 DEF Descends
  <2> DEFINE l == top.list
             ch == top.chain
  <2>3. /\ RunList(l) /\ ch \in Seq(Codes) /\ ch # <<>> /\ Last(ch) \in Hooks
        /\ v = Previous(l, Last(ch)) /\ \A i \in 1 .. Len(ch) : Contains(l, ch[i])
    BY <1>2, <1>4, <1>6, Zenon
  <2>4. \A i, j \in 1 .. Len(ch) :
          i < j => \E a, b \in 1 .. Len(l) :
                     /\ a > b
                     /\ l[a] = ch[i]
                     /\ l[b] = ch[j]
    BY <2>1
  <2> HIDE DEF l, ch
  <2>5. /\ Position(l, Last(ch)) > 1 /\ v \in Codes
        /\ \A i \in 1 .. Len(Append(ch, v)) : Contains(l, Append(ch, v)[i])
        /\ \A i, j \in 1 .. Len(Append(ch, v)) :
             i < j => \E a, b \in 1 .. Len(l) :
                        /\ a > b
                        /\ l[a] = Append(ch, v)[i]
                        /\ l[b] = Append(ch, v)[j]
    BY <2>3, <2>4, PrevDescends, SMTT(40)
  <2> QED
    BY <2>5 DEF l, ch
<1>8. PICK new : new = [top EXCEPT !.chain = Append(@, v)]
  OBVIOUS
<1>9. /\ new \in CallSet /\ new.list = top.list /\ new.tls = top.tls
      /\ new.chain = Append(top.chain, v)
  <2>1. Append(top.chain, v) \in Seq(Codes)
    BY <1>4, <1>7
  <2> QED
    BY <1>3, <1>8, <2>1 DEF CallSet
<1>10. CallOK(new)
  <2>1. Append(top.chain, v) # <<>>
    BY <1>4, <1>7
  <2>2. Descends(new)
    BY <1>7, <1>9, SMTT(40) DEF Descends
  <2> QED
    BY <1>4, <1>5, <1>7, <1>9, <2>1, <2>2 DEF CallOK
<1>11. /\ UNCHANGED <<table, mutVars, pend, history, dead>>
       /\ calls' = [calls EXCEPT ![c] = Append(Front(calls[c]), new)]
  BY <1>1, <1>5, <1>6, <1>7, <1>8 DEF CallPrev
<1>12. pend[c] \in PendSet /\ pend = [pend EXCEPT ![c] = pend[c]]
       /\ (pend[c] = NoCall \/ pend[c].id \in 1 .. nextId - 1)
  BY DEF Inv, TypeInv, PendInv
<1>13. /\ Append(Front(calls[c]), new) \in Seq(CallSet)
       /\ \A k \in 1 .. Len(Append(Front(calls[c]), new)) :
            CallOK(Append(Front(calls[c]), new)[k])
  BY <1>3, <1>9, <1>10
<1> QED
  BY <1>11, <1>12, <1>13, CallerStep

\* pop_hook_stack.
LEMMA FunctionReturnStep ==
  ASSUME Inv, NEW c \in Callers, FunctionReturn(c)
  PROVE  Inv'
<1>1. PICK top : top = Last(calls[c])
  OBVIOUS
<1>2. calls[c] # <<>> /\ UNCHANGED <<table, mutVars, pend, history, dead>>
  BY DEF FunctionReturn
<1>3. /\ top \in CallSet /\ CallOK(top) /\ Front(calls[c]) \in Seq(CallSet)
      /\ \A k \in 1 .. Len(Front(calls[c])) : CallOK(Front(calls[c])[k])
      /\ \A call \in CallSet : CallOK(call) =>
           /\ Append(Front(calls[c]), call) \in Seq(CallSet)
           /\ \A k \in 1 .. Len(Append(Front(calls[c]), call)) :
                CallOK(Append(Front(calls[c]), call)[k])
  BY <1>1, <1>2, TopFacts
<1>4. pend[c] \in PendSet /\ pend = [pend EXCEPT ![c] = pend[c]]
      /\ (pend[c] = NoCall \/ pend[c].id \in 1 .. nextId - 1)
  BY DEF Inv, TypeInv, PendInv
<1>5. CASE Len(top.chain) = 1
  <2>1. calls' = [calls EXCEPT ![c] = Front(calls[c])]
    BY <1>1, <1>5 DEF FunctionReturn
  <2> QED
    BY <1>2, <1>3, <1>4, <2>1, CallerStep
<1>6. CASE Len(top.chain) # 1
  <2>1. PICK new : new = [top EXCEPT !.chain = Front(@)]
    OBVIOUS
  <2>2. calls' = [calls EXCEPT ![c] = Append(Front(calls[c]), new)]
    BY <1>1, <1>6, <2>1 DEF FunctionReturn
  <2>3. top.chain \in Seq(Codes) /\ top.chain # <<>>
    BY <1>3 DEF CallSet, CallOK
  <2>4. /\ Front(top.chain) \in Seq(Codes) /\ Len(top.chain) \in Nat /\ Len(top.chain) > 0
        /\ Len(Front(top.chain)) = Len(top.chain) - 1
        /\ \A k \in 1 .. Len(top.chain) - 1 : Front(top.chain)[k] = top.chain[k]
    BY <2>3, LastFront
  <2>5. /\ new \in CallSet /\ new.list = top.list /\ new.tls = top.tls
        /\ new.chain = Front(top.chain)
    BY <1>3, <2>1, <2>4 DEF CallSet
  <2>6. top.tls
    <3>1. Len(<<Orig>>) = 1
      OBVIOUS
    <3> QED
      BY <1>3, <1>6, <3>1 DEF CallOK
  <2>7. Front(top.chain) # <<>> /\ \A k \in 1 .. Len(Front(top.chain)) :
          k \in 1 .. Len(top.chain) /\ Front(top.chain)[k] = top.chain[k]
    <3>1. PICK ch \in Seq(Codes) : ch = top.chain
      BY <2>3
    <3>2. /\ Front(ch) \in Seq(Codes) /\ Len(ch) \in Nat /\ Len(ch) > 0 /\ Len(ch) # 1
          /\ Len(Front(ch)) = Len(ch) - 1
          /\ \A k \in 1 .. Len(ch) - 1 : Front(ch)[k] = ch[k]
      BY <1>6, <2>4, <3>1, Zenon
    <3>3. Front(ch) # <<>>
      BY <3>2
    <3>4. \A k \in 1 .. Len(Front(ch)) : k \in 1 .. Len(ch) /\ Front(ch)[k] = ch[k]
      BY <3>2
    <3> QED
      BY <3>1, <3>3, <3>4, Zenon
  <2>8. Descends(new)
    <3>0. Descends(top)
      BY <1>3 DEF CallOK
    <3>1. \A i, j \in 1 .. Len(top.chain) :
            i < j => \E a, b \in 1 .. Len(top.list) :
                       /\ a > b
                       /\ top.list[a] = top.chain[i]
                       /\ top.list[b] = top.chain[j]
      BY <3>0 DEF Descends
    <3> SUFFICES ASSUME NEW i \in 1 .. Len(new.chain), NEW j \in 1 .. Len(new.chain), i < j
                 PROVE  \E a, b \in 1 .. Len(new.list) :
                          /\ a > b
                          /\ new.list[a] = new.chain[i]
                          /\ new.list[b] = new.chain[j]
      BY DEF Descends
    <3>2. /\ i \in 1 .. Len(top.chain) /\ new.chain[i] = top.chain[i]
          /\ j \in 1 .. Len(top.chain) /\ new.chain[j] = top.chain[j]
      BY <2>5, <2>7
    <3>3. PICK a, b \in 1 .. Len(top.list) :
            a > b /\ top.list[a] = top.chain[i] /\ top.list[b] = top.chain[j]
      BY <3>1, <3>2
    <3> QED
      BY <2>5, <3>2, <3>3
  <2>9. CallOK(new)
    BY <1>3, <2>5, <2>6, <2>7, <2>8 DEF CallOK
  <2>10. /\ Append(Front(calls[c]), new) \in Seq(CallSet)
         /\ \A k \in 1 .. Len(Append(Front(calls[c]), new)) :
              CallOK(Append(Front(calls[c]), new)[k])
    BY <1>3, <2>5, <2>9
  <2> QED
    BY <1>2, <1>4, <2>2, <2>10, CallerStep
<1> QED
  BY <1>5, <1>6

-----------------------------------------------------------------------------
(* The theorems *)

\* Nothing is hooked at first.
LEMMA InitInv == Init => Inv
<1> SUFFICES ASSUME Init PROVE Inv
  OBVIOUS
<1>1. TypeOK
  <2>1. 1 \in 1 .. MaxId + 1 /\ 0 \in 0 .. MaxId
    BY BoundsAssumption
  <2> QED
    BY <2>1, CodeFacts DEF Init, TypeOK
<1>2. TypeInv
  <2>1. NoCall \in PendSet
    BY BoundsAssumption DEF NoCall, PendSet
  <2> QED
    BY <1>1, <2>1 DEF Init, TypeInv
<1>3. LockInv /\ MutInv
  BY NoOneAssumption DEF Init, LockInv, LockPCs, MutInv
<1>4. ListInv
  BY DEF Init, ListInv, Ids
<1>5. IndexInv /\ HookedInv /\ PendInv /\ CallInv /\ NoImpossibleAbort
  BY DEF Init, IndexInv, HookedInv, PendInv, CallInv, NoImpossibleAbort
<1> QED
  BY <1>2, <1>3, <1>4, <1>5 DEF Inv, TableInv

\* The first invariant is inductive.
LEMMA StepInv == Inv /\ [Next]_vars => Inv'
<1> SUFFICES ASSUME Inv, [Next]_vars PROVE Inv'
  OBVIOUS
<1>1. CASE UNCHANGED vars
  BY <1>1, ZenonT(40) DEF vars, Inv, TypeInv, TypeOK, TableInv, LockInv, ListInv, IndexInv, MutInv, HookedInv,
     PendInv, CallInv, NoImpossibleAbort
<1>2. ASSUME NEW m \in Mutators, NEW h \in Hooks, HookCall(m, h) \/ UnhookCall(m, h)
      PROVE  Inv'
  BY <1>2, HookCallStep, UnhookCallStep
<1>3. ASSUME NEW m \in Mutators, MutatorStep(m)
      PROVE  Inv'
  BY <1>3, VerifyStep, UnhookSlotStep, CheckStep, LockStep, AppendStep, RegisterStep, PatchStep,
     FailStep, AbortStep, ReturnStep, RestoreStep, ForgetStep DEF MutatorStep
<1>4. ASSUME NEW c \in Callers, NEW s \in Slots, CallOriginal(c, s) \/ CallTrampoline(c, s)
      PROVE  Inv'
  BY <1>4, CallOriginalStep, CallTrampolineStep
<1>5. ASSUME NEW c \in Callers, CallStep(c)
      PROVE  Inv'
  BY <1>5, PushStep, CallPrevStep, FunctionReturnStep DEF CallStep
<1> QED
  BY <1>1, <1>2, <1>3, <1>4, <1>5 DEF Next

\* The inductive invariant holds throughout hooking, unhooking and calling
\* (linker.cpp, hooks.cpp, trampoline.cpp).
THEOREM InvHolds == SafeSpec => []Inv
BY InitInv, StepInv, PTL DEF SafeSpec

\* The GOT, hooks_by_got_address, hooks_by_id and the threads' locals keep their
\* types.
THEOREM TypeCorrect == SafeSpec => []TypeOK
<1>1. Inv => TypeOK
  BY DEF Inv, TypeInv
<1> QED
  BY <1>1, InvHolds, PTL

\* The first invariant is strong enough for the index.
LEMMA InvGot == Inv => GotMatchesIndex
<1> SUFFICES ASSUME Inv PROVE GotMatchesIndex
  OBVIOUS
<1>1. ASSUME NEW i \in Ids, list[i] # <<>>
      PROVE  list[i][1] = Orig /\ \A k \in 2 .. Len(list[i]) : list[i][k] \in Hooks
  BY <1>1 DEF Inv, TableInv, ListInv, RunList
<1>2. ASSUME lock = NoOne, NEW s \in Slots, got[s] # Orig
      PROVE  byGot[s] = got[s] /\ Len(list[got[s]]) > 1
  <2>1. byGot[s] = got[s] /\ got[s] \in Codes
    BY <1>2 DEF Inv, TypeInv, TypeOK, TableInv, IndexInv
  <2>2. byGot[s] # 0
    BY <2>1, CodeFacts
  <2>3. \A m \in Mutators : mpc[m] \notin LockPCs
    BY <1>2, NoOneAssumption DEF Inv, TableInv, LockInv
  <2>4. Len(list[byGot[s]]) > 1
    BY <2>2, <2>3 DEF Inv, TableInv, HookedInv, LockPCs
  <2> QED
    BY <2>1, <2>4
<1> QED
  BY <1>1, <1>2 DEF GotMatchesIndex

\* Every run list ends in the original function with only hooks before it, and
\* while nobody holds g_got_modification_lock a slot that points to a trampoline
\* points to the one hooks_by_got_address names, with a hook to run
\* (patch_relocation_address_for_hook and unhook_single_lib).
THEOREM IndexCorrect == SafeSpec => []GotMatchesIndex
BY InvHolds, InvGot, PTL

\* push_hook_stack never finds an empty run list, CALL_PREV always finds the hook
\* that calls it and something before it, and unhooking never finds the run list
\* changed between REMOVED_TRIVIAL and the second hooks::remove: the aborts on
\* these conditions cannot happen, whatever hooks and unhooks a call races with.
THEOREM NeverImpossible == SafeSpec => []NoImpossibleAbort
<1>1. Inv => NoImpossibleAbort
  BY DEF Inv
<1> QED
  BY <1>1, InvHolds, PTL

-----------------------------------------------------------------------------
(* Every promised hook runs, if no hook is installed where it already is *)

HookPCs == {"next", "check", "lock", "append", "register", "patch"}

UnhookPCs == {"ulock", "unext", "restore", "forget"}

NoRepeat(l) == \A a, b \in 1 .. Len(l) : l[a] = l[b] => a = b

OnceInv == \A i \in Ids : NoRepeat(list[i])

\* A mutator that hooks is the only one that hooks with its function, and finds
\* it nowhere it has not been yet.
Ahead(m, s) == s \in mtodo[m] \/ (s = mslot[m] /\ mpc[m] \in {"check", "lock", "append", "register"})

FreshInv ==
  \A m \in Mutators : mpc[m] \in HookPCs =>
    /\ \A n \in Mutators : mpc[n] \in HookPCs /\ mhook[n] = mhook[m] => n = m
    /\ mpc[m] # "next" => mslot[m] \notin mtodo[m]
    /\ \A s \in Slots : byGot[s] # 0 /\ Ahead(m, s) => ~Contains(list[byGot[s]], mhook[m])
    /\ mpc[m] = "patch" => /\ Contains(list[byGot[mslot[m]]], mhook[m])
                           /\ \A h \in Hooks : <<mslot[m], h>> \notin promised

\* What was promised is still on the run list of the slot.
PromiseInv ==
  \A s \in Slots, h \in Hooks : <<s, h>> \in promised =>
    byGot[s] # 0 /\ Contains(list[byGot[s]], h) /\ ~Unhooking(h)

\* A registered slot points to its trampoline, or patching it has failed, or
\* somebody is between the registration and the patch.
PatchedInv ==
  \A s \in Slots : byGot[s] # 0 /\ s \notin failed =>
    \/ got[s] = byGot[s]
    \/ \E m \in Mutators : mpc[m] \in {"patch", "forget"} /\ mslot[m] = s

\* The hooks a call on its way to a trampoline must run are on its run list.
MustInv ==
  \A c \in Callers : pend[c] # NoCall => \A h \in pend[c].must :
    Contains(list[pend[c].id], h) /\ ~Unhooking(h)

\* A call walks down its copy of the run list, entry by entry.
WalkOK(call) ==
  /\ call.tls =>
       /\ NoRepeat(call.list) /\ Len(call.chain) <= Len(call.list)
       /\ \A i \in 1 .. Len(call.chain) : call.chain[i] = call.list[Len(call.list) + 1 - i]
       /\ \A h \in call.must : Contains(call.list, h)
  /\ ~call.tls /\ call.patched => call.must = {}

WalkInv == \A c \in Callers : \A k \in 1 .. Len(calls[c]) : WalkOK(calls[c][k])

RunInv == OnceInv /\ FreshInv /\ PromiseInv /\ PatchedInv /\ MustInv /\ WalkInv

\* What a list holds after an append.
LEMMA AppendHolds ==
  ASSUME NEW l \in Seq(Codes), NEW h \in Codes
  PROVE  /\ \A x : Contains(Append(l, h), x) <=> Contains(l, x) \/ x = h
         /\ NoRepeat(l) /\ ~Contains(l, h) => NoRepeat(Append(l, h))
<1>1. /\ Len(Append(l, h)) = Len(l) + 1 /\ Append(l, h)[Len(l) + 1] = h
      /\ Len(l) \in Nat /\ \A k \in 1 .. Len(l) : Append(l, h)[k] = l[k]
  OBVIOUS
<1>2. ASSUME NEW x PROVE Contains(Append(l, h), x) <=> Contains(l, x) \/ x = h
  BY <1>1 DEF Contains
<1>3. ASSUME NoRepeat(l), ~Contains(l, h) PROVE NoRepeat(Append(l, h))
  BY <1>1, <1>3 DEF NoRepeat, Contains
<1> QED
  BY <1>2, <1>3

\* What a list holds after a removal.
LEMMA RemovedHolds ==
  ASSUME NEW l \in Seq(Codes), NEW h, Contains(l, h)
  PROVE  /\ \A x : Contains(Removed(l, h), x) => Contains(l, x)
         /\ \A x : Contains(l, x) /\ x # h => Contains(Removed(l, h), x)
         /\ NoRepeat(l) => NoRepeat(Removed(l, h))
<1> DEFINE p == Position(l, h)
           r == Removed(l, h)
           n == Len(l)
<1>1. p \in 1 .. n /\ l[p] = h /\ n \in Nat
  BY PositionFacts
<1>2. /\ Len(r) = n - 1
      /\ \A k \in 1 .. n - 1 : r[k] = IF k < p THEN l[k] ELSE l[k + 1]
  BY RemovedFacts
<1>3. \A k \in 1 .. n - 1 : k \in 1 .. n /\ k + 1 \in 1 .. n
  BY <1>1
<1> HIDE DEF p, r, n
<1>4. ASSUME NEW x, Contains(r, x) PROVE Contains(l, x)
  <2>1. PICK k \in 1 .. n - 1 : r[k] = x
    BY <1>2, <1>4 DEF Contains
  <2> QED
    BY <1>2, <1>3, <2>1 DEF Contains, n
<1>5. ASSUME NEW x, Contains(l, x), x # h PROVE Contains(r, x)
  <2>1. PICK k \in 1 .. n : l[k] = x
    BY <1>5 DEF Contains, n
  <2>2. CASE k < p
    <3>1. k \in 1 .. n - 1
      BY <1>1, <2>2
    <3> QED
      BY <1>2, <2>1, <2>2, <3>1 DEF Contains
  <2>3. CASE ~(k < p)
    <3>1. k # p
      BY <1>1, <1>5, <2>1
    <3>2. k - 1 \in 1 .. n - 1 /\ ~(k - 1 < p) /\ k - 1 + 1 = k
      BY <1>1, <2>3, <3>1
    <3> QED
      BY <1>2, <2>1, <3>2 DEF Contains
  <2> QED
    BY <2>2, <2>3
<1>6. ASSUME NoRepeat(l), NEW a \in 1 .. n - 1, NEW b \in 1 .. n - 1, r[a] = r[b] PROVE a = b
  <2>1. PICK c \in 1 .. n : l[c] = r[a] /\ c = IF a < p THEN a ELSE a + 1
    BY <1>2, <1>3
  <2>2. PICK d \in 1 .. n : l[d] = r[b] /\ d = IF b < p THEN b ELSE b + 1
    BY <1>2, <1>3
  <2>3. c = d
    BY <1>6, <2>1, <2>2 DEF NoRepeat, n
  <2> QED
    BY <1>1, <2>1, <2>2, <2>3
<1> QED
  BY <1>2, <1>4, <1>5, <1>6 DEF NoRepeat, r

\* A new run list holds the original and the hook, each once.
LEMMA ShortLists ==
  ASSUME NEW h \in Hooks
  PROVE  /\ NoRepeat(<<Orig, h>>) /\ Contains(<<Orig, h>>, h)
         /\ \A x : Contains(<<Orig, h>>, x) => x = Orig \/ x = h
BY CodeFacts DEF NoRepeat, Contains

\* A run list of one element is the original.
LEMMA OnlyOrig ==
  ASSUME NEW l, RunList(l), Len(l) = 1, NEW h \in Hooks
  PROVE  ~Contains(l, h)
BY CodeFacts DEF RunList, Contains

\* The run list of a registered slot repeats nothing.
LEMMA RegisteredOnce ==
  ASSUME Inv, RunInv, NEW s \in Slots, byGot[s] # 0
  PROVE  NoRepeat(list[byGot[s]])
BY HookedList DEF RunInv, OnceInv

-----------------------------------------------------------------------------

\* A step of mutator m that leaves the tables alone.
LEMMA RunQuiet ==
  ASSUME Inv, RunInv, UNCHANGED <<table, callVars, history>>, FreshInv',
         \A h \in Hooks : Unhooking(h)' => Unhooking(h),
         \A n \in Mutators : mpc[n] \in {"patch", "forget"} =>
           mpc'[n] = mpc[n] /\ mslot'[n] = mslot[n]
  PROVE  RunInv'
<1>1. OnceInv' /\ WalkInv'
  BY DEF RunInv, OnceInv, WalkInv
<1>2. PromiseInv'
  BY DEF RunInv, PromiseInv
<1>3. PatchedInv'
  BY DEF RunInv, PatchedInv
<1>4. MustInv'
  <2>1. ASSUME NEW c \in Callers, NEW h \in pend[c].must PROVE h \in Hooks
    BY DEF Inv, TypeInv, PendSet
  <2> QED
    BY <2>1 DEF RunInv, MustInv
<1> QED
  BY <1>1, <1>2, <1>3, <1>4 DEF RunInv

\* ... in which m stays where it is or goes on with what it is at.
LEMMA FreshQuiet ==
  ASSUME Inv, RunInv, NEW m \in Mutators, UNCHANGED <<table, promised>>,
         \A n \in Mutators \ {m} : /\ mpc'[n] = mpc[n] /\ mhook'[n] = mhook[n]
                                   /\ mslot'[n] = mslot[n] /\ mtodo'[n] = mtodo[n],
         mpc'[m] \in HookPCs => /\ mpc[m] \in HookPCs /\ mhook'[m] = mhook[m]
                                /\ mpc'[m] # "next" => mslot'[m] \notin mtodo'[m]
                                /\ \A s \in Slots : Ahead(m, s)' => Ahead(m, s)
                                /\ mpc'[m] = "patch" => mpc[m] = "patch" /\ mslot'[m] = mslot[m]
  PROVE  FreshInv'
<1>1. ASSUME NEW n \in Mutators, mpc'[n] \in HookPCs
      PROVE  mpc[n] \in HookPCs /\ mhook'[n] = mhook[n]
  BY <1>1
<1>2. ASSUME NEW n \in Mutators, mpc'[n] \in HookPCs, NEW o \in Mutators, mpc'[o] \in HookPCs,
             mhook'[o] = mhook'[n]
      PROVE  o = n
  BY <1>1, <1>2 DEF RunInv, FreshInv
<1>3. ASSUME NEW n \in Mutators \ {m}, NEW s \in Slots, Ahead(n, s)'
      PROVE  Ahead(n, s)
  BY <1>3 DEF Ahead
<1>4. ASSUME NEW n \in Mutators, mpc'[n] \in HookPCs, NEW s \in Slots, byGot[s] # 0, Ahead(n, s)'
      PROVE  ~Contains(list[byGot[s]], mhook'[n])
  BY <1>1, <1>3, <1>4 DEF RunInv, FreshInv
<1>5. ASSUME NEW n \in Mutators, mpc'[n] \in HookPCs
      PROVE  /\ mpc'[n] # "next" => mslot'[n] \notin mtodo'[n]
             /\ mpc'[n] = "patch" => /\ Contains(list[byGot[mslot'[n]]], mhook'[n])
                                     /\ \A h \in Hooks : <<mslot'[n], h>> \notin promised
  BY <1>1, <1>5 DEF RunInv, FreshInv
<1> QED
  BY <1>2, <1>4, <1>5 DEF FreshInv

\* Hooking begins, with a hook that is not hooked yet.
LEMMA RunHookCall ==
  ASSUME Inv, RunInv, ~Repeats, NEW m \in Mutators, NEW h \in Hooks, HookCall(m, h)
  PROVE  RunInv'
<1>0. /\ mpc[m] = "idle" /\ mpc'[m] = "next" /\ mhook'[m] = h /\ Fresh(h)
      /\ UNCHANGED <<table, lock, mslot, callVars, dead, history>>
      /\ \A n \in Mutators \ {m} : mpc'[n] = mpc[n] /\ mhook'[n] = mhook[n] /\ mtodo'[n] = mtodo[n]
  BY DEF HookCall, At, Goto, Inv, TypeInv, TypeOK
<1>1. ASSUME NEW n \in Mutators, mpc'[n] \in HookPCs, NEW o \in Mutators, mpc'[o] \in HookPCs,
             mhook'[o] = mhook'[n]
      PROVE  o = n
  <2>1. \A q \in Mutators \ {m} : mpc'[q] \in HookPCs => mhook'[q] # h
    BY <1>0 DEF Fresh, HookPCs
  <2>2. CASE n # m /\ o # m
    BY <1>0, <1>1, <2>2 DEF RunInv, FreshInv
  <2> QED
    BY <1>0, <1>1, <2>1, <2>2
<1>2. ASSUME NEW n \in Mutators, mpc'[n] \in HookPCs, NEW s \in Slots, byGot[s] # 0, Ahead(n, s)'
      PROVE  ~Contains(list[byGot[s]], mhook'[n])
  <2>1. CASE n = m
    BY <1>0, <1>2, <2>1 DEF Fresh, is_hooked
  <2>2. CASE n # m
    BY <1>0, <1>2, <2>2 DEF RunInv, FreshInv, Ahead
  <2> QED
    BY <2>1, <2>2
<1>3. ASSUME NEW n \in Mutators, mpc'[n] \in HookPCs
      PROVE  /\ mpc'[n] # "next" => mslot'[n] \notin mtodo'[n]
             /\ mpc'[n] = "patch" => /\ Contains(list[byGot[mslot'[n]]], mhook'[n])
                                     /\ \A g \in Hooks : <<mslot'[n], g>> \notin promised
  BY <1>0, <1>3 DEF RunInv, FreshInv
<1>4. FreshInv'
  BY <1>0, <1>1, <1>2, <1>3 DEF FreshInv
<1>5. \A g \in Hooks : Unhooking(g)' => Unhooking(g)
  BY <1>0 DEF Unhooking
<1> QED
  BY <1>0, <1>4, <1>5, RunQuiet

\* Steps that change neither lists nor slots nor promises.
LEMMA RunQuietSteps ==
  ASSUME Inv, RunInv, NEW m \in Mutators,
         \/ \E s \in Slots : HookVerify(m, s)
         \/ HookCheck(m) \/ HookLock(m) \/ HookReturn(m) \/ PatchAbort(m)
         \/ UnhookLock(m) \/ UnhookRestoreFail(m) \/ UnhookReturn(m)
  PROVE  RunInv'
<1> DEFINE Others == \A n \in Mutators \ {m} : /\ mpc'[n] = mpc[n] /\ mhook'[n] = mhook[n]
                                               /\ mslot'[n] = mslot[n] /\ mtodo'[n] = mtodo[n]
<1> USE DEF At, Goto
<1>1. ASSUME NEW s \in Slots, HookVerify(m, s) PROVE RunInv'
  <2>0. /\ mpc[m] = "next" /\ mpc'[m] \in {"lock", "check"} /\ s \in mtodo[m]
        /\ mtodo'[m] = mtodo[m] \ {s} /\ mslot'[m] = s /\ mhook'[m] = mhook[m] /\ Others
        /\ UNCHANGED <<table, lock, mhook, callVars, dead, history>>
    BY <1>1 DEF HookVerify, Inv, TypeInv, TypeOK
  <2>1. \A u \in Slots : Ahead(m, u)' => Ahead(m, u)
    BY <2>0 DEF Ahead
  <2>2. FreshInv'
    BY <2>0, <2>1, FreshQuiet DEF HookPCs
  <2>3. \A h \in Hooks : Unhooking(h)' => Unhooking(h)
    BY <2>0 DEF Unhooking
  <2> QED
    BY <2>0, <2>2, <2>3, RunQuiet
<1>2. ASSUME HookCheck(m) \/ HookLock(m) PROVE RunInv'
  <2>0. /\ UNCHANGED <<table, mhook, mtodo, mslot, callVars, dead, history>>
        /\ \/ mpc[m] = "check" /\ mpc'[m] \in {"lock", "next"}
           \/ mpc[m] = "lock" /\ mpc'[m] \in {"append", "register"}
        /\ Others
    BY <1>2 DEF HookCheck, HookLock, Inv, TypeInv, TypeOK
  <2>1. \A u \in Slots : Ahead(m, u)' => Ahead(m, u)
    BY <2>0 DEF Ahead
  <2>2. mslot[m] \notin mtodo[m]
    BY <2>0 DEF RunInv, FreshInv, HookPCs
  <2>3. FreshInv'
    BY <2>0, <2>1, <2>2, FreshQuiet DEF HookPCs
  <2>4. \A h \in Hooks : Unhooking(h)' => Unhooking(h)
    BY <2>0 DEF Unhooking
  <2> QED
    BY <2>0, <2>3, <2>4, RunQuiet
<1>3. ASSUME HookReturn(m) \/ UnhookReturn(m) PROVE RunInv'
  <2>0. /\ mpc[m] \in {"next", "unext"} /\ Return(m)
        /\ UNCHANGED <<table, callVars, dead, history>>
    BY <1>3 DEF HookReturn, UnhookReturn
  <2>1. mpc'[m] = "idle" /\ Others
    BY <2>0 DEF Return, Inv, TypeInv, TypeOK
  <2>2. FreshInv'
    BY <2>0, <2>1, FreshQuiet DEF HookPCs
  <2>3. \A h \in Hooks : Unhooking(h)' => Unhooking(h)
    BY <2>0, <2>1 DEF Unhooking
  <2> QED
    BY <2>0, <2>1, <2>2, <2>3, RunQuiet
<1>4. ASSUME PatchAbort(m) \/ UnhookRestoreFail(m) PROVE RunInv'
  <2>0. UNCHANGED <<table, mutVars, callVars, history>>
    BY <1>4 DEF PatchAbort, UnhookRestoreFail
  <2>2. FreshInv'
    BY <2>0 DEF RunInv, FreshInv, Ahead
  <2>3. \A h \in Hooks : Unhooking(h)' => Unhooking(h)
    BY <2>0 DEF Unhooking
  <2> QED
    BY <2>0, <2>2, <2>3, RunQuiet
<1>5. ASSUME UnhookLock(m) PROVE RunInv'
  <2>0. /\ UNCHANGED <<table, mhook, mtodo, mslot, callVars, dead, history>>
        /\ mpc[m] = "ulock" /\ mpc'[m] = "unext" /\ Others
    BY <1>5 DEF UnhookLock, Inv, TypeInv, TypeOK
  <2>2. FreshInv'
    BY <2>0, FreshQuiet DEF HookPCs
  <2>3. \A h \in Hooks : Unhooking(h)' => Unhooking(h)
    BY <2>0 DEF Unhooking
  <2> QED
    BY <2>0, <2>2, <2>3, RunQuiet
<1> QED
  BY <1>1, <1>2, <1>3, <1>4, <1>5

\* unhook_single_lib begins: nobody is promised h any more.
LEMMA RunUnhookCall ==
  ASSUME Inv, RunInv, NEW m \in Mutators, NEW h \in Hooks, UnhookCall(m, h)
  PROVE  RunInv'
<1>0. /\ mpc[m] = "idle" /\ mpc'[m] = "ulock" /\ mhook'[m] = h
      /\ UNCHANGED <<table, lock, mslot, calls, dead, failed>>
      /\ \A n \in Mutators \ {m} : mpc'[n] = mpc[n] /\ mhook'[n] = mhook[n] /\ mtodo'[n] = mtodo[n]
      /\ promised' = {p \in promised : p[2] # h}
  BY DEF UnhookCall, At, Goto, Inv, TypeInv, TypeOK
<1>1. \A g \in Hooks : Unhooking(g)' => Unhooking(g) \/ g = h
  BY <1>0 DEF Unhooking
<1>2. OnceInv' /\ WalkInv'
  BY <1>0 DEF RunInv, OnceInv, WalkInv
<1>3. PatchedInv'
  BY <1>0 DEF RunInv, PatchedInv
<1>4. \A s, g : <<s, g>> \in promised' => <<s, g>> \in promised /\ g # h
  BY <1>0
<1>5. PromiseInv'
  BY <1>0, <1>1, <1>4 DEF RunInv, PromiseInv
<1>6. FreshInv'
  <2> SUFFICES ASSUME NEW n \in Mutators, mpc'[n] \in HookPCs
               PROVE  /\ \A o \in Mutators : mpc'[o] \in HookPCs /\ mhook'[o] = mhook'[n] => o = n
                      /\ mpc'[n] # "next" => mslot'[n] \notin mtodo'[n]
                      /\ \A s \in Slots : byGot[s] # 0 /\ Ahead(n, s)' => ~Contains(list[byGot[s]], mhook'[n])
                      /\ mpc'[n] = "patch" => /\ Contains(list[byGot[mslot'[n]]], mhook'[n])
                                              /\ \A g \in Hooks : <<mslot'[n], g>> \notin promised'
    BY <1>0 DEF FreshInv
  <2>1. n # m /\ mpc[n] \in HookPCs /\ mpc'[n] = mpc[n] /\ mhook'[n] = mhook[n]
        /\ mtodo'[n] = mtodo[n] /\ mslot'[n] = mslot[n]
    BY <1>0 DEF HookPCs
  <2>2. \A o \in Mutators : mpc'[o] \in HookPCs /\ mhook'[o] = mhook'[n] => o = n
    BY <1>0, <2>1 DEF RunInv, FreshInv, HookPCs
  <2>3. \A s \in Slots : Ahead(n, s)' => Ahead(n, s)
    BY <2>1 DEF Ahead
  <2> QED
    BY <1>4, <2>1, <2>2, <2>3 DEF RunInv, FreshInv
<1>7. MustInv'
  <2> SUFFICES ASSUME NEW c \in Callers, pend'[c] # NoCall, NEW g \in pend'[c].must
               PROVE  Contains(list[pend'[c].id], g) /\ ~Unhooking(g)'
    BY <1>0 DEF MustInv
  <2>1. pend[c] \in PendSet /\ pend'[c] = [pend[c] EXCEPT !.must = @ \ {h}]
    BY DEF UnhookCall, Inv, TypeInv
  <2>2. pend'[c].id = pend[c].id /\ g \in pend[c].must /\ g # h /\ g \in Hooks
    BY <2>1 DEF PendSet
  <2>3. pend[c] # NoCall
    BY <2>2 DEF NoCall
  <2> QED
    BY <1>1, <2>2, <2>3 DEF RunInv, MustInv
<1> QED
  BY <1>2, <1>3, <1>5, <1>6, <1>7 DEF RunInv

-----------------------------------------------------------------------------
(* Steps that hold g_got_modification_lock *)

\* Nobody else has a slot half registered.
LEMMA OthersOut ==
  ASSUME Inv, NEW m \in Mutators, mpc[m] \in LockPCs, NEW n \in Mutators, n # m
  PROVE  mpc[n] \notin {"append", "register", "patch", "unext", "restore", "forget"}
BY DEF Inv, TableInv, LockInv, LockPCs

\* A failed patch promises nothing.
LEMMA RunPatchFail ==
  ASSUME Inv, RunInv, NEW m \in Mutators, HookPatchFail(m)
  PROVE  RunInv'
<1>0. /\ mpc[m] = "patch" /\ UNCHANGED <<table, callVars, dead, promised>>
      /\ failed' = failed \cup {mslot[m]}
      /\ mpc'[m] \in {"next", "idle"}
      /\ mpc'[m] = "next" => mhook'[m] = mhook[m] /\ mtodo'[m] = mtodo[m]
      /\ \A n \in Mutators \ {m} : /\ mpc'[n] = mpc[n] /\ mhook'[n] = mhook[n]
                                   /\ mslot'[n] = mslot[n] /\ mtodo'[n] = mtodo[n]
  <2>1. CASE Goto(m, "next") /\ UNCHANGED <<mhook, mtodo, mslot>>
    BY <2>1 DEF HookPatchFail, At, Goto, Inv, TypeInv, TypeOK
  <2>2. CASE Return(m)
    BY <2>2 DEF HookPatchFail, At, Return, Goto, Inv, TypeInv, TypeOK
  <2> QED
    BY <2>1, <2>2 DEF HookPatchFail
<1>1. FreshInv'
  <2>1. mpc'[m] \in HookPCs => \A s \in Slots : Ahead(m, s)' => Ahead(m, s)
    BY <1>0 DEF Ahead, HookPCs
  <2> QED
    BY <1>0, <2>1, FreshQuiet DEF HookPCs
<1>2. \A h \in Hooks : Unhooking(h)' => Unhooking(h)
  BY <1>0 DEF Unhooking
<1>3. OnceInv' /\ WalkInv'
  BY <1>0 DEF RunInv, OnceInv, WalkInv
<1>4. PromiseInv'
  BY <1>0, <1>2 DEF RunInv, PromiseInv
<1>5. PatchedInv'
  BY <1>0 DEF RunInv, PatchedInv
<1>6. MustInv'
  <2>1. ASSUME NEW c \in Callers, NEW h \in pend[c].must PROVE h \in Hooks
    BY DEF Inv, TypeInv, PendSet
  <2> QED
    BY <1>0, <1>2, <2>1 DEF RunInv, MustInv
<1> QED
  BY <1>1, <1>3, <1>4, <1>5, <1>6 DEF RunInv

\* What a step of m must keep that changes run lists.
LEMMA RunLists ==
  ASSUME Inv, RunInv, UNCHANGED callVars,
         \A h \in Hooks : Unhooking(h)' => Unhooking(h),
         \A i \in Ids, h \in Hooks : i < nextId /\ Contains(list[i], h) /\ ~Unhooking(h) => Contains(list'[i], h),
         OnceInv', FreshInv', PromiseInv', PatchedInv'
  PROVE  RunInv'
<1>1. WalkInv'
  BY DEF RunInv, WalkInv
<1>2. MustInv'
  <2> SUFFICES ASSUME NEW c \in Callers, pend[c] # NoCall, NEW h \in pend[c].must
               PROVE  Contains(list'[pend[c].id], h) /\ ~Unhooking(h)'
    BY DEF MustInv
  <2>1. h \in Hooks
    BY DEF Inv, TypeInv, PendSet
  <2>2. Contains(list[pend[c].id], h) /\ ~Unhooking(h)
    BY DEF RunInv, MustInv
  <2>3. pend[c].id \in 1 .. nextId - 1
    BY DEF Inv, PendInv
  <2>4. nextId \in 1 .. MaxId + 1
    BY DEF Inv, TypeInv, TypeOK
  <2>5. pend[c].id \in Ids /\ pend[c].id < nextId
    BY <2>3, <2>4, BoundsAssumption DEF Ids
  <2> QED
    BY <2>1, <2>2, <2>5
<1> QED
  BY <1>1, <1>2 DEF RunInv

\* A step of m inside the lock disturbs no other mutator.
LEMMA FreshLocked ==
  ASSUME Inv, RunInv, NEW m \in Mutators, mpc[m] \in LockPCs,
         \A n \in Mutators \ {m} : /\ mpc'[n] = mpc[n] /\ mhook'[n] = mhook[n]
                                   /\ mslot'[n] = mslot[n] /\ mtodo'[n] = mtodo[n],
         \A s \in Slots, x \in Hooks :
           byGot'[s] # 0 /\ Contains(list'[byGot'[s]], x) =>
             \/ x = mhook[m] /\ mpc[m] \in HookPCs
             \/ byGot[s] # 0 /\ Contains(list[byGot[s]], x),
         mpc'[m] \in HookPCs =>
           /\ mpc[m] \in HookPCs /\ mhook'[m] = mhook[m]
           /\ mpc'[m] # "next" => mslot'[m] \notin mtodo'[m]
           /\ \A s \in Slots : byGot'[s] # 0 /\ Ahead(m, s)' => ~Contains(list'[byGot'[s]], mhook'[m])
           /\ mpc'[m] = "patch" => /\ Contains(list'[byGot'[mslot'[m]]], mhook'[m])
                                   /\ \A h \in Hooks : <<mslot'[m], h>> \notin promised'
  PROVE  FreshInv'
<1>1. ASSUME NEW n \in Mutators, mpc'[n] \in HookPCs
      PROVE  mpc[n] \in HookPCs /\ mhook'[n] = mhook[n] /\ mhook[n] \in Hooks
  BY <1>1 DEF Inv, TableInv, MutInv, HookPCs
<1>2. ASSUME NEW n \in Mutators, mpc'[n] \in HookPCs, NEW o \in Mutators, mpc'[o] \in HookPCs,
             mhook'[o] = mhook'[n]
      PROVE  o = n
  BY <1>1, <1>2 DEF RunInv, FreshInv
<1>3. ASSUME NEW n \in Mutators \ {m}, mpc'[n] \in HookPCs, NEW s \in Slots, byGot'[s] # 0, Ahead(n, s)'
      PROVE  ~Contains(list'[byGot'[s]], mhook'[n])
  <2>1. Ahead(n, s)
    BY <1>3 DEF Ahead
  <2>2. ~(byGot[s] # 0 /\ Contains(list[byGot[s]], mhook[n]))
    BY <1>1, <1>3, <2>1 DEF RunInv, FreshInv
  <2>3. ~(mhook[n] = mhook[m] /\ mpc[m] \in HookPCs)
    BY <1>1, <1>3 DEF RunInv, FreshInv
  <2> QED
    BY <1>1, <1>3, <2>2, <2>3
<1>4. ASSUME NEW n \in Mutators \ {m}, mpc'[n] \in HookPCs
      PROVE  mpc'[n] # "patch" /\ (mpc'[n] # "next" => mslot'[n] \notin mtodo'[n])
  BY <1>1, <1>4, OthersOut DEF RunInv, FreshInv
<1> QED
  BY <1>2, <1>3, <1>4 DEF FreshInv

\* What has been promised when hooking the slot of m has succeeded.
LEMMA PromisedThen ==
  ASSUME Inv, RunInv, NEW m \in Mutators, Promise(m), mslot[m] \in Slots, mhook[m] \in Hooks,
         NEW s \in Slots, NEW h \in Hooks, <<s, h>> \in promised'
  PROVE  \/ <<s, h>> \in promised
         \/ s = mslot[m] /\ h = mhook[m] /\ ~Unhooking(h)
BY DEF Promise

\* An append promises the hook where the slot is patched.
LEMMA RunAppend ==
  ASSUME Inv, RunInv, NEW m \in Mutators, HookAppend(m)
  PROVE  RunInv'
<1> DEFINE s == mslot[m]
           id == byGot[s]
<1>0. /\ mpc[m] = "append" /\ s \in Slots /\ id # 0 /\ mhook[m] \in Hooks
      /\ list' = [list EXCEPT ![id] = Append(list[id], mhook[m])] /\ Promise(m)
      /\ mpc' = [mpc EXCEPT ![m] = "next"]
      /\ UNCHANGED <<got, byGot, nextId, mhook, mtodo, mslot, callVars, dead, failed>>
  BY DEF HookAppend, At, Goto, Inv, TableInv, MutInv
<1>1. id \in Ids /\ list[id] \in Seq(Codes) /\ NoRepeat(list[id])
  BY <1>0, HookedList, RegisteredOnce
<1>2. ~Contains(list[id], mhook[m]) /\ s \notin mtodo[m]
  BY <1>0 DEF RunInv, FreshInv, HookPCs, Ahead
<1>t. \A t \in Slots : byGot[t] # 0 => byGot[t] \in Ids /\ (byGot[t] = id => t = s)
  BY <1>0, HookedList DEF Inv, TableInv, IndexInv
<1> HIDE DEF id
<1>3. /\ list'[id] = Append(list[id], mhook[m]) /\ \A i \in Ids \ {id} : list'[i] = list[i]
      /\ mpc'[m] = "next" /\ \A n \in Mutators \ {m} : mpc'[n] = mpc[n]
  BY <1>0, <1>1 DEF Inv, TypeInv, TypeOK
<1>4. /\ \A x : Contains(list'[id], x) <=> Contains(list[id], x) \/ x = mhook[m]
      /\ NoRepeat(list'[id])
  BY <1>0, <1>1, <1>2, <1>3, AppendHolds, CodeFacts
<1>5. \A i \in Ids : \A x : Contains(list[i], x) => Contains(list'[i], x)
  BY <1>3, <1>4
<1>6. OnceInv'
  BY <1>3, <1>4 DEF RunInv, OnceInv
<1>7. \A h \in Hooks : Unhooking(h)' => Unhooking(h)
  BY <1>0, <1>3 DEF Unhooking
<1>8. FreshInv'
  <2>1. \A t \in Slots, x \in Hooks : byGot'[t] # 0 /\ Contains(list'[byGot'[t]], x) =>
          x = mhook[m] \/ (byGot[t] # 0 /\ Contains(list[byGot[t]], x))
    BY <1>0, <1>3, <1>4, <1>t
  <2>2. ASSUME NEW t \in Slots, byGot[t] # 0, Ahead(m, t)'
        PROVE  ~Contains(list'[byGot[t]], mhook[m])
    <3>1. t \in mtodo[m]
      BY <1>0, <1>3, <2>2 DEF Ahead
    <3>2. t # s /\ ~Contains(list[byGot[t]], mhook[m])
      BY <1>0, <1>2, <2>2, <3>1 DEF RunInv, FreshInv, HookPCs, Ahead
    <3> QED
      BY <1>3, <1>t, <2>2, <3>2
  <2> QED
    BY <1>0, <1>3, <2>1, <2>2, FreshLocked DEF HookPCs, LockPCs
<1>9. PromiseInv'
  <2> SUFFICES ASSUME NEW t \in Slots, NEW h \in Hooks, <<t, h>> \in promised'
               PROVE  byGot[t] # 0 /\ Contains(list'[byGot[t]], h) /\ ~Unhooking(h)'
    BY <1>0 DEF PromiseInv
  <2>1. CASE <<t, h>> \in promised
    <3>1. byGot[t] # 0 /\ Contains(list[byGot[t]], h) /\ ~Unhooking(h)
      BY <2>1 DEF RunInv, PromiseInv
    <3> QED
      BY <1>5, <1>7, <1>t, <3>1
  <2>2. CASE t = s /\ h = mhook[m] /\ ~Unhooking(h)
    BY <1>0, <1>4, <1>7, <2>2 DEF id
  <2> QED
    BY <1>0, <2>1, <2>2, PromisedThen
<1>10. PatchedInv'
  BY <1>0, <1>3 DEF RunInv, PatchedInv
<1> QED
  BY <1>0, <1>5, <1>6, <1>7, <1>8, <1>9, <1>10, RunLists

\* A new list promises nothing before the slot is patched.
LEMMA RunRegister ==
  ASSUME Inv, RunInv, NEW m \in Mutators, HookRegister(m)
  PROVE  RunInv'
<1> DEFINE s == mslot[m]
           new == <<got[s], mhook[m]>>
<1>0. /\ mpc[m] = "register" /\ s \in Slots /\ byGot[s] = 0 /\ mhook[m] \in Hooks
      /\ nextId \in Ids
      /\ byGot' = [byGot EXCEPT ![s] = nextId] /\ list' = [list EXCEPT ![nextId] = new]
      /\ mpc' = [mpc EXCEPT ![m] = "patch"]
      /\ UNCHANGED <<got, lock, mhook, mtodo, mslot, callVars, dead, history>>
  BY DEF HookRegister, At, Goto, Inv, TableInv, MutInv
<1>1. got[s] = Orig
  <2>1. got[s] \in Codes
    BY <1>0 DEF Inv, TypeInv, TypeOK
  <2> QED
    BY <1>0, <2>1, CodeFacts DEF Inv, TableInv, IndexInv
<1>2. /\ NoRepeat(new) /\ Contains(new, mhook[m])
      /\ \A x \in Hooks : Contains(new, x) => x = mhook[m]
  BY <1>0, <1>1, ShortLists, CodeFacts
<1>n. nextId # 0 /\ \A t \in Slots : byGot[t] # 0 => byGot[t] \in Ids \ {nextId}
  <2>1. \A t \in Slots : byGot[t] # 0 => byGot[t] \in Ids /\ byGot[t] < nextId
    BY HookedList
  <2> QED
    BY <1>0, <2>1, BoundsAssumption DEF Ids
<1>m. s \notin mtodo[m]
  BY <1>0 DEF RunInv, FreshInv, HookPCs
<1> HIDE DEF s, new
<1>3. /\ list'[nextId] = new /\ \A i \in Ids \ {nextId} : list'[i] = list[i]
      /\ byGot'[s] = nextId /\ \A t \in Slots \ {s} : byGot'[t] = byGot[t]
      /\ mpc'[m] = "patch" /\ \A n \in Mutators \ {m} : mpc'[n] = mpc[n]
  BY <1>0 DEF Inv, TypeInv, TypeOK
<1>4. \A t \in Slots \ {s} : byGot[t] # 0 => list'[byGot'[t]] = list[byGot[t]]
  BY <1>3, <1>n
<1>5. \A i \in Ids : i < nextId => list'[i] = list[i]
  <2>1. \A i \in Ids : i < nextId => i # nextId
    BY <1>0, BoundsAssumption DEF Ids
  <2> QED
    BY <1>3, <2>1
<1>6. OnceInv'
  BY <1>2, <1>3 DEF RunInv, OnceInv
<1>7. \A h \in Hooks : Unhooking(h)' => Unhooking(h)
  BY <1>0, <1>3 DEF Unhooking
<1>p. \A h \in Hooks : <<s, h>> \notin promised
  BY <1>0 DEF RunInv, PromiseInv
<1>8. FreshInv'
  <2>1. \A t \in Slots, x \in Hooks : byGot'[t] # 0 /\ Contains(list'[byGot'[t]], x) =>
          x = mhook[m] \/ (byGot[t] # 0 /\ Contains(list[byGot[t]], x))
    BY <1>2, <1>3, <1>4
  <2>2. ASSUME NEW t \in Slots, byGot'[t] # 0, Ahead(m, t)'
        PROVE  ~Contains(list'[byGot'[t]], mhook[m])
    <3>1. t \in mtodo[m] /\ t # s
      BY <1>0, <1>3, <1>m, <2>2 DEF Ahead
    <3>2. byGot[t] # 0 /\ ~Contains(list[byGot[t]], mhook[m])
      BY <1>0, <1>3, <2>2, <3>1 DEF RunInv, FreshInv, HookPCs, Ahead
    <3> QED
      BY <1>4, <3>1, <3>2
  <2>3. mslot'[m] = s /\ Contains(list'[byGot'[s]], mhook[m])
    BY <1>0, <1>2, <1>3 DEF s
  <2> QED
    BY <1>0, <1>3, <1>m, <1>p, <2>1, <2>2, <2>3, FreshLocked DEF HookPCs, LockPCs
<1>9. PromiseInv'
  <2> SUFFICES ASSUME NEW t \in Slots, NEW h \in Hooks, <<t, h>> \in promised
               PROVE  byGot'[t] # 0 /\ Contains(list'[byGot'[t]], h) /\ ~Unhooking(h)'
    BY <1>0 DEF PromiseInv
  <2>1. t # s /\ byGot[t] # 0 /\ Contains(list[byGot[t]], h) /\ ~Unhooking(h)
    BY <1>p DEF RunInv, PromiseInv
  <2> QED
    BY <1>3, <1>4, <1>7, <2>1
<1>10. PatchedInv'
  <2> SUFFICES ASSUME NEW t \in Slots, byGot'[t] # 0, t \notin failed
               PROVE  got[t] = byGot'[t] \/ \E n \in Mutators : mpc'[n] \in {"patch", "forget"} /\ mslot[n] = t
    BY <1>0 DEF PatchedInv
  <2>1. CASE t = s
    BY <1>3, <2>1 DEF s
  <2>2. CASE t # s
    BY <1>0, <1>3, <2>2, OthersOut DEF RunInv, PatchedInv
  <2> QED
    BY <2>1, <2>2
<1> QED
  BY <1>0, <1>5, <1>6, <1>7, <1>8, <1>9, <1>10, RunLists

\* The patch makes the promise.
LEMMA RunPatch ==
  ASSUME Inv, RunInv, NEW m \in Mutators, HookPatch(m)
  PROVE  RunInv'
<1> DEFINE s == mslot[m]
<1>0. /\ mpc[m] = "patch" /\ s \in Slots /\ byGot[s] # 0 /\ mhook[m] \in Hooks
      /\ got' = [got EXCEPT ![s] = byGot[s]] /\ Promise(m)
      /\ mpc' = [mpc EXCEPT ![m] = "next"]
      /\ UNCHANGED <<byGot, list, nextId, mhook, mtodo, mslot, callVars, dead, failed>>
  BY DEF HookPatch, At, Goto, Inv, TableInv, MutInv
<1>1. Contains(list[byGot[s]], mhook[m])
  BY <1>0 DEF RunInv, FreshInv, HookPCs
<1> HIDE DEF s
<1>2. /\ got'[s] = byGot[s] /\ \A t \in Slots \ {s} : got'[t] = got[t]
      /\ mpc'[m] = "next" /\ \A n \in Mutators \ {m} : mpc'[n] = mpc[n]
  BY <1>0 DEF Inv, TypeInv, TypeOK
<1>3. \A h \in Hooks : Unhooking(h)' => Unhooking(h)
  BY <1>0, <1>2 DEF Unhooking
<1>4. OnceInv'
  BY <1>0 DEF RunInv, OnceInv
<1>5. FreshInv'
  <2>1. \A t \in Slots : Ahead(m, t)' => Ahead(m, t)
    BY <1>0, <1>2 DEF Ahead
  <2>2. \A t \in Slots : byGot[t] # 0 /\ Ahead(m, t)' => ~Contains(list[byGot[t]], mhook[m])
    BY <1>0, <2>1 DEF RunInv, FreshInv, HookPCs
  <2> QED
    BY <1>0, <1>2, <2>2, FreshLocked DEF HookPCs, LockPCs
<1>6. PromiseInv'
  <2> SUFFICES ASSUME NEW t \in Slots, NEW h \in Hooks, <<t, h>> \in promised'
               PROVE  byGot[t] # 0 /\ Contains(list[byGot[t]], h) /\ ~Unhooking(h)'
    BY <1>0 DEF PromiseInv
  <2>1. CASE <<t, h>> \in promised
    BY <1>3, <2>1 DEF RunInv, PromiseInv
  <2>2. CASE t = s /\ h = mhook[m] /\ ~Unhooking(h)
    BY <1>0, <1>1, <1>3, <2>2
  <2> QED
    BY <1>0, <2>1, <2>2, PromisedThen DEF s
<1>7. PatchedInv'
  <2> SUFFICES ASSUME NEW t \in Slots, byGot[t] # 0, t \notin failed, t # s
               PROVE  got[t] = byGot[t]
    BY <1>0, <1>2 DEF PatchedInv
  <2>1. \A n \in Mutators : mpc[n] \in {"patch", "forget"} => n = m
    BY <1>0, OthersOut DEF LockPCs
  <2> QED
    BY <2>1 DEF RunInv, PatchedInv, s
<1> QED
  BY <1>0, <1>3, <1>4, <1>5, <1>6, <1>7, RunLists

\* A removal ends the promise for the hook, and for no other.
LEMMA RunUnhookSlot ==
  ASSUME Inv, RunInv, NEW m \in Mutators, NEW s \in Slots, UnhookSlot(m, s)
  PROVE  RunInv'
<1> DEFINE id == byGot[s]
           rest == Removed(list[id], mhook[m])
<1>0. /\ mpc[m] = "unext" /\ mhook[m] \in Hooks /\ mslot' = [mslot EXCEPT ![m] = s]
      /\ mpc'[m] \in {"unext", "restore"} /\ \A n \in Mutators \ {m} : mpc'[n] = mpc[n]
      /\ UNCHANGED <<got, byGot, nextId, lock, mhook, callVars, dead, history>>
  BY DEF UnhookSlot, At, Goto, Inv, TypeInv, TypeOK, TableInv, MutInv
<1>1. \A n \in Mutators \ {m} : mslot'[n] = mslot[n] /\ mtodo'[n] = mtodo[n]
  BY DEF UnhookSlot, Inv, TypeInv, TypeOK
<1>u. Unhooking(mhook[m])
  BY <1>0 DEF Unhooking
<1>2. \A h \in Hooks : Unhooking(h)' => Unhooking(h)
  BY <1>0 DEF Unhooking
<1>3. PatchedInv'
  BY <1>0, <1>1, OthersOut DEF RunInv, PatchedInv, LockPCs
<1>4. /\ \A i \in Ids : \A x : Contains(list'[i], x) => Contains(list[i], x)
      /\ \A i \in Ids : \A x : Contains(list[i], x) /\ x # mhook[m] => Contains(list'[i], x)
      /\ \A i \in Ids : NoRepeat(list'[i])
  <2>1. CASE is_hooked(s) /\ Removable(list[id], mhook[m])
    <3>1. id \in Ids /\ list[id] \in Seq(Codes) /\ NoRepeat(list[id]) /\ Contains(list[id], mhook[m])
      BY <2>1, HookedList, RegisteredOnce DEF is_hooked, Removable
    <3>2. list'[id] = rest /\ \A i \in Ids \ {id} : list'[i] = list[i]
      BY <2>1, <3>1 DEF UnhookSlot, Inv, TypeInv, TypeOK
    <3>3. /\ \A x : Contains(rest, x) => Contains(list[id], x)
          /\ \A x : Contains(list[id], x) /\ x # mhook[m] => Contains(rest, x)
          /\ NoRepeat(rest)
      BY <3>1, RemovedHolds
    <3> HIDE DEF id, rest
    <3> QED
      BY <3>2, <3>3 DEF RunInv, OnceInv
  <2>2. CASE ~(is_hooked(s) /\ Removable(list[id], mhook[m]))
    BY <2>2 DEF UnhookSlot, RunInv, OnceInv
  <2> QED
    BY <2>1, <2>2
<1>t. \A t \in Slots : byGot[t] # 0 => byGot[t] \in Ids
  BY HookedList
<1>5. OnceInv'
  BY <1>4 DEF OnceInv
<1>6. FreshInv'
  <2>1. \A t \in Slots, x \in Hooks : byGot'[t] # 0 /\ Contains(list'[byGot'[t]], x) =>
          byGot[t] # 0 /\ Contains(list[byGot[t]], x)
    BY <1>0, <1>4, <1>t
  <2> QED
    BY <1>0, <1>1, <2>1, FreshLocked DEF HookPCs, LockPCs
<1>7. PromiseInv'
  <2> SUFFICES ASSUME NEW t \in Slots, NEW h \in Hooks, <<t, h>> \in promised
               PROVE  byGot[t] # 0 /\ Contains(list'[byGot[t]], h) /\ ~Unhooking(h)'
    BY <1>0 DEF PromiseInv
  <2>1. byGot[t] # 0 /\ Contains(list[byGot[t]], h) /\ ~Unhooking(h)
    BY DEF RunInv, PromiseInv
  <2> QED
    BY <1>2, <1>4, <1>t, <1>u, <2>1
<1>8. \A i \in Ids, h \in Hooks : Contains(list[i], h) /\ ~Unhooking(h) => Contains(list'[i], h)
  BY <1>4, <1>u
<1> QED
  BY <1>0, <1>2, <1>3, <1>5, <1>6, <1>7, <1>8, RunLists

\* Writing the original back takes no promised hook away.
LEMMA RunRestore ==
  ASSUME Inv, RunInv, NEW m \in Mutators, UnhookRestore(m)
  PROVE  RunInv'
<1> DEFINE s == mslot[m]
<1>0. /\ mpc[m] = "restore" /\ s \in Slots
      /\ got' = [got EXCEPT ![s] = list[byGot[s]][1]]
      /\ mpc' = [mpc EXCEPT ![m] = "forget"]
      /\ UNCHANGED <<byGot, list, nextId, lock, mhook, mtodo, mslot, callVars, dead, history>>
  BY DEF UnhookRestore, At, Goto, Inv, TableInv, MutInv
<1> HIDE DEF s
<1>1. /\ \A t \in Slots \ {s} : got'[t] = got[t]
      /\ mpc'[m] = "forget" /\ \A n \in Mutators \ {m} : mpc'[n] = mpc[n]
  BY <1>0 DEF Inv, TypeInv, TypeOK
<1>2. \A h \in Hooks : Unhooking(h)' => Unhooking(h)
  BY <1>0, <1>1 DEF Unhooking
<1>3. OnceInv'
  BY <1>0 DEF RunInv, OnceInv
<1>4. FreshInv'
  BY <1>0, <1>1, FreshLocked DEF HookPCs, LockPCs
<1>5. PromiseInv'
  BY <1>0, <1>2 DEF RunInv, PromiseInv
<1>6. PatchedInv'
  BY <1>0, <1>1 DEF RunInv, PatchedInv, s
<1> QED
  BY <1>0, <1>2, <1>3, <1>4, <1>5, <1>6, RunLists

\* Forgetting an emptied list takes no promised hook away.
LEMMA RunForget ==
  ASSUME Inv, RunInv, NEW m \in Mutators, UnhookForget(m)
  PROVE  RunInv'
<1> DEFINE s == mslot[m]
<1>0. /\ mpc[m] = "forget" /\ s \in Slots /\ byGot[s] # 0
      /\ Len(list[byGot[s]]) = 1
      /\ byGot' = [byGot EXCEPT ![s] = 0] /\ failed' = failed \ {s}
      /\ mpc' = [mpc EXCEPT ![m] = "unext"]
      /\ UNCHANGED <<got, list, nextId, lock, mhook, mtodo, mslot, callVars, dead, promised>>
  BY DEF UnhookForget, At, Goto, Inv, TableInv, MutInv
<1>p. \A h \in Hooks : <<s, h>> \notin promised
  BY <1>0, HookedList, OnlyOrig DEF RunInv, PromiseInv
<1> HIDE DEF s
<1>1. /\ byGot'[s] = 0 /\ \A t \in Slots \ {s} : byGot'[t] = byGot[t]
      /\ mpc'[m] = "unext" /\ \A n \in Mutators \ {m} : mpc'[n] = mpc[n]
  BY <1>0 DEF Inv, TypeInv, TypeOK
<1>2. \A h \in Hooks : Unhooking(h)' => Unhooking(h)
  BY <1>0, <1>1 DEF Unhooking
<1>3. OnceInv'
  BY <1>0 DEF RunInv, OnceInv
<1>4. FreshInv'
  BY <1>0, <1>1, FreshLocked DEF HookPCs, LockPCs
<1>5. PromiseInv'
  BY <1>0, <1>1, <1>2, <1>p DEF RunInv, PromiseInv
<1>6. PatchedInv'
  <2> SUFFICES ASSUME NEW t \in Slots, byGot[t] # 0, t \notin failed, t # s
               PROVE  got[t] = byGot[t]
    BY <1>0, <1>1 DEF PatchedInv
  <2>1. \A n \in Mutators : mpc[n] \in {"patch", "forget"} => n = m
    BY <1>0, OthersOut DEF LockPCs
  <2> QED
    BY <2>1 DEF RunInv, PatchedInv, s
<1> QED
  BY <1>0, <1>2, <1>3, <1>4, <1>5, <1>6, RunLists

-----------------------------------------------------------------------------
(* Calls *)

\* A step of one caller, from what it does to its calls.
LEMMA RunCaller ==
  ASSUME Inv, RunInv, UNCHANGED <<table, mutVars, history>>, NEW c \in Callers,
         NEW p, pend' = [pend EXCEPT ![c] = p],
         p # NoCall => \A h \in p.must : Contains(list[p.id], h) /\ ~Unhooking(h),
         NEW x, calls' = [calls EXCEPT ![c] = x], \A k \in 1 .. Len(x) : WalkOK(x[k])
  PROVE  RunInv'
<1>1. OnceInv' /\ PatchedInv'
  BY DEF RunInv, OnceInv, PatchedInv
<1>2. FreshInv'
  BY DEF RunInv, FreshInv, Ahead
<1>3. \A h : Unhooking(h)' <=> Unhooking(h)
  BY DEF Unhooking
<1>4. PromiseInv'
  BY <1>3 DEF RunInv, PromiseInv
<1>5. /\ pend'[c] = p /\ calls'[c] = x
      /\ \A d \in Callers \ {c} : pend'[d] = pend[d] /\ calls'[d] = calls[d]
  BY DEF Inv, TypeInv
<1>6. MustInv'
  BY <1>3, <1>5 DEF RunInv, MustInv
<1>7. WalkInv'
  BY <1>5 DEF RunInv, WalkInv
<1> QED
  BY <1>1, <1>2, <1>4, <1>6, <1>7 DEF RunInv

\* The calls of a thread, and one more.
LEMMA WalkFacts ==
  ASSUME Inv, RunInv, NEW c \in Callers
  PROVE  /\ \A k \in 1 .. Len(calls[c]) : WalkOK(calls[c][k])
         /\ \A call \in CallSet : WalkOK(call) =>
              \A k \in 1 .. Len(Append(calls[c], call)) : WalkOK(Append(calls[c], call)[k])
<1>1. calls[c] \in Seq(CallSet) /\ \A k \in 1 .. Len(calls[c]) : WalkOK(calls[c][k])
  BY DEF Inv, TypeInv, RunInv, WalkInv
<1> HIDE DEF CallSet
<1> QED
  BY <1>1

\* The innermost call, and another in its place.
LEMMA WalkTop ==
  ASSUME Inv, RunInv, NEW c \in Callers, calls[c] # <<>>
  PROVE  /\ Last(calls[c]) \in CallSet /\ WalkOK(Last(calls[c])) /\ CallOK(Last(calls[c]))
         /\ \A k \in 1 .. Len(Front(calls[c])) : WalkOK(Front(calls[c])[k])
         /\ \A call \in CallSet : WalkOK(call) =>
              \A k \in 1 .. Len(Append(Front(calls[c]), call)) :
                WalkOK(Append(Front(calls[c]), call)[k])
<1>1. calls[c] \in Seq(CallSet) /\ \A k \in 1 .. Len(calls[c]) : WalkOK(calls[c][k])
  BY DEF Inv, TypeInv, RunInv, WalkInv
<1>2. /\ Last(calls[c]) = calls[c][Len(calls[c])] /\ Last(calls[c]) \in CallSet
      /\ Len(calls[c]) \in Nat /\ Len(calls[c]) > 0
      /\ Front(calls[c]) \in Seq(CallSet) /\ Len(Front(calls[c])) = Len(calls[c]) - 1
      /\ \A k \in 1 .. Len(calls[c]) - 1 : Front(calls[c])[k] = calls[c][k]
  BY <1>1, LastFront
<1>3. WalkOK(Last(calls[c])) /\ \A k \in 1 .. Len(Front(calls[c])) : WalkOK(Front(calls[c])[k])
  BY <1>1, <1>2
<1>4. CallOK(Last(calls[c]))
  BY TopFacts
<1> HIDE DEF CallSet
<1> QED
  BY <1>2, <1>3, <1>4

\* A slot that holds the original function promises nothing, unless patching it
\* has failed.
LEMMA OriginalOwesNothing ==
  ASSUME Inv, RunInv, NEW s \in Slots, got[s] = Orig, s \notin failed
  PROVE  Must(s) = {}
<1> SUFFICES ASSUME NEW h \in Hooks, <<s, h>> \in promised PROVE FALSE
  BY DEF Must
<1>1. byGot[s] # 0 /\ Contains(list[byGot[s]], h)
  BY DEF RunInv, PromiseInv
<1>2. byGot[s] \in Ids /\ RunList(list[byGot[s]])
  BY <1>1, HookedList
<1>3. got[s] # byGot[s]
  BY <1>2, CodeFacts
<1>4. PICK m \in Mutators : mpc[m] \in {"patch", "forget"} /\ mslot[m] = s
  BY <1>1, <1>3 DEF RunInv, PatchedInv
<1>5. CASE mpc[m] = "patch"
  BY <1>4, <1>5 DEF RunInv, FreshInv, HookPCs
<1>6. CASE mpc[m] = "forget"
  <2>1. Len(list[byGot[s]]) = 1
    BY <1>4, <1>6 DEF Inv, TableInv, MutInv
  <2> QED
    BY <1>1, <1>2, <2>1, OnlyOrig
<1> QED
  BY <1>4, <1>5, <1>6

\* A call through an unpatched slot owes no hook.
LEMMA RunCallOriginal ==
  ASSUME Inv, RunInv, NEW c \in Callers, NEW s \in Slots, CallOriginal(c, s)
  PROVE  RunInv'
<1> DEFINE call == [tls |-> FALSE, list |-> <<Orig>>, chain |-> <<Orig>>,
                    patched |-> s \notin failed, must |-> Must(s)]
<1>1. call \in CallSet
  <2>1. <<Orig>> \in Seq(Codes)
    BY CodeFacts
  <2> QED
    BY <2>1, MustType DEF CallSet
<1>2. WalkOK(call)
  <2>1. ~call.tls /\ (call.patched <=> s \notin failed) /\ call.must = Must(s)
    OBVIOUS
  <2>2. got[s] = Orig
    BY DEF CallOriginal
  <2> HIDE DEF call
  <2> QED
    BY <2>1, <2>2, OriginalOwesNothing DEF WalkOK
<1>3. pend = [pend EXCEPT ![c] = pend[c]]
  BY DEF Inv, TypeInv
<1>4. pend[c] # NoCall => \A h \in pend[c].must : Contains(list[pend[c].id], h) /\ ~Unhooking(h)
  BY DEF RunInv, MustInv
<1>5. /\ UNCHANGED <<table, mutVars, history, dead, pend>>
      /\ calls' = [calls EXCEPT ![c] = Append(calls[c], call)]
  BY DEF CallOriginal
<1> HIDE DEF call
<1> QED
  BY <1>1, <1>2, <1>3, <1>4, <1>5, WalkFacts, RunCaller

\* A call through a patched slot owes the promised hooks.
LEMMA RunCallTrampoline ==
  ASSUME Inv, RunInv, NEW c \in Callers, NEW s \in Slots, CallTrampoline(c, s)
  PROVE  RunInv'
<1> DEFINE p == [id |-> got[s], patched |-> s \notin failed, must |-> Must(s)]
<1>1. got[s] = byGot[s]
  BY CodeFacts DEF CallTrampoline, Inv, TableInv, IndexInv
<1>2. \A h \in Must(s) : Contains(list[got[s]], h) /\ ~Unhooking(h)
  BY <1>1 DEF Must, RunInv, PromiseInv
<1>3. p.must = Must(s) /\ p.id = got[s]
  OBVIOUS
<1>4. calls = [calls EXCEPT ![c] = calls[c]]
  BY DEF Inv, TypeInv
<1>5. /\ UNCHANGED <<table, mutVars, history, dead, calls>>
      /\ pend' = [pend EXCEPT ![c] = p]
  BY DEF CallTrampoline
<1> HIDE DEF p
<1> QED
  BY <1>2, <1>3, <1>4, <1>5, WalkFacts, RunCaller

\* The copied run list has every hook that is owed.
LEMMA RunPush ==
  ASSUME Inv, RunInv, NEW c \in Callers, push_hook_stack(c)
  PROVE  RunInv'
<1> DEFINE run == list[pend[c].id]
           call == [tls |-> TRUE, list |-> run, chain |-> <<Last(run)>>,
                    patched |-> pend[c].patched, must |-> pend[c].must]
<1>1. pend[c] \in PendSet /\ pend[c].id \in 1 .. nextId - 1 /\ pend[c] # NoCall
  BY DEF push_hook_stack, Inv, TypeInv, PendInv
<1>2. RunList(run) /\ NoRepeat(run)
  <2>1. nextId \in 1 .. MaxId + 1
    BY DEF Inv, TypeInv, TypeOK
  <2>2. pend[c].id \in Ids /\ pend[c].id < nextId
    BY <1>1, <2>1, BoundsAssumption DEF Ids
  <2> QED
    BY <2>2 DEF Inv, TableInv, ListInv, RunInv, OnceInv
<1>3. run \in Seq(Codes) /\ run # <<>>
  BY <1>2 DEF RunList
<1>4. Last(run) = run[Len(run)] /\ Last(run) \in Codes /\ Len(run) \in Nat /\ Len(run) > 0
  BY <1>3, LastFront
<1>5. /\ UNCHANGED <<table, mutVars, history, dead>>
      /\ calls' = [calls EXCEPT ![c] = Append(calls[c], call)]
      /\ pend' = [pend EXCEPT ![c] = NoCall]
  BY <1>3 DEF push_hook_stack
<1>6. pend[c].patched \in BOOLEAN /\ pend[c].must \in SUBSET Hooks
  BY <1>1 DEF PendSet
<1>m. \A h \in pend[c].must : Contains(run, h)
  BY <1>1 DEF RunInv, MustInv
<1> HIDE DEF run
<1>7. /\ call \in CallSet /\ call.list = run /\ call.chain = <<Last(run)>> /\ call.tls
      /\ call.must = pend[c].must
  BY <1>3, <1>4, <1>6 DEF CallSet
<1> HIDE DEF call
<1>8. WalkOK(call)
  <2>1. Len(call.chain) = 1 /\ Len(call.chain) <= Len(call.list)
    BY <1>4, <1>7
  <2>2. \A i \in 1 .. Len(call.chain) : call.chain[i] = call.list[Len(call.list) + 1 - i]
    <3>1. \A i \in 1 .. 1 : i = 1 /\ Len(run) + 1 - i = Len(run)
      BY <1>4
    <3> QED
      BY <1>4, <1>7, <2>1, <3>1
  <2> QED
    BY <1>2, <1>7, <1>m, <2>1, <2>2 DEF WalkOK
<1> QED
  BY <1>5, <1>7, <1>8, WalkFacts, RunCaller

\* CALL_PREV goes to the entry right below.
LEMMA PrevBelow ==
  ASSUME NEW l \in Seq(Codes), NoRepeat(l), NEW ch \in Seq(Codes), ch # <<>>,
         Len(ch) <= Len(l), \A i \in 1 .. Len(ch) : ch[i] = l[Len(l) + 1 - i],
         Position(l, Last(ch)) > 1, Contains(l, Last(ch)), NEW v, v = Previous(l, Last(ch))
  PROVE  /\ Len(Append(ch, v)) <= Len(l)
         /\ \A i \in 1 .. Len(Append(ch, v)) : Append(ch, v)[i] = l[Len(l) + 1 - i]
<1>0. Len(l) \in Nat
  OBVIOUS
<1>1. Len(ch) \in Nat /\ Len(ch) > 0 /\ Last(ch) = ch[Len(ch)] /\ Len(l) \in Nat
  BY <1>0, LastFront
<1>2. PICK p \in 1 .. Len(l) : p = Position(l, Last(ch)) /\ l[p] = Last(ch) /\ p > 1
  BY PositionFacts
<1>3. Len(ch) \in 1 .. Len(ch) /\ Len(l) + 1 - Len(ch) \in 1 .. Len(l)
  BY <1>1
<1>4. p = Len(l) + 1 - Len(ch)
  BY <1>1, <1>2, <1>3 DEF NoRepeat
<1>5. v = l[Len(l) - Len(ch)] /\ Len(ch) + 1 <= Len(l)
  <2>1. p - 1 = Len(l) - Len(ch)
    BY <1>1, <1>4
  <2>2. Len(ch) + 1 <= Len(l)
    BY <1>1, <1>2, <1>4
  <2> QED
    BY <1>2, <2>1, <2>2 DEF Previous
<1>6. /\ Len(Append(ch, v)) = Len(ch) + 1 /\ Append(ch, v)[Len(ch) + 1] = v
      /\ \A i \in 1 .. Len(ch) : Append(ch, v)[i] = ch[i]
  OBVIOUS
<1>7. ASSUME NEW i \in 1 .. Len(ch) + 1 PROVE Append(ch, v)[i] = l[Len(l) + 1 - i]
  <2>1. CASE i = Len(ch) + 1
    <3>1. Len(l) + 1 - i = Len(l) - Len(ch)
      BY <1>1, <2>1
    <3> QED
      BY <1>5, <1>6, <2>1, <3>1
  <2>2. CASE i # Len(ch) + 1
    <3>1. i \in 1 .. Len(ch)
      BY <1>1, <2>2
    <3> QED
      BY <1>6, <3>1
  <2> QED
    BY <2>1, <2>2
<1> QED
  BY <1>5, <1>6, <1>7

\* CALL_PREV moves to the next hook and misses none.
LEMMA RunCallPrev ==
  ASSUME Inv, RunInv, NEW c \in Callers, CallPrev(c)
  PROVE  RunInv'
<1>1. PICK top : top = Last(calls[c])
  OBVIOUS
<1>2. calls[c] # <<>> /\ Last(top.chain) \in Hooks
  BY <1>1 DEF CallPrev
<1>3. /\ top \in CallSet /\ CallOK(top) /\ WalkOK(top)
      /\ \A call \in CallSet : WalkOK(call) =>
           \A k \in 1 .. Len(Append(Front(calls[c]), call)) :
             WalkOK(Append(Front(calls[c]), call)[k])
  BY <1>1, <1>2, WalkTop
<1> DEFINE l == top.list
           ch == top.chain
<1>4. l \in Seq(Codes) /\ ch \in Seq(Codes) /\ RunList(l) /\ ch # <<>>
  BY <1>3 DEF CallSet, CallOK
<1>5. top.tls
  <2>1. CASE ~top.tls
    <3>1. top.chain = <<Orig>>
      BY <1>3, <2>1 DEF CallOK
    <3>2. Last(top.chain) = Orig
      BY <3>1 DEF Last
    <3> QED
      BY <1>2, <3>2, CodeFacts
  <2> QED
    BY <2>1
<1>6. /\ NoRepeat(l) /\ Len(ch) <= Len(l) /\ \A h \in top.must : Contains(l, h)
      /\ \A i \in 1 .. Len(ch) : ch[i] = l[Len(l) + 1 - i]
  BY <1>3, <1>5 DEF WalkOK
<1>7. \A i \in 1 .. Len(ch) : Contains(l, ch[i])
  BY <1>3 DEF CallOK
<1>e. /\ UNCHANGED <<table, mutVars, pend, history>>
      /\ Position(l, Last(ch)) > 1 =>
           calls' = [calls EXCEPT ![c] = Append(Front(calls[c]),
                       [top EXCEPT !.chain = Append(ch, Previous(l, Last(ch)))])]
  BY <1>1, <1>5 DEF CallPrev
<1>h. Last(ch) \in Hooks
  BY <1>2
<1> HIDE DEF l, ch
<1>8. Contains(l, Last(ch)) /\ Position(l, Last(ch)) > 1
  <2>1. Last(ch) = ch[Len(ch)] /\ Len(ch) \in Nat /\ Len(ch) > 0
    BY <1>4, LastFront
  <2>2. Contains(l, Last(ch))
    BY <1>7, <2>1
  <2>3. Position(l, Last(ch)) \in 1 .. Len(l) /\ l[Position(l, Last(ch))] = Last(ch)
    BY <1>4, <2>2, PositionFacts
  <2>4. l[1] # Last(ch)
    BY <1>4, <1>h, CodeFacts DEF RunList
  <2> QED
    BY <2>2, <2>3, <2>4
<1>9. PICK v : v = Previous(l, Last(ch))
  OBVIOUS
<1>10. /\ Len(Append(ch, v)) <= Len(l)
       /\ \A i \in 1 .. Len(Append(ch, v)) : Append(ch, v)[i] = l[Len(l) + 1 - i]
  BY <1>4, <1>6, <1>8, <1>9, PrevBelow
<1>v. v \in Codes
  <2>1. Position(l, Last(ch)) \in 1 .. Len(l)
    BY <1>4, <1>8, PositionFacts
  <2>2. Position(l, Last(ch)) - 1 \in 1 .. Len(l)
    BY <1>8, <2>1
  <2> QED
    BY <1>4, <1>9, <2>2 DEF Previous
<1>11. PICK new : new = [top EXCEPT !.chain = Append(ch, v)]
  OBVIOUS
<1>12. /\ new \in CallSet /\ new.list = l /\ new.tls = top.tls /\ new.must = top.must
       /\ new.chain = Append(ch, v)
  <2>1. Append(ch, v) \in Seq(Codes)
    BY <1>4, <1>v
  <2> QED
    BY <1>3, <1>11, <2>1 DEF CallSet, l
<1>13. WalkOK(new)
  BY <1>5, <1>6, <1>10, <1>12 DEF WalkOK
<1>14. calls' = [calls EXCEPT ![c] = Append(Front(calls[c]), new)]
  BY <1>8, <1>9, <1>11, <1>e
<1>15. pend = [pend EXCEPT ![c] = pend[c]]
  BY DEF Inv, TypeInv
<1>16. pend[c] # NoCall => \A h \in pend[c].must : Contains(list[pend[c].id], h) /\ ~Unhooking(h)
  BY DEF RunInv, MustInv
<1> QED
  BY <1>3, <1>12, <1>13, <1>14, <1>15, <1>16, <1>e, RunCaller

\* A return ends the innermost call.
LEMMA RunFunctionReturn ==
  ASSUME Inv, RunInv, NEW c \in Callers, FunctionReturn(c)
  PROVE  RunInv'
<1>1. PICK top : top = Last(calls[c])
  OBVIOUS
<1>2. calls[c] # <<>> /\ UNCHANGED <<table, mutVars, pend, history, dead>>
  BY DEF FunctionReturn
<1>3. /\ top \in CallSet /\ CallOK(top) /\ WalkOK(top)
      /\ \A k \in 1 .. Len(Front(calls[c])) : WalkOK(Front(calls[c])[k])
      /\ \A call \in CallSet : WalkOK(call) =>
           \A k \in 1 .. Len(Append(Front(calls[c]), call)) :
             WalkOK(Append(Front(calls[c]), call)[k])
  BY <1>1, <1>2, WalkTop
<1>4. /\ pend = [pend EXCEPT ![c] = pend[c]]
      /\ pend[c] # NoCall => \A h \in pend[c].must : Contains(list[pend[c].id], h) /\ ~Unhooking(h)
  BY DEF Inv, TypeInv, RunInv, MustInv
<1>5. CASE Len(top.chain) = 1
  <2>1. calls' = [calls EXCEPT ![c] = Front(calls[c])]
    BY <1>1, <1>5 DEF FunctionReturn
  <2> QED
    BY <1>2, <1>3, <1>4, <2>1, RunCaller
<1>6. CASE Len(top.chain) # 1
  <2> DEFINE l == top.list
             ch == top.chain
             f == Front(ch)
  <2>1. PICK new : new = [top EXCEPT !.chain = Front(@)]
    OBVIOUS
  <2>2. calls' = [calls EXCEPT ![c] = Append(Front(calls[c]), new)]
    BY <1>1, <1>6, <2>1 DEF FunctionReturn
  <2>3. ch \in Seq(Codes) /\ ch # <<>> /\ l \in Seq(Codes)
    BY <1>3 DEF CallSet, CallOK
  <2>4. top.tls
    <3>1. Len(<<Orig>>) = 1
      OBVIOUS
    <3> QED
      BY <1>3, <1>6, <3>1 DEF CallOK
  <2>5. /\ NoRepeat(l) /\ Len(ch) <= Len(l) /\ \A h \in top.must : Contains(l, h)
        /\ \A i \in 1 .. Len(ch) : ch[i] = l[Len(l) + 1 - i]
    BY <1>3, <2>4 DEF WalkOK
  <2>6. /\ f \in Seq(Codes) /\ Len(ch) \in Nat /\ Len(ch) > 0 /\ Len(f) = Len(ch) - 1
        /\ \A k \in 1 .. Len(ch) - 1 : f[k] = ch[k]
    BY <2>3, LastFront
  <2>7. /\ new \in CallSet /\ new.list = l /\ new.tls = top.tls /\ new.must = top.must
        /\ new.chain = f
    BY <1>3, <2>1, <2>6 DEF CallSet
  <2> HIDE DEF l, ch, f
  <2>8. /\ Len(f) <= Len(l) /\ \A i \in 1 .. Len(f) : f[i] = l[Len(l) + 1 - i]
    BY <2>3, <2>5, <2>6
  <2>9. WalkOK(new)
    BY <2>4, <2>5, <2>7, <2>8 DEF WalkOK
  <2> QED
    BY <1>2, <1>3, <1>4, <2>2, <2>7, <2>9, RunCaller
<1> QED
  BY <1>5, <1>6

-----------------------------------------------------------------------------

\* Nothing is promised at first.
LEMMA InitRun == Init => RunInv
<1> SUFFICES ASSUME Init PROVE RunInv
  OBVIOUS
<1>1. OnceInv /\ WalkInv
  BY DEF Init, OnceInv, NoRepeat, WalkInv
<1>2. FreshInv /\ PromiseInv /\ PatchedInv /\ MustInv
  BY DEF Init, FreshInv, PromiseInv, PatchedInv, MustInv, HookPCs
<1> QED
  BY <1>1, <1>2 DEF RunInv

\* The second invariant is inductive, given the first.
LEMMA StepRun == ~Repeats /\ Inv /\ RunInv /\ [Next]_vars => RunInv'
<1> SUFFICES ASSUME ~Repeats, Inv, RunInv, [Next]_vars PROVE RunInv'
  OBVIOUS
<1>1. CASE UNCHANGED vars
  BY <1>1 DEF vars, RunInv, OnceInv, FreshInv, Ahead, PromiseInv, Unhooking, PatchedInv, MustInv, WalkInv
<1>2. ASSUME NEW m \in Mutators, NEW h \in Hooks, HookCall(m, h) \/ UnhookCall(m, h)
      PROVE  RunInv'
  BY <1>2, RunHookCall, RunUnhookCall
<1>3. ASSUME NEW m \in Mutators, MutatorStep(m)
      PROVE  RunInv'
  BY <1>3, RunQuietSteps, RunUnhookSlot, RunAppend, RunRegister, RunPatch,
     RunPatchFail, RunRestore, RunForget DEF MutatorStep
<1>4. ASSUME NEW c \in Callers, NEW s \in Slots, CallOriginal(c, s) \/ CallTrampoline(c, s)
      PROVE  RunInv'
  BY <1>4, RunCallOriginal, RunCallTrampoline
<1>5. ASSUME NEW c \in Callers, CallStep(c)
      PROVE  RunInv'
  BY <1>5, RunPush, RunCallPrev, RunFunctionReturn DEF CallStep
<1> QED
  BY <1>1, <1>2, <1>3, <1>4, <1>5 DEF Next

\* A walk that has come to the original has come through everything.
LEMMA WalkedThrough ==
  ASSUME NEW call \in CallSet, CallOK(call), WalkOK(call), Complete(call), call.patched
  PROVE  call.must \subseteq ToSet(call.chain)
<1>1. CASE ~call.tls
  BY <1>1 DEF WalkOK
<1>2. CASE call.tls
  <2> DEFINE l == call.list
             ch == call.chain
  <2>1. l \in Seq(Codes) /\ ch \in Seq(Codes) /\ RunList(l) /\ ch # <<>> /\ Last(ch) = Orig
    BY DEF CallSet, CallOK, Complete
  <2>2. /\ Len(ch) <= Len(l) /\ \A h \in call.must : Contains(l, h)
        /\ \A i \in 1 .. Len(ch) : ch[i] = l[Len(l) + 1 - i]
    BY <1>2 DEF WalkOK
  <2> SUFFICES ASSUME NEW h \in call.must PROVE h \in ToSet(ch)
    OBVIOUS
  <2> HIDE DEF l, ch
  <2>l. Len(l) \in Nat
    BY <2>1
  <2>3. Last(ch) = ch[Len(ch)] /\ Len(ch) \in Nat /\ Len(ch) > 0 /\ Len(l) \in Nat
    BY <2>1, <2>l, LastFront
  <2>4. Len(l) = Len(ch)
    <3>1. l[Len(l) + 1 - Len(ch)] = Orig /\ Len(l) + 1 - Len(ch) \in 1 .. Len(l)
      BY <2>1, <2>2, <2>3
    <3>2. ASSUME NEW q \in 1 .. Len(l), l[q] = Orig PROVE q = 1
      BY <2>1, <2>3, <3>2, CodeFacts DEF RunList
    <3>3. Len(l) + 1 - Len(ch) = 1
      BY <3>1, <3>2
    <3> QED
      BY <2>3, <3>3
  <2>5. PICK q \in 1 .. Len(l) : l[q] = h
    BY <2>2 DEF Contains
  <2>6. PICK r \in 1 .. Len(ch) : Len(l) + 1 - r = q
    <3>1. Len(l) + 1 - q \in 1 .. Len(ch) /\ Len(l) + 1 - (Len(l) + 1 - q) = q
      BY <2>3, <2>4, <2>5
    <3> QED
      BY <3>1
  <2>7. ch[r] = h /\ r \in DOMAIN ch
    BY <2>1, <2>2, <2>5, <2>6
  <2> QED
    BY <2>7 DEF ToSet
<1> QED
  BY <1>1, <1>2

\* Both together are strong enough for the promise.
LEMMA InvHooksRun == Inv /\ RunInv => HooksRun
<1> SUFFICES ASSUME Inv, RunInv, NEW c \in Callers, NEW k \in 1 .. Len(calls[c])
             PROVE  /\ Descends(calls[c][k])
                    /\ Complete(calls[c][k]) /\ calls[c][k].patched =>
                         calls[c][k].must \subseteq ToSet(calls[c][k].chain)
  BY DEF HooksRun, Descends
<1>1. calls[c][k] \in CallSet /\ CallOK(calls[c][k]) /\ WalkOK(calls[c][k])
  BY StackFacts DEF RunInv, WalkInv
<1> QED
  BY <1>1, WalkedThrough DEF CallOK

\* If no hook is installed on a slot that has it already, a call runs each hook at
\* most once, newest first, and a call that reaches the original through a patched
\* slot has run every hook that was promised when it began and that nobody unhooked
\* before push_hook_stack copied the run list.
THEOREM PromisedHooksRun ==
  ASSUME ~Repeats
  PROVE  SafeSpec => []HooksRun
<1>1. Init => Inv /\ RunInv
  BY InitInv, InitRun
<1>2. Inv /\ RunInv /\ [Next]_vars => (Inv /\ RunInv)'
  BY StepInv, StepRun
<1>3. SafeSpec => [](Inv /\ RunInv)
  BY <1>1, <1>2, PTL DEF SafeSpec
<1> QED
  BY <1>3, InvHooksRun, PTL
=============================================================================
