----------------------------- MODULE Jni_proofs -----------------------------
(***************************************************************************)
(* Proofs about fbjni's smart references (JniRefs), about the records of a *)
(* thread that crosses between Java and C++ (JniCalls), about the objects  *)
(* that hold buffers, monitors and native pointers and iterate             *)
(* (JniObjects), for any number of each, and about the string conversions  *)
(* (Utf8), for every text.                                                 *)
(***************************************************************************)
EXTENDS JniRefs, JniCalls, JniObjects, Utf8, FiniteSetTheorems, SequenceTheorems,
        WellFoundedInduction, TLAPS

-----------------------------------------------------------------------------
(* References: the inductive invariant *)

RefType == [type : Kinds \cup {"none"}, obj : Objects \cup {"none"}, frame : Nat]

SlotType == [kind : Kinds \cup {"none"}, ref : 0..MaxRefs]

RefTypes ==
    /\ slot \in [Slots -> [kind : Kinds \cup {"none"}, ref : 0..MaxRefs]]
    /\ table \in [Ids -> [type : Kinds \cup {"none"}, obj : Objects \cup {"none"}, frame : Nat]]
    /\ loose \subseteq Ids
    /\ live \subseteq Objects /\ rooted \subseteq Objects
    /\ frame \in Nat

\* Where no reference object lives, there is no reference.
DeadInv == \A s \in Slots : slot[s].kind = "none" => slot[s].ref = 0

\* An owner's reference is of its kind, is nobody else's, and not the caller's.
OwnerInv ==
    \A s \in Slots : slot[s].ref # 0 =>
        /\ table[slot[s].ref].type = slot[s].kind
        /\ slot[s].ref \notin loose
        /\ \A o \in Slots : slot[o].ref = slot[s].ref => o = s

\* Every reference of the VM's tables has a holder.
HeldInv ==
    \A r \in Ids : table[r].type # "none" => r \in loose \/ \E s \in Slots : slot[s].ref = r

LooseInv == \A r \in loose : table[r].type # "none"

LostInv == lost \subseteq loose

RefsInv == RefTypes /\ DeadInv /\ OwnerInv /\ HeldInv /\ LooseInv /\ LostInv

\* What a slot may be.
LEMMA SlotFacts ==
  ASSUME RefsInv, NEW s \in Slots
  PROVE  /\ slot[s].kind \in Kinds \cup {"none"} /\ slot[s].ref \in {0} \cup Ids
         /\ slot[s] = [kind |-> slot[s].kind, ref |-> slot[s].ref]
<1>1. slot[s] \in [kind : Kinds \cup {"none"}, ref : 0..MaxRefs]
  BY DEF RefsInv, RefTypes
<1>2. 0..MaxRefs \subseteq {0} \cup Ids
  BY RefBoundsAssumption DEF Ids
<1> QED
  BY <1>1, <1>2

\* The allocator gives out an entry that is free.
LEMMA FreshFree ==
  ASSUME Fresh # 0
  PROVE  Fresh \in Ids /\ table[Fresh].type = "none"
<1> DEFINE R == OpToRel(<, Nat)
           F == Ids \ Used
<1>0. IsWellFoundedOn(R, Nat)
  BY NatLessThanWellFounded
<1>1. \A x, y \in Nat : <<x, y>> \in R <=> x < y
  BY DEF OpToRel
<1>2. F \subseteq Nat /\ F # {}
  BY RefBoundsAssumption DEF Fresh, Used, Ids
<1> HIDE DEF R
<1>3. PICK x \in F : \A y \in F : ~ (<<y, x>> \in R)
  BY <1>0, <1>2, WFMin
<1>4. \A y \in F : x <= y
  <2> SUFFICES ASSUME NEW y \in F PROVE x <= y
    OBVIOUS
  <2>1. ~ (y < x) /\ x \in Nat /\ y \in Nat
    BY <1>1, <1>2, <1>3
  <2> QED
    BY <2>1
<1>5. Fresh = CHOOSE r \in Ids \ Used : \A q \in Ids \ Used : r <= q
  BY DEF Fresh
<1>6. Fresh \in Ids \ Used
  BY <1>3, <1>4, <1>5
<1> QED
  BY <1>6 DEF Used

\* What the allocator returns: null, or a free entry for an object that lives.
LEMMA NewFacts ==
  ASSUME RefsInv, NEW kind, NEW from, NEW new \in newReference(kind, from)
  PROVE  \/ new.ref = 0
         \/ new.ref \in Ids /\ table[new.ref].type = "none" /\ table[from].obj \in live
<1>1. \/ new.ref = 0
      \/ Fresh # 0 /\ new.ref = Fresh /\ Refers(from)
  BY DEF newReference, Obtained
<1> QED
  BY <1>1, FreshFree DEF Refers

\* A new entry of the VM's tables has its kind and lives in a frame.
LEMMA EntryType ==
  ASSUME RefsInv, NEW kind \in Kinds \cup {"none"}, NEW from, table[from].obj \in live
  PROVE  /\ Entry(kind, from) \in [type : Kinds \cup {"none"}, obj : Objects \cup {"none"}, frame : Nat]
         /\ Entry(kind, from).type = kind
BY DEF Entry, RefsInv, RefTypes

\* The types after the references of gone have gone and n has come.
TypesAfter(gone, n, kind) ==
    \A r \in Ids : table'[r].type = IF r \in gone THEN "none"
                                    ELSE IF r = n THEN kind ELSE table[r].type

\* The tables after an operation.
LEMMA AfterFacts ==
  ASSUME RefsInv, NEW n \in {0} \cup Ids, NEW kind \in Kinds \cup {"none"}, NEW from, NEW gone,
         n # 0 => table[from].obj \in live,
         table' = TableAfter(n, kind, from, gone)
  PROVE  /\ table' \in [Ids -> RefType]
         /\ TypesAfter(gone, n, kind)
<1>1. NoRef \in RefType /\ NoRef.type = "none"
  BY DEF NoRef, RefType
<1>2. n # 0 => Entry(kind, from) \in RefType /\ Entry(kind, from).type = kind
  BY EntryType DEF RefType
<1>3. \A r \in Ids : table[r] \in RefType
  BY DEF RefsInv, RefTypes, RefType
<1>4. 0 \notin Ids
  BY RefBoundsAssumption DEF Ids
<1>5. ASSUME NEW r \in Ids
      PROVE  /\ table'[r] = IF r \in gone THEN NoRef
                            ELSE IF r = n /\ n # 0 THEN Entry(kind, from) ELSE table[r]
             /\ table'[r] \in RefType
             /\ table'[r].type = IF r \in gone THEN "none" ELSE IF r = n THEN kind ELSE table[r].type
  <2>1. table'[r] = IF r \in gone THEN NoRef
                    ELSE IF r = n /\ n # 0 THEN Entry(kind, from) ELSE table[r]
    BY DEF TableAfter
  <2>2. r # 0
    BY <1>4
  <2> QED
    BY <1>1, <1>2, <1>3, <2>1, <2>2
<1>6. table' \in [Ids -> RefType]
  <2>1. table' = [r \in Ids |-> table'[r]]
    BY DEF TableAfter
  <2> QED
    BY <1>5, <2>1
<1> QED
  BY <1>5, <1>6 DEF TypesAfter

-----------------------------------------------------------------------------
(* References: what the operations do to the holders *)

\* Null is no reference.
LEMMA ZeroIsNoId == 0 \notin Ids /\ {0} \cup Ids = 0..MaxRefs
BY RefBoundsAssumption DEF Ids

\* Slot s gives up its reference, which is deleted, and gets n, a new one or null.
LEMMA Replaced ==
  ASSUME RefsInv, NEW s \in Slots, NEW k \in Kinds \cup {"none"}, NEW n,
         n = 0 \/ (n \in Ids /\ table[n].type = "none" /\ k \in Kinds),
         slot' = [slot EXCEPT ![s] = [kind |-> k, ref |-> n]], loose' = loose, lost' = lost, VmKeeps,
         table' \in [Ids -> RefType],
         TypesAfter({slot[s].ref}, n, k)
  PROVE  RefsInv'
<1>t. \A r \in Ids : table'[r].type = IF r = slot[s].ref THEN "none"
                                     ELSE IF r = n THEN k ELSE table[r].type
  BY DEF TypesAfter
<1>0. n \in 0..MaxRefs
  BY ZeroIsNoId
<1>1. /\ slot'[s].kind = k /\ slot'[s].ref = n
      /\ \A o \in Slots \ {s} : slot'[o] = slot[o]
      /\ slot' \in [Slots -> SlotType]
  BY <1>0 DEF RefsInv, RefTypes, SlotType
<1>2. RefTypes'
  BY <1>1 DEF RefsInv, RefTypes, VmKeeps, SlotType, RefType
<1>3. DeadInv'
  <2>1. k = "none" => n = 0
    BY DEF Kinds
  <2> QED
    BY <1>1, <2>1 DEF RefsInv, DeadInv
<1>4. \A o \in Slots : slot[o].ref \in {0} \cup Ids
  BY SlotFacts
<1>n. n # 0 => n # slot[s].ref /\ (\A o \in Slots : slot[o].ref # n) /\ n \notin loose
  <2> SUFFICES ASSUME n # 0 PROVE (\A o \in Slots : slot[o].ref # n) /\ n \notin loose
    OBVIOUS
  <2>1. ASSUME NEW o \in Slots, slot[o].ref = n PROVE FALSE
    <3>1. table[slot[o].ref].type = slot[o].kind /\ slot[o].ref # 0
      BY <2>1 DEF RefsInv, OwnerInv
    <3>2. slot[o].kind = "none"
      BY <2>1, <3>1
    <3> QED
      BY <3>1, <3>2 DEF RefsInv, DeadInv
  <2> QED
    BY <2>1 DEF RefsInv, LooseInv
<1>5. OwnerInv'
  <2> SUFFICES ASSUME NEW o \in Slots, slot'[o].ref # 0
               PROVE  /\ table'[slot'[o].ref].type = slot'[o].kind
                      /\ slot'[o].ref \notin loose
                      /\ \A q \in Slots : slot'[q].ref = slot'[o].ref => q = o
    BY DEF OwnerInv
  <2>1. CASE o = s
    BY <1>1, <1>n, <1>t, <2>1
  <2>2. CASE o # s
    <3>1. /\ slot[o].ref # 0 /\ slot[o].ref \in Ids /\ table[slot[o].ref].type = slot[o].kind
          /\ slot[o].ref \notin loose /\ \A q \in Slots : slot[q].ref = slot[o].ref => q = o
      BY <1>1, <1>4, <2>2 DEF RefsInv, OwnerInv
    <3>2. slot[o].ref # slot[s].ref /\ slot[o].ref # n
      BY <1>n, <2>2, <3>1
    <3> QED
      BY <1>1, <1>t, <2>2, <3>1, <3>2
  <2> QED
    BY <2>1, <2>2
<1>6. HeldInv'
  <2> SUFFICES ASSUME NEW r \in Ids, table'[r].type # "none"
               PROVE  r \in loose \/ \E o \in Slots : slot'[o].ref = r
    BY DEF HeldInv
  <2>1. CASE r = n
    BY <1>1, <2>1
  <2>2. CASE r # n
    <3>1. r # slot[s].ref /\ table[r].type # "none"
      BY <1>t, <2>2
    <3> QED
      BY <1>1, <3>1 DEF RefsInv, HeldInv
  <2> QED
    BY <2>1, <2>2
<1>7. LooseInv'
  <2> SUFFICES ASSUME NEW r \in loose PROVE table'[r].type # "none"
    BY DEF LooseInv
  <2>1. r \in Ids /\ table[r].type # "none"
    BY DEF RefsInv, RefTypes, LooseInv
  <2>2. r # slot[s].ref
    BY <2>1, ZeroIsNoId DEF RefsInv, OwnerInv
  <2>3. r # n
    BY <1>n, <2>1, ZeroIsNoId
  <2> QED
    BY <1>t, <2>1, <2>2, <2>3
<1> QED
  BY <1>2, <1>3, <1>5, <1>6, <1>7 DEF RefsInv, LostInv

\* s takes over what the other slot o has, and its own reference is deleted.
LEMMA Moved ==
  ASSUME RefsInv, NEW s \in Slots, NEW o \in Slots, s # o, slot[o].kind # "none",
         slot'[s].kind = slot[o].kind, slot'[s].ref = slot[o].ref,
         slot'[o].kind = slot[o].kind, slot'[o].ref = 0,
         slot' \in [Slots -> SlotType], \A q \in Slots \ {s, o} : slot'[q] = slot[q],
         loose' = loose, lost' = lost, VmKeeps, table' \in [Ids -> RefType],
         TypesAfter({slot[s].ref}, 0, "none")
  PROVE  RefsInv'
<1>t. \A r \in Ids : table'[r].type = IF r = slot[s].ref THEN "none" ELSE table[r].type
  BY ZeroIsNoId DEF TypesAfter
<1>2. RefTypes'
  BY DEF RefsInv, RefTypes, VmKeeps, SlotType, RefType
<1>3. DeadInv'
  BY DEF RefsInv, DeadInv
<1>4. \A q \in Slots : slot[q].ref \in {0} \cup Ids
  BY SlotFacts
<1>5. OwnerInv'
  <2> SUFFICES ASSUME NEW q \in Slots, slot'[q].ref # 0
               PROVE  /\ table'[slot'[q].ref].type = slot'[q].kind
                      /\ slot'[q].ref \notin loose
                      /\ \A u \in Slots : slot'[u].ref = slot'[q].ref => u = q
    BY DEF OwnerInv
  <2>1. PICK x \in Slots : /\ slot'[q].ref = slot[x].ref /\ slot'[q].kind = slot[x].kind
                           /\ x # s /\ x = IF q = s THEN o ELSE q
    OBVIOUS
  <2>2. /\ slot[x].ref \in Ids /\ table[slot[x].ref].type = slot[x].kind
        /\ slot[x].ref \notin loose /\ \A u \in Slots : slot[u].ref = slot[x].ref => u = x
    BY <1>4, <2>1 DEF RefsInv, OwnerInv
  <2>3. slot[x].ref # slot[s].ref
    BY <2>1, <2>2
  <2>4. ASSUME NEW u \in Slots, slot'[u].ref = slot'[q].ref PROVE u = q
    BY <2>1, <2>2, <2>4
  <2> QED
    BY <1>t, <2>1, <2>2, <2>3, <2>4
<1>6. HeldInv'
  <2> SUFFICES ASSUME NEW r \in Ids, table'[r].type # "none"
               PROVE  r \in loose \/ \E q \in Slots : slot'[q].ref = r
    BY DEF HeldInv
  <2>1. r # slot[s].ref /\ table[r].type # "none"
    BY <1>t
  <2>2. r \in loose \/ \E q \in Slots : slot[q].ref = r
    BY <2>1 DEF RefsInv, HeldInv
  <2> QED
    BY <2>1, <2>2
<1>7. LooseInv'
  <2> SUFFICES ASSUME NEW r \in loose PROVE table'[r].type # "none"
    BY DEF LooseInv
  <2>1. r \in Ids /\ table[r].type # "none"
    BY DEF RefsInv, RefTypes, LooseInv
  <2>2. r # slot[s].ref
    BY <2>1, ZeroIsNoId DEF RefsInv, OwnerInv
  <2> QED
    BY <1>t, <2>1, <2>2
<1> QED
  BY <1>2, <1>3, <1>5, <1>6, <1>7 DEF RefsInv, LostInv

-----------------------------------------------------------------------------
(* References: one step per operation *)

\* Nothing is held or given up.
LEMMA RefsQuiet ==
  ASSUME RefsInv, UNCHANGED <<slot, table, loose, lost>>,
         live' \subseteq Objects, rooted' \subseteq Objects, frame' \in Nat
  PROVE  RefsInv'
<1>1. RefTypes'
  BY DEF RefsInv, RefTypes
<1>2. DeadInv' /\ OwnerInv' /\ HeldInv' /\ LooseInv' /\ LostInv'
  BY DEF RefsInv, DeadInv, OwnerInv, HeldInv, LooseInv, LostInv
<1> QED
  BY <1>1, <1>2 DEF RefsInv

\* Where nothing at all changes.
LEMMA KeptStep ==
  ASSUME RefsInv, UNCHANGED <<slot, table, loose, lost>>, VmKeeps
  PROVE  RefsInv'
BY RefsQuiet DEF VmKeeps, RefsInv, RefTypes

\* An entry nobody had, n, comes and is only the caller's or lost.
LEMMA NewLoose ==
  ASSUME RefsInv, NEW n \in Ids, table[n].type = "none",
         NEW k \in Kinds,
         table' \in [Ids -> RefType], \A r \in Ids : table'[r].type = IF r = n THEN k ELSE table[r].type,
         slot' = slot, loose' = loose \cup {n}, lost' \subseteq lost \cup {n},
         live' = live, rooted' = rooted, frame' = frame
  PROVE  RefsInv'
<1>1. ASSUME NEW s \in Slots, slot[s].ref = n PROVE FALSE
  <2>1. slot[s].ref # 0 /\ table[slot[s].ref].type = slot[s].kind
    BY <1>1, ZeroIsNoId DEF RefsInv, OwnerInv
  <2> QED
    BY <1>1, <2>1 DEF RefsInv, DeadInv
<1>2. RefTypes' /\ DeadInv'
  BY DEF RefsInv, RefTypes, RefType, DeadInv
<1>3. OwnerInv'
  <2> SUFFICES ASSUME NEW o \in Slots, slot[o].ref # 0
               PROVE  /\ table'[slot[o].ref].type = slot[o].kind
                      /\ slot[o].ref \notin loose'
                      /\ \A q \in Slots : slot[q].ref = slot[o].ref => q = o
    BY DEF OwnerInv
  <2>1. slot[o].ref \in Ids /\ slot[o].ref # n
    BY <1>1, SlotFacts
  <2> QED
    BY <2>1 DEF RefsInv, OwnerInv
<1>4. HeldInv'
  BY DEF RefsInv, HeldInv
<1>5. LooseInv'
  BY DEF RefsInv, RefTypes, LooseInv, Kinds
<1>6. LostInv'
  BY DEF RefsInv, LostInv
<1> QED
  BY <1>2, <1>3, <1>4, <1>5, <1>6 DEF RefsInv

\* An operation that throws leaves the reference it had made, if any, lost.
LEMMA ThrewStep ==
  ASSUME RefsInv, NEW k \in Kinds, NEW from, NEW new \in newReference(k, from),
         Threw(new.ref, k, from), VmKeeps
  PROVE  RefsInv'
<1>1. PICK n : n = new.ref
  OBVIOUS
<1>2. /\ table' = TableAfter(n, k, from, {}) /\ slot' = slot
      /\ loose' = loose \cup ({n} \ {0}) /\ lost' = lost \cup ({n} \ {0})
  BY <1>1 DEF Threw
<1>3. n = 0 \/ (n \in Ids /\ table[n].type = "none" /\ table[from].obj \in live)
  BY <1>1, NewFacts
<1>4. CASE n = 0
  <2>1. UNCHANGED <<slot, table, loose, lost>>
    BY <1>2, <1>4 DEF TableAfter, RefsInv, RefTypes
  <2> QED
    BY <2>1, KeptStep
<1>5. CASE n # 0
  <2>1. n \in Ids /\ table[n].type = "none" /\ loose' = loose \cup {n} /\ lost' = lost \cup {n}
    BY <1>2, <1>3, <1>5
  <2>2. table' \in [Ids -> RefType] /\ TypesAfter({}, n, k)
    BY <1>2, <1>3, AfterFacts
  <2>3. \A r \in Ids : table'[r].type = IF r = n THEN k ELSE table[r].type
    BY <2>2 DEF TypesAfter
  <2> QED
    BY <1>2, <2>1, <2>2, <2>3, NewLoose DEF VmKeeps
<1> QED
  BY <1>4, <1>5

\* Where no reference had been asked for, none is lost.
LEMMA ThrewNothing ==
  ASSUME RefsInv, Threw(0, "none", 0)
  PROVE  UNCHANGED <<slot, table, loose, lost>>
BY DEF Threw, TableAfter, RefsInv, RefTypes

\* A reference is made for slot s, where none lives.
LEMMA MadeStep ==
  ASSUME RefsInv, NEW s \in Slots, ~Alive(s), NEW k \in Kinds, NEW from,
         NEW new \in newReference(k, from),
         Constructed(s, k, new.ref, from), VmKeeps
  PROVE  RefsInv'
<1>1. PICK n : n = new.ref
  OBVIOUS
<1>2. n = 0 \/ (n \in Ids /\ table[n].type = "none" /\ table[from].obj \in live)
  BY <1>1, NewFacts
<1>a. n \in {0} \cup Ids /\ k \in Kinds \cup {"none"} /\ (n # 0 => table[from].obj \in live)
  BY <1>2
<1>b. table' = TableAfter(n, k, from, {}) /\ loose' = loose /\ lost' = lost
  BY <1>1 DEF Constructed, Done
<1>3. table' \in [Ids -> RefType] /\ TypesAfter({}, n, k)
  BY <1>a, <1>b, AfterFacts
<1>4. slot[s].ref = 0
  BY DEF Alive, RefsInv, DeadInv
<1>5. \A r \in Ids : r # slot[s].ref
  BY <1>4, ZeroIsNoId
<1>6. TypesAfter({slot[s].ref}, n, k)
  BY <1>3, <1>5 DEF TypesAfter
<1>7. n = 0 \/ (n \in Ids /\ table[n].type = "none" /\ k \in Kinds)
  BY <1>2
<1>8. slot' = [slot EXCEPT ![s] = [kind |-> k, ref |-> n]]
  BY <1>1 DEF Constructed
<1> QED
  BY <1>a, <1>b, <1>3, <1>6, <1>7, <1>8, Replaced

\* A null reference is made where none lives.
LEMMA MadeNullStep ==
  ASSUME RefsInv, NEW s \in Slots, ~Alive(s), NEW k \in Kinds, ConstructedNull(s, k), VmKeeps
  PROVE  RefsInv'
<1>1. /\ slot' = [slot EXCEPT ![s] = [kind |-> k, ref |-> 0]] /\ slot[s].ref = 0
      /\ table' = table /\ loose' = loose /\ lost' = lost
  BY DEF ConstructedNull, Done, Alive, RefsInv, DeadInv
<1>2. table' \in [Ids -> RefType] /\ TypesAfter({slot[s].ref}, 0, k)
  BY <1>1, ZeroIsNoId DEF TypesAfter, RefsInv, RefTypes, RefType
<1> QED
  BY <1>1, <1>2, Replaced

\* The constructors that ask the VM for a new reference.
LEMMA ConstructStep ==
  ASSUME RefsInv, NEW s \in Slots,
         \/ \E kind \in Kinds : make_ref(s, kind)
         \/ \E o \in Slots : dynamic_ref_cast(s, o) \/ CopyConstruct(s, o)
                               \/ \E kind \in {"local", "global"} : lock(s, o, kind)
  PROVE  RefsInv'
<1>0. {"local", "global"} \subseteq Kinds
  BY DEF Kinds
<1>1. ASSUME NEW kind \in Kinds, make_ref(s, kind) PROVE RefsInv'
  <2>0. ~Alive(s) /\ VmKeeps
    BY <1>1 DEF make_ref
  <2>1. CASE ConstructedNull(s, kind)
    BY <2>0, <2>1, MadeNullStep
  <2>2. ASSUME NEW from, NEW new \in newReference(kind, from),
               Threw(new.ref, kind, from) \/ Constructed(s, kind, new.ref, from)
        PROVE  RefsInv'
    BY <2>0, <2>2, ThrewStep, MadeStep
  <2> QED
    BY <1>1, <2>1, <2>2 DEF make_ref
<1>2. ASSUME NEW o \in Slots, static_ref_cast(s, o) PROVE RefsInv'
  <2>0. ~Alive(s) /\ VmKeeps /\ slot[o].kind \in Kinds
    BY <1>0, <1>2 DEF static_ref_cast
  <2>1. CASE ConstructedNull(s, slot[o].kind)
    BY <2>0, <2>1, MadeNullStep
  <2>2. ASSUME NEW new \in newReference(slot[o].kind, slot[o].ref),
               UNCHANGED <<slot, table, loose, lost>> \/ Constructed(s, slot[o].kind, new.ref, slot[o].ref)
        PROVE  RefsInv'
    BY <2>0, <2>2, KeptStep, MadeStep
  <2> QED
    BY <1>2, <2>1, <2>2 DEF static_ref_cast
<1>3. ASSUME NEW o \in Slots, dynamic_ref_cast(s, o) PROVE RefsInv'
  <2>1. CASE Threw(0, "none", 0) /\ VmKeeps
    BY <2>1, ThrewNothing, KeptStep
  <2>2. CASE static_ref_cast(s, o)
    BY <1>2, <2>2
  <2> QED
    BY <1>3, <2>1, <2>2 DEF dynamic_ref_cast
<1>4. ASSUME NEW o \in Slots, NEW kind \in Kinds, ~Alive(s), VmKeeps,
             NEW new \in newReference(kind, slot[o].ref),
             Threw(new.ref, kind, slot[o].ref) \/ Constructed(s, kind, new.ref, slot[o].ref)
      PROVE  RefsInv'
  BY <1>4, ThrewStep, MadeStep
<1>5. ASSUME NEW o \in Slots, CopyConstruct(s, o) PROVE RefsInv'
  <2>1. ~Alive(s) /\ VmKeeps /\ slot[o].kind \in Kinds
    BY <1>5, SlotFacts DEF CopyConstruct, Alive
  <2>2. PICK new \in newReference(slot[o].kind, slot[o].ref) :
          \/ Threw(new.ref, slot[o].kind, slot[o].ref)
          \/ Constructed(s, slot[o].kind, new.ref, slot[o].ref)
    BY <1>5 DEF CopyConstruct
  <2> QED
    BY <1>4, <2>1, <2>2
<1>6. ASSUME NEW o \in Slots, NEW kind \in {"local", "global"}, lock(s, o, kind) PROVE RefsInv'
  <2>1. ~Alive(s) /\ VmKeeps /\ kind \in Kinds
    BY <1>0, <1>6 DEF lock
  <2>2. PICK new \in newReference(kind, slot[o].ref) :
          Threw(new.ref, kind, slot[o].ref) \/ Constructed(s, kind, new.ref, slot[o].ref)
    BY <1>6 DEF lock
  <2> QED
    BY <1>4, <2>1, <2>2
<1> QED
  BY <1>1, <1>3, <1>5, <1>6

\* Copy assignment: the new reference is made before the old one is deleted.
LEMMA CopyAssignStep ==
  ASSUME RefsInv, NEW s \in Slots, NEW o \in Slots, CopyAssign(s, o)
  PROVE  RefsInv'
<1>0. slot[s].kind \in Kinds /\ slot[o].kind = slot[s].kind /\ VmKeeps
  BY SlotFacts DEF CopyAssign, Alive
<1>1. PICK new \in newReference(slot[o].kind, slot[o].ref) :
        \/ Threw(new.ref, slot[o].kind, slot[o].ref)
        \/ /\ slot' = [slot EXCEPT ![s].ref = new.ref]
           /\ table' = TableAfter(new.ref, slot[o].kind, slot[o].ref, {slot[s].ref})
           /\ loose' = loose /\ lost' = lost
  BY DEF CopyAssign, Done
<1>2. CASE Threw(new.ref, slot[o].kind, slot[o].ref)
  BY <1>0, <1>2, ThrewStep
<1>3. CASE ~Threw(new.ref, slot[o].kind, slot[o].ref)
  <2>1. PICK n : n = new.ref
    OBVIOUS
  <2>2. n = 0 \/ (n \in Ids /\ table[n].type = "none" /\ table[slot[o].ref].obj \in live)
    BY <2>1, NewFacts
  <2>3. /\ slot' = [slot EXCEPT ![s].ref = n] /\ loose' = loose /\ lost' = lost
        /\ table' = TableAfter(n, slot[s].kind, slot[o].ref, {slot[s].ref})
    BY <1>0, <1>1, <1>3, <2>1
  <2>4. slot' = [slot EXCEPT ![s] = [kind |-> slot[s].kind, ref |-> n]]
    <3>1. slot[s] = [kind |-> slot[s].kind, ref |-> slot[s].ref]
      BY SlotFacts
    <3>2. [slot[s] EXCEPT !.ref = n] = [kind |-> slot[s].kind, ref |-> n]
      BY <3>1
    <3> QED
      BY <2>3, <3>2
  <2>5. table' \in [Ids -> RefType] /\ TypesAfter({slot[s].ref}, n, slot[s].kind)
    <3>1. /\ n \in {0} \cup Ids /\ slot[s].kind \in Kinds \cup {"none"}
          /\ n # 0 => table[slot[o].ref].obj \in live
      BY <1>0, <2>2
    <3> QED
      BY <2>3, <3>1, AfterFacts
  <2>6. /\ n = 0 \/ (n \in Ids /\ table[n].type = "none" /\ slot[s].kind \in Kinds)
        /\ slot[s].kind \in Kinds \cup {"none"}
    BY <1>0, <2>2
  <2> QED
    BY <1>0, <2>3, <2>4, <2>5, <2>6, Replaced
<1> QED
  BY <1>2, <1>3

\* reset and the destructor delete what the slot owned.
LEMMA GivenUpStep ==
  ASSUME RefsInv, NEW s \in Slots, reset(s) \/ Destroy(s)
  PROVE  RefsInv'
<1>1. /\ VmKeeps /\ loose' = loose /\ lost' = lost
      /\ table' = TableAfter(0, "none", 0, {slot[s].ref})
  BY DEF reset, Destroy, Done
<1>2. PICK k \in Kinds \cup {"none"} : slot' = [slot EXCEPT ![s] = [kind |-> k, ref |-> 0]]
  <2>1. slot[s] = [kind |-> slot[s].kind, ref |-> slot[s].ref] /\ slot[s].kind \in Kinds \cup {"none"}
    BY SlotFacts
  <2>2. [slot[s] EXCEPT !.ref = 0] = [kind |-> slot[s].kind, ref |-> 0]
    BY <2>1
  <2>3. CASE reset(s)
    BY <2>1, <2>2, <2>3 DEF reset
  <2>4. CASE Destroy(s)
    BY <2>4 DEF Destroy, Nowhere
  <2> QED
    BY <2>3, <2>4
<1>3. table' \in [Ids -> RefType] /\ TypesAfter({slot[s].ref}, 0, "none")
  <2>1. 0 \in {0} \cup Ids /\ "none" \in Kinds \cup {"none"}
    OBVIOUS
  <2> QED
    BY <1>1, <2>1, AfterFacts
<1>4. \A r \in Ids : r # 0
  BY ZeroIsNoId
<1>5. TypesAfter({slot[s].ref}, 0, k)
  BY <1>3, <1>4 DEF TypesAfter
<1> QED
  BY <1>1, <1>2, <1>3, <1>5, Replaced

\* A move takes the reference over and leaves null.
LEMMA MoveStep ==
  ASSUME RefsInv, NEW s \in Slots, NEW o \in Slots, MoveConstruct(s, o) \/ MoveAssign(s, o)
  PROVE  RefsInv'
<1>0. /\ slot[o].kind \in Kinds /\ slot[o].kind # "none" /\ VmKeeps /\ loose' = loose /\ lost' = lost
      /\ slot[s] = [kind |-> slot[s].kind, ref |-> slot[s].ref]
      /\ slot[o] = [kind |-> slot[o].kind, ref |-> slot[o].ref]
      /\ slot \in [Slots -> SlotType]
  BY SlotFacts DEF MoveConstruct, MoveAssign, Done, Alive, Kinds, RefsInv, RefTypes, SlotType
<1>t. table \in [Ids -> RefType] /\ 0 \notin Ids /\ 0 \in 0..MaxRefs
  BY ZeroIsNoId, RefBoundsAssumption DEF RefsInv, RefTypes, RefType
<1>1. CASE MoveConstruct(s, o)
  <2>1. s # o /\ slot[s].ref = 0
    BY <1>1 DEF MoveConstruct, Alive, RefsInv, DeadInv
  <2>2. slot' = [slot EXCEPT ![s] = slot[o], ![o].ref = 0] /\ table' = table
    BY <1>1 DEF MoveConstruct
  <2>3. /\ slot'[s].kind = slot[o].kind /\ slot'[s].ref = slot[o].ref
        /\ slot'[o].kind = slot[o].kind /\ slot'[o].ref = 0
        /\ slot' \in [Slots -> SlotType] /\ \A q \in Slots \ {s, o} : slot'[q] = slot[q]
    BY <1>0, <1>t, <2>1, <2>2 DEF SlotType
  <2>4. TypesAfter({slot[s].ref}, 0, "none")
    BY <1>t, <2>1, <2>2 DEF TypesAfter
  <2> QED
    BY <1>0, <1>t, <2>1, <2>2, <2>3, <2>4, Moved
<1>2. CASE MoveAssign(s, o) /\ s # o
  <2>1. /\ slot' = [slot EXCEPT ![o].ref = 0, ![s].ref = slot[o].ref]
        /\ table' = TableAfter(0, "none", 0, {slot[s].ref}) /\ slot[o].kind = slot[s].kind
    BY <1>2 DEF MoveAssign
  <2>3. /\ slot'[s].kind = slot[o].kind /\ slot'[s].ref = slot[o].ref
        /\ slot'[o].kind = slot[o].kind /\ slot'[o].ref = 0
        /\ slot' \in [Slots -> SlotType] /\ \A q \in Slots \ {s, o} : slot'[q] = slot[q]
    BY <1>0, <1>2, <1>t, <2>1 DEF SlotType
  <2>4. table' \in [Ids -> RefType] /\ TypesAfter({slot[s].ref}, 0, "none")
    <3>1. 0 \in {0} \cup Ids /\ "none" \in Kinds \cup {"none"}
      OBVIOUS
    <3> QED
      BY <2>1, <3>1, AfterFacts
  <2> QED
    BY <1>0, <1>2, <2>3, <2>4, Moved
<1>3. CASE MoveAssign(s, o) /\ s = o
  <2>1. slot' = slot
    BY <1>0, <1>3 DEF MoveAssign, SlotType
  <2>2. table' = table
    BY <1>3, <1>t DEF MoveAssign, TableAfter
  <2> QED
    BY <1>0, <2>1, <2>2, KeptStep
<1> QED
  BY <1>1, <1>2, <1>3

\* swap exchanges two references of one kind.
LEMMA SwapStep ==
  ASSUME RefsInv, NEW s \in Slots, NEW o \in Slots, swap(s, o)
  PROVE  RefsInv'
<1>1. /\ s # o /\ UNCHANGED <<table, loose, lost>> /\ VmKeeps
      /\ slot'[s] = slot[o] /\ slot'[o] = slot[s] /\ \A q \in Slots \ {s, o} : slot'[q] = slot[q]
      /\ slot' \in [Slots -> SlotType]
  BY DEF swap, Done, RefsInv, RefTypes, SlotType
<1>2. \A q \in Slots : \E x \in Slots : slot'[q] = slot[x] /\ x = IF q = s THEN o ELSE IF q = o THEN s ELSE q
  BY <1>1
<1>3. RefTypes' /\ DeadInv' /\ LooseInv'
  BY <1>1, <1>2 DEF RefsInv, RefTypes, VmKeeps, SlotType, DeadInv, LooseInv
<1>4. OwnerInv'
  <2> SUFFICES ASSUME NEW q \in Slots, slot'[q].ref # 0
               PROVE  /\ table[slot'[q].ref].type = slot'[q].kind
                      /\ slot'[q].ref \notin loose
                      /\ \A u \in Slots : slot'[u].ref = slot'[q].ref => u = q
    BY <1>1 DEF OwnerInv
  <2>1. PICK x \in Slots : slot'[q] = slot[x] /\ x = IF q = s THEN o ELSE IF q = o THEN s ELSE q
    BY <1>2
  <2>2. /\ table[slot[x].ref].type = slot[x].kind
        /\ slot[x].ref \notin loose /\ \A u \in Slots : slot[u].ref = slot[x].ref => u = x
    BY <2>1 DEF RefsInv, OwnerInv
  <2>3. ASSUME NEW u \in Slots, slot'[u].ref = slot'[q].ref PROVE u = q
    <3>1. PICK y \in Slots : slot'[u] = slot[y] /\ y = IF u = s THEN o ELSE IF u = o THEN s ELSE u
      BY <1>2
    <3>2. y = x
      BY <2>1, <2>2, <2>3, <3>1
    <3> QED
      BY <1>1, <2>1, <3>1, <3>2
  <2> QED
    BY <2>1, <2>2, <2>3
<1>5. HeldInv' /\ LostInv'
  BY <1>1 DEF RefsInv, HeldInv, LostInv
<1> QED
  BY <1>3, <1>4, <1>5 DEF RefsInv

\* The caller's reference r becomes the one of slot s.
LEMMA AdoptStep ==
  ASSUME RefsInv, NEW s \in Slots, NEW kind \in Kinds, Adopt(s, kind)
  PROVE  RefsInv'
<1>1. PICK r \in (loose \ lost) \cup {0} : /\ r # 0 => table[r].type = kind
                                           /\ slot' = [slot EXCEPT ![s] = [kind |-> kind, ref |-> r]]
                                           /\ loose' = loose \ {r}
  BY DEF Adopt
<1>2. /\ table' = table /\ lost' = lost /\ VmKeeps
      /\ slot[s].kind = "none" /\ slot[s].ref = 0
  BY DEF Adopt, Done, Alive, RefsInv, DeadInv
<1>3. r \in {0} \cup Ids /\ (r # 0 => r \in loose) /\ r \notin lost
  BY <1>1, ZeroIsNoId DEF RefsInv, RefTypes, LostInv
<1>4. /\ slot'[s].kind = kind /\ slot'[s].ref = r
      /\ \A o \in Slots \ {s} : slot'[o] = slot[o]
      /\ slot' \in [Slots -> SlotType]
  BY <1>1, <1>3, ZeroIsNoId DEF RefsInv, RefTypes, SlotType
<1>5. RefTypes'
  BY <1>1, <1>2, <1>4 DEF RefsInv, RefTypes, VmKeeps, SlotType
<1>6. DeadInv'
  BY <1>4 DEF RefsInv, DeadInv, Kinds
<1>7. LooseInv' /\ LostInv'
  BY <1>1, <1>2, <1>3 DEF RefsInv, LooseInv, LostInv
<1>8. OwnerInv'
  <2> SUFFICES ASSUME NEW o \in Slots, slot'[o].ref # 0
               PROVE  /\ table[slot'[o].ref].type = slot'[o].kind
                      /\ slot'[o].ref \notin loose'
                      /\ \A q \in Slots : slot'[q].ref = slot'[o].ref => q = o
    BY <1>2 DEF OwnerInv
  <2>1. \A q \in Slots : slot[q].ref # 0 => slot[q].ref # r
    BY <1>3 DEF RefsInv, OwnerInv
  <2>2. CASE o = s
    BY <1>1, <1>4, <2>1, <2>2
  <2>3. CASE o # s
    BY <1>1, <1>4, <2>1, <2>3 DEF RefsInv, OwnerInv
  <2> QED
    BY <2>2, <2>3
<1>9. HeldInv'
  <2> SUFFICES ASSUME NEW q \in Ids, table[q].type # "none"
               PROVE  q \in loose' \/ \E o \in Slots : slot'[o].ref = q
    BY <1>2 DEF HeldInv
  <2>1. q # 0 /\ (q \in loose \/ \E o \in Slots : slot[o].ref = q)
    BY ZeroIsNoId DEF RefsInv, HeldInv
  <2> QED
    BY <1>1, <1>2, <1>4, <2>1
<1> QED
  BY <1>5, <1>6, <1>7, <1>8, <1>9 DEF RefsInv

\* release hands the reference to the caller.
LEMMA ReleaseStep ==
  ASSUME RefsInv, NEW s \in Slots, release(s)
  PROVE  RefsInv'
<1>0. slot[s] = [kind |-> slot[s].kind, ref |-> slot[s].ref] /\ slot[s].ref \in Ids
  BY SlotFacts DEF release
<1>1. /\ table' = table /\ VmKeeps /\ slot[s].ref # 0 /\ loose' = loose \cup {slot[s].ref}
      /\ slot' = [slot EXCEPT ![s].ref = 0] /\ slot[s].kind # "none" /\ lost' = lost
  BY DEF release, Done, Alive
<1>2. /\ slot'[s].kind = slot[s].kind /\ slot'[s].ref = 0
      /\ \A o \in Slots \ {s} : slot'[o] = slot[o]
      /\ slot' \in [Slots -> SlotType]
  BY <1>0, <1>1, ZeroIsNoId DEF RefsInv, RefTypes, SlotType
<1>3. RefTypes'
  BY <1>0, <1>1, <1>2 DEF RefsInv, RefTypes, VmKeeps, SlotType
<1>4. DeadInv'
  BY <1>2 DEF RefsInv, DeadInv
<1>5. table[slot[s].ref].type # "none" /\ \A o \in Slots : slot[o].ref = slot[s].ref => o = s
  BY <1>1 DEF RefsInv, OwnerInv
<1>6. LooseInv' /\ LostInv'
  BY <1>1, <1>5 DEF RefsInv, LooseInv, LostInv
<1>7. OwnerInv'
  <2> SUFFICES ASSUME NEW o \in Slots, slot'[o].ref # 0
               PROVE  /\ table[slot'[o].ref].type = slot'[o].kind
                      /\ slot'[o].ref \notin loose'
                      /\ \A q \in Slots : slot'[q].ref = slot'[o].ref => q = o
    BY <1>1 DEF OwnerInv
  <2>1. o # s /\ slot'[o] = slot[o]
    BY <1>2
  <2>2. /\ table[slot[o].ref].type = slot[o].kind /\ slot[o].ref \notin loose
        /\ \A q \in Slots : slot[q].ref = slot[o].ref => q = o
    BY <2>1 DEF RefsInv, OwnerInv
  <2> QED
    BY <1>1, <1>2, <1>5, <2>1, <2>2
<1>8. HeldInv'
  BY <1>1, <1>2 DEF RefsInv, HeldInv
<1> QED
  BY <1>3, <1>4, <1>6, <1>7, <1>8 DEF RefsInv

\* References that no slot owns go, from the tables and from the caller.
LEMMA Dropped ==
  ASSUME RefsInv, NEW gone, \A s \in Slots : slot[s].ref \notin gone,
         slot' = slot, loose' = loose \ gone, lost' \subseteq lost, lost' \cap gone = {},
         live' \subseteq Objects, rooted' \subseteq Objects, frame' \in Nat,
         table' \in [Ids -> RefType],
         TypesAfter(gone, 0, "none")
  PROVE  RefsInv'
<1>t. \A r \in Ids : table'[r].type = IF r \in gone THEN "none" ELSE table[r].type
  BY ZeroIsNoId DEF TypesAfter
<1>1. RefTypes'
  BY DEF RefsInv, RefTypes, RefType
<1>2. DeadInv'
  BY DEF RefsInv, DeadInv
<1>3. OwnerInv'
  <2> SUFFICES ASSUME NEW o \in Slots, slot[o].ref # 0
               PROVE  /\ table'[slot[o].ref].type = slot[o].kind
                      /\ slot[o].ref \notin loose'
                      /\ \A q \in Slots : slot[q].ref = slot[o].ref => q = o
    BY DEF OwnerInv
  <2>1. slot[o].ref \in Ids
    BY SlotFacts
  <2> QED
    BY <1>t, <2>1 DEF RefsInv, OwnerInv
<1>4. HeldInv'
  BY <1>t DEF RefsInv, HeldInv
<1>5. LooseInv' /\ LostInv'
  BY <1>t DEF RefsInv, RefTypes, LooseInv, LostInv
<1> QED
  BY <1>1, <1>2, <1>3, <1>4, <1>5 DEF RefsInv

\* The VM drops the local references of the frame that ends.
LEMMA PopStep ==
  ASSUME RefsInv, PopLocalFrame
  PROVE  RefsInv'
<1> DEFINE dying == {r \in Ids : table[r].type = "local" /\ table[r].frame = frame}
<1>1. /\ frame > 0 /\ \A s \in Slots : slot[s].ref \notin dying
      /\ table' = TableAfter(0, "none", 0, dying)
      /\ loose' = loose \ dying /\ lost' = lost \ dying
      /\ frame' = frame - 1 /\ UNCHANGED <<slot, live, rooted>>
  BY DEF PopLocalFrame
<1> HIDE DEF dying
<1>2. frame' \in Nat /\ live' \subseteq Objects /\ rooted' \subseteq Objects
  BY <1>1 DEF RefsInv, RefTypes
<1>3. table' \in [Ids -> RefType] /\ TypesAfter(dying, 0, "none")
  BY <1>1, AfterFacts
<1> QED
  BY <1>1, <1>2, <1>3, Dropped

\* The caller deletes a plain reference.
LEMMA DeleteLooseStep ==
  ASSUME RefsInv, NEW r \in Ids, DeleteLoose(r)
  PROVE  RefsInv'
<1>1. /\ r \in loose /\ table' = [table EXCEPT ![r] = NoRef] /\ loose' = loose \ {r}
      /\ r \notin lost /\ UNCHANGED <<slot, lost, live, rooted, frame>>
  BY DEF DeleteLoose, Done
<1>2. \A s \in Slots : slot[s].ref \notin {r}
  BY <1>1, ZeroIsNoId DEF RefsInv, OwnerInv
<1>3. NoRef \in RefType /\ NoRef.type = "none"
  BY DEF NoRef, RefType
<1>4. table \in [Ids -> RefType]
  BY DEF RefsInv, RefTypes, RefType
<1>5. table' \in [Ids -> RefType] /\ TypesAfter({r}, 0, "none")
  BY <1>1, <1>3, <1>4, ZeroIsNoId DEF TypesAfter
<1>6. live' \subseteq Objects /\ rooted' \subseteq Objects /\ frame' \in Nat
  BY <1>1 DEF RefsInv, RefTypes
<1> QED
  BY <1>1, <1>2, <1>5, <1>6, Dropped

\* A JNI call returns a plain reference.
LEMMA ReturnStep ==
  ASSUME RefsInv, NEW x \in Objects, JniReturns(x)
  PROVE  RefsInv'
<1>1. PICK n : n = Fresh
  OBVIOUS
<1>2. n \in Ids /\ table[n].type = "none"
  BY <1>1, FreshFree DEF JniReturns
<1>3. /\ table' = [table EXCEPT ![n] = [type |-> "local", obj |-> x, frame |-> frame]]
      /\ loose' = loose \cup {n} /\ UNCHANGED <<slot, lost, live, rooted, frame>>
  BY <1>1 DEF JniReturns, Done
<1>4. table \in [Ids -> RefType] /\ [type |-> "local", obj |-> x, frame |-> frame] \in RefType
  BY DEF RefsInv, RefTypes, RefType, Kinds
<1>5. /\ table' \in [Ids -> RefType]
      /\ \A q \in Ids : table'[q].type = IF q = n THEN "local" ELSE table[q].type
  BY <1>2, <1>3, <1>4
<1>6. "local" \in Kinds /\ lost' \subseteq lost \cup {n}
  BY <1>3 DEF Kinds
<1> QED
  BY <1>2, <1>3, <1>5, <1>6, NewLoose

\* A new local frame, an exception that comes or is thrown, and what Java and
\* the collector do, touch no reference.
LEMMA QuietStep ==
  ASSUME RefsInv,
         \/ PushLocalFrame \/ CallUnchecked \/ ThrowPending
         \/ \E x \in Objects : JavaDrops(x) \/ Collect(x)
  PROVE  RefsInv'
<1>1. UNCHANGED <<slot, table, loose, lost>>
  <2>1. CASE Threw(0, "none", 0)
    BY <2>1, ThrewNothing
  <2> QED
    BY <2>1 DEF PushLocalFrame, Done, CallUnchecked, ThrowPending, JavaDrops, Collect
<1>2. live' \subseteq Objects /\ rooted' \subseteq Objects /\ frame' \in Nat
  BY DEF PushLocalFrame, CallUnchecked, ThrowPending, VmKeeps, JavaDrops, Collect, RefsInv, RefTypes
<1> QED
  BY <1>1, <1>2, RefsQuiet

-----------------------------------------------------------------------------
(* References: the theorems *)

\* No references at first.
LEMMA RefsInitially ==
  ASSUME RefsInit
  PROVE  RefsInv
<1>1. RefTypes
  BY RefBoundsAssumption DEF RefsInit, RefTypes, Nowhere, NoRef
<1>2. DeadInv /\ OwnerInv
  BY DEF RefsInit, DeadInv, OwnerInv, Nowhere
<1>3. HeldInv /\ LooseInv /\ LostInv
  BY DEF RefsInit, HeldInv, LooseInv, LostInv, NoRef
<1> QED
  BY <1>1, <1>2, <1>3 DEF RefsInv

\* Every operation on references keeps the invariant.
LEMMA RefsStep ==
  ASSUME RefsInv, [RefsNext]_refVars
  PROVE  RefsInv'
<1>1. CASE UNCHANGED refVars
  BY <1>1, KeptStep DEF refVars, VmKeeps
<1>2. ASSUME NEW s \in Slots, NEW kind \in Kinds, Adopt(s, kind) \/ make_ref(s, kind) PROVE RefsInv'
  BY <1>2, AdoptStep, ConstructStep
<1>3. ASSUME NEW s \in Slots, release(s) \/ reset(s) \/ Destroy(s) PROVE RefsInv'
  BY <1>3, ReleaseStep, GivenUpStep
<1>4. ASSUME NEW s \in Slots, NEW o \in Slots,
             \/ dynamic_ref_cast(s, o) \/ CopyConstruct(s, o) \/ MoveConstruct(s, o)
             \/ CopyAssign(s, o) \/ MoveAssign(s, o) \/ swap(s, o)
             \/ \E kind \in {"local", "global"} : lock(s, o, kind)
      PROVE  RefsInv'
  BY <1>4, ConstructStep, MoveStep, CopyAssignStep, SwapStep
<1>5. ASSUME PushLocalFrame \/ PopLocalFrame \/ CallUnchecked \/ ThrowPending PROVE RefsInv'
  BY <1>5, QuietStep, PopStep
<1>6. ASSUME NEW x \in Objects, JniReturns(x) \/ JavaDrops(x) \/ Collect(x) PROVE RefsInv'
  BY <1>6, ReturnStep, QuietStep
<1>7. ASSUME NEW r \in Ids, DeleteLoose(r) PROVE RefsInv'
  BY <1>7, DeleteLooseStep
<1> QED
  BY <1>1, <1>2, <1>3, <1>4, <1>5, <1>6, <1>7 DEF RefsNext

\* One holder: the slots that have r are none if the caller has it, else one.
LEMMA OneHolder ==
  ASSUME RefsInv
  PROVE  OwnedOnce
<1>1. \A s \in Slots : slot[s].ref # 0 => table[slot[s].ref].type = slot[s].kind
  BY DEF RefsInv, OwnerInv
<1>2. loose \subseteq Used /\ lost \subseteq loose
  BY DEF RefsInv, RefTypes, LooseInv, LostInv, Used
<1>3. ASSUME NEW r \in Used
      PROVE  Cardinality({s \in Slots : slot[s].ref = r}) + (IF r \in loose THEN 1 ELSE 0) = 1
  <2>0. r \in Ids /\ r # 0 /\ table[r].type # "none"
    BY ZeroIsNoId DEF Used
  <2>1. CASE r \in loose
    <3>1. {s \in Slots : slot[s].ref = r} = {}
      BY <2>0, <2>1 DEF RefsInv, OwnerInv
    <3> QED
      BY <2>1, <3>1, FS_EmptySet
  <2>2. CASE r \notin loose
    <3>1. PICK s \in Slots : slot[s].ref = r
      BY <2>0, <2>2 DEF RefsInv, HeldInv
    <3>2. {o \in Slots : slot[o].ref = r} = {s}
      BY <2>0, <3>1 DEF RefsInv, OwnerInv
    <3>3. Cardinality({s}) = 1
      BY FS_Singleton
    <3> QED
      BY <2>2, <3>2, <3>3
  <2> QED
    BY <2>1, <2>2
<1> QED
  BY <1>1, <1>2, <1>3 DEF OwnedOnce

\* However many reference objects, references and local frames there are, and
\* through every copy, move, self-assignment, swap, cast, release and failure
\* of fbjni's References, every reference of the VM's tables has exactly one
\* owner or is loose, and an owner's reference exists and is of the owner's kind.
THEOREM ReferencesOwnedOnce == RefsSpec => []OwnedOnce
<1>1. RefsInit => RefsInv
  BY RefsInitially
<1>2. RefsInv /\ [RefsNext]_refVars => RefsInv'
  BY RefsStep
<1>3. RefsInv => OwnedOnce
  BY OneHolder
<1> QED
  BY <1>1, <1>2, <1>3, PTL DEF RefsSpec

-----------------------------------------------------------------------------
(* References: failures *)

\* How a step ends: with the references untouched, well, or with a throw.
Ends(how) == outcome' = how /\ lost' = lost /\ UNCHANGED <<slot, table, loose>>

GoesWell == outcome' = "ok" /\ lost' \subseteq lost

Fails ==
    /\ outcome' = "thrown" /\ ~raised'
    /\ slot' = slot /\ loose' \ lost' = loose \ lost
    /\ \A r \in Used : table'[r] = table[r]
    /\ ~raised => table' = table /\ lost' = lost

\* An exception is thrown, and the reference made before is a fresh one.
LEMMA ThrewFails ==
  ASSUME RefsInv, NEW k, NEW from, NEW new \in newReference(k, from), Threw(new.ref, k, from),
         new.thrown \/ new.ref = 0
  PROVE  Fails
<1>1. PICK n : n = new.ref
  OBVIOUS
<1>2. /\ table' = TableAfter(n, k, from, {}) /\ slot' = slot /\ ~raised' /\ outcome' = "thrown"
      /\ loose' = loose \cup ({n} \ {0}) /\ lost' = lost \cup ({n} \ {0})
  BY <1>1 DEF Threw
<1>3. n = 0 \/ (n \in Ids /\ table[n].type = "none")
  BY <1>1, NewFacts
<1>4. ~raised => n = 0
  BY <1>1 DEF newReference
<1>5. n \notin loose
  BY <1>3, ZeroIsNoId DEF RefsInv, RefTypes, LooseInv
<1>6. loose' \ lost' = loose \ lost
  BY <1>2, <1>5
<1>7. \A r \in Used : table'[r] = table[r]
  BY <1>2, <1>3 DEF TableAfter, Used
<1>8. ~raised => table' = table /\ lost' = lost
  BY <1>2, <1>4 DEF TableAfter, RefsInv, RefTypes
<1> QED
  BY <1>2, <1>6, <1>7, <1>8 DEF Fails

\* The same where no reference had been asked for.
LEMMA ThrewNothingFails ==
  ASSUME RefsInv, Threw(0, "none", 0)
  PROVE  Fails
BY ThrewNothing DEF Threw, Fails

\* Every step on references goes well, fails, ends the process or is another's.
LEMMA StepEnds ==
  ASSUME RefsInv, RefsNext
  PROVE  GoesWell \/ Fails \/ Ends("terminated") \/ Ends(outcome)
<1>1. ASSUME NEW s \in Slots, NEW kind \in Kinds, Adopt(s, kind) \/ make_ref(s, kind)
      PROVE  GoesWell \/ Fails
  <2>1. CASE Adopt(s, kind)
    BY <2>1 DEF Adopt, Done, GoesWell
  <2>2. CASE make_ref(s, kind)
    <3>1. CASE ConstructedNull(s, kind)
      BY <3>1 DEF ConstructedNull, Done, GoesWell
    <3>2. ASSUME NEW from, NEW new \in newReference(kind, from),
                 IF new.thrown \/ new.ref = 0 THEN Threw(new.ref, kind, from)
                 ELSE Constructed(s, kind, new.ref, from)
          PROVE  GoesWell \/ Fails
      BY <3>2, ThrewFails DEF Constructed, Done, GoesWell
    <3> QED
      BY <2>2, <3>1, <3>2 DEF make_ref
  <2> QED
    BY <1>1, <2>1, <2>2
<1>2. ASSUME NEW s \in Slots, release(s) \/ reset(s) \/ Destroy(s)
      PROVE  GoesWell
  BY <1>2 DEF release, reset, Destroy, Done, GoesWell
<1>3. ASSUME NEW s \in Slots, NEW o \in Slots, dynamic_ref_cast(s, o)
      PROVE  GoesWell \/ Fails \/ Ends("terminated")
  <2>1. CASE Threw(0, "none", 0)
    BY <2>1, ThrewNothingFails
  <2>2. CASE static_ref_cast(s, o)
    BY <2>2 DEF static_ref_cast, Constructed, ConstructedNull, Done, GoesWell, Ends
  <2> QED
    BY <1>3, <2>1, <2>2 DEF dynamic_ref_cast
<1>4. ASSUME NEW s \in Slots, NEW o \in Slots,
             \/ CopyConstruct(s, o) \/ CopyAssign(s, o)
             \/ \E kind \in {"local", "global"} : lock(s, o, kind)
      PROVE  GoesWell \/ Fails
  <2>1. ASSUME NEW kind, NEW from, NEW new \in newReference(kind, from),
               new.thrown, Threw(new.ref, kind, from)
        PROVE  Fails
    BY <2>1, ThrewFails
  <2>2. CASE CopyConstruct(s, o)
    BY <2>1, <2>2 DEF CopyConstruct, Constructed, Done, GoesWell
  <2>3. CASE CopyAssign(s, o)
    BY <2>1, <2>3 DEF CopyAssign, Done, GoesWell
  <2>4. ASSUME NEW kind \in {"local", "global"}, lock(s, o, kind) PROVE GoesWell \/ Fails
    BY <2>1, <2>4 DEF lock, Constructed, Done, GoesWell
  <2> QED
    BY <1>4, <2>2, <2>3, <2>4
<1>5. ASSUME NEW s \in Slots, NEW o \in Slots, MoveConstruct(s, o) \/ MoveAssign(s, o) \/ swap(s, o)
      PROVE  GoesWell
  BY <1>5 DEF MoveConstruct, MoveAssign, swap, Done, GoesWell
<1>6. ASSUME PushLocalFrame \/ PopLocalFrame \/ CallUnchecked \/ ThrowPending
      PROVE  GoesWell \/ Fails
  <2>1. CASE Threw(0, "none", 0)
    BY <2>1, ThrewNothingFails
  <2> QED
    BY <1>6, <2>1 DEF PushLocalFrame, PopLocalFrame, CallUnchecked, ThrowPending, Done, GoesWell
<1>7. ASSUME NEW x \in Objects, JniReturns(x) \/ JavaDrops(x) \/ Collect(x)
      PROVE  GoesWell \/ Ends(outcome)
  BY <1>7 DEF JniReturns, JavaDrops, Collect, Done, GoesWell, Ends
<1>8. ASSUME NEW r \in Ids, DeleteLoose(r) PROVE GoesWell
  BY <1>8 DEF DeleteLoose, Done, GoesWell
<1> QED
  BY <1>1, <1>2, <1>3, <1>4, <1>5, <1>6, <1>7, <1>8 DEF RefsNext

\* Nothing fails half way: an operation of References that throws, or that ends
\* the process in a noexcept cast, leaves every owner and every reference as it
\* was, and operator= gives the old reference up only once the copy exists.
\* Only where an exception was pending before is a new reference made and lost.
THEOREM FailureChangesNothing == RefsSpec => ThrowChangesNothing
<1> DEFINE Right ==
      /\ outcome' \in {"thrown", "terminated"} =>
            /\ slot' = slot /\ loose' \ lost' = loose \ lost
            /\ \A r \in Used : table'[r] = table[r]
            /\ ~raised => table' = table
      /\ lost' \subseteq lost \/ (raised /\ ~raised' /\ outcome' = "thrown")
<1>1. RefsInit => RefsInv
  BY RefsInitially
<1>2. RefsInv /\ [RefsNext]_refVars => RefsInv'
  BY RefsStep
<1>3. RefsInv /\ [RefsNext]_refVars => [Right]_refVars
  <2> SUFFICES ASSUME RefsInv, RefsNext PROVE Right
    OBVIOUS
  <2>1. CASE GoesWell
    BY <2>1 DEF GoesWell
  <2>2. CASE Fails
    BY <2>2 DEF Fails
  <2>3. CASE Ends("terminated") \/ Ends(outcome)
    BY <2>3 DEF Ends
  <2> QED
    BY <2>1, <2>2, <2>3, StepEnds
<1> QED
  BY <1>1, <1>2, <1>3, PTL DEF RefsSpec, ThrowChangesNothing

-----------------------------------------------------------------------------
(* Crossings: the inductive invariant, on the frames of one thread *)

FrameType == [kind : {"java", "native", "scope", "ext"}, flag : BOOLEAN,
              env : BOOLEAN, attached : BOOLEAN]

\* The frame attached the thread, and will detach it.
Attacher(f) == f.flag /\ f.kind \in {"scope", "ext"}

\* The frame cached the env, and will clear it.
Cacher(f) == f.flag /\ f.kind = "native"

FrameOK(f) ==
    /\ f.attached <=> (f.kind = "scope" /\ f.flag)
    /\ f.env => f.kind \in {"native", "scope"} /\ f.flag
    /\ f.kind = "java" => ~f.flag

FramesOK(q) == q \in Seq(FrameType) /\ \A i \in 1..Len(q) : FrameOK(q[i])

\* At most one frame attached the thread, no Java is below that frame, and
\* Java is on the stack of an attached thread only.
AttachOK(java, ensured, att, q) ==
    /\ att <=> (java \/ ensured \/ \E i \in 1..Len(q) : Attacher(q[i]))
    /\ \A i \in 1..Len(q) : Attacher(q[i]) =>
          /\ ~java /\ ~ensured
          /\ \A j \in 1..Len(q) : Attacher(q[j]) => j = i
          /\ \A j \in 1..Len(q) : j < i => q[j].kind \notin {"java", "native"}
    /\ \A i \in 1..Len(q) : q[i].kind \in {"java", "native"} => att

\* tls is the one frame with a record.  At most one frame cached the env: into
\* its own record, or into that of a scope below it.
CacheOK(tls, q) ==
    /\ tls \in 0..Len(q)
    /\ \A i \in 1..Len(q) : (q[i].env \/ q[i].attached) <=> i = tls
    /\ \A i \in 1..Len(q) : Cacher(q[i]) =>
          /\ tls # 0 /\ q[tls].env /\ tls <= i
          /\ tls < i => q[tls].attached
          /\ \A j \in 1..Len(q) : Cacher(q[j]) => j = i
    /\ tls # 0 /\ q[tls].env => \E i \in 1..Len(q) : Cacher(q[i])

ThreadShape(s) ==
    /\ s = [java |-> s.java, att |-> s.att, tls |-> s.tls, stack |-> s.stack,
            cpp |-> s.cpp, pending |-> s.pending, ensured |-> s.ensured]
    /\ s.java \in BOOLEAN /\ s.att \in BOOLEAN /\ s.ensured \in BOOLEAN

ThreadOK(s) ==
    /\ ThreadShape(s)
    /\ FramesOK(s.stack)
    /\ AttachOK(s.java, s.ensured, s.att, s.stack)
    /\ CacheOK(s.tls, s.stack)

CallsInv ==
    /\ ~asserted
    /\ th = [t \in Threads |-> th[t]]
    /\ \A t \in Threads : ThreadOK(th[t]) /\ (th[t].stack # <<>> => vm)

-----------------------------------------------------------------------------
(* Crossings: a frame is pushed or popped *)

\* p is q with the frame f on top.
Grown(p, q, f) ==
    /\ p \in Seq(FrameType) /\ q \in Seq(FrameType) /\ f \in FrameType
    /\ Len(q) \in Nat /\ Len(p) = Len(q) + 1
    /\ \A i \in 1..Len(q) : p[i] = q[i]
    /\ p[Len(p)] = f

\* Pushing a frame makes a stack that is one frame longer.
LEMMA AppendGrows ==
  ASSUME NEW q \in Seq(FrameType), NEW f \in FrameType
  PROVE  Grown(Append(q, f), q, f)
BY DEF Grown

\* Popping a frame leaves the stack below it.
LEMMA FrontShrinks ==
  ASSUME NEW q \in Seq(FrameType), q # <<>>
  PROVE  Grown(q, SubSeq(q, 1, Len(q) - 1), q[Len(q)]) /\ Len(q) \in 1..Len(q)
<1>1. Len(q) \in Nat /\ Len(q) # 0
  OBVIOUS
<1>2. PICK n \in Nat : Len(q) = n + 1
  BY <1>1
<1>3. /\ SubSeq(q, 1, n) \in Seq(FrameType) /\ Len(SubSeq(q, 1, n)) = n
      /\ \A i \in 1..n : SubSeq(q, 1, n)[i] = q[i]
  BY <1>2
<1>4. q[n + 1] \in FrameType
  BY <1>2
<1>5. Len(q) - 1 = n /\ n + 1 \in 1..(n + 1)
  BY <1>2
<1> QED
  BY <1>2, <1>3, <1>4, <1>5 DEF Grown

\* A stack is sound exactly when its top and the rest are.
LEMMA GrownFrames ==
  ASSUME NEW p, NEW q, NEW f, Grown(p, q, f)
  PROVE  FramesOK(p) <=> FramesOK(q) /\ FrameOK(f)
<1>1. PICK n \in Nat : Len(q) = n /\ Len(p) = n + 1
  BY DEF Grown
<1>2. 1..(n + 1) = 1..n \cup {n + 1}
  OBVIOUS
<1> QED
  BY <1>1, <1>2 DEF Grown, FramesOK

\* A frame that attached nothing may be pushed on an attached thread.
LEMMA PushPlainAttach ==
  ASSUME NEW p, NEW q, NEW f, Grown(p, q, f), NEW java, NEW ensured, NEW att,
         AttachOK(java, ensured, att, q), ~Attacher(f), f.kind \in {"java", "native"} => att
  PROVE  AttachOK(java, ensured, att, p)
<1>1. PICK n \in Nat : Len(q) = n /\ Len(p) = n + 1
  BY DEF Grown
<1>2. 1..(n + 1) = 1..n \cup {n + 1} /\ \A j \in 1..n : ~ (n + 1 < j)
  OBVIOUS
<1>3. p[n + 1] = f /\ \A i \in 1..n : p[i] = q[i]
  BY <1>1 DEF Grown
<1> QED
  BY <1>1, <1>2, <1>3 DEF AttachOK

\* The frame that attaches is pushed on a thread that is not attached.
LEMMA PushAttacher ==
  ASSUME NEW p, NEW q, NEW f, Grown(p, q, f), NEW java, NEW ensured,
         AttachOK(java, ensured, FALSE, q), Attacher(f)
  PROVE  AttachOK(java, ensured, TRUE, p)
<1>1. PICK n \in Nat : Len(q) = n /\ Len(p) = n + 1
  BY DEF Grown
<1>2. 1..(n + 1) = 1..n \cup {n + 1}
  OBVIOUS
<1>3. p[n + 1] = f /\ \A i \in 1..n : p[i] = q[i]
  BY <1>1 DEF Grown
<1>4. ~java /\ ~ensured /\ \A i \in 1..n : ~Attacher(q[i]) /\ q[i].kind \notin {"java", "native"}
  BY <1>1 DEF AttachOK
<1>5. \A i \in 1..n : ~Attacher(p[i]) /\ p[i].kind \notin {"java", "native"}
  BY <1>3, <1>4
<1>6. Attacher(p[n + 1]) /\ n + 1 \in 1..(n + 1)
  BY <1>3
<1>7. \A j \in 1..(n + 1) : (j < n + 1 => j \in 1..n) /\ (j \notin 1..n => j = n + 1)
  OBVIOUS
<1> QED
  BY <1>1, <1>4, <1>5, <1>6, <1>7 DEF AttachOK

\* A frame that attached nothing may be popped.
LEMMA PopPlainAttach ==
  ASSUME NEW p, NEW q, NEW f, Grown(p, q, f), NEW java, NEW ensured, NEW att,
         AttachOK(java, ensured, att, p), ~Attacher(f)
  PROVE  AttachOK(java, ensured, att, q)
<1>1. PICK n \in Nat : Len(q) = n /\ Len(p) = n + 1
  BY DEF Grown
<1>2. 1..(n + 1) = 1..n \cup {n + 1}
  OBVIOUS
<1>3. p[n + 1] = f /\ \A i \in 1..n : p[i] = q[i]
  BY <1>1 DEF Grown
<1> QED
  BY <1>1, <1>2, <1>3 DEF AttachOK

\* Whoever attached the thread may detach it: no Java is left on its stack.
LEMMA PopAttacher ==
  ASSUME NEW p, NEW q, NEW f, Grown(p, q, f), NEW java, NEW ensured, NEW att,
         AttachOK(java, ensured, att, p), Attacher(f)
  PROVE  /\ AttachOK(java, ensured, FALSE, q) /\ ~java /\ ~ensured
         /\ \A i \in 1..Len(q) : q[i].kind \notin {"java", "native"}
<1>1. PICK n \in Nat : Len(q) = n /\ Len(p) = n + 1
  BY DEF Grown
<1>2. \A j \in 1..n : j \in 1..(n + 1) /\ j < n + 1 /\ j # n + 1
  OBVIOUS
<1>3. p[n + 1] = f /\ (\A i \in 1..n : p[i] = q[i]) /\ n + 1 \in 1..(n + 1)
  BY <1>1 DEF Grown
<1>4. /\ ~java /\ ~ensured
      /\ \A j \in 1..n : ~Attacher(q[j]) /\ q[j].kind \notin {"java", "native"}
  BY <1>1, <1>2, <1>3 DEF AttachOK
<1> QED
  BY <1>1, <1>4 DEF AttachOK

\* A frame without a record leaves the cached env to those below.
LEMMA PushPlainCache ==
  ASSUME NEW p, NEW q, NEW f, Grown(p, q, f), NEW tls, CacheOK(tls, q),
         ~Cacher(f), ~f.env, ~f.attached
  PROVE  CacheOK(tls, p)
<1>1. PICK n \in Nat : Len(q) = n /\ Len(p) = n + 1
  BY DEF Grown
<1>2. 1..(n + 1) = 1..n \cup {n + 1} /\ n + 1 \notin 0..n /\ 0..n \subseteq 0..(n + 1)
  OBVIOUS
<1>3. p[n + 1] = f /\ \A i \in 1..n : p[i] = q[i]
  BY <1>1 DEF Grown
<1>4. tls \in 0..n /\ (tls # 0 => tls \in 1..n)
  BY <1>1 DEF CacheOK
<1>5. tls # 0 => p[tls] = q[tls]
  BY <1>3, <1>4
<1> QED
  BY <1>1, <1>2, <1>3, <1>4, <1>5 DEF CacheOK

\* A frame with a record of its own, the first one.
LEMMA PushOwnRecord ==
  ASSUME NEW p, NEW q, NEW f, Grown(p, q, f), CacheOK(0, q), FramesOK(q),
         f.env \/ f.attached, Cacher(f) <=> f.env
  PROVE  CacheOK(Len(q) + 1, p)
<1>1. PICK n \in Nat : Len(q) = n /\ Len(p) = n + 1
  BY DEF Grown
<1>2. 1..(n + 1) = 1..n \cup {n + 1} /\ n + 1 \notin 1..n /\ n + 1 \in 0..(n + 1) /\ n + 1 # 0
  OBVIOUS
<1>3. p[n + 1] = f /\ \A i \in 1..n : p[i] = q[i]
  BY <1>1 DEF Grown
<1>4. \A i \in 1..n : ~q[i].env /\ ~q[i].attached /\ ~Cacher(q[i]) /\ i # 0
  BY <1>1 DEF CacheOK
<1>5. \A i \in 1..n : ~p[i].env /\ ~p[i].attached /\ ~Cacher(p[i])
  BY <1>3, <1>4
<1>6. n + 1 <= n + 1 /\ ~ (n + 1 < n + 1)
  OBVIOUS
<1> QED
  BY <1>1, <1>2, <1>3, <1>5, <1>6 DEF CacheOK

\* Nor does popping it take anything away.
LEMMA PopPlainCache ==
  ASSUME NEW p, NEW q, NEW f, Grown(p, q, f), NEW tls, CacheOK(tls, p),
         ~Cacher(f), ~f.env, ~f.attached
  PROVE  CacheOK(tls, q)
<1>1. PICK n \in Nat : Len(q) = n /\ Len(p) = n + 1
  BY DEF Grown
<1>2. 1..(n + 1) = 1..n \cup {n + 1} /\ \A i \in 0..(n + 1) : i # n + 1 => i \in 0..n
  OBVIOUS
<1>3. p[n + 1] = f /\ \A i \in 1..n : p[i] = q[i]
  BY <1>1 DEF Grown
<1>4. tls \in 0..n
  BY <1>1, <1>2, <1>3 DEF CacheOK
<1>5. tls # 0 => tls \in 1..n /\ p[tls] = q[tls]
  BY <1>3, <1>4
<1> QED
  BY <1>1, <1>2, <1>3, <1>4, <1>5 DEF CacheOK

\* A frame with a record goes: it is the one tls points to, and the scope's
\* record holds no env any more.
LEMMA PopOwnRecord ==
  ASSUME NEW p, NEW q, NEW f, Grown(p, q, f), FramesOK(p), NEW tls, CacheOK(tls, p),
         f.env \/ f.attached
  PROVE  /\ tls = Len(q) + 1 /\ CacheOK(0, q)
         /\ f.attached => ~f.env
<1>1. PICK n \in Nat : Len(q) = n /\ Len(p) = n + 1
  BY DEF Grown
<1>2. 1..(n + 1) = 1..n \cup {n + 1} /\ n + 1 \notin 1..n /\ n + 1 # 0
      /\ \A i \in 1..n : ~ (n + 1 <= i)
  OBVIOUS
<1>3. p[n + 1] = f /\ \A i \in 1..n : p[i] = q[i]
  BY <1>1 DEF Grown
<1>4. tls = n + 1
  BY <1>1, <1>2, <1>3 DEF CacheOK
<1>5. \A i \in 1..n : ~q[i].env /\ ~q[i].attached /\ ~Cacher(q[i])
  BY <1>1, <1>2, <1>3, <1>4 DEF CacheOK
<1>6. f.attached => ~f.env
  <2> SUFFICES ASSUME f.attached, f.env PROVE FALSE
    OBVIOUS
  <2>1. PICK i \in 1..(n + 1) : Cacher(p[i])
    BY <1>1, <1>2, <1>3, <1>4 DEF CacheOK
  <2>2. Cacher(f)
    BY <1>2, <1>3, <1>5, <2>1
  <2> QED
    BY <1>1, <1>2, <1>3, <2>2 DEF FramesOK, FrameOK, Cacher
<1>7. \A i \in 1..n : i # 0
  OBVIOUS
<1> QED
  BY <1>1, <1>4, <1>5, <1>6, <1>7 DEF CacheOK

\* q2 is q but for what the record of frame k says of the env.
Recorded(q2, q, k, env) ==
    /\ q2 \in Seq(FrameType) /\ Len(q2) = Len(q) /\ k \in 1..Len(q)
    /\ \A i \in 1..Len(q) : /\ q2[i].kind = q[i].kind /\ q2[i].flag = q[i].flag
                            /\ q2[i].attached = q[i].attached
                            /\ i # k => q2[i].env = q[i].env
    /\ q2[k].env = env

\* Writing the env into the record of frame k.
LEMMA RecordAt ==
  ASSUME NEW p \in Seq(FrameType), NEW k \in 1..Len(p), NEW env \in BOOLEAN
  PROVE  Recorded([p EXCEPT ![k].env = env], p, k, env)
<1>1. p[k] \in FrameType /\ Len(p) \in Nat /\ DOMAIN p = 1..Len(p)
  OBVIOUS
<1>2. PICK g : g = [p[k] EXCEPT !.env = env]
  OBVIOUS
<1>3. /\ g \in FrameType /\ g.env = env /\ g.kind = p[k].kind /\ g.flag = p[k].flag
      /\ g.attached = p[k].attached
  BY <1>1, <1>2 DEF FrameType
<1>4. PICK p2 : p2 = [p EXCEPT ![k] = g]
  OBVIOUS
<1>5. p2 \in Seq(FrameType) /\ Len(p2) = Len(p) /\ p2[k] = g /\ \A i \in 1..Len(p) : i # k => p2[i] = p[i]
  BY <1>1, <1>3, <1>4
<1>6. Recorded(p2, p, k, env)
  BY <1>3, <1>5 DEF Recorded
<1> QED
  BY <1>2, <1>4, <1>6

\* The env in a record does not bear on who attached.
LEMMA RecordedAttach ==
  ASSUME NEW q, NEW q2, NEW k, NEW env, Recorded(q2, q, k, env), NEW java, NEW ensured, NEW att,
         AttachOK(java, ensured, att, q)
  PROVE  AttachOK(java, ensured, att, q2)
<1>1. /\ Len(q2) = Len(q)
      /\ \A i \in 1..Len(q) : q2[i].kind = q[i].kind /\ (Attacher(q2[i]) <=> Attacher(q[i]))
  BY DEF Recorded, Attacher
<1> QED
  BY <1>1 DEF AttachOK

\* A record may get the env where the thread is attached.
LEMMA RecordedFrames ==
  ASSUME NEW q, NEW q2, NEW k, NEW env, Recorded(q2, q, k, env), FramesOK(q),
         env => q[k].attached
  PROVE  FramesOK(q2)
<1>1. \A i \in 1..Len(q) : FrameOK(q2[i])
  BY DEF Recorded, FramesOK, FrameOK
<1> QED
  BY <1>1 DEF FramesOK, Recorded

\* The env is cached in the record of a scope.
LEMMA PushSharedRecord ==
  ASSUME NEW p, NEW q, NEW f, Grown(p, q, f), NEW p2, NEW tls, Recorded(p2, p, tls, TRUE),
         CacheOK(tls, q), tls # 0, ~q[tls].env, Cacher(f), ~f.env, ~f.attached
  PROVE  CacheOK(tls, p2) /\ p[tls].attached
<1>1. PICK n \in Nat : Len(q) = n /\ Len(p) = n + 1 /\ Len(p2) = n + 1
  BY DEF Grown, Recorded
<1>2. 1..(n + 1) = 1..n \cup {n + 1} /\ n + 1 \notin 1..n /\ \A i \in 1..n : i <= n + 1 /\ i \in 0..(n + 1)
  OBVIOUS
<1>3. p[n + 1] = f /\ \A i \in 1..n : p[i] = q[i]
  BY <1>1 DEF Grown
<1>4. tls \in 1..n /\ q[tls].attached /\ p[tls] = q[tls]
  BY <1>1, <1>3 DEF CacheOK
<1>5. \A i \in 1..n : ~Cacher(q[i])
  BY <1>1, <1>4 DEF CacheOK
<1>6. /\ \A i \in 1..(n + 1) : /\ Cacher(p2[i]) <=> Cacher(p[i])
                               /\ p2[i].attached = p[i].attached
                               /\ i # tls => p2[i].env = p[i].env
      /\ p2[tls].env
  BY <1>1 DEF Recorded, Cacher
<1>7. \A i \in 1..(n + 1) : Cacher(p2[i]) <=> i = n + 1
  BY <1>2, <1>3, <1>5, <1>6
<1>8. \A i \in 1..(n + 1) : (p2[i].env \/ p2[i].attached) <=> i = tls
  <2> SUFFICES ASSUME NEW i \in 1..(n + 1) PROVE (p2[i].env \/ p2[i].attached) <=> i = tls
    OBVIOUS
  <2>1. CASE i = n + 1
    BY <1>2, <1>3, <1>4, <1>6, <2>1
  <2>2. CASE i \in 1..n
    BY <1>1, <1>3, <1>6, <2>2 DEF CacheOK
  <2> QED
    BY <1>2, <2>1, <2>2
<1>9. p2[tls].attached /\ n + 1 \in 1..(n + 1)
  BY <1>2, <1>4, <1>6
<1> QED
  BY <1>1, <1>2, <1>4, <1>6, <1>7, <1>8, <1>9 DEF CacheOK

\* The frame that cached the env goes: the record stays if it is a scope's.
LEMMA PopCacher ==
  ASSUME NEW p, NEW p2, NEW q, NEW f, NEW tls, FramesOK(p), CacheOK(tls, p), Cacher(p[Len(p)]),
         Recorded(p2, p, tls, FALSE), Grown(p2, q, f)
  PROVE  CacheOK(IF p[tls].attached THEN tls ELSE 0, q)
<1>1. PICK n \in Nat : Len(q) = n /\ Len(p) = n + 1 /\ Len(p2) = n + 1
  BY DEF Grown, Recorded
<1>2. 1..(n + 1) = 1..n \cup {n + 1} /\ n + 1 \notin 1..n /\ n + 1 \in 1..(n + 1) /\ ~ (n + 1 < n + 1)
  OBVIOUS
<1>3. \A i \in 1..n : p2[i] = q[i]
  BY <1>1 DEF Grown
<1>4. /\ \A i \in 1..(n + 1) : /\ Cacher(p2[i]) <=> Cacher(p[i])
                               /\ p2[i].attached = p[i].attached
                               /\ i # tls => p2[i].env = p[i].env
      /\ ~p2[tls].env /\ tls \in 1..(n + 1)
  BY <1>1 DEF Recorded, Cacher
<1>5. \A i \in 1..n : ~Cacher(q[i])
  BY <1>1, <1>2, <1>3, <1>4 DEF CacheOK
<1>6. \A i \in 1..n : /\ q[i].attached <=> (i = tls /\ p[tls].attached)
                      /\ ~q[i].env
  <2> SUFFICES ASSUME NEW i \in 1..n PROVE (q[i].attached <=> (i = tls /\ p[tls].attached)) /\ ~q[i].env
    OBVIOUS
  <2>1. q[i].attached = p[i].attached /\ (i # tls => q[i].env = p[i].env)
    BY <1>2, <1>3, <1>4
  <2>2. (p[i].env \/ p[i].attached) <=> i = tls
    BY <1>1, <1>2 DEF CacheOK
  <2>3. i = tls => ~q[i].env
    BY <1>3, <1>4
  <2>4. p[i].attached \in BOOLEAN /\ q[i].attached \in BOOLEAN /\ q[i].env \in BOOLEAN
    <3>1. p[i] \in FrameType /\ q[i] \in FrameType
      BY <1>1, <1>2 DEF FramesOK, Grown
    <3> QED
      BY <3>1 DEF FrameType
  <2> QED
    BY <2>1, <2>2, <2>3, <2>4
<1>7. CASE p[tls].attached
  <2>1. tls # n + 1
    BY <1>1, <1>2, <1>7 DEF FramesOK, FrameOK, Cacher
  <2>2. tls \in 1..n /\ tls \in 0..n
    BY <1>4, <2>1
  <2>3. ~q[tls].env
    BY <1>6, <2>2
  <2> QED
    BY <1>1, <1>5, <1>6, <1>7, <2>2, <2>3 DEF CacheOK
<1>8. CASE ~p[tls].attached
  <2>1. \A i \in 1..n : i # 0
    OBVIOUS
  <2> QED
    BY <1>1, <1>5, <1>6, <1>8, <2>1 DEF CacheOK
<1> QED
  BY <1>7, <1>8

-----------------------------------------------------------------------------
(* Crossings: what an operation does to a thread *)

\* The threads whose stack is s.stack with another frame.
LEMMA ThreadFacts ==
  ASSUME NEW s, ThreadOK(s)
  PROVE  /\ s.stack \in Seq(FrameType) /\ Len(s.stack) \in Nat
         /\ s.java \in BOOLEAN /\ s.att \in BOOLEAN /\ s.ensured \in BOOLEAN
         /\ s.tls \in 0..Len(s.stack)
BY DEF ThreadOK, ThreadShape, FramesOK, CacheOK

\* Push changes the stack alone.
LEMMA PushFields ==
  ASSUME NEW s, ThreadShape(s), NEW f
  PROVE  /\ ThreadShape(Push(s, f)) /\ Push(s, f).stack = Append(s.stack, f)
         /\ Push(s, f).java = s.java /\ Push(s, f).ensured = s.ensured
         /\ Push(s, f).att = s.att /\ Push(s, f).tls = s.tls
         /\ Push(s, f).cpp = s.cpp /\ Push(s, f).pending = s.pending
BY SMTT(40) DEF Push, ThreadShape

\* Pop changes the stack alone.
LEMMA PopFields ==
  ASSUME NEW s, ThreadShape(s)
  PROVE  /\ ThreadShape(Pop(s)) /\ Pop(s).stack = SubSeq(s.stack, 1, Len(s.stack) - 1)
         /\ Pop(s).java = s.java /\ Pop(s).ensured = s.ensured
         /\ Pop(s).att = s.att /\ Pop(s).tls = s.tls
         /\ Pop(s).cpp = s.cpp /\ Pop(s).pending = s.pending
BY DEF Pop, ThreadShape

\* Who caches the env is attached.
LEMMA CachedIsAttached ==
  ASSUME NEW s, ThreadOK(s)
  PROVE  /\ cachedOrNull(s) => s.att
         /\ s.tls # 0 => s.att
<1>1. s.tls # 0 => s.tls \in 1..Len(s.stack)
  BY ThreadFacts
<1>2. s.tls # 0 => s.stack[s.tls].env \/ s.stack[s.tls].attached
  BY <1>1 DEF ThreadOK, CacheOK
<1>3. s.tls # 0 /\ s.stack[s.tls].env => s.att
  <2> SUFFICES ASSUME s.tls # 0, s.stack[s.tls].env PROVE s.att
    OBVIOUS
  <2>1. PICK i \in 1..Len(s.stack) : Cacher(s.stack[i])
    BY DEF ThreadOK, CacheOK
  <2> QED
    BY <2>1 DEF ThreadOK, AttachOK, Cacher
<1>4. s.tls # 0 /\ s.stack[s.tls].attached => s.att
  <2> SUFFICES ASSUME s.tls # 0, s.stack[s.tls].attached PROVE s.att
    OBVIOUS
  <2>1. Attacher(s.stack[s.tls])
    BY <1>1 DEF ThreadOK, FramesOK, FrameOK, Attacher
  <2> QED
    BY <1>1, <2>1 DEF ThreadOK, AttachOK
<1> QED
  BY <1>2, <1>3, <1>4 DEF cachedOrNull

\* The empty frame of every kind is a frame.
LEMMA FrameFacts ==
  ASSUME NEW kind \in {"java", "native", "scope", "ext"}, NEW flag \in BOOLEAN,
         NEW env \in BOOLEAN, NEW attached \in BOOLEAN
  PROVE  /\ Frame(kind, flag, env, attached) \in FrameType
         /\ Frame(kind, flag, env, attached).kind = kind /\ Frame(kind, flag, env, attached).flag = flag
         /\ Frame(kind, flag, env, attached).env = env
         /\ Frame(kind, flag, env, attached).attached = attached
BY DEF Frame, FrameType

\* A frame without flags may be pushed wherever its kind may run.
LEMMA PlainPush ==
  ASSUME NEW s, ThreadOK(s), NEW kind \in {"java", "native", "scope", "ext"},
         kind \in {"java", "native"} => s.att
  PROVE  ThreadOK(Push(s, Frame(kind, FALSE, FALSE, FALSE)))
<1> DEFINE f == Frame(kind, FALSE, FALSE, FALSE)
           x == Push(s, f)
<1>1. /\ f \in FrameType /\ f.kind = kind /\ ~f.flag /\ ~f.env /\ ~f.attached
  BY DEF Frame, FrameType
<1>2. FrameOK(f) /\ ~Attacher(f) /\ ~Cacher(f)
  BY <1>1 DEF FrameOK, Attacher, Cacher
<1> HIDE DEF f
<1>3. /\ ThreadShape(x) /\ x.stack = Append(s.stack, f)
      /\ x.java = s.java /\ x.ensured = s.ensured /\ x.att = s.att /\ x.tls = s.tls
  BY <1>1, PushFields DEF ThreadOK
<1> HIDE DEF x
<1>4. Grown(x.stack, s.stack, f)
  BY <1>1, <1>3, AppendGrows, ThreadFacts
<1>5. FramesOK(x.stack)
  BY <1>2, <1>4, GrownFrames DEF ThreadOK
<1>6. AttachOK(s.java, s.ensured, s.att, x.stack)
  BY <1>1, <1>2, <1>4, PushPlainAttach DEF ThreadOK
<1>7. CacheOK(s.tls, x.stack)
  BY <1>1, <1>2, <1>4, PushPlainCache DEF ThreadOK
<1>8. ThreadOK(x)
  BY <1>3, <1>5, <1>6, <1>7 DEF ThreadOK
<1> QED
  BY <1>8 DEF x, f

\* ~Attached: the scope has to attach, and finds no record.
LEMMA ScopeEnters ==
  ASSUME NEW s, ThreadOK(s)
  PROVE  /\ ThreadOK(ThreadScope(s)) /\ ThreadScope(s).att /\ ThreadScope(s).java = s.java
         /\ (s.att \/ s.tls = 0)
         /\ ThreadScope(s).ensured = s.ensured /\ (s.att => ThreadScope(s).tls = s.tls)
         /\ ThreadScope(s).stack = Append(s.stack, Frame("scope", ~s.att, FALSE, ~s.att))
<1>0. s.att \/ s.tls = 0
  BY CachedIsAttached
<1>1. CASE s.att
  <2>1. ThreadScope(s) = Push(s, Frame("scope", FALSE, FALSE, FALSE))
    BY <1>1 DEF ThreadScope
  <2>2. ThreadOK(ThreadScope(s))
    BY <2>1, PlainPush
  <2>3. (~s.att) = FALSE
    BY <1>1
  <2>4. PICK f : f = Frame("scope", FALSE, FALSE, FALSE) /\ f = Frame("scope", ~s.att, FALSE, ~s.att)
    BY <2>3
  <2>5. ThreadScope(s) = Push(s, f)
    BY <2>1, <2>4
  <2>6. /\ ThreadScope(s).stack = Append(s.stack, f)
        /\ ThreadScope(s).java = s.java /\ ThreadScope(s).ensured = s.ensured
        /\ ThreadScope(s).att = s.att /\ ThreadScope(s).tls = s.tls
    BY <2>5, PushFields DEF ThreadOK
  <2> QED
    BY <1>0, <1>1, <2>2, <2>4, <2>6
<1>2. CASE ~s.att
  <2> DEFINE f == Frame("scope", TRUE, FALSE, TRUE)
             y == Push(s, f)
             x == ThreadScope(s)
  <2>1. f \in FrameType /\ f.kind = "scope" /\ f.flag /\ ~f.env /\ f.attached
    BY FrameFacts
  <2>2. FrameOK(f) /\ Attacher(f) /\ ~Cacher(f)
    BY <2>1 DEF FrameOK, Attacher, Cacher
  <2>3. x = [y EXCEPT !.tls = Len(s.stack) + 1, !.att = TRUE]
    BY <1>2 DEF ThreadScope
  <2> HIDE DEF x, f
  <2>4. /\ ThreadShape(y) /\ y.stack = Append(s.stack, f)
        /\ y.java = s.java /\ y.ensured = s.ensured
    BY <2>1, PushFields DEF ThreadOK
  <2> HIDE DEF y
  <2>5. /\ ThreadShape(x) /\ x.stack = Append(s.stack, f) /\ x.att = TRUE /\ x.tls = Len(s.stack) + 1
        /\ x.java = s.java /\ x.ensured = s.ensured
    BY <2>3, <2>4 DEF ThreadShape
  <2>6. Grown(x.stack, s.stack, f)
    BY <2>1, <2>5, AppendGrows, ThreadFacts
  <2>7. FramesOK(x.stack)
    BY <2>2, <2>6, GrownFrames DEF ThreadOK
  <2>8. AttachOK(s.java, s.ensured, TRUE, x.stack)
    <3>1. s.att = FALSE
      BY <1>2, ThreadFacts
    <3>2. AttachOK(s.java, s.ensured, FALSE, s.stack)
      BY <3>1 DEF ThreadOK
    <3> QED
      BY <2>2, <2>6, <3>2, PushAttacher
  <2>9. CacheOK(Len(s.stack) + 1, x.stack)
    BY <1>0, <1>2, <2>1, <2>2, <2>6, PushOwnRecord DEF ThreadOK
  <2>10. ThreadOK(x)
    BY <2>5, <2>7, <2>8, <2>9 DEF ThreadOK
  <2>11. (~s.att) = TRUE
    BY <1>2
  <2>12. f = Frame("scope", ~s.att, FALSE, ~s.att)
    BY <2>11 DEF f
  <2> QED
    BY <1>0, <1>2, <2>5, <2>10, <2>12 DEF x
<1> QED
  BY <1>1, <1>2

\* A thread is detached only from code that no Java called.
DetachOK(s, x) ==
    s.att /\ ~x.att => /\ ~s.java /\ ~s.ensured
                       /\ \A i \in 1..Len(x.stack) : x.stack[i].kind \notin {"java", "native"}

\* The top of a stack and what is below it.
LEMMA TopFacts ==
  ASSUME NEW s, ThreadOK(s), s.stack # <<>>
  PROVE  /\ Grown(s.stack, Pop(s).stack, s.stack[Len(s.stack)])
         /\ FrameOK(s.stack[Len(s.stack)]) /\ FramesOK(Pop(s).stack)
         /\ Len(s.stack) \in 1..Len(s.stack)
<1>1. ThreadShape(s) /\ s.stack \in Seq(FrameType) /\ FramesOK(s.stack)
  BY DEF ThreadOK, FramesOK
<1>2. /\ Grown(s.stack, SubSeq(s.stack, 1, Len(s.stack) - 1), s.stack[Len(s.stack)])
      /\ Len(s.stack) \in 1..Len(s.stack)
  BY <1>1, FrontShrinks
<1>3. Pop(s).stack = SubSeq(s.stack, 1, Len(s.stack) - 1)
  BY <1>1, PopFields
<1>4. Grown(s.stack, Pop(s).stack, s.stack[Len(s.stack)])
  BY <1>2, <1>3
<1> QED
  BY <1>1, <1>2, <1>4, GrownFrames

\* A frame that set nothing goes.
LEMMA PlainPop ==
  ASSUME NEW s, ThreadOK(s), s.stack # <<>>, ~TopFlag(s)
  PROVE  ThreadOK(Pop(s)) /\ DetachOK(s, Pop(s)) /\ Pop(s).java = s.java
<1> DEFINE x == Pop(s)
<1>1. /\ ThreadShape(x) /\ x.java = s.java /\ x.ensured = s.ensured /\ x.att = s.att /\ x.tls = s.tls
  BY PopFields DEF ThreadOK
<1>2. PICK f : f = s.stack[Len(s.stack)]
  OBVIOUS
<1>3. Grown(s.stack, x.stack, f) /\ FrameOK(f) /\ FramesOK(x.stack) /\ ~f.flag
  BY <1>2, TopFacts DEF TopFlag
<1> HIDE DEF x
<1>4. ~Attacher(f) /\ ~Cacher(f) /\ ~f.env /\ ~f.attached
  BY <1>3 DEF FrameOK, Attacher, Cacher
<1>5. AttachOK(s.java, s.ensured, s.att, x.stack)
  BY <1>3, <1>4, PopPlainAttach DEF ThreadOK
<1>6. CacheOK(s.tls, x.stack)
  BY <1>3, <1>4, PopPlainCache DEF ThreadOK
<1>7. ThreadOK(x)
  BY <1>1, <1>3, <1>5, <1>6 DEF ThreadOK
<1> QED
  BY <1>1, <1>7 DEF x, DetachOK

\* ~ThreadScope: the assertions hold, and a detached thread has no Java left.
LEMMA ScopeLeaves ==
  ASSUME NEW s, ThreadOK(s), Top(s) = "scope"
  PROVE  /\ ThreadOK(ThreadScopeGone(s)) /\ DetachOK(s, ThreadScopeGone(s))
         /\ ThreadScopeGone(s).java = s.java
         /\ vm => ScopeAsserts(s)
<1>0. s.stack # <<>> /\ s.stack[Len(s.stack)].kind = "scope"
  BY DEF Top
<1>1. CASE ~TopFlag(s)
  BY <1>0, <1>1, PlainPop DEF ThreadScopeGone, ScopeAsserts
<1>2. CASE TopFlag(s)
  <2> DEFINE y == Pop(s)
             x == ThreadScopeGone(s)
  <2>1. ThreadShape(y) /\ y.java = s.java /\ y.ensured = s.ensured
    BY PopFields DEF ThreadOK
  <2>2. PICK f : f = s.stack[Len(s.stack)]
    OBVIOUS
  <2>3. Grown(s.stack, y.stack, f) /\ FrameOK(f) /\ FramesOK(y.stack) /\ f.flag /\ f.kind = "scope"
    BY <1>0, <1>2, <2>2, TopFacts DEF TopFlag
  <2>4. x = [y EXCEPT !.att = FALSE, !.tls = 0]
    BY <1>2 DEF ThreadScopeGone
  <2> HIDE DEF x, y
  <2>5. /\ ThreadShape(x) /\ x.java = s.java /\ x.ensured = s.ensured /\ x.att = FALSE /\ x.tls = 0
        /\ x.stack = y.stack
    BY <2>1, <2>4 DEF ThreadShape
  <2>6. Attacher(f) /\ f.attached
    BY <2>3 DEF FrameOK, Attacher
  <2>7. /\ AttachOK(s.java, s.ensured, FALSE, y.stack) /\ ~s.java /\ ~s.ensured
        /\ \A i \in 1..Len(y.stack) : y.stack[i].kind \notin {"java", "native"}
    <3>1. AttachOK(s.java, s.ensured, s.att, s.stack)
      BY DEF ThreadOK
    <3> QED
      BY <2>3, <2>6, <3>1, PopAttacher
  <2>8. s.tls = Len(y.stack) + 1 /\ CacheOK(0, y.stack) /\ ~f.env
    <3>1. CacheOK(s.tls, s.stack) /\ FramesOK(s.stack)
      BY DEF ThreadOK
    <3> QED
      BY <2>3, <2>6, <3>1, PopOwnRecord
  <2>9. ThreadOK(x)
    BY <2>3, <2>5, <2>7, <2>8 DEF ThreadOK
  <2>10. s.tls = Len(s.stack) /\ s.tls # 0
    BY <2>3, <2>8 DEF Grown
  <2>11. vm => ScopeAsserts(s)
    BY <2>2, <2>6, <2>8, <2>10 DEF ScopeAsserts
  <2> QED
    BY <2>5, <2>7, <2>9, <2>11 DEF x, DetachOK
<1> QED
  BY <1>1, <1>2

\* The scope of ~JniException and JniException::what leaves the thread as it was.
LEMMA ScopeAlone ==
  ASSUME NEW s, ThreadOK(s), NEW x, x = ThreadScopeGone(ThreadScope(s))
  PROVE  /\ ThreadShape(x) /\ x.java = s.java /\ x.ensured = s.ensured
         /\ x.att = s.att /\ x.tls = s.tls /\ x.stack = s.stack
<1>0. ThreadShape(s) /\ s.stack \in Seq(FrameType) /\ (s.att \/ s.tls = 0) /\ s.att \in BOOLEAN
  BY CachedIsAttached, ThreadFacts DEF ThreadOK
<1>1. PICK f : f = Frame("scope", ~s.att, FALSE, ~s.att)
  OBVIOUS
<1>2. f \in FrameType /\ f.flag = ~s.att
  BY <1>0, <1>1 DEF Frame, FrameType
<1>3. PICK w : w = ThreadScope(s)
  OBVIOUS
<1>4. /\ ThreadShape(w) /\ w.java = s.java /\ w.ensured = s.ensured /\ w.att
      /\ w.stack = Append(s.stack, f) /\ (s.att => w.tls = s.tls)
  BY <1>1, <1>3, ScopeEnters DEF ThreadOK
<1>5. PICK z : z = Pop(w)
  OBVIOUS
<1>6. /\ ThreadShape(z) /\ z.java = s.java /\ z.ensured = s.ensured /\ z.att
      /\ z.stack = SubSeq(w.stack, 1, Len(w.stack) - 1) /\ (s.att => z.tls = s.tls)
  BY <1>4, <1>5, PopFields
<1>7. Len(w.stack) = Len(s.stack) + 1 /\ w.stack[Len(w.stack)] = f /\ z.stack = s.stack
  <2>1. PICK q \in Seq(FrameType) : q = s.stack
    BY <1>0
  <2>2. Len(Append(q, f)) = Len(q) + 1 /\ Append(q, f)[Len(q) + 1] = f
    BY <1>2
  <2>3. SubSeq(Append(q, f), 1, Len(q)) = q
    BY <1>2
  <2>4. Len(q) + 1 - 1 = Len(q)
    OBVIOUS
  <2> QED
    BY <1>4, <1>6, <2>1, <2>2, <2>3, <2>4
<1>8. TopFlag(w) = ~s.att
  BY <1>2, <1>7 DEF TopFlag
<1>9. CASE s.att
  <2>1. x = z
    BY <1>3, <1>5, <1>8, <1>9 DEF ThreadScopeGone
  <2>2. z.att \in BOOLEAN
    BY <1>6 DEF ThreadShape
  <2>3. z.att = s.att
    BY <1>0, <1>6, <1>9, <2>2
  <2> QED
    BY <1>6, <1>7, <1>9, <2>1, <2>3
<1>10. CASE ~s.att
  <2>1. x = [z EXCEPT !.att = FALSE, !.tls = 0]
    BY <1>3, <1>5, <1>8, <1>10 DEF ThreadScopeGone
  <2>2. /\ ThreadShape(x) /\ x.java = z.java /\ x.ensured = z.ensured /\ x.stack = z.stack
        /\ x.att = FALSE /\ x.tls = 0
    BY <1>6, <2>1 DEF ThreadShape
  <2>3. s.att = FALSE /\ s.tls = 0
    BY <1>0, <1>10
  <2> QED
    BY <1>6, <1>7, <2>2, <2>3
<1> QED
  BY <1>9, <1>10

\* Foreign code attaches the thread unless it is attached.
LEMMA ExtEnters ==
  ASSUME NEW s, ThreadOK(s), NEW x, x = [Push(s, Frame("ext", ~s.att, FALSE, FALSE)) EXCEPT !.att = TRUE]
  PROVE  ThreadOK(x) /\ DetachOK(s, x) /\ x.java = s.java
<1>0. s.att \in BOOLEAN /\ ThreadShape(s) /\ s.stack \in Seq(FrameType)
  BY ThreadFacts DEF ThreadOK
<1>1. PICK f : f = Frame("ext", ~s.att, FALSE, FALSE)
  OBVIOUS
<1>2. f \in FrameType /\ f.kind = "ext" /\ f.flag = ~s.att /\ ~f.env /\ ~f.attached
  BY <1>0, <1>1 DEF Frame, FrameType
<1>3. /\ ThreadShape(x) /\ x.java = s.java /\ x.ensured = s.ensured /\ x.tls = s.tls /\ x.att = TRUE
      /\ x.stack = Append(s.stack, f)
  BY <1>0, <1>1 DEF Push, ThreadShape
<1>4. Grown(x.stack, s.stack, f)
  BY <1>0, <1>2, <1>3, AppendGrows
<1>5. FramesOK(x.stack)
  <2>1. FrameOK(f)
    BY <1>2 DEF FrameOK
  <2> QED
    BY <1>4, <2>1, GrownFrames DEF ThreadOK
<1>6. CacheOK(s.tls, x.stack)
  <2>1. ~Cacher(f)
    BY <1>2 DEF Cacher
  <2> QED
    BY <1>2, <1>4, <2>1, PushPlainCache DEF ThreadOK
<1>7. AttachOK(s.java, s.ensured, TRUE, x.stack)
  <2>1. CASE s.att
    <3>1. AttachOK(s.java, s.ensured, TRUE, s.stack)
      BY <1>0, <2>1 DEF ThreadOK
    <3>2. ~Attacher(f) /\ f.kind \notin {"java", "native"}
      BY <1>2, <2>1 DEF Attacher
    <3> QED
      BY <1>4, <3>1, <3>2, PushPlainAttach
  <2>2. CASE ~s.att
    <3>0. s.att = FALSE
      BY <1>0, <2>2
    <3>1. AttachOK(s.java, s.ensured, FALSE, s.stack)
      BY <3>0 DEF ThreadOK
    <3>2. Attacher(f)
      BY <1>2, <2>2 DEF Attacher
    <3> QED
      BY <1>4, <3>1, <3>2, PushAttacher
  <2> QED
    BY <2>1, <2>2
<1> QED
  BY <1>3, <1>5, <1>6, <1>7 DEF ThreadOK, DetachOK

\* Foreign code detaches the thread when it attached it.
LEMMA ExtLeaves ==
  ASSUME NEW s, ThreadOK(s), Top(s) = "ext", NEW x,
         x = [Pop(s) EXCEPT !.att = @ /\ ~TopFlag(s)]
  PROVE  ThreadOK(x) /\ DetachOK(s, x) /\ x.java = s.java
<1>0. s.stack # <<>> /\ s.stack[Len(s.stack)].kind = "ext" /\ s.att \in BOOLEAN
  BY ThreadFacts DEF Top
<1>1. PICK y : y = Pop(s)
  OBVIOUS
<1>2. /\ ThreadShape(y) /\ y.java = s.java /\ y.ensured = s.ensured /\ y.tls = s.tls /\ y.att = s.att
  BY <1>1, PopFields DEF ThreadOK
<1>3. PICK f : f = s.stack[Len(s.stack)]
  OBVIOUS
<1>4. Grown(s.stack, y.stack, f) /\ FrameOK(f) /\ FramesOK(y.stack) /\ f.kind = "ext" /\ (TopFlag(s) <=> f.flag)
  BY <1>0, <1>1, <1>3, TopFacts DEF TopFlag
<1>5. /\ ThreadShape(x) /\ x.java = s.java /\ x.ensured = s.ensured /\ x.tls = s.tls
      /\ x.stack = y.stack /\ x.att = (s.att /\ ~TopFlag(s))
  BY <1>1, <1>2 DEF ThreadShape
<1>6. ~Cacher(f) /\ ~f.env /\ ~f.attached
  BY <1>4 DEF FrameOK, Cacher
<1>7. CacheOK(s.tls, y.stack)
  BY <1>4, <1>6, PopPlainCache DEF ThreadOK
<1>8. CASE f.flag
  <2>0. x.att = FALSE
    BY <1>4, <1>5, <1>8
  <2>1. Attacher(f)
    BY <1>4, <1>8 DEF Attacher
  <2>2. /\ AttachOK(s.java, s.ensured, FALSE, y.stack) /\ ~s.java /\ ~s.ensured
        /\ \A i \in 1..Len(y.stack) : y.stack[i].kind \notin {"java", "native"}
    <3>1. AttachOK(s.java, s.ensured, s.att, s.stack)
      BY DEF ThreadOK
    <3>2. Grown(s.stack, y.stack, f)
      BY <1>4
    <3> QED
      BY <2>1, <3>1, <3>2, PopAttacher
  <2>3. ThreadOK(x)
    BY <1>4, <1>5, <1>7, <2>0, <2>2 DEF ThreadOK
  <2> QED
    BY <1>5, <2>2, <2>3 DEF DetachOK
<1>9. CASE ~f.flag
  <2>1. ~Attacher(f) /\ x.att = s.att
    BY <1>0, <1>4, <1>5, <1>9 DEF Attacher
  <2>2. AttachOK(s.java, s.ensured, s.att, y.stack)
    BY <1>4, <2>1, PopPlainAttach DEF ThreadOK
  <2>3. ThreadOK(x)
    BY <1>4, <1>5, <1>7, <2>1, <2>2 DEF ThreadOK
  <2> QED
    BY <1>5, <2>1, <2>3 DEF DetachOK
<1> QED
  BY <1>8, <1>9

\* A native method of an attached thread starts.
LEMMA CacherEnters ==
  ASSUME NEW s, ThreadOK(s), s.att
  PROVE  /\ ThreadOK(JniEnvCacher(s)) /\ JniEnvCacher(s).att = TRUE
         /\ JniEnvCacher(s).java = s.java
<1>0. /\ s.att = TRUE /\ ThreadShape(s) /\ s.stack \in Seq(FrameType) /\ Len(s.stack) \in Nat
      /\ s.tls \in 0..Len(s.stack)
  BY ThreadFacts DEF ThreadOK
<1>1. CASE cachedOrNull(s)
  <2>1. JniEnvCacher(s) = Push(s, Frame("native", FALSE, FALSE, FALSE))
    BY <1>1 DEF JniEnvCacher
  <2>2. ThreadOK(JniEnvCacher(s))
    BY <2>1, PlainPush
  <2>3. JniEnvCacher(s).java = s.java /\ JniEnvCacher(s).att = s.att
    <3>1. PICK f : f = Frame("native", FALSE, FALSE, FALSE)
      OBVIOUS
    <3>2. ThreadShape(s) /\ JniEnvCacher(s) = Push(s, f)
      BY <1>0, <2>1, <3>1
    <3>3. Push(s, f).java = s.java /\ Push(s, f).att = s.att
      BY <3>2, PushFields
    <3> QED
      BY <3>2, <3>3
  <2> QED
    BY <1>0, <2>2, <2>3
<1>2. CASE ~cachedOrNull(s) /\ s.tls = 0
  <2>1. PICK f : f = Frame("native", TRUE, TRUE, FALSE)
    OBVIOUS
  <2>2. f \in FrameType /\ f.kind = "native" /\ f.flag /\ f.env /\ ~f.attached
    BY <2>1 DEF Frame, FrameType
  <2>3. PICK x : x = JniEnvCacher(s)
    OBVIOUS
  <2>4. x = [Push(s, f) EXCEPT !.tls = Len(s.stack) + 1]
    BY <1>2, <2>1, <2>3 DEF JniEnvCacher
  <2>5. /\ ThreadShape(x) /\ x.java = s.java /\ x.ensured = s.ensured /\ x.att = s.att
        /\ x.tls = Len(s.stack) + 1 /\ x.stack = Append(s.stack, f)
    BY <1>0, <2>4 DEF Push, ThreadShape
  <2>6. Grown(x.stack, s.stack, f)
    BY <1>0, <2>2, <2>5, AppendGrows
  <2>7. FrameOK(f) /\ ~Attacher(f) /\ Cacher(f)
    BY <2>2 DEF FrameOK, Attacher, Cacher
  <2>8. FramesOK(x.stack)
    BY <2>6, <2>7, GrownFrames DEF ThreadOK
  <2>9. AttachOK(s.java, s.ensured, s.att, x.stack)
    BY <2>6, <2>7, PushPlainAttach DEF ThreadOK
  <2>10. CacheOK(Len(s.stack) + 1, x.stack)
    <3>1. CacheOK(0, s.stack) /\ FramesOK(s.stack)
      BY <1>2 DEF ThreadOK
    <3> QED
      BY <2>2, <2>6, <2>7, <3>1, PushOwnRecord
  <2> QED
    BY <1>0, <2>3, <2>5, <2>8, <2>9, <2>10 DEF ThreadOK
<1>3. CASE ~cachedOrNull(s) /\ s.tls # 0
  <2>1. PICK f : f = Frame("native", TRUE, FALSE, FALSE)
    OBVIOUS
  <2>2. f \in FrameType /\ f.kind = "native" /\ f.flag /\ ~f.env /\ ~f.attached
    BY <2>1 DEF Frame, FrameType
  <2>3. PICK x : x = JniEnvCacher(s)
    OBVIOUS
  <2>4. x = [Push(s, f) EXCEPT !.stack[s.tls].env = TRUE]
    BY <1>3, <2>1, <2>3 DEF JniEnvCacher
  <2>5. PICK p : p = Append(s.stack, f)
    OBVIOUS
  <2>6. Grown(p, s.stack, f)
    BY <1>0, <2>2, <2>5, AppendGrows
  <2>7. /\ ThreadShape(x) /\ x.java = s.java /\ x.ensured = s.ensured /\ x.att = s.att
        /\ x.tls = s.tls /\ x.stack = [p EXCEPT ![s.tls].env = TRUE]
    <3>1. PICK y : y = Push(s, f)
      OBVIOUS
    <3>2. /\ ThreadShape(y) /\ y.java = s.java /\ y.ensured = s.ensured /\ y.att = s.att
          /\ y.tls = s.tls /\ y.stack = p
      BY <1>0, <2>5, <3>1, PushFields
    <3>3. x = [y EXCEPT !.stack = [p EXCEPT ![s.tls].env = TRUE]]
      BY <2>4, <3>1, <3>2
    <3> QED
      BY <3>2, <3>3 DEF ThreadShape
  <2>8. Recorded(x.stack, p, s.tls, TRUE)
    <3>1. PICK k : k = s.tls
      OBVIOUS
    <3>2. p \in Seq(FrameType) /\ k \in 1..Len(p)
      BY <1>0, <1>3, <2>6, <3>1 DEF Grown
    <3> QED
      BY <2>7, <3>1, <3>2, RecordAt
  <2>9. FrameOK(f) /\ ~Attacher(f) /\ Cacher(f)
    BY <2>2 DEF FrameOK, Attacher, Cacher
  <2>10. FramesOK(p) /\ AttachOK(s.java, s.ensured, s.att, p)
    BY <2>6, <2>9, GrownFrames, PushPlainAttach DEF ThreadOK
  <2>11. CacheOK(s.tls, x.stack) /\ p[s.tls].attached
    <3>1. CacheOK(s.tls, s.stack) /\ ~s.stack[s.tls].env
      BY <1>3 DEF ThreadOK, cachedOrNull
    <3> QED
      BY <1>3, <2>2, <2>6, <2>8, <2>9, <3>1, PushSharedRecord
  <2>12. FramesOK(x.stack) /\ AttachOK(s.java, s.ensured, s.att, x.stack)
    BY <2>8, <2>10, <2>11, RecordedFrames, RecordedAttach
  <2> QED
    BY <1>0, <2>3, <2>7, <2>11, <2>12 DEF ThreadOK
<1> QED
  BY <1>1, <1>2, <1>3

\* ~JniEnvCacher: its assertions hold, and a scope keeps its record.
LEMMA CacherLeaves ==
  ASSUME NEW s, ThreadOK(s), Top(s) = "native"
  PROVE  /\ ThreadOK(JniEnvCacherGone(s)) /\ DetachOK(s, JniEnvCacherGone(s))
         /\ JniEnvCacherGone(s).java = s.java
         /\ CacherAsserts(s)
<1>0. s.stack # <<>> /\ s.stack[Len(s.stack)].kind = "native"
  BY DEF Top
<1>1. CASE ~TopFlag(s)
  BY <1>0, <1>1, PlainPop DEF JniEnvCacherGone, CacherAsserts
<1>2. CASE TopFlag(s)
  <2>1. PICK p : p = s.stack
    OBVIOUS
  <2>2. /\ p \in Seq(FrameType) /\ FramesOK(p) /\ CacheOK(s.tls, p) /\ ThreadShape(s)
        /\ AttachOK(s.java, s.ensured, s.att, p)
    BY <2>1 DEF ThreadOK, FramesOK
  <2>3. p # <<>> /\ Len(p) \in 1..Len(p) /\ Cacher(p[Len(p)]) /\ p[Len(p)].kind = "native"
    BY <1>0, <1>2, <2>1, TopFacts DEF TopFlag, Cacher
  <2>4. s.tls # 0 /\ p[s.tls].env
    BY <2>2, <2>3 DEF CacheOK
  <2>5. s.tls \in 1..Len(p)
    <3>1. s.tls \in 0..Len(p) /\ Len(p) \in Nat
      BY <2>2 DEF CacheOK
    <3> QED
      BY <2>4, <3>1
  <2>6. PICK p2 : p2 = [p EXCEPT ![s.tls].env = FALSE]
    OBVIOUS
  <2>7. Recorded(p2, p, s.tls, FALSE)
    BY <2>2, <2>5, <2>6, RecordAt
  <2>8. PICK k : k = IF p[s.tls].attached THEN s.tls ELSE 0
    OBVIOUS
  <2>9. PICK y : y = [s EXCEPT !.stack = p2, !.tls = k]
    OBVIOUS
  <2>10. JniEnvCacherGone(s) = Pop(y)
    BY <1>2, <2>1, <2>6, <2>8, <2>9 DEF JniEnvCacherGone
  <2>11. /\ ThreadShape(y) /\ y.java = s.java /\ y.ensured = s.ensured /\ y.att = s.att
         /\ y.tls = k /\ y.stack = p2
    BY <2>2, <2>9 DEF ThreadShape
  <2>12. PICK x : x = Pop(y)
    OBVIOUS
  <2>13. /\ ThreadShape(x) /\ x.java = s.java /\ x.ensured = s.ensured /\ x.att = s.att
         /\ x.tls = k /\ x.stack = SubSeq(p2, 1, Len(p2) - 1)
    BY <2>11, <2>12, PopFields
  <2>14. p2 \in Seq(FrameType) /\ p2 # <<>> /\ p2[Len(p2)].kind = "native"
    <3>1. p2 \in Seq(FrameType) /\ Len(p2) = Len(p) /\ p2[Len(p)].kind = p[Len(p)].kind
      BY <2>3, <2>7 DEF Recorded
    <3>2. Len(p2) # 0
      BY <2>2, <2>3, <3>1
    <3> QED
      BY <2>3, <3>1, <3>2
  <2>15. PICK f : f = p2[Len(p2)]
    OBVIOUS
  <2>16. Grown(p2, x.stack, f)
    BY <2>13, <2>14, <2>15, FrontShrinks
  <2>17. FramesOK(p2) /\ AttachOK(s.java, s.ensured, s.att, p2)
    BY <2>2, <2>7, RecordedFrames, RecordedAttach
  <2>18. FramesOK(x.stack)
    BY <2>16, <2>17, GrownFrames
  <2>19. AttachOK(s.java, s.ensured, s.att, x.stack)
    <3>1. ~Attacher(f)
      BY <2>14, <2>15 DEF Attacher
    <3> QED
      BY <2>16, <2>17, <3>1, PopPlainAttach
  <2>20. CacheOK(k, x.stack)
    BY <2>2, <2>3, <2>7, <2>8, <2>16, PopCacher
  <2>21. ThreadOK(x) /\ DetachOK(s, x)
    BY <2>13, <2>18, <2>19, <2>20 DEF ThreadOK, DetachOK
  <2>22. CacherAsserts(s)
    BY <2>1, <2>4 DEF CacherAsserts
  <2> QED
    BY <2>10, <2>12, <2>13, <2>21, <2>22
<1> QED
  BY <1>1, <1>2

\* x differs from y in its exceptions only.
SameThread(x, y) ==
    /\ ThreadShape(x) /\ x.java = y.java /\ x.ensured = y.ensured
    /\ x.att = y.att /\ x.tls = y.tls /\ x.stack = y.stack

\* What holds of a thread does not depend on its exceptions.
LEMMA SameThreadOK ==
  ASSUME NEW x, NEW y, ThreadOK(y), SameThread(x, y)
  PROVE  /\ ThreadOK(x) /\ x.java = y.java
         /\ \A s : DetachOK(s, y) => DetachOK(s, x)
BY DEF SameThread, ThreadOK, DetachOK

\* Changing exceptions leaves the thread's frames and flags alone.
LEMMA ExceptionsOnly ==
  ASSUME NEW y, ThreadOK(y), NEW c, NEW d
  PROVE  /\ SameThread(y, y)
         /\ SameThread([y EXCEPT !.cpp = c], y)
         /\ SameThread([y EXCEPT !.pending = d], y)
         /\ SameThread([y EXCEPT !.pending = d, !.cpp = c], y)
         /\ SameThread([y EXCEPT !.cpp = c, !.pending = d], y)
<1>0. ThreadShape(y)
  BY DEF ThreadOK
<1>1. SameThread(y, y)
  BY <1>0 DEF SameThread
<1>2. SameThread([y EXCEPT !.cpp = c], y)
  BY <1>0 DEF SameThread, ThreadShape
<1>3. SameThread([y EXCEPT !.pending = d], y)
  BY <1>0 DEF SameThread, ThreadShape
<1>4. SameThread([y EXCEPT !.pending = d, !.cpp = c], y)
  <2>1. PICK z : z = [y EXCEPT !.pending = d]
    OBVIOUS
  <2>2. SameThread(z, y) /\ ThreadShape(z)
    BY <1>2, <1>3, <2>1 DEF SameThread
  <2>3. SameThread([z EXCEPT !.cpp = c], z)
    BY <2>2 DEF SameThread, ThreadShape
  <2> QED
    BY <2>1, <2>2, <2>3 DEF SameThread
<1>5. SameThread([y EXCEPT !.cpp = c, !.pending = d], y)
  <2>1. PICK z : z = [y EXCEPT !.cpp = c]
    OBVIOUS
  <2>2. SameThread(z, y) /\ ThreadShape(z)
    BY <1>2, <1>3, <2>1 DEF SameThread
  <2>3. SameThread([z EXCEPT !.pending = d], z)
    BY <2>2 DEF SameThread, ThreadShape
  <2> QED
    BY <2>1, <2>2, <2>3 DEF SameThread
<1> QED
  BY <1>1, <1>2, <1>3, <1>4, <1>5

\* A thread that runs Java code is attached, and its top frame has no flag.
LEMMA InJavaAttached ==
  ASSUME NEW s, ThreadOK(s), InJava(s)
  PROVE  /\ s.att
         /\ s.stack # <<>> => ~TopFlag(s)
<1>1. CASE s.stack = <<>>
  BY <1>1 DEF InJava, ThreadOK, AttachOK
<1>2. CASE s.stack # <<>>
  <2>1. s.stack[Len(s.stack)].kind = "java"
    BY <1>2 DEF InJava
  <2>2. FrameOK(s.stack[Len(s.stack)]) /\ Len(s.stack) \in 1..Len(s.stack)
    BY <1>2, TopFacts
  <2>3. s.att
    BY <2>1, <2>2 DEF ThreadOK, AttachOK
  <2> QED
    BY <2>1, <2>2, <2>3 DEF FrameOK, TopFlag
<1> QED
  BY <1>1, <1>2

\* The thread attaches itself for good.
LEMMA Ensures ==
  ASSUME NEW s, ThreadOK(s), ~s.att
  PROVE  /\ ThreadOK([s EXCEPT !.att = TRUE, !.ensured = TRUE])
         /\ DetachOK(s, [s EXCEPT !.att = TRUE, !.ensured = TRUE])
         /\ [s EXCEPT !.att = TRUE, !.ensured = TRUE].java = s.java
<1>1. PICK x : x = [s EXCEPT !.att = TRUE, !.ensured = TRUE]
  OBVIOUS
<1>2. /\ ThreadShape(x) /\ x.java = s.java /\ x.ensured = TRUE /\ x.att = TRUE
      /\ x.tls = s.tls /\ x.stack = s.stack
  BY <1>1 DEF ThreadOK, ThreadShape
<1>3. \A i \in 1..Len(s.stack) : ~Attacher(s.stack[i])
  BY DEF ThreadOK, AttachOK
<1>4. AttachOK(s.java, TRUE, TRUE, s.stack)
  BY <1>3 DEF AttachOK
<1>5. ThreadOK(x)
  BY <1>2, <1>4 DEF ThreadOK
<1> QED
  BY <1>1, <1>2, <1>5 DEF DetachOK

-----------------------------------------------------------------------------
(* Crossings: one step per operation *)

\* A step that moves thread t keeps the invariant and detaches no one it must not.
StepOK(t) ==
    \E x : /\ th' = [th EXCEPT ![t] = x]
           /\ ThreadOK(x) /\ x.java = th[t].java /\ DetachOK(th[t], x)
           /\ x.stack # <<>> => vm'
           /\ vm => vm'
           /\ ~asserted'

\* A step of one thread, from what it does to that thread.
LEMMA Moves ==
  ASSUME NEW t \in Threads, NEW x, Move(t, x), ThreadOK(x), x.java = th[t].java, DetachOK(th[t], x),
         x.stack # <<>> => vm', vm => vm', ~asserted'
  PROVE  StepOK(t)
BY DEF Move, StepOK

\* Only the exceptions of the thread change.
LEMMA MovesSame ==
  ASSUME CallsInv, NEW t \in Threads, NEW x, Move(t, x), SameThread(x, th[t]), vm => vm', ~asserted'
  PROVE  StepOK(t)
<1>1. ThreadOK(th[t]) /\ (th[t].stack # <<>> => vm)
  BY DEF CallsInv
<1>2. DetachOK(th[t], th[t])
  BY DEF DetachOK
<1>3. ThreadOK(x) /\ x.java = th[t].java /\ DetachOK(th[t], x)
  BY <1>1, <1>2, SameThreadOK
<1>4. x.stack = th[t].stack
  BY DEF SameThread
<1> QED
  BY <1>1, <1>3, <1>4, Moves

\* Calls of native methods and their returns.
LEMMA NativeStep ==
  ASSUME CallsInv, NEW t \in Threads,
         CallNative(t) \/ NativeReturn(t) \/ translatePendingCppExceptionToJavaException(t)
  PROVE  StepOK(t)
<1>1. PICK s : s = th[t]
  OBVIOUS
<1>2. ThreadOK(s) /\ (s.stack # <<>> => vm)
  BY <1>1 DEF CallsInv
<1>3. CASE CallNative(t)
  <2>1. InJava(s) /\ vm /\ Move(t, JniEnvCacher(s)) /\ UNCHANGED <<vm, asserted>>
    BY <1>1, <1>3 DEF CallNative, JavaRuns, Quiet
  <2>2. ThreadOK(JniEnvCacher(s)) /\ JniEnvCacher(s).att = TRUE /\ JniEnvCacher(s).java = s.java
    BY <1>2, <2>1, InJavaAttached, CacherEnters
  <2>3. DetachOK(s, JniEnvCacher(s))
    BY <2>2 DEF DetachOK
  <2>4. ~asserted'
    BY <2>1 DEF CallsInv
  <2> QED
    BY <1>1, <2>1, <2>2, <2>3, <2>4, Moves
<1>4. ASSUME Top(s) = "native"
      PROVE  /\ ThreadOK(JniEnvCacherGone(s)) /\ DetachOK(s, JniEnvCacherGone(s))
             /\ JniEnvCacherGone(s).java = s.java /\ CacherAsserts(s) /\ vm
  <2>1. s.stack # <<>>
    BY <1>4 DEF Top
  <2> QED
    BY <1>2, <1>4, <2>1, CacherLeaves
<1>5. CASE NativeReturn(t)
  <2>1. Top(s) = "native" /\ Move(t, JniEnvCacherGone(s)) /\ asserted' = ~CacherAsserts(s) /\ vm' = vm
    BY <1>1, <1>5 DEF NativeReturn, Asserting
  <2>2. ~asserted' /\ vm'
    BY <1>4, <2>1
  <2> QED
    BY <1>1, <1>4, <2>1, <2>2, Moves
<1>6. CASE translatePendingCppExceptionToJavaException(t)
  <2>1. PICK exc : exc = getJavaExceptionForCppException(s.cpp)
    OBVIOUS
  <2>2. /\ Top(s) = "native" /\ Move(t, [JniEnvCacherGone(s) EXCEPT !.cpp = <<>>, !.pending = exc])
        /\ asserted' = ~CacherAsserts(s) /\ vm' = vm
    BY <1>1, <1>6, <2>1 DEF translatePendingCppExceptionToJavaException
  <2>3. PICK y : y = JniEnvCacherGone(s)
    OBVIOUS
  <2>4. ThreadOK(y) /\ DetachOK(s, y) /\ y.java = s.java /\ CacherAsserts(s) /\ vm
    BY <1>4, <2>2, <2>3
  <2>5. PICK x : x = [y EXCEPT !.cpp = <<>>, !.pending = exc]
    OBVIOUS
  <2>6. SameThread(x, y)
    BY <2>4, <2>5, ExceptionsOnly
  <2>7. ThreadOK(x) /\ x.java = s.java /\ DetachOK(s, x)
    BY <2>4, <2>6, SameThreadOK
  <2>8. ~asserted' /\ vm' /\ Move(t, x)
    BY <2>2, <2>3, <2>4, <2>5
  <2> QED
    BY <1>1, <2>7, <2>8, Moves
<1> QED
  BY <1>3, <1>5, <1>6

\* Construction and destruction of a ThreadScope.
LEMMA ScopeStep ==
  ASSUME CallsInv, NEW t \in Threads, EnterScope(t) \/ LeaveScope(t)
  PROVE  StepOK(t)
<1>1. PICK s : s = th[t]
  OBVIOUS
<1>2. ThreadOK(s) /\ (s.stack # <<>> => vm) /\ ~asserted
  BY <1>1 DEF CallsInv
<1>3. CASE EnterScope(t) /\ ~vm
  <2>1. PICK c : c = <<[type |-> "runtime_error", throwable |-> <<>>]>>
    OBVIOUS
  <2>2. Move(t, [s EXCEPT !.cpp = c]) /\ UNCHANGED <<vm, asserted>>
    BY <1>1, <1>3, <2>1 DEF EnterScope, Quiet
  <2>3. SameThread([s EXCEPT !.cpp = c], s)
    BY <1>2, ExceptionsOnly
  <2> QED
    BY <1>1, <1>2, <2>2, <2>3, MovesSame
<1>4. CASE EnterScope(t) /\ vm
  <2>1. Move(t, ThreadScope(s)) /\ asserted' = ~ (s.att \/ s.tls = 0) /\ vm'
    BY <1>1, <1>4 DEF EnterScope, Asserting
  <2>2. ThreadOK(ThreadScope(s)) /\ ThreadScope(s).att /\ ThreadScope(s).java = s.java /\ (s.att \/ s.tls = 0)
    BY <1>2, ScopeEnters
  <2>3. DetachOK(s, ThreadScope(s))
    BY <2>2 DEF DetachOK
  <2>4. ~asserted'
    BY <2>1, <2>2
  <2> QED
    BY <1>1, <2>1, <2>2, <2>3, <2>4, Moves
<1>5. CASE LeaveScope(t)
  <2>1. Top(s) = "scope" /\ Move(t, ThreadScopeGone(s)) /\ asserted' = ~ScopeAsserts(s) /\ vm' = vm
    BY <1>1, <1>5 DEF LeaveScope, Asserting
  <2>2. vm
    BY <1>2, <2>1 DEF Top
  <2>3. /\ ThreadOK(ThreadScopeGone(s)) /\ DetachOK(s, ThreadScopeGone(s))
        /\ ThreadScopeGone(s).java = s.java /\ ScopeAsserts(s)
    BY <1>2, <2>1, <2>2, ScopeLeaves
  <2>4. ~asserted' /\ vm'
    BY <2>1, <2>2, <2>3
  <2> QED
    BY <1>1, <2>1, <2>3, <2>4, Moves
<1> QED
  BY <1>3, <1>4, <1>5

\* Attachments made outside the library.
LEMMA ExtStep ==
  ASSUME CallsInv, NEW t \in Threads,
         EnterExt(t) \/ LeaveExt(t) \/ ensureCurrentThreadIsAttached(t)
  PROVE  StepOK(t)
<1>1. PICK s : s = th[t]
  OBVIOUS
<1>2. ThreadOK(s) /\ (s.stack # <<>> => vm) /\ ~asserted
  BY <1>1 DEF CallsInv
<1>3. CASE EnterExt(t)
  <2>1. PICK x : x = [Push(s, Frame("ext", ~s.att, FALSE, FALSE)) EXCEPT !.att = TRUE]
    OBVIOUS
  <2>2. vm /\ Move(t, x) /\ UNCHANGED <<vm, asserted>>
    BY <1>1, <1>3, <2>1 DEF EnterExt, Quiet
  <2>3. ThreadOK(x) /\ DetachOK(s, x) /\ x.java = s.java
    BY <1>2, <2>1, ExtEnters
  <2> QED
    BY <1>1, <1>2, <2>2, <2>3, Moves
<1>4. CASE LeaveExt(t)
  <2>1. PICK x : x = [Pop(s) EXCEPT !.att = @ /\ ~TopFlag(s)]
    OBVIOUS
  <2>2. Top(s) = "ext" /\ Move(t, x) /\ UNCHANGED <<vm, asserted>>
    BY <1>1, <1>4, <2>1 DEF LeaveExt, Quiet
  <2>3. ThreadOK(x) /\ DetachOK(s, x) /\ x.java = s.java
    BY <1>2, <2>1, <2>2, ExtLeaves
  <2>4. vm
    BY <1>2, <2>2 DEF Top
  <2> QED
    BY <1>1, <1>2, <2>2, <2>3, <2>4, Moves
<1>5. CASE ensureCurrentThreadIsAttached(t)
  <2>1. PICK x : x = [s EXCEPT !.att = TRUE, !.ensured = TRUE]
    OBVIOUS
  <2>2. vm /\ ~s.att /\ Move(t, x) /\ UNCHANGED <<vm, asserted>>
    BY <1>1, <1>5, <2>1 DEF ensureCurrentThreadIsAttached, currentOrNull, Quiet
  <2>3. ThreadOK(x) /\ DetachOK(s, x) /\ x.java = s.java
    BY <1>2, <2>1, <2>2, Ensures
  <2> QED
    BY <1>1, <1>2, <2>2, <2>3, Moves
<1> QED
  BY <1>3, <1>4, <1>5

\* C++ calls Java, and Java comes back.
LEMMA JavaStep ==
  ASSUME CallsInv, NEW t \in Threads,
         CallJava(t) \/ JavaReturn(t) \/ throwPendingJniExceptionAsCppException(t)
  PROVE  StepOK(t)
<1>1. PICK s : s = th[t]
  OBVIOUS
<1>2. ThreadOK(s) /\ (s.stack # <<>> => vm) /\ ~asserted
  BY <1>1 DEF CallsInv
<1>3. CASE CallJava(t) /\ currentOrNull(s)
  <2>1. PICK f : f = Frame("java", FALSE, FALSE, FALSE)
    OBVIOUS
  <2>2. vm /\ Move(t, Push(s, f)) /\ UNCHANGED <<vm, asserted>>
    BY <1>1, <1>3, <2>1 DEF CallJava, Quiet
  <2>3. s.att
    BY <1>2, <1>3, CachedIsAttached DEF currentOrNull
  <2>4. ThreadOK(Push(s, f))
    BY <1>2, <2>1, <2>3, PlainPush
  <2>5. ThreadShape(s)
    BY <1>2 DEF ThreadOK
  <2>6. Push(s, f).java = s.java /\ Push(s, f).att = s.att
    BY <2>5, PushFields
  <2>7. DetachOK(s, Push(s, f))
    BY <2>6 DEF DetachOK
  <2> QED
    BY <1>1, <1>2, <2>2, <2>4, <2>6, <2>7, Moves
<1>4. CASE CallJava(t) /\ ~currentOrNull(s)
  <2>1. PICK c : c = <<[type |-> "runtime_error", throwable |-> <<>>]>>
    OBVIOUS
  <2>2. Move(t, [s EXCEPT !.cpp = c]) /\ UNCHANGED <<vm, asserted>>
    BY <1>1, <1>4, <2>1 DEF CallJava, Quiet
  <2>3. SameThread([s EXCEPT !.cpp = c], s)
    BY <1>2, ExceptionsOnly
  <2> QED
    BY <1>1, <1>2, <2>2, <2>3, MovesSame
<1>5. ASSUME InJava(s), s.stack # <<>>
      PROVE  ThreadOK(Pop(s)) /\ DetachOK(s, Pop(s)) /\ Pop(s).java = s.java /\ vm
  BY <1>2, <1>5, InJavaAttached, PlainPop
<1>6. CASE JavaReturn(t)
  <2>1. InJava(s) /\ s.stack # <<>> /\ Move(t, Pop(s)) /\ UNCHANGED <<vm, asserted>>
    BY <1>1, <1>6 DEF JavaReturn, JavaRuns, Quiet
  <2> QED
    BY <1>1, <1>2, <1>5, <2>1, Moves
<1>7. CASE throwPendingJniExceptionAsCppException(t)
  <2>1. PICK c : c = <<[type |-> "JniException", throwable |-> s.pending]>>
    OBVIOUS
  <2>2. PICK y : y = Pop(s)
    OBVIOUS
  <2>3. PICK x : x = [y EXCEPT !.pending = <<>>, !.cpp = c]
    OBVIOUS
  <2>4. InJava(s) /\ s.stack # <<>> /\ Move(t, x) /\ UNCHANGED <<vm, asserted>>
    BY <1>1, <1>7, <2>1, <2>2, <2>3 DEF throwPendingJniExceptionAsCppException, Quiet
  <2>5. ThreadOK(y) /\ DetachOK(s, y) /\ y.java = s.java /\ vm
    BY <1>5, <2>2, <2>4
  <2>6. SameThread(x, y)
    BY <2>3, <2>5, ExceptionsOnly
  <2>7. ThreadOK(x) /\ x.java = s.java /\ DetachOK(s, x)
    BY <2>5, <2>6, SameThreadOK
  <2> QED
    BY <1>1, <1>2, <2>4, <2>5, <2>7, Moves
<1> QED
  BY <1>1, <1>3, <1>4, <1>6, <1>7

\* WithClassLoader runs a function in Java.
LEMMA ClassLoaderStep ==
  ASSUME CallsInv, NEW t \in Threads, WithClassLoader(t)
  PROVE  StepOK(t)
<1>1. PICK s : s = th[t]
  OBVIOUS
<1>2. ThreadOK(s) /\ ~asserted
  BY <1>1 DEF CallsInv
<1>3. PICK w : w = ThreadScope(s)
  OBVIOUS
<1>4. PICK f : f = Frame("java", FALSE, FALSE, FALSE)
  OBVIOUS
<1>5. PICK y : y = Push(w, f)
  OBVIOUS
<1>6. PICK x : x = JniEnvCacher(y)
  OBVIOUS
<1>7. vm /\ Move(t, x) /\ asserted' = ~ (s.att \/ s.tls = 0) /\ vm' = vm
  BY <1>1, <1>3, <1>4, <1>5, <1>6 DEF WithClassLoader, Asserting
<1>8. ThreadOK(w) /\ w.att /\ w.java = s.java /\ (s.att \/ s.tls = 0) /\ ThreadShape(w)
  BY <1>2, <1>3, ScopeEnters DEF ThreadOK
<1>9. ThreadOK(y)
  BY <1>4, <1>5, <1>8, PlainPush
<1>10. y.att = w.att /\ y.java = w.java
  BY <1>5, <1>8, PushFields
<1>11. y.att
  BY <1>8, <1>10
<1>12. ThreadOK(x) /\ x.att = TRUE /\ x.java = y.java
  BY <1>6, <1>9, <1>11, CacherEnters
<1>13. DetachOK(s, x)
  BY <1>12 DEF DetachOK
<1>14. ~asserted' /\ x.java = s.java
  BY <1>7, <1>8, <1>10, <1>12
<1> QED
  BY <1>1, <1>7, <1>12, <1>13, <1>14, Moves

\* The scopes of a JniException.
LEMMA JniExceptionStep ==
  ASSUME CallsInv, NEW t \in Threads, populateWhat(t) \/ CppCatch(t)
  PROVE  StepOK(t)
<1>1. PICK s : s = th[t]
  OBVIOUS
<1>2. ThreadOK(s) /\ ~asserted
  BY <1>1 DEF CallsInv
<1>3. PICK y : y = ThreadScopeGone(ThreadScope(s))
  OBVIOUS
<1>4. SameThread(y, s) /\ (s.att \/ s.tls = 0)
  BY <1>2, <1>3, ScopeAlone, CachedIsAttached DEF SameThread
<1>5. ThreadOK(y)
  BY <1>2, <1>4, SameThreadOK
<1>6. CASE populateWhat(t)
  <2>1. Move(t, y) /\ asserted' = ~ (s.att \/ s.tls = 0) /\ vm' = vm
    BY <1>1, <1>3, <1>6 DEF populateWhat, Asserting
  <2>2. ~asserted'
    BY <1>4, <2>1
  <2> QED
    BY <1>1, <1>4, <2>1, <2>2, MovesSame
<1>7. CASE CppCatch(t)
  <2>1. PICK z : z = IF HoldsJniException(s) THEN y ELSE s
    OBVIOUS
  <2>2. PICK x : x = [z EXCEPT !.cpp = <<>>]
    OBVIOUS
  <2>3. Move(t, x) /\ asserted' = ~ (HoldsJniException(s) => s.att \/ s.tls = 0) /\ vm' = vm
    BY <1>1, <1>3, <1>7, <2>1, <2>2 DEF CppCatch, Asserting
  <2>4. ThreadOK(z) /\ SameThread(z, s)
    BY <1>2, <1>4, <1>5, <2>1, ExceptionsOnly
  <2>5. SameThread(x, z)
    BY <2>2, <2>4, ExceptionsOnly
  <2>6. SameThread(x, s)
    BY <2>4, <2>5 DEF SameThread
  <2>7. ~asserted'
    BY <1>4, <2>3
  <2> QED
    BY <1>1, <2>3, <2>6, <2>7, MovesSame
<1> QED
  BY <1>6, <1>7

\* Initialisation, and everything that only moves exceptions.
LEMMA ExceptionStep ==
  ASSUME CallsInv, NEW t \in Threads,
         \/ \E f : Initialize(t, f)
         \/ LookupFails(t) \/ GetOrSetField(t) \/ JavaCatch(t)
         \/ \E id \in Throwables : JavaThrow(t, id)
         \/ CppThrow(t) \/ CppNest(t) \/ mapException(t) \/ Uncaught(t)
  PROVE  StepOK(t)
<1>1. PICK s : s = th[t]
  OBVIOUS
<1>2. ThreadOK(s) /\ ~asserted
  BY <1>1 DEF CallsInv
<1>3. ASSUME NEW c, Move(t, [s EXCEPT !.cpp = c]), vm => vm', asserted' = asserted PROVE StepOK(t)
  <2>1. SameThread([s EXCEPT !.cpp = c], s)
    BY <1>2, ExceptionsOnly
  <2> QED
    BY <1>1, <1>2, <1>3, <2>1, MovesSame
<1>4. ASSUME NEW d, Move(t, [s EXCEPT !.pending = d]), vm => vm', asserted' = asserted PROVE StepOK(t)
  <2>1. SameThread([s EXCEPT !.pending = d], s)
    BY <1>2, ExceptionsOnly
  <2> QED
    BY <1>1, <1>2, <1>4, <2>1, MovesSame
<1>5. ASSUME Move(t, s), vm => vm', asserted' = asserted PROVE StepOK(t)
  <2>1. SameThread(s, s)
    BY <1>2, ExceptionsOnly
  <2> QED
    BY <1>1, <1>2, <1>5, <2>1, MovesSame
<1>6. ASSUME NEW f, Initialize(t, f) PROVE StepOK(t)
  BY <1>1, <1>4, <1>6 DEF Initialize
<1>7. CASE LookupFails(t)
  BY <1>1, <1>3, <1>7 DEF LookupFails, Quiet
<1>8. CASE GetOrSetField(t) \/ Uncaught(t)
  BY <1>1, <1>5, <1>8 DEF GetOrSetField, Uncaught
<1>9. CASE JavaCatch(t)
  BY <1>1, <1>4, <1>9 DEF JavaCatch, Quiet
<1>10. ASSUME NEW id \in Throwables, JavaThrow(t, id) PROVE StepOK(t)
  BY <1>1, <1>4, <1>10 DEF JavaThrow, Quiet
<1>11. CASE CppThrow(t) \/ mapException(t)
  <2>1. PICK e : Move(t, [s EXCEPT !.cpp = <<e>>])
    BY <1>1, <1>11 DEF CppThrow, mapException
  <2>2. vm' = vm /\ asserted' = asserted
    BY <1>11 DEF CppThrow, mapException, Quiet
  <2> QED
    BY <1>3, <2>1, <2>2
<1>12. CASE CppNest(t)
  <2>1. PICK e : Move(t, [s EXCEPT !.cpp = <<e>> \o @])
    BY <1>1, <1>12 DEF CppNest
  <2>2. PICK c : c = <<e>> \o s.cpp
    OBVIOUS
  <2>3. Move(t, [s EXCEPT !.cpp = c]) /\ vm' = vm /\ asserted' = asserted
    BY <1>12, <2>1, <2>2 DEF CppNest, Quiet
  <2> QED
    BY <1>3, <2>3
<1> QED
  BY <1>6, <1>7, <1>8, <1>9, <1>10, <1>11, <1>12

-----------------------------------------------------------------------------
(* Crossings: the theorems *)

\* Every step is a sound step of some thread.
LEMMA CallsStep ==
  ASSUME CallsInv, CallsNext
  PROVE  \E t \in Threads : StepOK(t)
<1>1. PICK t \in Threads :
        \/ \E f \in {<<>>} \cup {<<[type |-> c, throwable |-> <<>>]>> : c \in CppTypes \ {"JniException"}} :
               Initialize(t, f)
        \/ CallNative(t) \/ NativeReturn(t)
        \/ translatePendingCppExceptionToJavaException(t)
        \/ EnterScope(t) \/ LeaveScope(t)
        \/ EnterExt(t) \/ LeaveExt(t)
        \/ ensureCurrentThreadIsAttached(t)
        \/ CallJava(t) \/ LookupFails(t) \/ GetOrSetField(t) \/ WithClassLoader(t)
        \/ JavaReturn(t) \/ JavaCatch(t)
        \/ \E id \in Throwables : JavaThrow(t, id)
        \/ throwPendingJniExceptionAsCppException(t)
        \/ CppThrow(t) \/ CppNest(t) \/ mapException(t)
        \/ populateWhat(t) \/ CppCatch(t) \/ Uncaught(t)
  BY DEF CallsNext
<1>2. StepOK(t)
  BY <1>1, NativeStep, ScopeStep, ExtStep, JavaStep, ClassLoaderStep, JniExceptionStep, ExceptionStep
<1> QED
  BY <1>2

\* No frames at first.
LEMMA CallsInitially ==
  ASSUME CallsInit
  PROVE  CallsInv
<1>1. ASSUME NEW t \in Threads PROVE ThreadOK(th[t]) /\ th[t].stack = <<>>
  <2>1. PICK java \in BOOLEAN : th[t] = Thread(java)
    BY DEF CallsInit
  <2>2. PICK s : s = th[t]
    OBVIOUS
  <2>3. s = [java |-> java, att |-> java, tls |-> 0, stack |-> <<>>,
             cpp |-> <<>>, pending |-> <<>>, ensured |-> FALSE]
    BY <2>1, <2>2 DEF Thread
  <2>4. ThreadShape(s) /\ s.stack = <<>> /\ s.tls = 0 /\ s.att = s.java /\ s.ensured = FALSE
    BY <2>3 DEF ThreadShape
  <2>5. Len(<<>>) = 0 /\ <<>> \in Seq(FrameType) /\ 1..0 = {}
    OBVIOUS
  <2>6. FramesOK(<<>>) /\ CacheOK(0, <<>>) /\ AttachOK(s.java, FALSE, s.java, <<>>)
    BY <2>5 DEF FramesOK, CacheOK, AttachOK
  <2> QED
    BY <2>2, <2>4, <2>6 DEF ThreadOK
<1>2. th = [t \in Threads |-> th[t]] /\ ~asserted
  BY DEF CallsInit
<1> QED
  BY <1>1, <1>2 DEF CallsInv

\* The invariant of the crossings is inductive.
LEMMA CallsKeep ==
  ASSUME CallsInv, [CallsNext]_callsVars
  PROVE  CallsInv'
<1>1. CASE UNCHANGED callsVars
  BY <1>1 DEF CallsInv, callsVars
<1>2. CASE CallsNext
  <2>1. PICK t \in Threads : StepOK(t)
    BY <1>2, CallsStep
  <2>2. PICK x : /\ th' = [th EXCEPT ![t] = x] /\ ThreadOK(x)
                 /\ x.stack # <<>> => vm'
                 /\ vm => vm'
                 /\ ~asserted'
    BY <2>1 DEF StepOK
  <2>3. th' = [u \in Threads |-> th'[u]] /\ th'[t] = x /\ \A u \in Threads \ {t} : th'[u] = th[u]
    BY <2>2 DEF CallsInv
  <2>4. \A u \in Threads : ThreadOK(th[u]) /\ (th[u].stack # <<>> => vm)
    BY DEF CallsInv
  <2>5. \A u \in Threads : ThreadOK(th'[u]) /\ (th'[u].stack # <<>> => vm')
    BY <2>2, <2>3, <2>4
  <2> QED
    BY <2>2, <2>3, <2>5 DEF CallsInv
<1> QED
  BY <1>1, <1>2

\* The invariant is strong enough.
LEMMA TlsFollows ==
  ASSUME CallsInv
  PROVE  TlsSound
<1>1. ASSUME NEW t \in Threads, NEW s, s = th[t]
      PROVE  /\ s.tls \in {0} \cup DOMAIN s.stack
             /\ {i \in DOMAIN s.stack : s.stack[i].env \/ s.stack[i].attached} = {s.tls} \ {0}
             /\ cachedOrNull(s) => s.att
             /\ cachedOrNull(s) <=> \E i \in DOMAIN s.stack :
                                      s.stack[i].kind = "native" /\ s.stack[i].flag
  <2>1. ThreadOK(s)
    BY <1>1 DEF CallsInv
  <2>2. PICK n \in Nat : Len(s.stack) = n /\ DOMAIN s.stack = 1..n
    BY <2>1 DEF ThreadOK, FramesOK
  <2>3. s.tls \in 0..n /\ 0..n = {0} \cup 1..n /\ 0 \notin 1..n
    BY <2>1, <2>2 DEF ThreadOK, CacheOK
  <2>4. \A i \in 1..n : (s.stack[i].env \/ s.stack[i].attached) <=> i = s.tls
    BY <2>1, <2>2 DEF ThreadOK, CacheOK
  <2>5. {i \in 1..n : s.stack[i].env \/ s.stack[i].attached} = {s.tls} \ {0}
    BY <2>3, <2>4
  <2>6. cachedOrNull(s) => s.att
    BY <2>1, CachedIsAttached
  <2>7. cachedOrNull(s) <=> \E i \in 1..n : Cacher(s.stack[i])
    BY <2>1, <2>2 DEF ThreadOK, CacheOK, cachedOrNull
  <2>8. cachedOrNull(s) <=> \E i \in 1..n : s.stack[i].kind = "native" /\ s.stack[i].flag
    BY <2>7 DEF Cacher
  <2> QED
    BY <2>2, <2>3, <2>5, <2>6, <2>8
<1>2. ~asserted
  BY DEF CallsInv
<1> QED
  BY <1>1, <1>2 DEF TlsSound

\* For any number of threads and any nesting of native methods, scopes and
\* foreign attachments, the thread-local record of Environment never dangles,
\* it belongs to exactly one live frame, and no assertion of ~JniEnvCacher,
\* ThreadScope or ~ThreadScope fails.
THEOREM TlsNeverDangles == CallsSpec => []TlsSound
<1>1. CallsInit => CallsInv
  BY CallsInitially
<1>2. CallsInv /\ [CallsNext]_callsVars => CallsInv'
  BY CallsKeep
<1>3. CallsInv => TlsSound
  BY TlsFollows
<1> QED
  BY <1>1, <1>2, <1>3, PTL DEF CallsSpec

\* ~ThreadScope and ~JniException never detach a thread that Java code still
\* needs, that the VM started or that ensureCurrentThreadIsAttached attached,
\* and a thread that leaves its last block is left as it was found.
THEOREM DetachesSafely == CallsSpec => DetachSafe
<1> DEFINE Safe(s, x) ==
             /\ s.att /\ ~x.att
                   => /\ ~s.java
                      /\ ~s.ensured
                      /\ \A i \in DOMAIN x.stack : x.stack[i].kind \notin {"java", "native"}
             /\ x.stack = <<>> /\ ~s.java /\ ~x.ensured => ~x.att
           All == \A t \in Threads : Safe(th[t], th'[t])
<1>1. ASSUME NEW s, NEW x, ThreadOK(x), x.java = s.java, DetachOK(s, x) PROVE Safe(s, x)
  <2>1. DOMAIN x.stack = 1..Len(x.stack)
    BY <1>1 DEF ThreadOK, FramesOK
  <2>2. s.att /\ ~x.att => /\ ~s.java
                           /\ ~s.ensured
                           /\ \A i \in DOMAIN x.stack : x.stack[i].kind \notin {"java", "native"}
    BY <1>1, <2>1 DEF DetachOK
  <2>3. x.stack = <<>> => 1..Len(x.stack) = {}
    OBVIOUS
  <2>4. x.stack = <<>> /\ ~s.java /\ ~x.ensured => ~x.att
    BY <1>1, <2>3 DEF ThreadOK, AttachOK
  <2> QED
    BY <2>2, <2>4
<1>2. CallsInv /\ CallsNext => All
  <2> SUFFICES ASSUME CallsInv, CallsNext, NEW u \in Threads PROVE Safe(th[u], th'[u])
    OBVIOUS
  <2> HIDE DEF Safe
  <2>1. PICK t \in Threads : StepOK(t)
    BY CallsStep
  <2>2. PICK x : /\ th' = [th EXCEPT ![t] = x] /\ ThreadOK(x) /\ x.java = th[t].java
                 /\ DetachOK(th[t], x)
    BY <2>1 DEF StepOK
  <2>3. th'[t] = x /\ \A v \in Threads \ {t} : th'[v] = th[v]
    BY <2>2 DEF CallsInv
  <2>4. CASE u = t
    BY <1>1, <2>2, <2>3, <2>4
  <2>5. CASE u # t
    <3>1. ThreadOK(th[u]) /\ DetachOK(th[u], th[u]) /\ th'[u] = th[u]
      BY <2>3, <2>5 DEF CallsInv, DetachOK
    <3>2. Safe(th[u], th[u])
      BY <1>1, <3>1
    <3> QED
      BY <3>1, <3>2
  <2> QED
    BY <2>4, <2>5
<1>3. CallsInit => CallsInv
  BY CallsInitially
<1>4. CallsInv /\ [CallsNext]_callsVars => CallsInv'
  BY CallsKeep
<1>5. CallsInv /\ [CallsNext]_callsVars => [All]_callsVars
  BY <1>2
<1> QED
  BY <1>3, <1>4, <1>5, PTL DEF CallsSpec, DetachSafe

-----------------------------------------------------------------------------
(* Handles and iterators: the inductive invariant *)

PinSet == [kind : {"none", "array", "critical", "region"}, array : BOOLEAN,
           elements : Buffers \cup {"null"}]

PinTypes ==
    /\ pin \in [Pins -> PinSet]
    /\ buf \in [Buffers -> {"unused", "held", "leaked", "freed"}]
    /\ pending \in BOOLEAN

\* Elements only where there is an array, and an object.
PinInv ==
    \A p \in Pins : pin[p].elements # "null" => pin[p].kind # "none" /\ pin[p].array

\* What an object points to is held, by it alone, and what is held has an owner.
Sound ==
    /\ \A p \in Pins : pin[p].elements # "null" =>
          /\ buf[pin[p].elements] = "held"
          /\ \A q \in Pins : pin[q].elements = pin[p].elements => q = p
    /\ \A b \in Buffers : buf[b] = "held" => \E p \in Pins : pin[p].elements = b

BufInv == "threw" \notin mishap => "twice" \notin mishap /\ Sound

Owners == {m \in Locks : locks[m] = "owns"}

MonitorInv ==
    /\ locks \in [Locks -> {"none", "owns", "empty"}]
    /\ depth \in Int
    /\ aborted \in BOOLEAN
    /\ ~aborted => depth = Cardinality(Owners)

PartInv ==
    /\ part \in [Parts -> {"none", "held", "deleted"}]
    /\ field \in [Hybrids -> Parts \cup {"null"}]
    /\ \A h \in Hybrids : field[h] # "null" =>
          /\ part[field[h]] = "held"
          /\ \A g \in Hybrids : field[g] = field[h] => g = h
    /\ \A c \in Parts : part[c] = "held" => \E h \in Hybrids : field[h] = c

\* The position of an iterator, or of its copy, and the element there.
AtElement(it) == it.i # -1 /\ ~it.stale => it.entry = Elements[it.i + 1]

CopyOK(it) ==
    /\ it = [i |-> it.i, entry |-> it.entry, stale |-> it.stale]
    /\ it.i \in Nat \cup {-1} /\ it.stale \in BOOLEAN
    /\ AtElement(it)

IterOK(it) ==
    /\ it = [i |-> it.i, entry |-> it.entry, stale |-> it.stale,
             helper |-> it.helper, copy |-> it.copy]
    /\ it.i \in Nat \cup {-1} /\ it.stale \in BOOLEAN
    /\ it.helper \in 0..Len(Elements)
    /\ it.i = -1 => it.helper \in {0, Len(Elements)} /\ it.entry = "null"
    /\ it.i # -1 => it.i + 1 = it.helper
    /\ AtElement(it) /\ CopyOK(it.copy)

ObjectsInv ==
    PinTypes /\ PinInv /\ BufInv /\ MonitorInv /\ PartInv /\ IterOK(iter)

PinsInv == PinTypes /\ PinInv /\ BufInv

-----------------------------------------------------------------------------
(* Pinned arrays *)

\* The objects of thn have what the objects of pin but p have, each one alone.
Hands(thn, p) ==
    /\ thn \in [Pins -> PinSet]
    /\ \A q \in Pins : thn[q].elements # "null" => thn[q].kind # "none" /\ thn[q].array
    /\ Sound => /\ \A q \in Pins : thn[q].elements # "null" =>
                      \E r \in Pins \ {p} : pin[r].elements = thn[q].elements
                /\ \A q, r \in Pins :
                      thn[q].elements # "null" /\ thn[q].elements = thn[r].elements => q = r
                /\ \A r \in Pins \ {p} : pin[r].elements # "null" =>
                      \E q \in Pins : thn[q].elements = pin[r].elements

\* What a pinned array may be.
LEMMA PinFacts ==
  ASSUME PinsInv, NEW p \in Pins
  PROVE  /\ pin[p] \in PinSet
         /\ pin[p].kind \in {"none", "array", "critical", "region"}
         /\ pin[p].array \in BOOLEAN
         /\ pin[p].elements \in Buffers \cup {"null"}
         /\ pin[p].elements # "null" => pin[p].kind # "none" /\ pin[p].array
  BY DEF PinsInv, PinTypes, PinInv, PinSet

\* Giving a buffer back is done once, or ends in an exception.
LEMMA ReleaseSound ==
  ASSUME PinsInv, NEW p \in Pins, NEW mode, mode # "commit",
         NEW thn, Hands(thn, p), ReleaseImpl(p, mode, thn)
  PROVE  PinsInv'
<1>1. PICK e : e = pin[p].elements /\ e \in Buffers \cup {"null"}
  BY PinFacts
<1>2. /\ \A b \in Buffers : buf'[b] = IF b = e THEN "freed" ELSE buf[b]
      /\ buf' = [b \in Buffers |-> IF b \in {e} \ {"null"} THEN "freed" ELSE buf[b]]
  BY <1>1, NullAssumption DEF ReleaseImpl, Freed
<1>3. PinTypes'
  <2>1. buf' \in [Buffers -> {"unused", "held", "leaked", "freed"}]
    BY <1>2 DEF PinsInv, PinTypes
  <2>2. pin' \in [Pins -> PinSet]
    BY DEF ReleaseImpl, Hands, PinsInv, PinTypes
  <2>3. pending' \in BOOLEAN
    BY Zenon DEF ReleaseImpl
  <2> QED
    BY <2>1, <2>2, <2>3 DEF PinTypes
<1>4. PinInv'
  BY DEF ReleaseImpl, Hands, PinsInv, PinInv
<1>5. BufInv'
  <2> SUFFICES ASSUME "threw" \notin mishap' PROVE "twice" \notin mishap' /\ Sound'
    BY DEF BufInv
  <2>1. /\ "threw" \notin mishap /\ ~Throws(p, mode) /\ pin' = thn
        /\ "twice" \in mishap' =>
             "twice" \in mishap \/ \E b \in {e} \ {"null"} : buf[b] # "held"
    BY <1>1 DEF ReleaseImpl, Freed
  <2>2. "twice" \notin mishap /\ Sound
    BY <2>1 DEF PinsInv, BufInv
  <2>3. "twice" \notin mishap'
    BY <1>1, <2>1, <2>2 DEF Sound
  <2>4. ASSUME NEW q \in Pins, thn[q].elements # "null"
        PROVE  /\ buf'[thn[q].elements] = "held"
               /\ \A r \in Pins : thn[r].elements = thn[q].elements => r = q
    <3>1. PICK r \in Pins \ {p} : pin[r].elements = thn[q].elements
      BY <2>2, <2>4 DEF Hands
    <3>2. pin[r].elements # e /\ pin[r].elements \in Buffers /\ buf[pin[r].elements] = "held"
      BY <1>1, <2>2, <2>4, <3>1, PinFacts DEF Sound
    <3>3. buf'[thn[q].elements] = "held"
      BY <1>2, <3>1, <3>2
    <3> QED
      BY <2>2, <2>4, <3>3 DEF Hands
  <2>5. ASSUME NEW b \in Buffers, buf'[b] = "held"
        PROVE  \E q \in Pins : thn[q].elements = b
    <3>1. b # e /\ buf[b] = "held"
      BY <1>2, <2>5
    <3>2. PICK r \in Pins : pin[r].elements = b
      BY <2>2, <3>1 DEF Sound
    <3>3. r # p /\ b # "null"
      BY <1>1, <3>1, <3>2, NullAssumption
    <3> QED
      BY <2>2, <3>2, <3>3 DEF Hands
  <2> QED
    BY <2>1, <2>3, <2>4, <2>5 DEF Sound
<1> QED
  BY <1>3, <1>4, <1>5 DEF PinsInv

\* Handing over without giving back.
LEMMA MoveSound ==
  ASSUME PinsInv, NEW p \in Pins, pin[p].elements = "null",
         NEW thn, Hands(thn, p), pin' = thn, UNCHANGED <<buf, mishap, pending>>
  PROVE  PinsInv'
<1>1. PinTypes' /\ PinInv'
  BY DEF PinsInv, PinTypes, PinInv, Hands
<1>2. ASSUME "threw" \notin mishap PROVE "twice" \notin mishap /\ Sound'
  <2>1. "twice" \notin mishap /\ Sound
    BY <1>2 DEF PinsInv, BufInv
  <2>2. ASSUME NEW q \in Pins, thn[q].elements # "null"
        PROVE  /\ buf[thn[q].elements] = "held"
               /\ \A r \in Pins : thn[r].elements = thn[q].elements => r = q
    BY <2>1, <2>2 DEF Hands, Sound
  <2>3. ASSUME NEW b \in Buffers, buf[b] = "held"
        PROVE  \E q \in Pins : thn[q].elements = b
    BY <2>1, <2>3, NullAssumption DEF Hands, Sound
  <2> QED
    BY <2>1, <2>2, <2>3 DEF Sound
<1> QED
  BY <1>1, <1>2 DEF PinsInv, BufInv

\* An object without elements is put where p was.
LEMMA HandsNothing ==
  ASSUME PinsInv, NEW p \in Pins, NEW x \in PinSet, x.elements = "null"
  PROVE  Hands([pin EXCEPT ![p] = x], p)
<1> DEFINE thn == [pin EXCEPT ![p] = x]
<1>1. /\ thn \in [Pins -> PinSet]
      /\ \A q \in Pins : thn[q] = IF q = p THEN x ELSE pin[q]
  BY DEF PinsInv, PinTypes
<1> HIDE DEF thn
<1>2. \A q \in Pins : thn[q].elements # "null" => thn[q].kind # "none" /\ thn[q].array
  BY <1>1 DEF PinsInv, PinInv
<1>3. ASSUME Sound, NEW q \in Pins, thn[q].elements # "null"
      PROVE  /\ \E r \in Pins \ {p} : pin[r].elements = thn[q].elements
             /\ \A r \in Pins : thn[q].elements = thn[r].elements => q = r
  BY <1>1, <1>3 DEF Sound
<1>4. \A r \in Pins \ {p} : thn[r].elements = pin[r].elements
  BY <1>1
<1> QED
  BY <1>1, <1>2, <1>3, <1>4 DEF Hands, thn

\* What q has goes to p, and q keeps its kind.
LEMMA HandsOver ==
  ASSUME PinsInv, NEW p \in Pins, NEW q \in Pins, p # q
  PROVE  Hands([pin EXCEPT ![p] = pin[q], ![q] = [NoPin EXCEPT !.kind = pin[q].kind]], p)
<1> DEFINE x == [NoPin EXCEPT !.kind = pin[q].kind]
           thn == [pin EXCEPT ![p] = pin[q], ![q] = x]
<1>1. x \in PinSet /\ x.elements = "null"
  BY PinFacts DEF NoPin, PinSet
<1> HIDE DEF x
<1>2. /\ thn \in [Pins -> PinSet]
      /\ \A r \in Pins : thn[r] = IF r = q THEN x ELSE IF r = p THEN pin[q] ELSE pin[r]
  BY <1>1 DEF PinsInv, PinTypes
<1> HIDE DEF thn
<1>3. \A r \in Pins : thn[r].elements # "null" => thn[r].kind # "none" /\ thn[r].array
  BY <1>1, <1>2 DEF PinsInv, PinInv
<1>4. ASSUME Sound, NEW r \in Pins, thn[r].elements # "null"
      PROVE  /\ \E s \in Pins \ {p} : pin[s].elements = thn[r].elements
             /\ \A s \in Pins : thn[r].elements = thn[s].elements => r = s
  <2>1. r # q
    BY <1>1, <1>2, <1>4
  <2>2. CASE r = p
    <3>1. thn[r] = pin[q]
      BY <1>2, <2>1, <2>2
    <3>2. ASSUME NEW s \in Pins, thn[r].elements = thn[s].elements PROVE r = s
      <4>1. s # q
        BY <1>1, <1>2, <1>4, <3>2
      <4>2. CASE s # p
        BY <1>2, <1>4, <3>1, <3>2, <4>1, <4>2 DEF Sound
      <4> QED
        BY <2>2, <4>2
    <3> QED
      BY <3>1, <3>2
  <2>3. CASE r # p
    <3>1. thn[r] = pin[r]
      BY <1>2, <2>1, <2>3
    <3>2. ASSUME NEW s \in Pins, thn[r].elements = thn[s].elements PROVE r = s
      <4>1. s # q
        BY <1>1, <1>2, <1>4, <3>2
      <4>2. CASE s = p
        BY <1>2, <1>4, <2>1, <3>1, <3>2, <4>1, <4>2 DEF Sound
      <4>3. CASE s # p
        BY <1>2, <1>4, <3>1, <3>2, <4>1, <4>3 DEF Sound
      <4> QED
        BY <4>2, <4>3
    <3> QED
      BY <2>3, <3>1, <3>2
  <2> QED
    BY <2>2, <2>3
<1>5. ASSUME NEW r \in Pins \ {p} PROVE \E s \in Pins : thn[s].elements = pin[r].elements
  <2>1. CASE r = q
    BY <1>2, <2>1
  <2>2. CASE r # q
    BY <1>2, <2>2
  <2> QED
    BY <2>1, <2>2
<1> QED
  BY <1>2, <1>3, <1>4, <1>5 DEF Hands, thn, x

\* The constructor takes a buffer nobody holds.
LEMMA PinStep ==
  ASSUME PinsInv, NEW p \in Pins, NEW kind \in {"array", "critical", "region"},
         NEW b \in Buffers, Pin(p, kind, b)
  PROVE  PinsInv'
<1>1. pin[p].kind = "none" /\ buf[b] = "unused" /\ mishap' = mishap /\ pin[p].elements = "null"
  BY PinFacts DEF Pin
<1>2. \A q \in Pins : Sound => pin[q].elements # b
  BY <1>1, NullAssumption DEF Sound
<1>3. CASE pin' = pin /\ buf' \in {[buf EXCEPT ![b] = "leaked"], [buf EXCEPT ![b] = "freed"]}
           /\ pending' \in BOOLEAN
  <2>1. /\ PinTypes' /\ PinInv'
        /\ buf'[b] # "held" /\ \A c \in Buffers : c # b => buf'[c] = buf[c]
    BY <1>3 DEF PinsInv, PinTypes, PinInv
  <2>2. Sound => Sound'
    <3> SUFFICES ASSUME Sound PROVE Sound'
      OBVIOUS
    <3>1. ASSUME NEW q \in Pins, pin[q].elements # "null"
          PROVE  buf'[pin[q].elements] = "held"
      BY <1>2, <2>1, <3>1, PinFacts DEF Sound
    <3>2. ASSUME NEW c \in Buffers, buf'[c] = "held" PROVE \E q \in Pins : pin[q].elements = c
      BY <2>1, <3>2 DEF Sound
    <3> QED
      BY <1>3, <3>1, <3>2 DEF Sound
  <2> QED
    BY <1>1, <2>1, <2>2 DEF PinsInv, BufInv
<1>4. CASE /\ pin' = [pin EXCEPT ![p] = [kind |-> kind, array |-> TRUE, elements |-> b]]
           /\ buf' = [buf EXCEPT ![b] = "held"] /\ pending' = pending
  <2>0. [kind |-> kind, array |-> TRUE, elements |-> b] \in PinSet
    BY DEF PinSet
  <2>1. PICK x \in PinSet : /\ x = [kind |-> kind, array |-> TRUE, elements |-> b]
                            /\ x.kind # "none" /\ x.array /\ x.elements = b
    BY <2>0
  <2>2. /\ PinTypes' /\ buf'[b] = "held"
        /\ \A q \in Pins : pin'[q] = IF q = p THEN x ELSE pin[q]
        /\ \A c \in Buffers : c # b => buf'[c] = buf[c]
    BY <1>4, <2>1 DEF PinsInv, PinTypes
  <2>3. PinInv'
    BY <2>1, <2>2 DEF PinsInv, PinInv
  <2>4. Sound => Sound'
    <3> SUFFICES ASSUME Sound PROVE Sound'
      OBVIOUS
    <3>1. ASSUME NEW q \in Pins, pin'[q].elements # "null"
          PROVE  /\ buf'[pin'[q].elements] = "held"
                 /\ \A r \in Pins : pin'[r].elements = pin'[q].elements => r = q
      <4>1. CASE q = p
        BY <1>2, <2>1, <2>2, <4>1
      <4>2. CASE q # p
        <5>1. pin'[q] = pin[q] /\ pin[q].elements \in Buffers /\ pin[q].elements # b
          BY <1>2, <2>2, <3>1, <4>2, PinFacts
        <5> QED
          BY <2>1, <2>2, <3>1, <4>2, <5>1 DEF Sound
      <4> QED
        BY <4>1, <4>2
    <3>2. ASSUME NEW c \in Buffers, buf'[c] = "held" PROVE \E q \in Pins : pin'[q].elements = c
      <4>1. CASE c = b
        BY <2>1, <2>2, <4>1
      <4>2. CASE c # b
        <5>1. PICK q \in Pins : pin[q].elements = c
          BY <2>2, <3>2, <4>2 DEF Sound
        <5>2. q # p
          BY <1>1, <5>1, NullAssumption
        <5> QED
          BY <2>2, <5>1, <5>2
      <4> QED
        BY <4>1, <4>2
    <3> QED
      BY <3>1, <3>2 DEF Sound
  <2> QED
    BY <1>1, <2>2, <2>3, <2>4 DEF PinsInv, BufInv
<1>5. CASE /\ pin' = [pin EXCEPT ![p] = [kind |-> kind, array |-> TRUE, elements |-> "null"]]
           /\ buf' = buf /\ pending' = pending
  <2>0. [kind |-> kind, array |-> TRUE, elements |-> "null"] \in PinSet
    BY DEF PinSet
  <2>1. PICK x \in PinSet : /\ x = [kind |-> kind, array |-> TRUE, elements |-> "null"]
                            /\ x.elements = "null"
    BY <2>0
  <2>2. PICK thn : thn = [pin EXCEPT ![p] = x]
    OBVIOUS
  <2>3. Hands(thn, p)
    BY <2>1, <2>2, HandsNothing
  <2> QED
    BY <1>1, <1>5, <2>1, <2>2, <2>3, MoveSound
<1> QED
  BY <1>1, <1>3, <1>4, <1>5 DEF Pin

\* release, commit and abort.
LEMMA ReleasePinStep ==
  ASSUME PinsInv, NEW p \in Pins, NEW mode \in {"release", "commit", "abort"},
         ReleasePin(p, mode)
  PROVE  PinsInv'
<1>1. pin[p].kind # "none"
  BY DEF ReleasePin
<1>2. CASE mode = "commit"
  <2>1. /\ buf' = buf /\ pin' = pin
        /\ "threw" \in mishap => "threw" \in mishap'
        /\ "twice" \in mishap' => "twice" \in mishap
    BY <1>2 DEF ReleasePin, ReleaseImpl, Freed, PinsInv, PinTypes
  <2>2. pending' \in BOOLEAN
    BY Zenon DEF ReleasePin, ReleaseImpl
  <2>3. PinTypes' /\ PinInv' /\ (Sound => Sound')
    BY <2>1, <2>2 DEF PinsInv, PinTypes, PinInv, Sound
  <2> QED
    BY <2>1, <2>3 DEF PinsInv, BufInv
<1>3. CASE mode # "commit"
  <2>1. PICK x : x = [pin[p] EXCEPT !.array = FALSE, !.elements = "null"]
    OBVIOUS
  <2>2. x \in PinSet /\ x.elements = "null"
    BY <2>1, PinFacts DEF PinSet
  <2>3. PICK thn : thn = [pin EXCEPT ![p] = x]
    OBVIOUS
  <2>4. Cleared(p) = thn
    BY <2>1, <2>3, PinFacts DEF Cleared, PinsInv, PinTypes, PinSet
  <2>5. ReleaseImpl(p, mode, thn)
    BY <1>3, <2>4 DEF ReleasePin
  <2>6. Hands(thn, p)
    BY <2>2, <2>3, HandsNothing
  <2> QED
    BY <1>3, <2>5, <2>6, ReleaseSound
<1> QED
  BY <1>2, <1>3

\* Move construction and move assignment.
LEMMA MovePinStep ==
  ASSUME PinsInv, NEW p \in Pins, NEW q \in Pins, MovePin(p, q) \/ MoveAssignPin(p, q)
  PROVE  PinsInv'
<1>1. p # q
  BY DEF MovePin, MoveAssignPin
<1>2. PICK thn : thn = [pin EXCEPT ![p] = pin[q], ![q] = [NoPin EXCEPT !.kind = pin[q].kind]]
  OBVIOUS
<1>3. Hands(thn, p)
  BY <1>1, <1>2, HandsOver
<1>4. CASE MovePin(p, q)
  BY <1>2, <1>3, <1>4, MoveSound, PinFacts DEF MovePin
<1>5. CASE MoveAssignPin(p, q) /\ ~pin[p].array
  BY <1>2, <1>3, <1>5, MoveSound, PinFacts DEF MoveAssignPin
<1>6. CASE MoveAssignPin(p, q) /\ pin[p].array
  <2>1. ReleaseImpl(p, "release", thn) /\ "release" # "commit"
    BY <1>2, <1>6 DEF MoveAssignPin
  <2> QED
    BY <1>3, <2>1, ReleaseSound
<1> QED
  BY <1>4, <1>5, <1>6

\* The destructor gives the elements back when there are some.
LEMMA DestroyPinStep ==
  ASSUME PinsInv, NEW p \in Pins, DestroyPin(p)
  PROVE  PinsInv'
<1>1. PICK thn : thn = [pin EXCEPT ![p] = NoPin]
  OBVIOUS
<1>2. NoPin \in PinSet /\ NoPin.elements = "null"
  BY DEF NoPin, PinSet
<1>3. Hands(thn, p)
  BY <1>1, <1>2, HandsNothing
<1>4. CASE pin[p].elements = "null"
  BY <1>1, <1>3, <1>4, MoveSound DEF DestroyPin
<1>5. CASE pin[p].elements # "null"
  <2>1. ReleaseImpl(p, "release", thn) /\ "release" # "commit"
    BY <1>1, <1>5 DEF DestroyPin
  <2> QED
    BY <1>3, <2>1, ReleaseSound
<1> QED
  BY <1>4, <1>5

\* What leaves arrays and buffers alone.
LEMMA PinsUnchanged ==
  ASSUME PinsInv, UNCHANGED <<pin, buf>>, pending' \in BOOLEAN,
         "threw" \in mishap => "threw" \in mishap',
         "twice" \in mishap' => "twice" \in mishap
  PROVE  PinsInv'
<1>1. PinTypes' /\ PinInv' /\ (Sound => Sound')
  BY DEF PinsInv, PinTypes, PinInv, Sound
<1> QED
  BY <1>1 DEF PinsInv, BufInv

-----------------------------------------------------------------------------
(* Monitors *)

\* The owners are counted: one more, one fewer, or one in the place of another.
LEMMA OwnersFinite ==
  ASSUME MonitorInv
  PROVE  /\ IsFiniteSet(Owners) /\ Cardinality(Owners) \in Nat
         /\ \A m \in Locks : m \notin Owners =>
               Cardinality(Owners \cup {m}) = Cardinality(Owners) + 1
         /\ \A m \in Owners : /\ IsFiniteSet(Owners \ {m})
                              /\ Cardinality(Owners \ {m}) = Cardinality(Owners) - 1
<1>1. IsFiniteSet(Owners)
  BY LocksAssumption, FS_Subset DEF Owners
<1> QED
  BY <1>1, FS_CardinalityType, FS_AddElement, FS_RemoveElement

\* A MonitorLock enters the monitor.
LEMMA LockStep ==
  ASSUME MonitorInv, ~aborted, NEW m \in Locks, Lock(m)
  PROVE  MonitorInv'
<1>1. /\ locks' \in [Locks -> {"none", "owns", "empty"}] /\ aborted' = aborted
      /\ depth' = depth + 1 /\ m \notin Owners
      /\ Owners' = Owners \cup {m}
  BY DEF MonitorInv, Lock, Owners
<1> QED
  BY <1>1, OwnersFinite DEF MonitorInv

\* A MonitorLock ends, and leaves the monitor if it owns it.
LEMMA LockGoneStep ==
  ASSUME MonitorInv, ~aborted, NEW m \in Locks, LockGone(m)
  PROVE  MonitorInv'
<1>1. /\ locks' \in [Locks -> {"none", "owns", "empty"}] /\ Owners' = Owners \ {m}
  BY DEF MonitorInv, LockGone, Owners
<1>2. aborted' \in BOOLEAN
  BY Zenon DEF LockGone, Unlocks
<1>3. CASE m \in Owners
  <2>1. depth' = depth - 1
    BY <1>3 DEF LockGone, Unlocks, Owners
  <2> QED
    BY <1>1, <1>2, <1>3, <2>1, OwnersFinite DEF MonitorInv
<1>4. CASE m \notin Owners
  <2>1. depth' = depth /\ Owners' = Owners
    BY <1>1, <1>4 DEF LockGone, Unlocks, Owners
  <2> QED
    BY <1>1, <1>2, <2>1 DEF MonitorInv
<1> QED
  BY <1>3, <1>4

\* A moved MonitorLock owns in the place of its source.
LEMMA MoveLockStep ==
  ASSUME MonitorInv, ~aborted, NEW m \in Locks, NEW n \in Locks, MoveLock(m, n)
  PROVE  MonitorInv'
<1>1. /\ locks' \in [Locks -> {"none", "owns", "empty"}] /\ aborted' = aborted
      /\ depth' = depth /\ m # n /\ m \notin Owners
      /\ Owners' = IF n \in Owners THEN (Owners \ {n}) \cup {m} ELSE Owners
  BY DEF MonitorInv, MoveLock, Owners
<1>2. CASE n \in Owners
  <2>1. /\ IsFiniteSet(Owners \ {n}) /\ m \notin Owners \ {n}
        /\ Cardinality(Owners \ {n}) = Cardinality(Owners) - 1
        /\ Cardinality(Owners) \in Nat
    BY <1>1, <1>2, OwnersFinite
  <2>2. Cardinality((Owners \ {n}) \cup {m}) = Cardinality(Owners \ {n}) + 1
    BY <2>1, FS_AddElement
  <2> QED
    BY <1>1, <1>2, <2>1, <2>2 DEF MonitorInv
<1>3. CASE n \notin Owners
  BY <1>1, <1>3 DEF MonitorInv
<1> QED
  BY <1>2, <1>3

\* The target leaves what it owned, and takes over.
LEMMA MoveAssignLockStep ==
  ASSUME MonitorInv, ~aborted, NEW m \in Locks, NEW n \in Locks, MoveAssignLock(m, n)
  PROVE  MonitorInv'
<1>1. /\ locks' \in [Locks -> {"none", "owns", "empty"}]
      /\ Owners' = IF n \in Owners /\ m # n THEN (Owners \ {n}) \cup {m} ELSE Owners \ {m}
  BY DEF MonitorInv, MoveAssignLock, Owners
<1>2. aborted' \in BOOLEAN
  BY Zenon DEF MoveAssignLock, Unlocks
<1>3. depth' = IF m \in Owners THEN depth - 1 ELSE depth
  BY DEF MoveAssignLock, Unlocks, Owners
<1>4. Cardinality(Owners') = IF m \in Owners THEN Cardinality(Owners) - 1 ELSE Cardinality(Owners)
  <2>1. CASE n \in Owners /\ m # n /\ m \in Owners
    <3>1. Owners' = Owners \ {n}
      BY <1>1, <2>1
    <3> QED
      BY <2>1, <3>1, OwnersFinite
  <2>2. CASE n \in Owners /\ m # n /\ m \notin Owners
    <3>1. /\ IsFiniteSet(Owners \ {n}) /\ m \notin Owners \ {n}
          /\ Cardinality(Owners \ {n}) = Cardinality(Owners) - 1
          /\ Cardinality(Owners) \in Nat
      BY <2>2, OwnersFinite
    <3>2. Cardinality((Owners \ {n}) \cup {m}) = Cardinality(Owners \ {n}) + 1
      BY <3>1, FS_AddElement
    <3> QED
      BY <1>1, <2>2, <3>1, <3>2
  <2>3. CASE ~(n \in Owners /\ m # n) /\ m \in Owners
    BY <1>1, <2>3, OwnersFinite
  <2>4. CASE ~(n \in Owners /\ m # n) /\ m \notin Owners
    <3>1. Owners' = Owners
      BY <1>1, <2>4
    <3> QED
      BY <2>4, <3>1
  <2> QED
    BY <2>1, <2>2, <2>3, <2>4
<1> QED
  BY <1>1, <1>2, <1>3, <1>4, OwnersFinite DEF MonitorInv

\* What the other handles do to the monitors: nothing but end the process.
LEMMA LocksUnchanged ==
  ASSUME MonitorInv, ~aborted, UNCHANGED <<locks, depth>>, aborted' \in BOOLEAN
  PROVE  MonitorInv'
  BY DEF MonitorInv, Owners

-----------------------------------------------------------------------------
(* Hybrid objects *)

\* A new part, stored in the object or deleted again.
LEMMA NewPartStep ==
  ASSUME PartInv, NEW h \in Hybrids, NEW c \in Parts, NewObjectCxxArgs(h, c)
  PROVE  PartInv'
<1>1. field[h] = "null" /\ part[c] = "none" /\ \A g \in Hybrids : field[g] # c
  BY NullAssumption DEF NewObjectCxxArgs, PartInv
<1>2. CASE field' = [field EXCEPT ![h] = c] /\ part' = [part EXCEPT ![c] = "held"]
  <2>1. /\ part' \in [Parts -> {"none", "held", "deleted"}]
        /\ field' \in [Hybrids -> Parts \cup {"null"}]
        /\ \A g \in Hybrids : field'[g] = IF g = h THEN c ELSE field[g]
        /\ \A d \in Parts : part'[d] = IF d = c THEN "held" ELSE part[d]
    BY <1>2 DEF PartInv
  <2>2. ASSUME NEW g \in Hybrids, field'[g] # "null"
        PROVE  part'[field'[g]] = "held" /\ \A k \in Hybrids : field'[k] = field'[g] => k = g
    BY <1>1, <2>1, <2>2 DEF PartInv
  <2>3. ASSUME NEW d \in Parts, part'[d] = "held" PROVE \E g \in Hybrids : field'[g] = d
    <3>1. CASE d = c
      BY <2>1, <3>1
    <3>2. CASE d # c
      <4>1. PICK g \in Hybrids : field[g] = d
        BY <2>1, <2>3, <3>2 DEF PartInv
      <4>2. g # h
        BY <1>1, <4>1, NullAssumption
      <4> QED
        BY <2>1, <4>1, <4>2
    <3> QED
      BY <3>1, <3>2
  <2> QED
    BY <2>1, <2>2, <2>3 DEF PartInv
<1>3. CASE field' = field /\ part' = [part EXCEPT ![c] = "deleted"]
  <2>1. /\ part' \in [Parts -> {"none", "held", "deleted"}]
        /\ \A d \in Parts : part'[d] = IF d = c THEN "deleted" ELSE part[d]
    BY <1>3 DEF PartInv
  <2> QED
    BY <1>1, <1>3, <2>1 DEF PartInv
<1> QED
  BY <1>2, <1>3 DEF NewObjectCxxArgs

\* A part is deleted with the pointer to it, and was held.
LEMMA DeletePartStep ==
  ASSUME PartInv, NEW h \in Hybrids, SetNativePointerNull(h) \/ DeleteNative(h)
  PROVE  PartInv' /\ mishap' = mishap
<1>1. PICK c \in Parts : c = field[h] /\ part[c] = "held"
  BY DEF SetNativePointerNull, DeleteNative, PartInv
<1>2. /\ part' = [part EXCEPT ![c] = "deleted"] /\ field' = [field EXCEPT ![h] = "null"]
      /\ mishap' = mishap
  BY <1>1 DEF SetNativePointerNull, DeleteNative
<1>3. /\ part' \in [Parts -> {"none", "held", "deleted"}]
      /\ field' \in [Hybrids -> Parts \cup {"null"}]
      /\ \A g \in Hybrids : field'[g] = IF g = h THEN "null" ELSE field[g]
      /\ \A d \in Parts : part'[d] = IF d = c THEN "deleted" ELSE part[d]
  BY <1>2 DEF PartInv
<1>4. ASSUME NEW g \in Hybrids, field'[g] # "null"
      PROVE  part'[field'[g]] = "held" /\ \A k \in Hybrids : field'[k] = field'[g] => k = g
  <2>1. g # h /\ field'[g] = field[g] /\ field[g] \in Parts
    BY <1>3, <1>4 DEF PartInv
  <2>2. field[g] # c
    BY <1>1, <1>4, <2>1 DEF PartInv
  <2> QED
    BY <1>3, <1>4, <2>1, <2>2 DEF PartInv
<1>5. ASSUME NEW d \in Parts, part'[d] = "held" PROVE \E g \in Hybrids : field'[g] = d
  <2>1. d # c /\ part[d] = "held"
    BY <1>3, <1>5
  <2>2. PICK g \in Hybrids : field[g] = d
    BY <2>1 DEF PartInv
  <2> QED
    BY <1>1, <1>3, <2>1, <2>2
<1> QED
  BY <1>2, <1>3, <1>4, <1>5 DEF PartInv

-----------------------------------------------------------------------------
(* Iterators *)

\* An increment, from the object it++ or ++it starts with.
LEMMA PreIncrementOK ==
  ASSUME NEW i \in Nat \cup {-1}, NEW e, NEW st \in BOOLEAN, NEW k \in 0..Len(Elements),
         NEW cp, CopyOK(cp), i + 1 = k
  PROVE  IterOK(PreIncrement([i |-> i, entry |-> e, stale |-> st, helper |-> k, copy |-> cp]))
<1>1. PICK it : it = [i |-> i, entry |-> e, stale |-> st, helper |-> k, copy |-> cp]
  OBVIOUS
<1>2. CASE k < Len(Elements)
  <2>1. PICK j \in Nat : j = i + 1 /\ j = k /\ k + 1 \in 0..Len(Elements) /\ j # -1
    BY <1>2, ElementsAssumption
  <2>2. PreIncrement(it) = [i |-> j, entry |-> Elements[k + 1], stale |-> FALSE,
                            helper |-> k + 1, copy |-> cp]
    BY <1>1, <1>2, <2>1 DEF PreIncrement
  <2>3. PICK r : r = [i |-> j, entry |-> Elements[k + 1], stale |-> FALSE,
                      helper |-> k + 1, copy |-> cp]
    OBVIOUS
  <2>4. /\ r.i = j /\ r.entry = Elements[k + 1] /\ r.stale = FALSE
        /\ r.helper = k + 1 /\ r.copy = cp
    BY <2>3
  <2>5. r = [i |-> r.i, entry |-> r.entry, stale |-> r.stale, helper |-> r.helper, copy |-> r.copy]
    BY <2>3, <2>4
  <2>6. AtElement(r)
    BY <2>1, <2>4 DEF AtElement
  <2>7. IterOK(r)
    BY <2>1, <2>4, <2>5, <2>6 DEF IterOK
  <2> QED
    BY <1>1, <2>2, <2>3, <2>7
<1>3. CASE ~(k < Len(Elements))
  <2>1. k = Len(Elements) /\ -1 \in Nat \cup {-1}
    BY <1>3, ElementsAssumption
  <2>2. PreIncrement(it) = [i |-> -1, entry |-> "null", stale |-> FALSE,
                            helper |-> k, copy |-> cp]
    BY <1>1, <1>3 DEF PreIncrement
  <2>3. PICK r : r = [i |-> -1, entry |-> "null", stale |-> FALSE, helper |-> k, copy |-> cp]
    OBVIOUS
  <2>4. /\ r.i = -1 /\ r.entry = "null" /\ r.stale = FALSE /\ r.helper = k /\ r.copy = cp
    BY <2>3
  <2>5. r = [i |-> r.i, entry |-> r.entry, stale |-> r.stale, helper |-> r.helper, copy |-> r.copy]
    BY <2>3, <2>4
  <2>6. AtElement(r)
    BY <2>4 DEF AtElement
  <2>7. IterOK(r)
    BY <2>1, <2>4, <2>5, <2>6 DEF IterOK
  <2> QED
    BY <1>1, <2>2, <2>3, <2>7
<1> QED
  BY <1>2, <1>3

\* No copy has been made.
LEMMA NoCopyOK == CopyOK(NoCopy)
<1>1. /\ NoCopy.i = -1 /\ NoCopy.entry = "null" /\ NoCopy.stale = FALSE
      /\ NoCopy = [i |-> -1, entry |-> "null", stale |-> FALSE]
  BY DEF NoCopy
<1>2. AtElement(NoCopy)
  BY <1>1 DEF AtElement
<1> QED
  BY <1>1, <1>2 DEF CopyOK

\* The four ways an iterator moves.
LEMMA IterationStep ==
  ASSUME IterOK(iter), IterationNext
  PROVE  IterOK(iter)'
<1>1. PICK i, e, st, k, cp :
         /\ iter = [i |-> i, entry |-> e, stale |-> st, helper |-> k, copy |-> cp]
         /\ i = iter.i /\ e = iter.entry /\ st = iter.stale /\ k = iter.helper /\ cp = iter.copy
  BY DEF IterOK
<1>2. /\ i \in Nat \cup {-1} /\ st \in BOOLEAN /\ k \in 0..Len(Elements)
      /\ CopyOK(cp) /\ (i # -1 => i + 1 = k)
      /\ i # -1 /\ ~st => e = Elements[i + 1]
  BY <1>1 DEF IterOK, AtElement
<1>3. CASE Begin
  <2>1. iter' = PreIncrement([i |-> -1, entry |-> "null", stale |-> FALSE,
                              helper |-> 0, copy |-> NoCopy])
    BY <1>3 DEF Begin, NoIter
  <2>2. -1 \in Nat \cup {-1} /\ -1 + 1 = 0 /\ 0 \in 0..Len(Elements) /\ FALSE \in BOOLEAN
    BY ElementsAssumption
  <2> QED
    BY <2>1, <2>2, NoCopyOK, PreIncrementOK
<1>4. CASE Increment
  <2>1. iter' = PreIncrement([i |-> i, entry |-> e, stale |-> st, helper |-> k, copy |-> NoCopy])
        /\ i # -1
    BY <1>1, <1>4 DEF Increment
  <2> QED
    BY <1>2, <2>1, NoCopyOK, PreIncrementOK
<1>5. CASE PostIncrement
  <2>1. PICK c : c = [i |-> i, entry |-> e, stale |-> st]
    OBVIOUS
  <2>2. iter' = PreIncrement([i |-> i, entry |-> "null", stale |-> st, helper |-> k, copy |-> c])
        /\ i # -1
    <3>1. /\ iter' = PreIncrement([iter EXCEPT !.entry = "null", !.copy = c]) /\ i # -1
      BY <1>1, <1>5, <2>1 DEF PostIncrement
    <3>2. iter = [i |-> i, entry |-> e, stale |-> st, helper |-> k, copy |-> cp]
      BY <1>1
    <3>3. PICK y : y = [i |-> i, entry |-> "null", stale |-> st, helper |-> k, copy |-> cp]
      OBVIOUS
    <3>4. [iter EXCEPT !.entry = "null"] = y
      BY <3>2, <3>3
    <3>5. [y EXCEPT !.copy = c] =
             [i |-> i, entry |-> "null", stale |-> st, helper |-> k, copy |-> c]
      BY <3>3
    <3>6. [iter EXCEPT !.entry = "null", !.copy = c] = [[iter EXCEPT !.entry = "null"] EXCEPT !.copy = c]
      OBVIOUS
    <3> QED
      BY <3>1, <3>4, <3>5, <3>6
  <2>3. c.i = i /\ c.entry = e /\ c.stale = st
    BY <2>1
  <2>4. CopyOK(c)
    BY <1>2, <2>1, <2>3 DEF CopyOK, AtElement
  <2> QED
    BY <1>2, <2>2, <2>4, PreIncrementOK
<1>6. CASE IncrementThrows
  <2>1. /\ iter' = [i |-> i + 1, entry |-> e, stale |-> TRUE, helper |-> k + 1, copy |-> cp]
        /\ i # -1 /\ k < Len(Elements)
    BY <1>1, <1>6 DEF IncrementThrows
  <2>2. PICK j \in Nat : j = i + 1 /\ j # -1 /\ j = k /\ k + 1 \in 0..Len(Elements)
    BY <1>2, <2>1, ElementsAssumption
  <2>3. PICK r : r = [i |-> j, entry |-> e, stale |-> TRUE, helper |-> k + 1, copy |-> cp]
    OBVIOUS
  <2>4. r.i = j /\ r.entry = e /\ r.stale = TRUE /\ r.helper = k + 1 /\ r.copy = cp
    BY <2>3
  <2>5. r = [i |-> r.i, entry |-> r.entry, stale |-> r.stale, helper |-> r.helper, copy |-> r.copy]
    BY <2>3, <2>4
  <2>6. AtElement(r)
    BY <2>4 DEF AtElement
  <2>7. IterOK(r)
    BY <1>2, <2>2, <2>4, <2>5, <2>6 DEF IterOK
  <2> QED
    BY <2>1, <2>2, <2>3, <2>7
<1> QED
  BY <1>3, <1>4, <1>5, <1>6 DEF IterationNext

-----------------------------------------------------------------------------
\* Every operation on handles keeps the invariant.
LEMMA HandlesStep ==
  ASSUME ObjectsInv, HandlesNext
  PROVE  ObjectsInv'
<1>0. /\ PinsInv /\ MonitorInv /\ PartInv /\ IterOK(iter) /\ ~aborted
      /\ pending \in BOOLEAN /\ aborted \in BOOLEAN
  BY DEF ObjectsInv, PinsInv, PinTypes, MonitorInv, HandlesNext
<1>1. ASSUME PinsInv', MonitorInv', PartInv', iter' = iter
      PROVE  ObjectsInv'
  BY <1>0, <1>1 DEF ObjectsInv, PinsInv
<1>2. ASSUME UNCHANGED <<part, field>> PROVE PartInv'
  BY <1>0, <1>2 DEF PartInv
<1>3. ASSUME NEW p \in Pins,
             \/ \E kind \in {"array", "critical", "region"}, b \in Buffers : Pin(p, kind, b)
             \/ \E mode \in {"release", "commit", "abort"} : ReleasePin(p, mode)
             \/ DestroyPin(p)
             \/ \E q \in Pins : MovePin(p, q) \/ MoveAssignPin(p, q)
      PROVE  ObjectsInv'
  <2>1. PinsInv'
    BY <1>0, <1>3, PinStep, ReleasePinStep, DestroyPinStep, MovePinStep
  <2>2. UNCHANGED <<locks, depth, part, field, iter>>
    BY <1>3 DEF Pin, ReleasePin, DestroyPin, MovePin, MoveAssignPin, PinOnly, lockVars, hybridVars
  <2>3. aborted' \in BOOLEAN
    <3>1. CASE DestroyPin(p) /\ pin[p].elements # "null"
      <4>1. aborted' = Throws(p, "release")
        BY <3>1 DEF DestroyPin
      <4>2. pin[p].kind \in {"array", "critical", "region"}
        BY <1>0, <3>1, PinFacts
      <4>3. Throws(p, "release") \in BOOLEAN
        BY <1>0, <4>2 DEF Throws
      <4> QED
        BY <4>1, <4>3
    <3>2. CASE ~(DestroyPin(p) /\ pin[p].elements # "null")
      <4>1. aborted' = aborted
        BY <1>3, <3>2 DEF Pin, ReleasePin, DestroyPin, MovePin, MoveAssignPin, PinOnly
      <4> QED
        BY <1>0, <4>1
    <3> QED
      BY <3>1, <3>2
  <2>4. MonitorInv'
    BY <1>0, <2>2, <2>3, LocksUnchanged
  <2> QED
    BY <1>1, <1>2, <2>1, <2>2, <2>4
<1>4. ASSUME LeavePending \/ \E p \in Pins : ReleaseNothing(p)
      PROVE  ObjectsInv'
  <2>1. /\ UNCHANGED <<pin, buf, mishap, locks, depth, part, field, iter, aborted>>
        /\ pending' \in BOOLEAN
    BY <1>4 DEF LeavePending, ReleaseNothing, PinOnly, pinVars, lockVars, hybridVars
  <2>2. PinsInv'
    BY <1>0, <2>1, PinsUnchanged
  <2>3. MonitorInv'
    BY <1>0, <2>1, LocksUnchanged
  <2> QED
    BY <1>1, <1>2, <2>1, <2>2, <2>3
<1>5. ASSUME NEW m \in Locks, Lock(m) \/ LockGone(m) \/ \E n \in Locks : MoveLock(m, n) \/ MoveAssignLock(m, n)
      PROVE  ObjectsInv'
  <2>1. UNCHANGED <<pin, buf, mishap, part, field, iter, pending>>
    BY <1>5 DEF Lock, LockGone, MoveLock, MoveAssignLock, pinVars, hybridVars
  <2>2. PinsInv'
    BY <1>0, <2>1, PinsUnchanged
  <2>3. MonitorInv'
    BY <1>0, <1>5, LockStep, LockGoneStep, MoveLockStep, MoveAssignLockStep
  <2> QED
    BY <1>1, <1>2, <2>1, <2>2, <2>3
<1>6. ASSUME NEW h \in Hybrids,
             \/ \E c \in Parts : NewObjectCxxArgs(h, c) \/ SetNativePointerTwice(h, c)
             \/ SetNativePointerNull(h) \/ DeleteNative(h)
      PROVE  ObjectsInv'
  <2>1. UNCHANGED <<pin, buf, locks, depth, iter, pending>> /\ aborted' \in BOOLEAN
    BY <1>0, <1>6 DEF NewObjectCxxArgs, SetNativePointerTwice, SetNativePointerNull, DeleteNative,
                      HybridOnly, pinVars, lockVars, MonitorInv
  <2>2. PartInv' /\ mishap' = mishap
    <3>1. CASE \E c \in Parts : NewObjectCxxArgs(h, c)
      BY <1>0, <3>1, NewPartStep DEF NewObjectCxxArgs
    <3>2. CASE \E c \in Parts : SetNativePointerTwice(h, c)
      BY <1>2, <3>2 DEF SetNativePointerTwice
    <3>3. CASE SetNativePointerNull(h) \/ DeleteNative(h)
      BY <1>0, <3>3, DeletePartStep
    <3> QED
      BY <1>6, <3>1, <3>2, <3>3
  <2>3. PinsInv'
    BY <1>0, <2>1, <2>2, PinsUnchanged
  <2>4. MonitorInv'
    BY <1>0, <2>1, LocksUnchanged
  <2> QED
    BY <1>1, <2>1, <2>2, <2>3, <2>4
<1> QED
  BY <1>3, <1>4, <1>5, <1>6 DEF HandlesNext

\* The invariant of the handles and the iterator holds throughout.
LEMMA ObjectsInductive == ObjectsSpec => []ObjectsInv
<1>1. ObjectsInit => ObjectsInv
  <2> SUFFICES ASSUME ObjectsInit PROVE ObjectsInv
    OBVIOUS
  <2>1. PinTypes /\ PinInv /\ BufInv
    <3>1. NoPin \in PinSet /\ NoPin.elements = "null"
      BY DEF NoPin, PinSet
    <3>2. /\ pin \in [Pins -> PinSet] /\ \A p \in Pins : pin[p].elements = "null"
          /\ \A b \in Buffers : buf[b] = "unused"
          /\ buf \in [Buffers -> {"unused", "held", "leaked", "freed"}]
      BY <3>1 DEF ObjectsInit
    <3> QED
      BY <3>2 DEF ObjectsInit, PinTypes, PinInv, BufInv, Sound
  <2>2. MonitorInv
    <3>1. Owners = {}
      BY DEF ObjectsInit, Owners
    <3>2. locks \in [Locks -> {"none", "owns", "empty"}]
      BY DEF ObjectsInit
    <3>3. depth \in Int /\ depth = Cardinality(Owners)
      BY <3>1, FS_EmptySet DEF ObjectsInit
    <3>4. aborted = FALSE
      BY DEF ObjectsInit
    <3>5. aborted \in BOOLEAN
      BY <3>4, Zenon
    <3> QED
      BY <3>2, <3>3, <3>5 DEF MonitorInv
  <2>3. PartInv
    BY DEF ObjectsInit, PartInv
  <2>4. IterOK(iter)
    <3>1. /\ iter = [i |-> -1, entry |-> "null", stale |-> FALSE, helper |-> 0, copy |-> NoCopy]
      BY DEF ObjectsInit, NoIter
    <3>2. iter.i = -1 /\ iter.entry = "null" /\ iter.stale = FALSE /\ iter.helper = 0
          /\ iter.copy = NoCopy
      BY <3>1
    <3> QED
      BY <3>1, <3>2, NoCopyOK, ElementsAssumption DEF IterOK, AtElement
  <2> QED
    BY <2>1, <2>2, <2>3, <2>4 DEF ObjectsInv
<1>2. ObjectsInv /\ [HandlesNext \/ IterationNext]_objVars => ObjectsInv'
  <2> SUFFICES ASSUME ObjectsInv, [HandlesNext \/ IterationNext]_objVars PROVE ObjectsInv'
    OBVIOUS
  <2>1. CASE IterationNext
    <3>1. UNCHANGED <<pin, buf, locks, depth, part, field, pending, mishap, aborted>>
      BY <2>1 DEF IterationNext, Begin, Increment, PostIncrement, IncrementThrows, IterOnly,
                  pinVars, lockVars, hybridVars
    <3>2. IterOK(iter)'
      BY <2>1, IterationStep DEF ObjectsInv
    <3> QED
      BY <3>1, <3>2 DEF ObjectsInv, PinTypes, PinInv, BufInv, Sound, MonitorInv, Owners, PartInv
  <2>2. CASE UNCHANGED objVars
    BY <2>2 DEF objVars, ObjectsInv, PinTypes, PinInv, BufInv, Sound, MonitorInv, Owners, PartInv
  <2> QED
    BY <2>1, <2>2, HandlesStep
<1> QED
  BY <1>1, <1>2, PTL DEF ObjectsSpec

\* For any number of pinned arrays, buffers, monitor locks, hybrid objects and
\* elements: what a PinnedPrimitiveArray, a MonitorLock or a hybrid object holds
\* is held, by it alone, and is given back once, as long as no buffer is given
\* back while an exception is pending; and iterators stand where Java's do
\* (CoreClasses-inl.h, fbjni.cpp, Hybrid.cpp, Iterator-inl.h).
THEOREM HandlesHoldOnce == ObjectsSpec => []HeldOnce
<1>1. ObjectsInv => HeldOnce
  <2> SUFFICES ASSUME ObjectsInv PROVE HeldOnce
    OBVIOUS
  <2>1. ASSUME "threw" \notin mishap
        PROVE  /\ "twice" \notin mishap
               /\ \A b \in Buffers : buf[b] = "held" <=> Cardinality({p \in Pins : pin[p].elements = b}) = 1
    <3>1. "twice" \notin mishap /\ Sound
      BY <2>1 DEF ObjectsInv, BufInv
    <3>2. ASSUME NEW b \in Buffers
          PROVE  buf[b] = "held" <=> Cardinality({p \in Pins : pin[p].elements = b}) = 1
      <4> DEFINE H == {p \in Pins : pin[p].elements = b}
      <4>1. CASE buf[b] = "held"
        <5>1. PICK p \in Pins : pin[p].elements = b
          BY <3>1, <4>1 DEF Sound
        <5>2. H = {p}
          BY <3>1, <5>1, NullAssumption DEF Sound
        <5> QED
          BY <4>1, <5>2, FS_Singleton
      <4>2. CASE buf[b] # "held"
        <5>1. H = {}
          BY <3>1, <4>2, NullAssumption DEF Sound
        <5>2. Cardinality(H) = 0
          BY <5>1, FS_EmptySet
        <5> QED
          BY <4>2, <5>2
      <4> QED
        BY <4>1, <4>2
    <3> QED
      BY <3>1, <3>2
  <2>2. ~aborted => depth = Cardinality({m \in Locks : locks[m] = "owns"})
    BY DEF ObjectsInv, MonitorInv, Owners
  <2>3. ASSUME NEW c \in Parts
        PROVE  part[c] = "held" <=> Cardinality({h \in Hybrids : field[h] = c}) = 1
    <3> DEFINE H == {h \in Hybrids : field[h] = c}
    <3>0. PartInv
      BY DEF ObjectsInv
    <3>1. CASE part[c] = "held"
      <4>1. PICK h \in Hybrids : field[h] = c
        BY <3>0, <3>1 DEF PartInv
      <4>2. H = {h}
        BY <3>0, <4>1, NullAssumption DEF PartInv
      <4> QED
        BY <3>1, <4>2, FS_Singleton
    <3>2. CASE part[c] # "held"
      <4>1. H = {}
        BY <3>0, <3>2, NullAssumption DEF PartInv
      <4>2. Cardinality(H) = 0
        BY <4>1, FS_EmptySet
      <4> QED
        BY <3>2, <4>2
    <3> QED
      BY <3>1, <3>2
  <2>4. /\ iter.i = -1 => iter.helper \in {0, Len(Elements)} /\ iter.entry = "null"
        /\ iter.i # -1 => iter.i + 1 = iter.helper
        /\ AtElement(iter) /\ AtElement(iter.copy)
    BY DEF ObjectsInv, IterOK, CopyOK
  <2>5. \A it \in {iter, iter.copy} : it.i # -1 /\ ~it.stale => it.entry = Elements[it.i + 1]
    BY <2>4 DEF AtElement
  <2> QED
    BY <2>1, <2>2, <2>3, <2>4, <2>5 DEF HeldOnce
<1> QED
  BY <1>1, ObjectsInductive, PTL

-----------------------------------------------------------------------------
(* Conversions: loops and what they write *)

\* A set of numbers has a least one.
LEMMA LeastPlace ==
  ASSUME NEW S \in SUBSET Nat, S # {}
  PROVE  \E m \in S : \A k \in S : m <= k
<1> DEFINE R == OpToRel(<, Nat)
<1>1. IsWellFoundedOn(R, Nat)
  BY NatLessThanWellFounded
<1>2. \A x, y \in Nat : <<x, y>> \in R <=> x < y
  BY DEF OpToRel
<1> HIDE DEF R
<1>3. PICK m \in S : \A k \in S : ~ (<<k, m>> \in R)
  BY <1>1, WFMin
<1>4. ASSUME NEW k \in S PROVE m <= k
  <2>1. m \in Nat /\ k \in Nat /\ ~ (<<k, m>> \in R)
    BY <1>3
  <2>2. ~ (k < m)
    BY <1>2, <2>1, Zenon
  <2> QED
    BY <2>1, <2>2
<1> QED
  BY <1>4

\* From the last place down to the first.
LEMMA Downward ==
  ASSUME NEW m \in Nat, NEW S,
         \A i \in 1 .. m : (\A j \in i + 1 .. m : j \in S) => i \in S
  PROVE  \A i \in 1 .. m : i \in S
<1> DEFINE D == {d \in 0 .. m - 1 : m - d \notin S}
<1>1. ASSUME D # {} PROVE FALSE
  <2>0. D \in SUBSET Nat
    OBVIOUS
  <2> HIDE DEF D
  <2>1. PICK d \in D : \A e \in D : d <= e
    BY <1>1, <2>0, LeastPlace
  <2> USE DEF D
  <2>2. m - d \in 1 .. m /\ m - d \notin S
    BY <2>1
  <2>3. ASSUME NEW j \in m - d + 1 .. m PROVE j \in S
    <3>1. m - j \in 0 .. m - 1 /\ m - j < d /\ m - (m - j) = j
      BY <2>1, <2>3
    <3> QED
      BY <2>1, <3>1
  <2> QED
    BY <2>2, <2>3
<1>2. ASSUME NEW i \in 1 .. m PROVE i \in S
  <2>1. m - i \in 0 .. m - 1 /\ m - (m - i) = i
    OBVIOUS
  <2> QED
    BY <1>1, <2>1
<1> QED
  BY <1>2

\* From none of them up to all.
LEMMA Upward ==
  ASSUME NEW m \in Nat, NEW S, 0 \in S,
         \A k \in 1 .. m : k - 1 \in S => k \in S
  PROVE  \A k \in 0 .. m : k \in S
<1> DEFINE D == {k \in 0 .. m : k \notin S}
<1>1. ASSUME D # {} PROVE FALSE
  <2>0. D \in SUBSET Nat
    OBVIOUS
  <2> HIDE DEF D
  <2>1. PICK d \in D : \A e \in D : d <= e
    BY <1>1, <2>0, LeastPlace
  <2> USE DEF D
  <2>2. d \in 1 .. m /\ d \notin S /\ d - 1 \in 0 .. m
    BY <2>1
  <2> QED
    BY <2>1, <2>2
<1> QED
  BY <1>1

\* A loop over m places that always moves on or stops.
Loop(m, T, stop, next, op) ==
  /\ m \in Nat /\ stop \in [1 .. m -> T] /\ next \in [1 .. m -> Nat] /\ op \in [1 .. m -> [T -> T]]
  /\ \A i \in 1 .. m : next[i] = 0 \/ next[i] \in i + 1 .. m

\* Such a loop has a value at each place.
LEMMA LoopHasValues ==
  ASSUME NEW m, NEW T, NEW stop, NEW next, NEW op, Loop(m, T, stop, next, op)
  PROVE  \E f \in [1 .. m -> T] :
            \A i \in 1 .. m : f[i] = IF next[i] = 0 THEN stop[i] ELSE op[i][f[next[i]]]
<1> USE DEF Loop
<1> DEFINE Holds(f, i) == f[i] = IF next[i] = 0 THEN stop[i] ELSE op[i][f[next[i]]]
           S == {k \in 0 .. m : \E f \in [1 .. m -> T] : \A i \in m - k + 1 .. m : Holds(f, i)}
<1>1. 0 \in S
  <2>1. \A i \in m - 0 + 1 .. m : Holds(stop, i)
    OBVIOUS
  <2> QED
    BY <2>1
<1>2. ASSUME NEW k \in 1 .. m, k - 1 \in S PROVE k \in S
  <2>1. PICK f \in [1 .. m -> T] : \A i \in m - (k - 1) + 1 .. m : Holds(f, i)
    BY <1>2
  <2> DEFINE a == m - k + 1
             v == IF next[a] = 0 THEN stop[a] ELSE op[a][f[next[a]]]
             g == [f EXCEPT ![a] = v]
  <2>2. a \in 1 .. m /\ a = m - k + 1
    OBVIOUS
  <2> HIDE DEF a
  <2>3. v \in T
    BY <2>2
  <2> HIDE DEF v
  <2>4. g \in [1 .. m -> T] /\ g[a] = v /\ \A j \in 1 .. m : j # a => g[j] = f[j]
    BY <2>2, <2>3
  <2> HIDE DEF g
  <2>5. Holds(g, a)
    <3>1. next[a] = 0 \/ (next[a] \in a + 1 .. m /\ next[a] \in 1 .. m /\ next[a] # a)
      BY <2>2
    <3> QED
      BY <2>4, <3>1 DEF v
  <2>6. ASSUME NEW i \in a + 1 .. m PROVE Holds(g, i)
    <3>1. i \in 1 .. m /\ i # a /\ i \in m - (k - 1) + 1 .. m
      BY <2>2
    <3>2. next[i] = 0 \/ (next[i] \in i + 1 .. m /\ next[i] \in 1 .. m /\ next[i] # a)
      BY <2>2, <3>1
    <3>3. Holds(f, i)
      BY <2>1, <3>1
    <3> QED
      BY <2>4, <3>1, <3>2, <3>3
  <2>7. \A i \in m - k + 1 .. m : Holds(g, i)
    <3>1. \A i \in m - k + 1 .. m : i = a \/ i \in a + 1 .. m
      BY <2>2
    <3> QED
      BY <2>5, <2>6, <3>1, Zenon
  <2>8. k \in 0 .. m
    OBVIOUS
  <2> HIDE DEF Holds
  <2>9. \E h \in [1 .. m -> T] : \A i \in m - k + 1 .. m : Holds(h, i)
    BY <2>4, <2>7, Zenon
  <2> QED
    BY <2>8, <2>9, Zenon
<1>3. m \in S
  <2> HIDE DEF S
  <2>1. \A k \in 1 .. m : k - 1 \in S => k \in S
    BY <1>2
  <2>2. \A k \in 0 .. m : k \in S
    BY <1>1, <2>1, Upward, Zenon
  <2> QED
    BY <2>2
<1> QED
  BY <1>3

\* Each place writes numbers and moves on, at most six beyond the end.
Pieces(piece) ==
  /\ Len(piece) \in Nat
  /\ \A i \in 1 .. Len(piece) : /\ piece[i].out \in Seq(Int)
                               /\ piece[i].used \in Nat /\ piece[i].used > 0
                               /\ i + piece[i].used <= Len(piece) + 6

\* f is what a loop writes from each place on.
WritesFrom(f, piece) ==
  /\ f \in [1 .. Len(piece) + 6 -> Seq(Int)]
  /\ \A i \in 1 .. Len(piece) : f[i] = piece[i].out \o f[i + piece[i].used]
  /\ \A i \in Len(piece) + 1 .. Len(piece) + 6 : f[i] = <<>>

\* What a conversion writes is what its loop writes from the first place on.
LEMMA LoopWrites ==
  ASSUME NEW piece, Pieces(piece)
  PROVE  \E f : WritesFrom(f, piece) /\ Written(piece) = f[1]
<1> DEFINE n == Len(piece)
           m == n + 6
           stop == [i \in 1 .. m |-> <<>>]
           next == [i \in 1 .. m |-> IF i > n THEN 0 ELSE i + piece[i].used]
           op == [i \in 1 .. m |-> IF i > n THEN [x \in Seq(Int) |-> x]
                                   ELSE [x \in Seq(Int) |-> piece[i].out \o x]]
           Body(f) == [i \in 1 .. m |-> IF i > n THEN <<>> ELSE piece[i].out \o f[i + piece[i].used]]
           g == CHOOSE f : f = Body(f)
<1>1. /\ n \in Nat /\ m \in Nat /\ m = n + 6
      /\ \A i \in 1 .. n : /\ piece[i].out \in Seq(Int) /\ piece[i].used \in Nat
                          /\ i + piece[i].used \in i + 1 .. m
  <2> HIDE DEF stop, next, op, g
  <2>1. n \in Nat /\ m \in Nat /\ m = n + 6
    BY DEF Pieces
  <2>2. ASSUME NEW i \in 1 .. n
        PROVE  piece[i].out \in Seq(Int) /\ piece[i].used \in Nat /\ i + piece[i].used \in i + 1 .. m
    <3>1. /\ piece[i].out \in Seq(Int) /\ piece[i].used \in Nat /\ piece[i].used > 0
          /\ i + piece[i].used <= n + 6
      BY <2>2, Zenon DEF Pieces
    <3> HIDE DEF n
    <3> QED
      BY <2>1, <3>1
  <2> QED
    BY <2>1, <2>2, Zenon
<1>2. Written(piece) = g[1]
  BY DEF Written
<1> HIDE DEF n, m
<1>3. stop \in [1 .. m -> Seq(Int)]
  OBVIOUS
<1>4. next \in [1 .. m -> Nat] /\ \A i \in 1 .. m : next[i] = 0 \/ next[i] \in i + 1 .. m
  BY <1>1
<1>5. op \in [1 .. m -> [Seq(Int) -> Seq(Int)]]
  BY <1>1
<1>6. PICK f \in [1 .. m -> Seq(Int)] :
        \A i \in 1 .. m : f[i] = IF next[i] = 0 THEN stop[i] ELSE op[i][f[next[i]]]
  <2> HIDE DEF stop, next, op
  <2> QED
    <3>1. Loop(m, Seq(Int), stop, next, op)
      BY <1>1, <1>3, <1>4, <1>5, Zenon DEF Loop
    <3> QED
      BY <3>1, LoopHasValues
<1>7. \A i \in 1 .. m : f[i] = IF i > n THEN <<>> ELSE piece[i].out \o f[i + piece[i].used]
  <2> SUFFICES ASSUME NEW i \in 1 .. m
               PROVE  f[i] = IF i > n THEN <<>> ELSE piece[i].out \o f[i + piece[i].used]
    OBVIOUS
  <2>1. CASE i > n
    BY <1>1, <1>6, <2>1
  <2>2. CASE ~ (i > n)
    <3>1. i \in 1 .. n
      BY <1>1, <2>2
    <3>2. next[i] = i + piece[i].used /\ next[i] \in 1 .. m /\ next[i] # 0
      BY <1>1, <3>1
    <3>3. f[next[i]] \in Seq(Int)
      BY <3>2
    <3>4. op[i][f[next[i]]] = piece[i].out \o f[next[i]]
      <4> DEFINE y == f[next[i]]
      <4>1. y \in Seq(Int)
        BY <3>3
      <4> HIDE DEF y
      <4>2. op[i] = [x \in Seq(Int) |-> piece[i].out \o x]
        BY <1>1, <3>1
      <4>3. op[i][y] = piece[i].out \o y
        BY <4>1, <4>2, Zenon
      <4> QED
        BY <4>3 DEF y
    <3>5. f[i] = op[i][f[next[i]]]
      BY <1>6, <3>2
    <3> QED
      BY <2>2, <3>2, <3>4, <3>5
  <2> QED
    BY <2>1, <2>2
<1>8. f = Body(f)
  BY <1>7
<1>9. g = Body(g)
  BY <1>8
<1>10. \A i \in 1 .. m : g[i] = f[i]
  <2> DEFINE S == {i \in 1 .. m : g[i] = f[i]}
  <2>1. ASSUME NEW i \in 1 .. m, \A j \in i + 1 .. m : j \in S PROVE i \in S
    <3> HIDE DEF g
    <3>1. g[i] = IF i > n THEN <<>> ELSE piece[i].out \o g[i + piece[i].used]
      BY <1>9
    <3>2. f[i] = IF i > n THEN <<>> ELSE piece[i].out \o f[i + piece[i].used]
      BY <1>7
    <3>3. CASE i > n
      BY <3>1, <3>2, <3>3
    <3>4. CASE ~ (i > n)
      <4>1. i + piece[i].used \in i + 1 .. m
        BY <1>1, <3>4
      <4>2. g[i + piece[i].used] = f[i + piece[i].used]
        BY <2>1, <4>1
      <4> QED
        BY <3>1, <3>2, <3>4, <4>2
    <3> QED
      BY <3>3, <3>4
  <2> HIDE DEF S
  <2>2. \A i \in 1 .. m : i \in S
    BY <1>1, <2>1, Downward
  <2> USE DEF S
  <2> QED
    BY <2>2
<1> HIDE DEF stop, next, op, g
<1>11. g[1] = f[1]
  BY <1>1, <1>10
<1>12. /\ \A i \in 1 .. n : f[i] = piece[i].out \o f[i + piece[i].used]
       /\ \A i \in n + 1 .. n + 6 : f[i] = <<>>
  <2>1. ASSUME NEW i \in 1 .. n PROVE f[i] = piece[i].out \o f[i + piece[i].used]
    <3>1. i \in 1 .. m /\ ~ (i > n)
      BY <1>1
    <3> QED
      BY <1>7, <3>1, Zenon
  <2>2. ASSUME NEW i \in n + 1 .. n + 6 PROVE f[i] = <<>>
    <3>1. i \in 1 .. m /\ i > n
      BY <1>1
    <3> QED
      BY <1>7, <3>1, Zenon
  <2> QED
    BY <2>1, <2>2, Zenon
<1>13. WritesFrom(f, piece)
  BY <1>12, Zenon DEF WritesFrom, n, m
<1> QED
  BY <1>2, <1>11, <1>13, Zenon

\* The loop of a length moves as the one that writes, and counts what it writes.
Measures(q, piece) ==
  /\ Len(q) = Len(piece)
  /\ \A i \in 1 .. Len(piece) : q[i].size = Len(piece[i].out) /\ q[i].used = piece[i].used

\* Then it gives the length that is written.
LEMMA LoopCounts ==
  ASSUME NEW piece, NEW q, Pieces(piece), Measures(q, piece)
  PROVE  Counted(q) = Len(Written(piece))
<1> DEFINE n == Len(piece)
           m == n + 6
           Body(c) == [i \in 1 .. m |-> IF i > n THEN 0 ELSE q[i].size + c[i + q[i].used]]
           g == CHOOSE c : c = Body(c)
<1>1. PICK f : WritesFrom(f, piece) /\ Written(piece) = f[1]
  BY LoopWrites
<1> DEFINE h == [i \in 1 .. m |-> Len(f[i])]
<1>2. Counted(q) = g[1]
  <2>1. Len(q) = n
    BY Zenon DEF Measures
  <2> QED
    BY <2>1 DEF Counted
<1>3. n \in Nat /\ f \in [1 .. m -> Seq(Int)] /\ m \in Nat /\ m = n + 6
  <2>1. n \in Nat /\ f \in [1 .. m -> Seq(Int)]
    BY <1>1, Zenon DEF Pieces, WritesFrom
  <2> QED
    BY <2>1
<1>4. \A i \in 1 .. n : q[i].size = Len(piece[i].out) /\ q[i].used = piece[i].used
  BY Zenon DEF Measures
<1>5. \A i \in 1 .. n : /\ piece[i].out \in Seq(Int) /\ piece[i].used \in Nat
                        /\ piece[i].used > 0 /\ i + piece[i].used <= n + 6
  BY Zenon DEF Pieces
<1>6. /\ \A i \in 1 .. n : f[i] = piece[i].out \o f[i + piece[i].used]
      /\ \A i \in n + 1 .. n + 6 : f[i] = <<>>
  BY <1>1, Zenon DEF WritesFrom
<1> HIDE DEF n, m, g
<1>7. ASSUME NEW i \in 1 .. m
      PROVE  h[i] = IF i > n THEN 0 ELSE q[i].size + h[i + q[i].used]
  <2>1. CASE i > n
    <3>1. f[i] = <<>>
      BY <1>3, <1>6, <2>1
    <3> QED
      BY <2>1, <3>1
  <2>2. CASE ~ (i > n)
    <3>1. i \in 1 .. n
      BY <1>3, <2>2
    <3>2. PICK j \in 1 .. m : j = i + piece[i].used
      <4>1. PICK u \in Nat : u = piece[i].used /\ u > 0 /\ i + u <= n + 6
        BY <1>5, <3>1, Zenon
      <4> QED
        BY <1>3, <4>1
    <3>3. f[i] = piece[i].out \o f[j] /\ piece[i].out \in Seq(Int) /\ f[j] \in Seq(Int)
      BY <1>3, <1>5, <1>6, <3>1, <3>2
    <3>4. Len(f[i]) = Len(piece[i].out) + Len(f[j])
      BY <3>3
    <3>5. q[i].size = Len(piece[i].out) /\ i + q[i].used = j
      BY <1>4, <3>1, <3>2, Zenon
    <3>6. h[i] = Len(f[i]) /\ h[j] = Len(f[j])
      OBVIOUS
    <3> QED
      BY <2>2, <3>4, <3>5, <3>6
  <2> QED
    BY <2>1, <2>2
<1>8. h = Body(h)
  BY <1>7
<1>9. g = Body(g)
  BY <1>8 DEF g
<1>10. \A i \in 1 .. m : g[i] = h[i]
  <2> DEFINE S == {i \in 1 .. m : g[i] = h[i]}
  <2>1. ASSUME NEW i \in 1 .. m, \A j \in i + 1 .. m : j \in S PROVE i \in S
    <3>1. g[i] = IF i > n THEN 0 ELSE q[i].size + g[i + q[i].used]
      BY <1>9
    <3> HIDE DEF h
    <3>2. h[i] = IF i > n THEN 0 ELSE q[i].size + h[i + q[i].used]
      BY <1>7
    <3>3. CASE i > n
      BY <3>1, <3>2, <3>3
    <3>4. CASE ~ (i > n)
      <4>1. i \in 1 .. n /\ i + piece[i].used \in i + 1 .. m
        BY <1>3, <1>5, <3>4
      <4>2. i + q[i].used \in i + 1 .. m
        BY <1>4, <4>1, Zenon
      <4>3. g[i + q[i].used] = h[i + q[i].used]
        BY <2>1, <4>2
      <4> QED
        BY <3>1, <3>2, <3>4, <4>3
    <3> QED
      BY <3>3, <3>4
  <2> HIDE DEF S
  <2>2. \A i \in 1 .. m : i \in S
    BY <1>3, <2>1, Downward
  <2> USE DEF S
  <2> QED
    BY <2>2
<1>11. 1 \in 1 .. m
  BY <1>3
<1> QED
  BY <1>1, <1>2, <1>10, <1>11

-----------------------------------------------------------------------------
(* Conversions: the lengths *)

ByteSeqs == Seq(0 .. 255)

Four(s, i) == i + 3 <= Len(s) /\ isFourByteUTF8Encoding(s[i])

FromFour(s, i) == encode3ByteUTF8(surrogates(decode4ByteUTF8(s, i))[1])
                    \o encode3ByteUTF8(surrogates(decode4ByteUTF8(s, i))[2])

\* Bytes are bytes.
LEMMA BytesAre ==
  ASSUME NEW s \in ByteSeqs
  PROVE  Len(s) \in Nat /\ \A i \in 1 .. Len(s) : s[i] \in 0 .. 255 /\ s[i] \in Nat
<1>1. s \in Seq(0 .. 255)
  BY DEF ByteSeqs
<1>2. Len(s) \in Nat
  BY <1>1
<1>3. ASSUME NEW i \in 1 .. Len(s) PROVE s[i] \in 0 .. 255 /\ s[i] \in Nat
  <2>1. s[i] \in 0 .. 255
    BY <1>1, ElementOfSeq, Zenon
  <2>2. PICK b \in 0 .. 255 : b = s[i]
    BY <2>1, Zenon
  <2>3. b \in Nat
    OBVIOUS
  <2> QED
    BY <2>2, <2>3, Zenon
<1> QED
  BY <1>2, <1>3, Zenon

\* One number.
LEMMA OneNumber ==
  ASSUME NEW a \in Int PROVE <<a>> \in Seq(Int) /\ Len(<<a>>) = 1 /\ <<a>>[1] = a
  OBVIOUS

\* Two sequences.
LEMMA JoinNumbers ==
  ASSUME NEW x \in Seq(Int), NEW y \in Seq(Int)
  PROVE  x \o y \in Seq(Int) /\ Len(x \o y) = Len(x) + Len(y)
  OBVIOUS

\* A number before a sequence.
LEMMA NumberBefore ==
  ASSUME NEW a \in Int, NEW y \in Seq(Int), NEW k \in 1 .. Len(y)
  PROVE  (<<a>> \o y)[k + 1] = y[k] /\ (<<a>> \o y)[1] = a
  OBVIOUS

\* A group of three bytes.
LEMMA GroupIsThree ==
  ASSUME NEW code \in Int
  PROVE  encode3ByteUTF8(code) \in Seq(Int) /\ Len(encode3ByteUTF8(code)) = 3
<1>1. Lead3(code \div 4096) \in Int /\ Bits6(code \div 64) \in Int /\ Bits6(code) \in Int
  BY SMT DEF Lead3, Bits6
<1> QED
  BY <1>1, SMT DEF encode3ByteUTF8

\* Two of them for four bytes.
LEMMA GroupsOfThree ==
  ASSUME NEW s \in ByteSeqs, NEW i \in 1 .. Len(s), Four(s, i)
  PROVE  FromFour(s, i) \in Seq(Int) /\ Len(FromFour(s, i)) = 6
<1>1. PICK a \in 0 .. 255, b \in 0 .. 255, c \in 0 .. 255, d \in 0 .. 255 :
        a = s[i] /\ b = s[i + 1] /\ c = s[i + 2] /\ d = s[i + 3]
  <2>1. i \in 1 .. Len(s) /\ i + 1 \in 1 .. Len(s) /\ i + 2 \in 1 .. Len(s) /\ i + 3 \in 1 .. Len(s)
    BY BytesAre DEF Four
  <2> QED
    BY <2>1, BytesAre
<1>2. decode4ByteUTF8(s, i) = (a % 8) * 262144 + (b % 64) * 4096 + (c % 64) * 64 + (d % 64)
  BY <1>1, SMT DEF decode4ByteUTF8
<1>3. PICK code \in Int : code = decode4ByteUTF8(s, i)
  BY <1>2, SMT
<1>4. surrogates(code)[1] \in Int /\ surrogates(code)[2] \in Int
  BY SMT DEF surrogates
<1>5. /\ encode3ByteUTF8(surrogates(code)[1]) \in Seq(Int) /\ Len(encode3ByteUTF8(surrogates(code)[1])) = 3
      /\ encode3ByteUTF8(surrogates(code)[2]) \in Seq(Int) /\ Len(encode3ByteUTF8(surrogates(code)[2])) = 3
  <2>1. PICK x \in Int, y \in Int : x = surrogates(code)[1] /\ y = surrogates(code)[2]
    BY <1>4
  <2>2. /\ encode3ByteUTF8(x) \in Seq(Int) /\ Len(encode3ByteUTF8(x)) = 3
        /\ encode3ByteUTF8(y) \in Seq(Int) /\ Len(encode3ByteUTF8(y)) = 3
    BY GroupIsThree, Zenon
  <2> QED
    BY <2>1, <2>2, Zenon
<1>6. FromFour(s, i) = encode3ByteUTF8(surrogates(code)[1]) \o encode3ByteUTF8(surrogates(code)[2])
  BY <1>3, Zenon DEF FromFour
<1>7. PICK x \in Seq(Int), y \in Seq(Int) : FromFour(s, i) = x \o y /\ Len(x) = 3 /\ Len(y) = 3
  BY <1>5, <1>6, Zenon
<1>8. x \o y \in Seq(Int) /\ Len(x \o y) = Len(x) + Len(y)
  BY JoinNumbers, Zenon
<1>9. Len(x \o y) = 6
  BY <1>7, <1>8
<1> QED
  BY <1>7, <1>8, <1>9, Zenon

ToModifiedPieces(s) ==
  [i \in 1 .. Len(s) |->
     IF s[i] = 0 THEN [out |-> <<192, 128>>, used |-> 1]
     ELSE IF ~ Four(s, i) THEN [out |-> <<s[i]>>, used |-> 1]
     ELSE [out |-> FromFour(s, i), used |-> 4]]

\* What the conversion to modified UTF-8 does at each place.
LEMMA ToModifiedMoves ==
  ASSUME NEW s \in ByteSeqs
  PROVE  /\ Pieces(ToModifiedPieces(s)) /\ Len(ToModifiedPieces(s)) = Len(s)
         /\ utf8ToModifiedUTF8(s) = Written(ToModifiedPieces(s))
<1> DEFINE p == ToModifiedPieces(s)
<1>1. Len(s) \in Nat /\ \A i \in 1 .. Len(s) : s[i] \in 0 .. 255 /\ s[i] \in Nat
  BY BytesAre
<1>2. Len(p) = Len(s)
  BY <1>1 DEF ToModifiedPieces
<1>3. ASSUME NEW i \in 1 .. Len(s)
      PROVE  /\ p[i].out \in Seq(Int) /\ p[i].used \in Nat /\ p[i].used > 0
             /\ i + p[i].used <= Len(s) + 6
  <2>1. CASE s[i] = 0
    BY <1>1, <2>1 DEF ToModifiedPieces
  <2>2. CASE s[i] # 0 /\ ~ Four(s, i)
    <3>1. p[i] = [out |-> <<s[i]>>, used |-> 1]
      BY <2>2 DEF ToModifiedPieces
    <3>2. <<s[i]>> \in Seq(Int)
      BY <1>1, OneNumber
    <3> QED
      BY <1>1, <3>1, <3>2
  <2>3. CASE s[i] # 0 /\ Four(s, i)
    <3>1. p[i] = [out |-> FromFour(s, i), used |-> 4]
      BY <2>3 DEF ToModifiedPieces
    <3>2. FromFour(s, i) \in Seq(Int) /\ i + 3 <= Len(s)
      BY <2>3, GroupsOfThree DEF Four
    <3> QED
      BY <1>1, <3>1, <3>2
  <2> QED
    BY <2>1, <2>2, <2>3
<1>4. utf8ToModifiedUTF8(s) = Written(p)
  BY DEF utf8ToModifiedUTF8, ToModifiedPieces, Four, FromFour
<1> QED
  BY <1>1, <1>2, <1>3, <1>4 DEF Pieces

\* modifiedLength is the length of what is written.
LEMMA ModifiedLengthExact ==
  ASSUME NEW s \in ByteSeqs
  PROVE  Len(utf8ToModifiedUTF8(s)) = modifiedLength(s)
<1> DEFINE p == ToModifiedPieces(s)
           q == [i \in 1 .. Len(s) |-> IF s[i] = 0 THEN [size |-> 2, used |-> 1]
                                      ELSE IF ~ Four(s, i) THEN [size |-> 1, used |-> 1]
                                      ELSE [size |-> 6, used |-> 4]]
<1>1. Len(s) \in Nat /\ Len(q) = Len(s) /\ Len(p) = Len(s)
  BY ToModifiedMoves DEF ByteSeqs
<1>2. ASSUME NEW i \in 1 .. Len(s)
      PROVE  q[i].size = Len(p[i].out) /\ q[i].used = p[i].used
  <2>1. CASE s[i] # 0 /\ Four(s, i)
    BY <2>1, GroupsOfThree DEF ToModifiedPieces
  <2>2. CASE ~ (s[i] # 0 /\ Four(s, i))
    BY <2>2 DEF ToModifiedPieces
  <2> QED
    BY <2>1, <2>2
<1>3. modifiedLength(s) = Counted(q)
  BY DEF modifiedLength, Four
<1> HIDE DEF p, q
<1>4. Measures(q, p)
  BY <1>1, <1>2 DEF Measures
<1> QED
  BY <1>3, <1>4, ToModifiedMoves, LoopCounts DEF p

\* A suffix with one place more.
LEMMA SuffixGrows ==
  ASSUME NEW s \in ByteSeqs, NEW n \in 0 .. Len(s), NEW i \in 1 .. n
  PROVE  /\ <<s[i]>> \o SubSeq(s, i + 1, n) = SubSeq(s, i, n)
         /\ SubSeq(s, i, n) \in Seq(Int) /\ Len(SubSeq(s, i, n)) = n + 1 - i
<1>1. Len(s) \in Nat /\ \A k \in 1 .. Len(s) : s[k] \in Nat
  BY BytesAre
<1>2. s \in Seq(Nat)
  BY <1>1, BytesAre DEF ByteSeqs
<1>3. /\ SubSeq(s, i, n) \in Seq(Nat) /\ Len(SubSeq(s, i, n)) = n + 1 - i
      /\ SubSeq(s, i + 1, n) \in Seq(Nat) /\ Len(SubSeq(s, i + 1, n)) = n - i
      /\ \A k \in 1 .. n + 1 - i : SubSeq(s, i, n)[k] = s[i + k - 1]
      /\ \A k \in 1 .. n - i : SubSeq(s, i + 1, n)[k] = s[i + k]
  BY <1>1, <1>2
<1> DEFINE x == SubSeq(s, i, n)
           y == SubSeq(s, i + 1, n)
<1> HIDE DEF x, y
<1>4. PICK a \in Nat : a = s[i]
  BY <1>1
<1>5. <<a>> \o y \in Seq(Nat) /\ Len(<<a>> \o y) = n + 1 - i
  BY <1>3 DEF y
<1>6. ASSUME NEW k \in 1 .. n + 1 - i PROVE (<<a>> \o y)[k] = x[k]
  <2>1. CASE k = 1
    BY <1>3, <1>4, <2>1 DEF x, y
  <2>2. CASE k # 1
    <3>1. k - 1 \in 1 .. n - i /\ i + (k - 1) = i + k - 1
      BY <2>2
    <3>2. y[k - 1] = s[i + k - 1] /\ x[k] = s[i + k - 1]
      BY <1>3, <3>1 DEF x, y
    <3>3. (<<a>> \o y)[k] = y[k - 1]
      <4>0. y \in Seq(Nat) /\ Len(y) = n - i
        BY <1>3 DEF y
      <4>1. y \in Seq(Int) /\ k - 1 \in 1 .. Len(y) /\ (k - 1) + 1 = k
        BY <3>1, <4>0
      <4>2. (<<a>> \o y)[(k - 1) + 1] = y[k - 1]
        BY <4>1, NumberBefore, SMTT(40)
      <4> QED
        BY <4>1, <4>2
    <3> QED
      BY <3>2, <3>3
  <2> QED
    BY <2>1, <2>2
<1>7. <<a>> \o y = x
  <2>1. x \in Seq(Nat) /\ Len(x) = n + 1 - i
    BY <1>3 DEF x
  <2> QED
    BY <1>5, <1>6, <2>1, SeqEqual
<1>8. x \in Seq(Int) /\ Len(x) = n + 1 - i
  BY <1>3 DEF x
<1> QED
  BY <1>4, <1>7, <1>8, Zenon DEF x, y

\* What has no NUL becomes no shorter, and stays as it is when it stays as long.
LEMMA SameLengthSameBytes ==
  ASSUME NEW s \in ByteSeqs, \A i \in 1 .. Len(s) : s[i] # 0
  PROVE  /\ Len(utf8ToModifiedUTF8(s)) >= Len(s)
         /\ Len(utf8ToModifiedUTF8(s)) = Len(s) => utf8ToModifiedUTF8(s) = s
<1> DEFINE n == Len(s)
           p == ToModifiedPieces(s)
<1>1. n \in Nat /\ Pieces(p) /\ Len(p) = n /\ utf8ToModifiedUTF8(s) = Written(p)
  BY ToModifiedMoves, BytesAre
<1>2. PICK f : WritesFrom(f, p) /\ Written(p) = f[1]
  BY <1>1, LoopWrites
<1>3. /\ f \in [1 .. n + 6 -> Seq(Int)]
      /\ \A i \in 1 .. n : f[i] = p[i].out \o f[i + p[i].used]
      /\ \A i \in n + 1 .. n + 6 : f[i] = <<>>
  BY <1>1, <1>2, Zenon DEF WritesFrom
<1> HIDE DEF p
<1> DEFINE S == {i \in 1 .. n + 1 : /\ Len(f[i]) >= n + 1 - i
                                    /\ Len(f[i]) = n + 1 - i => f[i] = SubSeq(s, i, n)}
<1>4. ASSUME NEW i \in 1 .. n + 1, \A j \in i + 1 .. n + 1 : j \in S PROVE i \in S
  <2>1. CASE i = n + 1
    <3>1. f[i] = <<>> /\ SubSeq(s, i, n) = <<>>
      BY <1>1, <1>3, <2>1 DEF ByteSeqs
    <3>2. Len(f[i]) = 0 /\ n + 1 - i = 0
      BY <1>1, <2>1, <3>1
    <3>3. Len(f[i]) >= n + 1 - i /\ f[i] = SubSeq(s, i, n)
      BY <3>1, <3>2
    <3> QED
      BY <3>3
  <2>2. CASE i # n + 1 /\ ~ Four(s, i)
    <3>1. i \in 1 .. n /\ i + 1 \in i + 1 .. n + 1 /\ i + 1 \in 1 .. n + 6
      BY <1>1, <2>2
    <3>2. p[i] = [out |-> <<s[i]>>, used |-> 1]
      BY <2>2, <3>1 DEF p, ToModifiedPieces
    <3>3. PICK a \in Int : a = s[i]
      BY <3>1, BytesAre
    <3>4. PICK y \in Seq(Int) : y = f[i + 1]
      BY <1>3, <3>1
    <3>5. f[i] = <<a>> \o y
      <4>1. p[i].out = <<a>> /\ p[i].used = 1 /\ i \in 1 .. Len(p)
        BY <1>1, <3>1, <3>2, <3>3
      <4>2. f[i] = p[i].out \o f[i + p[i].used]
        BY <1>3, <3>1, Zenon
      <4> QED
        BY <3>4, <4>1, <4>2, Zenon
    <3>6. Len(f[i]) = 1 + Len(y) /\ Len(y) \in Nat
      BY <3>5
    <3>7. Len(y) >= n + 1 - (i + 1) /\ (Len(y) = n + 1 - (i + 1) => y = SubSeq(s, i + 1, n))
      BY <1>4, <3>1, <3>4
    <3>8. y = SubSeq(s, i + 1, n) => f[i] = SubSeq(s, i, n)
      <4>1. n \in 0 .. Len(s)
        BY <1>1
      <4>2. <<s[i]>> \o SubSeq(s, i + 1, n) = SubSeq(s, i, n)
        BY <3>1, <4>1, SuffixGrows
      <4> QED
        BY <3>3, <3>5, <4>2, Zenon
    <3> QED
      BY <1>1, <3>6, <3>7, <3>8
  <2>3. CASE i # n + 1 /\ Four(s, i)
    <3>1. i \in 1 .. n /\ i + 3 <= n /\ i + 4 \in i + 1 .. n + 1 /\ i + 4 \in 1 .. n + 6
      BY <1>1, <2>3 DEF Four
    <3>2. p[i] = [out |-> FromFour(s, i), used |-> 4]
      BY <2>3, <3>1 DEF p, ToModifiedPieces
    <3>3. PICK x \in Seq(Int) : x = FromFour(s, i) /\ Len(x) = 6
      BY <2>3, <3>1, GroupsOfThree
    <3>4. PICK y \in Seq(Int) : y = f[i + 4]
      BY <1>3, <3>1
    <3>5. f[i] = x \o y
      <4>1. p[i].out = x /\ p[i].used = 4 /\ i \in 1 .. Len(p)
        BY <1>1, <3>1, <3>2, <3>3
      <4>2. f[i] = p[i].out \o f[i + p[i].used]
        BY <1>3, <3>1, Zenon
      <4> QED
        BY <3>4, <4>1, <4>2, Zenon
    <3>6. Len(f[i]) = 6 + Len(y) /\ Len(y) \in Nat
      <4>1. Len(x \o y) = Len(x) + Len(y) /\ Len(y) \in Nat
        BY JoinNumbers
      <4> QED
        BY <3>3, <3>5, <4>1
    <3>7. Len(y) >= n + 1 - (i + 4)
      BY <1>4, <3>1, <3>4
    <3> QED
      BY <1>1, <3>6, <3>7
  <2> QED
    BY <2>1, <2>2, <2>3
<1>5. \A i \in 1 .. n + 1 : i \in S
  <2> DEFINE m == n + 1
  <2>1. m \in Nat /\ m = n + 1
    BY <1>1
  <2> HIDE DEF S, m
  <2> QED
    BY <1>4, <2>1, Downward
<1>6. Len(f[1]) >= n /\ (Len(f[1]) = n => f[1] = SubSeq(s, 1, n))
  <2>1. 1 \in S
    BY <1>1, <1>5
  <2> QED
    BY <1>1, <2>1
<1>7. SubSeq(s, 1, n) = s
  BY DEF ByteSeqs
<1> QED
  BY <1>1, <1>2, <1>6, <1>7

\* The C string: what follows a place, up to the first NUL.
At(s, k) == IF k > Len(s) THEN 0 ELSE s[k]

FourC(s, i) ==
  At(s, i + 1) # 0 /\ At(s, i + 2) # 0 /\ At(s, i + 3) # 0 /\ isFourByteUTF8Encoding(s[i])

UsedC(s, i) == IF s[i] = 0 THEN Len(s) + 1 - i ELSE IF ~ FourC(s, i) THEN 1 ELSE 4

CountedPieces(s) ==
  [i \in 1 .. Len(s) |->
     [out |-> IF s[i] = 0 THEN <<>> ELSE IF ~ FourC(s, i) THEN <<s[i]>> ELSE FromFour(s, i),
      used |-> UsedC(s, i)]]

PassedPieces(s) ==
  [i \in 1 .. Len(s) |->
     [out |-> IF s[i] = 0 THEN <<>> ELSE SubSeq(s, i, i + UsedC(s, i) - 1), used |-> UsedC(s, i)]]

\* Where the string has its first NUL.
EndsAt(s, e) == e \in 1 .. Len(s) + 1 /\ At(s, e) = 0 /\ \A k \in 1 .. e - 1 : At(s, k) # 0

\* It has one.
LEMMA StringEnds ==
  ASSUME NEW s \in ByteSeqs
  PROVE  \E e : EndsAt(s, e)
<1> DEFINE Z == {k \in 1 .. Len(s) + 1 : At(s, k) = 0}
<1>1. Len(s) \in Nat
  BY BytesAre
<1>2. Len(s) + 1 \in Z
  BY <1>1 DEF At
<1>3. PICK e \in Z : \A k \in Z : e <= k
  <2>1. Z \in SUBSET Nat /\ Z # {}
    BY <1>1, <1>2
  <2> HIDE DEF Z
  <2> QED
    BY <2>1, LeastPlace
<1>4. \A k \in 1 .. e - 1 : At(s, k) # 0
  BY <1>1, <1>3
<1> QED
  BY <1>1, <1>3, <1>4 DEF EndsAt

\* Before the NUL the two tests for four bytes agree, and so do the steps.
LEMMA FourAgrees ==
  ASSUME NEW s \in ByteSeqs, NEW e, EndsAt(s, e), NEW i \in 1 .. e - 1
  PROVE  /\ i \in 1 .. Len(s) /\ s[i] # 0 /\ SubSeq(s, 1, e - 1)[i] = s[i]
         /\ FourC(s, i) <=> i + 3 <= e - 1 /\ isFourByteUTF8Encoding(s[i])
         /\ FourC(s, i) <=> Four(SubSeq(s, 1, e - 1), i)
         /\ FourC(s, i) => Four(s, i) /\ FromFour(SubSeq(s, 1, e - 1), i) = FromFour(s, i)
<1> DEFINE c == SubSeq(s, 1, e - 1)
<1>1. Len(s) \in Nat /\ e \in 1 .. Len(s) + 1 /\ At(s, e) = 0 /\ \A k \in 1 .. e - 1 : At(s, k) # 0
  BY BytesAre DEF EndsAt
<1>2. Len(c) = e - 1 /\ \A k \in 1 .. e - 1 : c[k] = s[k]
  BY <1>1 DEF ByteSeqs
<1> HIDE DEF c
<1>3. i \in 1 .. Len(s) /\ s[i] # 0 /\ c[i] = s[i]
  BY <1>1, <1>2 DEF At
<1>4. FourC(s, i) <=> i + 3 <= e - 1 /\ isFourByteUTF8Encoding(s[i])
  <2>1. CASE i + 3 <= e - 1
    <3>1. i + 1 \in 1 .. e - 1 /\ i + 2 \in 1 .. e - 1 /\ i + 3 \in 1 .. e - 1
      BY <1>1, <2>1
    <3> QED
      BY <1>1, <2>1, <3>1 DEF FourC
  <2>2. CASE ~ (i + 3 <= e - 1)
    <3>1. i + 1 = e \/ i + 2 = e \/ i + 3 = e
      BY <1>1, <2>2
    <3> QED
      BY <1>1, <2>2, <3>1, Zenon DEF FourC
  <2> QED
    BY <2>1, <2>2
<1>5. FourC(s, i) <=> Four(c, i)
  BY <1>2, <1>3, <1>4, Zenon DEF Four
<1>6. ASSUME FourC(s, i) PROVE Four(s, i) /\ FromFour(c, i) = FromFour(s, i)
  <2>1. i + 3 <= e - 1 /\ isFourByteUTF8Encoding(s[i])
    BY <1>4, <1>6
  <2>2. i \in 1 .. e - 1 /\ i + 1 \in 1 .. e - 1 /\ i + 2 \in 1 .. e - 1 /\ i + 3 \in 1 .. e - 1
    BY <1>1, <2>1
  <2>3. c[i] = s[i] /\ c[i + 1] = s[i + 1] /\ c[i + 2] = s[i + 2] /\ c[i + 3] = s[i + 3]
    BY <1>2, <2>2, Zenon
  <2>4. decode4ByteUTF8(c, i) = decode4ByteUTF8(s, i)
    BY <2>3, SMT DEF decode4ByteUTF8
  <2>5. FromFour(c, i) = FromFour(s, i)
    BY <2>4, Zenon DEF FromFour
  <2>6. i + 3 <= Len(s)
    BY <1>1, <2>1
  <2> QED
    BY <2>1, <2>5, <2>6 DEF Four
<1> QED
  BY <1>3, <1>4, <1>5, <1>6, Zenon DEF c

\* The pieces of the two counts.
LEMMA StringMoves ==
  ASSUME NEW s \in ByteSeqs
  PROVE  /\ Pieces(CountedPieces(s)) /\ Len(CountedPieces(s)) = Len(s)
         /\ Pieces(PassedPieces(s)) /\ Len(PassedPieces(s)) = Len(s)
         /\ \A i \in 1 .. Len(s) : s[i] # 0 /\ FourC(s, i) => Four(s, i)
<1>1. Len(s) \in Nat /\ \A i \in 1 .. Len(s) : s[i] \in 0 .. 255 /\ s[i] \in Nat
  BY BytesAre
<1>2. Len(CountedPieces(s)) = Len(s) /\ Len(PassedPieces(s)) = Len(s)
  BY <1>1 DEF CountedPieces, PassedPieces
<1>3. ASSUME NEW i \in 1 .. Len(s), FourC(s, i)
      PROVE  i + 3 <= Len(s) /\ Four(s, i)
  <2>1. ~ (i + 3 > Len(s)) /\ isFourByteUTF8Encoding(s[i])
    BY <1>3, Zenon DEF FourC, At
  <2> QED
    BY <1>1, <2>1 DEF Four
<1>4. ASSUME NEW i \in 1 .. Len(s)
      PROVE  /\ UsedC(s, i) \in Nat /\ UsedC(s, i) > 0 /\ i + UsedC(s, i) - 1 <= Len(s)
             /\ i + UsedC(s, i) <= Len(s) + 6
  BY <1>1, <1>3 DEF UsedC
<1>5. ASSUME NEW i \in 1 .. Len(s)
      PROVE  CountedPieces(s)[i].out \in Seq(Int) /\ PassedPieces(s)[i].out \in Seq(Int)
  <2>1. <<>> \in Seq(Int) /\ <<s[i]>> \in Seq(Int)
    BY <1>1, OneNumber
  <2>2. FourC(s, i) => FromFour(s, i) \in Seq(Int)
    BY <1>3, GroupsOfThree
  <2>3. PICK j \in 0 .. Len(s) : j = i + UsedC(s, i) - 1 /\ i <= j
    BY <1>1, <1>4
  <2>4. SubSeq(s, i, j) \in Seq(Int)
    BY <1>1, <2>3, SuffixGrows
  <2>5. SubSeq(s, i, i + UsedC(s, i) - 1) \in Seq(Int)
    BY <2>3, <2>4, Zenon
  <2>6. CountedPieces(s)[i].out = IF s[i] = 0 THEN <<>> ELSE IF ~ FourC(s, i) THEN <<s[i]>> ELSE FromFour(s, i)
    BY DEF CountedPieces
  <2>7. PassedPieces(s)[i].out = IF s[i] = 0 THEN <<>> ELSE SubSeq(s, i, i + UsedC(s, i) - 1)
    BY DEF PassedPieces
  <2>8. CountedPieces(s)[i].out \in Seq(Int)
    BY <2>1, <2>2, <2>6, Zenon
  <2> QED
    BY <2>1, <2>5, <2>7, <2>8, Zenon
<1>6. \A i \in 1 .. Len(s) : CountedPieces(s)[i].used = UsedC(s, i) /\ PassedPieces(s)[i].used = UsedC(s, i)
  BY DEF CountedPieces, PassedPieces
<1> QED
  BY <1>1, <1>2, <1>3, <1>4, <1>5, <1>6, ZenonT(40) DEF Pieces

\* The text before the NUL.
LEMMA PrefixBytes ==
  ASSUME NEW s \in ByteSeqs, NEW k \in 0 .. Len(s)
  PROVE  SubSeq(s, 1, k) \in ByteSeqs /\ Len(SubSeq(s, 1, k)) = k
<1>1. PICK B : B = 0 .. 255
  OBVIOUS
<1>2. s \in Seq(B)
  BY <1>1 DEF ByteSeqs
<1>3. SubSeq(s, 1, k) \in Seq(B) /\ Len(SubSeq(s, 1, k)) = k
  BY <1>2
<1> QED
  BY <1>1, <1>3 DEF ByteSeqs

\* The two counts are the length before the NUL, converted and as it is.
LEMMA StringLengths ==
  ASSUME NEW s \in ByteSeqs, NEW e, EndsAt(s, e)
  PROVE  /\ modifiedLengthC(s)[1] = Len(utf8ToModifiedUTF8(SubSeq(s, 1, e - 1)))
         /\ modifiedLengthC(s)[2] = e - 1
<1> DEFINE n == Len(s)
           c == SubSeq(s, 1, e - 1)
           p == CountedPieces(s)
           r == PassedPieces(s)
           t == ToModifiedPieces(c)
           q1 == [i \in 1 .. n |-> [size |-> IF s[i] = 0 THEN 0 ELSE IF ~ FourC(s, i) THEN 1 ELSE 6,
                                    used |-> UsedC(s, i)]]
           q2 == [i \in 1 .. n |-> [size |-> IF s[i] = 0 THEN 0 ELSE UsedC(s, i), used |-> UsedC(s, i)]]
<1>1. /\ n \in Nat /\ e \in 1 .. n + 1 /\ At(s, e) = 0
      /\ \A i \in 1 .. n : s[i] \in 0 .. 255 /\ s[i] \in Nat
  BY BytesAre DEF EndsAt
<1>2. c \in ByteSeqs /\ Len(c) = e - 1
  <2>1. e - 1 \in 0 .. Len(s)
    BY <1>1
  <2> QED
    BY <2>1, PrefixBytes
<1>3. /\ Pieces(p) /\ Len(p) = n /\ Pieces(r) /\ Len(r) = n
      /\ Pieces(t) /\ Len(t) = e - 1 /\ utf8ToModifiedUTF8(c) = Written(t)
  <2> HIDE DEF c
  <2>1. Pieces(t) /\ Len(t) = Len(c) /\ utf8ToModifiedUTF8(c) = Written(t)
    BY <1>2, ToModifiedMoves
  <2> QED
    BY <1>2, <2>1, StringMoves
<1>4. modifiedLengthC(s) = <<Counted(q1), Counted(q2)>>
  BY DEF modifiedLengthC, At, FourC, UsedC
<1>5. /\ \A i \in 1 .. n : p[i].used = UsedC(s, i) /\ r[i].used = UsedC(s, i)
      /\ \A i \in 1 .. n : p[i].out = IF s[i] = 0 THEN <<>>
                                      ELSE IF ~ FourC(s, i) THEN <<s[i]>> ELSE FromFour(s, i)
      /\ \A i \in 1 .. n : r[i].out = IF s[i] = 0 THEN <<>> ELSE SubSeq(s, i, i + UsedC(s, i) - 1)
  BY DEF CountedPieces, PassedPieces
<1>6. \A i \in 1 .. e - 1 : t[i] = IF c[i] = 0 THEN [out |-> <<192, 128>>, used |-> 1]
                                   ELSE IF ~ Four(c, i) THEN [out |-> <<c[i]>>, used |-> 1]
                                   ELSE [out |-> FromFour(c, i), used |-> 4]
  BY <1>2 DEF ToModifiedPieces
<1>7. /\ Len(q1) = n /\ Len(q2) = n
      /\ \A i \in 1 .. n : q1[i].used = UsedC(s, i) /\ q2[i].used = UsedC(s, i)
      /\ \A i \in 1 .. n : q1[i].size = IF s[i] = 0 THEN 0 ELSE IF ~ FourC(s, i) THEN 1 ELSE 6
      /\ \A i \in 1 .. n : q2[i].size = IF s[i] = 0 THEN 0 ELSE UsedC(s, i)
  BY <1>1
<1> HIDE DEF c, p, r, t, q1, q2
<1>8. Measures(q1, p) /\ Measures(q2, r)
  <2>1. ASSUME NEW i \in 1 .. n
        PROVE  q1[i].size = Len(p[i].out)
    <3>1. Len(<<s[i]>>) = 1 /\ Len(<<>>) = 0
      OBVIOUS
    <3>2. s[i] # 0 /\ FourC(s, i) => Len(FromFour(s, i)) = 6
      BY StringMoves, GroupsOfThree
    <3> QED
      BY <1>5, <1>7, <3>1, <3>2, Zenon
  <2>2. ASSUME NEW i \in 1 .. n
        PROVE  q2[i].size = Len(r[i].out)
    <3>1. CASE s[i] = 0
      BY <1>5, <1>7, <3>1
    <3>2. CASE s[i] # 0
      <4>1. PICK u \in Nat : u = UsedC(s, i) /\ u > 0 /\ i + u - 1 <= n
        <5>1. FourC(s, i) => i + 3 <= n
          BY <3>2, StringMoves DEF Four
        <5> QED
          BY <1>1, <3>2, <5>1 DEF UsedC
      <4>2. PICK j \in 0 .. n : j = i + u - 1 /\ i \in 1 .. j
        BY <1>1, <4>1
      <4>3. Len(SubSeq(s, i, j)) = j + 1 - i
        BY <4>2, SuffixGrows
      <4>4. r[i].out = SubSeq(s, i, j)
        BY <1>5, <3>2, <4>1, <4>2, Zenon
      <4>5. q2[i].size = u
        BY <1>7, <3>2, <4>1, Zenon
      <4>6. j + 1 - i = u
        BY <4>2
      <4> QED
        BY <4>3, <4>4, <4>5, <4>6, Zenon
    <3> QED
      BY <3>1, <3>2
  <2> QED
    BY <1>3, <1>5, <1>7, <2>1, <2>2, Zenon DEF Measures
<1>9. Counted(q1) = Len(Written(p)) /\ Counted(q2) = Len(Written(r))
  BY <1>3, <1>8, LoopCounts, Zenon
<1>10. PICK f, g, h : /\ WritesFrom(f, p) /\ Written(p) = f[1]
                      /\ WritesFrom(g, r) /\ Written(r) = g[1]
                      /\ WritesFrom(h, t) /\ Written(t) = h[1]
  BY <1>3, LoopWrites, Zenon
<1>11. /\ f \in [1 .. n + 6 -> Seq(Int)] /\ g \in [1 .. n + 6 -> Seq(Int)]
       /\ \A i \in 1 .. n : f[i] = p[i].out \o f[i + p[i].used]
       /\ \A i \in 1 .. n : g[i] = r[i].out \o g[i + r[i].used]
       /\ \A i \in n + 1 .. n + 6 : f[i] = <<>> /\ g[i] = <<>>
       /\ \A i \in 1 .. e - 1 : h[i] = t[i].out \o h[i + t[i].used]
       /\ \A i \in (e - 1) + 1 .. (e - 1) + 6 : h[i] = <<>>
  BY <1>3, <1>10, Zenon DEF WritesFrom
<1>12. f[e] = <<>> /\ g[e] = <<>> /\ h[e] = <<>>
  <2>1. h[e] = <<>>
    BY <1>1, <1>11
  <2>2. CASE e = n + 1
    BY <1>1, <1>11, <2>1, <2>2
  <2>3. CASE e # n + 1
    <3>1. e \in 1 .. n /\ s[e] = 0
      BY <1>1, <2>3 DEF At
    <3>2. p[e].out = <<>> /\ r[e].out = <<>> /\ p[e].used = n + 1 - e /\ r[e].used = n + 1 - e
      BY <1>5, <3>1, Zenon DEF UsedC
    <3>3. e + (n + 1 - e) = n + 1 /\ n + 1 \in n + 1 .. n + 6
      BY <1>1
    <3>4. f[e] = <<>> \o f[n + 1] /\ g[e] = <<>> \o g[n + 1]
      BY <1>11, <3>1, <3>2, <3>3, ZenonT(40)
    <3>5. f[n + 1] = <<>> /\ g[n + 1] = <<>>
      BY <1>11, <3>3, Zenon
    <3> QED
      BY <2>1, <3>4, <3>5
  <2> QED
    BY <2>2, <2>3
<1>13. ASSUME NEW i \in 1 .. e - 1
       PROVE  \/ /\ f[i] = <<s[i]>> \o f[i + 1] /\ h[i] = <<s[i]>> \o h[i + 1]
                 /\ Len(r[i].out) = 1 /\ g[i] = r[i].out \o g[i + 1]
              \/ /\ i + 3 <= e - 1
                 /\ f[i] = FromFour(s, i) \o f[i + 4] /\ h[i] = FromFour(s, i) \o h[i + 4]
                 /\ Len(r[i].out) = 4 /\ g[i] = r[i].out \o g[i + 4]
  <2>1. /\ i \in 1 .. n /\ s[i] # 0 /\ c[i] = s[i]
        /\ FourC(s, i) => i + 3 <= e - 1
        /\ FourC(s, i) <=> Four(c, i)
        /\ FourC(s, i) => FromFour(c, i) = FromFour(s, i)
    BY FourAgrees DEF c
  <2>2. Len(r[i].out) = q2[i].size /\ q2[i].size = UsedC(s, i)
    BY <1>3, <1>7, <1>8, <2>1, Zenon DEF Measures
  <2>3. CASE FourC(s, i)
    <3>1. UsedC(s, i) = 4 /\ p[i].used = 4 /\ r[i].used = 4 /\ p[i].out = FromFour(s, i)
      BY <1>5, <2>1, <2>3, Zenon DEF UsedC
    <3>2. t[i] = [out |-> FromFour(s, i), used |-> 4]
      BY <1>6, <2>1, <2>3, Zenon
    <3>3. t[i].out = FromFour(s, i) /\ t[i].used = 4
      BY <3>2
    <3> QED
      BY <1>11, <2>1, <2>2, <2>3, <3>1, <3>3, Zenon
  <2>4. CASE ~ FourC(s, i)
    <3>1. UsedC(s, i) = 1 /\ p[i].used = 1 /\ r[i].used = 1 /\ p[i].out = <<s[i]>>
      BY <1>5, <2>1, <2>4, Zenon DEF UsedC
    <3>2. t[i] = [out |-> <<s[i]>>, used |-> 1]
      BY <1>6, <2>1, <2>4, Zenon
    <3>3. t[i].out = <<s[i]>> /\ t[i].used = 1
      BY <3>2
    <3> QED
      BY <1>11, <2>1, <2>2, <2>4, <3>1, <3>3, Zenon
  <2> QED
    BY <2>3, <2>4
<1> DEFINE S == {i \in 1 .. e : f[i] = h[i] /\ Len(g[i]) = e - i}
<1>14. ASSUME NEW i \in 1 .. e, \A j \in i + 1 .. e : j \in S PROVE i \in S
  <2>1. CASE i = e
    BY <1>1, <1>12, <2>1
  <2>2. CASE i # e
    <3>1. i \in 1 .. e - 1 /\ i \in 1 .. n
      BY <1>1, <2>2
    <3>2. ASSUME NEW u \in {1, 4}, i + u <= e,
                 Len(r[i].out) = u, g[i] = r[i].out \o g[i + u]
          PROVE  Len(g[i]) = e - i /\ f[i + u] = h[i + u]
      <4>1. i + u \in i + 1 .. e /\ i + u \in 1 .. n + 6
        BY <1>1, <3>1, <3>2
      <4>2. Len(g[i + u]) = e - (i + u) /\ f[i + u] = h[i + u]
        BY <1>14, <4>1
      <4>3. PICK x \in Seq(Int), y \in Seq(Int) : x = r[i].out /\ y = g[i + u]
        BY <1>3, <1>11, <3>1, <4>1 DEF Pieces
      <4>4. Len(x \o y) = Len(x) + Len(y)
        BY JoinNumbers
      <4>5. Len(g[i]) = u + (e - (i + u))
        BY <3>2, <4>2, <4>3, <4>4, Zenon
      <4> QED
        BY <1>1, <4>2, <4>5
    <3>3. i + 1 <= e
      BY <1>1, <3>1
    <3>4. i + 3 <= e - 1 => i + 4 <= e
      BY <1>1, <3>1
    <3>5. f[i] = h[i] /\ Len(g[i]) = e - i
      BY <1>13, <3>1, <3>2, <3>3, <3>4, Zenon
    <3> QED
      BY <3>5
  <2> QED
    BY <2>1, <2>2
<1>15. \A i \in 1 .. e : i \in S
  <2>1. e \in Nat
    BY <1>1
  <2> HIDE DEF S
  <2> QED
    BY <1>14, <2>1, Downward
<1>16. f[1] = h[1] /\ Len(g[1]) = e - 1
  <2>1. 1 \in S
    BY <1>1, <1>15
  <2> QED
    BY <2>1
<1>17. Counted(q1) = Len(utf8ToModifiedUTF8(c)) /\ Counted(q2) = e - 1
  BY <1>3, <1>9, <1>10, <1>16, Zenon
<1> QED
  BY <1>4, <1>17 DEF c

\* make_jstring hands over the conversion of what comes before the NUL, in the
\* length that was counted.
LEMMA JstringIs ==
  ASSUME NEW s \in ByteSeqs, NEW e, EndsAt(s, e)
  PROVE  /\ make_jstring(s) = utf8ToModifiedUTF8(SubSeq(s, 1, e - 1))
         /\ Len(make_jstring(s)) = modifiedLengthC(s)[1]
<1> DEFINE c == SubSeq(s, 1, e - 1)
           lens == modifiedLengthC(s)
<1>1. lens[1] = Len(utf8ToModifiedUTF8(c)) /\ lens[2] = e - 1
  BY StringLengths
<1>2. c \in ByteSeqs /\ Len(c) = e - 1
  <2>1. Len(s) \in Nat /\ e \in 1 .. Len(s) + 1
    BY BytesAre DEF EndsAt
  <2>2. e - 1 \in 0 .. Len(s)
    BY <2>1
  <2> QED
    BY <2>2, PrefixBytes
<1>3. \A i \in 1 .. Len(c) : c[i] # 0
  <2>1. ASSUME NEW i \in 1 .. e - 1 PROVE c[i] # 0
    <3>1. s[i] # 0 /\ c[i] = s[i]
      BY FourAgrees
    <3> QED
      BY <3>1, Zenon
  <2> QED
    BY <1>2, <2>1, Zenon
<1>4. make_jstring(s) = IF lens[1] = lens[2] THEN c ELSE utf8ToModifiedUTF8(c)
  BY <1>1, Zenon DEF make_jstring
<1> HIDE DEF c, lens
<1>5. Len(utf8ToModifiedUTF8(c)) = Len(c) => utf8ToModifiedUTF8(c) = c
  BY <1>2, <1>3, SameLengthSameBytes, Zenon
<1> QED
  BY <1>1, <1>2, <1>4, <1>5, Zenon DEF c, lens

FromUnitsPieces(s) ==
  [i \in 1 .. Len(s) |->
     IF s[i] < 128 THEN [out |-> <<s[i]>>, used |-> 1]
     ELSE IF s[i] < 2048 THEN [out |-> <<192 + s[i] \div 64, Bits6(s[i])>>, used |-> 1]
     ELSE IF Pair16(s, i) THEN [out |-> FourFrom16(s[i], s[i + 1]), used |-> 2]
     ELSE [out |-> encode3ByteUTF8(s[i]), used |-> 1]]

\* Two and four bytes for a unit and for a pair.
LEMMA GroupsFrom16 ==
  ASSUME NEW a \in Nat, NEW b \in Nat
  PROVE  /\ <<192 + a \div 64, Bits6(a)>> \in Seq(Int) /\ Len(<<192 + a \div 64, Bits6(a)>>) = 2
         /\ FourFrom16(a, b) \in Seq(Int) /\ Len(FourFrom16(a, b)) = 4
<1>1. 192 + a \div 64 \in Int /\ Bits6(a) \in Int
  BY SMT DEF Bits6
<1>2. PICK w \in Int : w = ((a \div 64) % 16) + 1
  BY SMT
<1>3. 240 + w \div 4 \in Int /\ 128 + (w % 4) * 16 + ((a \div 4) % 16) \in Int
  BY SMT
<1>4. 128 + (a % 4) * 16 + ((b \div 64) % 16) \in Int /\ Bits6(b) \in Int
  BY SMT DEF Bits6
<1>5. FourFrom16(a, b) = <<240 + w \div 4, 128 + (w % 4) * 16 + ((a \div 4) % 16),
                           128 + (a % 4) * 16 + ((b \div 64) % 16), Bits6(b)>>
  BY <1>2, SMT DEF FourFrom16
<1>6. PICK x \in Int, y \in Int, z \in Int, v \in Int : FourFrom16(a, b) = <<x, y, z, v>>
  BY <1>3, <1>4, <1>5, ZenonT(40)
<1>7. <<x, y, z, v>> \in Seq(Int) /\ Len(<<x, y, z, v>>) = 4
  BY SMT
<1>8. PICK x2 \in Int, y2 \in Int : <<192 + a \div 64, Bits6(a)>> = <<x2, y2>>
  BY <1>1, Zenon
<1>9. <<x2, y2>> \in Seq(Int) /\ Len(<<x2, y2>>) = 2
  BY SMT
<1> QED
  BY <1>6, <1>7, <1>8, <1>9, Zenon

\* What the conversion from UTF-16 does at each place, and the length it counts.
LEMMA FromUnitsMoves ==
  ASSUME NEW s \in Seq(Nat)
  PROVE  /\ Pieces(FromUnitsPieces(s)) /\ Len(FromUnitsPieces(s)) = Len(s)
         /\ utf16toUTF8(s) = Written(FromUnitsPieces(s))
         /\ Len(utf16toUTF8(s)) = utf16toUTF8Length(s)
<1> DEFINE n == Len(s)
           p == FromUnitsPieces(s)
           q == [i \in 1 .. n |-> IF s[i] < 128 THEN [size |-> 1, used |-> 1]
                                  ELSE IF s[i] < 2048 THEN [size |-> 2, used |-> 1]
                                  ELSE IF Pair16(s, i) THEN [size |-> 4, used |-> 2]
                                  ELSE [size |-> 3, used |-> 1]]
<1>1. n \in Nat /\ \A i \in 1 .. n : s[i] \in Nat
  OBVIOUS
<1>2. Len(p) = n /\ Len(q) = n
  BY <1>1 DEF FromUnitsPieces
<1>3. ASSUME NEW i \in 1 .. n
      PROVE  /\ p[i].out \in Seq(Int) /\ p[i].used \in Nat /\ p[i].used > 0
             /\ i + p[i].used <= n + 6
             /\ q[i].size = Len(p[i].out) /\ q[i].used = p[i].used
  <2> HIDE DEF p, q
  <2>1. PICK a \in Nat : a = s[i]
    BY <1>1
  <2>2. CASE s[i] < 128
    <3>1. p[i] = [out |-> <<s[i]>>, used |-> 1] /\ q[i] = [size |-> 1, used |-> 1]
      BY <2>2 DEF p, q, FromUnitsPieces
    <3>2. <<s[i]>> \in Seq(Int) /\ Len(<<s[i]>>) = 1
      BY <2>1, OneNumber
    <3> QED
      BY <1>1, <3>1, <3>2
  <2>3. CASE ~ (s[i] < 128) /\ s[i] < 2048
    <3>1. /\ p[i] = [out |-> <<192 + s[i] \div 64, Bits6(s[i])>>, used |-> 1]
          /\ q[i] = [size |-> 2, used |-> 1]
      BY <2>3 DEF p, q, FromUnitsPieces
    <3>2. PICK x : x = <<192 + s[i] \div 64, Bits6(s[i])>>
      OBVIOUS
    <3>3. x \in Seq(Int) /\ Len(x) = 2
      BY <2>1, <3>2, GroupsFrom16
    <3> QED
      BY <1>1, <3>1, <3>2, <3>3
  <2>4. CASE ~ (s[i] < 128) /\ ~ (s[i] < 2048) /\ Pair16(s, i)
    <3>1. p[i] = [out |-> FourFrom16(s[i], s[i + 1]), used |-> 2] /\ q[i] = [size |-> 4, used |-> 2]
      BY <2>4 DEF p, q, FromUnitsPieces
    <3>2. PICK b \in Nat : b = s[i + 1]
      <4>1. i + 1 \in 1 .. n
        BY <1>1, <2>4 DEF Pair16
      <4> QED
        BY <1>1, <4>1
    <3>3. PICK x : x = FourFrom16(s[i], s[i + 1])
      OBVIOUS
    <3>4. x \in Seq(Int) /\ Len(x) = 4
      BY <2>1, <3>2, <3>3, GroupsFrom16
    <3> QED
      BY <1>1, <3>1, <3>3, <3>4
  <2>5. CASE ~ (s[i] < 128) /\ ~ (s[i] < 2048) /\ ~ Pair16(s, i)
    <3>1. p[i] = [out |-> encode3ByteUTF8(s[i]), used |-> 1] /\ q[i] = [size |-> 3, used |-> 1]
      BY <2>5 DEF p, q, FromUnitsPieces
    <3>2. PICK x : x = encode3ByteUTF8(s[i])
      OBVIOUS
    <3>3. x \in Seq(Int) /\ Len(x) = 3
      BY <2>1, <3>2, GroupIsThree
    <3> QED
      BY <1>1, <3>1, <3>2, <3>3
  <2> QED
    BY <2>2, <2>3, <2>4, <2>5
<1>4. utf16toUTF8(s) = Written(p) /\ utf16toUTF8Length(s) = Counted(q)
  BY DEF utf16toUTF8, utf16toUTF8Length, FromUnitsPieces
<1> HIDE DEF p, q
<1>5. Pieces(p) /\ Measures(q, p)
  BY <1>1, <1>2, <1>3, Zenon DEF Pieces, Measures
<1>6. Counted(q) = Len(Written(p))
  BY <1>5, LoopCounts, Zenon
<1> QED
  BY <1>2, <1>4, <1>5, <1>6, Zenon DEF p

-----------------------------------------------------------------------------
(* Conversions: texts, character by character *)

\* A list of sequences of numbers.
Lists(A) == Len(A) \in Nat /\ \A k \in 1 .. Len(A) : A[k] \in Seq(Int)

\* F joins its first ones.
Joins(F, A) ==
  /\ F \in [0 .. Len(A) -> Seq(Int)] /\ F[0] = <<>>
  /\ \A k \in 1 .. Len(A) : F[k] = F[k - 1] \o A[k]

\* FlattenSeq joins them all.
LEMMA FlattenJoins ==
  ASSUME NEW A, Lists(A), Len(A) = 0 => A = <<>>
  PROVE  \E F : Joins(F, A) /\ FlattenSeq(A) = F[Len(A)]
<1> DEFINE n == Len(A)
<1>1. n \in Nat /\ \A k \in 1 .. n : A[k] \in Seq(Int)
  BY DEF Lists
<1>2. CASE n = 0
  <2> DEFINE F == [k \in 0 .. n |-> <<>>]
  <2>1. Joins(F, A)
    BY <1>1, <1>2 DEF Joins
  <2>2. FlattenSeq(A) = <<>> /\ F[n] = <<>>
    BY <1>1, <1>2 DEF FlattenSeq
  <2> QED
    BY <2>1, <2>2
<1>3. CASE n # 0
  <2> DEFINE Body(g) == [k \in 1 .. n |-> IF k = 1 THEN A[k] ELSE g[k - 1] \o A[k]]
             g == CHOOSE x : x = Body(x)
             stop == [i \in 1 .. n |-> A[1]]
             next == [i \in 1 .. n |-> IF i = n THEN 0 ELSE i + 1]
             op == [i \in 1 .. n |-> [x \in Seq(Int) |-> x \o A[n + 1 - i]]]
  <2>1. FlattenSeq(A) = g[n]
    BY <1>3 DEF FlattenSeq
  <2> HIDE DEF n, g
  <2>2. Loop(n, Seq(Int), stop, next, op)
    <3>1. stop \in [1 .. n -> Seq(Int)] /\ next \in [1 .. n -> Nat]
      BY <1>1, <1>3
    <3>2. \A i \in 1 .. n : next[i] = 0 \/ next[i] \in i + 1 .. n
      BY <1>1, <1>3
    <3>3. op \in [1 .. n -> [Seq(Int) -> Seq(Int)]]
      <4>1. ASSUME NEW i \in 1 .. n PROVE [x \in Seq(Int) |-> x \o A[n + 1 - i]] \in [Seq(Int) -> Seq(Int)]
        <5>1. PICK y \in Seq(Int) : y = A[n + 1 - i]
          BY <1>1
        <5>2. \A x \in Seq(Int) : x \o y \in Seq(Int)
          BY JoinNumbers
        <5> QED
          BY <5>1, <5>2
      <4> QED
        BY <4>1, Zenon
    <3> QED
      BY <1>1, <3>1, <3>2, <3>3, Zenon DEF Loop
  <2>3. PICK f \in [1 .. n -> Seq(Int)] :
          \A i \in 1 .. n : f[i] = IF next[i] = 0 THEN stop[i] ELSE op[i][f[next[i]]]
    <3> HIDE DEF stop, next, op
    <3> QED
      BY <2>2, LoopHasValues
  <2> DEFINE h == [k \in 1 .. n |-> f[n + 1 - k]]
  <2>4. h \in [1 .. n -> Seq(Int)]
    BY <1>1
  <2>5. ASSUME NEW k \in 1 .. n PROVE h[k] = IF k = 1 THEN A[k] ELSE h[k - 1] \o A[k]
    <3>1. PICK i \in 1 .. n : i = n + 1 - k
      BY <1>1
    <3>2. h[k] = f[i]
      BY <3>1
    <3>3. CASE k = 1
      <4>1. i = n /\ next[i] = 0
        BY <1>1, <3>1, <3>3
      <4>2. f[i] = stop[i] /\ stop[i] = A[1]
        BY <2>3, <4>1
      <4> QED
        BY <3>2, <3>3, <4>2
    <3>4. CASE k # 1
      <4>1. i # n /\ i + 1 \in 1 .. n /\ next[i] = i + 1 /\ i + 1 # 0 /\ n + 1 - i = k
            /\ k - 1 \in 1 .. n /\ n + 1 - (k - 1) = i + 1
        BY <1>1, <3>1, <3>4
      <4>2. PICK y \in Seq(Int) : y = f[i + 1]
        BY <4>1
      <4>3. f[i] = op[i][y]
        BY <2>3, <4>1, <4>2
      <4>4. op[i] = [x \in Seq(Int) |-> x \o A[k]]
        BY <4>1
      <4>5. op[i][y] = y \o A[k]
        BY <4>2, <4>4, Zenon
      <4>6. h[k - 1] = y
        BY <4>1, <4>2
      <4> QED
        BY <3>2, <3>4, <4>3, <4>5, <4>6
    <3> QED
      BY <3>3, <3>4
  <2>6. h = Body(h)
    BY <2>5
  <2>7. g = Body(g)
    BY <2>6 DEF g
  <2> DEFINE S == {k \in 0 .. n : k = 0 \/ g[k] = h[k]}
  <2>8. ASSUME NEW k \in 1 .. n, k - 1 \in S PROVE k \in S
    <3>1. g[k] = IF k = 1 THEN A[k] ELSE g[k - 1] \o A[k]
      BY <2>7
    <3> HIDE DEF h
    <3>2. k = 1 \/ g[k - 1] = h[k - 1]
      BY <1>1, <2>8
    <3>3. g[k] = h[k]
      BY <2>5, <3>1, <3>2, Zenon
    <3> QED
      BY <1>1, <3>3
  <2>9. \A k \in 0 .. n : k \in S
    <3>1. 0 \in S
      BY <1>1
    <3> HIDE DEF S
    <3> QED
      BY <1>1, <2>8, <3>1, Upward
  <2>10. g[n] = h[n]
    <3>1. n \in S
      <4> HIDE DEF S
      <4> QED
        BY <1>1, <2>9
    <3> QED
      BY <1>3, <3>1
  <2> DEFINE F == [k \in 0 .. n |-> IF k = 0 THEN <<>> ELSE h[k]]
  <2>11. F \in [0 .. n -> Seq(Int)] /\ F[0] = <<>> /\ F[n] = h[n]
    <3> HIDE DEF h
    <3> QED
      BY <1>1, <1>3, <2>4
  <2>12. ASSUME NEW k \in 1 .. n PROVE F[k] = F[k - 1] \o A[k]
    <3> HIDE DEF h
    <3>1. F[k] = h[k] /\ k - 1 \in 0 .. n
      BY <1>1
    <3>2. CASE k = 1
      <4>1. PICK y \in Seq(Int) : y = A[k]
        BY <1>1
      <4>2. <<>> \o y = y
        OBVIOUS
      <4>3. F[k - 1] = <<>>
        BY <1>1, <3>2
      <4> QED
        BY <2>5, <3>1, <3>2, <4>1, <4>2, <4>3, Zenon
    <3>3. CASE k # 1
      <4>1. F[k - 1] = h[k - 1]
        BY <1>1, <3>3
      <4> QED
        BY <2>5, <3>1, <3>3, <4>1, Zenon
    <3> QED
      BY <3>2, <3>3
  <2> HIDE DEF F
  <2>13. Joins(F, A)
    BY <2>11, <2>12, Zenon DEF Joins, n
  <2> QED
    BY <2>1, <2>10, <2>11, <2>13, Zenon DEF n
<1> QED
  BY <1>2, <1>3

\* b stands in s behind place i.
Stands(s, i, b) ==
  i \in Nat /\ i + Len(b) <= Len(s) /\ \A j \in 1 .. Len(b) : s[i + j] = b[j]

\* Each member stands behind those before it.
LEMMA MembersStand ==
  ASSUME NEW A, NEW F, Lists(A), Joins(F, A), NEW k \in 1 .. Len(A)
  PROVE  /\ Len(F[k]) = Len(F[k - 1]) + Len(A[k])
         /\ Stands(F[Len(A)], Len(F[k - 1]), A[k])
<1> DEFINE n == Len(A)
           p == Len(F[k - 1])
           b == A[k]
<1>0. /\ n \in Nat /\ \A l \in 1 .. n : A[l] \in Seq(Int)
      /\ F \in [0 .. n -> Seq(Int)] /\ \A l \in 1 .. n : F[l] = F[l - 1] \o A[l]
  BY Zenon DEF Lists, Joins
<1>3. ASSUME NEW l \in 1 .. n
      PROVE  l \in 0 .. n /\ F[l - 1] \in Seq(Int) /\ A[l] \in Seq(Int) /\ F[l] = F[l - 1] \o A[l]
  <2> HIDE DEF n
  <2>1. l - 1 \in 0 .. n /\ l \in 0 .. n
    BY <1>0
  <2> QED
    BY <1>0, <2>1
<1>1. n \in Nat /\ k \in 1 .. n /\ b \in Seq(Int) /\ F[k - 1] \in Seq(Int) /\ F[k] = F[k - 1] \o b
  BY <1>0, <1>3, Zenon
<1>2. p \in Nat /\ Len(b) \in Nat /\ Len(F[k]) = p + Len(b)
  <2>1. PICK x \in Seq(Int), y \in Seq(Int) : x = F[k - 1] /\ y = b /\ F[k] = x \o y
    BY <1>1, Zenon
  <2>2. Len(x \o y) = Len(x) + Len(y) /\ Len(x) \in Nat /\ Len(y) \in Nat
    OBVIOUS
  <2> QED
    BY <2>1, <2>2, Zenon
<1> DEFINE S == {l \in 0 .. n : l >= k => Stands(F[l], p, b)}
<1> HIDE DEF n, p, b
<1>5. Stands(F[k], p, b)
  <2>1. PICK x \in Seq(Int) : x = F[k - 1] /\ p = Len(x)
    BY <1>1 DEF p
  <2>2. \A j \in 1 .. Len(b) : (x \o b)[Len(x) + j] = b[j]
    BY <1>1
  <2> QED
    BY <1>1, <1>2, <2>1, <2>2 DEF Stands
<1>6. ASSUME NEW l \in 1 .. n, l - 1 \in S PROVE l \in S
  <2>1. CASE l < k
    BY <1>1, <2>1
  <2>2. CASE l = k
    BY <1>3, <1>5, <2>2, Zenon
  <2>3. CASE l > k
    <3>1. Stands(F[l - 1], p, b)
      BY <1>1, <1>6, <2>3
    <3>2. PICK x \in Seq(Int), y \in Seq(Int) : x = F[l - 1] /\ y = A[l] /\ F[l] = x \o y
      BY <1>3, Zenon
    <3>3. p + Len(b) <= Len(x) /\ \A j \in 1 .. Len(b) : x[p + j] = b[j]
      BY <3>1, <3>2 DEF Stands
    <3>4. Len(x \o y) >= Len(x) /\ \A m \in 1 .. Len(x) : (x \o y)[m] = x[m]
      OBVIOUS
    <3>5. ASSUME NEW j \in 1 .. Len(b) PROVE (x \o y)[p + j] = b[j]
      <4>1. p + j \in 1 .. Len(x)
        BY <1>2, <3>3
      <4> QED
        BY <3>3, <3>4, <4>1
    <3>6. p + Len(b) <= Len(x \o y)
      BY <1>2, <3>3, <3>4
    <3>7. Stands(x \o y, p, b)
      BY <1>2, <3>5, <3>6, Zenon DEF Stands
    <3> QED
      BY <1>3, <3>2, <3>7, Zenon
  <2> QED
    BY <1>1, <2>1, <2>2, <2>3
<1>7. 0 \in S
  BY <1>1
<1>8. \A l \in 0 .. n : l \in S
  <2> HIDE DEF S
  <2> QED
    BY <1>1, <1>6, <1>7, Upward
<1>9. Stands(F[n], p, b)
  <2>1. n \in 0 .. n /\ n >= k
    BY <1>1
  <2>2. n \in S
    <3> HIDE DEF S
    <3> QED
      BY <1>8, <2>1
  <2> QED
    BY <2>1, <2>2
<1> QED
  BY <1>2, <1>9, Zenon DEF n, p, b

\* Joining three sequences.
LEMMA JoinThree ==
  ASSUME NEW x \in Seq(Int), NEW y \in Seq(Int), NEW z \in Seq(Int)
  PROVE  (x \o y) \o z = x \o (y \o z)
  OBVIOUS

\* A loop that writes B[k] where it finds A[k].
Translation(A, B, F, p, f) ==
  /\ Lists(A) /\ Lists(B) /\ Len(A) = Len(B) /\ (Len(B) = 0 => B = <<>>)
  /\ Joins(F, A) /\ Pieces(p) /\ Len(p) = Len(F[Len(A)]) /\ WritesFrom(f, p)
  /\ \A k \in 1 .. Len(A) : f[Len(F[k - 1]) + 1] = B[k] \o f[Len(F[k]) + 1]

\* It turns what A joins into what B joins.
LEMMA LoopTranslates ==
  ASSUME NEW A, NEW B, NEW F, NEW p, NEW f, Translation(A, B, F, p, f)
  PROVE  f[1] = FlattenSeq(B)
<1>0. /\ Lists(A) /\ Lists(B) /\ Len(A) = Len(B) /\ (Len(B) = 0 => B = <<>>)
      /\ Joins(F, A) /\ Pieces(p) /\ Len(p) = Len(F[Len(A)]) /\ WritesFrom(f, p)
      /\ \A k \in 1 .. Len(A) : f[Len(F[k - 1]) + 1] = B[k] \o f[Len(F[k]) + 1]
  BY Zenon DEF Translation
<1> DEFINE n == Len(A)
           s == F[n]
<1>1. /\ n \in Nat /\ \A k \in 1 .. n : A[k] \in Seq(Int) /\ B[k] \in Seq(Int)
      /\ F \in [0 .. n -> Seq(Int)] /\ F[0] = <<>>
      /\ f \in [1 .. Len(s) + 6 -> Seq(Int)] /\ f[Len(s) + 1] = <<>>
  <2>1. n \in Nat /\ \A k \in 1 .. n : A[k] \in Seq(Int) /\ B[k] \in Seq(Int)
    BY <1>0, Zenon DEF Lists
  <2>2. F \in [0 .. n -> Seq(Int)] /\ F[0] = <<>>
    BY <1>0, Zenon DEF Joins
  <2>3. /\ f \in [1 .. Len(s) + 6 -> Seq(Int)]
        /\ \A i \in Len(s) + 1 .. Len(s) + 6 : f[i] = <<>>
    BY <1>0, Zenon DEF WritesFrom
  <2>4. Len(s) \in Nat
    BY <2>1, <2>2
  <2>5. f[Len(s) + 1] = <<>>
    BY <2>3, <2>4
  <2> QED
    BY <2>1, <2>2, <2>3, <2>5, Zenon
<1>2. PICK G : Joins(G, B) /\ FlattenSeq(B) = G[n]
  BY <1>0, FlattenJoins, Zenon
<1>3. /\ G \in [0 .. n -> Seq(Int)] /\ G[0] = <<>>
      /\ \A k \in 1 .. n : G[k] = G[k - 1] \o B[k]
  BY <1>0, <1>2, Zenon DEF Joins
<1>4. \A k \in 1 .. n : Len(F[k]) \in Nat /\ Len(F[k]) <= Len(s)
  <2> TAKE k \in 1 .. n
  <2>1. Len(F[k]) = Len(F[k - 1]) + Len(A[k]) /\ Stands(s, Len(F[k - 1]), A[k])
    BY <1>0, MembersStand, Zenon
  <2>2. Len(F[k]) \in Nat
    BY <1>1
  <2> QED
    BY <2>1, <2>2, Zenon DEF Stands
<1> DEFINE S == {k \in 0 .. n : f[1] = G[k] \o f[Len(F[k]) + 1]}
<1> HIDE DEF n, s
<1>5. 0 \in S
  <2>1. Len(F[0]) + 1 = 1 /\ 1 \in 1 .. Len(s) + 6
    <3>1. Len(s) \in Nat
      BY <1>1 DEF s
    <3> QED
      BY <1>1, <3>1
  <2>2. PICK y \in Seq(Int) : y = f[1]
    BY <1>1, <2>1
  <2>3. <<>> \o y = y
    OBVIOUS
  <2>4. f[1] = G[0] \o f[Len(F[0]) + 1]
    BY <1>3, <2>1, <2>2, <2>3, Zenon
  <2>5. 0 \in 0 .. n
    BY <1>1
  <2> QED
    BY <2>4, <2>5, Zenon
<1>6. ASSUME NEW k \in 1 .. n, k - 1 \in S PROVE k \in S
  <2>1. f[1] = G[k - 1] \o f[Len(F[k - 1]) + 1]
    BY <1>6
  <2>2. f[Len(F[k - 1]) + 1] = B[k] \o f[Len(F[k]) + 1]
    BY <1>0, Zenon DEF n
  <2>3. PICK x \in Seq(Int), y \in Seq(Int), z \in Seq(Int) :
          x = G[k - 1] /\ y = B[k] /\ z = f[Len(F[k]) + 1]
    <3>1. Len(F[k]) + 1 \in 1 .. Len(s) + 6
      <4>1. Len(s) \in Nat
        BY <1>1 DEF s
      <4> QED
        BY <1>4, <4>1
    <3>2. k - 1 \in 0 .. n
      BY <1>1
    <3> QED
      BY <1>1, <1>3, <3>1, <3>2
  <2>4. f[1] = (x \o y) \o z
    <3>1. (x \o y) \o z = x \o (y \o z)
      BY JoinThree
    <3>2. f[1] = x \o (y \o z)
      BY <2>1, <2>2, <2>3, Zenon
    <3> QED
      BY <3>1, <3>2, Zenon
  <2>5. f[1] = G[k] \o f[Len(F[k]) + 1]
    BY <1>3, <2>3, <2>4, Zenon
  <2>6. k \in 0 .. n
    BY <1>1
  <2> QED
    BY <2>5, <2>6, Zenon
<1>7. \A k \in 0 .. n : k \in S
  <2> HIDE DEF S
  <2> QED
    BY <1>1, <1>5, <1>6, Upward
<1>8. f[1] = G[n] \o f[Len(F[n]) + 1]
  <2>1. n \in S
    <3> HIDE DEF S
    <3> QED
      BY <1>1, <1>7
  <2> QED
    BY <2>1
<1>9. PICK y \in Seq(Int) : y = G[n]
  BY <1>1, <1>3
<1>10. y \o <<>> = y
  OBVIOUS
<1> QED
  BY <1>1, <1>2, <1>8, <1>9, <1>10, Zenon DEF s

\* The code points of characters, and the units of supplementary ones.
Character(c) == c \in Nat /\ c <= 1114111 /\ (c < 55296 \/ c > 57343)

High(c) == 55296 + (c - 65536) \div 1024
Low(c) == 56320 + ((c - 65536) % 1024)

\* Bytes that go on with a character.
Goes(b) == b \in Nat /\ 128 <= b /\ b <= 191

\* A character takes one to four bytes, which tell by their range what they are.
OneByte(c) == c < 128 /\ Standard(c) = <<c>>
TwoBytes(c) ==
  /\ 128 <= c /\ c < 2048
  /\ \E a, b \in Nat : /\ Standard(c) = <<a, b>> /\ 194 <= a /\ a <= 223 /\ Goes(b)
                       /\ a = 192 + c \div 64 /\ b = Bits6(c)
ThreeBytes(c) ==
  /\ 2048 <= c /\ c < 65536 /\ Standard(c) = encode3ByteUTF8(c)
  /\ \E a, b, d \in Nat : /\ Standard(c) = <<a, b, d>>
                          /\ 224 <= a /\ a <= 239 /\ (a = 237 => b < 160) /\ Goes(b) /\ Goes(d)
FourBytes(c) ==
  /\ 65536 <= c
  /\ \E a, b, d, e \in Nat : /\ Standard(c) = <<a, b, d, e>>
                             /\ 240 <= a /\ a <= 244 /\ Goes(b) /\ Goes(d) /\ Goes(e)
                             /\ a = 240 + c \div 262144 /\ b = Bits6(c \div 4096)
                             /\ d = Bits6(c \div 64) /\ e = Bits6(c)

\* It is one of these.
LEMMA StandardIs ==
  ASSUME NEW c, Character(c)
  PROVE  OneByte(c) \/ TwoBytes(c) \/ ThreeBytes(c) \/ FourBytes(c)
<1>1. c \in Nat /\ c <= 1114111 /\ (c < 55296 \/ c > 57343)
  BY SMT DEF Character
<1>2. \A x \in Nat : Goes(Bits6(x)) /\ Bits6(x) \in Nat
  BY SMT DEF Goes, Bits6
<1>3. CASE c < 128
  BY <1>1, <1>3, SMT DEF Standard, OneByte
<1>4. CASE 128 <= c /\ c < 2048
  <2>1. Standard(c) = <<192 + c \div 64, Bits6(c)>>
    BY <1>1, <1>4, SMT DEF Standard, Six, Bits6
  <2>2. 192 + c \div 64 \in Nat /\ 194 <= 192 + c \div 64 /\ 192 + c \div 64 <= 223
    BY <1>1, <1>4, SMT
  <2> QED
    BY <1>1, <1>2, <1>4, <2>1, <2>2, SMT DEF TwoBytes
<1>5. CASE 2048 <= c /\ c < 65536
  <2>1. Standard(c) = <<224 + c \div 4096, Bits6(c \div 64), Bits6(c)>>
    BY <1>1, <1>5, SMT DEF Standard, Six, Bits6
  <2>2. 224 + c \div 4096 \in Nat /\ 224 <= 224 + c \div 4096 /\ 224 + c \div 4096 <= 239
    BY <1>1, <1>5, SMT
  <2>3. Lead3(c \div 4096) = 224 + c \div 4096
    BY <1>1, <1>5, SMT DEF Lead3
  <2>4. 224 + c \div 4096 = 237 => Bits6(c \div 64) < 160
    BY <1>1, <1>5, SMT DEF Bits6
  <2>5. Standard(c) = encode3ByteUTF8(c)
    BY <2>1, <2>3, SMT DEF encode3ByteUTF8
  <2>6. c \div 64 \in Nat
    BY <1>1, SMT
  <2> QED
    BY <1>1, <1>2, <1>5, <2>1, <2>2, <2>4, <2>5, <2>6, SMT DEF ThreeBytes
<1>6. CASE 65536 <= c
  <2>1. Standard(c) = <<240 + c \div 262144, Bits6(c \div 4096), Bits6(c \div 64), Bits6(c)>>
    BY <1>1, <1>6, SMT DEF Standard, Six, Bits6
  <2>2. 240 + c \div 262144 \in Nat /\ 240 <= 240 + c \div 262144 /\ 240 + c \div 262144 <= 244
    BY <1>1, <1>6, SMT
  <2>3. c \div 64 \in Nat /\ c \div 4096 \in Nat
    BY <1>1, SMT
  <2>4. PICK a \in Nat : a = 240 + c \div 262144
    BY <2>2, SMT
  <2>7. PICK b \in Nat : b = Bits6(c \div 4096)
    BY <1>2, <2>3, SMT
  <2>8. PICK d \in Nat : d = Bits6(c \div 64)
    BY <1>2, <2>3, SMT
  <2>9. PICK e \in Nat : e = Bits6(c)
    BY <1>1, <1>2, SMT
  <2>5. Goes(b) /\ Goes(d) /\ Goes(e)
    BY <1>1, <1>2, <2>3, <2>7, <2>8, <2>9, SMT
  <2>6. Standard(c) = <<a, b, d, e>> /\ 240 <= a /\ a <= 244
    BY <2>1, <2>2, <2>4, <2>7, <2>8, <2>9, SMT
  <2> QED
    BY <1>6, <2>4, <2>5, <2>6, <2>7, <2>8, <2>9, SMT DEF FourBytes
<1> QED
  BY <1>1, <1>3, <1>4, <1>5, <1>6, SMT

\* The units of a supplementary character, and the numbers made of them.
LEMMA UnitsOf ==
  ASSUME NEW c, Character(c), c >= 65536
  PROVE  /\ High(c) \in Nat /\ 55296 <= High(c) /\ High(c) <= 56319
         /\ Low(c) \in Nat /\ 56320 <= Low(c) /\ Low(c) <= 57343
         /\ Units16(c) = <<High(c), Low(c)>> /\ surrogates(c) = <<High(c), Low(c)>>
         /\ c = 65536 + (High(c) % 1024) * 1024 + (Low(c) % 1024)
<1>1. c \in Nat /\ c <= 1114111 /\ c >= 65536
  BY SMT DEF Character
<1>2. /\ High(c) \in Nat /\ 55296 <= High(c) /\ High(c) <= 56319
      /\ Low(c) \in Nat /\ 56320 <= Low(c) /\ Low(c) <= 57343
  BY <1>1, SMT DEF High, Low
<1>3. Units16(c) = <<High(c), Low(c)>>
  BY <1>1, SMT DEF Units16, High, Low
<1>4. c % 1024 = (c - 65536) % 1024
  BY <1>1, SMT
<1>5. surrogates(c) = <<High(c), Low(c)>>
  BY <1>1, <1>4, SMT DEF surrogates, High, Low
<1>6. c = 65536 + (High(c) % 1024) * 1024 + (Low(c) % 1024)
  BY <1>1, SMT DEF High, Low
<1> QED
  BY <1>2, <1>3, <1>5, <1>6, SMT

\* A unit of a pair takes three bytes like a character of its size.
LEMMA UnitBytes ==
  ASSUME NEW u \in Nat, 55296 <= u, u <= 57343
  PROVE  /\ Standard(u) = encode3ByteUTF8(u)
         /\ \E b, d \in Nat : /\ encode3ByteUTF8(u) = <<237, b, d>> /\ Goes(b) /\ Goes(d)
                              /\ b \div 16 = (IF u <= 56319 THEN 10 ELSE 11)
                              /\ 13 * 4096 + (b % 64) * 64 + (d % 64) = u
<1>1. \A x \in Nat : Goes(Bits6(x)) /\ Bits6(x) \in Nat
  BY SMT DEF Goes, Bits6
<1>2. Standard(u) = <<224 + u \div 4096, Bits6(u \div 64), Bits6(u)>>
  BY SMT DEF Standard, Six, Bits6
<1>3. 224 + u \div 4096 = 237 /\ Lead3(u \div 4096) = 237 /\ u \div 64 \in Nat
  BY SMT DEF Lead3
<1>4. encode3ByteUTF8(u) = <<237, Bits6(u \div 64), Bits6(u)>>
  BY <1>3, SMT DEF encode3ByteUTF8
<1>5. Bits6(u \div 64) \div 16 = (IF u <= 56319 THEN 10 ELSE 11)
  BY SMT DEF Bits6
<1>6. 13 * 4096 + (Bits6(u \div 64) % 64) * 64 + (Bits6(u) % 64) = u
  BY SMT DEF Bits6
<1>7. Standard(u) = encode3ByteUTF8(u)
  BY <1>2, <1>3, <1>4, SMT
<1> QED
  BY <1>1, <1>3, <1>4, <1>5, <1>6, <1>7, SMT

\* The places of two sequences joined.
LEMMA JoinPlaces ==
  ASSUME NEW x \in Seq(Int), NEW y \in Seq(Int)
  PROVE  /\ \A k \in 1 .. Len(x) : (x \o y)[k] = x[k]
         /\ \A k \in 1 .. Len(y) : (x \o y)[Len(x) + k] = y[k]
  OBVIOUS

\* Two, three and four numbers.
LEMMA ByPlaces ==
  ASSUME NEW z \in Seq(Int), NEW a \in Int, NEW b \in Int, NEW d \in Int, NEW e \in Int
  PROVE  /\ (Len(z) = 2 /\ z[1] = a /\ z[2] = b) => z = <<a, b>>
         /\ (Len(z) = 3 /\ z[1] = a /\ z[2] = b /\ z[3] = d) => z = <<a, b, d>>
<1>1. ASSUME Len(z) = 2, z[1] = a, z[2] = b PROVE z = <<a, b>>
  BY <1>1
<1>2. ASSUME Len(z) = 3, z[1] = a, z[2] = b, z[3] = d PROVE z = <<a, b, d>>
  BY <1>2
<1> QED
  BY <1>1, <1>2, Zenon

\* A number behind one or two.
LEMMA JoinedTwo ==
  ASSUME NEW a \in Int, NEW b \in Int
  PROVE  <<a>> \o <<b>> = <<a, b>>
<1>0. <<a>> \in Seq(Int) /\ <<b>> \in Seq(Int)
  OBVIOUS
<1>1. PICK x \in Seq(Int), y \in Seq(Int) : x = <<a>> /\ y = <<b>>
  BY <1>0, Zenon
<1>2. PICK z : z = x \o y
  OBVIOUS
<1>3. z \in Seq(Int) /\ Len(z) = Len(x) + Len(y)
  BY <1>2, JoinNumbers, Zenon
<1>4. /\ Len(x) = 1 /\ Len(y) = 1 /\ x[1] = a /\ y[1] = b
      /\ 1 \in 1 .. Len(x) /\ 1 \in 1 .. Len(y) /\ Len(x) + 1 = 2
  BY <1>1
<1>5. Len(z) = 2
  BY <1>3, <1>4
<1>6. z[1] = x[1] /\ z[Len(x) + 1] = y[1]
  BY <1>2, <1>4, JoinPlaces, Zenon
<1>7. z[1] = a /\ z[2] = b
  BY <1>4, <1>6, Zenon
<1>8. z = <<a, b>>
  BY <1>3, <1>5, <1>7, ByPlaces, Zenon
<1> QED
  BY <1>1, <1>2, <1>8, Zenon

\* Two numbers and a third.
LEMMA JoinedThree ==
  ASSUME NEW a \in Int, NEW b \in Int, NEW d \in Int
  PROVE  <<a, b>> \o <<d>> = <<a, b, d>>
<1>0. <<a, b>> \in Seq(Int) /\ <<d>> \in Seq(Int)
  OBVIOUS
<1>1. PICK x \in Seq(Int), y \in Seq(Int) : x = <<a, b>> /\ y = <<d>>
  BY <1>0, Zenon
<1>2. PICK z : z = x \o y
  OBVIOUS
<1>3. z \in Seq(Int) /\ Len(z) = Len(x) + Len(y)
  BY <1>2, JoinNumbers, Zenon
<1>4. /\ Len(x) = 2 /\ Len(y) = 1 /\ x[1] = a /\ x[2] = b /\ y[1] = d
      /\ 1 \in 1 .. Len(x) /\ 2 \in 1 .. Len(x) /\ 1 \in 1 .. Len(y) /\ Len(x) + 1 = 3
  BY <1>1
<1>5. Len(z) = 3
  BY <1>3, <1>4
<1>6. z[1] = x[1] /\ z[2] = x[2] /\ z[Len(x) + 1] = y[1]
  BY <1>2, <1>4, JoinPlaces, Zenon
<1>7. z[1] = a /\ z[2] = b /\ z[3] = d
  BY <1>4, <1>6, Zenon
<1>8. z = <<a, b, d>>
  BY <1>3, <1>5, <1>7, ByPlaces, ZenonT(40)
<1> QED
  BY <1>1, <1>2, <1>8, Zenon

\* Numbers before a sequence, one by one.
LEMMA NumbersBefore ==
  ASSUME NEW a \in Int, NEW b \in Int, NEW d \in Int, NEW y \in Seq(Int)
  PROVE  /\ <<a>> \o (<<b>> \o y) = <<a, b>> \o y
         /\ <<a>> \o (<<b>> \o (<<d>> \o y)) = <<a, b, d>> \o y
<1>1. <<a>> \in Seq(Int) /\ <<b>> \in Seq(Int) /\ <<d>> \in Seq(Int) /\ <<a, b>> \in Seq(Int)
  OBVIOUS
<1>2. <<a>> \o <<b>> = <<a, b>> /\ <<a, b>> \o <<d>> = <<a, b, d>>
  BY JoinedTwo, JoinedThree, Zenon
<1>3. \A z \in Seq(Int) : (<<a>> \o <<b>>) \o z = <<a>> \o (<<b>> \o z)
  BY <1>1, JoinThree
<1>4. (<<a, b>> \o <<d>>) \o y = <<a, b>> \o (<<d>> \o y)
  BY <1>1, JoinThree
<1>5. <<d>> \o y \in Seq(Int)
  OBVIOUS
<1> QED
  BY <1>2, <1>3, <1>4, <1>5, Zenon

\* A place whose byte is copied.
Copied(f, s, i) == f[i] = <<s[i]>> \o f[i + 1]

\* A group of bytes that are copied.
LEMMA GroupCopied ==
  ASSUME NEW s \in ByteSeqs, NEW f \in [1 .. Len(s) + 6 -> Seq(Int)], NEW i, NEW b,
         Stands(s, i, b), Len(b) \in 1 .. 3, b \in Seq(Int), \A j \in 1 .. Len(b) : Copied(f, s, i + j)
  PROVE  f[i + 1] = b \o f[i + Len(b) + 1]
<1>1. /\ Len(s) \in Nat /\ i \in Nat /\ i + Len(b) <= Len(s)
      /\ \A j \in 1 .. Len(b) : s[i + j] = b[j] /\ b[j] \in Int
  <2>1. \A j \in 1 .. Len(b) : b[j] \in Int
    OBVIOUS
  <2> QED
    BY <2>1, BytesAre, Zenon DEF Stands
<1>2. i + 1 + 1 = i + 2 /\ i + 2 + 1 = i + 3 /\ i + 3 + 1 = i + 4 /\ i + 1 \in 1 .. Len(s) + 6
  BY <1>1
<1>0. PICK l \in 1 .. 3 : l = Len(b)
  BY Zenon
<1>3. 1 \in 1 .. Len(b)
  <2>1. 1 \in 1 .. l
    OBVIOUS
  <2> QED
    BY <1>0, <2>1, Zenon
<1>4. PICK x \in Int : x = b[1] /\ f[i + 1] = <<x>> \o f[i + 2]
  BY <1>1, <1>2, <1>3, Zenon DEF Copied
<1>5. CASE Len(b) = 1
  <2>1. b = <<x>>
    BY <1>4, <1>5
  <2>2. i + Len(b) + 1 = i + 2
    BY <1>1, <1>5
  <2> QED
    BY <1>4, <2>1, <2>2, Zenon
<1>6. CASE Len(b) = 2
  <2>1. 2 \in 1 .. Len(b)
    BY <1>6
  <2>2. PICK y \in Int : y = b[2] /\ f[i + 2] = <<y>> \o f[i + 3]
    BY <1>1, <1>2, <2>1, Zenon DEF Copied
  <2>3. PICK z \in Seq(Int) : z = f[i + 3]
    <3>1. i + 3 \in 1 .. Len(s) + 6
      BY <1>1, <1>6
    <3> QED
      BY <3>1, Zenon
  <2>4. <<x>> \o (<<y>> \o z) = <<x, y>> \o z
    BY NumbersBefore
  <2>5. b = <<x, y>>
    BY <1>4, <1>6, <2>2
  <2>6. i + Len(b) + 1 = i + 3
    BY <1>1, <1>6
  <2> QED
    BY <1>4, <2>2, <2>3, <2>4, <2>5, <2>6, Zenon
<1>7. CASE Len(b) = 3
  <2>1. 2 \in 1 .. Len(b) /\ 3 \in 1 .. Len(b)
    BY <1>7
  <2>2. PICK y \in Int : y = b[2] /\ f[i + 2] = <<y>> \o f[i + 3]
    BY <1>1, <1>2, <2>1, Zenon DEF Copied
  <2>3. PICK v \in Int : v = b[3] /\ f[i + 3] = <<v>> \o f[i + 4]
    BY <1>1, <1>2, <2>1, Zenon DEF Copied
  <2>4. PICK z \in Seq(Int) : z = f[i + 4]
    <3>1. i + 4 \in 1 .. Len(s) + 6
      BY <1>1, <1>7
    <3> QED
      BY <3>1, Zenon
  <2>5. <<x>> \o (<<y>> \o (<<v>> \o z)) = <<x, y, v>> \o z
    BY NumbersBefore
  <2>6. b = <<x, y, v>>
    BY <1>4, <1>7, <2>2, <2>3
  <2>7. i + Len(b) + 1 = i + 4
    BY <1>1, <1>7
  <2> QED
    BY <1>4, <2>2, <2>3, <2>4, <2>5, <2>6, <2>7, Zenon
<1> QED
  BY <1>5, <1>6, <1>7

\* A list of one.
LEMMA OfOne ==
  ASSUME NEW A, Lists(A), Len(A) = 1
  PROVE  FlattenSeq(A) = A[1]
<1>1. PICK F : Joins(F, A) /\ FlattenSeq(A) = F[1]
  <2>1. Len(A) = 0 => A = <<>>
    OBVIOUS
  <2> QED
    BY <2>1, FlattenJoins, Zenon
<1>2. F[0] = <<>> /\ \A k \in 1 .. 1 : F[k] = F[k - 1] \o A[k]
  BY <1>1, Zenon DEF Joins
<1>3. F[1] = F[0] \o A[1]
  <2>1. 1 \in 1 .. 1 /\ 1 - 1 = 0
    OBVIOUS
  <2> QED
    BY <1>2, <2>1, Zenon
<1>4. PICK y \in Seq(Int) : y = A[1]
  <2>1. 1 \in 1 .. Len(A)
    OBVIOUS
  <2> QED
    BY <2>1, Zenon DEF Lists
<1>5. <<>> \o y = y
  OBVIOUS
<1> QED
  BY <1>1, <1>2, <1>3, <1>4, <1>5, Zenon

\* A list of two.
LEMMA OfTwo ==
  ASSUME NEW A, Lists(A), Len(A) = 2
  PROVE  FlattenSeq(A) = A[1] \o A[2]
<1>1. PICK F : Joins(F, A) /\ FlattenSeq(A) = F[2]
  <2>1. Len(A) = 0 => A = <<>>
    OBVIOUS
  <2> QED
    BY <2>1, FlattenJoins, Zenon
<1>2. F[0] = <<>> /\ \A k \in 1 .. 2 : F[k] = F[k - 1] \o A[k]
  BY <1>1, Zenon DEF Joins
<1>0. 1 \in 1 .. 2 /\ 1 - 1 = 0 /\ 2 \in 1 .. 2 /\ 2 - 1 = 1
  OBVIOUS
<1>3. F[1] = F[0] \o A[1]
  BY <1>0, <1>2, Zenon
<1>6. F[2] = F[1] \o A[2]
  BY <1>0, <1>2, Zenon
<1>4. PICK y \in Seq(Int) : y = A[1]
  <2>1. 1 \in 1 .. Len(A)
    OBVIOUS
  <2> QED
    BY <2>1, Zenon DEF Lists
<1>5. <<>> \o y = y
  OBVIOUS
<1> QED
  BY <1>1, <1>2, <1>3, <1>4, <1>5, <1>6, Zenon

\* The bytes of an encoding.
LEMMA StandardBytes ==
  ASSUME NEW c, Character(c)
  PROVE  /\ Standard(c) \in Seq(Int) /\ Len(Standard(c)) \in 1 .. 4
         /\ \A j \in 1 .. Len(Standard(c)) : Standard(c)[j] \in 0 .. 255 /\ (c # 0 => Standard(c)[j] # 0)
<1>0. c \in Nat
  BY SMT DEF Character
<1>1. CASE OneByte(c)
  BY <1>0, <1>1, SMT DEF OneByte
<1>2. CASE TwoBytes(c)
  <2>1. PICK a \in Nat, b \in Nat : Standard(c) = <<a, b>> /\ 194 <= a /\ a <= 223 /\ Goes(b)
    BY <1>2, SMT DEF TwoBytes
  <2> QED
    BY <2>1, SMT DEF Goes
<1>3. CASE ThreeBytes(c)
  <2>1. PICK a \in Nat, b \in Nat, d \in Nat :
           Standard(c) = <<a, b, d>> /\ 224 <= a /\ a <= 239 /\ Goes(b) /\ Goes(d)
    BY <1>3, SMT DEF ThreeBytes
  <2> QED
    BY <2>1, SMT DEF Goes
<1>4. CASE FourBytes(c)
  <2>1. PICK a \in Nat, b \in Nat, d \in Nat, e \in Nat :
           Standard(c) = <<a, b, d, e>> /\ 240 <= a /\ a <= 244 /\ Goes(b) /\ Goes(d) /\ Goes(e)
    BY <1>4, SMT DEF FourBytes
  <2> QED
    BY <2>1, SMT DEF Goes
<1> QED
  BY <1>1, <1>2, <1>3, <1>4, StandardIs, Zenon

\* Characters that take one unit, and those that take two.
Basic(c) == c # 0 /\ c < 65536
Supplementary(c) == c >= 65536

\* Units of a pair.
PairUnit(u) == u \in Nat /\ 55296 <= u /\ u <= 57343

\* What encodes a supplementary character.
LEMMA PairOf ==
  ASSUME NEW c, Character(c), Supplementary(c)
  PROVE  /\ Units16(c) = <<High(c), Low(c)>> /\ surrogates(c) = <<High(c), Low(c)>>
         /\ PairUnit(High(c)) /\ PairUnit(Low(c)) /\ High(c) \in Nat /\ Low(c) \in Nat
         /\ HighSub(High(c)) /\ LowSub(Low(c))
<1>1. c >= 65536
  BY SMT DEF Supplementary
<1>2. /\ High(c) \in Nat /\ 55296 <= High(c) /\ High(c) <= 56319
      /\ Low(c) \in Nat /\ 56320 <= Low(c) /\ Low(c) <= 57343
      /\ Units16(c) = <<High(c), Low(c)>> /\ surrogates(c) = <<High(c), Low(c)>>
  BY <1>1, UnitsOf, SMT
<1>3. HighSub(High(c)) /\ LowSub(Low(c))
  BY <1>2, SMTT(40) DEF HighSub, LowSub
<1> QED
  BY <1>2, <1>3, SMT DEF PairUnit

\* A unit of a pair takes three bytes.
LEMMA PairBytes ==
  ASSUME NEW u, PairUnit(u)
  PROVE  u \in Nat /\ Standard(u) = encode3ByteUTF8(u)
  BY UnitBytes, SMT DEF PairUnit

\* The units of a character, and its modified encoding.
LEMMA ModifiedIs ==
  ASSUME NEW c, Character(c)
  PROVE  /\ c = 0 => Modified(c) = <<192, 128>>
         /\ Basic(c) => Units16(c) = <<c>> /\ Modified(c) = Standard(c)
         /\ Supplementary(c) => Modified(c) = encode3ByteUTF8(High(c)) \o encode3ByteUTF8(Low(c))
         /\ c = 0 \/ Basic(c) \/ Supplementary(c)
<1>0. c \in Nat
  BY SMT DEF Character
<1> DEFINE A == [k \in DOMAIN Units16(c) |-> Standard(Units16(c)[k])]
<1>1. ASSUME Basic(c) PROVE Units16(c) = <<c>> /\ Modified(c) = Standard(c)
  <2>1. Units16(c) = <<c>>
    BY <1>1, SMT DEF Units16, Basic
  <2>2. A = <<Standard(c)>>
    BY <2>1, SMT
  <2> HIDE DEF A
  <2>3. PICK x \in Seq(Int) : x = Standard(c)
    BY StandardBytes, Zenon
  <2>4. Lists(A) /\ Len(A) = 1 /\ A[1] = x
    BY <2>2, <2>3, SMT DEF Lists
  <2>5. FlattenSeq(A) = x
    BY <2>4, OfOne, Zenon
  <2>6. c # 0
    BY <1>1, SMT DEF Basic
  <2> QED
    BY <2>1, <2>3, <2>5, <2>6, Zenon DEF A, Modified
<1>2. ASSUME Supplementary(c)
      PROVE  Modified(c) = encode3ByteUTF8(High(c)) \o encode3ByteUTF8(Low(c))
  <2>1. PICK h \in Nat, l \in Nat :
          h = High(c) /\ l = Low(c) /\ PairUnit(h) /\ PairUnit(l) /\ Units16(c) = <<h, l>>
    BY <1>2, PairOf, Zenon
  <2>2. A = <<Standard(h), Standard(l)>>
    BY <2>1, SMT
  <2> HIDE DEF A
  <2>3. PICK x \in Seq(Int), y \in Seq(Int) :
          x = Standard(h) /\ y = Standard(l) /\ x = encode3ByteUTF8(h) /\ y = encode3ByteUTF8(l)
    <3>1. Standard(h) = encode3ByteUTF8(h) /\ Standard(l) = encode3ByteUTF8(l)
      BY <2>1, PairBytes, Zenon
    <3>2. encode3ByteUTF8(h) \in Seq(Int) /\ encode3ByteUTF8(l) \in Seq(Int)
      BY GroupIsThree, SMT
    <3> QED
      BY <3>1, <3>2, Zenon
  <2>4. Lists(A) /\ Len(A) = 2 /\ A[1] = x /\ A[2] = y
    BY <2>2, <2>3, SMT DEF Lists
  <2>5. FlattenSeq(A) = x \o y
    BY <2>4, OfTwo, Zenon
  <2>6. c # 0
    BY <1>2, <1>0, SMT DEF Supplementary
  <2> QED
    BY <2>1, <2>3, <2>5, <2>6, Zenon DEF A, Modified
<1>3. c = 0 => Modified(c) = <<192, 128>>
  BY Zenon DEF Modified
<1>4. c = 0 \/ Basic(c) \/ Supplementary(c)
  BY <1>0, SMT DEF Basic, Supplementary
<1> QED
  BY <1>1, <1>2, <1>3, <1>4, Zenon

\* Three numbers, place by place.
Three(t, a, b, d) ==
  /\ t \in Seq(Int) /\ t = <<a, b, d>> /\ Len(t) = 3 /\ t[1] = a /\ t[2] = b /\ t[3] = d
  /\ 1 \in 1 .. Len(t) /\ 2 \in 1 .. Len(t) /\ 3 \in 1 .. Len(t)

Quad(t, a, b, d, e) ==
  /\ t \in Seq(Int) /\ t = <<a, b, d, e>> /\ Len(t) = 4
  /\ t[1] = a /\ t[2] = b /\ t[3] = d /\ t[4] = e
  /\ 1 \in 1 .. Len(t) /\ 2 \in 1 .. Len(t) /\ 3 \in 1 .. Len(t) /\ 4 \in 1 .. Len(t)

\* These are such.
LEMMA ThreeNumbers ==
  ASSUME NEW a \in Nat, NEW b \in Nat, NEW d \in Nat
  PROVE  Three(<<a, b, d>>, a, b, d)
<1>1. <<a, b, d>> \in Seq(Int) /\ Len(<<a, b, d>>) = 3
  OBVIOUS
<1>2. <<a, b, d>>[1] = a /\ <<a, b, d>>[2] = b /\ <<a, b, d>>[3] = d
  OBVIOUS
<1>3. 1 \in 1 .. 3 /\ 2 \in 1 .. 3 /\ 3 \in 1 .. 3
  OBVIOUS
<1> QED
  BY <1>1, <1>2, <1>3, Zenon DEF Three

\* Four numbers, place by place.
LEMMA FourNumbers ==
  ASSUME NEW a \in Nat, NEW b \in Nat, NEW d \in Nat, NEW e \in Nat
  PROVE  Quad(<<a, b, d, e>>, a, b, d, e)
<1>1. <<a, b, d, e>> \in Seq(Int) /\ Len(<<a, b, d, e>>) = 4
  OBVIOUS
<1>2. <<a, b, d, e>>[1] = a /\ <<a, b, d, e>>[2] = b /\ <<a, b, d, e>>[3] = d /\ <<a, b, d, e>>[4] = e
  OBVIOUS
<1>3. 1 \in 1 .. 4 /\ 2 \in 1 .. 4 /\ 3 \in 1 .. 4 /\ 4 \in 1 .. 4
  OBVIOUS
<1> QED
  BY <1>1, <1>2, <1>3, Zenon DEF Quad

\* What the conversion to modified UTF-8 writes at a place.
LEMMA ToModifiedAt ==
  ASSUME NEW s \in ByteSeqs, NEW f, WritesFrom(f, ToModifiedPieces(s)), NEW j \in 1 .. Len(s)
  PROVE  /\ s[j] = 0 => f[j] = <<192, 128>> \o f[j + 1]
         /\ s[j] # 0 /\ ~ Four(s, j) => Copied(f, s, j)
         /\ s[j] # 0 /\ Four(s, j) => f[j] = FromFour(s, j) \o f[j + 4]
<1> DEFINE p == ToModifiedPieces(s)
<1>1. Len(p) = Len(s)
  BY ToModifiedMoves, Zenon
<1>2. f[j] = p[j].out \o f[j + p[j].used]
  BY <1>1, Zenon DEF WritesFrom
<1>3. p[j] = IF s[j] = 0 THEN [out |-> <<192, 128>>, used |-> 1]
             ELSE IF ~ Four(s, j) THEN [out |-> <<s[j]>>, used |-> 1]
             ELSE [out |-> FromFour(s, j), used |-> 4]
  BY Zenon DEF ToModifiedPieces
<1> HIDE DEF p
<1>4. CASE s[j] = 0
  <2>1. p[j].out = <<192, 128>> /\ p[j].used = 1
    BY <1>3, <1>4
  <2> QED
    BY <1>2, <1>4, <2>1, Zenon
<1>5. CASE s[j] # 0 /\ ~ Four(s, j)
  <2>1. p[j].out = <<s[j]>> /\ p[j].used = 1
    BY <1>3, <1>5
  <2> QED
    BY <1>2, <1>5, <2>1, Zenon DEF Copied
<1>6. CASE s[j] # 0 /\ Four(s, j)
  <2>1. p[j].out = FromFour(s, j) /\ p[j].used = 4
    BY <1>3, <1>6
  <2> QED
    BY <1>2, <1>6, <2>1, Zenon
<1> QED
  BY <1>4, <1>5, <1>6, Zenon

\* A byte that starts neither four bytes, nor a NUL of two, nor a pair.
Plain(b) == b # 0 /\ ~ isFourByteUTF8Encoding(b) /\ b # 192
NoPair(b, d) == b # 237 \/ d \div 16 # 10
Pairless(t, j) == IF j = Len(t) THEN t[j] # 237 ELSE NoPair(t[j], t[j + 1])

\* The bytes of a character of one unit.
LEMMA BasicBytes ==
  ASSUME NEW c, Character(c), Basic(c)
  PROVE  /\ Standard(c) \in Seq(Int) /\ Len(Standard(c)) \in 1 .. 3
         /\ \A j \in 1 .. Len(Standard(c)) : Plain(Standard(c)[j]) /\ Pairless(Standard(c), j)
<1>0. c \in Nat /\ c # 0 /\ c < 65536
  BY SMT DEF Character, Basic
<1>1. CASE OneByte(c)
  <2>1. Plain(c) /\ Pairless(<<c>>, 1)
    BY <1>0, <1>1, SMT DEF OneByte, Plain, Pairless, isFourByteUTF8Encoding
  <2>2. <<c>> \in Seq(Int) /\ Len(<<c>>) \in 1 .. 3 /\ \A j \in 1 .. Len(<<c>>) : j = 1
    BY <1>0, SMT
  <2>3. <<c>>[1] = c
    OBVIOUS
  <2>4. Standard(c) = <<c>>
    BY <1>1, SMT DEF OneByte
  <2> QED
    BY <2>1, <2>2, <2>3, <2>4, Zenon
<1>2. CASE TwoBytes(c)
  <2>1. PICK a \in Nat, b \in Nat : Standard(c) = <<a, b>> /\ 194 <= a /\ a <= 223 /\ Goes(b)
    BY <1>2, SMT DEF TwoBytes
  <2>2. Plain(a) /\ Plain(b) /\ NoPair(a, b) /\ b # 237
    BY <2>1, SMT DEF Goes, isFourByteUTF8Encoding, Plain, NoPair
  <2>3. PICK t : t = <<a, b>>
    OBVIOUS
  <2>4. t \in Seq(Int) /\ Len(t) \in 1 .. 3 /\ \A j \in 1 .. Len(t) : j = 1 \/ j = 2
    BY <2>3, SMT
  <2>7. t[1] = a /\ t[2] = b /\ Len(t) = 2
    BY <2>3, SMT
  <2>5. Pairless(t, 1) /\ Pairless(t, 2)
    BY <2>2, <2>7, SMT DEF Pairless
  <2>6. Standard(c) = t
    BY <2>1, <2>3, SMT
  <2>8. Plain(t[1]) /\ Plain(t[2])
    BY <2>2, <2>7, Zenon
  <2> QED
    BY <2>4, <2>5, <2>6, <2>8, Zenon
<1>3. CASE ThreeBytes(c)
  <2>1. PICK a \in Nat, b \in Nat, d \in Nat :
           Standard(c) = <<a, b, d>> /\ 224 <= a /\ a <= 239 /\ Goes(b) /\ Goes(d) /\ (a = 237 => b < 160)
    BY <1>3, SMT DEF ThreeBytes
  <2>2. Plain(a) /\ Plain(b) /\ Plain(d) /\ NoPair(a, b) /\ NoPair(b, d) /\ d # 237
    BY <2>1, SMT DEF Goes, isFourByteUTF8Encoding, Plain, NoPair
  <2>3. PICK t : Three(t, a, b, d)
    BY ThreeNumbers, Zenon
  <2>4. t \in Seq(Int) /\ Len(t) \in 1 .. 3 /\ \A j \in 1 .. Len(t) : j = 1 \/ j = 2 \/ j = 3
    BY <2>3, SMT DEF Three
  <2>5. Pairless(t, 1) /\ Pairless(t, 2) /\ Pairless(t, 3)
    BY <2>2, <2>3, SMT DEF Three, Pairless
  <2>6. Plain(t[1]) /\ Plain(t[2]) /\ Plain(t[3])
    BY <2>2, <2>3, Zenon DEF Three
  <2>7. Standard(c) = t
    <3>1. Standard(c) = <<a, b, d>>
      BY <2>1, SMT
    <3> QED
      BY <2>3, <3>1, Zenon DEF Three
  <2> QED
    BY <2>4, <2>5, <2>6, <2>7, Zenon
<1>4. ~ FourBytes(c)
  BY <1>0, SMT DEF FourBytes
<1> QED
  BY <1>1, <1>2, <1>3, <1>4, StandardIs, Zenon

\* A character of one unit keeps its bytes.
LEMMA BasicToModified ==
  ASSUME NEW s \in ByteSeqs, NEW f, WritesFrom(f, ToModifiedPieces(s)), NEW i, NEW c, Character(c),
         Basic(c), Stands(s, i, Standard(c))
  PROVE  f[i + 1] = Modified(c) \o f[i + Len(Standard(c)) + 1]
<1>1. PICK b \in Seq(Int) : b = Standard(c)
  BY BasicBytes, Zenon
<1>2. /\ Len(b) \in 1 .. 3
      /\ \A j \in 1 .. Len(b) : b[j] # 0 /\ ~ isFourByteUTF8Encoding(b[j])
  <2>1. Len(b) \in 1 .. 3 /\ \A j \in 1 .. Len(b) : Plain(b[j])
    BY <1>1, BasicBytes, Zenon
  <2> QED
    BY <2>1, Zenon DEF Plain
<1>3. Len(s) \in Nat /\ i \in Nat /\ i + Len(b) <= Len(s) /\ \A j \in 1 .. Len(b) : s[i + j] = b[j]
  BY <1>1, BytesAre, Zenon DEF Stands
<1>4. ASSUME NEW j \in 1 .. Len(b) PROVE Copied(f, s, i + j)
  <2>1. i + j \in 1 .. Len(s)
    BY <1>2, <1>3
  <2>2. s[i + j] # 0 /\ ~ Four(s, i + j)
    BY <1>2, <1>3, Zenon DEF Four
  <2> QED
    BY <2>1, <2>2, ToModifiedAt, Zenon
<1>5. f \in [1 .. Len(s) + 6 -> Seq(Int)]
  BY ToModifiedMoves, Zenon DEF WritesFrom
<1>8. Stands(s, i, b)
  BY <1>1, Zenon
<1>6. f[i + 1] = b \o f[i + Len(b) + 1]
  BY <1>2, <1>4, <1>5, <1>8, GroupCopied, SMTT(40)
<1>7. Modified(c) = b
  BY <1>1, ModifiedIs, Zenon
<1> QED
  BY <1>1, <1>6, <1>7, Zenon

\* What four bytes stand for.
Value4(a, b, d, e) == (a % 8) * 262144 + (b % 64) * 4096 + (d % 64) * 64 + (e % 64)

\* The four bytes of a supplementary character give its code point back.
LEMMA FourBytesDecode ==
  ASSUME NEW c, Character(c), Supplementary(c)
  PROVE  \E a, b, d, e \in Nat :
            /\ Standard(c) = <<a, b, d, e>> /\ a # 0 /\ isFourByteUTF8Encoding(a)
            /\ Value4(a, b, d, e) = c
<1>1. c \in Nat /\ c <= 1114111 /\ c >= 65536
  BY SMT DEF Character, Supplementary
<1>2. FourBytes(c)
  BY <1>1, StandardIs, SMT DEF OneByte, TwoBytes, ThreeBytes
<1>3. PICK a \in Nat, b \in Nat, d \in Nat, e \in Nat :
         /\ Standard(c) = <<a, b, d, e>> /\ 240 <= a /\ a <= 244
         /\ a = 240 + c \div 262144 /\ b = Bits6(c \div 4096)
         /\ d = Bits6(c \div 64) /\ e = Bits6(c)
  BY <1>2, SMT DEF FourBytes
<1>4. a # 0 /\ isFourByteUTF8Encoding(a)
  BY <1>3, SMT DEF isFourByteUTF8Encoding
<1>5. /\ a % 8 = c \div 262144 /\ b % 64 = (c \div 4096) % 64
      /\ d % 64 = (c \div 64) % 64 /\ e % 64 = c % 64
  BY <1>1, <1>3, SMT DEF Bits6
<1>6. (c \div 262144) * 262144 + ((c \div 4096) % 64) * 4096 + ((c \div 64) % 64) * 64 + (c % 64) = c
  BY <1>1, SMT
<1>7. Value4(a, b, d, e) = c
  BY <1>5, <1>6, SMT DEF Value4
<1>8. Standard(c) = <<a, b, d, e>>
  BY <1>3, SMT
<1> QED
  BY <1>4, <1>7, <1>8, Zenon

\* A supplementary one becomes two groups of three.
LEMMA SupplementaryToModified ==
  ASSUME NEW s \in ByteSeqs, NEW f, WritesFrom(f, ToModifiedPieces(s)), NEW i, NEW c, Character(c),
         Supplementary(c), Stands(s, i, Standard(c))
  PROVE  f[i + 1] = Modified(c) \o f[i + Len(Standard(c)) + 1]
<1>1. PICK a \in Nat, b \in Nat, d \in Nat, e \in Nat :
         /\ Standard(c) = <<a, b, d, e>> /\ a # 0 /\ isFourByteUTF8Encoding(a)
         /\ Value4(a, b, d, e) = c
  BY FourBytesDecode, Zenon
<1>13. PICK t : t = Standard(c) /\ Quad(t, a, b, d, e)
  BY <1>1, FourNumbers, Zenon
<1>2. /\ t = Standard(c) /\ Len(t) = 4 /\ t[1] = a /\ t[2] = b /\ t[3] = d /\ t[4] = e
      /\ 1 \in 1 .. Len(t) /\ 2 \in 1 .. Len(t) /\ 3 \in 1 .. Len(t) /\ 4 \in 1 .. Len(t)
  BY <1>13, Zenon DEF Quad
<1>3. /\ Len(s) \in Nat /\ i \in Nat /\ i + Len(t) <= Len(s) /\ \A j \in 1 .. Len(t) : s[i + j] = t[j]
  BY <1>2, BytesAre, Zenon DEF Stands
<1>4. s[i + 1] = a /\ s[i + 2] = b /\ s[i + 3] = d /\ s[i + 4] = e
  BY <1>2, <1>3, Zenon
<1>5. /\ i + 1 \in 1 .. Len(s) /\ (i + 1) + 1 = i + 2 /\ (i + 1) + 2 = i + 3 /\ (i + 1) + 3 = i + 4
      /\ (i + 1) + 4 = i + Len(t) + 1 /\ i + 4 <= Len(s)
  BY <1>2, <1>3, SMT
<1>6. s[i + 1] # 0 /\ Four(s, i + 1)
  BY <1>1, <1>4, <1>5, Zenon DEF Four
<1>7. f[i + 1] = FromFour(s, i + 1) \o f[i + Len(t) + 1]
  <2>1. f[i + 1] = FromFour(s, i + 1) \o f[(i + 1) + 4]
    BY <1>5, <1>6, ToModifiedAt, ZenonT(40)
  <2> QED
    BY <1>5, <2>1, Zenon
<1>8. decode4ByteUTF8(s, i + 1) = c
  <2>1. decode4ByteUTF8(s, i + 1) = Value4(s[i + 1], s[(i + 1) + 1], s[(i + 1) + 2], s[(i + 1) + 3])
    BY SMT DEF decode4ByteUTF8, Value4
  <2> QED
    BY <1>1, <1>4, <1>5, <2>1, Zenon
<1>9. surrogates(c) = <<High(c), Low(c)>>
  BY PairOf, Zenon
<1>10. surrogates(c)[1] = High(c) /\ surrogates(c)[2] = Low(c)
  BY <1>9, SMT
<1>11. FromFour(s, i + 1) = encode3ByteUTF8(High(c)) \o encode3ByteUTF8(Low(c))
  BY <1>8, <1>10, Zenon DEF FromFour
<1>12. Modified(c) = FromFour(s, i + 1)
  BY <1>11, ModifiedIs, Zenon
<1> QED
  BY <1>2, <1>7, <1>12, Zenon

\* And a NUL two bytes.
LEMMA ToModified ==
  ASSUME NEW s \in ByteSeqs, NEW f, WritesFrom(f, ToModifiedPieces(s)), NEW i, NEW c, Character(c),
         Stands(s, i, Standard(c))
  PROVE  f[i + 1] = Modified(c) \o f[i + Len(Standard(c)) + 1]
<1>1. CASE c = 0
  <2>1. Standard(c) = <<0>>
    BY <1>1, SMT DEF Standard
  <2>2. PICK t \in Seq(Int) : t = Standard(c) /\ Len(t) = 1 /\ t[1] = 0
    <3>1. 0 \in Int
      OBVIOUS
    <3> QED
      BY <2>1, <3>1, OneNumber, Zenon
  <2>3. /\ Len(s) \in Nat /\ i \in Nat /\ i + Len(t) <= Len(s) /\ \A j \in 1 .. Len(t) : s[i + j] = t[j]
    BY <2>2, BytesAre, Zenon DEF Stands
  <2>4. 1 \in 1 .. Len(t) /\ i + 1 \in 1 .. Len(s)
    BY <2>2, <2>3, SMT
  <2>8. (i + 1) + 1 = i + Len(t) + 1
    BY <2>2, <2>3, SMT
  <2>5. s[i + 1] = 0
    BY <2>2, <2>3, <2>4, Zenon
  <2>6. f[i + 1] = <<192, 128>> \o f[(i + 1) + 1]
    BY <2>4, <2>5, ToModifiedAt, ZenonT(40)
  <2>7. Modified(c) = <<192, 128>>
    BY <1>1, ModifiedIs, Zenon
  <2> QED
    BY <2>2, <2>8, <2>6, <2>7, Zenon
<1>2. CASE Basic(c)
  BY <1>2, BasicToModified, SMT
<1>3. CASE Supplementary(c)
  BY <1>3, SupplementaryToModified, SMT
<1> QED
  BY <1>1, <1>2, <1>3, ModifiedIs, Zenon

\* What the conversion from UTF-16 makes of one unit, and of a pair.
FromUnit(u) ==
  IF u < 128 THEN <<u>>
  ELSE IF u < 2048 THEN <<192 + u \div 64, Bits6(u)>>
  ELSE encode3ByteUTF8(u)

\* What it writes at a place.
LEMMA FromUnitsAt ==
  ASSUME NEW s \in Seq(Nat), NEW f, WritesFrom(f, FromUnitsPieces(s)), NEW j \in 1 .. Len(s)
  PROVE  /\ ~ HighSub(s[j]) => f[j] = FromUnit(s[j]) \o f[j + 1]
         /\ Pair16(s, j) => f[j] = FourFrom16(s[j], s[j + 1]) \o f[j + 2]
<1> DEFINE p == FromUnitsPieces(s)
<1>1. Len(p) = Len(s)
  BY FromUnitsMoves, Zenon
<1>2. f[j] = p[j].out \o f[j + p[j].used]
  BY <1>1, Zenon DEF WritesFrom
<1>3. p[j] = IF s[j] < 128 THEN [out |-> <<s[j]>>, used |-> 1]
             ELSE IF s[j] < 2048 THEN [out |-> <<192 + s[j] \div 64, Bits6(s[j])>>, used |-> 1]
             ELSE IF Pair16(s, j) THEN [out |-> FourFrom16(s[j], s[j + 1]), used |-> 2]
             ELSE [out |-> encode3ByteUTF8(s[j]), used |-> 1]
  BY SMT DEF FromUnitsPieces
<1> HIDE DEF p
<1>4. PICK u \in Nat : u = s[j]
  OBVIOUS
<1>5. ASSUME ~ HighSub(s[j]) PROVE p[j] = [out |-> FromUnit(s[j]), used |-> 1]
  <2>1. ~ Pair16(s, j)
    BY <1>5, Zenon DEF Pair16
  <2>2. PICK r : r = p[j]
    OBVIOUS
  <2>3. r = IF u < 128 THEN [out |-> <<u>>, used |-> 1]
            ELSE IF u < 2048 THEN [out |-> <<192 + u \div 64, Bits6(u)>>, used |-> 1]
            ELSE [out |-> encode3ByteUTF8(u), used |-> 1]
    BY <1>3, <1>4, <2>1, <2>2, SMT
  <2>4. r = [out |-> FromUnit(u), used |-> 1]
    <3>1. CASE u < 128
      BY <2>3, <3>1, SMT DEF FromUnit
    <3>2. CASE ~ (u < 128) /\ u < 2048
      BY <2>3, <3>2, SMT DEF FromUnit
    <3>3. CASE ~ (u < 128) /\ ~ (u < 2048)
      BY <2>3, <3>3, SMT DEF FromUnit
    <3> QED
      BY <3>1, <3>2, <3>3, SMT
  <2> QED
    BY <1>4, <2>2, <2>4, Zenon
<1>7. ASSUME Pair16(s, j) PROVE p[j] = [out |-> FourFrom16(s[j], s[j + 1]), used |-> 2]
  <2>1. HighSub(u)
    BY <1>4, <1>7, Zenon DEF Pair16
  <2>2. ~ (u < 128) /\ ~ (u < 2048)
    BY <2>1, SMT DEF HighSub
  <2>3. ~ (s[j] < 128) /\ ~ (s[j] < 2048)
    BY <1>4, <2>2, SMT
  <2> QED
    BY <1>3, <1>7, <2>3, SMT
<1>6. ASSUME NEW x, NEW k, p[j] = [out |-> x, used |-> k] PROVE f[j] = x \o f[j + k]
  <2>1. p[j].out = x /\ p[j].used = k
    BY <1>6
  <2> QED
    BY <1>2, <2>1, Zenon
<1> QED
  BY <1>5, <1>6, <1>7, Zenon

\* One unit gives its character's encoding.
LEMMA UnitStandard ==
  ASSUME NEW c, Character(c), c = 0 \/ Basic(c)
  PROVE  c \in Nat /\ ~ HighSub(c) /\ FromUnit(c) = Standard(c) /\ Units16(c) = <<c>>
<1>1. c \in Nat /\ c <= 1114111 /\ (c < 55296 \/ c > 57343) /\ c < 65536
  BY SMT DEF Character, Basic
<1>2. ~ HighSub(c)
  BY <1>1, SMT DEF HighSub
<1>3. c < 2048 => FromUnit(c) = Standard(c)
  BY <1>1, SMT DEF FromUnit, Standard, Six, Bits6
<1>4. c >= 2048 => FromUnit(c) = Standard(c)
  <2>1. c >= 2048 => Standard(c) = encode3ByteUTF8(c)
    BY <1>1, StandardIs, SMT DEF OneByte, TwoBytes, ThreeBytes, FourBytes
  <2> QED
    BY <1>1, <2>1, SMT DEF FromUnit
<1>5. Units16(c) = <<c>>
  BY <1>1, SMT DEF Units16
<1> QED
  BY <1>1, <1>2, <1>3, <1>4, <1>5, SMT

\* A pair gives the encoding of its character.
LEMMA PairStandard ==
  ASSUME NEW c, Character(c), Supplementary(c)
  PROVE  FourFrom16(High(c), Low(c)) = Standard(c)
<1>1. c \in Nat /\ c <= 1114111 /\ c >= 65536
  BY SMT DEF Character, Supplementary
<1>2. Standard(c) = <<240 + c \div 262144, Bits6(c \div 4096), Bits6(c \div 64), Bits6(c)>>
  BY <1>1, SMT DEF Standard, Six, Bits6
<1>3. PICK h \in Nat : h = (c - 65536) \div 1024
  BY <1>1, SMT
<1>4. PICK l \in Nat : l = (c - 65536) % 1024 /\ l < 1024
  BY <1>1, SMT
<1>5. c = 65536 + h * 1024 + l /\ h < 1024
  BY <1>1, <1>3, <1>4, SMT
<1>6. High(c) = 55296 + h /\ Low(c) = 56320 + l
  BY <1>3, <1>4, SMT DEF High, Low
<1>7. ((55296 + h) \div 64) % 16 = h \div 64
  BY <1>5, SMT
<1>8. 240 + (h \div 64 + 1) \div 4 = 240 + c \div 262144
  BY <1>4, <1>5, SMT
<1>9. 128 + ((h \div 64 + 1) % 4) * 16 + (((55296 + h) \div 4) % 16) = Bits6(c \div 4096)
  <2>1. c \div 4096 = 16 + h \div 4
    BY <1>4, <1>5, SMT
  <2>2. ((55296 + h) \div 4) % 16 = (h \div 4) % 16
    BY <1>5, SMT
  <2>3. (16 + h \div 4) % 64 = ((h \div 64 + 1) % 4) * 16 + ((h \div 4) % 16)
    BY <1>5, SMT
  <2> QED
    BY <2>1, <2>2, <2>3, SMT DEF Bits6
<1>10. 128 + ((55296 + h) % 4) * 16 + (((56320 + l) \div 64) % 16) = Bits6(c \div 64)
  <2>1. c \div 64 = 1024 + h * 16 + l \div 64
    BY <1>4, <1>5, SMT
  <2>2. ((56320 + l) \div 64) % 16 = l \div 64 /\ (55296 + h) % 4 = h % 4
    BY <1>4, SMT
  <2>3. (1024 + h * 16 + l \div 64) % 64 = (h % 4) * 16 + l \div 64
    BY <1>4, <1>5, SMT
  <2> QED
    BY <2>1, <2>2, <2>3, SMT DEF Bits6
<1>11. Bits6(56320 + l) = Bits6(c)
  BY <1>4, <1>5, SMT DEF Bits6
<1>12. FourFrom16(55296 + h, 56320 + l) =
         <<240 + (h \div 64 + 1) \div 4,
           128 + ((h \div 64 + 1) % 4) * 16 + (((55296 + h) \div 4) % 16),
           128 + ((55296 + h) % 4) * 16 + (((56320 + l) \div 64) % 16),
           Bits6(56320 + l)>>
  BY <1>7, SMT DEF FourFrom16
<1> QED
  BY <1>2, <1>6, <1>8, <1>9, <1>10, <1>11, <1>12, SMT

\* Each character of UTF-16 becomes its standard encoding.
LEMMA FromUnits ==
  ASSUME NEW s \in Seq(Nat), NEW f, WritesFrom(f, FromUnitsPieces(s)), NEW i, NEW c, Character(c),
         Stands(s, i, Units16(c))
  PROVE  f[i + 1] = Standard(c) \o f[i + Len(Units16(c)) + 1]
<1>0. Len(s) \in Nat
  OBVIOUS
<1>1. CASE c = 0 \/ Basic(c)
  <2>1. c \in Nat /\ ~ HighSub(c) /\ FromUnit(c) = Standard(c) /\ Units16(c) = <<c>>
    BY <1>1, UnitStandard, Zenon
  <2>2. PICK t : t = Units16(c) /\ Len(t) = 1 /\ t[1] = c
    BY <2>1
  <2>3. i \in Nat /\ i + Len(t) <= Len(s) /\ \A j \in 1 .. Len(t) : s[i + j] = t[j]
    BY <2>2, Zenon DEF Stands
  <2>4. 1 \in 1 .. Len(t) /\ i + 1 \in 1 .. Len(s)
    BY <1>0, <2>2, <2>3
  <2>5. (i + 1) + 1 = i + Len(t) + 1
    BY <2>2, <2>3
  <2>6. s[i + 1] = c
    BY <2>2, <2>3, <2>4, Zenon
  <2>7. f[i + 1] = FromUnit(s[i + 1]) \o f[(i + 1) + 1]
    <3>1. ~ HighSub(s[i + 1])
      BY <2>1, <2>6, Zenon
    <3> QED
      BY <2>4, <3>1, FromUnitsAt, Zenon
  <2> QED
    BY <2>1, <2>2, <2>5, <2>6, <2>7, Zenon
<1>2. CASE Supplementary(c)
  <2>1. /\ Units16(c) = <<High(c), Low(c)>> /\ HighSub(High(c)) /\ LowSub(Low(c))
        /\ FourFrom16(High(c), Low(c)) = Standard(c)
    BY <1>2, PairOf, PairStandard, Zenon
  <2>2. PICK t : t = Units16(c) /\ Len(t) = 2 /\ t[1] = High(c) /\ t[2] = Low(c)
    BY <2>1
  <2>3. i \in Nat /\ i + Len(t) <= Len(s) /\ \A j \in 1 .. Len(t) : s[i + j] = t[j]
    BY <2>2, Zenon DEF Stands
  <2>4. 1 \in 1 .. Len(t) /\ 2 \in 1 .. Len(t) /\ i + 1 \in 1 .. Len(s) /\ i + 1 < Len(s)
    BY <1>0, <2>2, <2>3
  <2>5. (i + 1) + 1 = i + 2 /\ (i + 1) + 2 = i + Len(t) + 1
    BY <2>2, <2>3
  <2>6. s[i + 1] = High(c) /\ s[(i + 1) + 1] = Low(c)
    BY <2>2, <2>3, <2>4, <2>5, Zenon
  <2>7. f[i + 1] = FourFrom16(s[i + 1], s[(i + 1) + 1]) \o f[(i + 1) + 2]
    <3>1. Pair16(s, i + 1)
      BY <2>1, <2>4, <2>6, Zenon DEF Pair16
    <3> QED
      BY <2>4, <3>1, FromUnitsAt, Zenon
  <2> QED
    BY <2>1, <2>2, <2>5, <2>6, <2>7, Zenon
<1> QED
  BY <1>1, <1>2, ModifiedIs, Zenon

\* Two surrogates of three bytes each, and a NUL of two bytes.
Pair6(m, i) ==
  /\ i + 5 <= Len(m) /\ m[i] = 237 /\ m[i + 1] \div 16 = 10
  /\ m[i + 3] = 237 /\ m[i + 4] \div 16 = 11

Nul2(m, i) == i < Len(m) /\ m[i] = 192 /\ m[i + 1] = 128

FromModifiedPieces(m) ==
  [i \in 1 .. Len(m) |->
     IF Pair6(m, i) THEN [out |-> encode4ByteUTF8(fromPair(m, i)), used |-> 6]
     ELSE IF Nul2(m, i) THEN [out |-> <<0>>, used |-> 2]
     ELSE [out |-> <<m[i]>>, used |-> 1]]

\* A pair gives four bytes.
LEMMA PairIsFour ==
  ASSUME NEW m \in ByteSeqs, NEW i \in 1 .. Len(m), i + 5 <= Len(m)
  PROVE  encode4ByteUTF8(fromPair(m, i)) \in Seq(Int)
<1>1. /\ m[i] \in Nat /\ m[i + 1] \in Nat /\ m[i + 2] \in Nat
      /\ m[i + 3] \in Nat /\ m[i + 4] \in Nat /\ m[i + 5] \in Nat
  <2>1. /\ i \in 1 .. Len(m) /\ i + 1 \in 1 .. Len(m) /\ i + 2 \in 1 .. Len(m)
        /\ i + 3 \in 1 .. Len(m) /\ i + 4 \in 1 .. Len(m) /\ i + 5 \in 1 .. Len(m)
    BY BytesAre, SMT
  <2> QED
    BY <2>1, BytesAre, Zenon
<1>2. PICK a \in Nat, b \in Nat, d \in Nat, a2 \in Nat, b2 \in Nat, d2 \in Nat :
        /\ a = m[i] /\ b = m[i + 1] /\ d = m[i + 2]
        /\ a2 = m[i + 3] /\ b2 = m[i + 4] /\ d2 = m[i + 5]
  BY <1>1, Zenon
<1>3. (i + 3) + 1 = i + 4 /\ (i + 3) + 2 = i + 5
  BY SMT
<1>4. decode3ByteUTF8(m, i) = (a % 16) * 4096 + (b % 64) * 64 + (d % 64)
  BY <1>2, SMT DEF decode3ByteUTF8
<1>5. decode3ByteUTF8(m, i + 3) = (a2 % 16) * 4096 + (b2 % 64) * 64 + (d2 % 64)
  BY <1>2, <1>3, SMT DEF decode3ByteUTF8
<1>6. PICK x \in Nat, y \in Nat : x = decode3ByteUTF8(m, i) /\ y = decode3ByteUTF8(m, i + 3)
  <2>1. /\ (a % 16) * 4096 + (b % 64) * 64 + (d % 64) \in Nat
        /\ (a2 % 16) * 4096 + (b2 % 64) * 64 + (d2 % 64) \in Nat
    BY SMT
  <2> QED
    BY <1>4, <1>5, <2>1, SMT
<1>7. PICK code \in Nat : code = fromPair(m, i)
  <2>1. 65536 + (x % 1024) * 1024 + (y % 1024) \in Nat
    BY SMT
  <2> QED
    BY <1>6, <2>1, SMT DEF fromPair
<1>8. /\ 240 + code \div 262144 \in Int /\ Bits6(code \div 4096) \in Int
      /\ Bits6(code \div 64) \in Int /\ Bits6(code) \in Int
  BY SMT DEF Bits6
<1>9. encode4ByteUTF8(code) \in Seq(Int)
  BY <1>8, SMT DEF encode4ByteUTF8
<1> QED
  BY <1>7, <1>9, Zenon

\* What the conversion back does at each place.
LEMMA FromModifiedMoves ==
  ASSUME NEW m \in ByteSeqs
  PROVE  /\ Pieces(FromModifiedPieces(m)) /\ Len(FromModifiedPieces(m)) = Len(m)
         /\ modifiedUTF8ToUTF8(m) = Written(FromModifiedPieces(m))
<1> DEFINE p == FromModifiedPieces(m)
<1>1. Len(m) \in Nat /\ \A i \in 1 .. Len(m) : m[i] \in 0 .. 255 /\ m[i] \in Nat
  BY BytesAre
<1>2. Len(p) = Len(m)
  BY <1>1 DEF FromModifiedPieces
<1>3. ASSUME NEW i \in 1 .. Len(m)
      PROVE  /\ p[i].out \in Seq(Int) /\ p[i].used \in Nat /\ p[i].used > 0
             /\ i + p[i].used <= Len(m) + 6
  <2>1. CASE Pair6(m, i)
    <3>1. p[i] = [out |-> encode4ByteUTF8(fromPair(m, i)), used |-> 6]
      BY <2>1 DEF FromModifiedPieces
    <3>2. i + 5 <= Len(m)
      BY <2>1, Zenon DEF Pair6
    <3>3. PICK x \in Seq(Int) : x = encode4ByteUTF8(fromPair(m, i))
      BY <3>2, PairIsFour, Zenon
    <3>4. p[i] = [out |-> x, used |-> 6]
      BY <3>1, <3>3, Zenon
    <3> HIDE DEF p
    <3> QED
      BY <1>1, <3>4
  <2>2. CASE ~ Pair6(m, i) /\ Nul2(m, i)
    <3>1. p[i] = [out |-> <<0>>, used |-> 2]
      BY <2>2 DEF FromModifiedPieces
    <3> HIDE DEF p
    <3> QED
      BY <1>1, <3>1
  <2>3. CASE ~ Pair6(m, i) /\ ~ Nul2(m, i)
    <3>1. p[i] = [out |-> <<m[i]>>, used |-> 1]
      BY <2>3 DEF FromModifiedPieces
    <3>2. <<m[i]>> \in Seq(Int)
      BY <1>1, OneNumber
    <3> HIDE DEF p
    <3> QED
      BY <1>1, <3>1, <3>2
  <2> QED
    BY <2>1, <2>2, <2>3
<1>4. modifiedUTF8ToUTF8(m) = Written(p)
  BY Zenon DEF modifiedUTF8ToUTF8, FromModifiedPieces, Pair6, Nul2
<1> QED
  BY <1>1, <1>2, <1>3, <1>4 DEF Pieces

\* What it writes at a place.
LEMMA FromModifiedAt ==
  ASSUME NEW s \in ByteSeqs, NEW f, WritesFrom(f, FromModifiedPieces(s)), NEW j \in 1 .. Len(s)
  PROVE  /\ Pair6(s, j) => f[j] = encode4ByteUTF8(fromPair(s, j)) \o f[j + 6]
         /\ ~ Pair6(s, j) /\ Nul2(s, j) => f[j] = <<0>> \o f[j + 2]
         /\ ~ Pair6(s, j) /\ ~ Nul2(s, j) => Copied(f, s, j)
<1> DEFINE p == FromModifiedPieces(s)
<1>1. Len(p) = Len(s)
  BY FromModifiedMoves, Zenon
<1>2. f[j] = p[j].out \o f[j + p[j].used]
  BY <1>1, Zenon DEF WritesFrom
<1>3. p[j] = IF Pair6(s, j) THEN [out |-> encode4ByteUTF8(fromPair(s, j)), used |-> 6]
             ELSE IF Nul2(s, j) THEN [out |-> <<0>>, used |-> 2]
             ELSE [out |-> <<s[j]>>, used |-> 1]
  BY Zenon DEF FromModifiedPieces
<1> HIDE DEF p
<1>4. CASE Pair6(s, j)
  <2>1. p[j].out = encode4ByteUTF8(fromPair(s, j)) /\ p[j].used = 6
    BY <1>3, <1>4
  <2> QED
    BY <1>2, <1>4, <2>1, Zenon
<1>5. CASE ~ Pair6(s, j) /\ Nul2(s, j)
  <2>1. p[j].out = <<0>> /\ p[j].used = 2
    BY <1>3, <1>5
  <2> QED
    BY <1>2, <1>5, <2>1, Zenon
<1>6. CASE ~ Pair6(s, j) /\ ~ Nul2(s, j)
  <2>1. p[j].out = <<s[j]>> /\ p[j].used = 1
    BY <1>3, <1>6
  <2> QED
    BY <1>2, <1>6, <2>1, Zenon DEF Copied
<1> QED
  BY <1>4, <1>5, <1>6, Zenon

\* A character of one unit keeps its bytes on the way back.
LEMMA BasicFromModified ==
  ASSUME NEW s \in ByteSeqs, NEW f, WritesFrom(f, FromModifiedPieces(s)), NEW i, NEW c, Character(c),
         Basic(c), Stands(s, i, Modified(c))
  PROVE  f[i + 1] = Standard(c) \o f[i + Len(Modified(c)) + 1]
<1>1. PICK b \in Seq(Int) : b = Standard(c) /\ b = Modified(c)
  BY BasicBytes, ModifiedIs, Zenon
<1>2. Len(b) \in 1 .. 3 /\ \A j \in 1 .. Len(b) : Plain(b[j]) /\ Pairless(b, j)
  BY <1>1, BasicBytes, Zenon
<1>3. Len(s) \in Nat /\ i \in Nat /\ i + Len(b) <= Len(s) /\ \A j \in 1 .. Len(b) : s[i + j] = b[j]
  BY <1>1, BytesAre, Zenon DEF Stands
<1>4. ASSUME NEW j \in 1 .. Len(b) PROVE Copied(f, s, i + j)
  <2>1. i + j \in 1 .. Len(s) /\ (i + j) + 1 = i + (j + 1) /\ (j = Len(b) \/ j + 1 \in 1 .. Len(b))
    BY <1>2, <1>3
  <2>2. ~ Nul2(s, i + j)
    <3>1. s[i + j] = b[j] /\ Plain(b[j])
      BY <1>2, <1>3, Zenon
    <3>2. s[i + j] # 192
      BY <3>1, Zenon DEF Plain
    <3> QED
      BY <3>2, Zenon DEF Nul2
  <2>3. ~ Pair6(s, i + j)
    <3>1. s[i + j] = b[j] /\ Pairless(b, j)
      BY <1>2, <1>3, Zenon
    <3>2. CASE j = Len(b)
      BY <3>1, <3>2, Zenon DEF Pairless, Pair6
    <3>3. CASE j # Len(b)
      <4>1. NoPair(b[j], b[j + 1])
        BY <3>1, <3>3, Zenon DEF Pairless
      <4>2. s[i + (j + 1)] = b[j + 1]
        BY <1>3, <2>1, <3>3, Zenon
      <4>3. s[(i + j) + 1] = b[j + 1]
        BY <2>1, <4>2, Zenon
      <4> QED
        BY <3>1, <4>1, <4>3, Zenon DEF NoPair, Pair6
    <3> QED
      BY <3>2, <3>3, Zenon
  <2> QED
    BY <2>1, <2>2, <2>3, FromModifiedAt, Zenon
<1>5. f \in [1 .. Len(s) + 6 -> Seq(Int)]
  BY FromModifiedMoves, Zenon DEF WritesFrom
<1>8. Stands(s, i, b)
  BY <1>1, Zenon
<1>7. Len(b) \in 1 .. 3
  BY <1>2, Zenon
<1>6. f[i + 1] = b \o f[i + Len(b) + 1]
  BY <1>7, <1>4, <1>5, <1>8, GroupCopied, SMT
<1> QED
  BY <1>1, <1>6, Zenon

\* What three bytes stand for.
Value3(a, b, d) == (a % 16) * 4096 + (b % 64) * 64 + (d % 64)

\* A unit of a pair as three bytes, which give it back.
LEMMA UnitThree ==
  ASSUME NEW u, PairUnit(u)
  PROVE  \E b, d \in Nat :
            /\ Three(encode3ByteUTF8(u), 237, b, d) /\ Value3(237, b, d) = u
            /\ HighSub(u) => b \div 16 = 10
            /\ LowSub(u) => b \div 16 = 11
<1>0. u \in Nat /\ 55296 <= u /\ u <= 57343
  BY SMT DEF PairUnit
<1>1. PICK b \in Nat, d \in Nat :
        /\ encode3ByteUTF8(u) = <<237, b, d>>
        /\ b \div 16 = (IF u <= 56319 THEN 10 ELSE 11)
        /\ 13 * 4096 + (b % 64) * 64 + (d % 64) = u
  BY <1>0, UnitBytes, SMT
<1>2. HighSub(u) => u <= 56319
  BY <1>0, SMT DEF HighSub
<1>3. LowSub(u) => ~ (u <= 56319)
  BY <1>0, SMT DEF LowSub
<1>4. (HighSub(u) => b \div 16 = 10) /\ (LowSub(u) => b \div 16 = 11)
  BY <1>1, <1>2, <1>3, SMT
<1>5. Value3(237, b, d) = u
  BY <1>1, SMT DEF Value3
<1>6. Three(<<237, b, d>>, 237, b, d)
  <2>1. 237 \in Nat
    BY SMT
  <2> QED
    BY <2>1, ThreeNumbers, SMT
<1>7. encode3ByteUTF8(u) = <<237, b, d>>
  BY <1>1, SMT
<1>8. Three(encode3ByteUTF8(u), 237, b, d)
  BY <1>6, <1>7, Zenon
<1> QED
  BY <1>4, <1>5, <1>8, Zenon

\* What a pair of units stands for, and its encoding.
LEMMA PairValue ==
  ASSUME NEW c, Character(c), Supplementary(c)
  PROVE  /\ 65536 + (High(c) % 1024) * 1024 + (Low(c) % 1024) = c
         /\ encode4ByteUTF8(c) = Standard(c)
<1>1. c \in Nat /\ c <= 1114111 /\ c >= 65536
  BY SMT DEF Character, Supplementary
<1>2. 65536 + (High(c) % 1024) * 1024 + (Low(c) % 1024) = c
  BY <1>1, UnitsOf, SMT
<1>3. encode4ByteUTF8(c) = Standard(c)
  BY <1>1, SMT DEF Standard, Six, Bits6, encode4ByteUTF8
<1> QED
  BY <1>2, <1>3, SMT

\* Six bytes behind a place.
SixAt(s, i, a, b, d, a2, b2, d2) ==
  /\ i \in Nat /\ i + 6 <= Len(s)
  /\ s[i + 1] = a /\ s[i + 2] = b /\ s[i + 3] = d
  /\ s[i + 4] = a2 /\ s[i + 5] = b2 /\ s[i + 6] = d2

\* Two groups of three, place by place.
LEMMA SixPlaces ==
  ASSUME NEW x, NEW y, NEW a, NEW b, NEW d, NEW a2, NEW b2, NEW d2, NEW s, NEW i,
         Three(x, a, b, d), Three(y, a2, b2, d2), Len(s) \in Nat, Stands(s, i, x \o y)
  PROVE  Len(x \o y) = 6 /\ SixAt(s, i, a, b, d, a2, b2, d2)
<1>1. /\ x \in Seq(Int) /\ Len(x) = 3 /\ x[1] = a /\ x[2] = b /\ x[3] = d
      /\ y \in Seq(Int) /\ Len(y) = 3 /\ y[1] = a2 /\ y[2] = b2 /\ y[3] = d2
      /\ 1 \in 1 .. Len(x) /\ 2 \in 1 .. Len(x) /\ 3 \in 1 .. Len(x)
      /\ 1 \in 1 .. Len(y) /\ 2 \in 1 .. Len(y) /\ 3 \in 1 .. Len(y)
  BY Zenon DEF Three
<1>2. PICK t : t = x \o y
  OBVIOUS
<1>3. Len(t) = Len(x) + Len(y)
  BY <1>1, <1>2, JoinNumbers, Zenon
<1>4. /\ Len(t) = 6 /\ Len(x) + 1 = 4 /\ Len(x) + 2 = 5 /\ Len(x) + 3 = 6
  BY <1>1, <1>3
<1>5. /\ t[1] = a /\ t[2] = b /\ t[3] = d
  BY <1>1, <1>2, JoinPlaces, Zenon
<1>6. /\ t[Len(x) + 1] = a2 /\ t[Len(x) + 2] = b2 /\ t[Len(x) + 3] = d2
  BY <1>1, <1>2, JoinPlaces, Zenon
<1>7. t[4] = a2 /\ t[5] = b2 /\ t[6] = d2
  BY <1>4, <1>6, Zenon
<1>8. i \in Nat /\ i + Len(t) <= Len(s) /\ \A j \in 1 .. Len(t) : s[i + j] = t[j]
  BY <1>2, Zenon DEF Stands
<1>9. /\ 1 \in 1 .. Len(t) /\ 2 \in 1 .. Len(t) /\ 3 \in 1 .. Len(t)
      /\ 4 \in 1 .. Len(t) /\ 5 \in 1 .. Len(t) /\ 6 \in 1 .. Len(t)
  BY <1>4
<1>10. /\ s[i + 1] = a /\ s[i + 2] = b /\ s[i + 3] = d
       /\ s[i + 4] = a2 /\ s[i + 5] = b2 /\ s[i + 6] = d2
  BY <1>5, <1>7, <1>8, <1>9, Zenon
<1> QED
  BY <1>2, <1>4, <1>8, <1>10, Zenon DEF SixAt

\* A supplementary character comes back from its two groups.
LEMMA SupplementaryFromModified ==
  ASSUME NEW s \in ByteSeqs, NEW f, WritesFrom(f, FromModifiedPieces(s)), NEW i, NEW c, Character(c),
         Supplementary(c), Stands(s, i, Modified(c))
  PROVE  f[i + 1] = Standard(c) \o f[i + Len(Modified(c)) + 1]
<1>0. Len(s) \in Nat
  BY BytesAre, Zenon
<1>1. PICK h, l : /\ h = High(c) /\ l = Low(c) /\ PairUnit(h) /\ PairUnit(l)
                  /\ HighSub(h) /\ LowSub(l)
  BY PairOf, Zenon
<1>2. PICK b \in Nat, d \in Nat :
        Three(encode3ByteUTF8(h), 237, b, d) /\ Value3(237, b, d) = h /\ b \div 16 = 10
  BY <1>1, UnitThree, Zenon
<1>3. PICK b2 \in Nat, d2 \in Nat :
        Three(encode3ByteUTF8(l), 237, b2, d2) /\ Value3(237, b2, d2) = l /\ b2 \div 16 = 11
  BY <1>1, UnitThree, Zenon
<1>4. Modified(c) = encode3ByteUTF8(h) \o encode3ByteUTF8(l)
  BY <1>1, ModifiedIs, Zenon
<1>5. /\ i \in Nat /\ Len(Modified(c)) = 6 /\ i + 6 <= Len(s)
      /\ s[i + 1] = 237 /\ s[i + 2] = b /\ s[i + 3] = d
      /\ s[i + 4] = 237 /\ s[i + 5] = b2 /\ s[i + 6] = d2
  <2>1. PICK x, y, k : x = encode3ByteUTF8(h) /\ y = encode3ByteUTF8(l) /\ k = 237
    OBVIOUS
  <2>2. Three(x, k, b, d) /\ Three(y, k, b2, d2) /\ Stands(s, i, x \o y)
    BY <1>2, <1>3, <1>4, <2>1, Zenon
  <2>3. Len(x \o y) = 6 /\ SixAt(s, i, k, b, d, k, b2, d2)
    BY <1>0, <2>2, SixPlaces, Zenon
  <2>4. Modified(c) = x \o y
    BY <1>4, <2>1, Zenon
  <2> QED
    BY <2>1, <2>3, <2>4, Zenon DEF SixAt
<1>6. /\ i + 1 \in 1 .. Len(s) /\ (i + 1) + 5 <= Len(s)
      /\ (i + 1) + 1 = i + 2 /\ (i + 1) + 2 = i + 3 /\ (i + 1) + 3 = i + 4
      /\ (i + 1) + 4 = i + 5 /\ (i + 4) + 1 = i + 5 /\ (i + 4) + 2 = i + 6 /\ (i + 1) + 6 = i + 6 + 1
  BY <1>0, <1>5, SMT
<1>7. Pair6(s, i + 1)
  BY <1>2, <1>3, <1>5, <1>6, ZenonT(40) DEF Pair6
<1>8. fromPair(s, i + 1) = c
  <2>1. decode3ByteUTF8(s, i + 1) = Value3(s[i + 1], s[(i + 1) + 1], s[(i + 1) + 2])
    BY SMT DEF decode3ByteUTF8, Value3
  <2>2. decode3ByteUTF8(s, i + 4) = Value3(s[i + 4], s[(i + 4) + 1], s[(i + 4) + 2])
    BY SMT DEF decode3ByteUTF8, Value3
  <2>3. decode3ByteUTF8(s, i + 1) = h
    BY <1>2, <1>5, <1>6, <2>1, Zenon
  <2>4. decode3ByteUTF8(s, i + 4) = l
    BY <1>3, <1>5, <1>6, <2>2, Zenon
  <2>5. decode3ByteUTF8(s, (i + 1) + 3) = l
    BY <1>6, <2>4, Zenon
  <2>6. 65536 + (h % 1024) * 1024 + (l % 1024) = c
    BY <1>1, PairValue, SMT
  <2> QED
    BY <2>3, <2>5, <2>6, SMT DEF fromPair
<1>9. encode4ByteUTF8(c) = Standard(c)
  BY PairValue, SMT
<1>10. f[i + 1] = encode4ByteUTF8(fromPair(s, i + 1)) \o f[(i + 1) + 6]
  BY <1>6, <1>7, FromModifiedAt, Zenon
<1> QED
  BY <1>5, <1>6, <1>8, <1>9, <1>10, Zenon

\* And a NUL from its two bytes.
LEMMA FromModified ==
  ASSUME NEW s \in ByteSeqs, NEW f, WritesFrom(f, FromModifiedPieces(s)), NEW i, NEW c, Character(c),
         Stands(s, i, Modified(c))
  PROVE  f[i + 1] = Standard(c) \o f[i + Len(Modified(c)) + 1]
<1>1. CASE c = 0
  <2>1. Standard(c) = <<0>>
    BY <1>1, SMT DEF Standard
  <2>2. Modified(c) = <<192, 128>>
    BY <1>1, ModifiedIs, Zenon
  <2>3. PICK t : t = Modified(c)
    OBVIOUS
  <2>4. Len(t) = 2 /\ t[1] = 192 /\ t[2] = 128
    BY <2>2, <2>3, SMT
  <2>5. /\ Len(s) \in Nat /\ i \in Nat /\ i + Len(t) <= Len(s) /\ \A j \in 1 .. Len(t) : s[i + j] = t[j]
    BY <2>3, BytesAre, Zenon DEF Stands
  <2>6. 1 \in 1 .. Len(t) /\ 2 \in 1 .. Len(t) /\ i + 1 \in 1 .. Len(s) /\ i + 1 < Len(s)
    BY <2>4, <2>5, SMT
  <2>7. (i + 1) + 1 = i + 2 /\ (i + 1) + 2 = i + Len(t) + 1
    BY <2>4, <2>5, SMT
  <2>8. s[i + 1] = 192 /\ s[(i + 1) + 1] = 128
    <3>1. s[i + 1] = t[1] /\ s[i + 2] = t[2]
      BY <2>5, <2>6, Zenon
    <3> QED
      BY <2>4, <2>7, <3>1, SMT
  <2>9. ~ Pair6(s, i + 1) /\ Nul2(s, i + 1)
    BY <2>6, <2>8, SMT DEF Pair6, Nul2
  <2>10. f[i + 1] = <<0>> \o f[(i + 1) + 2]
    BY <2>6, <2>9, FromModifiedAt, Zenon
  <2> QED
    BY <2>1, <2>3, <2>7, <2>10, Zenon
<1>2. CASE Basic(c)
  BY <1>2, BasicFromModified, SMT
<1>3. CASE Supplementary(c)
  BY <1>3, SupplementaryFromModified, SMT
<1> QED
  BY <1>1, <1>2, <1>3, ModifiedIs, Zenon

\* A text, and the encodings of its characters one by one.
Text(t) == t \in Seq(Nat) /\ \A k \in 1 .. Len(t) : Character(t[k])

StandardOf(t) == [k \in DOMAIN t |-> Standard(t[k])]
ModifiedOf(t) == [k \in DOMAIN t |-> Modified(t[k])]
UnitListOf(t) == [k \in DOMAIN t |-> Units16(t[k])]

\* Numbers of a set make a sequence of it.
LEMMA MembersMake ==
  ASSUME NEW T, NEW x \in Seq(Int), \A j \in 1 .. Len(x) : x[j] \in T
  PROVE  x \in Seq(T)
  OBVIOUS

\* Sequences of a set joined.
LEMMA JoinOf ==
  ASSUME NEW T, NEW x \in Seq(T), NEW y \in Seq(T)
  PROVE  x \o y \in Seq(T)
  OBVIOUS

\* The encodings of a character are bytes, its units numbers.
LEMMA CharacterBytes ==
  ASSUME NEW c, Character(c)
  PROVE  Standard(c) \in ByteSeqs /\ Modified(c) \in ByteSeqs /\ Units16(c) \in Seq(Nat)
<1>0. c \in Nat
  BY SMT DEF Character
<1>1. PICK B : B = 0 .. 255
  OBVIOUS
<1>2. Standard(c) \in Seq(B)
  <2>1. PICK x \in Seq(Int) : x = Standard(c)
    BY StandardBytes, Zenon
  <2>2. \A j \in 1 .. Len(x) : x[j] \in B
    BY <1>1, <2>1, StandardBytes, Zenon
  <2>3. x \in Seq(B)
    BY <2>2, MembersMake, Zenon
  <2> QED
    BY <2>1, <2>3, Zenon
<1>3. CASE c = 0
  <2>1. Modified(c) = <<192, 128>>
    BY <1>3, ModifiedIs, Zenon
  <2>2. <<192, 128>> \in Seq(B)
    BY <1>1, SMT
  <2>3. Units16(c) = <<c>>
    BY <1>3, SMT DEF Units16
  <2>4. <<c>> \in Seq(Nat)
    BY <1>0
  <2> QED
    BY <1>1, <1>2, <2>1, <2>2, <2>3, <2>4, Zenon DEF ByteSeqs
<1>4. CASE Basic(c)
  <2>1. Modified(c) = Standard(c) /\ Units16(c) = <<c>>
    BY <1>4, ModifiedIs, Zenon
  <2>2. <<c>> \in Seq(Nat)
    BY <1>0
  <2> QED
    BY <1>1, <1>2, <2>1, <2>2, Zenon DEF ByteSeqs
<1>5. CASE Supplementary(c)
  <2>1. PICK h \in Nat, l \in Nat : /\ h = High(c) /\ l = Low(c) /\ PairUnit(h) /\ PairUnit(l)
                                    /\ Units16(c) = <<h, l>>
    BY <1>5, PairOf, Zenon
  <2>2. \A u : PairUnit(u) => encode3ByteUTF8(u) \in Seq(B)
    <3> TAKE u
    <3> HAVE PairUnit(u)
    <3>1. u \in Nat /\ 55296 <= u /\ u <= 57343
      BY SMT DEF PairUnit
    <3>2. PICK b \in Nat, d \in Nat : encode3ByteUTF8(u) = <<237, b, d>> /\ Goes(b) /\ Goes(d)
      BY <3>1, UnitBytes, SMT
    <3>3. 237 \in B /\ b \in B /\ d \in B
      BY <1>1, <3>2, SMT DEF Goes
    <3>4. <<237, b, d>> \in Seq(B)
      <4>1. PICK a \in B : a = 237
        BY <3>3, Zenon
      <4>2. <<a, b, d>> \in Seq(B)
        BY <3>3
      <4> QED
        BY <4>1, <4>2, Zenon
    <3> QED
      BY <3>2, <3>4, Zenon
  <2>3. encode3ByteUTF8(h) \in Seq(B) /\ encode3ByteUTF8(l) \in Seq(B)
    BY <2>1, <2>2, Zenon
  <2>4. encode3ByteUTF8(h) \o encode3ByteUTF8(l) \in Seq(B)
    BY <2>3, JoinOf, Zenon
  <2>5. Modified(c) = encode3ByteUTF8(h) \o encode3ByteUTF8(l)
    BY <1>5, <2>1, ModifiedIs, Zenon
  <2>6. <<h, l>> \in Seq(Nat)
    OBVIOUS
  <2> QED
    BY <1>1, <1>2, <2>1, <2>4, <2>5, <2>6, Zenon DEF ByteSeqs
<1> QED
  BY <1>3, <1>4, <1>5, ModifiedIs, Zenon

\* Joined, they stay in the set.
LEMMA JoinsIn ==
  ASSUME NEW T, NEW A, NEW F, Lists(A), Joins(F, A), \A k \in 1 .. Len(A) : A[k] \in Seq(T)
  PROVE  \A k \in 0 .. Len(A) : F[k] \in Seq(T)
<1> DEFINE n == Len(A)
           S == {k \in 0 .. n : F[k] \in Seq(T)}
<1>1. n \in Nat /\ F[0] = <<>> /\ \A k \in 1 .. n : F[k] = F[k - 1] \o A[k]
  BY Zenon DEF Lists, Joins
<1>2. 0 \in S
  <2>1. <<>> \in Seq(T) /\ 0 \in 0 .. n
    BY <1>1
  <2> QED
    BY <1>1, <2>1, Zenon
<1>3. ASSUME NEW k \in 1 .. n, k - 1 \in S PROVE k \in S
  <2>1. F[k - 1] \in Seq(T) /\ A[k] \in Seq(T) /\ F[k] = F[k - 1] \o A[k]
    BY <1>1, <1>3, Zenon
  <2>2. F[k] \in Seq(T)
    BY <2>1, JoinOf, Zenon
  <2>3. k \in 0 .. n
    BY <1>1
  <2> QED
    BY <2>2, <2>3, Zenon
<1>4. \A k \in 0 .. n : k \in S
  <2> HIDE DEF S, n
  <2> QED
    BY <1>1, <1>2, <1>3, Upward
<1> QED
  BY <1>4, Zenon

\* Such a list of a text.
LEMMA ListOf ==
  ASSUME NEW t \in Seq(Nat), NEW A, NEW T, A = [k \in DOMAIN t |-> A[k]],
         \A k \in 1 .. Len(t) : A[k] \in Seq(T), T \subseteq Int
  PROVE  /\ Len(A) = Len(t) /\ Lists(A) /\ (Len(A) = 0 => A = <<>>)
         /\ \A k \in 1 .. Len(A) : A[k] \in Seq(T)
<1>1. Len(t) \in Nat /\ DOMAIN t = 1 .. Len(t)
  OBVIOUS
<1>2. A \in Seq(Seq(T))
  <2>1. A = [k \in 1 .. Len(t) |-> A[k]]
    BY <1>1, Zenon
  <2>2. A \in [1 .. Len(t) -> Seq(T)]
    BY <2>1, Zenon
  <2> QED
    BY <1>1, <2>2
<1>3. Len(A) = Len(t)
  BY <1>1
<1>4. Len(A) = 0 => A = <<>>
  BY <1>2
<1>5. \A x \in Seq(T) : x \in Seq(Int)
  OBVIOUS
<1> QED
  BY <1>1, <1>3, <1>4, <1>5, Zenon DEF Lists

\* The lists of a text.
LEMMA TextLists ==
  ASSUME NEW t, Text(t)
  PROVE  /\ Len(StandardOf(t)) = Len(t) /\ Lists(StandardOf(t))
         /\ Len(StandardOf(t)) = 0 => StandardOf(t) = <<>>
         /\ Len(ModifiedOf(t)) = Len(t) /\ Lists(ModifiedOf(t))
         /\ Len(ModifiedOf(t)) = 0 => ModifiedOf(t) = <<>>
         /\ Len(UnitListOf(t)) = Len(t) /\ Lists(UnitListOf(t))
         /\ Len(UnitListOf(t)) = 0 => UnitListOf(t) = <<>>
         /\ \A k \in 1 .. Len(t) : /\ StandardOf(t)[k] = Standard(t[k]) /\ StandardOf(t)[k] \in ByteSeqs
                                   /\ ModifiedOf(t)[k] = Modified(t[k]) /\ ModifiedOf(t)[k] \in ByteSeqs
                                   /\ UnitListOf(t)[k] = Units16(t[k]) /\ UnitListOf(t)[k] \in Seq(Nat)
                                   /\ Character(t[k])
<1>1. t \in Seq(Nat) /\ \A k \in 1 .. Len(t) : Character(t[k])
  BY Zenon DEF Text
<1>2. DOMAIN t = 1 .. Len(t)
  BY <1>1
<1>3. PICK B : B = 0 .. 255
  OBVIOUS
<1>4. B \subseteq Int /\ Nat \subseteq Int /\ ByteSeqs = Seq(B)
  BY <1>3, SMT DEF ByteSeqs
<1>5. PICK A : A = StandardOf(t)
  OBVIOUS
<1>6. PICK M : M = ModifiedOf(t)
  OBVIOUS
<1>7. PICK U : U = UnitListOf(t)
  OBVIOUS
<1>8. /\ A = [k \in DOMAIN t |-> A[k]] /\ M = [k \in DOMAIN t |-> M[k]] /\ U = [k \in DOMAIN t |-> U[k]]
      /\ \A k \in 1 .. Len(t) : /\ A[k] = Standard(t[k]) /\ M[k] = Modified(t[k])
                                /\ U[k] = Units16(t[k])
  BY <1>2, <1>5, <1>6, <1>7, Zenon DEF StandardOf, ModifiedOf, UnitListOf
<1>9. \A k \in 1 .. Len(t) : A[k] \in Seq(B) /\ M[k] \in Seq(B) /\ U[k] \in Seq(Nat)
  BY <1>1, <1>4, <1>8, CharacterBytes, Zenon
<1>10. Len(A) = Len(t) /\ Lists(A) /\ (Len(A) = 0 => A = <<>>)
  BY <1>1, <1>4, <1>8, <1>9, ListOf, Zenon
<1>11. Len(M) = Len(t) /\ Lists(M) /\ (Len(M) = 0 => M = <<>>)
  BY <1>1, <1>4, <1>8, <1>9, ListOf, Zenon
<1>12. Len(U) = Len(t) /\ Lists(U) /\ (Len(U) = 0 => U = <<>>)
  BY <1>1, <1>4, <1>8, <1>9, ListOf, Zenon
<1> QED
  BY <1>1, <1>4, <1>5, <1>6, <1>7, <1>8, <1>9, <1>10, <1>11, <1>12, Zenon

\* Encoded texts are what the lists join.
LEMMA EncodedIs ==
  ASSUME NEW t
  PROVE  /\ Encoded(t, Standard) = FlattenSeq(StandardOf(t))
         /\ Encoded(t, Modified) = FlattenSeq(ModifiedOf(t))
         /\ Encoded(t, Units16) = FlattenSeq(UnitListOf(t))
  BY Zenon DEF Encoded, StandardOf, ModifiedOf, UnitListOf

\* They are bytes, and numbers.
LEMMA JoinedBytes ==
  ASSUME NEW A, NEW F, Lists(A), Joins(F, A), \A k \in 1 .. Len(A) : A[k] \in ByteSeqs
  PROVE  \A k \in 0 .. Len(A) : F[k] \in ByteSeqs
<1>1. PICK B : B = 0 .. 255
  OBVIOUS
<1>2. ByteSeqs = Seq(B)
  BY <1>1, Zenon DEF ByteSeqs
<1> QED
  BY <1>2, JoinsIn, Zenon

\* A text in standard UTF-8 becomes the same text in modified UTF-8.
LEMMA TextToModified ==
  ASSUME NEW t, Text(t)
  PROVE  /\ utf8ToModifiedUTF8(Encoded(t, Standard)) = Encoded(t, Modified)
         /\ Encoded(t, Standard) \in ByteSeqs
<1>1. PICK A, B : A = StandardOf(t) /\ B = ModifiedOf(t)
  OBVIOUS
<1>2. /\ Len(A) = Len(t) /\ Lists(A) /\ (Len(A) = 0 => A = <<>>)
      /\ Len(B) = Len(t) /\ Lists(B) /\ (Len(B) = 0 => B = <<>>)
      /\ \A k \in 1 .. Len(t) : /\ A[k] = Standard(t[k]) /\ A[k] \in ByteSeqs
                                /\ B[k] = Modified(t[k]) /\ Character(t[k])
  BY <1>1, TextLists, Zenon
<1>3. PICK F : Joins(F, A) /\ FlattenSeq(A) = F[Len(A)]
  BY <1>2, FlattenJoins, Zenon
<1>4. PICK s : s = F[Len(A)]
  OBVIOUS
<1>5. s \in ByteSeqs
  <2>1. \A k \in 0 .. Len(A) : F[k] \in ByteSeqs
    BY <1>2, <1>3, JoinedBytes, Zenon
  <2>2. Len(A) \in 0 .. Len(A)
    BY <1>2 DEF Lists
  <2> QED
    BY <1>4, <2>1, <2>2, Zenon
<1>6. PICK p : p = ToModifiedPieces(s)
  OBVIOUS
<1>7. Pieces(p) /\ Len(p) = Len(s) /\ utf8ToModifiedUTF8(s) = Written(p)
  BY <1>5, <1>6, ToModifiedMoves, Zenon
<1>8. PICK f : WritesFrom(f, p) /\ Written(p) = f[1]
  BY <1>7, LoopWrites, Zenon
<1>9. ASSUME NEW k \in 1 .. Len(A) PROVE f[Len(F[k - 1]) + 1] = B[k] \o f[Len(F[k]) + 1]
  <2>1. PICK i, c : i = Len(F[k - 1]) /\ c = t[k]
    OBVIOUS
  <2>2. Len(F[k]) = i + Len(A[k]) /\ Stands(s, i, A[k])
    BY <1>2, <1>3, <1>4, <2>1, MembersStand, Zenon
  <2>3. A[k] = Standard(c) /\ B[k] = Modified(c) /\ Character(c)
    BY <1>2, <2>1, Zenon
  <2>4. Stands(s, i, Standard(c)) /\ Len(F[k]) = i + Len(Standard(c))
    BY <2>2, <2>3, Zenon
  <2>5. WritesFrom(f, ToModifiedPieces(s))
    BY <1>6, <1>8, Zenon
  <2>6. f[i + 1] = Modified(c) \o f[i + Len(Standard(c)) + 1]
    BY <1>5, <2>3, <2>4, <2>5, ToModified, SMT
  <2> QED
    BY <2>1, <2>3, <2>4, <2>6, Zenon
<1>10. f[1] = FlattenSeq(B)
  <2>1. Len(A) = Len(B) /\ Len(p) = Len(F[Len(A)])
    BY <1>2, <1>4, <1>7, Zenon
  <2>2. Translation(A, B, F, p, f)
    BY <1>2, <1>3, <1>7, <1>8, <1>9, <2>1, Zenon DEF Translation
  <2> QED
    BY <2>2, LoopTranslates, Zenon
<1> QED
  BY <1>1, <1>3, <1>4, <1>5, <1>7, <1>8, <1>10, EncodedIs, Zenon

\* And back.
LEMMA TextFromModified ==
  ASSUME NEW t, Text(t)
  PROVE  modifiedUTF8ToUTF8(Encoded(t, Modified)) = Encoded(t, Standard)
<1>1. PICK A, B : A = ModifiedOf(t) /\ B = StandardOf(t)
  OBVIOUS
<1>2. /\ Len(A) = Len(t) /\ Lists(A) /\ (Len(A) = 0 => A = <<>>)
      /\ Len(B) = Len(t) /\ Lists(B) /\ (Len(B) = 0 => B = <<>>)
      /\ \A k \in 1 .. Len(t) : /\ A[k] = Modified(t[k]) /\ A[k] \in ByteSeqs
                                /\ B[k] = Standard(t[k]) /\ Character(t[k])
  BY <1>1, TextLists, Zenon
<1>3. PICK F : Joins(F, A) /\ FlattenSeq(A) = F[Len(A)]
  BY <1>2, FlattenJoins, Zenon
<1>4. PICK s : s = F[Len(A)]
  OBVIOUS
<1>5. s \in ByteSeqs
  <2>1. \A k \in 0 .. Len(A) : F[k] \in ByteSeqs
    BY <1>2, <1>3, JoinedBytes, Zenon
  <2>2. Len(A) \in 0 .. Len(A)
    BY <1>2 DEF Lists
  <2> QED
    BY <1>4, <2>1, <2>2, Zenon
<1>6. PICK p : p = FromModifiedPieces(s)
  OBVIOUS
<1>7. Pieces(p) /\ Len(p) = Len(s) /\ modifiedUTF8ToUTF8(s) = Written(p)
  BY <1>5, <1>6, FromModifiedMoves, Zenon
<1>8. PICK f : WritesFrom(f, p) /\ Written(p) = f[1]
  BY <1>7, LoopWrites, Zenon
<1>9. ASSUME NEW k \in 1 .. Len(A) PROVE f[Len(F[k - 1]) + 1] = B[k] \o f[Len(F[k]) + 1]
  <2>1. PICK i, c : i = Len(F[k - 1]) /\ c = t[k]
    OBVIOUS
  <2>2. Len(F[k]) = i + Len(A[k]) /\ Stands(s, i, A[k])
    BY <1>2, <1>3, <1>4, <2>1, MembersStand, Zenon
  <2>3. A[k] = Modified(c) /\ B[k] = Standard(c) /\ Character(c)
    BY <1>2, <2>1, Zenon
  <2>4. Stands(s, i, Modified(c)) /\ Len(F[k]) = i + Len(Modified(c))
    BY <2>2, <2>3, Zenon
  <2>5. WritesFrom(f, FromModifiedPieces(s))
    BY <1>6, <1>8, Zenon
  <2>6. f[i + 1] = Standard(c) \o f[i + Len(Modified(c)) + 1]
    BY <1>5, <2>3, <2>4, <2>5, FromModified, SMT
  <2> QED
    BY <2>1, <2>3, <2>4, <2>6, Zenon
<1>10. f[1] = FlattenSeq(B)
  <2>1. Len(A) = Len(B) /\ Len(p) = Len(F[Len(A)])
    BY <1>2, <1>4, <1>7, Zenon
  <2>2. Translation(A, B, F, p, f)
    BY <1>2, <1>3, <1>7, <1>8, <1>9, <2>1, Zenon DEF Translation
  <2> QED
    BY <2>2, LoopTranslates, Zenon
<1> QED
  BY <1>1, <1>3, <1>4, <1>7, <1>8, <1>10, EncodedIs, Zenon

\* A text in UTF-16 becomes the same text in standard UTF-8.
LEMMA TextFromUnits ==
  ASSUME NEW t, Text(t)
  PROVE  utf16toUTF8(Encoded(t, Units16)) = Encoded(t, Standard) /\ Encoded(t, Units16) \in Seq(Nat)
<1>1. PICK A, B : A = UnitListOf(t) /\ B = StandardOf(t)
  OBVIOUS
<1>2. /\ Len(A) = Len(t) /\ Lists(A) /\ (Len(A) = 0 => A = <<>>)
      /\ Len(B) = Len(t) /\ Lists(B) /\ (Len(B) = 0 => B = <<>>)
      /\ \A k \in 1 .. Len(t) : /\ A[k] = Units16(t[k]) /\ A[k] \in Seq(Nat)
                                /\ B[k] = Standard(t[k]) /\ Character(t[k])
  BY <1>1, TextLists, Zenon
<1>3. PICK F : Joins(F, A) /\ FlattenSeq(A) = F[Len(A)]
  BY <1>2, FlattenJoins, Zenon
<1>4. PICK s : s = F[Len(A)]
  OBVIOUS
<1>5. s \in Seq(Nat)
  <2>1. \A k \in 0 .. Len(A) : F[k] \in Seq(Nat)
    BY <1>2, <1>3, JoinsIn, Zenon
  <2>2. Len(A) \in 0 .. Len(A)
    BY <1>2 DEF Lists
  <2> QED
    BY <1>4, <2>1, <2>2, Zenon
<1>6. PICK p : p = FromUnitsPieces(s)
  OBVIOUS
<1>7. Pieces(p) /\ Len(p) = Len(s) /\ utf16toUTF8(s) = Written(p)
  BY <1>5, <1>6, FromUnitsMoves, Zenon
<1>8. PICK f : WritesFrom(f, p) /\ Written(p) = f[1]
  BY <1>7, LoopWrites, Zenon
<1>9. ASSUME NEW k \in 1 .. Len(A) PROVE f[Len(F[k - 1]) + 1] = B[k] \o f[Len(F[k]) + 1]
  <2>1. PICK i, c : i = Len(F[k - 1]) /\ c = t[k]
    OBVIOUS
  <2>2. Len(F[k]) = i + Len(A[k]) /\ Stands(s, i, A[k])
    BY <1>2, <1>3, <1>4, <2>1, MembersStand, Zenon
  <2>3. A[k] = Units16(c) /\ B[k] = Standard(c) /\ Character(c)
    BY <1>2, <2>1, Zenon
  <2>4. Stands(s, i, Units16(c)) /\ Len(F[k]) = i + Len(Units16(c))
    BY <2>2, <2>3, Zenon
  <2>5. WritesFrom(f, FromUnitsPieces(s))
    BY <1>6, <1>8, Zenon
  <2>6. f[i + 1] = Standard(c) \o f[i + Len(Units16(c)) + 1]
    BY <1>5, <2>3, <2>4, <2>5, FromUnits, SMT
  <2> QED
    BY <2>1, <2>3, <2>4, <2>6, Zenon
<1>10. f[1] = FlattenSeq(B)
  <2>1. Len(A) = Len(B) /\ Len(p) = Len(F[Len(A)])
    BY <1>2, <1>4, <1>7, Zenon
  <2>2. Translation(A, B, F, p, f)
    BY <1>2, <1>3, <1>7, <1>8, <1>9, <2>1, Zenon DEF Translation
  <2> QED
    BY <2>2, LoopTranslates, Zenon
<1> QED
  BY <1>1, <1>3, <1>4, <1>5, <1>7, <1>8, <1>10, EncodedIs, Zenon

\* Lists that start alike join alike.
LEMMA JoinsAgree ==
  ASSUME NEW A, NEW F, NEW B, NEW G, Lists(A), Joins(F, A), Lists(B), Joins(G, B), Len(B) <= Len(A),
         \A k \in 1 .. Len(B) : B[k] = A[k]
  PROVE  \A k \in 0 .. Len(B) : G[k] = F[k]
<1> DEFINE n == Len(B)
           S == {k \in 0 .. n : G[k] = F[k]}
<1>1. /\ n \in Nat /\ Len(A) \in Nat
      /\ F[0] = <<>> /\ \A k \in 1 .. Len(A) : F[k] = F[k - 1] \o A[k]
      /\ G[0] = <<>> /\ \A k \in 1 .. n : G[k] = G[k - 1] \o B[k]
  BY Zenon DEF Lists, Joins
<1>2. 0 \in S
  <2>1. 0 \in 0 .. n
    BY <1>1
  <2> QED
    BY <1>1, <2>1, Zenon
<1>3. ASSUME NEW k \in 1 .. n, k - 1 \in S PROVE k \in S
  <2>1. k \in 0 .. n /\ k \in 1 .. Len(A)
    BY <1>1
  <2>2. G[k - 1] = F[k - 1] /\ B[k] = A[k]
    BY <1>3, Zenon
  <2>3. G[k] = F[k]
    BY <1>1, <2>1, <2>2, Zenon
  <2> QED
    BY <2>1, <2>3, Zenon
<1>4. \A k \in 0 .. n : k \in S
  <2> HIDE DEF S, n
  <2> QED
    BY <1>1, <1>2, <1>3, Upward
<1> QED
  BY <1>4, Zenon

\* What the first members join is how the whole begins.
LEMMA JoinsBegin ==
  ASSUME NEW A, NEW F, Lists(A), Joins(F, A), NEW l \in 0 .. Len(A)
  PROVE  /\ Len(F[l]) \in 0 .. Len(F[Len(A)])
         /\ \A j \in 1 .. Len(F[l]) : F[Len(A)][j] = F[l][j]
<1> DEFINE n == Len(A)
           Begins(x, y) == Len(x) <= Len(y) /\ \A j \in 1 .. Len(x) : y[j] = x[j]
           S == {k \in 0 .. n : k >= l => Begins(F[l], F[k])}
<1>1. /\ n \in Nat /\ \A k \in 1 .. n : A[k] \in Seq(Int)
      /\ F \in [0 .. n -> Seq(Int)] /\ \A k \in 1 .. n : F[k] = F[k - 1] \o A[k]
  BY Zenon DEF Lists, Joins
<1>2. F[l] \in Seq(Int) /\ Len(F[l]) \in Nat /\ l \in Nat /\ l <= n
  BY <1>1
<1>3. Begins(F[l], F[l])
  BY <1>2
<1>4. 0 \in S
  <2>1. 0 \in 0 .. n /\ (0 >= l => l = 0)
    BY <1>1, <1>2
  <2> QED
    BY <1>3, <2>1, Zenon
<1>5. ASSUME NEW k \in 1 .. n, k - 1 \in S PROVE k \in S
  <2>1. k \in 0 .. n /\ k - 1 \in 0 .. n /\ (k >= l => k = l \/ k - 1 >= l)
    BY <1>1, <1>2
  <2>2. CASE ~ (k >= l)
    BY <2>1, <2>2, Zenon
  <2>3. CASE k = l
    BY <1>3, <2>1, <2>3, Zenon
  <2>4. CASE k - 1 >= l
    <3>1. PICK x \in Seq(Int), y \in Seq(Int), z \in Seq(Int) :
            x = F[k - 1] /\ y = A[k] /\ z = F[l] /\ F[k] = x \o y
      <4>1. F[k - 1] \in Seq(Int)
        BY <1>1, <2>1
      <4> QED
        BY <1>1, <1>2, <4>1, Zenon
    <3>2. Begins(z, x)
      BY <1>5, <2>4, <3>1, Zenon
    <3>3. Begins(x, x \o y)
      BY JoinNumbers, JoinPlaces
    <3>4. Begins(z, x \o y)
      BY <3>2, <3>3, SMTT(40)
    <3> HIDE DEF Begins
    <3> QED
      BY <2>1, <3>1, <3>4, Zenon
  <2> QED
    BY <2>1, <2>2, <2>3, <2>4, Zenon
<1>6. \A k \in 0 .. n : k \in S
  <2> HIDE DEF S, n
  <2> QED
    BY <1>1, <1>4, <1>5, Upward
<1>7. Begins(F[l], F[n])
  <2>1. n \in 0 .. n /\ n >= l
    BY <1>1, <1>2
  <2>2. n \in S
    <3> HIDE DEF S
    <3> QED
      BY <1>6, <2>1
  <2> HIDE DEF Begins
  <2> QED
    BY <2>1, <2>2
<1>8. Len(F[n]) \in Nat
  BY <1>1
<1> QED
  BY <1>2, <1>7, <1>8

\* What comes before the first NUL of a text.
FirstNul(t) == SelectInSeq(t, LAMBDA p : p = 0)
HeadOf(t) == IF FirstNul(t) = 0 THEN t ELSE SubSeq(t, 1, FirstNul(t) - 1)

\* The first NUL is the first.
LEMMA FirstNulIs ==
  ASSUME NEW t \in Seq(Nat)
  PROVE  \/ FirstNul(t) = 0 /\ \A k \in 1 .. Len(t) : t[k] # 0
         \/ /\ FirstNul(t) \in 1 .. Len(t) /\ t[FirstNul(t)] = 0
            /\ \A k \in 1 .. FirstNul(t) - 1 : t[k] # 0
<1> DEFINE I == {i \in 1 .. Len(t) : t[i] = 0}
           M == CHOOSE x \in I : \A y \in I : x <= y
<1>1. FirstNul(t) = IF I # {} THEN M ELSE 0
  BY Zenon DEF FirstNul, SelectInSeq, Min
<1>2. CASE I = {}
  <2>1. FirstNul(t) = 0
    BY <1>1, <1>2, Zenon
  <2> QED
    BY <1>2, <2>1
<1>3. CASE I # {}
  <2>1. I \in SUBSET Nat
    OBVIOUS
  <2>2. \E x \in I : \A y \in I : x <= y
    <3> HIDE DEF I
    <3> QED
      BY <1>3, <2>1, LeastPlace
  <2>3. M \in I /\ \A y \in I : M <= y
    BY <2>2, Zenon
  <2>4. FirstNul(t) = M
    BY <1>1, <1>3, Zenon
  <2> HIDE DEF M
  <2>5. ASSUME NEW k \in 1 .. M - 1 PROVE t[k] # 0
    <3>1. k \in 1 .. Len(t) /\ ~ (M <= k)
      BY <2>3
    <3> QED
      BY <2>3, <3>1
  <2> QED
    BY <2>3, <2>4, <2>5
<1> QED
  BY <1>2, <1>3

\* The head of a text is a text, without a NUL.
LEMMA HeadIs ==
  ASSUME NEW t, Text(t)
  PROVE  /\ Text(HeadOf(t)) /\ Len(HeadOf(t)) \in 0 .. Len(t)
         /\ \A k \in 1 .. Len(HeadOf(t)) : HeadOf(t)[k] = t[k] /\ t[k] # 0
         /\ \/ Len(HeadOf(t)) = Len(t)
            \/ Len(HeadOf(t)) + 1 \in 1 .. Len(t) /\ t[Len(HeadOf(t)) + 1] = 0
<1>1. t \in Seq(Nat) /\ \A k \in 1 .. Len(t) : Character(t[k])
  BY Zenon DEF Text
<1>2. Len(t) \in Nat
  BY <1>1
<1>3. CASE FirstNul(t) = 0 /\ \A k \in 1 .. Len(t) : t[k] # 0
  <2>1. HeadOf(t) = t
    BY <1>3, Zenon DEF HeadOf
  <2>2. Len(t) \in 0 .. Len(t)
    BY <1>2
  <2> QED
    BY <1>3, <2>1, <2>2, Zenon
<1>4. CASE /\ FirstNul(t) \in 1 .. Len(t) /\ t[FirstNul(t)] = 0
           /\ \A k \in 1 .. FirstNul(t) - 1 : t[k] # 0
  <2>1. PICK m \in 1 .. Len(t) : m = FirstNul(t)
    BY <1>4, Zenon
  <2>2. HeadOf(t) = SubSeq(t, 1, m - 1)
    BY <1>2, <2>1 DEF HeadOf
  <2>3. PICK h : h = SubSeq(t, 1, m - 1)
    OBVIOUS
  <2>4. /\ m - 1 \in 0 .. Len(t) /\ (m - 1) + 1 = m
        /\ \A k \in 1 .. m - 1 : k \in 1 .. Len(t)
    BY <1>2
  <2>5. h \in Seq(Nat) /\ Len(h) = m - 1 /\ \A k \in 1 .. m - 1 : h[k] = t[k]
    BY <1>1, <1>2, <2>3, <2>4
  <2>6. Text(h)
    BY <1>1, <2>4, <2>5, Zenon DEF Text
  <2> QED
    BY <1>4, <2>1, <2>2, <2>3, <2>4, <2>5, <2>6, Zenon
<1> QED
  BY <1>1, <1>3, <1>4, FirstNulIs, Zenon

\* The bytes of a text without NUL have none.
LEMMA NoNulBytes ==
  ASSUME NEW t, Text(t), \A k \in 1 .. Len(t) : t[k] # 0, NEW F, Joins(F, StandardOf(t))
  PROVE  \A j \in 1 .. Len(F[Len(t)]) : F[Len(t)][j] # 0
<1>1. PICK A : A = StandardOf(t)
  OBVIOUS
<1>2. PICK T : T = Int \ {0}
  OBVIOUS
<1>3. Lists(A) /\ Len(A) = Len(t) /\ \A k \in 1 .. Len(A) : A[k] = Standard(t[k]) /\ Character(t[k])
  BY <1>1, TextLists, Zenon
<1>4. ASSUME NEW k \in 1 .. Len(A) PROVE A[k] \in Seq(T)
  <2>1. PICK c : c = t[k] /\ c # 0 /\ Character(c) /\ A[k] = Standard(c)
    BY <1>3, Zenon
  <2>2. PICK x \in Seq(Int) : x = Standard(c)
    BY <2>1, StandardBytes, Zenon
  <2>3. ASSUME NEW j \in 1 .. Len(x) PROVE x[j] \in T
    <3>1. x[j] # 0
      BY <2>1, <2>2, StandardBytes, Zenon
    <3>2. x[j] \in Int
      OBVIOUS
    <3> QED
      BY <1>2, <3>1, <3>2
  <2>4. x \in Seq(T)
    BY <2>3, MembersMake, Zenon
  <2> QED
    BY <2>1, <2>2, <2>4, Zenon
<1>5. \A k \in 0 .. Len(A) : F[k] \in Seq(T)
  BY <1>1, <1>3, <1>4, JoinsIn, Zenon
<1>6. Len(A) \in 0 .. Len(A)
  BY <1>3 DEF Lists
<1>7. PICK s : s = F[Len(t)] /\ s \in Seq(T)
  BY <1>3, <1>5, <1>6, Zenon
<1>8. \A j \in 1 .. Len(s) : s[j] \in T
  BY <1>7
<1> QED
  BY <1>2, <1>7, <1>8

\* Bytes are numbers.
LEMMA BytesNumbers ==
  ASSUME NEW x \in ByteSeqs
  PROVE  x \in Seq(Int)
<1>1. PICK B : B = 0 .. 255
  OBVIOUS
<1>2. B \subseteq Int
  BY <1>1, SMT
<1>3. x \in Seq(B)
  BY <1>1, Zenon DEF ByteSeqs
<1> QED
  BY <1>2, <1>3, SeqMonotonic, Zenon

\* make_jstring hands Java the text up to its first NUL.
LEMMA TextToJstring ==
  ASSUME NEW t, Text(t)
  PROVE  make_jstring(Encoded(t, Standard)) = Encoded(HeadOf(t), Modified)
<1>1. PICK h : h = HeadOf(t)
  OBVIOUS
<1>2. PICK l : l = Len(h)
  OBVIOUS
<1>3. /\ Text(h) /\ l \in 0 .. Len(t) /\ \A k \in 1 .. l : h[k] = t[k] /\ t[k] # 0
      /\ (l = Len(t) \/ (l + 1 \in 1 .. Len(t) /\ t[l + 1] = 0))
  BY <1>1, <1>2, HeadIs, Zenon
<1>4. PICK A, H : A = StandardOf(t) /\ H = StandardOf(h)
  OBVIOUS
<1>5. /\ Len(A) = Len(t) /\ Lists(A) /\ (Len(A) = 0 => A = <<>>)
      /\ \A k \in 1 .. Len(t) : A[k] = Standard(t[k]) /\ A[k] \in ByteSeqs /\ Character(t[k])
  BY <1>4, TextLists, Zenon
<1>6. /\ Len(H) = l /\ Lists(H) /\ (Len(H) = 0 => H = <<>>)
      /\ \A k \in 1 .. l : H[k] = Standard(h[k]) /\ H[k] \in ByteSeqs
  BY <1>2, <1>3, <1>4, TextLists, Zenon
<1>7. PICK F : Joins(F, A) /\ FlattenSeq(A) = F[Len(A)]
  BY <1>5, FlattenJoins, Zenon
<1>8. PICK G : Joins(G, H) /\ FlattenSeq(H) = G[l]
  BY <1>6, FlattenJoins, Zenon
<1>9. l \in Nat /\ l <= Len(A) /\ Len(A) \in Nat /\ l \in 0 .. l /\ l \in 0 .. Len(A) /\ Len(A) \in 0 .. Len(A)
      /\ \A k \in 1 .. l : k \in 1 .. Len(t)
  BY <1>3, <1>5 DEF Lists
<1>10. G[l] = F[l]
  <2>1. \A k \in 1 .. Len(H) : H[k] = A[k]
    BY <1>3, <1>5, <1>6, <1>9, Zenon
  <2>2. Len(H) <= Len(A)
    BY <1>6, <1>9, Zenon
  <2>3. \A k \in 0 .. Len(H) : G[k] = F[k]
    <3>1. Lists(A) /\ Joins(F, A) /\ Lists(H) /\ Joins(G, H)
      BY <1>5, <1>6, <1>7, <1>8, Zenon
    <3> QED
      BY <2>1, <2>2, <3>1, JoinsAgree, SMT
  <2> QED
    BY <1>6, <1>9, <2>3, Zenon
<1>11. PICK s, x : s = F[Len(A)] /\ x = F[l]
  OBVIOUS
<1>12. s \in ByteSeqs /\ x \in ByteSeqs
  <2>1. \A k \in 0 .. Len(A) : F[k] \in ByteSeqs
    BY <1>5, <1>7, JoinedBytes, Zenon
  <2> QED
    BY <1>9, <1>11, <2>1, Zenon
<1>13. Len(x) \in 0 .. Len(s) /\ \A j \in 1 .. Len(x) : s[j] = x[j]
  <2>1. Lists(A) /\ Joins(F, A) /\ l \in 0 .. Len(A)
    BY <1>5, <1>7, <1>9, Zenon
  <2>2. Len(F[l]) \in 0 .. Len(F[Len(A)]) /\ \A j \in 1 .. Len(F[l]) : F[Len(A)][j] = F[l][j]
    BY <2>1, JoinsBegin, Zenon
  <2> QED
    BY <1>11, <2>2, Zenon
<1>14. \A j \in 1 .. Len(x) : x[j] # 0
  <2>1. \A k \in 1 .. Len(h) : h[k] # 0
    BY <1>2, <1>3, Zenon
  <2>2. x = G[Len(h)]
    BY <1>2, <1>10, <1>11, Zenon
  <2>3. Joins(G, StandardOf(h))
    BY <1>4, <1>8, Zenon
  <2> QED
    BY <1>3, <2>1, <2>2, <2>3, NoNulBytes, Zenon
<1>15. PICK e : e = Len(x) + 1
  OBVIOUS
<1>16. Len(s) \in Nat /\ Len(x) \in Nat /\ e \in 1 .. Len(s) + 1 /\ e - 1 = Len(x)
  BY <1>12, <1>13, <1>15, BytesAre
<1>17. At(s, e) = 0
  <2>1. CASE l = Len(t)
    <3>1. e = Len(s) + 1
      BY <1>5, <1>11, <1>15, <2>1, Zenon
    <3>2. e > Len(s)
      BY <1>16, <3>1
    <3> QED
      BY <3>2, Zenon DEF At
  <2>2. CASE l + 1 \in 1 .. Len(t) /\ t[l + 1] = 0
    <3>1. PICK k \in 1 .. Len(A) : k = l + 1 /\ k - 1 = l
      BY <1>5, <1>9, <2>2
    <3>2. t[k] = 0 /\ Character(t[k])
      BY <1>5, <2>2, <3>1, Zenon
    <3>3. PICK y : y = A[k]
      OBVIOUS
    <3>4. y = <<0>>
      <4>1. Standard(0) = <<0>>
        BY SMT DEF Standard
      <4> QED
        BY <1>5, <3>2, <3>3, <4>1, Zenon
    <3>5. Len(y) = 1 /\ 1 \in 1 .. Len(y) /\ y[1] = 0
      BY <3>4
    <3>6. Stands(s, Len(F[k - 1]), y)
      BY <1>5, <1>7, <1>11, <3>3, MembersStand, Zenon
    <3>7. Stands(s, Len(x), y)
      BY <1>11, <3>1, <3>6, Zenon
    <3>8. Len(x) + Len(y) <= Len(s) /\ s[Len(x) + 1] = y[1]
      BY <3>5, <3>7, Zenon DEF Stands
    <3>9. ~ (e > Len(s)) /\ s[e] = 0
      BY <1>15, <1>16, <3>5, <3>8
    <3> QED
      BY <3>9, Zenon DEF At
  <2> QED
    BY <1>3, <2>1, <2>2, Zenon
<1>18. EndsAt(s, e)
  <2>1. ASSUME NEW k \in 1 .. e - 1 PROVE At(s, k) # 0
    <3>1. ~ (k > Len(s)) /\ k \in 1 .. Len(x)
      BY <1>13, <1>16
    <3>2. s[k] # 0
      BY <1>13, <1>14, <3>1, Zenon
    <3> QED
      BY <3>1, <3>2, Zenon DEF At
  <2> QED
    BY <1>16, <1>17, <2>1, Zenon DEF EndsAt
<1>19. SubSeq(s, 1, e - 1) = x
  <2>1. s \in Seq(Int) /\ x \in Seq(Int)
    BY <1>12, BytesNumbers, Zenon
  <2>2. PICK m \in 0 .. Len(s) : m = e - 1 /\ m = Len(x)
    BY <1>13, <1>16, Zenon
  <2>3. \A j \in 1 .. m : s[j] = x[j]
    BY <1>13, <2>2, Zenon
  <2>4. SubSeq(s, 1, m) = x
    BY <2>1, <2>2, <2>3
  <2> QED
    BY <2>2, <2>4, Zenon
<1>20. make_jstring(s) = utf8ToModifiedUTF8(x)
  BY <1>12, <1>18, <1>19, JstringIs, Zenon
<1>21. s = Encoded(t, Standard) /\ x = Encoded(h, Standard)
  BY <1>4, <1>7, <1>8, <1>10, <1>11, EncodedIs, Zenon
<1>22. utf8ToModifiedUTF8(Encoded(h, Standard)) = Encoded(h, Modified)
  BY <1>3, TextToModified, Zenon
<1> QED
  BY <1>1, <1>20, <1>21, <1>22, Zenon

\* What is given: a text of characters, bytes, or UTF-16 units.
GivenRight ==
  \/ given.kind = "text" /\ Text(given.of)
  \/ given.kind = "bytes" /\ given.of \in ByteSeqs
  \/ given.kind = "units" /\ given.of \in Seq(Nat)

\* What the conversions make of it.
Made ==
  [modified |-> IF given.kind = "units" THEN <<>> ELSE utf8ToModifiedUTF8(AsBytes),
   jstring  |-> IF given.kind = "units" THEN <<>> ELSE make_jstring(AsBytes),
   utf8     |-> IF given.kind = "bytes" THEN <<>> ELSE utf16toUTF8(AsUnits)]

\* The inputs are well formed, and what was converted is what the code makes of them.
UtfInv == GivenRight /\ (converted = {} \/ converted = {Made})

\* A bounded sequence is a sequence.
LEMMA BoundedIs ==
  ASSUME NEW S, NEW m \in Nat, NEW t \in BoundedSeq(S, m)
  PROVE  t \in Seq(S)
<1>1. PICK n \in 0 .. m : t \in [1 .. n -> S]
  BY Zenon DEF BoundedSeq, SeqOf
<1> QED
  BY <1>1

\* The inputs that are tried are well formed.
LEMMA GivenRightAtFirst ==
  ASSUME UtfInit
  PROVE  GivenRight
<1>1. MaxPoints \in Nat /\ MaxBytes \in Nat /\ MaxUnits \in Nat
  BY UtfAssumption, SMT
<1>2. \/ \E t \in BoundedSeq(Points, MaxPoints) : given = [kind |-> "text", of |-> t]
      \/ \E b \in BoundedSeq(Bytes, MaxBytes) : given = [kind |-> "bytes", of |-> b]
      \/ \E u \in BoundedSeq(Units, MaxUnits) : given = [kind |-> "units", of |-> u]
  BY Zenon DEF UtfInit
<1>3. ASSUME NEW t \in BoundedSeq(Points, MaxPoints) PROVE Text(t)
  <2>1. t \in Seq(Points)
    BY <1>1, BoundedIs, Zenon
  <2>2. \A p \in Points : Character(p) /\ p \in Nat
    BY UtfAssumption, SMT DEF Character
  <2>3. \A k \in 1 .. Len(t) : t[k] \in Points
    BY <2>1, ElementOfSeq, Zenon
  <2>4. t \in Seq(Nat)
    <3>1. Points \subseteq Nat
      BY <2>2, Zenon
    <3> QED
      BY <2>1, <3>1, SeqMonotonic, Zenon
  <2> QED
    BY <2>2, <2>3, <2>4, Zenon DEF Text
<1>4. ASSUME NEW b \in BoundedSeq(Bytes, MaxBytes) PROVE b \in ByteSeqs
  <2>1. b \in Seq(Bytes)
    BY <1>1, BoundedIs, Zenon
  <2>2. PICK B : B = 0 .. 255
    OBVIOUS
  <2>3. Bytes \subseteq B
    BY <2>2, UtfAssumption, SMT
  <2>4. b \in Seq(B)
    BY <2>1, <2>3, SeqMonotonic, Zenon
  <2> QED
    BY <2>2, <2>4, Zenon DEF ByteSeqs
<1>5. ASSUME NEW u \in BoundedSeq(Units, MaxUnits) PROVE u \in Seq(Nat)
  <2>1. u \in Seq(Units)
    BY <1>1, BoundedIs, Zenon
  <2>2. \A v \in Units : v \in Nat
    BY UtfAssumption, SMT
  <2>3. Units \subseteq Nat
    BY <2>2, Zenon
  <2> QED
    BY <2>1, <2>3, SeqMonotonic, Zenon
<1> QED
  BY <1>2, <1>3, <1>4, <1>5 DEF GivenRight

\* What is made of well-formed inputs is what it should be.
LEMMA MadeRight ==
  ASSUME GivenRight, converted = {Made}
  PROVE  ConversionsExact
<1>1. ASSUME given.kind = "text"
      PROVE  Text(given.of) /\ AsBytes = Encoded(given.of, Standard) /\ AsUnits = Encoded(given.of, Units16)
  BY <1>1 DEF GivenRight, AsBytes, AsUnits
<1>2. given.kind # "units" => AsBytes \in ByteSeqs
  <2>1. CASE given.kind = "text"
    BY <1>1, <2>1, TextToModified, Zenon
  <2>2. CASE given.kind = "bytes"
    BY <2>2 DEF GivenRight, AsBytes
  <2> QED
    BY <2>1, <2>2 DEF GivenRight
<1>3. given.kind # "bytes" => AsUnits \in Seq(Nat)
  <2>1. CASE given.kind = "text"
    BY <1>1, <2>1, TextFromUnits, Zenon
  <2>2. CASE given.kind = "units"
    BY <2>2 DEF GivenRight, AsUnits
  <2> QED
    BY <2>1, <2>2 DEF GivenRight
<1>4. PICK c : c = Made
  OBVIOUS
<1>5. /\ given.kind # "units" => c.modified = utf8ToModifiedUTF8(AsBytes) /\ c.jstring = make_jstring(AsBytes)
      /\ given.kind # "bytes" => c.utf8 = utf16toUTF8(AsUnits)
  BY <1>4 DEF Made
<1>6. ASSUME given.kind # "units"
      PROVE  Len(c.modified) = modifiedLength(AsBytes) /\ Len(c.jstring) = modifiedLengthC(AsBytes)[1]
  <2>1. PICK s \in ByteSeqs : s = AsBytes
    BY <1>2, <1>6, Zenon
  <2>2. PICK e : EndsAt(s, e)
    BY StringEnds, Zenon
  <2>3. Len(make_jstring(s)) = modifiedLengthC(s)[1] /\ Len(utf8ToModifiedUTF8(s)) = modifiedLength(s)
    BY <2>2, JstringIs, ModifiedLengthExact, Zenon
  <2> QED
    BY <1>5, <1>6, <2>1, <2>3, Zenon
<1>7. ASSUME given.kind # "bytes" PROVE Len(c.utf8) = utf16toUTF8Length(AsUnits)
  <2>1. PICK s \in Seq(Nat) : s = AsUnits
    BY <1>3, <1>7, Zenon
  <2>2. Len(utf16toUTF8(s)) = utf16toUTF8Length(s)
    BY FromUnitsMoves, Zenon
  <2> QED
    BY <1>5, <1>7, <2>1, <2>2, Zenon
<1>8. ASSUME given.kind = "text"
      PROVE  /\ c.modified = Encoded(given.of, Modified)
             /\ modifiedUTF8ToUTF8(c.modified) = AsBytes
             /\ c.jstring = Encoded(HeadOf(given.of), Modified)
             /\ c.utf8 = AsBytes
  <2>1. given.kind # "units" /\ given.kind # "bytes"
    BY <1>8
  <2>2. PICK t : t = given.of /\ Text(t) /\ AsBytes = Encoded(t, Standard) /\ AsUnits = Encoded(t, Units16)
    BY <1>1, <1>8, Zenon
  <2>3. c.modified = Encoded(t, Modified)
    BY <1>5, <2>1, <2>2, TextToModified, Zenon
  <2>4. modifiedUTF8ToUTF8(c.modified) = AsBytes
    BY <2>2, <2>3, TextFromModified, Zenon
  <2>5. c.jstring = Encoded(HeadOf(t), Modified)
    BY <1>5, <2>1, <2>2, TextToJstring, Zenon
  <2>6. c.utf8 = AsBytes
    BY <1>5, <2>1, <2>2, TextFromUnits, Zenon
  <2> QED
    BY <2>2, <2>3, <2>4, <2>5, <2>6, Zenon
<1>9. \A x \in converted : x = c
  BY <1>4, Zenon
<1> QED
  BY <1>6, <1>7, <1>8, <1>9, Zenon DEF ConversionsExact, HeadOf, FirstNul

(* The conversions of the JNI helper library are exact for every text, every   *)
(* byte string and every sequence of UTF-16 units (utf8.cpp:67-284).           *)
THEOREM ConversionsRight == UtfSpec => []ConversionsExact
<1>1. UtfInit => UtfInv
  BY GivenRightAtFirst, Zenon DEF UtfInit, UtfInv
<1>2. UtfInv /\ [UtfNext]_utfVars => UtfInv'
  <2> SUFFICES ASSUME UtfInv, [UtfNext]_utfVars PROVE UtfInv'
    OBVIOUS
  <2>1. CASE Convert
    <3>1. given' = given /\ converted' = {Made}
      BY <2>1, Zenon DEF Convert, Made
    <3>2. GivenRight' /\ Made' = Made
      BY <3>1 DEF UtfInv, GivenRight, Made, AsBytes, AsUnits
    <3> QED
      BY <3>1, <3>2, Zenon DEF UtfInv
  <2>2. CASE UNCHANGED utfVars
    <3>1. given' = given /\ converted' = converted
      BY <2>2 DEF utfVars
    <3>2. GivenRight' /\ Made' = Made
      BY <3>1 DEF UtfInv, GivenRight, Made, AsBytes, AsUnits
    <3> QED
      BY <3>1, <3>2, Zenon DEF UtfInv
  <2> QED
    BY <2>1, <2>2 DEF UtfNext
<1>3. UtfInv => ConversionsExact
  <2>1. converted = {} => ConversionsExact
    BY Zenon DEF ConversionsExact
  <2> QED
    BY <2>1, MadeRight, Zenon DEF UtfInv
<1> QED
  BY <1>1, <1>2, <1>3, PTL DEF UtfSpec

-----------------------------------------------------------------------------
(* Exceptions: what a chain of them becomes, and who hands it over *)

\* What a throwable is made of: its name and those of its causes.
Names == Throwables \cup {JavaClass[c] : c \in DOMAIN JavaClass}
                    \cup {"NewJavaException", "itsCause", "RuntimeException", "NoSuchMethodError"}

\* A C++ exception; a JniException wraps a throwable.
Exceptions == {e \in [type : CppTypes, throwable : Seq(Names)] :
                 e.type = "JniException" => e.throwable # <<>>}

\* The least of a set of numbers is the one the catch clauses choose.
LEMMA ChooseLeast ==
  ASSUME NEW S \in SUBSET Nat, NEW m \in S, \A k \in S : m <= k
  PROVE  (CHOOSE i \in S : \A j \in S : i <= j) = m
<1>1. \A i \in S : (\A j \in S : i <= j) => i = m
  OBVIOUS
<1> QED
  BY <1>1

\* The class of each type of exception.
LEMMA ConvertIs ==
  ASSUME NEW e \in Exceptions
  PROVE  /\ convertCppExceptionToJavaException(e) =
              IF e.type = "JniException" THEN e.throwable ELSE <<NearestClass(e.type)>>
         /\ e.type # "JniException" => NearestClass(e.type) \in Names
<1> DEFINE matching == {i \in DOMAIN Clauses : Clauses[i] \in Bases[e.type]}
           least == CHOOSE i \in matching : \A j \in matching : i <= j
           known == Bases[e.type] \cap DOMAIN JavaClass
           nearest == CHOOSE b \in known : \A c \in known : c \in Bases[b]
<1>1. \A c \in DOMAIN JavaClass : JavaClass[c] \in Names
  BY DEF Names
<1>2. DOMAIN Clauses = 1 .. 8
  BY DEF Clauses
<1>3. e.type \in {"JniException", "ios_failure", "bad_alloc", "out_of_range", "system_error",
                  "runtime_error", "exception", "charptr", "other"}
  BY DEF Exceptions, CppTypes, Bases
<1>4. DOMAIN JavaClass = {"ios_failure", "bad_alloc", "out_of_range", "system_error",
                          "runtime_error", "exception", "charptr", "other"}
  BY DEF JavaClass
<1>5. matching \in SUBSET Nat
  BY <1>2
<1>6. NearestClass(e.type) = IF e.type = "other" THEN "UnknownCppException" ELSE JavaClass[nearest]
  BY DEF NearestClass
<1>7. CASE e.type = "JniException"
  <2>1. 1 \in matching /\ \A k \in matching : 1 <= k
    BY <1>2, <1>7 DEF Bases, Clauses
  <2> HIDE DEF matching
  <2>2. least = 1
    BY <1>5, <2>1, ChooseLeast
  <2> QED
    BY <1>7, <2>1, <2>2 DEF convertCppExceptionToJavaException, Clauses, matching
<1>8. CASE e.type = "ios_failure"
  <2>1. 2 \in matching /\ \A k \in matching : 2 <= k
    BY <1>2, <1>8 DEF Bases, Clauses
  <2> HIDE DEF matching
  <2>2. least = 2
    BY <1>5, <2>1, ChooseLeast
  <2>3. convertCppExceptionToJavaException(e) = <<"IOException">>
    BY <1>8, <2>1, <2>2 DEF convertCppExceptionToJavaException, Clauses, matching, JavaClass
  <2>4. known = {"ios_failure", "system_error", "runtime_error", "exception"}
    BY <1>4, <1>8 DEF Bases
  <2>5. nearest = "ios_failure"
    BY <2>4 DEF Bases
  <2> HIDE DEF nearest
  <2> QED
    BY <1>1, <1>4, <1>6, <1>8, <2>3, <2>5 DEF JavaClass
<1>9. CASE e.type = "bad_alloc"
  <2>1. 3 \in matching /\ \A k \in matching : 3 <= k
    BY <1>2, <1>9 DEF Bases, Clauses
  <2> HIDE DEF matching
  <2>2. least = 3
    BY <1>5, <2>1, ChooseLeast
  <2>3. convertCppExceptionToJavaException(e) = <<"OutOfMemoryError">>
    BY <1>9, <2>1, <2>2 DEF convertCppExceptionToJavaException, Clauses, matching, JavaClass
  <2>4. known = {"bad_alloc", "exception"}
    BY <1>4, <1>9 DEF Bases
  <2>5. nearest = "bad_alloc"
    BY <2>4 DEF Bases
  <2> HIDE DEF nearest
  <2> QED
    BY <1>1, <1>4, <1>6, <1>9, <2>3, <2>5 DEF JavaClass
<1>10. CASE e.type = "out_of_range"
  <2>1. 4 \in matching /\ \A k \in matching : 4 <= k
    BY <1>2, <1>10 DEF Bases, Clauses
  <2> HIDE DEF matching
  <2>2. least = 4
    BY <1>5, <2>1, ChooseLeast
  <2>3. convertCppExceptionToJavaException(e) = <<"ArrayIndexOutOfBoundsException">>
    BY <1>10, <2>1, <2>2 DEF convertCppExceptionToJavaException, Clauses, matching, JavaClass
  <2>4. known = {"out_of_range", "exception"}
    BY <1>4, <1>10 DEF Bases
  <2>5. nearest = "out_of_range"
    BY <2>4 DEF Bases
  <2> HIDE DEF nearest
  <2> QED
    BY <1>1, <1>4, <1>6, <1>10, <2>3, <2>5 DEF JavaClass
<1>11. CASE e.type = "system_error"
  <2>1. 5 \in matching /\ \A k \in matching : 5 <= k
    BY <1>2, <1>11 DEF Bases, Clauses
  <2> HIDE DEF matching
  <2>2. least = 5
    BY <1>5, <2>1, ChooseLeast
  <2>3. convertCppExceptionToJavaException(e) = <<"CppSystemErrorException">>
    BY <1>11, <2>1, <2>2 DEF convertCppExceptionToJavaException, Clauses, matching, JavaClass
  <2>4. known = {"system_error", "runtime_error", "exception"}
    BY <1>4, <1>11 DEF Bases
  <2>5. nearest = "system_error"
    BY <2>4 DEF Bases
  <2> HIDE DEF nearest
  <2> QED
    BY <1>1, <1>4, <1>6, <1>11, <2>3, <2>5 DEF JavaClass
<1>12. CASE e.type = "runtime_error"
  <2>1. 6 \in matching /\ \A k \in matching : 6 <= k
    BY <1>2, <1>12 DEF Bases, Clauses
  <2> HIDE DEF matching
  <2>2. least = 6
    BY <1>5, <2>1, ChooseLeast
  <2>3. convertCppExceptionToJavaException(e) = <<"RuntimeException">>
    BY <1>12, <2>1, <2>2 DEF convertCppExceptionToJavaException, Clauses, matching, JavaClass
  <2>4. known = {"runtime_error", "exception"}
    BY <1>4, <1>12 DEF Bases
  <2>5. nearest = "runtime_error"
    BY <2>4 DEF Bases
  <2> HIDE DEF nearest
  <2> QED
    BY <1>1, <1>4, <1>6, <1>12, <2>3, <2>5 DEF JavaClass
<1>13. CASE e.type = "exception"
  <2>1. 7 \in matching /\ \A k \in matching : 7 <= k
    BY <1>2, <1>13 DEF Bases, Clauses
  <2> HIDE DEF matching
  <2>2. least = 7
    BY <1>5, <2>1, ChooseLeast
  <2>3. convertCppExceptionToJavaException(e) = <<"CppException">>
    BY <1>13, <2>1, <2>2 DEF convertCppExceptionToJavaException, Clauses, matching, JavaClass
  <2>4. known = {"exception"}
    BY <1>4, <1>13 DEF Bases
  <2>5. nearest = "exception"
    BY <2>4 DEF Bases
  <2> HIDE DEF nearest
  <2> QED
    BY <1>1, <1>4, <1>6, <1>13, <2>3, <2>5 DEF JavaClass
<1>14. CASE e.type = "charptr"
  <2>1. 8 \in matching /\ \A k \in matching : 8 <= k
    BY <1>2, <1>14 DEF Bases, Clauses
  <2> HIDE DEF matching
  <2>2. least = 8
    BY <1>5, <2>1, ChooseLeast
  <2>3. convertCppExceptionToJavaException(e) = <<"UnknownCppException">>
    BY <1>14, <2>1, <2>2 DEF convertCppExceptionToJavaException, Clauses, matching, JavaClass
  <2>4. known = {"charptr"}
    BY <1>4, <1>14 DEF Bases
  <2>5. nearest = "charptr"
    BY <2>4 DEF Bases
  <2> HIDE DEF nearest
  <2> QED
    BY <1>1, <1>4, <1>6, <1>14, <2>3, <2>5 DEF JavaClass
<1>15. CASE e.type = "other"
  <2>1. matching = {}
    BY <1>2, <1>15 DEF Bases, Clauses
  <2> QED
    BY <1>6, <1>4, <1>15, <1>1, <2>1 DEF convertCppExceptionToJavaException, JavaClass
<1> QED
  BY <1>3, <1>7, <1>8, <1>9, <1>10, <1>11, <1>12, <1>13, <1>14, <1>15

\* What becomes of a C++ exception is a throwable with a name.
LEMMA ConvertNames ==
  ASSUME NEW e \in Exceptions
  PROVE  convertCppExceptionToJavaException(e) \in Seq(Names) \ {<<>>}
<1>1. CASE e.type = "JniException"
  BY <1>1, ConvertIs DEF Exceptions
<1>2. CASE e.type # "JniException"
  <2>1. PICK x \in Names : convertCppExceptionToJavaException(e) = <<x>>
    BY <1>2, ConvertIs
  <2> QED
    BY <2>1
<1> QED
  BY <1>1, <1>2

\* r[i] is what denest has made of the exceptions from the i-th on.
Denested(r, chain) ==
  /\ r \in [1 .. Len(chain) + 1 -> Seq(Names)]
  /\ \A i \in 1 .. Len(chain) :
        r[i] = IF i = Len(chain) THEN convertCppExceptionToJavaException(chain[i])
               ELSE initCause(convertCppExceptionToJavaException(chain[i]), r[i + 1])
  /\ r[Len(chain) + 1] = <<>>

\* getJavaExceptionForCppException returns what denest made of all of them.
LEMMA DenestIs ==
  ASSUME NEW chain \in Seq(Exceptions)
  PROVE  \E r : Denested(r, chain) /\ getJavaExceptionForCppException(chain) = r[1]
<1> DEFINE n == Len(chain)
           m == n + 1
           T == Seq(Names)
           conv == [i \in 1 .. n |-> convertCppExceptionToJavaException(chain[i])]
           stop == [i \in 1 .. m |-> IF i > n THEN <<>> ELSE conv[i]]
           next == [i \in 1 .. m |-> IF i >= n THEN 0 ELSE i + 1]
           op == [i \in 1 .. m |-> IF i > n THEN [x \in T |-> x]
                                   ELSE [x \in T |-> initCause(conv[i], x)]]
           Step(f, i) == IF i > n THEN <<>>
                         ELSE IF i = n THEN convertCppExceptionToJavaException(chain[i])
                         ELSE initCause(convertCppExceptionToJavaException(chain[i]), f[i + 1])
           Body(f) == [i \in 1 .. m |-> Step(f, i)]
           g == CHOOSE f : f = Body(f)
<1>1. getJavaExceptionForCppException(chain) = g[1]
  BY DEF getJavaExceptionForCppException
<1>2. n \in Nat /\ m \in Nat /\ m = n + 1 /\ \A i \in 1 .. n : chain[i] \in Exceptions
  OBVIOUS
<1>3. \A i \in 1 .. n : conv[i] \in T /\ conv[i] = convertCppExceptionToJavaException(chain[i])
  BY <1>2, ConvertNames
<1> HIDE DEF conv, n, m
<1>4. \A c, x \in T : initCause(c, x) \in T
  BY DEF initCause
<1>5. stop \in [1 .. m -> T]
  BY <1>2, <1>3
<1>6. next \in [1 .. m -> Nat] /\ \A i \in 1 .. m : next[i] = 0 \/ next[i] \in i + 1 .. m
  BY <1>2
<1>7. op \in [1 .. m -> [T -> T]]
  BY <1>2, <1>3, <1>4
<1>8. PICK f \in [1 .. m -> T] :
        \A i \in 1 .. m : f[i] = IF next[i] = 0 THEN stop[i] ELSE op[i][f[next[i]]]
  <2> HIDE DEF stop, next, op, T
  <2>1. Loop(m, T, stop, next, op)
    BY <1>2, <1>5, <1>6, <1>7, Zenon DEF Loop
  <2> QED
    BY <2>1, LoopHasValues
<1>9. ASSUME NEW i \in 1 .. m PROVE f[i] = Step(f, i)
  <2>1. CASE i > n
    <3>1. next[i] = 0 /\ stop[i] = <<>>
      BY <1>2, <2>1
    <3> QED
      BY <1>8, <2>1, <3>1
  <2>2. CASE i = n
    <3>1. next[i] = 0 /\ stop[i] = conv[i] /\ i \in 1 .. n /\ ~ (i > n)
      BY <1>2, <2>2
    <3> QED
      BY <1>3, <1>8, <2>2, <3>1
  <2>3. CASE i < n
    <3>1. i \in 1 .. n /\ ~ (i > n) /\ i # n /\ i + 1 \in 1 .. m
      BY <1>2, <2>3
    <3>2. next[i] = i + 1 /\ next[i] # 0
      BY <1>2, <2>3
    <3>3. PICK y \in T : y = f[i + 1]
      BY <3>1
    <3>4. op[i] = [x \in T |-> initCause(conv[i], x)]
      BY <3>1
    <3>5. op[i][y] = initCause(conv[i], y)
      BY <3>3, <3>4, Zenon
    <3>6. f[i] = op[i][f[next[i]]]
      BY <1>8, <3>2
    <3>7. f[i] = initCause(convertCppExceptionToJavaException(chain[i]), f[i + 1])
      BY <1>3, <3>1, <3>2, <3>3, <3>5, <3>6
    <3> QED
      BY <3>1, <3>7
  <2> QED
    BY <1>2, <2>1, <2>2, <2>3
<1>10. f = Body(f)
  BY <1>9
<1>11. g = Body(g)
  BY <1>10
<1>12. \A i \in 1 .. m : g[i] = f[i]
  <2> DEFINE S == {i \in 1 .. m : g[i] = f[i]}
  <2>1. ASSUME NEW i \in 1 .. m, \A j \in i + 1 .. m : j \in S PROVE i \in S
    <3> HIDE DEF g
    <3>1. g[i] = Step(g, i)
      BY <1>11
    <3>2. f[i] = Step(f, i)
      BY <1>9
    <3>3. i < n => g[i + 1] = f[i + 1]
      BY <1>2, <2>1
    <3> QED
      BY <1>2, <3>1, <3>2, <3>3
  <2> HIDE DEF S
  <2>2. \A i \in 1 .. m : i \in S
    BY <1>2, <2>1, Downward
  <2> USE DEF S
  <2> QED
    BY <2>2
<1> HIDE DEF stop, next, op, g
<1>13. g[1] = f[1]
  BY <1>2, <1>12
<1>14. \A i \in 1 .. n : f[i] = IF i = n THEN convertCppExceptionToJavaException(chain[i])
                               ELSE initCause(convertCppExceptionToJavaException(chain[i]), f[i + 1])
  <2> SUFFICES ASSUME NEW i \in 1 .. n
               PROVE  f[i] = IF i = n THEN convertCppExceptionToJavaException(chain[i])
                             ELSE initCause(convertCppExceptionToJavaException(chain[i]), f[i + 1])
    OBVIOUS
  <2>1. i \in 1 .. m /\ ~ (i > n)
    BY <1>2
  <2> QED
    BY <1>9, <2>1
<1>15. f[n + 1] = <<>>
  <2>1. n + 1 \in 1 .. m /\ n + 1 > n
    BY <1>2
  <2> QED
    BY <1>9, <2>1
<1>16. Denested(f, chain)
  BY <1>14, <1>15, Zenon DEF Denested, n, m
<1> QED
  BY <1>1, <1>13, <1>16, Zenon

\* What arrives in Java for a chain of exceptions.
Arrived(a, chain) ==
  /\ Len(a) >= Len(chain)
  /\ \A i \in DOMAIN chain :
        IF chain[i].type = "JniException"
        THEN IF i = Len(chain) THEN SubSeq(a, i, Len(a)) = chain[i].throwable
             ELSE <<a[i]>> = chain[i].throwable
        ELSE a[i] = NearestClass(chain[i].type)

\* p is the first k names of a, and q the others.
Splits(a, k, q) ==
  /\ Len(a) = k + Len(q)
  /\ \A j \in 1 .. Len(q) : a[k + j] = q[j]

\* A cause is set only on a throwable of its own name alone.
LEMMA CauseIs ==
  ASSUME NEW c \in Seq(Names), NEW q \in Seq(Names), initCause(c, q) # <<>>
  PROVE  q # <<>> /\ Len(c) = 1 /\ initCause(c, q) = c \o q
BY DEF initCause

\* What stands behind one name.
LEMMA BehindOne ==
  ASSUME NEW c \in Seq(Names), NEW q \in Seq(Names), Len(c) = 1
  PROVE  /\ Len(c \o q) = 1 + Len(q) /\ (c \o q)[1] = c[1]
         /\ \A j \in 1 .. Len(q) : (c \o q)[1 + j] = q[j]
<1>1. /\ Len(c \o q) = Len(c) + Len(q)
      /\ \A i \in 1 .. Len(c) + Len(q) : (c \o q)[i] = IF i <= Len(c) THEN c[i] ELSE q[i - Len(c)]
  BY ConcatProperties, Zenon
<1>2. PICK n \in Nat : n = Len(q)
  OBVIOUS
<1>3. 1 \in 1 .. 1 + n /\ \A j \in 1 .. n : 1 + j \in 1 .. 1 + n /\ ~ (1 + j <= 1) /\ 1 + j - 1 = j
  OBVIOUS
<1>4. PICK z : z = c \o q
  OBVIOUS
<1>5. \A i \in 1 .. 1 + n : z[i] = IF i <= 1 THEN c[i] ELSE q[i - 1]
  BY <1>1, <1>2, <1>4, Zenon
<1>6. Len(z) = 1 + n /\ z[1] = c[1] /\ \A j \in 1 .. n : z[1 + j] = q[j]
  BY <1>1, <1>2, <1>3, <1>4, <1>5
<1> QED
  BY <1>2, <1>4, <1>6, Zenon

\* Every name is where its exception stood.
LEMMA NamesArrive ==
  ASSUME NEW chain \in Seq(Exceptions), NEW r, Denested(r, chain), Len(chain) > 0, r[1] # <<>>
  PROVE  \A k \in 1 .. Len(chain) :
            /\ r[k] # <<>> /\ Splits(r[1], k - 1, r[k])
            /\ k < Len(chain) => convertCppExceptionToJavaException(chain[k]) = <<r[1][k]>>
<1> DEFINE n == Len(chain)
           conv(i) == convertCppExceptionToJavaException(chain[i])
           Behind(k) == r[k] # <<>> /\ Splits(r[1], k - 1, r[k])
           S == {k \in 0 .. n - 1 : Behind(k + 1)}
<1>1. n \in Nat /\ n > 0 /\ \A i \in 1 .. n : chain[i] \in Exceptions
  OBVIOUS
<1>2. \A i \in 1 .. n + 1 : r[i] \in Seq(Names)
  BY <1>1 DEF Denested
<1>3. \A i \in 1 .. n : conv(i) \in Seq(Names)
  BY <1>1, ConvertNames
<1>4. \A i \in 1 .. n : r[i] = IF i = n THEN conv(i) ELSE initCause(conv(i), r[i + 1])
  BY DEF Denested
<1> HIDE DEF n, conv
<1>5. ASSUME NEW k \in 1 .. n, k < n, Behind(k) PROVE Behind(k + 1) /\ conv(k) = <<r[1][k]>>
  <2>1. PICK c \in Seq(Names), q \in Seq(Names) : c = conv(k) /\ q = r[k + 1]
    BY <1>1, <1>2, <1>3, <1>5
  <2>2. r[k] = initCause(c, q) /\ r[k] # <<>>
    BY <1>4, <1>5, <2>1
  <2>3. q # <<>> /\ Len(c) = 1 /\ r[k] = c \o q
    BY <2>2, CauseIs
  <2>4. PICK b \in Seq(Names) : b = r[1]
    BY <1>1, <1>2
  <2>5. PICK z : z = c \o q
    OBVIOUS
  <2>6. Len(z) = 1 + Len(q) /\ z[1] = c[1] /\ \A j \in 1 .. Len(q) : z[1 + j] = q[j]
    BY <2>1, <2>3, <2>5, BehindOne
  <2>7. Len(b) = k - 1 + Len(z) /\ \A j \in 1 .. Len(z) : b[k - 1 + j] = z[j]
    BY <1>5, <2>3, <2>4, <2>5 DEF Splits
  <2>8. Len(b) = k + Len(q) /\ b[k] = c[1]
    BY <1>5, <2>6, <2>7
  <2>9. ASSUME NEW j \in 1 .. Len(q) PROVE b[k + j] = q[j]
    <3>1. 1 + j \in 1 .. Len(z) /\ k - 1 + (1 + j) = k + j
      BY <1>5, <2>6
    <3> QED
      BY <2>6, <2>7, <3>1
  <2>10. Splits(b, k, q)
    BY <2>8, <2>9 DEF Splits
  <2>11. k + 1 - 1 = k
    BY <1>5
  <2>12. Behind(k + 1)
    BY <2>1, <2>3, <2>4, <2>10, <2>11
  <2>13. c = <<c[1]>>
    BY <2>3
  <2> QED
    BY <2>1, <2>4, <2>8, <2>12, <2>13
<1>6. Behind(1)
  <2>1. r[1] \in Seq(Names)
    BY <1>1, <1>2
  <2>2. Len(r[1]) = 0 + Len(r[1]) /\ \A j \in 1 .. Len(r[1]) : 0 + j = j
    BY <2>1
  <2> QED
    BY <2>2 DEF Splits
<1> HIDE DEF Behind
<1>7. \A k \in 1 .. n : Behind(k)
  <2>1. 0 \in S
    BY <1>1, <1>6
  <2>2. ASSUME NEW k \in 1 .. n - 1, k - 1 \in S PROVE k \in S
    <3>1. k - 1 + 1 = k /\ k \in 1 .. n /\ k < n /\ k \in 0 .. n - 1
      BY <1>1
    <3>2. Behind(k)
      BY <2>2, <3>1
    <3>3. Behind(k + 1)
      BY <1>5, <3>1, <3>2
    <3> QED
      BY <3>1, <3>3
  <2> HIDE DEF S
  <2>3. \A k \in 0 .. n - 1 : k \in S
    <3>1. n - 1 \in Nat
      BY <1>1
    <3> QED
      BY <2>1, <2>2, <3>1, Upward
  <2> USE DEF S
  <2>4. ASSUME NEW k \in 1 .. n PROVE Behind(k)
    <3>1. k - 1 \in 0 .. n - 1 /\ k - 1 + 1 = k
      BY <1>1
    <3>2. k - 1 \in S
      BY <2>3, <3>1
    <3> QED
      BY <3>1, <3>2
  <2> QED
    BY <2>4
<1>8. ASSUME NEW k \in 1 .. n
      PROVE  /\ r[k] # <<>> /\ Splits(r[1], k - 1, r[k])
             /\ k < n => convertCppExceptionToJavaException(chain[k]) = <<r[1][k]>>
  BY <1>5, <1>7 DEF Behind, conv
<1> QED
  BY <1>8 DEF n

\* What Java gets for a chain has a throwable for each exception, outermost
\* first, or is nothing because a cause could not be set.
LEMMA ChainArrives ==
  ASSUME NEW chain \in Seq(Exceptions)
  PROVE  /\ getJavaExceptionForCppException(chain) \in Seq(Names)
         /\ chain # <<>> /\ getJavaExceptionForCppException(chain) # <<>>
               => Arrived(getJavaExceptionForCppException(chain), chain)
<1>1. PICK r : Denested(r, chain) /\ getJavaExceptionForCppException(chain) = r[1]
  BY DenestIs
<1>2. PICK a : a = r[1]
  OBVIOUS
<1>3. PICK n \in Nat : n = Len(chain) /\ DOMAIN chain = 1 .. n
  OBVIOUS
<1>4. a \in Seq(Names)
  BY <1>1, <1>2, <1>3 DEF Denested
<1>5. ASSUME chain # <<>>, a # <<>> PROVE Arrived(a, chain)
  <2>1. n > 0
    BY <1>3, <1>5
  <2>2. \A k \in 1 .. n : /\ r[k] # <<>> /\ Splits(a, k - 1, r[k])
                          /\ k < n => convertCppExceptionToJavaException(chain[k]) = <<a[k]>>
    BY <1>1, <1>2, <1>3, <1>5, <2>1, NamesArrive
  <2>3. PICK q \in Seq(Names) : q = r[n]
    BY <1>1, <1>3, <2>1 DEF Denested
  <2>4. /\ q # <<>> /\ q = convertCppExceptionToJavaException(chain[n])
        /\ Len(a) = n - 1 + Len(q) /\ \A j \in 1 .. Len(q) : a[n - 1 + j] = q[j]
    BY <1>1, <1>3, <2>1, <2>2, <2>3 DEF Denested, Splits
  <2>5. Len(q) \in Nat /\ Len(q) > 0 /\ Len(a) >= n /\ a[n] = q[1]
    BY <2>1, <2>3, <2>4
  <2>6. SubSeq(a, n, Len(a)) = q
    <3>1. PICK s : s = SubSeq(a, n, Len(a))
      OBVIOUS
    <3>2. s \in Seq(Names) /\ Len(s) = Len(q) /\ \A j \in 1 .. Len(q) : s[j] = a[n - 1 + j]
      BY <1>4, <2>1, <2>4, <2>5, <3>1
    <3> QED
      BY <2>3, <2>4, <3>1, <3>2
  <2>7. ASSUME NEW i \in 1 .. n
        PROVE  IF chain[i].type = "JniException"
               THEN IF i = n THEN SubSeq(a, i, Len(a)) = chain[i].throwable
                    ELSE <<a[i]>> = chain[i].throwable
               ELSE a[i] = NearestClass(chain[i].type)
    <3>1. PICK e \in Exceptions : e = chain[i]
      BY <1>3
    <3>2. convertCppExceptionToJavaException(e) =
             IF e.type = "JniException" THEN e.throwable ELSE <<NearestClass(e.type)>>
      BY ConvertIs
    <3>3. CASE i = n
      BY <2>4, <2>5, <2>6, <3>1, <3>2, <3>3
    <3>4. CASE i # n
      <4>1. convertCppExceptionToJavaException(e) = <<a[i]>>
        BY <2>2, <3>1, <3>4
      <4> QED
        BY <3>1, <3>2, <3>4, <4>1
    <3> QED
      BY <3>3, <3>4
  <2> QED
    BY <1>3, <2>5, <2>7 DEF Arrived
<1> QED
  BY <1>1, <1>2, <1>4, <1>5

\* The record of a thread, field by field.
Whole(s) ==
    s = [java |-> s.java, att |-> s.att, tls |-> s.tls, stack |-> s.stack,
         cpp |-> s.cpp, pending |-> s.pending, ensured |-> s.ensured]

\* x has the exceptions of s.
SameExceptions(x, s) == Whole(x) /\ x.cpp = s.cpp /\ x.pending = s.pending

\* A frame is pushed without touching exceptions.
LEMMA PushKeeps ==
  ASSUME NEW s, Whole(s), NEW f
  PROVE  SameExceptions(Push(s, f), s)
<1>1. PICK q : q = Append(s.stack, f)
  OBVIOUS
<1>2. Push(s, f) = [s EXCEPT !.stack = q]
  BY <1>1 DEF Push
<1> QED
  BY <1>2 DEF Whole, SameExceptions

\* And popped.
LEMMA PopKeeps ==
  ASSUME NEW s, Whole(s)
  PROVE  SameExceptions(Pop(s), s)
BY SMTT(40) DEF Pop, Whole, SameExceptions

\* So does the cacher of a native method.
LEMMA CacherKeeps ==
  ASSUME NEW s, Whole(s)
  PROVE  SameExceptions(JniEnvCacher(s), s)
BY DEF JniEnvCacher, Push, Whole, SameExceptions

\* And its destructor.
LEMMA CacherGoneKeeps ==
  ASSUME NEW s, Whole(s)
  PROVE  SameExceptions(JniEnvCacherGone(s), s)
BY DEF JniEnvCacherGone, Pop, Whole, SameExceptions

\* So does a scope.
LEMMA ScopeKeeps ==
  ASSUME NEW s, Whole(s)
  PROVE  SameExceptions(ThreadScope(s), s)
BY DEF ThreadScope, Push, Whole, SameExceptions

\* And its end.
LEMMA ScopeGoneKeeps ==
  ASSUME NEW s, Whole(s)
  PROVE  SameExceptions(ThreadScopeGone(s), s)
BY DEF ThreadScopeGone, Pop, Whole, SameExceptions

\* The exceptions of a thread, on either side.
ExceptionsOK(s) == s.cpp \in Seq(Exceptions) /\ s.pending \in Seq(Names)

ExceptionsInv == CallsInv /\ \A t \in Threads : ExceptionsOK(th[t])

\* A wrapper hands the C++ exceptions of s to Java.
Crosses(s, x) == s.cpp # <<>> /\ Top(s) = "native" /\ x.cpp = <<>> /\ Top(x) # "native"

\* A step of thread t, seen from its exceptions.
HandsOn(t) ==
    \E x : /\ th' = [th EXCEPT ![t] = x] /\ ExceptionsOK(x)
           /\ Crosses(th[t], x) /\ ~dead' => Arrived(x.pending, th[t].cpp)

\* What is known of the thread that moves.
LEMMA ThreadIs ==
  ASSUME ExceptionsInv, NEW t \in Threads
  PROVE  ExceptionsOK(th[t]) /\ ThreadOK(th[t]) /\ Whole(th[t])
BY DEF ExceptionsInv, CallsInv, ThreadOK, ThreadShape, Whole

\* A step that leaves the exceptions of C++ alone.
LEMMA Leaves ==
  ASSUME ExceptionsInv, NEW t \in Threads, NEW x, Move(t, x), x.cpp = th[t].cpp, x.pending \in Seq(Names)
  PROVE  HandsOn(t)
BY ThreadIs DEF Move, HandsOn, Crosses, ExceptionsOK

\* One that leaves all exceptions alone.
LEMMA LeavesAll ==
  ASSUME ExceptionsInv, NEW t \in Threads, NEW x, Move(t, x), SameExceptions(x, th[t])
  PROVE  HandsOn(t)
BY ThreadIs, Leaves DEF ExceptionsOK, SameExceptions

\* A step after which C++ is handling an exception.
LEMMA Raises ==
  ASSUME ExceptionsInv, NEW t \in Threads, NEW x, Move(t, x),
         x.cpp \in Seq(Exceptions), x.cpp # <<>>, x.pending \in Seq(Names)
  PROVE  HandsOn(t)
BY DEF Move, HandsOn, Crosses, ExceptionsOK

\* Exceptions are given to the thread, or taken from it.
LEMMA GivenTo ==
  ASSUME NEW s, Whole(s), NEW c, NEW d
  PROVE  /\ [s EXCEPT !.cpp = c].cpp = c /\ [s EXCEPT !.cpp = c].pending = s.pending
         /\ [s EXCEPT !.pending = d].cpp = s.cpp /\ [s EXCEPT !.pending = d].pending = d
         /\ [s EXCEPT !.cpp = c, !.pending = d].cpp = c /\ [s EXCEPT !.cpp = c, !.pending = d].pending = d
         /\ [s EXCEPT !.pending = d, !.cpp = c].cpp = c /\ [s EXCEPT !.pending = d, !.cpp = c].pending = d
         /\ [s EXCEPT !.cpp = c].stack = s.stack
BY DEF Whole

\* The exceptions that the library and its callers make.
LEMMA MadeAre ==
  /\ \A s : NewExceptions(s) \subseteq Exceptions
  /\ [type |-> "runtime_error", throwable |-> <<>>] \in Exceptions
  /\ [type |-> "JniException", throwable |-> <<"NoSuchMethodError">>] \in Exceptions
  /\ \A c \in CppTypes \ {"JniException"} : [type |-> c, throwable |-> <<>>] \in Exceptions
  /\ \A q \in Seq(Names) : q # <<>> => [type |-> "JniException", throwable |-> q] \in Exceptions
<1>1. "JniException" \in CppTypes /\ "runtime_error" \in CppTypes
  BY DEF CppTypes, Bases
<1>2. \A q \in Seq(Names) : q # <<>> => [type |-> "JniException", throwable |-> q] \in Exceptions
  BY <1>1 DEF Exceptions
<1>3. \A c \in CppTypes \ {"JniException"} : [type |-> c, throwable |-> <<>>] \in Exceptions
  BY DEF Exceptions
<1>4. "NewJavaException" \in Names /\ "itsCause" \in Names /\ "RuntimeException" \in Names /\ "NoSuchMethodError" \in Names
  BY DEF Names
<1>5. \A x \in NewThrowables : x \in Seq(Names) /\ x # <<>>
  <2>1. \A a, b \in Names : <<a>> \in Seq(Names) /\ <<a>> # <<>> /\ <<a, b>> \in Seq(Names) /\ <<a, b>> # <<>>
    OBVIOUS
  <2>2. \A x \in NewThrowables : \/ x = <<"NewJavaException">> \/ x = <<"RuntimeException">>
                                \/ x = <<"NewJavaException", "itsCause">>
    BY DEF NewThrowables
  <2> QED
    BY <1>4, <2>1, <2>2, Zenon
<1>6. \A s : NewExceptions(s) \subseteq Exceptions
  BY <1>2, <1>3, <1>5 DEF NewExceptions
<1>7. <<"NoSuchMethodError">> \in Seq(Names) /\ <<"NoSuchMethodError">> # <<>>
  BY <1>4
<1> QED
  BY <1>1, <1>2, <1>3, <1>6, <1>7

\* Frames and attachments that come and go.
LEMMA FrameSteps ==
  ASSUME ExceptionsInv, NEW t \in Threads,
         \/ CallNative(t) \/ NativeReturn(t) \/ LeaveScope(t)
         \/ EnterExt(t) \/ LeaveExt(t) \/ ensureCurrentThreadIsAttached(t)
         \/ GetOrSetField(t) \/ WithClassLoader(t) \/ JavaReturn(t)
         \/ populateWhat(t) \/ Uncaught(t)
  PROVE  HandsOn(t)
<1>1. PICK s : s = th[t]
  OBVIOUS
<1>2. Whole(s)
  BY <1>1, ThreadIs
<1>3. ASSUME NEW x, Move(t, x), SameExceptions(x, s) PROVE HandsOn(t)
  BY <1>1, <1>3, LeavesAll
<1>4. CASE CallNative(t)
  BY <1>1, <1>2, <1>3, <1>4, CacherKeeps DEF CallNative
<1>5. CASE NativeReturn(t)
  BY <1>1, <1>2, <1>3, <1>5, CacherGoneKeeps DEF NativeReturn
<1>6. CASE LeaveScope(t)
  BY <1>1, <1>2, <1>3, <1>6, ScopeGoneKeeps DEF LeaveScope
<1>7. CASE EnterExt(t)
  <2>1. PICK f : f = Frame("ext", ~s.att, FALSE, FALSE)
    OBVIOUS
  <2>2. PICK y : y = Push(s, f)
    OBVIOUS
  <2>3. PICK x : x = [y EXCEPT !.att = TRUE]
    OBVIOUS
  <2>4. SameExceptions(y, s)
    BY <1>2, <2>2, PushKeeps
  <2>5. SameExceptions(x, s)
    BY <2>3, <2>4 DEF SameExceptions, Whole
  <2>6. Move(t, x)
    BY <1>1, <1>7, <2>1, <2>2, <2>3 DEF EnterExt
  <2> QED
    BY <1>3, <2>5, <2>6
<1>8. CASE LeaveExt(t)
  <2>1. PICK y : y = Pop(s)
    OBVIOUS
  <2>2. PICK b : b = (y.att /\ ~TopFlag(s))
    OBVIOUS
  <2>3. PICK x : x = [y EXCEPT !.att = b]
    OBVIOUS
  <2>4. SameExceptions(y, s)
    BY <1>2, <2>1, PopKeeps
  <2>5. SameExceptions(x, s)
    BY <2>3, <2>4 DEF SameExceptions, Whole
  <2>6. Move(t, x)
    BY <1>1, <1>8, <2>1, <2>2, <2>3 DEF LeaveExt
  <2> QED
    BY <1>3, <2>5, <2>6
<1>9. CASE ensureCurrentThreadIsAttached(t)
  <2>1. PICK x : x = [s EXCEPT !.att = TRUE, !.ensured = TRUE]
    OBVIOUS
  <2>2. SameExceptions(x, s)
    BY <1>2, <2>1 DEF SameExceptions, Whole
  <2>3. Move(t, x)
    BY <1>1, <1>9, <2>1 DEF ensureCurrentThreadIsAttached
  <2> QED
    BY <1>3, <2>2, <2>3
<1>10. CASE GetOrSetField(t) \/ Uncaught(t)
  <2>1. Move(t, s) /\ SameExceptions(s, s)
    BY <1>1, <1>2, <1>10 DEF GetOrSetField, Uncaught, SameExceptions
  <2> QED
    BY <1>3, <2>1
<1>11. CASE WithClassLoader(t)
  <2>1. PICK f : f = Frame("java", FALSE, FALSE, FALSE)
    OBVIOUS
  <2>2. PICK y : y = ThreadScope(s)
    OBVIOUS
  <2>3. PICK z : z = Push(y, f)
    OBVIOUS
  <2>4. SameExceptions(y, s)
    BY <1>2, <2>2, ScopeKeeps
  <2>5. SameExceptions(z, s)
    BY <2>3, <2>4, PushKeeps DEF SameExceptions
  <2>6. SameExceptions(JniEnvCacher(z), s)
    BY <2>5, CacherKeeps DEF SameExceptions
  <2>7. Move(t, JniEnvCacher(z))
    BY <1>1, <1>11, <2>1, <2>2, <2>3 DEF WithClassLoader
  <2> QED
    BY <1>3, <2>6, <2>7
<1>12. CASE JavaReturn(t)
  BY <1>1, <1>2, <1>3, <1>12, PopKeeps DEF JavaReturn
<1>13. CASE populateWhat(t)
  <2>1. SameExceptions(ThreadScope(s), s)
    BY <1>2, ScopeKeeps
  <2>2. SameExceptions(ThreadScopeGone(ThreadScope(s)), s)
    BY <2>1, ScopeGoneKeeps DEF SameExceptions
  <2>3. Move(t, ThreadScopeGone(ThreadScope(s)))
    BY <1>1, <1>13 DEF populateWhat
  <2> QED
    BY <1>3, <2>2, <2>3
<1> QED
  BY <1>4, <1>5, <1>6, <1>7, <1>8, <1>9, <1>10, <1>11, <1>12, <1>13

\* Exceptions of Java, and those that initialisation leaves to Java.
LEMMA JavaExceptionSteps ==
  ASSUME ExceptionsInv, NEW t \in Threads,
         \/ \E f \in {<<>>} \cup {<<[type |-> c, throwable |-> <<>>]>> : c \in CppTypes \ {"JniException"}} :
               Initialize(t, f)
         \/ JavaCatch(t)
         \/ \E id \in Throwables : JavaThrow(t, id)
  PROVE  HandsOn(t)
<1>1. PICK s : s = th[t]
  OBVIOUS
<1>2. Whole(s)
  BY <1>1, ThreadIs
<1>3. ASSUME NEW d \in Seq(Names), Move(t, [s EXCEPT !.pending = d]) PROVE HandsOn(t)
  <2>1. PICK x : x = [s EXCEPT !.pending = d]
    OBVIOUS
  <2>2. Move(t, x)
    BY <1>3, <2>1
  <2>3. x.cpp = s.cpp /\ x.pending = d
    BY <1>2, <2>1, GivenTo
  <2> QED
    BY <1>1, <1>3, <2>2, <2>3, Leaves
<1>4. ASSUME NEW f \in {<<>>} \cup {<<[type |-> c, throwable |-> <<>>]>> : c \in CppTypes \ {"JniException"}},
             Initialize(t, f)
      PROVE  HandsOn(t)
  <2>1. f \in Seq(Exceptions)
    <3>1. \A e \in Exceptions : <<e>> \in Seq(Exceptions)
      OBVIOUS
    <3>2. \A c \in CppTypes \ {"JniException"} : <<[type |-> c, throwable |-> <<>>]>> \in Seq(Exceptions)
      BY <3>1, MadeAre
    <3>3. <<>> \in Seq(Exceptions)
      OBVIOUS
    <3> QED
      BY <3>2, <3>3
  <2>2. PICK d \in Seq(Names) : d = getJavaExceptionForCppException(f)
    BY <2>1, ChainArrives
  <2> QED
    BY <1>1, <1>3, <1>4, <2>2 DEF Initialize
<1>5. CASE JavaCatch(t)
  <2>1. <<>> \in Seq(Names)
    OBVIOUS
  <2> QED
    BY <1>1, <1>3, <1>5, <2>1 DEF JavaCatch
<1>6. ASSUME NEW id \in Throwables, JavaThrow(t, id) PROVE HandsOn(t)
  <2>1. <<id>> \in Seq(Names)
    BY DEF Names
  <2> QED
    BY <1>1, <1>3, <1>6, <2>1 DEF JavaThrow
<1> QED
  BY <1>4, <1>5, <1>6

\* Steps after which C++ is handling an exception, and the attempts at them
\* that succeed instead.
LEMMA RaisingSteps ==
  ASSUME ExceptionsInv, NEW t \in Threads,
         \/ EnterScope(t) \/ CallJava(t) \/ LookupFails(t)
         \/ CppThrow(t) \/ CppNest(t) \/ mapException(t)
         \/ throwPendingJniExceptionAsCppException(t)
  PROVE  HandsOn(t)
<1>1. PICK s : s = th[t]
  OBVIOUS
<1>2. Whole(s) /\ ExceptionsOK(s)
  BY <1>1, ThreadIs
<1>3. ASSUME NEW c \in Seq(Exceptions), c # <<>>, Move(t, [s EXCEPT !.cpp = c]) PROVE HandsOn(t)
  <2>1. PICK x : x = [s EXCEPT !.cpp = c]
    OBVIOUS
  <2>2. Move(t, x)
    BY <1>3, <2>1
  <2>3. x.cpp = c /\ x.pending = s.pending
    BY <1>2, <2>1, GivenTo
  <2>4. x.pending \in Seq(Names)
    BY <1>2, <2>3 DEF ExceptionsOK
  <2> QED
    BY <1>3, <2>2, <2>3, <2>4, Raises
<1>4. ASSUME NEW e \in Exceptions, Move(t, [s EXCEPT !.cpp = <<e>>]) PROVE HandsOn(t)
  <2>1. <<e>> \in Seq(Exceptions) /\ <<e>> # <<>>
    OBVIOUS
  <2> QED
    BY <1>3, <1>4, <2>1
<1>5. ASSUME NEW x, Move(t, x), SameExceptions(x, s) PROVE HandsOn(t)
  BY <1>1, <1>5, LeavesAll
<1>6. PICK e0 : e0 = [type |-> "runtime_error", throwable |-> <<>>]
  OBVIOUS
<1>7. PICK e1 : e1 = [type |-> "JniException", throwable |-> <<"NoSuchMethodError">>]
  OBVIOUS
<1>8. e0 \in Exceptions /\ e1 \in Exceptions
  BY <1>6, <1>7, MadeAre
<1>9. CASE EnterScope(t)
  <2>1. Move(t, [s EXCEPT !.cpp = <<e0>>]) \/ Move(t, ThreadScope(s))
    BY <1>1, <1>6, <1>9 DEF EnterScope
  <2>2. SameExceptions(ThreadScope(s), s)
    BY <1>2, ScopeKeeps
  <2> QED
    BY <1>4, <1>5, <1>8, <2>1, <2>2
<1>10. CASE CallJava(t)
  <2>1. PICK f : f = Frame("java", FALSE, FALSE, FALSE)
    OBVIOUS
  <2>2. Move(t, [s EXCEPT !.cpp = <<e0>>]) \/ Move(t, Push(s, f))
    BY <1>1, <1>6, <1>10, <2>1 DEF CallJava
  <2>3. SameExceptions(Push(s, f), s)
    BY <1>2, PushKeeps
  <2> QED
    BY <1>4, <1>5, <1>8, <2>2, <2>3
<1>11. CASE LookupFails(t)
  <2>1. Move(t, [s EXCEPT !.cpp = <<e0>>]) \/ Move(t, [s EXCEPT !.cpp = <<e1>>])
    BY <1>1, <1>6, <1>7, <1>11 DEF LookupFails
  <2> QED
    BY <1>4, <1>8, <2>1
<1>12. CASE CppThrow(t) \/ mapException(t)
  <2>1. PICK e \in NewExceptions(s) : Move(t, [s EXCEPT !.cpp = <<e>>])
    BY <1>1, <1>12 DEF CppThrow, mapException
  <2>2. e \in Exceptions
    BY <2>1, MadeAre
  <2> QED
    BY <1>4, <2>1, <2>2
<1>13. CASE CppNest(t)
  <2>1. PICK e \in NewExceptions(s) : Move(t, [s EXCEPT !.cpp = <<e>> \o @])
    BY <1>1, <1>13 DEF CppNest
  <2>2. e \in Exceptions /\ s.cpp \in Seq(Exceptions)
    BY <1>2, <2>1, MadeAre DEF ExceptionsOK
  <2>3. PICK q \in Seq(Exceptions) : q = s.cpp
    BY <2>2
  <2>4. PICK c : c = <<e>> \o q
    OBVIOUS
  <2>5. c \in Seq(Exceptions) /\ c # <<>>
    BY <2>2, <2>4
  <2>6. Move(t, [s EXCEPT !.cpp = c])
    BY <2>1, <2>3, <2>4
  <2> QED
    BY <1>3, <2>5, <2>6
<1>14. CASE throwPendingJniExceptionAsCppException(t)
  <2>1. PICK e : e = [type |-> "JniException", throwable |-> s.pending]
    OBVIOUS
  <2>2. PICK y : y = Pop(s)
    OBVIOUS
  <2>3. PICK c : c = <<e>>
    OBVIOUS
  <2>4. PICK x : x = [y EXCEPT !.pending = <<>>, !.cpp = c]
    OBVIOUS
  <2>5. s.pending # <<>> /\ Move(t, x)
    BY <1>1, <1>14, <2>1, <2>2, <2>3, <2>4 DEF throwPendingJniExceptionAsCppException
  <2>6. s.pending \in Seq(Names)
    BY <1>2 DEF ExceptionsOK
  <2>7. e \in Exceptions
    BY <2>1, <2>5, <2>6, MadeAre
  <2>8. c \in Seq(Exceptions) /\ c # <<>>
    BY <2>3, <2>7
  <2>9. Whole(y)
    BY <1>2, <2>2, PopKeeps DEF SameExceptions
  <2>10. x.cpp = c /\ x.pending = <<>>
    BY <2>4, <2>9, GivenTo
  <2>11. <<>> \in Seq(Names)
    OBVIOUS
  <2> QED
    BY <2>5, <2>8, <2>10, <2>11, Raises
<1> QED
  BY <1>9, <1>10, <1>11, <1>12, <1>13, <1>14

\* C++ handles its exception: the frame it is in stays.
LEMMA CatchStep ==
  ASSUME ExceptionsInv, NEW t \in Threads, CppCatch(t)
  PROVE  HandsOn(t)
<1>1. PICK s : s = th[t]
  OBVIOUS
<1>2. ThreadOK(s) /\ Whole(s) /\ ExceptionsOK(s)
  BY <1>1, ThreadIs
<1>3. PICK y : y = ThreadScopeGone(ThreadScope(s))
  OBVIOUS
<1>4. SameExceptions(y, s)
  <2>1. SameExceptions(ThreadScope(s), s)
    BY <1>2, ScopeKeeps
  <2> QED
    BY <1>3, <2>1, ScopeGoneKeeps DEF SameExceptions
<1>5. y.stack = s.stack
  BY <1>2, <1>3, ScopeAlone, CachedIsAttached
<1>6. PICK z : z = IF HoldsJniException(s) THEN y ELSE s
  OBVIOUS
<1>7. Whole(z) /\ z.pending = s.pending /\ z.stack = s.stack
  BY <1>2, <1>4, <1>5, <1>6 DEF SameExceptions
<1>8. PICK x : x = [z EXCEPT !.cpp = <<>>]
  OBVIOUS
<1>9. Move(t, x)
  BY <1>1, <1>3, <1>6, <1>8 DEF CppCatch
<1>10. x.cpp = <<>> /\ x.pending = s.pending /\ x.stack = s.stack
  BY <1>7, <1>8, GivenTo
<1>11. Top(x) = Top(s)
  BY <1>10 DEF Top
<1>12. ExceptionsOK(x)
  BY <1>2, <1>10 DEF ExceptionsOK
<1> QED
  BY <1>1, <1>9, <1>11, <1>12 DEF HandsOn, Crosses, Move

\* The catch clause of a wrapper: what it leaves pending is what denest made.
LEMMA TranslateStep ==
  ASSUME ExceptionsInv, NEW t \in Threads, translatePendingCppExceptionToJavaException(t)
  PROVE  HandsOn(t)
<1>1. PICK s : s = th[t]
  OBVIOUS
<1>2. Whole(s) /\ ExceptionsOK(s)
  BY <1>1, ThreadIs
<1>3. PICK a : a = getJavaExceptionForCppException(s.cpp)
  OBVIOUS
<1>4. PICK y : y = JniEnvCacherGone(s)
  OBVIOUS
<1>5. PICK x : x = [y EXCEPT !.cpp = <<>>, !.pending = a]
  OBVIOUS
<1>6. s.cpp # <<>> /\ Move(t, x) /\ dead' = (a = <<>>)
  BY <1>1, <1>3, <1>4, <1>5 DEF translatePendingCppExceptionToJavaException
<1>7. Whole(y)
  BY <1>2, <1>4, CacherGoneKeeps DEF SameExceptions
<1>8. x.cpp = <<>> /\ x.pending = a
  BY <1>5, <1>7, GivenTo
<1>9. a \in Seq(Names) /\ (a # <<>> => Arrived(a, s.cpp))
  BY <1>2, <1>3, <1>6, ChainArrives DEF ExceptionsOK
<1>10. ExceptionsOK(x)
  BY <1>8, <1>9 DEF ExceptionsOK
<1> QED
  BY <1>1, <1>6, <1>8, <1>9, <1>10 DEF HandsOn, Move

\* Every step is one of these.
LEMMA SomeThreadHands ==
  ASSUME ExceptionsInv, CallsNext
  PROVE  \E t \in Threads : HandsOn(t)
<1>1. PICK t \in Threads :
        \/ \E f \in {<<>>} \cup {<<[type |-> c, throwable |-> <<>>]>> : c \in CppTypes \ {"JniException"}} :
               Initialize(t, f)
        \/ CallNative(t) \/ NativeReturn(t)
        \/ translatePendingCppExceptionToJavaException(t)
        \/ EnterScope(t) \/ LeaveScope(t)
        \/ EnterExt(t) \/ LeaveExt(t)
        \/ ensureCurrentThreadIsAttached(t)
        \/ CallJava(t) \/ LookupFails(t) \/ GetOrSetField(t) \/ WithClassLoader(t)
        \/ JavaReturn(t) \/ JavaCatch(t)
        \/ \E id \in Throwables : JavaThrow(t, id)
        \/ throwPendingJniExceptionAsCppException(t)
        \/ CppThrow(t) \/ CppNest(t) \/ mapException(t)
        \/ populateWhat(t) \/ CppCatch(t) \/ Uncaught(t)
  BY DEF CallsNext
<1>2. HandsOn(t)
  BY <1>1, FrameSteps, JavaExceptionSteps, RaisingSteps, CatchStep, TranslateStep
<1> QED
  BY <1>2

\* No exceptions at first.
LEMMA ExceptionsInitially ==
  ASSUME CallsInit
  PROVE  ExceptionsInv
<1>1. <<>> \in Seq(Exceptions) /\ <<>> \in Seq(Names)
  OBVIOUS
<1>2. ASSUME NEW t \in Threads PROVE ExceptionsOK(th[t])
  <2>1. PICK java \in BOOLEAN : th[t] = Thread(java)
    BY DEF CallsInit
  <2>2. th[t].cpp = <<>> /\ th[t].pending = <<>>
    BY <2>1 DEF Thread
  <2> QED
    BY <1>1, <2>2 DEF ExceptionsOK
<1> QED
  BY <1>2, CallsInitially DEF ExceptionsInv

\* What a step of one thread means for all.
LEMMA HandsAll ==
  ASSUME ExceptionsInv, CallsNext
  PROVE  /\ \A u \in Threads : ExceptionsOK(th'[u])
         /\ \A u \in Threads : Crosses(th[u], th'[u]) /\ ~dead' => Arrived(th'[u].pending, th[u].cpp)
<1>1. PICK t \in Threads : HandsOn(t)
  BY SomeThreadHands
<1>2. PICK x : /\ th' = [th EXCEPT ![t] = x] /\ ExceptionsOK(x)
               /\ Crosses(th[t], x) /\ ~dead' => Arrived(x.pending, th[t].cpp)
  BY <1>1 DEF HandsOn
<1>3. th'[t] = x /\ \A u \in Threads \ {t} : th'[u] = th[u]
  BY <1>2 DEF ExceptionsInv, CallsInv
<1>4. \A u \in Threads \ {t} : ExceptionsOK(th[u]) /\ ~Crosses(th[u], th'[u])
  BY <1>3 DEF ExceptionsInv, Crosses
<1> QED
  BY <1>2, <1>3, <1>4

\* The invariant of the exceptions is inductive.
LEMMA ExceptionsKeep ==
  ASSUME ExceptionsInv, [CallsNext]_callsVars
  PROVE  ExceptionsInv'
<1>1. CallsInv'
  BY CallsKeep DEF ExceptionsInv
<1>2. CASE UNCHANGED callsVars
  BY <1>1, <1>2 DEF ExceptionsInv, callsVars
<1>3. CASE CallsNext
  BY <1>1, <1>3, HandsAll DEF ExceptionsInv
<1> QED
  BY <1>2, <1>3

\* However deeply C++ exceptions are nested, and whatever calls they crossed,
\* the wrapper of a native method leaves Java a throwable for each of them,
\* outermost first and of the nearest class, and gives back the very throwable
\* that Java threw, unless one of them cannot take a cause (Exceptions.cpp:219-341).
THEOREM ExceptionsReachJava == CallsSpec => ExceptionsArrive
<1> DEFINE All == \A t \in Threads :
          (th[t].cpp # <<>> /\ Top(th[t]) = "native" /\ th'[t].cpp = <<>> /\ Top(th'[t]) # "native"
              /\ ~dead')
            => LET chain == th[t].cpp
                   arrived == th'[t].pending
               IN  /\ Len(arrived) >= Len(chain)
                   /\ \A i \in DOMAIN chain :
                         IF chain[i].type = "JniException"
                         THEN IF i = Len(chain)
                              THEN SubSeq(arrived, i, Len(arrived)) = chain[i].throwable
                              ELSE <<arrived[i]>> = chain[i].throwable
                         ELSE arrived[i] = NearestClass(chain[i].type)
<1>1. ExceptionsInv /\ CallsNext => All
  <2> SUFFICES ASSUME ExceptionsInv, CallsNext PROVE All
    OBVIOUS
  <2>1. \A u \in Threads : Crosses(th[u], th'[u]) /\ ~dead' => Arrived(th'[u].pending, th[u].cpp)
    BY HandsAll
  <2> QED
    BY <2>1, Zenon DEF Crosses, Arrived
<1>2. CallsInit => ExceptionsInv
  BY ExceptionsInitially
<1>3. ExceptionsInv /\ [CallsNext]_callsVars => ExceptionsInv'
  BY ExceptionsKeep
<1>4. ExceptionsInv /\ [CallsNext]_callsVars => [All]_callsVars
  BY <1>1
<1> QED
  BY <1>2, <1>3, <1>4, PTL DEF CallsSpec, ExceptionsArrive
=============================================================================
