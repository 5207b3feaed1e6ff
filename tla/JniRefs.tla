------------------------------- MODULE JniRefs -------------------------------
(***************************************************************************)
(* fbjni's smart references.  A local_ref, global_ref or weak_ref is a C++ *)
(* object that owns one entry of the VM's reference tables; alias_refs and *)
(* plain jobjects own nothing.  A slot is such a C++ object, or the place  *)
(* where one may be constructed; table holds the VM's references; loose    *)
(* are the references that no C++ object owns: only the caller's plain     *)
(* variables hold them, after release() or from a JNI call, or nobody does *)
(* any more (lost).                                                        *)
(***************************************************************************)
EXTENDS Naturals, FiniteSets

CONSTANTS Slots, Objects,
          MaxRefs,       \* bound on the references in the VM's tables
          MaxFrames      \* bound on nested local frames

ASSUME RefBoundsAssumption == MaxRefs \in Nat /\ MaxFrames \in Nat

VARIABLES slot,     \* kind "none" when no reference object lives there
          table,    \* the reference's type, object and local frame
          loose,    \* references that no owner holds
          lost,     \* those of them that no variable holds either
          raised,   \* a JNI call has left a Java exception that nobody looked for
          live,     \* objects not collected yet
          rooted,   \* objects that Java itself keeps reachable
          frame,    \* number of local frames pushed by JniLocalScope
          outcome   \* how the last operation ended

refVars == <<slot, table, loose, lost, raised, live, rooted, frame, outcome>>

Kinds == {"local", "global", "weak"}

Ids == 1..MaxRefs

NoRef == [type |-> "none", obj |-> "none", frame |-> 0]

Used == {r \in Ids : table[r].type # "none"}

Nowhere == [kind |-> "none", ref |-> 0]

RefsInit ==
    /\ slot = [s \in Slots |-> Nowhere]
    /\ table = [r \in Ids |-> NoRef]
    /\ loose = {} /\ lost = {} /\ raised = FALSE
    /\ live = Objects /\ rooted = Objects
    /\ frame = 0
    /\ outcome = "ok"

-----------------------------------------------------------------------------
(* The allocators: what NewLocalRef and its siblings may do. *)

\* The next free entry; 0 when there is none.
Fresh == IF Used = Ids THEN 0 ELSE CHOOSE r \in Ids \ Used : \A q \in Ids \ Used : r <= q

Refers(from) == from # 0 /\ table[from].obj \in live

\* New(type, from): the reference of that type to the object of from, which is
\* 0 for null and for a collected object.  Full tables give null, or an
\* exception that is thrown.  An exception that was pending before is thrown
\* as well, after the reference has been made.
Obtained(from) == IF Refers(from) /\ Fresh # 0 THEN {0, Fresh} ELSE {0}

newReference(type, from) ==
    IF raised THEN {[ref |-> n, thrown |-> TRUE] : n \in Obtained(from)}
    ELSE {[ref |-> n, thrown |-> FALSE] : n \in Obtained(from)}
           \cup (IF Refers(from) THEN {[ref |-> 0, thrown |-> TRUE]} ELSE {})

Entry(type, from) ==
    [type |-> type, obj |-> table[from].obj, frame |-> IF type = "local" THEN frame ELSE 0]

\* The tables after a new reference n (0: none) to the object of from has been
\* made and the references of gone have been deleted.
TableAfter(n, type, from, gone) ==
    [r \in Ids |-> IF r \in gone THEN NoRef
                   ELSE IF r = n /\ n # 0 THEN Entry(type, from) ELSE table[r]]

Done == outcome' = "ok" /\ UNCHANGED <<lost, raised>>

VmKeeps == UNCHANGED <<live, rooted, frame>>

Alive(s) == slot[s].kind # "none"

\* The Java exception, no longer pending, becomes a C++ one.  A reference n to
\* the object of from that was made before is nobody's.
Threw(n, type, from) ==
    /\ table' = TableAfter(n, type, from, {})
    /\ loose' = loose \cup ({n} \ {0}) /\ lost' = lost \cup ({n} \ {0})
    /\ slot' = slot /\ raised' = FALSE /\ outcome' = "thrown"

\* Slot s becomes the owner of the new reference n, or null.
Constructed(s, kind, n, from) ==
    /\ slot' = [slot EXCEPT ![s] = [kind |-> kind, ref |-> n]]
    /\ table' = TableAfter(n, kind, from, {})
    /\ loose' = loose /\ Done

ConstructedNull(s, kind) ==
    /\ slot' = [slot EXCEPT ![s] = [kind |-> kind, ref |-> 0]]
    /\ UNCHANGED <<table, loose>> /\ Done

-----------------------------------------------------------------------------
(* Construction. *)

\* What make_local, make_global and make_weak accept: anything but a weak_ref.
NonWeak == (loose \ lost) \cup {slot[s].ref : s \in {x \in Slots : slot[x].kind \in {"local", "global"}}}

\* adopt_XXX: the caller hands over a loose reference of the right type.
Adopt(s, kind) ==
    /\ ~Alive(s)
    /\ \E r \in (loose \ lost) \cup {0} :
          /\ r # 0 => table[r].type = kind
          /\ slot' = [slot EXCEPT ![s] = [kind |-> kind, ref |-> r]]
          /\ loose' = loose \ {r}
    /\ table' = table /\ Done /\ VmKeeps

\* make_local, make_global, make_weak: null becomes null, a reference that
\* cannot be made becomes std::bad_alloc.
make_ref(s, kind) ==
    /\ ~Alive(s)
    /\ \E from \in NonWeak :
          \/ from = 0 /\ ConstructedNull(s, kind)
          \/ /\ from # 0
             /\ \E new \in newReference(kind, from) :
                   IF new.thrown \/ new.ref = 0 THEN Threw(new.ref, kind, from)
                   ELSE Constructed(s, kind, new.ref, from)
    /\ VmKeeps

\* static_ref_cast is noexcept: what make_ref throws ends the process.
static_ref_cast(s, o) ==
    /\ ~Alive(s) /\ slot[o].kind \in {"local", "global"}
    /\ \/ slot[o].ref = 0 /\ ConstructedNull(s, slot[o].kind)
       \/ /\ slot[o].ref # 0
          /\ \E new \in newReference(slot[o].kind, slot[o].ref) :
                IF new.thrown \/ new.ref = 0
                THEN UNCHANGED <<slot, table, loose, lost, raised>> /\ outcome' = "terminated"
                ELSE Constructed(s, slot[o].kind, new.ref, slot[o].ref)
    /\ VmKeeps

\* dynamic_ref_cast throws ClassCastException first, or casts.
dynamic_ref_cast(s, o) ==
    \/ /\ ~Alive(s) /\ slot[o].kind \in {"local", "global"} /\ slot[o].ref # 0
       /\ Threw(0, "none", 0) /\ VmKeeps
    \/ static_ref_cast(s, o)

\* The copy constructor trusts the allocator: null is taken for a value.
CopyConstruct(s, o) ==
    /\ ~Alive(s) /\ Alive(o)
    /\ \E new \in newReference(slot[o].kind, slot[o].ref) :
          IF new.thrown THEN Threw(new.ref, slot[o].kind, slot[o].ref)
          ELSE Constructed(s, slot[o].kind, new.ref, slot[o].ref)
    /\ VmKeeps

\* Slip: the source of a move keeps its reference.
MutMoveKeepsSource(s, o) ==
    /\ ~Alive(s) /\ Alive(o)
    /\ slot' = [slot EXCEPT ![s] = slot[o]]
    /\ UNCHANGED <<table, loose>> /\ Done /\ VmKeeps

MoveConstruct(s, o) ==
    /\ ~Alive(s) /\ Alive(o)
    /\ slot' = [slot EXCEPT ![s] = slot[o], ![o].ref = 0]
    /\ UNCHANGED <<table, loose>> /\ Done /\ VmKeeps

\* weak_ref::lockLocal and lockGlobal.
lock(s, o, kind) ==
    /\ ~Alive(s) /\ slot[o].kind = "weak"
    /\ \E new \in newReference(kind, slot[o].ref) :
          IF new.thrown THEN Threw(new.ref, kind, slot[o].ref)
          ELSE Constructed(s, kind, new.ref, slot[o].ref)
    /\ VmKeeps

-----------------------------------------------------------------------------
(* Assignment and the end of a reference. *)

\* Slip: the old reference is deleted before the copy is made.
MutAssignDeletesFirst(s, o) ==
    /\ Alive(s) /\ slot[o].kind = slot[s].kind
    /\ \E new \in newReference(slot[o].kind, slot[o].ref) :
          IF new.thrown
          THEN /\ slot' = [slot EXCEPT ![s].ref = 0]
               /\ table' = TableAfter(0, "none", 0, {slot[s].ref})
               /\ UNCHANGED <<loose, lost>> /\ raised' = FALSE /\ outcome' = "thrown"
          ELSE /\ slot' = [slot EXCEPT ![s].ref = new.ref]
               /\ table' = TableAfter(new.ref, slot[o].kind, slot[o].ref, {slot[s].ref})
               /\ loose' = loose /\ Done
    /\ VmKeeps

\* A copy is made, swapped in, and destroyed with the old reference.
CopyAssign(s, o) ==
    /\ Alive(s) /\ slot[o].kind = slot[s].kind
    /\ \E new \in newReference(slot[o].kind, slot[o].ref) :
          IF new.thrown THEN Threw(new.ref, slot[o].kind, slot[o].ref)
          ELSE /\ slot' = [slot EXCEPT ![s].ref = new.ref]
               /\ table' = TableAfter(new.ref, slot[o].kind, slot[o].ref, {slot[s].ref})
               /\ loose' = loose /\ Done
    /\ VmKeeps

\* reset(other.release()), the assignment to itself included.
MoveAssign(s, o) ==
    /\ Alive(s) /\ slot[o].kind = slot[s].kind
    /\ slot' = [slot EXCEPT ![o].ref = 0, ![s].ref = slot[o].ref]
    /\ table' = TableAfter(0, "none", 0, IF s = o THEN {} ELSE {slot[s].ref})
    /\ loose' = loose /\ Done /\ VmKeeps

swap(s, o) ==
    /\ s # o /\ Alive(s) /\ slot[o].kind = slot[s].kind
    /\ slot' = [slot EXCEPT ![s] = slot[o], ![o] = slot[s]]
    /\ UNCHANGED <<table, loose>> /\ Done /\ VmKeeps

release(s) ==
    /\ Alive(s) /\ slot[s].ref # 0
    /\ slot' = [slot EXCEPT ![s].ref = 0]
    /\ loose' = loose \cup {slot[s].ref}
    /\ table' = table /\ Done /\ VmKeeps

reset(s) ==
    /\ Alive(s)
    /\ slot' = [slot EXCEPT ![s].ref = 0]
    /\ table' = TableAfter(0, "none", 0, {slot[s].ref})
    /\ loose' = loose /\ Done /\ VmKeeps

Destroy(s) ==
    /\ Alive(s)
    /\ slot' = [slot EXCEPT ![s] = Nowhere]
    /\ table' = TableAfter(0, "none", 0, {slot[s].ref})
    /\ loose' = loose /\ Done /\ VmKeeps

-----------------------------------------------------------------------------
(* The scope of local references, and the VM around it. *)

\* The push may fail, and then throws before the scope object exists.
PushLocalFrame ==
    /\ \/ /\ frame < MaxFrames /\ frame' = frame + 1
          /\ UNCHANGED <<slot, table, loose>> /\ Done
       \/ frame' = frame /\ Threw(0, "none", 0)
    /\ UNCHANGED <<live, rooted>>

\* Local references of the frame die with it.  The caller must not keep an
\* owner of one beyond the scope.
PopLocalFrame ==
    LET dying == {r \in Ids : table[r].type = "local" /\ table[r].frame = frame}
    IN  /\ frame > 0
        /\ \A s \in Slots : slot[s].ref \notin dying
        /\ table' = TableAfter(0, "none", 0, dying)
        /\ loose' = loose \ dying /\ lost' = lost \ dying
        /\ frame' = frame - 1 /\ outcome' = "ok"
        /\ UNCHANGED <<slot, raised, live, rooted>>

\* A JNI call returns a local reference to something Java can reach.  Java is
\* not called while an exception is pending.
JniReturns(x) ==
    /\ ~raised /\ x \in rooted /\ Fresh # 0
    /\ table' = [table EXCEPT ![Fresh] = [type |-> "local", obj |-> x, frame |-> frame]]
    /\ loose' = loose \cup {Fresh}
    /\ Done /\ UNCHANGED <<slot, live, rooted, frame>>

\* A JNI call throws and nobody looks, as in JArrayClass::setElement.
CallUnchecked ==
    /\ ~raised /\ raised' = TRUE /\ outcome' = "ok"
    /\ UNCHANGED <<slot, table, loose, lost, live, rooted, frame>>

\* The next check finds the pending exception.
ThrowPending == raised /\ Threw(0, "none", 0) /\ VmKeeps

DeleteLoose(r) ==
    /\ r \in loose \ lost
    /\ table' = [table EXCEPT ![r] = NoRef]
    /\ loose' = loose \ {r}
    /\ Done /\ UNCHANGED <<slot, live, rooted, frame>>

JavaDrops(x) ==
    /\ x \in rooted
    /\ rooted' = rooted \ {x}
    /\ UNCHANGED <<slot, table, loose, lost, raised, live, frame, outcome>>

Collect(x) ==
    /\ x \in live \ rooted
    /\ \A r \in Used : table[r].obj = x => table[r].type = "weak"
    /\ live' = live \ {x}
    /\ UNCHANGED <<slot, table, loose, lost, raised, rooted, frame, outcome>>

RefsNext ==
    /\ outcome # "terminated"
    /\ \/ \E s \in Slots :
             \/ \E kind \in Kinds : Adopt(s, kind) \/ make_ref(s, kind)
             \/ release(s) \/ reset(s) \/ Destroy(s)
             \/ \E o \in Slots :
                   \/ dynamic_ref_cast(s, o) \/ CopyConstruct(s, o) \/ MoveConstruct(s, o)
                   \/ CopyAssign(s, o) \/ MoveAssign(s, o) \/ swap(s, o)
                   \/ \E kind \in {"local", "global"} : lock(s, o, kind)
       \/ PushLocalFrame \/ PopLocalFrame \/ CallUnchecked \/ ThrowPending
       \/ \E x \in Objects : JniReturns(x) \/ JavaDrops(x) \/ Collect(x)
       \/ \E r \in Ids : DeleteLoose(r)

RefsSpec == RefsInit /\ [][RefsNext]_refVars

-----------------------------------------------------------------------------
\* Through any sequence of copies, moves, self-assignments, swaps, casts,
\* releases and failures, every reference in the VM's tables has exactly one
\* owner or none, and then it is the caller's or lost; every owner's reference
\* exists and is of the owner's kind: nothing dangles or is deleted twice or
\* with the wrong function, and what leaks is what ThrowChangesNothing allows.
OwnedOnce ==
    /\ \A s \in Slots : slot[s].ref # 0 => table[slot[s].ref].type = slot[s].kind
    /\ \A r \in Used : Cardinality({s \in Slots : slot[s].ref = r}) + (IF r \in loose THEN 1 ELSE 0) = 1
    /\ loose \subseteq Used /\ lost \subseteq loose

\* An operation that throws has changed no owner and no reference: the copy of
\* operator= is made before the old reference is given up.  If it throws an
\* exception that was pending before, it may leave a new reference that is
\* lost; nothing is lost in any other way.
ThrowChangesNothing ==
    [][/\ outcome' \in {"thrown", "terminated"} =>
             /\ slot' = slot /\ loose' \ lost' = loose \ lost
             /\ \A r \in Used : table'[r] = table[r]
             /\ ~raised => table' = table
       /\ lost' \subseteq lost \/ (raised /\ ~raised' /\ outcome' = "thrown")]_refVars

=============================================================================
