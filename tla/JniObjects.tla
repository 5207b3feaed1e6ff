----------------------------- MODULE JniObjects -----------------------------
(***************************************************************************)
(* The RAII classes of fbjni that hold something other than a reference:   *)
(* PinnedPrimitiveArray (a buffer pinned or copied by the VM, or copied    *)
(* into C++ memory), MonitorLock (a Java monitor), the native pointer of a *)
(* hybrid object, and the C++ iterator over a Java collection.             *)
(***************************************************************************)
EXTENDS Integers, FiniteSets, Sequences

CONSTANTS Pins, Buffers, Locks, Hybrids, Parts,
          Elements         \* the collection that is iterated, a sequence

ASSUME NullAssumption == "null" \notin Buffers \cup Parts
ASSUME LocksAssumption == IsFiniteSet(Locks)
ASSUME ElementsAssumption == Len(Elements) \in Nat

VARIABLES pin,      \* PinnedPrimitiveArray objects: kind, array_ set, elements_
          buf,      \* what became of each buffer
          locks,    \* MonitorLock objects: they own a monitor or not
          depth,    \* how often this thread has entered the monitor
          part,     \* the C++ parts of hybrid objects
          field,    \* mNativePointer of each hybrid object
          iter,     \* an Iterator: i_, entry_, and the Java helper's position
          pending,  \* a Java exception is pending
          mishap,   \* "twice": something was freed that was not held;
                    \* "threw": giving a buffer back ended in an exception
          aborted

pinVars == <<pin, buf>>
lockVars == <<locks, depth>>
hybridVars == <<part, field>>
objVars == <<pin, buf, locks, depth, part, field, iter, pending, mishap, aborted>>

NoPin == [kind |-> "none", array |-> FALSE, elements |-> "null"]

\* stale: the last increment threw; copy: the iterator that it++ returned.
NoCopy == [i |-> -1, entry |-> "null", stale |-> FALSE]
NoIter == [i |-> -1, entry |-> "null", stale |-> FALSE, helper |-> 0, copy |-> NoCopy]

ObjectsInit ==
    /\ pin = [p \in Pins |-> NoPin]
    /\ buf = [b \in Buffers |-> "unused"]
    /\ locks = [m \in Locks |-> "none"]
    /\ depth = 0
    /\ part = [c \in Parts |-> "none"]
    /\ field = [h \in Hybrids |-> "null"]
    /\ iter = NoIter
    /\ pending = FALSE /\ mishap = {} /\ aborted = FALSE

-----------------------------------------------------------------------------
(* PinnedPrimitiveArray *)

PinOnly == UNCHANGED <<lockVars, hybridVars, iter, aborted>>

\* allocate: the array and region variants throw what is pending, the array one
\* after the VM has pinned; the critical one tests the wrong pointer, so a pin
\* that failed gives an object with array_ set and elements_ null.
Pin(p, kind, b) ==
    /\ pin[p].kind = "none" /\ buf[b] = "unused"
    /\ IF pending /\ kind # "critical"
       THEN /\ buf' = [buf EXCEPT ![b] = IF kind = "array" THEN "leaked" ELSE "freed"]
            /\ pending' = FALSE /\ pin' = pin
       ELSE /\ \/ /\ pin' = [pin EXCEPT ![p] = [kind |-> kind, array |-> TRUE, elements |-> b]]
                  /\ buf' = [buf EXCEPT ![b] = "held"]
               \/ /\ kind = "critical"
                  /\ pin' = [pin EXCEPT ![p] = [kind |-> kind, array |-> TRUE, elements |-> "null"]]
                  /\ buf' = buf
            /\ pending' = pending
    /\ mishap' = mishap /\ PinOnly

Throws(p, mode) ==
    CASE pin[p].kind = "array"    -> pending
      [] pin[p].kind = "critical" -> FALSE
      [] pin[p].kind = "region"   -> pending /\ mode # "abort"

Freed(p, mode) == IF mode = "commit" THEN {} ELSE {pin[p].elements} \ {"null"}

\* releaseImpl, then clear() unless it threw or was a commit; then is what the
\* object looks like afterwards.
ReleaseImpl(p, mode, then) ==
    /\ buf' = [b \in Buffers |-> IF b \in Freed(p, mode) THEN "freed" ELSE buf[b]]
    /\ mishap' = mishap \cup {x \in {"twice"} : \E b \in Freed(p, mode) : buf[b] # "held"}
                        \cup {x \in {"threw"} : Throws(p, mode)}
    /\ pending' = (pending /\ ~Throws(p, mode))
    /\ pin' = IF Throws(p, mode) THEN pin ELSE then

Cleared(p) == [pin EXCEPT ![p].array = FALSE, ![p].elements = "null"]

ReleasePin(p, mode) ==
    /\ pin[p].kind # "none" /\ pin[p].array
    /\ ReleaseImpl(p, mode, IF mode = "commit" THEN pin ELSE Cleared(p))
    /\ PinOnly

\* Without an array all three throw, and clear the pending exception.
ReleaseNothing(p) ==
    /\ pin[p].kind # "none" /\ ~pin[p].array
    /\ pending' = FALSE
    /\ UNCHANGED <<pin, buf, mishap>> /\ PinOnly

\* The move constructor: the target has no array yet.
MovePin(p, q) ==
    /\ pin[p].kind = "none" /\ pin[q].kind # "none"
    /\ pin' = [pin EXCEPT ![p] = pin[q], ![q] = [NoPin EXCEPT !.kind = pin[q].kind]]
    /\ UNCHANGED <<buf, mishap, pending>> /\ PinOnly

\* A target that holds an array is released first; a throw leaves both.
MoveAssignPin(p, q) ==
    /\ p # q /\ pin[p].kind # "none" /\ pin[q].kind = pin[p].kind
    /\ LET moved == [pin EXCEPT ![p] = pin[q], ![q] = [NoPin EXCEPT !.kind = pin[q].kind]]
       IN  IF pin[p].array THEN ReleaseImpl(p, "release", moved)
           ELSE pin' = moved /\ UNCHANGED <<buf, mishap, pending>>
    /\ PinOnly

\* The destructor is noexcept: a throw ends the process.
DestroyPin(p) ==
    /\ pin[p].kind # "none"
    /\ IF pin[p].elements = "null"
       THEN pin' = [pin EXCEPT ![p] = NoPin] /\ UNCHANGED <<buf, mishap, pending, aborted>>
       ELSE /\ ReleaseImpl(p, "release", [pin EXCEPT ![p] = NoPin])
            /\ aborted' = Throws(p, "release")
    /\ UNCHANGED <<lockVars, hybridVars, iter>>

\* An unchecked call leaves its exception behind.
LeavePending ==
    /\ ~pending
    /\ pending' = TRUE
    /\ UNCHANGED <<pinVars, lockVars, hybridVars, iter, mishap, aborted>>

-----------------------------------------------------------------------------
(* MonitorLock *)

Lock(m) ==
    /\ locks[m] = "none"
    /\ locks' = [locks EXCEPT ![m] = "owns"]
    /\ depth' = depth + 1
    /\ UNCHANGED <<pinVars, hybridVars, iter, pending, mishap, aborted>>

\* reset aborts on any pending exception, which it takes for a lock mismatch.
Unlocks(m) ==
    /\ depth' = IF locks[m] = "owns" THEN depth - 1 ELSE depth
    /\ aborted' = (locks[m] = "owns" /\ pending)

LockGone(m) ==
    /\ locks[m] # "none"
    /\ Unlocks(m)
    /\ locks' = [locks EXCEPT ![m] = "none"]
    /\ UNCHANGED <<pinVars, hybridVars, iter, pending, mishap>>

MoveLock(m, n) ==
    /\ locks[m] = "none" /\ locks[n] # "none"
    /\ locks' = [locks EXCEPT ![m] = locks[n], ![n] = "empty"]
    /\ depth' = depth
    /\ UNCHANGED <<pinVars, hybridVars, iter, pending, mishap, aborted>>

\* Slip: the target forgets the monitor it owns.
MutMoveAssignForgets(m, n) ==
    /\ locks[m] # "none" /\ locks[n] # "none" /\ m # n
    /\ locks' = [locks EXCEPT ![m] = locks[n], ![n] = "empty"]
    /\ depth' = depth /\ aborted' = aborted
    /\ UNCHANGED <<pinVars, hybridVars, iter, pending, mishap>>

MoveAssignLock(m, n) ==
    /\ locks[m] # "none" /\ locks[n] # "none"
    /\ Unlocks(m)
    /\ locks' = [locks EXCEPT ![m] = IF m = n THEN "empty" ELSE locks[n], ![n] = "empty"]
    /\ UNCHANGED <<pinVars, hybridVars, iter, pending, mishap>>

-----------------------------------------------------------------------------
(* Hybrid objects *)

HybridOnly == UNCHANGED <<pinVars, lockVars, iter, pending>>

\* newObjectCxxArgs and makeCxxInstance: the unique_ptr deletes the part when
\* Java throws before the pointer is stored.
NewObjectCxxArgs(h, c) ==
    /\ field[h] = "null" /\ part[c] = "none"
    /\ \/ field' = [field EXCEPT ![h] = c] /\ part' = [part EXCEPT ![c] = "held"]
       \/ field' = field /\ part' = [part EXCEPT ![c] = "deleted"]
    /\ UNCHANGED <<mishap, aborted>> /\ HybridOnly

\* setNativePointer on an object that has a part: fatal with a new part,
\* deletes the old one with null.
SetNativePointerTwice(h, c) ==
    /\ field[h] # "null" /\ part[c] = "none"
    /\ aborted' = TRUE
    /\ UNCHANGED <<part, field, mishap>> /\ HybridOnly

SetNativePointerNull(h) ==
    /\ field[h] # "null"
    /\ part' = [part EXCEPT ![field[h]] = "deleted"]
    /\ mishap' = mishap \cup {x \in {"twice"} : part[field[h]] # "held"}
    /\ field' = [field EXCEPT ![h] = "null"]
    /\ aborted' = aborted /\ HybridOnly

\* Java's Destructor, once the object is unreachable: deleteNative, then null.
DeleteNative(h) ==
    /\ field[h] # "null"
    /\ part' = [part EXCEPT ![field[h]] = "deleted"]
    /\ mishap' = mishap \cup {x \in {"twice"} : part[field[h]] # "held"}
    /\ field' = [field EXCEPT ![h] = "null"]
    /\ aborted' = aborted /\ HybridOnly

-----------------------------------------------------------------------------
(* Iterator: the helper's hasNext advances the Java iterator. *)

IterOnly == UNCHANGED <<pinVars, lockVars, hybridVars, pending, mishap, aborted>>

PreIncrement(it) ==
    IF it.helper < Len(Elements)
    THEN [it EXCEPT !.i = @ + 1, !.helper = @ + 1, !.entry = Elements[it.helper + 1], !.stale = FALSE]
    ELSE [it EXCEPT !.i = -1, !.entry = "null", !.stale = FALSE]

Begin ==
    /\ iter.helper = 0
    /\ iter' = PreIncrement(NoIter)
    /\ IterOnly

Increment ==
    /\ iter.i # -1
    /\ iter' = PreIncrement([iter EXCEPT !.copy = NoCopy])
    /\ IterOnly

\* The copy that it++ returns takes the entry with it.
PostIncrement ==
    /\ iter.i # -1
    /\ iter' = PreIncrement([iter EXCEPT !.entry = "null",
                                !.copy = [i |-> iter.i, entry |-> iter.entry, stale |-> iter.stale]])
    /\ IterOnly

\* next() throws on an element of another class: the index has moved already.
IncrementThrows ==
    /\ iter.i # -1 /\ iter.helper < Len(Elements)
    /\ iter' = [iter EXCEPT !.i = @ + 1, !.helper = @ + 1, !.stale = TRUE]
    /\ IterOnly

HandlesNext ==
    /\ ~aborted
    /\ \/ \E p \in Pins :
             \/ \E kind \in {"array", "critical", "region"}, b \in Buffers : Pin(p, kind, b)
             \/ \E mode \in {"release", "commit", "abort"} : ReleasePin(p, mode)
             \/ ReleaseNothing(p) \/ DestroyPin(p)
             \/ \E q \in Pins : MovePin(p, q) \/ MoveAssignPin(p, q)
       \/ LeavePending
       \/ \E m \in Locks : Lock(m) \/ LockGone(m) \/ \E n \in Locks : MoveLock(m, n) \/ MoveAssignLock(m, n)
       \/ \E h \in Hybrids : \/ \E c \in Parts : NewObjectCxxArgs(h, c) \/ SetNativePointerTwice(h, c)
                             \/ SetNativePointerNull(h) \/ DeleteNative(h)

IterationNext == Begin \/ Increment \/ PostIncrement \/ IncrementThrows

ObjectsSpec == ObjectsInit /\ [][HandlesNext \/ IterationNext]_objVars

-----------------------------------------------------------------------------
\* Whatever is moved, assigned, committed, aborted and destroyed in any order,
\* what a C++ object believes it holds is held, by it alone, and is given back
\* once, as long as no buffer is given back while an exception is pending: a
\* pinned buffer outlives the elements_ that point to it, the monitor is entered
\* as often as MonitorLocks own it, and a native pointer leads to a live part.
\* The C++ iterator compares equal to end() exactly when Java has no element
\* left, and both it and the copy that it++ returned hold the element of their
\* index, unless the increment that went there threw.
HeldOnce ==
    /\ "threw" \notin mishap =>
          /\ "twice" \notin mishap
          /\ \A b \in Buffers : buf[b] = "held" <=> Cardinality({p \in Pins : pin[p].elements = b}) = 1
    /\ ~aborted => depth = Cardinality({m \in Locks : locks[m] = "owns"})
    /\ \A c \in Parts : part[c] = "held" <=> Cardinality({h \in Hybrids : field[h] = c}) = 1
    /\ iter.i = -1 => iter.helper \in {0, Len(Elements)} /\ iter.entry = "null"
    /\ iter.i # -1 => iter.i + 1 = iter.helper
    /\ \A it \in {iter, iter.copy} : it.i # -1 /\ ~it.stale => it.entry = Elements[it.i + 1]
=============================================================================
